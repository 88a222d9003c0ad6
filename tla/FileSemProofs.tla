---------------------------- MODULE FileSemProofs ----------------------------
(***************************************************************************)
(* Proofs about FileSem: for any processes and lists of files, started and *)
(* killed at any point, a semaphore that was set, and not while a process  *)
(* was inside, admits one process, and the consumers print what LineLog    *)
(* promises.                                                               *)
(***************************************************************************)
EXTENDS FileSem, FiniteSetTheorems

-----------------------------------------------------------------------------
(* The inductive invariant. *)

\* The places between sem_wait and sem_post, and those from which a process gets there
\* without sem_set.
Places == {"open", "use", "post"}
Working == Places \cup {"wait"}

\* p has set the semaphore it uses for its file i, in the loop before its endless one.
Has(p, i) == pc[p] \in Working \/ (pc[p] \in {"key", "set"} /\ i < at[p])

\* What the semaphore of a key and the processes inside amount to.
Sum(k) == sem[k] + Cardinality(Inside(k))

\* No semaphore is above what its processes can give back, and one that a process has set
\* is worth 1 unless it is broken or orphaned.
Tokens ==
    /\ \A k \in Key : Sum(k) <= Cardinality(Process) + 1
    /\ \A k \in Key \ (broken \cup orphaned) :
          \A p \in Process : \A i \in DOMAIN Files[p] :
              Has(p, i) /\ key[p][i] = k => Sum(k) = 1
    /\ \A p \in Process : pc[p] = "off" => at[p] = 1

\* A consumer has printed as many pairs as it has read lines.
Printed == \A r \in Reader : Len(out[r]) = offset[r]

IInv == TypeOK /\ Tokens /\ Printed

-----------------------------------------------------------------------------
(* Processes and their keys. *)

LEMMA ProcessFinite == ConstantAssumption => Cardinality(Process) \in Nat
BY FS_CardinalityType DEF ConstantAssumption

LEMMA InsideFinite ==
    ASSUME ConstantAssumption, NEW k
    PROVE  /\ IsFiniteSet(Inside(k)) /\ Cardinality(Inside(k)) \in Nat
           /\ Cardinality(Inside(k)) <= Cardinality(Process)
BY FS_Subset, FS_CardinalityType DEF ConstantAssumption, Inside

\* The file a process is at, and the key it uses.
LEMMA At ==
    ASSUME ConstantAssumption, TypeOK, NEW p \in Process
    PROVE  /\ Len(Files[p]) \in Nat /\ DOMAIN Files[p] = 1 .. Len(Files[p])
           /\ at[p] \in 1 .. Len(Files[p])
           /\ Name(p) \in File /\ MyKey(p) \in Key
           /\ \A i \in DOMAIN Files[p] : key[p][i] \in Key /\ Files[p][i] \in File
<1>1. Files[p] \in Seq(File) /\ key[p] \in Seq(Key)
  BY DEF ConstantAssumption, TypeOK
<1>2. Len(Files[p]) \in Nat /\ DOMAIN Files[p] = 1 .. Len(Files[p])
  BY <1>1, LenProperties
<1>3. \A i \in DOMAIN Files[p] : key[p][i] \in Key /\ Files[p][i] \in File
  <2>1. DOMAIN key[p] = DOMAIN Files[p]
    BY DEF TypeOK
  <2> QED BY <1>1, <2>1
<1> QED BY <1>2, <1>3 DEF TypeOK, Name, MyKey

\* The lines of a reader's file.
LEMMA LinesOfReader ==
    ASSUME ConstantAssumption, TypeOK, NEW r \in Reader
    PROVE  Files[r[1]][r[2]] \in File /\ Len(file[Files[r[1]][r[2]]]) \in Nat
<1>1. PICK c \in Consumer : r[1] = c /\ r[2] \in DOMAIN Files[c]
  BY DEF Reader
<1>2. Files[r[1]][r[2]] \in File
  BY <1>1, At DEF Process
<1> QED BY <1>2, LenProperties DEF TypeOK

\* A process may move, and change its file and its keys, while the others stay: who is
\* inside a semaphore.
LEMMA Moves ==
    ASSUME ConstantAssumption, NEW p \in Process, NEW k,
           \A x \in Process \ {p} : pc'[x] = pc[x] /\ at'[x] = at[x] /\ key'[x] = key[x]
    PROVE  /\ p \in Inside(k) /\ p \in Inside(k)' => Inside(k)' = Inside(k)
           /\ p \notin Inside(k) /\ p \notin Inside(k)' => Inside(k)' = Inside(k)
           /\ p \in Inside(k) /\ p \notin Inside(k)'
                 => Cardinality(Inside(k)') = Cardinality(Inside(k)) - 1
           /\ p \notin Inside(k) /\ p \in Inside(k)'
                 => Cardinality(Inside(k)') = Cardinality(Inside(k)) + 1
<1>1. \A x \in Process \ {p} : x \in Inside(k)' <=> x \in Inside(k)
  BY DEF Inside, MyKey
<1>2. Inside(k) \subseteq Process /\ Inside(k)' \subseteq Process
  BY DEF Inside
<1>3. Inside(k)' = IF p \in Inside(k)' THEN Inside(k) \cup {p} ELSE Inside(k) \ {p}
  BY <1>1, <1>2
<1>4. CASE p \in Inside(k)'
  <2>1. Inside(k)' = Inside(k) \cup {p}
    BY <1>3, <1>4
  <2>2. p \notin Inside(k) => Cardinality(Inside(k)') = Cardinality(Inside(k)) + 1
    BY <2>1, InsideFinite, FS_AddElement
  <2>3. p \in Inside(k) => Inside(k)' = Inside(k)
    BY <2>1
  <2> QED BY <1>4, <2>2, <2>3
<1>5. CASE p \notin Inside(k)'
  <2>1. Inside(k)' = Inside(k) \ {p}
    BY <1>3, <1>5
  <2>2. p \in Inside(k) => Cardinality(Inside(k)') = Cardinality(Inside(k)) - 1
    BY <2>1, InsideFinite, FS_RemoveElement
  <2>3. p \notin Inside(k) => Inside(k)' = Inside(k)
    BY <2>1
  <2> QED BY <1>5, <2>2, <2>3
<1> QED BY <1>4, <1>5

LEMMA InvInit == ConstantAssumption /\ Init => IInv
<1> SUFFICES ASSUME ConstantAssumption, Init PROVE IInv
  OBVIOUS
<1>1. \A p \in Process : /\ pc[p] = "off" /\ at[p] = 1
                         /\ Files[p] \in Seq(File) /\ Files[p] # <<>>
  BY DEF Init, ConstantAssumption
<1>2. \A p \in Process : Len(Files[p]) \in Nat /\ DOMAIN Files[p] = 1 .. Len(Files[p])
                         /\ Len(Files[p]) >= 1
  BY <1>1, LenProperties, EmptySeq
<1>3. TypeOK
  <2>1. file \in [File -> Seq(Lines)] /\ exists \subseteq File /\ broken \subseteq Key
        /\ orphaned \subseteq Key
    BY DEF Init, ConstantAssumption
  <2>2. sem \in [Key -> 0 .. Cardinality(Process) + 1]
    BY ProcessFinite DEF Init
  <2>3. pc \in [Process -> {"off", "key", "set", "wait", "open", "use", "post"}]
        /\ at \in [Process -> Nat]
    BY DEF Init
  <2>4. ASSUME NEW p \in Process
        PROVE  /\ key[p] \in Seq(Key) /\ DOMAIN key[p] = DOMAIN Files[p]
               /\ at[p] \in DOMAIN Files[p]
    <3>1. key[p] = [i \in 1 .. Len(Files[p]) |-> NoFile] /\ NoFile \in Key
      BY <1>2 DEF Init, Key
    <3> QED BY <1>1, <1>2, <3>1
  <2>5. key \in [Process -> Seq(Key)]
    <3>1. key = [p \in Process |-> key[p]]
      BY DEF Init
    <3> QED BY <2>4, <3>1
  <2>6. offset \in [Reader -> Nat] /\ out \in [Reader -> Seq(Number \X Number)]
    BY DEF Init
  <2>7. ASSUME NEW r \in Reader
        PROVE  offset[r] <= Len(file[Files[r[1]][r[2]]])
    <3>1. PICK c \in Consumer : r[1] = c /\ r[2] \in DOMAIN Files[c]
      BY DEF Reader
    <3>2. Files[r[1]][r[2]] \in File
      BY <1>1, <1>2, <3>1, ElementOfSeq DEF Process
    <3>3. file[Files[r[1]][r[2]]] = <<>> /\ offset[r] = 0
      BY <3>2 DEF Init
    <3> QED BY <3>3
  <2> QED BY <2>1, <2>2, <2>3, <2>4, <2>5, <2>6, <2>7 DEF TypeOK
<1>4. Tokens
  <2>1. \A k : Inside(k) = {}
    BY <1>1 DEF Inside
  <2>2. ASSUME NEW k \in Key PROVE Sum(k) <= Cardinality(Process) + 1
    <3>1. sem[k] = 0 /\ Cardinality(Inside(k)) = 0
      BY <2>1, FS_EmptySet DEF Init
    <3> QED BY <3>1, ProcessFinite DEF Sum
  <2>3. \A p \in Process : \A i : ~ Has(p, i)
    BY <1>1 DEF Has, Working, Places
  <2> QED BY <1>1, <2>2, <2>3 DEF Tokens
<1>5. Printed
  BY DEF Init, Printed
<1> QED BY <1>3, <1>4, <1>5 DEF IInv

-----------------------------------------------------------------------------
(* Types. *)

LEMMA TypeStep ==
    ASSUME ConstantAssumption, IInv, [Next]_vars
    PROVE  TypeOK'
<1> USE DEF IInv
<1>0. \A p \in Process : /\ Len(Files[p]) \in Nat /\ DOMAIN Files[p] = 1 .. Len(Files[p])
                         /\ at[p] \in 1 .. Len(Files[p])
                         /\ Name(p) \in File /\ MyKey(p) \in Key
                         /\ \A i \in DOMAIN Files[p] : key[p][i] \in Key /\ Files[p][i] \in File
  BY At
<1>1. ASSUME NEW p \in Process, Start(p) PROVE TypeOK'
  BY <1>1 DEF Start, TypeOK
<1>2. ASSUME NEW p \in Process, GetKey(p) PROVE TypeOK'
  <2>1. (IF Name(p) \in exists THEN Name(p) ELSE NoFile) \in Key
    BY <1>0 DEF Key
  <2>2. key[p] \in Seq(Key) /\ at[p] \in DOMAIN key[p]
    BY DEF TypeOK
  <2>3. key' = [key EXCEPT ![p] =
                   [@ EXCEPT ![at[p]] = IF Name(p) \in exists THEN Name(p) ELSE NoFile]]
    BY <1>2 DEF GetKey
  <2> DEFINE row == [key[p] EXCEPT ![at[p]] = IF Name(p) \in exists THEN Name(p) ELSE NoFile]
  <2>4. row \in Seq(Key) /\ DOMAIN row = DOMAIN key[p]
    BY <2>1, <2>2, ExceptSeq
  <2>5. key' \in [Process -> Seq(Key)] /\ \A q \in Process : DOMAIN key'[q] = DOMAIN Files[q]
    BY <2>3, <2>4 DEF TypeOK
  <2> QED BY <1>2, <2>5 DEF GetKey, TypeOK
<1>3. ASSUME NEW p \in Process, SetSem(p) PROVE TypeOK'
  <2>1. sem' \in [Key -> 0 .. Cardinality(Process) + 1]
    <3>1. sem' = [sem EXCEPT ![MyKey(p)] = 1]
      BY <1>3 DEF SetSem
    <3>2. 1 \in 0 .. Cardinality(Process) + 1
      BY ProcessFinite
    <3> QED BY <3>1, <3>2 DEF TypeOK
  <2>2. broken' \subseteq Key /\ orphaned' \subseteq Key
    BY <1>0, <1>3 DEF SetSem, TypeOK
  <2>3. at' \in [Process -> Nat] /\ \A q \in Process : at'[q] \in DOMAIN Files[q]
    <3>1. PICK i \in 1 .. Len(Files[p]) : at' = [at EXCEPT ![p] = i]
      <4>1. CASE at[p] < Len(Files[p])
        <5>1. at[p] + 1 \in 1 .. Len(Files[p]) /\ at' = [at EXCEPT ![p] = at[p] + 1]
          BY <1>0, <1>3, <4>1 DEF SetSem
        <5> QED BY <5>1
      <4>2. CASE ~ (at[p] < Len(Files[p]))
        <5>1. 1 \in 1 .. Len(Files[p]) /\ at' = [at EXCEPT ![p] = 1]
          BY <1>0, <1>3, <4>2 DEF SetSem
        <5> QED BY <5>1
      <4> QED BY <4>1, <4>2
    <3> QED BY <1>0, <3>1 DEF TypeOK
  <2>4. pc' \in [Process -> {"off", "key", "set", "wait", "open", "use", "post"}]
    BY <1>3 DEF SetSem, TypeOK
  <2> QED BY <1>3, <2>1, <2>2, <2>3, <2>4 DEF SetSem, TypeOK
<1>4. ASSUME NEW p \in Process, SemWait(p) PROVE TypeOK'
  <2>1. sem' \in [Key -> 0 .. Cardinality(Process) + 1]
    BY <1>0, <1>4, ProcessFinite DEF SemWait, Down, TypeOK
  <2> QED BY <1>4, <2>1 DEF SemWait, TypeOK
<1>5. ASSUME NEW p \in Process, SemPost(p) PROVE TypeOK'
  <2>1. p \in Inside(MyKey(p))
    BY <1>5 DEF SemPost, Inside
  <2>2. Cardinality(Inside(MyKey(p))) >= 1
    BY <2>1, InsideFinite, FS_EmptySet
  <2>3. sem[MyKey(p)] + Cardinality(Inside(MyKey(p))) <= Cardinality(Process) + 1
    BY <1>0 DEF Tokens, Sum
  <2>4. sem[MyKey(p)] + 1 \in 0 .. Cardinality(Process) + 1
    <3>1. sem[MyKey(p)] \in 0 .. Cardinality(Process) + 1
      BY <1>0 DEF TypeOK
    <3> QED BY <2>2, <2>3, <3>1, InsideFinite, ProcessFinite
  <2>5. sem' \in [Key -> 0 .. Cardinality(Process) + 1]
    BY <1>5, <2>4 DEF SemPost, TypeOK
  <2>6. at' \in [Process -> Nat] /\ \A q \in Process : at'[q] \in DOMAIN Files[q]
    BY <1>0, <1>5, SMTT(20) DEF SemPost, NextFile, TypeOK
  <2> QED BY <1>5, <2>5, <2>6 DEF SemPost, TypeOK
<1>6. ASSUME NEW p \in Process, Kill(p) PROVE TypeOK'
  <2>1. orphaned' \subseteq Key
    BY <1>0, <1>6 DEF Kill, TypeOK
  <2>2. at' \in [Process -> Nat] /\ \A q \in Process : at'[q] \in DOMAIN Files[q]
    BY <1>0, <1>6 DEF Kill, TypeOK
  <2> DEFINE row == [i \in DOMAIN Files[p] |-> NoFile]
  <2>3. row \in Seq(Key)
    <3>1. row = [i \in 1 .. Len(Files[p]) |-> NoFile] /\ NoFile \in Key
      BY <1>0 DEF Key
    <3> QED BY <1>0, <3>1
  <2>4. key' \in [Process -> Seq(Key)] /\ \A q \in Process : DOMAIN key'[q] = DOMAIN Files[q]
    BY <1>6, <2>3 DEF Kill, TypeOK
  <2>5. offset' \in [Reader -> Nat] /\ out' \in [Reader -> Seq(Number \X Number)]
    BY <1>6 DEF Kill, TypeOK
  <2>6. \A r \in Reader : offset'[r] <= Len(file'[Files[r[1]][r[2]]])
    <3>1. \A r \in Reader : Len(file[Files[r[1]][r[2]]]) \in Nat
      BY LinesOfReader
    <3> QED BY <1>6, <3>1 DEF Kill, TypeOK
  <2>7. pc' \in [Process -> {"off", "key", "set", "wait", "open", "use", "post"}]
    BY <1>6 DEF Kill, TypeOK
  <2> QED BY <1>6, <2>1, <2>2, <2>4, <2>5, <2>6, <2>7 DEF Kill, TypeOK
<1>7. ASSUME NEW p \in Process, Create(p) PROVE TypeOK'
  BY <1>0, <1>7 DEF Create, TypeOK
<1>8. ASSUME NEW p \in Process, WriteLine(p) PROVE TypeOK'
  <2>1. PICK line \in Lines : file' = [file EXCEPT ![Name(p)] = Append(@, line)]
    BY <1>8 DEF WriteLine
  <2>2. /\ Append(file[Name(p)], line) \in Seq(Lines)
        /\ Len(Append(file[Name(p)], line)) = Len(file[Name(p)]) + 1
    BY <1>0, AppendProperties DEF TypeOK
  <2>3. file' \in [File -> Seq(Lines)]
    BY <2>1, <2>2 DEF TypeOK
  <2>4. ASSUME NEW r \in Reader PROVE offset[r] <= Len(file'[Files[r[1]][r[2]]])
    <3> DEFINE f == Files[r[1]][r[2]]
    <3>1. f \in File /\ Len(file[f]) \in Nat /\ offset[r] \in Nat /\ offset[r] <= Len(file[f])
      BY LinesOfReader DEF TypeOK
    <3> HIDE DEF f
    <3>2. file'[f] = IF f = Name(p) THEN Append(file[Name(p)], line) ELSE file[f]
      BY <2>1, <3>1 DEF TypeOK
    <3>3. offset[r] <= Len(file'[f])
      BY <2>2, <3>1, <3>2
    <3> QED BY <3>3 DEF f
  <2> QED BY <1>8, <2>3, <2>4 DEF WriteLine, TypeOK
<1>9. ASSUME NEW p \in Process, OpenRead(p) PROVE TypeOK'
  BY <1>9 DEF OpenRead, TypeOK
<1>10. ASSUME NEW c \in Consumer, ReadLine(c) PROVE TypeOK'
  <2>1. /\ Here(c) \in Reader /\ Here(c)[1] = c /\ Here(c)[2] = at[c]
        /\ Files[Here(c)[1]][Here(c)[2]] = Name(c)
    BY DEF Here, Reader, TypeOK, Process, Name
  <2>2. /\ file[Name(c)] \in Seq(Lines) /\ Len(file[Name(c)]) \in Nat
        /\ offset[Here(c)] + 1 \in 1 .. Len(file[Name(c)])
    BY <1>0, <1>10, <2>1, LenProperties DEF ReadLine, TypeOK, Process
  <2>3. analyze_line(file[Name(c)][offset[Here(c)] + 1]) \in Number \X Number
    <3>1. file[Name(c)][offset[Here(c)] + 1] \in Lines
      BY <2>2, ElementOfSeq
    <3> QED BY <3>1, PairFound DEF ConstantAssumption
  <2>4. out' \in [Reader -> Seq(Number \X Number)]
    BY <1>10, <2>1, <2>3, AppendProperties DEF ReadLine, TypeOK
  <2>5. offset' \in [Reader -> Nat]
    BY <1>10, <2>1 DEF ReadLine, TypeOK
  <2>6. ASSUME NEW r \in Reader PROVE offset'[r] <= Len(file'[Files[r[1]][r[2]]])
    <3>1. file' = file /\ offset'[r] = IF r = Here(c) THEN offset[Here(c)] + 1 ELSE offset[r]
      BY <1>10, <2>1 DEF ReadLine, TypeOK
    <3>2. offset[Here(c)] + 1 <= Len(file[Files[Here(c)[1]][Here(c)[2]]])
      BY <2>1, <2>2
    <3> QED BY <3>1, <3>2 DEF TypeOK
  <2> QED BY <1>10, <2>4, <2>5, <2>6 DEF ReadLine, TypeOK
<1>11. ASSUME NEW c \in Consumer, ReadEnd(c) PROVE TypeOK'
  BY <1>11 DEF ReadEnd, TypeOK, Process
<1>12. CASE UNCHANGED vars
  BY <1>12 DEF vars, TypeOK, Key, Reader, Process
<1> QED
  BY <1>1, <1>2, <1>3, <1>4, <1>5, <1>6, <1>7, <1>8, <1>9, <1>10, <1>11, <1>12
  DEF Next, Setup, Work, Process

-----------------------------------------------------------------------------
(* Semaphores and processes. *)

\* A step that leaves the sum of every key, and by which no process gains a semaphore it
\* has set.
LEMMA TokensKept ==
    ASSUME Tokens, UNCHANGED <<broken, orphaned>>,
           \A k \in Key : Sum(k)' = Sum(k),
           \A q \in Process : \A i \in DOMAIN Files[q] :
               Has(q, i)' => Has(q, i) /\ key'[q][i] = key[q][i],
           \A q \in Process : pc'[q] = "off" => at'[q] = 1
    PROVE  Tokens'
BY DEF Tokens

\* The same of a step of one process, which moves at its file and keeps its keys.
LEMMA MovesKept ==
    ASSUME ConstantAssumption, IInv, UNCHANGED <<broken, orphaned, sem, at, key>>,
           NEW p \in Process, NEW d, pc' = [pc EXCEPT ![p] = d],
           \/ pc[p] \in Places /\ d \in Places
           \/ pc[p] = "off" /\ d = "key"
    PROVE  Tokens'
<1>1. \A x \in Process : pc'[x] = IF x = p THEN d ELSE pc[x]
  BY DEF IInv, TypeOK
<1>2. \A k \in Key : Inside(k)' = Inside(k)
  BY <1>1 DEF Inside, MyKey, Places
<1>3. \A k \in Key : Sum(k)' = Sum(k)
  BY <1>2 DEF Sum
<1>4. ASSUME NEW q \in Process, NEW i \in DOMAIN Files[q], Has(q, i)'
      PROVE  Has(q, i) /\ key'[q][i] = key[q][i]
  <2>1. CASE pc[p] \in Places /\ d \in Places
    BY <1>1, <1>4, <2>1 DEF Has, Working, Places
  <2>2. CASE pc[p] = "off" /\ d = "key"
    <3>1. q # p
      <4>1. at[p] = 1 /\ i \in 1 .. Len(Files[q]) /\ Len(Files[q]) \in Nat
        BY <2>2, At DEF IInv, Tokens
      <4>2. pc'[p] = "key"
        BY <1>1, <2>2
      <4>3. SUFFICES ASSUME q = p PROVE FALSE
        OBVIOUS
      <4>4. i < 1
        BY <1>4, <4>1, <4>2, <4>3 DEF Has, Working, Places
      <4> QED BY <4>1, <4>4
    <3> QED BY <1>1, <1>4, <3>1 DEF Has
  <2> QED BY <2>1, <2>2
<1>5. \A q \in Process : pc'[q] = "off" => at'[q] = 1
  BY <1>1 DEF IInv, Tokens, Places
<1> QED BY <1>3, <1>4, <1>5, TokensKept DEF IInv

\* sem_wait takes what sem_post gives back: one in the sum for the process.
LEMMA TokensPassed ==
    ASSUME ConstantAssumption, IInv, NEW p \in Process, SemWait(p) \/ SemPost(p)
    PROVE  \A k \in Key : Sum(k)' = Sum(k)
<1>0. /\ MyKey(p) \in Key /\ sem \in [Key -> Nat]
      /\ \A x \in Process : pc[x] \in {"off", "key", "set", "wait", "open", "use", "post"}
  BY At DEF IInv, TypeOK
<1>1. SUFFICES ASSUME NEW k \in Key PROVE Sum(k)' = Sum(k)
  OBVIOUS
<1>2. Cardinality(Inside(k)) \in Nat
  BY InsideFinite
<1>3. CASE SemWait(p)
  <2>1. /\ \A x \in Process \ {p} : pc'[x] = pc[x] /\ at'[x] = at[x] /\ key'[x] = key[x]
        /\ pc[p] = "wait" /\ pc'[p] = "open" /\ MyKey(p)' = MyKey(p)
        /\ sem[MyKey(p)] > 0 /\ sem' = [sem EXCEPT ![MyKey(p)] = @ - 1]
    BY <1>3 DEF SemWait, Down, IInv, TypeOK, MyKey
  <2>2. p \notin Inside(k) /\ (p \in Inside(k)' <=> MyKey(p) = k)
    BY <2>1 DEF Inside
  <2>3. CASE MyKey(p) = k
    <3>1. Cardinality(Inside(k)') = Cardinality(Inside(k)) + 1
      BY <2>1, <2>2, <2>3, Moves
    <3>2. sem'[k] = sem[k] - 1
      BY <1>0, <2>1, <2>3
    <3> QED BY <1>0, <1>2, <3>1, <3>2 DEF Sum
  <2>4. CASE MyKey(p) # k
    <3>1. Inside(k)' = Inside(k)
      BY <2>1, <2>2, <2>4, Moves
    <3>2. sem'[k] = sem[k]
      BY <1>0, <2>1, <2>4
    <3> QED BY <3>1, <3>2 DEF Sum
  <2> QED BY <2>3, <2>4
<1>4. CASE SemPost(p)
  <2>1. /\ \A x \in Process \ {p} : pc'[x] = pc[x] /\ at'[x] = at[x] /\ key'[x] = key[x]
        /\ pc[p] = "post" /\ pc'[p] = "wait"
        /\ sem' = [sem EXCEPT ![MyKey(p)] = @ + 1]
    BY <1>4 DEF SemPost, IInv, TypeOK
  <2>2. p \notin Inside(k)' /\ (p \in Inside(k) <=> MyKey(p) = k)
    BY <2>1 DEF Inside
  <2>3. CASE MyKey(p) = k
    <3>1. Cardinality(Inside(k)') = Cardinality(Inside(k)) - 1
      BY <2>1, <2>2, <2>3, Moves
    <3>2. sem'[k] = sem[k] + 1
      BY <1>0, <2>1, <2>3
    <3> QED BY <1>0, <1>2, <3>1, <3>2 DEF Sum
  <2>4. CASE MyKey(p) # k
    <3>1. Inside(k)' = Inside(k)
      BY <2>1, <2>2, <2>4, Moves
    <3>2. sem'[k] = sem[k]
      BY <1>0, <2>1, <2>4
    <3> QED BY <3>1, <3>2 DEF Sum
  <2> QED BY <2>3, <2>4
<1> QED BY <1>3, <1>4

\* ftok: a process that has not come to its endless loop gets the key of one file.
LEMMA GetKeyTokens ==
    ASSUME ConstantAssumption, IInv, NEW p \in Process, GetKey(p)
    PROVE  Tokens'
<1>1. /\ pc[p] = "key" /\ \A x \in Process : pc'[x] = IF x = p THEN "set" ELSE pc[x]
      /\ UNCHANGED <<sem, at, broken, orphaned>>
      /\ \A x \in Process \ {p} : key'[x] = key[x]
      /\ \A i \in DOMAIN Files[p] : i # at[p] => key'[p][i] = key[p][i]
  BY DEF GetKey, IInv, TypeOK
<1>2. \A k \in Key : Inside(k)' = Inside(k)
  BY <1>1 DEF Inside, MyKey
<1>3. \A k \in Key : Sum(k)' = Sum(k)
  BY <1>1, <1>2 DEF Sum
<1>4. ASSUME NEW q \in Process, NEW i \in DOMAIN Files[q], Has(q, i)'
      PROVE  Has(q, i) /\ key'[q][i] = key[q][i]
  <2>1. CASE q = p
    <3>1. i < at[p] /\ i \in 1 .. Len(Files[p]) /\ Len(Files[p]) \in Nat /\ at[p] \in Nat
      BY <1>1, <1>4, <2>1, At DEF Has, Working, Places, IInv, TypeOK
    <3> QED BY <1>1, <2>1, <3>1 DEF Has
  <2>2. CASE q # p
    BY <1>1, <1>4, <2>2 DEF Has
  <2> QED BY <2>1, <2>2
<1>5. \A q \in Process : pc'[q] = "off" => at'[q] = 1
  BY <1>1 DEF IInv, Tokens
<1> QED BY <1>1, <1>3, <1>4, <1>5, TokensKept DEF IInv

\* sem_set: the semaphore is worth 1 if nobody is inside, and broken otherwise.
LEMMA SetSemTokens ==
    ASSUME ConstantAssumption, IInv, NEW p \in Process, SetSem(p)
    PROVE  Tokens'
<1>0. PICK m \in Key : m = MyKey(p)
  BY At DEF IInv
<1>1. /\ at[p] \in 1 .. Len(Files[p]) /\ Len(Files[p]) \in Nat
      /\ DOMAIN Files[p] = 1 .. Len(Files[p])
  BY At DEF IInv
<1>2. /\ pc[p] = "set" /\ pc'[p] \in {"key", "wait"}
      /\ \A x \in Process \ {p} : pc'[x] = pc[x] /\ at'[x] = at[x]
      /\ key' = key /\ sem' = [sem EXCEPT ![m] = 1]
      /\ pc'[p] = "key" => at'[p] = at[p] + 1
      /\ pc'[p] = "wait" => ~ (at[p] < Len(Files[p]))
  BY <1>0, <1>1 DEF SetSem, IInv, TypeOK
<1>3. \A k \in Key : Inside(k)' = Inside(k)
  BY <1>2 DEF Inside, MyKey
<1>4. /\ Sum(m)' = 1 + Cardinality(Inside(m))
      /\ \A k \in Key \ {m} : Sum(k)' = Sum(k)
  BY <1>2, <1>3 DEF Sum, IInv, TypeOK
<1>5. /\ Inside(m) # {} => m \in broken'
      /\ \A k \in Key \ {m} : k \notin broken' \cup orphaned' => k \notin broken \cup orphaned
  BY <1>0 DEF SetSem
<1>6. Inside(m) = {} => Sum(m)' = 1
  BY <1>4, FS_EmptySet
<1>7. \A k \in Key : Sum(k)' <= Cardinality(Process) + 1
  BY <1>4, InsideFinite, ProcessFinite DEF IInv, Tokens
<1>8. ASSUME NEW k \in Key \ (broken \cup orphaned)', NEW q \in Process, NEW i \in DOMAIN Files[q],
             Has(q, i)', key'[q][i] = k
      PROVE  Sum(k)' = 1
  <2>1. CASE k = m
    BY <1>5, <1>6, <1>8, <2>1
  <2>2. CASE k # m
    <3>1. k \in Key \ (broken \cup orphaned)
      BY <1>5, <1>8, <2>2
    <3>2. key[q][i] = k
      BY <1>2, <1>8
    <3>3. Has(q, i)
      <4>1. CASE q = p
        <5>1. i # at[p]
          BY <1>0, <2>2, <3>2, <4>1 DEF MyKey
        <5>2. i \in 1 .. Len(Files[p])
          BY <1>1, <4>1
        <5>3. i < at[p]
          BY <1>1, <1>2, <1>8, <4>1, <5>1, <5>2 DEF Has, Working, Places
        <5> QED BY <1>2, <4>1, <5>3 DEF Has
      <4>2. CASE q # p
        BY <1>2, <1>8, <4>2 DEF Has
      <4> QED BY <4>1, <4>2
    <3>4. Sum(k) = 1
      BY <3>1, <3>2, <3>3 DEF IInv, Tokens
    <3> QED BY <1>4, <2>2, <3>4
  <2> QED BY <2>1, <2>2
<1>9. \A q \in Process : pc'[q] = "off" => at'[q] = 1
  BY <1>2 DEF IInv, Tokens
<1> QED BY <1>7, <1>8, <1>9 DEF Tokens

\* A process killed inside leaves its semaphore orphaned.
LEMMA KillTokens ==
    ASSUME ConstantAssumption, IInv, NEW p \in Process, Kill(p)
    PROVE  Tokens'
<1>1. /\ pc'[p] = "off" /\ at'[p] = 1 /\ sem' = sem /\ broken' = broken
      /\ \A x \in Process \ {p} : pc'[x] = pc[x] /\ at'[x] = at[x] /\ key'[x] = key[x]
      /\ orphaned \subseteq orphaned' /\ (p \in Inside(MyKey(p)) => MyKey(p) \in orphaned')
  BY DEF Kill, IInv, TypeOK
<1>2. ASSUME NEW k \in Key
      PROVE  /\ Sum(k)' <= Cardinality(Process) + 1
             /\ k \notin orphaned' => Sum(k)' = Sum(k)
  <2>1. p \notin Inside(k)'
    BY <1>1 DEF Inside
  <2>2. Cardinality(Inside(k)) \in Nat /\ sem[k] \in Nat /\ Cardinality(Process) \in Nat
        /\ Sum(k) <= Cardinality(Process) + 1
    BY InsideFinite, ProcessFinite DEF IInv, TypeOK, Tokens
  <2>3. CASE p \in Inside(k)
    <3>1. k \in orphaned'
      BY <1>1, <2>3 DEF Inside
    <3>2. Cardinality(Inside(k)') = Cardinality(Inside(k)) - 1
      BY <1>1, <2>1, <2>3, Moves
    <3> QED BY <1>1, <2>2, <3>1, <3>2 DEF Sum
  <2>4. CASE p \notin Inside(k)
    <3>1. Inside(k)' = Inside(k)
      BY <1>1, <2>1, <2>4, Moves
    <3> QED BY <1>1, <2>2, <3>1 DEF Sum
  <2> QED BY <2>3, <2>4
<1>3. \A q \in Process : \A i \in DOMAIN Files[q] :
         Has(q, i)' => Has(q, i) /\ key'[q][i] = key[q][i]
  BY <1>1 DEF Has, Working, Places
<1>4. \A q \in Process : pc'[q] = "off" => at'[q] = 1
  BY <1>1 DEF IInv, Tokens
<1> QED BY <1>1, <1>2, <1>3, <1>4 DEF IInv, Tokens

LEMMA TokensStep ==
    ASSUME ConstantAssumption, IInv, [Next]_vars
    PROVE  Tokens'
<1>0. Consumer \subseteq Process
  BY DEF Process
<1>1. ASSUME NEW p \in Process, Start(p) PROVE Tokens'
  BY <1>1, MovesKept DEF Start
<1>2. ASSUME NEW p \in Process, GetKey(p) PROVE Tokens'
  BY <1>2, GetKeyTokens
<1>3. ASSUME NEW p \in Process, SetSem(p) PROVE Tokens'
  BY <1>3, SetSemTokens
<1>4. ASSUME NEW p \in Process, SemWait(p) PROVE Tokens'
  <2>1. \A x \in Process : pc'[x] = IF x = p THEN "open" ELSE pc[x]
    BY <1>4 DEF SemWait, IInv, TypeOK
  <2>2. pc[p] = "wait" /\ UNCHANGED <<at, key, broken, orphaned>>
    BY <1>4 DEF SemWait
  <2>3. \A q \in Process : \A i \in DOMAIN Files[q] :
           Has(q, i)' => Has(q, i) /\ key'[q][i] = key[q][i]
    BY <2>1, <2>2 DEF Has, Working, Places
  <2>4. \A q \in Process : pc'[q] = "off" => at'[q] = 1
    BY <2>1, <2>2 DEF IInv, Tokens
  <2> QED BY <1>4, <2>2, <2>3, <2>4, TokensPassed, TokensKept DEF IInv
<1>5. ASSUME NEW p \in Process, SemPost(p) PROVE Tokens'
  <2>1. \A x \in Process : /\ pc'[x] = IF x = p THEN "wait" ELSE pc[x]
                           /\ x # p => at'[x] = at[x]
    BY <1>5 DEF SemPost, IInv, TypeOK
  <2>2. pc[p] = "post" /\ UNCHANGED <<key, broken, orphaned>>
    BY <1>5 DEF SemPost
  <2>3. \A q \in Process : \A i \in DOMAIN Files[q] :
           Has(q, i)' => Has(q, i) /\ key'[q][i] = key[q][i]
    BY <2>1, <2>2 DEF Has, Working, Places
  <2>4. \A q \in Process : pc'[q] = "off" => at'[q] = 1
    BY <2>1, <2>2 DEF IInv, Tokens
  <2> QED BY <1>5, <2>2, <2>3, <2>4, TokensPassed, TokensKept DEF IInv
<1>6. ASSUME NEW p \in Process, Kill(p) PROVE Tokens'
  BY <1>6, KillTokens
<1>7. ASSUME NEW p \in Process, Create(p) PROVE Tokens'
  BY <1>7, MovesKept DEF Create, Places
<1>8. ASSUME NEW p \in Process, WriteLine(p) PROVE Tokens'
  BY <1>8, MovesKept DEF WriteLine, Places
<1>9. ASSUME NEW c \in Consumer, OpenRead(c) PROVE Tokens'
  <2> DEFINE d == IF Name(c) \in exists THEN "use" ELSE "post"
  <2>1. pc' = [pc EXCEPT ![c] = d] /\ d \in Places /\ pc[c] \in Places
    BY <1>9 DEF OpenRead, Places
  <2>2. UNCHANGED <<broken, orphaned, sem, at, key>>
    BY <1>9 DEF OpenRead
  <2> HIDE DEF d
  <2> QED BY <1>0, <2>1, <2>2, MovesKept
<1>10. ASSUME NEW c \in Consumer, ReadEnd(c) PROVE Tokens'
  BY <1>0, <1>10, MovesKept DEF ReadEnd, Places
<1>11. CASE UNCHANGED <<sem, pc, at, key, broken, orphaned>>
  <2>1. \A k \in Key : Sum(k)' = Sum(k)
    BY <1>11 DEF Sum, Inside, MyKey
  <2> QED BY <1>11, <2>1 DEF IInv, Tokens, Has
<1> QED
  BY <1>1, <1>2, <1>3, <1>4, <1>5, <1>6, <1>7, <1>8, <1>9, <1>10, <1>11
  DEF Next, Setup, Work, ReadLine, vars

\* The place in each file.
LEMMA PrintedStep ==
    ASSUME ConstantAssumption, IInv, [Next]_vars
    PROVE  Printed'
<1>1. ASSUME NEW c \in Consumer, ReadLine(c) PROVE Printed'
  <2>1. \A x \in Seq(Number \X Number) : \A y : Len(Append(x, y)) = Len(x) + 1
    OBVIOUS
  <2> QED BY <1>1, <2>1 DEF IInv, TypeOK, Printed, ReadLine
<1>2. ASSUME NEW p \in Process, Kill(p) PROVE Printed'
  BY <1>2 DEF IInv, TypeOK, Printed, Kill
<1>3. CASE UNCHANGED <<out, offset>>
  BY <1>3 DEF IInv, Printed
<1> QED
  BY <1>1, <1>2, <1>3 DEF Next, Setup, Work, Start, GetKey, SetSem, SemWait, SemPost, Create,
                          WriteLine, OpenRead, ReadEnd, vars

\* The invariant holds in every reachable state.
THEOREM Inductive == ASSUME ConstantAssumption PROVE Spec => []IInv
<1>1. Init => IInv
  BY InvInit
<1>2. IInv /\ [Next]_vars => IInv'
  BY TypeStep, TokensStep, PrintedStep DEF IInv
<1> QED BY <1>1, <1>2, PTL DEF Spec

\* Every variable keeps its type: however often semaphores are set while processes are
\* inside, none rises above the number of processes and one.
THEOREM TypeCorrect == ASSUME ConstantAssumption PROVE Spec => []TypeOK
<1>1. IInv => TypeOK
  BY DEF IInv
<1> QED BY <1>1, Inductive, PTL

\* Until a semaphore is set while a process is inside, or its holder is killed, it is free
\* or one process is inside.
THEOREM OneTokenHolds == ASSUME ConstantAssumption PROVE Spec => []OneToken
<1>1. IInv => OneToken
  <2> SUFFICES ASSUME IInv, NEW k \in Key \ (broken \cup orphaned),
                      NEW p \in Process, pc[p] \in Working, MyKey(p) = k
               PROVE  Sum(k) = 1
    BY DEF OneToken, Sum, Working, Places
  <2>1. at[p] \in DOMAIN Files[p] /\ Has(p, at[p]) /\ key[p][at[p]] = k
    BY DEF IInv, TypeOK, Has, MyKey
  <2> QED BY <2>1 DEF IInv, Tokens
<1> QED BY <1>1, Inductive, PTL

-----------------------------------------------------------------------------
(* LineLog, the promise of the programs. *)

\* The pair a consumer prints is the one the promise asks for.
LEMMA SameBounds ==
    ASSUME NEW line \in Seq(Number) \ {<<>>}
    PROVE  analyze_line(line) = Log!Bounds(line)
<1> DEFINE R == {line[k] : k \in DOMAIN line}
           b == analyze_line(line)
<1>1. R = Range(line)
  BY DEF Range
<1>2. b = <<Min(R), Max(R)>>
  BY <1>1, BoundsFound
<1>3. /\ Min(R) \in R /\ Max(R) \in R
      /\ \A n \in R : Min(R) <= n /\ n <= Max(R)
  BY <1>1, PairFound
<1>4. R \subseteq Int
  <2>1. \A k \in DOMAIN line : line[k] \in Number
    OBVIOUS
  <2>2. R \subseteq Number
    BY <2>1
  <2>3. Number \subseteq Int
    BY DEF Number
  <2> QED BY <2>2, <2>3
<1> HIDE DEF R, b
<1>5. /\ b \in R \X R /\ b[1] = Min(R) /\ b[2] = Max(R)
  BY <1>2, <1>3
<1>6. ASSUME NEW c \in R \X R, \A n \in R : c[1] <= n /\ n <= c[2]
      PROVE  c = b
  <2>1. c[1] \in R /\ c[2] \in R /\ c = <<c[1], c[2]>>
    OBVIOUS
  <2>2. /\ c[1] <= Min(R) /\ Min(R) <= c[1]
        /\ c[2] <= Max(R) /\ Max(R) <= c[2]
    BY <1>3, <1>6, <2>1
  <2>3. c[1] \in Int /\ c[2] \in Int /\ Min(R) \in Int /\ Max(R) \in Int
    BY <1>3, <1>4, <2>1
  <2>4. c[1] = Min(R) /\ c[2] = Max(R)
    BY ONLY <2>2, <2>3
  <2> QED BY <1>2, <2>1, <2>4
<1>7. b = CHOOSE c \in R \X R : \A n \in R : c[1] <= n /\ n <= c[2]
  BY <1>3, <1>5, <1>6
<1> QED BY <1>7 DEF Log!Bounds, R, b

\* Every step of the programs is a step of LineLog, or leaves the files and what is printed.
LEMMA LogStep ==
    ASSUME ConstantAssumption, IInv, [Next]_vars
    PROVE  [Log!Next]_<<file, out>>
<1>1. ASSUME NEW p \in Process, WriteLine(p) PROVE Log!Next
  <2>1. Name(p) \in File
    BY At DEF IInv
  <2>2. Log!Write(Name(p))
    BY <1>1 DEF WriteLine, Log!Write
  <2> QED BY <2>1, <2>2 DEF Log!Next
<1>2. ASSUME NEW c \in Consumer, ReadLine(c) PROVE Log!Next
  <2>1. /\ Here(c) \in Reader /\ Files[Here(c)[1]][Here(c)[2]] = Name(c)
        /\ Name(c) \in File /\ Len(out[Here(c)]) = offset[Here(c)]
    <3>1. Here(c) \in Reader /\ Files[Here(c)[1]][Here(c)[2]] = Name(c)
      BY DEF IInv, Here, Reader, TypeOK, Process, Name
    <3>2. Name(c) \in File
      BY At DEF IInv, Process
    <3> QED BY <3>1, <3>2 DEF IInv, Printed
  <2>2. file[Name(c)][offset[Here(c)] + 1] \in Seq(Number) \ {<<>>}
    <3>1. file[Name(c)] \in Seq(Lines) /\ offset[Here(c)] + 1 \in 1 .. Len(file[Name(c)])
      BY <1>2, <2>1, LenProperties DEF ReadLine, IInv, TypeOK
    <3>2. file[Name(c)][offset[Here(c)] + 1] \in Lines
      BY <3>1, ElementOfSeq
    <3> QED BY <3>2 DEF ConstantAssumption
  <2>3. analyze_line(file[Name(c)][offset[Here(c)] + 1])
           = Log!Bounds(file[Files[Here(c)[1]][Here(c)[2]]][Len(out[Here(c)]) + 1])
    BY <2>1, <2>2, SameBounds
  <2>4. Log!Analyse(Here(c))
    BY <1>2, <2>1, <2>3 DEF ReadLine, Log!Analyse
  <2> QED BY <2>1, <2>4 DEF Log!Next
<1>3. ASSUME NEW p \in Process, Kill(p) PROVE Log!Next
  <2> DEFINE stopped == {r \in Reader : r[1] = p}
  <2>1. out' = [r \in Reader |-> IF r \in stopped THEN <<>> ELSE out[r]] /\ UNCHANGED file
    BY <1>3 DEF Kill
  <2>2. stopped \in SUBSET Reader
    OBVIOUS
  <2> HIDE DEF stopped
  <2> QED BY <2>1, <2>2 DEF Log!Next, Log!StartOver
<1>4. CASE UNCHANGED <<file, out>>
  BY <1>4
<1> QED
  BY <1>1, <1>2, <1>3, <1>4 DEF Next, Setup, Work, Start, GetKey, SetSem, SemWait, SemPost,
                                Create, OpenRead, ReadEnd, vars

\* The consumers print the bounds of every line of their files once and in order: the
\* programs implement LineLog, whatever happens to the semaphores and the processes.
THEOREM ImplementsLog == ASSUME ConstantAssumption PROVE Spec => LogSpec
<1>1. Init => Log!Init
  BY DEF Init, Log!Init
<1>2. IInv /\ [Next]_vars => [Log!Next]_<<file, out>>
  BY LogStep
<1> QED BY <1>1, <1>2, Inductive, PTL DEF Spec, LogSpec, Log!Spec
=============================================================================
