-------------------------- MODULE ShmHandshakeProofs --------------------------
(***************************************************************************)
(* Proofs about ShmHandshake: in a generation of one run, with signals at  *)
(* any point, parent and child take turns at the shared memory, and the    *)
(* parent prints the bounds of its own lines.                              *)
(***************************************************************************)
EXTENDS ShmHandshake, FiniteSetTheorems

-----------------------------------------------------------------------------
(* The inductive invariant. *)

Started == {r \in Run : parent[r] # "off"}

\* Runs, the generations they have opened, and those that nobody has opened yet.
Generations ==
    /\ \A r \in Run : /\ gen[r] = 0 <=> parent[r] = "off"
                      /\ child[r] = "off" <=> parent[r] = "off"
                      /\ child[r] = "exited" <=> r \in stopped
    /\ last <= Cardinality(Started)
    /\ named # 0 => named = last /\ \E r \in Run : gen[r] = named
    /\ \A g \in Gen : g > last => sem0[g] = 0 /\ sem1[g] = 0

\* Once the turn can reach a process that reads the memory, a line or a pair is there.
Filled ==
    /\ \A g \in Gen : sem0[g] > 0 => shm[g] # <<>>
    /\ \A r \in Run : (child[r] = "analyse" \/ parent[r] \in {"post", "wait", "print"})
                         => shm[gen[r]] # <<>>

\* What a parent has generated, printed and counted, by its place.
Counted ==
    \A r \in Run :
        /\ parent[r] = "off" => Len(results[r]) = 0 /\ Len(sets[r]) = 0 /\ count[r] = 0
        /\ parent[r] = "generate"
              => Len(results[r]) = Len(sets[r]) /\ count[r] = Len(sets[r])
        /\ parent[r] \in {"post", "wait", "print"}
              => Len(results[r]) = Len(sets[r]) - 1 /\ count[r] = Len(sets[r]) - 1
        /\ parent[r] = "count"
              => Len(results[r]) = Len(sets[r]) /\ count[r] = Len(sets[r]) - 1

\* The turn of a run: in a semaphore or at a process.
Sum(r) ==
    sem0[gen[r]] + sem1[gen[r]] + (IF parent[r] # "wait" THEN 1 ELSE 0)
                                + (IF child[r] # "wait" THEN 1 ELSE 0)
TurnOf(r) == Alone(r) /\ parent[r] # "exited" /\ child[r] # "exited" => Sum(r) = 1

\* A pair that holds the bounds of a line.
Right(pair, line) ==
    /\ pair[1] \in Range(line) /\ pair[2] \in Range(line)
    /\ \A n \in Range(line) : pair[1] <= n /\ n <= pair[2]

\* What is in the memory of a run, by the place of the turn, and what its parent has printed.
NewLine(r) == sets[r][Len(sets[r])]
Given(r) ==
    \/ parent[r] = "post"
    \/ parent[r] = "wait" /\ (child[r] = "analyse" \/ sem0[gen[r]] > 0)
Back(r) ==
    \/ parent[r] = "print"
    \/ parent[r] = "wait" /\ (child[r] = "post" \/ sem1[gen[r]] > 0)
Printed(r) == \A k \in 1 .. Len(results[r]) : Right(results[r][k], sets[r][k])
DataOf(r) ==
    Alone(r) /\ r \notin stopped =>
        /\ Printed(r)
        /\ Given(r) => shm[gen[r]] = NewLine(r)
        /\ Back(r) => shm[gen[r]] = analyze_line(NewLine(r))

IInv ==
    /\ TypeOK /\ Generations /\ Filled /\ Counted
    /\ \A r \in Run : TurnOf(r)
    /\ \A r \in Run : DataOf(r)

-----------------------------------------------------------------------------
(* Runs and generations. *)

LEMMA RunFinite == ConstantAssumption => Cardinality(Run) \in Nat
BY FS_CardinalityType DEF ConstantAssumption

\* A run that has begun has its semaphores and memory.
LEMMA OwnGen ==
    ASSUME ConstantAssumption, TypeOK, Generations, NEW r \in Run, parent[r] # "off"
    PROVE  gen[r] \in Gen
BY RunFinite DEF TypeOK, Generations, Gen

\* A new run: there is a generation left for it.
LEMMA NewGen ==
    ASSUME ConstantAssumption, TypeOK, Generations, NEW r \in Run, parent[r] = "off"
    PROVE  /\ last \in Nat /\ last + 1 <= Cardinality(Run)
           /\ Cardinality(Started \cup {r}) = Cardinality(Started) + 1
           /\ Cardinality(Started) \in Nat
<1>1. IsFiniteSet(Started) /\ Cardinality(Started) \in Nat
  BY FS_Subset, FS_CardinalityType DEF ConstantAssumption, Started
<1>2. Cardinality(Started \cup {r}) = Cardinality(Started) + 1
  BY <1>1, FS_AddElement DEF Started
<1>3. Cardinality(Started \cup {r}) <= Cardinality(Run)
  BY FS_Subset DEF ConstantAssumption, Started
<1>4. last \in Nat
  BY RunFinite DEF TypeOK
<1> QED BY <1>1, <1>2, <1>3, <1>4, RunFinite DEF Generations

LEMMA InvInit == ConstantAssumption /\ Init => IInv
<1> SUFFICES ASSUME ConstantAssumption, Init PROVE IInv
  OBVIOUS
<1>1. TypeOK
  <2>1. 0 \in 0 .. last /\ 0 \in 0 .. Cardinality(Run)
    BY RunFinite DEF Init
  <2>2. \A r \in Run : Len(sets[r]) = 0 /\ Len(results[r]) = 0 /\ count[r] = 0 /\ MaxSets \in Nat
    BY DEF Init, ConstantAssumption
  <2>3. shm \in [Gen -> Seq(Number)] /\ sets \in [Run -> Seq(Lines)]
        /\ results \in [Run -> Seq(Int \X Int)] /\ count \in [Run -> Nat]
        /\ sem0 \in [Gen -> Nat] /\ sem1 \in [Gen -> Nat]
    BY DEF Init
  <2>4. parent \in [Run -> {"off", "generate", "post", "wait", "print", "count", "exited"}]
        /\ child \in [Run -> {"off", "wait", "analyse", "post", "exited"}]
        /\ stopped \subseteq Run
    BY DEF Init
  <2>5. gen \in [Run -> 0 .. last] /\ named \in 0 .. last /\ last \in 0 .. Cardinality(Run)
    BY <2>1 DEF Init
  <2> QED BY <2>2, <2>3, <2>4, <2>5 DEF TypeOK
<1>2. Generations
  <2>1. Started = {}
    BY DEF Init, Started
  <2> QED BY <2>1, FS_EmptySet DEF Init, Generations
<1>3. Filled
  BY DEF Init, Filled
<1>4. Counted
  BY DEF Init, Counted
<1>5. \A r \in Run : ~ Alone(r)
  BY DEF Init, Alone
<1> QED BY <1>1, <1>2, <1>3, <1>4, <1>5 DEF IInv, TurnOf, DataOf

-----------------------------------------------------------------------------
(* Types and the places of a run. *)

\* The first two elements of a sequence.
LEMMA FirstTwo ==
    ASSUME NEW S, NEW line \in Seq(S), Len(line) >= 2
    PROVE  SubSeq(line, 1, 2) = <<line[1], line[2]>> /\ line[1] \in S /\ line[2] \in S
<1> DEFINE q == SubSeq(line, 1, 2)
<1>1. Len(line) \in Nat
  BY LenProperties
<1>2. line[1] \in S /\ line[2] \in S
  BY <1>1, ElementOfSeq
<1>3. \A i \in 1 .. 2 : line[i] \in S
  BY <1>2
<1>4. /\ q \in Seq(S) /\ Len(q) = 2
      /\ \A i \in 1 .. 2 - 1 + 1 : q[i] = line[1 + i - 1]
  BY <1>3, SubSeqProperties
<1>5. q[1] = line[1] /\ q[2] = line[2]
  BY <1>4
<1>6. q = <<line[1], line[2]>>
  <2> HIDE DEF q
  <2>1. \A i \in 1 .. 2 : i = 1 \/ i = 2
    OBVIOUS
  <2>2. q = [i \in 1 .. 2 |-> q[i]]
    BY <1>4, LenProperties
  <2>3. <<line[1], line[2]>> = [i \in 1 .. 2 |-> <<line[1], line[2]>>[i]]
    OBVIOUS
  <2>4. \A i \in 1 .. 2 : <<line[1], line[2]>>[i] = q[i]
    BY <2>1, <1>5
  <2> QED BY <2>2, <2>3, <2>4
<1> QED BY <1>2, <1>6

\* What is shown of a line or of a pair is a pair of numbers.
LEMMA ShownType ==
    ASSUME ConstantAssumption, NEW line \in Seq(Number), line # <<>>, NEW pair \in Shown(line)
    PROVE  pair \in Int \X Int
<1>1. Len(line) \in Nat /\ Len(line) # 0
  BY LenProperties, EmptySeq
<1>2. Number \subseteq Int
  BY DEF Number
<1>3. CASE Len(line) = 1
  <2>1. Shown(line) = {line[1]} \X Garbage
    BY <1>3 DEF Shown
  <2>2. PICK g \in Garbage : pair = <<line[1], g>>
    BY <2>1
  <2>3. g \in Int
    BY DEF ConstantAssumption
  <2>4. line[1] \in Number
    BY <1>3, ElementOfSeq
  <2> QED BY <1>2, <2>2, <2>3, <2>4
<1>4. CASE Len(line) # 1
  <2>1. \A n \in Nat : n # 0 /\ n # 1 => n >= 2
    OBVIOUS
  <2>2. SubSeq(line, 1, 2) = <<line[1], line[2]>> /\ line[1] \in Number /\ line[2] \in Number
    BY <1>1, <1>4, <2>1, FirstTwo
  <2>3. Shown(line) = {SubSeq(line, 1, 2)}
    BY <1>4 DEF Shown
  <2>4. pair = <<line[1], line[2]>>
    BY <2>2, <2>3
  <2>5. line[1] \in Int /\ line[2] \in Int
    BY <1>2, <2>2
  <2> QED BY <2>4, <2>5
<1> QED BY <1>3, <1>4

\* A parent generates a line.
LEMMA GenerateType ==
    ASSUME ConstantAssumption, IInv, NEW r \in Run, Generate(r)
    PROVE  \E line \in Lines :
               /\ line \in Seq(Number) /\ line # <<>>
               /\ shm' = [shm EXCEPT ![gen[r]] = line]
               /\ sets' = [sets EXCEPT ![r] = Append(@, line)]
               /\ Append(sets[r], line) \in Seq(Lines)
               /\ Len(Append(sets[r], line)) = Len(sets[r]) + 1 /\ Len(sets[r]) \in Nat
               /\ \A k \in 1 .. Len(sets[r]) : Append(sets[r], line)[k] = sets[r][k]
               /\ Append(sets[r], line)[Len(sets[r]) + 1] = line
<1>1. PICK line \in Lines : /\ shm' = [shm EXCEPT ![gen[r]] = line]
                            /\ sets' = [sets EXCEPT ![r] = Append(@, line)]
  BY DEF Generate
<1>2. line \in Seq(Number) /\ line # <<>>
  BY DEF ConstantAssumption
<1>3. sets[r] \in Seq(Lines) /\ sets' = [sets EXCEPT ![r] = Append(sets[r], line)]
  BY <1>1 DEF IInv, TypeOK
<1>4. /\ Append(sets[r], line) \in Seq(Lines)
      /\ Len(Append(sets[r], line)) = Len(sets[r]) + 1 /\ Len(sets[r]) \in Nat
      /\ \A k \in 1 .. Len(sets[r]) : Append(sets[r], line)[k] = sets[r][k]
      /\ Append(sets[r], line)[Len(sets[r]) + 1] = line
  BY <1>3, AppendProperties, LenProperties
<1> QED BY <1>1, <1>2, <1>4
\* The child writes a pair.
LEMMA AnalyseType ==
    ASSUME ConstantAssumption, IInv, NEW r \in Run, Analyse(r)
    PROVE  /\ gen[r] \in Gen /\ shm[gen[r]] \in Seq(Number) /\ shm[gen[r]] # <<>>
           /\ analyze_line(shm[gen[r]]) \in Number \X Number
           /\ analyze_line(shm[gen[r]]) \in Seq(Number)
           /\ analyze_line(shm[gen[r]]) # <<>> /\ Len(analyze_line(shm[gen[r]])) = 2
<1>1. gen[r] \in Gen
  BY OwnGen DEF Analyse, IInv, Generations
<1>2. shm[gen[r]] \in Seq(Number) /\ shm[gen[r]] # <<>>
  BY <1>1 DEF Analyse, IInv, TypeOK, Filled
<1>3. analyze_line(shm[gen[r]]) \in Number \X Number
  BY <1>2, PairFound
<1>4. ASSUME NEW p \in Number \X Number PROVE p \in Seq(Number) /\ p # <<>> /\ Len(p) = 2
  <2>1. PICK a, b \in Number : p = <<a, b>>
    OBVIOUS
  <2>2. <<a, b>> \in Seq(Number) /\ <<a, b>> # <<>> /\ Len(<<a, b>>) = 2
    OBVIOUS
  <2> QED BY <2>1, <2>2
<1> QED BY <1>1, <1>2, <1>3, <1>4

\* The types but the relations of the lengths, which are Counted's.
LEMMA TypeStep ==
    ASSUME ConstantAssumption, IInv, [Next]_vars
    PROVE  TypeOK'
<1> USE DEF IInv
<1>a. Cardinality(Run) \in Nat
  BY RunFinite
<1>1. ASSUME NEW r \in Run, Start(r) PROVE TypeOK'
  <2>1. last \in Nat /\ last + 1 <= Cardinality(Run) /\ last' \in {last, last + 1}
    BY <1>1, NewGen DEF Start
  <2>2. last' \in 0 .. Cardinality(Run) /\ named' \in 0 .. last' /\ 0 .. last \subseteq 0 .. last'
    BY <1>1, <1>a, <2>1 DEF Start, TypeOK
  <2>3. gen' \in [Run -> 0 .. last']
    BY <1>1, <2>2 DEF Start, TypeOK
  <2> QED BY <1>1, <2>2, <2>3 DEF Start, TypeOK, Gen
<1>2. ASSUME NEW r \in Run, Generate(r) PROVE TypeOK'
  <2>1. PICK line \in Lines :
               /\ line \in Seq(Number) /\ line # <<>>
               /\ shm' = [shm EXCEPT ![gen[r]] = line]
               /\ sets' = [sets EXCEPT ![r] = Append(@, line)]
               /\ Append(sets[r], line) \in Seq(Lines)
               /\ Len(Append(sets[r], line)) = Len(sets[r]) + 1 /\ Len(sets[r]) \in Nat
    BY <1>2, GenerateType
  <2>2. shm' \in [Gen -> Seq(Number)] /\ sets' \in [Run -> Seq(Lines)]
    BY <2>1 DEF TypeOK
  <2>3. \A q \in Run : sets'[q] = IF q = r THEN Append(sets[r], line) ELSE sets[q]
    BY <2>1 DEF TypeOK
  <2>4. Len(sets[r]) + 1 <= MaxSets /\ Len(results[r]) <= Len(sets[r]) + 1
    <3>1. Len(results[r]) \in Nat /\ Len(results[r]) <= Len(sets[r]) /\ Len(sets[r]) < MaxSets
          /\ MaxSets \in Nat
      BY <1>2, LenProperties DEF Generate, TypeOK, ConstantAssumption
    <3> QED BY <2>1, <3>1
  <2>5. \A q \in Run : Len(results[q]) <= Len(sets'[q]) /\ Len(sets'[q]) <= MaxSets
    BY <2>1, <2>3, <2>4 DEF TypeOK
  <2> QED BY <1>2, <2>2, <2>5 DEF Generate, TypeOK
<1>3. ASSUME NEW r \in Run, ParentPost(r) PROVE TypeOK'
  <2>1. gen[r] \in Gen
    BY <1>3, OwnGen DEF ParentPost, Generations
  <2>2. sem0' \in [Gen -> Nat]
    BY <1>3, <2>1 DEF ParentPost, TypeOK
  <2> QED BY <1>3, <2>2 DEF ParentPost, TypeOK
<1>4. ASSUME NEW r \in Run, ParentWait(r) PROVE TypeOK'
  <2>1. gen[r] \in Gen
    BY <1>4, OwnGen DEF ParentWait
  <2>2. sem1' \in [Gen -> Nat]
    BY <1>4, <2>1 DEF ParentWait, TypeOK
  <2> QED BY <1>4, <2>2 DEF ParentWait, TypeOK
<1>5. ASSUME NEW r \in Run, PrintLine(r) PROVE TypeOK'
  <2>1. gen[r] \in Gen /\ shm[gen[r]] # <<>> /\ shm[gen[r]] \in Seq(Number)
    BY <1>5, OwnGen DEF PrintLine, Filled, TypeOK
  <2>2. PICK pair \in Int \X Int : results' = [results EXCEPT ![r] = Append(@, pair)]
    BY <1>5, <2>1, ShownType DEF PrintLine
  <2>3. /\ Append(results[r], pair) \in Seq(Int \X Int)
        /\ Len(Append(results[r], pair)) = Len(results[r]) + 1
    BY AppendProperties DEF TypeOK
  <2>4. results' \in [Run -> Seq(Int \X Int)]
    BY <2>2, <2>3 DEF TypeOK
  <2>5. /\ Len(results[r]) = Len(sets[r]) - 1 /\ count[r] = Len(results[r])
        /\ Len(sets[r]) \in Nat /\ Len(results[r]) \in Nat
    BY <1>5, LenProperties DEF PrintLine, Counted, TypeOK
  <2>6. \A q \in Run : results'[q] = IF q = r THEN Append(results[r], pair) ELSE results[q]
    BY <2>2 DEF TypeOK
  <2>7. /\ Len(results'[r]) - 1 <= count[r] /\ count[r] <= Len(results'[r])
        /\ Len(results'[r]) <= Len(sets[r])
    <3>1. Len(results'[r]) = Len(results[r]) + 1
      BY <2>3, <2>6
    <3> QED BY <2>5, <3>1
  <2>8. \A q \in Run : /\ Len(results'[q]) - 1 <= count[q] /\ count[q] <= Len(results'[q])
                       /\ Len(results'[q]) <= Len(sets[q])
    BY <2>6, <2>7 DEF TypeOK
  <2> QED BY <1>5, <2>4, <2>8 DEF PrintLine, TypeOK
<1>6. ASSUME NEW r \in Run, Count(r) PROVE TypeOK'
  <2>1. /\ Len(results[r]) = Len(sets[r]) /\ count[r] = Len(sets[r]) - 1 /\ Len(sets[r]) \in Nat
    BY <1>6, LenProperties DEF Count, Counted, TypeOK
  <2>2. count' = [count EXCEPT ![r] = count[r] + 1]
    BY <1>6 DEF Count, CountOne
  <2>3. \A q \in Run : count'[q] = IF q = r THEN count[r] + 1 ELSE count[q]
    BY <2>2 DEF TypeOK
  <2>4. count' \in [Run -> Nat]
    BY <2>2 DEF TypeOK
  <2>5. Len(results[r]) - 1 <= count'[r] /\ count'[r] <= Len(results[r])
    BY <2>1, <2>3
  <2>6. \A q \in Run : Len(results[q]) - 1 <= count'[q] /\ count'[q] <= Len(results[q])
    BY <2>3, <2>5 DEF TypeOK
  <2> QED BY <1>6, <2>4, <2>6 DEF Count, TypeOK
<1>7. ASSUME NEW r \in Run, ChildWait(r) PROVE TypeOK'
  <2>1. gen[r] \in Gen
    BY <1>7, OwnGen DEF ChildWait, Generations
  <2>2. sem0' \in [Gen -> Nat]
    BY <1>7, <2>1 DEF ChildWait, TypeOK
  <2> QED BY <1>7, <2>2 DEF ChildWait, TypeOK
<1>8. ASSUME NEW r \in Run, Analyse(r) PROVE TypeOK'
  <2>1. shm' = [shm EXCEPT ![gen[r]] = analyze_line(shm[gen[r]])]
    BY <1>8 DEF Analyse
  <2>2. shm' \in [Gen -> Seq(Number)]
    BY <1>8, <2>1, AnalyseType DEF TypeOK
  <2> QED BY <1>8, <2>2 DEF Analyse, TypeOK
<1>9. ASSUME NEW r \in Run, ChildPost(r) PROVE TypeOK'
  <2>1. gen[r] \in Gen
    BY <1>9, OwnGen DEF ChildPost, Generations
  <2>2. sem1' \in [Gen -> Nat]
    BY <1>9, <2>1 DEF ChildPost, TypeOK
  <2> QED BY <1>9, <2>2 DEF ChildPost, TypeOK
<1>10. ASSUME NEW r \in Run, ChildInt(r) PROVE TypeOK'
  <2>1. gen[r] \in Gen
    BY <1>10, OwnGen DEF ChildInt, Generations
  <2>2. sem1' \in [Gen -> Nat]
    BY <1>10, <2>1 DEF ChildInt, TypeOK
  <2> QED BY <1>10, <2>2 DEF ChildInt, TypeOK
<1>11. ASSUME NEW r \in Run, ParentInt(r) PROVE TypeOK'
  <2>1. 0 \in 0 .. last
    BY <1>a DEF TypeOK
  <2> QED BY <1>11, <2>1 DEF ParentInt, TypeOK
<1>12. ASSUME NEW r \in Run, KillChild(r) PROVE TypeOK'
  BY <1>12 DEF KillChild, TypeOK
<1>13. ASSUME NEW r \in Run, KillParent(r) PROVE TypeOK'
  BY <1>13 DEF KillParent, TypeOK
<1>14. CASE UNCHANGED vars
  BY <1>14 DEF vars, TypeOK, Gen
<1> QED
  BY <1>1, <1>2, <1>3, <1>4, <1>5, <1>6, <1>7, <1>8, <1>9, <1>10, <1>11, <1>12, <1>13, <1>14
  DEF Next, ParentStep, ChildStep

\* Places, generations and what is in them.
LEMMA GenerationsStep ==
    ASSUME ConstantAssumption, IInv, [Next]_vars
    PROVE  Generations'
<1> USE DEF IInv
<1>a. \A r \in Run : /\ gen[r] \in 0 .. last
                     /\ parent[r] # "off" => gen[r] \in Gen
  BY OwnGen DEF TypeOK
<1>b. last \in Nat /\ Cardinality(Started) \in Nat
  BY RunFinite, FS_Subset, FS_CardinalityType DEF TypeOK, ConstantAssumption, Started
\* A process of a run that has begun moves, and posts or takes.
<1>c. ASSUME NEW r \in Run, parent[r] # "off", UNCHANGED <<last, gen>>,
             named' \in {named, 0},
             parent'[r] # "off", child'[r] # "off",
             \A q \in Run \ {r} : parent'[q] = parent[q] /\ child'[q] = child[q],
             \A q \in Run : child'[q] = "exited" <=> q \in stopped',
             \A g \in Gen \ {gen[r]} : sem0'[g] = sem0[g] /\ sem1'[g] = sem1[g]
      PROVE  Generations'
  <2>1. Started' = Started
    BY <1>c DEF Started
  <2>2. gen[r] # 0 /\ child[r] # "off" /\ ~ (gen[r] > last)
    BY <1>a, <1>b, <1>c DEF Generations
  <2>3. \A q \in Run : /\ gen'[q] = 0 <=> parent'[q] = "off"
                       /\ child'[q] = "off" <=> parent'[q] = "off"
    BY <1>c, <2>2 DEF Generations
  <2>4. named' # 0 => named' = last' /\ \E q \in Run : gen'[q] = named'
    BY <1>c DEF Generations
  <2>5. \A g \in Gen : g > last' => sem0'[g] = 0 /\ sem1'[g] = 0
    BY <1>c, <2>2 DEF Generations
  <2> QED BY <1>c, <2>1, <2>3, <2>4, <2>5 DEF Generations
<1>1. ASSUME NEW r \in Run, Start(r) PROVE Generations'
  <2>1. /\ parent[r] = "off" /\ last' = IF named = 0 THEN last + 1 ELSE last
        /\ named' = last' /\ gen' = [gen EXCEPT ![r] = named']
        /\ parent' = [parent EXCEPT ![r] = "generate"] /\ child' = [child EXCEPT ![r] = "wait"]
        /\ UNCHANGED <<sem0, sem1, stopped>>
    BY <1>1 DEF Start
  <2>2. Started' = Started \cup {r}
    BY <2>1 DEF Started, TypeOK
  <2>3. Cardinality(Started') = Cardinality(Started) + 1
    BY <2>1, <2>2, NewGen
  <2>4. last' <= Cardinality(Started')
    BY <1>b, <2>1, <2>3 DEF Generations
  <2>5. named' # 0
    <3>1. CASE named = 0
      BY <1>b, <2>1, <3>1
    <3>2. CASE named # 0
      BY <1>b, <2>1, <3>2 DEF TypeOK
    <3> QED BY <3>1, <3>2
  <2>6. r \notin stopped
    BY <2>1 DEF Generations
  <2>7. \A q \in Run : /\ gen'[q] = 0 <=> parent'[q] = "off"
                       /\ child'[q] = "off" <=> parent'[q] = "off"
                       /\ child'[q] = "exited" <=> q \in stopped'
    BY <2>1, <2>5, <2>6 DEF Generations, TypeOK
  <2>8. \E q \in Run : gen'[q] = named'
    BY <2>1 DEF TypeOK
  <2>9. \A g \in Gen : g > last' => sem0'[g] = 0 /\ sem1'[g] = 0
    BY <1>b, <2>1 DEF Generations, Gen
  <2> QED BY <2>1, <2>4, <2>7, <2>8, <2>9 DEF Generations
<1>2. ASSUME NEW r \in Run, Generate(r) PROVE Generations'
  BY <1>2, <1>c DEF Generate, Generations, TypeOK
<1>3. ASSUME NEW r \in Run, ParentPost(r) PROVE Generations'
  <2>1. /\ parent[r] = "post" /\ parent' = [parent EXCEPT ![r] = "wait"]
        /\ sem0' = [sem0 EXCEPT ![gen[r]] = @ + 1]
        /\ UNCHANGED <<named, last, sem1, gen, child, stopped>>
    BY <1>3 DEF ParentPost, CountOne
  <2>2. parent[r] # "off"
    BY <2>1 DEF Generations, TypeOK
  <2> QED BY <2>1, <2>2, <1>c DEF Generations, TypeOK
<1>4. ASSUME NEW r \in Run, ParentWait(r) PROVE Generations'
  <2>1. /\ parent[r] = "wait" /\ parent' = [parent EXCEPT ![r] = "print"]
        /\ sem1' = [sem1 EXCEPT ![gen[r]] = @ - 1]
        /\ UNCHANGED <<named, last, sem0, gen, child, stopped>>
    BY <1>4 DEF ParentWait, CountOne
  <2>2. parent[r] # "off"
    BY <2>1 DEF Generations, TypeOK
  <2> QED BY <2>1, <2>2, <1>c DEF Generations, TypeOK
<1>5. ASSUME NEW r \in Run, PrintLine(r) PROVE Generations'
  <2>1. /\ parent[r] = "print" /\ parent' = [parent EXCEPT ![r] = "count"]
        /\ UNCHANGED <<named, last, sem0, sem1, gen, child, stopped>>
    BY <1>5 DEF PrintLine
  <2> QED BY <2>1, <1>c DEF Generations, TypeOK
<1>6. ASSUME NEW r \in Run, Count(r) PROVE Generations'
  <2>1. /\ parent[r] = "count" /\ parent' = [parent EXCEPT ![r] = "generate"]
        /\ UNCHANGED <<named, last, sem0, sem1, gen, child, stopped>>
    BY <1>6 DEF Count, CountOne
  <2>2. parent[r] # "off"
    BY <2>1 DEF Generations, TypeOK
  <2> QED BY <2>1, <2>2, <1>c DEF Generations, TypeOK
<1>7. ASSUME NEW r \in Run, ChildWait(r) PROVE Generations'
  BY <1>7, <1>c DEF ChildWait, Generations, TypeOK
<1>8. ASSUME NEW r \in Run, Analyse(r) PROVE Generations'
  BY <1>8, <1>c DEF Analyse, Generations, TypeOK
<1>9. ASSUME NEW r \in Run, ChildPost(r) PROVE Generations'
  BY <1>9, <1>c DEF ChildPost, Generations, TypeOK
<1>10. ASSUME NEW r \in Run, ChildInt(r) PROVE Generations'
  <2>1. /\ child[r] # "off" /\ child' = [child EXCEPT ![r] = "exited"]
        /\ sem1' = [sem1 EXCEPT ![gen[r]] = @ + 1] /\ stopped' = stopped \cup {r}
        /\ UNCHANGED <<named, last, sem0, gen, parent>>
    BY <1>10 DEF ChildInt, CountOne
  <2>2. parent[r] # "off"
    BY <2>1 DEF Generations, TypeOK
  <2> QED BY <2>1, <2>2, <1>c DEF Generations, TypeOK
<1>11. ASSUME NEW r \in Run, ParentInt(r) PROVE Generations'
  BY <1>11, <1>c DEF ParentInt, Generations, TypeOK
<1>12. ASSUME NEW r \in Run, KillChild(r) PROVE Generations'
  BY <1>12, <1>c DEF KillChild, Generations, TypeOK
<1>13. ASSUME NEW r \in Run, KillParent(r) PROVE Generations'
  BY <1>13, <1>c DEF KillParent, Generations, TypeOK
<1>14. CASE UNCHANGED vars
  BY <1>14 DEF vars, Generations, Started, Gen
<1> QED
  BY <1>1, <1>2, <1>3, <1>4, <1>5, <1>6, <1>7, <1>8, <1>9, <1>10, <1>11, <1>12, <1>13, <1>14
  DEF Next, ParentStep, ChildStep

LEMMA FilledStep ==
    ASSUME ConstantAssumption, IInv, [Next]_vars
    PROVE  Filled'
<1> USE DEF IInv
<1>a. \A r \in Run : parent[r] # "off" => gen[r] \in Gen
  BY OwnGen
<1>1. ASSUME NEW r \in Run, Start(r) PROVE Filled'
  BY <1>1 DEF Start, Filled, TypeOK
<1>2. ASSUME NEW r \in Run, Generate(r) PROVE Filled'
  <2>1. PICK line \in Lines : line # <<>> /\ shm' = [shm EXCEPT ![gen[r]] = line]
    BY <1>2, GenerateType
  <2>2. \A g : shm[g] # <<>> => shm'[g] # <<>>
    BY <2>1 DEF TypeOK
  <2> QED BY <1>2, <1>a, <2>1, <2>2 DEF Generate, Filled, TypeOK
<1>3. ASSUME NEW r \in Run, ParentPost(r) PROVE Filled'
  BY <1>3, <1>a DEF ParentPost, Filled, TypeOK
<1>4. ASSUME NEW r \in Run, ParentWait(r) PROVE Filled'
  BY <1>4, <1>a DEF ParentWait, Filled, TypeOK
<1>5. ASSUME NEW r \in Run, PrintLine(r) PROVE Filled'
  BY <1>5 DEF PrintLine, Filled, TypeOK
<1>6. ASSUME NEW r \in Run, Count(r) PROVE Filled'
  BY <1>6 DEF Count, Filled, TypeOK
<1>7. ASSUME NEW r \in Run, ChildWait(r) PROVE Filled'
  BY <1>7, <1>a DEF ChildWait, Filled, TypeOK, Generations
<1>8. ASSUME NEW r \in Run, Analyse(r) PROVE Filled'
  <2>1. /\ gen[r] \in Gen /\ shm'[gen[r]] # <<>>
        /\ \A g \in Gen \ {gen[r]} : shm'[g] = shm[g]
    BY <1>8, AnalyseType DEF Analyse, TypeOK
  <2>2. \A g \in Gen : shm[g] # <<>> => shm'[g] # <<>>
    BY <2>1
  <2>3. \A q \in Run : (child'[q] = "analyse" \/ parent'[q] \in {"post", "wait", "print"})
                         => gen[q] \in Gen /\ shm[gen[q]] # <<>>
    BY <1>8, <1>a DEF Analyse, Filled, TypeOK, Generations
  <2> QED BY <1>8, <2>2, <2>3 DEF Analyse, Filled, TypeOK
<1>9. ASSUME NEW r \in Run, ChildPost(r) PROVE Filled'
  BY <1>9 DEF ChildPost, Filled, TypeOK
<1>10. ASSUME NEW r \in Run, ChildInt(r) PROVE Filled'
  BY <1>10 DEF ChildInt, Filled, TypeOK
<1>11. ASSUME NEW r \in Run, ParentInt(r) PROVE Filled'
  BY <1>11 DEF ParentInt, Filled, TypeOK
<1>12. ASSUME NEW r \in Run, KillChild(r) PROVE Filled'
  BY <1>12 DEF KillChild, Filled, TypeOK
<1>13. ASSUME NEW r \in Run, KillParent(r) PROVE Filled'
  BY <1>13 DEF KillParent, Filled, TypeOK
<1>14. CASE UNCHANGED vars
  BY <1>14 DEF vars, Filled, Gen
<1> QED
  BY <1>1, <1>2, <1>3, <1>4, <1>5, <1>6, <1>7, <1>8, <1>9, <1>10, <1>11, <1>12, <1>13, <1>14
  DEF Next, ParentStep, ChildStep

LEMMA CountedStep ==
    ASSUME ConstantAssumption, IInv, [Next]_vars
    PROVE  Counted'
<1> USE DEF IInv
<1>a. \A r \in Run : Len(sets[r]) \in Nat /\ Len(results[r]) \in Nat /\ count[r] \in Nat
  BY LenProperties DEF TypeOK
\* One parent moves; what it has done fits its new place.
<1>b. ASSUME NEW r \in Run,
             \A q \in Run \ {r} : /\ parent'[q] = parent[q] /\ count'[q] = count[q]
                                  /\ sets'[q] = sets[q] /\ results'[q] = results[q],
             LET n == Len(sets'[r])
                 m == Len(results'[r])
             IN  /\ parent'[r] # "off"
                 /\ parent'[r] = "generate" => m = n /\ count'[r] = n
                 /\ parent'[r] \in {"post", "wait", "print"} => m = n - 1 /\ count'[r] = n - 1
                 /\ parent'[r] = "count" => m = n /\ count'[r] = n - 1
      PROVE  Counted'
  <2> SUFFICES ASSUME NEW q \in Run
               PROVE  /\ parent'[q] = "off"
                            => Len(results'[q]) = 0 /\ Len(sets'[q]) = 0 /\ count'[q] = 0
                      /\ parent'[q] = "generate"
                            => Len(results'[q]) = Len(sets'[q]) /\ count'[q] = Len(sets'[q])
                      /\ parent'[q] \in {"post", "wait", "print"}
                            => Len(results'[q]) = Len(sets'[q]) - 1 /\ count'[q] = Len(sets'[q]) - 1
                      /\ parent'[q] = "count"
                            => Len(results'[q]) = Len(sets'[q]) /\ count'[q] = Len(sets'[q]) - 1
    BY DEF Counted
  <2>1. CASE q = r
    BY <1>b, <2>1
  <2>2. CASE q # r
    BY <1>b, <2>2 DEF Counted
  <2> QED BY <2>1, <2>2
<1>1. ASSUME NEW r \in Run, Start(r) PROVE Counted'
  BY <1>1, <1>b DEF Start, Counted, TypeOK
<1>2. ASSUME NEW r \in Run, Generate(r) PROVE Counted'
  <2>1. PICK line \in Lines : /\ sets' = [sets EXCEPT ![r] = Append(@, line)]
                              /\ Len(Append(sets[r], line)) = Len(sets[r]) + 1
    BY <1>2, GenerateType
  <2>2. /\ Len(sets'[r]) = Len(sets[r]) + 1 /\ parent'[r] = "post"
        /\ results' = results /\ count' = count
        /\ \A q \in Run \ {r} : parent'[q] = parent[q] /\ sets'[q] = sets[q]
    BY <1>2, <2>1 DEF Generate, TypeOK
  <2>3. Len(results[r]) = Len(sets[r]) /\ count[r] = Len(sets[r])
    BY <1>2 DEF Generate, Counted
  <2> QED BY <1>a, <1>b, <2>2, <2>3, SMTT(20)
<1>3. ASSUME NEW r \in Run, ParentPost(r) PROVE Counted'
  BY <1>3, <1>b DEF ParentPost, Counted, TypeOK
<1>4. ASSUME NEW r \in Run, ParentWait(r) PROVE Counted'
  BY <1>4, <1>b DEF ParentWait, Counted, TypeOK
<1>5. ASSUME NEW r \in Run, PrintLine(r) PROVE Counted'
  <2>1. PICK pair : results' = [results EXCEPT ![r] = Append(@, pair)]
    BY <1>5 DEF PrintLine
  <2>2. Len(Append(results[r], pair)) = Len(results[r]) + 1
    BY DEF TypeOK
  <2>3. /\ Len(results'[r]) = Len(results[r]) + 1 /\ parent'[r] = "count"
        /\ sets' = sets /\ count' = count
        /\ \A q \in Run \ {r} : parent'[q] = parent[q] /\ results'[q] = results[q]
    BY <1>5, <2>1, <2>2 DEF PrintLine, TypeOK
  <2>4. Len(results[r]) = Len(sets[r]) - 1 /\ count[r] = Len(sets[r]) - 1
    BY <1>5 DEF PrintLine, Counted
  <2> QED BY <1>a, <1>b, <2>3, <2>4
<1>6. ASSUME NEW r \in Run, Count(r) PROVE Counted'
  <2>1. /\ parent'[r] = "generate" /\ count'[r] = count[r] + 1 /\ results' = results /\ sets' = sets
        /\ \A q \in Run \ {r} : parent'[q] = parent[q] /\ count'[q] = count[q]
    BY <1>6 DEF Count, CountOne, TypeOK
  <2>2. Len(results[r]) = Len(sets[r]) /\ count[r] = Len(sets[r]) - 1
    BY <1>6 DEF Count, Counted
  <2> QED BY <1>a, <1>b, <2>1, <2>2
<1>7. ASSUME NEW r \in Run, ParentInt(r) \/ KillParent(r) PROVE Counted'
  BY <1>7, <1>b DEF ParentInt, KillParent, TypeOK
<1>8. CASE UNCHANGED <<parent, sets, results, count>>
  BY <1>8 DEF Counted
<1> QED
  BY <1>1, <1>2, <1>3, <1>4, <1>5, <1>6, <1>7, <1>8
  DEF Next, ParentStep, ChildStep, ChildWait, Analyse, ChildPost, ChildInt, KillChild, vars


-----------------------------------------------------------------------------
(* The turn. *)

\* A run that has begun and is alone: no step of another run touches what it has.
LEMMA Apart ==
    ASSUME ConstantAssumption, TypeOK, Generations, NEW r \in Run, NEW q \in Run \ {r}, Alone(q)
    PROVE  gen[q] \in Gen /\ gen[q] # gen[r] /\ parent[q] # "off" /\ child[q] # "off"
BY OwnGen DEF Alone, Generations

\* A new run finds nothing in the semaphores of a new generation; it is not alone in one
\* that the names still stand for.
LEMMA Starts ==
    ASSUME ConstantAssumption, IInv, NEW r \in Run, Start(r)
    PROVE  /\ Alone(r)' => sem0'[gen'[r]] = 0 /\ sem1'[gen'[r]] = 0 /\ gen'[r] \in Gen
           /\ \A q \in Run \ {r} : Alone(q)' => Alone(q) /\ gen'[q] = gen[q]
           /\ parent'[r] = "generate" /\ child'[r] = "wait"
           /\ \A q \in Run \ {r} : parent'[q] = parent[q] /\ child'[q] = child[q]
<1>1. /\ parent[r] = "off" /\ last' = IF named = 0 THEN last + 1 ELSE last
      /\ named' = last' /\ gen' = [gen EXCEPT ![r] = named']
      /\ parent' = [parent EXCEPT ![r] = "generate"] /\ child' = [child EXCEPT ![r] = "wait"]
      /\ UNCHANGED <<sem0, sem1>>
  BY DEF Start
<1>2. \A q \in Run : gen'[q] = IF q = r THEN named' ELSE gen[q]
  BY <1>1 DEF IInv, TypeOK
<1>3. last \in Nat /\ last + 1 <= Cardinality(Run) /\ Cardinality(Run) \in Nat
  BY <1>1, NewGen, RunFinite DEF IInv
<1>4. ASSUME named = 0 PROVE sem0'[gen'[r]] = 0 /\ sem1'[gen'[r]] = 0 /\ gen'[r] \in Gen
  <2>1. gen'[r] = last + 1 /\ last + 1 \in Gen /\ last + 1 > last
    BY <1>1, <1>2, <1>3, <1>4 DEF Gen
  <2>2. sem0[last + 1] = 0 /\ sem1[last + 1] = 0
    BY <2>1 DEF IInv, Generations
  <2> QED BY <1>1, <2>1, <2>2
<1>5. ASSUME named # 0 PROVE ~ Alone(r)'
  <2>1. PICK q \in Run : gen[q] = named
    BY <1>5 DEF IInv, Generations
  <2>2. q # r
    BY <1>1, <1>5, <2>1 DEF IInv, Generations
  <2>3. gen'[r] = named /\ gen'[q] = named
    BY <1>1, <1>2, <1>5, <2>1, <2>2 DEF IInv, Generations
  <2>4. ~ Alone(r)'
    BY <2>2, <2>3 DEF Alone
  <2> QED BY <2>4
\* The others.
<1>6. ASSUME NEW q \in Run \ {r}, Alone(q)' PROVE Alone(q) /\ gen'[q] = gen[q]
  <2>1. gen'[q] = gen[q] /\ gen[q] # 0
    BY <1>2, <1>6 DEF Alone
  <2>2. gen[r] = 0
    BY <1>1 DEF IInv, Generations
  <2>3. \A p \in Run \ {q} : gen[p] # gen[q]
    BY <1>2, <1>6, <2>1, <2>2 DEF Alone
  <2> QED BY <2>1, <2>3 DEF Alone
<1> QED BY <1>1, <1>4, <1>5, <1>6 DEF IInv, TypeOK

\* A step of one run, after which its turn is where it should be.
LEMMA TurnKept ==
    ASSUME ConstantAssumption, IInv, NEW r \in Run, UNCHANGED gen, TurnOf(r)',
           \A q \in Run \ {r} : parent'[q] = parent[q] /\ child'[q] = child[q],
           \A g \in Gen \ {gen[r]} : sem0'[g] = sem0[g] /\ sem1'[g] = sem1[g]
    PROVE  \A q \in Run : TurnOf(q)'
<1> SUFFICES ASSUME NEW q \in Run \ {r}, Alone(q)', TurnOf(q) PROVE TurnOf(q)'
  BY DEF TurnOf, IInv
<1>1. Alone(q) /\ Alone(q)' /\ gen[q] \in Gen /\ gen[q] # gen[r]
  BY Apart DEF Alone, IInv
<1> QED BY <1>1 DEF TurnOf, Sum

\* The same of a process that moves and leaves the semaphores.
LEMMA TurnMoves ==
    ASSUME ConstantAssumption, IInv, NEW r \in Run, parent[r] # "off",
           UNCHANGED <<gen, sem0, sem1>>,
           \A q \in Run \ {r} : parent'[q] = parent[q] /\ child'[q] = child[q],
           parent'[r] = "exited" \/ (parent[r] # "exited" /\ (parent'[r] = "wait" <=> parent[r] = "wait")),
           child'[r] = "exited" \/ (child[r] # "exited" /\ (child'[r] = "wait" <=> child[r] = "wait"))
    PROVE  \A q \in Run : TurnOf(q)'
<1>1. TurnOf(r)'
  BY DEF TurnOf, Sum, Alone, IInv
<1> QED BY <1>1, TurnKept

LEMMA TurnStep ==
    ASSUME ConstantAssumption, IInv, [Next]_vars
    PROVE  \A q \in Run : TurnOf(q)'
<1> USE DEF IInv
<1>a. \A r \in Run : parent[r] # "off" =>
          gen[r] \in Gen /\ sem0[gen[r]] \in Nat /\ sem1[gen[r]] \in Nat
  BY OwnGen DEF TypeOK
<1>1. ASSUME NEW r \in Run, Start(r) PROVE \A q \in Run : TurnOf(q)'
  <2>1. TurnOf(r)'
    BY <1>1, Starts DEF TurnOf, Sum
  <2>2. ASSUME NEW q \in Run \ {r} PROVE TurnOf(q)'
    <3>1. sem0' = sem0 /\ sem1' = sem1
      BY <1>1 DEF Start
    <3>2. Alone(q)' => Alone(q) /\ gen'[q] = gen[q] /\ parent'[q] = parent[q] /\ child'[q] = child[q]
      BY <1>1, Starts
    <3> QED BY <3>1, <3>2 DEF TurnOf, Sum
  <2> QED BY <2>1, <2>2
<1>2. ASSUME NEW r \in Run, Generate(r) PROVE \A q \in Run : TurnOf(q)'
  <2>1. /\ parent[r] = "generate" /\ parent' = [parent EXCEPT ![r] = "post"]
        /\ UNCHANGED <<gen, sem0, sem1, child>>
    BY <1>2 DEF Generate
  <2> QED BY <2>1, TurnMoves DEF TypeOK
<1>3. ASSUME NEW r \in Run, ParentPost(r) PROVE \A q \in Run : TurnOf(q)'
  <2>1. /\ parent[r] = "post" /\ parent'[r] = "wait" /\ child' = child /\ gen' = gen /\ sem1' = sem1
        /\ sem0' = [sem0 EXCEPT ![gen[r]] = sem0[gen[r]] + 1]
        /\ \A q \in Run \ {r} : parent'[q] = parent[q]
    BY <1>3 DEF ParentPost, TypeOK
  <2>2. /\ gen[r] \in Gen /\ sem0[gen[r]] \in Nat /\ sem1[gen[r]] \in Nat
        /\ sem0'[gen[r]] = sem0[gen[r]] + 1
        /\ \A g \in Gen \ {gen[r]} : sem0'[g] = sem0[g]
    BY <1>a, <2>1 DEF TypeOK
  <2>3. Alone(r)' => Alone(r)
    BY <2>1 DEF Alone
  <2>4. Sum(r)' = Sum(r)
    BY <2>1, <2>2 DEF Sum
  <2>5. TurnOf(r)'
    BY <2>1, <2>3, <2>4 DEF TurnOf
  <2> QED BY <2>1, <2>2, <2>5, TurnKept
<1>4. ASSUME NEW r \in Run, ParentWait(r) PROVE \A q \in Run : TurnOf(q)'
  <2>1. /\ parent[r] = "wait" /\ parent'[r] = "print" /\ child' = child /\ gen' = gen /\ sem0' = sem0
        /\ sem1' = [sem1 EXCEPT ![gen[r]] = sem1[gen[r]] - 1]
        /\ \A q \in Run \ {r} : parent'[q] = parent[q]
    BY <1>4 DEF ParentWait, TypeOK
  <2>2. /\ gen[r] \in Gen /\ sem0[gen[r]] \in Nat /\ sem1[gen[r]] \in Nat
        /\ sem1'[gen[r]] = sem1[gen[r]] - 1
        /\ \A g \in Gen \ {gen[r]} : sem1'[g] = sem1[g]
    BY <1>a, <2>1 DEF TypeOK
  <2>3. Alone(r)' => Alone(r)
    BY <2>1 DEF Alone
  <2>4. Sum(r)' = Sum(r)
    BY <2>1, <2>2 DEF Sum
  <2>5. TurnOf(r)'
    BY <2>1, <2>3, <2>4 DEF TurnOf
  <2> QED BY <2>1, <2>2, <2>5, TurnKept
<1>5. ASSUME NEW r \in Run, PrintLine(r) PROVE \A q \in Run : TurnOf(q)'
  <2>1. /\ parent[r] = "print" /\ parent' = [parent EXCEPT ![r] = "count"]
        /\ UNCHANGED <<gen, sem0, sem1, child>>
    BY <1>5 DEF PrintLine
  <2> QED BY <2>1, TurnMoves DEF TypeOK
<1>6. ASSUME NEW r \in Run, Count(r) PROVE \A q \in Run : TurnOf(q)'
  <2>1. /\ parent[r] = "count" /\ parent' = [parent EXCEPT ![r] = "generate"]
        /\ UNCHANGED <<gen, sem0, sem1, child>>
    BY <1>6 DEF Count
  <2> QED BY <2>1, TurnMoves DEF TypeOK
<1>7. ASSUME NEW r \in Run, ChildWait(r) PROVE \A q \in Run : TurnOf(q)'
  <2>1. /\ child[r] = "wait" /\ child'[r] = "analyse" /\ parent' = parent /\ gen' = gen
        /\ sem1' = sem1 /\ sem0' = [sem0 EXCEPT ![gen[r]] = sem0[gen[r]] - 1]
        /\ \A q \in Run \ {r} : child'[q] = child[q]
    BY <1>7 DEF ChildWait, TypeOK
  <2>2. /\ gen[r] \in Gen /\ sem0[gen[r]] \in Nat /\ sem1[gen[r]] \in Nat
        /\ sem0'[gen[r]] = sem0[gen[r]] - 1
        /\ \A g \in Gen \ {gen[r]} : sem0'[g] = sem0[g]
    BY <1>a, <2>1 DEF TypeOK, Generations
  <2>3. Alone(r)' => Alone(r)
    BY <2>1 DEF Alone
  <2>4. Sum(r)' = Sum(r)
    BY <2>1, <2>2 DEF Sum
  <2>5. TurnOf(r)'
    BY <2>1, <2>3, <2>4 DEF TurnOf
  <2> QED BY <2>1, <2>2, <2>5, TurnKept
<1>8. ASSUME NEW r \in Run, Analyse(r) PROVE \A q \in Run : TurnOf(q)'
  <2>1. /\ child[r] = "analyse" /\ child' = [child EXCEPT ![r] = "post"]
        /\ UNCHANGED <<gen, sem0, sem1, parent>>
    BY <1>8 DEF Analyse
  <2>2. parent[r] # "off"
    BY <2>1 DEF Generations
  <2>3. TurnOf(r)'
    BY <2>1, <2>2 DEF TurnOf, Sum, Alone, TypeOK
  <2> QED BY <2>1, <2>3, TurnKept DEF TypeOK
<1>9. ASSUME NEW r \in Run, ChildPost(r) PROVE \A q \in Run : TurnOf(q)'
  <2>1. /\ child[r] = "post" /\ child'[r] = "wait" /\ parent' = parent /\ gen' = gen
        /\ sem0' = sem0 /\ sem1' = [sem1 EXCEPT ![gen[r]] = sem1[gen[r]] + 1]
        /\ \A q \in Run \ {r} : child'[q] = child[q]
    BY <1>9 DEF ChildPost, TypeOK
  <2>2. /\ gen[r] \in Gen /\ sem0[gen[r]] \in Nat /\ sem1[gen[r]] \in Nat
        /\ sem1'[gen[r]] = sem1[gen[r]] + 1
        /\ \A g \in Gen \ {gen[r]} : sem1'[g] = sem1[g]
    BY <1>a, <2>1 DEF TypeOK, Generations
  <2>3. Alone(r)' => Alone(r)
    BY <2>1 DEF Alone
  <2>4. Sum(r)' = Sum(r)
    BY <2>1, <2>2 DEF Sum
  <2>5. TurnOf(r)'
    BY <2>1, <2>3, <2>4 DEF TurnOf
  <2> QED BY <2>1, <2>2, <2>5, TurnKept
<1>10. ASSUME NEW r \in Run, ChildInt(r) \/ KillChild(r) PROVE \A q \in Run : TurnOf(q)'
  <2>1. /\ child'[r] = "exited" /\ parent' = parent /\ gen' = gen /\ sem0' = sem0
        /\ \A q \in Run \ {r} : child'[q] = child[q]
        /\ \A g \in Gen \ {gen[r]} : sem1'[g] = sem1[g]
    BY <1>10 DEF ChildInt, KillChild, TypeOK
  <2>2. TurnOf(r)'
    BY <2>1 DEF TurnOf
  <2> QED BY <2>1, <2>2, TurnKept
<1>11. ASSUME NEW r \in Run, ParentInt(r) \/ KillParent(r) PROVE \A q \in Run : TurnOf(q)'
  <2>1. /\ parent'[r] = "exited" /\ child' = child /\ gen' = gen /\ sem0' = sem0 /\ sem1' = sem1
        /\ \A q \in Run \ {r} : parent'[q] = parent[q]
    BY <1>11 DEF ParentInt, KillParent, TypeOK
  <2>2. TurnOf(r)'
    BY <2>1 DEF TurnOf
  <2> QED BY <2>1, <2>2, TurnKept
<1>12. CASE UNCHANGED vars
  BY <1>12 DEF vars, TurnOf, Sum, Alone
<1> QED
  BY <1>1, <1>2, <1>3, <1>4, <1>5, <1>6, <1>7, <1>8, <1>9, <1>10, <1>11, <1>12
  DEF Next, ParentStep, ChildStep

-----------------------------------------------------------------------------
(* What is in the memory. *)

\* With the turn in one place nobody else is at the memory: where the semaphores and
\* the other process are when one process has the turn, or has just to take it.
LEMMA OneTurn ==
    ASSUME ConstantAssumption, IInv, NEW r \in Run, Alone(r), r \notin stopped
    PROVE  /\ gen[r] \in Gen /\ parent[r] # "off" /\ child[r] \in {"wait", "analyse", "post"}
           /\ parent[r] \notin {"wait", "exited"}
                => sem0[gen[r]] = 0 /\ sem1[gen[r]] = 0 /\ child[r] = "wait"
           /\ parent[r] = "wait" /\ child[r] # "wait" => sem0[gen[r]] = 0 /\ sem1[gen[r]] = 0
           /\ parent[r] = "wait" /\ child[r] = "wait" => sem0[gen[r]] + sem1[gen[r]] = 1
<1>1. parent[r] # "off" /\ child[r] \notin {"off", "exited"}
  BY DEF IInv, Generations, Alone
<1>2. gen[r] \in Gen
  BY <1>1, OwnGen DEF IInv
<1>3. sem0[gen[r]] \in Nat /\ sem1[gen[r]] \in Nat /\ child[r] \in {"wait", "analyse", "post"}
  BY <1>1, <1>2 DEF IInv, TypeOK
<1>4. parent[r] # "exited" => Sum(r) = 1
  BY <1>1 DEF IInv, TurnOf
<1>5. ASSUME parent[r] # "exited", parent[r] # "wait"
      PROVE  sem0[gen[r]] = 0 /\ sem1[gen[r]] = 0 /\ child[r] = "wait"
  BY <1>3, <1>4, <1>5 DEF Sum
<1>6. ASSUME parent[r] = "wait", child[r] # "wait"
      PROVE  sem0[gen[r]] = 0 /\ sem1[gen[r]] = 0
  BY <1>3, <1>4, <1>6 DEF Sum
<1>7. ASSUME parent[r] = "wait", child[r] = "wait"
      PROVE  sem0[gen[r]] + sem1[gen[r]] = 1
  BY <1>3, <1>4, <1>7 DEF Sum
<1> QED BY <1>1, <1>2, <1>3, <1>5, <1>6, <1>7

\* A step of one run, after which its memory and what it has printed are right.
LEMMA DataKept ==
    ASSUME ConstantAssumption, IInv, NEW r \in Run, UNCHANGED gen, DataOf(r)',
           \A q \in Run \ {r} : /\ parent'[q] = parent[q] /\ child'[q] = child[q]
                                /\ sets'[q] = sets[q] /\ results'[q] = results[q]
                                /\ q \in stopped' <=> q \in stopped,
           \A g \in Gen \ {gen[r]} : /\ sem0'[g] = sem0[g] /\ sem1'[g] = sem1[g]
                                     /\ shm'[g] = shm[g]
    PROVE  \A q \in Run : DataOf(q)'
<1> SUFFICES ASSUME NEW q \in Run \ {r}, Alone(q)', DataOf(q) PROVE DataOf(q)'
  BY DEF DataOf, IInv
<1>1. Alone(q) /\ Alone(q)' /\ gen[q] \in Gen /\ gen[q] # gen[r]
  BY Apart DEF Alone, IInv
<1>2. /\ parent'[q] = parent[q] /\ child'[q] = child[q]
      /\ sets'[q] = sets[q] /\ results'[q] = results[q]
      /\ q \in stopped' <=> q \in stopped
      /\ sem0'[gen[q]] = sem0[gen[q]] /\ sem1'[gen[q]] = sem1[gen[q]]
      /\ shm'[gen[q]] = shm[gen[q]] /\ gen'[q] = gen[q]
  BY <1>1
<1> QED BY <1>1, <1>2 DEF DataOf, Printed, Given, Back, NewLine

\* What print_line shows of a pair the child has written.
LEMMA PairShown ==
    ASSUME ConstantAssumption, NEW line \in Seq(Number), line # <<>>
    PROVE  Shown(analyze_line(line)) = {analyze_line(line)} /\ Right(analyze_line(line), line)
<1>1. /\ analyze_line(line) \in Number \X Number
      /\ analyze_line(line)[1] \in Range(line) /\ analyze_line(line)[2] \in Range(line)
      /\ \A n \in Range(line) : analyze_line(line)[1] <= n /\ n <= analyze_line(line)[2]
  <2>1. line \in Seq(Number) \ {<<>>}
    OBVIOUS
  <2> QED BY <2>1, PairFound, BoundsFound
<1>2. ASSUME NEW a \in Number, NEW b \in Number
      PROVE  Shown(<<a, b>>) = {<<a, b>>}
  <2>1. <<a, b>> \in Seq(Number) /\ Len(<<a, b>>) = 2 /\ <<a, b>>[1] = a /\ <<a, b>>[2] = b
    OBVIOUS
  <2>2. \A p \in Seq(Number) : Len(p) = 2 => SubSeq(p, 1, 2) = <<p[1], p[2]>>
    <3> SUFFICES ASSUME NEW p \in Seq(Number), Len(p) = 2
                 PROVE  SubSeq(p, 1, 2) = <<p[1], p[2]>>
      OBVIOUS
    <3>1. Len(p) >= 2
      OBVIOUS
    <3> QED BY <3>1, FirstTwo
  <2>3. SubSeq(<<a, b>>, 1, 2) = <<a, b>>
    BY <2>1, <2>2
  <2> QED BY <2>1, <2>3 DEF Shown
<1>3. PICK a, b \in Number : analyze_line(line) = <<a, b>>
  BY <1>1
<1> QED BY <1>1, <1>2, <1>3 DEF Right

LEMMA DataStep ==
    ASSUME ConstantAssumption, IInv, [Next]_vars
    PROVE  \A q \in Run : DataOf(q)'
<1> USE DEF IInv
<1>1. ASSUME NEW r \in Run, Start(r) PROVE \A q \in Run : DataOf(q)'
  <2>1. UNCHANGED <<sem0, sem1, shm, sets, results, stopped>> /\ parent[r] = "off"
    BY <1>1 DEF Start
  <2>2. DataOf(r)'
    <3>1. parent'[r] = "generate"
      BY <1>1, Starts
    <3>2. Len(results'[r]) = 0
      BY <2>1 DEF Counted
    <3> QED BY <3>1, <3>2 DEF DataOf, Printed, Given, Back
  <2>3. ASSUME NEW q \in Run \ {r} PROVE DataOf(q)'
    <3>1. Alone(q)' => Alone(q) /\ gen'[q] = gen[q] /\ parent'[q] = parent[q] /\ child'[q] = child[q]
      BY <1>1, Starts
    <3> QED BY <2>1, <3>1 DEF DataOf, Printed, Given, Back, NewLine
  <2> QED BY <2>2, <2>3
<1>2. ASSUME NEW r \in Run, Generate(r) PROVE \A q \in Run : DataOf(q)'
  <2>1. /\ parent[r] = "generate" /\ parent' = [parent EXCEPT ![r] = "post"]
        /\ UNCHANGED <<sem0, sem1, gen, child, results, stopped>>
    BY <1>2 DEF Generate
  <2>2. PICK line \in Lines :
               /\ shm' = [shm EXCEPT ![gen[r]] = line]
               /\ sets' = [sets EXCEPT ![r] = Append(@, line)]
               /\ Len(Append(sets[r], line)) = Len(sets[r]) + 1 /\ Len(sets[r]) \in Nat
               /\ \A k \in 1 .. Len(sets[r]) : Append(sets[r], line)[k] = sets[r][k]
               /\ Append(sets[r], line)[Len(sets[r]) + 1] = line
    BY <1>2, GenerateType
  <2>3. /\ parent'[r] = "post" /\ gen[r] \in Gen /\ shm'[gen[r]] = line
        /\ sets'[r] = Append(sets[r], line) /\ Len(results[r]) = Len(sets[r])
    BY <2>1, <2>2, OwnGen DEF TypeOK, Counted
  <2>4. NewLine(r)' = line
    BY <2>2, <2>3 DEF NewLine
  <2>5. Printed(r) => Printed(r)'
    BY <2>1, <2>2, <2>3 DEF Printed
  <2>6. Alone(r)' => Alone(r)
    BY <2>1 DEF Alone
  <2>7. DataOf(r)'
    BY <2>1, <2>3, <2>4, <2>5, <2>6 DEF DataOf, Back
  <2> QED BY <2>1, <2>2, <2>7, DataKept DEF TypeOK
<1>3. ASSUME NEW r \in Run, ParentPost(r) PROVE \A q \in Run : DataOf(q)'
  <2>1. /\ parent[r] = "post" /\ parent' = [parent EXCEPT ![r] = "wait"]
        /\ sem0' = [sem0 EXCEPT ![gen[r]] = @ + 1]
        /\ UNCHANGED <<sem1, shm, gen, child, sets, results, stopped>>
    BY <1>3 DEF ParentPost
  <2>2. Alone(r) /\ r \notin stopped => /\ child'[r] = "wait" /\ sem1'[gen'[r]] = 0
    BY <2>1, OneTurn
  <2>3. DataOf(r)'
    <3> SUFFICES ASSUME Alone(r)', r \notin stopped' PROVE DataOf(r)'
      BY DEF DataOf
    <3>1. Alone(r) /\ r \notin stopped
      BY <2>1 DEF Alone
    <3>2. Printed(r) /\ shm[gen[r]] = NewLine(r)
      BY <2>1, <3>1 DEF DataOf, Given
    <3>3. ~ Back(r)'
      BY <2>1, <2>2, <3>1 DEF Back, TypeOK
    <3>4. Printed(r)' /\ shm'[gen'[r]] = NewLine(r)'
      BY <2>1, <3>2 DEF Printed, NewLine
    <3> QED BY <3>3, <3>4 DEF DataOf
  <2> QED BY <2>1, <2>3, DataKept DEF TypeOK
<1>4. ASSUME NEW r \in Run, ParentWait(r) PROVE \A q \in Run : DataOf(q)'
  <2>1. /\ parent[r] = "wait" /\ parent' = [parent EXCEPT ![r] = "print"] /\ sem1[gen[r]] > 0
        /\ sem1' = [sem1 EXCEPT ![gen[r]] = @ - 1]
        /\ UNCHANGED <<sem0, shm, gen, child, sets, results, stopped>>
    BY <1>4 DEF ParentWait
  <2>2. DataOf(r)'
    BY <2>1 DEF DataOf, Printed, Given, Back, NewLine, Alone, TypeOK
  <2> QED BY <2>1, <2>2, DataKept DEF TypeOK
<1>5. ASSUME NEW r \in Run, PrintLine(r) PROVE \A q \in Run : DataOf(q)'
  <2>1. /\ parent[r] = "print" /\ parent' = [parent EXCEPT ![r] = "count"]
        /\ UNCHANGED <<sem0, sem1, shm, gen, child, sets, stopped>>
    BY <1>5 DEF PrintLine
  <2>2. PICK pair \in Shown(shm[gen[r]]) : results' = [results EXCEPT ![r] = Append(@, pair)]
    BY <1>5 DEF PrintLine
  <2>3. /\ results'[r] = Append(results[r], pair) /\ Len(Append(results[r], pair)) = Len(results[r]) + 1
        /\ Len(results[r]) \in Nat /\ Append(results[r], pair)[Len(results[r]) + 1] = pair
        /\ \A k \in 1 .. Len(results[r]) : Append(results[r], pair)[k] = results[r][k]
    <3>1. gen[r] \in Gen /\ shm[gen[r]] # <<>> /\ shm[gen[r]] \in Seq(Number)
      BY <2>1, OwnGen DEF Filled, TypeOK
    <3>2. pair \in Int \X Int
      BY <3>1, ShownType
    <3>3. results[r] \in Seq(Int \X Int) /\ results'[r] = Append(results[r], pair)
      BY <2>2 DEF TypeOK
    <3> QED BY <3>2, <3>3, AppendProperties, LenProperties
  <2>4. Len(sets[r]) = Len(results[r]) + 1
    <3>1. Len(results[r]) = Len(sets[r]) - 1 /\ Len(sets[r]) \in Nat
      BY <2>1, LenProperties DEF Counted, TypeOK
    <3> QED BY <3>1
  <2>5. ASSUME Alone(r), r \notin stopped PROVE Right(pair, NewLine(r))
    <3>1. shm[gen[r]] = analyze_line(NewLine(r))
      BY <2>1, <2>5 DEF DataOf, Back
    <3>2. NewLine(r) \in Seq(Number) /\ NewLine(r) # <<>>
      <4>1. sets[r] \in Seq(Lines) /\ Len(sets[r]) \in 1 .. Len(sets[r])
        BY <2>3, <2>4 DEF TypeOK
      <4>2. NewLine(r) \in Lines
        BY <4>1, ElementOfSeq DEF NewLine
      <4> QED BY <4>2 DEF ConstantAssumption
    <3>3. pair = analyze_line(NewLine(r))
      BY <2>2, <3>1, <3>2, PairShown
    <3> QED BY <3>2, <3>3, PairShown
  <2>6. ASSUME Alone(r), r \notin stopped PROVE Printed(r)'
    <3>1. Printed(r) /\ sets' = sets
      BY <2>1, <2>6 DEF DataOf
    <3>2. ASSUME NEW k \in 1 .. Len(results'[r]) PROVE Right(results'[r][k], sets[r][k])
      <4>1. CASE k = Len(results[r]) + 1
        BY <2>3, <2>4, <2>5, <2>6, <4>1 DEF NewLine
      <4>2. CASE k # Len(results[r]) + 1
        <5>1. k \in 1 .. Len(results[r])
          BY <2>3, <4>2
        <5> QED BY <2>3, <3>1, <5>1 DEF Printed
      <4> QED BY <4>1, <4>2
    <3> QED BY <3>1, <3>2 DEF Printed
  <2>7. DataOf(r)'
    BY <2>1, <2>6 DEF DataOf, Given, Back, Alone, TypeOK
  <2> QED BY <2>1, <2>2, <2>7, DataKept DEF TypeOK
<1>6. ASSUME NEW r \in Run, Count(r) PROVE \A q \in Run : DataOf(q)'
  <2>1. /\ parent' = [parent EXCEPT ![r] = "generate"]
        /\ UNCHANGED <<sem0, sem1, shm, gen, child, sets, results, stopped>>
    BY <1>6 DEF Count
  <2>2. DataOf(r)'
    BY <2>1 DEF DataOf, Printed, Given, Back, Alone, TypeOK
  <2> QED BY <2>1, <2>2, DataKept DEF TypeOK
<1>7. ASSUME NEW r \in Run, ChildWait(r) PROVE \A q \in Run : DataOf(q)'
  <2>1. /\ child[r] = "wait" /\ child' = [child EXCEPT ![r] = "analyse"] /\ sem0[gen[r]] > 0
        /\ sem0' = [sem0 EXCEPT ![gen[r]] = @ - 1]
        /\ UNCHANGED <<sem1, shm, gen, parent, sets, results, stopped>>
    BY <1>7 DEF ChildWait
  <2>2. ASSUME Alone(r), r \notin stopped
        PROVE  parent[r] \in {"wait", "exited"} /\ (parent[r] = "wait" => sem1[gen[r]] = 0)
    <3>1. sem0[gen[r]] \in Nat /\ sem1[gen[r]] \in Nat
      BY <2>2, OneTurn DEF TypeOK
    <3>2. parent[r] \in {"wait", "exited"}
      BY <2>1, <2>2, <3>1, OneTurn
    <3>3. parent[r] = "wait" => sem0[gen[r]] + sem1[gen[r]] = 1
      BY <2>1, <2>2, OneTurn
    <3> QED BY <2>1, <3>1, <3>2, <3>3
  <2>3. DataOf(r)'
    BY <2>1, <2>2 DEF DataOf, Printed, Given, Back, NewLine, Alone, TypeOK
  <2> QED BY <2>1, <2>3, DataKept DEF TypeOK
<1>8. ASSUME NEW r \in Run, Analyse(r) PROVE \A q \in Run : DataOf(q)'
  <2>1. /\ child[r] = "analyse" /\ child' = [child EXCEPT ![r] = "post"]
        /\ shm' = [shm EXCEPT ![gen[r]] = analyze_line(shm[gen[r]])]
        /\ UNCHANGED <<sem0, sem1, gen, parent, sets, results, stopped>>
    BY <1>8 DEF Analyse
  <2>2. ASSUME Alone(r), r \notin stopped
        PROVE  parent[r] \in {"wait", "exited"} /\ (parent[r] = "wait" => sem0[gen[r]] = 0)
    BY <2>1, <2>2, OneTurn
  <2>3. shm'[gen[r]] = analyze_line(shm[gen[r]])
    BY <1>8, <2>1, AnalyseType DEF TypeOK
  <2>4. DataOf(r)'
    <3> SUFFICES ASSUME Alone(r)', r \notin stopped' PROVE DataOf(r)'
      BY DEF DataOf
    <3>1. Alone(r) /\ r \notin stopped
      BY <2>1 DEF Alone
    <3>2. Printed(r) /\ (parent[r] = "wait" => shm[gen[r]] = NewLine(r))
      BY <2>1, <3>1 DEF DataOf, Given
    <3>3. child'[r] = "post"
      BY <2>1, <3>1, OneTurn DEF TypeOK
    <3>4. ~ Given(r)'
      BY <2>1, <2>2, <3>1, <3>3, OneTurn DEF Given
    <3>5. Printed(r)' /\ NewLine(r)' = NewLine(r)
      BY <2>1, <3>2 DEF Printed, NewLine
    <3>6. Back(r)' => parent[r] = "wait"
      BY <2>1, <2>2, <3>1 DEF Back
    <3>7. gen'[r] = gen[r]
      BY <2>1
    <3> QED BY <2>3, <3>2, <3>4, <3>5, <3>6, <3>7 DEF DataOf
  <2> QED BY <2>1, <2>4, DataKept DEF TypeOK
<1>9. ASSUME NEW r \in Run, ChildPost(r) PROVE \A q \in Run : DataOf(q)'
  <2>1. /\ child[r] = "post" /\ child' = [child EXCEPT ![r] = "wait"]
        /\ sem1' = [sem1 EXCEPT ![gen[r]] = @ + 1]
        /\ UNCHANGED <<sem0, shm, gen, parent, sets, results, stopped>>
    BY <1>9 DEF ChildPost
  <2>2. ASSUME Alone(r), r \notin stopped
        PROVE  parent[r] \in {"wait", "exited"} /\ (parent[r] = "wait" => sem0[gen[r]] = 0)
    BY <2>1, <2>2, OneTurn
  <2>3. DataOf(r)'
    BY <2>1, <2>2 DEF DataOf, Printed, Given, Back, NewLine, Alone, TypeOK
  <2> QED BY <2>1, <2>3, DataKept DEF TypeOK
<1>10. ASSUME NEW r \in Run, ChildInt(r) \/ KillChild(r) PROVE \A q \in Run : DataOf(q)'
  <2>1. /\ stopped' = stopped \cup {r} /\ child' = [child EXCEPT ![r] = "exited"]
        /\ UNCHANGED <<sem0, shm, gen, parent, sets, results>>
        /\ \A g \in Gen \ {gen[r]} : sem1'[g] = sem1[g]
    BY <1>10 DEF ChildInt, KillChild, TypeOK
  <2>2. DataOf(r)'
    BY <2>1 DEF DataOf
  <2> QED BY <2>1, <2>2, DataKept DEF TypeOK
<1>11. ASSUME NEW r \in Run, ParentInt(r) \/ KillParent(r) PROVE \A q \in Run : DataOf(q)'
  <2>1. /\ parent' = [parent EXCEPT ![r] = "exited"]
        /\ UNCHANGED <<sem0, sem1, shm, gen, child, sets, results, stopped>>
    BY <1>11 DEF ParentInt, KillParent
  <2>2. DataOf(r)'
    BY <2>1 DEF DataOf, Printed, Given, Back, Alone, TypeOK
  <2> QED BY <2>1, <2>2, DataKept DEF TypeOK
<1>12. CASE UNCHANGED vars
  BY <1>12 DEF vars, DataOf, Printed, Given, Back, NewLine, Alone
<1> QED
  BY <1>1, <1>2, <1>3, <1>4, <1>5, <1>6, <1>7, <1>8, <1>9, <1>10, <1>11, <1>12
  DEF Next, ParentStep, ChildStep

-----------------------------------------------------------------------------
(* The theorems. *)

\* The inductive invariant holds in every reachable state.
THEOREM Inductive == ASSUME ConstantAssumption PROVE Spec => []IInv
<1>1. Init => IInv
  BY InvInit
<1>2. IInv /\ [Next]_vars => IInv'
  <2> SUFFICES ASSUME IInv, [Next]_vars PROVE IInv'
    OBVIOUS
  <2>1. TypeOK' /\ Generations'
    BY TypeStep, GenerationsStep
  <2>2. Filled' /\ Counted'
    BY FilledStep, CountedStep
  <2>3. \A r \in Run : TurnOf(r)'
    BY TurnStep
  <2>4. \A r \in Run : DataOf(r)'
    BY DataStep
  <2> QED BY <2>1, <2>2, <2>3, <2>4 DEF IInv
<1> QED BY <1>1, <1>2, PTL DEF Spec

\* Every variable keeps its type, the semaphores stay counts, and the printed pairs, the
\* lines and the count of a run never drift apart by more than the step under way.
THEOREM TypeCorrect == ASSUME ConstantAssumption PROVE Spec => []TypeOK
<1>1. IInv => TypeOK
  BY DEF IInv
<1> QED BY <1>1, Inductive, PTL

\* module3/10, module3/11: in a generation of one run the parent and the child are never
\* both at the shared memory, whatever signals come, and there is one turn while both live.
THEOREM TurnsHold == ASSUME ConstantAssumption PROVE Spec => []Turns
<1>1. ASSUME IInv PROVE Turns
  <2> SUFFICES ASSUME NEW r \in Run, Alone(r)
               PROVE  /\ ~ (parent[r] \in {"generate", "print"} /\ child[r] = "analyse")
                      /\ (parent[r] # "exited" /\ child[r] # "exited") => Sum(r) = 1
    BY DEF Turns, Sum
  <2>1. (parent[r] # "exited" /\ child[r] # "exited") => Sum(r) = 1
    BY <1>1 DEF IInv, TurnOf
  <2>2. child[r] = "analyse" => r \notin stopped
    BY <1>1 DEF IInv, Generations
  <2>3. ~ (parent[r] \in {"generate", "print"} /\ child[r] = "analyse")
    BY <1>1, <2>2, OneTurn
  <2> QED BY <2>1, <2>3
<1> QED BY <1>1, Inductive, PTL

\* What a parent prints are the bounds of its own lines, in order, as long as its child
\* lives and no other run uses its semaphores.
THEOREM ResultsHold == ASSUME ConstantAssumption PROVE Spec => []ResultsRight
<1>1. IInv => ResultsRight
  BY DEF IInv, DataOf, Printed, Right, ResultsRight, ToSet, Range
<1> QED BY <1>1, Inductive, PTL

=============================================================================
