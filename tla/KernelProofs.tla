---------------------------- MODULE KernelProofs ----------------------------
(***************************************************************************)
(* Proofs about the programs of MCKernel: the character device (module5/   *)
(* lab4), the message of lab2, the LEDs of lab3, the observer of module1   *)
(* and the address filter of lab6.                                         *)
(***************************************************************************)
EXTENDS MCKernel, FiniteSetTheorems, WellFoundedInduction, TLAPS

-----------------------------------------------------------------------------
(* The character device: its inductive invariant. *)

Leaving == {u \in Users : pc[u] \in {"release", "put"}}

Calls == [pos : Nat, left : Nat, text : Letters \cup {NUL}]

\* The type, and what a call has in its variables.
DeviceType ==
    /\ module \in {"live", "going", "gone"} /\ refs \in Nat
    /\ already_open \in {0, 1}
    /\ msg \in [0 .. BUF_LEN - 1 -> Letters \cup {NUL}]
    /\ fd \in [Users -> Files \cup {None}] /\ f_pos \in [Files -> Nat]
    /\ pc \in [Users -> {"idle", "open", "read", "copy", "end", "release", "put"}]
    /\ kept \subseteq Files
    /\ call \in [Users -> Calls]

\* One file is open, the device is marked open as long as it is, and one process at most
\* is releasing it; who opens the file has it alone.
DeviceOpen ==
    /\ \A u, v \in Users : fd[u] # None /\ fd[v] # None => fd[u] = fd[v]
    /\ \A u \in Users : fd[u] # None => already_open = 1
    /\ \A u \in Users : pc[u] \in {"open", "read", "copy", "end"} => fd[u] # None
    /\ \A u \in Users : pc[u] \in {"release", "put"} => fd[u] = None
    /\ \A u, v \in Users : pc[u] = "release" => already_open = 1 /\ fd[v] = None
    /\ \A u, v \in Users : pc[u] = "release" /\ pc[v] = "release" => u = v
    /\ \A u, v \in Users : pc[u] = "open" /\ fd[v] # None => u = v

\* While the module is loaded its use count is that of the file, if its opening is done,
\* and of the releases under way; a file that has been opened is kept.
DeviceCount ==
    /\ module = "live" => refs = Cardinality(Leaving) + (IF kept = {} THEN 0 ELSE 1)
    /\ module # "live" => refs = 0 /\ kept = {}
    /\ \A f \in kept : \E u \in Users : fd[u] = f /\ pc[u] # "open"
    /\ \A u \in Users : module = "live" /\ fd[u] # None /\ pc[u] # "open" => fd[u] \in kept

\* The last byte of the buffer is never written over, and what is being written fits
\* before it.
DeviceText ==
    /\ msg[BUF_LEN - 1] = NUL
    /\ \A u \in Users : pc[u] \in {"copy", "end"} => call[u].left < BUF_LEN /\ call[u].text \in Letters

DeviceInv == DeviceType /\ DeviceOpen /\ DeviceCount /\ DeviceText

\* The first n bytes of the buffer are the text t.
Holds(t, n) ==
    /\ n \in 0 .. BUF_LEN - 1 /\ t = [i \in 1 .. n |-> msg[i - 1]]
    /\ \A i \in 1 .. n : msg[i - 1] # NUL

\* What is stored lies in the buffer with its end, once no write is under way.
StoredInv ==
    /\ stored \notin {Unknown, UnderWay} =>
          /\ Writers = {}
          /\ \E n \in 0 .. BUF_LEN - 1 : Holds(stored, n) /\ msg[n] = NUL
    /\ stored = UnderWay => \E u \in Users :
          /\ Writers = {u}
          /\ pc[u] = "end" => \A i \in 0 .. call[u].left - 1 : msg[i] = call[u].text

\* What was read is the buffer up to the place of the one call, or of the one file.
ViewInv ==
    /\ Writers # {} => view = Unknown
    /\ view # Unknown =>
          /\ \A u, v \in InCall : u = v
          /\ \A u \in Users : pc[u] = "read" => Holds(view, call[u].pos)
          /\ InCall = {} => \A u \in Users : fd[u] # None => Holds(view, f_pos[fd[u]])

\* A file begins at 0 when it is opened.
PositionInv == \A f \in Files : HoldersOf(f) = {} => f_pos[f] = 0

TextInv == StoredInv /\ ViewInv /\ PositionInv

-----------------------------------------------------------------------------
(* Its steps. *)

LEMMA Size == BUF_LEN \in Nat \ {0} /\ BUF_LEN - 1 \in 0 .. BUF_LEN - 1
<1>1. BUF_LEN \in Nat \ {0}
  BY InstanceAssumption DEF ConstantAssumption
<1> QED BY ONLY <1>1

\* Who is releasing can be counted.
LEMMA LeavingFinite == IsFiniteSet(Leaving) /\ Cardinality(Leaving) \in Nat
BY InstanceAssumption, FS_Subset, FS_CardinalityType DEF Leaving, ConstantAssumption

LEMMA LeavingCount ==
    ASSUME NEW u \in Users
    PROVE  /\ Cardinality(Leaving \cup {u}) = IF u \in Leaving THEN Cardinality(Leaving)
                                               ELSE Cardinality(Leaving) + 1
           /\ Cardinality(Leaving \ {u}) = IF u \in Leaving THEN Cardinality(Leaving) - 1
                                            ELSE Cardinality(Leaving)
BY LeavingFinite, FS_AddElement, FS_RemoveElement

\* A file nobody holds, for device_open.
LEMMA Fresh ==
    ASSUME \E f \in Files : HoldersOf(f) = {}
    PROVE  (CHOOSE f \in Files : HoldersOf(f) = {}) \in {f \in Files : HoldersOf(f) = {}}
OBVIOUS

LEMMA CallOf ==
    ASSUME DeviceType, NEW u \in Users
    PROVE  call[u].pos \in Nat /\ call[u].left \in Nat /\ call[u].text \in Letters \cup {NUL}
BY DEF DeviceType, Calls

LEMMA Zero == NoCall \in Calls
BY DEF NoCall, Calls

LEMMA DeviceTypeStep == ASSUME DeviceInv, Next PROVE DeviceType'
<1>a. /\ refs \in Nat /\ kept \subseteq Files /\ BUF_LEN \in Nat \ {0}
      /\ msg \in [0 .. BUF_LEN - 1 -> Letters \cup {NUL}]
      /\ \A x \in Users : /\ call[x].pos \in Nat /\ call[x].left \in Nat
                           /\ call[x].text \in Letters \cup {NUL}
  BY InstanceAssumption, CallOf DEF DeviceInv, DeviceType, ConstantAssumption
<1> USE InstanceAssumption DEF DeviceInv, DeviceType, ConstantAssumption, Goto, moduleVars, deviceVars,
                               history
<1>1. CASE Unload
  BY <1>1 DEF Unload
<1>2. ASSUME NEW u \in Users, Open(u) PROVE DeviceType'
  BY <1>2, Fresh DEF Open
<1>3. ASSUME NEW u \in Users, ModuleGet(u) PROVE DeviceType'
  <2>1. fd[u] \in Files
    BY <1>3 DEF ModuleGet, DeviceOpen
  <2>2. refs' \in Nat /\ kept' \subseteq Files
    <3>1. CASE module = "live"
      <4>1. refs' = refs + 1 /\ kept' = kept \cup {fd[u]}
        BY <1>3, <3>1 DEF ModuleGet
      <4> QED BY ONLY <1>a, <2>1, <4>1
    <3>2. CASE module # "live"
      <4>1. refs' = refs /\ kept' = kept
        BY <1>3, <3>2 DEF ModuleGet
      <4> QED BY <4>1
    <3> QED BY <3>1, <3>2
  <2>3. pc' \in [Users -> {"idle", "open", "read", "copy", "end", "release", "put"}]
    BY <1>3 DEF ModuleGet
  <2> QED BY <1>3, <2>2, <2>3 DEF ModuleGet
<1>4. ASSUME NEW u \in Users, Close(u) PROVE DeviceType'
  BY <1>4 DEF Close
<1>5. ASSUME NEW u \in Users, Release(u) PROVE DeviceType'
  BY <1>5 DEF Release
<1>6. ASSUME NEW u \in Users, ModulePut(u) PROVE DeviceType'
  <2>1. refs' \in Nat
    <3>1. refs' = IF refs > 0 THEN refs - 1 ELSE 0
      BY <1>6 DEF ModulePut
    <3>2. refs \in Nat
      OBVIOUS
    <3> QED BY ONLY <3>1, <3>2
  <2>2. pc' \in [Users -> {"idle", "open", "read", "copy", "end", "release", "put"}]
    BY <1>6 DEF ModulePut
  <2> QED BY <1>6, <2>1, <2>2 DEF ModulePut
<1>7. ASSUME NEW u \in Users, ReadNothing(u) PROVE DeviceType'
  BY <1>7 DEF ReadNothing, Ready
<1>8. ASSUME NEW u \in Users, ReadStart(u) PROVE DeviceType'
  <2>1. fd[u] \in Files /\ f_pos[fd[u]] \in Nat /\ ReadSizes \subseteq Nat
    BY <1>8 DEF ReadStart, Ready
  <2>2. PICK n \in ReadSizes :
           call' = [call EXCEPT ![u] = [pos |-> f_pos[fd[u]], left |-> n, text |-> NUL]]
    BY <1>8 DEF ReadStart
  <2>3. [pos |-> f_pos[fd[u]], left |-> n, text |-> NUL] \in Calls
    BY <2>1 DEF Calls
  <2>4. call' \in [Users -> Calls]
    BY <2>2, <2>3
  <2> QED BY <1>8, <2>4 DEF ReadStart, Ready
<1>9. ASSUME NEW u \in Users, ReadByte(u) PROVE DeviceType'
  <2>1. call'[u] = [pos |-> call[u].pos + 1, left |-> call[u].left - 1, text |-> call[u].text]
    BY <1>9, ZenonT(40) DEF ReadByte, Calls
  <2>2. call' = [call EXCEPT ![u] = call'[u]]
    BY <1>9 DEF ReadByte
  <2>3. /\ call[u].left - 1 \in Nat /\ call[u].pos + 1 \in Nat
        /\ call[u].text \in Letters \cup {NUL}
    <3>1. call[u].left > 0
      BY <1>9 DEF ReadByte
    <3> QED BY ONLY <1>a, <3>1
  <2>4. call'[u] \in Calls
    BY ONLY <2>1, <2>3 DEF Calls
  <2>5. call' \in [Users -> Calls]
    BY <2>2, <2>4
  <2> QED BY <1>9, <2>5 DEF ReadByte
<1>10. ASSUME NEW u \in Users, ReadEnd(u) PROVE DeviceType'
  BY <1>10, Zero, CallOf DEF ReadEnd
<1>11. ASSUME NEW u \in Users, WriteStart(u) PROVE DeviceType'
  <2>1. fd[u] \in Files /\ f_pos[fd[u]] \in Nat
    BY <1>11 DEF WriteStart, Ready
  <2>2. PICK t \in Letters, n \in 0 .. MaxWrite :
           call' = [call EXCEPT ![u] = [pos |-> f_pos[fd[u]], left |-> Cut(n), text |-> t]]
    BY <1>11 DEF WriteStart
  <2>3. Cut(n) \in Nat
    BY ONLY <1>a, <2>2 DEF Cut
  <2>5. [pos |-> f_pos[fd[u]], left |-> Cut(n), text |-> t] \in Calls
    BY <2>1, <2>3 DEF Calls
  <2>4. call' \in [Users -> Calls]
    BY <2>2, <2>5
  <2> QED BY <1>11, <2>4 DEF WriteStart, Ready
<1>12. ASSUME NEW u \in Users, WriteCopy(u) PROVE DeviceType'
  <2>1. msg' \in [0 .. BUF_LEN - 1 -> Letters \cup {NUL}]
    <3>1. msg' = [i \in 0 .. BUF_LEN - 1 |-> IF i < call[u].left THEN call[u].text ELSE msg[i]]
      BY <1>12 DEF WriteCopy, Copied
    <3> QED BY ONLY <1>a, <3>1
  <2> QED BY <1>12, <2>1 DEF WriteCopy
<1>13. ASSUME NEW u \in Users, WriteFails(u) PROVE DeviceType'
  BY <1>13, Zero, CallOf DEF WriteFails, Copied
<1>14. ASSUME NEW u \in Users, WriteEnd(u) PROVE DeviceType'
  <2>1. fd[u] \in Files /\ call[u].pos + call[u].left \in Nat
    <3>1. fd[u] \in Files
      BY <1>14 DEF WriteEnd, DeviceOpen
    <3> QED BY ONLY <1>a, <3>1
  <2>2. call' \in [Users -> Calls]
    BY <1>14, Zero DEF WriteEnd
  <2>3. f_pos' \in [Files -> Nat] /\ msg' \in [0 .. BUF_LEN - 1 -> Letters \cup {NUL}]
    BY <1>14, <2>1 DEF WriteEnd
  <2>4. pc' \in [Users -> {"idle", "open", "read", "copy", "end", "release", "put"}]
    BY <1>14 DEF WriteEnd
  <2> QED BY <1>14, <2>2, <2>3, <2>4 DEF WriteEnd
<1>15. ASSUME NEW u \in Users, NEW v \in Users, Fork(u, v) PROVE DeviceType'
  BY <1>15 DEF Fork
<1> QED
  BY <1>1, <1>2, <1>3, <1>4, <1>5, <1>6, <1>7, <1>8, <1>9, <1>10, <1>11, <1>12, <1>13, <1>14,
     <1>15 DEF Next

LEMMA DeviceOpenStep == ASSUME DeviceInv, Next PROVE DeviceOpen'
<1> USE DEF DeviceInv, DeviceType, DeviceOpen, Goto, moduleVars, deviceVars, history
<1>1. CASE Unload
  BY <1>1 DEF Unload
<1>2. ASSUME NEW u \in Users, Open(u) PROVE DeviceOpen'
  <2> DEFINE f == CHOOSE f \in Files : HoldersOf(f) = {}
  <2>1. f \in Files /\ f # None /\ already_open' = 1
    BY <1>2, Fresh, InstanceAssumption DEF Open, ConstantAssumption
  <2>2. \A x \in Users : fd[x] = None
    BY <1>2 DEF Open
  <2>3. \A x \in Users : fd'[x] = (IF x = u THEN f ELSE None)
                         /\ pc'[x] = (IF x = u THEN "open" ELSE pc[x])
    BY <1>2, <2>2 DEF Open
  <2> HIDE DEF f
  <2>4. pc[u] = "idle" /\ already_open = 0
    BY <1>2 DEF Open
  <2> QED BY <2>1, <2>2, <2>3, <2>4
<1>3. ASSUME NEW u \in Users, ModuleGet(u) PROVE DeviceOpen'
  BY <1>3 DEF ModuleGet
<1>4. ASSUME NEW u \in Users, Close(u) PROVE DeviceOpen'
  <2>1. \A x \in Users : fd'[x] = IF x = u THEN None ELSE fd[x]
    BY <1>4 DEF Close
  <2>2. fd[u] # None /\ pc[u] = "idle" /\ already_open' = already_open /\ already_open = 1
    BY <1>4 DEF Close
  <2>3. CASE Last(u) /\ module # "gone"
    <3>1. \A x \in Users : pc'[x] = IF x = u THEN "release" ELSE pc[x]
      BY <1>4, <2>3 DEF Close
    <3>2. \A x \in Users : fd'[x] = None
      BY <2>1, <2>2, <2>3 DEF Last, HoldersOf
    <3>3. \A x \in Users : pc[x] \in {"open", "read", "copy", "end"} => x = u
      BY <2>1, <2>2, <3>2
    <3> QED BY <2>2, <3>1, <3>2, <3>3
  <2>4. CASE ~(Last(u) /\ module # "gone")
    <3>1. pc' = pc
      BY <1>4, <2>4 DEF Close
    <3> QED BY <2>1, <2>2, <3>1
  <2> QED BY <2>3, <2>4
<1>5. ASSUME NEW u \in Users, Release(u) PROVE DeviceOpen'
  BY <1>5 DEF Release
<1>6. ASSUME NEW u \in Users, ModulePut(u) PROVE DeviceOpen'
  BY <1>6 DEF ModulePut
<1>7. ASSUME NEW u \in Users, ReadNothing(u) PROVE DeviceOpen'
  BY <1>7 DEF ReadNothing, Ready
<1>8. ASSUME NEW u \in Users, ReadStart(u) PROVE DeviceOpen'
  BY <1>8 DEF ReadStart, Ready
<1>9. ASSUME NEW u \in Users, ReadByte(u) PROVE DeviceOpen'
  BY <1>9 DEF ReadByte
<1>10. ASSUME NEW u \in Users, ReadEnd(u) PROVE DeviceOpen'
  BY <1>10 DEF ReadEnd
<1>11. ASSUME NEW u \in Users, WriteStart(u) PROVE DeviceOpen'
  BY <1>11 DEF WriteStart, Ready
<1>12. ASSUME NEW u \in Users, WriteCopy(u) PROVE DeviceOpen'
  BY <1>12 DEF WriteCopy
<1>13. ASSUME NEW u \in Users, WriteFails(u) PROVE DeviceOpen'
  BY <1>13 DEF WriteFails
<1>14. ASSUME NEW u \in Users, WriteEnd(u) PROVE DeviceOpen'
  BY <1>14 DEF WriteEnd
<1>15. ASSUME NEW u \in Users, NEW v \in Users, Fork(u, v) PROVE DeviceOpen'
  <2>1. \A x \in Users : fd'[x] = (IF x = v THEN fd[u] ELSE fd[x]) /\ pc'[x] = pc[x]
    BY <1>15 DEF Fork
  <2>2. fd[u] # None /\ pc[v] = "idle" /\ pc[u] = "idle" /\ already_open' = already_open
    BY <1>15 DEF Fork
  <2> QED BY <2>1, <2>2
<1> QED
  BY <1>1, <1>2, <1>3, <1>4, <1>5, <1>6, <1>7, <1>8, <1>9, <1>10, <1>11, <1>12, <1>13, <1>14,
     <1>15 DEF Next

LEMMA DeviceTextStep == ASSUME DeviceInv, Next PROVE DeviceText'
<1>a. /\ BUF_LEN \in Nat \ {0} /\ BUF_LEN - 1 \in 0 .. BUF_LEN - 1
      /\ \A x \in Users : /\ call[x].pos \in Nat /\ call[x].left \in Nat
                          /\ call[x].text \in Letters \cup {NUL}
  BY Size, CallOf DEF DeviceInv
<1> USE DEF DeviceInv, DeviceType, DeviceText, Goto, moduleVars, deviceVars, history
<1>1. CASE Unload
  BY <1>1 DEF Unload
<1>2. ASSUME NEW u \in Users, Open(u) PROVE DeviceText'
  BY <1>2 DEF Open
<1>3. ASSUME NEW u \in Users, ModuleGet(u) PROVE DeviceText'
  BY <1>3 DEF ModuleGet
<1>4. ASSUME NEW u \in Users, Close(u) PROVE DeviceText'
  BY <1>4 DEF Close
<1>5. ASSUME NEW u \in Users, Release(u) PROVE DeviceText'
  BY <1>5 DEF Release
<1>6. ASSUME NEW u \in Users, ModulePut(u) PROVE DeviceText'
  BY <1>6 DEF ModulePut
<1>7. ASSUME NEW u \in Users, ReadNothing(u) PROVE DeviceText'
  BY <1>7 DEF ReadNothing, Ready
<1>8. ASSUME NEW u \in Users, ReadStart(u) PROVE DeviceText'
  BY <1>8 DEF ReadStart, Ready
<1>9. ASSUME NEW u \in Users, ReadByte(u) PROVE DeviceText'
  BY <1>9 DEF ReadByte
<1>10. ASSUME NEW u \in Users, ReadEnd(u) PROVE DeviceText'
  BY <1>10 DEF ReadEnd
<1>11. ASSUME NEW u \in Users, WriteStart(u) PROVE DeviceText'
  <2>1. PICK t \in Letters, n \in 0 .. MaxWrite :
           call' = [call EXCEPT ![u] = [pos |-> f_pos[fd[u]], left |-> Cut(n), text |-> t]]
    BY <1>11 DEF WriteStart
  <2>2. Cut(n) < BUF_LEN
    BY ONLY <1>a, <2>1 DEF Cut
  <2>3. call'[u].left < BUF_LEN /\ call'[u].text \in Letters
    BY <2>1, <2>2
  <2>4. \A x \in Users \ {u} : call'[x] = call[x] /\ pc'[x] = pc[x]
    BY <1>11, <2>1 DEF WriteStart
  <2>5. msg' = msg
    BY <1>11 DEF WriteStart
  <2> QED BY <2>3, <2>4, <2>5
<1>12. ASSUME NEW u \in Users, WriteCopy(u) PROVE DeviceText'
  <2>1. msg'[BUF_LEN - 1] = msg[BUF_LEN - 1]
    <3>1. msg'[BUF_LEN - 1] = IF BUF_LEN - 1 < call[u].left THEN call[u].text ELSE msg[BUF_LEN - 1]
      BY <1>12, <1>a DEF WriteCopy, Copied
    <3>2. call[u].left < BUF_LEN
      BY <1>12 DEF WriteCopy
    <3> QED BY ONLY <1>a, <3>1, <3>2
  <2> QED BY <1>12, <2>1 DEF WriteCopy
<1>13. ASSUME NEW u \in Users, WriteFails(u) PROVE DeviceText'
  <2>1. msg'[BUF_LEN - 1] = msg[BUF_LEN - 1]
    <3>1. PICK k \in 0 .. call[u].left - 1 : Copied(u, k)
      BY <1>13 DEF WriteFails
    <3>2. msg'[BUF_LEN - 1] = IF BUF_LEN - 1 < k THEN call[u].text ELSE msg[BUF_LEN - 1]
      BY <3>1, <1>a DEF Copied
    <3>3. call[u].left < BUF_LEN
      BY <1>13 DEF WriteFails
    <3> QED BY ONLY <1>a, <3>1, <3>2, <3>3
  <2>2. \A x \in Users \ {u} : call'[x] = call[x] /\ pc'[x] = pc[x]
    BY <1>13 DEF WriteFails
  <2>3. pc'[u] = "idle"
    BY <1>13 DEF WriteFails
  <2> QED BY <2>1, <2>2, <2>3
<1>14. ASSUME NEW u \in Users, WriteEnd(u) PROVE DeviceText'
  <2>1. msg'[BUF_LEN - 1] = NUL
    BY <1>14, <1>a DEF WriteEnd
  <2>2. \A x \in Users \ {u} : call'[x] = call[x] /\ pc'[x] = pc[x]
    BY <1>14 DEF WriteEnd
  <2>3. pc'[u] = "idle"
    BY <1>14 DEF WriteEnd
  <2> QED BY <2>1, <2>2, <2>3
<1>15. ASSUME NEW u \in Users, NEW v \in Users, Fork(u, v) PROVE DeviceText'
  BY <1>15 DEF Fork
<1> QED
  BY <1>1, <1>2, <1>3, <1>4, <1>5, <1>6, <1>7, <1>8, <1>9, <1>10, <1>11, <1>12, <1>13, <1>14,
     <1>15 DEF Next

\* What the count depends on, in a step that changes neither files nor who is releasing.
LEMMA CountFrame ==
    ASSUME DeviceInv, module' = module, refs' = refs, kept' = kept, fd' = fd,
           \A x \in Users : \/ pc'[x] = pc[x]
                            \/ {pc[x], pc'[x]} \subseteq {"idle", "read", "copy", "end"}
    PROVE  DeviceCount'
<1>1. Leaving' = Leaving
  BY DEF Leaving
<1>2. \A x \in Users : pc'[x] = "open" <=> pc[x] = "open"
  OBVIOUS
<1> QED BY <1>1, <1>2 DEF DeviceInv, DeviceCount

LEMMA DeviceCountStep == ASSUME DeviceInv, Next PROVE DeviceCount'
<1>a. refs \in Nat /\ Cardinality(Leaving) \in Nat /\ None \notin Files /\ kept \subseteq Files
  BY LeavingFinite, InstanceAssumption DEF DeviceInv, DeviceType, ConstantAssumption
<1>b. /\ pc \in [Users -> {"idle", "open", "read", "copy", "end", "release", "put"}]
      /\ fd \in [Users -> Files \cup {None}]
  BY DEF DeviceInv, DeviceType
<1> USE DEF DeviceCount, Goto, moduleVars, deviceVars, history
<1>1. CASE Unload
  <2>1. Leaving' = Leaving /\ kept' = kept /\ refs' = refs /\ fd' = fd /\ pc' = pc
    BY <1>1 DEF Unload, Leaving
  <2>2. (module = "live" /\ refs = 0 /\ module' = "going") \/ (module = "going" /\ module' = "gone")
    BY <1>1 DEF Unload
  <2>3. refs = 0 => kept = {}
    BY <1>a DEF DeviceInv
  <2> QED BY <1>a, <2>1, <2>2, <2>3 DEF DeviceInv
<1>2. ASSUME NEW u \in Users, Open(u) PROVE DeviceCount'
  <2>1. pc[u] = "idle" /\ kept' = kept /\ refs' = refs /\ module' = module
    BY <1>2 DEF Open
  <2>2. \A x \in Users : fd[x] = None
    BY <1>2 DEF Open, DeviceInv, DeviceOpen
  <2>3. \A x \in Users : pc'[x] = (IF x = u THEN "open" ELSE pc[x])
    BY <1>2, <1>b DEF Open
  <2>4. \A x \in Users : x # u => fd'[x] = None
    BY <1>2, <1>b, <2>2 DEF Open
  <2>5. kept = {}
    BY <1>a, <2>2 DEF DeviceInv
  <2>6. Leaving' = Leaving
    BY <2>1, <2>3 DEF Leaving
  <2> QED BY <2>1, <2>3, <2>4, <2>5, <2>6 DEF DeviceInv
<1>3. ASSUME NEW u \in Users, ModuleGet(u) PROVE DeviceCount'
  <2>1. pc[u] = "open" /\ module' = module /\ fd' = fd
    BY <1>3 DEF ModuleGet
  <2>2. \A x \in Users : pc'[x] = (IF x = u THEN "idle" ELSE pc[x])
    BY <1>3, <1>b DEF ModuleGet
  <2>3. Leaving' = Leaving
    BY <2>1, <2>2 DEF Leaving
  <2>4. fd[u] # None /\ \A x \in Users : fd[x] # None => x = u
    BY <2>1 DEF DeviceInv, DeviceOpen
  <2>5. kept = {}
    BY <1>a, <2>1, <2>4 DEF DeviceInv
  <2>6. CASE module = "live"
    <3>1. refs' = refs + 1 /\ kept' = {fd[u]}
      BY <1>3, <2>5, <2>6 DEF ModuleGet
    <3>2. refs' = Cardinality(Leaving') + 1
      BY <1>a, <2>3, <2>5, <2>6, <3>1 DEF DeviceInv
    <3> QED BY <2>1, <2>2, <2>4, <2>6, <3>1, <3>2
  <2>7. CASE module # "live"
    <3>1. refs' = refs /\ kept' = kept
      BY <1>3, <2>7 DEF ModuleGet
    <3> QED BY <2>1, <2>2, <2>4, <2>5, <2>7, <3>1 DEF DeviceInv
  <2> QED BY <2>6, <2>7
<1>4. ASSUME NEW u \in Users, Close(u) PROVE DeviceCount'
  <2>1. /\ fd[u] \in Files /\ pc[u] = "idle" /\ module' = module /\ refs' = refs
        /\ \A x \in Users : fd'[x] = IF x = u THEN None ELSE fd[x]
    BY <1>4, <1>b DEF Close
  <2>2. kept' = IF Last(u) THEN kept \ {fd[u]} ELSE kept
    BY <1>4 DEF Close
  <2>3. \A f \in kept : f = fd[u]
    BY <1>a, <2>1 DEF DeviceInv, DeviceOpen
  <2>4. CASE Last(u)
    <3>1. kept' = {} /\ \A x \in Users : fd'[x] = None
      <4>1. kept' = {}
        BY <2>2, <2>3, <2>4
      <4>2. \A x \in Users : fd[x] # None => x = u
        BY <1>a, <2>1, <2>4 DEF Last, HoldersOf, DeviceInv, DeviceOpen
      <4> QED BY <2>1, <4>1, <4>2
    <3>2. CASE module = "live"
      <4>1. \A x \in Users : pc'[x] = IF x = u THEN "release" ELSE pc[x]
        BY <1>4, <1>b, <2>4, <3>2 DEF Close
      <4>2. Leaving' = Leaving \cup {u} /\ u \notin Leaving
        BY <2>1, <4>1 DEF Leaving
      <4>3. fd[u] \in kept
        BY <1>a, <2>1, <3>2 DEF DeviceInv
      <4>4. refs' = Cardinality(Leaving')
        BY <1>a, <2>1, <3>2, <4>2, <4>3, LeavingCount DEF DeviceInv
      <4> QED BY <2>1, <3>1, <3>2, <4>4, <1>a
    <3>3. CASE module # "live"
      BY <2>1, <3>1, <3>3 DEF DeviceInv
    <3> QED BY <3>2, <3>3
  <2>5. CASE ~Last(u)
    <3>1. pc' = pc /\ kept' = kept /\ Leaving' = Leaving
      BY <1>4, <2>2, <2>5 DEF Close, Leaving
    <3>2. PICK v \in Users : v # u /\ fd[v] = fd[u]
      BY <2>1, <2>5 DEF Last, HoldersOf
    <3>3. pc[v] # "open"
      BY <1>a, <2>1, <3>2 DEF DeviceInv, DeviceOpen
    <3>4. \A f \in kept' : \E x \in Users : fd'[x] = f /\ pc'[x] # "open"
      BY <2>1, <2>3, <3>1, <3>2, <3>3
    <3> QED BY <2>1, <3>1, <3>4 DEF DeviceInv
  <2> QED BY <2>4, <2>5
<1>5. ASSUME NEW u \in Users, Release(u) PROVE DeviceCount'
  <2>1. /\ pc[u] = "release" /\ module' = module /\ refs' = refs /\ kept' = kept /\ fd' = fd
        /\ \A x \in Users : pc'[x] = IF x = u THEN "put" ELSE pc[x]
    BY <1>5, <1>b DEF Release
  <2>2. Leaving' = Leaving
    BY <2>1 DEF Leaving
  <2> QED BY <2>1, <2>2 DEF DeviceInv
<1>6. ASSUME NEW u \in Users, ModulePut(u) PROVE DeviceCount'
  <2>1. /\ pc[u] = "put" /\ module' = module /\ kept' = kept /\ fd' = fd
        /\ refs' = IF refs > 0 THEN refs - 1 ELSE 0
        /\ \A x \in Users : pc'[x] = IF x = u THEN "idle" ELSE pc[x]
    BY <1>6, <1>b DEF ModulePut
  <2>2. Leaving' = Leaving \ {u} /\ u \in Leaving /\ fd[u] = None
    BY <2>1 DEF Leaving, DeviceInv, DeviceOpen
  <2>3. Cardinality(Leaving') = Cardinality(Leaving) - 1 /\ Cardinality(Leaving') \in Nat
    BY <1>a, <2>2, LeavingCount, FS_RemoveElement, LeavingFinite, FS_CardinalityType
  <2>4. module = "live" => refs' = Cardinality(Leaving') + (IF kept' = {} THEN 0 ELSE 1)
    BY <1>a, <2>1, <2>3 DEF DeviceInv
  <2> QED BY <1>a, <2>1, <2>2, <2>4 DEF DeviceInv
<1>7. ASSUME NEW u \in Users, ReadNothing(u) PROVE DeviceCount'
  BY <1>7, CountFrame DEF ReadNothing, Ready
<1>8. ASSUME NEW u \in Users, ReadStart(u) PROVE DeviceCount'
  BY <1>8, <1>b, CountFrame DEF ReadStart, Ready
<1>9. ASSUME NEW u \in Users, ReadByte(u) PROVE DeviceCount'
  BY <1>9, CountFrame DEF ReadByte
<1>10. ASSUME NEW u \in Users, ReadEnd(u) PROVE DeviceCount'
  BY <1>10, <1>b, CountFrame DEF ReadEnd
<1>11. ASSUME NEW u \in Users, WriteStart(u) PROVE DeviceCount'
  BY <1>11, <1>b, CountFrame DEF WriteStart, Ready
<1>12. ASSUME NEW u \in Users, WriteCopy(u) PROVE DeviceCount'
  BY <1>12, <1>b, CountFrame DEF WriteCopy
<1>13. ASSUME NEW u \in Users, WriteFails(u) PROVE DeviceCount'
  BY <1>13, <1>b, CountFrame DEF WriteFails
<1>14. ASSUME NEW u \in Users, WriteEnd(u) PROVE DeviceCount'
  BY <1>14, <1>b, CountFrame DEF WriteEnd
<1>15. ASSUME NEW u \in Users, NEW v \in Users, Fork(u, v) PROVE DeviceCount'
  <2>1. /\ \A x \in Users : fd'[x] = (IF x = v THEN fd[u] ELSE fd[x]) /\ pc'[x] = pc[x]
        /\ module' = module /\ refs' = refs /\ kept' = kept
        /\ fd[u] # None /\ pc[v] = "idle" /\ pc[u] = "idle" /\ fd[v] = None
    BY <1>15, <1>b DEF Fork
  <2>2. Leaving' = Leaving
    BY <2>1 DEF Leaving
  <2> QED BY <1>a, <2>1, <2>2 DEF DeviceInv
<1> QED
  BY <1>1, <1>2, <1>3, <1>4, <1>5, <1>6, <1>7, <1>8, <1>9, <1>10, <1>11, <1>12, <1>13, <1>14,
     <1>15 DEF Next

LEMMA DeviceInit == Init => DeviceInv
<1> SUFFICES ASSUME Init PROVE DeviceInv
  OBVIOUS
<1> USE InstanceAssumption DEF Init, ConstantAssumption
<1>1. DeviceType
  BY Zero DEF DeviceType
<1>2. DeviceOpen
  BY DEF DeviceOpen
<1>3. DeviceCount
  <2>1. Leaving = {} /\ kept = {} /\ module = "live" /\ refs = 0 /\ \A u \in Users : fd[u] = None
    BY DEF Leaving
  <2>2. Cardinality(Leaving) = 0
    BY <2>1, FS_EmptySet
  <2> QED BY ONLY <2>1, <2>2 DEF DeviceCount
<1>4. DeviceText
  <2>1. msg[BUF_LEN - 1] = NUL /\ \A u \in Users : pc[u] = "idle"
    BY Size
  <2> QED BY <2>1 DEF DeviceText
<1> QED BY <1>1, <1>2, <1>3, <1>4 DEF DeviceInv

LEMMA DeviceStep == DeviceInv /\ [Next]_vars => DeviceInv'
<1> SUFFICES ASSUME DeviceInv, [Next]_vars PROVE DeviceInv'
  OBVIOUS
<1>1. CASE Next
  BY <1>1, DeviceTypeStep, DeviceOpenStep, DeviceCountStep, DeviceTextStep DEF DeviceInv
<1>2. CASE UNCHANGED vars
  BY <1>2 DEF vars, moduleVars, deviceVars, history, DeviceInv, DeviceType, DeviceOpen,
              DeviceCount, DeviceText, Leaving
<1> QED BY <1>1, <1>2

\* A use of the module is a process on the way out, or the one file that is open.
LEMMA RefsBounded == DeviceInv => refs \in 0 .. Cardinality(Users)
<1> SUFFICES ASSUME DeviceInv PROVE refs \in 0 .. Cardinality(Users)
  OBVIOUS
<1>1. IsFiniteSet(Users) /\ Cardinality(Users) \in Nat /\ Cardinality(Leaving) \in Nat
  BY InstanceAssumption, FS_CardinalityType, LeavingFinite DEF ConstantAssumption
<1>2. CASE kept = {}
  <2>1. Cardinality(Leaving) <= Cardinality(Users)
    BY <1>1, FS_Subset DEF Leaving
  <2> QED BY <1>1, <1>2, <2>1 DEF DeviceInv, DeviceCount
<1>3. CASE kept # {}
  <2>1. PICK u \in Users : fd[u] # None
    BY <1>3, InstanceAssumption, ZenonT(40) DEF DeviceInv, DeviceType, DeviceCount, ConstantAssumption
  <2>2. u \notin Leaving
    BY <2>1 DEF Leaving, DeviceInv, DeviceOpen
  <2>3. Cardinality(Leaving \cup {u}) = Cardinality(Leaving) + 1
    BY <2>2, LeavingCount
  <2>4. Cardinality(Leaving \cup {u}) <= Cardinality(Users)
    BY <1>1, FS_Subset DEF Leaving
  <2> QED BY <1>1, <1>3, <2>3, <2>4 DEF DeviceInv, DeviceCount
<1> QED BY <1>2, <1>3

LEMMA DeviceProperties == DeviceInv => TypeOK /\ DeviceRight
<1> SUFFICES ASSUME DeviceInv PROVE TypeOK /\ DeviceRight
  OBVIOUS
<1>1. TypeOK
  BY RefsBounded DEF TypeOK, DeviceInv, DeviceType
<1>2. OneFile
  <2>1. Cardinality({fd[u] : u \in Users} \ {None}) <= 1
    <3>1. CASE \E u \in Users : fd[u] # None
      <4>1. PICK u \in Users : fd[u] # None
        BY <3>1
      <4>3. \A v \in Users : fd[v] # None => fd[v] = fd[u]
        BY <4>1 DEF DeviceInv, DeviceOpen
      <4>2. {fd[v] : v \in Users} \ {None} = {fd[u]}
        BY <4>1, <4>3
      <4>4. Cardinality({fd[u]}) = 1
        BY FS_Singleton
      <4> QED BY <4>2, <4>4
    <3>2. CASE ~ \E u \in Users : fd[u] # None
      <4>1. {fd[v] : v \in Users} \ {None} = {}
        BY <3>2
      <4> QED BY <4>1, FS_EmptySet
    <3> QED BY <3>1, <3>2
  <2> QED BY <2>1 DEF OneFile, DeviceInv, DeviceOpen
<1>3. KeptLoaded
  BY LeavingFinite DEF KeptLoaded, DeviceInv, DeviceCount
<1>4. Terminated
  BY Size DEF Terminated, DeviceInv, DeviceText
<1> QED BY <1>1, <1>2, <1>3, <1>4 DEF DeviceRight

-----------------------------------------------------------------------------
(* The text of the character device: what is read is what was written. *)

\* A text of the buffer's letters is none of the two marks.
LEMMA Marks ==
    ASSUME NEW m \in [0 .. BUF_LEN - 1 -> Letters \cup {NUL}], NEW n \in 0 .. BUF_LEN - 1,
           NEW t, t = [i \in 1 .. n |-> m[i - 1]]
    PROVE  t # Unknown /\ t # UnderWay
<1>1. {"unknown", "under way"} \cap (Letters \cup {NUL}) = {}
  BY InstanceAssumption DEF ConstantAssumption, NUL
<1>2. CASE n >= 1
  <2>1. t[1] = m[0] /\ m[0] \in Letters \cup {NUL}
    BY ONLY Size, <1>2, n \in 0 .. BUF_LEN - 1, t = [i \in 1 .. n |-> m[i - 1]],
            m \in [0 .. BUF_LEN - 1 -> Letters \cup {NUL}]
  <2>2. Unknown[1] = "unknown" /\ UnderWay[1] = "under way"
    BY DEF Unknown, UnderWay
  <2> QED BY <1>1, <2>1, <2>2
<1>3. CASE n = 0
  <2>1. DOMAIN t = {} /\ 1 \in DOMAIN Unknown /\ 1 \in DOMAIN UnderWay
    BY <1>3 DEF Unknown, UnderWay
  <2> QED BY <2>1
<1> QED BY ONLY <1>2, <1>3, n \in 0 .. BUF_LEN - 1, Size

\* One more byte read.
LEMMA OneByte ==
    ASSUME NEW t, NEW n, Holds(t, n), BUF_LEN \in Nat, n + 1 < BUF_LEN, msg[n] # NUL
    PROVE  Holds(Append(t, msg[n]), n + 1)
<1>1. n \in Nat /\ n \in 0 .. BUF_LEN - 1 /\ t = [i \in 1 .. n |-> msg[i - 1]]
  BY DEF Holds
<1>2. PICK S : \A i \in 0 .. n : msg[i] \in S
  <2> DEFINE R == {msg[i] : i \in 0 .. n}
  <2>1. \A i \in 0 .. n : msg[i] \in R
    OBVIOUS
  <2> QED BY <2>1
<1>3. t \in Seq(S) /\ Len(t) = n
  <2>1. t \in [1 .. n -> S]
    BY <1>1, <1>2
  <2> QED BY <1>1, <2>1
<1>4. Append(t, msg[n]) = [i \in 1 .. n + 1 |-> msg[i - 1]]
  <2> DEFINE a == Append(t, msg[n])
  <2>1. a \in Seq(S) /\ Len(a) = n + 1
    BY <1>1, <1>2, <1>3
  <2>2. \A i \in 1 .. n + 1 : a[i] = IF i = n + 1 THEN msg[n] ELSE t[i]
    BY <1>1, <1>2, <1>3
  <2>3. \A i \in 1 .. n + 1 : a[i] = msg[i - 1]
    BY <1>1, <2>2
  <2>4. a = [i \in 1 .. n + 1 |-> a[i]]
    BY <1>1, <2>1
  <2> HIDE DEF a
  <2> QED BY <2>3, <2>4 DEF a
<1>5. \A i \in 1 .. n + 1 : msg[i - 1] # NUL
  BY <1>1 DEF Holds
<1> QED BY <1>1, <1>4, <1>5 DEF Holds

\* What StoredInv depends on.
LEMMA StoredFrame ==
    ASSUME StoredInv, msg' = msg, stored' = stored,
           \A x \in Users : x \in Writers \/ pc'[x] \in {"copy", "end"} =>
                                pc'[x] = pc[x] /\ call'[x] = call[x]
    PROVE  StoredInv'
<1>1. Writers' = Writers
  BY DEF Writers
<1>2. \A n : Holds(stored, n)' = Holds(stored, n)
  BY DEF Holds
<1>3. CASE stored \notin {Unknown, UnderWay}
  BY <1>1, <1>2, <1>3 DEF StoredInv, Holds
<1>4. CASE stored = UnderWay
  <2>1. PICK u \in Users :
           /\ Writers = {u}
           /\ pc[u] = "end" => \A i \in 0 .. call[u].left - 1 : msg[i] = call[u].text
    BY <1>4 DEF StoredInv
  <2>2. pc'[u] = pc[u] /\ call'[u] = call[u]
    BY <2>1
  <2> QED BY <1>1, <1>4, <2>1, <2>2, ZenonT(40) DEF StoredInv, Unknown, UnderWay
<1>5. CASE stored = Unknown
  BY <1>5 DEF StoredInv, Unknown, UnderWay
<1> QED BY <1>3, <1>4, <1>5

LEMMA StoredStep == ASSUME DeviceInv, StoredInv, Next PROVE StoredInv'
<1>a. /\ pc \in [Users -> {"idle", "open", "read", "copy", "end", "release", "put"}]
      /\ call \in [Users -> Calls]
  BY DEF DeviceInv, DeviceType
<1> USE DEF Goto, moduleVars, deviceVars, history
<1>1. CASE Unload
  BY <1>1, StoredFrame DEF Unload
<1>2. ASSUME NEW u \in Users, Open(u) PROVE StoredInv'
  BY <1>2, <1>a, StoredFrame DEF Open, Writers
<1>3. ASSUME NEW u \in Users, ModuleGet(u) PROVE StoredInv'
  BY <1>3, <1>a, StoredFrame DEF ModuleGet, Writers
<1>4. ASSUME NEW u \in Users, Close(u) PROVE StoredInv'
  BY <1>4, <1>a, StoredFrame DEF Close, Writers
<1>5. ASSUME NEW u \in Users, Release(u) PROVE StoredInv'
  BY <1>5, <1>a, StoredFrame DEF Release, Writers
<1>6. ASSUME NEW u \in Users, ModulePut(u) PROVE StoredInv'
  BY <1>6, <1>a, StoredFrame DEF ModulePut, Writers
<1>7. ASSUME NEW u \in Users, ReadNothing(u) PROVE StoredInv'
  BY <1>7, StoredFrame DEF ReadNothing
<1>8. ASSUME NEW u \in Users, ReadStart(u) PROVE StoredInv'
  BY <1>8, <1>a, StoredFrame DEF ReadStart, Ready, Writers
<1>9. ASSUME NEW u \in Users, ReadByte(u) PROVE StoredInv'
  BY <1>9, <1>a, StoredFrame DEF ReadByte, Writers
<1>10. ASSUME NEW u \in Users, ReadEnd(u) PROVE StoredInv'
  BY <1>10, <1>a, StoredFrame DEF ReadEnd, Writers
<1>11. ASSUME NEW u \in Users, WriteStart(u) PROVE StoredInv'
  <2>1. \A x \in Users : pc'[x] = IF x = u THEN "copy" ELSE pc[x]
    BY <1>11, <1>a DEF WriteStart
  <2>2. Writers' = Writers \cup {u}
    BY <2>1 DEF Writers
  <2>3. stored' = IF Writers = {} THEN UnderWay ELSE Unknown
    BY <1>11 DEF WriteStart
  <2> QED BY <2>1, <2>2, <2>3 DEF StoredInv, Unknown, UnderWay
<1>12. ASSUME NEW u \in Users, WriteCopy(u) PROVE StoredInv'
  <2>1. u \in Writers /\ pc[u] = "copy" /\ stored' = stored /\ call' = call
    BY <1>12 DEF WriteCopy, Writers
  <2>2. \A x \in Users : pc'[x] = IF x = u THEN "end" ELSE pc[x]
    BY <1>12, <1>a DEF WriteCopy
  <2>3. Writers' = Writers
    BY <2>1, <2>2 DEF Writers
  <2>4. stored \in {Unknown, UnderWay} /\ (stored = UnderWay => Writers = {u})
    BY <2>1 DEF StoredInv
  <2>5. \A i \in 0 .. call[u].left - 1 : msg'[i] = call'[u].text
    <3>1. call[u].left \in Nat /\ call[u].left < BUF_LEN
      BY <2>1, CallOf DEF DeviceInv, DeviceText
    <3>2. msg' = [i \in 0 .. BUF_LEN - 1 |-> IF i < call[u].left THEN call[u].text ELSE msg[i]]
      BY <1>12 DEF WriteCopy, Copied
    <3> QED BY ONLY <2>1, <3>1, <3>2, Size
  <2> QED BY <2>1, <2>3, <2>4, <2>5 DEF StoredInv, Unknown, UnderWay
<1>13. ASSUME NEW u \in Users, WriteFails(u) PROVE StoredInv'
  BY <1>13 DEF WriteFails, StoredInv, Unknown, UnderWay
<1>14. ASSUME NEW u \in Users, WriteEnd(u) PROVE StoredInv'
  <2> DEFINE k == call[u].left
             t == call[u].text
  <2>1. /\ u \in Writers /\ pc[u] = "end"
        /\ stored' = IF stored = UnderWay THEN [i \in 1 .. k |-> t] ELSE stored
        /\ msg' = [i \in 0 .. BUF_LEN - 1 |-> IF i = k THEN NUL ELSE msg[i]]
    BY <1>14 DEF WriteEnd, Writers
  <2>2. \A x \in Users : pc'[x] = IF x = u THEN "idle" ELSE pc[x]
    BY <1>14, <1>a DEF WriteEnd
  <2>3. stored \in {Unknown, UnderWay} /\ (stored = UnderWay => Writers = {u})
    BY <2>1 DEF StoredInv
  <2>4. CASE stored = Unknown
    BY <2>1, <2>4 DEF StoredInv, Unknown, UnderWay
  <2>5. CASE stored = UnderWay
    <3>1. Writers' = {}
      BY <2>2, <2>3, <2>5 DEF Writers
    <3>2. k \in 0 .. BUF_LEN - 1 /\ t \in Letters
      BY <2>1, CallOf, Size DEF DeviceInv, DeviceText
    <3>3. \A i \in 0 .. k - 1 : msg[i] = t
      BY <2>1, <2>3, <2>5 DEF StoredInv
    <3>4. t # NUL
      BY <3>2, InstanceAssumption DEF ConstantAssumption
    <3>5. \A i \in 1 .. k : msg'[i - 1] = t
      <4> HIDE DEF k, t
      <4> QED BY ONLY <2>1, <3>2, <3>3, Size
    <3>6. msg'[k] = NUL
      <4> HIDE DEF k, t
      <4> QED BY ONLY <2>1, <3>2
    <3>7. stored' = [i \in 1 .. k |-> msg'[i - 1]] /\ \A i \in 1 .. k : msg'[i - 1] # NUL
      <4> HIDE DEF k, t
      <4> QED BY ONLY <2>1, <2>5, <3>4, <3>5
    <3>8. \E n \in 0 .. BUF_LEN - 1 : Holds(stored, n)' /\ msg'[n] = NUL
      <4> HIDE DEF k, t
      <4> QED BY <3>2, <3>6, <3>7 DEF Holds
    <3>9. stored' # UnderWay
      <4>1. msg' \in [0 .. BUF_LEN - 1 -> Letters \cup {NUL}]
        BY <1>14, DeviceTypeStep DEF Next, DeviceType
      <4> QED BY <3>2, <3>7, <4>1, Marks
    <3> QED BY <3>1, <3>8, <3>9 DEF StoredInv
  <2> QED BY <2>3, <2>4, <2>5
<1>15. ASSUME NEW u \in Users, NEW v \in Users, Fork(u, v) PROVE StoredInv'
  BY <1>15, StoredFrame DEF Fork
<1> QED
  BY <1>1, <1>2, <1>3, <1>4, <1>5, <1>6, <1>7, <1>8, <1>9, <1>10, <1>11, <1>12, <1>13, <1>14,
     <1>15 DEF Next

\* What ViewInv depends on: steps outside the calls that read and write.
LEMMA ViewFrame ==
    ASSUME ViewInv, msg' = msg, view' = view, call' = call,
           \A x \in Users : x \in InCall \/ pc'[x] \in {"read", "copy", "end"} => pc'[x] = pc[x],
           \A x \in Users : fd'[x] # None =>
               \E y \in Users : fd[y] # None /\ fd'[x] = fd[y] /\ f_pos'[fd'[x]] = f_pos[fd[y]]
    PROVE  ViewInv'
<1>1. InCall' = InCall /\ Writers' = Writers
  BY DEF InCall, Writers
<1>2. ASSUME view # Unknown, NEW u \in Users, pc'[u] = "read"
      PROVE  Holds(view, call[u].pos)'
  <2>1. pc[u] = "read" /\ Holds(view, call[u].pos)
    BY <1>2 DEF ViewInv
  <2> QED BY <2>1 DEF Holds
<1>3. ASSUME view # Unknown, InCall = {}, NEW u \in Users, fd'[u] # None
      PROVE  Holds(view, f_pos[fd[u]])'
  <2>1. PICK y \in Users : fd[y] # None /\ fd'[u] = fd[y] /\ f_pos'[fd'[u]] = f_pos[fd[y]]
    BY <1>3
  <2>2. Holds(view, f_pos[fd[y]])
    BY <1>3, <2>1 DEF ViewInv
  <2> QED BY <2>1, <2>2 DEF Holds
<1>4. view # Unknown => \A u, v \in InCall : u = v
  BY DEF ViewInv
<1> QED BY <1>1, <1>2, <1>3, <1>4 DEF ViewInv

LEMMA ViewStep == ASSUME DeviceInv, ViewInv, PositionInv, Next PROVE ViewInv'
<1>a. /\ pc \in [Users -> {"idle", "open", "read", "copy", "end", "release", "put"}]
      /\ call \in [Users -> Calls] /\ f_pos \in [Files -> Nat]
      /\ fd \in [Users -> Files \cup {None}] /\ None \notin Files
  BY InstanceAssumption DEF DeviceInv, DeviceType, ConstantAssumption
<1>b. \A x, y \in Users : fd[x] # None /\ fd[y] # None => fd[x] = fd[y]
  BY DEF DeviceInv, DeviceOpen
<1>c. \A x \in InCall : x \in Users /\ fd[x] \in Files
  BY <1>a DEF DeviceInv, DeviceOpen, InCall
<1>d. Holds(<<>>, 0)
  BY Size DEF Holds
<1> USE DEF Goto, moduleVars, deviceVars, history
<1>1. CASE Unload
  BY <1>1, ViewFrame DEF Unload
<1>2. ASSUME NEW u \in Users, Open(u) PROVE ViewInv'
  <2> DEFINE f == CHOOSE f \in Files : HoldersOf(f) = {}
  <2>1. f \in Files /\ f # None /\ HoldersOf(f) = {} /\ f_pos[f] = 0
    BY <1>2, <1>a, Fresh DEF Open, PositionInv
  <2>2. \A x \in Users : fd[x] = None
    BY <1>2 DEF Open, DeviceInv, DeviceOpen
  <2>3. InCall = {}
    BY <1>c, <1>a, <2>2
  <2>4. \A x \in Users : fd'[x] = (IF x = u THEN f ELSE None)
                         /\ pc'[x] = (IF x = u THEN "open" ELSE pc[x])
    BY <1>2, <1>a, <2>2 DEF Open
  <2>5. msg' = msg /\ f_pos' = f_pos /\ view' = <<>>
    BY <1>2, <2>3 DEF Open
  <2> HIDE DEF f
  <2>6. InCall' = {} /\ Writers' = {}
    BY <2>3, <2>4 DEF InCall, Writers
  <2>7. \A x \in Users : fd'[x] # None => f_pos'[fd'[x]] = 0
    BY <2>1, <2>4, <2>5
  <2>8. \A x \in Users : fd'[x] # None => Holds(view, f_pos[fd[x]])'
    BY <1>d, <2>5, <2>7 DEF Holds
  <2>9. \A x \in Users : pc'[x] # "read"
    BY <2>6 DEF InCall
  <2> QED BY <2>6, <2>8, <2>9 DEF ViewInv
<1>3. ASSUME NEW u \in Users, ModuleGet(u) PROVE ViewInv'
  BY <1>3, <1>a, ViewFrame DEF ModuleGet, InCall
<1>4. ASSUME NEW u \in Users, Close(u) PROVE ViewInv'
  <2>1. /\ fd[u] \in Files /\ pc[u] = "idle" /\ msg' = msg /\ view' = view /\ call' = call
        /\ \A x \in Users : fd'[x] = IF x = u THEN None ELSE fd[x]
    BY <1>4, <1>a DEF Close
  <2>3. \A x \in Users : pc'[x] = pc[x] \/ (x = u /\ pc'[x] = "release")
    <3>1. pc' = pc \/ pc' = [pc EXCEPT ![u] = "release"]
      BY <1>4 DEF Close
    <3> QED BY <1>a, <3>1
  <2>2. ASSUME NEW x \in Users, fd'[x] # None
        PROVE  fd[x] # None /\ fd'[x] = fd[x] /\ f_pos'[fd'[x]] = f_pos[fd[x]]
    <3>1. x # u /\ fd'[x] = fd[x] /\ fd[x] = fd[u]
      BY <2>1, <2>2, <1>b, <1>a
    <3>2. ~Last(u)
      BY <3>1 DEF Last, HoldersOf
    <3>3. f_pos' = f_pos
      BY <1>4, <3>2 DEF Close
    <3> QED BY <2>2, <3>1, <3>3
  <2> QED BY <2>1, <2>2, <2>3, ViewFrame DEF InCall
<1>5. ASSUME NEW u \in Users, Release(u) PROVE ViewInv'
  BY <1>5, <1>a, ViewFrame DEF Release, InCall
<1>6. ASSUME NEW u \in Users, ModulePut(u) PROVE ViewInv'
  BY <1>6, <1>a, ViewFrame DEF ModulePut, InCall
<1>7. ASSUME NEW u \in Users, ReadNothing(u) PROVE ViewInv'
  <2>1. /\ fd[u] \in Files /\ pc' = pc /\ msg' = msg /\ call' = call /\ fd' = fd
        /\ f_pos' = [f_pos EXCEPT ![fd[u]] = 0]
        /\ view' = IF InCall = {} THEN <<>> ELSE Unknown
    BY <1>7, <1>a DEF ReadNothing, Ready
  <2>2. InCall' = InCall /\ Writers' = Writers /\ Writers \subseteq InCall
    BY <2>1 DEF InCall, Writers
  <2>3. CASE InCall = {}
    <3>1. \A x \in Users : fd'[x] # None => f_pos'[fd'[x]] = 0
      BY <1>a, <1>b, <2>1
    <3>2. \A x \in Users : fd'[x] # None => Holds(view, f_pos[fd[x]])'
      BY <1>d, <2>1, <2>3, <3>1 DEF Holds
    <3>3. \A x \in Users : pc'[x] # "read"
      BY <2>2, <2>3 DEF InCall
    <3> QED BY <2>2, <2>3, <3>2, <3>3 DEF ViewInv
  <2>4. CASE InCall # {}
    BY <2>1, <2>4 DEF ViewInv
  <2> QED BY <2>3, <2>4
<1>8. ASSUME NEW u \in Users, ReadStart(u) PROVE ViewInv'
  <2>1. /\ fd[u] \in Files /\ pc[u] = "idle" /\ msg' = msg /\ call'[u].pos = f_pos[fd[u]]
        /\ \A x \in Users : pc'[x] = IF x = u THEN "read" ELSE pc[x]
        /\ view' = IF InCall = {} THEN view ELSE Unknown
    BY <1>8, <1>a DEF ReadStart, Ready
  <2>2. InCall' = InCall \cup {u} /\ Writers' = Writers /\ Writers \subseteq InCall
    BY <2>1 DEF InCall, Writers
  <2>3. CASE InCall = {} /\ view # Unknown
    <3>1. Holds(view, f_pos[fd[u]])
      BY <1>a, <2>1, <2>3 DEF ViewInv
    <3>2. view' = view /\ Holds(view, call[u].pos)'
      BY <2>1, <2>3, <3>1 DEF Holds
    <3>3. \A x \in Users : pc'[x] = "read" => x = u
      BY <2>1, <2>3 DEF InCall
    <3> QED BY <2>2, <2>3, <3>2, <3>3 DEF ViewInv
  <2>4. CASE InCall # {} \/ view = Unknown
    BY <2>1, <2>4 DEF ViewInv
  <2> QED BY <2>3, <2>4
<1>9. ASSUME NEW u \in Users, ReadByte(u) PROVE ViewInv'
  <2>1. /\ u \in InCall /\ pc[u] = "read" /\ msg' = msg /\ pc' = pc /\ fd' = fd
    BY <1>9 DEF ReadByte, InCall
  <2>2. InCall' = InCall /\ Writers' = Writers
    BY <2>1 DEF InCall, Writers
  <2>3. CASE view = Unknown
    BY <1>9, <2>3 DEF ReadByte, ViewInv
  <2>4. CASE view # Unknown
    <3>1. Holds(view, call[u].pos) /\ (\A x, y \in InCall : x = y) /\ Writers = {}
      BY <2>1, <2>4 DEF ViewInv
    <3>2. call[u].pos \in 0 .. BUF_LEN - 1
      BY <3>1 DEF Holds
    <3>3. ByteAt(call[u].pos) = {msg[call[u].pos]}
      BY ONLY <3>2, Size DEF ByteAt
    <3>4. view' = Append(view, msg[call[u].pos]) /\ msg[call[u].pos] # NUL
      BY <1>9, <2>4, <3>3 DEF ReadByte
    <3>5. call[u].pos # BUF_LEN - 1
      BY <3>4 DEF DeviceInv, DeviceText
    <3>6. Holds(Append(view, msg[call[u].pos]), call[u].pos + 1)
      <4>1. call[u].pos + 1 < BUF_LEN
        BY ONLY <3>2, <3>5, Size
      <4> QED BY <3>1, <3>4, <4>1, OneByte, Size
    <3>7. call'[u].pos = call[u].pos + 1
      BY <1>9, <1>a DEF ReadByte, Calls
    <3>8. Holds(view, call[u].pos)'
      BY <2>1, <3>4, <3>6, <3>7 DEF Holds
    <3>9. \A x \in Users : pc'[x] = "read" => x = u
      BY <2>1, <3>1 DEF InCall
    <3> QED BY <2>1, <2>2, <3>1, <3>8, <3>9 DEF ViewInv
  <2> QED BY <2>3, <2>4
<1>10. ASSUME NEW u \in Users, ReadEnd(u) PROVE ViewInv'
  <2>1. /\ u \in InCall /\ pc[u] = "read" /\ msg' = msg /\ view' = view /\ fd' = fd
        /\ fd[u] \in Files /\ f_pos' = [f_pos EXCEPT ![fd[u]] = call[u].pos]
        /\ \A x \in Users : pc'[x] = IF x = u THEN "idle" ELSE pc[x]
    BY <1>10, <1>a, <1>c DEF ReadEnd, InCall
  <2>2. InCall' = InCall \ {u} /\ Writers' = Writers
    BY <2>1 DEF InCall, Writers
  <2>3. CASE view = Unknown
    BY <2>1, <2>3 DEF ViewInv
  <2>4. CASE view # Unknown
    <3>1. Holds(view, call[u].pos) /\ InCall = {u} /\ Writers = {}
      BY <2>1, <2>4 DEF ViewInv
    <3>2. \A x \in Users : fd'[x] # None => f_pos'[fd'[x]] = call[u].pos
      BY <1>a, <1>b, <2>1
    <3>3. \A x \in Users : fd'[x] # None => Holds(view, f_pos[fd[x]])'
      BY <2>1, <3>1, <3>2 DEF Holds
    <3>4. \A x \in Users : pc'[x] # "read"
      BY <2>2, <3>1 DEF InCall
    <3> QED BY <2>2, <3>1, <3>3, <3>4 DEF ViewInv
  <2> QED BY <2>3, <2>4
<1>11. ASSUME NEW u \in Users, WriteStart(u) PROVE ViewInv'
  BY <1>11 DEF WriteStart, ViewInv
<1>12. ASSUME NEW u \in Users, WriteCopy(u) PROVE ViewInv'
  BY <1>12 DEF WriteCopy, ViewInv, Writers
<1>13. ASSUME NEW u \in Users, WriteFails(u) PROVE ViewInv'
  BY <1>13 DEF WriteFails, ViewInv, Writers
<1>14. ASSUME NEW u \in Users, WriteEnd(u) PROVE ViewInv'
  BY <1>14 DEF WriteEnd, ViewInv, Writers
<1>15. ASSUME NEW u \in Users, NEW v \in Users, Fork(u, v) PROVE ViewInv'
  BY <1>15, <1>a, ViewFrame DEF Fork, InCall
<1> QED
  BY <1>1, <1>2, <1>3, <1>4, <1>5, <1>6, <1>7, <1>8, <1>9, <1>10, <1>11, <1>12, <1>13, <1>14,
     <1>15 DEF Next

LEMMA PositionStep == ASSUME DeviceInv, PositionInv, Next PROVE PositionInv'
<1>a. /\ f_pos \in [Files -> Nat] /\ fd \in [Users -> Files \cup {None}] /\ None \notin Files
      /\ \A x \in Users : pc[x] \in {"read", "copy", "end"} => fd[x] \in Files
  BY InstanceAssumption DEF DeviceInv, DeviceType, DeviceOpen, ConstantAssumption
<1>b. ASSUME f_pos' = f_pos, \A x \in Users : fd[x] # None => fd'[x] = fd[x]
      PROVE  PositionInv'
  <2>1. \A f \in Files : HoldersOf(f)' = {} => HoldersOf(f) = {}
    BY <1>a, <1>b DEF HoldersOf
  <2> QED BY <1>b, <2>1 DEF PositionInv
<1>c. ASSUME fd' = fd, NEW u \in Users, fd[u] \in Files,
             NEW n, f_pos' = [f_pos EXCEPT ![fd[u]] = n]
      PROVE  PositionInv'
  <2>1. \A f \in Files : HoldersOf(f)' = HoldersOf(f)
    BY <1>c DEF HoldersOf
  <2>2. HoldersOf(fd[u]) # {}
    BY <1>c DEF HoldersOf
  <2> QED BY <1>a, <1>c, <2>1, <2>2 DEF PositionInv
<1> USE DEF moduleVars, deviceVars, history
<1>1. CASE Unload
  BY <1>1, <1>b DEF Unload
<1>2. ASSUME NEW u \in Users, Open(u) PROVE PositionInv'
  BY <1>2, <1>a, <1>b DEF Open
<1>3. ASSUME NEW u \in Users, ModuleGet(u) PROVE PositionInv'
  BY <1>3, <1>b DEF ModuleGet
<1>4. ASSUME NEW u \in Users, Close(u) PROVE PositionInv'
  <2>1. fd[u] \in Files /\ \A x \in Users : fd'[x] = IF x = u THEN None ELSE fd[x]
    BY <1>4, <1>a DEF Close
  <2>2. f_pos' = IF Last(u) THEN [f_pos EXCEPT ![fd[u]] = 0] ELSE f_pos
    BY <1>4 DEF Close
  <2>3. \A f \in Files : f # fd[u] => HoldersOf(f)' = HoldersOf(f)
    BY <1>a, <2>1 DEF HoldersOf
  <2>4. ~Last(u) => HoldersOf(fd[u]) \ {u} # {}
    BY <2>1 DEF Last, HoldersOf
  <2>5. ASSUME ~Last(u), NEW f \in Files, f = fd[u] PROVE HoldersOf(f)' # {}
    BY <2>1, <2>4, <2>5 DEF HoldersOf
  <2> QED BY <1>a, <2>1, <2>2, <2>3, <2>5 DEF PositionInv
<1>5. ASSUME NEW u \in Users, Release(u) PROVE PositionInv'
  BY <1>5, <1>b DEF Release
<1>6. ASSUME NEW u \in Users, ModulePut(u) PROVE PositionInv'
  BY <1>6, <1>b DEF ModulePut
<1>7. ASSUME NEW u \in Users, ReadNothing(u) PROVE PositionInv'
  BY <1>7, <1>a, <1>c DEF ReadNothing, Ready
<1>8. ASSUME NEW u \in Users, ReadStart(u) PROVE PositionInv'
  BY <1>8, <1>b DEF ReadStart
<1>9. ASSUME NEW u \in Users, ReadByte(u) PROVE PositionInv'
  BY <1>9, <1>b DEF ReadByte
<1>10. ASSUME NEW u \in Users, ReadEnd(u) PROVE PositionInv'
  BY <1>10, <1>a, <1>c DEF ReadEnd
<1>11. ASSUME NEW u \in Users, WriteStart(u) PROVE PositionInv'
  BY <1>11, <1>b DEF WriteStart
<1>12. ASSUME NEW u \in Users, WriteCopy(u) PROVE PositionInv'
  BY <1>12, <1>b DEF WriteCopy
<1>13. ASSUME NEW u \in Users, WriteFails(u) PROVE PositionInv'
  BY <1>13, <1>b DEF WriteFails
<1>14. ASSUME NEW u \in Users, WriteEnd(u) PROVE PositionInv'
  BY <1>14, <1>a, <1>c DEF WriteEnd
<1>15. ASSUME NEW u \in Users, NEW v \in Users, Fork(u, v) PROVE PositionInv'
  BY <1>15, <1>a, <1>b DEF Fork
<1> QED
  BY <1>1, <1>2, <1>3, <1>4, <1>5, <1>6, <1>7, <1>8, <1>9, <1>10, <1>11, <1>12, <1>13, <1>14,
     <1>15 DEF Next

LEMMA TextInit == Init => TextInv
<1> SUFFICES ASSUME Init PROVE TextInv
  OBVIOUS
<1>1. /\ stored = <<>> /\ view = <<>> /\ (\A i \in 0 .. BUF_LEN - 1 : msg[i] = NUL)
      /\ (\A u \in Users : pc[u] = "idle" /\ fd[u] = None) /\ (\A f \in Files : f_pos[f] = 0)
  BY DEF Init
<1>2. 0 \in 0 .. BUF_LEN - 1 /\ Holds(stored, 0) /\ msg[0] = NUL
  BY <1>1, Size DEF Holds
<1>3. stored # UnderWay
  BY <1>1 DEF UnderWay
<1>4. Writers = {} /\ InCall = {}
  BY <1>1 DEF Writers, InCall
<1> QED BY <1>1, <1>2, <1>3, <1>4 DEF TextInv, StoredInv, ViewInv, PositionInv

LEMMA TextStep == DeviceInv /\ TextInv /\ [Next]_vars => TextInv'
<1> SUFFICES ASSUME DeviceInv, TextInv, [Next]_vars PROVE TextInv'
  OBVIOUS
<1>1. CASE Next
  BY <1>1, StoredStep, ViewStep, PositionStep DEF TextInv
<1>2. CASE UNCHANGED vars
  BY <1>2 DEF vars, moduleVars, deviceVars, history, TextInv, StoredInv, ViewInv, PositionInv,
              Holds, Writers, InCall, HoldersOf
<1> QED BY <1>1, <1>2

\* The text read ends where the buffer's text ends, so that it is what was stored.
LEMMA TextRead ==
    ASSUME DeviceInv, TextInv, NEW u \in Users, ReadNothing(u), InCall = {},
           Unknown \notin {view, stored}
    PROVE  view = stored
<1>1. Writers = {} /\ stored # UnderWay
  <2>1. Writers = {}
    BY DEF Writers, InCall
  <2> QED BY <2>1 DEF TextInv, StoredInv
<1>2. PICK n \in 0 .. BUF_LEN - 1 : Holds(stored, n) /\ msg[n] = NUL
  BY <1>1 DEF TextInv, StoredInv
<1>3. fd[u] # None /\ Holds(view, f_pos[fd[u]])
  BY DEF ReadNothing, Ready, TextInv, ViewInv
<1> DEFINE k == f_pos[fd[u]]
<1>4. k \in 0 .. BUF_LEN - 1 /\ view = [i \in 1 .. k |-> msg[i - 1]] /\ \A i \in 1 .. k : msg[i - 1] # NUL
  BY <1>3 DEF Holds
<1>5. stored = [i \in 1 .. n |-> msg[i - 1]] /\ \A i \in 1 .. n : msg[i - 1] # NUL
  BY <1>2 DEF Holds
<1>6. msg[k] = NUL
  <2>1. NUL \in ByteAt(k)
    BY DEF ReadNothing
  <2>2. k < BUF_LEN
    BY ONLY <1>4, Size
  <2> QED BY <2>1, <2>2 DEF ByteAt
<1> HIDE DEF k
<1>7. k = n
  <2>1. k \in Nat /\ n \in Nat /\ (k + 1) - 1 = k /\ (n + 1) - 1 = n
    BY ONLY <1>4, n \in 0 .. BUF_LEN - 1, Size
  <2>2. k < n => k + 1 \in 1 .. n
    BY ONLY <2>1
  <2>3. n < k => n + 1 \in 1 .. k
    BY ONLY <2>1
  <2>4. ~(k < n)
    BY <1>5, <1>6, <2>1, <2>2
  <2>5. ~(n < k)
    BY <1>2, <1>4, <2>1, <2>3
  <2> QED BY ONLY <2>1, <2>4, <2>5
<1> QED BY <1>4, <1>5, <1>7

-----------------------------------------------------------------------------
(* What the runs check of the character device, for every number of users, files and bytes. *)

\* A step of one program of MCKernel is a step of the character device, or leaves it alone.
LEMMA DevicePart == [KernelNext]_Vars => [Next]_vars
BY DEF KernelNext, Vars

\* The one file, the counts and the text of the character device, in every reachable state.
THEOREM DeviceInductive == KernelSpec => [](DeviceInv /\ TextInv)
<1>1. KernelInit => DeviceInv /\ TextInv
  BY DeviceInit, TextInit DEF KernelInit
<1>2. DeviceInv /\ TextInv /\ [KernelNext]_Vars => (DeviceInv /\ TextInv)'
  BY DeviceStep, TextStep, DevicePart
<1> QED BY <1>1, <1>2, PTL DEF KernelSpec

\* module5/lab4: the device has one file at a time, the module stays loaded while a file is
\* open whose opening was done before, and the text in the buffer always has an end,
\* whatever processes share the file and whenever the module is unloaded.
THEOREM DeviceHolds == KernelSpec => []DeviceRight
<1>1. DeviceInv => DeviceRight
  BY DeviceProperties
<1> QED BY <1>1, DeviceInductive, PTL

\* Each variable keeps its type.
THEOREM DeviceTypeCorrect == KernelSpec => []TypeOK
<1>1. DeviceInv => TypeOK
  BY DeviceProperties
<1> QED BY <1>1, DeviceInductive, PTL

\* module5/lab4: who reads from the beginning to the end, undisturbed by the others that
\* have the file, gets exactly the text of the last write, in calls of any length.
THEOREM DeviceReads == KernelSpec => ReadsText
<1> DEFINE A == \A u \in Users :
                   ReadNothing(u) /\ InCall = {} /\ Unknown \notin {view, stored} => view = stored
<1>1. DeviceInv /\ TextInv /\ [KernelNext]_Vars => [A]_vars
  BY TextRead
<1>2. KernelSpec => [][A]_vars
  BY <1>1, DeviceInductive, PTL DEF KernelSpec
<1> QED BY <1>2 DEF ReadsText

-----------------------------------------------------------------------------
(* The keyboard LEDs. *)

\* The timer is armed by its own function only, as its last act, and once unloading has
\* stopped it neither is left; the LEDs restored stay.
LedsStopped ==
    /\ Leds!TypeOK
    /\ timer = "armed" => func = "idle"
    /\ phase \in {"loading", "failed", "stopped", "gone"} => timer = "off" /\ func = "idle"
    /\ phase = "gone" /\ Leds!HasTty(restored) => leds[restored] = Leds!Normal

Latest == ticks[Len(ticks)]

\* What a run that began after the last store is about to set, and what was set last.
LedsBlink ==
    /\ ticks \in Seq(Nat) /\ Len(ticks) <= 2
    /\ Leds!Blinks
    /\ ticks # <<>> => begun /\ Latest \in {0, ledctl}
    /\ begun =>
          /\ func = "clear" => curr_led_state = ledctl
          /\ func = "set" => curr_led_state # ledctl
          /\ func = "ioctl" => curr_led_state \in {0, ledctl}
    /\ ticks # <<>> =>
          IF func = "ioctl" THEN {Latest, curr_led_state} = {0, ledctl} ELSE Latest = curr_led_state

LEMMA LedsConstants == NoTty \subseteq Consoles /\ Values \subseteq 0 .. 255 /\ 0 \in Values
BY InstanceAssumption DEF Leds!ConstantAssumption

LEMMA LedsInit == Leds!Init => LedsStopped /\ LedsBlink
<1> SUFFICES ASSUME Leds!Init PROVE LedsStopped /\ LedsBlink
  OBVIOUS
<1> USE DEF Leds!Init
<1>1. Leds!TypeOK
  BY LedsConstants DEF Leds!TypeOK, Leds!Normal
<1>4. LedsStopped
  BY <1>1 DEF LedsStopped
<1>2. ticks = <<>> /\ Len(ticks) = 0 /\ ticks \in Seq(Nat)
  OBVIOUS
<1>3. LedsBlink
  BY <1>2 DEF LedsBlink, Leds!Blinks
<1> QED BY <1>3, <1>4

LEMMA StoppedStep == ASSUME LedsStopped, Leds!Next PROVE LedsStopped'
<1>a. ledctl \in Nat /\ curr_led_state \in Nat
  BY LedsConstants DEF LedsStopped, Leds!TypeOK
<1> USE DEF LedsStopped, Leds!TypeOK, Leds!history, Leds!HasTty
<1>1. CASE Leds!Load
  BY <1>1 DEF Leds!Load
<1>2. CASE Leds!Expire
  BY <1>2 DEF Leds!Expire
<1>3. CASE Leds!Compare
  BY <1>3 DEF Leds!Compare
<1>4. CASE Leds!Assign
  BY <1>4, LedsConstants DEF Leds!Assign, Leds!Change
<1>5. CASE Leds!Ioctl
  <2>1. /\ leds' = [leds EXCEPT ![tty] = IF curr_led_state < 8 THEN curr_led_state ELSE 8]
        /\ func = "ioctl" /\ func' = "reschedule"
    BY <1>5 DEF Leds!Ioctl, Leds!Kdsetled, Leds!Normal
  <2>2. (IF curr_led_state < 8 THEN curr_led_state ELSE 8) \in 0 .. 8
    BY ONLY <1>a
  <2>3. leds' \in [Consoles -> 0 .. Leds!Normal]
    BY <2>1, <2>2 DEF Leds!Normal
  <2> QED BY <1>5, <2>1, <2>3 DEF Leds!Ioctl
<1>6. CASE Leds!Reschedule
  BY <1>6 DEF Leds!Reschedule
<1>7. CASE Leds!Store
  BY <1>7 DEF Leds!Store, Leds!Stays
<1>8. CASE Leds!Switch
  BY <1>8 DEF Leds!Switch
<1>9. CASE Leds!Put
  BY <1>9 DEF Leds!Put
<1>10. CASE Leds!Stop
  BY <1>10 DEF Leds!Stop, Leds!DelTimerSync
<1>11. CASE Leds!Restore
  <2>1. /\ phase = "stopped" /\ phase' = "gone" /\ restored' = fg_console
        /\ leds' = IF Leds!HasTty(fg_console) THEN [leds EXCEPT ![fg_console] = 8] ELSE leds
    BY <1>11 DEF Leds!Restore, Leds!Kdsetled, Leds!Normal, Leds!RESTORE_LEDS
  <2>2. /\ leds' \in [Consoles -> 0 .. Leds!Normal]
        /\ Leds!HasTty(restored') => leds'[restored'] = Leds!Normal
    BY <2>1 DEF Leds!Normal
  <2> QED BY <1>11, <2>1, <2>2 DEF Leds!Restore
<1> QED
  BY <1>1, <1>2, <1>3, <1>4, <1>5, <1>6, <1>7, <1>8, <1>9, <1>10, <1>11 DEF Leds!Next

\* What a run sets, and what was set before: the last two.
LEMMA Ticks ==
    ASSUME ticks \in Seq(Nat), Len(ticks) <= 2, NEW n \in Nat,
           NEW t, t = (IF ticks = <<>> THEN <<>> ELSE <<ticks[Len(ticks)]>>) \o <<n>>
    PROVE  /\ t \in Seq(Nat) /\ Len(t) \in 1 .. 2 /\ t[Len(t)] = n
           /\ Len(t) = 2 => ticks # <<>> /\ t[1] = Latest /\ t[2] = n
<1>1. CASE ticks = <<>>
  <2>1. t = <<n>>
    BY <1>1
  <2> QED BY <2>1
<1>2. CASE ticks # <<>>
  <2>1. Latest \in Nat
    BY <1>2 DEF Latest
  <2>2. t = <<Latest>> \o <<n>>
    BY <1>2 DEF Latest
  <2>3. /\ <<Latest>> \in Seq(Nat) /\ Len(<<Latest>>) = 1 /\ <<Latest>>[1] = Latest
        /\ <<n>> \in Seq(Nat) /\ Len(<<n>>) = 1 /\ <<n>>[1] = n
    BY ONLY <2>1, n \in Nat
  <2>4. t \in Seq(Nat) /\ Len(t) = 2
    BY ONLY <2>2, <2>3
  <2>5. t[1] = Latest /\ t[2] = n
    BY ONLY <2>2, <2>3
  <2> QED BY <1>2, <2>4, <2>5
<1> QED BY <1>1, <1>2

LEMMA BlinkStep == ASSUME LedsStopped, LedsBlink, Leds!Next PROVE LedsBlink'
<1>a. ledctl \in Nat /\ curr_led_state \in Nat
  BY LedsConstants DEF LedsStopped, Leds!TypeOK
<1> USE DEF LedsBlink, Leds!history, Leds!Blinks, Latest
<1>1. CASE Leds!Load
  BY <1>1 DEF Leds!Load
<1>2. CASE Leds!Expire
  <2>1. begun' /\ func = "idle" /\ func' \in {"compare", "reschedule"}
    BY <1>2 DEF Leds!Expire
  <2> QED BY <1>2, <2>1 DEF Leds!Expire
<1>3. CASE Leds!Compare
  BY <1>3 DEF Leds!Compare
<1>4. CASE Leds!Assign
  <2>1. /\ func \in {"clear", "set"} /\ func' = "ioctl"
        /\ curr_led_state' = IF func = "clear" THEN 0 ELSE ledctl
        /\ ticks' = ticks /\ begun' = begun /\ ledctl' = ledctl
    BY <1>4 DEF Leds!Assign, Leds!Change
  <2>2. ticks # <<>> => {Latest, curr_led_state'} = {0, ledctl}
    BY <2>1
  <2> QED BY <2>1, <2>2
<1>5. CASE Leds!Ioctl
  <2>1. /\ func = "ioctl" /\ func' = "reschedule" /\ begun' = begun
        /\ curr_led_state' = curr_led_state /\ ledctl' = ledctl
    BY <1>5 DEF Leds!Ioctl
  <2>2. CASE ~begun
    <3>1. ticks' = ticks
      BY <1>5, <2>2 DEF Leds!Ioctl
    <3> QED BY <2>1, <2>2, <3>1
  <2>3. CASE begun
    <3>1. ticks' = (IF ticks = <<>> THEN <<>> ELSE <<ticks[Len(ticks)]>>) \o <<curr_led_state>>
      BY <1>5, <2>3 DEF Leds!Ioctl
    <3>2. /\ ticks' \in Seq(Nat) /\ Len(ticks') \in 1 .. 2
          /\ ticks'[Len(ticks')] = curr_led_state
          /\ Len(ticks') = 2 => ticks # <<>> /\ ticks'[1] = Latest /\ ticks'[2] = curr_led_state
      BY <1>a, <3>1, Ticks
    <3>3. curr_led_state \in {0, ledctl}
      BY <2>1, <2>3
    <3>4. Len(ticks') = 2 => {ticks'[1], ticks'[2]} = {0, ledctl}
      BY <2>1, <3>2
    <3> QED BY <2>1, <2>3, <3>2, <3>3, <3>4, SMTT(20)
  <2> QED BY <2>2, <2>3
<1>6. CASE Leds!Reschedule
  BY <1>6 DEF Leds!Reschedule
<1>7. CASE Leds!Store
  <2>1. ticks' = <<>> /\ Len(ticks') = 0 /\ ticks' \in Seq(Nat) /\ ~begun'
    BY <1>7 DEF Leds!Store
  <2> QED BY <1>7, <2>1 DEF Leds!Store
<1>8. CASE Leds!Switch
  BY <1>8 DEF Leds!Switch
<1>9. CASE Leds!Put
  BY <1>9 DEF Leds!Put
<1>10. CASE Leds!Stop
  BY <1>10 DEF Leds!Stop, Leds!DelTimerSync
<1>11. CASE Leds!Restore
  BY <1>11 DEF Leds!Restore
<1> QED
  BY <1>1, <1>2, <1>3, <1>4, <1>5, <1>6, <1>7, <1>8, <1>9, <1>10, <1>11 DEF Leds!Next

LEMMA LedsStep == LedsStopped /\ LedsBlink /\ [Leds!Next]_(Leds!vars) => (LedsStopped /\ LedsBlink)'
<1> SUFFICES ASSUME LedsStopped, LedsBlink, [Leds!Next]_(Leds!vars)
             PROVE  LedsStopped' /\ LedsBlink'
  OBVIOUS
<1>1. CASE Leds!Next
  BY <1>1, StoppedStep, BlinkStep
<1>2. CASE UNCHANGED Leds!vars
  BY <1>2 DEF Leds!vars, Leds!history, LedsStopped, LedsBlink, Latest, Leds!Blinks, Leds!TypeOK
<1> QED BY <1>1, <1>2

LEMMA LedsPart == [KernelNext]_Vars => [Leds!Next]_(Leds!vars)
BY DEF KernelNext, Vars, LedsVars, Leds!vars, Leds!history

\* The inductive invariant of the LEDs.
THEOREM LedsInductive == KernelSpec => [](LedsStopped /\ LedsBlink)
<1>1. KernelInit => LedsStopped /\ LedsBlink
  BY LedsInit DEF KernelInit
<1>2. LedsStopped /\ LedsBlink /\ [KernelNext]_Vars => (LedsStopped /\ LedsBlink)'
  BY LedsStep, LedsPart
<1> QED BY <1>1, <1>2, PTL DEF KernelSpec

\* module5/lab3: after unloading the timer neither runs nor is armed and the LEDs of the
\* console restored stay normal; and from a store on what is stored alternates with
\* nothing, wherever in the timer's function the store came.
THEOREM LedsHold == KernelSpec => []LedsRight
<1>1. LedsStopped /\ LedsBlink => LedsRight
  BY DEF LedsStopped, LedsBlink, LedsRight, Leds!LeftNormal, Leds!Blinks
<1> QED BY <1>1, LedsInductive, PTL

-----------------------------------------------------------------------------
(* The procfs message. *)

Bytes == Texts \cup {Message!Unwritten}

ProcCalls ==
    [op : {"none", "read", "write"}, text : Bytes, asked : Nat, count : 0 .. MSG_MAX_LEN,
     offp : 0 .. MSG_MAX_LEN, got : Seq(Bytes), quiet : BOOLEAN]

\* A write that no other has overlapped has its own length stored; a quiet read has what
\* the length allows.  What the history calls the last text lies in the memory.
MessageInv ==
    /\ Message!TypeOK
    /\ caller \in [Callers -> ProcCalls]
    /\ \A k \in Callers : caller[k].op = "write" /\ caller[k].quiet =>
          /\ \A j \in Callers : caller[j].op = "write" => j = k
          /\ length = Message!Stored(caller[k].asked)
    /\ \A k \in Callers : caller[k].op = "read" /\ caller[k].quiet =>
          /\ Message!Nobody
          /\ caller[k].count = Message!Least(caller[k].asked, length)
    /\ last # Message!Any =>
          /\ Message!Nobody
          /\ last.asked \in Nat /\ length = Message!Stored(last.asked)
          /\ \A i \in 1 .. length : message[i] = last.text

LEMMA MessageConstants ==
    MSG_MAX_LEN \in Nat \ {0} /\ MaxCount \in Nat /\ Message!Unwritten \notin Texts
BY InstanceAssumption DEF Message!ConstantAssumption

LEMMA StoredFits ==
    ASSUME NEW n \in Nat
    PROVE  Message!Stored(n) \in 0 .. MSG_MAX_LEN
BY MessageConstants DEF Message!Stored, Message!Least

\* A call that has ended keeps its offset.
LEMMA EndedIs ==
    ASSUME NEW n \in 0 .. MSG_MAX_LEN
    PROVE  /\ Message!Idle \in ProcCalls /\ Message!Idle.op = "none"
           /\ [Message!Idle EXCEPT !.offp = n] \in ProcCalls
           /\ [Message!Idle EXCEPT !.offp = n].op = "none"
<1>1. Message!Idle \in ProcCalls /\ Message!Idle.op = "none"
  BY MessageConstants DEF Message!Idle, ProcCalls, Bytes
<1> QED BY <1>1 DEF ProcCalls

LEMMA MessageInit == Message!Init => MessageInv
<1> SUFFICES ASSUME Message!Init PROVE MessageInv
  OBVIOUS
<1>1. /\ length = 0 /\ message = [i \in 1 .. MSG_MAX_LEN |-> Message!Unwritten]
      /\ caller = [k \in Callers |-> Message!Idle]
      /\ last = [text |-> Message!Unwritten, asked |-> 0]
  BY DEF Message!Init
<1>2. Message!Idle \in ProcCalls /\ Message!Idle.op = "none" /\ Message!Idle.offp = 0
  BY MessageConstants DEF Message!Idle, ProcCalls, Bytes
<1>3. Message!TypeOK
  BY <1>1, <1>2, MessageConstants DEF Message!TypeOK
<1>4. Message!Nobody /\ \A k \in Callers : caller[k].op = "none"
  BY <1>1, <1>2 DEF Message!Nobody
<1>5. length = Message!Stored(last.asked) /\ last.asked \in Nat
  BY <1>1, MessageConstants DEF Message!Stored, Message!Least
<1> QED BY <1>1, <1>2, <1>3, <1>4, <1>5 DEF MessageInv

\* The type of a state whose memory got the beginning of a text.
LEMMA FirstType ==
    ASSUME MessageInv, NEW t \in Bytes, NEW n \in Int, Message!FirstOf(t, n)
    PROVE  /\ message' \in [1 .. MSG_MAX_LEN -> Bytes]
           /\ \A i \in 1 .. MSG_MAX_LEN : i <= n => message'[i] = t
<1>1. message \in [1 .. MSG_MAX_LEN -> Bytes]
  BY DEF MessageInv, Message!TypeOK, Bytes
<1>2. message' = [i \in 1 .. MSG_MAX_LEN |-> IF i <= n THEN t ELSE message[i]]
  BY DEF Message!FirstOf
<1> QED BY <1>1, <1>2

\* What MessageInv needs of a step that ends the call of one process and stores nothing.
LEMMA CallerFrame ==
    ASSUME MessageInv, NEW k \in Callers, caller[k].op # "write",
           length' = length, message' = message, last' = last,
           NEW r \in ProcCalls, caller' = [caller EXCEPT ![k] = r],
           \/ r.op = "none"
           \/ r.op = "read" /\ r.quiet = Message!Nobody /\ r.count = Message!Least(r.asked, length)
    PROVE  MessageInv'
<1>1. caller' \in [Callers -> ProcCalls] /\ \A j \in Callers : caller'[j] = IF j = k THEN r ELSE caller[j]
  BY DEF MessageInv
<1>2. \A j \in Callers : caller'[j].op = "write" <=> caller[j].op = "write"
  BY <1>1
<1>3. Message!Nobody' <=> Message!Nobody
  BY <1>2 DEF Message!Nobody
<1>4. Message!TypeOK'
  BY <1>1 DEF MessageInv, Message!TypeOK, ProcCalls, Message!Any
<1>5. \A j \in Callers : caller'[j].op = "write" => caller'[j] = caller[j]
  BY <1>1
<1>6. ASSUME NEW j \in Callers, caller'[j].op = "read", caller'[j].quiet
      PROVE  Message!Nobody /\ caller'[j].count = Message!Least(caller'[j].asked, length)
  BY <1>1, <1>6 DEF MessageInv
<1>7. \A m, n : Message!Least(m, n)' = Message!Least(m, n)
  BY DEF Message!Least
<1> QED BY <1>1, <1>2, <1>3, <1>4, <1>5, <1>6, <1>7
        DEF MessageInv, Message!Stored, Message!Any, Message!Least

LEMMA MessageStep == ASSUME MessageInv, Message!Next PROVE MessageInv'
<1>a. /\ caller \in [Callers -> ProcCalls] /\ length \in 0 .. MSG_MAX_LEN
      /\ \A j \in Callers : /\ caller[j].text \in Bytes /\ caller[j].asked \in Nat
                            /\ caller[j].count \in 0 .. MSG_MAX_LEN
                            /\ caller[j].offp \in 0 .. MSG_MAX_LEN
  BY DEF MessageInv, Message!TypeOK, ProcCalls
<1>1. ASSUME NEW k \in Callers, Message!WriteStart(k) PROVE MessageInv'
  <2>1. PICK t \in Texts, n \in 0 .. MaxCount :
           /\ length' = Message!Stored(n)
           /\ caller' = [d \in Callers |->
                IF d = k THEN [caller[k] EXCEPT !.op = "write", !.text = t, !.asked = n,
                                                !.quiet = Message!Nobody]
                ELSE [caller[d] EXCEPT !.quiet = FALSE]]
    BY <1>1 DEF Message!WriteStart
  <2>2. n \in Nat /\ length' \in 0 .. MSG_MAX_LEN
    BY <2>1, MessageConstants, StoredFits
  <2>3. message' = message /\ last' = Message!Any /\ caller[k].op = "none"
    BY <1>1 DEF Message!WriteStart
  <2>4. /\ caller'[k] \in ProcCalls /\ caller'[k].op = "write" /\ caller'[k].asked = n
        /\ caller'[k].quiet = Message!Nobody /\ caller'[k].offp = caller[k].offp
    <3>1. caller'[k] = [caller[k] EXCEPT !.op = "write", !.text = t, !.asked = n,
                                         !.quiet = Message!Nobody]
      BY <2>1
    <3>2. t \in Bytes /\ Message!Nobody \in BOOLEAN /\ caller[k] \in ProcCalls
      BY <1>a DEF Bytes, Message!Nobody
    <3> QED BY <2>2, <3>1, <3>2 DEF ProcCalls
  <2>5. ASSUME NEW d \in Callers \ {k}
        PROVE  /\ caller'[d] \in ProcCalls /\ caller'[d].op = caller[d].op /\ ~caller'[d].quiet
               /\ caller'[d].offp = caller[d].offp
    <3>1. caller'[d] = [caller[d] EXCEPT !.quiet = FALSE] /\ caller[d] \in ProcCalls
      BY <1>a, <2>1
    <3> QED BY <3>1 DEF ProcCalls
  <2>6. caller' \in [Callers -> ProcCalls]
    BY <2>1, <2>4, <2>5
  <2>7. Message!TypeOK'
    <3>1. \A d \in Callers : /\ caller'[d].op \in {"none", "read", "write"}
                             /\ caller'[d].offp \in 0 .. MSG_MAX_LEN
      BY <2>6 DEF ProcCalls
    <3> QED BY <2>2, <2>3, <3>1 DEF MessageInv, Message!TypeOK, Message!Any
  <2>8. caller'[k].quiet => \A d \in Callers : caller'[d].op = "write" => d = k
    BY <2>4, <2>5 DEF Message!Nobody
  <2>9. last' = (Message!Any)' /\ length' = Message!Stored(n)
    BY <2>1, <2>3 DEF Message!Any
  <2> QED BY <2>4, <2>5, <2>6, <2>7, <2>8, <2>9 DEF MessageInv
<1>2. ASSUME NEW k \in Callers, Message!WriteCopy(k) \/ Message!WriteFails(k) PROVE MessageInv'
  <2> DEFINE r == [Message!Idle EXCEPT !.offp = caller[k].offp]
  <2>1. caller' = [caller EXCEPT ![k] = r] /\ caller[k].op = "write" /\ length' = length
    BY <1>2 DEF Message!WriteCopy, Message!WriteFails, Message!Ended
  <2>2. r \in ProcCalls /\ r.op = "none"
    BY <1>a, EndedIs
  <2> HIDE DEF r
  <2>3. caller' \in [Callers -> ProcCalls] /\ \A j \in Callers : caller'[j] = IF j = k THEN r ELSE caller[j]
    BY <1>a, <2>1, <2>2
  <2>4. last = Message!Any /\ ~Message!Nobody
    BY <2>1 DEF MessageInv, Message!Nobody
  <2>5. message' \in [1 .. MSG_MAX_LEN -> Bytes]
    BY <1>2, <1>a, FirstType DEF Message!WriteCopy, Message!WriteFails
  <2>6. CASE last' = last
    <3>1. Message!TypeOK'
      <4>1. \A d \in Callers : /\ caller'[d].op \in {"none", "read", "write"}
                               /\ caller'[d].offp \in 0 .. MSG_MAX_LEN
        BY <2>3 DEF ProcCalls
      <4> QED BY <1>a, <2>1, <2>4, <2>5, <2>6, <4>1 DEF Message!TypeOK, Message!Any, Bytes
    <3>2. \A j \in Callers : caller'[j].op # "none" => /\ caller'[j] = caller[j] /\ j # k
                                                       /\ ~caller[j].quiet
      BY <1>a, <2>1, <2>2, <2>3, <2>4 DEF MessageInv, ProcCalls
    <3> QED BY <2>3, <2>4, <2>6, <3>1, <3>2 DEF MessageInv, Message!Any
  <2>7. CASE last' # last
    <3>1. /\ caller[k].quiet /\ last' = [text |-> caller[k].text, asked |-> caller[k].asked]
          /\ Message!FirstOf(caller[k].text, length)
      BY <1>2, <2>4, <2>7 DEF Message!WriteCopy, Message!WriteFails
    <3>2. \A j \in Callers : j # k => caller[j].op # "write"
      BY <2>1, <3>1 DEF MessageInv
    <3>3. Message!Nobody' /\ \A j \in Callers : caller'[j].op # "write"
      BY <2>2, <2>3, <3>2 DEF Message!Nobody
    <3>4. \A j \in Callers : caller'[j].op = "read" => ~caller'[j].quiet
      BY <2>2, <2>3, <2>4 DEF MessageInv
    <3>5. length = Message!Stored(caller[k].asked) /\ caller[k].asked \in Nat
      BY <1>a, <2>1, <3>1 DEF MessageInv
    <3>6. \A i \in 1 .. length : message'[i] = caller[k].text
      <4>1. length \in Int /\ \A i \in 1 .. length : i \in 1 .. MSG_MAX_LEN /\ i <= length
        BY ONLY <1>a, MessageConstants
      <4>2. \A i \in 1 .. MSG_MAX_LEN : i <= length => message'[i] = caller[k].text
        BY <1>a, <3>1, <4>1, FirstType
      <4> QED BY ONLY <4>1, <4>2
    <3>7. /\ last'.text = caller[k].text /\ last'.asked = caller[k].asked
          /\ length' = Message!Stored(last'.asked)
      BY <2>1, <3>1, <3>5
    <3>8. Message!TypeOK'
      <4>1. \A d \in Callers : /\ caller'[d].op \in {"none", "read", "write"}
                               /\ caller'[d].offp \in 0 .. MSG_MAX_LEN
        BY <2>3 DEF ProcCalls
      <4> QED BY <1>a, <2>1, <2>5, <3>7, <4>1 DEF Message!TypeOK, Message!Any, Bytes
    <3> QED BY <2>1, <2>3, <3>3, <3>4, <3>5, <3>6, <3>7, <3>8 DEF MessageInv
  <2> QED BY <2>6, <2>7
<1>3. ASSUME NEW k \in Callers, Message!Open(k) PROVE MessageInv'
  <2>1. Message!Idle \in ProcCalls /\ Message!Idle.op = "none"
    BY <1>a, EndedIs
  <2>2. /\ caller[k].op # "write" /\ caller' = [caller EXCEPT ![k] = Message!Idle]
        /\ length' = length /\ message' = message /\ last' = last
    BY <1>3 DEF Message!Open
  <2> QED BY <2>1, <2>2, CallerFrame
<1>4. ASSUME NEW k \in Callers, Message!ReadStart(k) PROVE MessageInv'
  <2>1. PICK n \in 0 .. MaxCount :
           caller' = [caller EXCEPT ![k] =
              [Message!Idle EXCEPT !.op = "read", !.asked = n,
                                   !.count = Message!Least(n, length), !.quiet = Message!Nobody]]
    BY <1>4 DEF Message!ReadStart
  <2> DEFINE r == [Message!Idle EXCEPT !.op = "read", !.asked = n,
                                   !.count = Message!Least(n, length), !.quiet = Message!Nobody]
  <2>2. n \in Nat /\ Message!Least(n, length) \in 0 .. MSG_MAX_LEN
    BY <1>a, MessageConstants DEF Message!Least
  <2>3. Message!Idle \in ProcCalls /\ Message!Nobody \in BOOLEAN
    BY <1>a, EndedIs DEF Message!Nobody
  <2>4. /\ r \in ProcCalls /\ r.op = "read" /\ r.quiet = Message!Nobody
        /\ r.count = Message!Least(r.asked, length)
    BY <2>2, <2>3 DEF ProcCalls
  <2>5. /\ caller[k].op # "write" /\ length' = length /\ message' = message /\ last' = last
    BY <1>4 DEF Message!ReadStart
  <2> HIDE DEF r
  <2>6. caller' = [caller EXCEPT ![k] = r]
    BY <2>1 DEF r
  <2> QED BY <2>4, <2>5, <2>6, CallerFrame
<1>5. ASSUME NEW k \in Callers, Message!ReadCopy(k) PROVE MessageInv'
  <2> DEFINE e == [Message!Idle EXCEPT !.offp = caller[k].offp]
             r == [e EXCEPT !.got = SubSeq(message, 1, caller[k].count), !.offp = caller[k].count]
  <2>1. e \in ProcCalls /\ e.op = "none"
    BY <1>a, EndedIs
  <2>2. SubSeq(message, 1, caller[k].count) \in Seq(Bytes)
    <3>1. message \in [1 .. MSG_MAX_LEN -> Bytes]
      BY DEF MessageInv, Message!TypeOK, Bytes
    <3>2. message \in Seq(Bytes) /\ Len(message) = MSG_MAX_LEN
      BY <3>1, MessageConstants
    <3> QED BY <1>a, <3>2, MessageConstants
  <2>3. caller' = [caller EXCEPT ![k] = r]
    BY <1>a, <1>5 DEF Message!ReadCopy, Message!Ended
  <2>4. r \in ProcCalls /\ r.op = "none"
    <3> HIDE DEF e
    <3> QED BY <1>a, <2>1, <2>2 DEF ProcCalls
  <2>5. caller[k].op # "write" /\ length' = length /\ message' = message /\ last' = last
    BY <1>5 DEF Message!ReadCopy
  <2> HIDE DEF r
  <2> QED BY <2>3, <2>4, <2>5, CallerFrame
<1>6. ASSUME NEW k \in Callers, Message!ReadFails(k) PROVE MessageInv'
  <2> DEFINE r == [Message!Idle EXCEPT !.offp = caller[k].offp]
  <2>1. r \in ProcCalls /\ r.op = "none"
    BY <1>a, EndedIs
  <2>2. /\ caller[k].op # "write" /\ caller' = [caller EXCEPT ![k] = r]
        /\ length' = length /\ message' = message /\ last' = last
    BY <1>6 DEF Message!ReadFails, Message!Ended
  <2> HIDE DEF r
  <2> QED BY <2>1, <2>2, CallerFrame
<1> QED BY <1>1, <1>2, <1>3, <1>4, <1>5, <1>6 DEF Message!Next

\* What a quiet read takes is the last text, cut by what was asked for.
LEMMA WholeText ==
    ASSUME MessageInv, NEW k \in Callers, Message!ReadCopy(k), caller[k].quiet,
           last # Message!Any
    PROVE  caller'[k].got = [i \in 1 .. Message!Least(Message!Least(caller[k].asked, last.asked),
                                                      MSG_MAX_LEN) |-> last.text]
<1> DEFINE n == caller[k].count
<1>1. n = Message!Least(caller[k].asked, length) /\ length = Message!Stored(last.asked)
  BY DEF MessageInv, Message!ReadCopy
<1>2. caller[k].asked \in Nat /\ last.asked \in Nat /\ length \in 0 .. MSG_MAX_LEN
  BY DEF MessageInv, ProcCalls, Message!TypeOK
<1>3. n = Message!Least(Message!Least(caller[k].asked, last.asked), MSG_MAX_LEN)
  BY ONLY <1>1, <1>2, MessageConstants DEF Message!Least, Message!Stored
<1>4. n \in 0 .. length
  BY ONLY <1>1, <1>2 DEF Message!Least
<1>5. \A i \in 1 .. n : message[i] = last.text
  <2>1. \A i \in 1 .. length : message[i] = last.text
    BY DEF MessageInv
  <2>2. \A i \in 1 .. n : i \in 1 .. length
    BY ONLY <1>2, <1>4
  <2> QED BY <2>1, <2>2
<1>6. caller'[k].got = SubSeq(message, 1, n)
  <2> DEFINE e == [Message!Idle EXCEPT !.offp = caller[k].offp]
  <2>1. e \in ProcCalls
    BY EndedIs DEF MessageInv, ProcCalls
  <2>2. caller' = [caller EXCEPT ![k] = [e EXCEPT !.got = SubSeq(message, 1, n), !.offp = n]]
    BY DEF Message!ReadCopy, Message!Ended, MessageInv
  <2> HIDE DEF e
  <2>3. [e EXCEPT !.got = SubSeq(message, 1, n), !.offp = n].got = SubSeq(message, 1, n)
    BY <2>1 DEF ProcCalls
  <2> QED BY <2>2, <2>3 DEF MessageInv
<1>7. SubSeq(message, 1, n) = [i \in 1 .. n |-> last.text]
  <2>1. message \in [1 .. MSG_MAX_LEN -> Bytes]
    BY DEF MessageInv, Message!TypeOK, Bytes
  <2>2. message \in Seq(Bytes) /\ Len(message) = MSG_MAX_LEN
    BY <2>1, MessageConstants
  <2> HIDE DEF n
  <2>3. 1 \in Int /\ n \in 0 .. Len(message)
    BY <1>2, <1>4, <2>2, MessageConstants
  <2>4. SubSeq(message, 1, n) \in Seq(Bytes) /\ Len(SubSeq(message, 1, n)) = n
    BY <2>2, <2>3
  <2>5. \A i \in 1 .. n : SubSeq(message, 1, n)[i] = message[i]
    BY <2>2, <2>3
  <2>6. SubSeq(message, 1, n) = [i \in 1 .. n |-> SubSeq(message, 1, n)[i]]
    BY <2>4
  <2> QED BY <1>5, <2>5, <2>6
<1> QED BY <1>3, <1>6, <1>7

LEMMA MessagePart == [KernelNext]_Vars => [Message!Next]_(Message!vars)
BY DEF KernelNext, Vars, MessageVars, Message!vars

LEMMA MessageStays == MessageInv /\ [Message!Next]_(Message!vars) => MessageInv'
<1> SUFFICES ASSUME MessageInv, [Message!Next]_(Message!vars) PROVE MessageInv'
  OBVIOUS
<1>1. CASE Message!Next
  BY <1>1, MessageStep
<1>2. CASE UNCHANGED Message!vars
  BY <1>2 DEF Message!vars, MessageInv, Message!TypeOK, Message!Nobody, Message!Any,
              Message!Least, Message!Stored
<1> QED BY <1>1, <1>2

\* module5/lab2: the length and the memory, in every reachable state.
THEOREM MessageInductive == KernelSpec => []MessageInv
<1>1. KernelInit => MessageInv
  BY MessageInit DEF KernelInit
<1>2. MessageInv /\ [KernelNext]_Vars => MessageInv'
  BY MessagePart, MessageStays
<1> QED BY <1>1, <1>2, PTL DEF KernelSpec

\* module5/lab2: who reads while nobody writes, after a write that ended well and that no
\* other overlapped, gets that text from its beginning, and nothing of the texts before.
THEOREM MessageReads == KernelSpec => Message!ReadsWhole
<1> DEFINE A == \A c \in Callers :
                   Message!ReadCopy(c) /\ caller[c].quiet /\ last # Message!Any
                   => caller'[c].got =
                         [i \in 1 .. Message!Least(Message!Least(caller[c].asked, last.asked),
                                                   MSG_MAX_LEN) |-> last.text]
<1>1. MessageInv /\ [KernelNext]_Vars => [A]_(Message!vars)
  BY WholeText
<1>2. KernelSpec => [][A]_(Message!vars)
  BY <1>1, MessageInductive, PTL DEF KernelSpec
<1> QED BY <1>2 DEF Message!ReadsWhole

\* module5/lab2 and lab4: what is read, undisturbed, is the last text.
THEOREM TextsHold == KernelSpec => TextsRight
BY DeviceReads, MessageReads DEF TextsRight

-----------------------------------------------------------------------------
(* The observer. *)

\* One observer is at work, and every grep that runs is its own.
OneAtWork ==
    /\ \A o, w \in Observers : at[o] > 0 /\ at[w] > 0 => o = w
    /\ \A p \in Pids : proc[p][1] = "grep" =>
          \E o \in Observers : doing[o] = "grep" /\ grep[o] = p

\* Every process that runs, but those of the set, was looked at and is not the script of o.
LookedAt(o, rest) ==
    \A p \in Pids \ rest : proc[p] # Watch!Free => ~Watch!Matches(Watch!Script(o), p)

\* The observer has looked at all that ran when it made its list, but for what is still on
\* it and, while it looks, at what it looks; and a grep is not what a grep looks at.
Scanned ==
    /\ \A o \in Observers : doing[o] = "scan" => LookedAt(o, list[o])
    /\ \A o \in Observers : doing[o] = "grep" =>
          /\ look[o] # grep[o] /\ look[o] \in Pids /\ grep[o] \in Pids
          /\ LookedAt(o, list[o] \cup {look[o], grep[o]})

ObserverFields ==
    /\ overlapped \in BOOLEAN
    /\ look \in [Observers -> Pids \cup {0}] /\ grep \in [Observers -> Pids \cup {0}]
    /\ \A o \in Observers : doing[o] # "line" => at[o] > 0

\* While no two observers have overlapped, the one at work has looked, by the end of its
\* list, at every process that ran when it made the list; and a grep runs for it alone.
ObserverInv ==
    /\ Watch!TypeOK /\ ObserverFields
    /\ ~overlapped => OneAtWork /\ Scanned

LEMMA ObserverConstants ==
    /\ 0 \notin Pids /\ Len(Scripts) \in Nat /\ DOMAIN Scripts = 1 .. Len(Scripts)
    /\ \A i \in 1 .. Len(Scripts) : "none" \notin Contains[Scripts[i]]
<1>1. Watch!ConstantAssumption
  BY InstanceAssumption
<1> QED BY <1>1 DEF Watch!ConstantAssumption

LEMMA NextInRange ==
    ASSUME NEW n \in Nat, NEW k \in 0 .. n
    PROVE  (k + 1) % (n + 1) \in 0 .. n
OBVIOUS

LEMMA ObserverInit == Watch!Init => ObserverInv
<1> SUFFICES ASSUME Watch!Init PROVE ObserverInv
  OBVIOUS
<1> USE ObserverConstants DEF Watch!Init
<1>1. Watch!TypeOK
  BY DEF Watch!TypeOK
<1>2. /\ overlapped \in BOOLEAN
      /\ look \in [Observers -> Pids \cup {0}] /\ grep \in [Observers -> Pids \cup {0}]
      /\ \A o \in Observers : doing[o] = "line" /\ at[o] = 0
      /\ \A p \in Pids : proc[p][1] # "grep"
  BY DEF Watch!Free
<1>3. ~(0 > 0)
  OBVIOUS
<1> QED BY <1>1, <1>2, <1>3 DEF ObserverInv, ObserverFields, OneAtWork, Scanned

\* The line of an observer at work, and the others while it is the only one.
LEMMA Alone ==
    ASSUME ObserverInv, NEW o \in Observers, at[o] > 0
    PROVE  /\ at[o] \in 1 .. Len(Scripts) /\ Watch!Script(o) \in {Scripts[i] : i \in DOMAIN Scripts}
           /\ ~overlapped => \A w \in Observers \ {o} : doing[w] = "line" /\ ~(at[w] > 0)
<1>1. at[o] \in 1 .. Len(Scripts)
  BY ObserverConstants DEF ObserverInv, Watch!TypeOK
<1>2. Watch!Script(o) \in {Scripts[i] : i \in DOMAIN Scripts}
  BY <1>1, ObserverConstants DEF Watch!Script
<1> QED BY <1>1, <1>2 DEF ObserverInv, ObserverFields, OneAtWork

\* What may run under a pid.
Lines == {Scripts[i] : i \in DOMAIN Scripts}
Procs == {Watch!Free} \cup ({"script", "grep"} \X Lines)

LEMMA Runs ==
    ASSUME NEW line \in Lines
    PROVE  <<"grep", line>> \in Procs /\ <<"script", line>> \in Procs
BY DEF Procs

LEMMA ObserverTypeStep == ASSUME ObserverInv, Watch!Next PROVE Watch!TypeOK'
<1>a. /\ proc \in [Pids -> Procs]
      /\ at \in [Observers -> 0 .. Len(Scripts)]
      /\ doing \in [Observers -> {"line", "scan", "grep"}]
      /\ list \in [Observers -> SUBSET Pids]
      /\ look \in [Observers -> Pids \cup {0}]
  BY DEF ObserverInv, ObserverFields, Watch!TypeOK, Procs, Lines
<1>b. ASSUME NEW o \in Observers, Watch!NextLine(o)
      PROVE  /\ at' \in [Observers -> 0 .. Len(Scripts)]
             /\ doing' \in [Observers -> {"line", "scan", "grep"}]
  <2>1. (at[o] + 1) % (Len(Scripts) + 1) \in 0 .. Len(Scripts)
    BY <1>a, NextInRange, ObserverConstants
  <2> QED BY <1>a, <1>b, <2>1 DEF Watch!NextLine, Watch!Goto
<1>c. \A f \in [Observers -> Pids \cup {0}] : {f[o] : o \in Observers} \subseteq Pids \cup {0}
  OBVIOUS
<1>d. Watch!Free \in Procs
  BY DEF Procs
<1> SUFFICES /\ proc' \in [Pids -> Procs]
             /\ at' \in [Observers -> 0 .. Len(Scripts)]
             /\ doing' \in [Observers -> {"line", "scan", "grep"}]
             /\ list' \in [Observers -> SUBSET Pids]
             /\ look' \in [Observers -> Pids \cup {0}]
  BY <1>c DEF Watch!TypeOK, Procs, Lines
<1> DEFINE TypeNext ==
             /\ proc' \in [Pids -> Procs]
             /\ at' \in [Observers -> 0 .. Len(Scripts)]
             /\ doing' \in [Observers -> {"line", "scan", "grep"}]
             /\ list' \in [Observers -> SUBSET Pids]
             /\ look' \in [Observers -> Pids \cup {0}]
<1>1. ASSUME NEW o \in Observers, Watch!Begin(o) PROVE TypeNext
  <2>1. at' \in [Observers -> 0 .. Len(Scripts)]
    BY <1>a, <1>1, ObserverConstants DEF Watch!Begin
  <2> QED BY <1>a, <1>1, <2>1 DEF Watch!Begin
<1>2. ASSUME NEW o \in Observers, Watch!NoFile(o) PROVE TypeNext
  BY <1>a, <1>b, <1>2 DEF Watch!NoFile
<1>3. ASSUME NEW o \in Observers, Watch!List(o) PROVE TypeNext
  BY <1>a, <1>3 DEF Watch!List, Watch!Listed, Watch!Running, Watch!Goto
<1>4. ASSUME NEW o \in Observers, Watch!Look(o) PROVE TypeNext
  <2>1. PICK p \in list[o] :
           /\ list' = [list EXCEPT ![o] = @ \ {p}]
           /\ IF proc[p] = Watch!Free THEN UNCHANGED <<proc, doing, look, grep>>
              ELSE \E q \in Watch!FreshPids :
                     /\ proc' = [proc EXCEPT ![q] = <<"grep", Watch!Script(o)>>]
                     /\ grep' = [grep EXCEPT ![o] = q] /\ look' = [look EXCEPT ![o] = p]
                     /\ Watch!Goto(o, "grep")
    BY <1>4 DEF Watch!Look
  <2>2. list' \in [Observers -> SUBSET Pids] /\ at' = at /\ p \in Pids
    BY <1>a, <1>4, <2>1 DEF Watch!Look
  <2>3. CASE proc[p] = Watch!Free
    BY <1>a, <2>1, <2>2, <2>3
  <2>4. CASE proc[p] # Watch!Free
    <3>1. <<"grep", Watch!Script(o)>> \in Procs
      BY <1>4, Alone, Runs DEF Watch!Look, ObserverInv, ObserverFields, Lines
    <3>2. /\ proc' \in [Pids -> Procs]
          /\ doing' \in [Observers -> {"line", "scan", "grep"}]
          /\ look' \in [Observers -> Pids \cup {0}]
      BY <1>a, <2>1, <2>2, <2>4, <3>1, ZenonT(40) DEF Watch!Goto
    <3> QED BY <1>a, <2>2, <3>2
  <2> QED BY <2>3, <2>4
<1>5. ASSUME NEW o \in Observers, Watch!Grep(o) PROVE TypeNext
  <2>1. /\ proc' \in [Pids -> Procs]
        /\ look' \in [Observers -> Pids \cup {0}]
    BY <1>a, <1>d, <1>5 DEF Watch!Grep
  <2>2. CASE Watch!Matches(Watch!Script(o), look[o])
    <3>1. Watch!NextLine(o) /\ list' = [list EXCEPT ![o] = {}]
      BY <1>5, <2>2 DEF Watch!Grep
    <3> QED BY <1>a, <1>b, <2>1, <3>1
  <2>3. CASE ~Watch!Matches(Watch!Script(o), look[o])
    <3>1. doing' = [doing EXCEPT ![o] = "scan"] /\ at' = at /\ list' = list
      BY <1>5, <2>3 DEF Watch!Grep, Watch!Goto
    <3> QED BY <1>a, <2>1, <3>1
  <2> QED BY <2>2, <2>3
<1>6. ASSUME NEW o \in Observers, Watch!Launch(o) PROVE TypeNext
  <2>1. <<"script", Watch!Script(o)>> \in Procs
    BY <1>6, Alone, Runs DEF Watch!Launch, ObserverInv, ObserverFields, Lines
  <2>2. proc' \in [Pids -> Procs]
    BY <1>a, <1>6, <2>1 DEF Watch!Launch
  <2> QED BY <1>a, <1>b, <1>6, <2>2 DEF Watch!Launch
<1>7. ASSUME NEW p \in Pids, Watch!ScriptEnds(p) PROVE TypeNext
  BY <1>a, <1>d, <1>7 DEF Watch!ScriptEnds
<1> QED BY <1>1, <1>2, <1>3, <1>4, <1>5, <1>6, <1>7 DEF Watch!Next

\* An observer at work alone leaves every other one at its line.
LEMMA OthersRest ==
    ASSUME ObserverInv, ~overlapped, NEW o \in Observers, at[o] > 0
    PROVE  \A w \in Observers \ {o} : doing[w] = "line" /\ ~(at[w] > 0) /\ at[w] = 0
<1>1. \A w \in Observers \ {o} : doing[w] = "line" /\ ~(at[w] > 0)
  BY Alone
<1>2. \A w \in Observers : at[w] \in 0 .. Len(Scripts)
  BY DEF ObserverInv, Watch!TypeOK
<1>3. \A k \in 0 .. Len(Scripts) : ~(k > 0) => k = 0
  BY ObserverConstants
<1> QED BY <1>1, <1>2, <1>3

\* What a step of o that nothing else takes part in must show.
LEMMA ByOne ==
    ASSUME ObserverInv, ~overlapped, NEW o \in Observers, at[o] > 0,
           \A w \in Observers \ {o} : at'[w] = at[w] /\ doing'[w] = doing[w],
           \A p \in Pids : proc'[p][1] = "grep" => doing'[o] = "grep" /\ grep'[o] = p,
           doing'[o] = "scan" => LookedAt(o, list[o])',
           doing'[o] = "grep" =>
              /\ look'[o] # grep'[o] /\ look'[o] \in Pids /\ grep'[o] \in Pids
              /\ LookedAt(o, list[o] \cup {look[o], grep[o]})'
    PROVE  OneAtWork' /\ Scanned'
<1>1. \A w \in Observers \ {o} : doing'[w] = "line" /\ ~(at'[w] > 0)
  BY OthersRest
<1>2. OneAtWork'
  BY <1>1 DEF OneAtWork
<1>3. Scanned'
  <2>1. \A w \in Observers : doing'[w] = "scan" => LookedAt(w, list[w])'
    BY <1>1 DEF LookedAt
  <2>2. ASSUME NEW w \in Observers, doing'[w] = "grep"
        PROVE  /\ look'[w] # grep'[w] /\ look'[w] \in Pids /\ grep'[w] \in Pids
               /\ LookedAt(w, list[w] \cup {look[w], grep[w]})'
    <3>1. w = o
      BY <1>1, <2>2
    <3> QED BY <2>2, <3>1 DEF LookedAt
  <2> QED BY <2>1, <2>2 DEF Scanned
<1> QED BY <1>2, <1>3

LEMMA ObserverStep == ASSUME ObserverInv, Watch!Next PROVE ObserverInv'
<1>t. Watch!TypeOK'
  BY ObserverTypeStep
<1>a. /\ proc \in [Pids -> Procs]
      /\ at \in [Observers -> 0 .. Len(Scripts)]
      /\ doing \in [Observers -> {"line", "scan", "grep"}]
      /\ list \in [Observers -> SUBSET Pids]
      /\ look \in [Observers -> Pids \cup {0}] /\ grep \in [Observers -> Pids \cup {0}]
      /\ \A w \in Observers : doing[w] # "line" => at[w] > 0
  BY DEF ObserverInv, ObserverFields, Watch!TypeOK, Procs, Lines
<1>b. overlapped \in BOOLEAN
  BY DEF ObserverInv, ObserverFields
<1>c. ~overlapped => OneAtWork /\ Scanned
  BY DEF ObserverInv
<1>d. ASSUME ~overlapped, NEW o \in Observers, at[o] > 0
      PROVE  \A p \in Pids : proc[p][1] = "grep" => doing[o] = "grep" /\ grep[o] = p
  BY <1>c, <1>d, OthersRest DEF OneAtWork
<1>e. Watch!Free[1] # "grep" /\ Watch!Free[1] # "script"
  BY DEF Watch!Free
<1> DEFINE StepNext ==
       /\ ObserverFields'
       /\ ~overlapped' => OneAtWork' /\ Scanned'
<1> SUFFICES StepNext
  BY <1>t DEF ObserverInv
<1>1. ASSUME NEW o \in Observers, Watch!Begin(o) PROVE StepNext
  <2>1. /\ at[o] = 0 /\ at' = [at EXCEPT ![o] = 1] /\ doing' = doing /\ grep' = grep
        /\ look' = look /\ proc' = proc
        /\ overlapped' = (overlapped \/ \E other \in Observers : at[other] > 0)
    BY <1>1 DEF Watch!Begin
  <2>2. \A w \in Observers : doing[w] # "line" => at'[w] > 0
    BY <1>a, <2>1
  <2>3. ObserverFields'
    BY <1>a, <1>b, <2>1, <2>2 DEF ObserverFields
  <2>4. ASSUME ~overlapped' PROVE OneAtWork' /\ Scanned'
    <3>1. ~overlapped /\ \A w \in Observers : ~(at[w] > 0) /\ doing[w] = "line"
      BY <1>a, <1>b, <2>1, <2>4
    <3>2. \A p \in Pids : proc[p][1] # "grep"
      BY <1>c, <3>1 DEF OneAtWork
    <3>3. \A w \in Observers \ {o} : at'[w] = at[w]
      BY <1>a, <2>1
    <3> QED BY <2>1, <3>1, <3>2, <3>3 DEF OneAtWork, Scanned
  <2> QED BY <2>3, <2>4
<1>2. ASSUME NEW o \in Observers, Watch!NoFile(o) PROVE StepNext
  <2>1. /\ at[o] > 0 /\ doing[o] = "line" /\ Watch!NextLine(o)
        /\ UNCHANGED <<proc, list, look, grep, runs, overlapped>>
    BY <1>2 DEF Watch!NoFile
  <2>2. \A w \in Observers : doing'[w] = (IF w = o THEN "line" ELSE doing[w])
    BY <1>a, <2>1 DEF Watch!NextLine, Watch!Goto
  <2>3. \A w \in Observers \ {o} : at'[w] = at[w]
    BY <1>a, <2>1 DEF Watch!NextLine
  <2>4. ObserverFields'
    BY <1>a, <1>b, <2>1, <2>2, <2>3 DEF ObserverFields
  <2>5. ASSUME ~overlapped' PROVE OneAtWork' /\ Scanned'
    <3>1. ~overlapped
      BY <2>1, <2>5
    <3>2. \A p \in Pids : proc'[p][1] # "grep"
      BY <1>d, <2>1, <3>1
    <3> QED BY <2>1, <2>2, <2>3, <3>1, <3>2, ByOne
  <2> QED BY <2>4, <2>5
<1>3. ASSUME NEW o \in Observers, Watch!List(o) PROVE StepNext
  <2>1. /\ at[o] > 0 /\ doing[o] = "line"
        /\ list' = [list EXCEPT ![o] = Watch!Running]
        /\ doing' = [doing EXCEPT ![o] = "scan"]
        /\ UNCHANGED <<proc, at, look, grep, runs, overlapped>>
    BY <1>3 DEF Watch!List, Watch!Listed, Watch!Goto
  <2>2. \A w \in Observers : doing'[w] = (IF w = o THEN "scan" ELSE doing[w])
    BY <1>a, <2>1
  <2>3. ObserverFields'
    BY <1>a, <1>b, <2>1, <2>2 DEF ObserverFields
  <2>4. ASSUME ~overlapped' PROVE OneAtWork' /\ Scanned'
    <3>1. ~overlapped
      BY <2>1, <2>4
    <3>2. \A p \in Pids : proc'[p][1] # "grep"
      BY <1>d, <2>1, <3>1
    <3>3. list'[o] = Watch!Running
      BY <1>a, <2>1
    <3>4. \A p \in Pids \ list'[o] : proc'[p] = Watch!Free
      BY <2>1, <3>3 DEF Watch!Running
    <3>5. LookedAt(o, list[o])'
      BY <3>4 DEF LookedAt, Watch!Free
    <3> QED BY <2>1, <2>2, <3>1, <3>2, <3>5, ByOne DEF LookedAt
  <2> QED BY <2>3, <2>4

<1>4. ASSUME NEW o \in Observers, Watch!Look(o) PROVE StepNext
  <2>1. PICK p \in list[o] :
           /\ list' = [list EXCEPT ![o] = @ \ {p}]
           /\ IF proc[p] = Watch!Free THEN UNCHANGED <<proc, doing, look, grep>>
              ELSE \E q \in Watch!FreshPids :
                     /\ proc' = [proc EXCEPT ![q] = <<"grep", Watch!Script(o)>>]
                     /\ grep' = [grep EXCEPT ![o] = q] /\ look' = [look EXCEPT ![o] = p]
                     /\ Watch!Goto(o, "grep")
    BY <1>4 DEF Watch!Look
  <2>2. /\ doing[o] = "scan" /\ at' = at /\ overlapped' = overlapped
        /\ at[o] > 0 /\ list'[o] = list[o] \ {p} /\ p \in Pids
    BY <1>4, <1>a, <2>1 DEF Watch!Look
  <2>3. ~overlapped => (\A r \in Pids : proc[r][1] # "grep") /\ LookedAt(o, list[o])
    BY <1>c, <1>d, <2>2 DEF Scanned
  <2>4. Watch!Script(o)' = Watch!Script(o)
    BY <2>2 DEF Watch!Script
  <2>5. CASE proc[p] = Watch!Free
    <3>1. UNCHANGED <<proc, doing, look, grep>>
      BY <2>1, <2>5
    <3>2. ObserverFields'
      BY <1>a, <1>b, <2>2, <3>1 DEF ObserverFields
    <3>3. ASSUME ~overlapped PROVE OneAtWork' /\ Scanned'
      <4>1. LookedAt(o, list[o])'
        BY <2>2, <2>3, <2>4, <2>5, <3>1, <3>3 DEF LookedAt, Watch!Matches
      <4> QED BY <2>2, <2>3, <3>1, <3>3, <4>1, ByOne
    <3> QED BY <2>2, <3>2, <3>3
  <2>6. CASE proc[p] # Watch!Free
    <3>1. PICK q \in Watch!FreshPids :
             /\ proc' = [proc EXCEPT ![q] = <<"grep", Watch!Script(o)>>]
             /\ grep' = [grep EXCEPT ![o] = q] /\ look' = [look EXCEPT ![o] = p]
             /\ doing' = [doing EXCEPT ![o] = "grep"]
      BY <2>1, <2>6 DEF Watch!Goto
    <3>2. q \in Pids /\ proc[q] = Watch!Free
      BY DEF Watch!FreshPids
    <3>3. /\ grep'[o] = q /\ look'[o] = p /\ q # p
          /\ \A w \in Observers : doing'[w] = (IF w = o THEN "grep" ELSE doing[w])
          /\ \A r \in Pids : r # q => proc'[r] = proc[r]
      BY <1>a, <2>6, <3>1, <3>2
    <3>4. ObserverFields'
      BY <1>a, <1>b, <2>2, <3>1, <3>2, <3>3 DEF ObserverFields
    <3>5. ASSUME ~overlapped PROVE OneAtWork' /\ Scanned'
      <4>1. \A r \in Pids : proc'[r][1] = "grep" => r = q
        BY <2>3, <3>3, <3>5
      <4>2. \A r \in Pids \ (list'[o] \cup {p, q}) : r \notin list[o] /\ proc'[r] = proc[r]
        BY <2>2, <3>3
      <4>3. LookedAt(o, list[o] \cup {look[o], grep[o]})'
        BY <2>3, <2>4, <3>3, <3>5, <4>2 DEF LookedAt, Watch!Matches
      <4> QED BY <2>2, <3>2, <3>3, <3>5, <4>1, <4>3, ByOne
    <3> QED BY <2>2, <3>4, <3>5
  <2> QED BY <2>5, <2>6
<1>5. ASSUME NEW o \in Observers, Watch!Grep(o) PROVE StepNext
  <2>1. /\ doing[o] = "grep" /\ at[o] > 0 /\ overlapped' = overlapped
        /\ proc' = [proc EXCEPT ![grep[o]] = Watch!Free]
        /\ grep' = [grep EXCEPT ![o] = 0] /\ look' = [look EXCEPT ![o] = 0]
    BY <1>5, <1>a DEF Watch!Grep
  <2>2. \A r \in Pids : proc'[r] = (IF r = grep[o] THEN Watch!Free ELSE proc[r])
    BY <1>a, <2>1
  <2>3. ~overlapped => \A r \in Pids : proc'[r][1] # "grep"
    BY <1>d, <1>e, <2>1, <2>2
  <2>4. /\ grep' \in [Observers -> Pids \cup {0}] /\ look' \in [Observers -> Pids \cup {0}]
    BY <1>a, <2>1
  <2>5. CASE Watch!Matches(Watch!Script(o), look[o])
    <3>1. Watch!NextLine(o)
      BY <1>5, <2>5 DEF Watch!Grep
    <3>2. /\ \A w \in Observers : doing'[w] = (IF w = o THEN "line" ELSE doing[w])
          /\ \A w \in Observers \ {o} : at'[w] = at[w]
      BY <1>a, <3>1 DEF Watch!NextLine, Watch!Goto
    <3>3. ObserverFields'
      BY <1>a, <1>b, <2>1, <2>4, <3>2 DEF ObserverFields
    <3>4. ASSUME ~overlapped PROVE OneAtWork' /\ Scanned'
      BY <2>1, <2>3, <3>2, <3>4, ByOne
    <3> QED BY <2>1, <3>3, <3>4
  <2>6. CASE ~Watch!Matches(Watch!Script(o), look[o])
    <3>1. doing' = [doing EXCEPT ![o] = "scan"] /\ at' = at /\ list' = list
      BY <1>5, <2>6 DEF Watch!Grep, Watch!Goto
    <3>2. \A w \in Observers : doing'[w] = (IF w = o THEN "scan" ELSE doing[w])
      BY <1>a, <3>1
    <3>3. ObserverFields'
      BY <1>a, <1>b, <2>1, <2>4, <3>1, <3>2 DEF ObserverFields
    <3>4. ASSUME ~overlapped PROVE OneAtWork' /\ Scanned'
      <4>1. LookedAt(o, list[o] \cup {look[o], grep[o]})
        BY <1>c, <2>1, <3>4 DEF Scanned
      <4>2. \A r \in Pids \ list[o] :
               proc[r] # Watch!Free /\ r # grep[o] => ~Watch!Matches(Watch!Script(o), r)
        BY <2>6, <4>1 DEF LookedAt
      <4>3. \A r \in Pids \ list[o] :
               proc'[r] # Watch!Free => ~Watch!Matches(Watch!Script(o), r)'
        <5>1. \A r \in Pids \ list[o] : proc'[r] # Watch!Free => r # grep[o] /\ proc'[r] = proc[r]
          BY <2>2
        <5> QED BY <3>1, <4>2, <5>1 DEF Watch!Matches, Watch!Script
      <4>4. LookedAt(o, list[o])'
        BY <3>1, <4>3 DEF LookedAt, Watch!Free
      <4> QED BY <2>1, <2>3, <3>1, <3>2, <3>4, <4>4, ByOne DEF LookedAt
    <3> QED BY <2>1, <3>3, <3>4
  <2> QED BY <2>5, <2>6
<1>6. ASSUME NEW o \in Observers, Watch!Launch(o) PROVE StepNext
  <2>1. PICK q \in Watch!FreshPids : proc' = [proc EXCEPT ![q] = <<"script", Watch!Script(o)>>]
    BY <1>6 DEF Watch!Launch
  <2>2. /\ doing[o] = "scan" /\ at[o] > 0 /\ Watch!NextLine(o)
        /\ UNCHANGED <<list, look, grep, runs, overlapped>>
    BY <1>6, <1>a DEF Watch!Launch
  <2>3. /\ \A w \in Observers : doing'[w] = (IF w = o THEN "line" ELSE doing[w])
        /\ \A w \in Observers \ {o} : at'[w] = at[w]
    BY <1>a, <2>2 DEF Watch!NextLine, Watch!Goto
  <2>4. ObserverFields'
    BY <1>a, <1>b, <2>2, <2>3 DEF ObserverFields
  <2>5. \A r \in Pids : proc'[r] = (IF r = q THEN <<"script", Watch!Script(o)>> ELSE proc[r])
    BY <1>a, <2>1
  <2>6. ASSUME ~overlapped PROVE OneAtWork' /\ Scanned'
    <3>1. \A r \in Pids : proc'[r][1] # "grep"
      BY <1>d, <2>2, <2>5, <2>6
    <3> QED BY <2>2, <2>3, <2>6, <3>1, ByOne
  <2> QED BY <2>2, <2>4, <2>6
<1>7. ASSUME NEW p \in Pids, Watch!ScriptEnds(p) PROVE StepNext
  <2>1. /\ proc[p][1] = "script" /\ proc' = [proc EXCEPT ![p] = Watch!Free]
        /\ UNCHANGED <<at, doing, list, look, grep, runs, overlapped>>
    BY <1>7 DEF Watch!ScriptEnds
  <2>2. \A r \in Pids : proc'[r] = (IF r = p THEN Watch!Free ELSE proc[r])
    BY <1>a, <2>1
  <2>3. ObserverFields'
    BY <1>a, <1>b, <2>1 DEF ObserverFields
  <2>4. ASSUME ~overlapped PROVE OneAtWork'
    BY <1>c, <1>e, <2>1, <2>2, <2>4 DEF OneAtWork
  <2>5. ASSUME NEW o \in Observers, NEW rest, LookedAt(o, rest)
        PROVE  \A r \in Pids \ rest : proc'[r] # Watch!Free => ~Watch!Matches(Watch!Script(o), r)'
    BY <2>1, <2>2, <2>5 DEF LookedAt, Watch!Matches, Watch!Script
  <2>6. ASSUME ~overlapped PROVE Scanned'
    <3>1. \A o \in Observers : doing[o] = "scan" => LookedAt(o, list[o])'
      BY <1>c, <2>1, <2>5, <2>6 DEF Scanned, LookedAt
    <3>2. \A o \in Observers : doing[o] = "grep" => LookedAt(o, list[o] \cup {look[o], grep[o]})'
      BY <1>c, <2>1, <2>5, <2>6 DEF Scanned, LookedAt
    <3> QED BY <1>c, <2>1, <2>6, <3>1, <3>2 DEF Scanned
  <2> QED BY <2>1, <2>3, <2>4, <2>6
<1> QED BY <1>1, <1>2, <1>3, <1>4, <1>5, <1>6, <1>7 DEF Watch!Next

LEMMA WatchPart == [KernelNext]_Vars => [Watch!Next]_(Watch!vars)
BY DEF KernelNext, Vars, WatchVars, Watch!vars

LEMMA ObserverStays == ObserverInv /\ [Watch!Next]_(Watch!vars) => ObserverInv'
<1> SUFFICES ASSUME ObserverInv, [Watch!Next]_(Watch!vars) PROVE ObserverInv'
  OBVIOUS
<1>1. CASE Watch!Next
  BY <1>1, ObserverStep
<1>2. CASE UNCHANGED Watch!vars
  BY <1>2 DEF Watch!vars, ObserverInv, ObserverFields, OneAtWork, Scanned, LookedAt,
              Watch!TypeOK, Watch!Matches, Watch!Script
<1> QED BY <1>1, <1>2

\* module1/task3: what an observer that works alone has looked at, in every reachable state.
THEOREM ObserverInductive == KernelSpec => []ObserverInv
<1>1. KernelInit => ObserverInv
  BY ObserverInit DEF KernelInit
<1>2. ObserverInv /\ [KernelNext]_Vars => ObserverInv'
  BY WatchPart, ObserverStays
<1> QED BY <1>1, <1>2, PTL DEF KernelSpec

\* At the end of its list an observer alone has looked at all that runs.
LEMMA LaunchDecides ==
    ASSUME ObserverInv, NEW o \in Observers, ~overlapped', Watch!Launch(o)
    PROVE  \A p \in Watch!Running : ~Watch!Matches(Watch!Script(o), p)
<1>1. doing[o] = "scan" /\ list[o] = {} /\ ~overlapped
  BY DEF Watch!Launch
<1>2. LookedAt(o, {})
  BY <1>1 DEF ObserverInv, Scanned
<1> QED BY <1>2 DEF LookedAt, Watch!Running

\* What an observer alone finds its script in is a script: no other grep runs, and a
\* process that has ended contains nothing.
LEMMA GrepDecides ==
    ASSUME ObserverInv, NEW o \in Observers, ~overlapped', Watch!Grep(o), doing'[o] = "line"
    PROVE  proc[look[o]][1] = "script"
<1>1. doing[o] = "grep" /\ at[o] > 0 /\ ~overlapped
  BY DEF Watch!Grep, ObserverInv, ObserverFields
<1>2. look[o] \in Pids /\ look[o] # grep[o] /\ proc[look[o]] \in Procs
  BY <1>1 DEF ObserverInv, Scanned, Watch!TypeOK, Procs, Lines
<1>3. proc[look[o]][2] \in Contains[Watch!Script(o)]
  <2>1. CASE Watch!Matches(Watch!Script(o), look[o])
    BY <2>1 DEF Watch!Matches
  <2>2. CASE ~Watch!Matches(Watch!Script(o), look[o])
    <3>1. doing' = [doing EXCEPT ![o] = "scan"]
      BY <2>2 DEF Watch!Grep, Watch!Goto
    <3>2. doing'[o] = "scan"
      BY <3>1 DEF ObserverInv, Watch!TypeOK
    <3> QED BY <3>2
  <2> QED BY <2>1, <2>2
<1>4. "none" \notin Contains[Watch!Script(o)]
  BY <1>1, Alone, ObserverConstants DEF Watch!Script
<1>5. proc[look[o]] # Watch!Free
  BY <1>3, <1>4 DEF Watch!Free
<1>6. proc[look[o]][1] # "grep"
  <2>1. ASSUME proc[look[o]][1] = "grep" PROVE FALSE
    <3>1. PICK w \in Observers : doing[w] = "grep" /\ grep[w] = look[o]
      BY <1>1, <1>2, <2>1 DEF ObserverInv, OneAtWork
    <3>2. w = o
      BY <1>1, <3>1, OthersRest
    <3> QED BY <1>2, <3>1, <3>2
  <2> QED BY <2>1
<1> QED BY <1>2, <1>5, <1>6 DEF Procs

\* module1/task3: as long as no two observers have overlapped, none starts a script that
\* runs or whose name is in that of one that runs, though scripts end while it looks; and
\* none leaves a script alone because of anything but a script.
THEOREM DecidesHold == KernelSpec => DecidesRight
<1> DEFINE A == \A o \in Observers :
                   ~overlapped' =>
                      /\ Watch!Launch(o) =>
                            \A p \in Watch!Running : ~Watch!Matches(Watch!Script(o), p)
                      /\ Watch!Grep(o) /\ doing'[o] = "line" => proc[look[o]][1] = "script"
<1>1. ObserverInv => [A]_(Watch!vars)
  BY LaunchDecides, GrepDecides
<1>2. KernelSpec => [][A]_(Watch!vars)
  BY <1>1, ObserverInductive, PTL DEF KernelSpec
<1> QED BY <1>2 DEF DecidesRight, Watch!DecidesRight

-----------------------------------------------------------------------------
(* The address filter: its list as a sequence of nodes. *)

\* The nodes s[1] to s[m], each once and each with its link to the next, are the list that
\* begins at first.
Linked(m, s, first, link) ==
    /\ m \in Nat /\ s \in [1 .. m -> Nodes]
    /\ \A j, k \in 1 .. m : s[j] = s[k] => j = k
    /\ first = (IF m = 0 THEN null ELSE s[1])
    /\ \A k \in 1 .. m : link[s[k]] = (IF k = m THEN null ELSE s[k + 1])

\* A set of naturals has a least one.
LEMMA LeastNat ==
    ASSUME NEW T, T \subseteq Nat, T # {}
    PROVE  \E x \in T : \A y \in T : x <= y
<1> DEFINE R == {p \in Nat \X Nat : p[1] < p[2]}
<1>1. IsWellFoundedOn(R, Nat)
  BY NatLessThanWellFounded DEF OpToRel
<1>2. PICK x \in T : \A y \in T : ~ (<<y, x>> \in R)
  <2> HIDE DEF R
  <2> QED BY <1>1, WFMin
<1>3. ASSUME NEW y \in T PROVE x <= y
  <2>1. x \in Nat /\ y \in Nat
    OBVIOUS
  <2>2. y < x => <<y, x>> \in R
    BY <2>1
  <2> QED BY <1>2, <2>1, <2>2
<1> QED BY <1>3

\* What holds of 0, and of n + 1 when it holds of n, holds of the numbers up to m.
LEMMA UpTo ==
    ASSUME NEW m \in Nat, NEW T, 0 \in T, \A n \in 0 .. m : n \in T /\ n < m => n + 1 \in T
    PROVE  \A n \in 0 .. m : n \in T
<1> DEFINE F == {n \in 0 .. m : n \notin T}
<1>1. SUFFICES ASSUME F # {} PROVE FALSE
  OBVIOUS
<1>2. F \subseteq Nat
  OBVIOUS
<1> HIDE DEF F
<1>3. PICK n \in F : \A y \in F : n <= y
  BY <1>1, <1>2, LeastNat
<1> USE DEF F
<1>4. n \in 0 .. m /\ n # 0
  OBVIOUS
<1>5. n - 1 \in 0 .. m /\ n - 1 < m /\ n - 1 + 1 = n
  BY <1>4
<1>6. n - 1 \notin F
  BY <1>3, <1>4
<1> QED BY <1>5, <1>6

\* An instance has its names for the operators of the modules it extends.
LEMMA CardinalityIs == \A x : Block!Cardinality(x) = Cardinality(x)
BY DEF Block!Cardinality, Cardinality, Block!IsFiniteSet, IsFiniteSet

LEMMA BlockConstants ==
    /\ IsFiniteSet(Nodes) /\ null \notin Nodes /\ null \notin Addresses
    /\ Cardinality(Nodes) \in Nat
<1>1. Block!IsFiniteSet(Nodes) /\ null \notin Nodes /\ null \notin Addresses
  BY InstanceAssumption DEF Block!ConstantAssumption
<1>2. IsFiniteSet(Nodes)
  BY <1>1 DEF Block!IsFiniteSet, IsFiniteSet
<1> QED BY <1>1, <1>2, FS_CardinalityType

LEMMA LinkedFits ==
    ASSUME NEW m, NEW s, NEW first, NEW link, Linked(m, s, first, link)
    PROVE  m \in Nat /\ m <= Cardinality(Nodes)
<1>1. IsFiniteSet(1 .. m) /\ Cardinality(1 .. m) = m
  BY FS_Interval DEF Linked
<1>2. s \in Injection(1 .. m, Nodes)
  BY DEF Linked, Injection, IsInjective
<1>3. Cardinality(1 .. m) <= Cardinality(Nodes)
  BY <1>1, <1>2, FS_Injection, BlockConstants
<1> QED BY <1>1, <1>3 DEF Linked

\* A place of the list, as Chain counts them.
Place(n, f, first, link) ==
    [k \in 0 .. n |-> IF k = 0 THEN first ELSE IF f[k - 1] = null THEN null ELSE link[f[k - 1]]]

LEMMA PlacesAre ==
    ASSUME NEW m, NEW s, NEW first, NEW link, Linked(m, s, first, link), NEW n \in Nat,
           NEW f, f = Place(n, f, first, link)
    PROVE  \A k \in 0 .. n : f[k] = IF k < m THEN s[k + 1] ELSE null
<1> DEFINE T == {k \in 0 .. n : f[k] = IF k < m THEN s[k + 1] ELSE null}
<1>1. \A k \in 0 .. n : f[k] = IF k = 0 THEN first ELSE IF f[k - 1] = null THEN null ELSE link[f[k - 1]]
  BY DEF Place
<1>2. 0 \in T
  BY <1>1 DEF Linked
<1>3. ASSUME NEW k \in 0 .. n, k \in T, k < n PROVE k + 1 \in T
  <2>1. k + 1 \in 0 .. n /\ k + 1 # 0 /\ (k + 1) - 1 = k
    BY <1>3
  <2>2. f[k + 1] = IF f[k] = null THEN null ELSE link[f[k]]
    BY <1>1, <2>1
  <2>3. CASE k < m
    <3>1. f[k] = s[k + 1] /\ k + 1 \in 1 .. m /\ s[k + 1] \in Nodes
      BY <1>3, <2>3 DEF Linked
    <3>2. f[k + 1] = link[s[k + 1]]
      BY <2>2, <3>1, BlockConstants
    <3>3. link[s[k + 1]] = IF k + 1 = m THEN null ELSE s[(k + 1) + 1]
      BY <3>1 DEF Linked
    <3>4. k + 1 < m <=> k + 1 # m
      BY <2>3 DEF Linked
    <3> QED BY <2>1, <3>2, <3>3, <3>4
  <2>4. CASE ~(k < m)
    <3>1. f[k] = null
      BY <1>3, <2>4
    <3>2. m \in Nat /\ ~(k + 1 < m)
      BY <2>4 DEF Linked
    <3> QED BY <2>1, <2>2, <3>1, <3>2
  <2> QED BY <2>3, <2>4
<1> HIDE DEF T
<1>4. \A k \in 0 .. n : k \in T
  BY <1>2, <1>3, UpTo
<1> QED BY <1>4 DEF T

LEMMA PlacesExist ==
    ASSUME NEW m, NEW s, NEW first, NEW link, Linked(m, s, first, link), NEW n \in Nat
    PROVE  \E f : f = Place(n, f, first, link)
<1> DEFINE g == [k \in 0 .. n |-> IF k < m THEN s[k + 1] ELSE null]
<1>1. ASSUME NEW k \in 0 .. n
      PROVE  g[k] = IF k = 0 THEN first ELSE IF g[k - 1] = null THEN null ELSE link[g[k - 1]]
  <2>1. CASE k = 0
    BY <2>1 DEF Linked
  <2>2. CASE k # 0
    <3>1. k - 1 \in 0 .. n /\ (k - 1) + 1 = k
      BY <2>2
    <3>2. CASE k - 1 < m
      <4>1. k \in 1 .. m /\ s[k] \in Nodes
        BY <2>2, <3>2 DEF Linked
      <4>2. g[k - 1] = s[k] /\ g[k - 1] # null
        BY <3>1, <3>2, <4>1, BlockConstants
      <4>3. link[s[k]] = IF k = m THEN null ELSE s[k + 1]
        BY <4>1 DEF Linked
      <4>4. k < m <=> k # m
        BY <4>1 DEF Linked
      <4>5. g[k] = IF k < m THEN s[k + 1] ELSE null
        OBVIOUS
      <4> HIDE DEF g
      <4> QED BY <2>2, <4>2, <4>3, <4>4, <4>5
    <3>3. CASE ~(k - 1 < m)
      <4>1. ~(k < m)
        BY <2>2, <3>3 DEF Linked
      <4>2. g[k] = null /\ g[k - 1] = null
        BY <3>1, <3>3, <4>1
      <4> HIDE DEF g
      <4> QED BY <2>2, <4>2
    <3> QED BY <3>2, <3>3
  <2> QED BY <2>1, <2>2
<1>2. g = [k \in 0 .. n |-> g[k]]
  OBVIOUS
<1> HIDE DEF g
<1>3. g = Place(n, g, first, link)
  BY <1>1, <1>2 DEF Place
<1> QED BY <1>3

\* The list is what Chain makes of it.
LEMMA ChainIs ==
    ASSUME NEW m, NEW s, NEW first, NEW link, Linked(m, s, first, link)
    PROVE  Block!Chain(first, link) = s
<1> DEFINE n == Block!Cardinality(Nodes)
           f == CHOOSE g : g = Place(n, g, first, link)
           K == {j \in 0 .. n : f[j] # null}
<1>1. n \in Nat /\ m \in Nat /\ m <= n
  BY LinkedFits, BlockConstants, CardinalityIs
<1>2. Block!Chain(first, link) = [k \in 1 .. Block!Cardinality(K) |-> f[k - 1]]
  BY DEF Block!Chain, Place
<1>3. f = Place(n, f, first, link)
  BY <1>1, PlacesExist
<1> HIDE DEF f
<1>4. \A k \in 0 .. n : f[k] = IF k < m THEN s[k + 1] ELSE null
  BY <1>1, <1>3, PlacesAre
<1>5. \A k \in 1 .. m : s[k] # null
  BY BlockConstants DEF Linked
<1>6. K = 0 .. m - 1
  BY <1>1, <1>4, <1>5
<1>7. Cardinality(K) = m
  <2>1. 0 \in Int /\ m - 1 \in Int /\ Cardinality(0 .. m - 1) = IF 0 > m - 1 THEN 0 ELSE m - 1 - 0 + 1
    BY <1>1, FS_Interval
  <2>2. Cardinality(0 .. m - 1) = m
    BY <1>1, <2>1
  <2> QED BY <1>6, <2>2
<1>8. \A k \in 1 .. m : f[k - 1] = s[k]
  BY <1>1, <1>4
<1>9. s = [k \in 1 .. m |-> s[k]]
  BY DEF Linked
<1> QED BY <1>2, <1>7, <1>8, <1>9, CardinalityIs

-----------------------------------------------------------------------------
(* The address filter: its inductive invariant.  One writer is at work. *)

In(m, s) == {s[k] : k \in 1 .. m}

\* Each address of the list is there once.
Listing(m, s) ==
    /\ Linked(m, s, blocklist, next)
    /\ \A k \in 1 .. m : ip4[s[k]] \in Addresses
    /\ \A j, k \in 1 .. m : ip4[s[j]] = ip4[s[k]] => j = k

\* The i-th node, or none, is what is looked at next; the address is not before it.
LookedFor(m, s, i) ==
    /\ i \in 1 .. m + 1
    /\ head["writer"] = (IF i = m + 1 THEN null ELSE s[i])
    /\ \A k \in 1 .. m : k < i => ip4[s[k]] # addr["writer"]

\* Adding: a node that is not in the list yet, and nowhere else.
Adding(m, s) ==
    /\ addr["writer"] \in Addresses /\ new["writer"] \in Nodes \ In(m, s)
    /\ live = In(m, s) \cup {new["writer"]}
    /\ ip4[new["writer"]] = addr["writer"] /\ next[new["writer"]] = null
    /\ CASE step["writer"] = "search" -> \E i \in 1 .. m + 1 : LookedFor(m, s, i)
         [] step["writer"] # "search" ->
               /\ \A k \in 1 .. m : ip4[s[k]] # addr["writer"]
               /\ step["writer"] = "first" => m = 0
               /\ step["writer"] = "tail" => head["writer"] \in In(m, s)
               /\ step["writer"] = "append" => m > 0 /\ head["writer"] = s[m]

\* Removing: first the node before is kept, then the node is out of the list.
Removing(m, s) ==
    /\ step["writer"] = "find" =>
          /\ live = In(m, s)
          /\ \E i \in 1 .. m + 1 :
                LookedFor(m, s, i) /\ prev["writer"] = (IF i = 1 THEN null ELSE s[i - 1])
    /\ step["writer"] = "free" =>
          head["writer"] \in Nodes \ In(m, s) /\ live = In(m, s) \cup {head["writer"]}

WriterInv(m, s) ==
    /\ step["writer"] = "idle" => live = In(m, s)
    /\ step["writer"] \in {"search", "first", "tail", "append"} => Adding(m, s)
    /\ Removing(m, s)

\* A packet that is meant to be dropped stands at or before the node of its address, or
\* at the node that was taken out there.
Before(m, s, p) ==
    \E j, k \in 1 .. m :
        /\ j <= k /\ ip4[s[k]] = packet[p].daddr
        /\ \/ packet[p].node = s[j]
           \/ step["writer"] = "free" /\ packet[p].node = head["writer"] /\ next[head["writer"]] = s[j]

PacketInv(m, s) ==
    \A p \in meant :
        /\ packet[p].at # "none"
        /\ packet[p].way = "through" => packet[p].at \in {"hook", "dropped"}
        /\ packet[p].at = "hook" => Before(m, s, p)

BlockInv ==
    /\ Block!TypeOK
    /\ \E m \in 0 .. Cardinality(Nodes) : \E s \in [1 .. m -> Nodes] :
          Listing(m, s) /\ WriterInv(m, s) /\ PacketInv(m, s)

Fits(m, s) == Listing(m, s) /\ WriterInv(m, s) /\ PacketInv(m, s)

\* The addresses of the list.
LEMMA ListedIs ==
    ASSUME NEW m, NEW s, NEW first, NEW link, NEW ip, Linked(m, s, first, link)
    PROVE  \A a : a \in Block!ListedIn(first, link, ip) <=> \E k \in 1 .. m : a = ip[s[k]]
<1>1. Block!Chain(first, link) = s
  BY ChainIs
<1>2. DOMAIN s = 1 .. m
  BY DEF Linked
<1>3. Block!Range(s) = {s[k] : k \in 1 .. m}
  BY <1>2 DEF Block!Range
<1> QED BY <1>1, <1>3 DEF Block!ListedIn

LEMMA ListNodes ==
    ASSUME NEW m, NEW s, Listing(m, s)
    PROVE  /\ m \in Nat /\ s \in [1 .. m -> Nodes]
           /\ \A k \in 1 .. m : s[k] \in Nodes /\ s[k] # null /\ s[k] \in In(m, s)
           /\ \A n \in In(m, s) : n \in Nodes /\ \E k \in 1 .. m : n = s[k]
BY BlockConstants DEF Listing, Linked, In

\* What lies in allocated memory is read as it is.
LEMMA Reads ==
    ASSUME NEW n \in live
    PROVE  Block!ip4Of(n) = {ip4[n]} /\ Block!nextOf(n) = {next[n]}
           /\ \A a : Block!Differs(n, a) <=> ip4[n] # a
BY DEF Block!ip4Of, Block!nextOf, Block!Differs

LEMMA ListingStays ==
    ASSUME NEW m, NEW s, Listing(m, s), UNCHANGED <<blocklist, ip4, next>>
    PROVE  Listing(m, s)'
BY DEF Listing, Linked

LEMMA PacketsStay ==
    ASSUME NEW m, NEW s, PacketInv(m, s), step["writer"] # "free",
           UNCHANGED packet, \A k \in 1 .. m : ip4'[s[k]] = ip4[s[k]], meant' \subseteq meant
    PROVE  PacketInv(m, s)'
BY DEF PacketInv, Before

\* The step of a writer that leaves the list alone.
LEMMA WriterOnly ==
    ASSUME NEW m, NEW s, Fits(m, s), step["writer"] # "free",
           UNCHANGED Block!listVars, UNCHANGED <<packet, meant>>
    PROVE  Listing(m, s)' /\ PacketInv(m, s)'
BY ListingStays, PacketsStay DEF Fits, Block!listVars

-----------------------------------------------------------------------------
(* add_entry_store *)

LEMMA AddStarts ==
    ASSUME NEW m, NEW s, Fits(m, s), Block!TypeOK, NEW a \in Addresses, Block!AddStart("writer", a)
    PROVE  Fits(m, s)' /\ \A k \in 1 .. m : ip4'[s[k]] = ip4[s[k]]
<1> USE DEF Block!AddStart, Block!Goto
<1>1. PICK n \in Nodes \ live :
          /\ live' = live \cup {n} /\ new' = [new EXCEPT !["writer"] = n]
          /\ next' = [next EXCEPT ![n] = null] /\ ip4' = [ip4 EXCEPT ![n] = a]
  OBVIOUS
<1>2. live = In(m, s)
  BY DEF Fits, WriterInv
<1>3. \A k \in 1 .. m : s[k] # n /\ ip4'[s[k]] = ip4[s[k]] /\ next'[s[k]] = next[s[k]]
  BY <1>1, <1>2, ListNodes DEF Fits, Block!TypeOK
<1>4. Listing(m, s)'
  BY <1>3 DEF Fits, Listing, Linked
<1>5. PacketInv(m, s)'
  <2>1. meant' \subseteq meant
    BY DEF Block!Claims
  <2> QED BY <1>3, <2>1, PacketsStay DEF Fits
<1>6. /\ step'["writer"] = "search" /\ addr'["writer"] = a /\ head'["writer"] = blocklist
      /\ new'["writer"] = n /\ ip4'[n] = a /\ next'[n] = null
  BY <1>1 DEF Block!TypeOK
<1>7. LookedFor(m, s, 1)'
  BY <1>6, ListNodes DEF LookedFor, Fits, Listing, Linked
<1>8. Adding(m, s)'
  <2>1. 1 \in 1 .. m + 1
    BY ListNodes DEF Fits
  <2> QED BY <1>1, <1>2, <1>6, <1>7, <2>1 DEF Adding, In
<1>9. WriterInv(m, s)'
  BY <1>6, <1>8 DEF WriterInv, Removing
<1> QED BY <1>3, <1>4, <1>5, <1>9 DEF Fits

LEMMA Duplicates ==
    ASSUME NEW m, NEW s, Fits(m, s), Block!TypeOK, Block!Duplicate("writer")
    PROVE  Fits(m, s)'
<1> USE DEF Block!Duplicate, Block!Goto
<1>1. Listing(m, s)' /\ PacketInv(m, s)'
  BY ListingStays, PacketsStay DEF Fits
<1>2. step'["writer"] = "idle"
  BY DEF Block!TypeOK
<1>3. live' = In(m, s)
  BY DEF Fits, WriterInv, Adding
<1>4. WriterInv(m, s)'
  BY <1>2, <1>3 DEF WriterInv, Removing, In
<1> QED BY <1>1, <1>4 DEF Fits

\* At the node looked at: it is in the list and allocated, and its link is known.
LEMMA AtNode ==
    ASSUME NEW m, NEW s, Listing(m, s), In(m, s) \subseteq live, NEW i, LookedFor(m, s, i),
           head["writer"] # null
    PROVE  /\ i \in 1 .. m /\ head["writer"] = s[i] /\ s[i] \in live /\ s[i] \in Nodes
           /\ next[s[i]] = IF i + 1 = m + 1 THEN null ELSE s[i + 1]
<1>1. i \in 1 .. m /\ head["writer"] = s[i]
  BY ListNodes DEF LookedFor
<1>2. next[s[i]] = IF i = m THEN null ELSE s[i + 1]
  BY <1>1 DEF Listing, Linked
<1>3. i + 1 = m + 1 <=> i = m
  BY <1>1, ListNodes
<1> QED BY <1>1, <1>2, <1>3, ListNodes

LEMMA GoesOn ==
    ASSUME NEW m, NEW s, Listing(m, s), In(m, s) \subseteq live, NEW i, LookedFor(m, s, i),
           head["writer"] # null, Block!Differs(head["writer"], addr["writer"]),
           Block!Forward("writer"), Block!TypeOK, UNCHANGED <<ip4, addr>>
    PROVE  LookedFor(m, s, i + 1)'
<1>1. /\ i \in 1 .. m /\ head["writer"] = s[i] /\ s[i] \in live
      /\ next[s[i]] = IF i + 1 = m + 1 THEN null ELSE s[i + 1]
  BY AtNode
<1>2. ip4[s[i]] # addr["writer"] /\ head'["writer"] = next[s[i]]
  BY <1>1, Reads DEF Block!Forward, Block!TypeOK
<1>3. i + 1 \in 1 .. m + 1 /\ \A k \in 1 .. m : k < i + 1 => k < i \/ k = i
  BY <1>1, ListNodes
<1> QED BY <1>1, <1>2, <1>3 DEF LookedFor

LEMMA SearchesOn ==
    ASSUME NEW m, NEW s, Fits(m, s), Block!TypeOK, Block!SearchOn("writer")
    PROVE  Fits(m, s)'
<1> USE DEF Block!SearchOn
<1>1. Listing(m, s)' /\ PacketInv(m, s)'
  BY WriterOnly
<1>2. PICK i \in 1 .. m + 1 : LookedFor(m, s, i)
  BY DEF Fits, WriterInv, Adding
<1>3. In(m, s) \subseteq live
  BY DEF Fits, WriterInv, Adding
<1>4. LookedFor(m, s, i + 1)' /\ i + 1 \in 1 .. m + 1
  BY <1>2, <1>3, GoesOn DEF Fits, Block!listVars, LookedFor
<1>5. Adding(m, s)'
  BY <1>4 DEF Fits, WriterInv, Adding, Block!listVars, In
<1>6. WriterInv(m, s)'
  BY <1>5 DEF WriterInv, Removing
<1> QED BY <1>1, <1>6 DEF Fits

\* At the end of the list the address was nowhere in it.
LEMMA AtEnd ==
    ASSUME NEW m, NEW s, Listing(m, s), NEW i, LookedFor(m, s, i), head["writer"] = null
    PROVE  \A k \in 1 .. m : ip4[s[k]] # addr["writer"]
<1>1. m \in Nat /\ \A k \in 1 .. m : s[k] # null
  BY ListNodes
<1>2. i = m + 1
  BY <1>1 DEF LookedFor
<1> QED BY <1>1, <1>2 DEF LookedFor

LEMMA SearchEnds ==
    ASSUME NEW m, NEW s, Fits(m, s), Block!TypeOK, Block!Searched("writer")
    PROVE  Fits(m, s)'
<1> USE DEF Block!Searched, Block!Goto, Block!Where
<1>1. Listing(m, s)' /\ PacketInv(m, s)'
  BY WriterOnly
<1>2. \A k \in 1 .. m : ip4[s[k]] # addr["writer"]
  BY AtEnd DEF Fits, WriterInv, Adding
<1>3. blocklist = IF m = 0 THEN null ELSE s[1]
  BY DEF Fits, Listing, Linked
<1>4. head'["writer"] = blocklist
  BY DEF Block!TypeOK
<1>5. CASE blocklist = null
  <2>1. step'["writer"] = "first"
    BY <1>5 DEF Block!TypeOK
  <2>2. m = 0
    BY <1>3, <1>5, ListNodes DEF Fits
  <2>3. Adding(m, s)'
    BY <1>2, <2>1, <2>2 DEF Fits, WriterInv, Adding, Block!listVars, In
  <2>4. WriterInv(m, s)'
    BY <2>1, <2>3 DEF WriterInv, Removing
  <2> QED BY <1>1, <2>4 DEF Fits
<1>6. CASE blocklist # null
  <2>1. step'["writer"] = "tail"
    BY <1>6 DEF Block!TypeOK
  <2>2. blocklist \in In(m, s)
    BY <1>3, <1>6, ListNodes DEF Fits
  <2>3. Adding(m, s)'
    BY <1>2, <1>4, <2>1, <2>2 DEF Fits, WriterInv, Adding, Block!listVars, In
  <2>4. WriterInv(m, s)'
    BY <2>1, <2>3 DEF WriterInv, Removing
  <2> QED BY <1>1, <2>4 DEF Fits
<1> QED BY <1>5, <1>6

LEMMA Firsts ==
    ASSUME NEW m, NEW s, Fits(m, s), Block!TypeOK, Block!First("writer")
    PROVE  m = 0 /\ \E t \in [1 .. 1 -> Nodes] : Fits(1, t)'
<1> USE DEF Block!First, Block!Goto
<1>1. /\ m = 0 /\ new["writer"] \in Nodes /\ ip4[new["writer"]] \in Addresses
      /\ next[new["writer"]] = null /\ live = In(m, s) \cup {new["writer"]}
  BY DEF Fits, WriterInv, Adding
<1>2. PICK t \in [1 .. 1 -> Nodes] : t[1] = new["writer"]
  <2> DEFINE u == [k \in 1 .. 1 |-> new["writer"]]
  <2>1. u \in [1 .. 1 -> Nodes] /\ u[1] = new["writer"]
    BY <1>1
  <2> HIDE DEF u
  <2> QED BY <2>1
<1>3. Listing(1, t)'
  BY <1>1, <1>2 DEF Listing, Linked
<1>4. In(m, s) = {} /\ In(1, t) = {new["writer"]}
  BY <1>1, <1>2 DEF In
<1>5. WriterInv(1, t)'
  <2>1. step'["writer"] = "idle"
    BY DEF Block!TypeOK
  <2>2. live' = In(1, t)
    BY <1>1, <1>4
  <2> QED BY <2>1, <2>2 DEF WriterInv, Removing, In
<1>6. PacketInv(1, t)'
  <2>1. \A p \in meant : packet[p].at # "hook"
    BY <1>1 DEF Fits, PacketInv, Before
  <2>2. meant' \subseteq meant
    BY DEF Block!Claims
  <2> QED BY <2>1, <2>2 DEF Fits, PacketInv
<1> QED BY <1>1, <1>2, <1>3, <1>5, <1>6 DEF Fits

LEMMA ToTails ==
    ASSUME NEW m, NEW s, Fits(m, s), Block!TypeOK, Block!ToTail("writer")
    PROVE  Fits(m, s)'
<1> USE DEF Block!ToTail, Block!Goto
<1>1. Listing(m, s)' /\ PacketInv(m, s)'
  BY WriterOnly
<1>2. /\ Adding(m, s) /\ head["writer"] \in In(m, s) /\ In(m, s) \subseteq live
      /\ \A k \in 1 .. m : ip4[s[k]] # addr["writer"]
  BY DEF Fits, WriterInv, Adding
<1>3. PICK j \in 1 .. m : head["writer"] = s[j]
  BY <1>2 DEF In
<1>4. s[j] \in live /\ next[s[j]] = IF j = m THEN null ELSE s[j + 1]
  BY <1>2, <1>3 DEF Fits, Listing, Linked
<1>5. Block!nextOf(head["writer"]) = {next[s[j]]}
  BY <1>3, <1>4, Reads
<1>6. m \in Nat /\ \A k \in 1 .. m : s[k] # null /\ s[k] \in In(m, s)
  BY ListNodes DEF Fits
<1>7. CASE j = m
  <2>1. step'["writer"] = "append" /\ head'["writer"] = s[m] /\ m > 0
    BY <1>3, <1>4, <1>5, <1>6, <1>7 DEF Block!TypeOK
  <2>2. Adding(m, s)'
    BY <1>2, <2>1 DEF Adding, Block!listVars, In
  <2> QED BY <1>1, <2>1, <2>2 DEF Fits, WriterInv, Removing
<1>8. CASE j # m
  <2>1. j + 1 \in 1 .. m
    BY <1>6, <1>8
  <2>2. next[s[j]] = s[j + 1] /\ s[j + 1] # null
    BY <1>4, <1>6, <1>8, <2>1
  <2>3. step'["writer"] = "tail" /\ head'["writer"] = s[j + 1]
    BY <1>5, <2>2 DEF Block!TypeOK, Block!Forward
  <2>4. head'["writer"] \in In(m, s)
    BY <1>6, <2>1, <2>3
  <2>5. Adding(m, s)'
    BY <1>2, <2>3, <2>4 DEF Adding, Block!listVars, In
  <2> QED BY <1>1, <2>3, <2>5 DEF Fits, WriterInv, Removing
<1> QED BY <1>7, <1>8

\* A longer sequence.
LEMMA Longer ==
    ASSUME NEW m \in Nat, NEW s \in [1 .. m -> Nodes], NEW n \in Nodes
    PROVE  \E t \in [1 .. m + 1 -> Nodes] : t[m + 1] = n /\ \A k \in 1 .. m : t[k] = s[k]
<1> DEFINE u == [k \in 1 .. m + 1 |-> IF k = m + 1 THEN n ELSE s[k]]
<1>1. ASSUME NEW k \in 1 .. m + 1 PROVE (IF k = m + 1 THEN n ELSE s[k]) \in Nodes
  <2>1. k # m + 1 => k \in 1 .. m
    OBVIOUS
  <2> QED BY <2>1
<1>2. u \in [1 .. m + 1 -> Nodes]
  BY <1>1
<1>3. m + 1 \in 1 .. m + 1 /\ \A k \in 1 .. m : k \in 1 .. m + 1 /\ k # m + 1
  OBVIOUS
<1>4. u[m + 1] = n /\ \A k \in 1 .. m : u[k] = s[k]
  BY <1>3
<1> HIDE DEF u
<1> QED BY <1>2, <1>4

LEMMA Links ==
    ASSUME NEW m, NEW s, Fits(m, s), Block!TypeOK, Block!Link("writer")
    PROVE  \E t \in [1 .. m + 1 -> Nodes] :
              Fits(m + 1, t)' /\ \A k \in 1 .. m : t[k] = s[k] /\ k \in 1 .. m + 1
<1> USE DEF Block!Link, Block!Goto
<1>1. /\ new["writer"] \in Nodes \ In(m, s) /\ ip4[new["writer"]] \in Addresses
      /\ next[new["writer"]] = null /\ live = In(m, s) \cup {new["writer"]}
      /\ m > 0 /\ head["writer"] = s[m]
      /\ \A k \in 1 .. m : ip4[s[k]] # ip4[new["writer"]]
  BY DEF Fits, WriterInv, Adding
<1>2. /\ m \in Nat /\ s \in [1 .. m -> Nodes] /\ m \in 1 .. m
      /\ \A k \in 1 .. m : s[k] \in Nodes /\ s[k] \in In(m, s) /\ s[k] # new["writer"]
  BY <1>1, ListNodes DEF Fits
<1>3. PICK t \in [1 .. m + 1 -> Nodes] : t[m + 1] = new["writer"] /\ \A k \in 1 .. m : t[k] = s[k]
  BY <1>1, <1>2, Longer
<1>4. \A k \in 1 .. m + 1 : k \in 1 .. m \/ k = m + 1
  BY <1>2
<1>5. /\ next'[new["writer"]] = null /\ next'[s[m]] = new["writer"]
      /\ \A k \in 1 .. m : k # m => next'[s[k]] = s[k + 1]
  <2>1. \A k \in 1 .. m : k # m => s[k] # s[m] /\ next[s[k]] = s[k + 1]
    BY <1>2 DEF Fits, Listing, Linked
  <2> QED BY <1>1, <1>2, <2>1 DEF Block!TypeOK
<1>6. Listing(m + 1, t)'
  <2>1. Linked(m + 1, t, blocklist', next')
    <3>1. \A j, k \in 1 .. m + 1 : t[j] = t[k] => j = k
      <4>1. \A j, k \in 1 .. m : s[j] = s[k] => j = k
        BY DEF Fits, Listing, Linked
      <4> QED BY <1>2, <1>3, <1>4, <4>1
    <3>2. blocklist' = t[1] /\ m + 1 # 0 /\ m + 1 \in Nat
      BY <1>1, <1>2, <1>3 DEF Fits, Listing, Linked
    <3>3. ASSUME NEW k \in 1 .. m + 1
          PROVE  next'[t[k]] = IF k = m + 1 THEN null ELSE t[k + 1]
      <4>1. CASE k = m + 1
        BY <1>3, <1>5, <4>1
      <4>2. CASE k = m
        BY <1>2, <1>3, <1>5, <4>2
      <4>3. CASE k \in 1 .. m /\ k # m
        <5>1. k + 1 \in 1 .. m /\ k # m + 1
          BY <1>2, <4>3
        <5> QED BY <1>3, <1>5, <4>3, <5>1
      <4> QED BY <1>4, <4>1, <4>2, <4>3
    <3> QED BY <3>1, <3>2, <3>3 DEF Linked
  <2>2. \A k \in 1 .. m + 1 : ip4[t[k]] \in Addresses
    BY <1>1, <1>3, <1>4 DEF Fits, Listing
  <2>3. \A j, k \in 1 .. m + 1 : ip4[t[j]] = ip4[t[k]] => j = k
    <3>1. \A j, k \in 1 .. m : ip4[s[j]] = ip4[s[k]] => j = k
      BY DEF Fits, Listing
    <3> QED BY <1>1, <1>3, <1>4, <3>1
  <2> QED BY <2>1, <2>2, <2>3 DEF Listing
<1>7. WriterInv(m + 1, t)'
  <2>1. step'["writer"] = "idle"
    BY DEF Block!TypeOK
  <2>2. In(m + 1, t) = In(m, s) \cup {new["writer"]}
    <3>1. \A k \in 1 .. m : k \in 1 .. m + 1
      BY <1>2
    <3>2. m + 1 \in 1 .. m + 1
      BY <1>2
    <3> QED BY <1>3, <1>4, <3>1, <3>2 DEF In
  <2>3. live' = In(m + 1, t)
    BY <1>1, <2>2
  <2> QED BY <2>1, <2>3 DEF WriterInv, Removing, In
<1>8. PacketInv(m + 1, t)'
  <2>1. meant' \subseteq meant /\ \A k \in 1 .. m : k \in 1 .. m + 1
    BY <1>2 DEF Block!Claims
  <2>2. ASSUME NEW p \in meant', packet[p].at = "hook" PROVE Before(m + 1, t, p)'
    <3>1. PICK j, k \in 1 .. m : j <= k /\ ip4[s[k]] = packet[p].daddr /\ packet[p].node = s[j]
      BY <2>1, <2>2 DEF Fits, PacketInv, Before
    <3> QED BY <1>3, <2>1, <3>1 DEF Before
  <2> QED BY <2>1, <2>2 DEF Fits, PacketInv
<1>9. \A k \in 1 .. m : k \in 1 .. m + 1
  BY <1>2
<1> QED BY <1>3, <1>6, <1>7, <1>8, <1>9 DEF Fits

-----------------------------------------------------------------------------
(* remove_entry_store *)

LEMMA RemoveStarts ==
    ASSUME NEW m, NEW s, Fits(m, s), Block!TypeOK, NEW a \in Addresses,
           Block!RemoveStart("writer", a)
    PROVE  Fits(m, s)'
<1> USE DEF Block!RemoveStart, Block!Goto
<1>1. Listing(m, s)' /\ PacketInv(m, s)'
  BY WriterOnly
<1>2. /\ step'["writer"] = "find" /\ addr'["writer"] = a /\ head'["writer"] = blocklist
      /\ prev'["writer"] = null
  BY DEF Block!TypeOK
<1>3. m \in Nat /\ m # 0 /\ blocklist = s[1]
  BY ListNodes DEF Fits, Listing, Linked
<1>4. 1 \in 1 .. m + 1 /\ 1 # m + 1 /\ \A k \in 1 .. m : ~(k < 1)
  BY <1>3
<1>5. LookedFor(m, s, 1)'
  BY <1>2, <1>3, <1>4 DEF LookedFor
<1>6. live' = In(m, s)
  BY DEF Fits, WriterInv, Block!listVars
<1>7. Removing(m, s)'
  BY <1>2, <1>4, <1>5, <1>6 DEF Removing, In
<1>8. WriterInv(m, s)'
  BY <1>2, <1>7 DEF WriterInv
<1> QED BY <1>1, <1>8 DEF Fits

LEMMA FindsOn ==
    ASSUME NEW m, NEW s, Fits(m, s), Block!TypeOK, Block!FindOn("writer")
    PROVE  Fits(m, s)'
<1> USE DEF Block!FindOn
<1>1. Listing(m, s)' /\ PacketInv(m, s)'
  BY WriterOnly
<1>2. PICK i \in 1 .. m + 1 : LookedFor(m, s, i)
  BY DEF Fits, WriterInv, Removing
<1>3. live = In(m, s) /\ In(m, s) \subseteq live
  BY DEF Fits, WriterInv, Removing
<1>4. LookedFor(m, s, i + 1)' /\ i + 1 \in 1 .. m + 1
  <2>1. Listing(m, s) /\ head["writer"] # null /\ UNCHANGED <<ip4, addr>>
    BY DEF Fits, Block!listVars
  <2>2. LookedFor(m, s, i + 1)'
    BY <1>2, <1>3, <2>1, GoesOn
  <2> QED BY <2>2 DEF LookedFor
<1>5. i \in 1 .. m /\ head["writer"] = s[i]
  BY <1>2, <1>3, AtNode DEF Fits
<1>6. i + 1 # 1 /\ (i + 1) - 1 = i /\ prev'["writer"] = s[i] /\ step'["writer"] = "find"
  BY <1>5 DEF Block!TypeOK
<1>7. Removing(m, s)'
  BY <1>3, <1>4, <1>6 DEF Removing, In, Block!listVars
<1>8. WriterInv(m, s)'
  BY <1>6, <1>7 DEF WriterInv
<1> QED BY <1>1, <1>8 DEF Fits

LEMMA NotFound ==
    ASSUME NEW m, NEW s, Fits(m, s), Block!TypeOK, Block!NotInList("writer")
    PROVE  Fits(m, s)'
<1> USE DEF Block!NotInList, Block!Goto
<1>1. Listing(m, s)' /\ PacketInv(m, s)'
  BY WriterOnly
<1>2. step'["writer"] = "idle"
  BY DEF Block!TypeOK
<1>3. live' = In(m, s)
  BY DEF Fits, WriterInv, Removing, Block!listVars
<1> QED BY <1>1, <1>2, <1>3 DEF Fits, WriterInv, Removing, In

\* A sequence without its i-th element.
Without(m, s, i, t) == \A k \in 1 .. m - 1 : t[k] = IF k < i THEN s[k] ELSE s[k + 1]

LEMMA Shorter ==
    ASSUME NEW m \in Nat, NEW s \in [1 .. m -> Nodes], NEW i \in 1 .. m
    PROVE  \E t \in [1 .. m - 1 -> Nodes] : Without(m, s, i, t)
<1> DEFINE u == [k \in 1 .. m - 1 |-> IF k < i THEN s[k] ELSE s[k + 1]]
<1>1. ASSUME NEW k \in 1 .. m - 1 PROVE (IF k < i THEN s[k] ELSE s[k + 1]) \in Nodes
  <2>1. k \in 1 .. m /\ k + 1 \in 1 .. m
    OBVIOUS
  <2> QED BY <2>1
<1>2. u \in [1 .. m - 1 -> Nodes]
  BY <1>1
<1>3. Without(m, s, i, u)
  BY DEF Without
<1> HIDE DEF u
<1> QED BY <1>2, <1>3

\* Where an element stands after that.
Moved(k, i) == IF k < i THEN k ELSE k - 1

HasOthers(m, s, i, t) ==
    /\ \A k \in 1 .. m : k # i => Moved(k, i) \in 1 .. m - 1 /\ t[Moved(k, i)] = s[k]
    /\ \A k \in 1 .. m - 1 : \E j \in 1 .. m : j # i /\ t[k] = s[j] /\ k = Moved(j, i)

LEMMA ShorterHas ==
    ASSUME NEW m \in Nat, NEW s, NEW i \in 1 .. m, NEW t, Without(m, s, i, t)
    PROVE  HasOthers(m, s, i, t)
<1> USE DEF Without
<1>1. ASSUME NEW k \in 1 .. m, k # i PROVE Moved(k, i) \in 1 .. m - 1 /\ t[Moved(k, i)] = s[k]
  <2>1. CASE k < i
    BY <2>1 DEF Moved
  <2>2. CASE ~(k < i)
    <3>1. Moved(k, i) = k - 1 /\ k - 1 \in 1 .. m - 1 /\ ~(k - 1 < i) /\ (k - 1) + 1 = k
      BY <1>1, <2>2 DEF Moved
    <3>2. t[k - 1] = s[(k - 1) + 1]
      BY <3>1
    <3> QED BY <3>1, <3>2
  <2> QED BY <2>1, <2>2
<1>2. ASSUME NEW k \in 1 .. m - 1 PROVE \E j \in 1 .. m : j # i /\ t[k] = s[j] /\ k = Moved(j, i)
  <2>1. CASE k < i
    <3>1. k \in 1 .. m /\ k # i /\ t[k] = s[k] /\ k = Moved(k, i)
      BY <2>1 DEF Moved
    <3> QED BY <3>1
  <2>2. CASE ~(k < i)
    <3>1. k + 1 \in 1 .. m /\ k + 1 # i /\ t[k] = s[k + 1] /\ k = Moved(k + 1, i)
      BY <2>2 DEF Moved
    <3> QED BY <3>1
  <2> QED BY <2>1, <2>2
<1> QED BY <1>1, <1>2 DEF HasOthers

\* The node found is linked around: the list is the same without it.
LEMMA Unlinks ==
    ASSUME NEW m, NEW s, Fits(m, s), Block!TypeOK, Block!Unlink("writer")
    PROVE  \E t \in [1 .. m - 1 -> Nodes] :
              /\ m - 1 \in Nat /\ Fits(m - 1, t)'
              /\ \A k \in 1 .. m : ip4[s[k]] # addr["writer"] =>
                    \E j \in 1 .. m - 1 : ip4'[t[j]] = ip4[s[k]]
<1> USE DEF Block!Unlink, Block!Goto, Block!Behind
<1>1. PICK i \in 1 .. m + 1 :
          LookedFor(m, s, i) /\ prev["writer"] = (IF i = 1 THEN null ELSE s[i - 1])
  BY DEF Fits, WriterInv, Removing
<1>2. live = In(m, s) /\ In(m, s) \subseteq live
  BY DEF Fits, WriterInv, Removing
<1>3. /\ i \in 1 .. m /\ head["writer"] = s[i] /\ s[i] \in live /\ s[i] \in Nodes
      /\ next[s[i]] = IF i + 1 = m + 1 THEN null ELSE s[i + 1]
  BY <1>1, <1>2, AtNode DEF Fits
<1>4. /\ m \in Nat /\ s \in [1 .. m -> Nodes]
      /\ \A k \in 1 .. m : s[k] \in Nodes /\ s[k] # null /\ s[k] \in In(m, s)
      /\ \A j, k \in 1 .. m : s[j] = s[k] => j = k
      /\ \A j, k \in 1 .. m : ip4[s[j]] = ip4[s[k]] => j = k
      /\ \A k \in 1 .. m : next[s[k]] = (IF k = m THEN null ELSE s[k + 1])
      /\ \A k \in 1 .. m : ip4[s[k]] \in Addresses
  BY ListNodes DEF Fits, Listing, Linked
<1>0. m \in Nat /\ i \in 1 .. m
  BY <1>3, <1>4
<1>1a. PICK t : t \in [1 .. m - 1 -> Nodes] /\ Without(m, s, i, t)
  BY <1>0, <1>4, Shorter
<1>5. \A k \in 1 .. m - 1 : t[k] = IF k < i THEN s[k] ELSE s[k + 1]
  BY <1>1a DEF Without
<1>6. /\ \A k \in 1 .. m : k # i => Moved(k, i) \in 1 .. m - 1 /\ t[Moved(k, i)] = s[k]
      /\ \A k \in 1 .. m - 1 : \E j \in 1 .. m : j # i /\ t[k] = s[j] /\ k = Moved(j, i)
  <2>1. HasOthers(m, s, i, t)
    BY <1>0, <1>1a, ShorterHas
  <2> QED BY ONLY <2>1 DEF HasOthers
<1>7. ip4[s[i]] = addr["writer"] /\ Block!nextOf(s[i]) = {next[s[i]]}
  BY <1>3, Reads
<1>8. /\ i = 1 => blocklist' = next[s[i]] /\ next' = next
      /\ i # 1 => /\ i - 1 \in 1 .. m
                   /\ blocklist' = blocklist /\ next' = [next EXCEPT ![s[i - 1]] = next[s[i]]]
  <2>1. CASE i = 1
    BY <1>1, <1>3, <1>7, <2>1
  <2>2. CASE i # 1
    <3>1. i - 1 \in 1 .. m
      BY <1>3, <1>4, <2>2
    <3> QED BY <1>1, <1>3, <1>4, <1>7, <2>2, <3>1
  <2> QED BY <2>1, <2>2
<1>9. \A k \in 1 .. m : next'[s[k]] = IF k = i - 1 THEN next[s[i]] ELSE next[s[k]]
  <2>1. CASE i = 1
    BY <1>4, <1>8, <2>1
  <2>2. CASE i # 1
    <3>1. /\ i - 1 \in 1 .. m /\ next' = [next EXCEPT ![s[i - 1]] = next[s[i]]]
          /\ next \in [Nodes -> Nodes \cup {null}]
      BY <1>8, <2>2 DEF Block!TypeOK
    <3> QED BY <1>4, <3>1
  <2> QED BY <2>1, <2>2
<1>10. Linked(m - 1, t, blocklist', next')
  <2>1. m - 1 \in Nat /\ \A k \in 1 .. m - 1 : k \in 1 .. m /\ k + 1 \in 1 .. m
    BY <1>3, <1>4
  <2>2. \A j, k \in 1 .. m - 1 : t[j] = t[k] => j = k
    BY <1>4, <1>6
  <2>3. blocklist' = IF m - 1 = 0 THEN null ELSE t[1]
    <3>1. blocklist = s[1]
      BY <1>3, <1>4 DEF Fits, Listing, Linked
    <3>2. CASE i = 1
      <4>1. blocklist' = IF m = 1 THEN null ELSE s[2]
        <5>1. blocklist' = next[s[1]] /\ 1 \in 1 .. m
          BY <1>0, <1>8, <3>2
        <5>2. next[s[1]] = IF 1 = m THEN null ELSE s[1 + 1]
          BY <1>4, <5>1
        <5> QED BY <5>1, <5>2
      <4>2. m # 1 => 1 \in 1 .. m - 1 /\ t[1] = s[2]
        BY <1>3, <1>4, <1>5, <3>2
      <4>3. m - 1 = 0 <=> m = 1
        BY <1>4
      <4> QED BY <4>1, <4>2, <4>3
    <3>3. CASE i # 1
      <4>1. 1 \in 1 .. m - 1 /\ m - 1 # 0 /\ 1 < i
        BY <1>3, <1>4, <3>3
      <4> QED BY <1>5, <1>8, <3>1, <3>3, <4>1
    <3> QED BY <3>2, <3>3
  <2>4. ASSUME NEW k \in 1 .. m - 1 PROVE next'[t[k]] = IF k = m - 1 THEN null ELSE t[k + 1]
    <3>0. /\ k \in 1 .. m /\ k + 1 \in 1 .. m /\ (k + 1 = m <=> k = m - 1)
          /\ (k = m - 1 \/ k + 1 \in 1 .. m - 1) /\ k # m
      BY <1>4, <2>1
    <3>1. CASE k < i - 1
      <4>1. t[k] = s[k] /\ next'[s[k]] = s[k + 1] /\ k # m - 1 /\ k + 1 < i
        BY <1>3, <1>4, <1>5, <1>9, <3>0, <3>1
      <4> QED BY <1>5, <3>0, <4>1
    <3>2. CASE k = i - 1
      <4>1. t[k] = s[k] /\ next'[s[k]] = next[s[i]] /\ k + 1 = i /\ ~(k + 1 < i)
        BY <1>3, <1>5, <1>9, <3>0, <3>2
      <4>2. next[s[i]] = IF k = m - 1 THEN null ELSE s[(k + 1) + 1]
        BY <1>4, <3>0, <4>1
      <4> QED BY <1>5, <3>0, <4>1, <4>2
    <3>3. CASE k >= i
      <4>1. t[k] = s[k + 1] /\ k + 1 # i - 1 /\ ~(k + 1 < i)
        BY <1>3, <1>5, <3>0, <3>3
      <4>2. next'[s[k + 1]] = IF k + 1 = m THEN null ELSE s[(k + 1) + 1]
        BY <1>4, <1>9, <3>0, <4>1
      <4> QED BY <1>5, <3>0, <4>1, <4>2
    <3> QED BY <1>3, <3>0, <3>1, <3>2, <3>3
  <2> QED BY <1>1a, <2>1, <2>2, <2>3, <2>4 DEF Linked
<1>11. Listing(m - 1, t)'
  <2>1. \A k \in 1 .. m - 1 : ip4[t[k]] \in Addresses
    BY <1>4, <1>6
  <2>2. \A j, k \in 1 .. m - 1 : ip4[t[j]] = ip4[t[k]] => j = k
    <3>1. \A j, k \in 1 .. m : ip4[s[j]] = ip4[s[k]] => j = k
      BY <1>4
    <3>2. \A k \in 1 .. m - 1 : \E j \in 1 .. m : t[k] = s[j] /\ k = Moved(j, i)
      BY <1>6
    <3> QED BY <3>1, <3>2
  <2> QED BY <1>10, <2>1, <2>2 DEF Listing
<1>12. In(m, s) = In(m - 1, t) \cup {s[i]} /\ s[i] \notin In(m - 1, t)
  <2>1. \A k \in 1 .. m : k # i => s[k] \in In(m - 1, t)
    BY <1>6 DEF In
  <2>2. \A k \in 1 .. m - 1 : t[k] # s[i] /\ t[k] \in In(m, s)
    BY <1>3, <1>4, <1>6
  <2> QED BY <1>3, <2>1, <2>2 DEF In
<1>13. WriterInv(m - 1, t)'
  <2>1. step'["writer"] = "free" /\ head'["writer"] = s[i] /\ live' = live
    BY <1>3 DEF Block!TypeOK
  <2>2. In(m - 1, t)' = In(m - 1, t)
    BY DEF In
  <2> QED BY <1>2, <1>3, <1>12, <2>1, <2>2 DEF WriterInv, Removing
<1>14. PacketInv(m - 1, t)'
  <2>1. \A p \in meant' : p \in meant /\ \E k \in 1 .. m - 1 : packet[p].daddr = ip4'[t[k]]
    <3>1. \A a : a \in Block!ListedIn(blocklist', next', ip4') <=> \E k \in 1 .. m - 1 : a = ip4'[t[k]]
      BY ONLY <1>10, ListedIs
    <3> QED BY <3>1 DEF Block!Claims
  <2>2. ASSUME NEW p \in meant', packet[p].at = "hook" PROVE Before(m - 1, t, p)'
    <3>1. PICK j, k \in 1 .. m : j <= k /\ ip4[s[k]] = packet[p].daddr /\ packet[p].node = s[j]
      <4>1. p \in meant /\ step["writer"] # "free"
        BY <2>1
      <4> QED BY <2>2, <4>1 DEF Fits, PacketInv, Before
    <3>2. k # i
      <4>1. PICK x \in 1 .. m - 1 : packet[p].daddr = ip4'[t[x]]
        BY <2>1
      <4>2. PICK y \in 1 .. m : y # i /\ t[x] = s[y]
        BY <1>6
      <4>3. ip4[s[y]] = ip4[s[k]]
        BY <3>1, <4>1, <4>2
      <4>4. y = k
        BY <1>4, <4>3
      <4> QED BY <4>2, <4>4
    <3>3. Moved(k, i) \in 1 .. m - 1 /\ t[Moved(k, i)] = s[k]
      BY <1>6, <3>2
    <3>4. CASE j # i
      <4>1. Moved(j, i) \in 1 .. m - 1 /\ t[Moved(j, i)] = s[j]
        BY <1>6, <3>4
      <4>2. Moved(j, i) <= Moved(k, i)
        BY <1>3, <1>4, <3>1, <3>2, <3>4 DEF Moved
      <4> QED BY <3>1, <3>3, <4>1, <4>2 DEF Before
    <3>5. CASE j = i
      <4>1. i < k /\ i # m /\ i + 1 \in 1 .. m
        BY <1>3, <1>4, <3>1, <3>2, <3>5
      <4>2. i \in 1 .. m - 1 /\ t[i] = s[i + 1] /\ i <= Moved(k, i)
        BY <1>3, <1>4, <1>5, <3>2, <4>1 DEF Moved
      <4>3. next'[s[i]] = s[i + 1]
        BY <1>3, <1>4, <1>9, <4>1
      <4>4. step'["writer"] = "free" /\ head'["writer"] = s[i]
        BY <1>3 DEF Block!TypeOK
      <4> QED BY <3>1, <3>3, <3>5, <4>2, <4>3, <4>4 DEF Before
    <3> QED BY <3>4, <3>5
  <2> QED BY <2>1, <2>2 DEF Fits, PacketInv
<1>15. ASSUME NEW k \in 1 .. m, ip4[s[k]] # addr["writer"]
       PROVE  \E j \in 1 .. m - 1 : ip4'[t[j]] = ip4[s[k]]
  BY <1>6, <1>7, <1>15
<1>16. m - 1 \in Nat
  BY <1>3, <1>4
<1> QED BY <1>1a, <1>11, <1>13, <1>14, <1>15, <1>16 DEF Fits

LEMMA Frees ==
    ASSUME NEW m, NEW s, Fits(m, s), Block!TypeOK, Block!Kfree("writer")
    PROVE  Fits(m, s)'
<1> USE DEF Block!Kfree, Block!Goto, Block!Freed
<1>1. Listing(m, s)'
  BY ListingStays DEF Fits
<1>2. step'["writer"] = "idle" /\ live' = In(m, s)
  BY DEF Fits, WriterInv, Removing, Block!TypeOK
<1>3. WriterInv(m, s)'
  BY <1>2 DEF WriterInv, Removing, In
<1>4. PacketInv(m, s)'
  BY DEF Fits, PacketInv, Before
<1> QED BY <1>1, <1>3, <1>4 DEF Fits

-----------------------------------------------------------------------------
(* Packets. *)

LEMMA PacketOnly ==
    ASSUME NEW m, NEW s, Fits(m, s), UNCHANGED <<Block!listVars, Block!writerVars>>
    PROVE  Listing(m, s)' /\ WriterInv(m, s)'
BY ListingStays DEF Fits, WriterInv, Removing, Adding, LookedFor, In, Block!listVars, Block!writerVars

LEMMA Arrives ==
    ASSUME NEW m, NEW s, Fits(m, s), Block!TypeOK, NEW p \in Packets,
           NEW way \in Block!Ways, NEW a \in Addresses, Block!Arrive(p, way, a)
    PROVE  Fits(m, s)'
<1> USE DEF Block!Arrive, Block!Hooked
<1>1. Listing(m, s)' /\ WriterInv(m, s)'
  BY PacketOnly
<1>2. /\ p \notin meant /\ meant' \subseteq meant \cup {p}
      /\ \A q \in Packets \ {p} : packet'[q] = packet[q]
      /\ meant \subseteq Packets
  BY DEF Fits, PacketInv, Block!TypeOK
<1>3. ip4' = ip4 /\ next' = next /\ step' = step /\ head' = head
  BY DEF Block!listVars, Block!writerVars
<1>4. ASSUME NEW q \in meant', q # p
      PROVE  /\ packet'[q].at # "none"
             /\ packet'[q].way = "through" => packet'[q].at \in {"hook", "dropped"}
             /\ packet'[q].at = "hook" => Before(m, s, q)'
  BY <1>2, <1>3, <1>4 DEF Fits, PacketInv, Before
<1>5. ASSUME p \in meant'
      PROVE  /\ packet'[p].at # "none"
             /\ packet'[p].way = "through" => packet'[p].at \in {"hook", "dropped"}
             /\ packet'[p].at = "hook" => Before(m, s, p)'
  <2>1. a \in Block!Listed
    BY <1>2, <1>5
  <2>2. PICK k \in 1 .. m : ip4[s[k]] = a
    <3>1. \A x : x \in Block!Listed <=> \E k \in 1 .. m : x = ip4[s[k]]
      BY ListedIs DEF Block!Listed, Fits, Listing
    <3> QED BY <2>1, <3>1
  <2>3. 1 \in 1 .. m /\ 1 <= k /\ blocklist = s[1]
    BY ListNodes DEF Fits, Listing, Linked
  <2>4. CASE way = "through"
    <3>1. packet'[p] = [at |-> "hook", way |-> way, daddr |-> a, node |-> blocklist]
      BY <2>4 DEF Block!TypeOK
    <3> QED BY <1>3, <2>2, <2>3, <3>1 DEF Before
  <2>5. CASE way # "through"
    <3>1. packet'[p] = [at |-> "sent", way |-> way, daddr |-> a, node |-> null]
      BY <2>5 DEF Block!TypeOK
    <3> QED BY <2>5, <3>1
  <2> QED BY <2>4, <2>5
<1>6. PacketInv(m, s)'
  BY <1>4, <1>5 DEF PacketInv
<1> QED BY <1>1, <1>6 DEF Fits

\* What a step of one packet leaves of the claims of the others.
LEMMA Others ==
    ASSUME NEW m, NEW s, Fits(m, s), Block!TypeOK, NEW p \in Packets,
           UNCHANGED <<Block!listVars, Block!writerVars>>, meant' \subseteq meant,
           \A q \in Packets \ {p} : packet'[q] = packet[q],
           p \in meant' =>
               /\ packet'[p].at # "none"
               /\ packet'[p].way = "through" => packet'[p].at \in {"hook", "dropped"}
               /\ packet'[p].at = "hook" => Before(m, s, p)'
    PROVE  Fits(m, s)'
<1>1. Listing(m, s)' /\ WriterInv(m, s)'
  BY PacketOnly
<1>2. ip4' = ip4 /\ next' = next /\ step' = step /\ head' = head
  BY DEF Block!listVars, Block!writerVars
<1>3. meant \subseteq Packets
  BY DEF Block!TypeOK
<1>4. ASSUME NEW q \in meant', q # p
      PROVE  /\ packet'[q].at # "none"
             /\ packet'[q].way = "through" => packet'[q].at \in {"hook", "dropped"}
             /\ packet'[q].at = "hook" => Before(m, s, q)'
  BY <1>2, <1>3, <1>4 DEF Fits, PacketInv, Before
<1>5. PacketInv(m, s)'
  BY <1>4 DEF PacketInv
<1> QED BY <1>1, <1>5 DEF Fits

LEMMA PlaceIs ==
    ASSUME Block!TypeOK, NEW p \in Packets, NEW at1, NEW n, Block!Place(p, at1, n)
    PROVE  /\ \A q \in Packets \ {p} : packet'[q] = packet[q]
           /\ packet'[p].at = at1 /\ packet'[p].node = n
           /\ packet'[p].way = packet[p].way /\ packet'[p].daddr = packet[p].daddr
BY DEF Block!TypeOK, Block!Place

LEMMA Drops ==
    ASSUME NEW m, NEW s, Fits(m, s), Block!TypeOK, NEW p \in Packets, Block!Drop(p)
    PROVE  Fits(m, s)'
<1>1. /\ UNCHANGED <<Block!listVars, Block!writerVars>> /\ meant' \subseteq meant
      /\ Block!Place(p, "dropped", null)
  BY DEF Block!Drop
<1> QED BY <1>1, PlaceIs, Others

LEMMA WalksOn ==
    ASSUME NEW m, NEW s, Fits(m, s), Block!TypeOK, NEW p \in Packets, Block!WalkOn(p)
    PROVE  Fits(m, s)'
<1>1. /\ UNCHANGED <<Block!listVars, Block!writerVars>> /\ meant' = meant
      /\ packet[p].at = "hook" /\ Block!Differs(packet[p].node, packet[p].daddr)
  BY DEF Block!WalkOn
<1>2. PICK n \in Block!nextOf(packet[p].node) : Block!Place(p, "hook", n)
  BY DEF Block!WalkOn, Block!Ahead
<1>3. ASSUME p \in meant PROVE Before(m, s, p)'
  <2>1. PICK j, k \in 1 .. m :
          /\ j <= k /\ ip4[s[k]] = packet[p].daddr
          /\ \/ packet[p].node = s[j]
             \/ step["writer"] = "free" /\ packet[p].node = head["writer"] /\ next[head["writer"]] = s[j]
    BY <1>1, <1>3 DEF Fits, PacketInv, Before
  <2>2. m \in Nat /\ In(m, s) \subseteq live /\ \A i \in 1 .. m : s[i] \in live
    <3>1. In(m, s) \subseteq live
      <4>1. step["writer"] \in {"idle", "search", "first", "tail", "append", "find", "free"}
        BY DEF Block!TypeOK
      <4> QED BY <4>1 DEF Fits, WriterInv, Adding, Removing
    <3> QED BY <3>1, ListNodes DEF Fits
  <2>3. ip4' = ip4 /\ packet'[p].node = n /\ packet'[p].daddr = packet[p].daddr
    BY <1>1, <1>2, PlaceIs DEF Block!listVars
  <2>4. CASE packet[p].node = s[j]
    <3>1. ip4[s[j]] # packet[p].daddr /\ n = next[s[j]]
      BY <1>1, <1>2, <2>2, <2>4, Reads
    <3>2. j # k /\ j # m /\ j + 1 \in 1 .. m /\ j + 1 <= k
      BY <2>1, <2>2, <3>1
    <3>3. n = s[j + 1]
      BY <3>1, <3>2 DEF Fits, Listing, Linked
    <3> QED BY <2>1, <2>3, <3>2, <3>3 DEF Before
  <2>5. CASE step["writer"] = "free" /\ packet[p].node = head["writer"] /\ next[head["writer"]] = s[j]
    <3>1. head["writer"] \in live
      BY <2>5 DEF Fits, WriterInv, Removing
    <3>2. n = s[j]
      BY <1>2, <2>5, <3>1, Reads
    <3> QED BY <2>1, <2>3, <3>2 DEF Before
  <2> QED BY <2>1, <2>4, <2>5
<1> QED BY <1>1, <1>2, <1>3, PlaceIs, Others

LEMMA Accepts ==
    ASSUME NEW m, NEW s, Fits(m, s), Block!TypeOK, NEW p \in Packets, Block!Accept(p)
    PROVE  Fits(m, s)'
<1>1. /\ UNCHANGED <<Block!listVars, Block!writerVars>> /\ meant' = meant
      /\ packet[p].at = "hook" /\ packet[p].node = null /\ Block!Place(p, "sent", null)
  BY DEF Block!Accept
<1>2. p \notin meant
  <2>1. ~Before(m, s, p)
    <3>1. step["writer"] = "free" => head["writer"] \in Nodes
      BY DEF Fits, WriterInv, Removing
    <3> QED BY <1>1, <3>1, ListNodes, BlockConstants DEF Before, Fits
  <2> QED BY <1>1, <2>1 DEF Fits, PacketInv
<1> QED BY <1>1, <1>2, PlaceIs, Others

LEMMA Leaves ==
    ASSUME NEW m, NEW s, Fits(m, s), Block!TypeOK, NEW p \in Packets, Block!Gone(p)
    PROVE  Fits(m, s)'
<1>1. /\ UNCHANGED <<Block!listVars, Block!writerVars>> /\ meant' = meant \ {p}
      /\ \A q \in Packets \ {p} : packet'[q] = packet[q]
  BY DEF Block!Gone, Block!TypeOK
<1> QED BY <1>1, Others

-----------------------------------------------------------------------------
(* The types, and all steps together. *)

LEMMA MemoryReads ==
    ASSUME Block!TypeOK, NEW n \in Nodes \cup {null}
    PROVE  /\ Block!nextOf(n) \subseteq Nodes \cup {null}
           /\ null \in Block!nextOf(null)
<1>1. live \subseteq Nodes /\ next \in [Nodes -> Nodes \cup {null}] /\ null \notin live
  BY BlockConstants DEF Block!TypeOK
<1> QED BY <1>1 DEF Block!nextOf

LEMMA WriterTypes == ASSUME Block!TypeOK, Block!Write("writer") PROVE Block!TypeOK'
<1> USE DEF Block!TypeOK, Block!Goto, Block!listVars, Block!Claims
<1>a. head["writer"] \in Nodes \cup {null} /\ blocklist \in Nodes \cup {null}
  OBVIOUS
<1>b. Block!nextOf(head["writer"]) \subseteq Nodes \cup {null} /\ null \in Block!nextOf(null)
  BY <1>a, MemoryReads
<1>c. Block!Forward("writer") =>
          /\ head' \in [{"writer"} -> Nodes \cup {null}]
          /\ head'["writer"] \in Block!nextOf(head["writer"])
  BY <1>b DEF Block!Forward
<1>1. ASSUME NEW a \in Addresses, Block!AddStart("writer", a) PROVE Block!TypeOK'
  BY <1>1 DEF Block!AddStart
<1>2. ASSUME NEW a \in Addresses, Block!RemoveStart("writer", a) PROVE Block!TypeOK'
  BY <1>2 DEF Block!RemoveStart
<1>3. CASE Block!Duplicate("writer")
  BY <1>3 DEF Block!Duplicate
<1>4. CASE Block!SearchOn("writer")
  BY <1>4, <1>c DEF Block!SearchOn
<1>5. CASE Block!Searched("writer")
  BY <1>5 DEF Block!Searched, Block!Where
<1>6. CASE Block!First("writer")
  BY <1>6 DEF Block!First
<1>7. CASE Block!ToTail("writer")
  <2>1. CASE null \in Block!nextOf(head["writer"])
    BY <1>7, <2>1 DEF Block!ToTail
  <2>2. CASE null \notin Block!nextOf(head["writer"])
    BY <1>7, <1>c, <2>2 DEF Block!ToTail
  <2> QED BY <2>1, <2>2
<1>8. CASE Block!Link("writer")
  BY <1>8 DEF Block!Link
<1>9. CASE Block!FindOn("writer")
  BY <1>9, <1>c DEF Block!FindOn
<1>10. CASE Block!NotInList("writer")
  BY <1>10 DEF Block!NotInList
<1>11. CASE Block!Unlink("writer")
  <2>1. PICK n \in Nodes \cup {null} :
            IF Block!Behind("writer")
            THEN next' = [next EXCEPT ![prev["writer"]] = n] /\ UNCHANGED blocklist
            ELSE blocklist' = n /\ UNCHANGED next
    BY <1>11, <1>b DEF Block!Unlink
  <2>2. next' \in [Nodes -> Nodes \cup {null}] /\ blocklist' \in Nodes \cup {null}
    BY <2>1
  <2> QED BY <1>11, <2>2 DEF Block!Unlink
<1>12. CASE Block!Kfree("writer")
  BY <1>12 DEF Block!Kfree
<1> QED
  BY <1>1, <1>2, <1>3, <1>4, <1>5, <1>6, <1>7, <1>8, <1>9, <1>10, <1>11, <1>12 DEF Block!Write

LEMMA PacketTypes == ASSUME Block!TypeOK, NEW p \in Packets, Block!Walk(p) PROVE Block!TypeOK'
<1> DEFINE P == [at : {"none", "hook", "sent", "dropped"}, way : Block!Ways,
                 daddr : Addresses \cup {null}, node : Nodes \cup {null}]
<1>1. packet \in [Packets -> P] /\ packet[p] \in P /\ blocklist \in Nodes \cup {null}
  BY DEF Block!TypeOK
<1>2. ASSUME UNCHANGED <<Block!listVars, Block!writerVars>>, meant' \subseteq meant \cup {p},
             packet' \in [Packets -> P]
      PROVE  Block!TypeOK'
  BY <1>2 DEF Block!TypeOK, Block!listVars, Block!writerVars
<1>3. ASSUME NEW at1 \in {"none", "hook", "sent", "dropped"}, NEW n \in Nodes \cup {null},
             Block!Place(p, at1, n)
      PROVE  packet' \in [Packets -> P]
  <2>1. [packet[p] EXCEPT !.at = at1, !.node = n] \in P
    BY <1>1
  <2>2. packet' = [packet EXCEPT ![p] = [packet[p] EXCEPT !.at = at1, !.node = n]]
    BY <1>1, <1>3 DEF Block!Place
  <2> HIDE DEF P
  <2> QED BY <1>1, <2>1, <2>2
<1>4. ASSUME NEW way \in Block!Ways, NEW a \in Addresses, Block!Arrive(p, way, a)
      PROVE  Block!TypeOK'
  <2>1. /\ [at |-> "hook", way |-> way, daddr |-> a, node |-> blocklist] \in P
        /\ [at |-> "sent", way |-> way, daddr |-> a, node |-> null] \in P
    BY <1>1
  <2> HIDE DEF P
  <2>2. packet' \in [Packets -> P]
    BY <1>1, <1>4, <2>1 DEF Block!Arrive
  <2> QED BY <1>2, <1>4, <2>2 DEF Block!Arrive
<1>5. CASE Block!Drop(p)
  <2>1. packet' \in [Packets -> P]
    BY <1>3, <1>5 DEF Block!Drop
  <2> QED BY <1>2, <1>5, <2>1 DEF Block!Drop
<1>6. CASE Block!WalkOn(p)
  <2>1. PICK n \in Block!nextOf(packet[p].node) : Block!Place(p, "hook", n)
    BY <1>6 DEF Block!WalkOn, Block!Ahead
  <2>2. n \in Nodes \cup {null}
    <3>1. packet[p].node \in Nodes \cup {null}
      BY <1>1
    <3> QED BY <2>1, <3>1, MemoryReads
  <2>3. packet' \in [Packets -> P]
    BY <1>3, <2>1, <2>2
  <2> QED BY <1>2, <1>6, <2>3 DEF Block!WalkOn
<1>7. CASE Block!Accept(p)
  <2>1. packet' \in [Packets -> P]
    BY <1>3, <1>7 DEF Block!Accept
  <2> QED BY <1>2, <1>7, <2>1 DEF Block!Accept
<1>8. CASE Block!Gone(p)
  <2>1. [at |-> "none", way |-> "out", daddr |-> null, node |-> null] \in P
    BY DEF Block!Ways
  <2> HIDE DEF P
  <2>2. packet' \in [Packets -> P]
    BY <1>1, <1>8, <2>1 DEF Block!Gone
  <2> QED BY <1>2, <1>8, <2>2 DEF Block!Gone
<1> QED BY <1>4, <1>5, <1>6, <1>7, <1>8 DEF Block!Walk

LEMMA BlockInit == Block!Init => BlockInv
<1> SUFFICES ASSUME Block!Init PROVE BlockInv
  OBVIOUS
<1> USE DEF Block!Init
<1>1. Block!TypeOK
  BY DEF Block!TypeOK, Block!Ways
<1>2. PICK s : s \in [1 .. 0 -> Nodes]
  <2>1. [k \in 1 .. 0 |-> null] \in [1 .. 0 -> Nodes]
    OBVIOUS
  <2> QED BY <2>1
<1>3. Listing(0, s) /\ PacketInv(0, s)
  BY <1>2 DEF Listing, Linked, PacketInv
<1>4. In(0, s) = {}
  BY DEF In
<1>5. WriterInv(0, s)
  BY <1>4 DEF WriterInv, Removing
<1>6. 0 \in 0 .. Cardinality(Nodes)
  BY BlockConstants
<1> QED BY <1>1, <1>2, <1>3, <1>5, <1>6 DEF BlockInv

\* A step leaves a list that fits, and takes nothing from it but what the writer removes.
Takes(m, s, n, t) ==
    /\ Fits(n, t)'
    /\ \A k \in 1 .. m :
          \/ \E j \in 1 .. n : ip4'[t[j]] = ip4[s[k]]
          \/ step["writer"] = "find" /\ step'["writer"] = "free" /\ addr["writer"] = ip4[s[k]]

LEMMA ListStep ==
    ASSUME NEW m, NEW s, Fits(m, s), Block!TypeOK, Block!Next
    PROVE  \E n, t : Takes(m, s, n, t)
<1>1. ASSUME Fits(m, s)', \A k \in 1 .. m : ip4'[s[k]] = ip4[s[k]] PROVE Takes(m, s, m, s)
  BY <1>1 DEF Takes
<1>2. ASSUME NEW a \in Addresses, Block!AddStart("writer", a) PROVE \E n, t : Takes(m, s, n, t)
  BY <1>1, <1>2, AddStarts
<1>3. ASSUME NEW a \in Addresses, Block!RemoveStart("writer", a) PROVE \E n, t : Takes(m, s, n, t)
  <2>1. Fits(m, s)' /\ ip4' = ip4
    BY <1>3, RemoveStarts DEF Block!RemoveStart, Block!listVars
  <2> QED BY <1>1, <2>1
<1>4. CASE \/ Block!Duplicate("writer") \/ Block!SearchOn("writer") \/ Block!Searched("writer")
           \/ Block!ToTail("writer") \/ Block!FindOn("writer") \/ Block!NotInList("writer")
           \/ Block!Kfree("writer")
  <2>1. Fits(m, s)'
    BY <1>4, Duplicates, SearchesOn, SearchEnds, ToTails, FindsOn, NotFound, Frees
  <2>2. ip4' = ip4
    BY <1>4 DEF Block!Duplicate, Block!SearchOn, Block!Searched, Block!ToTail, Block!FindOn,
                Block!NotInList, Block!Kfree, Block!listVars
  <2> QED BY <1>1, <2>1, <2>2
<1>5. CASE Block!First("writer")
  <2>1. PICK t : m = 0 /\ Fits(1, t)'
    BY <1>5, Firsts
  <2>2. Takes(m, s, 1, t)
    BY <2>1 DEF Takes
  <2> QED BY <2>2
<1>6. CASE Block!Link("writer")
  <2>1. PICK t : Fits(m + 1, t)' /\ \A k \in 1 .. m : t[k] = s[k] /\ k \in 1 .. m + 1
    BY <1>6, Links
  <2>2. Takes(m, s, m + 1, t)
    <3>1. ip4' = ip4
      BY <1>6 DEF Block!Link
    <3> QED BY <2>1, <3>1 DEF Takes
  <2> QED BY <2>2
<1>7. CASE Block!Unlink("writer")
  <2>1. PICK t : /\ Fits(m - 1, t)'
                 /\ \A k \in 1 .. m : ip4[s[k]] # addr["writer"] =>
                       \E j \in 1 .. m - 1 : ip4'[t[j]] = ip4[s[k]]
    BY <1>7, Unlinks
  <2>2. step["writer"] = "find" /\ step'["writer"] = "free"
    BY <1>7 DEF Block!Unlink, Block!Goto, Block!TypeOK
  <2>3. Takes(m, s, m - 1, t)
    BY <2>1, <2>2 DEF Takes
  <2> QED BY <2>3
<1>8. ASSUME NEW p \in Packets, Block!Walk(p) PROVE \E n, t : Takes(m, s, n, t)
  <2>1. Fits(m, s)'
    BY <1>8, Arrives, Drops, WalksOn, Accepts, Leaves DEF Block!Walk
  <2>2. ip4' = ip4
    BY <1>8 DEF Block!Walk, Block!Arrive, Block!Drop, Block!WalkOn, Block!Accept, Block!Gone,
                Block!listVars
  <2> QED BY <1>1, <2>1, <2>2
<1> QED BY <1>2, <1>3, <1>4, <1>5, <1>6, <1>7, <1>8 DEF Block!Next, Block!Write

LEMMA BlockStep == ASSUME BlockInv, Block!Next PROVE BlockInv'
<1>1. Block!TypeOK'
  BY WriterTypes, PacketTypes DEF BlockInv, Block!Next
<1>2. PICK m, s : Fits(m, s)
  BY DEF BlockInv, Fits
<1>3. PICK n, t : Fits(n, t)'
  BY <1>2, ListStep DEF BlockInv, Takes
<1>4. n \in 0 .. Cardinality(Nodes) /\ t \in [1 .. n -> Nodes]
  <2>1. Linked(n, t, blocklist', next')
    BY <1>3 DEF Fits, Listing
  <2>2. n \in Nat /\ n <= Cardinality(Nodes)
    BY <2>1, LinkedFits
  <2> QED BY <2>1, <2>2, BlockConstants DEF Linked
<1> QED BY <1>1, <1>3, <1>4 DEF BlockInv, Fits

LEMMA BlockStays == BlockInv /\ [Block!Next]_(Block!vars) => BlockInv'
<1> SUFFICES ASSUME BlockInv, [Block!Next]_(Block!vars) PROVE BlockInv'
  OBVIOUS
<1>1. CASE Block!Next
  BY <1>1, BlockStep
<1>2. CASE UNCHANGED Block!vars
  <2>0. PICK m \in 0 .. Cardinality(Nodes) : \E s \in [1 .. m -> Nodes] : Fits(m, s)
    BY DEF BlockInv, Fits
  <2>1. PICK s \in [1 .. m -> Nodes] : Fits(m, s)
    BY <2>0
  <2> USE <1>2 DEF Block!vars
  <2>2. Block!TypeOK'
    BY DEF BlockInv, Block!TypeOK, Block!listVars, Block!writerVars
  <2>3. Listing(m, s)' /\ WriterInv(m, s)'
    BY <2>1, PacketOnly
  <2>4. PacketInv(m, s)'
    BY <2>1 DEF Fits, PacketInv, Before, Block!listVars, Block!writerVars
  <2> QED BY <2>2, <2>3, <2>4 DEF BlockInv
<1> QED BY <1>1, <1>2

LEMMA BlockPart == [KernelNext]_Vars => [Block!Next]_(Block!vars)
BY DEF KernelNext, Vars, BlockVars, Block!vars, Block!listVars, Block!writerVars

\* The inductive invariant of the address filter: one writer's place in the list, and that
\* of every packet that is to be dropped, for any memory, addresses and packets.
THEOREM BlockInductive == KernelSpec => []BlockInv
<1>1. KernelInit => BlockInv
  BY BlockInit DEF KernelInit
<1>2. BlockInv /\ [KernelNext]_Vars => BlockInv'
  BY BlockStays, BlockPart
<1> QED BY <1>1, <1>2, PTL DEF KernelSpec

\* module5/lab6: with one writer the list has every address once and is made of allocated
\* nodes, nothing else stays allocated, and a packet whose address is in the list all the
\* time is not let through, for any memory, addresses and packets.
THEOREM ListHolds == KernelSpec => []ListRight
<1>1. BlockInv => Block!OneEach
  <2> SUFFICES ASSUME BlockInv PROVE Block!OneEach
    OBVIOUS
  <2>1. PICK m, s : Fits(m, s)
    BY DEF BlockInv, Fits
  <2>2. Block!Chain(blocklist, next) = s
    BY <2>1, ChainIs DEF Fits, Listing
  <2>3. DOMAIN s = 1 .. m /\ Block!IsInjective(s)
    BY <2>1 DEF Fits, Listing, Linked, Block!IsInjective
  <2>4. Block!Range(s) = In(m, s)
    BY <2>3 DEF Block!Range, In
  <2>5. In(m, s) \subseteq live /\ (step["writer"] = "idle" => live = In(m, s))
    <3>1. step["writer"] \in {"idle", "search", "first", "tail", "append", "find", "free"}
      BY DEF BlockInv, Block!TypeOK
    <3> QED BY <2>1, <3>1 DEF Fits, WriterInv, Adding, Removing
  <2>6. \A j, k \in 1 .. m : ip4[s[j]] = ip4[s[k]] => j = k
    BY <2>1 DEF Fits, Listing
  <2> QED BY <2>2, <2>3, <2>4, <2>5, <2>6 DEF Block!OneEach
<1>2. BlockInv => Block!Dropped
  BY DEF BlockInv, PacketInv, Block!Dropped
<1>3. BlockInv => ListRight
  BY <1>1, <1>2 DEF ListRight
<1> QED BY <1>3, BlockInductive, PTL

\* An address of the list stays there, but for the step that removes it.
LEMMA TakenByRemoval ==
    ASSUME BlockInv, Block!Next,
           NEW a \in Block!Listed \ Block!ListedIn(blocklist', next', ip4')
    PROVE  \E w \in {"writer"} : step[w] = "find" /\ step'[w] = "free" /\ addr[w] = a
<1>1. PICK m, s : Fits(m, s)
  BY DEF BlockInv, Fits
<1>2. PICK n, t : Takes(m, s, n, t)
  BY <1>1, ListStep DEF BlockInv
<1>3. PICK k \in 1 .. m : a = ip4[s[k]]
  <2>1. Linked(m, s, blocklist, next)
    BY <1>1 DEF Fits, Listing
  <2> QED BY <2>1, ListedIs DEF Block!Listed
<1>4. ~ \E j \in 1 .. n : ip4'[t[j]] = ip4[s[k]]
  <2>1. Linked(n, t, blocklist', next')
    BY <1>2 DEF Takes, Fits, Listing
  <2>2. \A x : x \in Block!ListedIn(blocklist', next', ip4') <=> \E j \in 1 .. n : x = ip4'[t[j]]
    BY <2>1, ListedIs
  <2> QED BY <1>3, <2>2
<1> QED BY <1>2, <1>3, <1>4 DEF Takes

\* module5/lab6: adding an entry or removing another never loses an address.
THEOREM RemovalTakes == KernelSpec => OnlyRemovalTakes
<1> DEFINE A == \A a \in Block!Listed \ Block!ListedIn(blocklist', next', ip4') :
                   \E w \in {"writer"} : step[w] = "find" /\ step'[w] = "free" /\ addr[w] = a
<1>1. BlockInv /\ [KernelNext]_Vars => [A]_(Block!vars)
  BY BlockPart, TakenByRemoval
<1>2. KernelSpec => [][A]_(Block!vars)
  BY <1>1, BlockInductive, PTL DEF KernelSpec
<1> QED BY <1>2 DEF OnlyRemovalTakes, Block!OnlyRemovalTakes

-----------------------------------------------------------------------------

\* Every variable of the five programs keeps its type, for any constants.
THEOREM KernelTypes == KernelSpec => []TypesOK
<1>1. DeviceInv /\ LedsStopped /\ MessageInv /\ BlockInv /\ ObserverInv => TypesOK
  BY DeviceProperties DEF LedsStopped, MessageInv, BlockInv, ObserverInv, TypesOK
<1> QED BY <1>1, DeviceInductive, LedsInductive, MessageInductive, BlockInductive, ObserverInductive, PTL
=============================================================================
