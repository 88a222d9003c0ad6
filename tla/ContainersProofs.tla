--------------------------- MODULE ContainersProofs ---------------------------
(***************************************************************************)
(* Proofs about the containers of module2: the array (ContactArray), the   *)
(* queue (PrioQueue) and the list (ContactList) hold what is allocated, in *)
(* order, and implement ContactBook and StableQueue.                       *)
(***************************************************************************)
EXTENDS MCContainers, SequenceTheorems, FiniteSetTheorems, WellFoundedInduction, TLAPS

-----------------------------------------------------------------------------
(* Numbers. *)

\* A set of naturals has a least one.
LEMMA LeastNat ==
    ASSUME NEW T, T \subseteq Nat, T # {}
    PROVE  \E x \in T : \A y \in T : x <= y
<1> DEFINE R == {p \in Nat \X Nat : p[1] < p[2]}
<1>1. IsWellFoundedOn(R, Nat)
  BY NatLessThanWellFounded DEF OpToRel
<1>2. PICK x \in T : \A y \in T : ~ (<<y, x>> \in R)
  <2> HIDE DEF R
  <2> QED BY <1>1, WFMin
<1>3. ASSUME NEW y \in T PROVE x <= y
  <2>1. x \in Nat /\ y \in Nat
    OBVIOUS
  <2>2. y < x => <<y, x>> \in R
    BY <2>1
  <2> QED BY <1>2, <2>1, <2>2
<1> QED BY <1>3

\* What holds of 0, and of n + 1 when it holds of n, holds of the numbers up to m.
LEMMA UpTo ==
    ASSUME NEW m \in Nat, NEW T, 0 \in T, \A n \in 0 .. m : n \in T /\ n < m => n + 1 \in T
    PROVE  \A n \in 0 .. m : n \in T
<1> DEFINE F == {n \in 0 .. m : n \notin T}
<1>1. SUFFICES ASSUME F # {} PROVE FALSE
  OBVIOUS
<1>2. F \subseteq Nat
  OBVIOUS
<1> HIDE DEF F
<1>3. PICK n \in F : \A y \in F : n <= y
  BY <1>1, <1>2, LeastNat
<1> USE DEF F
<1>4. n \in 0 .. m /\ n # 0
  OBVIOUS
<1>5. n - 1 \in 0 .. m /\ n - 1 < m /\ n - 1 + 1 = n
  BY <1>4
<1>6. n - 1 \notin F
  BY <1>3, <1>4
<1> QED BY <1>5, <1>6

\* An instance has its names for the operators of the modules it extends.
LEMMA CardinalityIs ==
    /\ \A x : Queue!Cardinality(x) = Cardinality(x) /\ Array!Cardinality(x) = Cardinality(x)
    /\ \A x : Queue!Stable!Cardinality(x) = Cardinality(x)
BY DEF Cardinality, IsFiniteSet, Queue!Cardinality, Queue!IsFiniteSet, Array!Cardinality,
       Array!IsFiniteSet, Queue!Stable!Cardinality, Queue!Stable!IsFiniteSet

-----------------------------------------------------------------------------
(* ContactArray: its inductive invariant. *)

Rows == 0 .. Capacity - 1
Filled == {k \in Rows : places[k].id # -1}

\* The size counts the contacts, whose ids were given by the counter and are all different.
ArrayInv ==
    /\ Array!TypeOK /\ count = Cardinality(Filled)
    /\ \A k \in Rows : places[k].id < counter
    /\ \A j, k \in Rows : places[j].id = places[k].id /\ places[j].id # -1 => j = k

LEMMA ArrayConstants ==
    /\ Capacity \in Nat \ {0} /\ MaxIds \in Nat /\ NULL \notin Contacts
    /\ IsFiniteSet(Rows) /\ Cardinality(Rows) = Capacity
<1>1. Capacity \in Nat \ {0} /\ MaxIds \in Nat /\ NULL \notin Contacts
  BY InstanceAssumption DEF Array!ConstantAssumption
<1>2. 0 \in Int /\ Capacity - 1 \in Int
  BY <1>1
<1>3. IsFiniteSet(Rows) /\ Cardinality(Rows) = IF 0 > Capacity - 1 THEN 0 ELSE Capacity - 1 - 0 + 1
  BY <1>2, FS_Interval DEF Rows
<1> QED BY <1>1, <1>3

ArrayFacts ==
    /\ DOMAIN places = Rows
    /\ \A k \in Rows : /\ places[k].id \in -1 .. MaxIds /\ places[k].data \in Contacts \cup {NULL}
                       /\ places[k] = [id |-> places[k].id, data |-> places[k].data]
    /\ counter \in 0 .. MaxIds /\ count \in 0 .. Capacity
    /\ IsFiniteSet(Filled) /\ Cardinality(Filled) \in Nat /\ Cardinality(Filled) <= Capacity

LEMMA ArrayRows == ArrayInv => ArrayFacts
<1> SUFFICES ASSUME ArrayInv PROVE ArrayFacts
  OBVIOUS
<1>1. places \in [Rows -> [id : -1 .. MaxIds, data : Contacts \cup {NULL}]]
  BY DEF ArrayInv, Array!TypeOK, Rows
<1>2. Filled \subseteq Rows
  BY DEF Filled
<1>3. IsFiniteSet(Filled) /\ Cardinality(Filled) <= Cardinality(Rows)
  BY <1>2, ArrayConstants, FS_Subset
<1> QED BY <1>1, <1>3, ArrayConstants, FS_CardinalityType DEF ArrayFacts, ArrayInv, Array!TypeOK

LEMMA ArrayRead == ArrayInv => Array!SizeRight
<1> SUFFICES ASSUME ArrayInv PROVE Array!SizeRight
  OBVIOUS
<1>1. DOMAIN places = Rows
  BY ArrayRows DEF ArrayFacts
<1>2. DOMAIN places \ Array!Places(-1) = Filled
  BY <1>1 DEF Array!Places, Filled
<1>3. ASSUME NEW k \in Rows, places[k].id # -1 PROVE Array!Places(places[k].id) = {k}
  BY <1>1, <1>3 DEF Array!Places, ArrayInv
<1> QED BY <1>1, <1>2, <1>3, CardinalityIs DEF Array!SizeRight, ArrayInv

\* findContactByID returns a place of that id, if there is one.
LEMMA RowFound ==
    ASSUME ArrayInv, NEW n, Array!Places(n) # {}
    PROVE  Array!findContactByID(n) \in Rows /\ places[Array!findContactByID(n)].id = n
<1>1. Array!Places(n) \subseteq Nat /\ Array!Places(n) \subseteq Rows
  BY ArrayRows, ArrayConstants DEF ArrayFacts, Array!Places, Rows
<1>2. \E x \in Array!Places(n) : \A y \in Array!Places(n) : x <= y
  BY <1>1, LeastNat
<1>3. Array!findContactByID(n) \in Array!Places(n)
  BY <1>2 DEF Array!findContactByID
<1> QED BY <1>1, <1>3 DEF Array!Places

\* What the array gives for the ids that are in it.
Rowed == \A k \in Rows : places[k].id # -1 =>
             /\ Array!Places(places[k].id) = {k} /\ Array!findContactByID(places[k].id) = k
             /\ Array!ResultOf(places[k].id) = places[k].data

LEMMA RowedIs == ArrayInv => Rowed
<1> SUFFICES ASSUME ArrayInv, NEW k \in Rows, places[k].id # -1
    PROVE  /\ Array!Places(places[k].id) = {k} /\ Array!findContactByID(places[k].id) = k
           /\ Array!ResultOf(places[k].id) = places[k].data
  BY DEF Rowed
<1>1. Array!Places(places[k].id) = {k}
  BY ArrayRows DEF ArrayFacts, Array!Places, ArrayInv
<1>2. Array!findContactByID(places[k].id) = k
  BY <1>1, RowFound DEF ArrayInv
<1> QED BY <1>1, <1>2 DEF Array!ResultOf

\* Steps that change the places: what they do to the number of contacts.
LEMMA FilledMore ==
    ASSUME ArrayInv, NEW p \in Rows, places[p].id = -1, NEW n, n # -1, NEW c,
           places' = [places EXCEPT ![p] = [id |-> n, data |-> c]]
    PROVE  Cardinality(Filled') = Cardinality(Filled) + 1
<1>1. Filled' = Filled \cup {p} /\ p \notin Filled
  BY ArrayRows DEF ArrayFacts, Filled
<1> QED BY <1>1, ArrayRows, FS_AddElement DEF ArrayFacts

LEMMA FilledLess ==
    ASSUME ArrayInv, NEW p \in Rows, places[p].id # -1,
           places' = [places EXCEPT ![p] = Array!Free]
    PROVE  Cardinality(Filled') = Cardinality(Filled) - 1
<1>1. Filled' = Filled \ {p} /\ p \in Filled
  BY ArrayRows DEF ArrayFacts, Filled, Array!Free
<1> QED BY <1>1, ArrayRows, FS_RemoveElement DEF ArrayFacts

\* There is a free place while the size is below the capacity.
LEMMA RoomIs ==
    ASSUME ArrayInv, Array!Room
    PROVE  Array!findContactByID(-1) \in Rows /\ places[Array!findContactByID(-1)].id = -1
<1>1. Filled # Rows
  BY ArrayRows, ArrayConstants DEF ArrayFacts, ArrayInv, Array!Room
<1>2. PICK k \in Rows : places[k].id = -1
  BY <1>1 DEF Filled
<1>3. k \in Array!Places(-1)
  BY <1>2, ArrayRows DEF ArrayFacts, Array!Places
<1> QED BY <1>3, RowFound

LEMMA ArrayBegins == Array!Init => ArrayInv
<1> SUFFICES ASSUME Array!Init PROVE ArrayInv
  OBVIOUS
<1>1. /\ places = [k \in Rows |-> [id |-> -1, data |-> NULL]] /\ count = 0 /\ counter = 0
  BY DEF Array!Init, Array!AllFree, Array!Free, Rows
<1>2. Filled = {}
  BY <1>1 DEF Filled
<1>3. -1 \in -1 .. MaxIds /\ 0 \in 0 .. MaxIds /\ 0 \in 0 .. Capacity
  BY ArrayConstants
<1>4. Array!TypeOK
  BY <1>1, <1>3 DEF Array!TypeOK, Rows
<1> QED BY <1>1, <1>2, <1>4, FS_EmptySet DEF ArrayInv

LEMMA ArrayStep == ArrayInv /\ [Array!Next]_Array!vars => ArrayInv'
<1> SUFFICES ASSUME ArrayInv, [Array!Next]_Array!vars PROVE ArrayInv'
  OBVIOUS
<1>0. ArrayFacts /\ Rowed
  BY ArrayRows, RowedIs
<1>1. ASSUME NEW c \in Contacts, Array!Create(c) PROVE ArrayInv'
  <2>1. CASE Array!Room
    <3> DEFINE p == Array!findContactByID(-1)
    <3>1. p \in Rows /\ places[p].id = -1
      BY <2>1, RoomIs
    <3>2. /\ places' = [places EXCEPT ![p] = [id |-> counter, data |-> c]]
          /\ count' = count + 1 /\ counter' = counter + 1 /\ counter < MaxIds
      BY <1>1, <2>1 DEF Array!Create
    <3> HIDE DEF p
    <3>3. counter \in -1 .. MaxIds /\ counter + 1 \in 0 .. MaxIds /\ counter # -1
      BY <1>0, <3>2, ArrayConstants DEF ArrayFacts
    <3>4. count + 1 \in 0 .. Capacity
      BY <1>0, <2>1, ArrayConstants DEF ArrayFacts, Array!Room
    <3>5. Array!TypeOK'
      BY <3>1, <3>2, <3>3, <3>4 DEF ArrayInv, Array!TypeOK, Rows
    <3>6. count' = Cardinality(Filled')
      BY <3>1, <3>2, <3>3, FilledMore DEF ArrayInv
    <3>7. \A k \in Rows : places'[k] = IF k = p THEN [id |-> counter, data |-> c] ELSE places[k]
      BY <1>0, <3>1, <3>2 DEF ArrayFacts
    <3>8. \A k \in Rows : places[k].id < counter /\ places[k].id \in Int
      BY <1>0 DEF ArrayInv, ArrayFacts
    <3>9. \A k \in Rows : places'[k].id < counter'
      BY <3>2, <3>3, <3>7, <3>8
    <3>10. \A j, k \in Rows : places'[j].id = places'[k].id /\ places'[j].id # -1 => j = k
      BY <3>7, <3>8 DEF ArrayInv
    <3> QED BY <3>5, <3>6, <3>9, <3>10 DEF ArrayInv
  <2>2. CASE ~Array!Room
    <3>1. UNCHANGED <<places, count>> /\ counter' = counter + 1 /\ counter < MaxIds
      BY <1>1, <2>2 DEF Array!Create
    <3>2. counter + 1 \in 0 .. MaxIds /\ \A k \in Rows : places[k].id < counter + 1
      BY <1>0, <3>1, ArrayConstants DEF ArrayFacts, ArrayInv
    <3> QED BY <3>1, <3>2 DEF ArrayInv, Array!TypeOK, Filled
  <2> QED BY <2>1, <2>2
<1>2. ASSUME NEW n \in 0 .. MaxIds, NEW c \in Contacts, Array!Edit(n, c) PROVE ArrayInv'
  <2> DEFINE p == Array!findContactByID(n)
  <2>1. p \in Rows /\ places[p].id = n
    BY <1>2, RowFound DEF Array!Edit
  <2>2. /\ places' = [places EXCEPT ![p].data = c] /\ UNCHANGED <<count, counter>>
    BY <1>2 DEF Array!Edit
  <2> HIDE DEF p
  <2>3. \A k \in Rows : places'[k].id = places[k].id
    BY <1>0, <2>1, <2>2 DEF ArrayFacts
  <2>4. Filled' = Filled
    BY <2>3 DEF Filled
  <2>5. Array!TypeOK'
    BY <2>1, <2>2 DEF ArrayInv, Array!TypeOK, Rows
  <2> QED BY <2>2, <2>3, <2>4, <2>5 DEF ArrayInv
<1>3. ASSUME NEW n \in 0 .. MaxIds, Array!deleteContactByID(n), Array!Places(n) # {} PROVE ArrayInv'
  <2> DEFINE p == Array!findContactByID(n)
  <2>1. p \in Rows /\ places[p].id = n /\ n # -1
    BY <1>3, RowFound
  <2>2. /\ places' = [places EXCEPT ![p] = Array!Free] /\ count' = count - 1 /\ UNCHANGED counter
    BY <1>3 DEF Array!deleteContactByID
  <2> HIDE DEF p
  <2>3. count' = Cardinality(Filled')
    BY <2>1, <2>2, FilledLess DEF ArrayInv
  <2>4. count - 1 \in 0 .. Capacity
    <3>1. p \in Filled
      BY <2>1 DEF Filled
    <3>2. Cardinality(Filled) # 0
      BY <1>0, <3>1, FS_EmptySet DEF ArrayFacts
    <3>3. count # 0 /\ count \in 0 .. Capacity /\ Capacity \in Nat
      BY <1>0, <3>2, ArrayConstants DEF ArrayInv, ArrayFacts
    <3> QED BY <3>3
  <2>5. -1 \in -1 .. MaxIds
    BY ArrayConstants
  <2>6. Array!TypeOK'
    BY <2>1, <2>2, <2>4, <2>5 DEF ArrayInv, Array!TypeOK, Rows, Array!Free
  <2>7. \A k \in Rows : places'[k] = IF k = p THEN [id |-> -1, data |-> NULL] ELSE places[k]
    BY <1>0, <2>1, <2>2 DEF ArrayFacts, Array!Free
  <2>8. \A k \in Rows : places'[k].id < counter'
    BY <1>0, <2>2, <2>7 DEF ArrayInv, ArrayFacts
  <2>9. \A j, k \in Rows : places'[j].id = places'[k].id /\ places'[j].id # -1 => j = k
    BY <2>7 DEF ArrayInv
  <2> QED BY <2>3, <2>6, <2>8, <2>9 DEF ArrayInv
<1>4. CASE Array!Clear
  <2>1. /\ places' = [k \in Rows |-> [id |-> -1, data |-> NULL]] /\ count' = 0 /\ UNCHANGED counter
    BY <1>4 DEF Array!Clear, Array!AllFree, Array!Free, Rows
  <2>2. Filled' = {}
    BY <2>1 DEF Filled
  <2>3. -1 \in -1 .. MaxIds /\ 0 \in 0 .. Capacity /\ -1 < counter
    BY <1>0, ArrayConstants DEF ArrayFacts
  <2>4. Array!TypeOK'
    BY <2>1, <2>3 DEF ArrayInv, Array!TypeOK, Rows
  <2> QED BY <2>1, <2>2, <2>3, <2>4, FS_EmptySet DEF ArrayInv
<1>5. CASE UNCHANGED <<places, count, counter>>
  BY <1>5 DEF ArrayInv, Array!TypeOK, Filled
<1> QED
  BY <1>1, <1>2, <1>3, <1>4, <1>5 DEF Array!Next, Array!Show, Array!deleteContactByID, Array!vars

\* The array as a contact book.
Kept == [n \in {places[k].id : k \in DOMAIN places} \ {-1} |-> Array!ResultOf(n)]

KeptIs ==
    /\ DOMAIN Kept = {places[k].id : k \in Filled}
    /\ \A k \in Filled : Kept[places[k].id] = places[k].data
    /\ Kept = [n \in DOMAIN Kept |-> Kept[n]]
    /\ \A n \in 0 .. MaxIds : Array!Places(n) = {} <=> n \notin DOMAIN Kept
    /\ \A n \in DOMAIN Kept : n \in 0 .. MaxIds /\ Array!ResultOf(n) = Kept[n]

LEMMA KeptHolds == ArrayInv => KeptIs
<1> SUFFICES ASSUME ArrayInv PROVE KeptIs
  OBVIOUS
<1>1. DOMAIN places = Rows /\ Rowed /\ ArrayFacts
  BY ArrayRows, RowedIs DEF ArrayFacts
<1>2. DOMAIN Kept = {places[k].id : k \in Rows} \ {-1}
  BY <1>1 DEF Kept
<1>3. DOMAIN Kept = {places[k].id : k \in Filled}
  BY <1>2 DEF Filled
<1>4. \A n \in DOMAIN Kept : Kept[n] = Array!ResultOf(n)
  BY DEF Kept
<1>5. \A k \in Filled : Kept[places[k].id] = places[k].data
  BY <1>1, <1>3, <1>4 DEF Rowed, Filled
<1>6. ASSUME NEW n \in 0 .. MaxIds PROVE Array!Places(n) = {} <=> n \notin DOMAIN Kept
  <2>1. n # -1
    OBVIOUS
  <2> QED BY <1>1, <1>2, <2>1 DEF Array!Places
<1>7. \A n \in DOMAIN Kept : n \in 0 .. MaxIds
  BY <1>1, <1>2, ArrayConstants DEF ArrayFacts
<1>8. Kept = [n \in DOMAIN Kept |-> Kept[n]]
  BY DEF Kept
<1> QED BY <1>3, <1>4, <1>5, <1>6, <1>7, <1>8 DEF KeptIs

LEMMA ArrayBookBegins == Array!Init => Array!Book!Init
<1> SUFFICES ASSUME Array!Init PROVE Array!Book!Init
  OBVIOUS
<1>1. KeptIs /\ ArrayInv
  BY ArrayBegins, KeptHolds
<1>2. places = [k \in Rows |-> [id |-> -1, data |-> NULL]] /\ found = NULL
  BY DEF Array!Init, Array!AllFree, Array!Free, Rows
<1>3. DOMAIN Kept = {}
  BY <1>1, <1>2 DEF KeptIs, Filled
<1>4. Kept = [n \in {} |-> NULL]
  BY <1>1, <1>3 DEF KeptIs
<1> QED BY <1>2, <1>4 DEF Array!Book!Init, Array!Book!Empty, Kept

LEMMA ArrayBookStep ==
    ArrayInv /\ ArrayInv' /\ [Array!Next]_Array!vars => [Array!Book!Next]_<<Kept, found>>
<1> SUFFICES ASSUME ArrayInv, ArrayInv', [Array!Next]_Array!vars
    PROVE  [Array!Book!Next]_<<Kept, found>>
  OBVIOUS
<1>0. ArrayFacts /\ Rowed /\ KeptIs /\ KeptIs' /\ ArrayFacts'
  BY ArrayRows, RowedIs, KeptHolds, PTL
<1>1. ASSUME NEW c \in Contacts, Array!Create(c) PROVE Array!Book!Next
  <2>0. counter \in 0 .. MaxIds /\ counter \notin DOMAIN Kept
    BY <1>0 DEF ArrayFacts, KeptIs, Filled, ArrayInv
  <2>1. CASE Array!Room
    <3> DEFINE p == Array!findContactByID(-1)
    <3>1. p \in Rows /\ places[p].id = -1
      BY <2>1, RoomIs
    <3>2. /\ places' = [places EXCEPT ![p] = [id |-> counter, data |-> c]]
          /\ found' = c /\ counter # -1
      BY <1>1, <2>0, <2>1 DEF Array!Create
    <3> HIDE DEF p
    <3>3. \A k \in Rows : places'[k] = IF k = p THEN [id |-> counter, data |-> c] ELSE places[k]
      BY <1>0, <3>1, <3>2 DEF ArrayFacts
    <3>4. Filled' = Filled \cup {p} /\ p \notin Filled /\ Filled \subseteq Rows
      BY <3>1, <3>2, <3>3 DEF Filled
    <3>5. DOMAIN Kept' = DOMAIN Kept \cup {counter}
      BY <1>0, <3>1, <3>3, <3>4 DEF KeptIs
    <3>6. ASSUME NEW x \in DOMAIN Kept' PROVE Kept'[x] = IF x = counter THEN c ELSE Kept[x]
      <4>1. PICK k \in Filled' : x = places'[k].id
        BY <1>0 DEF KeptIs
      <4>2. Kept'[x] = places'[k].data
        BY <1>0, <4>1 DEF KeptIs
      <4>3. CASE k = p
        BY <3>1, <3>3, <4>1, <4>2, <4>3
      <4>4. CASE k # p
        <5>1. k \in Filled /\ places'[k] = places[k]
          BY <3>3, <3>4, <4>1, <4>4
        <5>2. x \in DOMAIN Kept /\ Kept[x] = places[k].data
          BY <1>0, <4>1, <5>1 DEF KeptIs
        <5> QED BY <2>0, <4>2, <5>1, <5>2
      <4> QED BY <4>3, <4>4
    <3>7. Kept' = [x \in DOMAIN Kept \cup {counter} |-> IF x = counter THEN c ELSE Kept[x]]
      BY <1>0, <3>5, <3>6 DEF KeptIs
    <3>8. ~(counter < 0)
      BY <2>0, ArrayConstants
    <3>9. Array!Book!Save(counter, c)
      BY <3>2, <3>7, <3>8 DEF Array!Book!Save, Kept
    <3> QED BY <2>0, <3>9 DEF Array!Book!Next
  <2>2. CASE ~Array!Room
    <3>1. places' = places /\ found' = NULL
      BY <1>1, <2>2 DEF Array!Create
    <3>2. Kept' = Kept
      BY <3>1 DEF Kept, Array!ResultOf, Array!Places, Array!findContactByID
    <3>3. Array!Book!Find(counter)
      BY <2>0, <3>1, <3>2 DEF Array!Book!Find, Kept
    <3> QED BY <2>0, <3>3 DEF Array!Book!Next
  <2> QED BY <2>1, <2>2
<1>2. ASSUME NEW n \in 0 .. MaxIds, NEW c \in Contacts, Array!Edit(n, c) PROVE Array!Book!Next
  <2> DEFINE p == Array!findContactByID(n)
  <2>1. p \in Rows /\ places[p].id = n /\ n # -1
    BY <1>2, RowFound DEF Array!Edit
  <2>2. places' = [places EXCEPT ![p].data = c] /\ found' = c
    BY <1>2 DEF Array!Edit
  <2> HIDE DEF p
  <2>3. \A k \in Rows : places'[k].id = places[k].id /\ places'[k].data = IF k = p THEN c ELSE places[k].data
    BY <1>0, <2>1, <2>2 DEF ArrayFacts
  <2>4. Filled' = Filled /\ Filled \subseteq Rows /\ p \in Filled
    BY <2>1, <2>3 DEF Filled
  <2>5. DOMAIN Kept' = DOMAIN Kept /\ n \in DOMAIN Kept
    BY <1>0, <2>1, <2>3, <2>4 DEF KeptIs
  <2>6. ASSUME NEW x \in DOMAIN Kept PROVE Kept'[x] = IF x = n THEN c ELSE Kept[x]
    <3>1. PICK k \in Filled : x = places[k].id
      BY <1>0 DEF KeptIs
    <3>2. Kept[x] = places[k].data /\ Kept'[x] = places'[k].data
      BY <1>0, <2>3, <2>4, <3>1 DEF KeptIs
    <3>3. x = n <=> k = p
      BY <2>1, <2>4, <3>1 DEF ArrayInv
    <3> QED BY <2>3, <2>4, <3>2, <3>3
  <2>7. Kept' = [x \in DOMAIN Kept \cup {n} |-> IF x = n THEN c ELSE Kept[x]]
    <3>1. DOMAIN Kept \cup {n} = DOMAIN Kept
      BY <2>5
    <3> QED BY <1>0, <2>5, <2>6, <3>1 DEF KeptIs
  <2>8. ~(n < 0)
    BY ArrayConstants
  <2>9. Array!Book!Save(n, c)
    BY <2>2, <2>7, <2>8 DEF Array!Book!Save, Kept
  <2> QED BY <2>9 DEF Array!Book!Next
<1>3. ASSUME NEW n \in 0 .. MaxIds, Array!Show(n) PROVE Array!Book!Next
  <2>1. places' = places /\ found' = Array!ResultOf(n)
    BY <1>3 DEF Array!Show
  <2>2. Kept' = Kept
    BY <2>1 DEF Kept, Array!ResultOf, Array!Places, Array!findContactByID
  <2>3. Array!ResultOf(n) = IF n \in DOMAIN Kept THEN Kept[n] ELSE NULL
    BY <1>0 DEF KeptIs, Array!ResultOf
  <2>4. Array!Book!Find(n)
    BY <2>1, <2>2, <2>3 DEF Array!Book!Find, Kept
  <2> QED BY <2>4 DEF Array!Book!Next
<1>4. ASSUME NEW n \in 0 .. MaxIds, Array!deleteContactByID(n) PROVE Array!Book!Next
  <2>1. CASE Array!Places(n) = {}
    <3>1. places' = places /\ found' = 0 /\ n \notin DOMAIN Kept
      BY <1>0, <1>4, <2>1 DEF KeptIs, Array!deleteContactByID
    <3>2. Kept' = Kept
      BY <3>1 DEF Kept, Array!ResultOf, Array!Places, Array!findContactByID
    <3>3. Kept' = [x \in DOMAIN Kept \ {n} |-> Kept[x]]
      BY <1>0, <3>1, <3>2 DEF KeptIs
    <3>4. Array!Book!Delete(n)
      BY <3>1, <3>3 DEF Array!Book!Delete, Kept
    <3> QED BY <3>4 DEF Array!Book!Next
  <2>2. CASE Array!Places(n) # {}
    <3> DEFINE p == Array!findContactByID(n)
    <3>1. p \in Rows /\ places[p].id = n /\ n # -1 /\ n \in DOMAIN Kept
      BY <1>0, <2>2, RowFound DEF KeptIs
    <3>2. places' = [places EXCEPT ![p] = [id |-> -1, data |-> NULL]] /\ found' = 1
      BY <1>4, <2>2 DEF Array!deleteContactByID, Array!Free
    <3> HIDE DEF p
    <3>3. \A k \in Rows : places'[k] = IF k = p THEN [id |-> -1, data |-> NULL] ELSE places[k]
      BY <1>0, <3>1, <3>2 DEF ArrayFacts
    <3>4. Filled' = Filled \ {p} /\ Filled \subseteq Rows /\ p \in Filled
      BY <3>1, <3>3 DEF Filled
    <3>5. \A k \in Filled : k # p <=> places[k].id # n
      BY <3>1, <3>4 DEF ArrayInv
    <3>6. DOMAIN Kept' = DOMAIN Kept \ {n}
      BY <1>0, <3>3, <3>4, <3>5 DEF KeptIs
    <3>7. ASSUME NEW x \in DOMAIN Kept \ {n} PROVE Kept'[x] = Kept[x]
      <4>1. PICK k \in Filled : x = places[k].id
        BY <1>0 DEF KeptIs
      <4>2. k \in Filled' /\ places'[k] = places[k]
        BY <3>1, <3>3, <3>4, <4>1
      <4> QED BY <1>0, <4>1, <4>2 DEF KeptIs
    <3>8. Kept' = [x \in DOMAIN Kept \ {n} |-> Kept[x]]
      BY <1>0, <3>6, <3>7 DEF KeptIs
    <3>9. Array!Book!Delete(n)
      BY <3>1, <3>2, <3>8 DEF Array!Book!Delete, Kept
    <3> QED BY <3>9 DEF Array!Book!Next
  <2> QED BY <2>1, <2>2
<1>5. CASE Array!Clear
  <2>1. places' = [k \in Rows |-> [id |-> -1, data |-> NULL]] /\ found' = found
    BY <1>5 DEF Array!Clear, Array!AllFree, Array!Free, Rows
  <2>2. Filled' = {}
    BY <2>1 DEF Filled
  <2>3. Kept' = [n \in {} |-> NULL]
    <3>1. DOMAIN Kept' = {}
      BY <1>0, <2>2 DEF KeptIs
    <3> QED BY <1>0, <3>1 DEF KeptIs
  <2>4. Array!Book!Clear
    BY <2>1, <2>3 DEF Array!Book!Clear, Array!Book!Empty, Kept
  <2> QED BY <2>4 DEF Array!Book!Next
<1>6. CASE UNCHANGED Array!vars
  BY <1>6 DEF Array!vars, Kept, Array!ResultOf, Array!Places, Array!findContactByID
<1> QED BY <1>1, <1>2, <1>3, <1>4, <1>5, <1>6 DEF Array!Next

-----------------------------------------------------------------------------
(* A linked list as a sequence of nodes. *)

In(m, s) == {s[k] : k \in 1 .. m}

\* The nodes s[1] to s[m], each once and each with its link to the next, are the list that
\* begins at start.
Linked(m, s, start, field) ==
    /\ m \in Nat /\ s \in [1 .. m -> Nodes]
    /\ \A j, k \in 1 .. m : s[j] = s[k] => j = k
    /\ start = (IF m = 0 THEN NULL ELSE s[1])
    /\ \A k \in 1 .. m : field[s[k]] = (IF k = m THEN NULL ELSE s[k + 1])

LEMMA NodeConstants ==
    /\ IsFiniteSet(Nodes) /\ NULL \notin Nodes /\ Cardinality(Nodes) \in Nat
    /\ NULL \notin Contacts \cup {0, 1}
<1>1. IsFiniteSet(Nodes) /\ NULL \notin Nodes /\ NULL \notin Contacts \cup {0, 1}
  BY InstanceAssumption DEF ConstantAssumption
<1> QED BY <1>1, FS_CardinalityType

LEMMA LinkedFits ==
    ASSUME NEW m, NEW s, NEW start, NEW field, Linked(m, s, start, field)
    PROVE  m \in Nat /\ m <= Cardinality(Nodes)
<1>1. IsFiniteSet(1 .. m) /\ Cardinality(1 .. m) = m
  BY FS_Interval DEF Linked
<1>2. s \in Injection(1 .. m, Nodes)
  BY DEF Linked, Injection, IsInjective
<1>3. Cardinality(1 .. m) <= Cardinality(Nodes)
  BY <1>1, <1>2, FS_Injection, NodeConstants
<1> QED BY <1>1, <1>3 DEF Linked

\* A place of the list, as Chain counts them.
Place(n, f, start, field) ==
    [k \in 0 .. n |-> IF k = 0 THEN start ELSE IF f[k - 1] = NULL THEN NULL ELSE field[f[k - 1]]]

LEMMA PlacesAre ==
    ASSUME NEW m, NEW s, NEW start, NEW field, Linked(m, s, start, field), NEW n \in Nat,
           NEW f, f = Place(n, f, start, field)
    PROVE  \A k \in 0 .. n : f[k] = IF k < m THEN s[k + 1] ELSE NULL
<1> DEFINE T == {k \in 0 .. n : f[k] = IF k < m THEN s[k + 1] ELSE NULL}
<1>1. \A k \in 0 .. n : f[k] = IF k = 0 THEN start ELSE IF f[k - 1] = NULL THEN NULL ELSE field[f[k - 1]]
  BY DEF Place
<1>2. 0 \in T
  BY <1>1 DEF Linked
<1>3. ASSUME NEW k \in 0 .. n, k \in T, k < n PROVE k + 1 \in T
  <2>1. k + 1 \in 0 .. n /\ k + 1 # 0 /\ (k + 1) - 1 = k
    BY <1>3
  <2>2. f[k + 1] = IF f[k] = NULL THEN NULL ELSE field[f[k]]
    BY <1>1, <2>1
  <2>3. CASE k < m
    <3>1. f[k] = s[k + 1] /\ k + 1 \in 1 .. m /\ s[k + 1] \in Nodes
      BY <1>3, <2>3 DEF Linked
    <3>2. f[k + 1] = field[s[k + 1]]
      BY <2>2, <3>1, NodeConstants
    <3>3. field[s[k + 1]] = IF k + 1 = m THEN NULL ELSE s[(k + 1) + 1]
      BY <3>1 DEF Linked
    <3>4. k + 1 < m <=> k + 1 # m
      BY <2>3 DEF Linked
    <3> QED BY <2>1, <3>2, <3>3, <3>4
  <2>4. CASE ~(k < m)
    <3>1. f[k] = NULL
      BY <1>3, <2>4
    <3>2. m \in Nat /\ ~(k + 1 < m)
      BY <2>4 DEF Linked
    <3> QED BY <2>1, <2>2, <3>1, <3>2
  <2> QED BY <2>3, <2>4
<1> HIDE DEF T
<1>4. \A k \in 0 .. n : k \in T
  BY <1>2, <1>3, UpTo
<1> QED BY <1>4 DEF T

LEMMA PlacesExist ==
    ASSUME NEW m, NEW s, NEW start, NEW field, Linked(m, s, start, field), NEW n \in Nat
    PROVE  \E f : f = Place(n, f, start, field)
<1> DEFINE g == [k \in 0 .. n |-> IF k < m THEN s[k + 1] ELSE NULL]
<1>1. ASSUME NEW k \in 0 .. n
      PROVE  g[k] = IF k = 0 THEN start ELSE IF g[k - 1] = NULL THEN NULL ELSE field[g[k - 1]]
  <2>1. CASE k = 0
    BY <2>1 DEF Linked
  <2>2. CASE k # 0
    <3>1. k - 1 \in 0 .. n /\ (k - 1) + 1 = k
      BY <2>2
    <3>2. CASE k - 1 < m
      <4>1. k \in 1 .. m /\ s[k] \in Nodes
        BY <2>2, <3>2 DEF Linked
      <4>2. g[k - 1] = s[k] /\ g[k - 1] # NULL
        BY <3>1, <3>2, <4>1, NodeConstants
      <4>3. field[s[k]] = IF k = m THEN NULL ELSE s[k + 1]
        BY <4>1 DEF Linked
      <4>4. k < m <=> k # m
        BY <4>1 DEF Linked
      <4>5. g[k] = IF k < m THEN s[k + 1] ELSE NULL
        OBVIOUS
      <4> HIDE DEF g
      <4> QED BY <2>2, <4>2, <4>3, <4>4, <4>5
    <3>3. CASE ~(k - 1 < m)
      <4>1. ~(k < m)
        BY <2>2, <3>3 DEF Linked
      <4>2. g[k] = NULL /\ g[k - 1] = NULL
        BY <3>1, <3>3, <4>1
      <4> HIDE DEF g
      <4> QED BY <2>2, <4>2
    <3> QED BY <3>2, <3>3
  <2> QED BY <2>1, <2>2
<1>2. g = [k \in 0 .. n |-> g[k]]
  OBVIOUS
<1> HIDE DEF g
<1>3. g = Place(n, g, start, field)
  BY <1>1, <1>2 DEF Place
<1> QED BY <1>3

\* What is read along the links, up to NULL, are the nodes of the list.
Reached(n, start, field) == CHOOSE g : g = Place(n, g, start, field)
Run(n, f) == [k \in 1 .. Cardinality({j \in 0 .. n : f[j] # NULL}) |-> f[k - 1]]

LEMMA RunIs ==
    ASSUME NEW m, NEW s, NEW start, NEW field, Linked(m, s, start, field)
    PROVE  Run(Cardinality(Nodes), Reached(Cardinality(Nodes), start, field)) = s
<1> DEFINE n == Cardinality(Nodes)
           f == Reached(n, start, field)
           K == {j \in 0 .. n : f[j] # NULL}
<1>1. n \in Nat /\ m \in Nat /\ m <= n
  BY LinkedFits, NodeConstants
<1>2. f = CHOOSE g : g = Place(n, g, start, field)
  BY DEF Reached
<1> HIDE DEF f
<1>3. f = Place(n, f, start, field)
  BY <1>1, <1>2, PlacesExist
<1>4. \A k \in 0 .. n : f[k] = IF k < m THEN s[k + 1] ELSE NULL
  <2>1. Linked(m, s, start, field)
    OBVIOUS
  <2> QED BY ONLY <1>1, <1>3, <2>1, PlacesAre
<1>5. \A k \in 1 .. m : s[k] # NULL
  BY NodeConstants DEF Linked
<1>6. K = 0 .. m - 1
  BY <1>1, <1>4, <1>5
<1>7. Cardinality(K) = m
  <2>1. 0 \in Int /\ m - 1 \in Int /\ Cardinality(0 .. m - 1) = IF 0 > m - 1 THEN 0 ELSE m - 1 - 0 + 1
    BY <1>1, FS_Interval
  <2>2. Cardinality(0 .. m - 1) = m
    BY <1>1, <2>1
  <2> QED BY <1>6, <2>2
<1>8. \A k \in 1 .. m : f[k - 1] = s[k]
  BY <1>1, <1>4
<1>9. s = [k \in 1 .. m |-> s[k]]
  BY DEF Linked
<1> HIDE DEF K
<1>10. [k \in 1 .. Cardinality(K) |-> f[k - 1]] = s
  BY <1>7, <1>8, <1>9
<1>11. Run(n, f) = s
  BY <1>10 DEF Run, K
<1> QED BY <1>11 DEF f

LEMMA AlongIs ==
    ASSUME NEW m, NEW s, NEW start, NEW field, Linked(m, s, start, field)
    PROVE  Along(field, start) = s
<1>1. Along(field, start) = Run(Cardinality(Nodes), Reached(Cardinality(Nodes), start, field))
  BY DEF Along, Run, Reached, Place
<1> QED BY <1>1, RunIs

LEMMA ChainIs ==
    ASSUME NEW m, NEW s, Linked(m, s, first, link)
    PROVE  Queue!Chain = s
<1> DEFINE n == Cardinality(Nodes)
           f == CHOOSE g : g = Place(n, g, first, link)
<1>1. Queue!Cardinality(Nodes) = n
  BY CardinalityIs
<1>2. Queue!Chain = [k \in 1 .. Cardinality({j \in 0 .. n : f[j] # NULL}) |-> f[k - 1]]
  BY <1>1, CardinalityIs DEF Queue!Chain, Place
<1>3. f = Reached(n, first, link)
  BY DEF Reached
<1> HIDE DEF f
<1>4. Queue!Chain = Run(n, f)
  BY <1>2 DEF Run
<1>5. Run(Cardinality(Nodes), Reached(Cardinality(Nodes), first, link)) = s
  BY RunIs
<1> QED BY <1>3, <1>4, <1>5

\* A node put into a sequence, and one cut out of it.
Put(m, s, k, n) == [j \in 1 .. m + 1 |-> IF j < k THEN s[j] ELSE IF j = k THEN n ELSE s[j - 1]]
Cut(m, s, k) == [j \in 1 .. m - 1 |-> IF j < k THEN s[j] ELSE s[j + 1]]

IsPut(m, s, k, n, t) ==
    /\ t \in [1 .. m + 1 -> Nodes] /\ t[k] = n
    /\ \A j \in 1 .. m : j < k => t[j] = s[j]
    /\ \A j \in 1 .. m : j >= k => t[j + 1] = s[j]
    /\ \A j \in 1 .. m + 1 : \/ j \in 1 .. m /\ j < k
                             \/ j = k
                             \/ j - 1 \in 1 .. m /\ j - 1 >= k /\ (j - 1) + 1 = j
    /\ In(m + 1, t) = In(m, s) \cup {n}

LEMMA PutIs ==
    ASSUME NEW m \in Nat, NEW s \in [1 .. m -> Nodes], NEW k \in 1 .. m + 1, NEW n \in Nodes
    PROVE  IsPut(m, s, k, n, Put(m, s, k, n))
<1> DEFINE t == Put(m, s, k, n)
<1>1. \A j \in 1 .. m + 1 : \/ j \in 1 .. m /\ j < k
                            \/ j = k
                            \/ j - 1 \in 1 .. m /\ j - 1 >= k /\ (j - 1) + 1 = j
  OBVIOUS
<1>2. \A j \in 1 .. m : j \in 1 .. m + 1 /\ j + 1 \in 1 .. m + 1 /\ (j + 1) - 1 = j
  OBVIOUS
<1>3. \A j \in 1 .. m + 1 : t[j] = IF j < k THEN s[j] ELSE IF j = k THEN n ELSE s[j - 1]
  BY DEF Put
<1>4. t \in [1 .. m + 1 -> Nodes]
  BY <1>1 DEF Put
<1> HIDE DEF t
<1>5. t[k] = n /\ \A j \in 1 .. m : (j < k => t[j] = s[j]) /\ (j >= k => t[j + 1] = s[j])
  BY <1>2, <1>3
<1>6. In(m + 1, t) = In(m, s) \cup {n}
  <2>1. ASSUME NEW x \in In(m + 1, t) PROVE x \in In(m, s) \cup {n}
    BY <1>1, <1>3, <2>1 DEF In
  <2>2. ASSUME NEW j \in 1 .. m PROVE s[j] \in In(m + 1, t)
    <3>1. j < k \/ j >= k
      OBVIOUS
    <3> QED BY <1>2, <1>5, <3>1 DEF In
  <2>3. n \in In(m + 1, t)
    BY <1>5 DEF In
  <2> QED BY <2>1, <2>2, <2>3 DEF In
<1>7. IsPut(m, s, k, n, t)
  BY <1>1, <1>4, <1>5, <1>6 DEF IsPut
<1> QED BY <1>7 DEF t

LEMMA CutIs ==
    ASSUME NEW m \in Nat, NEW s \in [1 .. m -> Nodes], NEW k \in 1 .. m,
           \A i, j \in 1 .. m : s[i] = s[j] => i = j
    PROVE  /\ m - 1 \in Nat /\ Cut(m, s, k) \in [1 .. m - 1 -> Nodes]
           /\ \A j \in 1 .. m - 1 : j < k => Cut(m, s, k)[j] = s[j]
           /\ \A j \in 1 .. m - 1 : j >= k => Cut(m, s, k)[j] = s[j + 1]
           /\ In(m - 1, Cut(m, s, k)) = In(m, s) \ {s[k]}
<1> DEFINE t == Cut(m, s, k)
<1>1. \A j \in 1 .. m - 1 : j \in 1 .. m /\ j + 1 \in 1 .. m
  OBVIOUS
<1>2. \A j \in 1 .. m - 1 : t[j] = IF j < k THEN s[j] ELSE s[j + 1]
  BY DEF Cut
<1>3. t \in [1 .. m - 1 -> Nodes]
  BY <1>1 DEF Cut
<1> HIDE DEF t
<1>4. \A j \in 1 .. m - 1 : (j < k => t[j] = s[j]) /\ (j >= k => t[j] = s[j + 1])
  BY <1>2
<1>5. In(m - 1, t) = In(m, s) \ {s[k]}
  <2>1. ASSUME NEW x \in In(m - 1, t) PROVE x \in In(m, s) \ {s[k]}
    <3>1. PICK j \in 1 .. m - 1 : x = t[j]
      BY DEF In
    <3>2. j # k => s[j] # s[k]
      BY <1>1
    <3>3. j >= k => s[j + 1] # s[k]
      BY <1>1
    <3> QED BY <1>1, <1>2, <3>1, <3>2, <3>3 DEF In
  <2>2. ASSUME NEW x \in In(m, s) \ {s[k]} PROVE x \in In(m - 1, t)
    <3>0. PICK j \in 1 .. m : x = s[j] /\ j # k
      BY DEF In
    <3>1. CASE j < k
      <4>1. j \in 1 .. m - 1
        BY <3>1
      <4> QED BY <1>4, <3>0, <3>1, <4>1 DEF In
    <3>2. CASE j > k
      <4>1. j - 1 \in 1 .. m - 1 /\ j - 1 >= k /\ (j - 1) + 1 = j
        BY <3>2
      <4> QED BY <1>4, <3>0, <4>1 DEF In
    <3> QED BY <3>0, <3>1, <3>2
  <2> QED BY <2>1, <2>2
<1> QED BY <1>3, <1>4, <1>5 DEF t

LEMMA LinkedPut ==
    ASSUME NEW m, NEW s, NEW start, NEW field, Linked(m, s, start, field),
           NEW k \in 1 .. m + 1, NEW n \in Nodes, n \notin In(m, s), NEW start2, NEW field2,
           start2 = IF k = 1 THEN n ELSE start,
           field2[n] = IF k = m + 1 THEN NULL ELSE s[k],
           \A j \in 1 .. m : field2[s[j]] = IF j = k - 1 THEN n ELSE field[s[j]]
    PROVE  Linked(m + 1, Put(m, s, k, n), start2, field2)
<1> DEFINE t == Put(m, s, k, n)
<1>1. m \in Nat /\ s \in [1 .. m -> Nodes] /\ m + 1 \in Nat /\ m + 1 # 0
  BY DEF Linked
<1>2. /\ t \in [1 .. m + 1 -> Nodes] /\ t[k] = n
      /\ \A j \in 1 .. m : j < k => t[j] = s[j]
      /\ \A j \in 1 .. m : j >= k => t[j + 1] = s[j]
      /\ \A j \in 1 .. m + 1 : \/ j \in 1 .. m /\ j < k
                               \/ j = k
                               \/ j - 1 \in 1 .. m /\ j - 1 >= k /\ (j - 1) + 1 = j
  <2>1. IsPut(m, s, k, n, t)
    BY <1>1, PutIs
  <2> HIDE DEF t
  <2> QED BY <2>1 DEF IsPut
<1> HIDE DEF t
<1>3. \A j \in 1 .. m : s[j] # n
  BY DEF In
<1>4. ASSUME NEW i \in 1 .. m + 1, NEW j \in 1 .. m + 1, t[i] = t[j] PROVE i = j
  <2>1. \A a, b \in 1 .. m : s[a] = s[b] => a = b
    BY DEF Linked
  <2>2. CASE i = k
    <3>1. j # k => \E a \in 1 .. m : t[j] = s[a]
      BY <1>2
    <3> QED BY <1>2, <1>3, <1>4, <2>2, <3>1
  <2>3. CASE j = k
    <3>1. i # k => \E a \in 1 .. m : t[i] = s[a]
      BY <1>2
    <3> QED BY <1>2, <1>3, <1>4, <2>3, <3>1
  <2>4. CASE i \in 1 .. m /\ i < k
    <3>1. CASE j \in 1 .. m /\ j < k
      BY <1>2, <1>4, <2>1, <2>4, <3>1
    <3>2. CASE j - 1 \in 1 .. m /\ j - 1 >= k /\ (j - 1) + 1 = j
      <4>1. t[i] = s[i] /\ t[j] = s[j - 1]
        BY <1>2, <2>4, <3>2
      <4>2. i = j - 1
        BY <1>4, <2>1, <2>4, <3>2, <4>1
      <4> QED BY <2>4, <3>2, <4>2
    <3> QED BY <1>2, <2>3, <3>1, <3>2
  <2>5. CASE i - 1 \in 1 .. m /\ i - 1 >= k /\ (i - 1) + 1 = i
    <3>1. CASE j \in 1 .. m /\ j < k
      <4>1. t[j] = s[j] /\ t[i] = s[i - 1]
        BY <1>2, <2>5, <3>1
      <4>2. j = i - 1
        BY <1>4, <2>1, <2>5, <3>1, <4>1
      <4> QED BY <2>5, <3>1, <4>2
    <3>2. CASE j - 1 \in 1 .. m /\ j - 1 >= k /\ (j - 1) + 1 = j
      <4>1. t[i] = s[i - 1] /\ t[j] = s[j - 1]
        BY <1>2, <2>5, <3>2
      <4>2. i - 1 = j - 1
        BY <1>4, <2>1, <2>5, <3>2, <4>1
      <4> QED BY <2>5, <3>2, <4>2
    <3> QED BY <1>2, <2>3, <3>1, <3>2
  <2> QED BY <1>2, <2>2, <2>4, <2>5
<1>5. start2 = t[1]
  <2>1. CASE k = 1
    BY <1>2, <2>1
  <2>2. CASE k # 1
    <3>1. m # 0 /\ 1 \in 1 .. m /\ 1 < k
      BY <1>1, <2>2
    <3> QED BY <1>2, <2>2, <3>1 DEF Linked
  <2> QED BY <2>1, <2>2
<1>6. ASSUME NEW j \in 1 .. m + 1 PROVE field2[t[j]] = IF j = m + 1 THEN NULL ELSE t[j + 1]
  <2>1. CASE j = k
    <3>1. k # m + 1 => k \in 1 .. m /\ k >= k
      BY <1>1
    <3> QED BY <1>2, <2>1, <3>1
  <2>2. CASE j \in 1 .. m /\ j < k
    <3>1. t[j] = s[j] /\ j # m + 1
      BY <1>1, <1>2, <2>2
    <3>2. CASE j = k - 1
      <4>1. j + 1 = k
        BY <3>2
      <4> QED BY <1>2, <2>2, <3>1, <3>2, <4>1
    <3>3. CASE j # k - 1
      <4>1. j + 1 < k /\ j + 1 \in 1 .. m /\ j # m
        BY <1>1, <2>2, <3>3
      <4>2. field2[s[j]] = s[j + 1]
        BY <2>2, <3>3, <4>1 DEF Linked
      <4> QED BY <1>2, <3>1, <4>1, <4>2
    <3> QED BY <3>2, <3>3
  <2>3. CASE j - 1 \in 1 .. m /\ j - 1 >= k /\ (j - 1) + 1 = j
    <3>1. t[j] = s[j - 1] /\ j - 1 # k - 1
      BY <1>2, <2>3
    <3>2. field2[t[j]] = IF j - 1 = m THEN NULL ELSE s[(j - 1) + 1]
      BY <2>3, <3>1 DEF Linked
    <3>3. j # m + 1 => j \in 1 .. m /\ j >= k
      BY <1>1, <2>3
    <3>4. j - 1 = m <=> j = m + 1
      BY <1>1
    <3> QED BY <1>2, <2>3, <3>2, <3>3, <3>4
  <2> QED BY <1>2, <2>1, <2>2, <2>3
<1>7. Linked(m + 1, t, start2, field2)
  BY <1>1, <1>2, <1>4, <1>5, <1>6 DEF Linked
<1> QED BY <1>7 DEF t

LEMMA LinkedCut ==
    ASSUME NEW m, NEW s, NEW start, NEW field, Linked(m, s, start, field),
           NEW k \in 1 .. m, NEW start2, NEW field2,
           start2 = IF k = 1 THEN field[s[k]] ELSE start,
           \A j \in 1 .. m : j # k => field2[s[j]] = IF j = k - 1 THEN field[s[k]] ELSE field[s[j]]
    PROVE  Linked(m - 1, Cut(m, s, k), start2, field2)
<1> DEFINE t == Cut(m, s, k)
<1>1. m \in Nat /\ s \in [1 .. m -> Nodes] /\ \A i, j \in 1 .. m : s[i] = s[j] => i = j
  BY DEF Linked
<1>2. /\ m - 1 \in Nat /\ t \in [1 .. m - 1 -> Nodes]
      /\ \A j \in 1 .. m - 1 : j < k => t[j] = s[j]
      /\ \A j \in 1 .. m - 1 : j >= k => t[j] = s[j + 1]
  BY <1>1, CutIs
<1> HIDE DEF t
<1>3. \A j \in 1 .. m - 1 : j \in 1 .. m /\ j + 1 \in 1 .. m /\ (j < k \/ j >= k)
  BY <1>1
<1>4. ASSUME NEW i \in 1 .. m - 1, NEW j \in 1 .. m - 1, t[i] = t[j] PROVE i = j
  <2>1. CASE i < k /\ j < k
    BY <1>1, <1>2, <1>3, <1>4, <2>1
  <2>2. CASE i < k /\ j >= k
    <3>1. s[i] = s[j + 1]
      BY <1>2, <1>4, <2>2
    <3>2. i = j + 1
      BY <1>1, <1>3, <3>1
    <3> QED BY <2>2, <3>2
  <2>3. CASE i >= k /\ j < k
    <3>1. s[i + 1] = s[j]
      BY <1>2, <1>4, <2>3
    <3>2. i + 1 = j
      BY <1>1, <1>3, <3>1
    <3> QED BY <2>3, <3>2
  <2>4. CASE i >= k /\ j >= k
    <3>1. s[i + 1] = s[j + 1]
      BY <1>2, <1>4, <2>4
    <3>2. i + 1 = j + 1
      BY <1>1, <1>3, <3>1
    <3> QED BY <3>2
  <2> QED BY <1>3, <2>1, <2>2, <2>3, <2>4
<1>5. \A j \in 1 .. m : field[s[j]] = IF j = m THEN NULL ELSE s[j + 1]
  BY DEF Linked
<1>6. start2 = IF m - 1 = 0 THEN NULL ELSE t[1]
  <2>1. CASE k = 1
    <3>1. start2 = IF 1 = m THEN NULL ELSE s[1 + 1]
      BY <1>5, <2>1
    <3>2. 1 # m => 1 \in 1 .. m - 1 /\ 1 >= k
      BY <1>1, <2>1
    <3> QED BY <1>1, <1>2, <3>1, <3>2
  <2>2. CASE k # 1
    <3>1. 1 \in 1 .. m - 1 /\ 1 < k /\ m # 0 /\ m - 1 # 0
      BY <1>1, <2>2
    <3>2. start2 = s[1]
      BY <2>2, <3>1 DEF Linked
    <3> QED BY <1>2, <3>1, <3>2
  <2> QED BY <2>1, <2>2
<1>7. ASSUME NEW j \in 1 .. m - 1
      PROVE  field2[t[j]] = IF j = m - 1 THEN NULL ELSE t[j + 1]
  <2>1. CASE j < k
    <3>1. t[j] = s[j] /\ j \in 1 .. m /\ j # k
      BY <1>2, <1>3, <2>1
    <3>2. CASE j = k - 1
      <4>1. field2[t[j]] = IF k = m THEN NULL ELSE s[k + 1]
        BY <1>5, <3>1, <3>2
      <4>2. k = m <=> j = m - 1
        BY <1>1, <3>2
      <4>3. j # m - 1 => j + 1 = k /\ j + 1 \in 1 .. m - 1 /\ j + 1 >= k
        BY <1>1, <3>2
      <4> QED BY <1>2, <4>1, <4>2, <4>3
    <3>3. CASE j # k - 1
      <4>1. j # m /\ j # m - 1 /\ j + 1 \in 1 .. m - 1 /\ j + 1 < k
        BY <1>1, <2>1, <3>3
      <4>2. field2[t[j]] = s[j + 1]
        BY <1>5, <3>1, <3>3, <4>1
      <4> QED BY <1>2, <4>1, <4>2
    <3> QED BY <3>2, <3>3
  <2>2. CASE j >= k
    <3>1. t[j] = s[j + 1] /\ j + 1 \in 1 .. m /\ j + 1 # k /\ j + 1 # k - 1
      BY <1>2, <1>3, <2>2
    <3>2. field2[t[j]] = IF j + 1 = m THEN NULL ELSE s[(j + 1) + 1]
      BY <1>5, <3>1
    <3>3. j + 1 = m <=> j = m - 1
      BY <1>1
    <3>4. j # m - 1 => j + 1 \in 1 .. m - 1 /\ j + 1 >= k
      BY <1>1, <2>2
    <3> QED BY <1>2, <3>2, <3>3, <3>4
  <2> QED BY <2>1, <2>2
<1>8. Linked(m - 1, t, start2, field2)
  BY <1>2, <1>4, <1>6, <1>7 DEF Linked
<1> QED BY <1>8 DEF t

-----------------------------------------------------------------------------
(* Sequences and least numbers, as the library defines them. *)

\* What InsertAt and RemoveAt give, place by place.
LEMMA InsertAtIs ==
    ASSUME NEW S, NEW q \in Seq(S), NEW k \in 1 .. Len(q) + 1, NEW e \in S
    PROVE  Queue!Stable!InsertAt(q, k, e)
             = [j \in 1 .. Len(q) + 1 |-> IF j < k THEN q[j] ELSE IF j = k THEN e ELSE q[j - 1]]
<1> DEFINE a == SubSeq(q, 1, k - 1)
           b == SubSeq(q, k, Len(q))
           t == a \o <<e>> \o b
<1>0. Len(q) \in Nat
  OBVIOUS
<1>1. a \in Seq(S) /\ Len(a) = k - 1 /\ \A j \in 1 .. k - 1 : a[j] = q[j]
  BY <1>0
<1>2. b \in Seq(S) /\ Len(b) = Len(q) - k + 1 /\ \A j \in 1 .. Len(q) - k + 1 : b[j] = q[k + j - 1]
  BY <1>0
<1> HIDE DEF a, b
<1>3. a \o <<e>> \in Seq(S) /\ Len(a \o <<e>>) = k /\ (a \o <<e>>)[k] = e
      /\ \A j \in 1 .. k - 1 : (a \o <<e>>)[j] = q[j]
  BY <1>0, <1>1
<1>4. t \in Seq(S) /\ Len(t) = Len(q) + 1
  BY <1>0, <1>2, <1>3
<1>5. \A j \in 1 .. Len(q) + 1 : t[j] = IF j <= k THEN (a \o <<e>>)[j] ELSE b[j - k]
  BY <1>0, <1>2, <1>3
<1> HIDE DEF t
<1>6. ASSUME NEW j \in 1 .. Len(q) + 1
      PROVE  t[j] = IF j < k THEN q[j] ELSE IF j = k THEN e ELSE q[j - 1]
  <2>0. j \in Int /\ k \in Int
    BY <1>0
  <2>1. CASE j < k
    BY <1>3, <1>5, <2>1
  <2>2. CASE j = k
    BY <1>3, <1>5, <2>2
  <2>3. CASE j > k
    <3>1. j - k \in 1 .. Len(q) - k + 1 /\ k + (j - k) - 1 = j - 1
      BY <1>0, <2>3
    <3>2. ~(j <= k) /\ ~(j < k) /\ j # k
      BY <1>0, <2>3
    <3>3. t[j] = b[j - k]
      BY <1>5, <3>2
    <3>4. b[j - k] = q[k + (j - k) - 1]
      BY <1>2, <3>1
    <3> QED BY <3>1, <3>2, <3>3, <3>4
  <2> QED BY <2>0, <2>1, <2>2, <2>3
<1>7. t = [j \in 1 .. Len(q) + 1 |-> t[j]]
  BY <1>4
<1>8. t = [j \in 1 .. Len(q) + 1 |-> IF j < k THEN q[j] ELSE IF j = k THEN e ELSE q[j - 1]]
  BY <1>6, <1>7
<1> QED BY <1>8 DEF Queue!Stable!InsertAt, t, a, b

LEMMA RemoveAtIs ==
    ASSUME NEW S, NEW q \in Seq(S), NEW k \in 1 .. Len(q)
    PROVE  Queue!Stable!RemoveAt(q, k) = [j \in 1 .. Len(q) - 1 |-> IF j < k THEN q[j] ELSE q[j + 1]]
<1> DEFINE a == SubSeq(q, 1, k - 1)
           b == SubSeq(q, k + 1, Len(q))
           t == a \o b
<1>0. Len(q) \in Nat
  OBVIOUS
<1>1. a \in Seq(S) /\ Len(a) = k - 1 /\ \A j \in 1 .. k - 1 : a[j] = q[j]
  BY <1>0
<1>2. b \in Seq(S) /\ Len(b) = Len(q) - k /\ \A j \in 1 .. Len(q) - k : b[j] = q[k + j]
  BY <1>0
<1> HIDE DEF a, b
<1>4. t \in Seq(S) /\ Len(t) = Len(q) - 1
  <2>1. t \in Seq(S) /\ Len(t) = Len(a) + Len(b)
    BY <1>1, <1>2, ConcatProperties
  <2>2. (k - 1) + (Len(q) - k) = Len(q) - 1
    BY <1>0
  <2> QED BY <1>1, <1>2, <2>1, <2>2
<1>5. \A j \in 1 .. Len(q) - 1 : t[j] = IF j < k THEN a[j] ELSE b[j - (k - 1)]
  <2>1. \A j \in 1 .. Len(q) - 1 : t[j] = IF j <= Len(a) THEN a[j] ELSE b[j - Len(a)]
    BY <1>0, <1>1, <1>2
  <2>2. \A j \in 1 .. Len(q) - 1 : j < k <=> j <= k - 1
    BY <1>0
  <2> QED BY <1>1, <2>1, <2>2
<1> HIDE DEF t
<1>6. ASSUME NEW j \in 1 .. Len(q) - 1
      PROVE  t[j] = IF j < k THEN q[j] ELSE q[j + 1]
  <2>0. j \in Int /\ k \in Int
    BY <1>0
  <2>1. CASE j < k
    BY <1>1, <1>5, <2>1
  <2>3. CASE j >= k
    <3>1. j - (k - 1) \in 1 .. Len(q) - k /\ k + (j - (k - 1)) = j + 1
      BY <1>0, <2>3
    <3>2. ~(j < k)
      BY <1>0, <2>3
    <3>3. t[j] = b[j - (k - 1)]
      BY <1>5, <3>2
    <3>4. b[j - (k - 1)] = q[k + (j - (k - 1))]
      BY <1>2, <3>1
    <3> QED BY <3>1, <3>2, <3>3, <3>4
  <2> QED BY <2>0, <2>1, <2>3
<1>7. t = [j \in 1 .. Len(q) - 1 |-> t[j]]
  <2>1. t = [j \in 1 .. Len(t) |-> t[j]]
    BY <1>4
  <2> QED BY <1>4, <2>1
<1>8. t = [j \in 1 .. Len(q) - 1 |-> IF j < k THEN q[j] ELSE q[j + 1]]
  BY <1>6, <1>7
<1> QED BY <1>8 DEF Queue!Stable!RemoveAt, t, a, b

LEMMA MinIs ==
    ASSUME NEW T, NEW k \in T, T \subseteq Int, \A j \in T : k <= j
    PROVE  Queue!Min(T) = k /\ Queue!Stable!Min(T) = k /\ Min(T) = k
<1>1. \A x \in T : (\A y \in T : x <= y) => x = k
  <2>1. \A x \in T : x <= k /\ k <= x => x = k
    OBVIOUS
  <2> QED BY <2>1
<1> QED BY <1>1 DEF Queue!Min, Queue!Stable!Min, Min

LEMMA SizeOf ==
    ASSUME NEW k \in Nat
    PROVE  Cardinality(1 .. k) = k /\ IsFiniteSet(1 .. k)
<1>1. 1 \in Int /\ k \in Int
  OBVIOUS
<1>2. IsFiniteSet(1 .. k) /\ Cardinality(1 .. k) = IF 1 > k THEN 0 ELSE k - 1 + 1
  BY <1>1, FS_Interval
<1> QED BY <1>2

LEMMA LinkedNodes ==
    ASSUME NEW m, NEW s, NEW start, NEW field, Linked(m, s, start, field)
    PROVE  /\ m \in Nat /\ s \in [1 .. m -> Nodes] /\ Len(s) = m
           /\ \A k \in 1 .. m : s[k] \in Nodes /\ s[k] # NULL /\ s[k] \in In(m, s)
           /\ In(m, s) \subseteq Nodes
<1>1. m \in Nat /\ s \in [1 .. m -> Nodes]
  BY DEF Linked
<1>2. Len(s) = m
  BY <1>1
<1> QED BY <1>1, <1>2, NodeConstants DEF In

-----------------------------------------------------------------------------
(* PrioQueue: its inductive invariant. *)

Queued(m, s) ==
    /\ Linked(m, s, first, link) /\ used = In(m, s)
    /\ \A j, k \in 1 .. m : j < k => priority[s[j]] <= priority[s[k]]

\* The nodes in use are the list, in the order of the priorities.
QueueInv ==
    /\ Queue!TypeOK
    /\ \E m \in 0 .. Cardinality(Nodes) : \E s \in [1 .. m -> Nodes] : Queued(m, s)

LEMMA QueueConstants ==
    /\ Priorities \subseteq 0 .. 255 /\ Queue!Zero.priority \in Priorities
    /\ Queue!Zero.data \in Contacts
<1>1. Priorities \subseteq Nat /\ Priorities \subseteq 0 .. 255 /\ Priorities # {} /\ Contacts # {}
  BY InstanceAssumption DEF Queue!ConstantAssumption
<1>2. PICK x \in Priorities : \A y \in Priorities : x <= y
  BY <1>1, LeastNat
<1>3. Queue!Min(Priorities) = x
  <2>1. Priorities \subseteq Int
    BY <1>1
  <2> QED BY <1>2, <2>1, MinIs
<1> QED BY <1>1, <1>3 DEF Queue!Zero

LEMMA QueuedIs ==
    ASSUME QueueInv, NEW m, NEW s, Queued(m, s)
    PROVE  /\ m \in Nat /\ s \in [1 .. m -> Nodes] /\ Len(s) = m /\ Queue!Chain = s
           /\ \A k \in 1 .. m : s[k] \in Nodes /\ s[k] # NULL /\ s[k] \in used
           /\ \A k \in 1 .. m : priority[s[k]] \in Nat
           /\ \A k \in Int : Queue!Curr(k) = IF k \in 1 .. m THEN s[k] ELSE NULL
           /\ \A k \in Int : Queue!Prev(k) = IF k - 1 \in 1 .. m THEN s[k - 1] ELSE NULL
<1>1. /\ m \in Nat /\ s \in [1 .. m -> Nodes] /\ Len(s) = m /\ Queue!Chain = s
      /\ \A k \in 1 .. m : s[k] \in Nodes /\ s[k] # NULL /\ s[k] \in used
  BY LinkedNodes, ChainIs DEF Queued
<1>2. \A k \in 1 .. m : priority[s[k]] \in Nat
  <2>1. priority \in [Nodes -> Priorities] /\ Priorities \subseteq Nat
    BY QueueConstants DEF QueueInv, Queue!TypeOK
  <2> QED BY <1>1, <2>1
<1>3. \A k \in Int : Queue!Curr(k) = IF k \in 1 .. m THEN s[k] ELSE NULL
  BY <1>1 DEF Queue!Curr
<1>4. \A k \in Int : Queue!Prev(k) = IF k - 1 \in 1 .. m THEN s[k - 1] ELSE NULL
  BY <1>3 DEF Queue!Prev
<1> QED BY <1>1, <1>2, <1>3, <1>4

LEMMA QueueRead == QueueInv => Queue!NothingLost
<1> SUFFICES ASSUME QueueInv PROVE Queue!NothingLost
  OBVIOUS
<1>1. PICK m, s : Queued(m, s)
  BY DEF QueueInv
<1>2. m \in Nat /\ s \in [1 .. m -> Nodes] /\ Len(s) = m /\ Queue!Chain = s
  BY <1>1, QueuedIs
<1>3. m <= Queue!Cardinality(Nodes)
  BY <1>1, LinkedFits, CardinalityIs DEF Queued
<1>4. Queue!IsInjective(s)
  BY <1>1, <1>2 DEF Queue!IsInjective, Queued, Linked
<1> QED BY <1>1, <1>2, <1>3, <1>4 DEF Queue!NothingLost, Queued, In

\* Where the loops stop.
Stops(m, s, T, k) ==
    /\ k \in 1 .. m + 1 /\ \A j \in 1 .. m : j < k => s[j] \notin T
    /\ k \in 1 .. m => s[k] \in T

LEMMA StopIs ==
    ASSUME QueueInv, NEW m, NEW s, Queued(m, s), NEW T
    PROVE  Stops(m, s, T, Queue!StopAt(T))
<1> DEFINE K == {m + 1} \cup {k \in 1 .. m : s[k] \in T}
<1>1. m \in Nat /\ Len(s) = m /\ Queue!Chain = s
  BY QueuedIs
<1>2. K \subseteq Nat /\ K # {} /\ K \subseteq Int
  BY <1>1
<1>3. PICK k \in K : \A j \in K : k <= j
  <2> HIDE DEF K
  <2> QED BY <1>2, LeastNat
<1>4. Queue!StopAt(T) = Queue!Min(K)
  BY <1>1 DEF Queue!StopAt
<1>5. Queue!StopAt(T) = k
  <2> HIDE DEF K
  <2> QED BY <1>2, <1>3, <1>4, MinIs
<1>6. \A j \in 1 .. m : j < k => j \notin K
  <2>1. \A j \in 1 .. m : j < k => ~(k <= j)
    BY <1>1
  <2> HIDE DEF K
  <2> QED BY <1>3, <2>1
<1>7. m + 1 \notin 1 .. m
  BY <1>1
<1> QED BY <1>1, <1>5, <1>6, <1>7 DEF Stops

\* A push puts a new node behind those of the same or a smaller number.
Pushed(m, s, k, n, d, p) ==
    /\ k \in 1 .. m + 1 /\ n \in Nodes \ In(m, s)
    /\ \A j \in 1 .. m : j < k <=> priority[s[j]] <= p
    /\ first' = (IF k = 1 THEN n ELSE first)
    /\ link' = [q \in Nodes |-> IF q = n THEN (IF k = m + 1 THEN NULL ELSE s[k])
                                ELSE IF k > 1 /\ q = s[k - 1] THEN n ELSE link[q]]
    /\ priority' = [priority EXCEPT ![n] = p] /\ data' = [data EXCEPT ![n] = d]
    /\ used' = used \cup {n} /\ UNCHANGED popped

LEMMA PushIs ==
    ASSUME QueueInv, NEW m, NEW s, Queued(m, s), NEW d \in Contacts, NEW p \in Priorities,
           Queue!Push(d, p)
    PROVE  \E k, n : Pushed(m, s, k, n, d, p)
<1> DEFINE T == {q \in used : Queue!Lower(q, p)}
           k == Queue!StopAt(T)
<1>1. PICK n \in Nodes \ used :
          /\ used' = used \cup {n} /\ UNCHANGED popped
          /\ priority' = [priority EXCEPT ![n] = p] /\ data' = [data EXCEPT ![n] = d]
          /\ first' = Queue!Linked(k, n)
          /\ link' = [q \in Nodes |-> IF q = n THEN Queue!Curr(k)
                                      ELSE IF q = Queue!Prev(k) THEN n ELSE link[q]]
  BY DEF Queue!Push
<1>2. Stops(m, s, T, k)
  BY StopIs
<1> HIDE DEF k
<1>3. /\ m \in Nat /\ \A j \in 1 .. m : s[j] \in Nodes /\ s[j] # NULL /\ s[j] \in used
      /\ \A j \in 1 .. m : priority[s[j]] \in Nat
  BY QueuedIs
<1>4. k \in 1 .. m + 1 /\ p \in Nat
  BY <1>2, QueueConstants DEF Stops
<1>5. ASSUME NEW j \in 1 .. m PROVE j < k <=> priority[s[j]] <= p
  <2>1. CASE j < k
    BY <1>2, <1>3, <1>4, <2>1 DEF Stops, Queue!Lower
  <2>2. CASE j >= k
    <3>1. k \in 1 .. m
      BY <1>3, <1>4, <2>2
    <3>2. priority[s[k]] > p
      BY <1>2, <3>1 DEF Stops, Queue!Lower
    <3>3. k < j => priority[s[k]] <= priority[s[j]]
      BY <3>1 DEF Queued
    <3>4. priority[s[j]] > p
      BY <1>3, <1>4, <2>2, <3>1, <3>2, <3>3
    <3> QED BY <1>3, <1>4, <2>2, <3>4
  <2> QED BY <1>4, <2>1, <2>2
<1>6. Queue!Curr(k) = IF k = m + 1 THEN NULL ELSE s[k]
  <2>1. k \in 1 .. m <=> k # m + 1
    BY <1>3, <1>4
  <2> QED BY <1>4, <2>1, QueuedIs
<1>7. Queue!Prev(k) = IF k > 1 THEN s[k - 1] ELSE NULL
  <2>1. k - 1 \in 1 .. m <=> k > 1
    BY <1>3, <1>4
  <2> QED BY <1>4, <2>1, QueuedIs
<1>8. first' = IF k = 1 THEN n ELSE first
  <2>1. k > 1 => k - 1 \in 1 .. m
    BY <1>3, <1>4
  <2>2. k = 1 <=> ~(k > 1)
    BY <1>4
  <2> QED BY <1>1, <1>3, <1>7, <2>1, <2>2 DEF Queue!Linked
<1>9. NULL \notin Nodes /\ used = In(m, s)
  BY NodeConstants DEF Queued
<1>10. link' = [q \in Nodes |-> IF q = n THEN (IF k = m + 1 THEN NULL ELSE s[k])
                                ELSE IF k > 1 /\ q = s[k - 1] THEN n ELSE link[q]]
  BY <1>1, <1>6, <1>7, <1>9
<1>11. Pushed(m, s, k, n, d, p)
  BY <1>1, <1>4, <1>5, <1>8, <1>9, <1>10 DEF Pushed
<1> QED BY <1>11

LEMMA PushKeeps ==
    ASSUME QueueInv, NEW m, NEW s, Queued(m, s), NEW d \in Contacts, NEW p \in Priorities,
           NEW k, NEW n, Pushed(m, s, k, n, d, p)
    PROVE  Queue!TypeOK' /\ Queued(m + 1, Put(m, s, k, n))'
<1> DEFINE t == Put(m, s, k, n)
<1>1. m \in Nat /\ s \in [1 .. m -> Nodes] /\ \A j \in 1 .. m : s[j] \in Nodes /\ priority[s[j]] \in Nat
  BY QueuedIs
<1>2. k \in 1 .. m + 1 /\ n \in Nodes /\ n \notin In(m, s) /\ p \in Nat /\ \A j \in 1 .. m : s[j] # n
  BY QueueConstants DEF Pushed, In
<1>3. Queue!TypeOK'
  <2>1. k # m + 1 => k \in 1 .. m
    BY <1>1, <1>2
  <2>2. (IF k = m + 1 THEN NULL ELSE s[k]) \in Nodes \cup {NULL}
    BY <1>1, <2>1
  <2> QED BY <1>2, <2>2 DEF QueueInv, Queue!TypeOK, Pushed
<1>4. Linked(m + 1, t, first', link')
  <2>1. link'[n] = IF k = m + 1 THEN NULL ELSE s[k]
    BY <1>2 DEF Pushed
  <2>2. ASSUME NEW j \in 1 .. m PROVE link'[s[j]] = IF j = k - 1 THEN n ELSE link[s[j]]
    <3>1. k > 1 => k - 1 \in 1 .. m
      BY <1>1, <1>2
    <3>2. k > 1 /\ s[j] = s[k - 1] <=> j = k - 1
      BY <1>1, <1>2, <3>1 DEF Queued, Linked
    <3> QED BY <1>1, <1>2, <3>2 DEF Pushed
  <2>3. first' = IF k = 1 THEN n ELSE first
    BY DEF Pushed
  <2> QED BY <1>2, <2>1, <2>2, <2>3, LinkedPut DEF Queued
<1>5. IsPut(m, s, k, n, t)
  BY <1>1, <1>2, PutIs
<1> HIDE DEF t
<1>6. used' = In(m + 1, t)
  BY <1>5 DEF IsPut, Pushed, Queued
<1>7. priority'[n] = p /\ \A j \in 1 .. m : priority'[s[j]] = priority[s[j]]
  BY <1>1, <1>2 DEF Pushed, QueueInv, Queue!TypeOK
<1>8. ASSUME NEW i \in 1 .. m + 1, NEW j \in 1 .. m + 1, i < j
      PROVE  priority'[t[i]] <= priority'[t[j]]
  <2>0. /\ \A a \in 1 .. m : a < k => t[a] = s[a] /\ priority'[t[a]] = priority[s[a]]
                                      /\ priority'[t[a]] <= p
        /\ \A a \in 1 .. m : a >= k => t[a + 1] = s[a] /\ priority'[t[a + 1]] = priority[s[a]]
                                       /\ p <= priority'[t[a + 1]]
        /\ priority'[t[k]] = p
    <3>1. \A a \in 1 .. m : a >= k => p <= priority[s[a]]
      <4>1. \A a \in 1 .. m : a >= k => ~(a < k)
        BY <1>2
      <4> QED BY <1>1, <1>2, <4>1 DEF Pushed
    <3>2. \A a \in 1 .. m : a < k => t[a] = s[a] /\ priority[s[a]] <= p
      BY <1>5 DEF IsPut, Pushed
    <3>3. \A a \in 1 .. m : a >= k => t[a + 1] = s[a]
      BY <1>5 DEF IsPut
    <3>4. t[k] = n
      BY <1>5 DEF IsPut
    <3> QED BY <1>7, <3>1, <3>2, <3>3, <3>4
  <2>1. \A a, b \in 1 .. m : a < b => priority[s[a]] <= priority[s[b]]
    BY DEF Queued
  <2>2. CASE i \in 1 .. m /\ i < k
    <3>1. CASE j \in 1 .. m /\ j < k
      BY <1>8, <2>0, <2>1, <2>2, <3>1
    <3>2. CASE j = k
      BY <2>0, <2>2, <3>2
    <3>3. CASE j - 1 \in 1 .. m /\ j - 1 >= k /\ (j - 1) + 1 = j
      <4>1. i < j - 1
        BY <1>2, <2>2, <3>3
      <4>2. priority[s[i]] <= priority[s[j - 1]]
        BY <2>1, <2>2, <3>3, <4>1
      <4>3. priority'[t[j]] = priority[s[j - 1]]
        BY <2>0, <3>3
      <4> QED BY <2>0, <2>2, <4>2, <4>3
    <3> QED BY <1>5, <3>1, <3>2, <3>3 DEF IsPut
  <2>3. CASE i = k
    <3>1. j - 1 \in 1 .. m /\ j - 1 >= k /\ (j - 1) + 1 = j
      BY <1>1, <1>2, <1>8, <2>3
    <3>2. p <= priority'[t[(j - 1) + 1]]
      BY <2>0, <3>1
    <3> QED BY <2>0, <2>3, <3>1, <3>2
  <2>4. CASE i - 1 \in 1 .. m /\ i - 1 >= k /\ (i - 1) + 1 = i
    <3>1. j - 1 \in 1 .. m /\ j - 1 >= k /\ (j - 1) + 1 = j /\ i - 1 < j - 1
      BY <1>1, <1>2, <1>8, <2>4
    <3>2. priority'[t[(i - 1) + 1]] = priority[s[i - 1]] /\ priority'[t[(j - 1) + 1]] = priority[s[j - 1]]
      BY <2>0, <2>4, <3>1
    <3> QED BY <2>1, <2>4, <3>1, <3>2
  <2> QED BY <1>5, <2>2, <2>3, <2>4 DEF IsPut
<1>9. Queued(m + 1, t)'
  BY <1>4, <1>6, <1>8 DEF Queued, Linked
<1> QED BY <1>3, <1>9 DEF t

\* Taking out the k-th node.
Taken(m, s, k) ==
    /\ k \in 1 .. m
    /\ first' = (IF k = 1 THEN link[s[k]] ELSE first)
    /\ link' = [q \in Nodes |-> IF k > 1 /\ q = s[k - 1] THEN link[s[k]]
                                ELSE IF q = s[k] THEN NULL ELSE link[q]]
    /\ priority' = [q \in Nodes |-> IF q = s[k] THEN Queue!Zero.priority ELSE priority[q]]
    /\ data' = [q \in Nodes |-> IF q = s[k] THEN Queue!Zero.data ELSE data[q]]
    /\ used' = used \ {s[k]} /\ popped' = data[s[k]]

NotTaken == UNCHANGED <<first, link, priority, data, used>> /\ popped' = NULL

LEMMA TakeIs ==
    ASSUME QueueInv, NEW m, NEW s, Queued(m, s), NEW k \in 1 .. m + 1, Queue!TakeOut(k)
    PROVE  /\ k \in 1 .. m => Taken(m, s, k)
           /\ k \notin 1 .. m => NotTaken
<1>1. /\ m \in Nat /\ \A j \in 1 .. m : s[j] \in Nodes /\ s[j] # NULL
      /\ Queue!Curr(k) = IF k \in 1 .. m THEN s[k] ELSE NULL
      /\ Queue!Prev(k) = IF k - 1 \in 1 .. m THEN s[k - 1] ELSE NULL
  BY QueuedIs
<1>2. CASE k \notin 1 .. m
  BY <1>1, <1>2 DEF Queue!TakeOut, NotTaken
<1>3. CASE k \in 1 .. m
  <2>1. Queue!Curr(k) = s[k] /\ s[k] # NULL /\ s[k] \in Nodes
    BY <1>1, <1>3
  <2>2. k > 1 <=> k - 1 \in 1 .. m
    BY <1>1, <1>3
  <2>3. Queue!Prev(k) = IF k > 1 THEN s[k - 1] ELSE NULL
    BY <1>1, <2>2
  <2>4. first' = IF k = 1 THEN link[s[k]] ELSE first
    <3>1. k = 1 <=> ~(k > 1)
      BY <1>3
    <3> QED BY <1>1, <2>1, <2>2, <2>3, <3>1 DEF Queue!TakeOut, Queue!Unlinked
  <2>5. link' = [q \in Nodes |-> IF k > 1 /\ q = s[k - 1] THEN link[s[k]]
                                 ELSE IF q = s[k] THEN NULL ELSE link[q]]
    <3>1. link' = [q \in Nodes |-> IF q = Queue!Prev(k) THEN link[s[k]]
                                   ELSE IF q = s[k] THEN NULL ELSE link[q]]
      BY <2>1 DEF Queue!TakeOut
    <3> QED BY <2>3, <3>1, NodeConstants
  <2>6. /\ priority' = [q \in Nodes |-> IF q = s[k] THEN Queue!Zero.priority ELSE priority[q]]
        /\ data' = [q \in Nodes |-> IF q = s[k] THEN Queue!Zero.data ELSE data[q]]
        /\ used' = used \ {s[k]} /\ popped' = data[s[k]]
    BY <2>1 DEF Queue!TakeOut, Queue!Free, Queue!Returned
  <2> QED BY <1>3, <2>4, <2>5, <2>6 DEF Taken
<1> QED BY <1>2, <1>3

LEMMA TakeKeeps ==
    ASSUME QueueInv, NEW m, NEW s, Queued(m, s), NEW k, Taken(m, s, k)
    PROVE  Queue!TypeOK' /\ m - 1 \in Nat /\ Queued(m - 1, Cut(m, s, k))'
<1> DEFINE t == Cut(m, s, k)
<1>1. /\ m \in Nat /\ s \in [1 .. m -> Nodes] /\ \A j \in 1 .. m : s[j] \in Nodes /\ priority[s[j]] \in Nat
      /\ \A i, j \in 1 .. m : s[i] = s[j] => i = j
  BY QueuedIs DEF Queued, Linked
<1>2. k \in 1 .. m /\ (k > 1 => k - 1 \in 1 .. m)
  BY <1>1 DEF Taken
<1>3. Queue!TypeOK'
  <2>1. link[s[k]] \in Nodes \cup {NULL} /\ data[s[k]] \in Contacts
    BY <1>1, <1>2 DEF QueueInv, Queue!TypeOK
  <2> QED BY <2>1, QueueConstants DEF QueueInv, Queue!TypeOK, Taken
<1>4. Linked(m - 1, t, first', link')
  <2>1. ASSUME NEW j \in 1 .. m, j # k
        PROVE  link'[s[j]] = IF j = k - 1 THEN link[s[k]] ELSE link[s[j]]
    <3>1. k > 1 /\ s[j] = s[k - 1] <=> j = k - 1
      BY <1>1, <1>2
    <3>2. s[j] # s[k]
      BY <1>1, <1>2, <2>1
    <3> QED BY <1>1, <3>1, <3>2 DEF Taken
  <2>2. first' = IF k = 1 THEN link[s[k]] ELSE first
    BY DEF Taken
  <2> QED BY <1>2, <2>1, <2>2, LinkedCut DEF Queued
<1>5. /\ m - 1 \in Nat /\ t \in [1 .. m - 1 -> Nodes]
      /\ \A j \in 1 .. m - 1 : j < k => t[j] = s[j]
      /\ \A j \in 1 .. m - 1 : j >= k => t[j] = s[j + 1]
      /\ In(m - 1, t) = In(m, s) \ {s[k]}
  BY <1>1, <1>2, CutIs
<1> HIDE DEF t
<1>6. used' = In(m - 1, t)
  BY <1>5 DEF Taken, Queued
<1>7. \A j \in 1 .. m : j # k => priority'[s[j]] = priority[s[j]]
  BY <1>1, <1>2 DEF Taken
<1>8. ASSUME NEW i \in 1 .. m - 1, NEW j \in 1 .. m - 1, i < j
      PROVE  priority'[t[i]] <= priority'[t[j]]
  <2>1. \A a, b \in 1 .. m : a < b => priority[s[a]] <= priority[s[b]]
    BY DEF Queued
  <2>2. \A a \in 1 .. m - 1 : a \in 1 .. m /\ a + 1 \in 1 .. m /\ (a < k => a # k) /\ (a >= k => a + 1 # k)
    BY <1>1, <1>2
  <2>3. \A a \in 1 .. m - 1 : priority'[t[a]] = IF a < k THEN priority[s[a]] ELSE priority[s[a + 1]]
    <3>1. \A a \in 1 .. m - 1 : a < k \/ a >= k
      BY <1>2
    <3> QED BY <1>5, <1>7, <2>2, <3>1
  <2>4. i < j /\ i < j + 1 /\ i + 1 < j + 1 /\ (i >= k => j >= k /\ ~(j < k))
    BY <1>2, <1>8
  <2>5. priority'[t[i]] = IF i < k THEN priority[s[i]] ELSE priority[s[i + 1]]
    BY <2>3
  <2>6. priority'[t[j]] = IF j < k THEN priority[s[j]] ELSE priority[s[j + 1]]
    BY <2>3
  <2>7. i < k \/ i >= k
    BY <1>2
  <2> QED BY <2>1, <2>2, <2>4, <2>5, <2>6, <2>7
<1>9. Queued(m - 1, t)'
  BY <1>4, <1>6, <1>8 DEF Queued, Linked
<1> QED BY <1>3, <1>5, <1>9 DEF t

\* The list is empty after DestroyQueue.
LEMMA DestroyKeeps ==
    ASSUME QueueInv, NEW m, NEW s, Queued(m, s), Queue!DestroyQueue
    PROVE  Queue!TypeOK' /\ \E t \in [1 .. 0 -> Nodes] : Queued(0, t)'
<1>1. m \in Nat /\ Len(s) = m /\ Queue!Chain = s
  BY QueuedIs
<1>2. Queue!Freed = used
  BY <1>1 DEF Queue!Freed, Queued, In
<1>3. /\ first' = NULL /\ used' = {} /\ popped' = popped
      /\ link' = [q \in Nodes |-> IF q \in used THEN NULL ELSE link[q]]
      /\ priority' = [q \in Nodes |-> IF q \in used THEN Queue!Zero.priority ELSE priority[q]]
      /\ data' = [q \in Nodes |-> IF q \in used THEN Queue!Zero.data ELSE data[q]]
  BY <1>2 DEF Queue!DestroyQueue, Queue!Free
<1>4. Queue!TypeOK'
  BY <1>3, QueueConstants DEF QueueInv, Queue!TypeOK
<1>5. PICK t : t \in [1 .. 0 -> Nodes]
  <2>1. [j \in 1 .. 0 |-> NULL] \in [1 .. 0 -> Nodes]
    OBVIOUS
  <2> QED BY <2>1
<1>6. Queued(0, t)'
  BY <1>3, <1>5 DEF Queued, Linked, In
<1> QED BY <1>4, <1>5, <1>6

LEMMA QueueAgain ==
    ASSUME NEW m, NEW s, Queue!TypeOK', Queued(m, s)'
    PROVE  QueueInv'
<1>1. Linked(m, s, first', link')
  BY DEF Queued, Linked
<1>2. m \in 0 .. Cardinality(Nodes) /\ s \in [1 .. m -> Nodes]
  <2>1. m \in Nat /\ m <= Cardinality(Nodes)
    BY <1>1, LinkedFits
  <2> QED BY <1>1, <2>1, NodeConstants DEF Linked
<1> QED BY <1>2 DEF QueueInv

LEMMA QueueBegins == Queue!Init => QueueInv
<1> SUFFICES ASSUME Queue!Init PROVE QueueInv
  OBVIOUS
<1>1. Queue!TypeOK
  BY QueueConstants DEF Queue!Init, Queue!TypeOK
<1>2. PICK t : t \in [1 .. 0 -> Nodes]
  <2>1. [j \in 1 .. 0 |-> NULL] \in [1 .. 0 -> Nodes]
    OBVIOUS
  <2> QED BY <2>1
<1>3. Queued(0, t)
  BY <1>2 DEF Queue!Init, Queued, Linked, In
<1>4. 0 \in 0 .. Cardinality(Nodes)
  BY NodeConstants
<1> QED BY <1>1, <1>2, <1>3, <1>4 DEF QueueInv

LEMMA QueueAfterTake ==
    ASSUME QueueInv, NEW m, NEW s, Queued(m, s), NEW k \in 1 .. m + 1, Queue!TakeOut(k)
    PROVE  QueueInv'
<1>1. CASE k \in 1 .. m
  <2>1. Taken(m, s, k)
    BY <1>1, TakeIs
  <2>2. Queue!TypeOK' /\ Queued(m - 1, Cut(m, s, k))'
    BY <2>1, TakeKeeps
  <2> QED BY <2>2, QueueAgain
<1>2. CASE k \notin 1 .. m
  <2>1. NotTaken
    BY <1>2, TakeIs
  <2> QED BY <2>1, ZenonT(30) DEF NotTaken, QueueInv, Queue!TypeOK, Queued, Linked
<1> QED BY <1>1, <1>2

\* What each operation that takes is, in the list.
LEMMA TakesAre ==
    ASSUME QueueInv, NEW m, NEW s, Queued(m, s)
    PROVE  /\ Queue!Pop => \E k \in 1 .. m + 1 : Queue!TakeOut(k)
           /\ \A p : Queue!PopExactPriority(p) => \E k \in 1 .. m + 1 : Queue!TakeOut(k)
           /\ \A p : Queue!PopAtLeastPriority(p) => \E k \in 1 .. m + 1 : Queue!TakeOut(k)
           /\ \A p : Queue!PopAtMaxPriority(p) => \E k \in 1 .. m + 1 : Queue!TakeOut(k)
<1>1. Len(Queue!Chain) + 1 = m + 1 /\ 1 \in 1 .. m + 1 /\ m + 1 \in 1 .. m + 1
  BY QueuedIs
<1>2. \A T : Queue!StopAt(T) \in 1 .. m + 1
  BY StopIs DEF Stops
<1> QED BY <1>1, <1>2 DEF Queue!Pop, Queue!PopExactPriority, Queue!PopAtLeastPriority, Queue!PopAtMaxPriority

LEMMA QueueStep == QueueInv /\ [Queue!Next]_Queue!vars => QueueInv'
<1> SUFFICES ASSUME QueueInv, [Queue!Next]_Queue!vars PROVE QueueInv'
  OBVIOUS
<1>1. PICK m, s : Queued(m, s)
  BY DEF QueueInv
<1>2. ASSUME NEW d \in Contacts, NEW p \in Priorities, Queue!Push(d, p) PROVE QueueInv'
  <2>1. PICK k, n : Pushed(m, s, k, n, d, p)
    BY <1>1, <1>2, PushIs
  <2>2. Queue!TypeOK' /\ Queued(m + 1, Put(m, s, k, n))'
    BY <1>1, <2>1, PushKeeps
  <2> QED BY <2>2, QueueAgain
<1>3. CASE Queue!DestroyQueue
  BY <1>1, <1>3, DestroyKeeps, QueueAgain
<1>4. CASE UNCHANGED Queue!vars
  BY <1>4 DEF Queue!vars, QueueInv, Queue!TypeOK, Queued, Linked
<1>5. ASSUME NEW k \in 1 .. m + 1, Queue!TakeOut(k) PROVE QueueInv'
  BY <1>1, <1>5, QueueAfterTake
<1> QED BY <1>1, <1>2, <1>3, <1>4, <1>5, TakesAre DEF Queue!Next

-----------------------------------------------------------------------------
(* PrioQueue implements StableQueue. *)

Shown(m, s) == [k \in 1 .. m |-> [priority |-> priority[s[k]], data |-> data[s[k]]]]

ShownFit == \A m, s : Queued(m, s) => Queue!Elements = Shown(m, s)

LEMMA ShownIs == ShownFit
<1> SUFFICES ASSUME NEW m, NEW s, Queued(m, s) PROVE Queue!Elements = Shown(m, s)
  BY DEF ShownFit
<1>1. Queue!Chain = s /\ Len(s) = m
  BY LinkedNodes, ChainIs DEF Queued
<1> QED BY <1>1 DEF Queue!Elements, Shown

LEMMA ShownType ==
    ASSUME QueueInv, NEW m, NEW s, Queued(m, s)
    PROVE  Shown(m, s) \in Seq(Queue!Stable!Element) /\ Len(Shown(m, s)) = m
<1>1. m \in Nat /\ \A k \in 1 .. m : s[k] \in Nodes
  BY QueuedIs
<1>2. Shown(m, s) \in [1 .. m -> Queue!Stable!Element]
  BY <1>1 DEF Shown, Queue!Stable!Element, QueueInv, Queue!TypeOK
<1> HIDE DEF Shown
<1>3. Shown(m, s) \in Seq(Queue!Stable!Element)
  BY <1>1, <1>2
<1> QED BY <1>1, <1>2, <1>3, LenProperties

LEMMA PushShows ==
    ASSUME QueueInv, NEW m, NEW s, Queued(m, s), NEW d \in Contacts, NEW p \in Priorities,
           NEW k, NEW n, Pushed(m, s, k, n, d, p)
    PROVE  Queue!Stable!Push(d, p)
<1> DEFINE q == Shown(m, s)
           e == [priority |-> p, data |-> d]
           t == Put(m, s, k, n)
           r == [j \in 1 .. m + 1 |-> IF j < k THEN q[j] ELSE IF j = k THEN e ELSE q[j - 1]]
<1>1. /\ m \in Nat /\ s \in [1 .. m -> Nodes] /\ \A j \in 1 .. m : s[j] \in Nodes
      /\ q \in Seq(Queue!Stable!Element) /\ Len(q) = m /\ e \in Queue!Stable!Element
  BY QueuedIs, ShownType DEF Queue!Stable!Element
<1>2. k \in 1 .. m + 1 /\ n \in Nodes /\ \A j \in 1 .. m : s[j] # n
  BY DEF Pushed, In
<1>3. IsPut(m, s, k, n, t)
  BY <1>1, <1>2, PutIs
<1>4. Queue!Elements = q
  BY ShownIs DEF ShownFit
<1>5. Queue!Elements' = Shown(m + 1, t)'
  <2>1. ShownFit'
    BY ShownIs, PTL
  <2>2. Queued(m + 1, t)'
    BY PushKeeps
  <2> HIDE DEF t
  <2> QED BY <2>1, <2>2 DEF ShownFit
<1>6. Queue!Stable!Place(q, p) = k
  <2>1. {j \in 1 .. Len(q) : q[j].priority <= p} = 1 .. k - 1
    <3>1. \A j \in 1 .. m : q[j].priority = priority[s[j]]
      BY DEF Shown
    <3>2. \A j \in 1 .. m : j < k <=> priority[s[j]] <= p
      BY DEF Pushed
    <3>3. \A j \in 1 .. k - 1 : j \in 1 .. m /\ j < k
      BY <1>1, <1>2
    <3>4. \A j \in 1 .. m : j < k => j \in 1 .. k - 1
      BY <1>2
    <3> HIDE DEF q
    <3> QED BY <1>1, <3>1, <3>2, <3>3, <3>4
  <2>2. k - 1 \in Nat /\ 1 + (k - 1) = k
    BY <1>2
  <2>3. Queue!Stable!Cardinality(1 .. k - 1) = k - 1
    BY <2>2, SizeOf, CardinalityIs
  <2> QED BY <2>1, <2>2, <2>3 DEF Queue!Stable!Place
<1>7. Queue!Stable!InsertAt(q, k, e) = r
  <2> HIDE DEF q, e
  <2> QED BY <1>1, <1>2, InsertAtIs
<1>8. Shown(m + 1, t)' = r
  <2>1. priority'[n] = p /\ data'[n] = d
    BY <1>2 DEF Pushed, QueueInv, Queue!TypeOK
  <2>2. \A j \in 1 .. m : priority'[s[j]] = priority[s[j]] /\ data'[s[j]] = data[s[j]]
    BY <1>1, <1>2 DEF Pushed, QueueInv, Queue!TypeOK
  <2>3. \A j \in 1 .. m : q[j] = [priority |-> priority[s[j]], data |-> data[s[j]]]
    BY DEF Shown
  <2> HIDE DEF t, q
  <2>4. ASSUME NEW j \in 1 .. m + 1
        PROVE  [priority |-> priority'[t[j]], data |-> data'[t[j]]]
                 = IF j < k THEN q[j] ELSE IF j = k THEN e ELSE q[j - 1]
    <3>1. CASE j \in 1 .. m /\ j < k
      BY <1>3, <2>2, <2>3, <3>1 DEF IsPut
    <3>2. CASE j = k
      BY <1>2, <1>3, <2>1, <3>2 DEF IsPut
    <3>3. CASE j - 1 \in 1 .. m /\ j - 1 >= k /\ (j - 1) + 1 = j
      <4>1. ~(j < k) /\ j # k
        BY <1>2, <3>3
      <4>2. t[j] = s[j - 1]
        BY <1>3, <3>3 DEF IsPut
      <4> QED BY <2>2, <2>3, <3>3, <4>1, <4>2
    <3> QED BY <1>3, <3>1, <3>2, <3>3 DEF IsPut
  <2> QED BY <2>4 DEF Shown
<1>9. popped' = popped
  BY DEF Pushed
<1> HIDE DEF q, t, r
<1> QED BY <1>4, <1>5, <1>6, <1>7, <1>8, <1>9 DEF Queue!Stable!Push

\* The step of StableQueue that takes the k-th element, or none.
TakenAt(k) ==
    IF k = 0 THEN popped' = NULL /\ UNCHANGED Queue!Elements
    ELSE /\ popped' = Queue!Elements[k].data
         /\ Queue!Elements' = Queue!Stable!RemoveAt(Queue!Elements, k)

LEMMA TakeShows ==
    ASSUME QueueInv, NEW m, NEW s, Queued(m, s), NEW k, Taken(m, s, k)
    PROVE  TakenAt(k)
<1> DEFINE q == Shown(m, s)
           t == Cut(m, s, k)
           r == [j \in 1 .. m - 1 |-> IF j < k THEN q[j] ELSE q[j + 1]]
<1>1. /\ m \in Nat /\ s \in [1 .. m -> Nodes] /\ \A j \in 1 .. m : s[j] \in Nodes
      /\ q \in Seq(Queue!Stable!Element) /\ Len(q) = m
      /\ \A i, j \in 1 .. m : s[i] = s[j] => i = j
  BY QueuedIs, ShownType DEF Queued, Linked
<1>2. k \in 1 .. m /\ k # 0
  BY DEF Taken
<1>3. /\ m - 1 \in Nat /\ t \in [1 .. m - 1 -> Nodes]
      /\ \A j \in 1 .. m - 1 : j < k => t[j] = s[j]
      /\ \A j \in 1 .. m - 1 : j >= k => t[j] = s[j + 1]
  BY <1>1, <1>2, CutIs
<1>4. Queue!Elements = q
  BY ShownIs DEF ShownFit
<1>5. Queue!Elements' = Shown(m - 1, t)'
  <2>1. ShownFit'
    BY ShownIs, PTL
  <2>2. Queued(m - 1, t)'
    BY TakeKeeps
  <2> HIDE DEF t
  <2> QED BY <2>1, <2>2 DEF ShownFit
<1>6. Queue!Stable!RemoveAt(q, k) = r
  <2> HIDE DEF q
  <2> QED BY <1>1, <1>2, RemoveAtIs
<1>7. Shown(m - 1, t)' = r
  <2>1. \A j \in 1 .. m : j # k => priority'[s[j]] = priority[s[j]] /\ data'[s[j]] = data[s[j]]
    BY <1>1, <1>2 DEF Taken
  <2>2. \A j \in 1 .. m : q[j] = [priority |-> priority[s[j]], data |-> data[s[j]]]
    BY DEF Shown
  <2> HIDE DEF t, q
  <2>3. ASSUME NEW j \in 1 .. m - 1
        PROVE  [priority |-> priority'[t[j]], data |-> data'[t[j]]] = IF j < k THEN q[j] ELSE q[j + 1]
    <3>1. j \in 1 .. m /\ j + 1 \in 1 .. m
      BY <1>1
    <3>2. CASE j < k
      BY <1>2, <1>3, <2>1, <2>2, <3>1, <3>2
    <3>3. CASE j >= k
      <4>1. ~(j < k) /\ j + 1 # k
        BY <1>2, <3>3
      <4> QED BY <1>3, <2>1, <2>2, <3>1, <3>3, <4>1
    <3>4. j < k \/ j >= k
      BY <1>2
    <3> QED BY <3>2, <3>3, <3>4
  <2> QED BY <2>3 DEF Shown
<1>8. popped' = q[k].data
  BY <1>2 DEF Taken, Shown
<1> HIDE DEF q, t, r
<1> QED BY <1>2, <1>4, <1>5, <1>6, <1>7, <1>8 DEF TakenAt

LEMMA NoneShows ==
    ASSUME QueueInv, NEW m, NEW s, Queued(m, s), NotTaken
    PROVE  TakenAt(0)
<1>1. Queued(m, s)'
  BY DEF NotTaken, Queued, Linked
<1>2. ShownFit /\ ShownFit'
  BY ShownIs, PTL
<1>3. Queue!Elements = Shown(m, s) /\ Queue!Elements' = Shown(m, s)'
  BY <1>1, <1>2 DEF ShownFit
<1>4. Shown(m, s)' = Shown(m, s)
  BY DEF NotTaken, Shown
<1> QED BY <1>3, <1>4 DEF TakenAt, NotTaken

\* The first element that fits.
Fitting(m, T, k) ==
    \/ k \in 1 .. m /\ k \in T /\ \A j \in 1 .. m : j \in T => k <= j
    \/ k = 0 /\ \A j \in 1 .. m : j \notin T

LEMMA FitIs ==
    ASSUME NEW m \in Nat, NEW T, T \subseteq 1 .. m, NEW k, Fitting(m, T, k)
    PROVE  k = IF T # {} THEN Queue!Stable!Min(T) ELSE 0
<1>1. CASE k = 0
  <2>1. \A j \in 1 .. m : j \notin T
    BY <1>1 DEF Fitting
  <2> QED BY <1>1, <2>1
<1>2. CASE k \in 1 .. m /\ k \in T /\ \A j \in 1 .. m : j \in T => k <= j
  <2>1. T \subseteq Int /\ \A j \in T : k <= j
    BY <1>2
  <2>2. k = Queue!Stable!Min(T)
    BY <1>2, <2>1, MinIs
  <2> QED BY <1>2, <2>2
<1> QED BY <1>1, <1>2 DEF Fitting

LEMMA AnyFits ==
    ASSUME QueueInv, NEW m, NEW s, Queued(m, s), NEW k, TakenAt(k), Fitting(m, 1 .. m, k)
    PROVE  Queue!Stable!Take(LAMBDA x : TRUE)
<1>1. m \in Nat /\ Queue!Elements = Shown(m, s) /\ Len(Shown(m, s)) = m
  BY QueuedIs, ShownIs, ShownType DEF ShownFit
<1>2. k = IF {j \in 1 .. Len(Queue!Elements) : TRUE} # {}
          THEN Queue!Stable!Min({j \in 1 .. Len(Queue!Elements) : TRUE}) ELSE 0
  <2>1. {j \in 1 .. Len(Queue!Elements) : TRUE} = 1 .. m
    BY <1>1
  <2> QED BY <1>1, <2>1, FitIs
<1> QED BY <1>2 DEF TakenAt, Queue!Stable!Take, Queue!Stable!SelectInSeq

\* The first node, if any, whose priority fits.
FirstAt(m, s, p, k) ==
    \/ k \in 1 .. m /\ priority[s[k]] = p /\ \A j \in 1 .. m : priority[s[j]] = p => k <= j
    \/ k = 0 /\ \A j \in 1 .. m : ~(priority[s[j]] = p)
FirstBelow(m, s, p, k) ==
    \/ k \in 1 .. m /\ priority[s[k]] < p /\ \A j \in 1 .. m : priority[s[j]] < p => k <= j
    \/ k = 0 /\ \A j \in 1 .. m : ~(priority[s[j]] < p)
FirstAbove(m, s, p, k) ==
    \/ k \in 1 .. m /\ priority[s[k]] >= p /\ \A j \in 1 .. m : priority[s[j]] >= p => k <= j
    \/ k = 0 /\ \A j \in 1 .. m : ~(priority[s[j]] >= p)

LEMMA OneTaken ==
    ASSUME QueueInv, NEW m, NEW s, Queued(m, s), NEW k \in 1 .. m, Queue!TakeOut(k)
    PROVE  TakenAt(k)
<1>1. k \in 1 .. m + 1
  BY QueuedIs
<1> QED BY <1>1, TakeIs, TakeShows

LEMMA NoneTaken ==
    ASSUME QueueInv, NEW m, NEW s, Queued(m, s), NEW k, k = m + 1, Queue!TakeOut(k)
    PROVE  TakenAt(0)
<1>1. k \in 1 .. m + 1 /\ k \notin 1 .. m
  BY QueuedIs
<1> QED BY <1>1, TakeIs, NoneShows

LEMMA PopShows ==
    ASSUME QueueInv, NEW m, NEW s, Queued(m, s), Queue!Pop
    PROVE  Queue!Stable!Take(LAMBDA x : TRUE)
<1>1. m \in Nat /\ Queue!TakeOut(1)
  BY QueuedIs DEF Queue!Pop
<1>2. CASE m = 0
  <2>1. TakenAt(0) /\ Fitting(m, 1 .. m, 0)
    BY <1>1, <1>2, NoneTaken DEF Fitting
  <2> QED BY <2>1, AnyFits
<1>3. CASE m # 0
  <2>1. TakenAt(1)
    <3>1. 1 \in 1 .. m
      BY <1>1, <1>3
    <3> QED BY <1>1, <3>1, OneTaken
  <2>2. Fitting(m, 1 .. m, 1)
    BY <1>1, <1>3 DEF Fitting
  <2> QED BY <2>1, <2>2, AnyFits
<1> QED BY <1>2, <1>3

LEMMA InOrder ==
    ASSUME QueueInv, NEW m, NEW s, Queued(m, s), NEW i \in 1 .. m, NEW j \in 1 .. m, i <= j
    PROVE  priority[s[i]] \in Nat /\ priority[s[j]] \in Nat /\ priority[s[i]] <= priority[s[j]]
<1>1. m \in Nat /\ priority[s[i]] \in Nat /\ priority[s[j]] \in Nat
  BY QueuedIs
<1>2. i < j => priority[s[i]] <= priority[s[j]]
  BY DEF Queued
<1>3. i = j \/ i < j
  BY <1>1
<1> QED BY <1>1, <1>2, <1>3

\* The loops stop at the first node whose number is not smaller.
LEMMA FirstNotBelow ==
    ASSUME QueueInv, NEW m, NEW s, Queued(m, s), NEW p \in Priorities, NEW k,
           k = Queue!StopAt({q \in used : priority[q] >= p})
    PROVE  /\ k \in 1 .. m + 1 /\ p \in Nat
           /\ \A j \in 1 .. m : priority[s[j]] \in Nat /\ (j < k <=> priority[s[j]] < p)
<1> DEFINE T == {q \in used : priority[q] >= p}
<1>1. Stops(m, s, T, k)
  BY StopIs
<1>2. m \in Nat /\ \A j \in 1 .. m : s[j] \in used /\ priority[s[j]] \in Nat
  BY QueuedIs
<1>3. k \in 1 .. m + 1 /\ p \in Nat
  BY <1>1, QueueConstants DEF Stops
<1>4. ASSUME NEW j \in 1 .. m PROVE j < k <=> priority[s[j]] < p
  <2>1. CASE j < k
    <3>1. s[j] \notin T
      BY <1>1, <2>1 DEF Stops
    <3> QED BY <1>2, <1>3, <2>1, <3>1
  <2>2. CASE ~(j < k)
    <3>1. k \in 1 .. m /\ k <= j
      BY <1>2, <1>3, <2>2
    <3>2. priority[s[k]] >= p
      BY <1>1, <3>1 DEF Stops
    <3>3. priority[s[k]] <= priority[s[j]]
      BY <3>1, InOrder
    <3> QED BY <1>2, <1>3, <2>2, <3>1, <3>2, <3>3
  <2> QED BY <2>1, <2>2
<1> QED BY <1>2, <1>3, <1>4

LEMMA AtMaxTaken ==
    ASSUME QueueInv, NEW m, NEW s, Queued(m, s), NEW p \in Priorities, Queue!PopAtMaxPriority(p)
    PROVE  \E k : TakenAt(k) /\ FirstAbove(m, s, p, k)
<1> DEFINE k == Queue!StopAt({q \in used : priority[q] >= p})
<1>1. /\ k \in 1 .. m + 1 /\ p \in Nat
      /\ \A j \in 1 .. m : priority[s[j]] \in Nat /\ (j < k <=> priority[s[j]] < p)
  BY FirstNotBelow
<1>2. Queue!TakeOut(k) /\ m \in Nat
  BY QueuedIs DEF Queue!PopAtMaxPriority
<1> HIDE DEF k
<1>3. \A j \in 1 .. m : priority[s[j]] >= p <=> k <= j
  BY <1>1
<1>4. CASE k \in 1 .. m
  <2>1. TakenAt(k)
    BY <1>2, <1>4, OneTaken
  <2>2. FirstAbove(m, s, p, k)
    BY <1>1, <1>3, <1>4 DEF FirstAbove
  <2> QED BY <2>1, <2>2
<1>5. CASE k = m + 1
  <2>1. TakenAt(0)
    BY <1>2, <1>5, NoneTaken
  <2>2. FirstAbove(m, s, p, 0)
    BY <1>1, <1>2, <1>3, <1>5 DEF FirstAbove
  <2> QED BY <2>1, <2>2
<1> QED BY <1>1, <1>2, <1>4, <1>5

LEMMA ExactTaken ==
    ASSUME QueueInv, NEW m, NEW s, Queued(m, s), NEW p \in Priorities, Queue!PopExactPriority(p)
    PROVE  \E k : TakenAt(k) /\ FirstAt(m, s, p, k)
<1> DEFINE k == Queue!StopAt({q \in used : priority[q] >= p})
<1>1. /\ k \in 1 .. m + 1 /\ p \in Nat
      /\ \A j \in 1 .. m : priority[s[j]] \in Nat /\ (j < k <=> priority[s[j]] < p)
  BY FirstNotBelow
<1>2. m \in Nat /\ Len(Queue!Chain) = m /\ \A j \in 1 .. m : s[j] # NULL
  BY QueuedIs
<1>3. IF Queue!Curr(k) # NULL /\ priority[Queue!Curr(k)] = p THEN Queue!TakeOut(k)
                                                       ELSE Queue!TakeOut(m + 1)
  BY <1>2 DEF Queue!PopExactPriority
<1> HIDE DEF k
<1>4. Queue!Curr(k) = IF k \in 1 .. m THEN s[k] ELSE NULL
  BY <1>1, QueuedIs
<1>5. CASE k \in 1 .. m /\ priority[s[k]] = p
  <2>1. TakenAt(k)
    BY <1>2, <1>3, <1>4, <1>5, OneTaken
  <2>2. \A j \in 1 .. m : priority[s[j]] = p => k <= j
    BY <1>1
  <2>3. FirstAt(m, s, p, k)
    BY <1>5, <2>2 DEF FirstAt
  <2> QED BY <2>1, <2>3
<1>6. CASE ~(k \in 1 .. m /\ priority[s[k]] = p)
  <2>1. TakenAt(0)
    BY <1>3, <1>4, <1>6, NoneTaken
  <2>2. ASSUME NEW j \in 1 .. m PROVE priority[s[j]] # p
    <3>1. CASE j < k
      BY <1>1, <3>1
    <3>2. CASE ~(j < k)
      <4>1. k \in 1 .. m /\ k <= j
        BY <1>1, <1>2, <3>2
      <4>2. priority[s[k]] <= priority[s[j]]
        BY <4>1, InOrder
      <4>3. ~(k < k)
        BY <1>1
      <4>4. priority[s[k]] > p
        BY <1>1, <1>6, <4>1, <4>3
      <4> QED BY <1>1, <4>1, <4>2, <4>4
    <3> QED BY <3>1, <3>2
  <2>3. FirstAt(m, s, p, 0)
    BY <2>2 DEF FirstAt
  <2> QED BY <2>1, <2>3
<1> QED BY <1>5, <1>6

LEMMA AtLeastTaken ==
    ASSUME QueueInv, NEW m, NEW s, Queued(m, s), NEW p \in Priorities, Queue!PopAtLeastPriority(p)
    PROVE  \E k : TakenAt(k) /\ FirstBelow(m, s, p, k)
<1>1. /\ m \in Nat /\ Len(Queue!Chain) = m /\ p \in Nat
      /\ \A j \in 1 .. m : s[j] # NULL /\ priority[s[j]] \in Nat
  <2>1. p \in Nat
    BY QueueConstants
  <2> QED BY <2>1, QueuedIs
<1>2. first = IF m = 0 THEN NULL ELSE s[1]
  BY DEF Queued, Linked
<1>3. IF first # NULL /\ priority[first] < p THEN Queue!TakeOut(1) ELSE Queue!TakeOut(m + 1)
  BY <1>1 DEF Queue!PopAtLeastPriority, Queue!Above
<1>4. CASE m # 0 /\ priority[s[1]] < p
  <2>0. 1 \in 1 .. m
    BY <1>1, <1>4
  <2>1. TakenAt(1)
    BY <1>1, <1>2, <1>3, <1>4, <2>0, OneTaken
  <2>2. FirstBelow(m, s, p, 1)
    BY <1>1, <1>4, <2>0 DEF FirstBelow
  <2> QED BY <2>1, <2>2
<1>5. CASE ~(m # 0 /\ priority[s[1]] < p)
  <2>1. TakenAt(0)
    BY <1>1, <1>2, <1>3, <1>5, NoneTaken
  <2>2. ASSUME NEW j \in 1 .. m PROVE ~(priority[s[j]] < p)
    <3>1. 1 \in 1 .. m /\ 1 <= j /\ m # 0
      BY <1>1
    <3>2. priority[s[1]] <= priority[s[j]]
      BY <3>1, InOrder
    <3> QED BY <1>1, <1>5, <3>1, <3>2
  <2>3. FirstBelow(m, s, p, 0)
    BY <2>2 DEF FirstBelow
  <2> QED BY <2>1, <2>3
<1> QED BY <1>4, <1>5

LEMMA AtMaxShows ==
    ASSUME QueueInv, NEW m, NEW s, Queued(m, s), NEW p \in Priorities, Queue!PopAtMaxPriority(p)
    PROVE  Queue!Stable!Take(LAMBDA x : x >= p)
<1>0. PICK k : TakenAt(k) /\ FirstAbove(m, s, p, k)
  BY AtMaxTaken
<1>1. m \in Nat /\ Queue!Elements = Shown(m, s) /\ Len(Shown(m, s)) = m
  BY QueuedIs, ShownIs, ShownType DEF ShownFit
<1> DEFINE T == {j \in 1 .. Len(Queue!Elements) : Queue!Elements[j].priority >= p}
<1>2. T = {j \in 1 .. m : priority[s[j]] >= p}
  BY <1>1 DEF Shown
<1>3. T \subseteq 1 .. m /\ Fitting(m, T, k)
  BY <1>0, <1>1, <1>2 DEF Fitting, FirstAbove
<1>4. k = IF T # {} THEN Queue!Stable!Min(T) ELSE 0
  <2> HIDE DEF T
  <2> QED BY <1>1, <1>3, FitIs
<1> QED BY <1>0, <1>4 DEF TakenAt, Queue!Stable!Take, Queue!Stable!SelectInSeq

LEMMA ExactShows ==
    ASSUME QueueInv, NEW m, NEW s, Queued(m, s), NEW p \in Priorities, Queue!PopExactPriority(p)
    PROVE  Queue!Stable!Take(LAMBDA x : x = p)
<1>0. PICK k : TakenAt(k) /\ FirstAt(m, s, p, k)
  BY ExactTaken
<1>1. m \in Nat /\ Queue!Elements = Shown(m, s) /\ Len(Shown(m, s)) = m
  BY QueuedIs, ShownIs, ShownType DEF ShownFit
<1> DEFINE T == {j \in 1 .. Len(Queue!Elements) : Queue!Elements[j].priority = p}
<1>2. T = {j \in 1 .. m : priority[s[j]] = p}
  BY <1>1 DEF Shown
<1>3. T \subseteq 1 .. m /\ Fitting(m, T, k)
  BY <1>0, <1>1, <1>2 DEF Fitting, FirstAt
<1>4. k = IF T # {} THEN Queue!Stable!Min(T) ELSE 0
  <2> HIDE DEF T
  <2> QED BY <1>1, <1>3, FitIs
<1> QED BY <1>0, <1>4 DEF TakenAt, Queue!Stable!Take, Queue!Stable!SelectInSeq

LEMMA AtLeastShows ==
    ASSUME QueueInv, NEW m, NEW s, Queued(m, s), NEW p \in Priorities, Queue!PopAtLeastPriority(p)
    PROVE  Queue!Stable!Take(LAMBDA x : x < p)
<1>0. PICK k : TakenAt(k) /\ FirstBelow(m, s, p, k)
  BY AtLeastTaken
<1>1. m \in Nat /\ Queue!Elements = Shown(m, s) /\ Len(Shown(m, s)) = m
  BY QueuedIs, ShownIs, ShownType DEF ShownFit
<1> DEFINE T == {j \in 1 .. Len(Queue!Elements) : Queue!Elements[j].priority < p}
<1>2. T = {j \in 1 .. m : priority[s[j]] < p}
  BY <1>1 DEF Shown
<1>3. T \subseteq 1 .. m /\ Fitting(m, T, k)
  BY <1>0, <1>1, <1>2 DEF Fitting, FirstBelow
<1>4. k = IF T # {} THEN Queue!Stable!Min(T) ELSE 0
  <2> HIDE DEF T
  <2> QED BY <1>1, <1>3, FitIs
<1> QED BY <1>0, <1>4 DEF TakenAt, Queue!Stable!Take, Queue!Stable!SelectInSeq

LEMMA DestroyShows ==
    ASSUME QueueInv, NEW m, NEW s, Queued(m, s), Queue!DestroyQueue
    PROVE  Queue!Stable!Clear
<1>1. PICK t : t \in [1 .. 0 -> Nodes] /\ Queued(0, t)'
  BY DestroyKeeps
<1>2. ShownFit'
  BY ShownIs, PTL
<1>3. Queue!Elements' = Shown(0, t)'
  BY <1>1, <1>2 DEF ShownFit
<1>4. Shown(0, t)' = <<>>
  BY DEF Shown
<1> QED BY <1>3, <1>4 DEF Queue!DestroyQueue, Queue!Stable!Clear

LEMMA QueueStableBegins == Queue!Init => Queue!Stable!Init
<1> SUFFICES ASSUME Queue!Init PROVE Queue!Stable!Init
  OBVIOUS
<1>1. PICK t : t \in [1 .. 0 -> Nodes]
  <2>1. [j \in 1 .. 0 |-> NULL] \in [1 .. 0 -> Nodes]
    OBVIOUS
  <2> QED BY <2>1
<1>2. Queued(0, t)
  BY <1>1 DEF Queue!Init, Queued, Linked, In
<1>3. Queue!Elements = Shown(0, t)
  BY <1>2, ShownIs DEF ShownFit
<1>4. Shown(0, t) = <<>>
  BY DEF Shown
<1> QED BY <1>3, <1>4 DEF Queue!Init, Queue!Stable!Init

LEMMA QueueStableStep ==
    QueueInv /\ [Queue!Next]_Queue!vars => [Queue!Stable!Next]_<<Queue!Elements, popped>>
<1> SUFFICES ASSUME QueueInv, [Queue!Next]_Queue!vars
    PROVE  [Queue!Stable!Next]_<<Queue!Elements, popped>>
  OBVIOUS
<1>1. PICK m, s : Queued(m, s)
  BY DEF QueueInv
<1>2. ASSUME NEW d \in Contacts, NEW p \in Priorities, Queue!Push(d, p)
      PROVE  Queue!Stable!Push(d, p)
  BY <1>1, <1>2, PushIs, PushShows
<1>3. ASSUME UNCHANGED Queue!vars PROVE UNCHANGED <<Queue!Elements, popped>>
  <2>1. Queued(m, s)'
    BY <1>1, <1>3 DEF Queue!vars, Queued, Linked
  <2>2. ShownFit /\ ShownFit'
    BY ShownIs, PTL
  <2>3. Queue!Elements = Shown(m, s) /\ Queue!Elements' = Shown(m, s)'
    BY <1>1, <2>1, <2>2 DEF ShownFit
  <2> QED BY <1>3, <2>3 DEF Queue!vars, Shown
<1>4. CASE Queue!Pop
  <2>1. Queue!Stable!Take(LAMBDA x : TRUE)
    BY <1>1, <1>4, PopShows
  <2> QED BY <2>1 DEF Queue!Stable!Next
<1>5. ASSUME NEW p \in Priorities, Queue!PopExactPriority(p) PROVE Queue!Stable!Next
  <2>1. Queue!Stable!Take(LAMBDA x : x = p)
    BY <1>1, <1>5, ExactShows
  <2> QED BY <2>1 DEF Queue!Stable!Next
<1>6. ASSUME NEW p \in Priorities, Queue!PopAtLeastPriority(p) PROVE Queue!Stable!Next
  <2>1. Queue!Stable!Take(LAMBDA x : x < p)
    BY <1>1, <1>6, AtLeastShows
  <2> QED BY <2>1 DEF Queue!Stable!Next
<1>7. ASSUME NEW p \in Priorities, Queue!PopAtMaxPriority(p) PROVE Queue!Stable!Next
  <2>1. Queue!Stable!Take(LAMBDA x : x >= p)
    BY <1>1, <1>7, AtMaxShows
  <2> QED BY <2>1 DEF Queue!Stable!Next
<1>8. CASE Queue!DestroyQueue
  <2>1. Queue!Stable!Clear
    BY <1>1, <1>8, DestroyShows
  <2> QED BY <2>1 DEF Queue!Stable!Next
<1>9. (\E d \in Contacts, p \in Priorities : Queue!Push(d, p)) => Queue!Stable!Next
  BY <1>2 DEF Queue!Stable!Next
<1> QED BY <1>3, <1>4, <1>5, <1>6, <1>7, <1>8, <1>9 DEF Queue!Next

-----------------------------------------------------------------------------
(* A list that is linked both ways. *)

Back(m, s) == [j \in 1 .. m |-> s[m + 1 - j]]

\* From h along nx, and from t along pv back.
Doubly(m, s, h, t, nx, pv) ==
    /\ Linked(m, s, h, nx)
    /\ Linked(m, Back(m, s), IF m = 0 THEN NULL ELSE t, pv)

LEMMA BackIs ==
    ASSUME NEW m \in Nat, NEW s \in [1 .. m -> Nodes]
    PROVE  /\ Back(m, s) \in [1 .. m -> Nodes] /\ In(m, Back(m, s)) = In(m, s)
           /\ \A j \in 1 .. m : m + 1 - j \in 1 .. m /\ m + 1 - (m + 1 - j) = j
           /\ \A j \in 1 .. m : Back(m, s)[j] = s[m + 1 - j] /\ Back(m, s)[m + 1 - j] = s[j]
<1>1. \A j \in 1 .. m : m + 1 - j \in 1 .. m /\ m + 1 - (m + 1 - j) = j
  OBVIOUS
<1>2. Back(m, s) \in [1 .. m -> Nodes]
  BY <1>1 DEF Back
<1>3. \A j \in 1 .. m : Back(m, s)[j] = s[m + 1 - j]
  BY DEF Back
<1>4. \A j \in 1 .. m : Back(m, s)[m + 1 - j] = s[j]
  BY <1>1, <1>3
<1>5. In(m, Back(m, s)) = In(m, s)
  <2>1. ASSUME NEW x \in In(m, s) PROVE x \in In(m, Back(m, s))
    BY <1>1, <1>4 DEF In
  <2>2. ASSUME NEW x \in In(m, Back(m, s)) PROVE x \in In(m, s)
    BY <1>1, <1>3 DEF In
  <2> QED BY <2>1, <2>2
<1> QED BY <1>1, <1>2, <1>3, <1>4, <1>5

LEMMA BackPut ==
    ASSUME NEW m \in Nat, NEW s \in [1 .. m -> Nodes], NEW k \in 1 .. m + 1, NEW n \in Nodes
    PROVE  Back(m + 1, Put(m, s, k, n)) = Put(m, Back(m, s), m + 2 - k, n)
<1> DEFINE t == Put(m, s, k, n)
           b == Back(m, s)
<1>1. \A j \in 1 .. m + 1 : t[j] = IF j < k THEN s[j] ELSE IF j = k THEN n ELSE s[j - 1]
  BY DEF Put
<1>2. \A j \in 1 .. m : b[j] = s[m + 1 - j]
  BY DEF Back
<1> HIDE DEF t, b
<1>3. ASSUME NEW j \in 1 .. m + 1
      PROVE  t[m + 1 + 1 - j] = IF j < m + 2 - k THEN b[j] ELSE IF j = m + 2 - k THEN n ELSE b[j - 1]
  <2>1. m + 1 + 1 - j \in 1 .. m + 1
    OBVIOUS
  <2>2. CASE j < m + 2 - k
    <3>1. ~(m + 1 + 1 - j < k) /\ m + 1 + 1 - j # k /\ j \in 1 .. m
          /\ m + 1 + 1 - j - 1 = m + 1 - j
      BY <2>2
    <3>2. t[m + 1 + 1 - j] = s[m + 1 + 1 - j - 1]
      BY <1>1, <2>1, <3>1
    <3> QED BY <1>2, <2>2, <3>1, <3>2
  <2>3. CASE j = m + 2 - k
    <3>1. m + 1 + 1 - j = k /\ ~(j < m + 2 - k) /\ ~(k < k)
      BY <2>3
    <3> QED BY <1>1, <2>1, <2>3, <3>1
  <2>4. CASE j > m + 2 - k
    <3>1. m + 1 + 1 - j < k /\ j - 1 \in 1 .. m /\ m + 1 - (j - 1) = m + 1 + 1 - j
          /\ ~(j < m + 2 - k) /\ j # m + 2 - k
      BY <2>4
    <3>2. b[j - 1] = s[m + 1 - (j - 1)]
      BY <1>2, <3>1
    <3>3. t[m + 1 + 1 - j] = s[m + 1 + 1 - j]
      BY <1>1, <2>1, <3>1
    <3> QED BY <3>1, <3>2, <3>3
  <2>5. j < m + 2 - k \/ j = m + 2 - k \/ j > m + 2 - k
    OBVIOUS
  <2> QED BY <2>2, <2>3, <2>4, <2>5
<1>4. Back(m + 1, t) = Put(m, b, m + 2 - k, n)
  BY <1>3 DEF Back, Put
<1> QED BY <1>4 DEF t, b

LEMMA BackCut ==
    ASSUME NEW m \in Nat, NEW s \in [1 .. m -> Nodes], NEW k \in 1 .. m
    PROVE  Back(m - 1, Cut(m, s, k)) = Cut(m, Back(m, s), m + 1 - k)
<1> DEFINE t == Cut(m, s, k)
           b == Back(m, s)
<1>1. \A j \in 1 .. m - 1 : t[j] = IF j < k THEN s[j] ELSE s[j + 1]
  BY DEF Cut
<1>2. \A j \in 1 .. m : b[j] = s[m + 1 - j]
  BY DEF Back
<1> HIDE DEF t, b
<1>3. ASSUME NEW j \in 1 .. m - 1
      PROVE  t[m - 1 + 1 - j] = IF j < m + 1 - k THEN b[j] ELSE b[j + 1]
  <2>1. m - 1 + 1 - j \in 1 .. m - 1 /\ j \in 1 .. m /\ j + 1 \in 1 .. m
    OBVIOUS
  <2>2. CASE j < m + 1 - k
    <3>1. ~(m - 1 + 1 - j < k) /\ m - 1 + 1 - j + 1 = m + 1 - j
      BY <2>2
    <3>2. t[m - 1 + 1 - j] = s[m - 1 + 1 - j + 1]
      BY <1>1, <2>1, <3>1
    <3>3. b[j] = s[m + 1 - j]
      BY <1>2, <2>1
    <3> QED BY <2>2, <3>1, <3>2, <3>3
  <2>3. CASE ~(j < m + 1 - k)
    <3>1. m - 1 + 1 - j < k /\ m + 1 - (j + 1) = m - 1 + 1 - j
      BY <2>3
    <3>2. t[m - 1 + 1 - j] = s[m - 1 + 1 - j]
      BY <1>1, <2>1, <3>1
    <3>3. b[j + 1] = s[m + 1 - (j + 1)]
      BY <1>2, <2>1
    <3> QED BY <2>3, <3>1, <3>2, <3>3
  <2> QED BY <2>2, <2>3
<1>4. Back(m - 1, t) = Cut(m, b, m + 1 - k)
  BY <1>3 DEF Back, Cut
<1> QED BY <1>4 DEF t, b

LEMMA DoublyPut ==
    ASSUME NEW m, NEW s, NEW h, NEW t, NEW nx, NEW pv, Doubly(m, s, h, t, nx, pv),
           NEW k \in 1 .. m + 1, NEW n \in Nodes, n \notin In(m, s),
           NEW h2, NEW t2, NEW nx2, NEW pv2,
           h2 = (IF k = 1 THEN n ELSE h), t2 = (IF k = m + 1 THEN n ELSE t),
           nx2[n] = (IF k = m + 1 THEN NULL ELSE s[k]), pv2[n] = (IF k = 1 THEN NULL ELSE s[k - 1]),
           \A j \in 1 .. m : nx2[s[j]] = IF j = k - 1 THEN n ELSE nx[s[j]],
           \A j \in 1 .. m : pv2[s[j]] = IF j = k THEN n ELSE pv[s[j]]
    PROVE  Doubly(m + 1, Put(m, s, k, n), h2, t2, nx2, pv2)
<1> DEFINE b == Back(m, s)
           l == m + 2 - k
<1>1. m \in Nat /\ s \in [1 .. m -> Nodes] /\ Linked(m, s, h, nx)
      /\ Linked(m, b, IF m = 0 THEN NULL ELSE t, pv)
  BY DEF Doubly, Linked
<1>2. Linked(m + 1, Put(m, s, k, n), h2, nx2)
  <2>1. k \in 1 .. m + 1 /\ n \in Nodes /\ n \notin In(m, s) /\ h2 = IF k = 1 THEN n ELSE h
    OBVIOUS
  <2>2. nx2[n] = IF k = m + 1 THEN NULL ELSE s[k]
    OBVIOUS
  <2>3. \A j \in 1 .. m : nx2[s[j]] = IF j = k - 1 THEN n ELSE nx[s[j]]
    OBVIOUS
  <2> QED BY ONLY <1>1, <2>1, <2>2, <2>3, LinkedPut
<1>3. /\ In(m, b) = In(m, s)
      /\ \A j \in 1 .. m : m + 1 - j \in 1 .. m /\ b[j] = s[m + 1 - j]
  BY <1>1, BackIs
<1> HIDE DEF b
<1>4. l \in 1 .. m + 1 /\ l - 1 = m + 1 - k /\ (l = 1 <=> k = m + 1) /\ (l = m + 1 <=> k = 1)
  BY <1>1
<1>5. pv2[n] = IF l = m + 1 THEN NULL ELSE b[l]
  <2>1. k # 1 => l \in 1 .. m /\ m + 1 - l = k - 1
    BY <1>1
  <2> QED BY <1>3, <1>4, <2>1
<1>6. ASSUME NEW j \in 1 .. m PROVE pv2[b[j]] = IF j = l - 1 THEN n ELSE pv[b[j]]
  <2>1. m + 1 - j = k <=> j = l - 1
    BY <1>1
  <2> HIDE DEF l
  <2> QED BY <1>3, <2>1
<1>7. t2 = IF l = 1 THEN n ELSE IF m = 0 THEN NULL ELSE t
  <2>1. m = 0 => k = m + 1
    OBVIOUS
  <2> QED BY <1>4, <2>1
<1> HIDE DEF l
<1>8. Linked(m + 1, Put(m, b, l, n), t2, pv2)
  <2>1. n \in Nodes /\ n \notin In(m, b)
    BY <1>3
  <2> QED BY ONLY <1>1, <1>4, <1>5, <1>6, <1>7, <2>1, LinkedPut
<1>9. Back(m + 1, Put(m, s, k, n)) = Put(m, b, l, n)
  BY <1>1, BackPut DEF b, l
<1>10. m + 1 # 0
  BY <1>1
<1> QED BY <1>2, <1>8, <1>9, <1>10 DEF Doubly

\* The links and ends h2, t2, nx2 and pv2 leave the k-th node out.
CutLinks(m, s, k, h, t, nx, pv, h2, t2, nx2, pv2) ==
    /\ k \in 1 .. m
    /\ h2 = (IF k = 1 THEN nx[s[k]] ELSE h)
    /\ m # 1 => t2 = (IF k = m THEN pv[s[k]] ELSE t)
    /\ \A j \in 1 .. m : j # k => nx2[s[j]] = IF j = k - 1 THEN nx[s[k]] ELSE nx[s[j]]
    /\ \A j \in 1 .. m : j # k => pv2[s[j]] = IF j = k + 1 THEN pv[s[k]] ELSE pv[s[j]]

LEMMA DoublyCut ==
    ASSUME NEW m, NEW s, NEW h, NEW t, NEW nx, NEW pv, Doubly(m, s, h, t, nx, pv),
           NEW k, NEW h2, NEW t2, NEW nx2, NEW pv2,
           CutLinks(m, s, k, h, t, nx, pv, h2, t2, nx2, pv2)
    PROVE  Doubly(m - 1, Cut(m, s, k), h2, t2, nx2, pv2)
<1> USE DEF CutLinks
<1> DEFINE b == Back(m, s)
           l == m + 1 - k
           u == IF m - 1 = 0 THEN NULL ELSE t2
<1>1. m \in Nat /\ s \in [1 .. m -> Nodes] /\ Linked(m, s, h, nx)
      /\ Linked(m, b, IF m = 0 THEN NULL ELSE t, pv)
  BY DEF Doubly, Linked
<1>2. Linked(m - 1, Cut(m, s, k), h2, nx2)
  BY <1>1, LinkedCut, ZenonT(30)
<1>3. \A j \in 1 .. m : m + 1 - j \in 1 .. m /\ b[j] = s[m + 1 - j]
  BY <1>1, BackIs
<1> HIDE DEF b
<1>4. l \in 1 .. m /\ (l = 1 <=> k = m) /\ m + 1 - l = k /\ m # 0
  BY <1>1
<1>5. b[l] = s[k]
  BY <1>3, <1>4
<1>6. u = IF l = 1 THEN pv[b[l]] ELSE IF m = 0 THEN NULL ELSE t
  <2>1. CASE m = 1
    <3>1. l = 1 /\ l = m /\ m - 1 = 0
      BY <1>4, <2>1
    <3>2. pv[b[l]] = NULL
      BY <1>1, <1>4, <3>1 DEF Linked
    <3> QED BY <3>1, <3>2
  <2>2. CASE m # 1
    <3>1. m - 1 # 0
      BY <1>1, <2>2
    <3> QED BY <1>4, <1>5, <2>2, <3>1
  <2> QED BY <2>1, <2>2
<1>7. ASSUME NEW j \in 1 .. m, j # l
      PROVE  pv2[b[j]] = IF j = l - 1 THEN pv[b[l]] ELSE pv[b[j]]
  <2>1. (m + 1 - j = k + 1 <=> j = l - 1) /\ m + 1 - j # k
    BY <1>1, <1>7
  <2> HIDE DEF l
  <2> QED BY <1>3, <1>5, <2>1
<1> HIDE DEF l, u
<1>8. Linked(m - 1, Cut(m, b, l), u, pv2)
  BY <1>1, <1>4, <1>6, <1>7, LinkedCut
<1>9. Back(m - 1, Cut(m, s, k)) = Cut(m, b, l)
  BY <1>1, BackCut DEF b, l
<1> QED BY <1>2, <1>8, <1>9 DEF Doubly, u

-----------------------------------------------------------------------------
(* ContactList: its inductive invariant. *)

Listed(m, s) ==
    /\ Doubly(m, s, head, tail, next, prev) /\ live = In(m, s)
    /\ \A j, k \in 1 .. m : j < k => id[s[j]] < id[s[k]]

\* The allocated nodes are linked both ways, in the order of the ids.
ListInv ==
    /\ TypeOK
    /\ \E m \in 0 .. Cardinality(Nodes) : \E s \in [1 .. m -> Nodes] : Listed(m, s)

LEMMA ListedIs ==
    ASSUME ListInv, NEW m, NEW s, Listed(m, s)
    PROVE  /\ m \in Nat /\ s \in [1 .. m -> Nodes] /\ Len(s) = m /\ Chain = s
           /\ DOMAIN s = 1 .. m /\ Linked(m, s, head, next)
           /\ \A k \in 1 .. m : s[k] \in Nodes /\ s[k] # NULL /\ s[k] \in live /\ id[s[k]] \in Nat
           /\ live \subseteq Nodes /\ \A n \in live : \E k \in 1 .. m : n = s[k]
<1>1. Linked(m, s, head, next)
  BY DEF Listed, Doubly
<1>2. /\ m \in Nat /\ s \in [1 .. m -> Nodes] /\ Len(s) = m /\ Chain = s
      /\ \A k \in 1 .. m : s[k] \in Nodes /\ s[k] # NULL /\ s[k] \in live
  BY <1>1, LinkedNodes, AlongIs DEF Listed, Chain
<1>3. \A k \in 1 .. m : id[s[k]] \in Nat
  BY <1>2 DEF ListInv, TypeOK
<1>4. live \subseteq Nodes /\ \A n \in live : \E k \in 1 .. m : n = s[k]
  BY <1>1, LinkedNodes DEF Listed, In
<1> QED BY <1>1, <1>2, <1>3, <1>4

LEMMA ListRead == ListInv => BothWays /\ Ordered
<1> SUFFICES ASSUME ListInv PROVE BothWays /\ Ordered
  OBVIOUS
<1>1. PICK m, s : Listed(m, s)
  BY DEF ListInv
<1>2. m \in Nat /\ s \in [1 .. m -> Nodes] /\ Len(s) = m /\ Chain = s /\ DOMAIN s = 1 .. m
  BY <1>1, ListedIs
<1>3. head = NULL <=> m = 0
  BY <1>1, ListedIs DEF Linked
<1>4. Along(prev, IF head = NULL THEN NULL ELSE tail) = Back(m, s)
  BY <1>1, <1>3, AlongIs DEF Listed, Doubly
<1>5. Back(m, s) = Reverse(s)
  <2>1. \A j \in 1 .. m : m + 1 - j = (m - j) + 1
    BY <1>2
  <2> QED BY <1>2, <2>1 DEF Back, Reverse
<1>6. IsInjective(s)
  BY <1>1, <1>2 DEF IsInjective, Listed, Doubly, Linked
<1>7. Range(s) = live
  BY <1>1, <1>2 DEF Range, Listed, In
<1> QED BY <1>1, <1>2, <1>4, <1>5, <1>6, <1>7 DEF BothWays, Ordered, Listed

\* No two nodes of the list have one id, and NodeOf finds the node of an id.
ListNodes ==
    /\ live \subseteq Nodes /\ \A n \in live : id[n] \in Nat
    /\ \A n, q \in live : id[n] = id[q] => n = q
    /\ \A i : \/ NodeOf(i) = NULL /\ \A n \in live : id[n] # i
              \/ NodeOf(i) \in live /\ NodeOf(i) # NULL /\ id[NodeOf(i)] = i

LEMMA ListNodesAre == ListInv => ListNodes
<1> SUFFICES ASSUME ListInv PROVE ListNodes
  OBVIOUS
<1>1. PICK m, s : Listed(m, s)
  BY DEF ListInv
<1>2. /\ m \in Nat /\ Len(s) = m /\ Chain = s
      /\ \A k \in 1 .. m : s[k] \in Nodes /\ s[k] # NULL /\ s[k] \in live /\ id[s[k]] \in Nat
      /\ live \subseteq Nodes /\ \A n \in live : \E k \in 1 .. m : n = s[k]
  BY <1>1, ListedIs
<1>3. \A n, q \in live : id[n] = id[q] => n = q
  <2>1. ASSUME NEW j \in 1 .. m, NEW k \in 1 .. m, id[s[j]] = id[s[k]] PROVE j = k
    <3>1. j < k \/ k < j \/ j = k
      OBVIOUS
    <3>2. \A a, b \in 1 .. m : a < b => id[s[a]] < id[s[b]]
      BY <1>1 DEF Listed
    <3> QED BY <1>2, <2>1, <3>1, <3>2
  <2> QED BY <1>2, <2>1
<1>4. ASSUME NEW i
      PROVE  \/ NodeOf(i) = NULL /\ \A n \in live : id[n] # i
             \/ NodeOf(i) \in live /\ NodeOf(i) # NULL /\ id[NodeOf(i)] = i
  <2> DEFINE T == {j \in 1 .. Len(Chain) : id[Chain[j]] = i}
             k == SelectInSeq(Chain, LAMBDA n : id[n] = i)
  <2>1. k = IF T # {} THEN Min(T) ELSE 0
    BY DEF SelectInSeq
  <2>2. NodeOf(i) = IF k = 0 THEN NULL ELSE Chain[k]
    BY DEF NodeOf
  <2> HIDE DEF k
  <2>3. T = {j \in 1 .. m : id[s[j]] = i}
    BY <1>2
  <2>4. CASE T = {}
    BY <1>2, <2>1, <2>2, <2>3, <2>4, SMTT(20)
  <2>5. CASE T # {}
    <3>1. T \subseteq Nat /\ T \subseteq Int
      BY <1>2, <2>3
    <3>2. PICK j \in T : \A y \in T : j <= y
      <4> HIDE DEF T
      <4> QED BY <2>5, <3>1, LeastNat
    <3>3. k = j
      <4> HIDE DEF T
      <4> QED BY <2>1, <2>5, <3>1, <3>2, MinIs
    <3>4. j \in 1 .. m /\ id[s[j]] = i /\ j # 0
      BY <1>2, <2>3, <3>2
    <3> QED BY <1>2, <2>2, <3>3, <3>4
  <2> QED BY <2>4, <2>5
<1> QED BY <1>2, <1>3, <1>4 DEF ListNodes

LEMMA ListAgain ==
    ASSUME NEW m, NEW s, TypeOK', Listed(m, s)'
    PROVE  ListInv'
<1>1. Linked(m, s, head', next')
  BY DEF Listed, Doubly, Linked
<1>2. m \in 0 .. Cardinality(Nodes) /\ s \in [1 .. m -> Nodes]
  <2>1. m \in Nat /\ m <= Cardinality(Nodes)
    BY <1>1, LinkedFits
  <2> QED BY <1>1, <2>1, NodeConstants DEF Linked
<1> QED BY <1>2 DEF ListInv

LEMMA ListEmpty ==
    ASSUME NEW h, NEW t, NEW nx, NEW pv, h = NULL
    PROVE  \E s : s \in [1 .. 0 -> Nodes] /\ Doubly(0, s, h, t, nx, pv) /\ In(0, s) = {}
<1>1. PICK s : s \in [1 .. 0 -> Nodes]
  <2>1. [j \in 1 .. 0 |-> NULL] \in [1 .. 0 -> Nodes]
    OBVIOUS
  <2> QED BY <2>1
<1>2. Back(0, s) \in [1 .. 0 -> Nodes]
  BY <1>1, BackIs
<1>3. Linked(0, s, h, nx)
  BY <1>1 DEF Linked
<1>4. Linked(0, Back(0, s), NULL, pv)
  BY <1>2 DEF Linked
<1>5. Doubly(0, s, h, t, nx, pv)
  BY <1>3, <1>4 DEF Doubly
<1>6. In(0, s) = {}
  BY DEF In
<1> QED BY <1>1, <1>5, <1>6

LEMMA ListBegins == Init => ListInv
<1> SUFFICES ASSUME Init PROVE ListInv
  OBVIOUS
<1>1. TypeOK
  BY DEF Init, TypeOK
<1>2. PICK s : s \in [1 .. 0 -> Nodes] /\ Doubly(0, s, head, tail, next, prev) /\ In(0, s) = {}
  BY ListEmpty DEF Init
<1>3. Listed(0, s)
  BY <1>2 DEF Listed, Init
<1>4. 0 \in 0 .. Cardinality(Nodes)
  BY NodeConstants
<1> QED BY <1>1, <1>2, <1>3, <1>4 DEF ListInv

-----------------------------------------------------------------------------
(* Putting a node into the list. *)

\* A new node at the k-th place.
Inserted(m, s, k, n, i, c) ==
    /\ k \in 1 .. m + 1 /\ n \in Nodes \ In(m, s)
    /\ \A j \in 1 .. m : j < k <=> id[s[j]] <= i
    /\ live' = live \cup {n}
    /\ id' = [id EXCEPT ![n] = i] /\ contact' = [contact EXCEPT ![n] = c]
    /\ head' = (IF k = 1 THEN n ELSE head) /\ tail' = (IF k = m + 1 THEN n ELSE tail)
    /\ next' = [q \in Nodes |-> IF q = n THEN (IF k = m + 1 THEN NULL ELSE s[k])
                                ELSE IF k > 1 /\ q = s[k - 1] THEN n ELSE next[q]]
    /\ prev' = [q \in Nodes |-> IF q = n THEN (IF k = 1 THEN NULL ELSE s[k - 1])
                                ELSE IF k < m + 1 /\ q = s[k] THEN n ELSE prev[q]]
    /\ result' = c

LEMMA InsertIs ==
    ASSUME ListInv, NEW m, NEW s, Listed(m, s), NEW i \in Int, NEW c, Insert(i, c)
    PROVE  \E k, n : Inserted(m, s, k, n, i, c)
<1> DEFINE g == SelectInSeq(Chain, LAMBDA q : ~ Before(q, i))
           tmp == IF g = 0 THEN NULL ELSE Chain[g]
           old == IF g = 0 THEN (IF Chain = <<>> THEN NULL ELSE Last(Chain))
                  ELSE IF g = 1 THEN NULL ELSE Chain[g - 1]
           k == IF g = 0 THEN m + 1 ELSE g
           T == {j \in 1 .. Len(Chain) : ~ Before(Chain[j], i)}
<1>1. PICK n \in Nodes \ live :
          /\ live' = live \cup {n}
          /\ id' = [id EXCEPT ![n] = i] /\ contact' = [contact EXCEPT ![n] = c]
          /\ head' = (IF old = NULL THEN n ELSE head) /\ tail' = TailOf(tmp, n)
          /\ next' = [q \in Nodes |-> IF q = n THEN tmp ELSE IF q = old THEN n ELSE next[q]]
          /\ prev' = [q \in Nodes |-> IF q = n THEN old ELSE IF q = tmp THEN n ELSE prev[q]]
          /\ result' = c
  BY DEF Insert
<1>2. g = IF T # {} THEN Min(T) ELSE 0
  BY DEF SelectInSeq
<1> HIDE DEF g
<1>3. /\ m \in Nat /\ s \in [1 .. m -> Nodes] /\ Len(s) = m /\ Chain = s
      /\ \A j \in 1 .. m : s[j] \in Nodes /\ s[j] # NULL /\ id[s[j]] \in Nat
  BY ListedIs
<1>4. T = {j \in 1 .. m : ~(id[s[j]] <= i)}
  BY <1>3 DEF Before
<1>5. g \in 0 .. m /\ k \in 1 .. m + 1 /\ \A j \in 1 .. m : j < k <=> id[s[j]] <= i
  <2>1. CASE T = {}
    BY <1>2, <1>3, <1>4, <2>1
  <2>2. CASE T # {}
    <3>1. T \subseteq Nat /\ T \subseteq Int
      BY <1>3, <1>4
    <3>2. PICK j \in T : \A y \in T : j <= y
      <4> HIDE DEF T
      <4> QED BY <2>2, <3>1, LeastNat
    <3>3. g = j
      <4> HIDE DEF T
      <4> QED BY <1>2, <2>2, <3>1, <3>2, MinIs
    <3>4. g \in 1 .. m /\ ~(id[s[g]] <= i) /\ k = g
      BY <1>3, <1>4, <3>2, <3>3
    <3>5. ASSUME NEW a \in 1 .. m PROVE a < g <=> id[s[a]] <= i
      <4>1. CASE a < g
        <5>1. a \notin T
          BY <3>2, <3>3, <3>4, <4>1
        <5> QED BY <1>4, <4>1, <5>1
      <4>2. CASE a = g
        BY <3>4, <4>2
      <4>3. CASE a > g
        <5>1. id[s[g]] < id[s[a]]
          BY <3>4, <4>3 DEF Listed
        <5> QED BY <1>3, <3>4, <4>3, <5>1
      <4> QED BY <3>4, <4>1, <4>2, <4>3
    <3> HIDE DEF k, T
    <3> QED BY <1>3, <3>4, <3>5
  <2> QED BY <2>1, <2>2
<1>6. tmp = (IF k = m + 1 THEN NULL ELSE s[k]) /\ (tmp = NULL <=> k = m + 1)
  BY <1>3, <1>5
<1>7. old = (IF k = 1 THEN NULL ELSE s[k - 1]) /\ (old = NULL <=> k = 1)
  <2>1. CASE g = 0
    <3>1. k = m + 1 /\ (Chain = <<>> <=> m = 0) /\ Last(s) = s[m]
      BY <1>3, <2>1 DEF Last
    <3> QED BY <1>3, <2>1, <3>1
  <2>2. CASE g # 0
    BY <1>3, <1>5, <2>2
  <2> QED BY <2>1, <2>2
<1>8. live = In(m, s) /\ NULL \notin Nodes /\ (k > 1 <=> k # 1) /\ (k < m + 1 <=> k # m + 1)
  BY <1>3, <1>5, NodeConstants DEF Listed
<1> HIDE DEF tmp, old, k, T
<1>9. Inserted(m, s, k, n, i, c)
  <2>1. next' = [q \in Nodes |-> IF q = n THEN (IF k = m + 1 THEN NULL ELSE s[k])
                                 ELSE IF k > 1 /\ q = s[k - 1] THEN n ELSE next[q]]
    BY <1>1, <1>6, <1>7, <1>8
  <2>2. prev' = [q \in Nodes |-> IF q = n THEN (IF k = 1 THEN NULL ELSE s[k - 1])
                                 ELSE IF k < m + 1 /\ q = s[k] THEN n ELSE prev[q]]
    BY <1>1, <1>6, <1>7, <1>8
  <2>3. head' = (IF k = 1 THEN n ELSE head) /\ tail' = (IF k = m + 1 THEN n ELSE tail)
    BY <1>1, <1>6, <1>7 DEF TailOf
  <2> QED BY <1>1, <1>5, <1>8, <2>1, <2>2, <2>3 DEF Inserted
<1> QED BY <1>9

LEMMA InsertKeeps ==
    ASSUME ListInv, NEW m, NEW s, Listed(m, s), NEW i \in Nat, NEW c \in Contacts,
           \A n \in live : id[n] # i, NEW k, NEW n, Inserted(m, s, k, n, i, c)
    PROVE  ListInv'
<1> DEFINE t == Put(m, s, k, n)
<1>1. /\ m \in Nat /\ s \in [1 .. m -> Nodes] /\ Linked(m, s, head, next)
      /\ \A j \in 1 .. m : s[j] \in Nodes /\ s[j] \in live /\ id[s[j]] \in Nat
  BY ListedIs
<1>2. k \in 1 .. m + 1 /\ n \in Nodes /\ n \notin In(m, s) /\ \A j \in 1 .. m : s[j] # n
  BY DEF Inserted, In
<1>3. TypeOK'
  <2>1. (k # m + 1 => k \in 1 .. m) /\ (k # 1 => k - 1 \in 1 .. m)
    BY <1>1, <1>2
  <2>2. /\ (IF k = m + 1 THEN NULL ELSE s[k]) \in Nodes \cup {NULL}
        /\ (IF k = 1 THEN NULL ELSE s[k - 1]) \in Nodes \cup {NULL}
    BY <1>1, <2>1
  <2> QED BY <1>2, <2>2 DEF ListInv, TypeOK, Inserted
<1>4. Doubly(m + 1, t, head', tail', next', prev')
  <2>1. /\ next'[n] = (IF k = m + 1 THEN NULL ELSE s[k])
        /\ prev'[n] = (IF k = 1 THEN NULL ELSE s[k - 1])
    BY <1>2 DEF Inserted
  <2>2. ASSUME NEW j \in 1 .. m PROVE next'[s[j]] = IF j = k - 1 THEN n ELSE next[s[j]]
    <3>1. k > 1 => k - 1 \in 1 .. m
      BY <1>1, <1>2
    <3>2. k > 1 /\ s[j] = s[k - 1] <=> j = k - 1
      BY <1>1, <1>2, <3>1 DEF Linked
    <3> QED BY <1>1, <1>2, <3>2 DEF Inserted
  <2>3. ASSUME NEW j \in 1 .. m PROVE prev'[s[j]] = IF j = k THEN n ELSE prev[s[j]]
    <3>1. k < m + 1 => k \in 1 .. m
      BY <1>1, <1>2
    <3>2. k < m + 1 /\ s[j] = s[k] <=> j = k
      BY <1>1, <1>2, <3>1 DEF Linked
    <3> QED BY <1>1, <1>2, <3>2 DEF Inserted
  <2>4. head' = (IF k = 1 THEN n ELSE head) /\ tail' = (IF k = m + 1 THEN n ELSE tail)
    BY DEF Inserted
  <2>5. Doubly(m, s, head, tail, next, prev)
    BY DEF Listed
  <2> QED BY ONLY <1>2, <2>1, <2>2, <2>3, <2>4, <2>5, DoublyPut
<1>5. IsPut(m, s, k, n, t)
  BY <1>1, <1>2, PutIs
<1> HIDE DEF t
<1>6. live' = In(m + 1, t)
  BY <1>5 DEF IsPut, Inserted, Listed
<1>7. id'[n] = i /\ \A j \in 1 .. m : id'[s[j]] = id[s[j]]
  BY <1>1, <1>2 DEF Inserted, ListInv, TypeOK
<1>8. ASSUME NEW a \in 1 .. m + 1, NEW b \in 1 .. m + 1, a < b PROVE id'[t[a]] < id'[t[b]]
  <2>0. /\ \A j \in 1 .. m : j < k => id'[t[j]] = id[s[j]] /\ id'[t[j]] < i
        /\ \A j \in 1 .. m : j >= k => id'[t[j + 1]] = id[s[j]] /\ i < id'[t[j + 1]]
        /\ id'[t[k]] = i
    <3>1. \A j \in 1 .. m : id[s[j]] # i
      BY <1>1
    <3>2. \A j \in 1 .. m : j < k => id[s[j]] < i
      BY <1>1, <3>1 DEF Inserted
    <3>3. \A j \in 1 .. m : j >= k => i < id[s[j]]
      <4>1. \A j \in 1 .. m : j >= k => ~(j < k)
        BY <1>2
      <4> QED BY <1>1, <4>1 DEF Inserted
    <3> QED BY <1>5, <1>7, <3>2, <3>3 DEF IsPut
  <2>1. \A x, y \in 1 .. m : x < y => id[s[x]] < id[s[y]]
    BY DEF Listed
  <2>2. CASE a \in 1 .. m /\ a < k
    <3>1. CASE b \in 1 .. m /\ b < k
      BY <1>8, <2>0, <2>1, <2>2, <3>1
    <3>2. CASE b = k
      BY <2>0, <2>2, <3>2
    <3>3. CASE b - 1 \in 1 .. m /\ b - 1 >= k /\ (b - 1) + 1 = b
      <4>1. a < b - 1
        BY <1>2, <2>2, <3>3
      <4>2. id[s[a]] < id[s[b - 1]]
        BY <2>1, <2>2, <3>3, <4>1
      <4>3. id'[t[b]] = id[s[b - 1]]
        BY <2>0, <3>3
      <4> QED BY <2>0, <2>2, <4>2, <4>3
    <3> QED BY <1>5, <3>1, <3>2, <3>3 DEF IsPut
  <2>3. CASE a = k
    <3>1. b - 1 \in 1 .. m /\ b - 1 >= k /\ (b - 1) + 1 = b
      BY <1>1, <1>2, <1>8, <2>3
    <3>2. i < id'[t[(b - 1) + 1]]
      BY <2>0, <3>1
    <3> QED BY <2>0, <2>3, <3>1, <3>2
  <2>4. CASE a - 1 \in 1 .. m /\ a - 1 >= k /\ (a - 1) + 1 = a
    <3>1. b - 1 \in 1 .. m /\ b - 1 >= k /\ (b - 1) + 1 = b /\ a - 1 < b - 1
      BY <1>1, <1>2, <1>8, <2>4
    <3>2. id'[t[(a - 1) + 1]] = id[s[a - 1]] /\ id'[t[(b - 1) + 1]] = id[s[b - 1]]
      BY <2>0, <2>4, <3>1
    <3> QED BY <2>1, <2>4, <3>1, <3>2
  <2> QED BY <1>5, <2>2, <2>3, <2>4 DEF IsPut
<1>9. Listed(m + 1, t)'
  BY <1>4, <1>6, <1>8 DEF Listed, Doubly, Linked
<1> QED BY <1>3, <1>9, ListAgain

-----------------------------------------------------------------------------
(* Taking a node out of the list. *)

\* The k-th node is taken out; if it was the only one, tail keeps pointing to it.
Removed(m, s, k) ==
    /\ k \in 1 .. m /\ live' = live \ {s[k]}
    /\ \A q \in Nodes : q # s[k] => id'[q] = id[q] /\ contact'[q] = contact[q]
    /\ head' = (IF k = 1 THEN next[s[k]] ELSE head)
    /\ m # 1 => tail' = (IF k = m THEN prev[s[k]] ELSE tail)
    /\ \A j \in 1 .. m : j # k => next'[s[j]] = IF j = k - 1 THEN next[s[k]] ELSE next[s[j]]
    /\ \A j \in 1 .. m : j # k => prev'[s[j]] = IF j = k + 1 THEN prev[s[k]] ELSE prev[s[j]]

\* The neighbours of a node and the two ends.
LEMMA Neighbours ==
    ASSUME ListInv, NEW m, NEW s, Listed(m, s), NEW k \in 1 .. m
    PROVE  /\ next[s[k]] = IF k = m THEN NULL ELSE s[k + 1]
           /\ prev[s[k]] = IF k = 1 THEN NULL ELSE s[k - 1]
           /\ head = s[1] /\ tail = s[m]
           /\ \A i, j \in 1 .. m : s[i] = s[j] => i = j
<1>1. m \in Nat /\ s \in [1 .. m -> Nodes] /\ Linked(m, s, head, next) /\ m # 0
  BY ListedIs
<1>2. Linked(m, Back(m, s), tail, prev)
  BY <1>1 DEF Listed, Doubly
<1> DEFINE b == Back(m, s)
           l == m + 1 - k
<1>3. \A j \in 1 .. m : m + 1 - j \in 1 .. m /\ b[j] = s[m + 1 - j]
  BY <1>1, BackIs
<1> HIDE DEF b
<1>4. l \in 1 .. m /\ m + 1 - l = k /\ (l = m <=> k = 1) /\ 1 \in 1 .. m /\ m + 1 - 1 = m
  BY <1>1
<1>5. prev[s[k]] = IF l = m THEN NULL ELSE b[l + 1]
  BY <1>2, <1>3, <1>4 DEF Linked, b
<1>6. k # 1 => l + 1 \in 1 .. m /\ m + 1 - (l + 1) = k - 1
  BY <1>1
<1>7. prev[s[k]] = IF k = 1 THEN NULL ELSE s[k - 1]
  BY <1>3, <1>4, <1>5, <1>6
<1>8. tail = s[m]
  <2>1. tail = b[1]
    BY <1>1, <1>2 DEF Linked, b
  <2> QED BY <1>3, <1>4, <2>1
<1> QED BY <1>1, <1>7, <1>8 DEF Linked

LEMMA UnlinkIs ==
    ASSUME ListInv, NEW m, NEW s, Listed(m, s), NEW k \in 1 .. m, Unlink(s[k]), Free({s[k]}),
           result' = 1
    PROVE  TypeOK' /\ Removed(m, s, k)
<1>1. /\ m \in Nat /\ s \in [1 .. m -> Nodes]
      /\ \A j \in 1 .. m : s[j] \in Nodes /\ s[j] # NULL
  BY ListedIs
<1>2. /\ next[s[k]] = IF k = m THEN NULL ELSE s[k + 1]
      /\ prev[s[k]] = IF k = 1 THEN NULL ELSE s[k - 1]
      /\ head = s[1] /\ tail = s[m]
      /\ \A i, j \in 1 .. m : s[i] = s[j] => i = j
  BY Neighbours
<1>3. 1 \in 1 .. m /\ m \in 1 .. m /\ (k # m => k + 1 \in 1 .. m) /\ (k # 1 => k - 1 \in 1 .. m)
  BY <1>1
<1>4. (s[k] = head <=> k = 1) /\ (s[k] = tail <=> k = m)
  BY <1>2, <1>3
<1>5. /\ live' = live \ {s[k]}
      /\ id' = [q \in Nodes |-> IF q = s[k] THEN 0 ELSE id[q]]
      /\ contact' = [q \in Nodes |-> IF q = s[k] THEN NULL ELSE contact[q]]
  BY DEF Free
<1>6. \A q \in Nodes : q # s[k] => id'[q] = id[q] /\ contact'[q] = contact[q]
  BY <1>5
<1>7. next \in [Nodes -> Nodes \cup {NULL}] /\ prev \in [Nodes -> Nodes \cup {NULL}]
      /\ NULL \notin Nodes
  BY NodeConstants DEF ListInv, TypeOK
<1>8. \A j \in 1 .. m : /\ s[j] = next[s[k]] <=> j = k + 1
                        /\ s[j] = prev[s[k]] <=> j = k - 1
                        /\ s[j] = s[k] <=> j = k
  <2>1. ASSUME NEW j \in 1 .. m PROVE s[j] = next[s[k]] <=> j = k + 1
    <3>1. k = m => j # k + 1
      BY <1>1
    <3> QED BY <1>1, <1>2, <1>3, <3>1
  <2>2. ASSUME NEW j \in 1 .. m PROVE s[j] = prev[s[k]] <=> j = k - 1
    <3>1. k = 1 => j # k - 1
      BY <1>1
    <3> QED BY <1>1, <1>2, <1>3, <3>1
  <2> QED BY <1>2, <2>1, <2>2
<1>9. CASE k = 1
  <2>1. /\ head' = next[s[k]] /\ tail' = tail
        /\ next' = [next EXCEPT ![s[k]] = NULL]
        /\ prev' = [q \in Nodes |-> IF q \in {s[k], next[s[k]]} THEN NULL ELSE prev[q]]
    BY <1>4, <1>9 DEF Unlink
  <2>2. prev[s[k]] = NULL
    BY <1>2, <1>9
  <2>3. \A j \in 1 .. m : j # k => next'[s[j]] = IF j = k - 1 THEN next[s[k]] ELSE next[s[j]]
    BY <1>1, <1>7, <1>8, <1>9, <2>1
  <2>4. \A j \in 1 .. m : j # k => prev'[s[j]] = IF j = k + 1 THEN prev[s[k]] ELSE prev[s[j]]
    BY <1>1, <1>8, <2>1, <2>2
  <2>5. m # 1 => k # m
    BY <1>9
  <2>6. TypeOK'
    BY <1>1, <1>5, <1>7, <2>1 DEF ListInv, TypeOK
  <2> QED BY <1>5, <1>6, <1>9, <2>1, <2>3, <2>4, <2>5, <2>6 DEF Removed
<1>10. CASE k # 1 /\ k = m
  <2>1. /\ tail' = prev[s[k]] /\ head' = head
        /\ next' = [q \in Nodes |-> IF q \in {s[k], prev[s[k]]} THEN NULL ELSE next[q]]
        /\ prev' = [prev EXCEPT ![s[k]] = NULL]
    BY <1>4, <1>10 DEF Unlink
  <2>2. next[s[k]] = NULL
    BY <1>2, <1>10
  <2>3. \A j \in 1 .. m : j # k => next'[s[j]] = IF j = k - 1 THEN next[s[k]] ELSE next[s[j]]
    BY <1>1, <1>8, <2>1, <2>2
  <2>4. \A j \in 1 .. m : j # k => prev'[s[j]] = IF j = k + 1 THEN prev[s[k]] ELSE prev[s[j]]
    <3>1. \A j \in 1 .. m : j # k + 1
      BY <1>1, <1>10
    <3> QED BY <1>1, <1>7, <1>8, <2>1, <3>1
  <2>5. TypeOK'
    BY <1>1, <1>5, <1>7, <2>1 DEF ListInv, TypeOK
  <2> QED BY <1>5, <1>6, <1>10, <2>1, <2>3, <2>4, <2>5 DEF Removed
<1>11. CASE k # 1 /\ k # m
  <2>1. /\ next' = [q \in Nodes |-> IF q = prev[s[k]] THEN next[s[k]]
                                    ELSE IF q = s[k] THEN NULL ELSE next[q]]
        /\ prev' = [q \in Nodes |-> IF q = next[s[k]] THEN prev[s[k]]
                                    ELSE IF q = s[k] THEN NULL ELSE prev[q]]
        /\ head' = head /\ tail' = tail
    BY <1>4, <1>11 DEF Unlink
  <2>3. \A j \in 1 .. m : j # k => next'[s[j]] = IF j = k - 1 THEN next[s[k]] ELSE next[s[j]]
    BY <1>1, <1>8, <2>1
  <2>4. \A j \in 1 .. m : j # k => prev'[s[j]] = IF j = k + 1 THEN prev[s[k]] ELSE prev[s[j]]
    BY <1>1, <1>8, <2>1
  <2>5. TypeOK'
    BY <1>1, <1>5, <1>7, <2>1 DEF ListInv, TypeOK
  <2> QED BY <1>5, <1>6, <1>11, <2>1, <2>3, <2>4, <2>5 DEF Removed
<1> QED BY <1>9, <1>10, <1>11

LEMMA RemoveKeeps ==
    ASSUME ListInv, NEW m, NEW s, Listed(m, s), NEW k, Removed(m, s, k), TypeOK'
    PROVE  ListInv'
<1> DEFINE t == Cut(m, s, k)
<1>1. /\ m \in Nat /\ s \in [1 .. m -> Nodes] /\ Linked(m, s, head, next)
      /\ \A j \in 1 .. m : s[j] \in Nodes
      /\ \A i, j \in 1 .. m : s[i] = s[j] => i = j
  BY ListedIs DEF Linked
<1>2. k \in 1 .. m
  BY DEF Removed
<1>4. Doubly(m - 1, t, head', tail', next', prev')
  <2>1. Doubly(m, s, head, tail, next, prev)
    BY DEF Listed
  <2>2. CutLinks(m, s, k, head, tail, next, prev, head', tail', next', prev')
    BY DEF Removed, CutLinks
  <2> QED BY <2>1, <2>2, DoublyCut
<1>5. /\ m - 1 \in Nat /\ t \in [1 .. m - 1 -> Nodes]
      /\ \A j \in 1 .. m - 1 : j < k => t[j] = s[j]
      /\ \A j \in 1 .. m - 1 : j >= k => t[j] = s[j + 1]
      /\ In(m - 1, t) = In(m, s) \ {s[k]}
  BY <1>1, <1>2, CutIs
<1> HIDE DEF t
<1>6. live' = In(m - 1, t)
  BY <1>5 DEF Removed, Listed
<1>7. \A j \in 1 .. m : j # k => id'[s[j]] = id[s[j]]
  BY <1>1, <1>2 DEF Removed
<1>8. ASSUME NEW i \in 1 .. m - 1, NEW j \in 1 .. m - 1, i < j PROVE id'[t[i]] < id'[t[j]]
  <2>1. \A a, b \in 1 .. m : a < b => id[s[a]] < id[s[b]]
    BY DEF Listed
  <2>2. \A a \in 1 .. m - 1 : a \in 1 .. m /\ a + 1 \in 1 .. m /\ (a < k => a # k) /\ (a >= k => a + 1 # k)
    BY <1>1, <1>2
  <2>3. \A a \in 1 .. m - 1 : id'[t[a]] = IF a < k THEN id[s[a]] ELSE id[s[a + 1]]
    <3>1. \A a \in 1 .. m - 1 : a < k \/ a >= k
      BY <1>2
    <3> QED BY <1>5, <1>7, <2>2, <3>1
  <2>4. i < j /\ i < j + 1 /\ i + 1 < j + 1 /\ (i >= k => j >= k /\ ~(j < k))
    BY <1>2, <1>8
  <2>5. id'[t[i]] = IF i < k THEN id[s[i]] ELSE id[s[i + 1]]
    BY <2>3
  <2>6. id'[t[j]] = IF j < k THEN id[s[j]] ELSE id[s[j + 1]]
    BY <2>3
  <2>7. i < k \/ i >= k
    BY <1>2
  <2> QED BY <2>1, <2>2, <2>4, <2>5, <2>6, <2>7
<1>9. Listed(m - 1, t)'
  BY <1>4, <1>6, <1>8 DEF Listed, Doubly, Linked
<1> QED BY <1>9, ListAgain

LEMMA ListStays ==
    ASSUME ListInv, UNCHANGED <<head, tail, next, prev, id, live>>, TypeOK'
    PROVE  ListInv'
<1>1. PICK m, s : Listed(m, s)
  BY DEF ListInv
<1>2. Listed(m, s)'
  BY <1>1 DEF Listed, Doubly, Linked
<1> QED BY <1>2, ListAgain

LEMMA FreedIs == ListInv => Freed = live
<1> SUFFICES ASSUME ListInv PROVE Freed = live
  OBVIOUS
<1>1. PICK m, s : Listed(m, s)
  BY DEF ListInv
<1>2. Chain = s /\ DOMAIN s = 1 .. m
  BY <1>1, ListedIs
<1> QED BY <1>1, <1>2 DEF Freed, Range, Listed, In

LEMMA ListConstants == Ids \subseteq Int
BY InstanceAssumption DEF ConstantAssumption

\* What DeleteContactByID does when there is a contact.
LEMMA DeleteIs ==
    ASSUME ListInv, NEW i, i \in Int, DeleteContactByID(i), ~(i < 0), NodeOf(i) # NULL
    PROVE  /\ ListInv' /\ live' = live \ {NodeOf(i)} /\ result' = 1
           /\ \A q \in Nodes : q # NodeOf(i) => id'[q] = id[q] /\ contact'[q] = contact[q]
<1>1. PICK m, s : Listed(m, s)
  BY DEF ListInv
<1>2. NodeOf(i) \in live
  BY ListNodesAre DEF ListNodes
<1>3. PICK k \in 1 .. m : NodeOf(i) = s[k]
  BY <1>1, <1>2, ListedIs
<1>4. Unlink(s[k]) /\ Free({s[k]}) /\ result' = 1
  BY <1>3 DEF DeleteContactByID
<1>5. TypeOK' /\ Removed(m, s, k)
  BY <1>1, <1>4, UnlinkIs
<1>6. ListInv'
  BY <1>1, <1>5, RemoveKeeps
<1> QED BY <1>3, <1>4, <1>5, <1>6 DEF Removed

LEMMA ClearIs ==
    ASSUME ListInv, Clear
    PROVE  ListInv' /\ live' = {}
<1>1. /\ head' = NULL /\ tail' = NULL /\ live' = {} /\ result' = result
      /\ id' = [n \in Nodes |-> IF n \in live THEN 0 ELSE id[n]]
      /\ contact' = [n \in Nodes |-> IF n \in live THEN NULL ELSE contact[n]]
      /\ next' = [n \in Nodes |-> IF n \in live THEN NULL ELSE next[n]]
      /\ prev' = [n \in Nodes |-> IF n \in live THEN NULL ELSE prev[n]]
  BY FreedIs DEF Clear, Free
<1>2. TypeOK'
  BY <1>1 DEF ListInv, TypeOK
<1>3. PICK s : s \in [1 .. 0 -> Nodes] /\ Doubly(0, s, head', tail', next', prev') /\ In(0, s) = {}
  BY <1>1, ListEmpty
<1>4. Listed(0, s)'
  BY <1>1, <1>3 DEF Listed, Doubly, Linked
<1> QED BY <1>1, <1>2, <1>4, ListAgain

LEMMA InsertFits ==
    ASSUME ListInv, NEW i \in Int, ~(i < 0), NodeOf(i) = NULL, NEW c \in Contacts, Insert(i, c)
    PROVE  /\ ListInv' /\ result' = c
           /\ \E n \in Nodes \ live :
                 /\ live' = live \cup {n} /\ id'[n] = i /\ contact'[n] = c
                 /\ \A q \in live : id'[q] = id[q] /\ contact'[q] = contact[q]
<1>1. PICK m, s : Listed(m, s)
  BY DEF ListInv
<1>2. PICK k, n : Inserted(m, s, k, n, i, c)
  BY <1>1, InsertIs
<1>3. i \in Nat /\ live \subseteq Nodes /\ \A q \in live : id[q] # i
  BY ListNodesAre DEF ListNodes
<1>4. ListInv'
  BY <1>1, <1>2, <1>3, InsertKeeps
<1>5. n \in Nodes \ live
  BY <1>1, <1>2 DEF Inserted, Listed
<1> QED BY <1>2, <1>3, <1>4, <1>5 DEF Inserted, ListInv, TypeOK

LEMMA ListStep == ListInv /\ [Next]_vars => ListInv'
<1> SUFFICES ASSUME ListInv, [Next]_vars PROVE ListInv'
  OBVIOUS
<1>0. ListNodes /\ live \subseteq Nodes
  BY ListNodesAre DEF ListNodes
<1>1. ASSUME NEW i \in Ids, FindContactByID(i) PROVE ListInv'
  <2>1. NodeOf(i) # NULL => NodeOf(i) \in Nodes
    BY <1>0 DEF ListNodes
  <2>2. result' \in Contacts \cup {NULL, 0, 1}
    BY <1>1, <2>1 DEF FindContactByID, ListInv, TypeOK
  <2> QED BY <1>1, <2>2, ListStays DEF FindContactByID, ListInv, TypeOK
<1>2. ASSUME NEW i \in Ids, DeleteContactByID(i) PROVE ListInv'
  <2>1. CASE i < 0 \/ NodeOf(i) = NULL
    BY <1>2, <2>1, ListStays DEF DeleteContactByID, ListInv, TypeOK
  <2>2. CASE ~(i < 0 \/ NodeOf(i) = NULL)
    BY <1>2, <2>2, DeleteIs, ListConstants
  <2> QED BY <2>1, <2>2
<1>3. ASSUME NEW i \in Ids, NEW c \in Contacts, SaveContact(i, c) PROVE ListInv'
  <2>0. i \in Int /\ (Valid(i) <=> ~(i < 0))
    BY ListConstants DEF Valid
  <2>1. CASE ~Valid(i)
    <3>1. result' = NULL /\ UNCHANGED <<head, tail, next, prev, id, contact, live>>
      BY <1>3, <2>1 DEF SaveContact
    <3> QED BY <3>1, ListStays DEF ListInv, TypeOK
  <2>2. CASE Valid(i) /\ NodeOf(i) # NULL
    <3>1. /\ contact' = [contact EXCEPT ![NodeOf(i)] = c] /\ result' = c
          /\ UNCHANGED <<head, tail, next, prev, id, live>>
      BY <1>3, <2>2 DEF SaveContact, Copied
    <3> QED BY <3>1, ListStays DEF ListInv, TypeOK
  <2>3. CASE Valid(i) /\ NodeOf(i) = NULL
    <3>1. Insert(i, c)
      BY <1>3, <2>3 DEF SaveContact
    <3> QED BY <2>0, <2>3, <3>1, InsertFits
  <2> QED BY <2>1, <2>2, <2>3
<1>4. CASE Clear
  BY <1>4, ClearIs
<1>5. CASE UNCHANGED vars
  BY <1>5, ListStays DEF vars, ListInv, TypeOK
<1> QED BY <1>1, <1>2, <1>3, <1>4, <1>5 DEF Next

-----------------------------------------------------------------------------
(* The list is a contact book. *)

BookIs ==
    /\ DOMAIN book = {id[n] : n \in live}
    /\ \A n \in live : book[id[n]] = contact[n]
    /\ book = [x \in DOMAIN book |-> book[x]]

LEMMA BookHolds == ListInv => BookIs /\ ListNodes
<1> SUFFICES ASSUME ListInv PROVE BookIs
  BY ListNodesAre
<1>1. ListNodes /\ Range(Chain) = live
  BY ListNodesAre, FreedIs DEF Freed
<1>2. book = [i \in {id[n] : n \in live} |-> contact[CHOOSE n \in live : id[n] = i]]
  BY <1>1 DEF book
<1>3. DOMAIN book = {id[n] : n \in live}
  BY <1>2
<1>4. ASSUME NEW n \in live PROVE book[id[n]] = contact[n]
  <2>1. (CHOOSE q \in live : id[q] = id[n]) = n
    BY <1>1 DEF ListNodes
  <2> QED BY <1>2, <2>1
<1>5. book = [x \in DOMAIN book |-> book[x]]
  BY <1>2
<1> QED BY <1>3, <1>4, <1>5 DEF BookIs

LEMMA BookBegins == Init => Book!Init
<1> SUFFICES ASSUME Init PROVE Book!Init
  OBVIOUS
<1>1. BookIs /\ live = {} /\ result = NULL
  BY ListBegins, BookHolds DEF Init
<1>2. DOMAIN book = {}
  BY <1>1 DEF BookIs
<1>3. book = [x \in {} |-> NULL]
  BY <1>1, <1>2 DEF BookIs
<1> QED BY <1>1, <1>3 DEF Book!Init, Book!Empty

\* A step that leaves the allocated nodes and what they hold leaves the book.
LEMMA BookStays ==
    ASSUME BookIs, BookIs', live' = live, \A n \in live : id'[n] = id[n] /\ contact'[n] = contact[n]
    PROVE  book' = book
<1>1. DOMAIN book' = DOMAIN book
  BY DEF BookIs
<1>2. \A x \in DOMAIN book : book'[x] = book[x]
  BY DEF BookIs
<1> QED BY <1>1, <1>2 DEF BookIs

LEMMA BookStep == ListInv /\ ListInv' /\ [Next]_vars => [Book!Next]_<<book, result>>
<1> SUFFICES ASSUME ListInv, ListInv', [Next]_vars PROVE [Book!Next]_<<book, result>>
  OBVIOUS
<1>0. ListNodes /\ ListNodes' /\ BookIs /\ BookIs'
  BY BookHolds, PTL
<1>1. ASSUME NEW i \in Ids, FindContactByID(i) PROVE Book!Next
  <2>1. book' = book
    BY <1>0, <1>1, BookStays DEF FindContactByID
  <2>2. result' = IF i \in DOMAIN book THEN book[i] ELSE NULL
    BY <1>0, <1>1 DEF FindContactByID, ListNodes, BookIs
  <2>3. Book!Find(i)
    BY <2>1, <2>2 DEF Book!Find
  <2> QED BY <2>3 DEF Book!Next
<1>2. ASSUME NEW i \in Ids, DeleteContactByID(i) PROVE Book!Next
  <2>0. i \in Int
    BY ListConstants
  <2>1. CASE i < 0 \/ NodeOf(i) = NULL
    <3>1. result' = 0 /\ UNCHANGED <<id, contact, live>>
      BY <1>2, <2>1 DEF DeleteContactByID
    <3>2. book' = book
      BY <1>0, <3>1, BookStays
    <3>3. i \notin DOMAIN book
      BY <1>0, <2>0, <2>1 DEF ListNodes, BookIs
    <3>4. book' = [x \in DOMAIN book \ {i} |-> book[x]]
      <4>1. DOMAIN book \ {i} = DOMAIN book
        BY <3>3
      <4> QED BY <1>0, <3>2, <4>1 DEF BookIs
    <3>5. Book!Delete(i)
      BY <3>1, <3>3, <3>4 DEF Book!Delete
    <3> QED BY <3>5 DEF Book!Next
  <2>2. CASE ~(i < 0 \/ NodeOf(i) = NULL)
    <3>1. /\ live' = live \ {NodeOf(i)} /\ result' = 1
          /\ \A q \in Nodes : q # NodeOf(i) => id'[q] = id[q] /\ contact'[q] = contact[q]
      BY <1>2, <2>0, <2>2, DeleteIs
    <3>2. /\ NodeOf(i) \in live /\ id[NodeOf(i)] = i /\ live \subseteq Nodes
          /\ \A n, q \in live : id[n] = id[q] => n = q
      BY <1>0, <2>2 DEF ListNodes
    <3>3. \A n \in live' : n \in live /\ id'[n] = id[n] /\ id[n] # i /\ contact'[n] = contact[n]
      BY <3>1, <3>2
    <3>4. \A n \in live : id[n] # i => n \in live'
      BY <3>1, <3>2
    <3>5. DOMAIN book' = DOMAIN book \ {i} /\ i \in DOMAIN book
      BY <1>0, <3>2, <3>3, <3>4 DEF BookIs
    <3>6. ASSUME NEW x \in DOMAIN book \ {i} PROVE book'[x] = book[x]
      <4>1. PICK n \in live' : x = id'[n]
        BY <1>0, <3>5, SMTT(20) DEF BookIs
      <4> QED BY <1>0, <3>3, <4>1 DEF BookIs
    <3>7. book' = [x \in DOMAIN book \ {i} |-> book[x]]
      BY <1>0, <3>5, <3>6 DEF BookIs
    <3>8. Book!Delete(i)
      BY <3>1, <3>5, <3>7 DEF Book!Delete
    <3> QED BY <3>8 DEF Book!Next
  <2> QED BY <2>1, <2>2
<1>3. ASSUME NEW i \in Ids, NEW c \in Contacts, SaveContact(i, c) PROVE Book!Next
  <2>0. i \in Int /\ (Valid(i) <=> ~(i < 0))
    BY ListConstants DEF Valid
  <2>1. CASE ~Valid(i)
    <3>1. result' = NULL /\ UNCHANGED <<id, contact, live>>
      BY <1>3, <2>1 DEF SaveContact
    <3>2. book' = book
      BY <1>0, <3>1, BookStays
    <3>3. Book!Save(i, c)
      BY <2>0, <2>1, <3>1, <3>2 DEF Book!Save
    <3> QED BY <3>3 DEF Book!Next
  <2>2. CASE Valid(i) /\ NodeOf(i) # NULL
    <3>1. /\ contact' = [contact EXCEPT ![NodeOf(i)] = c] /\ result' = c
          /\ UNCHANGED <<id, live>>
      BY <1>3, <2>2 DEF SaveContact, Copied
    <3>2. /\ NodeOf(i) \in live /\ id[NodeOf(i)] = i /\ live \subseteq Nodes
          /\ \A n, q \in live : id[n] = id[q] => n = q
      BY <1>0, <2>2 DEF ListNodes
    <3>3. \A n \in live : contact'[n] = IF id[n] = i THEN c ELSE contact[n]
      BY <3>1, <3>2 DEF ListInv, TypeOK
    <3>4. DOMAIN book' = DOMAIN book \cup {i}
      BY <1>0, <3>1, <3>2 DEF BookIs
    <3>5. ASSUME NEW x \in DOMAIN book' PROVE book'[x] = IF x = i THEN c ELSE book[x]
      <4>1. PICK n \in live : x = id[n]
        BY <1>0, <3>1 DEF BookIs
      <4> QED BY <1>0, <3>1, <3>3, <4>1 DEF BookIs
    <3>6. book' = [x \in DOMAIN book \cup {i} |-> IF x = i THEN c ELSE book[x]]
      BY <1>0, <3>4, <3>5 DEF BookIs
    <3>7. Book!Save(i, c)
      BY <2>0, <2>2, <3>1, <3>6 DEF Book!Save
    <3> QED BY <3>7 DEF Book!Next
  <2>3. CASE Valid(i) /\ NodeOf(i) = NULL
    <3>1. Insert(i, c)
      BY <1>3, <2>3 DEF SaveContact
    <3>2. result' = c
      BY <2>0, <2>3, <3>1, InsertFits
    <3>3. PICK n \in Nodes \ live :
             /\ live' = live \cup {n} /\ id'[n] = i /\ contact'[n] = c
             /\ \A q \in live : id'[q] = id[q] /\ contact'[q] = contact[q]
      BY <2>0, <2>3, <3>1, InsertFits
    <3>4. \A q \in live : id[q] # i
      BY <1>0, <2>3 DEF ListNodes
    <3>5. DOMAIN book' = DOMAIN book \cup {i}
      BY <1>0, <3>3 DEF BookIs
    <3>6. ASSUME NEW x \in DOMAIN book' PROVE book'[x] = IF x = i THEN c ELSE book[x]
      <4>1. PICK q \in live' : x = id'[q]
        BY <1>0 DEF BookIs
      <4>2. book'[x] = contact'[q]
        BY <1>0, <4>1 DEF BookIs
      <4>3. CASE q = n
        BY <3>3, <4>1, <4>2, <4>3
      <4>4. CASE q # n
        <5>1. q \in live /\ x = id[q] /\ x # i /\ book'[x] = contact[q]
          BY <3>3, <3>4, <4>1, <4>2, <4>4
        <5> QED BY <1>0, <5>1 DEF BookIs
      <4> QED BY <4>3, <4>4
    <3>7. book' = [x \in DOMAIN book \cup {i} |-> IF x = i THEN c ELSE book[x]]
      BY <1>0, <3>5, <3>6 DEF BookIs
    <3>8. Book!Save(i, c)
      BY <2>0, <2>3, <3>2, <3>7 DEF Book!Save
    <3> QED BY <3>8 DEF Book!Next
  <2> QED BY <2>1, <2>2, <2>3
<1>4. CASE Clear
  <2>1. live' = {} /\ result' = result
    BY <1>4, ClearIs DEF Clear
  <2>2. DOMAIN book' = {}
    BY <1>0, <2>1 DEF BookIs
  <2>3. book' = [x \in {} |-> NULL]
    BY <1>0, <2>2 DEF BookIs
  <2>4. Book!Clear
    BY <2>1, <2>3 DEF Book!Clear, Book!Empty
  <2> QED BY <2>4 DEF Book!Next
<1>5. CASE UNCHANGED vars
  BY <1>0, <1>5, BookStays DEF vars
<1> QED BY <1>1, <1>2, <1>3, <1>4, <1>5 DEF Next

-----------------------------------------------------------------------------
(* The calculators, the mode of a file and the network test: types. *)

LEMMA CalcBegins == Calculator!Init => Calculator!TypeOK
BY DEF Calculator!Init, Calculator!TypeOK

\* What a bulk operation adds up or multiplies stays a natural number.
LEMMA CalcStep == Calculator!TypeOK /\ [Calculator!Next]_Calculator!vars => Calculator!TypeOK'
<1> SUFFICES ASSUME Calculator!TypeOK, [Calculator!Next]_Calculator!vars
    PROVE  Calculator!TypeOK'
  OBVIOUS
<1> USE DEF Calculator!TypeOK
<1>1. ASSUME NEW f \in Files, Calculator!LoadOne(f) PROVE Calculator!TypeOK'
  BY <1>1 DEF Calculator!LoadOne
<1>2. CASE Calculator!Loaded
  BY <1>2 DEF Calculator!Loaded
<1>3. CASE Calculator!Quit
  BY <1>3 DEF Calculator!Quit, Calculator!Unload
<1>4. CASE Calculator!Blank \/ Calculator!Answer
  BY <1>4 DEF Calculator!Blank, Calculator!Answer
<1>5. ASSUME NEW k \in DOMAIN ops, Calculator!Choose(k) PROVE Calculator!TypeOK'
  <2>1. /\ phase' = "ended" \/ phase' = "bulk" \/ phase' = "arg1"
        /\ handles' = {} \/ handles' = handles
        /\ buf2' = 1 \/ buf2' = 0 \/ buf2' = buf2
        /\ unread' = unread
    BY <1>5, Zenon DEF Calculator!Choose, Calculator!Unload
  <2> QED BY <2>1
<1>6. ASSUME NEW x \in Values, Calculator!Argument(x) PROVE Calculator!TypeOK'
  BY <1>6 DEF Calculator!Argument
<1>7. ASSUME NEW x \in Values, Calculator!BulkArgument(x) PROVE Calculator!TypeOK'
  <2>1. x \in Nat /\ buf2 \in Nat
    BY InstanceAssumption DEF Calculator!ConstantAssumption
  <2>2. buf2 + x \in Nat /\ buf2 * x \in Nat
    BY <2>1
  <2> QED BY <1>7, <2>2 DEF Calculator!BulkArgument
<1>8. CASE UNCHANGED Calculator!vars
  BY <1>8 DEF Calculator!vars
<1> QED BY <1>1, <1>2, <1>3, <1>4, <1>5, <1>6, <1>7, <1>8 DEF Calculator!Next

\* The flags are counted from the first; an operator stands before what it gives.
Signed == stage = "access" => sign \in {"+", "-", "="}

ModeInv ==
    /\ Mode!TypeOK /\ Signed
    /\ stage = "start" => flag = 0
    /\ stage = "flags" => flag \in 1 .. 8

LEMMA ModeBegins == Mode!Init => ModeInv
<1>1. Mode!Init => Signed
  BY DEF Mode!Init, Signed
<1> QED
  BY <1>1, InstanceAssumption DEF Mode!ConstantAssumption, Mode!Init, ModeInv, Mode!TypeOK

LEMMA MasksAre ==
    ASSUME NEW c \in Users \cup Accesses
    PROVE  Mode!MaskOf(c) \subseteq 0 .. 8
<1>1. c \in {"u", "g", "o", "a", "r", "w", "x"}
  BY InstanceAssumption DEF Mode!ConstantAssumption
<1> QED BY <1>1 DEF Mode!MaskOf

LEMMA ModeStep == ModeInv /\ [Mode!Next]_Mode!vars => ModeInv'
<1> SUFFICES ASSUME ModeInv, [Mode!Next]_Mode!vars PROVE ModeInv'
  OBVIOUS
<1> USE DEF ModeInv, Mode!TypeOK
<1>s. Signed'
  <2>1. stage' # "access" \/ UNCHANGED <<stage, sign>> \/ sign' \in {"+", "-", "="}
    BY Zenon DEF Mode!Next, Mode!Number, Mode!Flag, Mode!User, Mode!Operator, Mode!Access,
                 Mode!EndOfClause, Mode!EndAfterComma, Mode!Misfit, Mode!Refuse, Mode!vars
  <2> QED BY <2>1, Zenon DEF Signed
<1>0. ASSUME Mode!Refuse PROVE ModeInv'
  BY <1>s, <1>0 DEF Mode!Refuse
<1>1. ASSUME NEW n \in Numbers, Mode!Number(n) PROVE ModeInv'
  <2>1. Mode!NumberMode(n) \subseteq 0 .. 12
    BY DEF Mode!NumberMode, Mode!Bits
  <2> QED BY <1>s, <1>1, <2>1 DEF Mode!Number
<1>2. ASSUME NEW c \in {"r", "w", "x", "-"}, Mode!Flag(c) PROVE ModeInv'
  <2>1. CASE Mode!IsOption(c) \/ c \notin {Mode!FlagAt(flag), "-"}
    BY <1>0, <1>2, <2>1 DEF Mode!Flag
  <2>2. CASE ~ (Mode!IsOption(c) \/ c \notin {Mode!FlagAt(flag), "-"})
    <3>1. /\ mode_new' = IF c = "-" THEN mode_new ELSE mode_new \cup {8 - flag}
          /\ flag' = flag + 1 /\ stage' = IF flag = 8 THEN "done" ELSE "flags"
          /\ UNCHANGED <<mode_old, users_mask, access_mask>>
      BY <1>2, <2>2 DEF Mode!Flag
    <3>2. flag \in 0 .. 8
      BY <1>2 DEF Mode!Flag
    <3>3. 8 - flag \in 0 .. 12 /\ flag + 1 \in 0 .. 9 /\ (flag # 8 => flag + 1 \in 1 .. 8)
      BY <3>2
    <3>4. mode_new' \subseteq 0 .. 12
      BY <3>1, <3>3
    <3> QED BY <1>s, <3>1, <3>3, <3>4
  <2> QED BY <2>1, <2>2
<1>3. ASSUME NEW c \in Users, Mode!User(c) PROVE ModeInv'
  BY <1>s, <1>3, MasksAre DEF Mode!User
<1>4. ASSUME NEW c, Mode!Operator(c) PROVE ModeInv'
  BY <1>s, <1>4 DEF Mode!Operator
<1>5. ASSUME NEW c \in Accesses, Mode!Access(c) PROVE ModeInv'
  BY <1>s, <1>5, MasksAre DEF Mode!Access
<1>6. CASE Mode!EndOfClause
  <2>1. stage = "access" /\ sign \in {"+", "-", "="}
    BY <1>6, Zenon DEF Signed, Mode!EndOfClause
  <2> DEFINE named == users_mask \cap access_mask
  <2>2. \/ mode_new' = mode_old \cup named
        \/ mode_new' = mode_old \ named
        \/ mode_new' = (mode_old \ users_mask) \cup named
    BY <1>6, <2>1, Zenon DEF Mode!EndOfClause, Mode!Assigned
  <2>3. mode_new' \subseteq 0 .. 8
    BY <2>2
  <2>4. /\ stage' = "done" \/ stage' = "users"
        /\ mode_old' = mode_old \/ mode_old' = mode_new'
        /\ users_mask' = users_mask \/ users_mask' = {}
        /\ access_mask' = access_mask \/ access_mask' = {}
        /\ flag' = flag
    BY <1>6, Zenon DEF Mode!EndOfClause
  <2>5. 0 .. 8 \subseteq 0 .. 12
    OBVIOUS
  <2> QED BY <1>s, <2>3, <2>4, <2>5
<1>7. CASE Mode!EndAfterComma
  BY <1>s, <1>7 DEF Mode!EndAfterComma
<1>8. CASE Mode!Misfit
  BY <1>0, <1>8 DEF Mode!Misfit
<1>9. CASE UNCHANGED Mode!vars
  BY <1>s, <1>9 DEF Mode!vars
<1> QED BY <1>1, <1>2, <1>3, <1>4, <1>5, <1>6, <1>7, <1>8, <1>9 DEF Mode!Next

\* No packet is sent before their number is known.
NetInv ==
    /\ Net!TypeOK
    /\ sent \in Nat /\ packets \in Nat
    /\ step \notin {"test", "done"} => sent = 0

\* A power of two is the number of subsets of a set.
LEMMA PowerIs == ASSUME NEW k \in Nat PROVE 2 ^ k \in Nat \ {0}
<1>1. IsFiniteSet(1 .. k) /\ Cardinality(1 .. k) = k
  BY FS_Interval
<1>2. IsFiniteSet(SUBSET (1 .. k)) /\ Cardinality(SUBSET (1 .. k)) = 2 ^ k
  BY <1>1, FS_SUBSET
<1>3. Cardinality(SUBSET (1 .. k)) \in Nat /\ Cardinality(SUBSET (1 .. k)) # 0
  BY <1>2, FS_CardinalityType, FS_EmptySet
<1> QED BY <1>2, <1>3

LEMMA NetConstants ==
    /\ OctetBits \in Nat /\ Octets \subseteq Nat /\ Sent \subseteq Nat /\ Net!Width \in Nat
    /\ 2 ^ Net!Width \in Nat \ {0} /\ 2 ^ OctetBits \in Nat
<1>1. OctetBits \in Nat /\ Octets \subseteq Nat /\ Sent \subseteq Nat /\ Net!Width \in Nat
  BY InstanceAssumption DEF Net!ConstantAssumption, Net!Width
<1> QED BY <1>1, PowerIs

\* An address of 32 bits holds what was shifted into it.
LEMMA WideIs == ASSUME NEW x \in Nat PROVE Net!Wide(x) \in 0 .. 2 ^ Net!Width - 1
<1> DEFINE m == 2 ^ Net!Width
<1>1. m \in Nat \ {0}
  BY NetConstants
<1> HIDE DEF m
<1>2. x % m \in 0 .. m - 1
  BY <1>1
<1> QED BY <1>2 DEF Net!Wide, m

LEMMA NetBegins == Net!Init => NetInv
<1> SUFFICES ASSUME Net!Init PROVE NetInv
  OBVIOUS
<1> DEFINE m == 2 ^ Net!Width
<1>1. m \in Nat \ {0}
  BY NetConstants
<1> HIDE DEF m
<1>2. 0 \in 0 .. m - 1
  BY <1>1
<1> QED BY <1>2 DEF Net!Init, NetInv, Net!TypeOK, m

LEMMA NetStep == NetInv /\ [Net!Next]_Net!vars => NetInv'
<1> SUFFICES ASSUME NetInv, [Net!Next]_Net!vars PROVE NetInv'
  OBVIOUS
<1> DEFINE Addresses == 0 .. 2 ^ Net!Width - 1
<1>0. {address, gateway, netmask} \subseteq Addresses /\ 2 ^ Net!Width \in Nat \ {0}
  BY NetConstants DEF NetInv, Net!TypeOK
<1>a. ASSUME {address', gateway', netmask'} \subseteq Addresses,
             step' \in {"gateway", "netmask", "n", "refused", "crashed"},
             step \in {"gateway", "netmask", "n"}, UNCHANGED <<packets, sent, hits>>
      PROVE  NetInv'
  BY <1>a DEF NetInv, Net!TypeOK
<1>1. ASSUME NEW o \in Octets, Net!Octet(o) PROVE NetInv'
  <2>1. address' \in Addresses
    <3>1. address \in Nat /\ o \in Nat
      BY <1>0, NetConstants
    <3>2. address + o \in Nat /\ (address + o) * 2 ^ OctetBits \in Nat
      <4> DEFINE k == 2 ^ OctetBits
                 x == address + o
      <4>1. k \in Nat /\ x \in Nat
        BY <3>1, NetConstants
      <4> HIDE DEF k, x
      <4>2. x * k \in Nat
        BY <4>1
      <4> QED BY <4>1, <4>2 DEF k, x
    <3> QED BY <1>1, <3>2, WideIs DEF Net!Octet
  <2> QED BY <1>0, <1>1, <1>a, <2>1 DEF Net!Octet
<1>2. CASE Net!Dotted
  <2>1. step \in {"gateway", "netmask"} /\ step' \in {"netmask", "n", "crashed"}
    BY <1>2 DEF Net!Dotted
  <2>2. 0 \in Addresses
    BY <1>0
  <2>3. {address', gateway', netmask'} \subseteq Addresses
    BY <1>0, <1>2, <2>2 DEF Net!Dotted
  <2> QED BY <1>2, <1>a, <2>1, <2>3 DEF Net!Dotted
<1>3. CASE Net!Refused
  BY <1>0, <1>3, <1>a DEF Net!Refused
<1>4. ASSUME NEW p \in 0 .. Net!Width, Net!Prefix(p) PROVE NetInv'
  <2>1. netmask' \in Addresses
    <3>1. CASE p = 0
      BY <1>0, <1>4, <3>1 DEF Net!Prefix, Net!Shift
    <3>2. CASE p # 0
      <4> DEFINE m == 2 ^ Net!Width - 1
                 k == 2 ^ (Net!Width - p)
      <4>1. Net!Width - p \in Nat
        BY NetConstants
      <4>2. m \in Nat /\ k \in Nat
        BY <1>0, <4>1, PowerIs
      <4> HIDE DEF m, k
      <4>3. m * k \in Nat
        BY <4>2
      <4>4. Net!Wide(m * k) \in Addresses
        BY <4>3, WideIs
      <4>5. netmask' = Net!Wide(m * k)
        BY <1>4, <3>2 DEF Net!Prefix, Net!Shift, m, k
      <4> QED BY <4>4, <4>5
    <3> QED BY <3>1, <3>2
  <2> QED BY <1>0, <1>4, <1>a, <2>1 DEF Net!Prefix
<1>5. ASSUME NEW m \in Sent, Net!Count(m) PROVE NetInv'
  <2>1. sent = 0 /\ m \in Nat
    BY <1>5, NetConstants DEF Net!Count, NetInv
  <2> QED BY <1>0, <1>5, <2>1 DEF Net!Count, NetInv, Net!TypeOK
<1>6. ASSUME NEW ip \in Addresses, Net!Random(ip) PROVE NetInv'
  <2>1. sent' = sent + 1 /\ hits' \in {hits, hits + 1} /\ step = "test" /\ sent < packets
        /\ UNCHANGED <<step, address, gateway, netmask, packets>>
    BY <1>6 DEF Net!Random
  <2>2. hits' \in 0 .. sent' /\ sent' <= packets' /\ sent' \in Nat
    BY <2>1 DEF NetInv, Net!TypeOK
  <2> QED BY <2>1, <2>2 DEF NetInv, Net!TypeOK
<1>7. CASE Net!Tested
  BY <1>7 DEF Net!Tested, NetInv, Net!TypeOK
<1>8. CASE UNCHANGED Net!vars
  BY <1>8 DEF Net!vars, NetInv, Net!TypeOK
<1> QED BY <1>1, <1>2, <1>3, <1>4, <1>5, <1>6, <1>7, <1>8 DEF Net!Next

-----------------------------------------------------------------------------
(* The programs together. *)

LEMMA ListPart == [DataNext]_Vars => [Next]_vars
BY DEF DataNext, Vars

LEMMA QueuePart == [DataNext]_Vars => [Queue!Next]_Queue!vars
BY DEF DataNext, Vars, QueueVars, Queue!vars

LEMMA ArrayPart == [DataNext]_Vars => [Array!Next]_Array!vars
BY DEF DataNext, Vars, ArrayVars, Array!vars

LEMMA CalcPart == [DataNext]_Vars => [Calculator!Next]_Calculator!vars
BY DEF DataNext, Vars, CalcVars, Calculator!vars

LEMMA ModePart == [DataNext]_Vars => [Mode!Next]_Mode!vars
BY DEF DataNext, Vars, ModeVars, Mode!vars

LEMMA NetPart == [DataNext]_Vars => [Net!Next]_Net!vars
BY DEF DataNext, Vars, NetVars, Net!vars

\* The inductive invariants hold in every state of every program.
THEOREM ContainersInductive == DataSpec => [](ListInv /\ QueueInv /\ ArrayInv)
<1>1. DataInit => ListInv /\ QueueInv /\ ArrayInv
  BY ListBegins, QueueBegins, ArrayBegins DEF DataInit
<1>2. ListInv /\ QueueInv /\ ArrayInv /\ [DataNext]_Vars => (ListInv /\ QueueInv /\ ArrayInv)'
  BY ListPart, QueuePart, ArrayPart, ListStep, QueueStep, ArrayStep
<1> QED BY <1>1, <1>2, PTL DEF DataSpec

THEOREM ToolsInductive == DataSpec => [](Calculator!TypeOK /\ ModeInv /\ NetInv)
<1>1. DataInit => Calculator!TypeOK /\ ModeInv /\ NetInv
  BY CalcBegins, ModeBegins, NetBegins DEF DataInit
<1>2. Calculator!TypeOK /\ ModeInv /\ NetInv /\ [DataNext]_Vars
         => (Calculator!TypeOK /\ ModeInv /\ NetInv)'
  BY CalcPart, ModePart, NetPart, CalcStep, ModeStep, NetStep
<1> QED BY <1>1, <1>2, PTL DEF DataSpec

\* Every variable of the six programs of module2 has its type.
THEOREM ContainersTyped == DataSpec => []TypesOK
<1>1. ListInv /\ QueueInv /\ ArrayInv => TypeOK /\ Queue!TypeOK /\ Array!TypeOK
  BY DEF ListInv, QueueInv, ArrayInv
<1>2. ModeInv /\ NetInv => Mode!TypeOK /\ Net!TypeOK
  BY DEF ModeInv, NetInv
<1> QED BY <1>1, <1>2, ContainersInductive, ToolsInductive, PTL DEF TypesOK

\* module2/4/4.1: the list is the same forwards and backwards and its ids grow; module2/4/4.2:
\* the queue holds what is allocated and nothing else; module2/2/2.1: the size is that of the
\* contacts and no id is given twice.
THEOREM ListsHold == DataSpec => []ListsRight
<1>1. ListInv /\ QueueInv /\ ArrayInv => ListsRight
  BY ListRead, QueueRead, ArrayRead DEF ListsRight
<1> QED BY <1>1, ContainersInductive, PTL

\* module2/4/4.1: the doubly linked list is a contact book.
THEOREM ListIsBook == DataSpec => BookSpec
<1>1. DataInit => Book!Init
  BY BookBegins DEF DataInit
<1>2. ListInv /\ ListInv' /\ [DataNext]_Vars => [Book!Next]_<<book, result>>
  BY ListPart, BookStep
<1> QED BY <1>1, <1>2, ContainersInductive, PTL DEF DataSpec, BookSpec, Book!Spec

\* module2/2/2.1: so is the array.
THEOREM ArrayIsBook == DataSpec => Array!BookSpec
<1>1. DataInit => Array!Book!Init
  BY ArrayBookBegins DEF DataInit
<1>2. ArrayInv /\ ArrayInv' /\ [DataNext]_Vars => [Array!Book!Next]_<<Kept, found>>
  BY ArrayPart, ArrayBookStep
<1> QED
  BY <1>1, <1>2, ContainersInductive, PTL DEF DataSpec, Array!BookSpec, Array!Book!Spec, Kept

\* module2/4/4.2: the linked list is a stable priority queue.
THEOREM QueueIsStable == DataSpec => Queue!StableSpec
<1>1. DataInit => Queue!Stable!Init
  BY QueueStableBegins DEF DataInit
<1>2. QueueInv /\ [DataNext]_Vars => [Queue!Stable!Next]_<<Queue!Elements, popped>>
  BY QueuePart, QueueStableStep
<1> QED
  BY <1>1, <1>2, ContainersInductive, PTL DEF DataSpec, Queue!StableSpec, Queue!Stable!Spec

\* Each container implements what it promises.
THEOREM BooksHold == DataSpec => Books
BY ListIsBook, ArrayIsBook, QueueIsStable DEF Books

=============================================================================
