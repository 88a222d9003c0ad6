---------------------------- MODULE ContactArray ----------------------------
(***************************************************************************)
(* The contacts of module2/2/2.1: an array whose free places have the id   *)
(* -1, under a menu that numbers the contacts itself.                      *)
(***************************************************************************)
EXTENDS Integers, FiniteSets

CONSTANTS
    Capacity,          \* DB_CAPACITY
    Contacts, NULL,
    MaxIds             \* bound: contacts created in one run

ConstantAssumption == Capacity \in Nat \ {0} /\ NULL \notin Contacts /\ MaxIds \in Nat

VARIABLES
    contacts, size,
    id,          \* the static counter of generateID
    result       \* what the last operation returned

vars == <<contacts, size, id, result>>

Free == [id |-> -1, data |-> NULL]
AllFree == [k \in 0 .. Capacity - 1 |-> Free]

Init == contacts = AllFree /\ size = 0 /\ id = 0 /\ result = NULL

Places(n) == {k \in DOMAIN contacts : contacts[k].id = n}
findContactByID(n) == CHOOSE k \in Places(n) : \A j \in Places(n) : k <= j
ResultOf(n) == IF Places(n) = {} THEN NULL ELSE contacts[findContactByID(n)].data

Room == size < Capacity - 1

\* A new contact has an id that no other has.
Create(c) ==
    /\ id < MaxIds /\ id' = id + 1
    /\ \/ /\ Room /\ size' = size + 1 /\ result' = c
          /\ contacts' = [contacts EXCEPT ![findContactByID(-1)] = [id |-> id, data |-> c]]
       \/ ~Room /\ result' = NULL /\ UNCHANGED <<contacts, size>>

\* The contact is changed where it is, and saved over itself.
Edit(n, c) ==
    /\ Places(n) # {} /\ result' = c
    /\ contacts' = [contacts EXCEPT ![findContactByID(n)].data = c]
    /\ UNCHANGED <<size, id>>

Show(n) == result' = ResultOf(n) /\ UNCHANGED <<contacts, size, id>>

deleteContactByID(n) ==
    /\ \/ Places(n) = {} /\ result' = 0 /\ UNCHANGED <<contacts, size>>
       \/ /\ Places(n) # {} /\ result' = 1 /\ size' = size - 1
          /\ contacts' = [contacts EXCEPT ![findContactByID(n)] = Free]
    /\ UNCHANGED id

Clear == contacts' = AllFree /\ size' = 0 /\ UNCHANGED <<id, result>>

Next ==
    \/ \E c \in Contacts : Create(c) \/ \E n \in 0 .. MaxIds : Edit(n, c)
    \/ \E n \in 0 .. MaxIds : Show(n) \/ deleteContactByID(n)
    \/ Clear

Spec == Init /\ [][Next]_vars

-----------------------------------------------------------------------------
(* Properties *)

\* Every variable has its type.
TypeOK ==
    /\ contacts \in [0 .. Capacity - 1 -> [id : -1 .. MaxIds, data : Contacts \cup {NULL}]]
    /\ size \in 0 .. Capacity /\ id \in 0 .. MaxIds

\* The size is that of the contacts, and an id given once is never given again.
SizeRight ==
    /\ size = Cardinality(DOMAIN contacts \ Places(-1))
    /\ \A k \in DOMAIN contacts : contacts[k].id < id /\ (contacts[k].id # -1 => Places(contacts[k].id) = {k})

\* The array is a contact book; a contact that finds no room looks like one not found.
Book == INSTANCE ContactBook WITH
    Ids <- 0 .. MaxIds,
    book <- [n \in {contacts[k].id : k \in DOMAIN contacts} \ {-1} |-> ResultOf(n)]
BookSpec == Book!Spec
=============================================================================
