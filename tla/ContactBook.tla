---------------------------- MODULE ContactBook ----------------------------
(***************************************************************************)
(* What every contact database of the repository promises (module2/4/4.1   *)
(* and 4.3, module2/6, module3/03): a contact for each id, replaced by     *)
(* saving, gone after deleting.                                            *)
(***************************************************************************)
EXTENDS Integers

CONSTANTS Ids, Contacts, NULL    \* ids asked for, with negative ones; data; no contact

VARIABLES
    book,    \* the contacts: a function on some of the ids
    result   \* what the last operation returned

Empty == [id \in {} |-> NULL]

Init == book = Empty /\ result = NULL

Find(id) ==
    /\ result' = IF id \in DOMAIN book THEN book[id] ELSE NULL
    /\ UNCHANGED book

Save(id, c) ==
    IF id < 0 THEN result' = NULL /\ UNCHANGED book
    ELSE /\ book' = [x \in DOMAIN book \cup {id} |-> IF x = id THEN c ELSE book[x]]
         /\ result' = c

Delete(id) ==
    /\ book' = [x \in DOMAIN book \ {id} |-> book[x]]
    /\ result' = IF id \in DOMAIN book THEN 1 ELSE 0

Clear == book' = Empty /\ UNCHANGED result

Next ==
    \/ \E id \in Ids : Find(id) \/ Delete(id) \/ \E c \in Contacts : Save(id, c)
    \/ Clear

Spec == Init /\ [][Next]_<<book, result>>
=============================================================================
