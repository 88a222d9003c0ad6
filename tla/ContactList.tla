---------------------------- MODULE ContactList ----------------------------
(***************************************************************************)
(* The contacts of module2/4/4.1 (module2/6/6.1 and 6.2 have the same file *)
(* in a library): a list linked both ways, in the order of the ids.  An    *)
(* operation is one step; the loops are written as the node at which they  *)
(* stop.  Shown to implement ContactBook.                                  *)
(***************************************************************************)
EXTENDS Integers, Sequences, SequencesExt, FiniteSets, FiniteSetsExt

CONSTANTS
    Nodes,     \* memory for nodes; bound: no new contact without a free one
    Ids, Contacts, NULL

ConstantAssumption ==
    /\ IsFiniteSet(Nodes) /\ NULL \notin Nodes
    /\ Ids \subseteq Int /\ Ids # {} /\ Contacts # {} /\ NULL \notin Contacts \cup {0, 1}

VARIABLES
    head, tail,
    next, prev,    \* the fields of the nodes
    id, contact,
    live,          \* nodes that calloc has given and free has not taken
    result         \* what the last operation returned

vars == <<head, tail, next, prev, id, contact, live, result>>

TypeOK ==
    /\ {head, tail} \subseteq Nodes \cup {NULL}
    /\ next \in [Nodes -> Nodes \cup {NULL}] /\ prev \in [Nodes -> Nodes \cup {NULL}]
    /\ id \in [Nodes -> Nat] /\ contact \in [Nodes -> Contacts \cup {NULL}]
    /\ live \subseteq Nodes
    /\ result \in Contacts \cup {NULL, 0, 1}

\* Memory that is free is not read, and is shown as this.
Init ==
    /\ head = NULL /\ tail = NULL
    /\ next = [n \in Nodes |-> NULL] /\ prev = [n \in Nodes |-> NULL]
    /\ id = [n \in Nodes |-> 0] /\ contact = [n \in Nodes |-> NULL]
    /\ live = {}
    /\ result = NULL

\* The nodes from one on, along one of the two fields; a circle is cut.
Along(field, first) ==
    LET at[k \in 0 .. Cardinality(Nodes)] ==
            IF k = 0 THEN first ELSE IF at[k - 1] = NULL THEN NULL ELSE field[at[k - 1]]
        length == Cardinality({k \in 0 .. Cardinality(Nodes) : at[k] # NULL})
    IN  [k \in 1 .. length |-> at[k - 1]]
Chain == Along(next, head)

\* The node of an id, or NULL.
NodeOf(i) ==
    LET k == SelectInSeq(Chain, LAMBDA n : id[n] = i) IN IF k = 0 THEN NULL ELSE Chain[k]

-----------------------------------------------------------------------------

FindContactByID(i) ==
    /\ result' = IF NodeOf(i) = NULL THEN NULL ELSE contact[NodeOf(i)]
    /\ UNCHANGED <<head, tail, next, prev, id, contact, live>>

\* The loop goes on.
Before(n, i) == id[n] <= i

\* Mutant: tail stays when a node is put at the end.
TailOfOld(before, n) == IF head = NULL THEN n ELSE tail

TailOf(after, n) == IF after = NULL THEN n ELSE tail

\* A new node between prev and tmp, either of which may be NULL.
Insert(i, c) ==
    \E n \in Nodes \ live :
       LET k == SelectInSeq(Chain, LAMBDA m : ~ Before(m, i))
           tmp == IF k = 0 THEN NULL ELSE Chain[k]
           old == IF k = 0 THEN (IF Chain = <<>> THEN NULL ELSE Last(Chain))
                  ELSE IF k = 1 THEN NULL ELSE Chain[k - 1]
       IN  /\ n = CHOOSE m \in Nodes \ live : TRUE
           /\ live' = live \cup {n}
           /\ id' = [id EXCEPT ![n] = i]
           /\ contact' = [contact EXCEPT ![n] = c]
           /\ head' = IF old = NULL THEN n ELSE head
           /\ tail' = TailOf(tmp, n)
           /\ next' = [m \in Nodes |-> IF m = n THEN tmp ELSE IF m = old THEN n ELSE next[m]]
           /\ prev' = [m \in Nodes |-> IF m = n THEN old ELSE IF m = tmp THEN n ELSE prev[m]]
           /\ result' = c

Copied(n, c) == [contact EXCEPT ![n] = c]

Valid(i) == i >= 0

SaveContact(i, c) ==
    CASE ~ Valid(i) -> result' = NULL /\ UNCHANGED <<head, tail, next, prev, id, contact, live>>
      [] Valid(i) /\ NodeOf(i) # NULL ->
            /\ contact' = Copied(NodeOf(i), c)
            /\ result' = c
            /\ UNCHANGED <<head, tail, next, prev, id, live>>
      [] Valid(i) /\ NodeOf(i) = NULL -> Insert(i, c)

Free(nodes) ==
    /\ live' = live \ nodes
    /\ id' = [n \in Nodes |-> IF n \in nodes THEN 0 ELSE id[n]]
    /\ contact' = [n \in Nodes |-> IF n \in nodes THEN NULL ELSE contact[n]]

\* The head, else the tail, else a node in between: a sole node is taken for the head and
\* tail keeps pointing to it.
Unlink(n) ==
    CASE n = head ->
            /\ head' = next[n]
            /\ next' = [next EXCEPT ![n] = NULL]
            /\ prev' = [m \in Nodes |-> IF m \in {n, next[n]} THEN NULL ELSE prev[m]]
            /\ UNCHANGED tail
      [] n # head /\ n = tail ->
            /\ tail' = prev[n]
            /\ next' = [m \in Nodes |-> IF m \in {n, prev[n]} THEN NULL ELSE next[m]]
            /\ prev' = [prev EXCEPT ![n] = NULL]
            /\ UNCHANGED head
      [] n # head /\ n # tail ->
            /\ next' = [m \in Nodes |-> IF m = prev[n] THEN next[n] ELSE IF m = n THEN NULL ELSE next[m]]
            /\ prev' = [m \in Nodes |-> IF m = next[n] THEN prev[n] ELSE IF m = n THEN NULL ELSE prev[m]]
            /\ UNCHANGED <<head, tail>>

DeleteContactByID(i) ==
    IF i < 0 \/ NodeOf(i) = NULL
    THEN result' = 0 /\ UNCHANGED <<head, tail, next, prev, id, contact, live>>
    ELSE Unlink(NodeOf(i)) /\ Free({NodeOf(i)}) /\ result' = 1

Freed == Range(Chain)

\* destroyContactDatabase and initContactDatabase.
Clear ==
    /\ head' = NULL /\ tail' = NULL
    /\ Free(Freed)
    /\ next' = [n \in Nodes |-> IF n \in Freed THEN NULL ELSE next[n]]
    /\ prev' = [n \in Nodes |-> IF n \in Freed THEN NULL ELSE prev[n]]
    /\ UNCHANGED result

Next ==
    \/ \E i \in Ids : \/ FindContactByID(i) \/ DeleteContactByID(i)
                      \/ \E c \in Contacts : SaveContact(i, c)
    \/ Clear

Spec == Init /\ [][Next]_vars

-----------------------------------------------------------------------------
(* Properties. *)

\* While there are contacts, the two directions are the same list, which holds exactly the
\* nodes that are allocated: no operation at either end forgets one of four pointers.  (In
\* an empty list tail may point to the last node that was freed; saving sets it anew.)
BothWays ==
    /\ Along(prev, IF head = NULL THEN NULL ELSE tail) = Reverse(Chain)
    /\ IsInjective(Chain) /\ Range(Chain) = live

\* The ids grow along the list, none twice ("order is based on data.id", contact_db.h).
Ordered == \A j, k \in 1 .. Len(Chain) : j < k => id[Chain[j]] < id[Chain[k]]

book ==
    LET nodes == Range(Chain)
    IN  [i \in {id[n] : n \in nodes} |-> contact[CHOOSE n \in nodes : id[n] = i]]

Book == INSTANCE ContactBook

\* The list is a contact book.
BookSpec == Book!Spec
=============================================================================
