----------------------------- MODULE PrioQueue -----------------------------
(***************************************************************************)
(* The priority queue of module2/4/4.2: nodes in memory, linked from head. *)
(* An operation is one step: nothing runs beside it.  The loops over curr  *)
(* and prev are written as the position at which they stop.  Shown to      *)
(* implement StableQueue.                                                  *)
(***************************************************************************)
EXTENDS Naturals, Sequences, SequencesExt, FiniteSets, FiniteSetsExt

CONSTANTS
    Nodes,       \* memory for nodes; bound: no push without a free one
    Priorities,  \* an unsigned char
    Data,
    NULL

ConstantAssumption ==
    /\ IsFiniteSet(Nodes) /\ NULL \notin Nodes
    /\ Priorities \subseteq 0 .. 255 /\ Priorities # {}
    /\ Data # {} /\ NULL \notin Data

VARIABLES
    head,     \* queue->head
    next,     \* the fields of the nodes
    priority,
    data,
    live,     \* nodes that calloc has given and free has not taken
    result    \* what the last pop returned

vars == <<head, next, priority, data, live, result>>

TypeOK ==
    /\ head \in Nodes \cup {NULL}
    /\ next \in [Nodes -> Nodes \cup {NULL}]
    /\ priority \in [Nodes -> Priorities]
    /\ data \in [Nodes -> Data]
    /\ live \subseteq Nodes
    /\ result \in Data \cup {NULL}

\* What calloc gives; memory that is free is not read, and is shown as this.
Zero == [priority |-> Min(Priorities), data |-> CHOOSE d \in Data : TRUE]

Init ==
    /\ head = NULL
    /\ next = [n \in Nodes |-> NULL]
    /\ priority = [n \in Nodes |-> Zero.priority]
    /\ data = [n \in Nodes |-> Zero.data]
    /\ live = {}
    /\ result = NULL

\* The nodes from head on; a list that runs in a circle is cut.
Chain ==
    LET at[k \in 0 .. Cardinality(Nodes)] ==
            IF k = 0 THEN head ELSE IF at[k - 1] = NULL THEN NULL ELSE next[at[k - 1]]
        length == Cardinality({k \in 0 .. Cardinality(Nodes) : at[k] # NULL})
    IN  [k \in 1 .. length |-> at[k - 1]]

\* prev and curr at position k of the list.
Curr(k) == IF k \in 1 .. Len(Chain) THEN Chain[k] ELSE NULL
Prev(k) == Curr(k - 1)

\* The first position of one of these nodes, or the one behind the list.
StopAt(nodes) ==
    Min({Len(Chain) + 1} \cup {k \in 1 .. Len(Chain) : Chain[k] \in nodes})

-----------------------------------------------------------------------------

\* Mutant: >= puts an element before those of its own priority.
LowerEqual(n, p) == priority[n] >= p

Lower(n, p) == priority[n] > p

\* queue->head after node n is put at position k.
Linked(k, n) == IF Prev(k) = NULL THEN n ELSE head

Push(d, p) ==
    \E n \in Nodes \ live :
       LET k == StopAt({m \in live : Lower(m, p)}) IN
       /\ n = CHOOSE m \in Nodes \ live : TRUE
       /\ live' = live \cup {n}
       /\ priority' = [priority EXCEPT ![n] = p]
       /\ data' = [data EXCEPT ![n] = d]
       /\ head' = Linked(k, n)
       /\ next' = [m \in Nodes |-> IF m = n THEN Curr(k) ELSE IF m = Prev(k) THEN n ELSE next[m]]
       /\ UNCHANGED result

Free(nodes) ==
    /\ live' = live \ nodes
    /\ priority' = [n \in Nodes |-> IF n \in nodes THEN Zero.priority ELSE priority[n]]
    /\ data' = [n \in Nodes |-> IF n \in nodes THEN Zero.data ELSE data[n]]

\* queue->head after the node at position k is taken out.
Unlinked(k) == IF Prev(k) = NULL THEN next[Curr(k)] ELSE head

\* Mutant: the node is returned, not its data.
ReturnedNode(n) == n

Returned(n) == data[n]

\* Taking out the node at position k, or returning NULL behind the end.
TakeOut(k) ==
    IF Curr(k) = NULL
    THEN result' = NULL /\ UNCHANGED <<head, next, priority, data, live>>
    ELSE /\ result' = Returned(Curr(k))
         /\ head' = Unlinked(k)
         /\ next' = [m \in Nodes |-> IF m = Prev(k) THEN next[Curr(k)]
                                    ELSE IF m = Curr(k) THEN NULL ELSE next[m]]
         /\ Free({Curr(k)})

Pop == TakeOut(1)

\* The loop ends at the first larger number.
PopExactPriority(p) ==
    LET k == StopAt({m \in live : priority[m] >= p})
    IN  IF Curr(k) # NULL /\ priority[Curr(k)] = p THEN TakeOut(k) ELSE TakeOut(Len(Chain) + 1)

Above(n, p) == priority[n] < p

\* Only the first node is looked at.
PopAtLeastPriority(p) ==
    IF head # NULL /\ Above(head, p) THEN TakeOut(1) ELSE TakeOut(Len(Chain) + 1)

PopAtMaxPriority(p) == TakeOut(StopAt({m \in live : priority[m] >= p}))

Freed == {Chain[k] : k \in 1 .. Len(Chain)}

DestroyQueue ==
    /\ head' = NULL
    /\ Free(Freed)
    /\ next' = [n \in Nodes |-> IF n \in Freed THEN NULL ELSE next[n]]
    /\ UNCHANGED result

Next ==
    \/ \E d \in Data, p \in Priorities : Push(d, p)
    \/ Pop
    \/ \E p \in Priorities : PopExactPriority(p) \/ PopAtLeastPriority(p) \/ PopAtMaxPriority(p)
    \/ DestroyQueue

Spec == Init /\ [][Next]_vars

-----------------------------------------------------------------------------
(* Properties. *)

\* The list does not run in a circle, and every node that calloc gave and free did not
\* take is in it: no operation loses a node or frees one that is linked.
NothingLost ==
    /\ Len(Chain) <= Cardinality(Nodes) /\ IsInjective(Chain)
    /\ live = {Chain[k] : k \in 1 .. Len(Chain)}

Elements == [k \in 1 .. Len(Chain) |-> [priority |-> priority[Chain[k]], data |-> data[Chain[k]]]]

Stable == INSTANCE StableQueue WITH queue <- Elements

\* The linked list is a queue in which elements of one priority keep their order and each
\* operation takes the first element that fits.
StableSpec == Stable!Spec
=============================================================================
