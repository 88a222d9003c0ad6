---------------------------- MODULE StableQueue ----------------------------
(***************************************************************************)
(* What the priority queue of module2/4/4.2 promises: elements in the      *)
(* order of their priorities, those of one priority in the order in which  *)
(* they came, and operations that take the first element that fits.        *)
(***************************************************************************)
EXTENDS Naturals, Sequences, SequencesExt, FiniteSetsExt

CONSTANTS Priorities, Data, NULL

VARIABLES
    queue,   \* the elements, first to last
    result   \* what the last operation returned

Element == [priority : Priorities, data : Data]

Init == queue = <<>> /\ result = NULL

\* Behind all elements of the same or a smaller number.
Place(q, p) == 1 + Cardinality({k \in 1 .. Len(q) : q[k].priority <= p})

Push(d, p) ==
    /\ queue' = InsertAt(queue, Place(queue, p), [priority |-> p, data |-> d])
    /\ UNCHANGED result

\* The first element whose priority fits, or NULL.
Take(Fits(_)) ==
    LET k == SelectInSeq(queue, LAMBDA e : Fits(e.priority))
    IN  IF k = 0 THEN result' = NULL /\ UNCHANGED queue
        ELSE result' = queue[k].data /\ queue' = RemoveAt(queue, k)

Clear == queue' = <<>> /\ UNCHANGED result

Next ==
    \/ \E d \in Data, p \in Priorities : Push(d, p)
    \/ Take(LAMBDA x : TRUE)
    \/ \E p \in Priorities : \/ Take(LAMBDA x : x = p)
                             \/ Take(LAMBDA x : x < p)
                             \/ Take(LAMBDA x : x >= p)
    \/ Clear

Spec == Init /\ [][Next]_<<queue, result>>
=============================================================================
