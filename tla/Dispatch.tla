------------------------------ MODULE Dispatch ------------------------------
(***************************************************************************)
(* What the taxi programs of module3/ct2 promise about tasks, without the  *)
(* processes, signals and descriptors that bring it about: a driver runs   *)
(* one task at a time, takes the tasks sent to it in order, starts a task  *)
(* only when it is free and otherwise turns it down, and keeps a started   *)
(* task until it is complete.                                              *)
(***************************************************************************)
EXTENDS Naturals, Sequences

CONSTANTS Pid, Task
VARIABLES
    up,     \* drivers at work
    queue,  \* tasks sent to each driver and not yet looked at
    job     \* the task each driver runs: a set of at most one

vars == <<up, queue, job>>

Init ==
    /\ up = {}
    /\ queue = [p \in Pid |-> <<>>]
    /\ job = [p \in Pid |-> {}]

Hire(p) ==
    /\ p \notin up
    /\ up' = up \cup {p}
    /\ UNCHANGED <<queue, job>>

Leave(p) ==
    /\ p \in up
    /\ up' = up \ {p}
    /\ UNCHANGED <<queue, job>>

Submit(p, t) ==
    /\ p \in up
    /\ queue' = [queue EXCEPT ![p] = Append(@, t)]
    /\ UNCHANGED <<up, job>>

Start(p) ==
    /\ p \in up
    /\ queue[p] # <<>>
    /\ job[p] = {}
    /\ queue' = [queue EXCEPT ![p] = Tail(@)]
    /\ job' = [job EXCEPT ![p] = {Head(queue[p])}]
    /\ UNCHANGED up

TurnDown(p) ==
    /\ p \in up
    /\ queue[p] # <<>>
    /\ job[p] # {}
    /\ queue' = [queue EXCEPT ![p] = Tail(@)]
    /\ UNCHANGED <<up, job>>

Complete(p) ==
    /\ p \in up
    /\ job[p] # {}
    /\ job' = [job EXCEPT ![p] = {}]
    /\ UNCHANGED <<up, queue>>

Next ==
    \E p \in Pid :
        \/ Hire(p) \/ Leave(p) \/ Start(p) \/ TurnDown(p) \/ Complete(p)
        \/ \E t \in Task : Submit(p, t)

Spec == Init /\ [][Next]_vars
=============================================================================
