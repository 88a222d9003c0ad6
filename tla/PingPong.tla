------------------------------ MODULE PingPong ------------------------------
(***************************************************************************)
(* The two clients of module3/07, who write to each other in turns over    *)
(* two POSIX queues.  The client without a flag reads first and removes    *)
(* the queues when it ends; the client with -r writes first.  A client     *)
(* ends when its user closes the input in a writing turn, and may be       *)
(* started again.  Leavers and Killed say which of them end by themselves  *)
(* and which ones may be killed.                                           *)
(*                                                                         *)
(* A message is one in a queue: what it says is left out.  A queue lives   *)
(* until it has no name and nobody has it open, as the kernel has it, so   *)
(* that a restart may meet new queues or old ones.                         *)
(***************************************************************************)
EXTENDS Naturals, FiniteSets

CONSTANTS
    Clients,  \* the processes; more than two is a client started once too often
    Reversed,  \* those started with -r
    MaxMsg,   \* queue_attr.mq_maxmsg
    Queues,   \* identities of queues in the kernel
    Leavers,  \* clients whose user may end the input
    Killed    \* clients that may be killed

ConstantAssumption ==
    /\ IsFiniteSet(Clients) /\ Reversed \subseteq Clients
    /\ MaxMsg \in Nat \ {0}
    /\ Queues \subseteq Nat \ {0} /\ IsFiniteSet(Queues) /\ Cardinality(Queues) >= 2 + 2 * Cardinality(Clients)
    /\ Leavers \subseteq Clients /\ Killed \subseteq Clients

QueueNames == {"READ", "WRITE"}
NoQueue == 0

VARIABLES
    name,    \* the queue that has a name
    msgs,    \* messages in each queue
    mqd0,    \* the queue a client reads
    mqd1,    \* the queue a client writes
    pc

vars == <<name, msgs, mqd0, mqd1, pc>>

TypeOK ==
    /\ name \in [QueueNames -> Queues \cup {NoQueue}]
    /\ msgs \in [Queues -> 0 .. MaxMsg]
    /\ mqd0 \in [Clients -> Queues \cup {NoQueue}]
    /\ mqd1 \in [Clients -> Queues \cup {NoQueue}]
    /\ pc \in [Clients -> {"off", "open", "reading", "writing", "close", "unlink"}]

Init ==
    /\ name = [n \in QueueNames |-> NoQueue]
    /\ msgs = [q \in Queues |-> 0]
    /\ mqd0 = [c \in Clients |-> NoQueue]
    /\ mqd1 = [c \in Clients |-> NoQueue]
    /\ pc = [c \in Clients |-> "off"]

-----------------------------------------------------------------------------

Used(q) == \/ \E n \in QueueNames : name[n] = q
           \/ \E c \in Clients : q \in {mqd0[c], mqd1[c]}

\* mq_open with O_CREAT.
Open(n, q) ==
    \/ name[n] # NoQueue /\ q = name[n] /\ UNCHANGED <<name, msgs>>
    \/ /\ name[n] = NoQueue
       /\ q = CHOOSE x \in Queues : ~ Used(x)
       /\ name' = [name EXCEPT ![n] = q]
       /\ msgs' = [msgs EXCEPT ![q] = 0]

ReadName(c) == IF c \in Reversed THEN "WRITE" ELSE "READ"
WriteName(c) == IF c \in Reversed THEN "READ" ELSE "WRITE"

OpenRead(c) ==
    /\ pc[c] = "off"
    /\ \E q \in Queues : Open(ReadName(c), q) /\ mqd0' = [mqd0 EXCEPT ![c] = q]
    /\ pc' = [pc EXCEPT ![c] = "open"]
    /\ UNCHANGED mqd1

\* Mutant: both clients write first.
FirstTurnWrites(c) == "writing"

FirstTurn(c) == IF c \in Reversed THEN "writing" ELSE "reading"

OpenWrite(c) ==
    /\ pc[c] = "open"
    /\ \E q \in Queues : Open(WriteName(c), q) /\ mqd1' = [mqd1 EXCEPT ![c] = q]
    /\ pc' = [pc EXCEPT ![c] = FirstTurn(c)]
    /\ UNCHANGED mqd0

\* Mutant: the queue does not block.
ArrivedAlways(q) == TRUE

Arrived(q) == msgs[q] > 0

Receive(c) ==
    /\ pc[c] = "reading"
    /\ Arrived(mqd0[c])
    /\ msgs' = [msgs EXCEPT ![mqd0[c]] = @ - 1]
    /\ pc' = [pc EXCEPT ![c] = "writing"]
    /\ UNCHANGED <<name, mqd0, mqd1>>

Send(c) ==
    /\ pc[c] = "writing"
    /\ msgs[mqd1[c]] < MaxMsg
    /\ msgs' = [msgs EXCEPT ![mqd1[c]] = @ + 1]
    /\ pc' = [pc EXCEPT ![c] = "reading"]
    /\ UNCHANGED <<name, mqd0, mqd1>>

\* The end of the input, or a line that is too long: fgets gives no newline.
EndOfInput(c) ==
    /\ c \in Leavers
    /\ pc[c] = "writing"
    /\ pc' = [pc EXCEPT ![c] = "close"]
    /\ UNCHANGED <<name, msgs, mqd0, mqd1>>

Closed(c) ==
    /\ mqd0' = [mqd0 EXCEPT ![c] = NoQueue]
    /\ mqd1' = [mqd1 EXCEPT ![c] = NoQueue]

\* Mutant: every client removes the names.
RemovesAll(c) == TRUE

Removes(c) == c \notin Reversed

\* queue_close for both; then the client that reads first removes the first name.  When
\* that fails the second name stays.
Leave(c) ==
    /\ pc[c] = "close"
    /\ Closed(c)
    /\ IF Removes(c) /\ name["READ"] # NoQueue
       THEN /\ name' = [name EXCEPT !["READ"] = NoQueue]
            /\ pc' = [pc EXCEPT ![c] = "unlink"]
       ELSE pc' = [pc EXCEPT ![c] = "off"] /\ UNCHANGED name
    /\ UNCHANGED msgs

UnlinkWrite(c) ==
    /\ pc[c] = "unlink"
    /\ name' = [name EXCEPT !["WRITE"] = NoQueue]
    /\ pc' = [pc EXCEPT ![c] = "off"]
    /\ UNCHANGED <<msgs, mqd0, mqd1>>

\* A signal.
Kill(c) ==
    /\ c \in Killed
    /\ pc[c] # "off"
    /\ Closed(c)
    /\ pc' = [pc EXCEPT ![c] = "off"]
    /\ UNCHANGED <<name, msgs>>

Step(c) == OpenWrite(c) \/ Receive(c) \/ Leave(c) \/ UnlinkWrite(c)

Next == \E c \in Clients : OpenRead(c) \/ Step(c) \/ Send(c) \/ EndOfInput(c) \/ Kill(c)

Spec == Init /\ [][Next]_vars

\* A started client makes its steps; nobody has to write, or to start a client again.
Fairness == \A c \in Clients : WF_vars(Step(c))

-----------------------------------------------------------------------------
(* Properties. *)

\* Each message under way as its queue and its place there.
Messages == {m \in Queues \X (1 .. MaxMsg) : Used(m[1]) /\ m[2] <= msgs[m[1]]}

\* One turn in all for every client with -r: a client that may write or a message under
\* way, in queues old and new, over any restarts, as long as those clients end by
\* themselves.  A second turn would let both talkers write at once (module3/07/README.md:9: in turns).
OneTurn ==
    Cardinality(Messages) + Cardinality({c \in Clients : pc[c] = "writing"}) <= Cardinality(Reversed)

\* While no client that reads first ends, some such client gets a message again and again
\* from one with -r, however often that one was ended and started before: the queues stay
\* for it and no turn is lost.
Resumes ==
    /\ [](\A c \in Clients \ Reversed : pc[c] # "close")
    /\ <>[](\A c \in Reversed : pc[c] # "close")
    => []<>(\E c \in Clients \ Reversed : pc[c] = "writing")

\* A client's two queues are different, and of two talkers with the same queues each
\* reads what the other writes, unless names were removed under one of them.
Crossed ==
    /\ \A c \in Clients : pc[c] \in {"reading", "writing"} => mqd0[c] # mqd1[c]
    /\ \A c \in Clients \ Reversed, d \in Reversed :
          (/\ {pc[c], pc[d]} \subseteq {"reading", "writing"}
           /\ {mqd0[c], mqd1[c]} = {mqd0[d], mqd1[d]}) =>
          mqd0[c] = mqd1[d]
=============================================================================
