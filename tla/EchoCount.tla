----------------------------- MODULE EchoCount -----------------------------
(***************************************************************************)
(* module3/ct1: an echo server on raw sockets that numbers the messages of *)
(* each client, and its clients.  A client sends a message and waits for   *)
(* the answer; "exit", typed or sent by the SIGINT handler, tells the      *)
(* server to forget it.  A raw socket sees every datagram to its port that *)
(* arrives while it is open, also an answer to an earlier run.             *)
(***************************************************************************)
EXTENDS Naturals, Sequences, FiniteSets

CONSTANTS
    Client,      \* ip:port pairs
    None,        \* the null pointer, which is no record of a client
    SaFlags,     \* values sa.sa_flags may have: it is not initialized; TRUE is SA_RESTART
    MaxTyped,    \* bound: messages of a run of a client
    MaxRuns,     \* bound: runs of all clients together
    Signals,     \* whether clients may get SIGINT
    Loss         \* whether datagrams may be lost

ConstantAssumption ==
    /\ None \notin [client : Client, count : Nat] /\ IsFiniteSet(Client)
    /\ SaFlags \subseteq BOOLEAN /\ SaFlags # {}
    /\ MaxTyped \in Nat /\ MaxRuns \in Nat
    /\ Signals \in BOOLEAN /\ Loss \in BOOLEAN

VARIABLES
    net,       \* datagrams on their way to the server
    head,      \* the client list: only its head is ever linked
    inbox,     \* datagrams in the socket of each client
    pc,        \* where each client is
    leaving,   \* should_exit of each client
    restart,   \* SA_RESTART of each client
    typed,     \* messages of the current run
    run,       \* runs so far
    shown,     \* answers printed in the current run
    signalled, \* history: the current run, or one before it, got SIGINT
    fresh,     \* history: clients nothing of whom was in the server when they started
    crowded    \* history: clients served while another one was the head

vars == <<net, head, inbox, pc, leaving, restart, typed, run, shown, signalled, fresh, crowded>>

Text == [run : 1 .. MaxRuns, n : 1 .. MaxTyped]
Exit == [run |-> 0, n |-> 0]   \* the text "exit"
Packet == [from : Client, text : Text \cup {Exit}]
Reply == [text : Text, count : Nat]

TypeOK ==
    /\ net \in Seq(Packet)
    /\ head = None \/ head \in [client : Client, count : 1 .. MaxTyped * MaxRuns]
    /\ inbox \in [Client -> Seq(Reply)]
    /\ pc \in [Client -> {"off", "input", "send", "exit", "recv"}]
    /\ leaving \in [Client -> BOOLEAN]
    /\ restart \in [Client -> SaFlags]
    /\ typed \in [Client -> 0 .. MaxTyped]
    /\ run \in [Client -> 0 .. MaxRuns]
    /\ shown \in [Client -> Seq(Reply)] /\ \A c \in Client : Len(shown[c]) <= typed[c]
    /\ signalled \subseteq Client /\ fresh \subseteq Client /\ crowded \subseteq Client

Init ==
    /\ net = <<>>
    /\ head = None
    /\ inbox = [c \in Client |-> <<>>]
    /\ pc = [c \in Client |-> "off"]
    /\ leaving = [c \in Client |-> FALSE]
    /\ restart \in [Client -> SaFlags]
    /\ typed = [c \in Client |-> 0]
    /\ run = [c \in Client |-> 0]
    /\ shown = [c \in Client |-> <<>>]
    /\ signalled = {} /\ fresh = {} /\ crowded = {}

-----------------------------------------------------------------------------
(* client.c *)

\* The runs so far, by client and number.
Runs == {r \in Client \X (1 .. MaxRuns) : r[2] <= run[r[1]]}

\* The program starts and opens its socket.
Start(c) ==
    /\ pc[c] = "off"
    /\ Cardinality(Runs) < MaxRuns
    /\ run' = [run EXCEPT ![c] = @ + 1]
    /\ pc' = [pc EXCEPT ![c] = "input"]
    /\ leaving' = [leaving EXCEPT ![c] = FALSE]
    /\ typed' = [typed EXCEPT ![c] = 0]
    /\ shown' = [shown EXCEPT ![c] = <<>>]
    /\ inbox' = [inbox EXCEPT ![c] = <<>>]
    /\ fresh' = IF (head # None /\ head.client = c) \/ \E i \in 1 .. Len(net) : net[i].from = c
                  THEN fresh \ {c} ELSE fresh \cup {c}
    /\ crowded' = crowded \ {c}
    /\ UNCHANGED <<net, head, restart, signalled>>

\* fgets returns a message.
Type(c) ==
    /\ pc[c] = "input"
    /\ typed[c] < MaxTyped
    /\ typed' = [typed EXCEPT ![c] = @ + 1]
    /\ pc' = [pc EXCEPT ![c] = "send"]
    /\ UNCHANGED <<net, head, inbox, leaving, restart, run, shown, signalled, fresh, crowded>>

\* fgets returns "exit".
TypeExit(c) ==
    /\ pc[c] = "input"
    /\ leaving' = [leaving EXCEPT ![c] = TRUE]
    /\ pc' = [pc EXCEPT ![c] = "exit"]
    /\ UNCHANGED <<net, head, inbox, restart, typed, run, shown, signalled, fresh, crowded>>

\* send_msg of what was typed; who is leaving does not wait for an answer.
Send(c) ==
    /\ pc[c] \in {"send", "exit"}
    /\ net' = Append(net, [from |-> c, text |-> IF pc[c] = "exit" THEN Exit
                                                ELSE [run |-> run[c], n |-> typed[c]]])
    /\ pc' = [pc EXCEPT ![c] = IF leaving[c] THEN "off" ELSE "recv"]
    /\ UNCHANGED <<head, inbox, leaving, restart, typed, run, shown, signalled, fresh, crowded>>

\* Mutant: the client does not wait for the answer.
GoOnUnanswered(c) ==
    /\ pc[c] = "recv"
    /\ pc' = [pc EXCEPT ![c] = IF leaving[c] THEN "off" ELSE "input"]
    /\ shown' = IF inbox[c] = <<>> \/ leaving[c] THEN shown
                ELSE [shown EXCEPT ![c] = Append(@, Head(inbox[c]))]
    /\ inbox' = IF inbox[c] = <<>> THEN inbox ELSE [inbox EXCEPT ![c] = Tail(@)]
    /\ UNCHANGED <<net, head, leaving, restart, typed, run, signalled, fresh, crowded>>

\* recvfrom returns an answer: it is printed, unless the client is leaving.
Receive(c) ==
    /\ pc[c] = "recv"
    /\ inbox[c] # <<>>
    /\ inbox' = [inbox EXCEPT ![c] = Tail(@)]
    /\ shown' = IF leaving[c] THEN shown ELSE [shown EXCEPT ![c] = Append(@, Head(inbox[c]))]
    /\ pc' = [pc EXCEPT ![c] = IF leaving[c] THEN "off" ELSE "input"]
    /\ UNCHANGED <<net, head, leaving, restart, typed, run, signalled, fresh, crowded>>

\* SIGINT, once: the handler sends "exit" and sets should_exit.  fgets and recvfrom go on
\* after it with SA_RESTART, or if it came just before the call; otherwise both end.
Interrupt(c) ==
    /\ Signals
    /\ pc[c] # "off"
    /\ c \notin signalled
    /\ signalled' = signalled \cup {c}
    /\ net' = Append(net, [from |-> c, text |-> Exit])
    /\ leaving' = [leaving EXCEPT ![c] = TRUE]
    /\ \/ UNCHANGED pc
       \/ /\ ~ restart[c]
          /\ pc[c] \in {"input", "recv"}
          /\ pc' = [pc EXCEPT ![c] = "off"]
    /\ UNCHANGED <<head, inbox, restart, typed, run, shown, fresh, crowded>>

-----------------------------------------------------------------------------
(* server.c *)

Known(c) == head # None /\ head.client = c

\* The number a message gets: a client that is not the head gets a record of its own,
\* which is not linked to anything.
Count(p) == IF Known(p.from) THEN head.count + 1 ELSE 1

\* The list after a message.
List(p) ==
    IF head # None /\ ~ Known(p.from) THEN head
    ELSE IF p.text = Exit THEN None ELSE [client |-> p.from, count |-> Count(p)]

Answer(p) == [text |-> p.text, count |-> Count(p)]

Answers(p) == p.text # Exit

\* A datagram is handled; an answer reaches a client whose socket is open.
Serve ==
    /\ net # <<>>
    /\ net' = Tail(net)
    /\ LET p == Head(net) IN
         /\ head' = List(p)
         /\ inbox' = IF Answers(p) /\ pc[p.from] # "off"
                       THEN [inbox EXCEPT ![p.from] = Append(@, Answer(p))] ELSE inbox
         /\ crowded' = IF head # None /\ ~ Known(p.from) THEN crowded \cup {p.from} ELSE crowded
    /\ UNCHANGED <<pc, leaving, restart, typed, run, shown, signalled, fresh>>

Lose ==
    /\ Loss
    /\ net # <<>>
    /\ net' = Tail(net)
    /\ UNCHANGED <<head, inbox, pc, leaving, restart, typed, run, shown, signalled, fresh, crowded>>

Next ==
    \/ Serve \/ Lose
    \/ \E c \in Client :
          Start(c) \/ Type(c) \/ TypeExit(c) \/ Send(c) \/ Receive(c) \/ Interrupt(c)

Spec == Init /\ [][Next]_vars
Fairness == WF_vars(Serve) /\ \A c \in Client : WF_vars(Send(c)) /\ WF_vars(Receive(c))

-----------------------------------------------------------------------------
(* Properties. *)

\* Until it gets SIGINT, what a client prints are the echoes of its messages, in order:
\* no answer is skipped and none belongs to an earlier run.
EchoMatches ==
    \A c \in Client : c \notin signalled =>
        /\ Len(inbox[c]) <= 1
        /\ \A i \in 1 .. Len(shown[c]) : shown[c][i].text = [run |-> run[c], n |-> i]

\* A client of whom the server had nothing when it started, and that was never served
\* beside another one, gets the numbers 1, 2, 3 ... whatever is lost and whoever is interrupted.
NumberedAlone ==
    \A c \in fresh \ crowded :
        \A i \in 1 .. Len(shown[c]) : shown[c][i].count = shown[c][i].text.n

\* Without signals and losses every message is answered.
Answered == \A c \in Client : pc[c] = "send" ~> pc[c] = "input"
=============================================================================
