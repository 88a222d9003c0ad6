----------------------------- MODULE PollServer -----------------------------
(***************************************************************************)
(* The server of module3/15: one thread, poll() over an array of sockets,  *)
(* slot 0 being the listener.  A request is answered by a dialogue of      *)
(* further, blocking reads from the same client.  The client of module3/15 *)
(* sends one line for every message it receives.                           *)
(***************************************************************************)
EXTENDS Naturals, Sequences, SequencesExt, FiniteSets, FiniteSetsExt

CONSTANTS
    Client,
    SlotsMax,   \* CLIENTS_MAX
    Words,      \* lines users type: a subset of AllWords
    MaxTyped,   \* bound: lines of a user before all further ones are "text"
    Leaves      \* whether clients may be stopped by ^C

\* "calc": 1 to 4; "file": 5; "other": a larger number; "text": 0 or no number at all.
AllWords == {"calc", "file", "other", "text"}

ASSUME ConstantAssumption ==
    /\ IsFiniteSet(Client) /\ SlotsMax \in Nat /\ SlotsMax > 2
    /\ Words \subseteq AllWords /\ MaxTyped \in Nat /\ Leaves \in BOOLEAN

VARIABLES
    backlog,   \* connections not accepted yet
    fds,       \* the clients in slots 1 .. nfds - 1
    rev,       \* revents of every slot holds POLLIN; nobody clears those of unused slots
    nclients,
    srv,       \* where the server is: i of its loop, the step of its dialogue
    in,        \* what each client has sent and the server has not read
    out,       \* what the server has sent and the client has not read
    cli,       \* where each client is
    closed,    \* sockets the server has closed
    reset,     \* the server has written to the socket after the client was gone
    typed

vars == <<backlog, fds, rev, nclients, srv, in, out, cli, closed, reset, typed>>

Slots == 0 .. SlotsMax - 1
nfds == Len(fds) + 1
Gone(c) == cli[c] \in {"gone", "done"}

TypeOK ==
    /\ backlog \in Seq(Client)
    /\ fds \in Seq(Client) /\ Len(fds) <= SlotsMax - 2
    /\ rev \in [Slots -> BOOLEAN]
    /\ nclients \in 0 .. Cardinality(Client)
    /\ srv \in [pc : {"poll", "scan", "dead"}
                     \cup {"choose", "arg1", "arg2", "opt", "name", "transfer"}, i : 0 .. SlotsMax]
    /\ in \in [Client -> Seq(AllWords \cup {"data"})]
    /\ out \in [Client -> Seq({"prompt", "mark", "bye"})]
    /\ cli \in [Client -> {"off", "recv", "input", "gone", "done"}]
    /\ closed \subseteq Client /\ reset \subseteq Client
    /\ typed \in [Client -> 0 .. MaxTyped]

\* revents is not initialized.
Init ==
    /\ backlog = <<>> /\ fds = <<>> /\ nclients = 0
    /\ rev \in [Slots -> BOOLEAN]
    /\ srv = [pc |-> "poll", i |-> 0]
    /\ in = [c \in Client |-> <<>>] /\ out = [c \in Client |-> <<>>]
    /\ cli = [c \in Client |-> "off"]
    /\ closed = {} /\ reset = {}
    /\ typed = [c \in Client |-> 0]

-----------------------------------------------------------------------------
(* client.c *)

Connect(c) ==
    /\ cli[c] = "off"
    /\ cli' = [cli EXCEPT ![c] = "recv"]
    /\ backlog' = Append(backlog, c)
    /\ UNCHANGED <<fds, rev, nclients, srv, in, out, closed, reset, typed>>

\* recv returns a message: a prompt waits for the user, "download" and "upload" are
\* followed by the client's part of the transfer and by recv, "disconnect" ends it.
Receive(c) ==
    /\ cli[c] = "recv"
    /\ out[c] # <<>>
    /\ out' = [out EXCEPT ![c] = Tail(@)]
    /\ CASE Head(out[c]) = "prompt" -> cli' = [cli EXCEPT ![c] = "input"] /\ UNCHANGED in
         [] Head(out[c]) = "bye" -> cli' = [cli EXCEPT ![c] = "done"] /\ UNCHANGED in
         [] OTHER -> in' = [in EXCEPT ![c] = Append(@, "data")] /\ UNCHANGED cli
    /\ UNCHANGED <<backlog, fds, rev, nclients, srv, closed, reset, typed>>

\* recv returns 0 when the server has closed the connection.
ReceiveEnd(c) ==
    /\ cli[c] = "recv"
    /\ out[c] = <<>>
    /\ c \in closed
    /\ cli' = [cli EXCEPT ![c] = "done"]
    /\ UNCHANGED <<backlog, fds, rev, nclients, srv, in, out, closed, reset, typed>>

\* The user types a line.
Type(c) ==
    /\ cli[c] = "input"
    /\ \/ /\ typed[c] < MaxTyped
          /\ typed' = [typed EXCEPT ![c] = @ + 1]
          /\ \E w \in Words : in' = [in EXCEPT ![c] = Append(@, w)]
       \/ /\ typed[c] = MaxTyped
          /\ in' = [in EXCEPT ![c] = Append(@, "text")]
          /\ UNCHANGED typed
    /\ cli' = [cli EXCEPT ![c] = "recv"]
    /\ UNCHANGED <<backlog, fds, rev, nclients, srv, out, closed, reset>>

\* ^C
Leave(c) ==
    /\ Leaves
    /\ cli[c] \in {"recv", "input"}
    /\ cli' = [cli EXCEPT ![c] = "gone"]
    /\ UNCHANGED <<backlog, fds, rev, nclients, srv, in, out, closed, reset, typed>>

-----------------------------------------------------------------------------
(* The loop of server.c. *)

Ready(k) == IF k = 0 THEN backlog # <<>> ELSE in[fds[k]] # <<>> \/ Gone(fds[k])

\* poll() returns: it sets revents of the first nfds slots.
Poll ==
    /\ srv.pc = "poll"
    /\ \E k \in 0 .. nfds - 1 : Ready(k)
    /\ rev' = [k \in Slots |-> IF k < nfds THEN Ready(k) ELSE rev[k]]
    /\ srv' = [pc |-> "scan", i |-> 0]
    /\ UNCHANGED <<backlog, fds, nclients, in, out, cli, closed, reset, typed>>

\* The next slot with POLLIN; nfds grows and shrinks during the loop.
Hit == {k \in srv.i .. nfds - 1 : rev[k]}

ScanEnd ==
    /\ srv.pc = "scan"
    /\ Hit = {}
    /\ srv' = [pc |-> "poll", i |-> 0]
    /\ UNCHANGED <<backlog, fds, rev, nclients, in, out, cli, closed, reset, typed>>

\* Mutant: the limit is not looked at.
RoomAlways == TRUE

Room == nfds # SlotsMax - 1

Prompted(c) == [out EXCEPT ![c] = Append(@, "prompt")]

\* A new connection, unless the array is full; the message is for a client that waits.
Accept ==
    /\ srv.pc = "scan"
    /\ Hit # {} /\ Min(Hit) = 0
    /\ IF Room
         THEN /\ fds' = Append(fds, Head(backlog))
              /\ backlog' = Tail(backlog)
              /\ nclients' = nclients + 1
              /\ IF Gone(Head(backlog))
                   THEN reset' = reset \cup {Head(backlog)} /\ UNCHANGED out
                   ELSE out' = Prompted(Head(backlog)) /\ UNCHANGED reset
         ELSE UNCHANGED <<fds, backlog, nclients, out, reset>>
    /\ srv' = [srv EXCEPT !.i = 1]
    /\ UNCHANGED <<rev, in, cli, closed, typed>>

\* handle_connection is called for the slot.
Handle ==
    /\ srv.pc = "scan"
    /\ Hit # {} /\ Min(Hit) > 0
    /\ srv' = [pc |-> "choose", i |-> Min(Hit)]
    /\ UNCHANGED <<backlog, fds, rev, nclients, in, out, cli, closed, reset, typed>>

-----------------------------------------------------------------------------
(* handle_connection, get_args and handle_files: a step per read. *)

Dialogue == {"choose", "arg1", "arg2", "opt", "name", "transfer"}
Who == fds[srv.i]

\* Mutant: arguments that are no numbers are skipped without an answer.
FollowsSkip(step, w) ==
    CASE step = "choose" -> CASE w = "calc" -> {<<"prompt", "arg1">>}
                              [] w = "text" -> {<<"bye", "drop">>}
                              [] OTHER -> {<<"prompt", "keep">>}
      [] step = "arg1" -> {<<"prompt", "arg2">>}
      [] OTHER -> {IF w = "text" THEN <<"none", "keep">> ELSE <<"prompt", "keep">>}

\* What may follow when w is read: the message sent, and the next step.  "keep" and
\* "drop" are the results 1 and 0 of handle_connection.  A buffer that is not filled
\* or not terminated reads as anything.
Follows(step, w) ==
    CASE step = "choose" -> CASE w = "calc" -> {<<"prompt", "arg1">>}
                              [] w = "file" -> {<<"prompt", "opt">>}
                              [] w = "other" -> {<<"prompt", "keep">>}
                              [] OTHER -> {<<"bye", "drop">>}
      [] step = "arg1" -> CASE w = "eof" -> {<<"prompt", "arg2">>, <<"none", "drop">>}
                            [] w = "text" -> {<<"none", "drop">>}
                            [] OTHER -> {<<"prompt", "arg2">>}
      [] step = "arg2" -> CASE w = "eof" -> {<<"prompt", "keep">>, <<"none", "drop">>}
                            [] w = "text" -> {<<"none", "drop">>}
                            [] OTHER -> {<<"prompt", "keep">>}
      [] step = "opt" -> CASE w = "eof" -> {<<"prompt", "name">>, <<"none", "keep">>}
                           [] w = "calc" -> {<<"prompt", "name">>, <<"none", "keep">>}
                           [] OTHER -> {<<"none", "keep">>}
      [] step = "name" -> {<<"mark", "transfer">>, <<"none", "keep">>}
      [] OTHER -> {<<"none", "keep">>}

\* Mutant: the slots after it do not move, so the last one is lost.
RemoveLast == Front(fds)

Remaining == RemoveAt(fds, srv.i)

\* The slots after i move down with their revents; i is passed over.
Drop ==
    /\ fds' = Remaining
    /\ rev' = [k \in Slots |-> IF srv.i <= k /\ k < nfds - 1 THEN rev[k + 1] ELSE rev[k]]
    /\ nclients' = nclients - 1
    /\ closed' = closed \cup {Who}

\* The end of handle_connection, or its next step.
GoOn(next) ==
    CASE next = "drop" -> Drop /\ srv' = [pc |-> "scan", i |-> srv.i + 1]
      [] next = "keep" -> srv' = [pc |-> "scan", i |-> srv.i + 1] /\ UNCHANGED <<fds, rev, nclients, closed>>
      [] OTHER -> srv' = [srv EXCEPT !.pc = next] /\ UNCHANGED <<fds, rev, nclients, closed>>

\* write(): to a client that is gone it is lost, and answered by RST.
Reply(m) ==
    IF m = "none" THEN UNCHANGED <<out, reset>>
    ELSE IF Gone(Who) THEN reset' = reset \cup {Who} /\ UNCHANGED out
    ELSE out' = [out EXCEPT ![Who] = Append(@, m)] /\ UNCHANGED reset

\* A read returns a message, or 0 when the client is gone.
Read ==
    /\ srv.pc \in Dialogue
    /\ in[Who] # <<>> \/ Gone(Who)
    /\ \E f \in Follows(srv.pc, IF in[Who] # <<>> THEN Head(in[Who]) ELSE "eof") :
          /\ f[1] # "none" => Who \notin reset
          /\ Reply(f[1])
          /\ GoOn(f[2])
    /\ in' = IF in[Who] # <<>> THEN [in EXCEPT ![Who] = Tail(@)] ELSE in
    /\ UNCHANGED <<backlog, cli, typed>>

\* After RST a read fails and error() exits; a write raises SIGPIPE.
Die ==
    /\ srv.pc \in Dialogue
    /\ Who \in reset
    /\ srv' = [srv EXCEPT !.pc = "dead"]
    /\ UNCHANGED <<backlog, fds, rev, nclients, in, out, cli, closed, reset, typed>>

SrvStep == Poll \/ ScanEnd \/ Accept \/ Handle \/ Read \/ Die

Next ==
    \/ SrvStep
    \/ \E c \in Client : Connect(c) \/ Receive(c) \/ ReceiveEnd(c) \/ Type(c) \/ Leave(c)

Spec == Init /\ [][Next]_vars

\* The server and the clients run; users need not type.
Fairness ==
    WF_vars(SrvStep) /\ \A c \in Client : WF_vars(Receive(c)) /\ WF_vars(ReceiveEnd(c))

\* Users answer every prompt.
UsersAnswer == \A c \in Client : WF_vars(Type(c))

-----------------------------------------------------------------------------
(* Properties. *)

\* Accepting and removing during the loop keeps the array right: every connection that was
\* accepted and not closed is in one slot, no other is, and nclients counts them.
SlotsRight ==
    /\ \A j, k \in 1 .. Len(fds) : fds[j] = fds[k] => j = k
    /\ ToSet(fds) = {c \in Client : cli[c] # "off"} \ (ToSet(backlog) \cup closed)
    /\ nclients = Len(fds)

\* Client and server take turns: between a line and the next message nothing else is under
\* way, so that what the server reads in a dialogue is the answer to its last prompt.
TakeTurns ==
    \A c \in Client :
        /\ Len(in[c]) + Len(out[c]) <= 1
        /\ cli[c] = "input" => in[c] = <<>> /\ out[c] = <<>>

\* While users answer and nobody transfers a file, every line is answered by a message or
\* by the end of the connection.
LinesAnswered == \A c \in Client : \A n \in 1 .. MaxTyped :
    (typed[c] = n /\ cli[c] = "recv") ~> (cli[c] \in {"input", "done"})
=============================================================================
