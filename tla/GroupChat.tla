----------------------------- MODULE GroupChat -----------------------------
(***************************************************************************)
(* The group chat of module3/06: a server and its clients share one System *)
(* V message queue.  The type of a message is its addressee; msgrcv takes  *)
(* the oldest message of a type, msgsnd waits while the queue is full.     *)
(* Each client is two processes: the parent reads the keyboard and sends,  *)
(* the child it forks receives and prints.                                 *)
(***************************************************************************)
EXTENDS Naturals, Sequences, SequencesExt, FiniteSets, FiniteSetsExt

CONSTANTS
    Client,      \* the numbers clients are started with
    Server,      \* MSG_DEST_SERVER
    MaxClients,  \* MAX_CLIENTS
    QueueCap,    \* messages the queue holds
    MaxTyped,    \* bound: lines typed at each client
    MaxLines,    \* bound: lines typed in all
    Private,     \* bound: whom private messages are written to
    Leavers,     \* clients whose user may type "shutdown"
    Stops        \* whether the server may get SIGINT

ASSUME ClientAssumption == IsFiniteSet(Client) /\ Server \notin Client /\ Leavers \subseteq Client
ASSUME PrivateAssumption == Private \subseteq Client \cup {Server}
ASSUME BoundAssumption == MaxClients \in Nat /\ QueueCap \in Nat \ {0} /\ MaxTyped \in Nat /\ MaxLines \in Nat
ASSUME StopAssumption == Stops \in BOOLEAN

VARIABLES
    queue,    \* the message queue, oldest first
    exists,   \* the queue has not been removed
    clients,  \* clients[0 .. clients_count - 1] of the server
    srv,      \* the server: where it is, the message it forwards, to how many it did
    parent,   \* the keyboard process of each client, and the message it sends
    child,    \* the receiving process of each client
    typed,    \* lines typed so far
    screen,   \* broadcasts each client has printed
    joined    \* history: clients whose CONNECT the server has handled, and no DISCONNECT

vars == <<queue, exists, clients, srv, parent, child, typed, screen, joined>>

Types == {"CONNECT", "DISCONNECT", "BROADCAST", "PRIVATE"}
Msg == [dest : Client \cup {Server}, from : Client \cup {Server}, type : Types, n : 0 .. MaxTyped]
Message(d, f, t, n) == [dest |-> d, from |-> f, type |-> t, n |-> n]

\* Between messages: what a caller passed to send_all or msq_send is forgotten.
NoMsg == Message(Server, Server, "CONNECT", 0)
AtRecv == [pc |-> "recv", msg |-> NoMsg, i |-> 0]
AtInput == [pc |-> "input", msg |-> NoMsg]

TypeOK ==
    /\ queue \in Seq(Msg) /\ Len(queue) <= QueueCap
    /\ exists \in BOOLEAN
    /\ clients \in Seq(Client) /\ Len(clients) <= MaxClients
    /\ srv \in [pc : {"recv", "send", "overrun", "exited"}, msg : Msg, i : 0 .. MaxClients]
    /\ parent \in [Client -> [pc : {"off", "fork", "input", "send", "end", "done"}, msg : Msg]]
    /\ child \in [Client -> {"off", "listen", "dead"}]
    /\ typed \in [Client -> 0 .. MaxTyped]
    /\ screen \in [Client -> Seq([from : Client, n : 1 .. MaxTyped])]
    /\ joined \subseteq Client

Init ==
    /\ queue = <<>>
    /\ exists = TRUE
    /\ clients = <<>>
    /\ srv = AtRecv
    /\ parent = [c \in Client |-> [pc |-> "off", msg |-> NoMsg]]
    /\ child = [c \in Client |-> "off"]
    /\ typed = [c \in Client |-> 0]
    /\ screen = [c \in Client |-> <<>>]
    /\ joined = {}

-----------------------------------------------------------------------------
(* ipc.c *)

\* Mutant: a broadcast is sent with IPC_NOWAIT and lost when the queue is full.
SendNoWait(m) ==
    IF exists /\ (m.type # "BROADCAST" \/ Len(queue) < QueueCap)
      THEN Len(queue) < QueueCap /\ queue' = Append(queue, m)
      ELSE UNCHANGED queue

\* msq_send: the message is queued, or the call fails once the queue is gone.
Send(m) ==
    IF exists THEN Len(queue) < QueueCap /\ queue' = Append(queue, m)
              ELSE UNCHANGED queue

For(d) == {k \in 1 .. Len(queue) : queue[k].dest = d}

Oldest(d, k) == \A j \in For(d) : k <= j

\* msq_recv: message k of the queue is taken.
Recv(d, k) ==
    /\ exists
    /\ k \in For(d)
    /\ Oldest(d, k)
    /\ queue' = RemoveAt(queue, k)

-----------------------------------------------------------------------------
(* server.c *)

\* Mutant: DISCONNECT leaves the count alone.
KeepingTable(m) == IF m.type = "CONNECT" THEN Append(clients, m.from) ELSE clients

\* The table after a message.  CONNECT appends whatever the count is; DISCONNECT
\* decrements the count and moves entries beyond it, so the last one is lost.
Table(m) ==
    CASE m.type = "CONNECT" -> Append(clients, m.from)
      [] m.type = "DISCONNECT" -> Front(clients)
      [] OTHER -> clients

\* Mutant: send_all skips the first client.
FirstSkipped(m) == [pc |-> "send", msg |-> m, i |-> 1]

\* A CONNECT beyond the end of the array.  The code only prints a message, one
\* client early, and writes the entry anyway.
Overrun(m) == m.type = "CONNECT" /\ Len(clients) = MaxClients

\* The message the server passes on; its answer to DISCONNECT is marked CONNECT.
SendAll(m) == [pc |-> "send", msg |-> m, i |-> 0]

\* One message to the server is received and handled up to send_all.
SrvRecv ==
    /\ srv.pc = "recv"
    /\ \E k \in For(Server) :
         LET m == queue[k] IN
         /\ Recv(Server, k)
         /\ joined' = CASE m.type = "CONNECT" -> joined \cup {m.from}
                        [] m.type = "DISCONNECT" -> joined \ {m.from}
                        [] OTHER -> joined
         /\ IF Overrun(m)
              THEN srv' = [srv EXCEPT !.pc = "overrun"] /\ UNCHANGED clients
              ELSE /\ clients' = Table(m)
                   /\ srv' = IF m.type = "PRIVATE" THEN srv
                             ELSE SendAll([m EXCEPT !.type = IF @ = "BROADCAST" THEN @ ELSE "CONNECT"])
    /\ UNCHANGED <<exists, parent, child, typed, screen>>

\* One copy of the message is sent.
SrvSend ==
    /\ srv.pc = "send"
    /\ srv.i < Len(clients)
    /\ Send([srv.msg EXCEPT !.dest = clients[srv.i + 1]])
    /\ srv' = [srv EXCEPT !.i = @ + 1]
    /\ UNCHANGED <<exists, clients, parent, child, typed, screen, joined>>

\* send_all is through with the table.
SrvDone ==
    /\ srv.pc = "send"
    /\ srv.i >= Len(clients)
    /\ srv' = AtRecv
    /\ UNCHANGED <<queue, exists, clients, parent, child, typed, screen, joined>>

\* SIGINT: destroy_on_exit removes the queue ...
SrvInterrupt ==
    /\ Stops
    /\ exists
    /\ srv.pc # "overrun"
    /\ exists' = FALSE
    /\ queue' = <<>>
    /\ UNCHANGED <<clients, srv, parent, child, typed, screen, joined>>

\* ... and the next msq_recv fails.
SrvExit ==
    /\ srv.pc = "recv"
    /\ ~ exists
    /\ srv' = [srv EXCEPT !.pc = "exited"]
    /\ UNCHANGED <<queue, exists, clients, parent, child, typed, screen, joined>>

-----------------------------------------------------------------------------
(* client.c *)

\* The program starts: without a queue it exits at once.
Start(c) ==
    /\ parent[c].pc = "off"
    /\ parent' = [parent EXCEPT ![c].pc = IF exists THEN "fork" ELSE "done"]
    /\ UNCHANGED <<queue, exists, clients, srv, child, typed, screen, joined>>

\* CONNECT is sent, then the child is forked.
Connect(c) ==
    /\ parent[c].pc = "fork"
    /\ Send(Message(Server, c, "CONNECT", 0))
    /\ parent' = [parent EXCEPT ![c].pc = "input"]
    /\ child' = [child EXCEPT ![c] = "listen"]
    /\ UNCHANGED <<exists, clients, srv, typed, screen, joined>>

\* A line is typed: for everybody, or for one client, past the server.
Type(c) ==
    /\ parent[c].pc = "input"
    /\ typed[c] < MaxTyped /\ MapThenSumSet(LAMBDA d : typed[d], Client) < MaxLines
    /\ typed' = [typed EXCEPT ![c] = @ + 1]
    /\ \E m \in {Message(Server, c, "BROADCAST", typed[c] + 1)}
                  \cup {Message(d, c, "PRIVATE", 0) : d \in Private} :
          parent' = [parent EXCEPT ![c] = [pc |-> "send", msg |-> m]]
    /\ UNCHANGED <<queue, exists, clients, srv, child, screen, joined>>

SendTyped(c) ==
    /\ parent[c].pc = "send"
    /\ Send(parent[c].msg)
    /\ parent' = [parent EXCEPT ![c] = AtInput]
    /\ UNCHANGED <<exists, clients, srv, child, typed, screen, joined>>

\* "shutdown": the child is killed, then DISCONNECT is sent.
Shutdown(c) ==
    /\ c \in Leavers
    /\ parent[c].pc = "input"
    /\ parent' = [parent EXCEPT ![c].pc = "end"]
    /\ child' = [child EXCEPT ![c] = "dead"]
    /\ UNCHANGED <<queue, exists, clients, srv, typed, screen, joined>>

Disconnect(c) ==
    /\ parent[c].pc = "end"
    /\ Send(Message(Server, c, "DISCONNECT", 0))
    /\ parent' = [parent EXCEPT ![c].pc = "done"]
    /\ UNCHANGED <<exists, clients, srv, child, typed, screen, joined>>

\* The child prints a message for its client.
Listen(c) ==
    /\ child[c] = "listen"
    /\ \E k \in For(c) :
         /\ Recv(c, k)
         /\ screen' = IF queue[k].type = "BROADCAST"
                        THEN [screen EXCEPT ![c] =
                                 Append(@, [from |-> queue[k].from, n |-> queue[k].n])]
                        ELSE screen
    /\ UNCHANGED <<exists, clients, srv, parent, child, typed, joined>>

SrvStep == SrvRecv \/ SrvSend \/ SrvDone \/ SrvExit
SendStep(c) == Connect(c) \/ SendTyped(c) \/ Disconnect(c)

Next ==
    \/ SrvStep \/ SrvInterrupt
    \/ \E c \in Client : Start(c) \/ Type(c) \/ Shutdown(c) \/ SendStep(c) \/ Listen(c)

Spec == Init /\ [][Next]_vars

\* Processes that can go on do; nobody has to type.
Fairness ==
    /\ WF_vars(SrvStep)
    /\ \A c \in Client : WF_vars(SendStep(c)) /\ WF_vars(Listen(c))

-----------------------------------------------------------------------------
(* Properties. *)

\* All clients see the broadcasts they both get in the same order: the server
\* is the only one that orders them (send_all and the single queue).
SameOrder ==
    \A c, d \in Client : \A i, j \in 1 .. Len(screen[c]) :
        i < j => ~ \E k, l \in 1 .. Len(screen[d]) :
                      k < l /\ screen[d][k] = screen[c][j] /\ screen[d][l] = screen[c][i]

\* Nothing is printed twice, and no client misses a broadcast between two that it has
\* printed, whoever leaves: what c printed has no holes beside d's screen.
NoHoles ==
    \A c, d \in Client :
        /\ Cardinality(ToSet(screen[c])) = Len(screen[c])
        /\ \A i, j \in 1 .. Len(screen[d]) :
              (screen[d][i] \in ToSet(screen[c]) /\ screen[d][j] \in ToSet(screen[c]))
                  => \A k \in i .. j : screen[d][k] \in ToSet(screen[c])

\* The server counts as many clients as have connected and not disconnected.
CountRight == srv.pc \in {"recv", "send"} => Len(clients) = Cardinality(joined)

\* The clients the server forwards to are those that have connected and not
\* disconnected (README.md:13 of module3/06; the code breaks it).
RosterRight == srv.pc = "recv" => ToSet(clients) = joined

\* While nobody leaves, what a user sends to everybody is printed by every client
\* that had connected by then.
BroadcastArrives ==
    \A c, d \in Client : \A n \in 1 .. MaxTyped :
        (c \in joined /\ parent[d].pc = "send" /\ parent[d].msg.n = n)
            ~> [from |-> d, n |-> n] \in ToSet(screen[c])
=============================================================================
