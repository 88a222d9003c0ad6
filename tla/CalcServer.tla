----------------------------- MODULE CalcServer -----------------------------
(***************************************************************************)
(* The TCP server of module3/13, which forks a process for each client,    *)
(* and its clients: a menu, calculations, and the talk around a file       *)
(* transfer (the loops that carry the file are in FileTransfer).           *)
(*                                                                         *)
(* The server writes messages until it has to read; the client shows what  *)
(* one recv() returns and then asks its user, or takes the message for a   *)
(* marker.  TCP keeps no borders: a recv() may return one message, several *)
(* or, here, never a part of one.  All messages but the result, the list   *)
(* of files, the size and the data end in a zero byte, and what follows it *)
(* in the buffer is neither compared nor shown.                            *)
(***************************************************************************)
EXTENDS Integers, Sequences, SequencesExt, FiniteSets

CONSTANTS
    Clients,
    Inputs,    \* what a user types: a digit, or Word for anything else
    EmptyLines,  \* whether a user types empty lines
    MaxTyped,  \* bound: lines that a user types
    Network    \* "kind": a recv() ends where the server goes to read and after the data
               \* of a file, and nowhere else; "any": after any message

Word == 10

ConstantAssumption ==
    /\ IsFiniteSet(Clients)
    /\ Inputs \subseteq 0 .. 10
    /\ EmptyLines \in BOOLEAN
    /\ MaxTyped \in Nat
    /\ Network \in {"kind", "any"}

VARIABLES
    nclients,  \* the counter of the accepting process
    server,    \* what the process of each client waits for
    client,    \* what each client does
    toClient,  \* messages on the way
    toServer,  \* lines on the way: what was typed, and the last text shown then
    shown,     \* the last text each client has shown
    typed      \* how often each user has typed

vars == <<nclients, server, client, toClient, toServer, shown, typed>>

Questions == {"menu", "unknown", "ask1", "ask2", "files", "askname"}
Texts == Questions \cup {"result", "disconnect", "download", "upload", "size", "data", "one"}
Replies == {"ack", "size", "bytes"}

TypeOK ==
    /\ nclients \in 0 .. Cardinality(Clients)
    /\ server \in [Clients -> {"off", "choice", "get1", "get2", "opt", "download", "ack1",
                               "ack2", "upload", "size", "bytes", "end"}]
    /\ client \in [Clients -> {"off", "connected", "recv", "type", "dsize", "ddata", "uack", "end"}]
    /\ toClient \in [Clients -> Seq(Texts)]
    /\ toServer \in [Clients -> Seq([value : 0 .. 10, about : Texts \cup Replies])]
    /\ shown \in [Clients -> Texts]
    /\ typed \in [Clients -> 0 .. MaxTyped]

Init ==
    /\ nclients = 0
    /\ server = [c \in Clients |-> "off"]
    /\ client = [c \in Clients |-> "off"]
    /\ toClient = [c \in Clients |-> <<>>]
    /\ toServer = [c \in Clients |-> <<>>]
    /\ shown = [c \in Clients |-> "menu"]
    /\ typed = [c \in Clients |-> 0]

-----------------------------------------------------------------------------
(* Connections. *)

Connect(c) ==
    /\ client[c] = "off"
    /\ client' = [client EXCEPT ![c] = "connected"]
    /\ UNCHANGED <<nclients, server, toClient, toServer, shown, typed>>

Counted == nclients + 1

\* accept(), the counter, fork(); the new process writes the menu and reads.
Accept(c) ==
    /\ client[c] = "connected"
    /\ nclients' = Counted
    /\ client' = [client EXCEPT ![c] = "recv"]
    /\ server' = [server EXCEPT ![c] = "choice"]
    /\ toClient' = [toClient EXCEPT ![c] = <<"menu">>]
    /\ UNCHANGED <<toServer, shown, typed>>

-----------------------------------------------------------------------------
(* The server's process. *)

\* atoi of the lines that one read() returned: the digits before the first word.
Number(lines) ==
    LET digits == SelectInSeq(lines, LAMBDA l : l.value = Word)
        front  == IF digits = 0 THEN lines ELSE SubSeq(lines, 1, digits - 1)
    IN  FoldLeft(LAMBDA n, l : 10 * n + l.value, 0, front)
IsNumber(lines) == lines # <<>> /\ lines[1].value # Word

\* Mutant: the menu is written after a result and again at the top of the loop.
AfterResultTwice == <<"result", "menu", "menu">>

AfterResult == <<"result", "menu">>

\* What the process goes to wait for, and what it writes before that.
Reply(s, lines) ==
    LET n == Number(lines) IN
    CASE s = "choice" ->
            (CASE n = 0 -> {<<"end", <<"disconnect">> >>}
               [] n \in 1 .. 4 -> {<<"get1", <<"ask1">> >>}
               [] n = 5 -> {<<"opt", <<"files">> >>}
               [] OTHER -> {<<"choice", <<"unknown", "menu">> >>})
      [] s = "get1" -> IF IsNumber(lines) THEN {<<"get2", <<"ask2">> >>} ELSE {<<"end", <<>> >>}
      [] s = "get2" -> IF IsNumber(lines) THEN {<<"choice", AfterResult>>} ELSE {<<"end", <<>> >>}
      [] s = "opt" ->
            (CASE n = 1 -> {<<"download", <<"askname">> >>}
               [] n = 2 -> {<<"upload", <<"askname">> >>}
               [] OTHER -> {<<"choice", <<"menu">> >>})
      [] s = "download" -> {<<"ack1", <<"download">> >>, <<"choice", <<"menu">> >>}
      [] s = "ack1" -> {<<"ack2", <<"size">> >>}
      [] s = "ack2" -> {<<"choice", <<"data", "menu">> >>}
      [] s = "upload" -> {<<"size", <<"upload">> >>}
      [] s = "size" -> {<<"bytes", <<"one">> >>}
      [] s = "bytes" -> {<<"choice", <<"menu">> >>}
                        \cup IF Last(lines).about = "bytes" THEN {} ELSE {<<"bytes", <<>> >>}

Waits == {"choice", "get1", "get2", "opt", "download", "ack1", "ack2", "upload", "size", "bytes"}

ServerReads(c) ==
    /\ server[c] \in Waits
    /\ \E k \in 1 .. Len(toServer[c]) :
          \E r \in Reply(server[c], SubSeq(toServer[c], 1, k)) :
                /\ toServer' = [toServer EXCEPT ![c] = IF r[1] = "end" THEN <<>> ELSE SubSeq(@, k + 1, Len(@))]
                /\ server' = [server EXCEPT ![c] = r[1]]
                /\ toClient' = [toClient EXCEPT ![c] = IF client[c] = "end" THEN <<>> ELSE @ \o r[2]]
    /\ UNCHANGED <<nclients, client, shown, typed>>

\* Mutant: the return value of read() is not looked at in the menu either.
EndOfFileIgnored(s) == IF s = "choice" THEN {"choice"} ELSE {"end", "choice"}

\* Where the end of the connection leads: the menu takes it for "0"; elsewhere the buffer
\* is used as it is, whatever it holds, so the process ends or goes on; it writes to the
\* closed connection, which may kill it.  The loop around recv() turns for ever.
EndOfFile(s) == IF s = "choice" THEN {"end"} ELSE IF s = "bytes" THEN {"bytes"} ELSE {"end", "choice"}

ServerReadsEnd(c) ==
    /\ server[c] \in Waits
    /\ client[c] = "end" /\ toServer[c] = <<>>
    /\ \E s \in EndOfFile(server[c]) : server' = [server EXCEPT ![c] = s]
    /\ UNCHANGED <<nclients, client, toClient, toServer, shown, typed>>

-----------------------------------------------------------------------------
(* The client. *)

NoZero == {"result", "files", "size", "data"}

\* Lengths at which a recv() may end.
Ends(q) ==
    IF Network = "any" THEN 1 .. Len(q)
    ELSE LET stops == {k \in 1 .. Len(q) : q[k] \notin {"result", "unknown"}}
         IN  {k \in stops : \A j \in stops : k <= j}

\* What the user sees of a buffer: up to the first zero byte.
Shown(q) == q[IF \E k \in 1 .. Len(q) : q[k] \notin NoZero
              THEN CHOOSE k \in 1 .. Len(q) : q[k] \notin NoZero /\ \A j \in 1 .. k - 1 : q[j] \in NoZero
              ELSE Len(q)]

\* What a client does with a buffer, and what it sends by itself.
React(p, q) ==
    CASE p = "recv" /\ q[1] = "disconnect" -> <<"end", <<>> >>
      [] p = "recv" /\ q[1] = "download" -> <<"dsize", <<[value |-> 1, about |-> "ack"]>> >>
      [] p = "recv" /\ q[1] = "upload" -> <<"uack", <<[value |-> 7, about |-> "size"]>> >>
      [] p = "recv" /\ q[1] \notin {"disconnect", "download", "upload"} -> <<"type", <<>> >>
      [] p = "dsize" -> <<"ddata", <<[value |-> 1, about |-> "ack"]>> >>
      [] p = "ddata" -> <<"recv", <<>> >>
      [] p = "uack" -> <<"recv", <<[value |-> Word, about |-> "bytes"]>> >>

Receives(c) ==
    /\ client[c] \in {"recv", "dsize", "ddata", "uack"}
    /\ toClient[c] # <<>>
    /\ \E k \in Ends(toClient[c]) :
          LET q == SubSeq(toClient[c], 1, k)
              r == React(client[c], q)
          IN  /\ client' = [client EXCEPT ![c] = r[1]]
              /\ toServer' = [toServer EXCEPT ![c] = @ \o r[2]]
              /\ toClient' = [toClient EXCEPT ![c] = IF r[1] = "end" THEN <<>> ELSE SubSeq(@, k + 1, Len(@))]
              /\ shown' = [shown EXCEPT ![c] = Shown(q)]
    /\ UNCHANGED <<nclients, server, typed>>

\* A line of the user; nobody reads it when the server's process has ended, and of an
\* empty line nothing is sent.
Types(c) ==
    /\ client[c] = "type"
    /\ typed[c] < MaxTyped
    /\ \/ \E v \in Inputs :
             toServer' = [toServer EXCEPT ![c] =
                 IF server[c] = "end" THEN <<>> ELSE Append(@, [value |-> v, about |-> shown[c]])]
       \/ EmptyLines /\ UNCHANGED toServer
    /\ typed' = [typed EXCEPT ![c] = @ + 1]
    /\ client' = [client EXCEPT ![c] = "recv"]
    /\ UNCHANGED <<nclients, server, toClient, shown>>

ParentCloses == TRUE

\* recv() returns 0.
ReceivesEnd(c) ==
    /\ client[c] = "recv" /\ toClient[c] = <<>>
    /\ server[c] = "end" /\ ParentCloses
    /\ client' = [client EXCEPT ![c] = "end"]
    /\ UNCHANGED <<nclients, server, toClient, toServer, shown, typed>>

\* The user ends the client, at any time.
Quits(c) ==
    /\ client[c] \notin {"off", "connected", "end"}
    /\ client' = [client EXCEPT ![c] = "end"]
    /\ toClient' = [toClient EXCEPT ![c] = <<>>]
    /\ UNCHANGED <<nclients, server, toServer, shown, typed>>

Session(c) == ServerReads(c) \/ ServerReadsEnd(c) \/ Receives(c) \/ ReceivesEnd(c)

Next == \E c \in Clients : Connect(c) \/ Accept(c) \/ Session(c) \/ Types(c) \/ Quits(c)

Spec == Init /\ [][Next]_vars

\* Processes run and messages arrive; nobody has to connect, to type or to quit.
Fairness ==
    \A c \in Clients : /\ WF_vars(Accept(c)) /\ WF_vars(ServerReads(c)) /\ WF_vars(ServerReadsEnd(c))
                            /\ WF_vars(Receives(c) \/ ReceivesEnd(c))

-----------------------------------------------------------------------------
(* Properties. *)

Expected(s) ==
    CASE s = "choice" -> {"menu", "unknown"}
      [] s = "get1" -> {"ask1"}
      [] s = "get2" -> {"ask2"}
      [] s = "opt" -> {"files"}
      [] s \in {"download", "upload"} -> {"askname"}
      [] s \in {"ack1", "ack2"} -> {"ack"}
      [] s \in {"size", "bytes"} -> {s}

\* What a user types is taken for the answer to the question that the user saw last, and
\* an acknowledgement for an acknowledgement: no more than one line is under way, however
\* calculations, unknown choices and transfers follow one another, if recv() ends where
\* the server goes to read.
AnswersMatch ==
    \A c \in Clients : (server[c] \in Waits /\ toServer[c] # <<>>) =>
        /\ Len(toServer[c]) = 1
        /\ toServer[c][1].about \in Expected(server[c])

\* When the server's process has ended, for "0", or for an argument that is no number, and
\* its user types as often as asked, the client ends as well.
ClientEnds ==
    \A c \in Clients : (server[c] = "end" /\ client[c] # "type") ~> client[c] \in {"end", "type"}

\* When a client is gone, its process on the server ends, unless an upload was under way.
ProcessEnds == \A c \in Clients : client[c] = "end" ~> server[c] \in {"end", "bytes"}
=============================================================================
