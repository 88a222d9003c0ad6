----------------------------- MODULE MCSockets -----------------------------
(***************************************************************************)
(* The programs of module3 that talk over sockets: PollServer (15),        *)
(* CalcServer (13), FileTransfer (13 and 15), UdpChat (12, 14) and         *)
(* EchoCount (ct1).  A behaviour is one of one program; the others stay as *)
(* they begin.                                                             *)
(***************************************************************************)
EXTENDS PollServer, TLC

CONSTANTS
    c1, c2, c3,
    Programs,                       \* the programs the run covers
    EchoClient, NoClient, MaxMessages, MaxRuns, Signals, Loss,      \* EchoCount
    Callers, Inputs, EmptyLines, MaxInputs, Network,                \* CalcServer
    Sizes, BufSize, Names, Partial,                                 \* FileTransfer
    Ports, Peer, Watched, MaxLength, MaxSent                        \* UdpChat

TwoClients == {c1, c2}
ThreeClients == {c1, c2, c3}
NoFiles == {"calc", "other", "text"}
PlainNames == {<<>>, <<10>>, <<4, 10, 10>>}
AllNames == PlainNames \cup {<<10, 3>>, <<10, 10, 2>>}
SmallSizes == 1 .. 7
ThreePorts == {"x", "y", "z"}
AllToY == [p \in ThreePorts |-> IF p = "y" THEN "x" ELSE "y"]
Symmetry == Permutations(ThreeClients) \cup Permutations(EchoClient)

VARIABLES
    program,                                     \* the program of this behaviour
    net, head, inbox, pc, leaving, restart, messages, run, echoed, signalled, fresh, crowded,
    online, server, client, toClient, toServer, shown, inputs,
    size, stale, filesize, offset, chan, buff, recieved, got, pieces, file,
    writer, listener, lines, flying, buf, printed, dump, failed

Echo == INSTANCE EchoCount WITH
    Client <- EchoClient, None <- NoClient, SaFlags <- BOOLEAN, MaxTyped <- MaxMessages,
    typed <- messages, shown <- echoed
Calc == INSTANCE CalcServer WITH
    Clients <- Callers, MaxTyped <- MaxInputs, nclients <- online, typed <- inputs
Transfer == INSTANCE FileTransfer
Udp == INSTANCE UdpChat WITH
    MaxLine <- MaxLength,
    typed <- lines, net <- flying, shown <- printed

ASSUME InstanceAssumption ==
    /\ Echo!ConstantAssumption /\ Calc!ConstantAssumption
    /\ Transfer!ConstantAssumption /\ Udp!ConstantAssumption

EchoVars ==
    <<net, head, inbox, pc, leaving, restart, messages, run, echoed, signalled, fresh, crowded>>
CalcVars == <<online, server, client, toClient, toServer, shown, inputs>>
TransferVars == <<size, stale, filesize, offset, chan, buff, recieved, got, pieces, file>>
UdpVars == <<writer, listener, lines, flying, buf, printed, dump, failed>>
Vars == <<program, vars, EchoVars, CalcVars, TransferVars, UdpVars>>

\* One initial state of what does not run is enough.
SocketInit ==
    /\ program \in Programs
    /\ Init /\ Echo!Init /\ Calc!Init /\ Transfer!Init /\ Udp!Init
    /\ program # "poll" => rev = [k \in Slots |-> FALSE]
    /\ program # "echo" => restart = [c \in EchoClient |-> TRUE]
    /\ program # "transfer" => size = (CHOOSE n \in Sizes : TRUE) /\ stale = (CHOOSE n \in Names : TRUE)

SocketNext ==
    /\ UNCHANGED program
    /\ IF program = "poll" THEN Next ELSE UNCHANGED vars
    /\ IF program = "echo" THEN Echo!Next ELSE UNCHANGED EchoVars
    /\ IF program = "calc" THEN Calc!Next ELSE UNCHANGED CalcVars
    /\ IF program = "transfer" THEN Transfer!Next ELSE UNCHANGED TransferVars
    /\ IF program = "udp" THEN Udp!Next ELSE UNCHANGED UdpVars

SocketSpec == SocketInit /\ [][SocketNext]_Vars

FairSocketSpec ==
    /\ SocketSpec
    /\ Fairness /\ UsersAnswer
    /\ Echo!Fairness /\ Calc!Fairness
    /\ Transfer!Fairness /\ WF_TransferVars(program = "transfer" /\ Transfer!GetSize)

-----------------------------------------------------------------------------
(* Properties: those of PollServer by their own names, and the others. *)

\* Every variable of every program has its type.
TypesOK == TypeOK /\ Echo!TypeOK /\ Calc!TypeOK /\ Transfer!TypeOK /\ Udp!TypeOK

\* What is received is what was sent.  module3/ct1: until it gets SIGINT a client prints
\* the echoes of its own messages in order, none of an earlier run; and one that is alone
\* with a server that had forgotten it gets the numbers 1, 2, 3 ...  module3/13, 15: no
\* byte of a file is sent twice or out of order, and the first piece is written as it was
\* sent.  module3/12, 14: every line printed is one typed line from end to end.
ReceivedRight ==
    /\ Echo!EchoMatches /\ Echo!NumberedAlone
    /\ Transfer!OnePieceIntact /\ Transfer!NoneTwice
    /\ Udp!ChatRight

\* module3/13: the client follows the end of its process, and the process that of its
\* client, unless in an upload.
SessionsEnd == Calc!ClientEnds /\ Calc!ProcessEnds

\* module3/13: what a user types is read as the answer to the question shown last.
\* module3/15: between a line and the next message nothing else is under way.
TurnsKept == Calc!AnswersMatch /\ TakeTurns

\* module3/15: every line of a user who answers is answered; module3/ct1: so is every
\* message that is not lost; module3/13, 15: when sendfile sends all at once, the
\* receiver's loop ends.
AnswersCome ==
    /\ LinesAnswered
    /\ Echo!Answered
    /\ program = "transfer" => Transfer!TransferEnds
=============================================================================
