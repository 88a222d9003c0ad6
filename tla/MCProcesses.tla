---------------------------- MODULE MCProcesses ----------------------------
(***************************************************************************)
(* The programs of module3 whose processes share what the kernel holds:    *)
(* output of a fork (ForkOutput, 01), signals (SignalCounter, 05), message *)
(* queues (GroupChat, 06, and PingPong, 07), and data under semaphores     *)
(* (FileSem, 08, NamedSem, 09, ShmHandshake, 10 and 11).  They have        *)
(* nothing in common at run time, so a behaviour is one of one program,    *)
(* and the others stay as they begin.  Programs about which theorems are   *)
(* proved are instantiated together with their proofs, so that the         *)
(* theorems hold of the composition under the same names.                  *)
(***************************************************************************)
EXTENDS GroupChat, TLC

CONSTANTS
    c1, c2, c3, server,                          \* GroupChat
    Talkers, n1, n2, r, MaxMsg, Queues, Enders, Killed,      \* PingPong
    prod, cons1, cons2, f1, f2, NoFile, Files, FileLines,    \* FileSem
    Runs, r1, r2, Lines, MaxFile, MaxSets, FileThere, Signals, Kills,
    MaxSignals, MaxNumbers, MaxArgs, BufLines,
    Programs                                     \* the programs the run covers

TwoClients == {c1, c2}
ThreeClients == {c1, c2, c3}
Nobody == {}
ToServer == {server}
ThreeTalkers == {n1, n2, r}
FirstReaders == {n1, n2}
Single == [p \in {prod, cons1, cons2} |-> <<f1>>]
Both == [p \in {prod, cons1, cons2} |->
    CASE p = prod -> <<f1, f2>> [] p = cons1 -> <<f2>> [] p = cons2 -> <<f1>>]
OneRun == {r1}
TwoRuns == {r1, r2}
SomeLines == {<<7, 3, 9>>, <<0>>}
OneLine == {<<7, 3, 9>>}
Symmetry == Permutations(ThreeClients)

VARIABLES
    program,                                                \* of this behaviour
    name, msgs, mqd0, mqd1, place,                          \* PingPong
    file, made, sem, pc, at, key, offset, out, broken, orphaned,                \* FileSem
    theFile, there, created, value, step, seen, printed, lost,                  \* NamedSem
    named, last, sem0, sem1, shm, gen, mother, kid, sets, results, count, stopped,
    sa_flags, deaf, at5, number, sigint_count, handlers, caught, pending, sent, log,
    argc, terminal, at1, i, buffer, shown                   \* ForkOutput

Talk == INSTANCE PingPong WITH
    Clients <- Talkers, Reversed <- {r}, Leavers <- Enders, pc <- place
Guarded == INSTANCE FileSemProofs WITH
    Producer <- {prod}, Consumer <- {cons1, cons2}, File <- {f1, f2}, Existing <- {},
    Lines <- FileLines, MaxLines <- MaxFile, exists <- made
Named == INSTANCE NamedSem WITH
    Run <- Runs, Existing <- FileThere, MaxLines <- MaxFile, file <- theFile, exists <- there,
    sem <- value, pc <- step, offset <- seen, out <- printed, orphaned <- lost
Shm == INSTANCE ShmHandshakeProofs WITH
    Run <- Runs, Lines <- FileLines, Garbage <- {0}, parent <- mother, child <- kid
Counter == INSTANCE SignalCounter WITH pc <- at5, count <- number
Halves == INSTANCE ForkOutput WITH pc <- at1, out <- shown

ASSUME InstanceAssumption ==
    /\ Talk!ConstantAssumption /\ Guarded!ConstantAssumption /\ Named!ConstantAssumption /\ Shm!ConstantAssumption
    /\ Counter!ConstantAssumption /\ Halves!ConstantAssumption

TalkVars == <<name, msgs, mqd0, mqd1, place>>
FileVars == <<file, made, sem, pc, at, key, offset, out, broken, orphaned>>
NamedVars == <<theFile, there, created, value, step, seen, printed, lost>>
ShmVars == <<named, last, sem0, sem1, shm, gen, mother, kid, sets, results, count, stopped>>
CounterVars == <<sa_flags, deaf, at5, number, sigint_count, handlers, caught, pending, sent, log>>
HalfVars == <<argc, terminal, at1, i, buffer, shown>>
Vars == <<program, vars, TalkVars, FileVars, NamedVars, ShmVars, CounterVars, HalfVars>>

ProcInit ==
    /\ program \in Programs
    /\ Init /\ Talk!Init /\ Guarded!Init /\ Named!Init /\ Shm!Init /\ Counter!Init /\ Halves!Init

ProcNext ==
    /\ UNCHANGED program
    /\ IF program = "chat" THEN Next ELSE UNCHANGED vars
    /\ IF program = "talk" THEN Talk!Next ELSE UNCHANGED TalkVars
    /\ IF program = "files" THEN Guarded!Next ELSE UNCHANGED FileVars
    /\ IF program = "named" THEN Named!Next ELSE UNCHANGED NamedVars
    /\ IF program = "shm" THEN Shm!Next ELSE UNCHANGED ShmVars
    /\ IF program = "counter" THEN Counter!Next ELSE UNCHANGED CounterVars
    /\ IF program = "halves" THEN Halves!Next ELSE UNCHANGED HalfVars

ProcSpec == ProcInit /\ [][ProcNext]_Vars

\* Every program is off at first, and nothing is asked of one that is not started.  The
\* users of PingPong start the clients and answer, too.
FairProcSpec ==
    /\ ProcSpec
    /\ Fairness /\ Talk!Fairness /\ Guarded!Fairness /\ Named!Fairness /\ Shm!Fairness
    /\ Counter!Fairness
    /\ \A c \in Talkers : /\ WF_TalkVars(program = "talk" /\ Talk!OpenRead(c))
                           /\ WF_TalkVars(program = "talk" /\ Talk!Send(c))

-----------------------------------------------------------------------------
(* Properties: those of GroupChat by their own names, and those of the others. *)

\* Every variable of every program has its type.
TypesOK ==
    /\ TypeOK /\ Talk!TypeOK /\ Guarded!TypeOK /\ Named!TypeOK /\ Shm!TypeOK
    /\ Counter!TypeOK /\ Halves!TypeOK

\* module3/06: all clients get the broadcasts in one order, and between the first and the
\* last that a client has got none is missing.
BroadcastOrder == SameOrder /\ NoHoles

\* module3/07: one turn in all, over any restarts; and of two talkers with the same queues
\* each reads what the other writes.
TurnsRight == Talk!OneTurn /\ Talk!Crossed

\* Who is inside is alone.  module3/08: one process a semaphore, unless it was set while a
\* process was inside or its holder was killed.  module3/09: the same over all runs, as the
\* semaphore outlives the program.  module3/10, 11: while one run has the semaphores,
\* parent and child are never both at the shared memory, signals or not.
OneInside == Guarded!OneToken /\ Named!OneToken /\ Shm!Turns

\* module3/08, 09: every reader prints the bounds of every line once and in order,
\* whatever happens to the semaphores.
LogsRight == Guarded!LogSpec /\ Named!LogSpec

\* module3/10, 11: what a parent prints are the bounds of its own lines in order.
\* module3/05: the numbers of the file follow each other, and the program ends after the
\* line of the third SIGINT.  module3/01: every argument is printed once, unless the
\* child's part stays in a buffer.
OutputsRight == Shm!ResultsRight /\ Counter!LogRight /\ Halves!OutputRight

\* module3/06: a broadcast is printed by every client that is connected.  module3/07: while
\* no client that reads first ends, messages go on arriving at one, however often the
\* other client ends and is started again.
MessagesArrive == BroadcastArrives /\ (program = "talk" => Talk!Resumes)

\* module3/08, 09: whoever analyses files analyses every line of them.  module3/10, 11:
\* without signals every set that was generated is printed and counted.  module3/05: the
\* third line of a SIGINT is followed by the end.
WorkDone ==
    Guarded!LinesAnalysed /\ Named!LinesAnalysed /\ Shm!SetsGoThrough /\ Counter!Ends
=============================================================================
