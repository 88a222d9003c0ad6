----------------------------- MODULE TaxiProofs -----------------------------
(***************************************************************************)
(* Proofs about Taxi: type correctness and ViewBusyHasCause, for every set *)
(* of pids, timers and sa_flags values, every FIFO capacity and every      *)
(* combination of faults.                                                  *)
(***************************************************************************)
EXTENDS Taxi, TLAPS, SequenceTheorems

-----------------------------------------------------------------------------
(* Queues of messages. *)

\* What sending m to the CLI changes in what a queue says of p (write in driver.c).
LEMMA AppendMsg ==
    ASSUME NEW q \in Seq(Msg), NEW m \in Msg, NEW p \in Pid
    PROVE  /\ Mentions(Append(q, m), p) => Mentions(q, p) \/ m.pid = p
           /\ Reports(q, p) => Reports(Append(q, m), p)
           /\ m.pid = p /\ m.msg_type = "STATUS" => Reports(Append(q, m), p)
           /\ m.pid = p /\ m.msg_type = "STATUS" => EndsWithReport(Append(q, m), p)
           /\ m.pid # p /\ EndsWithReport(q, p) => EndsWithReport(Append(q, m), p)
<1> DEFINE r == Append(q, m)
<1>1. /\ r \in Seq(Msg)
      /\ Len(q) \in Nat
      /\ Len(r) = Len(q) + 1
      /\ \A k \in 1 .. Len(q) : r[k] = q[k]
      /\ r[Len(q) + 1] = m
  BY AppendProperties, LenProperties
<1> HIDE DEF r
<1>2. Mentions(r, p) => Mentions(q, p) \/ m.pid = p
  BY <1>1 DEF Mentions
<1>3. Reports(q, p) => Reports(r, p)
  BY <1>1 DEF Reports
<1>4. m.pid = p /\ m.msg_type = "STATUS" => Reports(r, p)
  BY <1>1 DEF Reports
<1>5. m.pid = p /\ m.msg_type = "STATUS" => EndsWithReport(r, p)
  BY <1>1 DEF EndsWithReport
<1>6. m.pid # p /\ EndsWithReport(q, p) => EndsWithReport(r, p)
  BY <1>1 DEF EndsWithReport
<1> QED BY <1>2, <1>3, <1>4, <1>5, <1>6 DEF r

\* What reading a message changes (read in taxi_cli.c).
LEMMA TailMsg ==
    ASSUME NEW q \in Seq(Msg), q # <<>>, NEW p \in Pid
    PROVE  /\ Mentions(Tail(q), p) => Mentions(q, p)
           /\ Head(q).pid = p => Mentions(q, p)
           /\ EndsWithReport(q, p) => EndsWithReport(Tail(q), p)
           /\ Reports(q, p) => \/ Reports(Tail(q), p)
                               \/ Head(q).pid = p /\ Head(q).msg_type = "STATUS"
           /\ EndsWithReport(q, p) /\ Head(q).pid = p /\ Head(q).msg_type # "STATUS"
                => Reports(Tail(q), p)
<1> DEFINE r == Tail(q)
<1>1. /\ r \in Seq(Msg)
      /\ Len(q) \in Nat /\ Len(q) > 0
      /\ Len(r) = Len(q) - 1
      /\ \A k \in 1 .. Len(r) : r[k] = q[k + 1]
      /\ Head(q) = q[1]
  BY HeadTailProperties, LenProperties, EmptySeq
<1> HIDE DEF r
<1>a. \A k \in 2 .. Len(q) : (k - 1) \in 1 .. Len(r) /\ r[k - 1] = q[k]
  BY <1>1
<1>2. Mentions(r, p) => Mentions(q, p)
  BY <1>1 DEF Mentions
<1>3. Head(q).pid = p => Mentions(q, p)
  BY <1>1 DEF Mentions
<1>4. ASSUME EndsWithReport(q, p) PROVE EndsWithReport(r, p)
  <2> SUFFICES ASSUME NEW k \in 1 .. Len(r), r[k].pid = p, r[k].msg_type # "STATUS"
               PROVE  \E j \in (k + 1) .. Len(r) : r[j].pid = p /\ r[j].msg_type = "STATUS"
    BY DEF EndsWithReport
  <2>1. k + 1 \in 1 .. Len(q) /\ q[k + 1] = r[k]
    BY <1>1
  <2>2. PICK j \in (k + 1 + 1) .. Len(q) : q[j].pid = p /\ q[j].msg_type = "STATUS"
    BY <1>4, <2>1 DEF EndsWithReport
  <2>3. j - 1 \in (k + 1) .. Len(r) /\ r[j - 1] = q[j]
    BY <1>1, <1>a, <2>2
  <2> QED BY <2>2, <2>3
<1>5. Reports(q, p) => \/ Reports(r, p)
                       \/ Head(q).pid = p /\ Head(q).msg_type = "STATUS"
  <2> SUFFICES ASSUME NEW k \in 1 .. Len(q), q[k].pid = p, q[k].msg_type = "STATUS", k # 1
               PROVE  Reports(r, p)
    BY <1>1 DEF Reports
  <2> QED BY <1>1, <1>a DEF Reports
<1>6. ASSUME EndsWithReport(q, p), Head(q).pid = p, Head(q).msg_type # "STATUS"
      PROVE  Reports(r, p)
  <2>1. PICK j \in 2 .. Len(q) : q[j].pid = p /\ q[j].msg_type = "STATUS"
    BY <1>1, <1>6 DEF EndsWithReport
  <2> QED BY <1>a, <2>1 DEF Reports
<1> QED BY <1>2, <1>3, <1>4, <1>5, <1>6 DEF r
\* A driver that has said nothing has no refusal waiting for a report.
LEMMA Silent ==
    ASSUME NEW q \in Seq(Msg), NEW p \in Pid, ~ Mentions(q, p)
    PROVE  EndsWithReport(q, p)
BY DEF Mentions, EndsWithReport

-----------------------------------------------------------------------------
(* Type correctness. *)

\* A call cut short, or not, leaves the driver in a place of its program.
LEMMA CutType ==
    ASSUME TypeOK, NEW p \in Pid, CallSpared(p) \/ CallCut(p)
    PROVE  pc' \in [Pid -> DrvPcs] /\ left' \in [Pid -> Nat] /\ path' \subseteq Pid
<1>1. CASE CallSpared(p)
  BY <1>1 DEF CallSpared, TypeOK
<1>2. CASE CallCut(p)
  <2>1. pc' \in [Pid -> DrvPcs] /\ path' \subseteq Pid
    BY <1>2 DEF CallCut, TypeOK, DrvPcs
  <2>2. ASSUME NEW l \in 0 .. (left[p] - 1), left' = [left EXCEPT ![p] = l]
        PROVE  left' \in [Pid -> Nat]
    BY <2>2 DEF TypeOK
  <2> QED
    BY <1>2, <2>1, <2>2 DEF CallCut, Unslept, TypeOK
<1> QED BY <1>1, <1>2

\* The SIGUSR1 handler sets a flag and may cut a call short; the default action
\* ends the driver.
LEMMA Usr1Type ==
    ASSUME TypeOK, NEW p \in Pid, Usr1(p)
    PROVE  /\ pc' \in [Pid -> DrvPcs] /\ left' \in [Pid -> Nat] /\ need' \in [Pid -> BOOLEAN]
           /\ flags' \in [Pid -> FlagSet] /\ path' \subseteq Pid
<1>1. CASE Alive(p) /\ "DFL" \notin flags[p]
  <2>1. CallSpared(p) \/ CallCut(p)
    BY <1>1 DEF Usr1
  <2>2. need' \in [Pid -> BOOLEAN]
    BY <1>1 DEF Usr1, TypeOK
  <2>3. flags' \in [Pid -> FlagSet]
    <3>1. flags[p] \in FlagSet /\ flags[p] \cup {"DFL"} \in FlagSet
      BY DEF TypeOK, FlagSet
    <3> QED
      BY <1>1, <3>1, ZenonT(40) DEF Usr1, TypeOK
  <2> QED BY <2>1, <2>2, <2>3, CutType
<1>2. CASE ~ Alive(p) \/ "DFL" \in flags[p]
  BY <1>2 DEF Usr1, TypeOK, DrvPcs
<1> QED BY <1>1, <1>2

\* A message is queued whole, or the writer dies of SIGPIPE.
LEMMA WriteType ==
    ASSUME TypeOK, NEW p \in Pid, NEW m \in Msg, WriteCli(p, m)
    PROVE  toCli' \in Seq(Msg) /\ pc' \in [Pid -> DrvPcs]
<1>1. toCli' \in Seq(Msg)
  <2>1. Append(toCli, m) \in Seq(Msg)
    BY AppendProperties DEF TypeOK
  <2> QED BY <2>1 DEF WriteCli, TypeOK
<1>2. pc' \in [Pid -> DrvPcs]
  BY DEF WriteCli, Goto, TypeOK, DrvPcs
<1> QED BY <1>1, <1>2

\* Every step of every process keeps the variables in their types.
LEMMA TypeStep == TypeOK /\ [Next]_vars => TypeOK'
<1> SUFFICES ASSUME TypeOK, [Next]_vars PROVE TypeOK'
  OBVIOUS
<1> USE TimerAssumption, FlagAssumption
<1>1. ASSUME CliPoll PROVE TypeOK'
  BY <1>1 DEF TypeOK, CliPcs, DrvPcs, Status, View, FlagSet,
         CliPoll, cliVars, drvVars, jobVars, sigVars, ioVars
<1>2. ASSUME CliQuery PROVE TypeOK'
  BY <1>2 DEF TypeOK, CliPcs, DrvPcs, Status, View, FlagSet,
         CliQuery, Command, Resume, cliVars, drvVars, jobVars, sigVars, ioVars
<1>3. ASSUME CliMkfifo PROVE TypeOK'
  BY <1>3 DEF TypeOK, CliPcs, DrvPcs, Status, View, FlagSet,
         CliMkfifo, cliVars, drvVars, jobVars, sigVars, ioVars
<1>4. ASSUME CliOpen PROVE TypeOK'
  BY <1>4 DEF TypeOK, CliPcs, DrvPcs, Status, View, FlagSet,
         CliOpen, Resume, cliVars, drvVars, jobVars, sigVars, ioVars
<1>5. ASSUME CliOpenFails PROVE TypeOK'
  <2>1. int' \in [Pid -> BOOLEAN]
    BY <1>5 DEF TypeOK, CliOpenFails, Alive
  <2> QED
    BY <1>5, <2>1 DEF TypeOK, CliPcs, CliOpenFails, DropEntry, Resume, jobVars, ioVars
<1>6. ASSUME CliWrite PROVE TypeOK'
  BY <1>6 DEF TypeOK, CliPcs, DrvPcs, Status, View, FlagSet,
         CliWrite, cliVars, drvVars, jobVars, sigVars, ioVars
<1>7. ASSUME CliBrokenPipe PROVE TypeOK'
  BY <1>7 DEF TypeOK, CliPcs, DrvPcs, Status, View, FlagSet,
         CliBrokenPipe, cliVars, drvVars, jobVars, sigVars, ioVars
<1>8. ASSUME CliMark PROVE TypeOK'
  <2>1. cur.pid \in Pid /\ Usr1(cur.pid)
    BY <1>8 DEF CliMark, TypeOK
  <2>2. /\ pc' \in [Pid -> DrvPcs] /\ left' \in [Pid -> Nat] /\ need' \in [Pid -> BOOLEAN]
        /\ flags' \in [Pid -> FlagSet] /\ path' \subseteq Pid
    BY <2>1, Usr1Type
  <2>3. view' \in [Pid -> View]
    BY <1>8, <2>1 DEF CliMark, TypeOK, View, Busy, Status
  <2> QED
    BY <1>8, <2>2, <2>3 DEF TypeOK, CliMark, CliPcs, Resume
<1>9. ASSUME CliMsg PROVE TypeOK'
  <2>1. Head(toCli) \in Msg /\ Tail(toCli) \in Seq(Msg)
    BY <1>9, HeadTailProperties DEF CliMsg, HandleMsg, TypeOK
  <2>2. view' \in [Pid -> View]
    BY <1>9, <2>1 DEF CliMsg, HandleMsg, TypeOK, Msg, View
  <2> QED
    BY <1>9, <2>1, <2>2 DEF TypeOK, CliMsg, CliPcs, drvVars, jobVars, sigVars
<1>10. ASSUME CliLeave PROVE TypeOK'
  BY <1>10 DEF TypeOK, CliPcs, DrvPcs, Status, View, FlagSet,
         CliLeave, cliVars, drvVars, jobVars, sigVars, ioVars
<1>11. ASSUME CliExit PROVE TypeOK'
  BY <1>11 DEF TypeOK, CliPcs, DrvPcs, Status, View, FlagSet,
         CliExit, KillListed, cliVars, drvVars, jobVars, sigVars, ioVars
<1>12. ASSUME Interrupt PROVE TypeOK'
  BY <1>12 DEF TypeOK, CliPcs, DrvPcs, Status, View, FlagSet,
         Interrupt, DropEntry, Resume, cliVars, drvVars, jobVars, sigVars, ioVars
<1>13. ASSUME NEW p \in Pid, DrvInt(p) PROVE TypeOK'
  <2>1. pc' \in [Pid -> DrvPcs] /\ left' \in [Pid -> Nat] /\ path' \subseteq Pid
    BY <1>13, CutType DEF DrvInt, TypeOK, DrvPcs
  <2>2. need' \in [Pid -> BOOLEAN] /\ stop' \in [Pid -> BOOLEAN] /\ int' \in [Pid -> BOOLEAN]
    BY <1>13 DEF DrvInt, TypeOK
  <2> QED
    BY <1>13, <2>1, <2>2 DEF TypeOK, DrvInt, cliVars
<1>14. ASSUME NEW p \in Pid, DrvOpen(p) PROVE TypeOK'
  BY <1>14, SMTT(20) DEF TypeOK, CliPcs, DrvPcs, Status, View, FlagSet,
         DrvOpen, At, Goto, cliVars, drvVars, jobVars, sigVars, ioVars
<1>15. ASSUME NEW p \in Pid, DrvFail(p) PROVE TypeOK'
  BY <1>15 DEF TypeOK, CliPcs, DrvPcs, Status, View, FlagSet,
         DrvFail, Quit, At, Goto, cliVars, drvVars, jobVars, sigVars, ioVars
<1>16. ASSUME NEW p \in Pid, DrvOpenCli(p) PROVE TypeOK'
  BY <1>16 DEF TypeOK, CliPcs, DrvPcs, Status, View, FlagSet,
         DrvOpenCli, Quit, At, Goto, cliVars, drvVars, jobVars, sigVars, ioVars
<1>17. ASSUME NEW p \in Pid, DrvQuit(p) PROVE TypeOK'
  BY <1>17 DEF TypeOK, CliPcs, DrvPcs, Status, View, FlagSet,
         DrvQuit, Quit, At, Goto, cliVars, drvVars, jobVars, sigVars, ioVars
<1>18. ASSUME NEW p \in Pid, DrvListen(p) PROVE TypeOK'
  BY <1>18 DEF TypeOK, CliPcs, DrvPcs, Status, View, FlagSet,
         DrvListen, Listens, At, Goto, cliVars, drvVars, jobVars, sigVars, ioVars
<1>19. ASSUME NEW p \in Pid, DrvFinish(p) PROVE TypeOK'
  BY <1>19 DEF TypeOK, CliPcs, DrvPcs, Status, View, FlagSet,
         DrvFinish, Listens, At, Goto, cliVars, drvVars, jobVars, sigVars, ioVars
<1>20. ASSUME NEW p \in Pid, DrvNap(p) PROVE TypeOK'
  BY <1>20 DEF TypeOK, CliPcs, DrvPcs, Status, View, FlagSet,
         DrvNap, Listens, At, Goto, cliVars, drvVars, jobVars, sigVars, ioVars
<1>21. ASSUME NEW p \in Pid, DrvWake(p) PROVE TypeOK'
  BY <1>21 DEF TypeOK, CliPcs, DrvPcs, Status, View, FlagSet,
         DrvWake, At, Goto, cliVars, drvVars, jobVars, sigVars, ioVars
<1>22. ASSUME NEW p \in Pid, DrvAccept(p) PROVE TypeOK'
  <2>1. Head(toDriver[p]) \in Nat /\ Tail(toDriver[p]) \in Seq(Nat)
    BY <1>22, HeadTailProperties DEF DrvAccept, Take, TypeOK
  <2> QED
    BY <1>22, <2>1 DEF TypeOK, DrvPcs, Status, DrvAccept, Take, Goto, cliVars, jobVars, sigVars
<1>23. ASSUME NEW p \in Pid, DrvRefuse(p) PROVE TypeOK'
  <2>1. Head(toDriver[p]) \in Nat /\ Tail(toDriver[p]) \in Seq(Nat)
    BY <1>23, HeadTailProperties DEF DrvRefuse, Take, TypeOK
  <2> QED
    BY <1>23, <2>1 DEF TypeOK, DrvPcs, Status, DrvRefuse, Take, Goto, cliVars, jobVars, sigVars
<1>24. ASSUME NEW p \in Pid, DrvReadNothing(p) PROVE TypeOK'
  BY <1>24 DEF TypeOK, CliPcs, DrvPcs, Status, View, FlagSet,
         DrvReadNothing, At, Goto, cliVars, drvVars, jobVars, sigVars, ioVars
<1>25. ASSUME NEW p \in Pid, DrvReject(p) PROVE TypeOK'
  <2>1. WriteCli(p, Refusal(p, timer[p]))
    BY <1>25 DEF DrvReject
  <2>2. Refusal(p, timer[p]) \in Msg
    BY DEF TypeOK, Msg, Status, Refusal
  <2>3. toCli' \in Seq(Msg) /\ pc' \in [Pid -> DrvPcs]
    BY <2>1, <2>2, WriteType
  <2> QED
    BY <1>25, <2>3 DEF TypeOK, DrvReject, cliVars, jobVars, sigVars
<1>26. ASSUME NEW p \in Pid, DrvReport(p) PROVE TypeOK'
  <2>1. WriteCli(p, Report(p))
    BY <1>26 DEF DrvReport
  <2>2. Report(p) \in Msg
    BY DEF TypeOK, Msg, Status, Report
  <2>3. toCli' \in Seq(Msg) /\ pc' \in [Pid -> DrvPcs]
    BY <2>1, <2>2, WriteType
  <2> QED
    BY <1>26, <2>3 DEF TypeOK, DrvReport, cliVars, jobVars, sigVars
<1>27. ASSUME NEW p \in Pid, DrvExecFails(p) PROVE TypeOK'
  BY <1>27 DEF TypeOK, CliPcs, DrvPcs, Status, View, FlagSet,
         DrvExecFails, At, Goto, cliVars, drvVars, jobVars, sigVars, ioVars
<1>28. ASSUME NEW p \in Pid, DrvCrash(p) PROVE TypeOK'
  BY <1>28 DEF TypeOK, CliPcs, DrvPcs, Status, View, FlagSet,
         DrvCrash, At, Goto, cliVars, drvVars, jobVars, sigVars, ioVars
<1>29. ASSUME NEW p \in Pid, CliFork(p) PROVE TypeOK'
  BY <1>29 DEF TypeOK, CliPcs, DrvPcs, Status, View, FlagSet,
         CliFork, Command, Idle, cliVars, drvVars, jobVars, sigVars, ioVars
<1>30. ASSUME NEW p \in Pid, NEW t \in Timer, CliSend(p, t) PROVE TypeOK'
  BY <1>30, SMTT(20) DEF TypeOK, CliPcs, DrvPcs, Status, View, FlagSet,
         CliSend, Command, cliVars, drvVars, jobVars, sigVars, ioVars
<1>31. CASE UNCHANGED vars
  BY <1>31 DEF TypeOK, vars, cliVars, drvVars, jobVars, sigVars, ioVars
<1> QED
  BY <1>1, <1>2, <1>3, <1>4, <1>5, <1>6, <1>7, <1>8, <1>9, <1>10, <1>11, <1>12, <1>13, <1>14, <1>15, <1>16, <1>17, <1>18, <1>19, <1>20, <1>21, <1>22, <1>23, <1>24, <1>25, <1>26, <1>27, <1>28, <1>29, <1>30, <1>31 DEF Next, Cli, Driver
-----------------------------------------------------------------------------
(* ViewBusyHasCause. *)

\* What a signal handler does to where p is: nothing, the end of the process, or
\* a call returned early, which only sleep() does when calls are restarted.
Moved(p) ==
    /\ pc' \in [Pid -> DrvPcs]
    /\ \A q \in Pid \ {p} : pc'[q] = pc[q]
    /\ \/ pc'[p] = pc[p] \/ pc'[p] = "dead"
       \/ pc'[p] = "loop" /\ pc[p] = "sleep"
       \/ pc'[p] = "loop" /\ pc[p] \in {"read", "reject", "report"} /\ "RESTART" \notin flags[p]

\* A handler moves the driver only in those ways.
LEMMA HandlerMoves ==
    ASSUME TypeOK, TypeOK', NEW p \in Pid, CallSpared(p) \/ CallCut(p)
    PROVE  Moved(p)
<1>1. CASE CallSpared(p)
  BY <1>1 DEF CallSpared, Moved, TypeOK
<1>2. CASE CallCut(p)
  BY <1>2 DEF CallCut, Blocked, Moved, TypeOK
<1> QED BY <1>1, <1>2

\* SIGUSR1 moves it so too and leaves SA_RESTART as it was.
LEMMA Usr1Moves ==
    ASSUME TypeOK, TypeOK', NEW p \in Pid, Usr1(p)
    PROVE  Moved(p) /\ \A q \in Pid : "RESTART" \in flags'[q] <=> "RESTART" \in flags[q]
<1>1. Moved(p)
  <2>1. CASE Alive(p) /\ "DFL" \notin flags[p]
    BY <2>1, HandlerMoves DEF Usr1
  <2>2. CASE ~ (Alive(p) /\ "DFL" \notin flags[p])
    BY <2>2 DEF Usr1, Moved, TypeOK, DrvPcs
  <2> QED BY <2>1, <2>2
<1>2. ASSUME NEW q \in Pid PROVE "RESTART" \in flags'[q] <=> "RESTART" \in flags[q]
  <2>1. CASE flags' = flags
    BY <2>1
  <2>2. CASE flags' = [flags EXCEPT ![p] = IF "RESETHAND" \in @ THEN @ \cup {"DFL"} ELSE @]
    BY <2>2 DEF TypeOK
  <2> QED BY <2>1, <2>2 DEF Usr1
<1> QED BY <1>1, <1>2

\* The untyped part of IInv.
NewsInv == EntryInv /\ FreshInv /\ PlaceInv /\ LastWordInv /\ CauseInv

\* Every step keeps the inductive invariant behind ViewBusyHasCause.
LEMMA NewsStep == TypeOK /\ TypeOK' /\ NewsInv /\ [Next]_vars => NewsInv'
<1> SUFFICES ASSUME TypeOK, TypeOK', NewsInv, [Next]_vars PROVE NewsInv'
  OBVIOUS
<1> USE DEF NewsInv
<1>1. ASSUME CliPoll PROVE NewsInv'
  BY <1>1 DEF TypeOK, Status, View, EntryInv, FreshInv, PlaceInv, LastWordInv, CauseInv, CreatingOf, MarkingOf, Reliable, NewsComing,
         CliPoll, cliVars, drvVars, jobVars, sigVars, ioVars
<1>2. ASSUME CliQuery PROVE NewsInv'
  BY <1>2 DEF TypeOK, Status, View, EntryInv, FreshInv, PlaceInv, LastWordInv, CauseInv, CreatingOf, MarkingOf, Reliable, NewsComing,
         CliQuery, Command, Resume, cliVars, drvVars, jobVars, sigVars, ioVars
<1>3. ASSUME CliMkfifo PROVE NewsInv'
  BY <1>3 DEF TypeOK, Status, View, EntryInv, FreshInv, PlaceInv, LastWordInv, CauseInv, CreatingOf, MarkingOf, Reliable, NewsComing,
         CliMkfifo, cliVars, drvVars, jobVars, sigVars, ioVars
<1>4. ASSUME CliOpen PROVE NewsInv'
  BY <1>4 DEF TypeOK, Status, View, EntryInv, FreshInv, PlaceInv, LastWordInv, CauseInv, CreatingOf, MarkingOf, Reliable, NewsComing,
         CliOpen, Resume, HasReader, cliVars, drvVars, jobVars, sigVars, ioVars
<1>5. ASSUME CliOpenFails PROVE NewsInv'
  BY <1>5 DEF TypeOK, Status, View, EntryInv, FreshInv, PlaceInv, LastWordInv, CauseInv, CreatingOf, MarkingOf, Reliable, NewsComing,
         CliOpenFails, DropEntry, Resume, cliVars, drvVars, jobVars, sigVars, ioVars
<1>6. ASSUME CliWrite PROVE NewsInv'
  <2>0. toDriver'[cur.pid] # <<>>
    <3>1. cur.pid \in Pid /\ toDriver[cur.pid] \in Seq(Nat) /\ cur.task_timer \in Nat
      BY DEF TypeOK
    <3>2. Append(toDriver[cur.pid], cur.task_timer) # <<>>
      BY <3>1, AppendProperties, ZenonT(40)
    <3> QED BY <1>6, <3>1, <3>2 DEF CliWrite, TypeOK
  <2>1. EntryInv'
    BY <1>6 DEF EntryInv, CreatingOf, TypeOK, Status, View,
           CliWrite, HasReader, cliVars, drvVars, jobVars, sigVars, ioVars
  <2>2. FreshInv'
    BY <1>6 DEF FreshInv, EntryInv, CreatingOf, TypeOK, Status, View,
           CliWrite, HasReader, cliVars, drvVars, jobVars, sigVars, ioVars
  <2>3. PlaceInv'
    BY <1>6 DEF PlaceInv, TypeOK, Status, View,
           CliWrite, HasReader, cliVars, drvVars, jobVars, sigVars, ioVars
  <2>4. LastWordInv'
    BY <1>6 DEF LastWordInv, PlaceInv, FreshInv, EntryInv, Reliable, TypeOK, Status, View,
           CliWrite, HasReader, cliVars, drvVars, jobVars, sigVars, ioVars
  <2>5. CauseInv'
    BY <1>6, <2>0 DEF CauseInv, PlaceInv, LastWordInv, FreshInv, EntryInv, Reliable, MarkingOf, NewsComing, CreatingOf, TypeOK, Status, View,
           CliWrite, HasReader, cliVars, drvVars, jobVars, sigVars, ioVars
  <2> QED BY <2>1, <2>2, <2>3, <2>4, <2>5
<1>7. ASSUME CliBrokenPipe PROVE NewsInv'
  BY <1>7 DEF TypeOK, Status, View, EntryInv, FreshInv, PlaceInv, LastWordInv, CauseInv, CreatingOf, MarkingOf, Reliable, NewsComing,
         CliBrokenPipe, HasReader, cliVars, drvVars, jobVars, sigVars, ioVars
<1>8. ASSUME CliMark PROVE NewsInv'
  <2>0. /\ cur.pid \in Pid /\ Moved(cur.pid)
        /\ \A q \in Pid : "RESTART" \in flags'[q] <=> "RESTART" \in flags[q]
    <3>1. cur.pid \in Pid /\ Usr1(cur.pid)
      BY <1>8 DEF CliMark, TypeOK
    <3> QED BY <3>1, Usr1Moves
  <2>1. EntryInv'
    BY <1>8, <2>0 DEF EntryInv, CreatingOf, MarkingOf, Moved, TypeOK, Status, View,
           CliMark, Resume, Busy
  <2>2. FreshInv'
    BY <1>8, <2>0 DEF FreshInv, EntryInv, CreatingOf, Moved, TypeOK, Status, View,
           CliMark, Resume, Busy
  <2>3. PlaceInv'
    BY <1>8, <2>0 DEF PlaceInv, Moved, TypeOK, Status, View,
           CliMark, Resume, Busy
  <2>4. LastWordInv'
    BY <1>8, <2>0 DEF LastWordInv, PlaceInv, Reliable, Moved, TypeOK, Status, View,
           CliMark, Resume, Busy
  <2>5. CauseInv'
    BY <1>8, <2>0 DEF CauseInv, PlaceInv, Reliable, MarkingOf, NewsComing, Moved, TypeOK, Status, View,
           CliMark, Resume, Busy
  <2> QED BY <2>1, <2>2, <2>3, <2>4, <2>5
<1>9. ASSUME CliMsg PROVE NewsInv'
  <2> DEFINE m == Head(toCli)
  <2>0. /\ toCli # <<>> /\ toCli \in Seq(Msg) /\ toCli' = Tail(toCli)
        /\ m \in Msg /\ m.pid \in Pid
        /\ cliPc = "work" /\ cliPc' = "poll"
        /\ UNCHANGED <<pc, status, flags, toDriver, cur, listed>>
        /\ view' = IF m.pid \in listed
                     THEN [view EXCEPT ![m.pid] =
                              [status |-> m.status, task_timer |-> m.task_timer]]
                     ELSE view
    <3>1. toCli # <<>> /\ toCli \in Seq(Msg)
      BY <1>9 DEF CliMsg, HandleMsg, TypeOK
    <3>2. m \in Msg /\ m.pid \in Pid
      <4>1. m \in Msg
        BY <3>1, HeadTailProperties
      <4> QED BY <4>1 DEF Msg
    <3> QED BY <1>9, <3>1, <3>2 DEF CliMsg, HandleMsg, drvVars, jobVars, sigVars
  <2>1. m.msg_type = "STATUS" => m.status = "FREE"
    BY <2>0, HeadTailProperties, LenProperties DEF PlaceInv
  <2> HIDE DEF m
  <2>2. \A q \in Pid :
          /\ Mentions(toCli', q) => Mentions(toCli, q)
          /\ m.pid = q => Mentions(toCli, q)
          /\ EndsWithReport(toCli, q) => EndsWithReport(toCli', q)
          /\ Reports(toCli, q) => Reports(toCli', q) \/ (m.pid = q /\ m.msg_type = "STATUS")
          /\ EndsWithReport(toCli, q) /\ m.pid = q /\ m.msg_type # "STATUS" => Reports(toCli', q)
    BY <2>0, TailMsg DEF m
  <2>3. \A q \in Pid : \/ view'[q] = view[q]
                       \/ q = m.pid /\ view'[q].status = m.status
    BY <2>0 DEF TypeOK
  <2>4. EntryInv'
    BY <2>0 DEF EntryInv, CreatingOf
  <2>5. FreshInv'
    BY <2>0, <2>2, <2>3 DEF FreshInv
  <2>6. PlaceInv'
    BY <2>0, HeadTailProperties DEF PlaceInv
  <2>7. LastWordInv'
    BY <2>0, <2>2 DEF LastWordInv, Reliable
  <2>8. CauseInv'
    <3> SUFFICES ASSUME NEW q \in listed', Reliable(q)', status'[q] = "FREE",
                        view'[q].status = "BUSY" \/ MarkingOf(q)'
                 PROVE  NewsComing(q)'
      BY DEF CauseInv
    <3>1. /\ q \in listed /\ q \in Pid
          /\ Reliable(q) /\ status[q] = "FREE" /\ view'[q].status = "BUSY"
      BY <2>0 DEF Reliable, MarkingOf, TypeOK
    <3>2. CASE m.pid = q /\ m.msg_type # "STATUS"
      BY <2>0, <2>2, <3>1, <3>2 DEF LastWordInv, NewsComing
    <3>3. CASE m.pid = q /\ m.msg_type = "STATUS"
      BY <2>0, <2>1, <3>1, <3>3 DEF TypeOK
    <3>4. CASE m.pid # q
      BY <2>0, <2>2, <2>3, <3>1, <3>4 DEF CauseInv, NewsComing
    <3> QED BY <3>2, <3>3, <3>4
  <2> QED BY <2>4, <2>5, <2>6, <2>7, <2>8
<1>10. ASSUME CliLeave PROVE NewsInv'
  BY <1>10 DEF TypeOK, Status, View, EntryInv, FreshInv, PlaceInv, LastWordInv, CauseInv, CreatingOf, MarkingOf, Reliable, NewsComing,
         CliLeave, cliVars, drvVars, jobVars, sigVars, ioVars
<1>11. ASSUME CliExit PROVE NewsInv'
  BY <1>11 DEF TypeOK, Status, View, EntryInv, FreshInv, PlaceInv, LastWordInv, CauseInv, CreatingOf, MarkingOf, Reliable, NewsComing,
         CliExit, KillListed, cliVars, drvVars, jobVars, sigVars, ioVars
<1>12. ASSUME Interrupt PROVE NewsInv'
  BY <1>12 DEF TypeOK, Status, View, EntryInv, FreshInv, PlaceInv, LastWordInv, CauseInv, CreatingOf, MarkingOf, Reliable, NewsComing,
         Interrupt, DropEntry, Resume, CliBlocked, cliVars, drvVars, jobVars, sigVars, ioVars
<1>13. ASSUME NEW p \in Pid, DrvInt(p) PROVE NewsInv'
  <2>0. Moved(p) /\ UNCHANGED <<flags, toDriver, toCli, cliVars, status>>
    <3>1. CASE CallSpared(p) \/ CallCut(p)
      BY <1>13, <3>1, HandlerMoves DEF DrvInt
    <3>2. CASE ~ (CallSpared(p) \/ CallCut(p))
      BY <1>13, <3>2 DEF DrvInt, Moved, TypeOK, DrvPcs
    <3> QED BY <1>13, <3>1, <3>2 DEF DrvInt
  <2>1. EntryInv'
    <3>1. UNCHANGED <<cliPc, cur, listed>>
      BY <2>0 DEF cliVars
    <3>2. \A q \in Pid : \/ pc'[q] = pc[q]
                         \/ pc'[q] \notin {"none", "init", "fail"}
      BY <2>0 DEF Moved
    <3>3. cliPc' \in {"mkfifo", "open", "send", "mark"} => cur'.pid \in listed'
      BY <3>1 DEF EntryInv
    <3>4. ASSUME NEW q \in listed'
          PROVE  pc'[q] # "none" /\ (~ CreatingOf(q)' => pc'[q] \notin {"init", "fail"})
      BY <3>1, <3>2 DEF EntryInv, CreatingOf, TypeOK
    <3> QED BY <3>3, <3>4 DEF EntryInv
  <2>2. FreshInv'
    BY <1>13, <2>0 DEF FreshInv, EntryInv, CreatingOf, Moved, TypeOK, Status, View,
           cliVars
  <2>3. PlaceInv'
    BY <1>13, <2>0 DEF PlaceInv, Moved, TypeOK, Status, View,
           cliVars
  <2>4. LastWordInv'
    BY <1>13, <2>0 DEF LastWordInv, PlaceInv, Reliable, Moved, TypeOK, Status, View,
           cliVars
  <2>5. CauseInv'
    BY <1>13, <2>0, ZenonT(40) DEF CauseInv, PlaceInv, Reliable, MarkingOf, NewsComing, Moved, TypeOK, Status, View,
           cliVars
  <2> QED BY <2>1, <2>2, <2>3, <2>4, <2>5
<1>14. ASSUME NEW p \in Pid, DrvOpen(p) PROVE NewsInv'
  <2>1. EntryInv'
    BY <1>14 DEF EntryInv, CreatingOf, TypeOK, Status, View,
           DrvOpen, At, Goto, cliVars, drvVars, jobVars, sigVars, ioVars
  <2>2. FreshInv'
    BY <1>14 DEF FreshInv, EntryInv, CreatingOf, TypeOK, Status, View,
           DrvOpen, At, Goto, cliVars, drvVars, jobVars, sigVars, ioVars
  <2>3. PlaceInv'
    BY <1>14 DEF PlaceInv, TypeOK, Status, View,
           DrvOpen, At, Goto, cliVars, drvVars, jobVars, sigVars, ioVars
  <2>4. LastWordInv'
    <3>1. ~ Mentions(toCli, p)
      BY <1>14 DEF DrvOpen, At, FreshInv
    <3>2. EndsWithReport(toCli, p)
      BY <3>1, Silent DEF TypeOK
    <3>3. /\ \A q \in Pid \ {p} : pc'[q] = pc[q] /\ flags'[q] = flags[q]
          /\ UNCHANGED <<status, toCli>>
      BY <1>14 DEF DrvOpen, Goto, TypeOK, jobVars, ioVars
    <3> QED BY <3>2, <3>3 DEF LastWordInv, Reliable
  <2>5. CauseInv'
    <3>1. view[p].status = "FREE" /\ ~ MarkingOf(p)
      BY <1>14 DEF DrvOpen, At, FreshInv, EntryInv, CreatingOf, MarkingOf
    <3>2. /\ \A q \in Pid \ {p} : pc'[q] = pc[q] /\ flags'[q] = flags[q]
          /\ UNCHANGED <<status, toCli, toDriver, cliPc, cur, view, listed>>
      BY <1>14 DEF DrvOpen, Goto, TypeOK, jobVars, ioVars, cliVars
    <3>3. listed \subseteq Pid
      BY DEF TypeOK
    <3> QED BY <3>1, <3>2, <3>3 DEF CauseInv, Reliable, MarkingOf, NewsComing
  <2> QED BY <2>1, <2>2, <2>3, <2>4, <2>5
<1>15. ASSUME NEW p \in Pid, DrvFail(p) PROVE NewsInv'
  BY <1>15 DEF TypeOK, Status, View, EntryInv, FreshInv, PlaceInv, LastWordInv, CauseInv, CreatingOf, MarkingOf, Reliable, NewsComing,
         DrvFail, Quit, At, Goto, cliVars, drvVars, jobVars, sigVars, ioVars
<1>16. ASSUME NEW p \in Pid, DrvOpenCli(p) PROVE NewsInv'
  <2>1. EntryInv'
    BY <1>16 DEF EntryInv, CreatingOf, TypeOK, Status, View,
           DrvOpenCli, At, Goto, Quit, cliVars, drvVars, jobVars, sigVars, ioVars
  <2>2. FreshInv'
    BY <1>16 DEF FreshInv, EntryInv, CreatingOf, TypeOK, Status, View,
           DrvOpenCli, At, Goto, Quit, cliVars, drvVars, jobVars, sigVars, ioVars
  <2>3. PlaceInv'
    BY <1>16 DEF PlaceInv, TypeOK, Status, View,
           DrvOpenCli, At, Goto, Quit, cliVars, drvVars, jobVars, sigVars, ioVars
  <2>4. LastWordInv'
    <3>1. ~ Mentions(toCli, p)
      BY <1>16 DEF DrvOpenCli, At, FreshInv
    <3>2. EndsWithReport(toCli, p)
      BY <3>1, Silent DEF TypeOK
    <3> QED BY <1>16, <3>2 DEF LastWordInv, Reliable, TypeOK, DrvOpenCli, At, Goto, Quit,
                               cliVars, jobVars, sigVars
  <2>5. CauseInv'
    <3>1. /\ \A q \in Pid \ {p} : pc'[q] = pc[q]
          /\ pc[p] = "openCli" /\ pc'[p] \in {"loop", "dead"}
          /\ UNCHANGED <<status, flags, toCli, toDriver, cliPc, cur, view, listed>>
      BY <1>16 DEF DrvOpenCli, At, Goto, Quit, TypeOK, jobVars, sigVars, cliVars
    <3>2. listed \subseteq Pid
      BY DEF TypeOK
    <3> QED BY <3>1, <3>2 DEF CauseInv, Reliable, MarkingOf, NewsComing
  <2> QED BY <2>1, <2>2, <2>3, <2>4, <2>5
<1>17. ASSUME NEW p \in Pid, DrvQuit(p) PROVE NewsInv'
  BY <1>17 DEF TypeOK, Status, View, EntryInv, FreshInv, PlaceInv, LastWordInv, CauseInv, CreatingOf, MarkingOf, Reliable, NewsComing,
         DrvQuit, Quit, At, Goto, cliVars, drvVars, jobVars, sigVars, ioVars
<1>18. ASSUME NEW p \in Pid, DrvListen(p) PROVE NewsInv'
  BY <1>18, SMTT(20) DEF TypeOK, Status, View, EntryInv, FreshInv, PlaceInv, LastWordInv, CauseInv, CreatingOf, MarkingOf, Reliable, NewsComing,
         DrvListen, Listens, At, Goto, cliVars, drvVars, jobVars, sigVars, ioVars
<1>19. ASSUME NEW p \in Pid, DrvFinish(p) PROVE NewsInv'
  BY <1>19 DEF TypeOK, Status, View, EntryInv, FreshInv, PlaceInv, LastWordInv, CauseInv, CreatingOf, MarkingOf, Reliable, NewsComing,
         DrvFinish, Listens, At, Goto, cliVars, drvVars, jobVars, sigVars, ioVars
<1>20. ASSUME NEW p \in Pid, DrvNap(p) PROVE NewsInv'
  BY <1>20, SMTT(20) DEF TypeOK, Status, View, EntryInv, FreshInv, PlaceInv, LastWordInv, CauseInv, CreatingOf, MarkingOf, Reliable, NewsComing,
         DrvNap, Listens, At, Goto, cliVars, drvVars, jobVars, sigVars, ioVars
<1>21. ASSUME NEW p \in Pid, DrvWake(p) PROVE NewsInv'
  BY <1>21, SMTT(20) DEF TypeOK, Status, View, EntryInv, FreshInv, PlaceInv, LastWordInv, CauseInv, CreatingOf, MarkingOf, Reliable, NewsComing,
         DrvWake, At, Goto, cliVars, drvVars, jobVars, sigVars, ioVars
<1>22. ASSUME NEW p \in Pid, DrvAccept(p) PROVE NewsInv'
  BY <1>22, SMTT(20) DEF TypeOK, Status, View, EntryInv, FreshInv, PlaceInv, LastWordInv, CauseInv, CreatingOf, MarkingOf, Reliable, NewsComing,
         DrvAccept, Take, At, Goto, cliVars, drvVars, jobVars, sigVars, ioVars
<1>23. ASSUME NEW p \in Pid, DrvRefuse(p) PROVE NewsInv'
  <2>1. EntryInv'
    BY <1>23 DEF EntryInv, CreatingOf, TypeOK, Status, View,
           DrvRefuse, Take, At, Goto, cliVars, drvVars, jobVars, sigVars, ioVars
  <2>2. FreshInv'
    BY <1>23 DEF FreshInv, EntryInv, CreatingOf, TypeOK, Status, View,
           DrvRefuse, Take, At, Goto, cliVars, drvVars, jobVars, sigVars, ioVars
  <2>3. PlaceInv'
    BY <1>23 DEF PlaceInv, TypeOK, Status, View,
           DrvRefuse, Take, At, Goto, cliVars, drvVars, jobVars, sigVars, ioVars
  <2>4. LastWordInv'
    BY <1>23 DEF LastWordInv, PlaceInv, FreshInv, EntryInv, Reliable, TypeOK, Status, View,
           DrvRefuse, Take, At, Goto, cliVars, drvVars, jobVars, sigVars, ioVars
  <2>5. CauseInv'
    BY <1>23 DEF CauseInv, PlaceInv, LastWordInv, FreshInv, EntryInv, Reliable, MarkingOf, NewsComing, CreatingOf, TypeOK, Status, View,
           DrvRefuse, Take, At, Goto, cliVars, drvVars, jobVars, sigVars, ioVars
  <2> QED BY <2>1, <2>2, <2>3, <2>4, <2>5
<1>24. ASSUME NEW p \in Pid, DrvReadNothing(p) PROVE NewsInv'
  BY <1>24 DEF TypeOK, Status, View, EntryInv, FreshInv, PlaceInv, LastWordInv, CauseInv, CreatingOf, MarkingOf, Reliable, NewsComing,
         DrvReadNothing, At, Goto, cliVars, drvVars, jobVars, sigVars, ioVars
<1>25. ASSUME NEW p \in Pid, DrvReject(p) PROVE NewsInv'
  <2>0. /\ pc[p] = "reject" /\ status[p] = "BUSY"
        /\ \A q \in Pid \ {p} : pc'[q] = pc[q]
        /\ UNCHANGED <<status, flags, toDriver, cliPc, cur, listed, view>>
    BY <1>25 DEF DrvReject, At, PlaceInv, WriteCli, Goto, TypeOK, cliVars, sigVars
  <2>a. CASE CliReads
    <3> DEFINE m == Refusal(p, timer[p])
    <3>1. /\ m \in Msg /\ m.pid = p /\ m.msg_type = "TASK_FAIL"
          /\ toCli' = Append(toCli, m) /\ pc'[p] = "loop"
      BY <1>25, <2>a DEF DrvReject, WriteCli, Goto, Refusal, Msg, TypeOK, Status
    <3> HIDE DEF m
    <3>2. \A q \in Pid : /\ Mentions(toCli', q) => Mentions(toCli, q) \/ q = p
                         /\ Reports(toCli, q) => Reports(toCli', q)
                         /\ q # p /\ EndsWithReport(toCli, q) => EndsWithReport(toCli', q)
      BY <3>1, AppendMsg DEF TypeOK
    <3>3. EntryInv'
      BY <2>0, <3>1, ZenonT(40) DEF EntryInv, CreatingOf, TypeOK
    <3>4. FreshInv'
      BY <2>0, <3>1, <3>2 DEF FreshInv
    <3>5. PlaceInv'
      <4>1. /\ Len(toCli') = Len(toCli) + 1 /\ Len(toCli) \in Nat
            /\ \A k \in 1 .. Len(toCli) : toCli'[k] = toCli[k]
            /\ toCli'[Len(toCli) + 1] = m
        BY <3>1, AppendProperties, LenProperties DEF TypeOK
      <4>2. \A k \in 1 .. Len(toCli') : k \in 1 .. Len(toCli) \/ k = Len(toCli) + 1
        BY <4>1
      <4>3. \A q \in Pid : pc'[q] \in {"reject", "sleep"} => status'[q] = "BUSY"
        BY <2>0, <3>1 DEF PlaceInv
      <4>4. \A k \in 1 .. Len(toCli') : toCli'[k].msg_type = "STATUS" => toCli'[k].status = "FREE"
        BY <3>1, <4>1, <4>2 DEF PlaceInv
      <4> QED BY <4>3, <4>4 DEF PlaceInv
    <3>6. LastWordInv'
      BY <2>0, <3>1, <3>2 DEF LastWordInv, Reliable
    <3>7. CauseInv'
      <4>1. listed \subseteq Pid
        BY DEF TypeOK
      <4> QED BY <2>0, <3>1, <3>2, <4>1 DEF CauseInv, Reliable, NewsComing, MarkingOf
    <3> QED BY <3>3, <3>4, <3>5, <3>6, <3>7
  <2>b. CASE ~ CliReads
    <3>1. toCli' = toCli /\ pc'[p] = "dead"
      <4>1. WriteCli(p, Refusal(p, timer[p]))
        BY <1>25 DEF DrvReject
      <4> QED BY <2>b, <4>1 DEF WriteCli, Goto, TypeOK
    <3>2. listed \subseteq Pid
      BY DEF TypeOK
    <3>3. EntryInv' /\ FreshInv' /\ PlaceInv'
      BY <2>0, <3>1, <3>2 DEF EntryInv, CreatingOf, FreshInv, PlaceInv
    <3>4. LastWordInv' /\ CauseInv'
      BY <2>0, <3>1, <3>2 DEF LastWordInv, CauseInv, Reliable, NewsComing, MarkingOf
    <3> QED BY <3>3, <3>4
  <2> QED BY <2>a, <2>b
<1>26. ASSUME NEW p \in Pid, DrvReport(p) PROVE NewsInv'
  <2>0. /\ pc[p] = "report"
        /\ \A q \in Pid \ {p} : pc'[q] = pc[q]
        /\ UNCHANGED <<status, flags, toDriver, cliPc, cur, listed, view>>
    BY <1>26 DEF DrvReport, At, WriteCli, Goto, TypeOK, cliVars, jobVars, sigVars
  <2>a. CASE CliReads
    <3> DEFINE m == Report(p)
    <3>1. /\ m \in Msg /\ m.pid = p /\ m.msg_type = "STATUS" /\ m.status = "FREE"
          /\ toCli' = Append(toCli, m) /\ pc'[p] = "loop"
      BY <1>26, <2>a DEF DrvReport, WriteCli, Goto, Report, Msg, TypeOK, Status
    <3> HIDE DEF m
    <3>2. \A q \in Pid : /\ Mentions(toCli', q) => Mentions(toCli, q) \/ q = p
                         /\ Reports(toCli, q) => Reports(toCli', q)
                         /\ EndsWithReport(toCli, q) => EndsWithReport(toCli', q)
      BY <3>1, AppendMsg DEF TypeOK
    <3>3. Reports(toCli', p) /\ EndsWithReport(toCli', p)
      BY <3>1, AppendMsg DEF TypeOK
    <3>4. EntryInv'
      BY <2>0, <3>1, ZenonT(40) DEF EntryInv, CreatingOf, TypeOK
    <3>5. FreshInv'
      BY <2>0, <3>1, <3>2 DEF FreshInv
    <3>6. PlaceInv'
      <4>1. /\ Len(toCli') = Len(toCli) + 1 /\ Len(toCli) \in Nat
            /\ \A k \in 1 .. Len(toCli) : toCli'[k] = toCli[k]
            /\ toCli'[Len(toCli) + 1] = m
        BY <3>1, AppendProperties, LenProperties DEF TypeOK
      <4>2. \A k \in 1 .. Len(toCli') : k \in 1 .. Len(toCli) \/ k = Len(toCli) + 1
        BY <4>1
      <4>3. \A q \in Pid : pc'[q] \in {"reject", "sleep"} => status'[q] = "BUSY"
        BY <2>0, <3>1 DEF PlaceInv
      <4>4. \A k \in 1 .. Len(toCli') : toCli'[k].msg_type = "STATUS" => toCli'[k].status = "FREE"
        BY <3>1, <4>1, <4>2 DEF PlaceInv
      <4> QED BY <4>3, <4>4 DEF PlaceInv
    <3>7. LastWordInv'
      BY <2>0, <3>1, <3>2, <3>3 DEF LastWordInv, Reliable
    <3>8. CauseInv'
      <4>1. listed \subseteq Pid
        BY DEF TypeOK
      <4> QED BY <2>0, <3>1, <3>2, <3>3, <4>1 DEF CauseInv, Reliable, NewsComing, MarkingOf
    <3> QED BY <3>4, <3>5, <3>6, <3>7, <3>8
  <2>b. CASE ~ CliReads
    <3>1. toCli' = toCli /\ pc'[p] = "dead"
      <4>1. WriteCli(p, Report(p))
        BY <1>26 DEF DrvReport
      <4> QED BY <2>b, <4>1 DEF WriteCli, Goto, TypeOK
    <3>2. listed \subseteq Pid
      BY DEF TypeOK
    <3>3. EntryInv' /\ FreshInv' /\ PlaceInv'
      BY <2>0, <3>1, <3>2 DEF EntryInv, CreatingOf, FreshInv, PlaceInv
    <3>4. LastWordInv' /\ CauseInv'
      BY <2>0, <3>1, <3>2 DEF LastWordInv, CauseInv, Reliable, NewsComing, MarkingOf
    <3> QED BY <3>3, <3>4
  <2> QED BY <2>a, <2>b
<1>27. ASSUME NEW p \in Pid, DrvExecFails(p) PROVE NewsInv'
  BY <1>27 DEF TypeOK, Status, View, EntryInv, FreshInv, PlaceInv, LastWordInv, CauseInv, CreatingOf, MarkingOf, Reliable, NewsComing,
         DrvExecFails, At, Goto, cliVars, drvVars, jobVars, sigVars, ioVars
<1>28. ASSUME NEW p \in Pid, DrvCrash(p) PROVE NewsInv'
  BY <1>28 DEF TypeOK, Status, View, EntryInv, FreshInv, PlaceInv, LastWordInv, CauseInv, CreatingOf, MarkingOf, Reliable, NewsComing,
         DrvCrash, At, Goto, cliVars, drvVars, jobVars, sigVars, ioVars
<1>29. ASSUME NEW p \in Pid, CliFork(p) PROVE NewsInv'
  BY <1>29 DEF TypeOK, Status, View, EntryInv, FreshInv, PlaceInv, LastWordInv, CauseInv, CreatingOf, MarkingOf, Reliable, NewsComing,
         CliFork, Command, Idle, cliVars, drvVars, jobVars, sigVars, ioVars
<1>30. ASSUME NEW p \in Pid, NEW t \in Timer, CliSend(p, t) PROVE NewsInv'
  BY <1>30 DEF TypeOK, Status, View, EntryInv, FreshInv, PlaceInv, LastWordInv, CauseInv, CreatingOf, MarkingOf, Reliable, NewsComing,
         CliSend, Command, cliVars, drvVars, jobVars, sigVars, ioVars
<1>31. CASE UNCHANGED vars
  BY <1>31 DEF EntryInv, FreshInv, PlaceInv, LastWordInv, CauseInv, CreatingOf, MarkingOf, Reliable, NewsComing, vars, cliVars, drvVars, jobVars, sigVars, ioVars
<1> QED
  BY <1>1, <1>2, <1>3, <1>4, <1>5, <1>6, <1>7, <1>8, <1>9, <1>10, <1>11, <1>12, <1>13, <1>14, <1>15, <1>16, <1>17, <1>18, <1>19, <1>20, <1>21, <1>22, <1>23, <1>24, <1>25, <1>26, <1>27, <1>28, <1>29, <1>30, <1>31 DEF Next, Cli, Driver

\* The initial state satisfies the inductive invariant.
LEMMA InitIInv == Init => IInv
<1> SUFFICES ASSUME Init PROVE IInv
  OBVIOUS
<1>1. TypeOK
  <2>1. cur \in [pid : Pid, task_timer : Nat]
    BY DEF Init
  <2>2. <<>> \in Seq(Msg) /\ <<>> \in Seq(Nat)
    BY EmptySeq
  <2>3. cliFlags \in FlagSet
    BY FlagAssumption DEF Init, FlagSet
  <2>4. view \in [Pid -> View]
    BY DEF Init, View, Status, Idle
  <2> QED BY <2>1, <2>2, <2>3, <2>4 DEF Init, TypeOK, CliPcs, DrvPcs, Status, FlagSet
<1>2. \A p \in Pid : ~ Mentions(toCli, p)
  BY DEF Init, Mentions
<1>3. EntryInv /\ FreshInv /\ PlaceInv /\ LastWordInv /\ CauseInv
  BY <1>2 DEF Init, EntryInv, FreshInv, PlaceInv, LastWordInv, CauseInv, Reliable, Idle
<1> QED BY <1>1, <1>3 DEF IInv

\* taxi_cli.c and driver.c keep every variable in its type, whatever the pids,
\* timers, FIFO capacity, sa_flags and faults.
THEOREM TypeCorrect == Spec => []TypeOK
<1>1. Init => TypeOK
  BY InitIInv DEF IInv
<1> QED BY <1>1, TypeStep, PTL DEF Spec

\* The inductive invariant holds throughout.
THEOREM Inductive == Spec => []IInv
<1>1. IInv /\ [Next]_vars => IInv'
  BY TypeStep, NewsStep DEF IInv, NewsInv
<1> QED BY <1>1, InitIInv, PTL DEF Spec

\* A driver shown Busy by get_status while it is free has a task or a report
\* under way, for any number of drivers and tasks: the display of taxi_cli is
\* never stuck at Busy by the order in which the two programs run.
THEOREM BusyHasCause == Spec => []ViewBusyHasCause
<1>1. IInv => ViewBusyHasCause
  BY DEF IInv, CauseInv, ViewBusyHasCause
<1> QED BY <1>1, Inductive, PTL

-----------------------------------------------------------------------------
(* TaskRunsDown. *)

\* A driver's task goes on, or has run out.
RunsDown(p) ==
    status[p] = "BUSY" =>
        \/ status'[p] = "BUSY" /\ timer'[p] = timer[p] /\ left'[p] <= left[p]
        \/ status'[p] = "FREE" /\ left[p] = 0

\* A signal leaves the task alone but for the seconds that sleep() reports.
LEMMA SparesTask ==
    ASSUME TypeOK, NEW p \in Pid, CallSpared(p) \/ CallCut(p) \/ left' = left
    PROVE  \A q \in Pid : left'[q] <= left[q]
<1>1. \A q \in Pid : left[q] \in Nat
  BY DEF TypeOK
<1>2. CASE left' = left
  BY <1>1, <1>2
<1>3. ASSUME NEW l \in 0 .. (left[p] - 1), left' = [left EXCEPT ![p] = l]
      PROVE  \A q \in Pid : left'[q] <= left[q]
  BY <1>1, <1>3 DEF TypeOK
<1> QED BY <1>2, <1>3 DEF CallSpared, CallCut, Unslept

\* A busy driver only ever drops its task by running its timer down (driver.c: the main
\* loop and get_tasks), whatever is sent to it and whatever signals it.
THEOREM TaskGoesOn == Spec => TaskRunsDown
<1>1. ASSUME TypeOK, [Next]_vars PROVE \A p \in Pid : RunsDown(p)
  <2>1. \A p \in Pid : left[p] \in Nat
    BY <1>1 DEF TypeOK
  <2>2. CASE UNCHANGED <<status, timer, left>>
    BY <2>1, <2>2 DEF RunsDown, Status
  <2>3. CASE UNCHANGED <<status, timer>> /\ \A p \in Pid : left'[p] <= left[p]
    BY <2>3 DEF RunsDown
  <2>4. CASE CliMark
    <3>1. UNCHANGED <<status, timer>> /\ Usr1(cur.pid) /\ cur.pid \in Pid
      BY <1>1, <2>4 DEF CliMark, TypeOK
    <3> QED BY <1>1, <2>3, <3>1, SparesTask DEF Usr1
  <2>5. ASSUME NEW p \in Pid, DrvInt(p) PROVE \A q \in Pid : RunsDown(q)
    BY <1>1, <2>3, <2>5, SparesTask DEF DrvInt
  <2>6. ASSUME NEW p \in Pid, DrvFinish(p) PROVE \A q \in Pid : RunsDown(q)
    BY <1>1, <2>1, <2>6 DEF DrvFinish, RunsDown, TypeOK
  <2>7. ASSUME NEW p \in Pid, DrvWake(p) PROVE \A q \in Pid : RunsDown(q)
    BY <1>1, <2>1, <2>3, <2>7 DEF DrvWake, TypeOK
  <2>8. ASSUME NEW p \in Pid, DrvAccept(p) PROVE \A q \in Pid : RunsDown(q)
    BY <1>1, <2>1, <2>8 DEF DrvAccept, RunsDown, TypeOK
  <2> QED
    BY <1>1, <2>2, <2>4, <2>5, <2>6, <2>7, <2>8
    DEF Next, Cli, Driver, CliPoll, CliQuery, CliMkfifo, CliOpen, CliOpenFails, CliWrite,
        CliBrokenPipe, CliMsg, CliLeave, CliExit, CliFork, CliSend, DrvOpen, DrvFail,
        DrvOpenCli, DrvQuit, DrvListen, DrvNap, DrvRefuse, DrvReadNothing, DrvReject,
        DrvReport, DrvExecFails, DrvCrash, Interrupt, vars, drvVars, jobVars
<1>2. TypeOK /\ [Next]_vars => [\A p \in Pid : status[p] = "BUSY" =>
          \/ status'[p] = "BUSY" /\ timer'[p] = timer[p] /\ left'[p] <= left[p]
          \/ status'[p] = "FREE" /\ left[p] = 0]_vars
  BY <1>1 DEF RunsDown
<1> QED BY <1>2, TypeCorrect, PTL DEF Spec, TaskRunsDown

-----------------------------------------------------------------------------
(* The taxi programs keep what Dispatch promises. *)

\* The timer of a command in progress is one that was typed.
TypedInv == cliPc = "send" => cur.task_timer \in Timer

\* A step with its meaning for the tasks: one step of the board, or none.
LEMMA BoardStep ==
    ASSUME TypeOK, TypeOK', TypedInv, [Next]_vars
    PROVE  [Board!Next]_(Board!vars)
<1> DEFINE up == {p \in Pid : Alive(p)}
           job == [p \in Pid |-> Job(p)]
\* Drivers that stay, and the end of one.
<1>a. ASSUME UNCHANGED <<toDriver, status, timer>>, \A p \in Pid : Alive(p)' <=> Alive(p)
      PROVE  [Board!Next]_(Board!vars)
  <2>1. up' = up /\ job' = job
    BY <1>a DEF Job
  <2> QED BY <1>a, <2>1 DEF Board!vars
<1>b. ASSUME UNCHANGED <<toDriver, status, timer>>, NEW p \in Pid,
             \A q \in Pid \ {p} : pc'[q] = pc[q],
             \/ pc'[p] = "dead"
             \/ pc'[p] = pc[p]
             \/ pc[p] \notin {"none", "dead"} /\ pc'[p] \notin {"none", "dead"}
      PROVE  [Board!Next]_(Board!vars)
  <2>1. CASE pc'[p] = "dead" /\ Alive(p)
    <3>1. p \in up /\ up' = up \ {p} /\ job' = job
      BY <1>b, <2>1 DEF Alive, Job
    <3> QED BY <1>b, <3>1 DEF Board!Next, Board!Leave
  <2>2. CASE ~ (pc'[p] = "dead" /\ Alive(p))
    BY <1>a, <1>b, <2>2 DEF Alive
  <2> QED BY <2>1, <2>2
<1>1. ASSUME NEW p \in Pid, CliFork(p) PROVE [Board!Next]_(Board!vars)
  <2>1. pc[p] = "none" /\ pc' = [pc EXCEPT ![p] = "init"] /\ UNCHANGED <<toDriver, status, timer>>
    BY <1>1 DEF CliFork, jobVars, ioVars
  <2>2. p \notin up /\ up' = up \cup {p} /\ job' = job
    BY <2>1, SMTT(20) DEF Alive, Job, TypeOK
  <2> QED BY <2>1, <2>2 DEF Board!Next, Board!Hire
<1>2. CASE CliWrite
  <2>1. /\ cur.pid \in Pid /\ cur.task_timer \in Timer /\ HasReader(cur.pid)
        /\ toDriver' = [toDriver EXCEPT ![cur.pid] = Append(toDriver[cur.pid], cur.task_timer)]
        /\ UNCHANGED <<pc, status, timer>>
    BY <1>2 DEF CliWrite, TypedInv, TypeOK, drvVars, jobVars
  <2>2. cur.pid \in up /\ up' = up /\ job' = job
    BY <2>1 DEF HasReader, Alive, Job
  <2> QED BY <2>1, <2>2 DEF Board!Next, Board!Submit
<1>3. CASE CliMark
  <2>1. cur.pid \in Pid /\ Usr1(cur.pid) /\ UNCHANGED <<toDriver, status, timer>>
    BY <1>3 DEF CliMark, TypeOK
  <2>2. Moved(cur.pid)
    BY <2>1, Usr1Moves
  <2> QED BY <1>b, <2>1, <2>2 DEF Moved
<1>4. ASSUME NEW p \in Pid, DrvInt(p) PROVE [Board!Next]_(Board!vars)
  <2>1. UNCHANGED <<toDriver, status, timer>>
    BY <1>4 DEF DrvInt
  <2>2. Moved(p)
    BY <1>4, HandlerMoves, ZenonT(40) DEF DrvInt, Moved, TypeOK, DrvPcs
  <2> QED BY <1>b, <2>1, <2>2 DEF Moved
<1>5. ASSUME NEW p \in Pid, DrvAccept(p) PROVE [Board!Next]_(Board!vars)
  <2>1. /\ pc[p] = "read" /\ toDriver[p] # <<>> /\ status[p] = "FREE"
        /\ pc' = [pc EXCEPT ![p] = "loop"] /\ toDriver' = [toDriver EXCEPT ![p] = Tail(toDriver[p])]
        /\ status' = [status EXCEPT ![p] = "BUSY"]
        /\ timer' = [timer EXCEPT ![p] = Head(toDriver[p])]
    BY <1>5 DEF DrvAccept, At, Goto, Take
  <2>2. p \in up /\ up' = up /\ job[p] = {} /\ job' = [job EXCEPT ![p] = {Head(toDriver[p])}]
    BY <2>1 DEF Alive, Job, TypeOK
  <2> QED BY <2>1, <2>2 DEF Board!Next, Board!Start
<1>6. ASSUME NEW p \in Pid, DrvRefuse(p) PROVE [Board!Next]_(Board!vars)
  <2>1. /\ pc[p] = "read" /\ toDriver[p] # <<>> /\ status[p] = "BUSY"
        /\ pc' = [pc EXCEPT ![p] = "reject"] /\ toDriver' = [toDriver EXCEPT ![p] = Tail(toDriver[p])]
        /\ UNCHANGED <<status, timer>>
    BY <1>6 DEF DrvRefuse, At, Goto, Take, jobVars
  <2>2. p \in up /\ up' = up /\ job[p] # {} /\ job' = job
    BY <2>1 DEF Alive, Job, TypeOK
  <2> QED BY <2>1, <2>2 DEF Board!Next, Board!TurnDown
<1>7. ASSUME NEW p \in Pid, DrvFinish(p) PROVE [Board!Next]_(Board!vars)
  <2>1. /\ pc[p] = "loop" /\ status[p] # "FREE" /\ pc' = [pc EXCEPT ![p] = "report"]
        /\ status' = [status EXCEPT ![p] = "FREE"] /\ timer' = [timer EXCEPT ![p] = 0]
        /\ UNCHANGED toDriver
    BY <1>7 DEF DrvFinish, Listens, At, Goto, ioVars
  <2>2. status[p] = "BUSY"
    BY <2>1 DEF TypeOK, Status
  <2>3. p \in up /\ up' = up /\ job[p] # {} /\ job' = [job EXCEPT ![p] = {}]
    BY <2>1, <2>2 DEF Alive, Job, TypeOK
  <2> QED BY <2>1, <2>3 DEF Board!Next, Board!Complete
<1>8. ASSUME NEW p \in Pid,
             \/ DrvOpen(p) \/ DrvFail(p) \/ DrvOpenCli(p) \/ DrvQuit(p) \/ DrvListen(p) \/ DrvNap(p)
             \/ DrvWake(p) \/ DrvReadNothing(p) \/ DrvReject(p) \/ DrvReport(p)
             \/ DrvExecFails(p) \/ DrvCrash(p)
      PROVE  [Board!Next]_(Board!vars)
  <2>1. UNCHANGED <<toDriver, status, timer>>
    BY <1>8 DEF DrvOpen, DrvFail, DrvOpenCli, DrvQuit, DrvListen, DrvNap, DrvWake, DrvReadNothing,
                DrvReject, DrvReport, DrvExecFails, DrvCrash, jobVars, ioVars
  <2>2. /\ \A q \in Pid \ {p} : pc'[q] = pc[q]
        /\ pc'[p] # "none" /\ pc[p] \notin {"none", "dead"}
    BY <1>8 DEF DrvOpen, DrvFail, DrvOpenCli, DrvQuit, DrvListen, DrvNap, DrvWake, DrvReadNothing,
                DrvReject, DrvReport, DrvExecFails, DrvCrash, WriteCli, Quit, At, Goto, Alive, TypeOK
  <2> QED BY <1>b, <2>1, <2>2 DEF Alive
<1>9. CASE UNCHANGED <<toDriver, status, timer, pc>>
  BY <1>a, <1>9 DEF Alive
<1> QED
  BY <1>1, <1>2, <1>3, <1>4, <1>5, <1>6, <1>7, <1>8, <1>9
  DEF Next, Cli, Driver, CliPoll, CliQuery, CliMkfifo, CliOpen, CliOpenFails, CliBrokenPipe,
      CliMsg, CliLeave, CliExit, CliSend, Interrupt, vars, drvVars, jobVars, ioVars

\* Commands that are typed later have timers of Timer, too.
LEMMA TypedStep == TypedInv /\ [Next]_vars => TypedInv'
<1> SUFFICES ASSUME TypedInv, [Next]_vars PROVE TypedInv'
  OBVIOUS
<1>1. ASSUME NEW p \in Pid, NEW t \in Timer, CliSend(p, t) PROVE TypedInv'
  BY <1>1 DEF CliSend, TypedInv
<1>2. CASE cliPc' # "send"
  BY <1>2 DEF TypedInv
<1>3. CASE UNCHANGED <<cliPc, cur>>
  BY <1>3 DEF TypedInv
<1>4. CASE CliPoll \/ CliMkfifo \/ CliWrite \/ CliBrokenPipe \/ CliMsg \/ CliLeave \/ CliExit
  BY <1>2, <1>4 DEF CliPoll, CliMkfifo, CliWrite, CliBrokenPipe, CliMsg, CliLeave, CliExit
<1>5. CASE CliQuery \/ CliOpen \/ CliOpenFails \/ CliMark
  BY <1>2, <1>5 DEF CliQuery, CliOpen, CliOpenFails, CliMark, DropEntry, Resume
<1>6. ASSUME NEW p \in Pid, CliFork(p) PROVE TypedInv'
  BY <1>2, <1>6 DEF CliFork
<1>7. CASE Interrupt
  BY <1>2, <1>3, <1>7 DEF Interrupt, DropEntry, Resume
<1>8. ASSUME NEW p \in Pid, Driver(p) \/ DrvExecFails(p) \/ DrvCrash(p) PROVE TypedInv'
  <2>1. UNCHANGED cliVars
    BY <1>8 DEF Driver, DrvInt, DrvOpen, DrvFail, DrvOpenCli, DrvQuit, DrvListen, DrvFinish, DrvNap,
       DrvWake, DrvAccept, DrvRefuse, DrvReadNothing, DrvReject, DrvReport, DrvExecFails, DrvCrash
  <2> QED BY <1>3, <2>1 DEF cliVars
<1>9. CASE UNCHANGED vars
  BY <1>3, <1>9 DEF vars, cliVars
<1> QED
  BY <1>1, <1>4, <1>5, <1>6, <1>7, <1>8, <1>9 DEF Next, Cli

\* The two programs implement Dispatch: whatever the order of their steps, the signals and the
\* crashes, a driver takes its tasks in order, one at a time, and keeps each to its end.
THEOREM ImplementsDispatch == Spec => BoardSpec
<1>1. Init => Board!Init
  BY DEF Init, Board!Init, Alive, Job
<1>2. Init => TypedInv
  BY DEF Init, TypedInv
<1>3. TypeOK /\ TypeOK' /\ TypedInv /\ [Next]_vars => [Board!Next]_(Board!vars)
  BY BoardStep
<1> QED BY <1>1, <1>2, <1>3, TypedStep, TypeCorrect, PTL DEF Spec, BoardSpec, Board!Spec

-----------------------------------------------------------------------------
(* BusyTimerRight. *)

\* The last message about p says that it is free, or that it runs a task of t.
LastFits(q, p, t) ==
    \A k \in 1 .. Len(q) :
        (q[k].pid = p /\ q[k].msg_type # "STATUS" /\ q[k].task_timer # t)
            => \E j \in (k + 1) .. Len(q) : q[j].pid = p

\* The task sent last, and the entry as it is once the command in progress has marked it.
Newest(p) == toDriver[p][Len(toDriver[p])]
ShownBusy(p) == MarkingOf(p) \/ view[p].status = "BUSY"
ShownTimer(p) == IF MarkingOf(p) THEN cur.task_timer ELSE view[p].task_timer

\* Nothing is sent to a driver before it has opened its FIFO, and it begins free.
Quiet(p) ==
    /\ pc[p] \in {"none", "init", "fail"} => toDriver[p] = <<>>
    /\ pc[p] \in {"none", "init", "fail", "openCli"} => status[p] = "FREE"

\* The command in progress is about the task sent last.
Sent(p) == MarkingOf(p) /\ toDriver[p] # <<>> => Newest(p) = cur.task_timer

\* A busy driver to which nothing is sent, and which has nothing to refuse: its last word, or
\* else the entry, tells its timer.
Running(p) ==
    (Reliable(p) /\ status[p] = "BUSY" /\ toDriver[p] = <<>> /\ pc[p] # "reject") =>
        /\ LastFits(toCli, p, timer[p])
        /\ ShownBusy(p) /\ ~ Mentions(toCli, p) => ShownTimer(p) = timer[p]

\* A free driver that has said nothing new is shown with the task that it was sent last.
Waiting(p) ==
    (/\ Reliable(p) /\ status[p] = "FREE" /\ pc[p] # "report" /\ toDriver[p] # <<>>
     /\ ShownBusy(p) /\ ~ Mentions(toCli, p)) => ShownTimer(p) = Newest(p)

TimerOf(p) == Quiet(p) /\ Sent(p) /\ (p \in listed => Running(p) /\ Waiting(p))
TimerInv == \A p \in Pid : TimerOf(p)

\* What a message at the end of the queue changes, and ...
LEMMA AppendFits ==
    ASSUME NEW q \in Seq(Msg), NEW m \in Msg, NEW p \in Pid, NEW t
    PROVE  /\ Mentions(Append(q, m), p) <=> Mentions(q, p) \/ m.pid = p
           /\ m.pid # p /\ LastFits(q, p, t) => LastFits(Append(q, m), p, t)
           /\ m.pid = p /\ (m.msg_type = "STATUS" \/ m.task_timer = t)
                => LastFits(Append(q, m), p, t)
<1> DEFINE r == Append(q, m)
<1>1. /\ Len(q) \in Nat /\ Len(r) = Len(q) + 1
      /\ \A k \in 1 .. Len(q) : r[k] = q[k]
      /\ r[Len(q) + 1] = m
  BY AppendProperties, LenProperties
<1> HIDE DEF r
<1>2. Mentions(r, p) <=> Mentions(q, p) \/ m.pid = p
  BY <1>1 DEF Mentions
<1>3. ASSUME m.pid # p, LastFits(q, p, t) PROVE LastFits(r, p, t)
  BY <1>1, <1>3 DEF LastFits
<1>4. ASSUME m.pid = p, m.msg_type = "STATUS" \/ m.task_timer = t PROVE LastFits(r, p, t)
  BY <1>1, <1>4 DEF LastFits
<1> QED BY <1>2, <1>3, <1>4 DEF r

\* ... what reading the first one does.
LEMMA TailFits ==
    ASSUME NEW q \in Seq(Msg), q # <<>>, NEW p \in Pid, NEW t
    PROVE  /\ Mentions(q, p) <=> Mentions(Tail(q), p) \/ Head(q).pid = p
           /\ LastFits(q, p, t) => LastFits(Tail(q), p, t)
           /\ LastFits(q, p, t) /\ ~ Mentions(Tail(q), p) /\ Head(q).pid = p
                => Head(q).msg_type = "STATUS" \/ Head(q).task_timer = t
           /\ EndsWithReport(q, p) /\ ~ Mentions(Tail(q), p) /\ Head(q).pid = p
                => Head(q).msg_type = "STATUS"
<1> DEFINE r == Tail(q)
<1>1. /\ Len(q) \in Nat /\ Len(q) > 0 /\ Len(r) = Len(q) - 1
      /\ \A k \in 1 .. Len(r) : r[k] = q[k + 1]
      /\ Head(q) = q[1]
  BY HeadTailProperties, LenProperties, EmptySeq
<1> HIDE DEF r
<1>2. \A k \in 2 .. Len(q) : (k - 1) \in 1 .. Len(r) /\ r[k - 1] = q[k]
  BY <1>1
<1>3. Mentions(q, p) <=> Mentions(r, p) \/ Head(q).pid = p
  <2>1. Mentions(q, p) => Mentions(r, p) \/ Head(q).pid = p
    <3> SUFFICES ASSUME NEW k \in 1 .. Len(q), q[k].pid = p, k # 1 PROVE Mentions(r, p)
      BY <1>1 DEF Mentions
    <3> QED BY <1>1, <1>2 DEF Mentions
  <2>2. Mentions(r, p) => Mentions(q, p)
    BY <1>1 DEF Mentions
  <2>3. Head(q).pid = p => Mentions(q, p)
    BY <1>1 DEF Mentions
  <2> QED BY <2>1, <2>2, <2>3
<1>4. ASSUME LastFits(q, p, t) PROVE LastFits(r, p, t)
  <2> SUFFICES ASSUME NEW k \in 1 .. Len(r), r[k].pid = p, r[k].msg_type # "STATUS", r[k].task_timer # t
               PROVE  \E j \in (k + 1) .. Len(r) : r[j].pid = p
    BY DEF LastFits
  <2>1. k + 1 \in 1 .. Len(q) /\ q[k + 1] = r[k]
    BY <1>1
  <2>2. PICK j \in (k + 1 + 1) .. Len(q) : q[j].pid = p
    BY <1>4, <2>1 DEF LastFits
  <2>3. j - 1 \in (k + 1) .. Len(r) /\ r[j - 1] = q[j]
    BY <1>1, <1>2, <2>2
  <2> QED BY <2>2, <2>3
<1>5. ASSUME ~ Mentions(r, p) PROVE \A j \in 2 .. Len(q) : q[j].pid # p
  BY <1>2, <1>5 DEF Mentions
<1>6. ASSUME LastFits(q, p, t), ~ Mentions(r, p), Head(q).pid = p
      PROVE  Head(q).msg_type = "STATUS" \/ Head(q).task_timer = t
  BY <1>1, <1>5, <1>6 DEF LastFits
<1>7. ASSUME EndsWithReport(q, p), ~ Mentions(r, p), Head(q).pid = p
      PROVE  Head(q).msg_type = "STATUS"
  BY <1>1, <1>5, <1>7 DEF EndsWithReport
<1> QED BY <1>3, <1>4, <1>6, <1>7 DEF r

LEMMA ReportFits ==
    ASSUME NEW q \in Seq(Msg), NEW p \in Pid, NEW t, EndsWithReport(q, p)
    PROVE  LastFits(q, p, t)
BY DEF EndsWithReport, LastFits

\* Steps that leave the tasks and the entry of p alone, and all that is said of it.
LEMMA TimerKept ==
    ASSUME NEW p \in Pid, TimerOf(p),
           toDriver'[p] = toDriver[p], status'[p] = status[p], timer'[p] = timer[p],
           view'[p] = view[p], p \in listed' => p \in listed,
           "RESTART" \in flags'[p] => "RESTART" \in flags[p],
           \/ pc'[p] = pc[p] \/ pc'[p] = "dead"
           \/ /\ pc[p] \notin {"reject", "report", "dead"} \/ "RESTART" \notin flags'[p]
              /\ pc'[p] \notin {"none", "init", "fail", "openCli"},
           MarkingOf(p)' <=> MarkingOf(p), MarkingOf(p) => cur'.task_timer = cur.task_timer,
           Mentions(toCli', p) <=> Mentions(toCli, p),
           LastFits(toCli, p, timer[p]) => LastFits(toCli', p, timer[p])
    PROVE  TimerOf(p)'
<1>1. Quiet(p)'
  BY DEF TimerOf, Quiet
<1>2. Sent(p)'
  BY DEF TimerOf, Sent, Newest
<1>3. Reliable(p)' => Reliable(p)
  BY DEF Reliable
<1>4. /\ ShownBusy(p)' <=> ShownBusy(p)
      /\ ShownTimer(p)' = ShownTimer(p)
  BY DEF ShownBusy, ShownTimer
<1>5. ASSUME p \in listed' PROVE Running(p)' /\ Waiting(p)'
  <2>1. Running(p)'
    BY <1>3, <1>4, <1>5 DEF TimerOf, Running, Reliable
  <2>2. Waiting(p)'
    BY <1>3, <1>4, <1>5 DEF TimerOf, Waiting, Newest, Reliable
  <2> QED BY <2>1, <2>2
<1> QED BY <1>1, <1>2, <1>5 DEF TimerOf

LEMMA TailLast ==
    ASSUME NEW s \in Seq(Nat), s # <<>>
    PROVE  /\ Tail(s) \in Seq(Nat)
           /\ Tail(s) # <<>> => Tail(s)[Len(Tail(s))] = s[Len(s)]
           /\ Tail(s) = <<>> => Head(s) = s[Len(s)]
<1> DEFINE r == Tail(s)
<1>1. /\ Len(s) \in Nat /\ Len(s) > 0 /\ r \in Seq(Nat) /\ Len(r) = Len(s) - 1
      /\ \A k \in 1 .. Len(r) : r[k] = s[k + 1]
      /\ Head(s) = s[1]
  BY HeadTailProperties, LenProperties, EmptySeq
<1>2. r = <<>> <=> Len(r) = 0
  BY <1>1, EmptySeq
<1> HIDE DEF r
<1>3. ASSUME r # <<>> PROVE r[Len(r)] = s[Len(s)]
  <2>1. Len(r) \in 1 .. Len(r) /\ Len(r) + 1 = Len(s)
    BY <1>1, <1>2, <1>3
  <2> QED BY <1>1, <2>1
<1>4. ASSUME r = <<>> PROVE Head(s) = s[Len(s)]
  <2>1. Len(s) = 1
    BY <1>1, <1>2, <1>4
  <2> QED BY <1>1, <2>1
<1> QED BY <1>1, <1>3, <1>4 DEF r

\* Every step keeps the inductive invariant behind BusyTimerRight.
LEMMA TimerStep == TypeOK /\ TypeOK' /\ NewsInv /\ TimerInv /\ [Next]_vars => TimerInv'
<1> SUFFICES ASSUME TypeOK, TypeOK', NewsInv, TimerInv, [Next]_vars PROVE TimerInv'
  OBVIOUS
<1> USE DEF TimerInv
\* Steps of the CLI that are not about tasks.
<1>a. ASSUME UNCHANGED <<toDriver, toCli, view, pc, status, timer, flags>>, listed' \subseteq listed,
             (cliPc # "mark" /\ cliPc' # "mark") \/ UNCHANGED <<cliPc, cur>>
      PROVE  TimerInv'
  <2>1. \A p \in Pid : (MarkingOf(p)' <=> MarkingOf(p)) /\ (MarkingOf(p) => cur'.task_timer = cur.task_timer)
    BY <1>a DEF MarkingOf
  <2> QED BY <1>a, <2>1, TimerKept
\* Steps of a driver that are not, and the other drivers in any step.
<1>b. ASSUME NEW p \in Pid, UNCHANGED <<cliPc, cur, listed, view, toCli>>,
             toDriver'[p] = toDriver[p], status'[p] = status[p], timer'[p] = timer[p],
             flags'[p] = flags[p],
             \/ pc'[p] = pc[p] \/ pc'[p] = "dead"
             \/ /\ pc[p] \notin {"reject", "report", "dead"} \/ "RESTART" \notin flags'[p]
                /\ pc'[p] \notin {"none", "init", "fail", "openCli"}
      PROVE  TimerOf(p)'
  <2>1. (MarkingOf(p)' <=> MarkingOf(p)) /\ (MarkingOf(p) => cur'.task_timer = cur.task_timer)
    BY <1>b DEF MarkingOf
  <2> QED BY <1>b, <2>1, TimerKept
<1>1. CASE CliPoll \/ CliQuery \/ CliMkfifo \/ CliOpen \/ CliOpenFails \/ CliBrokenPipe \/ CliLeave \/ CliExit
  <2>1. UNCHANGED <<toDriver, toCli, view, pc, status, timer, flags>>
    BY <1>1 DEF CliPoll, CliQuery, CliMkfifo, CliOpen, CliOpenFails, CliBrokenPipe, CliLeave, CliExit,
                cliVars, drvVars, jobVars, sigVars, ioVars
  <2>2. listed' \subseteq listed
    BY <1>1 DEF CliPoll, CliQuery, CliMkfifo, CliOpen, CliOpenFails, DropEntry, CliBrokenPipe, CliLeave, CliExit
  <2>3. cliPc # "mark" /\ cliPc' # "mark"
    BY <1>1 DEF CliPoll, CliQuery, Command, CliMkfifo, CliOpen, CliOpenFails, DropEntry, CliBrokenPipe,
                CliLeave, CliExit, Resume
  <2> QED BY <1>a, <2>1, <2>2, <2>3
<1>2. CASE Interrupt
  <2>1. UNCHANGED <<toDriver, toCli, view, pc, status, timer, flags>>
    BY <1>2 DEF Interrupt, jobVars, ioVars
  <2>2. listed' \subseteq listed
    BY <1>2 DEF Interrupt, DropEntry
  <2>3. (cliPc # "mark" /\ cliPc' # "mark") \/ UNCHANGED <<cliPc, cur>>
    BY <1>2 DEF Interrupt, DropEntry, CliBlocked, Resume
  <2> QED BY <1>a, <2>1, <2>2, <2>3
<1>3. ASSUME NEW p \in Pid, NEW t \in Timer, CliSend(p, t) PROVE TimerInv'
  BY <1>a, <1>3 DEF CliSend, Command, drvVars, jobVars, sigVars, ioVars
<1>4. ASSUME NEW p \in Pid, CliFork(p) PROVE TimerInv'
  <2>1. /\ pc[p] = "none" /\ pc' = [pc EXCEPT ![p] = "init"] /\ view' = [view EXCEPT ![p] = Idle]
        /\ listed' = listed \cup {p} /\ cliPc = "work" /\ cliPc' = "mkfifo"
        /\ UNCHANGED <<toDriver, toCli, status, timer, flags>>
    BY <1>4 DEF CliFork, Command, jobVars, sigVars, ioVars
  <2>2. \A q \in Pid : ~ MarkingOf(q) /\ ~ MarkingOf(q)'
    BY <2>1 DEF MarkingOf
  <2>3. ASSUME NEW q \in Pid \ {p} PROVE TimerOf(q)'
    <3>1. pc'[q] = pc[q] /\ view'[q] = view[q] /\ (q \in listed' => q \in listed)
      BY <2>1 DEF TypeOK
    <3> QED BY <2>1, <2>2, <3>1, TimerKept
  <2>4. toDriver[p] = <<>> /\ status[p] = "FREE"
    BY <2>1 DEF TimerOf, Quiet
  <2>5. TimerOf(p)'
    BY <2>1, <2>4 DEF TimerOf, Quiet, Sent, Running, Waiting
  <2> QED BY <2>3, <2>5
<1>5. CASE CliWrite
  <2>1. PICK p \in Pid : cur.pid = p
    BY DEF TypeOK
  <2>2. PICK t \in Nat : cur.task_timer = t
    BY DEF TypeOK
  <2>3. /\ cliPc = "send" /\ cliPc' = "mark" /\ HasReader(p)
        /\ toDriver' = [toDriver EXCEPT ![p] = Append(toDriver[p], t)]
        /\ UNCHANGED <<cur, view, listed, toCli, pc, status, timer, flags>>
    BY <1>5, <2>1, <2>2 DEF CliWrite, drvVars, jobVars, sigVars
  <2>4. ASSUME NEW q \in Pid \ {p} PROVE TimerOf(q)'
    <3>1. toDriver'[q] = toDriver[q] /\ ~ MarkingOf(q) /\ ~ MarkingOf(q)'
      BY <2>1, <2>3 DEF TypeOK, MarkingOf
    <3> QED BY <2>3, <3>1, TimerKept
  <2>5. /\ toDriver'[p] # <<>> /\ Newest(p)' = t
    <3>1. toDriver[p] \in Seq(Nat) /\ toDriver'[p] = Append(toDriver[p], t)
      BY <2>3 DEF TypeOK
    <3>2. /\ Len(toDriver'[p]) = Len(toDriver[p]) + 1 /\ Len(toDriver[p]) \in Nat
          /\ toDriver'[p][Len(toDriver[p]) + 1] = t
      BY <3>1, AppendProperties, LenProperties
    <3> QED BY <3>2, EmptySeq DEF Newest
  <2>6. MarkingOf(p)' /\ cur'.task_timer = t
    BY <2>1, <2>2, <2>3 DEF MarkingOf
  <2>7. Quiet(p)'
    BY <2>3 DEF HasReader, TimerOf, Quiet
  <2>8. Sent(p)' /\ Running(p)' /\ Waiting(p)'
    BY <2>5, <2>6 DEF Sent, Running, Waiting, ShownTimer
  <2> QED BY <2>4, <2>7, <2>8 DEF TimerOf
<1>6. CASE CliMark
  <2>1. PICK p \in Pid : cur.pid = p
    BY DEF TypeOK
  <2>2. PICK t \in Nat : cur.task_timer = t
    BY DEF TypeOK
  <2>3. /\ cliPc = "mark" /\ cliPc' # "mark" /\ Usr1(p) /\ view' = [view EXCEPT ![p] = Busy(t)]
        /\ UNCHANGED <<cur, listed, toDriver, toCli, status, timer>>
    BY <1>6, <2>1, <2>2 DEF CliMark, Resume
  <2>4. Moved(p) /\ \A q \in Pid : "RESTART" \in flags'[q] <=> "RESTART" \in flags[q]
    BY <2>3, Usr1Moves
  <2>5. ASSUME NEW q \in Pid \ {p} PROVE TimerOf(q)'
    <3>1. view'[q] = view[q] /\ ~ MarkingOf(q) /\ ~ MarkingOf(q)' /\ pc'[q] = pc[q]
      BY <2>1, <2>3, <2>4 DEF TypeOK, MarkingOf, Moved
    <3> QED BY <2>3, <2>4, <3>1, TimerKept
  <2>6. /\ ShownBusy(p) /\ ShownTimer(p) = t /\ ShownTimer(p)' = t
    BY <2>1, <2>2, <2>3 DEF ShownBusy, ShownTimer, MarkingOf, Busy, TypeOK
  <2>7. /\ Reliable(p)' => /\ Reliable(p)
                           /\ pc[p] = "reject" => pc'[p] = "reject"
                           /\ pc[p] = "report" => pc'[p] = "report"
        /\ pc'[p] \in {"none", "init", "fail", "openCli"} => pc'[p] = pc[p]
    BY <2>4 DEF Moved, Reliable
  <2>8. Quiet(p)'
    BY <2>3, <2>7 DEF TimerOf, Quiet
  <2>9. Sent(p)' /\ (p \in listed' => Running(p)')
    BY <2>3, <2>6, <2>7 DEF TimerOf, Sent, Running, MarkingOf
  <2>10. p \in listed' => Waiting(p)'
    <3>1. toDriver[p] # <<>> => Newest(p)' = t
      BY <2>1, <2>2, <2>3 DEF TimerOf, Sent, Newest, MarkingOf
    <3> QED BY <2>3, <2>6, <3>1 DEF Waiting
  <2> QED BY <2>5, <2>8, <2>9, <2>10 DEF TimerOf
<1>7. CASE CliMsg
  <2>1. PICK m \in Msg : m = Head(toCli)
    BY <1>7, HeadTailProperties DEF CliMsg, TypeOK
  <2>2. /\ toCli # <<>> /\ toCli \in Seq(Msg) /\ toCli' = Tail(toCli) /\ cliPc = "work" /\ cliPc' = "poll"
        /\ view' = IF m.pid \in listed
                     THEN [view EXCEPT ![m.pid] = [status |-> m.status, task_timer |-> m.task_timer]]
                     ELSE view
        /\ UNCHANGED <<cur, listed, toDriver, pc, status, timer, flags>>
    BY <1>7, <2>1 DEF CliMsg, HandleMsg, TypeOK, drvVars, jobVars, sigVars
  <2>3. \A p \in Pid : ~ MarkingOf(p) /\ ~ MarkingOf(p)'
    BY <2>2 DEF MarkingOf
  <2>4. ASSUME NEW p \in Pid, m.pid # p PROVE TimerOf(p)'
    <3>1. view'[p] = view[p]
      BY <2>2, <2>4 DEF TypeOK
    <3>2. /\ Mentions(toCli', p) <=> Mentions(toCli, p)
          /\ LastFits(toCli, p, timer[p]) => LastFits(toCli', p, timer[p])
      BY <2>1, <2>2, <2>4, TailFits
    <3> QED BY <2>2, <2>3, <3>1, <3>2, TimerKept
  <2>5. ASSUME NEW p \in Pid, m.pid = p PROVE TimerOf(p)'
    <3>1. Quiet(p)' /\ Sent(p)'
      BY <2>2, <2>3 DEF TimerOf, Quiet, Sent
    <3>2. ASSUME p \in listed' PROVE Running(p)' /\ Waiting(p)'
      <4>1. view'[p] = [status |-> m.status, task_timer |-> m.task_timer]
        BY <2>2, <2>5, <3>2 DEF TypeOK
      <4>2. m.msg_type = "STATUS" => m.status = "FREE"
        <5>1. Len(toCli) \in Nat /\ Len(toCli) # 0 /\ Head(toCli) = toCli[1]
          BY <2>2, LenProperties, EmptySeq, HeadTailProperties
        <5>2. 1 \in 1 .. Len(toCli)
          BY <5>1
        <5> QED BY <2>1, <5>1, <5>2 DEF NewsInv, PlaceInv
      <4>3. /\ ShownBusy(p)' <=> m.status = "BUSY"
            /\ ShownTimer(p)' = m.task_timer
        BY <2>3, <4>1 DEF ShownBusy, ShownTimer
      <4>4. Running(p)'
        <5>1. /\ LastFits(toCli, p, timer[p]) => LastFits(toCli', p, timer[p])
              /\ LastFits(toCli, p, timer[p]) /\ ~ Mentions(toCli', p)
                   => m.msg_type = "STATUS" \/ m.task_timer = timer[p]
          BY <2>1, <2>2, <2>5, TailFits
        <5> QED BY <2>2, <3>2, <4>2, <4>3, <5>1 DEF TimerOf, Running, Reliable
      <4>5. Waiting(p)'
        <5>1. EndsWithReport(toCli, p) /\ ~ Mentions(toCli', p) => m.msg_type = "STATUS"
          BY <2>1, <2>2, <2>5, TailFits
        <5>2. Reliable(p) /\ status[p] = "FREE" /\ pc[p] # "report" => EndsWithReport(toCli, p)
          BY DEF NewsInv, LastWordInv
        <5> QED BY <2>2, <4>2, <4>3, <5>1, <5>2 DEF Waiting, Reliable
      <4> QED BY <4>4, <4>5
    <3> QED BY <3>1, <3>2 DEF TimerOf
  <2> QED BY <2>4, <2>5

<1>8. ASSUME NEW p \in Pid, DrvInt(p) PROVE TimerInv'
  <2>1. UNCHANGED <<cliPc, cur, listed, view, toCli, toDriver, status, timer, flags>>
    BY <1>8 DEF DrvInt, cliVars
  <2>2. Moved(p)
    BY <1>8, HandlerMoves DEF DrvInt, Moved, TypeOK, DrvPcs
  <2> QED BY <1>b, <2>1, <2>2 DEF Moved
<1>9. ASSUME NEW p \in Pid, DrvOpen(p) PROVE TimerInv'
  <2>1. /\ pc[p] = "init" /\ pc'[p] \in {"openCli", "fail"}
        /\ \A q \in Pid \ {p} : pc'[q] = pc[q] /\ flags'[q] = flags[q]
        /\ UNCHANGED <<cliPc, cur, listed, view, toCli, toDriver, status, timer>>
    BY <1>9 DEF DrvOpen, At, Goto, TypeOK, cliVars, jobVars, ioVars
  <2>2. toDriver[p] = <<>> /\ status[p] = "FREE"
    BY <2>1 DEF TimerOf, Quiet
  <2>3. TimerOf(p)'
    BY <2>1, <2>2 DEF TimerOf, Quiet, Sent, Running, Waiting
  <2> QED BY <1>b, <2>1, <2>3
<1>10. ASSUME NEW p \in Pid, DrvAccept(p) PROVE TimerInv'
  <2>1. /\ pc[p] = "read" /\ pc'[p] = "loop" /\ toDriver[p] # <<>> /\ status[p] = "FREE"
        /\ toDriver'[p] = Tail(toDriver[p]) /\ status'[p] = "BUSY" /\ timer'[p] = Head(toDriver[p])
        /\ \A q \in Pid \ {p} : /\ pc'[q] = pc[q] /\ toDriver'[q] = toDriver[q]
                                /\ status'[q] = status[q] /\ timer'[q] = timer[q]
        /\ UNCHANGED <<cliPc, cur, listed, view, toCli, flags>>
    BY <1>10 DEF DrvAccept, At, Goto, Take, TypeOK, cliVars, sigVars
  <2>2. /\ Tail(toDriver[p]) # <<>> => Newest(p)' = Newest(p)
        /\ Tail(toDriver[p]) = <<>> => Head(toDriver[p]) = Newest(p)
    BY <2>1, TailLast DEF TypeOK, Newest
  <2>3. Quiet(p)' /\ Sent(p)' /\ Waiting(p)'
    BY <2>1, <2>2 DEF TimerOf, Quiet, Sent, Waiting, MarkingOf
  <2>4. ASSUME p \in listed PROVE Running(p)'
    <3>1. Reliable(p) => EndsWithReport(toCli, p)
      BY <2>1 DEF NewsInv, LastWordInv
    <3>2. Reliable(p)' => Reliable(p) /\ LastFits(toCli', p, timer'[p])
      BY <2>1, <3>1, ReportFits DEF Reliable, TypeOK
    <3>3. Waiting(p)
      BY <2>4 DEF TimerOf
    <3>4. /\ ShownBusy(p)' <=> ShownBusy(p)
          /\ ShownTimer(p)' = ShownTimer(p)
      BY <2>1 DEF ShownBusy, ShownTimer, MarkingOf
    <3> QED BY <2>1, <2>2, <3>2, <3>3, <3>4 DEF Running, Waiting
  <2> QED BY <1>b, <2>1, <2>3, <2>4 DEF TimerOf
<1>11. ASSUME NEW p \in Pid, DrvRefuse(p) PROVE TimerInv'
  <2>1. /\ pc[p] = "read" /\ pc'[p] = "reject" /\ toDriver[p] # <<>> /\ status[p] = "BUSY"
        /\ toDriver'[p] = Tail(toDriver[p])
        /\ \A q \in Pid \ {p} : pc'[q] = pc[q] /\ toDriver'[q] = toDriver[q]
        /\ UNCHANGED <<cliPc, cur, listed, view, toCli, flags, status, timer>>
    BY <1>11 DEF DrvRefuse, At, Goto, Take, TypeOK, cliVars, jobVars, sigVars
  <2>2. Tail(toDriver[p]) # <<>> => Newest(p)' = Newest(p)
    BY <2>1, TailLast DEF TypeOK, Newest
  <2>3. TimerOf(p)'
    BY <2>1, <2>2 DEF TimerOf, Quiet, Sent, Running, Waiting, MarkingOf
  <2> QED BY <1>b, <2>1, <2>3
\* A message of p is queued, and p goes on, or p dies.
<1>c. ASSUME NEW p \in Pid, NEW m \in Msg, m.pid = p, m.msg_type = "STATUS" \/ m.task_timer = timer[p],
             WriteCli(p, m), UNCHANGED <<cliPc, cur, listed, view, toDriver, flags, status, timer>>
      PROVE  TimerInv'
  <2>1. \A q \in Pid \ {p} : pc'[q] = pc[q]
    BY <1>c DEF WriteCli, Goto, TypeOK
  <2>2. CASE CliReads
    <3>1. toCli' = Append(toCli, m) /\ pc'[p] = "loop"
      BY <1>c, <2>2 DEF WriteCli, Goto, TypeOK
    <3>2. ASSUME NEW q \in Pid \ {p} PROVE TimerOf(q)'
      <4>1. /\ Mentions(toCli', q) <=> Mentions(toCli, q)
            /\ LastFits(toCli, q, timer[q]) => LastFits(toCli', q, timer[q])
        BY <1>c, <3>1, AppendFits DEF TypeOK
      <4>2. (MarkingOf(q)' <=> MarkingOf(q)) /\ (MarkingOf(q) => cur'.task_timer = cur.task_timer)
        BY <1>c DEF MarkingOf
      <4> QED BY <1>c, <2>1, <4>1, <4>2, TimerKept
    <3>3. Mentions(toCli', p) /\ LastFits(toCli', p, timer[p])
      BY <1>c, <3>1, AppendFits DEF TypeOK
    <3>4. TimerOf(p)'
      BY <1>c, <3>1, <3>3 DEF TimerOf, Quiet, Sent, Running, Waiting, MarkingOf, Newest
    <3> QED BY <3>2, <3>4
  <2>3. CASE ~ CliReads
    <3>1. toCli' = toCli /\ pc'[p] = "dead"
      BY <1>c, <2>3 DEF WriteCli, Goto, TypeOK
    <3> QED BY <1>b, <1>c, <2>1, <3>1
  <2> QED BY <2>2, <2>3
<1>12. ASSUME NEW p \in Pid, DrvReject(p) PROVE TimerInv'
  <2>1. Refusal(p, timer[p]) \in Msg /\ Refusal(p, timer[p]).pid = p /\ Refusal(p, timer[p]).task_timer = timer[p]
    BY DEF Refusal, Msg, Status, TypeOK
  <2> QED BY <1>c, <1>12, <2>1 DEF DrvReject, cliVars, sigVars
<1>13. ASSUME NEW p \in Pid, DrvReport(p) PROVE TimerInv'
  <2>1. Report(p) \in Msg /\ Report(p).pid = p /\ Report(p).msg_type = "STATUS"
    BY DEF Report, Msg, Status
  <2> QED BY <1>c, <1>13, <2>1 DEF DrvReport, cliVars, jobVars, sigVars
<1>14. ASSUME NEW p \in Pid, DrvFinish(p) PROVE TimerInv'
  <2>1. /\ pc'[p] = "report" /\ status'[p] = "FREE"
        /\ \A q \in Pid \ {p} : pc'[q] = pc[q] /\ status'[q] = status[q] /\ timer'[q] = timer[q]
        /\ UNCHANGED <<cliPc, cur, listed, view, toCli, toDriver, flags>>
    BY <1>14 DEF DrvFinish, At, Goto, TypeOK, cliVars, sigVars, ioVars
  <2>2. TimerOf(p)'
    BY <2>1 DEF TimerOf, Quiet, Sent, Running, Waiting, MarkingOf, Newest
  <2> QED BY <1>b, <2>1, <2>2
<1>15. ASSUME NEW p \in Pid,
              \/ DrvFail(p) \/ DrvOpenCli(p) \/ DrvQuit(p) \/ DrvListen(p) \/ DrvNap(p)
              \/ DrvWake(p) \/ DrvReadNothing(p) \/ DrvExecFails(p) \/ DrvCrash(p)
       PROVE  TimerInv'
  <2>1. UNCHANGED <<cliPc, cur, listed, view, toCli, toDriver, status, timer, flags>>
    BY <1>15 DEF DrvFail, DrvOpenCli, DrvQuit, DrvListen, DrvNap, DrvWake, DrvReadNothing,
                 DrvExecFails, DrvCrash, cliVars, jobVars, sigVars, ioVars
  <2>2. /\ \A q \in Pid \ {p} : pc'[q] = pc[q]
        /\ \/ pc'[p] = "dead"
           \/ pc[p] \notin {"reject", "report", "dead"} /\ pc'[p] \notin {"none", "init", "fail", "openCli"}
    <3>1. CASE DrvFail(p) \/ DrvOpenCli(p) \/ DrvQuit(p) \/ DrvListen(p)
      BY <3>1 DEF DrvFail, DrvOpenCli, DrvQuit, DrvListen, Quit, At, Goto, TypeOK
    <3>2. CASE DrvNap(p) \/ DrvWake(p) \/ DrvReadNothing(p)
      BY <3>2 DEF DrvNap, DrvWake, DrvReadNothing, At, Goto, TypeOK
    <3>3. CASE DrvExecFails(p) \/ DrvCrash(p)
      BY <3>3 DEF DrvExecFails, DrvCrash, Quit, At, Goto, TypeOK
    <3> QED BY <1>15, <3>1, <3>2, <3>3
  <2> QED BY <1>b, <2>1, <2>2
<1>16. CASE UNCHANGED vars
  BY <1>a, <1>16 DEF vars, cliVars, drvVars, jobVars, sigVars, ioVars
<1> QED
  BY <1>1, <1>2, <1>3, <1>4, <1>5, <1>6, <1>7, <1>8, <1>9, <1>10, <1>11, <1>12, <1>13, <1>14, <1>15, <1>16
  DEF Next, Cli, Driver

\* get_status shows a busy driver with the timer of the task it runs as soon as nothing is
\* under way between the two processes, whatever was refused before (taxi_cli.c: handle_msg,
\* driver.c: the TASK_FAIL of line 77).
THEOREM TimerShown == Spec => []BusyTimerRight
<1>1. Init => TimerInv
  BY DEF Init, TimerInv, TimerOf, Quiet, Sent, MarkingOf
<1>2. TypeOK /\ TypeOK' /\ IInv /\ TimerInv /\ [Next]_vars => TimerInv'
  BY TimerStep DEF IInv, NewsInv
<1>3. TypeOK /\ TimerInv => BusyTimerRight
  BY DEF TypeOK, TimerInv, TimerOf, Running, BusyTimerRight, Settled, ShownBusy, ShownTimer, MarkingOf
<1> QED BY <1>1, <1>2, <1>3, TypeCorrect, Inductive, PTL DEF Spec

=============================================================================
