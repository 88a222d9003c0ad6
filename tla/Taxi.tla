-------------------------------- MODULE Taxi --------------------------------
(***************************************************************************)
(* The taxi dispatcher of module3/ct2: one command-line process (taxi_cli) *)
(* and the driver processes it forks, talking over named FIFOs and         *)
(* SIGUSR1.  A step is the stretch of code up to the next system call that *)
(* another process can observe; whatever lies between two of them is local *)
(* to its process and is folded into the step.                             *)
(*                                                                         *)
(* A signal is handled before the target's next user-mode instruction, so  *)
(* kill(pid, SIGUSR1) runs the handler at once; SIGINT is kept pending in  *)
(* int[p] and blocks every other step of p until DrvInt handles it.  What  *)
(* a handler does to the call it lands on depends on sa_flags, which both  *)
(* programs pass to sigaction uninitialised: SaFlags is the set of values  *)
(* the stack may hold, each a subset of {"RESTART", "RESETHAND"}.          *)
(***************************************************************************)
EXTENDS Naturals, Sequences, FiniteSets

CONSTANTS
    Pid,         \* process ids fork may return
    Timer,       \* task timers a user may type
    DriversMax,  \* DRIVERS_MAX: the table holds DriversMax - 1 drivers
    PipeCap,     \* messages a FIFO holds
    MaxTasks,    \* bound: send_task commands typed in one behaviour
    SaFlags,     \* the values sa_flags may happen to hold
    Faults       \* which of "exec", "crash", "interrupt" may happen

ASSUME PidAssumption == IsFiniteSet(Pid)
ASSUME TimerAssumption == Timer \subseteq Nat
ASSUME BoundAssumption == DriversMax \in Nat /\ PipeCap \in Nat \ {0} /\ MaxTasks \in Nat
ASSUME FlagAssumption == SaFlags \subseteq SUBSET {"RESTART", "RESETHAND"} /\ SaFlags # {}
ASSUME FaultAssumption == Faults \subseteq {"exec", "crash", "interrupt"}

VARIABLES
    cliPc,       \* where taxi_cli is
    ready,       \* revents of the current poll round still to be served
    cur,         \* the driver and timer of the command in progress
    shouldExit,  \* should_exit of taxi_cli
    cliFlags,    \* sa_flags of taxi_cli
    listed,      \* pids in drivers[0 .. driver_count - 1]
    view,        \* their status and task_timer fields
    path,        \* driver FIFOs that exist in /tmp
    toDriver,    \* contents of each driver's FIFO: the timers of its TASKs
    toCli,       \* contents of the CLI's FIFO
    pc,          \* where each driver is
    status, timer, left, need,  \* its status, task_timer, task_timer_left, need_to_read
    stop,        \* its should_exit
    int,         \* SIGINT pending
    flags,       \* its sa_flags; "DFL" once SA_RESETHAND removed the handler
    sent         \* send_task commands typed so far

cliVars == <<cliPc, ready, cur, shouldExit, cliFlags, listed, view, sent>>
jobVars == <<status, timer, left, need>>
sigVars == <<stop, int, flags>>
drvVars == <<pc, jobVars, sigVars>>
ioVars  == <<path, toDriver, toCli>>
vars    == <<cliVars, drvVars, ioVars>>

CliPcs == {"poll", "work", "mkfifo", "open", "send", "mark", "close", "dead", "killed"}
DrvPcs == {"none", "init", "fail", "openCli", "loop", "read", "reject", "report", "sleep", "dead"}
Status == {"FREE", "BUSY"}
View == [status : Status, task_timer : Nat]
Msg == [pid : Pid, msg_type : {"STATUS", "TASK_FAIL"}, status : Status, task_timer : Nat]
FlagSet == SUBSET {"RESTART", "RESETHAND", "DFL"}

Idle == [status |-> "FREE", task_timer |-> 0]
Busy(t) == [status |-> "BUSY", task_timer |-> t]
\* Mutant: the report is put together before status is set back to FREE.
StaleReport(p) == [pid |-> p, msg_type |-> "STATUS", status |-> "BUSY", task_timer |-> timer[p]]
\* Mutant: the refusal leaves its timer field at 0.
BlankRefusal(p, t) == [pid |-> p, msg_type |-> "TASK_FAIL", status |-> "BUSY", task_timer |-> 0]

Report(p) == [pid |-> p, msg_type |-> "STATUS", status |-> "FREE", task_timer |-> 0]
Refusal(p, t) == [pid |-> p, msg_type |-> "TASK_FAIL", status |-> "BUSY", task_timer |-> t]

\* taxi_cli still holds the read end of its own FIFO.
CliReads == cliPc \notin {"close", "dead", "killed"}
\* The CLI holds the write end of p's FIFO.
HasWriter(p) == /\ p \in listed
                /\ cliPc \notin {"dead", "killed"}
                /\ ~ (cliPc \in {"mkfifo", "open"} /\ cur.pid = p)
\* Driver p holds the read end of its own FIFO.
HasReader(p) == pc[p] \notin {"none", "init", "fail", "dead"}
Alive(p) == pc[p] \notin {"none", "dead"}

TypeOK ==
    /\ cliPc \in CliPcs
    /\ ready \subseteq {"stdin", "fifo"}
    /\ cur \in [pid : Pid, task_timer : Nat]
    /\ shouldExit \in BOOLEAN
    /\ cliFlags \in FlagSet
    /\ listed \subseteq Pid
    /\ view \in [Pid -> View]
    /\ path \subseteq Pid
    /\ toDriver \in [Pid -> Seq(Nat)]
    /\ toCli \in Seq(Msg)
    /\ pc \in [Pid -> DrvPcs]
    /\ status \in [Pid -> Status]
    /\ timer \in [Pid -> Nat]
    /\ left \in [Pid -> Nat]
    /\ need \in [Pid -> BOOLEAN]
    /\ stop \in [Pid -> BOOLEAN]
    /\ int \in [Pid -> BOOLEAN]
    /\ flags \in [Pid -> FlagSet]
    /\ sent \in Nat

Init ==
    /\ cliPc = "poll"
    /\ ready = {}
    /\ cur \in [pid : Pid, task_timer : {0}]
    /\ shouldExit = FALSE
    /\ cliFlags \in SaFlags
    /\ listed = {}
    /\ view = [p \in Pid |-> Idle]
    /\ path = {}
    /\ toDriver = [p \in Pid |-> <<>>]
    /\ toCli = <<>>
    /\ pc = [p \in Pid |-> "none"]
    /\ status = [p \in Pid |-> "FREE"]
    /\ timer = [p \in Pid |-> 0]
    /\ left = [p \in Pid |-> 0]
    /\ need = [p \in Pid |-> FALSE]
    /\ stop = [p \in Pid |-> FALSE]
    /\ int = [p \in Pid |-> FALSE]
    /\ flags = [p \in Pid |-> {}]
    /\ sent = 0
-----------------------------------------------------------------------------
(* taxi_cli: the poll round and the commands. *)

\* The next thing a round with these revents still has to do.
Resume(r) == IF r = {} THEN "poll" ELSE "work"

\* poll() returns: stdin may be readable, the FIFO is when it holds a message.
CliPoll ==
    /\ cliPc = "poll"
    /\ ~ shouldExit
    /\ \E in \in SUBSET {"stdin"} :
          ready' = in \cup {f \in {"fifo"} : toCli # <<>>}
    /\ ready' # {}
    /\ cliPc' = "work"
    /\ UNCHANGED <<cur, shouldExit, cliFlags, listed, view, sent, drvVars, ioVars>>

\* A command is taken from stdin; it ends in the state Resume(ready').
Command ==
    /\ cliPc = "work"
    /\ "stdin" \in ready
    /\ ready' = ready \ {"stdin"}

\* help, get_status, get_drivers, and every command that is refused.
CliQuery ==
    /\ Command
    /\ cliPc' = Resume(ready')
    /\ UNCHANGED <<cur, shouldExit, cliFlags, listed, view, sent, drvVars, ioVars>>

\* create_driver up to fork(): the table entry is filled in first.
CliFork(p) ==
    /\ Command
    /\ Cardinality(listed) < DriversMax - 1
    /\ pc[p] = "none"
    /\ cliPc' = "mkfifo"
    /\ cur' = [pid |-> p, task_timer |-> 0]
    /\ listed' = listed \cup {p}
    /\ view' = [view EXCEPT ![p] = Idle]
    /\ pc' = [pc EXCEPT ![p] = "init"]
    /\ UNCHANGED <<shouldExit, cliFlags, sent, jobVars, sigVars, ioVars>>

CliMkfifo ==
    /\ cliPc = "mkfifo"
    /\ cliPc' = "open"
    /\ path' = path \cup {cur.pid}
    /\ UNCHANGED <<ready, cur, shouldExit, cliFlags, listed, view, sent, drvVars,
                   toDriver, toCli>>

\* open(O_WRONLY) waits for a reader and returns once there is one.
CliOpen ==
    /\ cliPc = "open"
    /\ cur.pid \in path
    /\ HasReader(cur.pid)
    /\ cliPc' = Resume(ready)
    /\ UNCHANGED <<ready, cur, shouldExit, cliFlags, listed, view, sent, drvVars, ioVars>>

\* Mutant: the failure branch forgets driver_count--.
KeepEntry == cliPc' = Resume(ready) /\ UNCHANGED listed

\* The failure branch of create_driver: SIGINT to the child, entry dropped.
DropEntry ==
    /\ cliPc' = Resume(ready)
    /\ listed' = listed \ {cur.pid}

\* open() fails: the driver has removed its FIFO again.
CliOpenFails ==
    /\ cliPc = "open"
    /\ cur.pid \notin path
    /\ DropEntry
    /\ int' = [int EXCEPT ![cur.pid] = Alive(cur.pid)]
    /\ UNCHANGED <<ready, cur, shouldExit, cliFlags, view, sent, pc, jobVars, stop, flags,
                   ioVars>>

\* send_task <pid> <task_timer> for a pid of the table.
CliSend(p, t) ==
    /\ Command
    /\ sent < MaxTasks
    /\ p \in listed
    /\ cliPc' = "send"
    /\ cur' = [pid |-> p, task_timer |-> t]
    /\ sent' = sent + 1
    /\ UNCHANGED <<shouldExit, cliFlags, listed, view, drvVars, ioVars>>

\* write(driver->fd): waits while the FIFO is full.
CliWrite ==
    /\ cliPc = "send"
    /\ HasReader(cur.pid)
    /\ Len(toDriver[cur.pid]) < PipeCap
    /\ toDriver' = [toDriver EXCEPT ![cur.pid] = Append(@, cur.task_timer)]
    /\ cliPc' = "mark"
    /\ UNCHANGED <<ready, cur, shouldExit, cliFlags, listed, view, sent, drvVars, path, toCli>>

\* The same write() to a driver that is gone: SIGPIPE ends the CLI on the spot.
CliBrokenPipe ==
    /\ cliPc = "send"
    /\ ~ HasReader(cur.pid)
    /\ cliPc' = "killed"
    /\ UNCHANGED <<ready, cur, shouldExit, cliFlags, listed, view, sent, drvVars, ioVars>>
-----------------------------------------------------------------------------
(* Signals at a driver. *)

\* What driver p waits for is not there, so its call is blocked.
Blocked(p) ==
    \/ pc[p] = "read" /\ toDriver[p] = <<>> /\ HasWriter(p)
    \/ pc[p] \in {"reject", "report"} /\ CliReads /\ Len(toCli) = PipeCap

\* The handler ran before the call, or the call goes on afterwards.
CallSpared(p) == UNCHANGED <<pc, left, path>>

\* Mutant: the time slept is rounded up without stopping at 0.
UnsleptPast(k) == (k - 3) .. (k - 1)

\* The whole seconds an interrupted sleep(k) may report as left.
Unslept(k) == 0 .. (k - 1)

\* The call returns early: sleep() with the seconds left, the others with EINTR.
CallCut(p) ==
    \/ /\ pc[p] = "sleep"
       /\ \E l \in Unslept(left[p]) : left' = [left EXCEPT ![p] = l]
       /\ pc' = [pc EXCEPT ![p] = "loop"]
       /\ UNCHANGED path
    \/ /\ Blocked(p)
       /\ "RESTART" \notin flags[p]
       /\ pc' = [pc EXCEPT ![p] = "loop"]
       /\ UNCHANGED <<left, path>>
    \/ /\ pc[p] = "openCli" /\ cliPc \in {"close", "killed"}
       /\ "RESTART" \notin flags[p]
       /\ pc' = [pc EXCEPT ![p] = "dead"]
       /\ path' = path \ {p}
       /\ UNCHANGED left

\* SIGUSR1 reaches p.  A refusal cut short still clears the flag on line 77.
Usr1(p) ==
    \/ ~ Alive(p) /\ UNCHANGED <<pc, left, need, flags, path>>
    \/ /\ Alive(p) /\ "DFL" \in flags[p]
       /\ pc' = [pc EXCEPT ![p] = "dead"]
       /\ UNCHANGED <<left, need, flags, path>>
    \/ /\ Alive(p) /\ "DFL" \notin flags[p]
       /\ CallSpared(p) \/ CallCut(p)
       /\ need' = [need EXCEPT ![p] = ~ (pc[p] = "reject" /\ pc'[p] = "loop")]
       /\ flags' = [flags EXCEPT ![p] = IF "RESETHAND" \in @ THEN @ \cup {"DFL"} ELSE @]

\* SIGINT reaches p.  Before execl() it runs in the forked copy and is lost, or
\* finds the default action; afterwards it sets should_exit.
DrvInt(p) ==
    /\ int[p]
    /\ int' = [int EXCEPT ![p] = FALSE]
    /\ \/ /\ Alive(p) /\ (CallSpared(p) \/ CallCut(p))
          /\ stop' = [stop EXCEPT ![p] = TRUE]
          /\ need' = [need EXCEPT ![p] = IF pc[p] = "reject" /\ pc'[p] = "loop" THEN FALSE ELSE @]
       \/ /\ pc[p] = "init"
          /\ pc' \in {pc, [pc EXCEPT ![p] = "dead"]}
          /\ UNCHANGED <<stop, left, need, path>>
       \/ /\ ~ Alive(p)
          /\ UNCHANGED <<pc, stop, left, need, path>>
    /\ UNCHANGED <<cliVars, status, timer, flags, toDriver, toCli>>

\* The rest of send_task: the entry is marked, then kill(pid, SIGUSR1).
CliMark ==
    /\ cliPc = "mark"
    /\ view' = [view EXCEPT ![cur.pid] = Busy(cur.task_timer)]
    /\ cliPc' = Resume(ready)
    /\ Usr1(cur.pid)
    /\ UNCHANGED <<ready, cur, shouldExit, cliFlags, listed, sent, status, timer, stop, int,
                   toDriver, toCli>>

\* A STATUS or TASK_FAIL overwrites the entry of its sender.
HandleMsg(m) ==
    view' = IF m.pid \in listed
              THEN [view EXCEPT ![m.pid] = [status |-> m.status, task_timer |-> m.task_timer]]
              ELSE view

\* One message from the FIFO.
CliMsg ==
    /\ cliPc = "work"
    /\ ready = {"fifo"}
    /\ toCli # <<>>
    /\ HandleMsg(Head(toCli))
    /\ toCli' = Tail(toCli)
    /\ ready' = {}
    /\ cliPc' = "poll"
    /\ UNCHANGED <<cur, shouldExit, cliFlags, listed, sent, drvVars, path, toDriver>>

\* The loop ends; clear_and_exit closes the polled descriptors first ...
CliLeave ==
    /\ cliPc = "poll"
    /\ shouldExit
    /\ cliPc' = "close"
    /\ UNCHANGED <<ready, cur, shouldExit, cliFlags, listed, view, sent, drvVars, ioVars>>

\* Mutant: clear_and_exit leaves the drivers alone.
KillNone == UNCHANGED int

\* kill(drivers[i].pid, SIGINT) for the whole table.
KillListed == int' = [p \in Pid |-> int[p] \/ (p \in listed /\ Alive(p))]

\* ... then interrupts every driver of the table and exits.
CliExit ==
    /\ cliPc = "close"
    /\ cliPc' = "dead"
    /\ KillListed
    /\ UNCHANGED <<ready, cur, shouldExit, cliFlags, listed, view, sent, pc, jobVars, stop,
                   flags, ioVars>>
-----------------------------------------------------------------------------
(* The driver. *)

\* p may take its next step: a pending SIGINT is handled before it.
At(p, where) == pc[p] = where /\ ~ int[p]
Goto(p, where) == pc' = [pc EXCEPT ![p] = where]

\* execl(), sigaction() and the open() of the driver's own FIFO.
DrvOpen(p) ==
    /\ At(p, "init")
    /\ Goto(p, IF p \in path THEN "openCli" ELSE "fail")
    /\ \E f \in SaFlags : flags' = [flags EXCEPT ![p] = f]
    /\ UNCHANGED <<cliVars, jobVars, stop, int, ioVars>>

\* execl() fails and the child exits.
DrvExecFails(p) ==
    /\ "exec" \in Faults
    /\ At(p, "init")
    /\ Goto(p, "dead")
    /\ UNCHANGED <<cliVars, jobVars, sigVars, ioVars>>

\* clear_and_exit: unlink the FIFO and exit.  No error message can be sent:
\* every call with send_error comes before cli_fd is open.
Quit(p) ==
    /\ Goto(p, "dead")
    /\ path' = path \ {p}

DrvFail(p) ==
    /\ At(p, "fail")
    /\ Quit(p)
    /\ UNCHANGED <<cliVars, jobVars, sigVars, toDriver, toCli>>

\* open(CLI_FIFO_PATH, O_WRONLY): fails when the CLI has unlinked it, waits
\* when it exists without a reader.
DrvOpenCli(p) ==
    /\ At(p, "openCli")
    /\ \/ CliReads /\ Goto(p, "loop") /\ UNCHANGED path
       \/ cliPc = "dead" /\ Quit(p)
    /\ UNCHANGED <<cliVars, jobVars, sigVars, toDriver, toCli>>

DrvQuit(p) ==
    /\ At(p, "loop")
    /\ stop[p]
    /\ Quit(p)
    /\ UNCHANGED <<cliVars, jobVars, sigVars, toDriver, toCli>>

\* Mutant: only SIGUSR1 makes a driver read.
ListensOnSignal(p) == need[p]

\* The condition of line 51: read commands rather than do the job.
Listens(p) == status[p] = "FREE" \/ need[p]

\* Wait for commands: FREE, or SIGUSR1 has been seen.
DrvListen(p) ==
    /\ At(p, "loop")
    /\ ~ stop[p]
    /\ Listens(p)
    /\ Goto(p, "read")
    /\ need' = [need EXCEPT ![p] = FALSE]
    /\ UNCHANGED <<cliVars, status, timer, left, sigVars, ioVars>>

\* Mutant: the end of the task does not wait for task_timer_left.
DrvFinishEarly(p) ==
    /\ At(p, "loop")
    /\ ~ stop[p] /\ ~ Listens(p)
    /\ Goto(p, "report")
    /\ status' = [status EXCEPT ![p] = "FREE"]
    /\ timer' = [timer EXCEPT ![p] = 0]
    /\ UNCHANGED <<cliVars, left, need, sigVars, ioVars>>

\* The timer has run out: FREE again, to be reported.
DrvFinish(p) ==
    /\ At(p, "loop")
    /\ ~ stop[p]
    /\ ~ Listens(p) /\ left[p] = 0
    /\ Goto(p, "report")
    /\ status' = [status EXCEPT ![p] = "FREE"]
    /\ timer' = [timer EXCEPT ![p] = 0]
    /\ UNCHANGED <<cliVars, left, need, sigVars, ioVars>>

DrvNap(p) ==
    /\ At(p, "loop")
    /\ ~ stop[p]
    /\ ~ Listens(p) /\ left[p] > 0
    /\ Goto(p, "sleep")
    /\ UNCHANGED <<cliVars, jobVars, sigVars, ioVars>>

\* sleep() returns after all its seconds.
DrvWake(p) ==
    /\ At(p, "sleep")
    /\ Goto(p, "loop")
    /\ left' = [left EXCEPT ![p] = 0]
    /\ UNCHANGED <<cliVars, status, timer, need, sigVars, ioVars>>

\* Mutant: the message is looked at but stays in the FIFO.
Peek(p) == UNCHANGED toDriver

\* read(self_fd): one message leaves the FIFO.
Take(p) == toDriver' = [toDriver EXCEPT ![p] = Tail(@)]

\* A TASK is read by a free driver and started.
DrvAccept(p) ==
    /\ At(p, "read")
    /\ toDriver[p] # <<>>
    /\ status[p] = "FREE"
    /\ Goto(p, "loop")
    /\ Take(p)
    /\ status' = [status EXCEPT ![p] = "BUSY"]
    /\ timer' = [timer EXCEPT ![p] = Head(toDriver[p])]
    /\ left' = [left EXCEPT ![p] = Head(toDriver[p])]
    /\ need' = [need EXCEPT ![p] = FALSE]
    /\ UNCHANGED <<cliVars, sigVars, path, toCli>>

\* A TASK is read by a busy driver, to be refused.
DrvRefuse(p) ==
    /\ At(p, "read")
    /\ toDriver[p] # <<>>
    /\ status[p] = "BUSY"
    /\ Goto(p, "reject")
    /\ Take(p)
    /\ UNCHANGED <<cliVars, jobVars, sigVars, path, toCli>>

\* read() returns 0: nobody has the FIFO open for writing.
DrvReadNothing(p) ==
    /\ At(p, "read")
    /\ toDriver[p] = <<>>
    /\ ~ HasWriter(p)
    /\ Goto(p, "loop")
    /\ UNCHANGED <<cliVars, jobVars, sigVars, ioVars>>

\* A write to the CLI's FIFO: waits while it is full, SIGPIPE without reader.
WriteCli(p, m) ==
    \/ /\ CliReads
       /\ Len(toCli) < PipeCap
       /\ toCli' = Append(toCli, m)
       /\ Goto(p, "loop")
    \/ /\ ~ CliReads
       /\ UNCHANGED toCli
       /\ Goto(p, "dead")

DrvReject(p) ==
    /\ At(p, "reject")
    /\ WriteCli(p, Refusal(p, timer[p]))
    /\ need' = [need EXCEPT ![p] = FALSE]
    /\ UNCHANGED <<cliVars, status, timer, left, sigVars, path, toDriver>>

DrvReport(p) ==
    /\ At(p, "report")
    /\ WriteCli(p, Report(p))
    /\ UNCHANGED <<cliVars, jobVars, sigVars, path, toDriver>>

Driver(p) ==
    \/ DrvInt(p) \/ DrvOpen(p) \/ DrvFail(p) \/ DrvOpenCli(p)
    \/ DrvQuit(p) \/ DrvListen(p) \/ DrvFinish(p) \/ DrvNap(p) \/ DrvWake(p)
    \/ DrvAccept(p) \/ DrvRefuse(p) \/ DrvReadNothing(p) \/ DrvReject(p) \/ DrvReport(p)
-----------------------------------------------------------------------------
(* The environment. *)

\* Someone kills a driver; its FIFO stays in /tmp.
DrvCrash(p) ==
    /\ "crash" \in Faults
    /\ Alive(p)
    /\ Goto(p, "dead")
    /\ UNCHANGED <<cliVars, jobVars, sigVars, ioVars>>

\* taxi_cli's call in progress is blocked.
CliBlocked ==
    \/ cliPc = "open" /\ cur.pid \in path /\ ~ HasReader(cur.pid)
    \/ cliPc = "send" /\ HasReader(cur.pid) /\ Len(toDriver[cur.pid]) = PipeCap

\* ^C at the terminal: SIGINT to the whole foreground process group.
Interrupt ==
    /\ "interrupt" \in Faults
    /\ cliPc \notin {"close", "dead", "killed"}
    /\ ~ shouldExit
    /\ shouldExit' = TRUE
    /\ int' = [p \in Pid |-> int[p] \/ Alive(p)]
    /\ \/ UNCHANGED <<cliPc, listed>>
       \/ /\ CliBlocked /\ "RESTART" \notin cliFlags
          /\ IF cliPc = "open" THEN DropEntry ELSE cliPc' = Resume(ready) /\ UNCHANGED listed
    /\ UNCHANGED <<ready, cur, cliFlags, view, sent, pc, jobVars, stop, flags, ioVars>>

\* What taxi_cli does on its own.
Cli ==
    \/ CliPoll \/ CliQuery \/ CliMkfifo \/ CliOpen \/ CliOpenFails
    \/ CliWrite \/ CliBrokenPipe \/ CliMark \/ CliMsg \/ CliLeave \/ CliExit
    \/ \E p \in Pid : CliFork(p)
    \/ \E p \in Pid, t \in Timer : CliSend(p, t)

Next ==
    \/ Cli
    \/ \E p \in Pid : Driver(p) \/ DrvExecFails(p) \/ DrvCrash(p)
    \/ Interrupt

Spec == Init /\ [][Next]_vars

\* The scheduler runs every process that can run.  taxi_cli leaves poll only
\* when somebody types or writes, so only the rest of it is fair.
FairSpec ==
    /\ Spec
    /\ WF_vars(CliPoll /\ toCli # <<>>)
    /\ WF_vars(Cli /\ cliPc # "poll")
    /\ WF_vars(CliLeave)
    /\ \A p \in Pid : WF_vars(Driver(p))
-----------------------------------------------------------------------------
(* Properties. *)

\* A driver whose blocked calls are restarted, so that none of its messages is
\* lost to EINTR.
Reliable(p) == pc[p] # "dead" /\ "RESTART" \in flags[p]

\* Queue q holds a message of p; one that says p is free; the last one says so.
Mentions(q, p) == \E k \in 1 .. Len(q) : q[k].pid = p
Reports(q, p) == \E k \in 1 .. Len(q) : q[k].pid = p /\ q[k].msg_type = "STATUS"
EndsWithReport(q, p) ==
    \A k \in 1 .. Len(q) :
        (q[k].pid = p /\ q[k].msg_type # "STATUS")
            => \E j \in (k + 1) .. Len(q) : q[j].pid = p /\ q[j].msg_type = "STATUS"

\* News of p being free, or of a task for it, is under way.
NewsComing(p) == toDriver[p] # <<>> \/ pc[p] = "report" \/ Reports(toCli, p)

\* When the CLI shows a driver Busy although it is free, the news is under way:
\* a TASK it has not read, or a STATUS the CLI has not read (send_task and
\* handle_msg against the driver's main loop).
ViewBusyHasCause ==
    \A p \in listed :
        (Reliable(p) /\ view[p].status = "BUSY" /\ status[p] = "FREE") => NewsComing(p)

\* Nothing about p is under way between the two processes.
Settled(p) ==
    /\ toDriver[p] = <<>>
    /\ pc[p] \notin {"reject", "report"}
    /\ ~ Mentions(toCli, p)
    /\ ~ (cliPc = "mark" /\ cur.pid = p)

\* Once nothing is under way, a driver shown Busy is shown with the timer of
\* the task it runs, even after refusals (get_status, lines 77-79 of driver.c).
BusyTimerRight ==
    \A p \in listed :
        (Reliable(p) /\ Settled(p) /\ status[p] = "BUSY" /\ view[p].status = "BUSY")
            => view[p].task_timer = timer[p]

\* A busy driver only ever drops its task by running its timer down: no step
\* replaces the task or lengthens what is left of it.
TaskRunsDown ==
    [][\A p \in Pid : status[p] = "BUSY" =>
          \/ status'[p] = "BUSY" /\ timer'[p] = timer[p] /\ left'[p] <= left[p]
          \/ status'[p] = "FREE" /\ left[p] = 0]_vars

\* What ViewBusyHasCause rests on.
MarkingOf(p) == cliPc = "mark" /\ cur.pid = p
CreatingOf(p) == cliPc \in {"mkfifo", "open"} /\ cur.pid = p

\* Commands in progress concern a listed driver; one whose creation is over has
\* opened its FIFO.
EntryInv ==
    /\ cliPc \in {"mkfifo", "open", "send", "mark"} => cur.pid \in listed
    /\ \A p \in listed :
          /\ pc[p] # "none"
          /\ ~ CreatingOf(p) => pc[p] \notin {"init", "fail"}

\* Before its main loop a driver has said nothing and is shown free.
FreshInv ==
    \A p \in Pid :
        /\ pc[p] \in {"none", "init", "fail", "openCli"} => ~ Mentions(toCli, p)
        /\ pc[p] \in {"none", "init"} => view[p].status = "FREE"

\* Where a driver is tells what it does; what a message is tells its status.
PlaceInv ==
    /\ \A p \in Pid : pc[p] \in {"reject", "sleep"} => status[p] = "BUSY"
    /\ \A k \in 1 .. Len(toCli) : toCli[k].msg_type = "STATUS" => toCli[k].status = "FREE"

\* The last thing a free driver said is that it is free.
LastWordInv ==
    \A p \in Pid :
        (Reliable(p) /\ status[p] = "FREE" /\ pc[p] # "report") => EndsWithReport(toCli, p)

\* ViewBusyHasCause also between send_task's write and its marking.
CauseInv ==
    \A p \in listed :
        (Reliable(p) /\ status[p] = "FREE" /\ (view[p].status = "BUSY" \/ MarkingOf(p)))
            => NewsComing(p)

IInv == TypeOK /\ EntryInv /\ FreshInv /\ PlaceInv /\ LastWordInv /\ CauseInv

\* The running task comes to its end (README.md:17 of ct2); the code breaks it.
TaskEnds == \A p \in Pid : status[p] = "BUSY" ~> (status[p] = "FREE" \/ ~ Alive(p) \/ stop[p])

\* Every TASK that reaches a FIFO is read and answered, unless the driver ends
\* or SIGPIPE has ended the CLI.
TaskIsAnswered ==
    \A p \in Pid : toDriver[p] # <<>> ~> (toDriver[p] = <<>> \/ ~ Alive(p) \/ cliPc = "killed")

\* What the CLI shows catches up with a driver that has become free: unless the
\* CLI ends or is stuck in create_driver, the entry turns Available or the driver
\* takes a new task (the reports against send_task's own marking).
ViewCatchesUp ==
    \A p \in Pid :
        (p \in listed /\ Reliable(p) /\ status[p] = "FREE" /\ view[p].status = "BUSY")
            ~> \/ view[p].status = "FREE" \/ status[p] = "BUSY"
               \/ ~ Alive(p) \/ stop[p] \/ CliBlocked \/ ~ CliReads

\* After the CLI has left its loop no driver survives (clear_and_exit).
DriversEnd == \A p \in Pid : (cliPc = "close" /\ p \in listed) ~> ~ Alive(p)

Job(p) == IF status[p] = "BUSY" THEN {timer[p]} ELSE {}
Board == INSTANCE Dispatch WITH
            Task <- Timer, up <- {p \in Pid : Alive(p)}, queue <- toDriver,
            job <- [p \in Pid |-> Job(p)]
BoardSpec == Board!Spec
=============================================================================
