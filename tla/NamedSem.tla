------------------------------ MODULE NamedSem ------------------------------
(***************************************************************************)
(* module3/09: a parent writes lines to a file, the child it forks         *)
(* analyses them, and a named POSIX semaphore guards the file.  The        *)
(* semaphore outlives the program: its initial value counts only for the   *)
(* run that creates it, and sem_unlink stands after an endless loop.       *)
(***************************************************************************)
EXTENDS AnalyzeLine, FiniteSets

CONSTANTS
    Run,        \* runs of the program, on one file
    Existing,   \* whether the file exists before the first
    Lines,      \* lines generate_line() may return: sequences of numbers
    MaxLines,   \* bound: the parents leave alone a file of so many lines
    Kills       \* whether processes may be killed

ConstantAssumption ==
    /\ IsFiniteSet(Run) /\ Existing \in BOOLEAN /\ Kills \in BOOLEAN
    /\ Lines \subseteq (Seq(Number) \ {<<>>}) /\ MaxLines \in Nat

VARIABLES
    file,      \* the lines of the file
    exists,    \* the file exists
    created,   \* the semaphore exists
    sem,       \* its value
    pc,        \* where the parent and the child of each run are
    offset,    \* lines each child has read up to ftell()
    out,       \* what each child has printed
    orphaned   \* history: a process was killed inside

vars == <<file, exists, created, sem, pc, offset, out, orphaned>>

Process == Run \X {"parent", "child"}
Parent(r) == <<r, "parent">>
Child(r) == <<r, "child">>
Inside == {p \in Process : pc[p] \in {"open", "use", "post", "fail"}}

TypeOK ==
    /\ file \in Seq(Lines)
    /\ exists \in BOOLEAN /\ created \in BOOLEAN /\ orphaned \in BOOLEAN
    /\ sem \in 0 .. 1
    /\ pc \in [Process -> {"off", "wait", "open", "use", "post", "fail", "exited"}]
    /\ offset \in [Run -> 0 .. Len(file)]
    /\ out \in [Run -> Seq(Number \X Number)]

Init ==
    /\ file = <<>>
    /\ exists = Existing
    /\ created = FALSE
    /\ sem = 0
    /\ pc = [p \in Process |-> "off"]
    /\ offset = [r \in Run |-> 0]
    /\ out = [r \in Run |-> <<>>]
    /\ orphaned = FALSE

\* sem_open: the value is 1 if the semaphore is new; then fork().
Start(r) ==
    /\ pc[Parent(r)] = "off"
    /\ created' = TRUE
    /\ sem' = IF created THEN sem ELSE 1
    /\ pc' = [pc EXCEPT ![Parent(r)] = "wait", ![Child(r)] = "wait"]
    /\ UNCHANGED <<file, exists, offset, out, orphaned>>

Down == sem > 0 /\ sem' = sem - 1

SemWait(p) ==
    /\ pc[p] = "wait"
    /\ p[2] = "parent" => Len(file) < MaxLines
    /\ Down
    /\ pc' = [pc EXCEPT ![p] = "open"]
    /\ UNCHANGED <<file, exists, created, offset, out, orphaned>>

\* Mutant: the child that has no file leaves without sem_post.
SemPostForgotten(p) ==
    /\ pc[p] \in {"post", "fail"}
    /\ sem' = IF pc[p] = "post" THEN sem + 1 ELSE sem
    /\ pc' = [pc EXCEPT ![p] = IF @ = "post" THEN "wait" ELSE "exited"]
    /\ UNCHANGED <<file, exists, created, offset, out, orphaned>>

\* sem_post, sleep and the next round; the child that had no file exits.
SemPost(p) ==
    /\ pc[p] \in {"post", "fail"}
    /\ sem' = sem + 1
    /\ pc' = [pc EXCEPT ![p] = IF @ = "post" THEN "wait" ELSE "exited"]
    /\ UNCHANGED <<file, exists, created, offset, out, orphaned>>

\* The parent creates the file, writes a line and closes it.
Create(r) ==
    /\ pc[Parent(r)] = "open"
    /\ exists' = TRUE
    /\ pc' = [pc EXCEPT ![Parent(r)] = "use"]
    /\ UNCHANGED <<file, created, sem, offset, out, orphaned>>

WriteLine(r) ==
    /\ pc[Parent(r)] = "use"
    /\ \E line \in Lines : file' = Append(file, line)
    /\ pc' = [pc EXCEPT ![Parent(r)] = "post"]
    /\ UNCHANGED <<exists, created, sem, offset, out, orphaned>>

\* Mutant: the child leaves a file that has no lines yet.
OpenReadEmpty(r) ==
    /\ pc[Child(r)] = "open"
    /\ pc' = [pc EXCEPT ![Child(r)] = IF exists /\ file # <<>> THEN "use" ELSE "fail"]
    /\ UNCHANGED <<file, exists, created, sem, offset, out, orphaned>>

\* The child opens the file, or leaves.
OpenRead(r) ==
    /\ pc[Child(r)] = "open"
    /\ pc' = [pc EXCEPT ![Child(r)] = IF exists THEN "use" ELSE "fail"]
    /\ UNCHANGED <<file, exists, created, sem, offset, out, orphaned>>

ReadLine(r) ==
    /\ pc[Child(r)] = "use"
    /\ offset[r] < Len(file)
    /\ out' = [out EXCEPT ![r] = Append(@, analyze_line(file[offset[r] + 1]))]
    /\ offset' = [offset EXCEPT ![r] = @ + 1]
    /\ UNCHANGED <<file, exists, created, sem, pc, orphaned>>

\* Mutant: ftell() before the last line.
ReadEndEarly(r) ==
    /\ pc[Child(r)] = "use"
    /\ offset[r] = Len(file)
    /\ offset' = [offset EXCEPT ![r] = IF @ > 0 THEN @ - 1 ELSE 0]
    /\ pc' = [pc EXCEPT ![Child(r)] = "post"]
    /\ UNCHANGED <<file, exists, created, sem, out, orphaned>>

\* End of file: ftell() and fclose().
ReadEnd(r) ==
    /\ pc[Child(r)] = "use"
    /\ offset[r] = Len(file)
    /\ pc' = [pc EXCEPT ![Child(r)] = "post"]
    /\ UNCHANGED <<file, exists, created, sem, offset, out, orphaned>>

Kill(p) ==
    /\ Kills
    /\ pc[p] \notin {"off", "exited"}
    /\ orphaned' = (orphaned \/ p \in Inside)
    /\ pc' = [pc EXCEPT ![p] = "exited"]
    /\ UNCHANGED <<file, exists, created, sem, offset, out>>

Work(r) ==
    \/ Create(r) \/ WriteLine(r) \/ OpenRead(r) \/ ReadLine(r) \/ ReadEnd(r)

Next ==
    \/ \E r \in Run : Start(r) \/ Work(r)
    \/ \E p \in Process : SemWait(p) \/ SemPost(p) \/ Kill(p)

Spec == Init /\ [][Next]_vars

\* Processes run, and a waiter is not overtaken for ever.
Fairness ==
    /\ \A r \in Run : WF_vars(Work(r))
    /\ \A p \in Process : WF_vars(SemPost(p)) /\ SF_vars(SemWait(p))

-----------------------------------------------------------------------------
(* Properties. *)

\* Unless a process was killed inside, the semaphore is free or one process is inside,
\* over all runs: two runs at a time exclude each other too, and no path loses it.
OneToken == (created /\ ~ orphaned) => sem + Cardinality(Inside) = 1

\* The children print the bounds of every line once and in order.
Log == INSTANCE LineLog WITH
    File <- {"file"}, Reader <- Run, Of <- LAMBDA r : "file",
    file <- [f \in {"file"} |-> file]
LogSpec == Log!Spec

\* A line of the file is analysed by the child of every run.
LinesAnalysed ==
    \A r \in Run : \A n \in 1 .. MaxLines :
        (pc[Child(r)] # "off" /\ Len(file) >= n) ~> Len(out[r]) >= n
=============================================================================
