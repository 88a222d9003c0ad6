---------------------------- MODULE ShmHandshake ----------------------------
(***************************************************************************)
(* module3/10 and module3/11: a parent puts a line of numbers into shared  *)
(* memory, the child it forks replaces the line by its smallest and        *)
(* largest number, and the parent prints them.  Two named semaphores pass  *)
(* the turn.  The names outlive the program unless SIGINT ends the parent, *)
(* and both programs use the same ones; a generation is what the names     *)
(* stand for between two times that they are unlinked.                     *)
(***************************************************************************)
EXTENDS AnalyzeLine, FiniteSets

CONSTANTS
    Run,       \* runs of the programs
    Lines,     \* lines generate_line() may return: sequences of numbers
    Garbage,   \* values of the uninitialized max in print_line()
    MaxSets,   \* bound: sets each run generates
    Signals,   \* whether SIGINT may come
    Kills      \* whether other signals may end a process

ConstantAssumption ==
    /\ IsFiniteSet(Run) /\ Signals \in BOOLEAN /\ Kills \in BOOLEAN
    /\ Lines \subseteq (Seq(Number) \ {<<>>}) /\ Garbage \subseteq Int /\ MaxSets \in Nat

Gen == 1 .. Cardinality(Run)

VARIABLES
    named,    \* the generation the names stand for, 0 if they are unlinked
    last,     \* the last generation so far
    sem0, sem1, shm,     \* semaphores and memory of each generation
    gen,      \* the generation each run has opened, 0 before it starts
    parent, child,       \* where both processes of each run are
    sets,     \* history: the lines each parent has generated
    results,  \* what each parent has printed
    count,    \* processed_count of each parent
    stopped   \* history: children that got SIGINT or were killed

vars == <<named, last, sem0, sem1, shm, gen, parent, child, sets, results, count, stopped>>

TypeOK ==
    /\ named \in 0 .. last /\ last \in 0 .. Cardinality(Run)
    /\ sem0 \in [Gen -> Nat] /\ sem1 \in [Gen -> Nat]
    /\ shm \in [Gen -> Seq(Number)]
    /\ gen \in [Run -> 0 .. last]
    /\ parent \in [Run -> {"off", "generate", "post", "wait", "print", "count", "exited"}]
    /\ child \in [Run -> {"off", "wait", "analyse", "post", "exited"}]
    /\ sets \in [Run -> Seq(Lines)] /\ results \in [Run -> Seq(Int \X Int)]
    /\ count \in [Run -> Nat]
    /\ \A r \in Run : /\ Len(results[r]) - 1 <= count[r] /\ count[r] <= Len(results[r])
                      /\ Len(results[r]) <= Len(sets[r])
                      /\ Len(sets[r]) <= MaxSets
    /\ stopped \subseteq Run

Init ==
    /\ named = 0 /\ last = 0
    /\ sem0 = [g \in Gen |-> 0] /\ sem1 = [g \in Gen |-> 0]
    /\ shm = [g \in Gen |-> <<>>]
    /\ gen = [r \in Run |-> 0]
    /\ parent = [r \in Run |-> "off"] /\ child = [r \in Run |-> "off"]
    /\ sets = [r \in Run |-> <<>>] /\ results = [r \in Run |-> <<>>]
    /\ count = [r \in Run |-> 0]
    /\ stopped = {}

-----------------------------------------------------------------------------

\* sem_open, sem_open, the memory, fork(), signal(): new semaphores have the value 0.
Start(r) ==
    /\ parent[r] = "off"
    /\ last' = IF named = 0 THEN last + 1 ELSE last
    /\ named' = last'
    /\ gen' = [gen EXCEPT ![r] = named']
    /\ parent' = [parent EXCEPT ![r] = "generate"]
    /\ child' = [child EXCEPT ![r] = "wait"]
    /\ UNCHANGED <<sem0, sem1, shm, sets, results, count, stopped>>

\* generate_line
Generate(r) ==
    /\ parent[r] = "generate"
    /\ Len(sets[r]) < MaxSets
    /\ \E line \in Lines : /\ shm' = [shm EXCEPT ![gen[r]] = line]
                           /\ sets' = [sets EXCEPT ![r] = Append(@, line)]
    /\ parent' = [parent EXCEPT ![r] = "post"]
    /\ UNCHANGED <<named, last, sem0, sem1, gen, child, results, count, stopped>>

ParentPost(r) ==
    /\ parent[r] = "post"
    /\ sem0' = [sem0 EXCEPT ![gen[r]] = @ + 1]
    /\ parent' = [parent EXCEPT ![r] = "wait"]
    /\ UNCHANGED <<named, last, sem1, shm, gen, child, sets, results, count, stopped>>

ParentWait(r) ==
    /\ parent[r] = "wait"
    /\ sem1[gen[r]] > 0
    /\ sem1' = [sem1 EXCEPT ![gen[r]] = @ - 1]
    /\ parent' = [parent EXCEPT ![r] = "print"]
    /\ UNCHANGED <<named, last, sem0, shm, gen, child, sets, results, count, stopped>>

\* print_line: the first two numbers there are.
Shown(line) == IF Len(line) = 1 THEN {line[1]} \X Garbage ELSE {SubSeq(line, 1, 2)}

PrintLine(r) ==
    /\ parent[r] = "print"
    /\ \E pair \in Shown(shm[gen[r]]) : results' = [results EXCEPT ![r] = Append(@, pair)]
    /\ parent' = [parent EXCEPT ![r] = "count"]
    /\ UNCHANGED <<named, last, sem0, sem1, shm, gen, child, sets, count, stopped>>

CountOne(r) == count' = [count EXCEPT ![r] = @ + 1]

\* processed_count++ and sleep.
Count(r) ==
    /\ parent[r] = "count"
    /\ CountOne(r)
    /\ parent' = [parent EXCEPT ![r] = "generate"]
    /\ UNCHANGED <<named, last, sem0, sem1, shm, gen, child, sets, results, stopped>>

-----------------------------------------------------------------------------
(* The child. *)

ChildWait(r) ==
    /\ child[r] = "wait"
    /\ sem0[gen[r]] > 0
    /\ sem0' = [sem0 EXCEPT ![gen[r]] = @ - 1]
    /\ child' = [child EXCEPT ![r] = "analyse"]
    /\ UNCHANGED <<named, last, sem1, shm, gen, parent, sets, results, count, stopped>>

Analyse(r) ==
    /\ child[r] = "analyse"
    /\ shm' = [shm EXCEPT ![gen[r]] = analyze_line(@)]
    /\ child' = [child EXCEPT ![r] = "post"]
    /\ UNCHANGED <<named, last, sem0, sem1, gen, parent, sets, results, count, stopped>>

\* Mutant: the child gives the turn to itself.
ChildPostOwn(r) ==
    /\ child[r] = "post"
    /\ sem0' = [sem0 EXCEPT ![gen[r]] = @ + 1]
    /\ child' = [child EXCEPT ![r] = "wait"]
    /\ UNCHANGED <<named, last, sem1, shm, gen, parent, sets, results, count, stopped>>

ChildPost(r) ==
    /\ child[r] = "post"
    /\ sem1' = [sem1 EXCEPT ![gen[r]] = @ + 1]
    /\ child' = [child EXCEPT ![r] = "wait"]
    /\ UNCHANGED <<named, last, sem0, shm, gen, parent, sets, results, count, stopped>>

-----------------------------------------------------------------------------
(* Signals: ^C reaches both processes, one after the other in either order, and  *)
(* kill reaches one.                                                             *)

\* sigint_handler of the child posts sem1, whatever the child was doing.
ChildInt(r) ==
    /\ Signals
    /\ child[r] \notin {"off", "exited"}
    /\ sem1' = [sem1 EXCEPT ![gen[r]] = @ + 1]
    /\ child' = [child EXCEPT ![r] = "exited"]
    /\ stopped' = stopped \cup {r}
    /\ UNCHANGED <<named, last, sem0, shm, gen, parent, sets, results, count>>

\* sigint_handler of the parent prints the count and unlinks the names.
ParentInt(r) ==
    /\ Signals
    /\ parent[r] \notin {"off", "exited"}
    /\ named' = 0
    /\ parent' = [parent EXCEPT ![r] = "exited"]
    /\ UNCHANGED <<last, sem0, sem1, shm, gen, child, sets, results, count, stopped>>

KillChild(r) ==
    /\ Kills
    /\ child[r] \notin {"off", "exited"}
    /\ child' = [child EXCEPT ![r] = "exited"]
    /\ stopped' = stopped \cup {r}
    /\ UNCHANGED <<named, last, sem0, sem1, shm, gen, parent, sets, results, count>>

KillParent(r) ==
    /\ Kills
    /\ parent[r] \notin {"off", "exited"}
    /\ parent' = [parent EXCEPT ![r] = "exited"]
    /\ UNCHANGED <<named, last, sem0, sem1, shm, gen, child, sets, results, count, stopped>>

ParentStep(r) == Generate(r) \/ ParentPost(r) \/ ParentWait(r) \/ PrintLine(r) \/ Count(r)
ChildStep(r) == ChildWait(r) \/ Analyse(r) \/ ChildPost(r)

Next ==
    \E r \in Run :
        \/ Start(r) \/ ParentStep(r) \/ ChildStep(r)
        \/ ChildInt(r) \/ ParentInt(r) \/ KillChild(r) \/ KillParent(r)

Spec == Init /\ [][Next]_vars
Fairness == \A r \in Run : WF_vars(ParentStep(r)) /\ WF_vars(ChildStep(r))

-----------------------------------------------------------------------------
(* Properties. *)

\* The run that alone has opened its generation.
Alone(r) == gen[r] # 0 /\ \A q \in Run \ {r} : gen[q] # gen[r]

\* In a generation of one run, parent and child are never both at the shared memory,
\* signals or not; and while both live there is one turn: a semaphore or a process has it.
Turns ==
    \A r \in Run : Alone(r) =>
        /\ ~ (parent[r] \in {"generate", "print"} /\ child[r] = "analyse")
        /\ (parent[r] # "exited" /\ child[r] # "exited") =>
              sem0[gen[r]] + sem1[gen[r]]
                + (IF parent[r] # "wait" THEN 1 ELSE 0)
                + (IF child[r] # "wait" THEN 1 ELSE 0) = 1

\* What a parent prints are the bounds of its own lines, in order, as long as its child
\* lives and no other run uses its semaphores.
ResultsRight ==
    \A r \in Run : (Alone(r) /\ r \notin stopped) =>
        \A k \in 1 .. Len(results[r]) :
            LET line == ToSet(sets[r][k]) IN
            /\ results[r][k][1] \in line /\ results[r][k][2] \in line
            /\ \A n \in line : results[r][k][1] <= n /\ n <= results[r][k][2]

\* Without signals every set that was generated is printed.
SetsGoThrough ==
    \A r \in Run : \A n \in 1 .. MaxSets :
        Len(sets[r]) = n ~> (Len(results[r]) >= n /\ count[r] >= n)
=============================================================================
