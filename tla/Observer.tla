------------------------------ MODULE Observer ------------------------------
(***************************************************************************)
(* observer.sh (module1/task3): for each line of its configuration it      *)
(* looks through /proc for a process whose command line contains the name  *)
(* of the script, and starts the script if there is none.  The observer is *)
(* started again and again; one may begin before another has ended.        *)
(***************************************************************************)
EXTENDS Naturals, Sequences

CONSTANTS
    Observers, Pids,    \* bound: a process waits for a free pid
    Scripts, Missing,   \* the lines of observer.conf, and those that name no file
    Contains,           \* per script: the scripts whose name contains its name
    MaxRuns             \* bound: runs of observers

ConstantAssumption ==
    /\ 0 \notin Pids
    /\ Len(Scripts) \in Nat /\ DOMAIN Scripts = 1 .. Len(Scripts)
    /\ \A i \in DOMAIN Scripts :
          Scripts[i] \in Contains[Scripts[i]] /\ "none" \notin Contains[Scripts[i]]

VARIABLES
    proc,               \* per pid: what runs, a script or the search for one, or Free
    at, step,           \* per observer: its line (0: not running) and what it does there
    list,               \* pids that the shell found in /proc and that are still to be looked at
    look, grep,         \* the pid looked at, and that of the grep that looks
    runs, overlapped    \* bound; history: two observers have run at once

vars == <<proc, at, step, list, look, grep, runs, overlapped>>

Free == <<"none", "none">>

Init ==
    /\ proc = [p \in Pids |-> Free]
    /\ at = [o \in Observers |-> 0] /\ step = [o \in Observers |-> "line"]
    /\ list = [o \in Observers |-> {}]
    /\ look = [o \in Observers |-> 0] /\ grep = [o \in Observers |-> 0]
    /\ runs = 0 /\ overlapped = FALSE

Script(o) == Scripts[at[o]]
Running == {p \in Pids : proc[p] # Free}
\* grep -q "$script_name" finds the name anywhere, in the command line of another grep too.
Matches(s, p) == proc[p][2] \in Contains[s]
\* A pid is given again only when nobody has it listed.
FreshPids == {p \in Pids : proc[p] = Free /\ \A o \in Observers : p \notin list[o]}
Goto(o, s) == step' = [step EXCEPT ![o] = s]
NextLine(o) == at' = [at EXCEPT ![o] = (@ + 1) % (Len(Scripts) + 1)] /\ Goto(o, "line")

-----------------------------------------------------------------------------

Begin(o) ==
    /\ at[o] = 0 /\ runs < MaxRuns /\ Len(Scripts) > 0
    /\ at' = [at EXCEPT ![o] = 1]
    /\ runs' = runs + 1
    /\ overlapped' = (overlapped \/ \E other \in Observers : at[other] > 0)
    /\ UNCHANGED <<proc, step, list, look, grep>>

NoFile(o) ==
    /\ at[o] > 0 /\ step[o] = "line" /\ Script(o) \in Missing
    /\ NextLine(o)
    /\ UNCHANGED <<proc, list, look, grep, runs, overlapped>>

\* Mutant: the processes are listed once, for the first line.
ListedOnce(o) == IF at[o] = 1 THEN Running ELSE {}
Listed(o) == Running

List(o) ==
    /\ at[o] > 0 /\ step[o] = "line" /\ Script(o) \notin Missing
    /\ list' = [list EXCEPT ![o] = Listed(o)]
    /\ Goto(o, "scan")
    /\ UNCHANGED <<proc, at, look, grep, runs, overlapped>>

\* [ -f "$proc/cmdline" ], and a grep that is a process itself.
Look(o) ==
    /\ step[o] = "scan"
    /\ \E p \in list[o] :
          /\ list' = [list EXCEPT ![o] = @ \ {p}]
          /\ IF proc[p] = Free THEN UNCHANGED <<proc, step, look, grep>>
             ELSE \E q \in FreshPids :
                     /\ proc' = [proc EXCEPT ![q] = <<"grep", Script(o)>>]
                     /\ grep' = [grep EXCEPT ![o] = q] /\ look' = [look EXCEPT ![o] = p]
                     /\ Goto(o, "grep")
    /\ UNCHANGED <<at, runs, overlapped>>

Grep(o) ==
    /\ step[o] = "grep"
    /\ proc' = [proc EXCEPT ![grep[o]] = Free]
    /\ grep' = [grep EXCEPT ![o] = 0] /\ look' = [look EXCEPT ![o] = 0]
    /\ IF Matches(Script(o), look[o])
       THEN NextLine(o) /\ list' = [list EXCEPT ![o] = {}]
       ELSE Goto(o, "scan") /\ UNCHANGED <<at, list>>
    /\ UNCHANGED <<runs, overlapped>>

Launch(o) ==
    /\ step[o] = "scan" /\ list[o] = {}
    /\ \E q \in FreshPids : proc' = [proc EXCEPT ![q] = <<"script", Script(o)>>]
    /\ NextLine(o)
    /\ UNCHANGED <<list, look, grep, runs, overlapped>>

ScriptEnds(p) ==
    /\ proc[p][1] = "script" /\ proc' = [proc EXCEPT ![p] = Free]
    /\ UNCHANGED <<at, step, list, look, grep, runs, overlapped>>

Next ==
    \/ \E o \in Observers : Begin(o) \/ NoFile(o) \/ List(o) \/ Look(o) \/ Grep(o) \/ Launch(o)
    \/ \E p \in Pids : ScriptEnds(p)

Spec == Init /\ [][Next]_vars

-----------------------------------------------------------------------------
(* Properties *)

\* Every variable has its type.
TypeOK ==
    /\ proc \in [Pids -> {Free} \cup ({"script", "grep"} \X {Scripts[i] : i \in DOMAIN Scripts})]
    /\ at \in [Observers -> 0 .. Len(Scripts)]
    /\ step \in [Observers -> {"line", "scan", "grep"}]
    /\ list \in [Observers -> SUBSET Pids] /\ {look[o] : o \in Observers} \subseteq Pids \cup {0}

\* As long as no two observers have overlapped, none starts a script that runs, or whose
\* name is in that of one that runs, though scripts end while it looks; and none leaves a
\* script alone because of anything but a script.
DecidesRight ==
    [][\A o \in Observers :
          ~overlapped' =>
             /\ Launch(o) => \A p \in Running : ~Matches(Script(o), p)
             /\ Grep(o) /\ step'[o] = "line" => proc[look[o]][1] = "script"]_vars
=============================================================================
