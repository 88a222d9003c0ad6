------------------------------ MODULE FileSem ------------------------------
(***************************************************************************)
(* The producers and consumers of module3/08.  Every process takes a list  *)
(* of files; a System V semaphore, found by ftok() of the file's name,     *)
(* guards each.  ftok() of a file that does not exist is -1, and semget()  *)
(* takes -1 for a key like any other.                                      *)
(***************************************************************************)
EXTENDS AnalyzeLine, FiniteSets

CONSTANTS
    Producer, Consumer,
    File,       \* file names
    NoFile,     \* the key -1
    Files,      \* the arguments of each process: a sequence of files
    Existing,   \* files that exist before anything runs
    Lines,      \* lines generate_line() may return: sequences of numbers
    MaxLines,   \* bound: producers leave alone a file of so many lines
    Kills       \* whether processes may be killed

Process == Producer \cup Consumer

ConstantAssumption ==
    /\ Producer \cap Consumer = {} /\ IsFiniteSet(Process)
    /\ NoFile \notin File
    /\ Files \in [Process -> Seq(File) \ {<<>>}]
    /\ Existing \subseteq File
    /\ Lines \subseteq (Seq(Number) \ {<<>>}) /\ MaxLines \in Nat
    /\ Kills \in BOOLEAN

VARIABLES
    file,      \* the lines of each file
    exists,    \* the files that exist
    sem,       \* the value of the semaphore of each key
    pc,        \* where each process is
    at,        \* the file it is at: i in both programs
    key,       \* semaphores of each process
    offset,    \* lines of its files each consumer has read up to ftell()
    out,       \* what each consumer has printed about each of its files
    broken,    \* history: semaphores set while a process was inside
    orphaned   \* history: semaphores whose last holder was killed

vars == <<file, exists, sem, pc, at, key, offset, out, broken, orphaned>>

Key == File \cup {NoFile}
Name(p) == Files[p][at[p]]
MyKey(p) == key[p][at[p]]
Reader == UNION {{c} \X DOMAIN Files[c] : c \in Consumer}
Inside(k) == {p \in Process : pc[p] \in {"open", "use", "post"} /\ MyKey(p) = k}

TypeOK ==
    /\ file \in [File -> Seq(Lines)]
    /\ exists \subseteq File
    /\ sem \in [Key -> 0 .. Cardinality(Process) + 1]
    /\ pc \in [Process -> {"off", "key", "set", "wait", "open", "use", "post"}]
    /\ at \in [Process -> Nat] /\ key \in [Process -> Seq(Key)]
    /\ \A p \in Process : at[p] \in DOMAIN Files[p] /\ DOMAIN key[p] = DOMAIN Files[p]
    /\ offset \in [Reader -> Nat] /\ out \in [Reader -> Seq(Number \X Number)]
    /\ \A r \in Reader : offset[r] <= Len(file[Files[r[1]][r[2]]])
    /\ broken \subseteq Key
    /\ orphaned \subseteq Key

Init ==
    /\ file = [f \in File |-> <<>>]
    /\ exists = Existing
    /\ sem = [k \in Key |-> 0]
    /\ pc = [p \in Process |-> "off"]
    /\ at = [p \in Process |-> 1]
    /\ key = [p \in Process |-> [i \in DOMAIN Files[p] |-> NoFile]]
    /\ offset = [r \in Reader |-> 0]
    /\ out = [r \in Reader |-> <<>>]
    /\ broken = {}
    /\ orphaned = {}

-----------------------------------------------------------------------------
(* Both programs. *)

\* The program starts.
Start(p) ==
    /\ pc[p] = "off"
    /\ pc' = [pc EXCEPT ![p] = "key"]
    /\ UNCHANGED <<file, exists, sem, at, key, offset, out, broken, orphaned>>

\* sem_init: the semaphore of the file's name, or of -1.
GetKey(p) ==
    /\ pc[p] = "key"
    /\ key' = [key EXCEPT ![p][at[p]] = IF Name(p) \in exists THEN Name(p) ELSE NoFile]
    /\ pc' = [pc EXCEPT ![p] = "set"]
    /\ UNCHANGED <<file, exists, sem, at, offset, out, broken, orphaned>>

\* sem_set: the value becomes 1, whoever is inside.
SetSem(p) ==
    /\ pc[p] = "set"
    /\ sem' = [sem EXCEPT ![MyKey(p)] = 1]
    /\ broken' = IF Inside(MyKey(p)) = {} THEN broken \ {MyKey(p)} ELSE broken \cup {MyKey(p)}
    /\ orphaned' = orphaned \ {MyKey(p)}
    /\ IF at[p] < Len(Files[p])
         THEN at' = [at EXCEPT ![p] = @ + 1] /\ pc' = [pc EXCEPT ![p] = "key"]
         ELSE at' = [at EXCEPT ![p] = 1] /\ pc' = [pc EXCEPT ![p] = "wait"]
    /\ UNCHANGED <<file, exists, key, offset, out>>

\* semop(-1) waits for a positive value.
Down(k) == sem[k] > 0 /\ sem' = [sem EXCEPT ![k] = @ - 1]

SemWait(p) ==
    /\ pc[p] = "wait"
    /\ p \in Producer => Len(file[Name(p)]) < MaxLines
    /\ Down(MyKey(p))
    /\ pc' = [pc EXCEPT ![p] = "open"]
    /\ UNCHANGED <<file, exists, at, key, offset, out, broken, orphaned>>

\* The loop over the files.
NextFile(p) == IF at[p] < Len(Files[p]) THEN at[p] + 1 ELSE 1

\* sem_post, then the next file; after the last one, sleep and the first again.
SemPost(p) ==
    /\ pc[p] = "post"
    /\ sem' = [sem EXCEPT ![MyKey(p)] = @ + 1]
    /\ at' = [at EXCEPT ![p] = NextFile(p)]
    /\ pc' = [pc EXCEPT ![p] = "wait"]
    /\ UNCHANGED <<file, exists, key, offset, out, broken, orphaned>>

\* SIGINT or SIGKILL, wherever the process is: semop was called without SEM_UNDO.  Only
\* the semaphore remembers the process.
Kill(p) ==
    /\ Kills
    /\ pc[p] # "off"
    /\ orphaned' = IF p \in Inside(MyKey(p)) THEN orphaned \cup {MyKey(p)} ELSE orphaned
    /\ pc' = [pc EXCEPT ![p] = "off"]
    /\ at' = [at EXCEPT ![p] = 1]
    /\ key' = [key EXCEPT ![p] = [i \in DOMAIN Files[p] |-> NoFile]]
    /\ offset' = [r \in Reader |-> IF r[1] = p THEN 0 ELSE offset[r]]
    /\ out' = [r \in Reader |-> IF r[1] = p THEN <<>> ELSE out[r]]
    /\ UNCHANGED <<file, exists, sem, broken>>

-----------------------------------------------------------------------------
(* producer.c *)

\* open() with O_CREAT.
Create(p) ==
    /\ pc[p] = "open"
    /\ exists' = exists \cup {Name(p)}
    /\ pc' = [pc EXCEPT ![p] = "use"]
    /\ UNCHANGED <<file, sem, at, key, offset, out, broken, orphaned>>

\* write() with O_APPEND, and close().
WriteLine(p) ==
    /\ pc[p] = "use"
    /\ \E line \in Lines : file' = [file EXCEPT ![Name(p)] = Append(@, line)]
    /\ pc' = [pc EXCEPT ![p] = "post"]
    /\ UNCHANGED <<exists, sem, at, key, offset, out, broken, orphaned>>

-----------------------------------------------------------------------------
(* consumer.c *)

\* fopen() and fseek(); a file that cannot be opened is left for the next round.
OpenRead(c) ==
    /\ pc[c] = "open"
    /\ pc' = [pc EXCEPT ![c] = IF Name(c) \in exists THEN "use" ELSE "post"]
    /\ UNCHANGED <<file, exists, sem, at, key, offset, out, broken, orphaned>>

Here(c) == <<c, at[c]>>

\* fgets() has another line: it is analysed.
ReadLine(c) ==
    /\ pc[c] = "use"
    /\ offset[Here(c)] < Len(file[Name(c)])
    /\ out' = [out EXCEPT ![Here(c)] = Append(@, analyze_line(file[Name(c)][offset[Here(c)] + 1]))]
    /\ offset' = [offset EXCEPT ![Here(c)] = @ + 1]
    /\ UNCHANGED <<file, exists, sem, pc, at, key, broken, orphaned>>

\* End of file: ftell() and fclose().
ReadEnd(c) ==
    /\ pc[c] = "use"
    /\ offset[Here(c)] = Len(file[Name(c)])
    /\ pc' = [pc EXCEPT ![c] = "post"]
    /\ UNCHANGED <<file, exists, sem, at, key, offset, out, broken, orphaned>>

Setup(p) == GetKey(p) \/ SetSem(p)

Work(p) ==
    \/ SemPost(p)
    \/ p \in Producer /\ (Create(p) \/ WriteLine(p))
    \/ p \in Consumer /\ (OpenRead(p) \/ ReadLine(p) \/ ReadEnd(p))

Next == \E p \in Process : Start(p) \/ Setup(p) \/ SemWait(p) \/ Work(p) \/ Kill(p)

Spec == Init /\ [][Next]_vars

\* Processes run; the kernel serves the waiters of a semaphore in their order.
Fairness ==
    \A p \in Process : WF_vars(Setup(p)) /\ WF_vars(Work(p)) /\ SF_vars(SemWait(p))

-----------------------------------------------------------------------------
(* Properties. *)

\* The semaphore of a key that nobody has set while a process was inside, and whose
\* holder was not killed, and which has been set at all: one process inside, or the
\* value 1.  So access excludes, and no path forgets sem_post.
OneToken ==
    \A k \in Key \ (broken \cup orphaned) :
        (\E p \in Process : pc[p] \in {"wait", "open", "use", "post"} /\ MyKey(p) = k)
            => sem[k] + Cardinality(Inside(k)) = 1

\* Each consumer prints the bounds of every line once and in order, whatever happens
\* to the semaphores.
Log == INSTANCE LineLog WITH Of <- LAMBDA r : Files[r[1]][r[2]]
LogSpec == Log!Spec

\* A consumer that runs analyses every line of its files.
LinesAnalysed ==
    \A c \in Consumer : \A i \in DOMAIN Files[c] : \A n \in 1 .. MaxLines :
        (pc[c] # "off" /\ Len(file[Files[c][i]]) >= n) ~> Len(out[<<c, i>>]) >= n
=============================================================================
