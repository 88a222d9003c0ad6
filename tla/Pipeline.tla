------------------------------ MODULE Pipeline ------------------------------
(***************************************************************************)
(* The command interpreter of module3/04.  A line is a sequence of         *)
(* commands joined by pipes; the interpreter forks a process for a command *)
(* and waits for it before it forks the next one.  A pipe holds at most    *)
(* PipeSize items, and there is one file that commands redirect to and     *)
(* from.                                                                   *)
(*                                                                         *)
(* Programs are external: gen writes its argument that many times, cat     *)
(* copies, head copies as many items as its argument says, false fails,    *)
(* missing is no program.  "?" and "exit" belong to the interpreter; blank *)
(* is a command without a word and empty one without a character.          *)
(***************************************************************************)
EXTENDS Naturals, Sequences, SequencesExt

CONSTANTS
    Lines,      \* lines a user types, sequences of commands [prog, arg, redir]
    PipeSize,   \* items that a pipe holds
    MaxFile,    \* bound: no line is typed when the file is longer
    Garbage     \* what an uninitialised descriptor names: "other" or "stdin"

Command ==
    [prog : {"gen", "cat", "head", "false", "missing", "?", "exit", "blank", "empty"},
     arg : Nat, redir : {"no", ">", ">>", "<"}]

\* cat reads as long as there is something, and has no argument.
ASSUME ConstantAssumption ==
    /\ PipeSize \in Nat \ {0} /\ MaxFile \in Nat
    /\ Lines \subseteq Seq(Command)
    /\ \A l \in Lines : \A k \in 1 .. Len(l) : l[k].prog = "cat" => l[k].arg > 0
    /\ Garbage \subseteq {"other", "stdin"} /\ Garbage # {}

VARIABLES
    phase,      \* "prompt", "fork", "run" (a child runs and is waited for) or "ended"
    args,       \* the commands of the line, or of the last one at the prompt
    i,          \* the command that is run
    prev,       \* what prev_read_pipe_fd has to read
    prevOpen,   \* whether the interpreter has the write end of that pipe open
    pipe,       \* what the pipe to the next command holds
    child,      \* the child: items to go, item in hand, place in the file, exit status
    file,       \* the file: its contents, and whether it is there
    screen,     \* what this line has put on the terminal
    rv,         \* the status of the last wait
    slot,       \* what pipe_fd holds: "garbage" before the first pipe, "pipe"
    stdin,      \* whether the interpreter's input is open
    before      \* history: file and rv when the line was typed

vars == <<phase, args, i, prev, prevOpen, pipe, child, file, screen, rv, slot, stdin, before>>

Running == 999    \* no exit status
Idle == [left |-> 0, hold |-> <<>>, pos |-> 0, status |-> Running]
Exited(s) == [Idle EXCEPT !.status = s]

TypeOK ==
    /\ phase \in {"prompt", "fork", "run", "ended"}
    /\ i \in 1 .. Len(args) + 1
    /\ \A s \in {prev, pipe, screen, file.items, before.file.items} : s \in Seq(Nat)
    /\ Len(pipe) <= PipeSize
    /\ child \in [left : Nat, hold : {<<>>} \cup Seq(Nat), pos : Nat, status : Nat]
    /\ Len(child.hold) <= 1
    /\ file.there \in BOOLEAN /\ prevOpen \in BOOLEAN /\ stdin \in BOOLEAN
    /\ rv \in {0, 139, 256}
    /\ slot \in {"garbage", "pipe"}

Init ==
    /\ phase = "prompt"
    /\ args = <<>>
    /\ i = 1
    /\ prev = <<>> /\ prevOpen = FALSE /\ pipe = <<>>
    /\ child = Idle
    /\ file = [items |-> <<>>, there |-> FALSE]
    /\ screen = <<>>
    /\ rv = 0
    /\ slot = "garbage"
    /\ stdin = TRUE
    /\ before = [file |-> file, rv |-> rv]

-----------------------------------------------------------------------------
(* The line. *)

\* parseArgs is called while the offset is not 0: a line that starts with "|" or is empty
\* runs nothing, a "|" at the end is dropped, and an empty command elsewhere is a blank one.
Commands(line) ==
    LET cut == IF Len(line) > 1 /\ Last(line).prog = "empty" THEN Front(line) ELSE line
    IN  IF line = <<>> \/ line[1].prog = "empty" THEN <<>> ELSE cut

Type ==
    /\ phase = "prompt" /\ stdin
    /\ Len(file.items) <= MaxFile
    /\ \E line \in Lines :
          /\ args' = Commands(line)
          /\ phase' = IF args' = <<>> THEN "prompt" ELSE "fork"
    /\ i' = 1
    /\ prev' = <<>> /\ prevOpen' = FALSE /\ pipe' = <<>>
    /\ screen' = <<>>
    /\ before' = [file |-> file, rv |-> rv]
    /\ UNCHANGED <<child, file, rv, slot, stdin>>

EndOfInput ==
    /\ phase = "prompt"
    /\ phase' = "ended"
    /\ UNCHANGED <<args, i, prev, prevOpen, pipe, child, file, screen, rv, slot, stdin, before>>

-----------------------------------------------------------------------------
(* Starting a command. *)

cmd == args[i]
IsLast == i = Len(args)

\* open() of a redirection fails for a file that is not there, except with ">".
OpenFails(c) == c.redir \in {">>", "<"} /\ ~ file.there

\* Mutant: exit(-1).
ExecFailedMinus == Exited(65280)

\* execvp returns, or a redirection fails: exit(EXIT_FAILURE).
ExecFailed == Exited(256)

\* What the child is when it has set up its descriptors and called execvp.
Started(c) ==
    CASE c.prog \in {"blank", "empty"} -> Exited(139)
      [] c.prog \notin {"blank", "empty"} /\ OpenFails(c) -> ExecFailed
      [] c.prog \in {"missing", "false"} /\ ~ OpenFails(c) -> ExecFailed
      [] c.prog = "exit" /\ ~ OpenFails(c) -> Exited(0)
      [] c.prog = "?" /\ ~ OpenFails(c) -> [Idle EXCEPT !.hold = <<rv>>]
      [] c.prog \in {"gen", "cat", "head"} /\ ~ OpenFails(c) -> [Idle EXCEPT !.left = c.arg]

\* Mutant: the write end stays open in the interpreter.
ClosesWriteEndNot == FALSE

ClosesWriteEnd == TRUE

\* pipe(), fork(), the child's descriptors, and what the interpreter closes before it
\* waits.  pipe_fd is not initialised when the line has one command: the descriptor that
\* is closed is then whatever was there.
Fork ==
    /\ phase = "fork"
    /\ child' = Started(cmd)
    /\ file' = IF cmd.redir = ">" /\ cmd.prog \notin {"blank", "empty"} THEN [file EXCEPT !.there = TRUE] ELSE file
    /\ pipe' = <<>>
    /\ slot' = IF IsLast THEN slot ELSE "pipe"
    /\ \E g \in IF slot' = "pipe" THEN {"other"} ELSE Garbage : stdin' = (stdin /\ g # "stdin")
    /\ phase' = "run"
    /\ UNCHANGED <<args, i, prev, prevOpen, screen, rv, before>>

-----------------------------------------------------------------------------
(* The child. *)

ReadsFile == cmd.redir = "<"
Input == IF ReadsFile THEN SubSeq(file.items, child.pos + 1, Len(file.items)) ELSE prev

\* The end of the input; a terminal is taken to give it at once.
AtEnd == Input = <<>> /\ (ReadsFile \/ ~ prevOpen)

Runs == phase = "run" /\ child.status = Running

Take ==
    /\ Runs /\ child.left > 0 /\ child.hold = <<>>
    /\ IF cmd.prog = "gen"
       THEN child' = [child EXCEPT !.hold = <<cmd.arg>>, !.left = @ - 1] /\ UNCHANGED prev
       ELSE /\ Input # <<>>
            /\ child' = [child EXCEPT !.hold = <<Head(Input)>>,
                                      !.left = IF cmd.prog = "head" THEN @ - 1 ELSE @,
                                      !.pos = IF ReadsFile THEN @ + 1 ELSE @]
            /\ prev' = IF ReadsFile THEN prev ELSE Tail(prev)
    /\ UNCHANGED <<phase, args, i, prevOpen, pipe, file, screen, rv, slot, stdin, before>>

\* Without O_TRUNC what is written replaces the contents from the start.
Overwritten(s, pos, x) == IF pos < Len(s) THEN ReplaceAt(s, pos + 1, x) ELSE Append(s, x)

\* Mutant: the output of a redirected command goes to the pipe as well as to the file.
ToPipeToo == ~ IsLast

\* The pipe is the output of a command that is not the last, unless it is redirected.
ToPipe == ~ IsLast /\ cmd.redir \notin {">", ">>"}
ToFile == cmd.redir \in {">", ">>"}

Put ==
    /\ Runs /\ child.hold # <<>>
    /\ LET x == Head(child.hold) IN
       /\ IF ToPipe THEN Len(pipe) < PipeSize /\ pipe' = Append(pipe, x) ELSE UNCHANGED pipe
       /\ file' = CASE cmd.redir = ">" -> [file EXCEPT !.items = Overwritten(@, child.pos, x)]
                    [] cmd.redir = ">>" -> [file EXCEPT !.items = Append(@, x)]
                    [] OTHER -> file
       /\ screen' = IF ToPipe \/ ToFile THEN screen ELSE Append(screen, x)
       /\ child' = [child EXCEPT !.hold = <<>>, !.pos = IF ToFile THEN @ + 1 ELSE @]
    /\ UNCHANGED <<phase, args, i, prev, prevOpen, rv, slot, stdin, before>>

Exit ==
    /\ Runs /\ child.hold = <<>>
    /\ child.left = 0 \/ (cmd.prog # "gen" /\ AtEnd)
    /\ child' = Exited(0)
    /\ UNCHANGED <<phase, args, i, prev, prevOpen, pipe, file, screen, rv, slot, stdin, before>>

-----------------------------------------------------------------------------

\* wait(&rv), then the next command, or the prompt.
Wait ==
    /\ phase = "run" /\ child.status # Running
    /\ rv' = child.status
    /\ child' = Idle
    /\ prev' = pipe
    /\ prevOpen' = ~ ClosesWriteEnd
    /\ pipe' = <<>>
    /\ i' = i + 1
    /\ phase' = IF IsLast THEN "prompt" ELSE "fork"
    /\ UNCHANGED <<args, file, screen, slot, stdin, before>>

Next == Type \/ EndOfInput \/ Fork \/ Take \/ Put \/ Exit \/ Wait

Spec == Init /\ [][Next]_vars

\* Processes run; nobody has to type.
Fairness == WF_vars(Fork \/ Take \/ Put \/ Exit \/ Wait) /\ WF_vars(~ stdin /\ EndOfInput)

-----------------------------------------------------------------------------
(* What a line means, command by command. *)

\* A command that does not run, its input, and what it writes when it does run.
Fails(s, c) ==
    \/ c.prog \in {"blank", "empty", "missing", "false"}
    \/ c.redir \in {">>", "<"} /\ ~ s.file.there
Given(s, c) == IF c.redir = "<" THEN s.file.items ELSE s.inp
Written(s, c) ==
    CASE Fails(s, c) \/ c.prog = "exit" -> <<>>
      [] ~ Fails(s, c) /\ c.prog = "gen" -> [k \in 1 .. c.arg |-> c.arg]
      [] ~ Fails(s, c) /\ c.prog = "cat" -> Given(s, c)
      [] ~ Fails(s, c) /\ c.prog = "head" ->
            SubSeq(Given(s, c), 1, IF c.arg < Len(Given(s, c)) THEN c.arg ELSE Len(Given(s, c)))
      [] ~ Fails(s, c) /\ c.prog = "?" -> <<s.rv>>

\* The file of a command that has written w: ">" leaves the rest of the old contents.
Opens(c) == c.redir = ">" /\ c.prog \notin {"blank", "empty"}
Stored(s, c, w) ==
    [items |-> CASE Opens(c) -> w \o SubSeq(s.file.items, Len(w) + 1, Len(s.file.items))
                 [] c.redir = ">>" -> s.file.items \o w
                 [] OTHER -> s.file.items,
     there |-> s.file.there \/ Opens(c)]

\* The effect of one command on the input of the next one, the file and the status.
Effect(s, c) ==
    [inp  |-> IF c.redir \in {">", ">>"} THEN <<>> ELSE Written(s, c),
     file |-> Stored(s, c, Written(s, c)),
     rv   |-> IF c.prog \in {"blank", "empty"} THEN 139 ELSE IF Fails(s, c) THEN 256 ELSE 0]

Meaning(line) == FoldLeft(Effect, [inp |-> <<>>, file |-> before.file, rv |-> before.rv], line)

-----------------------------------------------------------------------------
(* Properties. *)

Finished == phase = "prompt" /\ args # <<>>

\* After a line the screen, the file and the status are what its commands mean one after
\* the other: nothing is lost or doubled in the pipes and the redirections, whatever
\* stands before, between and after.
OutputRight ==
    Finished => LET m == Meaning(args) IN screen = m.inp /\ file = m.file /\ rv = m.rv

\* A line whose commands write no more than the pipes hold comes to an end.
LineEnds == phase = "fork" ~> phase = "prompt"
=============================================================================
