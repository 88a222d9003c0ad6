----------------------------- MODULE ForkOutput -----------------------------
(***************************************************************************)
(* module3/01: a program that prints its arguments in two processes, the   *)
(* child the first half and the parent the rest.  Standard output has a    *)
(* buffer in each process: fork copies it and _exit forgets it.            *)
(***************************************************************************)
EXTENDS Naturals, Sequences

CONSTANTS
    MaxArgs,      \* argc, the name of the program included
    BufLines      \* the lines that the buffer holds when the output is no terminal

ConstantAssumption == MaxArgs \in Nat \ {0} /\ BufLines \in Nat \ {0}

Process == {"parent", "child"}

VARIABLES
    argc, terminal,    \* how the program was started
    pc, i, buffer,     \* of each process: what it does, its index, its output not yet written
    out                \* what was printed: arguments and the other two lines

vars == <<argc, terminal, pc, i, buffer, out>>

Header == "Main PID"
Returned == "Child returned"

Init ==
    /\ argc = 1 /\ terminal = TRUE
    /\ pc = [p \in Process |-> IF p = "parent" THEN "off" ELSE "none"]
    /\ i = [p \in Process |-> 0]
    /\ buffer = [p \in Process |-> <<>>]
    /\ out = <<>>

Goto(p, s) == pc' = [pc EXCEPT ![p] = s]

\* A full buffer is written before the line that no longer fits; on a terminal each line is.
PutLine(p, line) ==
    IF terminal THEN out' = Append(out, line) /\ UNCHANGED buffer
    ELSE IF Len(buffer[p]) < BufLines
    THEN buffer' = [buffer EXCEPT ![p] = Append(@, line)] /\ UNCHANGED out
    ELSE out' = out \o buffer[p] /\ buffer' = [buffer EXCEPT ![p] = <<line>>]

\* exit writes what is left, _exit does not.
Exit(p) == out' = out \o buffer[p] /\ buffer' = [buffer EXCEPT ![p] = <<>>]

Start ==
    /\ pc["parent"] = "off" /\ Goto("parent", "start")
    /\ argc' \in 1 .. MaxArgs /\ terminal' \in BOOLEAN
    /\ UNCHANGED <<i, buffer, out>>

Announce ==
    /\ pc["parent"] = "start"
    /\ IF argc <= 1 THEN Goto("parent", "done") /\ UNCHANGED <<buffer, out>>
                    ELSE Goto("parent", "fork") /\ PutLine("parent", <<Header, 0>>)
    /\ UNCHANGED <<argc, terminal, i>>

Fork ==
    /\ pc["parent"] = "fork"
    /\ \/ /\ pc' = [p \in Process |-> "loop"]
          /\ i' = [p \in Process |-> IF p = "child" THEN 0 ELSE argc \div 2]
          /\ buffer' = [buffer EXCEPT !["child"] = buffer["parent"]]
          /\ UNCHANGED out
       \/ Exit("parent") /\ Goto("parent", "failed") /\ UNCHANGED i
    /\ UNCHANGED <<argc, terminal>>

\* Mutant: the child goes one argument further.
UpToMore(p) == IF p = "child" THEN argc \div 2 + 1 ELSE argc
UpTo(p) == IF p = "child" THEN argc \div 2 ELSE argc

ProcessArg(p) ==
    /\ pc[p] = "loop" /\ i[p] < UpTo(p)
    /\ PutLine(p, <<"argument", i[p]>>)
    /\ i' = [i EXCEPT ![p] = @ + 1]
    /\ UNCHANGED <<argc, terminal, pc>>

ChildExit ==
    /\ pc["child"] = "loop" /\ i["child"] >= UpTo("child")
    /\ Goto("child", "done")
    /\ UNCHANGED <<argc, terminal, i, buffer, out>>

Wait ==
    /\ pc["parent"] = "loop" /\ i["parent"] >= UpTo("parent") /\ pc["child"] = "done"
    /\ PutLine("parent", <<Returned, 0>>)
    /\ Goto("parent", "exit")
    /\ UNCHANGED <<argc, terminal, i>>

ParentExit ==
    /\ pc["parent"] = "exit"
    /\ Exit("parent")
    /\ Goto("parent", "done")
    /\ UNCHANGED <<argc, terminal, i>>

Next == Start \/ Announce \/ Fork \/ (\E p \in Process : ProcessArg(p)) \/ ChildExit \/ Wait \/ ParentExit

Spec == Init /\ [][Next]_vars

-----------------------------------------------------------------------------
(* Properties *)

\* Every variable has its type.
TypeOK ==
    /\ argc \in 1 .. MaxArgs /\ terminal \in BOOLEAN
    /\ i \in [Process -> 0 .. MaxArgs]
    /\ \A p \in Process : Len(buffer[p]) <= BufLines

Printed(k) == \E n \in DOMAIN out : out[n] = <<"argument", k>>
ByParent(line) == line[1] = "argument" /\ line[2] >= argc \div 2

\* When the program is done, a terminal shows the header first, every argument once, those
\* of each process in order, and the child's return last.  In a file the parent's part of
\* that is sure, all that the child had in its buffer is missing, and what the child had
\* to write repeats the header.
OutputRight ==
    pc["parent"] = "done" /\ argc > 1 =>
        /\ \A k \in argc \div 2 .. argc - 1 : Printed(k)
        /\ \A n \in DOMAIN out : ByParent(out[n]) => out[n][2] < argc
        /\ \A m, n \in DOMAIN out :
              m < n /\ ByParent(out[m]) /\ ByParent(out[n]) => out[m][2] < out[n][2]
        /\ out[1] = <<Header, 0>> /\ out[Len(out)] = <<Returned, 0>>
        /\ terminal => Len(out) = argc + 2 /\ \A k \in 0 .. argc - 1 : Printed(k)
=============================================================================
