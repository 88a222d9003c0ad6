------------------------------- MODULE Chstat -------------------------------
(***************************************************************************)
(* module2/3/3.1: a mode in one of three forms is worked out, from zero or *)
(* from that of a file, and shown (the file keeps its mode).  A mode is    *)
(* the set of its bits, numbered from the right.                           *)
(***************************************************************************)
EXTENDS Integers, Sequences, FiniteSets, FiniteSetsExt

CONSTANTS
    OldModes,       \* of the file, and no bits when there is none
    Numbers,        \* numbers typed
    Users, Accesses,    \* letters typed
    MaxClauses      \* bound: clauses of a symbolic mode

ConstantAssumption ==
    /\ OldModes \subseteq SUBSET (0 .. 8) /\ Numbers \subseteq Nat /\ MaxClauses \in Nat
    /\ Users \subseteq {"u", "g", "o", "a"} /\ Accesses \subseteq {"r", "w", "x"}

VARIABLES
    mode_old, mode_new,
    phase,        \* "start", "flags", "users", "access", "done", "invalid"
    i,            \* how many flags were read
    users_mask, access_mask, op,
    given,        \* history: the mode of the file
    clauses       \* history: the clauses of a symbolic mode

vars == <<mode_old, mode_new, phase, i, users_mask, access_mask, op, given, clauses>>

Init ==
    /\ mode_old \in OldModes /\ given = mode_old
    /\ mode_new = {} /\ phase = "start" /\ i = 0
    /\ users_mask = {} /\ access_mask = {} /\ op = "none" /\ clauses = <<>>

Bits(n) == {b \in 0 .. 12 : (n \div 2 ^ b) % 2 = 1}
ValueOf(bits) == MapThenSumSet(LAMBDA b : 2 ^ b, bits)
Refuse == phase' = "invalid" /\ UNCHANGED <<mode_old, mode_new, i, users_mask, access_mask, op, given, clauses>>

\* 755: what starts with a digit up to 7 is read as a decimal number.
NumberMode(n) == Bits((n \div 100) * 64 + ((n \div 10) % 10) * 8 + (n % 10))
Number(n) ==
    /\ phase = "start" /\ mode_new' = NumberMode(n) /\ phase' = "done"
    /\ UNCHANGED <<mode_old, i, users_mask, access_mask, op, given, clauses>>

-----------------------------------------------------------------------------
(* rwxr-xr-x *)

\* readArgs takes one "-" that another character follows for an option.
IsOption(c) == i = 1 /\ mode_new = {} /\ c # "-"

FlagAt(k) == <<"r", "w", "x">>[(k % 3) + 1]

Flag(c) ==
    /\ phase = "flags" \/ (phase = "start" /\ c \in {"r", "-"})
    /\ IF IsOption(c) \/ c \notin {FlagAt(i), "-"} THEN Refuse
       ELSE /\ mode_new' = IF c = "-" THEN mode_new ELSE mode_new \cup {8 - i}
            /\ i' = i + 1 /\ phase' = IF i = 8 THEN "done" ELSE "flags"
            /\ UNCHANGED <<mode_old, users_mask, access_mask, op, given, clauses>>

-----------------------------------------------------------------------------
(* u+rx,g=x *)

MaskOf(c) ==
    CASE c = "u" -> 6 .. 8 [] c = "g" -> 3 .. 5 [] c = "o" -> 0 .. 2 [] c = "a" -> 0 .. 8
      [] c = "r" -> {2, 5, 8} [] c = "w" -> {1, 4, 7} [] c = "x" -> {0, 3, 6}

User(c) ==
    /\ phase \in {"start", "users"} /\ phase' = "users"
    /\ users_mask' = users_mask \cup MaskOf(c)
    /\ UNCHANGED <<mode_old, mode_new, i, access_mask, op, given, clauses>>

Operator(c) ==
    /\ phase = "users" /\ phase' = "access" /\ op' = c
    /\ UNCHANGED <<mode_old, mode_new, i, users_mask, access_mask, given, clauses>>

Access(c) ==
    /\ phase = "access" /\ access_mask' = access_mask \cup MaskOf(c)
    /\ UNCHANGED <<mode_old, mode_new, phase, i, users_mask, op, given, clauses>>

\* Mutant: "=" keeps what it does not name.
AssignedOnly(u, a) == mode_old \cup (u \cap a)
Assigned(u, a) == (mode_old \ u) \cup (u \cap a)

\* The end of a clause; after a comma the next one starts from its result.
EndOfClause ==
    /\ phase = "access" /\ Len(clauses) < MaxClauses
    /\ mode_new' = CASE op = "+" -> mode_old \cup (users_mask \cap access_mask)
                     [] op = "-" -> mode_old \ (users_mask \cap access_mask)
                     [] op = "=" -> Assigned(users_mask, access_mask)
    /\ clauses' = Append(clauses, [users |-> users_mask, op |-> op, access |-> access_mask])
    /\ \/ phase' = "done" /\ UNCHANGED <<mode_old, users_mask, access_mask, op>>
       \/ /\ phase' = "users" /\ mode_old' = mode_new'
          /\ users_mask' = {} /\ access_mask' = {} /\ op' = "none"
    /\ UNCHANGED <<i, given>>

\* A comma may be the last character.
EndAfterComma ==
    /\ phase = "users" /\ users_mask = {} /\ phase' = "done"
    /\ UNCHANGED <<mode_old, mode_new, i, users_mask, access_mask, op, given, clauses>>

\* A character that does not fit, or the end too early.
Misfit == phase \in {"start", "users", "access"} /\ Refuse

Next ==
    \/ (\E n \in Numbers : Number(n)) \/ (\E c \in {"r", "w", "x", "-"} : Flag(c))
    \/ (\E c \in Users : User(c)) \/ (\E c \in {"+", "-", "="} : Operator(c))
    \/ (\E c \in Accesses : Access(c)) \/ EndOfClause \/ EndAfterComma \/ Misfit

Spec == Init /\ [][Next]_vars

-----------------------------------------------------------------------------
(* What is shown *)

\* The three digits of printMode, and the letters of modeToString.
ShownNumber == LET v == ValueOf(mode_new \cap 0 .. 8) IN (v \div 64) * 100 + ((v \div 8) % 8) * 10 + (v % 8)
ShownFlags == [k \in 0 .. 8 |-> IF 8 - k \in mode_new THEN FlagAt(k) ELSE "-"]

\* Every variable has its type.
TypeOK ==
    /\ phase \in {"start", "flags", "users", "access", "done", "invalid"}
    /\ mode_new \subseteq 0 .. 12 /\ i \in 0 .. 9
    /\ users_mask \cup access_mask \cup mode_old \subseteq 0 .. 8

Touches(c, b) == b \in c.users /\ (c.op = "=" \/ b \in c.access)

\* A symbolic mode gives each bit what the last clause about it says, and leaves the others
\* as the file has them; and the number and the letters shown mean the mode they show.
ModeRight ==
    phase = "done" =>
        /\ clauses # <<>> => \A b \in 0 .. 8 :
              LET about == {k \in DOMAIN clauses : Touches(clauses[k], b)}
                  last == clauses[Max(about)]
              IN  b \in mode_new <=> IF about = {} THEN b \in given ELSE last.op # "-" /\ b \in last.access
        /\ NumberMode(ShownNumber) = mode_new \cap 0 .. 8
        /\ {8 - k : k \in {n \in 0 .. 8 : ShownFlags[n] # "-"}} = mode_new \cap 0 .. 8
=============================================================================
