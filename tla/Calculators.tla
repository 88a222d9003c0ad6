---------------------------- MODULE Calculators ----------------------------
(***************************************************************************)
(* The calculators of module2: with six operations, two of them over any   *)
(* number of values (2/2.2), with a table of four (2/2.3), and with what   *)
(* shared objects are found in ./lib when it starts (6/6.3).  Of a shared  *)
(* object matter its name, whether dlopen takes it, and whether it has the *)
(* function of that name.                                                  *)
(***************************************************************************)
EXTENDS Naturals, Sequences, SequencesExt, FiniteSets

CONSTANTS
    Kinds,                \* the programs covered: "six", "table", "loaded"
    Libraries,            \* the files of ./lib: records [name, so, opens, function]
    BINARY_OPS_MAX,
    Values, MaxArgs       \* what is typed, and bound: values in one bulk operation

ConstantAssumption ==
    Kinds \subseteq {"six", "table", "loaded"} /\ BINARY_OPS_MAX \in Nat /\ Values \subseteq Nat /\ MaxArgs \in Nat

VARIABLES
    kind,
    phase,         \* "load", "menu", "arg1", "arg2", "bulk", "answer", "ended", "overrun"
    unread,        \* directory entries readdir has not given yet
    ops,           \* the menu: names, and for "loaded" whether the function is resolved
    handles,       \* libraries that are open
    op,            \* the operation, a place of the menu
    typed,         \* the values typed for it
    buf2           \* of a bulk operation

vars == <<kind, phase, unread, ops, handles, op, typed, buf2>>

Menu(names) == [k \in DOMAIN names |-> [name |-> names[k], resolved |-> TRUE]]
Fixed ==
    [six |-> Menu(<<"add", "add bulk", "multiply", "multiply bulk", "subtract", "divide">>),
     table |-> Menu(<<"add", "multiply", "subtract", "divide">>),
     loaded |-> <<>>]

Init ==
    /\ kind \in Kinds /\ ops = Fixed[kind]
    /\ phase = IF kind = "loaded" THEN "load" ELSE "menu"
    /\ unread = Libraries /\ handles = {}
    /\ op = 1 /\ typed = <<>> /\ buf2 = 0

\* loadSharedObjects: nothing compares the count with BINARY_OPS_MAX.
LoadOne(f) ==
    /\ phase = "load" /\ f \in unread /\ unread' = unread \ {f}
    /\ \/ ~f.so /\ UNCHANGED <<phase, ops, handles>>
       \/ f.so /\ Len(ops) = BINARY_OPS_MAX /\ phase' = "overrun" /\ UNCHANGED <<ops, handles>>
       \/ f.so /\ Len(ops) < BINARY_OPS_MAX /\ ~f.opens /\ UNCHANGED <<phase, ops, handles>>
       \/ /\ f.so /\ Len(ops) < BINARY_OPS_MAX /\ f.opens
          /\ ops' = Append(ops, [name |-> f.name, resolved |-> FALSE])
          /\ handles' = handles \cup {f} /\ UNCHANGED phase
    /\ UNCHANGED <<kind, op, typed, buf2>>

Loaded ==
    /\ phase = "load"
    /\ \/ unread = {} /\ phase' = "menu"
       \/ unread = Libraries /\ phase' = "ended"      \* opendir fails
    /\ UNCHANGED <<kind, unread, ops, handles, op, typed, buf2>>

\* Mutant: returning from main without unloadSharedObjects.
UnloadNone == UNCHANGED handles
Unload == handles' = {}

\* 0 is typed, or no number.
Quit ==
    /\ phase = "menu" /\ phase' = "ended" /\ Unload
    /\ UNCHANGED <<kind, unread, ops, op, typed, buf2>>

Has(k) == \E f \in handles : f.name = ops[k].name /\ f.function
IsBulk(k) == ops[k].name \in {"add bulk", "multiply bulk"}

Choose(k) ==
    /\ phase = "menu" /\ k \in DOMAIN ops /\ op' = k /\ typed' = <<>>
    /\ \/ /\ ~ops[k].resolved /\ ~Has(k)      \* dlsym fails
          /\ phase' = "ended" /\ Unload /\ UNCHANGED <<ops, buf2>>
       \/ /\ ops[k].resolved \/ Has(k)
          /\ phase' = IF IsBulk(k) THEN "bulk" ELSE "arg1"
          /\ ops' = [ops EXCEPT ![k].resolved = TRUE]
          /\ buf2' = IF ops[k].name = "multiply bulk" THEN 1 ELSE 0
          /\ UNCHANGED handles
    /\ UNCHANGED <<kind, unread>>

\* getUserArg asks again after a blank line or no number; a blank line ends a bulk operation.
Argument(x) ==
    /\ phase \in {"arg1", "arg2"} /\ typed' = Append(typed, x)
    /\ phase' = IF phase = "arg1" THEN "arg2" ELSE "answer"
    /\ UNCHANGED <<kind, unread, ops, handles, op, buf2>>

BulkArgument(x) ==
    /\ phase = "bulk" /\ Len(typed) < MaxArgs /\ typed' = Append(typed, x)
    /\ buf2' = IF ops[op].name = "add bulk" THEN buf2 + x ELSE buf2 * x
    /\ UNCHANGED <<kind, phase, unread, ops, handles, op>>

Blank ==
    /\ phase = "bulk" /\ phase' = "answer"
    /\ UNCHANGED <<kind, unread, ops, handles, op, typed, buf2>>

Answer ==
    /\ phase = "answer" /\ phase' = "menu"
    /\ UNCHANGED <<kind, unread, ops, handles, op, typed, buf2>>

Next ==
    \/ (\E f \in Libraries : LoadOne(f)) \/ Loaded \/ Quit \/ Blank \/ Answer
    \/ (\E k \in DOMAIN ops : Choose(k)) \/ \E x \in Values : Argument(x) \/ BulkArgument(x)

Spec == Init /\ [][Next]_vars

-----------------------------------------------------------------------------
(* Properties *)

\* Every variable has its type.
TypeOK ==
    /\ phase \in {"load", "menu", "arg1", "arg2", "bulk", "answer", "ended", "overrun"}
    /\ unread \subseteq Libraries /\ handles \subseteq Libraries /\ buf2 \in Nat

\* An operation that is carried out is the one of the menu, from a library that is open and
\* has it; a library is open as long as it is in the menu, no file is there twice, and none
\* stays open at the end, whatever the reason.  More libraries than the table holds overrun
\* it.  A bulk answer is the sum or the product of what was typed.
CalculatorRight ==
    /\ kind = "loaded" /\ phase \in {"arg1", "arg2", "answer"} => Has(op)
    /\ kind = "loaded" /\ phase \notin {"ended", "overrun"} =>
          /\ Len(ops) = Cardinality(handles)
          /\ {ops[k].name : k \in DOMAIN ops} = {f.name : f \in handles}
    /\ phase = "ended" => handles = {}
    /\ phase = "overrun" => Cardinality({f \in Libraries : f.so /\ f.opens}) >= BINARY_OPS_MAX
    /\ phase = "answer" /\ IsBulk(op) =>
          buf2 = IF ops[op].name = "add bulk" THEN FoldLeft(LAMBDA s, x : s + x, 0, typed)
                                              ELSE FoldLeft(LAMBDA s, x : s * x, 1, typed)
=============================================================================
