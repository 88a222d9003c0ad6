------------------------------ MODULE MCKernel ------------------------------
(***************************************************************************)
(* The kernel modules of module5, CharDevice (lab4), ProcMessage (lab2),   *)
(* KbLeds (lab3) and Blocklist (lab6), and the Observer of module1.  A     *)
(* behaviour is one of one program; the others stay as they begin.         *)
(***************************************************************************)
EXTENDS CharDevice, TLC

CONSTANTS
    Programs,                                   \* the programs the run covers
    Callers, Texts, MSG_MAX_LEN, MaxCount,      \* ProcMessage
    Consoles, NoTty, Values,                    \* KbLeds
    Nodes, Addresses, Packets, null,            \* Blocklist
    Observers, Pids, MaxRuns                    \* Observer

\* A name in another, and a line without a file.
Scripts == <<"watch", "gone", "at">>
Contains == [watch |-> {"watch"}, gone |-> {"gone"}, at |-> {"at", "watch"}]

Symmetry == Permutations(Addresses)

VARIABLES
    program,                                                                    \* of this behaviour
    length, message, caller, last,                                              \* ProcMessage
    phase, ledctl, curr_led_state, timer, func, tty, fg_console, leds, restored, ticks, begun,
    blocklist, ip4, next, live, step, addr, new, head, prev, packet, meant,     \* Blocklist
    proc, at, doing, list, look, grep, runs, overlapped                         \* Observer

Message == INSTANCE ProcMessage WITH len <- length, msg <- message, call <- caller
Leds == INSTANCE KbLeds
Block == INSTANCE Blocklist WITH
    Writers <- {"writer"}, Operations <- {"add", "remove"}, NULL <- null
Watch == INSTANCE Observer WITH Missing <- {"gone"}, step <- doing

ASSUME InstanceAssumption ==
    /\ ConstantAssumption /\ Message!ConstantAssumption /\ Leds!ConstantAssumption
    /\ Block!ConstantAssumption /\ Watch!ConstantAssumption

MessageVars == <<length, message, caller, last>>
LedsVars ==
    <<phase, ledctl, curr_led_state, timer, func, tty, fg_console, leds, restored, ticks, begun>>
BlockVars == <<blocklist, ip4, next, live, step, addr, new, head, prev, packet, meant>>
WatchVars == <<proc, at, doing, list, look, grep, runs, overlapped>>
Vars == <<program, vars, MessageVars, LedsVars, BlockVars, WatchVars>>

KernelInit ==
    /\ program \in Programs
    /\ Init /\ Message!Init /\ Leds!Init /\ Block!Init /\ Watch!Init
    /\ program # "leds" => fg_console = 1    \* one initial state of what does not run is enough

KernelNext ==
    /\ UNCHANGED program
    /\ \/ program = "device" /\ Next /\ UNCHANGED <<MessageVars, LedsVars, BlockVars, WatchVars>>
       \/ program = "message" /\ Message!Next /\ UNCHANGED <<vars, LedsVars, BlockVars, WatchVars>>
       \/ program = "leds" /\ Leds!Next /\ UNCHANGED <<vars, MessageVars, BlockVars, WatchVars>>
       \/ program = "block" /\ Block!Next /\ UNCHANGED <<vars, MessageVars, LedsVars, WatchVars>>
       \/ program = "watch" /\ Watch!Next /\ UNCHANGED <<vars, MessageVars, LedsVars, BlockVars>>

KernelSpec == KernelInit /\ [][KernelNext]_Vars

-----------------------------------------------------------------------------
(* Properties: those of CharDevice by their own names, and the others. *)

\* Every variable of every program has its type.
TypesOK == TypeOK /\ Message!TypeOK /\ Leds!TypeOK /\ Block!TypeOK /\ Watch!TypeOK

\* module5/lab4: one file has the device, the module stays while it is open, and the text
\* always has an end.
DeviceRight == OneFile /\ KeptLoaded /\ Terminated

\* module5/lab3: after unloading nothing of the module runs and the LEDs of the foreground
\* console are normal; before, what is stored blinks.
LedsRight == Leds!LeftNormal /\ Leds!Blinks

\* module5/lab6: with one writer the list has every address once, ends, is made of
\* allocated nodes, and nothing else stays allocated; and a packet whose address is in the
\* list all the time is not let through, unless it stood at freed memory.
ListRight == Block!OneEach /\ Block!Dropped

\* module5/lab6: an address leaves the list by its own removal only.
OnlyRemovalTakes == Block!OnlyRemovalTakes

\* module5/lab2, lab4: who reads while nobody writes gets the whole of the last text.
TextsRight == ReadsText /\ Message!ReadsWhole

\* module1/task3: an observer alone starts what does not run, and nothing else.
DecidesRight == Watch!DecidesRight
=============================================================================
