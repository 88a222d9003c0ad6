---------------------------- MODULE MCContainers ----------------------------
(***************************************************************************)
(* The programs of module2 but for the tree: ContactList (module2/4/4.1),  *)
(* ContactArray (module2/2/2.1), PrioQueue (module2/4/4.2), Calculators    *)
(* (module2/2/2.2, 2.3 and 6/6.3), Chstat (module2/3/3.1) and Ip4test      *)
(* (module2/3/3.2).  A behaviour is one of one program; the others stay as *)
(* they begin.                                                             *)
(***************************************************************************)
EXTENDS ContactList

CONSTANTS
    Programs,            \* the programs the run covers
    Priorities,          \* of PrioQueue
    Capacity, MaxIds,    \* of ContactArray
    BINARY_OPS_MAX, Values, MaxArgs, Kinds,    \* of Calculators
    Numbers, Users, Accesses, MaxClauses,      \* of Chstat
    OctetBits, Octets, Sent                    \* of Ip4test

SomeIds == -1 .. 3
Lib(n, s, o, f) == [name |-> n, so |-> s, opens |-> o, function |-> f]
Files == {Lib("add", TRUE, TRUE, TRUE), Lib("sub", TRUE, TRUE, TRUE), Lib("odd", TRUE, TRUE, FALSE),
          Lib("bad", TRUE, FALSE, FALSE), Lib("txt", FALSE, FALSE, FALSE)}
Modes == {{}, {0, 2, 3, 5, 7, 8}}

VARIABLES
    program,                                                   \* the program of this behaviour
    first, link, priority, data, used, popped,                 \* PrioQueue
    places, count, counter, found,                             \* ContactArray
    kind, phase, unread, ops, handles, op, typed, buf2,        \* Calculators
    mode_old, mode_new, stage, flag, users_mask, access_mask, sign, given, clauses,   \* Chstat
    step, octet, address, gateway, netmask, packets, sent, hits, prefix               \* Ip4test

Queue == INSTANCE PrioQueue WITH
    Data <- Contacts, head <- first, next <- link, live <- used, result <- popped
Array == INSTANCE ContactArray WITH
    contacts <- places, size <- count, id <- counter, result <- found
Calculator == INSTANCE Calculators WITH Libraries <- Files
Mode == INSTANCE Chstat WITH
    OldModes <- Modes, phase <- stage, i <- flag, op <- sign
Net == INSTANCE Ip4test WITH phase <- step, i <- octet, result <- address, n <- packets

ASSUME InstanceAssumption ==
    /\ ConstantAssumption
    /\ Queue!ConstantAssumption /\ Array!ConstantAssumption /\ Calculator!ConstantAssumption
    /\ Mode!ConstantAssumption /\ Net!ConstantAssumption

QueueVars == <<first, link, priority, data, used, popped>>
ArrayVars == <<places, count, counter, found>>
CalcVars == <<kind, phase, unread, ops, handles, op, typed, buf2>>
ModeVars == <<mode_old, mode_new, stage, flag, users_mask, access_mask, sign, given, clauses>>
NetVars == <<step, octet, address, gateway, netmask, packets, sent, hits, prefix>>
Vars == <<program, vars, QueueVars, ArrayVars, CalcVars, ModeVars, NetVars>>

\* One initial state of what does not run is enough.
DataInit ==
    /\ program \in Programs
    /\ Init /\ Queue!Init /\ Array!Init
    /\ Calculator!Init /\ Mode!Init /\ Net!Init
    /\ program # "calculator" => kind = "six"
    /\ program # "mode" => mode_old = {}

DataNext ==
    /\ UNCHANGED program
    /\ IF program = "list" THEN Next ELSE UNCHANGED vars
    /\ IF program = "queue" THEN Queue!Next ELSE UNCHANGED QueueVars
    /\ IF program = "array" THEN Array!Next ELSE UNCHANGED ArrayVars
    /\ IF program = "calculator" THEN Calculator!Next ELSE UNCHANGED CalcVars
    /\ IF program = "mode" THEN Mode!Next ELSE UNCHANGED ModeVars
    /\ IF program = "net" THEN Net!Next ELSE UNCHANGED NetVars

DataSpec == DataInit /\ [][DataNext]_Vars

-----------------------------------------------------------------------------
(* Properties: those of ContactList by their own names, and the others. *)

\* Every variable of every program has its type.
TypesOK ==
    /\ TypeOK /\ Queue!TypeOK /\ Array!TypeOK /\ Calculator!TypeOK /\ Mode!TypeOK /\ Net!TypeOK

\* module2/4/4.1: forwards and backwards the list is the same and its ids grow; there and in
\* the queue of module2/4/4.2 the list holds what is allocated and nothing else; and in
\* the array of module2/2/2.1 the size is that of the contacts and no id is given twice.
ListsRight == BothWays /\ Ordered /\ Queue!NothingLost /\ Array!SizeRight

\* module2/4/4.1, 2/2.1: the list and the array are contact books; and the linked list of
\* module2/4/4.2 is a stable priority queue.
Books == BookSpec /\ Array!BookSpec /\ Queue!StableSpec

\* module2/2/2.2, 2.3, 6/6.3: what is calculated is what was chosen, and libraries are
\* closed.  module2/3/3.1: the last clause about a bit decides it.  module2/3/3.2: the
\* probability shown is that of the test.
ToolsRight == Calculator!CalculatorRight /\ Mode!ModeRight /\ Net!ProbabilityRight
=============================================================================
