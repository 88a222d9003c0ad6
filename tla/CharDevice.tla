----------------------------- MODULE CharDevice -----------------------------
(***************************************************************************)
(* The kernel module chardev (module5/lab4): a device that one file may    *)
(* have open, a text that is written and read through it, and the          *)
(* unloading of the module.  A process that forks shares its file, so one  *)
(* file may have several users, whose calls nothing orders.                *)
(***************************************************************************)
EXTENDS Integers, Sequences, FiniteSets

CONSTANTS
    Users, Files, None,    \* processes, and the files that open makes
    Letters,               \* a byte is named by its text
    BUF_LEN,
    ReadSizes,             \* what reads ask for
    MaxWrite, MaxPos       \* bounds: bytes of a write, and the place where calls may begin

NUL == "NUL"
Unknown == <<"unknown">>
UnderWay == <<"under way">>

ConstantAssumption ==
    /\ IsFiniteSet(Users) /\ None \notin Files
    /\ BUF_LEN \in Nat \ {0} /\ MaxPos \in Nat /\ ReadSizes \subseteq Nat \ {0}
    /\ Letters \cap {NUL, "beyond", "unknown", "under way"} = {}    \* a text is no mark

VARIABLES
    module, refs,         \* loaded, being unloaded, gone; and how often it is in use
    already_open, msg,
    fd, f_pos,            \* the file of each user, the position of each file
    pc, call,             \* what each user is at, and the variables of its call
    kept,                 \* history: files whose opening ended while the module was loaded
    stored, view          \* history: the text last written, if no other write overlapped, and
                          \* what was read since position 0, if no other call did

deviceVars == <<already_open, msg>>
moduleVars == <<module, refs, kept>>
history == <<stored, view>>
vars == <<moduleVars, deviceVars, fd, f_pos, pc, call, history>>

NoCall == [pos |-> 0, left |-> 0, text |-> NUL]

Init ==
    /\ module = "live" /\ refs = 0
    /\ already_open = 0 /\ msg = [i \in 0 .. BUF_LEN - 1 |-> NUL]
    /\ fd = [u \in Users |-> None] /\ f_pos = [f \in Files |-> 0]
    /\ pc = [u \in Users |-> "idle"] /\ call = [u \in Users |-> NoCall]
    /\ kept = {}
    /\ stored = <<>> /\ view = <<>>

HoldersOf(f) == {u \in Users : fd[u] = f}
InCall == {u \in Users : pc[u] \in {"read", "copy", "end"}}
Writers == {u \in Users : pc[u] \in {"copy", "end"}}
Goto(u, s) == pc' = [pc EXCEPT ![u] = s]
\* Beyond the buffer lies what the compiler put there.
ByteAt(i) == IF i < BUF_LEN THEN {msg[i]} ELSE {NUL, "beyond"}

-----------------------------------------------------------------------------
(* device_open, device_release, and the module's use count *)

\* A file that finds the device open gets -EBUSY and is none.
Open(u) ==
    /\ pc[u] = "idle" /\ fd[u] = None /\ module # "gone"
    /\ already_open = 0 /\ already_open' = 1
    /\ \E f \in Files : HoldersOf(f) = {}
    /\ fd' = [fd EXCEPT ![u] = CHOOSE f \in Files : HoldersOf(f) = {}]
    /\ Goto(u, "open")
    /\ view' = IF InCall = {} THEN <<>> ELSE Unknown
    /\ UNCHANGED <<moduleVars, msg, f_pos, call, stored>>

\* try_module_get: it refuses a module that is being unloaded, and nobody looks.
ModuleGet(u) ==
    /\ pc[u] = "open" /\ Goto(u, "idle")
    /\ IF module = "live" THEN refs' = refs + 1 /\ kept' = kept \cup {fd[u]}
                          ELSE UNCHANGED <<refs, kept>>
    /\ UNCHANGED <<module, deviceVars, fd, f_pos, call, history>>

Fork(u, v) ==
    /\ fd[u] # None /\ fd[v] = None /\ pc[u] = "idle" /\ pc[v] = "idle"
    /\ fd' = [fd EXCEPT ![v] = fd[u]]
    /\ UNCHANGED <<moduleVars, deviceVars, f_pos, pc, call, history>>

\* Mutant: whoever closes the file frees the device.
LastAny(u) == TRUE
Last(u) == HoldersOf(fd[u]) = {u}

Close(u) ==
    /\ fd[u] # None /\ pc[u] = "idle"
    /\ IF Last(u) /\ module # "gone" THEN Goto(u, "release") ELSE UNCHANGED pc
    /\ fd' = [fd EXCEPT ![u] = None]
    /\ kept' = IF Last(u) THEN kept \ {fd[u]} ELSE kept
    /\ f_pos' = IF Last(u) THEN [f_pos EXCEPT ![fd[u]] = 0] ELSE f_pos
    /\ UNCHANGED <<module, refs, deviceVars, call, history>>

Release(u) ==
    /\ pc[u] = "release" /\ Goto(u, "put")
    /\ already_open' = 0
    /\ UNCHANGED <<moduleVars, msg, fd, f_pos, call, history>>

ModulePut(u) ==
    /\ pc[u] = "put" /\ Goto(u, "idle")
    /\ refs' = IF refs > 0 THEN refs - 1 ELSE 0
    /\ UNCHANGED <<module, kept, deviceVars, fd, f_pos, call, history>>

\* rmmod refuses a module in use; chardev_exit then takes the device away.
Unload ==
    /\ \/ module = "live" /\ refs = 0 /\ module' = "going"
       \/ module = "going" /\ module' = "gone"
    /\ UNCHANGED <<refs, kept, deviceVars, fd, f_pos, pc, call, history>>

-----------------------------------------------------------------------------
(* device_read: the position is that of the file as the call began *)

\* Bound: while the module is being unloaded nobody reads or writes.
Ready(u) == pc[u] = "idle" /\ fd[u] # None /\ module = "live" /\ f_pos[fd[u]] <= MaxPos

ReadNothing(u) ==
    /\ Ready(u)
    /\ NUL \in ByteAt(f_pos[fd[u]])
    /\ f_pos' = [f_pos EXCEPT ![fd[u]] = 0]
    /\ view' = IF InCall = {} THEN <<>> ELSE Unknown
    /\ UNCHANGED <<moduleVars, deviceVars, fd, pc, call, stored>>

ReadStart(u) ==
    /\ Ready(u)
    /\ ByteAt(f_pos[fd[u]]) # {NUL}
    /\ \E n \in ReadSizes :
          call' = [call EXCEPT ![u] = [pos |-> f_pos[fd[u]], left |-> n, text |-> NUL]]
    /\ view' = IF InCall = {} THEN view ELSE Unknown
    /\ Goto(u, "read")
    /\ UNCHANGED <<moduleVars, deviceVars, fd, f_pos, stored>>

ReadByte(u) ==
    /\ pc[u] = "read" /\ call[u].left > 0
    /\ \E b \in ByteAt(call[u].pos) \ {NUL} : view' = IF view = Unknown THEN view ELSE Append(view, b)
    /\ call' = [call EXCEPT ![u].left = @ - 1, ![u].pos = @ + 1]
    /\ UNCHANGED <<moduleVars, deviceVars, fd, f_pos, pc, stored>>

ReadEnd(u) ==
    /\ pc[u] = "read"
    /\ call[u].left = 0 \/ NUL \in ByteAt(call[u].pos)
    /\ f_pos' = [f_pos EXCEPT ![fd[u]] = call[u].pos]
    /\ Goto(u, "idle") /\ call' = [call EXCEPT ![u] = NoCall]
    /\ UNCHANGED <<moduleVars, deviceVars, fd, history>>

-----------------------------------------------------------------------------
(* device_write *)

Cut(n) == IF n >= BUF_LEN THEN BUF_LEN - 1 ELSE n

WriteStart(u) ==
    /\ Ready(u)
    /\ \E t \in Letters, n \in 0 .. MaxWrite :
          call' = [call EXCEPT ![u] = [pos |-> f_pos[fd[u]], left |-> Cut(n), text |-> t]]
    /\ Goto(u, "copy")
    /\ stored' = IF Writers = {} THEN UnderWay ELSE Unknown
    /\ view' = Unknown
    /\ UNCHANGED <<moduleVars, deviceVars, fd, f_pos>>

Copied(u, k) == msg' = [i \in 0 .. BUF_LEN - 1 |-> IF i < k THEN call[u].text ELSE msg[i]]

WriteCopy(u) ==
    /\ pc[u] = "copy" /\ Goto(u, "end")
    /\ Copied(u, call[u].left)
    /\ UNCHANGED <<moduleVars, already_open, fd, f_pos, call, history>>

\* After some bytes; the text gets no end, and the call -EFAULT.
WriteFails(u) ==
    /\ pc[u] = "copy" /\ Goto(u, "idle")
    /\ \E k \in 0 .. call[u].left - 1 : Copied(u, k)
    /\ call' = [call EXCEPT ![u] = NoCall]
    /\ stored' = Unknown
    /\ UNCHANGED <<moduleVars, already_open, fd, f_pos, view>>

WriteEnd(u) ==
    /\ pc[u] = "end" /\ Goto(u, "idle")
    /\ msg' = [i \in 0 .. BUF_LEN - 1 |-> IF i = call[u].left THEN NUL ELSE msg[i]]
    /\ f_pos' = [f_pos EXCEPT ![fd[u]] = call[u].pos + call[u].left]
    /\ stored' = IF stored = UnderWay THEN [i \in 1 .. call[u].left |-> call[u].text] ELSE stored
    /\ call' = [call EXCEPT ![u] = NoCall]
    /\ UNCHANGED <<moduleVars, already_open, fd, view>>

Next ==
    \/ Unload
    \/ \E u \in Users :
          \/ Open(u) \/ ModuleGet(u) \/ Close(u) \/ Release(u) \/ ModulePut(u)
          \/ ReadNothing(u) \/ ReadStart(u) \/ ReadByte(u) \/ ReadEnd(u)
          \/ WriteStart(u) \/ WriteCopy(u) \/ WriteFails(u) \/ WriteEnd(u)
          \/ \E v \in Users : Fork(u, v)

Spec == Init /\ [][Next]_vars

-----------------------------------------------------------------------------
(* Properties *)

\* Every variable has its type.
TypeOK ==
    /\ module \in {"live", "going", "gone"} /\ refs \in 0 .. Cardinality(Users)
    /\ already_open \in {0, 1}
    /\ msg \in [0 .. BUF_LEN - 1 -> Letters \cup {NUL}]
    /\ fd \in [Users -> Files \cup {None}] /\ f_pos \in [Files -> Nat]
    /\ pc \in [Users -> {"idle", "open", "read", "copy", "end", "release", "put"}]

\* The device has one file, however many processes share it, and is open as long as that
\* file is: a second user of the device can only be one that inherited it.
OneFile ==
    /\ Cardinality({fd[u] : u \in Users} \ {None}) <= 1
    /\ module # "gone" /\ (\E u \in Users : fd[u] # None) => already_open = 1

\* The module stays while a file is open whose opening was done before it was unloaded.
KeptLoaded == kept # {} => module = "live" /\ refs > 0

\* The text always ends within the buffer.
Terminated == \E i \in 0 .. BUF_LEN - 1 : msg[i] = NUL

\* What is read from position 0 to the end, in calls of any length, is the whole text of
\* the last write, cut to the buffer, and nothing of the texts before, as long as the
\* file's other users do nothing meanwhile and no writes overlap.
ReadsText ==
    [][\A u \in Users :
          ReadNothing(u) /\ InCall = {} /\ Unknown \notin {view, stored} => view = stored]_vars
=============================================================================
