---------------------------- MODULE ProcMessage ----------------------------
(***************************************************************************)
(* The kernel module procio (module5/lab2): one message that any process   *)
(* writes and reads through /proc/procio.  The length and the bytes are    *)
(* stored in two steps, and nothing is locked.                             *)
(***************************************************************************)
EXTENDS Integers, Sequences

CONSTANTS
    Callers,      \* processes, each with the file open for one call after another
    Texts,        \* a byte is named by its text: its place never changes on the way
    MSG_MAX_LEN,
    MaxCount      \* bound: the longest read or write

Unwritten == "kmalloc"
ConstantAssumption == MSG_MAX_LEN \in Nat \ {0} /\ MaxCount \in Nat /\ Unwritten \notin Texts

VARIABLES
    len, msg,     \* the message and its stored length
    call,         \* per process: its call, with the offset of its file and what it got
    last          \* history: the last write if it ended well and overlapped no other, or Any

vars == <<len, msg, call, last>>

Idle == [op |-> "none", text |-> Unwritten, asked |-> 0, count |-> 0, offp |-> 0, got |-> <<>>,
         quiet |-> TRUE]    \* quiet is history: no other write since the call began
Any == [text |-> Unwritten, asked |-> -1]

Init ==
    /\ len = 0 /\ msg = [i \in 1 .. MSG_MAX_LEN |-> Unwritten]
    /\ call = [c \in Callers |-> Idle]
    /\ last = [text |-> Unwritten, asked |-> 0]

Least(m, n) == IF m < n THEN m ELSE n
Nobody == \A c \in Callers : call[c].op # "write"
Ended(c) == [call EXCEPT ![c] = [Idle EXCEPT !.offp = call[c].offp]]
FirstOf(t, k) == msg' = [i \in 1 .. MSG_MAX_LEN |-> IF i <= k THEN t ELSE msg[i]]

\* Mutants: the length is not held against the memory; the last byte is kept for a NUL, as in a string.
StoredAll(count) == count
StoredString(count) == Least(count, MSG_MAX_LEN - 1)
Stored(count) == Least(count, MSG_MAX_LEN)

WriteStart(c) ==
    /\ call[c].op = "none"
    /\ \E t \in Texts, n \in 0 .. MaxCount :
          /\ len' = Stored(n)
          /\ call' = [d \in Callers |->
                IF d = c THEN [call[c] EXCEPT !.op = "write", !.text = t, !.asked = n, !.quiet = Nobody]
                ELSE [call[d] EXCEPT !.quiet = FALSE]]
    /\ last' = Any
    /\ UNCHANGED msg

\* copy_from_user copies len as it is by now, in a text that is shorter what lies behind it.
WriteCopy(c) ==
    /\ call[c].op = "write"
    /\ FirstOf(call[c].text, len)
    /\ call' = Ended(c)
    /\ last' = IF call[c].quiet THEN [text |-> call[c].text, asked |-> call[c].asked] ELSE Any
    /\ UNCHANGED len

\* The copy fails after some bytes: -EFAULT, and the new length stays.
WriteFails(c) ==
    /\ call[c].op = "write"
    /\ \E k \in 0 .. len - 1 : FirstOf(call[c].text, k)
    /\ call' = Ended(c)
    /\ UNCHANGED <<len, last>>

\* A process that has closed the file opens it again.
Open(c) ==
    /\ call[c].op = "none" /\ call[c].offp > 0
    /\ call' = [call EXCEPT ![c] = Idle]
    /\ UNCHANGED <<len, msg, last>>

\* At an offset behind the first byte a read returns 0, the end of the file.
ReadStart(c) ==
    /\ call[c].op = "none" /\ call[c].offp = 0
    /\ \E n \in 0 .. MaxCount :
          call' = [call EXCEPT ![c] = [Idle EXCEPT !.op = "read", !.asked = n,
                                                   !.count = Least(n, len), !.quiet = Nobody]]
    /\ UNCHANGED <<len, msg, last>>

ReadCopy(c) ==
    /\ call[c].op = "read"
    /\ call' = [Ended(c) EXCEPT ![c].got = SubSeq(msg, 1, call[c].count), ![c].offp = call[c].count]
    /\ UNCHANGED <<len, msg, last>>

ReadFails(c) ==
    /\ call[c].op = "read" /\ call[c].count > 0
    /\ call' = Ended(c)
    /\ UNCHANGED <<len, msg, last>>

Next ==
    \E c \in Callers :
        \/ WriteStart(c) \/ WriteCopy(c) \/ WriteFails(c) \/ Open(c)
        \/ ReadStart(c) \/ ReadCopy(c) \/ ReadFails(c)

Spec == Init /\ [][Next]_vars

-----------------------------------------------------------------------------
(* Properties *)

\* Every variable has its type, and the stored length fits the memory.
TypeOK ==
    /\ len \in 0 .. MSG_MAX_LEN
    /\ msg \in [1 .. MSG_MAX_LEN -> Texts \cup {Unwritten}]
    /\ \A c \in Callers : call[c].op \in {"none", "read", "write"} /\ call[c].offp \in 0 .. MSG_MAX_LEN
    /\ last = Any \/ last.text \in Texts \cup {Unwritten}

\* Who reads while nobody writes, after a write that ended well and that no other
\* overlapped, gets that text from its beginning, cut only by MSG_MAX_LEN and by what it
\* asked for: nothing of the texts before, though their bytes stay in the memory.
ReadsWhole ==
    [][\A c \in Callers :
          ReadCopy(c) /\ call[c].quiet /\ last # Any
          => call'[c].got = [i \in 1 .. Least(Least(call[c].asked, last.asked), MSG_MAX_LEN) |-> last.text]]_vars
=============================================================================
