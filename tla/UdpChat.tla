------------------------------ MODULE UdpChat ------------------------------
(***************************************************************************)
(* module3/12: a chat over UDP, a writing and a listening process on one   *)
(* port; and module3/14: a sniffer that records the datagrams of one port. *)
(***************************************************************************)
EXTENDS Naturals, Sequences, FiniteSets

CONSTANTS
    Ports, Peer,     \* the program on a port, and the port it is told to write to
    Watched,         \* the port the sniffer is told
    MaxLine, MaxSent \* bounds: length of a line, and lines typed

ConstantAssumption ==
    Peer \in [Ports -> Ports] /\ Watched \in Ports /\ MaxLine \in Nat /\ MaxSent \in Nat

NUL == 0

VARIABLES
    writer, listener,     \* the two processes of each port: do they run
    typed,                \* the lines, by number: who typed it, and its length
    net,                  \* the numbers of those under way, in any order
    buf,                  \* of each listener: a cell holds the number of its line, or NUL
    shown,                \* the lines that each listener printed: from where, and the cells
    dump,                 \* what the sniffer recorded
    failed                \* history: ports whose last run ended because sendto failed

vars == <<writer, listener, typed, net, buf, shown, dump, failed>>

Init ==
    /\ writer = [p \in Ports |-> FALSE] /\ listener = [p \in Ports |-> FALSE]
    /\ typed = <<>> /\ net = {}
    /\ buf = [p \in Ports |-> [k \in 1 .. MaxLine + 1 |-> NUL]]
    /\ shown = [p \in Ports |-> <<>>] /\ dump = <<>> /\ failed = {}

Set(f, p, v) == [f EXCEPT ![p] = v]

\* bind refuses a port that either process of an earlier run still holds.
Start(p) ==
    /\ ~writer[p] /\ ~listener[p] /\ Len(typed) < MaxSent
    /\ writer' = Set(writer, p, TRUE) /\ listener' = Set(listener, p, TRUE)
    /\ shown' = Set(shown, p, <<>>) /\ failed' = failed \ {p}
    /\ UNCHANGED <<typed, net, buf, dump>>

\* Mutant: the NUL is not sent.
CellsOnly(n) == [k \in 1 .. typed[n].len |-> n]
Cells(n) == [k \in 1 .. typed[n].len |-> n] \o <<NUL>>

Write(p) ==
    /\ writer[p] /\ Len(typed) < MaxSent
    /\ \E l \in 0 .. MaxLine : typed' = Append(typed, [by |-> p, len |-> l])
    /\ net' = net \cup {Len(typed')}
    /\ UNCHANGED <<writer, listener, buf, shown, dump, failed>>

\* sendto fails: the writer takes the listener with it.
WriteFails(p) ==
    /\ writer[p] /\ Len(typed) < MaxSent
    /\ typed' = Append(typed, [by |-> p, len |-> 0])
    /\ writer' = Set(writer, p, FALSE) /\ listener' = Set(listener, p, FALSE)
    /\ failed' = failed \cup {p}
    /\ UNCHANGED <<net, buf, shown, dump>>

\* The end of input, or a line without newline: strchr finds none, and the writer ends by
\* SIGSEGV, alone.
EndOfInput(p) ==
    /\ writer[p] /\ writer' = Set(writer, p, FALSE)
    /\ UNCHANGED <<listener, typed, net, buf, shown, dump, failed>>

\* SIGINT from the terminal ends both, as one sent to a listener that is left alone ends that.
Interrupt(p) ==
    /\ listener[p]
    /\ writer' = Set(writer, p, FALSE) /\ listener' = Set(listener, p, FALSE)
    /\ UNCHANGED <<typed, net, buf, shown, dump, failed>>

UpToNul(cells) ==
    SubSeq(cells, 1, (CHOOSE k \in DOMAIN cells : cells[k] = NUL /\ \A j \in 1 .. k - 1 : cells[j] # NUL) - 1)

\* The listener prints its buffer up to the first NUL, whatever recvfrom has put there.
Listen(p, n) ==
    LET b == [k \in DOMAIN buf[p] |-> IF k \in DOMAIN Cells(n) THEN Cells(n)[k] ELSE buf[p][k]]
    IN  /\ buf' = Set(buf, p, b)
        /\ shown' = [shown EXCEPT ![p] = Append(@, [from |-> typed[n].by, cells |-> UpToNul(b)])]

Matches(n) == typed[n].by = Watched \/ Peer[typed[n].by] = Watched

\* A datagram arrives, and may arrive again; the sniffer gets it or is too slow.
Arrive(n) ==
    LET to == Peer[typed[n].by]
    IN  /\ n \in net /\ net' \in {net, net \ {n}}
        /\ IF listener[to] THEN Len(shown[to]) < MaxSent /\ Listen(to, n)
                           ELSE UNCHANGED <<buf, shown>>
        /\ dump' \in {dump} \cup (IF Matches(n) /\ Len(dump) < MaxSent THEN {Append(dump, n)} ELSE {})
        /\ UNCHANGED <<writer, listener, typed, failed>>

Lose(n) ==
    /\ n \in net /\ net' = net \ {n}
    /\ UNCHANGED <<writer, listener, typed, buf, shown, dump, failed>>

Next ==
    \/ \E p \in Ports : Start(p) \/ Write(p) \/ WriteFails(p) \/ EndOfInput(p) \/ Interrupt(p)
    \/ \E n \in net : Arrive(n) \/ Lose(n)

Spec == Init /\ [][Next]_vars

-----------------------------------------------------------------------------
(* Properties *)

\* Every variable has its type.
TypeOK ==
    /\ writer \in [Ports -> BOOLEAN] /\ listener \in [Ports -> BOOLEAN]
    /\ net \subseteq DOMAIN typed /\ Len(typed) <= MaxSent
    /\ buf \in [Ports -> [1 .. MaxLine + 1 -> 0 .. MaxSent]]

\* What a listener prints is one typed line from end to end, lost or repeated as a whole
\* but never with a piece of a longer one before it; a writer has its listener, and none of
\* the two is left when sendto has failed; and all that the sniffer recorded is of its port.
ChatRight ==
    /\ \A p \in Ports : \A k \in DOMAIN shown[p] :
          \E n \in DOMAIN typed :
              /\ shown[p][k] = [from |-> typed[n].by, cells |-> [j \in 1 .. typed[n].len |-> n]]
              /\ Peer[typed[n].by] = p
    /\ \A p \in Ports : (writer[p] => listener[p]) /\ (p \in failed => ~listener[p])
    /\ \A k \in DOMAIN dump : Watched \in {typed[dump[k]].by, Peer[typed[dump[k]].by]}
=============================================================================
