---------------------------- MODULE FileTransfer ----------------------------
(***************************************************************************)
(* How module3/13 and module3/15 pass a file through a TCP connection: the *)
(* size in decimal, an acknowledgement, then a loop around sendfile() on   *)
(* one side and one around recv() on the other.  Uploads and downloads are *)
(* the same two loops with the sides exchanged.                            *)
(***************************************************************************)
EXTENDS Naturals, Sequences, SequencesExt, FiniteSetsExt

CONSTANTS
    Sizes,      \* sizes of files
    BufSize,    \* BUF_SIZE - 1
    Names,      \* file names, as sequences of characters: digits and 10 for any other
    Partial     \* whether sendfile() may send less than it is asked to

ConstantAssumption ==
    /\ Sizes \subseteq 1 .. 9 /\ BufSize \in Nat \ {0}
    /\ Names \subseteq Seq(0 .. 10)
    /\ Partial \in BOOLEAN

VARIABLES
    size,      \* the size of the file; its bytes are 1 .. size
    stale,     \* what the receiver's buffer holds when the size comes: the file name
    filesize,  \* the size the receiver has understood, 0 before
    offset,    \* the sender's offset
    chan,      \* bytes in the connection
    buff,      \* the receiver's buffer; 0 is a byte that was never received
    recieved,  \* bytes the receiver has counted
    got,       \* history: the bytes that recv() has returned
    pieces,    \* history: how often it has
    file       \* what the receiver has written

vars == <<size, stale, filesize, offset, chan, buff, recieved, got, pieces, file>>

TypeOK ==
    /\ size \in Sizes /\ stale \in Names
    /\ filesize \in Nat
    /\ offset \in 0 .. 2 * size
    /\ chan \in Seq(1 .. size)
    /\ buff \in [1 .. BufSize -> 0 .. size]
    /\ recieved \in 0 .. size
    /\ got \in Seq(1 .. size) /\ pieces \in Nat
    /\ file \in Seq(0 .. size)

Init ==
    /\ size \in Sizes
    /\ stale \in Names
    /\ filesize = 0
    /\ offset = 0
    /\ chan = <<>>
    /\ buff = [i \in 1 .. BufSize |-> 0]
    /\ recieved = 0
    /\ got = <<>> /\ pieces = 0
    /\ file = <<>>

-----------------------------------------------------------------------------

\* sscanf("%d"): the digits at the start of the text.
Number(text) ==
    LET k == Max({0} \cup {j \in 1 .. Len(text) : \A i \in 1 .. j : text[i] < 10})
    IN  FoldLeft(LAMBDA n, d : 10 * n + d, 0, SubSeq(text, 1, k))

\* The size, of one digit, is received over the old contents of the buffer, and no
\* terminating zero is put after it.
GetSize ==
    /\ filesize = 0
    /\ filesize' = Number(IF stale = <<>> THEN <<size>> ELSE ReplaceAt(stale, 1, size))
    /\ UNCHANGED <<size, stale, offset, chan, buff, recieved, got, pieces, file>>

\* Mutant: the result of sendfile is ignored.
AddedNothing(k) == {offset}

\* offset += sendfile(.., &offset, ..): the call advances offset itself, and it is not
\* determined whether the sum is made with the value before or after the call.
Added(k) == {offset + k, offset + k + k}

\* The count that sendfile is asked to send.
Asked == size - offset

\* One turn of the sender's loop.
SendFile ==
    /\ filesize > 0
    /\ offset < size
    /\ \E k \in IF Partial THEN 1 .. Asked ELSE {Asked} :
          /\ chan' = chan \o [i \in 1 .. k |-> offset + i]
          /\ offset' \in Added(k)
    /\ UNCHANGED <<size, stale, filesize, buff, recieved, got, pieces, file>>

\* write(file, buff, recieved): as many bytes as were received in all, from the start of
\* the buffer and beyond its end.
Written(n) == [i \in 1 .. recieved + n |-> IF i <= BufSize THEN buff'[i] ELSE 0]

\* One turn of the receiver's loop: n bytes come.
Receive ==
    /\ filesize > 0
    /\ recieved < filesize
    /\ \E n \in 1 .. Min({BufSize, Len(chan)}) :
          /\ got' = got \o SubSeq(chan, 1, n) /\ pieces' = pieces + 1
          /\ buff' = [i \in 1 .. BufSize |-> IF i <= n THEN chan[i] ELSE buff[i]]
          /\ chan' = SubSeq(chan, n + 1, Len(chan))
          /\ recieved' = recieved + n
          /\ file' = file \o Written(n)
    /\ UNCHANGED <<size, stale, filesize, offset>>

Next == GetSize \/ SendFile \/ Receive

Spec == Init /\ [][Next]_vars
Fairness == WF_vars(SendFile) /\ WF_vars(Receive)

-----------------------------------------------------------------------------
(* Properties. *)

Done == filesize > 0 /\ recieved >= filesize

\* The first piece is written as it is, so a file shorter than the buffer arrives intact
\* over a connection that does not cut it.
OnePieceIntact == pieces = 1 => file = got

\* What has been received and what is in the connection are bytes of the file in the
\* file's order, none of them twice, even when sendfile sends a part and the offset runs
\* ahead of it.
NoneTwice ==
    LET sent == got \o chan
    IN  \A i, j \in 1 .. Len(sent) : i < j => sent[i] < sent[j]

\* When sendfile sends all at once and the name leaves no digits behind, the receiver's
\* loop ends with every byte.
TransferEnds == (\A i \in 1 .. Len(stale) : i > 1 => stale[i] = 10) ~> Done
=============================================================================
