---------------------------- MODULE ContactFile ----------------------------
(***************************************************************************)
(* module3/03: the contact tree kept in a file of whole records, read when *)
(* the program starts and written when it ends.  The file is opened once,  *)
(* without truncation, and the position that reading has reached is where  *)
(* writing begins.                                                         *)
(***************************************************************************)
EXTENDS ContactTree, SequencesExt

CONSTANT MaxRecords    \* bound: no start from a longer file

MaxAssumption == MaxRecords \in Nat

VARIABLES
    file,       \* its records
    position,   \* of the file descriptor, in records
    running,
    saved       \* history: the book when the program last ended by itself

fileVars == <<root, result, file, position, running, saved>>

FileInit == Init /\ file = <<>> /\ position = 0 /\ running = FALSE /\ saved = [i \in {} |-> NULL]

Record(i, c) == [id |-> i, contact |-> c]

\* Later records replace earlier ones of the same id.
readDB(records) ==
    FoldLeft(LAMBDA t, r : IF r.id < 0 THEN t ELSE Saved(t, r.id, r.contact), NULL, records)

RECURSIVE writeNode(_)
writeNode(t) ==
    IF t = NULL THEN <<>>
    ELSE <<Record(t.id, t.contact)>> \o writeNode(t.right) \o writeNode(t.left)

\* Mutant: the position is set back before writing.
PositionStart(records) == 0

PositionRead(records) == Len(records)

Start ==
    /\ ~ running /\ Len(file) <= MaxRecords
    /\ running' = TRUE
    /\ root' = readDB(file) /\ result' = NULL
    /\ position' = PositionRead(file)
    /\ UNCHANGED <<file, saved>>

\* What is written at the position stands in place of what was there.
writeDB(records) ==
    SubSeq(file, 1, position) \o records \o SubSeq(file, position + Len(records) + 1, Len(file))

Exit ==
    /\ running
    /\ running' = FALSE
    /\ file' = writeDB(writeNode(root)) /\ position' = 0
    /\ root' = NULL /\ result' = NULL
    /\ saved' = book

\* A signal ends the program: nothing is written.
Killed ==
    /\ running
    /\ running' = FALSE
    /\ root' = NULL /\ result' = NULL /\ position' = 0
    /\ UNCHANGED <<file, saved>>

FileNext ==
    \/ Start \/ Exit \/ Killed
    \/ running /\ Next /\ UNCHANGED <<file, position, running, saved>>

FileSpec == FileInit /\ [][FileNext]_fileVars

-----------------------------------------------------------------------------
(* Properties. *)

\* The file holds whole records of real contacts; the position is in it.
FileTypeOK ==
    /\ TypeOK
    /\ Range(file) \subseteq [id : Ids \cap Nat, contact : Contacts]
    /\ position \in 0 .. Len(file) /\ running \in BOOLEAN

\* Between runs the file still gives every contact that was saved, with the data it had:
\* reading an ever longer file in order, over what was written before, loses no change.
NothingLost ==
    ~ running =>
       LET tree == readDB(file)
       IN  \A i \in DOMAIN saved : LET t == findNode(tree, i)
                                   IN  t # NULL /\ t.contact = saved[i]
=============================================================================
