------------------------------ MODULE LineLog ------------------------------
(***************************************************************************)
(* What the programs of module3/08 and module3/09 promise: files of lines  *)
(* only grow, and whoever analyses a file prints the smallest and the      *)
(* largest number of each of its lines, once and in order, until it is     *)
(* stopped; started again, it begins with the first line.                  *)
(***************************************************************************)
EXTENDS Integers, Sequences

CONSTANTS
    File,     \* file names
    Reader,   \* places that analyse a file: one for each file of a consumer
    Of(_),    \* the file of a reader
    Lines     \* the lines producers may generate: sequences of numbers

VARIABLES
    file,     \* the lines of each file
    out       \* what each reader has printed

\* The smallest and the largest number of a line.
Bounds(line) ==
    LET numbers == {line[k] : k \in DOMAIN line} IN
    CHOOSE b \in numbers \X numbers : \A n \in numbers : b[1] <= n /\ n <= b[2]

Init ==
    /\ file = [f \in File |-> <<>>]
    /\ out = [r \in Reader |-> <<>>]

Write(f) ==
    /\ \E line \in Lines : file' = [file EXCEPT ![f] = Append(@, line)]
    /\ UNCHANGED out

Analyse(r) ==
    /\ Len(out[r]) < Len(file[Of(r)])
    /\ out' = [out EXCEPT ![r] = Append(@, Bounds(file[Of(r)][Len(@) + 1]))]
    /\ UNCHANGED file

\* The readers of one process start over.
StartOver ==
    /\ \E stopped \in SUBSET Reader :
          out' = [r \in Reader |-> IF r \in stopped THEN <<>> ELSE out[r]]
    /\ UNCHANGED file

Next ==
    \/ \E f \in File : Write(f)
    \/ \E r \in Reader : Analyse(r)
    \/ StartOver

Spec == Init /\ [][Next]_<<file, out>>
=============================================================================
