----------------------------- MODULE MCPipeline -----------------------------
(***************************************************************************)
(* The interpreters of module3/02 and 04: how a line is cut into words     *)
(* (ParseArgs) and what the commands of a line do (Pipeline); and the      *)
(* contacts of module3/03 (ContactFile) with the tree of module2/4/4.3     *)
(* that they are kept in (ContactTree).  A behaviour is one of one program.*)
(***************************************************************************)
EXTENDS Pipeline

CONSTANTS
    Programs,                     \* what the run covers
    Pipes, FirstMax, MaxLine,     \* ParseArgs
    Ids, FileIds, Contacts, MaxRecords, NULL    \* ContactTree and ContactFile

TreeIds == -1 .. 5

VARIABLES
    program,                                                   \* the program of this behaviour
    pipes, stage, line, offset, cells, arg_start, is_started, quotes_flag, escape_flag,
    commands, status,                                          \* ParseArgs
    root, result,                                              \* ContactTree
    tree, answer, records, position, running, saved            \* ContactFile

Parser == INSTANCE ParseArgs WITH phase <- stage, args <- cells, rv <- status
Tree == INSTANCE ContactTree
File == INSTANCE ContactFile WITH Ids <- FileIds, root <- tree, result <- answer, file <- records

ASSUME InstanceAssumption ==
    /\ Parser!ConstantAssumption /\ Tree!ConstantAssumption
    /\ File!ConstantAssumption /\ File!MaxAssumption

ParserVars ==
    <<pipes, stage, line, offset, cells, arg_start, is_started, quotes_flag, escape_flag,
      commands, status>>
TreeVars == <<root, result>>
FileVars == <<tree, answer, records, position, running, saved>>

LineInit ==
    /\ program \in Programs /\ Init /\ Parser!Init /\ Tree!Init /\ File!FileInit
    /\ program # "words" => pipes = TRUE

LineNext ==
    /\ UNCHANGED program
    /\ IF program = "pipeline" THEN Next ELSE UNCHANGED vars
    /\ IF program = "words" THEN Parser!Next ELSE UNCHANGED ParserVars
    /\ IF program = "tree" THEN Tree!Next ELSE UNCHANGED TreeVars
    /\ IF program = "file" THEN File!FileNext ELSE UNCHANGED FileVars

LineSpec == LineInit /\ [][LineNext]_<<program, vars, ParserVars, TreeVars, FileVars>>
FairLineSpec == LineSpec /\ Fairness

\* Every variable has its type.
TypesOK == TypeOK /\ Parser!TypeOK /\ Tree!TypeOK /\ File!FileTypeOK

\* module3/02, 04: a line is cut into the words it means, unless it escapes a double quote.
WordsRight == Parser!WordsRight

\* module3/02, 04: the double quote can be escaped, too (02/shell.c:94; the code breaks it).
QuoteEscapes == Parser!QuoteEscapes

\* module2/4/4.3, module3/03: the tree is a search tree, balanced at every node, and a
\* contact book; and every contact that was saved can be read from its file, over any
\* number of runs.
TreeRight == [](Tree!SearchTree /\ Tree!Balanced /\ File!NothingLost) /\ Tree!BookSpec

-----------------------------------------------------------------------------
C(p, n, r) == [prog |-> p, arg |-> n, redir |-> r]
\* Commands by their place in a line.  cat has work as long as there is input.
Sources == {C("gen", 2, "no"), C("gen", 2, ">"), C("gen", 1, ">>"), C("cat", 1, "<"),
            C("?", 0, "no"), C("missing", 0, "no"), C("empty", 0, "no")}
Filters == {C("cat", 1, "no"), C("cat", 1, ">>"), C("head", 1, "no"), C("head", 1, "<"),
            C("false", 0, "no"), C("exit", 0, "no"), C("empty", 0, "no")}
SmallLines == {<<>>} \cup {<<c>> : c \in Sources} \cup {<<c, d>> : c \in Sources, d \in Filters}
              \cup {<<c, d, e>> : c \in Sources, d \in Filters, e \in Filters}
=============================================================================
