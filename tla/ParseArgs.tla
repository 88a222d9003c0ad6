----------------------------- MODULE ParseArgs -----------------------------
(***************************************************************************)
(* How the interpreters of module3/02 and 04 cut a line into arguments,    *)
(* one character a step, and what that of 02 does with them.  An argument  *)
(* is written into cells that begin as NUL; arg_start, which moves at each *)
(* quote and backslash, says into which.                                   *)
(***************************************************************************)
EXTENDS Integers, Sequences, SequencesExt

CONSTANTS
    Pipes,       \* of the interpreters covered: is "|" a character of its own (04)
    FirstMax,    \* arg_max at first
    MaxLine      \* bound: characters of a line, less than MAX_ARG_LEN

ConstantAssumption == Pipes \subseteq BOOLEAN /\ FirstMax \in Nat /\ MaxLine \in Nat

NUL == "NUL"
\* "e" is the word exit, and "n" stands for the letters of n, t, v, r and '.
Letters == {"e", "?", "n", "0"}
Escapes == {"n", "0"}
Escaped(c) == IF c = "n" THEN "newline" ELSE NUL

VARIABLES
    pipes,       \* which interpreter
    phase,       \* "prompt", "parse", "skip" the rest, "parsed", "run", "ended", "aborted"
    line,        \* the characters so far
    offset,      \* where the command begins
    args, arg_start, is_started, quotes_flag, escape_flag,    \* of parseArgs
    commands,    \* the arguments of each command, as C reads them
    rv           \* the status of the last wait

flags == <<is_started, quotes_flag, escape_flag>>
parser == <<args, arg_start, is_started, quotes_flag, escape_flag>>
vars == <<pipes, phase, line, offset, parser, commands, rv>>

NoStatus == 999    \* no status: rv before the first program
Fresh ==
    /\ args' = <<>> /\ arg_start' = 0
    /\ is_started' = FALSE /\ quotes_flag' = FALSE /\ escape_flag' = FALSE

Init ==
    /\ pipes \in Pipes /\ phase = "prompt"
    /\ line = <<>> /\ offset = 0
    /\ args = <<>> /\ arg_start = 0
    /\ is_started = FALSE /\ quotes_flag = FALSE /\ escape_flag = FALSE
    /\ commands = <<>> /\ rv = NoStatus

\* fgets has a line, or the input ends.
ReadLine ==
    /\ phase = "prompt"
    /\ phase' \in {"parse", "ended"}
    /\ line' = <<>> /\ offset' = 0 /\ commands' = <<>> /\ Fresh
    /\ UNCHANGED <<pipes, rv>>

-----------------------------------------------------------------------------
(* parseArgs *)

i == Len(line) - offset
Begun == IF is_started THEN args ELSE Append(args, <<>>)

Written(cells, k, c) ==
    [j \in 1 .. (IF k < Len(cells) THEN Len(cells) ELSE k + 1) |->
        IF j = k + 1 THEN c ELSE IF j \in DOMAIN cells THEN cells[j] ELSE NUL]

\* args[i] is written when arg_start has become start.
Put(c, start) ==
    /\ args' = [Begun EXCEPT ![Len(Begun)] = Written(@, i - start, c)]
    /\ arg_start' = start /\ is_started' = TRUE

EndArg ==
    /\ args' = [Begun EXCEPT ![Len(Begun)] = Written(@, i - arg_start, NUL)]
    /\ arg_start' = i + 1 /\ is_started' = FALSE

Char(c) ==
    /\ phase = "parse" /\ Len(line) < MaxLine
    /\ line' = Append(line, c)
    /\ UNCHANGED <<pipes, phase, offset, commands, rv>>

Space ==
    /\ Char(" ")
    /\ \/ ~is_started /\ arg_start' = i + 1 /\ UNCHANGED <<args, flags>>
       \/ is_started /\ escape_flag /\ escape_flag' = FALSE /\ Put(" ", arg_start + 1)
          /\ UNCHANGED quotes_flag
       \/ is_started /\ ~escape_flag /\ quotes_flag /\ Put(" ", arg_start)
          /\ UNCHANGED <<quotes_flag, escape_flag>>
       \/ is_started /\ ~escape_flag /\ ~quotes_flag /\ EndArg
          /\ UNCHANGED <<quotes_flag, escape_flag>>

Quote ==
    /\ Char("\"")
    /\ escape_flag' = FALSE
    /\ \/ escape_flag /\ Put("\"", arg_start - 1) /\ UNCHANGED quotes_flag
       \/ ~escape_flag /\ quotes_flag /\ quotes_flag' = FALSE /\ EndArg
       \/ /\ ~escape_flag /\ ~quotes_flag /\ quotes_flag' = TRUE
          /\ args' = Begun /\ is_started' = TRUE /\ arg_start' = arg_start + 1

\* Mutant: the second backslash keeps its place.
SecondStays == arg_start
SecondBackslash == arg_start + 1

Backslash ==
    /\ Char("\\")
    /\ escape_flag' = ~escape_flag
    /\ \/ escape_flag /\ arg_start' = SecondBackslash /\ UNCHANGED <<args, is_started>>
       \/ ~escape_flag /\ Put("\\", arg_start)
    /\ UNCHANGED quotes_flag

Letter(c) ==
    /\ Char(c)
    /\ escape_flag' = FALSE
    /\ IF escape_flag /\ c \in Escapes THEN Put(Escaped(c), arg_start + 1) ELSE Put(c, arg_start)
    /\ UNCHANGED quotes_flag

CString(cells) ==
    IF NUL \in ToSet(cells) THEN SubSeq(cells, 1, SelectInSeq(cells, LAMBDA c : c = NUL) - 1) ELSE cells
Parsed == [k \in DOMAIN args |-> CString(args[k])]

\* After reallocArgs the pointer behind the last one has no value, and is freed.
FreesGarbage == Len(args) > FirstMax

Bar ==
    /\ pipes /\ phase = "parse" /\ Len(line) < MaxLine
    /\ line' = Append(line, "|")
    /\ \/ line = <<>> /\ phase' = "skip" /\ UNCHANGED <<offset, parser, commands>>
       \/ /\ line # <<>> /\ commands' = Append(commands, Parsed)
          /\ offset' = Len(line') /\ Fresh
          /\ phase' \in {"parse"} \cup (IF FreesGarbage THEN {"aborted"} ELSE {})
    /\ UNCHANGED <<pipes, rv>>

Skip ==
    /\ phase = "skip" /\ Len(line) < MaxLine
    /\ line' = Append(line, "n")
    /\ UNCHANGED <<pipes, phase, offset, parser, commands, rv>>

NewLine ==
    /\ phase \in {"parse", "skip"}
    /\ commands' = IF phase = "skip" \/ (pipes /\ i = 0) THEN commands ELSE Append(commands, Parsed)
    /\ phase' \in {"parsed"} \cup (IF FreesGarbage THEN {"aborted"} ELSE {})
    /\ UNCHANGED <<pipes, line, offset, parser, rv>>

-----------------------------------------------------------------------------
(* main of module3/02; that of 04 goes on as Pipeline says *)

Own == {<<>>, <<<<"e">>>>, <<<<"?">>>>}

Dispatch ==
    /\ phase = "parsed"
    /\ phase' = CASE pipes \/ commands[1] \in Own \ {<<<<"e">>>>} -> "prompt"
                  [] ~pipes /\ commands[1] = <<<<"e">>>> -> "ended"
                  [] ~pipes /\ commands[1] \notin Own -> "run"
    /\ UNCHANGED <<pipes, line, offset, parser, commands, rv>>

\* fork may fail; execvp may fail, and else the program has its status.
Run ==
    /\ phase = "run"
    /\ \/ phase' = "ended" /\ UNCHANGED rv
       \/ phase' = "prompt" /\ rv' \in {0, 256}
    /\ UNCHANGED <<pipes, line, offset, parser, commands>>

Next ==
    \/ ReadLine \/ Space \/ Quote \/ Backslash \/ Bar \/ Skip \/ NewLine \/ Dispatch \/ Run
    \/ \E c \in Letters \cup (IF pipes THEN {} ELSE {"|"}) : Letter(c)

Spec == Init /\ [][Next]_vars

-----------------------------------------------------------------------------
(* What a line means: escapes first, then quotes, then spaces. *)

Lit(c) == [char |-> c, bare |-> FALSE]

RECURSIVE Symbols(_)
Symbols(s) ==
    IF s = <<>> THEN <<>>
    ELSE IF s[1] # "\\" THEN <<[char |-> s[1], bare |-> TRUE]>> \o Symbols(Tail(s))
    ELSE IF Len(s) = 1 THEN <<Lit("\\")>>
    ELSE (IF s[2] \in Escapes THEN <<Lit(Escaped(s[2]))>>
          ELSE IF s[2] \in {" ", "\"", "\\"} THEN <<Lit(s[2])>>
          ELSE <<Lit("\\"), Lit(s[2])>>) \o Symbols(SubSeq(s, 3, Len(s)))

IsBare(x, c) == x.bare /\ x.char = c
Quotes(s) == SelectSeq(s, LAMBDA x : IsBare(x, "\""))

\* The first word ends at a space that no quote is before, or at the second quote.
EndsAt(s, k) ==
    LET before == Len(Quotes(SubSeq(s, 1, k - 1)))
    IN  (IsBare(s[k], " ") /\ before = 0) \/ (IsBare(s[k], "\"") /\ before = 1)

Text(s) ==
    LET kept == SelectSeq(s, LAMBDA x : ~IsBare(x, "\""))
    IN  CString([k \in DOMAIN kept |-> kept[k].char])

RECURSIVE Words(_)
Words(s) ==
    IF s = <<>> THEN <<>>
    ELSE IF IsBare(s[1], " ") THEN Words(Tail(s))
    ELSE IF \A k \in DOMAIN s : ~EndsAt(s, k) THEN <<Text(s)>>
    ELSE LET k == CHOOSE n \in DOMAIN s : EndsAt(s, n) /\ \A m \in 1 .. n - 1 : ~EndsAt(s, m)
         IN  <<Text(SubSeq(s, 1, k - 1))>> \o Words(SubSeq(s, k + 1, Len(s)))

RECURSIVE Pieces(_)
Pieces(s) ==
    IF "|" \notin ToSet(s) THEN <<s>>
    ELSE LET k == SelectInSeq(s, LAMBDA c : c = "|")
         IN  <<SubSeq(s, 1, k - 1)>> \o Pieces(SubSeq(s, k + 1, Len(s)))

\* The commands: in 04 none when the first is empty, and an empty last one is left out.
Meant ==
    LET p == IF pipes THEN Pieces(line) ELSE <<line>>
        kept == IF ~pipes THEN p
                ELSE IF p[1] = <<>> THEN <<>> ELSE IF Last(p) = <<>> THEN Front(p) ELSE p
    IN  [k \in DOMAIN kept |-> Words(Symbols(kept[k]))]

HasEscapedQuote ==
    \E p \in ToSet(Pieces(line)) : Lit("\"") \in ToSet(Symbols(p))

-----------------------------------------------------------------------------
(* Properties *)

\* Every variable has its type.
TypeOK ==
    /\ phase \in {"prompt", "parse", "skip", "parsed", "run", "ended", "aborted"}
    /\ Len(line) <= MaxLine /\ offset \in 0 .. Len(line)
    /\ rv \in {0, 256, NoStatus}
    /\ \A k \in DOMAIN args : Len(args[k]) <= 2 * MaxLine + 1

\* A line without an escaped double quote is cut into the words it means, whatever else it
\* escapes and quotes; only a line of more than FirstMax arguments can end the interpreter.
WordsRight ==
    /\ phase = "parsed" /\ ~HasEscapedQuote => commands = Meant
    /\ phase = "aborted" => Len(args) > FirstMax \/ \E k \in DOMAIN commands : Len(commands[k]) > FirstMax

\* "following escape sequences are supported" (02/shell.c:94), the double quote among them.
QuoteEscapes == phase = "parsed" => commands = Meant
=============================================================================
