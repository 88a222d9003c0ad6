--------------------------- MODULE SignalCounter ---------------------------
(***************************************************************************)
(* module3/05: a program writes 1, 2, 3 ... to a file, one number a second *)
(* and one whenever a signal wakes it, until its handler has counted three *)
(* SIGINT.  The handler writes a line for each SIGINT and each SIGQUIT.    *)
(***************************************************************************)
EXTENDS Naturals, Sequences, FiniteSets

CONSTANTS MaxSignals, MaxNumbers    \* bounds: signals sent, and numbers written in peace

ConstantAssumption == MaxSignals \in Nat /\ MaxNumbers \in Nat

SignalKinds == {"SIGINT", "SIGQUIT"}

VARIABLES
    sa_flags, deaf,       \* never set: any flags, and whether a handler holds back the other signal
    pc, count,            \* of main
    sigint_count,
    handlers,             \* the handlers that run, the innermost last
    caught,               \* signals whose handler is installed
    pending, sent, log    \* signals that wait, how many were sent, and the file

vars == <<sa_flags, deaf, pc, count, sigint_count, handlers, caught, pending, sent, log>>

Init ==
    /\ sa_flags = {} /\ deaf = FALSE
    /\ pc = "off" /\ count = 1 /\ sigint_count = 0
    /\ handlers = <<>> /\ caught = {}
    /\ pending = {} /\ sent = 0 /\ log = <<>>

Over == pc \in {"off", "done", "killed"}
Top == handlers[Len(handlers)]
Deferred(s) ==
    \E k \in DOMAIN handlers :
        IF handlers[k].signal = s THEN "NODEFER" \notin sa_flags ELSE deaf
Written(line, n) == log' = IF pc = "closed" THEN log ELSE Append(log, <<line, n>>)

\* sigaction with whatever the stack holds in sa_flags and sa_mask.
Start ==
    /\ pc = "off" /\ pc' = "check"
    /\ sa_flags' \in SUBSET {"NODEFER", "RESETHAND"} /\ deaf' \in BOOLEAN
    /\ caught' = SignalKinds
    /\ UNCHANGED <<count, sigint_count, handlers, pending, sent, log>>

-----------------------------------------------------------------------------
(* Signals: of one kind only one waits *)

Send(s) ==
    /\ ~Over /\ sent < MaxSignals
    /\ pending' = pending \cup {s} /\ sent' = sent + 1
    /\ UNCHANGED <<sa_flags, deaf, pc, count, sigint_count, handlers, caught, log>>

Deliver(s) ==
    /\ ~Over /\ s \in pending /\ ~Deferred(s)
    /\ pending' = pending \ {s}
    /\ IF s \in caught
       THEN /\ handlers' = Append(handlers, [signal |-> s, at |-> "begin", loaded |-> 0])
            /\ caught' = IF "RESETHAND" \in sa_flags THEN caught \ {s} ELSE caught
            /\ pc' = IF pc = "sleep" THEN "check" ELSE pc
       ELSE pc' = "killed" /\ handlers' = <<>> /\ UNCHANGED caught
    /\ UNCHANGED <<sa_flags, deaf, count, sigint_count, sent, log>>

-----------------------------------------------------------------------------
(* sigHandler: sigint_count++ may be a load and a store *)

Resume(frame) == handlers' = [handlers EXCEPT ![Len(handlers)] = frame]

Load ==
    /\ handlers # <<>> /\ Top.signal = "SIGINT" /\ Top.at = "begin"
    /\ Resume([Top EXCEPT !.at = "store", !.loaded = sigint_count])
    /\ UNCHANGED <<sa_flags, deaf, pc, count, sigint_count, caught, pending, sent, log>>

Store ==
    /\ handlers # <<>> /\ Top.at = "store"
    /\ sigint_count' = Top.loaded + 1
    /\ Resume([Top EXCEPT !.at = "write"])
    /\ UNCHANGED <<sa_flags, deaf, pc, count, caught, pending, sent, log>>

Write ==
    /\ handlers # <<>>
    /\ Top.at = "write" \/ Top.signal = "SIGQUIT"
    /\ Written(Top.signal, 0)
    /\ handlers' = SubSeq(handlers, 1, Len(handlers) - 1)
    /\ UNCHANGED <<sa_flags, deaf, pc, count, sigint_count, caught, pending, sent>>

-----------------------------------------------------------------------------
(* main *)

\* Mutant: the third SIGINT is not enough.
EnoughLater == sigint_count > 3
Enough == sigint_count >= 3

Main ==
    /\ handlers = <<>> /\ ~Over
    /\ \/ pc = "check" /\ pc' = (IF Enough THEN "close" ELSE "write") /\ UNCHANGED <<count, log>>
       \/ pc = "write" /\ pc' = "sleep" /\ Written("number", count) /\ count' = count + 1
       \/ /\ pc = "sleep" /\ (count <= MaxNumbers \/ Enough)
          /\ pc' = "check" /\ UNCHANGED <<count, log>>
       \/ pc = "close" /\ pc' = "closed" /\ UNCHANGED <<count, log>>
       \/ pc = "closed" /\ pc' = "done" /\ UNCHANGED <<count, log>>
    /\ UNCHANGED <<sa_flags, deaf, sigint_count, handlers, caught, pending, sent>>

Next == Start \/ (\E s \in SignalKinds : Send(s) \/ Deliver(s)) \/ Load \/ Store \/ Write \/ Main

\* The kernel runs the program and delivers what is not held back.
Fairness == WF_vars(Load \/ Store \/ Write) /\ WF_vars(Main) /\ \A s \in SignalKinds : WF_vars(Deliver(s))

Spec == Init /\ [][Next]_vars /\ Fairness

-----------------------------------------------------------------------------
(* Properties *)

\* Every variable has its type.
TypeOK ==
    /\ pc \in {"off", "check", "write", "sleep", "close", "closed", "done", "killed"}
    /\ count \in Nat /\ sigint_count \in 0 .. MaxSignals
    /\ caught \subseteq SignalKinds /\ pending \subseteq SignalKinds
    /\ log \in Seq((SignalKinds \cup {"number"}) \X Nat)

ThirdBy(n) ==
    \E a, b, c \in 1 .. n :
        a < b /\ b < c /\ \A k \in {a, b, c} : log[k][1] = "SIGINT"
Numbers == {k \in DOMAIN log : log[k][1] = "number"}

\* The numbers of the file are 1, 2, 3 ... whatever signals come between; and unless
\* handlers of one signal nest, none but one that was decided before follows the line of
\* the third SIGINT, and the program ends after that line only.
LogRight ==
    /\ \A k \in Numbers : log[k][2] = Cardinality({j \in Numbers : j <= k})
    /\ "NODEFER" \notin sa_flags =>
          /\ \A k \in DOMAIN log : ThirdBy(k) => \A a, b \in Numbers : a > k /\ b > k => a = b
          /\ pc = "done" => ThirdBy(Len(log))

\* Unless handlers of one signal nest, the third line of a SIGINT is followed by the end.
Ends == ThirdBy(Len(log)) /\ "NODEFER" \notin sa_flags ~> Over
=============================================================================
