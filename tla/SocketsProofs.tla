----------------------------- MODULE SocketsProofs -----------------------------
(***************************************************************************)
(* Proofs about the programs of module3 that talk over sockets.            *)
(* PollServer: the array of slots holds the connections that are open,     *)
(* each once, whatever is accepted and removed while the loop walks it,    *)
(* and a client and the server take turns.  CalcServer: what is typed      *)
(* answers the question shown.  FileTransfer, UdpChat, EchoCount: what is  *)
(* received is what was sent.                                              *)
(***************************************************************************)
EXTENDS MCSockets, SequenceTheorems, FiniteSetTheorems, WellFoundedInduction, TLAPS

-----------------------------------------------------------------------------
(* Numbers and queues. *)

\* A set of naturals has a least element.
LEMMA LeastNat ==
    ASSUME NEW T, T \subseteq Nat, T # {}
    PROVE  \E x \in T : \A y \in T : x <= y
<1> DEFINE R == {p \in Nat \X Nat : p[1] < p[2]}
<1>1. IsWellFoundedOn(R, Nat)
  BY NatLessThanWellFounded DEF OpToRel
<1>2. PICK x \in T : \A y \in T : ~ (<<y, x>> \in R)
  <2> HIDE DEF R
  <2> QED BY <1>1, WFMin
<1>3. ASSUME NEW y \in T PROVE x <= y
  <2>1. x \in Nat /\ y \in Nat
    OBVIOUS
  <2>2. y < x => <<y, x>> \in R
    BY <2>1
  <2> QED BY <1>2, <2>1, <2>2
<1> QED BY <1>3

\* What holds of 0, and of n + 1 when it holds of n, holds of the numbers up to m.
LEMMA UpTo ==
    ASSUME NEW m \in Nat, NEW T, 0 \in T, \A n \in 0 .. m : n \in T /\ n < m => n + 1 \in T
    PROVE  \A n \in 0 .. m : n \in T
<1> DEFINE F == {n \in 0 .. m : n \notin T}
<1>1. SUFFICES ASSUME F # {} PROVE FALSE
  OBVIOUS
<1>2. F \subseteq Nat
  OBVIOUS
<1> HIDE DEF F
<1>3. PICK n \in F : \A y \in F : n <= y
  BY <1>1, <1>2, LeastNat
<1> USE DEF F
<1>4. n \in 0 .. m /\ n # 0
  OBVIOUS
<1>5. n - 1 \in 0 .. m /\ n - 1 < m /\ n - 1 + 1 = n
  BY <1>4
<1>6. n - 1 \notin F
  BY <1>3, <1>4
<1> QED BY <1>5, <1>6

\* A piece of a queue and what is left of it.
LEMMA CutQueue ==
    ASSUME NEW S, NEW q \in Seq(S), NEW k \in 1 .. Len(q)
    PROVE  /\ SubSeq(q, 1, k) \in Seq(S) /\ Len(SubSeq(q, 1, k)) = k
           /\ \A j \in 1 .. k : SubSeq(q, 1, k)[j] = q[j]
           /\ SubSeq(q, k + 1, Len(q)) \in Seq(S)
           /\ Len(SubSeq(q, k + 1, Len(q))) = Len(q) - k
           /\ \A j \in 1 .. Len(q) - k : SubSeq(q, k + 1, Len(q))[j] = q[k + j]
<1>1. Len(q) \in Nat /\ \A j \in 1 .. Len(q) : q[j] \in S
  BY LenProperties, ElementOfSeq
<1>2. \A j \in 1 .. k : q[j] \in S
  BY <1>1
<1>3. \A j \in k + 1 .. Len(q) : q[j] \in S
  BY <1>1
<1>4. /\ SubSeq(q, 1, k) \in Seq(S) /\ Len(SubSeq(q, 1, k)) = k
      /\ \A j \in 1 .. k : SubSeq(q, 1, k)[j] = q[j]
  BY <1>1, <1>2, SubSeqProperties
<1>5. /\ SubSeq(q, k + 1, Len(q)) \in Seq(S)
      /\ Len(SubSeq(q, k + 1, Len(q))) = Len(q) - k
      /\ \A j \in 1 .. Len(q) - k : SubSeq(q, k + 1, Len(q))[j] = q[k + j]
  BY <1>1, <1>3, SubSeqProperties
<1> QED BY <1>4, <1>5

-----------------------------------------------------------------------------
(* Sequences without repetition. *)

Distinct(s) == \A j, k \in 1 .. Len(s) : s[j] = s[k] => j = k

LEMMA AppendDistinct ==
    ASSUME NEW S, NEW s \in Seq(S), NEW e \in S
    PROVE  /\ Append(s, e) \in Seq(S) /\ Len(Append(s, e)) = Len(s) + 1
           /\ ToSet(Append(s, e)) = ToSet(s) \cup {e}
           /\ Distinct(s) /\ e \notin ToSet(s) => Distinct(Append(s, e))
<1>1. /\ Append(s, e) \in Seq(S) /\ Len(Append(s, e)) = Len(s) + 1 /\ Len(s) \in Nat
      /\ \A j \in 1 .. Len(s) : Append(s, e)[j] = s[j]
      /\ Append(s, e)[Len(s) + 1] = e
  BY AppendProperties, LenProperties
<1>2. DOMAIN s = 1 .. Len(s) /\ DOMAIN Append(s, e) = 1 .. Len(s) + 1
  BY <1>1, LenProperties
<1>3. 1 .. Len(s) + 1 = (1 .. Len(s)) \cup {Len(s) + 1}
  BY <1>1
<1>4. ToSet(Append(s, e)) = ToSet(s) \cup {e}
  BY <1>1, <1>2, <1>3 DEF ToSet
<1>5. ASSUME Distinct(s), e \notin ToSet(s) PROVE Distinct(Append(s, e))
  <2>1. \A j \in 1 .. Len(s) : s[j] # e
    BY <1>2, <1>5 DEF ToSet
  <2> QED BY <1>1, <1>3, <1>5, <2>1 DEF Distinct
<1> QED BY <1>1, <1>4, <1>5

LEMMA TailDistinct ==
    ASSUME NEW S, NEW s \in Seq(S), s # <<>>
    PROVE  /\ Head(s) \in S /\ Head(s) \in ToSet(s)
           /\ Tail(s) \in Seq(S) /\ Len(Tail(s)) = Len(s) - 1
           /\ Distinct(s) => Distinct(Tail(s)) /\ ToSet(Tail(s)) = ToSet(s) \ {Head(s)}
<1>1. /\ Head(s) \in S /\ Head(s) = s[1]
      /\ Tail(s) \in Seq(S) /\ Len(Tail(s)) = Len(s) - 1
      /\ \A j \in 1 .. Len(Tail(s)) : Tail(s)[j] = s[j + 1]
  BY HeadTailProperties
<1>2. DOMAIN s = 1 .. Len(s) /\ DOMAIN Tail(s) = 1 .. Len(Tail(s)) /\ Len(s) \in Nat \ {0}
  BY <1>1, LenProperties, EmptySeq
<1>3. 1 \in DOMAIN s
  BY <1>2
<1>4. ASSUME Distinct(s) PROVE Distinct(Tail(s)) /\ ToSet(Tail(s)) = ToSet(s) \ {Head(s)}
  <2>1. \A j \in 1 .. Len(s) - 1 : j + 1 \in 1 .. Len(s) /\ j + 1 # 1
    BY <1>2
  <2>2. Distinct(Tail(s))
    BY <1>1, <1>2, <1>4, <2>1 DEF Distinct
  <2>3. \A j \in 1 .. Len(s) : j = 1 \/ (j - 1 \in 1 .. Len(s) - 1 /\ (j - 1) + 1 = j)
    BY <1>2
  <2>4. ToSet(s) \ {Head(s)} \subseteq ToSet(Tail(s))
    <3>1. ASSUME NEW j \in 1 .. Len(s), s[j] # Head(s) PROVE s[j] \in ToSet(Tail(s))
      <4>1. j - 1 \in 1 .. Len(s) - 1 /\ (j - 1) + 1 = j
        BY <1>1, <2>3, <3>1
      <4>2. Tail(s)[j - 1] = s[j]
        BY <1>1, <4>1
      <4> QED BY <1>1, <1>2, <4>1, <4>2 DEF ToSet
    <3> QED BY <1>2, <3>1 DEF ToSet
  <2>5. ToSet(Tail(s)) \subseteq ToSet(s) \ {Head(s)}
    BY <1>1, <1>2, <1>3, <1>4, <2>1 DEF ToSet, Distinct
  <2> QED BY <2>2, <2>4, <2>5
<1> QED BY <1>1, <1>3, <1>4 DEF ToSet

\* RemoveAt: the elements after k move down.
LEMMA RemoveAtElements ==
    ASSUME NEW S, NEW s \in Seq(S), NEW k \in 1 .. Len(s)
    PROVE  /\ RemoveAt(s, k) \in Seq(S) /\ Len(RemoveAt(s, k)) = Len(s) - 1
           /\ \A j \in 1 .. Len(s) - 1 : RemoveAt(s, k)[j] = IF j < k THEN s[j] ELSE s[j + 1]
<1> DEFINE a == SubSeq(s, 1, k - 1)
           b == SubSeq(s, k + 1, Len(s))
<1>1. Len(s) \in Nat /\ k \in Int /\ 1 <= k /\ k <= Len(s)
  BY LenProperties
<1>2. a \in Seq(S) /\ Len(a) = k - 1 /\ \A j \in 1 .. k - 1 : a[j] = s[j]
  <2>1. \A j \in 1 .. k - 1 : s[j] \in S
    BY <1>1, ElementOfSeq
  <2>2. /\ a \in Seq(S) /\ Len(a) = IF 1 <= k - 1 THEN k - 1 - 1 + 1 ELSE 0
        /\ \A j \in 1 .. k - 1 - 1 + 1 : a[j] = s[1 + j - 1]
    BY <1>1, <2>1, SubSeqProperties
  <2> HIDE DEF a
  <2> QED BY <1>1, <2>2
<1>3. b \in Seq(S) /\ Len(b) = Len(s) - k /\ \A j \in 1 .. Len(s) - k : b[j] = s[k + j]
  <2>1. \A j \in k + 1 .. Len(s) : s[j] \in S
    BY <1>1, ElementOfSeq
  <2>2. /\ b \in Seq(S) /\ Len(b) = IF k + 1 <= Len(s) THEN Len(s) - (k + 1) + 1 ELSE 0
        /\ \A j \in 1 .. Len(s) - (k + 1) + 1 : b[j] = s[k + 1 + j - 1]
    BY <1>1, <2>1, SubSeqProperties
  <2> HIDE DEF b
  <2> QED BY <1>1, <2>2
<1>4. /\ a \o b \in Seq(S) /\ Len(a \o b) = Len(a) + Len(b)
      /\ \A j \in 1 .. Len(a) + Len(b) : (a \o b)[j] = IF j <= Len(a) THEN a[j] ELSE b[j - Len(a)]
  BY <1>2, <1>3, ConcatProperties
<1>5. RemoveAt(s, k) = a \o b
  BY DEF RemoveAt
<1> HIDE DEF a, b
<1>6. Len(a) + Len(b) = Len(s) - 1
  BY <1>1, <1>2, <1>3
<1>7. ASSUME NEW j \in 1 .. Len(s) - 1
      PROVE  (a \o b)[j] = IF j < k THEN s[j] ELSE s[j + 1]
  <2>1. CASE j < k
    BY <1>1, <1>2, <1>4, <1>6, <2>1
  <2>2. CASE ~ (j < k)
    <3>1. j - (k - 1) \in 1 .. Len(s) - k /\ k + (j - (k - 1)) = j + 1 /\ ~ (j <= k - 1)
      BY <1>1, <2>2
    <3>2. (a \o b)[j] = b[j - (k - 1)]
      BY <1>2, <1>4, <1>6, <3>1
    <3>3. b[j - (k - 1)] = s[k + (j - (k - 1))]
      BY <1>3, <3>1
    <3> QED BY <2>2, <3>1, <3>2, <3>3
  <2> QED BY <2>1, <2>2
<1> QED BY <1>4, <1>5, <1>6, <1>7

LEMMA RemoveDistinct ==
    ASSUME NEW S, NEW s \in Seq(S), NEW k \in 1 .. Len(s), Distinct(s)
    PROVE  Distinct(RemoveAt(s, k)) /\ ToSet(RemoveAt(s, k)) = ToSet(s) \ {s[k]}
<1> DEFINE q == RemoveAt(s, k)
<1>1. /\ q \in Seq(S) /\ Len(q) = Len(s) - 1 /\ Len(s) \in Nat
      /\ \A j \in 1 .. Len(s) - 1 : q[j] = IF j < k THEN s[j] ELSE s[j + 1]
  BY RemoveAtElements, LenProperties
<1> HIDE DEF q
<1>2. DOMAIN s = 1 .. Len(s) /\ DOMAIN q = 1 .. Len(s) - 1
  BY <1>1, LenProperties
<1>3. \A j \in 1 .. Len(s) - 1 : j \in 1 .. Len(s) /\ j + 1 \in 1 .. Len(s)
  BY <1>1
<1>4. Distinct(q)
  BY <1>1, <1>3, SMTT(20) DEF Distinct
<1>5. ToSet(q) \subseteq ToSet(s) \ {s[k]}
  <2>1. ASSUME NEW j \in 1 .. Len(s) - 1 PROVE q[j] \in ToSet(s) /\ q[j] # s[k]
    <3>1. CASE j < k
      BY <1>1, <1>2, <1>3, <3>1, SMTT(20) DEF ToSet, Distinct
    <3>2. CASE ~ (j < k)
      <4>1. q[j] = s[j + 1] /\ j + 1 \in 1 .. Len(s) /\ j + 1 # k
        BY <1>1, <1>3, <3>2
      <4> QED BY <1>2, <4>1 DEF ToSet, Distinct
    <3> QED BY <3>1, <3>2
  <2> QED BY <1>2, <2>1 DEF ToSet
<1>6. ASSUME NEW j \in 1 .. Len(s), j # k PROVE s[j] \in ToSet(q)
  <2>1. CASE j < k
    BY <1>1, <1>2, <2>1 DEF ToSet
  <2>2. CASE j > k
    <3>1. j - 1 \in 1 .. Len(s) - 1 /\ (j - 1) + 1 = j /\ ~ (j - 1 < k)
      BY <1>1, <2>2
    <3>2. q[j - 1] = s[j]
      BY <1>1, <3>1
    <3> QED BY <1>2, <3>1, <3>2 DEF ToSet
  <2> QED BY <1>6, <2>1, <2>2
<1>7. ToSet(s) \ {s[k]} \subseteq ToSet(q)
  BY <1>2, <1>6 DEF ToSet
<1> QED BY <1>4, <1>5, <1>7 DEF q

LEMMA DistinctLength ==
    ASSUME NEW S, IsFiniteSet(S), NEW s \in Seq(S), Distinct(s)
    PROVE  Len(s) <= Cardinality(S)
<1>1. Len(s) \in Nat /\ s \in [1 .. Len(s) -> S]
  BY LenProperties
<1>2. IsFiniteSet(1 .. Len(s)) /\ Cardinality(1 .. Len(s)) = Len(s)
  BY <1>1, FS_Interval
<1>3. Cardinality(S) \in Nat
  BY FS_CardinalityType
<1>4. ~ (Cardinality(S) < Len(s))
  BY <1>1, <1>2, FS_PigeonHole DEF Distinct
<1> QED BY <1>1, <1>3, <1>4

-----------------------------------------------------------------------------
(* The inductive invariant. *)

\* Every client that has connected waits, or has a slot, or has been dropped.
Places ==
    /\ Distinct(backlog) /\ Distinct(fds)
    /\ ToSet(backlog) \cap (ToSet(fds) \cup closed) = {}
    /\ ToSet(fds) \cap closed = {}
    /\ \A c \in Client : cli[c] # "off" <=> c \in ToSet(backlog) \cup ToSet(fds) \cup closed
    /\ nclients = Len(fds)

\* Where the loop stands: there is a connection to accept, or a slot to serve.
Pointer ==
    /\ srv.pc = "scan" /\ srv.i = 0 /\ rev[0] => backlog # <<>>
    /\ srv.pc \in Dialogue => srv.i \in 1 .. Len(fds)

\* Nothing has been said to those who wait.
Unheard ==
    /\ \A c \in ToSet(backlog) : in[c] = <<>> /\ out[c] = <<>> /\ cli[c] \in {"recv", "gone"}
    /\ \A c \in Client : cli[c] = "off" => in[c] = <<>> /\ out[c] = <<>>

IInv == TypeOK /\ Places /\ Pointer /\ Unheard /\ TakeTurns

-----------------------------------------------------------------------------
(* The operators. *)

LEMMA LeastHit ==
    ASSUME NEW T, T \subseteq Nat, T # {}
    PROVE  Min(T) \in T
<1> DEFINE R == {p \in Nat \X Nat : p[1] < p[2]}
<1>1. IsWellFoundedOn(R, Nat)
  BY NatLessThanWellFounded DEF OpToRel
<1>2. PICK x \in T : \A y \in T : ~ (<<y, x>> \in R)
  <2> HIDE DEF R
  <2> QED BY <1>1, WFMin
<1>3. ASSUME NEW y \in T PROVE x <= y
  <2>1. x \in Nat /\ y \in Nat
    OBVIOUS
  <2>2. y < x => <<y, x>> \in R
    BY <2>1
  <2> QED BY <1>2, <2>1, <2>2
<1> QED BY <1>3 DEF Min

\* What poll() may report, and where the loop then goes.
LEMMA HitSlot ==
    ASSUME ConstantAssumption, TypeOK, Hit # {}
    PROVE  /\ Min(Hit) \in Hit /\ Min(Hit) \in srv.i .. Len(fds) /\ Min(Hit) \in Nat
           /\ rev[Min(Hit)] /\ Len(fds) \in Nat /\ Len(fds) <= SlotsMax - 2
<1>1. Len(fds) \in Nat /\ srv.i \in Nat /\ Len(fds) <= SlotsMax - 2
  BY LenProperties DEF TypeOK
<1>2. nfds - 1 = Len(fds)
  BY <1>1 DEF nfds
<1>3. \A k \in Hit : k \in srv.i .. Len(fds) /\ k \in Nat /\ rev[k]
  BY <1>1, <1>2 DEF Hit
<1>4. Min(Hit) \in Hit
  BY <1>3, LeastHit
<1> QED BY <1>1, <1>3, <1>4

Messages == {"prompt", "mark", "bye"}
Nexts == {"keep", "drop", "arg1", "arg2", "opt", "name", "transfer"}

LEMMA FollowsType ==
    ASSUME NEW step \in Dialogue, NEW w, NEW f \in Follows(step, w)
    PROVE  /\ f[1] \in Messages \cup {"none"} /\ f[2] \in Nexts
           /\ f = <<f[1], f[2]>>
<1> DEFINE P(g) == g[1] \in Messages \cup {"none"} /\ g[2] \in Nexts /\ g = <<g[1], g[2]>>
<1>1. CASE step = "choose"
  BY <1>1 DEF Follows, Messages, Nexts
<1>2. CASE step = "arg1"
  BY <1>2 DEF Follows, Messages, Nexts
<1>3. CASE step = "arg2"
  BY <1>3 DEF Follows, Messages, Nexts
<1>4. CASE step = "opt"
  BY <1>4 DEF Follows, Messages, Nexts
<1>5. CASE step \in {"name", "transfer"}
  BY <1>5 DEF Follows, Messages, Nexts
<1> QED BY <1>1, <1>2, <1>3, <1>4, <1>5 DEF Dialogue

\* The server serves a client that has a slot.
LEMMA Served ==
    ASSUME ConstantAssumption, IInv, srv.pc \in Dialogue
    PROVE  /\ Who \in Client /\ Who \in ToSet(fds) /\ srv.i \in 1 .. Len(fds)
           /\ Who \notin ToSet(backlog) /\ Who \notin closed /\ cli[Who] # "off"
<1>1. srv.i \in 1 .. Len(fds) /\ fds \in Seq(Client) /\ DOMAIN fds = 1 .. Len(fds)
  BY LenProperties DEF IInv, Pointer, TypeOK
<1>2. Who \in Client /\ Who \in ToSet(fds)
  BY <1>1, ElementOfSeq DEF Who, ToSet
<1> QED BY <1>1, <1>2 DEF IInv, Places

LEMMA InvInit == ConstantAssumption /\ Init => IInv
<1> SUFFICES ASSUME ConstantAssumption, Init PROVE IInv
  OBVIOUS
<1>1. Cardinality(Client) \in Nat
  BY FS_CardinalityType DEF ConstantAssumption
<1>2. 0 \in 0 .. Cardinality(Client) /\ 0 \in 0 .. SlotsMax /\ 0 \in 0 .. MaxTyped /\ SlotsMax - 2 >= 0
  BY <1>1 DEF ConstantAssumption
<1>3. TypeOK
  BY <1>2 DEF Init, TypeOK
<1>4. Places
  BY DEF Init, Places, Distinct, ToSet
<1>5. Pointer
  BY DEF Init, Pointer, Dialogue
<1>6. Unheard /\ TakeTurns
  BY DEF Init, Unheard, TakeTurns, ToSet
<1> QED BY <1>3, <1>4, <1>5, <1>6 DEF IInv

-----------------------------------------------------------------------------
(* The steps of the server, with what they do to the places. *)

LEMMA AcceptStep ==
    ASSUME ConstantAssumption, IInv, Accept
    PROVE  /\ UNCHANGED <<rev, in, cli, closed, typed>>
           /\ srv' = [pc |-> "scan", i |-> 1]
           /\ \/ UNCHANGED <<fds, backlog, nclients, out, reset>>
              \/ \E c \in Client :
                    /\ c \in ToSet(backlog) /\ c \notin ToSet(fds) \cup closed
                    /\ c \notin ToSet(backlog') /\ ToSet(backlog') = ToSet(backlog) \ {c}
                    /\ backlog' \in Seq(Client) /\ Distinct(backlog')
                    /\ fds' \in Seq(Client) /\ Distinct(fds') /\ ToSet(fds') = ToSet(fds) \cup {c}
                    /\ Len(fds') = Len(fds) + 1 /\ Len(fds) \in Nat /\ Len(fds') <= SlotsMax - 2
                    /\ nclients' = nclients + 1
                    /\ IF Gone(c) THEN reset' = reset \cup {c} /\ UNCHANGED out
                                  ELSE out' = Prompted(c) /\ UNCHANGED reset
<1>1. UNCHANGED <<rev, in, cli, closed, typed>> /\ srv' = [pc |-> "scan", i |-> 1]
  BY DEF Accept, IInv, TypeOK
<1>2. srv.pc = "scan" /\ srv.i = 0 /\ rev[0]
  BY HitSlot, SMTT(20) DEF Accept, IInv, TypeOK
<1>3. backlog # <<>> /\ backlog \in Seq(Client) /\ Distinct(backlog)
  BY <1>2 DEF IInv, Pointer, TypeOK, Places
<1>4. /\ Head(backlog) \in Client /\ Head(backlog) \in ToSet(backlog)
      /\ Tail(backlog) \in Seq(Client) /\ Distinct(Tail(backlog))
      /\ ToSet(Tail(backlog)) = ToSet(backlog) \ {Head(backlog)}
  BY <1>3, TailDistinct
<1>5. Head(backlog) \notin ToSet(fds) \cup closed
  BY <1>4 DEF IInv, Places
<1>6. CASE ~ Room
  BY <1>1, <1>6 DEF Accept
<1>7. CASE Room
  <2>1. /\ fds' = Append(fds, Head(backlog)) /\ backlog' = Tail(backlog) /\ nclients' = nclients + 1
        /\ IF Gone(Head(backlog))
             THEN reset' = reset \cup {Head(backlog)} /\ UNCHANGED out
             ELSE out' = Prompted(Head(backlog)) /\ UNCHANGED reset
    BY <1>7 DEF Accept
  <2>2. fds \in Seq(Client) /\ Distinct(fds) /\ Len(fds) \in Nat
    BY LenProperties DEF IInv, TypeOK, Places
  <2>3. /\ fds' \in Seq(Client) /\ Distinct(fds') /\ ToSet(fds') = ToSet(fds) \cup {Head(backlog)}
        /\ Len(fds') = Len(fds) + 1
    BY <1>4, <1>5, <2>1, <2>2, AppendDistinct
  <2>4. Len(fds') <= SlotsMax - 2
    <3>1. Len(fds) + 1 # SlotsMax - 1
      BY <1>7 DEF Room, nfds
    <3>2. Len(fds) <= SlotsMax - 2 /\ SlotsMax \in Nat
      BY DEF IInv, TypeOK, ConstantAssumption
    <3> QED BY <2>2, <2>3, <3>1, <3>2
  <2> QED BY <1>1, <1>4, <1>5, <2>1, <2>2, <2>3, <2>4
<1> QED BY <1>6, <1>7

\* A read, the message it is answered by and what the dialogue does next.
LEMMA ReadStep ==
    ASSUME ConstantAssumption, IInv, Read
    PROVE  /\ srv.pc \in Dialogue /\ UNCHANGED <<backlog, cli, typed>>
           /\ in[Who] # <<>> \/ Gone(Who)
           /\ in' = IF in[Who] # <<>> THEN [in EXCEPT ![Who] = Tail(@)] ELSE in
           /\ \E m \in Messages \cup {"none"} : Reply(m)
           /\ \/ /\ Drop
                 /\ srv' = [pc |-> "scan", i |-> srv.i + 1]
              \/ /\ UNCHANGED <<fds, rev, nclients, closed>>
                 /\ \/ srv' = [pc |-> "scan", i |-> srv.i + 1]
                    \/ \E step \in Dialogue : srv' = [pc |-> step, i |-> srv.i]
<1>1. /\ srv.pc \in Dialogue /\ UNCHANGED <<backlog, cli, typed>>
      /\ in[Who] # <<>> \/ Gone(Who)
      /\ in' = IF in[Who] # <<>> THEN [in EXCEPT ![Who] = Tail(@)] ELSE in
  BY DEF Read
<1>2. PICK f \in Follows(srv.pc, IF in[Who] # <<>> THEN Head(in[Who]) ELSE "eof") :
          Reply(f[1]) /\ GoOn(f[2])
  BY DEF Read
<1>3. f[1] \in Messages \cup {"none"} /\ f[2] \in Nexts
  BY <1>1, <1>2, FollowsType
<1>4. CASE f[2] = "drop"
  BY <1>1, <1>2, <1>3, <1>4 DEF GoOn
<1>5. CASE f[2] = "keep"
  BY <1>1, <1>2, <1>3, <1>5 DEF GoOn
<1>6. CASE f[2] \in {"arg1", "arg2", "opt", "name", "transfer"}
  <2>1. f[2] \in Dialogue /\ f[2] # "drop" /\ f[2] # "keep"
    BY <1>6 DEF Dialogue
  <2>2. srv' = [srv EXCEPT !.pc = f[2]] /\ UNCHANGED <<fds, rev, nclients, closed>>
    BY <1>2, <2>1 DEF GoOn
  <2>3. srv' = [pc |-> f[2], i |-> srv.i]
    BY <2>2 DEF IInv, TypeOK
  <2> QED BY <1>1, <1>2, <1>3, <2>1, <2>2, <2>3
<1> QED BY <1>3, <1>4, <1>5, <1>6 DEF Nexts

\* The end of a connection.
LEMMA DropStep ==
    ASSUME ConstantAssumption, IInv, srv.pc \in Dialogue, Drop
    PROVE  /\ fds' \in Seq(Client) /\ Len(fds') = Len(fds) - 1 /\ Len(fds) \in Nat
           /\ Distinct(fds') /\ ToSet(fds') = ToSet(fds) \ {Who}
           /\ closed' = closed \cup {Who} /\ nclients' = nclients - 1
           /\ rev' \in [Slots -> BOOLEAN] /\ rev'[0] = rev[0]
<1>1. fds \in Seq(Client) /\ Distinct(fds) /\ Len(fds) \in Nat /\ srv.i \in 1 .. Len(fds)
      /\ Len(fds) <= SlotsMax - 2 /\ SlotsMax \in Nat
  BY LenProperties, Served DEF IInv, TypeOK, Places, ConstantAssumption
<1>2. /\ fds' = RemoveAt(fds, srv.i) /\ closed' = closed \cup {Who} /\ nclients' = nclients - 1
      /\ rev' = [k \in Slots |-> IF srv.i <= k /\ k < nfds - 1 THEN rev[k + 1] ELSE rev[k]]
  BY DEF Drop, Remaining
<1>3. fds' \in Seq(Client) /\ Len(fds') = Len(fds) - 1
  BY <1>1, <1>2, RemoveAtElements
<1>4. Distinct(fds') /\ ToSet(fds') = ToSet(fds) \ {Who}
  BY <1>1, <1>2, RemoveDistinct DEF Who
<1>5. nfds - 1 = Len(fds) /\ Len(fds) + 1 \in Slots
  BY <1>1 DEF nfds, Slots
<1>6. \A k \in Slots : k < nfds - 1 => k + 1 \in Slots
  BY <1>1, <1>5 DEF Slots
<1>7. rev \in [Slots -> BOOLEAN]
  BY DEF IInv, TypeOK
<1>8. rev' \in [Slots -> BOOLEAN]
  BY <1>2, <1>6, <1>7
<1>9. 0 \in Slots /\ ~ (srv.i <= 0)
  BY <1>1 DEF Slots
<1> QED BY <1>1, <1>2, <1>3, <1>4, <1>8, <1>9

-----------------------------------------------------------------------------
(* The invariant is kept. *)

LEMMA PlacesStep ==
    ASSUME ConstantAssumption, IInv, [Next]_vars
    PROVE  Places'
<1> USE DEF IInv
<1>1. ASSUME NEW c \in Client, Connect(c) PROVE Places'
  <2>1. /\ cli[c] = "off" /\ cli' = [cli EXCEPT ![c] = "recv"] /\ backlog' = Append(backlog, c)
        /\ UNCHANGED <<fds, nclients, closed>>
    BY <1>1 DEF Connect
  <2>2. c \notin ToSet(backlog) \cup ToSet(fds) \cup closed
    BY <2>1 DEF Places
  <2>3. Distinct(backlog') /\ ToSet(backlog') = ToSet(backlog) \cup {c}
    BY <2>1, <2>2, AppendDistinct DEF TypeOK, Places
  <2>4. \A d \in Client : cli'[d] # "off" <=> (cli[d] # "off" \/ d = c)
    BY <2>1 DEF TypeOK
  <2> QED BY <2>1, <2>2, <2>3, <2>4 DEF Places
<1>2. ASSUME NEW c \in Client, Receive(c) \/ ReceiveEnd(c) \/ Type(c) \/ Leave(c) PROVE Places'
  <2>1. /\ cli[c] # "off" /\ UNCHANGED <<backlog, fds, nclients, closed>>
        /\ \A d \in Client : cli'[d] # "off" <=> cli[d] # "off"
    BY <1>2 DEF Receive, ReceiveEnd, Type, Leave, TypeOK
  <2> QED BY <2>1 DEF Places
<1>3. CASE Accept
  BY <1>3, AcceptStep DEF Places
<1>4. CASE Read
  <2>1. /\ srv.pc \in Dialogue /\ UNCHANGED <<backlog, cli>>
        /\ Drop \/ UNCHANGED <<fds, nclients, closed>>
    BY <1>4, ReadStep
  <2>2. CASE UNCHANGED <<fds, nclients, closed>>
    BY <2>1, <2>2 DEF Places
  <2>3. CASE Drop
    <3>1. /\ Distinct(fds') /\ ToSet(fds') = ToSet(fds) \ {Who} /\ Len(fds') = Len(fds) - 1
          /\ closed' = closed \cup {Who} /\ nclients' = nclients - 1
      BY <2>1, <2>3, DropStep
    <3>2. Who \in ToSet(fds) /\ Who \notin ToSet(backlog) /\ Who \notin closed
      BY <2>1, Served
    <3> QED BY <2>1, <3>1, <3>2 DEF Places
  <2> QED BY <2>1, <2>2, <2>3
<1>5. CASE UNCHANGED <<backlog, fds, nclients, cli, closed>>
  BY <1>5 DEF Places
<1> QED
  BY <1>1, <1>2, <1>3, <1>4, <1>5 DEF Next, SrvStep, Poll, ScanEnd, Handle, Die, vars

LEMMA PointerStep ==
    ASSUME ConstantAssumption, IInv, [Next]_vars
    PROVE  Pointer'
<1> USE DEF IInv
<1>1. ASSUME NEW c \in Client, Connect(c) PROVE Pointer'
  <2>1. backlog' # <<>> /\ UNCHANGED <<fds, rev, srv>>
    <3>1. backlog \in Seq(Client) /\ backlog' = Append(backlog, c) /\ UNCHANGED <<fds, rev, srv>>
      BY <1>1 DEF Connect, TypeOK
    <3> QED BY <3>1, AppendProperties
  <2> QED BY <2>1 DEF Pointer
<1>2. ASSUME NEW c \in Client, Receive(c) \/ ReceiveEnd(c) \/ Type(c) \/ Leave(c) PROVE Pointer'
  BY <1>2 DEF Receive, ReceiveEnd, Type, Leave, Pointer
<1>3. CASE Poll
  <2>1. 0 \in Slots /\ 0 < nfds /\ Len(fds) \in Nat
    BY LenProperties DEF Slots, nfds, ConstantAssumption, TypeOK
  <2>2. /\ UNCHANGED backlog /\ srv' = [pc |-> "scan", i |-> 0]
        /\ rev' = [k \in Slots |-> IF k < nfds THEN Ready(k) ELSE rev[k]]
    BY <1>3 DEF Poll
  <2>3. rev'[0] => backlog # <<>>
    BY <2>1, <2>2 DEF Ready
  <2> QED BY <2>2, <2>3 DEF Pointer, Dialogue
<1>4. CASE ScanEnd
  BY <1>4 DEF ScanEnd, Pointer, Dialogue
<1>5. CASE Accept
  <2>1. srv' = [pc |-> "scan", i |-> 1]
    BY <1>5, AcceptStep
  <2> QED BY <2>1 DEF Pointer, Dialogue
<1>6. CASE Handle
  <2>1. srv' = [pc |-> "choose", i |-> Min(Hit)] /\ Min(Hit) > 0 /\ fds' = fds /\ Hit # {}
    BY <1>6 DEF Handle
  <2>2. Min(Hit) \in 1 .. Len(fds)
    BY <2>1, HitSlot DEF TypeOK
  <2> QED BY <2>1, <2>2 DEF Pointer
<1>7. CASE Read
  <2>1. srv.pc \in Dialogue /\ srv.i \in 1 .. Len(fds) /\ srv.i + 1 # 0
    BY <1>7, ReadStep, Served
  <2>2. CASE srv' = [pc |-> "scan", i |-> srv.i + 1]
    BY <2>1, <2>2 DEF Pointer, Dialogue
  <2>3. ASSUME UNCHANGED fds, NEW step \in Dialogue, srv' = [pc |-> step, i |-> srv.i]
        PROVE  Pointer'
    BY <2>1, <2>3 DEF Pointer, Dialogue
  <2> QED BY <1>7, <2>2, <2>3, ReadStep
<1>8. CASE Die
  BY <1>8 DEF Die, Pointer, TypeOK, Dialogue
<1>9. CASE UNCHANGED vars
  BY <1>9 DEF vars, Pointer
<1> QED
  BY <1>1, <1>2, <1>3, <1>4, <1>5, <1>6, <1>7, <1>8, <1>9 DEF Next, SrvStep

LEMMA WaitingClients == TypeOK => ToSet(backlog) \subseteq Client
BY ElementOfSeq, LenProperties DEF TypeOK, ToSet

\* What a reply does: a message is added for the client that is served, if it is there.
LEMMA ReplyStep ==
    ASSUME ConstantAssumption, IInv, srv.pc \in Dialogue,
           NEW m \in Messages \cup {"none"}, Reply(m)
    PROVE  /\ reset' \subseteq Client
           /\ \/ out' = out
              \/ /\ out' = [out EXCEPT ![Who] = Append(out[Who], m)] /\ ~ Gone(Who)
                 /\ m \in Messages
                 /\ Append(out[Who], m) \in Seq(Messages)
                 /\ Len(Append(out[Who], m)) = Len(out[Who]) + 1
<1>1. Who \in Client /\ reset \subseteq Client /\ out[Who] \in Seq(Messages)
  BY Served DEF IInv, TypeOK, Messages
<1>2. CASE m = "none" \/ Gone(Who)
  BY <1>1, <1>2 DEF Reply
<1>3. CASE m # "none" /\ ~ Gone(Who)
  <2>1. out' = [out EXCEPT ![Who] = Append(out[Who], m)] /\ reset' = reset /\ m \in Messages
    BY <1>3 DEF Reply
  <2>2. Append(out[Who], m) \in Seq(Messages) /\ Len(Append(out[Who], m)) = Len(out[Who]) + 1
    BY <1>1, <2>1, AppendProperties
  <2> QED BY <1>1, <1>3, <2>1, <2>2
<1> QED BY <1>2, <1>3

LEMMA UnheardStep ==
    ASSUME ConstantAssumption, IInv, [Next]_vars
    PROVE  Unheard'
<1> USE DEF IInv
<1>1. ASSUME NEW c \in Client, Connect(c) PROVE Unheard'
  <2>1. /\ cli[c] = "off" /\ cli' = [cli EXCEPT ![c] = "recv"] /\ backlog' = Append(backlog, c)
        /\ UNCHANGED <<in, out>>
    BY <1>1 DEF Connect
  <2>2. ToSet(backlog') = ToSet(backlog) \cup {c} /\ ToSet(backlog) \subseteq Client
    BY <2>1, AppendDistinct, WaitingClients, SMTT(20) DEF TypeOK
  <2> QED BY <2>1, <2>2 DEF Unheard, TypeOK
<1>2. ASSUME NEW c \in Client, Receive(c) \/ ReceiveEnd(c) \/ Type(c) PROVE Unheard'
  <2>1. /\ c \notin ToSet(backlog) /\ cli[c] # "off" /\ UNCHANGED backlog /\ cli'[c] # "off"
        /\ \A d \in Client \ {c} : in'[d] = in[d] /\ out'[d] = out[d] /\ cli'[d] = cli[d]
    BY <1>2, SMTT(20) DEF Receive, ReceiveEnd, Type, TypeOK, Places, Unheard
  <2>2. ToSet(backlog) \subseteq Client
    BY WaitingClients
  <2> QED BY <2>1, <2>2 DEF Unheard
<1>3. ASSUME NEW c \in Client, Leave(c) PROVE Unheard'
  <2>1. ToSet(backlog) \subseteq Client
    BY WaitingClients
  <2> QED BY <1>3, <2>1 DEF Leave, Unheard, TypeOK
<1>4. CASE Accept
  <2>1. UNCHANGED <<in, cli>>
    BY <1>4, AcceptStep
  <2>2. CASE UNCHANGED <<backlog, out>>
    BY <2>1, <2>2 DEF Unheard
  <2>3. ASSUME NEW c \in Client, c \in ToSet(backlog), ToSet(backlog') = ToSet(backlog) \ {c},
               out' = out \/ out' = Prompted(c)
        PROVE  Unheard'
    <3>1. cli[c] # "off"
      BY <2>3 DEF Places
    <3>2. \A d \in Client \ {c} : out'[d] = out[d]
      BY <2>3 DEF Prompted, TypeOK
    <3>3. ToSet(backlog) \subseteq Client
      BY WaitingClients
    <3> QED BY <2>1, <2>3, <3>1, <3>2, <3>3 DEF Unheard
  <2> QED BY <1>4, <2>2, <2>3, AcceptStep
<1>5. CASE Read
  <2>1. /\ srv.pc \in Dialogue /\ UNCHANGED <<backlog, cli>>
        /\ in' = IF in[Who] # <<>> THEN [in EXCEPT ![Who] = Tail(@)] ELSE in
        /\ \E m \in Messages \cup {"none"} : Reply(m)
    BY <1>5, ReadStep
  <2>2. Who \in Client /\ Who \notin ToSet(backlog) /\ cli[Who] # "off"
    BY <2>1, Served
  <2>3. \A d \in Client \ {Who} : in'[d] = in[d] /\ out'[d] = out[d]
    BY <2>1, ReplyStep DEF TypeOK
  <2>4. ToSet(backlog) \subseteq Client
    BY WaitingClients
  <2> QED BY <2>1, <2>2, <2>3, <2>4 DEF Unheard
<1>6. CASE UNCHANGED <<backlog, in, out, cli>>
  BY <1>6 DEF Unheard
<1> QED
  BY <1>1, <1>2, <1>3, <1>4, <1>5, <1>6 DEF Next, SrvStep, Poll, ScanEnd, Handle, Die, vars

\* Queues of one client: empty, or with a first element.
LEMMA QueueFacts ==
    ASSUME TypeOK, NEW c \in Client
    PROVE  /\ Len(in[c]) \in Nat /\ (Len(in[c]) = 0 <=> in[c] = <<>>)
           /\ Len(out[c]) \in Nat /\ (Len(out[c]) = 0 <=> out[c] = <<>>)
           /\ in[c] # <<>> => Tail(in[c]) \in Seq(AllWords \cup {"data"}) /\ Len(Tail(in[c])) = Len(in[c]) - 1
           /\ out[c] # <<>> => Tail(out[c]) \in Seq(Messages) /\ Len(Tail(out[c])) = Len(out[c]) - 1
           /\ \A w \in AllWords \cup {"data"} :
                 Append(in[c], w) \in Seq(AllWords \cup {"data"}) /\ Len(Append(in[c], w)) = Len(in[c]) + 1
<1>1. in[c] \in Seq(AllWords \cup {"data"}) /\ out[c] \in Seq(Messages)
  BY DEF TypeOK, Messages
<1> QED BY <1>1, LenProperties, EmptySeq, HeadTailProperties, AppendProperties

\* Two numbers that are not more than one together.
LEMMA OneInAll ==
    \A a, b \in Nat : /\ (a + b <= 1 /\ a # 0) => (a = 1 /\ b = 0)
                      /\ (a + b <= 1 /\ b # 0) => (a = 0 /\ b = 1)
OBVIOUS

\* What the step of one client or of the server for it has to keep.
TurnOf(c) == /\ Len(in[c]) + Len(out[c]) <= 1
             /\ cli[c] = "input" => in[c] = <<>> /\ out[c] = <<>>

LEMMA TurnKept ==
    ASSUME TakeTurns, NEW c \in Client, TurnOf(c)',
           \A d \in Client \ {c} : in'[d] = in[d] /\ out'[d] = out[d] /\ cli'[d] = cli[d]
    PROVE  TakeTurns'
BY DEF TakeTurns, TurnOf

LEMMA TurnsStep ==
    ASSUME ConstantAssumption, IInv, [Next]_vars
    PROVE  TakeTurns'
<1> USE DEF IInv
<1>a. \A c \in Client : TurnOf(c)
  BY DEF TakeTurns, TurnOf
<1>1. ASSUME NEW c \in Client, Connect(c) \/ ReceiveEnd(c) \/ Leave(c) PROVE TakeTurns'
  <2>1. /\ UNCHANGED <<in, out>> /\ cli'[c] # "input"
        /\ \A d \in Client \ {c} : cli'[d] = cli[d]
    BY <1>1 DEF Connect, ReceiveEnd, Leave, TypeOK
  <2>2. TurnOf(c)'
    BY <1>a, <2>1 DEF TurnOf
  <2> QED BY <2>1, <2>2, TurnKept
<1>2. ASSUME NEW c \in Client, Receive(c) PROVE TakeTurns'
  <2>1. cli[c] = "recv" /\ out[c] # <<>> /\ out' = [out EXCEPT ![c] = Tail(out[c])]
    BY <1>2 DEF Receive
  <2>2. in[c] = <<>> /\ Len(out[c]) = 1 /\ Len(Tail(out[c])) = 0 /\ Len(in[c]) = 0
    <3>1. /\ Len(in[c]) \in Nat /\ Len(out[c]) \in Nat /\ Len(out[c]) # 0
          /\ Len(Tail(out[c])) = Len(out[c]) - 1 /\ (Len(in[c]) = 0 => in[c] = <<>>)
      BY <2>1, QueueFacts
    <3>2. Len(in[c]) + Len(out[c]) <= 1
      BY <1>a DEF TurnOf
    <3>3. Len(in[c]) = 0 /\ Len(out[c]) = 1
      BY <3>1, <3>2, OneInAll
    <3> QED BY <3>1, <3>3
  <2>3. Tail(out[c]) = <<>> /\ out'[c] = Tail(out[c]) /\ \A d \in Client \ {c} : out'[d] = out[d]
    <3>1. Tail(out[c]) \in Seq(Messages)
      BY <2>1, QueueFacts
    <3> QED BY <2>1, <2>2, <3>1, EmptySeq DEF TypeOK
  <2>4. \/ UNCHANGED in /\ \A d \in Client \ {c} : cli'[d] = cli[d]
        \/ in' = [in EXCEPT ![c] = Append(in[c], "data")] /\ UNCHANGED cli
    BY <1>2 DEF Receive, TypeOK
  <2>5. CASE UNCHANGED in /\ \A d \in Client \ {c} : cli'[d] = cli[d]
    <3>1. TurnOf(c)'
      <4>1. in'[c] = <<>> /\ out'[c] = <<>>
        BY <2>2, <2>3, <2>5
      <4>2. Len(in'[c]) = 0 /\ Len(out'[c]) = 0
        BY <4>1, EmptySeq
      <4> QED BY <4>1, <4>2 DEF TurnOf
    <3> QED BY <2>3, <2>5, <3>1, TurnKept
  <2>6. CASE in' = [in EXCEPT ![c] = Append(in[c], "data")] /\ UNCHANGED cli
    <3>1. Len(in'[c]) = 1 /\ \A d \in Client \ {c} : in'[d] = in[d]
      BY <2>2, <2>6, QueueFacts DEF TypeOK
    <3>2. Len(out'[c]) = 0
      BY <2>2, <2>3
    <3>3. TurnOf(c)'
      <4>1. Len(in'[c]) + Len(out'[c]) <= 1
        BY <3>1, <3>2
      <4>2. cli'[c] # "input"
        BY <2>1, <2>6
      <4> QED BY <4>1, <4>2 DEF TurnOf
    <3> QED BY <2>3, <2>6, <3>1, <3>3, TurnKept
  <2> QED BY <2>4, <2>5, <2>6
<1>3. ASSUME NEW c \in Client, Type(c) PROVE TakeTurns'
  <2>1. /\ cli[c] = "input" /\ cli' = [cli EXCEPT ![c] = "recv"] /\ UNCHANGED out
        /\ \E w \in AllWords : in' = [in EXCEPT ![c] = Append(in[c], w)]
    <3>1. "text" \in AllWords /\ Words \subseteq AllWords
      BY DEF AllWords, ConstantAssumption
    <3> QED BY <1>3, <3>1 DEF Type
  <2>2. PICK w \in AllWords : in' = [in EXCEPT ![c] = Append(in[c], w)]
    BY <2>1
  <2>3. Len(in[c]) = 0 /\ Len(out[c]) = 0
    BY <1>a, <2>1, QueueFacts DEF TurnOf
  <2>4. Len(in'[c]) = 1 /\ cli'[c] = "recv"
    BY <2>1, <2>2, <2>3, QueueFacts DEF TypeOK
  <2>5. TurnOf(c)'
    BY <2>1, <2>3, <2>4 DEF TurnOf
  <2> QED BY <2>1, <2>2, <2>5, TurnKept DEF TypeOK
<1>4. CASE Accept
  <2>1. UNCHANGED <<in, cli>>
    BY <1>4, AcceptStep
  <2>2. CASE UNCHANGED out
    BY <2>1, <2>2 DEF TakeTurns
  <2>3. ASSUME NEW c \in Client, c \in ToSet(backlog), ~ Gone(c), out' = Prompted(c)
        PROVE  TakeTurns'
    <3>1. in[c] = <<>> /\ out[c] = <<>> /\ cli[c] = "recv"
      BY <2>3 DEF Unheard, Gone
    <3>2. out' = [out EXCEPT ![c] = Append(<<>>, "prompt")] /\ Len(Append(<<>>, "prompt")) = 1
      BY <2>3, <3>1 DEF Prompted
    <3>3. Len(out'[c]) = 1 /\ Len(in'[c]) = 0
      BY <2>1, <3>1, <3>2 DEF TypeOK
    <3>4. TurnOf(c)'
      BY <2>1, <3>1, <3>3 DEF TurnOf
    <3> QED BY <2>1, <3>2, <3>4, TurnKept DEF TypeOK
  <2> QED BY <1>4, <2>2, <2>3, AcceptStep
<1>5. CASE Read
  <2>1. /\ srv.pc \in Dialogue /\ UNCHANGED cli
        /\ in[Who] # <<>> \/ Gone(Who)
        /\ in' = IF in[Who] # <<>> THEN [in EXCEPT ![Who] = Tail(@)] ELSE in
        /\ \E m \in Messages \cup {"none"} : Reply(m)
    BY <1>5, ReadStep
  <2>2. PICK c \in Client : c = Who
    BY <2>1, Served
  <2>3. \/ out' = out
        \/ /\ out' = [out EXCEPT ![c] = out'[c]] /\ ~ Gone(c) /\ Len(out'[c]) = Len(out[c]) + 1
    BY <2>1, <2>2, ReplyStep DEF TypeOK
  <2>4. CASE in[c] = <<>>
    <3>1. UNCHANGED <<in, out>>
      BY <2>1, <2>2, <2>3, <2>4
    <3> QED BY <2>1, <3>1 DEF TakeTurns
  <2>5. CASE in[c] # <<>>
    <3>1. in' = [in EXCEPT ![c] = Tail(in[c])] /\ cli[c] # "input"
      BY <1>a, <2>1, <2>2, <2>5 DEF TurnOf
    <3>2. Len(in[c]) = 1 /\ Len(out[c]) = 0
      <4>1. /\ Len(in[c]) \in Nat /\ Len(out[c]) \in Nat /\ Len(in[c]) # 0
        BY <2>5, QueueFacts
      <4>2. Len(in[c]) + Len(out[c]) <= 1
        BY <1>a DEF TurnOf
      <4> QED BY <4>1, <4>2, OneInAll
    <3>3. Len(in'[c]) = 0 /\ Len(out'[c]) \in {0, 1}
      BY <2>3, <2>5, <3>1, <3>2, QueueFacts DEF TypeOK
    <3>4. TurnOf(c)'
      <4>1. Len(in'[c]) + Len(out'[c]) <= 1
        <5>1. \A a \in {0}, b \in {0, 1} : a + b <= 1
          OBVIOUS
        <5>2. Len(in'[c]) \in {0} /\ Len(out'[c]) \in {0, 1}
          BY <3>3
        <5> QED BY <5>1, <5>2
      <4>2. cli'[c] # "input"
        BY <2>1, <3>1
      <4> QED BY <4>1, <4>2 DEF TurnOf
    <3>5. \A d \in Client \ {c} : in'[d] = in[d] /\ out'[d] = out[d] /\ cli'[d] = cli[d]
      <4>1. cli' = cli /\ \A d \in Client \ {c} : in'[d] = in[d]
        BY <2>1, <3>1 DEF TypeOK
      <4>2. \A d \in Client \ {c} : out'[d] = out[d]
        BY <2>3 DEF TypeOK
      <4> QED BY <4>1, <4>2
    <3> QED BY <3>4, <3>5, TurnKept
  <2> QED BY <2>4, <2>5
<1>6. CASE UNCHANGED <<in, out, cli>>
  BY <1>6 DEF TakeTurns
<1> QED
  BY <1>1, <1>2, <1>3, <1>4, <1>5, <1>6 DEF Next, SrvStep, Poll, ScanEnd, Handle, Die, vars

LEMMA TypeStep ==
    ASSUME ConstantAssumption, IInv, [Next]_vars
    PROVE  TypeOK'
<1> USE DEF IInv
\* The number of clients is that of slots in use.
<1>a. ASSUME fds' \in Seq(Client) PROVE nclients' \in 0 .. Cardinality(Client)
  <2>1. Distinct(fds') /\ nclients' = Len(fds')
    BY PlacesStep DEF Places
  <2>2. Len(fds') \in Nat /\ Len(fds') <= Cardinality(Client)
    BY <1>a, <2>1, LenProperties, DistinctLength DEF ConstantAssumption
  <2>3. Cardinality(Client) \in Nat
    BY FS_CardinalityType DEF ConstantAssumption
  <2> QED BY <2>1, <2>2, <2>3
<1>b. Len(fds) \in Nat /\ Len(fds) <= SlotsMax - 2 /\ SlotsMax \in Nat /\ SlotsMax > 2
  BY LenProperties DEF TypeOK, ConstantAssumption
<1>c. srv.i \in 0 .. SlotsMax /\ fds \in Seq(Client)
  BY DEF TypeOK
\* A client moves.
<1>1. ASSUME NEW c \in Client, Connect(c) PROVE TypeOK'
  <2>1. backlog' \in Seq(Client)
    BY <1>1, AppendDistinct DEF Connect, TypeOK
  <2> QED BY <1>1, <2>1 DEF Connect, TypeOK
<1>2. ASSUME NEW c \in Client, Receive(c) PROVE TypeOK'
  <2>1. out[c] # <<>> /\ out' = [out EXCEPT ![c] = Tail(out[c])] /\ UNCHANGED <<backlog, fds, rev, nclients, srv, closed, reset, typed>>
    BY <1>2 DEF Receive
  <2>2. out' \in [Client -> Seq({"prompt", "mark", "bye"})]
    BY <2>1, QueueFacts DEF TypeOK, Messages
  <2>3. \/ (cli' = [cli EXCEPT ![c] = "input"] \/ cli' = [cli EXCEPT ![c] = "done"]) /\ UNCHANGED in
        \/ in' = [in EXCEPT ![c] = Append(in[c], "data")] /\ UNCHANGED cli
    BY <1>2 DEF Receive
  <2>4. Append(in[c], "data") \in Seq(AllWords \cup {"data"})
    BY QueueFacts
  <2>5. in' \in [Client -> Seq(AllWords \cup {"data"})]
        /\ cli' \in [Client -> {"off", "recv", "input", "gone", "done"}]
    BY <2>3, <2>4 DEF TypeOK
  <2> QED BY <2>1, <2>2, <2>5 DEF TypeOK
<1>3. ASSUME NEW c \in Client, ReceiveEnd(c) \/ Leave(c) PROVE TypeOK'
  BY <1>3 DEF ReceiveEnd, Leave, TypeOK
<1>4. ASSUME NEW c \in Client, Type(c) PROVE TypeOK'
  <2>1. PICK w \in AllWords : in' = [in EXCEPT ![c] = Append(in[c], w)]
    <3>1. "text" \in AllWords /\ Words \subseteq AllWords
      BY DEF AllWords, ConstantAssumption
    <3> QED BY <1>4, <3>1 DEF Type
  <2>2. in' \in [Client -> Seq(AllWords \cup {"data"})]
    BY <2>1, QueueFacts DEF TypeOK
  <2>3. typed' \in [Client -> 0 .. MaxTyped]
    <3>1. typed[c] \in 0 .. MaxTyped /\ MaxTyped \in Nat
      BY DEF TypeOK, ConstantAssumption
    <3>2. CASE UNCHANGED typed
      BY <3>2 DEF TypeOK
    <3>3. CASE typed[c] < MaxTyped /\ typed' = [typed EXCEPT ![c] = @ + 1]
      BY <3>1, <3>3 DEF TypeOK
    <3> QED BY <1>4, <3>2, <3>3 DEF Type
  <2> QED BY <1>4, <2>2, <2>3 DEF Type, TypeOK
\* The server moves.
<1>5. CASE Poll
  <2>1. \A k : Ready(k) \in BOOLEAN
    BY DEF Ready, Gone
  <2>2. rev' \in [Slots -> BOOLEAN]
    BY <1>5, <2>1 DEF Poll, TypeOK
  <2>3. srv' = [pc |-> "scan", i |-> 0] /\ 0 \in 0 .. SlotsMax
    BY <1>5, <1>b DEF Poll
  <2> QED BY <1>5, <2>2, <2>3 DEF Poll, TypeOK
<1>6. CASE ScanEnd
  <2>1. srv' = [pc |-> "poll", i |-> 0] /\ 0 \in 0 .. SlotsMax
    BY <1>6, <1>b DEF ScanEnd
  <2> QED BY <1>6, <2>1 DEF ScanEnd, TypeOK
<1>7. CASE Accept
  <2>1. UNCHANGED <<rev, in, cli, closed, typed>> /\ srv' = [pc |-> "scan", i |-> 1] /\ 1 \in 0 .. SlotsMax
    BY <1>7, <1>b, AcceptStep
  <2>2. CASE UNCHANGED <<fds, backlog, nclients, out, reset>>
    BY <2>1, <2>2 DEF TypeOK
  <2>3. ASSUME NEW c \in Client, backlog' \in Seq(Client), fds' \in Seq(Client), Len(fds') <= SlotsMax - 2,
               IF Gone(c) THEN reset' = reset \cup {c} /\ UNCHANGED out
                          ELSE out' = Prompted(c) /\ UNCHANGED reset
        PROVE  TypeOK'
    <3>1. Prompted(c) \in [Client -> Seq({"prompt", "mark", "bye"})]
      BY DEF Prompted, TypeOK
    <3>2. out' \in [Client -> Seq({"prompt", "mark", "bye"})] /\ reset' \subseteq Client
      BY <2>3, <3>1 DEF TypeOK
    <3>3. nclients' \in 0 .. Cardinality(Client)
      BY <1>a, <2>3
    <3> QED BY <2>1, <2>3, <3>2, <3>3 DEF TypeOK, Slots
  <2> QED BY <1>7, <2>2, <2>3, AcceptStep
<1>8. CASE Handle
  <2>1. srv' = [pc |-> "choose", i |-> Min(Hit)] /\ Hit # {} /\ Min(Hit) > 0
    BY <1>8 DEF Handle
  <2>2. Min(Hit) \in Nat /\ Min(Hit) <= Len(fds)
    BY <1>b, <1>c, <2>1, HitSlot
  <2>3. Min(Hit) \in 0 .. SlotsMax
    BY <1>b, <2>2
  <2>4. UNCHANGED <<backlog, fds, rev, nclients, in, out, cli, closed, reset, typed>>
    BY <1>8 DEF Handle
  <2> QED BY <2>1, <2>3, <2>4 DEF TypeOK, Slots
<1>9. CASE Read
  <2>1. /\ srv.pc \in Dialogue /\ UNCHANGED <<backlog, cli, typed>>
        /\ in' = IF in[Who] # <<>> THEN [in EXCEPT ![Who] = Tail(@)] ELSE in
        /\ \E m \in Messages \cup {"none"} : Reply(m)
    BY <1>9, ReadStep
  <2>2. Who \in Client /\ srv.i \in 1 .. Len(fds)
    BY <2>1, Served
  <2>3. in' \in [Client -> Seq(AllWords \cup {"data"})]
    BY <2>1, <2>2, QueueFacts DEF TypeOK
  <2>4. out' \in [Client -> Seq({"prompt", "mark", "bye"})] /\ reset' \subseteq Client
    BY <2>1, <2>2, ReplyStep, ZenonT(40) DEF TypeOK, Messages
  <2>5. /\ fds' \in Seq(Client) /\ Len(fds') <= SlotsMax - 2
        /\ rev' \in [Slots -> BOOLEAN] /\ closed' \subseteq Client
    <3>1. CASE Drop
      <4>1. /\ fds' \in Seq(Client) /\ Len(fds') = Len(fds) - 1 /\ closed' = closed \cup {Who}
            /\ rev' \in [Slots -> BOOLEAN]
        BY <2>1, <3>1, DropStep
      <4>2. Len(fds') <= SlotsMax - 2
        BY <1>b, <4>1
      <4>3. closed' \subseteq Client
        BY <2>2, <4>1 DEF TypeOK
      <4> QED BY <4>1, <4>2, <4>3 DEF Slots
    <3>2. CASE UNCHANGED <<fds, rev, nclients, closed>>
      BY <1>b, <3>2 DEF TypeOK, Slots
    <3> QED BY <1>9, <3>1, <3>2, ReadStep
  <2>6. srv' \in [pc : {"poll", "scan", "dead"} \cup Dialogue, i : 0 .. SlotsMax]
    <3>1. srv.i \in 0 .. SlotsMax /\ srv.i + 1 \in 0 .. SlotsMax
      BY <1>b, <2>2
    <3>2. CASE srv' = [pc |-> "scan", i |-> srv.i + 1]
      BY <3>1, <3>2
    <3>3. ASSUME NEW step \in Dialogue, srv' = [pc |-> step, i |-> srv.i]
          PROVE  srv' \in [pc : {"poll", "scan", "dead"} \cup Dialogue, i : 0 .. SlotsMax]
      BY <3>1, <3>3
    <3> QED BY <1>9, <3>2, <3>3, ReadStep
  <2>7. nclients' \in 0 .. Cardinality(Client)
    BY <1>a, <2>5
  <2> QED BY <2>1, <2>3, <2>4, <2>5, <2>6, <2>7 DEF TypeOK, Dialogue, Slots
<1>10. CASE Die
  BY <1>10 DEF Die, TypeOK
<1>11. CASE UNCHANGED vars
  BY <1>11 DEF vars, TypeOK, Slots
<1> QED
  BY <1>1, <1>2, <1>3, <1>4, <1>5, <1>6, <1>7, <1>8, <1>9, <1>10, <1>11 DEF Next, SrvStep

-----------------------------------------------------------------------------
(* PollServer: the theorems. *)

LEMMA InvStep == ASSUME ConstantAssumption, IInv, [Next]_vars PROVE IInv'
<1>1. TypeOK' /\ Places'
  BY TypeStep, PlacesStep
<1>2. Pointer' /\ Unheard' /\ TakeTurns'
  BY PointerStep, UnheardStep, TurnsStep
<1> QED BY <1>1, <1>2 DEF IInv

\* The inductive invariant holds in every reachable state.
THEOREM Inductive == ASSUME ConstantAssumption PROVE Spec => []IInv
<1>1. Init => IInv
  BY InvInit
<1>2. IInv /\ [Next]_vars => IInv'
  BY InvStep
<1> QED BY <1>1, <1>2, PTL DEF Spec

\* Every variable keeps its type: the array is never filled beyond CLIENTS_MAX - 2 clients,
\* and nclients is a number of clients.
THEOREM TypeCorrect == ASSUME ConstantAssumption PROVE Spec => []TypeOK
<1>1. IInv => TypeOK
  BY DEF IInv
<1> QED BY <1>1, Inductive, PTL

\* server.c of module3/15: accepting and removing during the loop keeps the array right.
THEOREM SlotsHold == ASSUME ConstantAssumption PROVE Spec => []SlotsRight
<1>1. ASSUME IInv PROVE SlotsRight
  <2>1. ToSet(fds) \subseteq Client
    BY <1>1, ElementOfSeq, LenProperties DEF IInv, TypeOK, ToSet
  <2> QED BY <1>1, <2>1 DEF IInv, Places, SlotsRight, Distinct
<1> QED BY <1>1, Inductive, PTL

\* server.c and client.c of module3/15: between a line and the next message nothing else is
\* under way.
THEOREM TurnsTaken == ASSUME ConstantAssumption PROVE Spec => []TakeTurns
<1>1. IInv => TakeTurns
  BY DEF IInv
<1> QED BY <1>1, Inductive, PTL

-----------------------------------------------------------------------------
(* CalcServer: what the server's process writes, whatever number was typed. *)

Moves(s) ==
    CASE s = "choice" -> {<<"end", <<"disconnect">> >>, <<"get1", <<"ask1">> >>, <<"opt", <<"files">> >>,
                 <<"choice", <<"unknown", "menu">> >>}
      [] s = "get1" -> {<<"get2", <<"ask2">> >>, <<"end", <<>> >>}
      [] s = "get2" -> {<<"choice", <<"result", "menu">> >>, <<"end", <<>> >>}
      [] s = "opt" -> {<<"download", <<"askname">> >>, <<"upload", <<"askname">> >>, <<"choice", <<"menu">> >>}
      [] s = "download" -> {<<"ack1", <<"download">> >>, <<"choice", <<"menu">> >>}
      [] s = "ack1" -> {<<"ack2", <<"size">> >>}
      [] s = "ack2" -> {<<"choice", <<"data", "menu">> >>}
      [] s = "upload" -> {<<"size", <<"upload">> >>}
      [] s = "size" -> {<<"bytes", <<"one">> >>}
      [] s = "bytes" -> {<<"choice", <<"menu">> >>, <<"bytes", <<>> >>}

LEMMA ReplyMoves ==
    ASSUME NEW s \in Calc!Waits, NEW ls, NEW m \in Calc!Reply(s, ls)
    PROVE  m \in Moves(s)
<1>1. CASE s = "choice"
  BY <1>1 DEF Calc!Reply, Moves
<1>2. CASE s = "get1"
  BY <1>2 DEF Calc!Reply, Moves
<1>3. CASE s = "get2"
  BY <1>3 DEF Calc!Reply, Moves, Calc!AfterResult
<1>4. CASE s = "opt"
  BY <1>4 DEF Calc!Reply, Moves
<1>5. CASE s \in {"download", "ack1", "ack2", "upload", "size"}
  BY <1>5 DEF Calc!Reply, Moves
<1>6. CASE s = "bytes"
  BY <1>6 DEF Calc!Reply, Moves
<1> QED BY <1>1, <1>2, <1>3, <1>4, <1>5, <1>6 DEF Calc!Waits

LEMMA ShortSeq ==
    ASSUME NEW S
    PROVE  /\ <<>> \in Seq(S)
           /\ \A x \in S : <<x>> \in Seq(S)
           /\ \A x, y \in S : <<x, y>> \in Seq(S)
OBVIOUS

Replied == {<<>>, <<"disconnect">>, <<"ask1">>, <<"files">>, <<"unknown", "menu">>, <<"ask2">>,
            <<"result", "menu">>, <<"askname">>, <<"menu">>, <<"download">>, <<"size">>,
            <<"data", "menu">>, <<"upload">>, <<"one">>}

LEMMA RepliedType == Replied \subseteq Seq(Calc!Texts)
<1>1. ASSUME NEW x \in Calc!Texts, NEW y \in Calc!Texts
      PROVE <<x, y>> \in Seq(Calc!Texts) /\ <<x>> \in Seq(Calc!Texts) /\ <<>> \in Seq(Calc!Texts)
  OBVIOUS
<1>2. Calc!Texts = {"menu", "unknown", "ask1", "ask2", "files", "askname", "result", "disconnect",
                    "download", "upload", "size", "data", "one"}
  BY DEF Calc!Texts, Calc!Questions
<1>3. \A x \in Calc!Texts : <<x>> \in Seq(Calc!Texts)
  BY <1>1
<1>4. \A x, y \in Calc!Texts : <<x, y>> \in Seq(Calc!Texts)
  BY <1>1
<1>5. ASSUME NEW q \in Replied PROVE q \in Seq(Calc!Texts)
  <2>1. CASE q = <<>>
    BY <1>1, <1>2, <2>1
  <2>2. CASE q \in {<<"disconnect">>, <<"ask1">>, <<"files">>, <<"ask2">>, <<"askname">>, <<"menu">>,
                    <<"download">>, <<"size">>, <<"upload">>, <<"one">>}
    BY <1>2, <1>3, <2>2
  <2>3. CASE q \in {<<"unknown", "menu">>, <<"result", "menu">>, <<"data", "menu">>}
    BY <1>2, <1>4, <2>3
  <2> QED BY <2>1, <2>2, <2>3 DEF Replied
<1> QED BY <1>5

LEMMA MoveType ==
    ASSUME NEW s \in Calc!Waits, NEW m \in Moves(s)
    PROVE  m[1] \in Calc!Waits \cup {"end"} /\ m[2] \in Replied /\ m[2] \in Seq(Calc!Texts)
<1>1. \/ \E q \in {<<"disconnect">>, <<>>} : m = <<"end", q>>
      \/ m = <<"get1", <<"ask1">> >> \/ m = <<"get2", <<"ask2">> >> \/ m = <<"opt", <<"files">> >>
      \/ m = <<"download", <<"askname">> >> \/ m = <<"upload", <<"askname">> >>
      \/ m = <<"ack1", <<"download">> >> \/ m = <<"ack2", <<"size">> >>
      \/ m = <<"size", <<"upload">> >> \/ m = <<"bytes", <<"one">> >> \/ m = <<"bytes", <<>> >>
      \/ \E q \in {<<"menu">>, <<"unknown", "menu">>, <<"result", "menu">>, <<"data", "menu">>} :
            m = <<"choice", q>>
  BY DEF Moves, Calc!Waits
<1>2. m[1] \in Calc!Waits \cup {"end"}
  BY <1>1 DEF Calc!Waits
<1>3. m[2] \in Replied
  BY <1>1 DEF Replied
<1> QED BY <1>2, <1>3, RepliedType

\* A record of which lines are under way.
CalcLine == [value : 0 .. 10, about : Calc!Texts \cup Calc!Replies]

LEMMA CalcSizes ==
    /\ \A S : Calc!IsFiniteSet(S) <=> IsFiniteSet(S)
    /\ \A S : Calc!Cardinality(S) = Cardinality(S)
<1>1. \A S : Calc!IsFiniteSet(S) <=> IsFiniteSet(S)
  BY DEF Calc!IsFiniteSet, IsFiniteSet
<1>2. \A S : Calc!Cardinality(S) = Cardinality(S)
  BY DEF Calc!Cardinality, Cardinality
<1> QED BY <1>1, <1>2

LEMMA CalcConstants ==
    /\ IsFiniteSet(Callers) /\ Inputs \subseteq 0 .. 10 /\ MaxInputs \in Nat
    /\ Network \in {"kind", "any"}
<1>1. Calc!ConstantAssumption
  BY InstanceAssumption
<1> QED BY <1>1, CalcSizes DEF Calc!ConstantAssumption

\* recv() ends somewhere in what is under way.
LEMMA EndsWithin ==
    ASSUME NEW q, NEW k \in Calc!Ends(q)
    PROVE  k \in 1 .. Len(q)
BY DEF Calc!Ends

\* The user sees one of the messages of the buffer: CHOOSE finds the first that ends in zero.
LEMMA ShownElement ==
    ASSUME NEW q \in Seq(Calc!Texts), q # <<>>
    PROVE  \E k \in 1 .. Len(q) : Calc!Shown(q) = q[k]
<1>1. Len(q) \in Nat \ {0}
  BY LenProperties, EmptySeq
<1> DEFINE Z == {k \in 1 .. Len(q) : q[k] \notin Calc!NoZero}
           First(k) == k \in 1 .. Len(q) /\ q[k] \notin Calc!NoZero
                       /\ \A j \in 1 .. k - 1 : q[j] \in Calc!NoZero
<1>2. CASE Z = {}
  <2>1. Calc!Shown(q) = q[Len(q)]
    BY <1>2 DEF Calc!Shown
  <2> QED BY <1>1, <2>1
<1>3. CASE Z # {}
  <2>a. Z \subseteq Nat
    OBVIOUS
  <2>1. PICK k \in Z : \A y \in Z : k <= y
    <3> HIDE DEF Z
    <3> QED BY <1>3, <2>a, LeastNat
  <2>2. First(k)
    BY <1>1, <2>1
  <2>3. PICK z : z = CHOOSE y \in 1 .. Len(q) : q[y] \notin Calc!NoZero
                                         /\ \A j \in 1 .. y - 1 : q[j] \in Calc!NoZero
    OBVIOUS
  <2>4. z \in 1 .. Len(q)
    BY <2>2, <2>3
  <2>5. Calc!Shown(q) = q[z]
    BY <1>3, <2>3 DEF Calc!Shown
  <2> QED BY <2>4, <2>5
<1> QED BY <1>2, <1>3

-----------------------------------------------------------------------------
(* CalcServer: types, and what the accepting process counts. *)

Serving == {c \in Callers : server[c] # "off"}

Opened ==
    /\ online = Cardinality(Serving)
    /\ \A c \in Callers : client[c] \in {"off", "connected"} <=> server[c] = "off"
    /\ \A c \in Callers : server[c] = "off" => toServer[c] = <<>>

CalcInv == Calc!TypeOK /\ Opened

LEMMA CalcInit == Calc!Init => CalcInv
<1> SUFFICES ASSUME Calc!Init PROVE CalcInv
  OBVIOUS
<1>1. Serving = {}
  BY DEF Calc!Init, Serving
<1>2. Cardinality({}) = 0 /\ Cardinality(Callers) \in Nat
  BY CalcConstants, FS_EmptySet, FS_CardinalityType
<1>3. Opened
  BY <1>1, <1>2 DEF Opened, Calc!Init
<1>4. online \in 0 .. Calc!Cardinality(Callers) /\ inputs \in [Callers -> 0 .. MaxInputs]
  BY <1>2, CalcConstants, CalcSizes DEF Calc!Init
<1>5. /\ toClient \in [Callers -> Seq(Calc!Texts)] /\ shown \in [Callers -> Calc!Texts]
      /\ toServer \in [Callers -> Seq(CalcLine)]
  <2>1. <<>> \in Seq(Calc!Texts) /\ <<>> \in Seq(CalcLine) /\ "menu" \in Calc!Texts
    BY DEF Calc!Texts, Calc!Questions
  <2> QED BY <2>1 DEF Calc!Init
<1> QED BY <1>3, <1>4, <1>5 DEF CalcInv, Calc!TypeOK, Calc!Init, CalcLine

\* One component of the five functions a step changes.
LEMMA CalcTypes ==
    CalcInv =>
        /\ server \in [Callers -> Calc!Waits \cup {"off", "end"}]
        /\ client \in [Callers -> {"off", "connected", "recv", "type", "dsize", "ddata", "uack", "end"}]
        /\ toClient \in [Callers -> Seq(Calc!Texts)] /\ toServer \in [Callers -> Seq(CalcLine)]
        /\ shown \in [Callers -> Calc!Texts] /\ inputs \in [Callers -> 0 .. MaxInputs]
BY DEF CalcInv, Calc!TypeOK, Calc!Waits, CalcLine

\* Steps of a process that serves leave what is counted alone.
LEMMA CountStays ==
    ASSUME CalcInv, UNCHANGED online,
           server' \in [Callers -> Calc!Waits \cup {"off", "end"}],
           \A c \in Callers : server'[c] = "off" <=> server[c] = "off"
    PROVE  online' = Cardinality(Serving') /\ online' \in 0 .. Calc!Cardinality(Callers)
<1>1. Serving' = Serving
  BY DEF Serving
<1> QED BY <1>1 DEF CalcInv, Opened, Calc!TypeOK

\* One move of a session: what it must keep.
CalcTyped ==
    /\ server \in [Callers -> Calc!Waits \cup {"off", "end"}]
    /\ client \in [Callers -> {"off", "connected", "recv", "type", "dsize", "ddata", "uack", "end"}]
    /\ toClient \in [Callers -> Seq(Calc!Texts)] /\ toServer \in [Callers -> Seq(CalcLine)]
    /\ shown \in [Callers -> Calc!Texts] /\ inputs \in [Callers -> 0 .. MaxInputs]

LEMMA CalcUpdate ==
    ASSUME CalcInv, NEW c \in Callers, CalcTyped', UNCHANGED online,
           \A d \in Callers : d # c => /\ server'[d] = server[d] /\ client'[d] = client[d]
                                       /\ toServer'[d] = toServer[d],
           server'[c] = "off" <=> server[c] = "off",
           client'[c] \in {"off", "connected"} <=> server'[c] = "off",
           server'[c] = "off" => toServer'[c] = <<>>
    PROVE  CalcInv'
<1>2. \A d \in Callers : server'[d] = "off" <=> server[d] = "off"
  OBVIOUS
<1>3. online' = Cardinality(Serving') /\ online' \in 0 .. Calc!Cardinality(Callers)
  BY <1>2, CountStays DEF CalcTyped
<1>4. Opened'
  <2>1. \A d \in Callers : client'[d] \in {"off", "connected"} <=> server'[d] = "off"
    BY DEF CalcInv, Opened
  <2>2. \A d \in Callers : server'[d] = "off" => toServer'[d] = <<>>
    BY DEF CalcInv, Opened
  <2> QED BY <1>3, <2>1, <2>2 DEF Opened
<1> QED BY <1>3, <1>4 DEF CalcTyped, CalcInv, Calc!TypeOK, Calc!Waits, CalcLine

LEMMA CalcAccept == ASSUME CalcInv, NEW c \in Callers, Calc!Accept(c) PROVE CalcInv'
<1>1. /\ client[c] = "connected" /\ online' = online + 1
      /\ client' = [client EXCEPT ![c] = "recv"] /\ server' = [server EXCEPT ![c] = "choice"]
      /\ toClient' = [toClient EXCEPT ![c] = <<"menu">>] /\ UNCHANGED <<toServer, shown, inputs>>
  BY DEF Calc!Accept, Calc!Counted
<1>2. <<"menu">> \in Seq(Calc!Texts)
  <2>1. "menu" \in Calc!Texts
    BY DEF Calc!Texts, Calc!Questions
  <2> QED BY <2>1
<1>3. /\ server' \in [Callers -> Calc!Waits \cup {"off", "end"}]
      /\ client' \in [Callers -> {"off", "connected", "recv", "type", "dsize", "ddata", "uack", "end"}]
      /\ toClient' \in [Callers -> Seq(Calc!Texts)] /\ toServer' \in [Callers -> Seq(CalcLine)]
      /\ shown' \in [Callers -> Calc!Texts] /\ inputs' \in [Callers -> 0 .. MaxInputs]
  BY <1>1, <1>2, CalcTypes DEF Calc!Waits
<1>4. server[c] = "off"
  BY <1>1 DEF CalcInv, Opened
<1>5. Serving' = Serving \cup {c} /\ c \notin Serving
  BY <1>1, <1>4, CalcTypes DEF Serving
<1>6. IsFiniteSet(Serving) /\ IsFiniteSet(Serving')
  <2>1. Serving \subseteq Callers /\ Serving' \subseteq Callers
    BY DEF Serving
  <2> QED BY <2>1, CalcConstants, FS_Subset
<1>7. online' = Cardinality(Serving')
  BY <1>1, <1>5, <1>6, FS_AddElement DEF CalcInv, Opened
<1>8. online' \in 0 .. Calc!Cardinality(Callers)
  <2>1. Serving' \subseteq Callers
    BY DEF Serving
  <2>2. Cardinality(Serving') <= Cardinality(Callers) /\ Cardinality(Serving') \in Nat
        /\ Cardinality(Callers) \in Nat
    BY <1>6, <2>1, CalcConstants, FS_Subset, FS_CardinalityType
  <2> QED BY <1>7, <2>2, CalcSizes
<1>9. Opened'
  BY <1>1, <1>7, CalcTypes DEF CalcInv, Opened
<1> QED BY <1>3, <1>8, <1>9 DEF CalcInv, Calc!TypeOK, Calc!Waits, CalcLine

\* A variable that stays is updated with what it holds.
LEMMA Stays ==
    ASSUME CalcInv, NEW c \in Callers
    PROVE  /\ server = [server EXCEPT ![c] = server[c]] /\ client = [client EXCEPT ![c] = client[c]]
           /\ toClient = [toClient EXCEPT ![c] = toClient[c]]
           /\ toServer = [toServer EXCEPT ![c] = toServer[c]]
           /\ shown = [shown EXCEPT ![c] = shown[c]] /\ inputs = [inputs EXCEPT ![c] = inputs[c]]
BY CalcTypes

LEMMA CalcServerReads == ASSUME CalcInv, NEW c \in Callers, Calc!ServerReads(c) PROVE CalcInv'
<1>0. PICK k \in 1 .. Len(toServer[c]) : \E m \in Calc!Reply(server[c], SubSeq(toServer[c], 1, k)) :
          /\ toServer' = [toServer EXCEPT ![c] = IF m[1] = "end" THEN <<>> ELSE SubSeq(@, k + 1, Len(@))]
          /\ server' = [server EXCEPT ![c] = m[1]]
          /\ toClient' = [toClient EXCEPT ![c] = IF client[c] = "end" THEN <<>> ELSE @ \o m[2]]
  BY DEF Calc!ServerReads
<1>1. PICK m \in Calc!Reply(server[c], SubSeq(toServer[c], 1, k)) :
          /\ toServer' = [toServer EXCEPT ![c] = IF m[1] = "end" THEN <<>> ELSE SubSeq(@, k + 1, Len(@))]
          /\ server' = [server EXCEPT ![c] = m[1]]
          /\ toClient' = [toClient EXCEPT ![c] = IF client[c] = "end" THEN <<>> ELSE @ \o m[2]]
  BY <1>0
<1>2. server[c] \in Calc!Waits /\ UNCHANGED <<online, client, shown, inputs>>
  BY DEF Calc!ServerReads
<1>3. m \in Moves(server[c])
  BY <1>2, ReplyMoves
<1>4. m[1] \in Calc!Waits \cup {"end"} /\ m[2] \in Seq(Calc!Texts)
  BY <1>2, <1>3, MoveType
<1>5. toServer[c] \in Seq(CalcLine) /\ toClient[c] \in Seq(Calc!Texts)
  BY CalcTypes
<1> DEFINE ts == IF m[1] = "end" THEN <<>> ELSE SubSeq(toServer[c], k + 1, Len(toServer[c]))
           tc == IF client[c] = "end" THEN <<>> ELSE toClient[c] \o m[2]
<1>6. ts \in Seq(CalcLine)
  <2>1. SubSeq(toServer[c], k + 1, Len(toServer[c])) \in Seq(CalcLine)
    BY <1>5, CutQueue
  <2> QED BY <2>1
<1>7. tc \in Seq(Calc!Texts)
  <2>1. toClient[c] \o m[2] \in Seq(Calc!Texts)
    BY <1>4, <1>5, ConcatProperties
  <2> QED BY <2>1
<1>8. /\ toServer' = [toServer EXCEPT ![c] = ts] /\ toClient' = [toClient EXCEPT ![c] = tc]
      /\ server' = [server EXCEPT ![c] = m[1]] /\ client' = [client EXCEPT ![c] = client[c]]
      /\ shown' = [shown EXCEPT ![c] = shown[c]] /\ inputs' = [inputs EXCEPT ![c] = inputs[c]]
  BY <1>1, <1>2, Stays, CalcTypes
<1>9. server[c] # "off" /\ m[1] # "off" /\ client[c] \notin {"off", "connected"}
  BY <1>2, <1>4 DEF Calc!Waits, CalcInv, Opened
<1>10. /\ client[c] \in {"off", "connected", "recv", "type", "dsize", "ddata", "uack", "end"}
       /\ shown[c] \in Calc!Texts /\ inputs[c] \in 0 .. MaxInputs
  BY CalcTypes
<1> HIDE DEF ts, tc
<1>11. CalcTyped'
  BY <1>4, <1>6, <1>7, <1>8, CalcTypes DEF CalcTyped
<1>12. /\ \A d \in Callers : d # c => /\ server'[d] = server[d] /\ client'[d] = client[d]
                                      /\ toServer'[d] = toServer[d]
       /\ server'[c] # "off" /\ server[c] # "off" /\ client'[c] \notin {"off", "connected"}
  BY <1>8, <1>9, CalcTypes
<1> QED BY <1>11, <1>12, <1>2, CalcUpdate

LEMMA CalcServerReadsEnd == ASSUME CalcInv, NEW c \in Callers, Calc!ServerReadsEnd(c) PROVE CalcInv'
<1>1. PICK s \in Calc!EndOfFile(server[c]) : server' = [server EXCEPT ![c] = s]
  BY DEF Calc!ServerReadsEnd
<1>2. /\ server[c] \in Calc!Waits /\ UNCHANGED <<online, client, toClient, toServer, shown, inputs>>
  BY DEF Calc!ServerReadsEnd
<1>3. s \in Calc!Waits \cup {"end"}
  BY DEF Calc!EndOfFile, Calc!Waits
<1>4. server[c] # "off" /\ s # "off" /\ client[c] \notin {"off", "connected"}
  BY <1>2, <1>3 DEF Calc!Waits, CalcInv, Opened
<1>5. /\ toServer' = [toServer EXCEPT ![c] = toServer[c]] /\ toClient' = [toClient EXCEPT ![c] = toClient[c]]
      /\ client' = [client EXCEPT ![c] = client[c]]
      /\ shown' = [shown EXCEPT ![c] = shown[c]] /\ inputs' = [inputs EXCEPT ![c] = inputs[c]]
  BY <1>2, Stays
<1>6. /\ client[c] \in {"off", "connected", "recv", "type", "dsize", "ddata", "uack", "end"}
      /\ shown[c] \in Calc!Texts /\ inputs[c] \in 0 .. MaxInputs
      /\ toServer[c] \in Seq(CalcLine) /\ toClient[c] \in Seq(Calc!Texts)
  BY CalcTypes
<1>7. CalcTyped'
  BY <1>1, <1>2, <1>3, CalcTypes DEF CalcTyped
<1>8. /\ \A d \in Callers : d # c => /\ server'[d] = server[d] /\ client'[d] = client[d]
                                     /\ toServer'[d] = toServer[d]
      /\ server'[c] # "off" /\ server[c] # "off" /\ client'[c] \notin {"off", "connected"}
  BY <1>1, <1>2, <1>4, CalcTypes
<1> QED BY <1>7, <1>8, <1>2, CalcUpdate

\* What a client does with a buffer: it asks its user, ends, or answers by itself.
LEMMA ReactType ==
    ASSUME NEW p \in {"recv", "dsize", "ddata", "uack"}, NEW q
    PROVE  /\ Calc!React(p, q)[1] \in {"recv", "type", "dsize", "ddata", "uack", "end"}
           /\ Calc!React(p, q)[2] \in Seq(CalcLine)
<1> DEFINE Sent == {<<>>, <<[value |-> 1, about |-> "ack"]>>, <<[value |-> 7, about |-> "size"]>>,
                    <<[value |-> Calc!Word, about |-> "bytes"]>>}
<1>1. /\ Calc!React(p, q)[1] \in {"recv", "type", "dsize", "ddata", "uack", "end"}
      /\ Calc!React(p, q)[2] \in Sent
  BY DEF Calc!React
<1>2. ASSUME NEW v \in {1, 7, 10}, NEW b \in {"ack", "size", "bytes"}
      PROVE  <<[value |-> v, about |-> b]>> \in Seq(CalcLine)
  <2>1. [value |-> v, about |-> b] \in CalcLine
    BY DEF CalcLine, Calc!Replies
  <2> QED BY <2>1
<1>3. Sent \subseteq Seq(CalcLine)
  <2>1. <<>> \in Seq(CalcLine)
    OBVIOUS
  <2> QED BY <1>2, <2>1 DEF Calc!Word
<1> QED BY <1>1, <1>3

LEMMA CalcReceives == ASSUME CalcInv, NEW c \in Callers, Calc!Receives(c) PROVE CalcInv'
<1> DEFINE Buffer(k) == SubSeq(toClient[c], 1, k)
           Reaction(k) == Calc!React(client[c], Buffer(k))
<1>1. PICK k \in Calc!Ends(toClient[c]) :
          /\ client' = [client EXCEPT ![c] = Reaction(k)[1]]
          /\ toServer' = [toServer EXCEPT ![c] = @ \o Reaction(k)[2]]
          /\ toClient' = [toClient EXCEPT ![c] = IF Reaction(k)[1] = "end" THEN <<>>
                                                   ELSE SubSeq(@, k + 1, Len(@))]
          /\ shown' = [shown EXCEPT ![c] = Calc!Shown(Buffer(k))]
  BY DEF Calc!Receives
<1>2. /\ client[c] \in {"recv", "dsize", "ddata", "uack"} /\ toClient[c] # <<>>
      /\ UNCHANGED <<online, server, inputs>>
  BY DEF Calc!Receives
<1>3. toServer[c] \in Seq(CalcLine) /\ toClient[c] \in Seq(Calc!Texts) /\ k \in 1 .. Len(toClient[c])
  BY CalcTypes, EndsWithin
<1>4. /\ Buffer(k) \in Seq(Calc!Texts) /\ Len(Buffer(k)) = k
      /\ SubSeq(toClient[c], k + 1, Len(toClient[c])) \in Seq(Calc!Texts)
  BY <1>3, CutQueue
<1>5. Calc!Shown(Buffer(k)) \in Calc!Texts
  <2>1. Buffer(k) # <<>>
    BY <1>3, <1>4, EmptySeq
  <2>2. PICK j \in 1 .. Len(Buffer(k)) : Calc!Shown(Buffer(k)) = Buffer(k)[j]
    BY <1>4, <2>1, ShownElement
  <2> QED BY <1>4, <2>2, ElementOfSeq
<1>6. /\ Reaction(k)[1] \in {"recv", "type", "dsize", "ddata", "uack", "end"}
      /\ Reaction(k)[2] \in Seq(CalcLine)
  BY <1>2, ReactType
<1> DEFINE p == Reaction(k)[1]
           ts == toServer[c] \o Reaction(k)[2]
           tc == IF p = "end" THEN <<>> ELSE SubSeq(toClient[c], k + 1, Len(toClient[c]))
           w == Calc!Shown(Buffer(k))
<1>7. ts \in Seq(CalcLine)
  BY <1>3, <1>6, ConcatProperties
<1>8. tc \in Seq(Calc!Texts)
  BY <1>4
<1>9. /\ client' = [client EXCEPT ![c] = p] /\ toServer' = [toServer EXCEPT ![c] = ts]
      /\ toClient' = [toClient EXCEPT ![c] = tc] /\ shown' = [shown EXCEPT ![c] = w]
      /\ server' = [server EXCEPT ![c] = server[c]] /\ inputs' = [inputs EXCEPT ![c] = inputs[c]]
  BY <1>1, <1>2, Stays, CalcTypes
<1>10. server[c] # "off" /\ p \notin {"off", "connected"}
  BY <1>2, <1>6 DEF CalcInv, Opened
<1>11. server[c] \in Calc!Waits \cup {"off", "end"} /\ inputs[c] \in 0 .. MaxInputs
  BY CalcTypes
<1> HIDE DEF p, ts, tc, w
<1>12. /\ w \in Calc!Texts
       /\ p \in {"off", "connected", "recv", "type", "dsize", "ddata", "uack", "end"}
  BY <1>5, <1>6 DEF p, w
<1>13. CalcTyped'
  BY <1>7, <1>8, <1>9, <1>12, CalcTypes DEF CalcTyped
<1>14. /\ \A d \in Callers : d # c => /\ server'[d] = server[d] /\ client'[d] = client[d]
                                      /\ toServer'[d] = toServer[d]
       /\ server'[c] # "off" /\ server[c] # "off" /\ client'[c] \notin {"off", "connected"}
  BY <1>9, <1>10, <1>12, CalcTypes
<1> QED BY <1>13, <1>14, <1>2, CalcUpdate

LEMMA CalcTyping == ASSUME CalcInv, NEW c \in Callers, Calc!Types(c) PROVE CalcInv'
<1>1. /\ client[c] = "type" /\ inputs[c] < MaxInputs
      /\ inputs' = [inputs EXCEPT ![c] = inputs[c] + 1] /\ client' = [client EXCEPT ![c] = "recv"]
      /\ UNCHANGED <<online, server, toClient, shown>>
  BY CalcTypes DEF Calc!Types
<1>2. server[c] # "off"
  BY <1>1 DEF CalcInv, Opened
<1>3. /\ toServer[c] \in Seq(CalcLine) /\ shown[c] \in Calc!Texts
      /\ server[c] \in Calc!Waits \cup {"off", "end"} /\ inputs[c] \in 0 .. MaxInputs
      /\ toClient[c] \in Seq(Calc!Texts)
  BY CalcTypes
<1>4. PICK ts \in Seq(CalcLine) : toServer' = [toServer EXCEPT ![c] = ts]
  <2>1. CASE UNCHANGED toServer
    BY <1>3, <2>1, Stays
  <2>2. ASSUME NEW v \in Inputs,
               toServer' = [toServer EXCEPT ![c] =
                   IF server[c] = "end" THEN <<>> ELSE Append(@, [value |-> v, about |-> shown[c]])]
        PROVE  \E ts \in Seq(CalcLine) : toServer' = [toServer EXCEPT ![c] = ts]
    <3>1. [value |-> v, about |-> shown[c]] \in CalcLine
      BY <1>3, CalcConstants DEF CalcLine
    <3>2. Append(toServer[c], [value |-> v, about |-> shown[c]]) \in Seq(CalcLine)
      BY <1>3, <3>1, AppendProperties
    <3>3. CASE server[c] = "end"
      <4>1. toServer' = [toServer EXCEPT ![c] = <<>>] /\ <<>> \in Seq(CalcLine)
        BY <2>2, <3>3
      <4> QED BY <4>1
    <3>4. CASE server[c] # "end"
      <4>1. toServer' = [toServer EXCEPT ![c] = Append(toServer[c], [value |-> v, about |-> shown[c]])]
        BY <2>2, <3>4, CalcTypes
      <4> QED BY <3>2, <4>1
    <3> QED BY <3>3, <3>4
  <2> QED BY <2>1, <2>2 DEF Calc!Types
<1>5. /\ toClient' = [toClient EXCEPT ![c] = toClient[c]] /\ server' = [server EXCEPT ![c] = server[c]]
      /\ shown' = [shown EXCEPT ![c] = shown[c]]
  BY <1>1, Stays
<1>6. inputs[c] + 1 \in 0 .. MaxInputs
  BY <1>1, <1>3, CalcConstants
<1>7. CalcTyped'
  BY <1>1, <1>4, <1>6, CalcTypes DEF CalcTyped
<1>8. /\ \A d \in Callers : d # c => /\ server'[d] = server[d] /\ client'[d] = client[d]
                                     /\ toServer'[d] = toServer[d]
      /\ server'[c] # "off" /\ server[c] # "off" /\ client'[c] \notin {"off", "connected"}
  BY <1>1, <1>2, <1>4, CalcTypes
<1> QED BY <1>7, <1>8, <1>1, CalcUpdate

LEMMA CalcLeaves ==
    ASSUME CalcInv, NEW c \in Callers, Calc!ReceivesEnd(c) \/ Calc!Quits(c) PROVE CalcInv'
<1>1. /\ client[c] \notin {"off", "connected"} /\ client' = [client EXCEPT ![c] = "end"]
      /\ UNCHANGED <<online, server, toServer, shown, inputs>>
  BY DEF Calc!ReceivesEnd, Calc!Quits
<1>2. PICK tc \in Seq(Calc!Texts) : toClient' = [toClient EXCEPT ![c] = tc]
  <2>1. CASE UNCHANGED toClient
    BY <2>1, Stays, CalcTypes
  <2>2. CASE toClient' = [toClient EXCEPT ![c] = <<>>]
    <3>1. <<>> \in Seq(Calc!Texts)
      OBVIOUS
    <3> QED BY <2>2, <3>1
  <2> QED BY <2>1, <2>2 DEF Calc!ReceivesEnd, Calc!Quits
<1>3. server[c] # "off"
  BY <1>1, CalcTypes DEF CalcInv, Opened
<1>4. /\ toServer[c] \in Seq(CalcLine) /\ shown[c] \in Calc!Texts
      /\ server[c] \in Calc!Waits \cup {"off", "end"} /\ inputs[c] \in 0 .. MaxInputs
  BY CalcTypes
<1>5. /\ toServer' = [toServer EXCEPT ![c] = toServer[c]] /\ server' = [server EXCEPT ![c] = server[c]]
      /\ shown' = [shown EXCEPT ![c] = shown[c]] /\ inputs' = [inputs EXCEPT ![c] = inputs[c]]
  BY <1>1, Stays
<1>6. CalcTyped'
  BY <1>1, <1>2, CalcTypes DEF CalcTyped
<1>7. /\ \A d \in Callers : d # c => /\ server'[d] = server[d] /\ client'[d] = client[d]
                                     /\ toServer'[d] = toServer[d]
      /\ server'[c] # "off" /\ server[c] # "off" /\ client'[c] \notin {"off", "connected"}
  BY <1>1, <1>3, CalcTypes
<1> QED BY <1>6, <1>7, <1>1, CalcUpdate

LEMMA CalcConnect == ASSUME CalcInv, NEW c \in Callers, Calc!Connect(c) PROVE CalcInv'
<1>1. /\ client[c] = "off" /\ client' = [client EXCEPT ![c] = "connected"]
      /\ UNCHANGED <<online, server, toClient, toServer, shown, inputs>>
  BY DEF Calc!Connect
<1>2. server[c] = "off" /\ toServer[c] = <<>>
  BY <1>1 DEF CalcInv, Opened
<1>3. /\ toServer' = [toServer EXCEPT ![c] = toServer[c]] /\ server' = [server EXCEPT ![c] = server[c]]
      /\ toClient' = [toClient EXCEPT ![c] = toClient[c]]
      /\ shown' = [shown EXCEPT ![c] = shown[c]] /\ inputs' = [inputs EXCEPT ![c] = inputs[c]]
  BY <1>1, Stays
<1>4. /\ toServer[c] \in Seq(CalcLine) /\ shown[c] \in Calc!Texts /\ toClient[c] \in Seq(Calc!Texts)
      /\ server[c] \in Calc!Waits \cup {"off", "end"} /\ inputs[c] \in 0 .. MaxInputs
  BY CalcTypes
<1>5. CalcTyped'
  BY <1>1, CalcTypes DEF CalcTyped
<1>6. /\ \A d \in Callers : d # c => /\ server'[d] = server[d] /\ client'[d] = client[d]
                                     /\ toServer'[d] = toServer[d]
      /\ server'[c] = "off" /\ server[c] = "off" /\ client'[c] \in {"off", "connected"}
      /\ toServer'[c] = <<>>
  BY <1>1, <1>2, CalcTypes
<1> QED BY <1>5, <1>6, <1>1, CalcUpdate

LEMMA CalcStep == CalcInv /\ [Calc!Next]_CalcVars => CalcInv'
<1> SUFFICES ASSUME CalcInv, [Calc!Next]_CalcVars PROVE CalcInv'
  OBVIOUS
<1>1. CASE UNCHANGED CalcVars
  BY <1>1 DEF CalcVars, CalcInv, Calc!TypeOK, Opened, Serving
<1>2. ASSUME NEW c \in Callers,
             Calc!Connect(c) \/ Calc!Accept(c) \/ Calc!Session(c) \/ Calc!Types(c) \/ Calc!Quits(c)
      PROVE  CalcInv'
  BY <1>2, CalcConnect, CalcAccept, CalcServerReads, CalcServerReadsEnd, CalcReceives, CalcLeaves,
     CalcTyping DEF Calc!Session
<1> QED BY <1>1, <1>2 DEF Calc!Next

-----------------------------------------------------------------------------
(* CalcServer: one answer at a time. *)

\* Where a client is that has answered what its process waits for.
Place(s) == CASE s = "ack1" -> "dsize" [] s = "ack2" -> "ddata" [] s = "size" -> "uack"
              [] OTHER -> "recv"

\* What is under way to a client that has not taken it all.
Coming(p, s, q) ==
    \/ /\ p = "recv" /\ s = "choice"
       /\ q = <<"menu">> \/ q = <<"unknown", "menu">> \/ q = <<"result", "menu">>
    \/ p = "ddata" /\ s = "choice" /\ q = <<"data", "menu">>
    \/ p = "recv" /\ s = "get1" /\ q = <<"ask1">>
    \/ p = "recv" /\ s = "get2" /\ q = <<"ask2">>
    \/ p = "recv" /\ s = "opt" /\ q = <<"files">>
    \/ p = "recv" /\ s \in {"download", "upload"} /\ q = <<"askname">>
    \/ p = "recv" /\ s = "ack1" /\ q = <<"download">>
    \/ p = "dsize" /\ s = "ack2" /\ q = <<"size">>
    \/ p = "recv" /\ s = "size" /\ q = <<"upload">>
    \/ p = "uack" /\ s = "bytes" /\ q = <<"one">>

OneLine(s, ts) == ts = <<>> \/ (Len(ts) = 1 /\ ts[1].about \in Calc!Expected(s))

\* The process reads, or its client shows, or its user types.
Turn(p, s, tc, ts, w) ==
    \/ p = "end" /\ OneLine(s, ts)
    \/ p = Place(s) /\ tc = <<>> /\ OneLine(s, ts)
    \/ p = "type" /\ Place(s) = "recv" /\ tc = <<>> /\ ts = <<>> /\ w \in Calc!Expected(s)
    \/ Coming(p, s, tc) /\ ts = <<>>

SessionTurn(c) == Turn(client[c], server[c], toClient[c], toServer[c], shown[c])

CalcTurns == \A c \in Callers : server[c] \in Calc!Waits => SessionTurn(c)

LEMMA MoveComes ==
    ASSUME NEW s \in Calc!Waits, NEW m \in Moves(s), s = "bytes" => m[1] = "choice", m[1] # "end"
    PROVE  Coming(Place(s), m[1], m[2])
<1>1. CASE s = "choice"
  BY <1>1 DEF Moves, Coming, Place
<1>2. CASE s = "get1"
  BY <1>2 DEF Moves, Coming, Place
<1>3. CASE s = "get2"
  BY <1>3 DEF Moves, Coming, Place
<1>4. CASE s = "opt"
  BY <1>4 DEF Moves, Coming, Place
<1>5. CASE s = "download"
  BY <1>5 DEF Moves, Coming, Place
<1>6. CASE s = "ack1"
  BY <1>6 DEF Moves, Coming, Place
<1>7. CASE s = "ack2"
  BY <1>7 DEF Moves, Coming, Place
<1>8. CASE s = "upload"
  BY <1>8 DEF Moves, Coming, Place
<1>9. CASE s = "size"
  BY <1>9 DEF Moves, Coming, Place
<1>10. CASE s = "bytes"
  BY <1>10 DEF Moves, Coming, Place
<1> QED
  BY <1>1, <1>2, <1>3, <1>4, <1>5, <1>6, <1>7, <1>8, <1>9, <1>10 DEF Calc!Waits

\* Where recv() ends, and what the user sees then.
LEMMA KindEnds ==
    ASSUME Network = "kind"
    PROVE  /\ \A a \in Calc!Texts \ {"result", "unknown"} : \A k \in Calc!Ends(<<a>>) : k = 1
           /\ \A a \in {"result", "unknown"} : \A k \in Calc!Ends(<<a, "menu">>) : k = 2
           /\ \A k \in Calc!Ends(<<"data", "menu">>) : k = 1
<1>1. ASSUME NEW a, NEW k \in Calc!Ends(<<a>>) PROVE k = 1
  <2>1. k \in 1 .. Len(<<a>>)
    BY EndsWithin
  <2> QED BY <2>1
<1>2. ASSUME NEW a \in {"result", "unknown"}, NEW k \in Calc!Ends(<<a, "menu">>) PROVE k = 2
  <2>1. k \in 1 .. 2 /\ <<a, "menu">>[k] \notin {"result", "unknown"}
    BY DEF Calc!Ends
  <2> QED BY <2>1
<1>3. ASSUME NEW k \in Calc!Ends(<<"data", "menu">>) PROVE k = 1
  <2>1. k \in 1 .. 2 /\ \A j \in 1 .. 2 : <<"data", "menu">>[j] \notin {"result", "unknown"} => k <= j
    BY DEF Calc!Ends
  <2> QED BY <2>1
<1> QED BY <1>1, <1>2, <1>3

LEMMA ShownTexts ==
    /\ \A a \in Calc!Texts : Calc!Shown(<<a>>) = a
    /\ Calc!Shown(<<"unknown", "menu">>) = "unknown"
    /\ Calc!Shown(<<"result", "menu">>) = "menu"
<1>1. ASSUME NEW a \in Calc!Texts PROVE Calc!Shown(<<a>>) = a
  <2>1. <<a>> \in Seq(Calc!Texts) /\ <<a>> # <<>> /\ Len(<<a>>) = 1 /\ <<a>>[1] = a
    OBVIOUS
  <2>2. PICK k \in 1 .. Len(<<a>>) : Calc!Shown(<<a>>) = <<a>>[k]
    BY <2>1, ShownElement
  <2> QED BY <2>1, <2>2
<1>2. ASSUME NEW a, NEW b \in Calc!Texts \ Calc!NoZero,
             NEW i \in 1 .. 2, i = 1 => a \notin Calc!NoZero, i = 2 => a \in Calc!NoZero
      PROVE  Calc!Shown(<<a, b>>) = <<a, b>>[i]
  <2>1. <<a, b>>[1] = a /\ <<a, b>>[2] = b /\ Len(<<a, b>>) = 2
    OBVIOUS
  <2>2. \A k \in 1 .. 2 : (<<a, b>>[k] \notin Calc!NoZero /\ \A j \in 1 .. k - 1 : <<a, b>>[j] \in Calc!NoZero)
                          <=> k = i
    <3>1. \A j : j \in 1 .. 1 - 1 => FALSE
      OBVIOUS
    <3>2. \A j : j \in 1 .. 2 - 1 <=> j = 1
      OBVIOUS
    <3> QED BY <1>2, <2>1, <3>1, <3>2
  <2>3. (CHOOSE k \in 1 .. 2 : <<a, b>>[k] \notin Calc!NoZero /\ \A j \in 1 .. k - 1 : <<a, b>>[j] \in Calc!NoZero) = i
    BY <2>2
  <2>4. \E k \in 1 .. 2 : <<a, b>>[k] \notin Calc!NoZero
    BY <2>1
  <2> QED BY <2>1, <2>3, <2>4 DEF Calc!Shown
<1>3. "menu" \in Calc!Texts \ Calc!NoZero /\ "unknown" \notin Calc!NoZero /\ "result" \in Calc!NoZero
  BY DEF Calc!Texts, Calc!NoZero, Calc!Questions
<1>4. Calc!Shown(<<"unknown", "menu">>) = <<"unknown", "menu">>[1]
  BY <1>2, <1>3
<1>5. Calc!Shown(<<"result", "menu">>) = <<"result", "menu">>[2]
  BY <1>2, <1>3
<1> QED BY <1>1, <1>4, <1>5

LEMMA Pieces ==
    /\ \A a : SubSeq(<<a>>, 1, 1) = <<a>> /\ SubSeq(<<a>>, 1 + 1, Len(<<a>>)) = <<>>
    /\ \A a, b : /\ SubSeq(<<a, b>>, 1, 2) = <<a, b>> /\ SubSeq(<<a, b>>, 2 + 1, Len(<<a, b>>)) = <<>>
                 /\ SubSeq(<<a, b>>, 1, 1) = <<a>> /\ SubSeq(<<a, b>>, 1 + 1, Len(<<a, b>>)) = <<b>>
<1>1. ASSUME NEW a PROVE SubSeq(<<a>>, 1, 1) = <<a>> /\ SubSeq(<<a>>, 1 + 1, Len(<<a>>)) = <<>>
  <2> DEFINE q == <<a>>
  <2>1. q \in Seq({a}) /\ Len(q) = 1 /\ 1 \in 1 .. Len(q)
    OBVIOUS
  <2> HIDE DEF q
  <2>2. /\ SubSeq(q, 1, 1) \in Seq({a}) /\ Len(SubSeq(q, 1, 1)) = 1
        /\ \A j \in 1 .. 1 : SubSeq(q, 1, 1)[j] = q[j]
        /\ SubSeq(q, 1 + 1, Len(q)) \in Seq({a}) /\ Len(SubSeq(q, 1 + 1, Len(q))) = 0
    BY <2>1, CutQueue
  <2>3. SubSeq(q, 1, 1) = q
    BY <2>1, <2>2, SeqEqual
  <2>4. SubSeq(q, 1 + 1, Len(q)) = <<>>
    BY <2>2, EmptySeq
  <2> QED BY <2>3, <2>4 DEF q
<1>2. ASSUME NEW a, NEW b
      PROVE  /\ SubSeq(<<a, b>>, 1, 2) = <<a, b>> /\ SubSeq(<<a, b>>, 2 + 1, Len(<<a, b>>)) = <<>>
             /\ SubSeq(<<a, b>>, 1, 1) = <<a>> /\ SubSeq(<<a, b>>, 1 + 1, Len(<<a, b>>)) = <<b>>
  <2> DEFINE q == <<a, b>>
  <2>1. q \in Seq({a, b}) /\ Len(q) = 2 /\ q[1] = a /\ q[2] = b
    OBVIOUS
  <2>2. 1 \in 1 .. Len(q) /\ 2 \in 1 .. Len(q)
    BY <2>1
  <2> HIDE DEF q
  <2>3. /\ SubSeq(q, 1, 2) \in Seq({a, b}) /\ Len(SubSeq(q, 1, 2)) = 2
        /\ \A j \in 1 .. 2 : SubSeq(q, 1, 2)[j] = q[j]
        /\ SubSeq(q, 2 + 1, Len(q)) \in Seq({a, b}) /\ Len(SubSeq(q, 2 + 1, Len(q))) = 0
    BY <2>1, <2>2, CutQueue
  <2>4. /\ SubSeq(q, 1, 1) \in Seq({a, b}) /\ Len(SubSeq(q, 1, 1)) = 1
        /\ \A j \in 1 .. 1 : SubSeq(q, 1, 1)[j] = q[j]
        /\ SubSeq(q, 1 + 1, Len(q)) \in Seq({a, b}) /\ Len(SubSeq(q, 1 + 1, Len(q))) = 1
        /\ \A j \in 1 .. 1 : SubSeq(q, 1 + 1, Len(q))[j] = q[1 + j]
    BY <2>1, <2>2, CutQueue
  <2>5. SubSeq(q, 1, 2) = <<a, b>>
    <3>1. \A j \in 1 .. Len(SubSeq(q, 1, 2)) : SubSeq(q, 1, 2)[j] = q[j]
      BY <2>3
    <3>2. SubSeq(q, 1, 2) = q
      BY <2>1, <2>3, <3>1, SeqEqual
    <3> QED BY <3>2 DEF q
  <2>6. SubSeq(q, 1, 1) = <<a>> /\ SubSeq(q, 1 + 1, Len(q)) = <<b>>
    <3>1. /\ \A j \in 1 .. 1 : SubSeq(q, 1, 1)[j] = <<a>>[j]
          /\ \A j \in 1 .. 1 : SubSeq(q, 1 + 1, Len(q))[j] = <<b>>[j]
      BY <2>1, <2>4
    <3>2. <<a>> \in Seq({a, b}) /\ <<b>> \in Seq({a, b}) /\ Len(<<a>>) = 1 /\ Len(<<b>>) = 1
      OBVIOUS
    <3>3. SubSeq(q, 1, 1) = <<a>>
      BY <2>4, <3>1, <3>2, SeqEqual
    <3>4. SubSeq(q, 1 + 1, Len(q)) = <<b>>
      BY <2>4, <3>1, <3>2, SeqEqual
    <3> QED BY <3>3, <3>4
  <2>7. SubSeq(q, 2 + 1, Len(q)) = <<>>
    BY <2>3, EmptySeq
  <2> QED BY <2>5, <2>6, <2>7 DEF q
<1> QED BY <1>1, <1>2

LEMMA ReactRecv ==
    /\ \A b : b[1] \notin {"disconnect", "download", "upload"} => Calc!React("recv", b) = <<"type", <<>> >>
    /\ \A b : b[1] = "download" => Calc!React("recv", b) = <<"dsize", <<[value |-> 1, about |-> "ack"]>> >>
    /\ \A b : b[1] = "upload" => Calc!React("recv", b) = <<"uack", <<[value |-> 7, about |-> "size"]>> >>
BY DEF Calc!React

\* What a client does with what comes, it keeps the turn.
LEMMA Taken ==
    ASSUME Network = "kind", NEW p, NEW s, NEW q, Coming(p, s, q), NEW k \in Calc!Ends(q)
    PROVE  LET m == Calc!React(p, SubSeq(q, 1, k))
           IN  Turn(m[1], s, IF m[1] = "end" THEN <<>> ELSE SubSeq(q, k + 1, Len(q)), m[2],
                    Calc!Shown(SubSeq(q, 1, k)))
<1> DEFINE b == SubSeq(q, 1, k)
           m == Calc!React(p, b)
           rest == SubSeq(q, k + 1, Len(q))
           w == Calc!Shown(b)
<1>1. ASSUME NEW a \in Calc!Texts \ {"result", "unknown"}, q = <<a>>
      PROVE  b = <<a>> /\ rest = <<>> /\ w = a
  <2>1. k = 1
    BY <1>1, KindEnds
  <2> QED BY <1>1, <2>1, Pieces, ShownTexts
<1>2. ASSUME NEW a \in {"result", "unknown"}, q = <<a, "menu">>
      PROVE  /\ b = <<a, "menu">> /\ rest = <<>> /\ w \in {"unknown", "menu"}
  <2>1. k = 2
    BY <1>2, KindEnds
  <2>2. b = <<a, "menu">> /\ rest = <<>>
    BY <1>2, <2>1, Pieces
  <2>3. w \in {"unknown", "menu"}
    BY <2>2, ShownTexts
  <2> QED BY <2>2, <2>3
<1>3. {"menu", "ask1", "ask2", "files", "askname", "download", "size", "upload", "one"}
         \subseteq Calc!Texts \ {"result", "unknown"}
  BY DEF Calc!Texts, Calc!Questions
<1> HIDE DEF rest, w, m, b
<1>4. CASE p = "recv" /\ s \in {"choice", "get1", "get2", "opt", "download", "upload"}
  <2>1. /\ m[1] = "type" /\ m[2] = <<>> /\ rest = <<>> /\ w \in Calc!Expected(s) /\ Place(s) = "recv"
    <3>a. ASSUME b[1] \notin {"disconnect", "download", "upload"}
          PROVE  m = <<"type", <<>> >>
      BY <1>4, <3>a, ReactRecv DEF m
    <3>1. Place(s) = "recv"
      BY <1>4 DEF Place
    <3>2. ASSUME NEW a \in {"menu", "ask1", "ask2", "files", "askname"}, q = <<a>>, a \in Calc!Expected(s)
          PROVE  /\ m[1] = "type" /\ m[2] = <<>> /\ rest = <<>> /\ w \in Calc!Expected(s)
                 /\ Place(s) = "recv"
      <4>1. b = <<a>> /\ rest = <<>> /\ w = a
        BY <1>1, <1>3, <3>2
      <4>2. m = <<"type", <<>> >>
        <5>1. b[1] = a
          BY <4>1
        <5> QED BY <3>a, <5>1
      <4> QED BY <3>1, <3>2, <4>1, <4>2
    <3>3. ASSUME NEW a \in {"unknown", "result"}, q = <<a, "menu">>, s = "choice"
          PROVE  /\ m[1] = "type" /\ m[2] = <<>> /\ rest = <<>> /\ w \in Calc!Expected(s)
                 /\ Place(s) = "recv"
      <4>1. b = <<a, "menu">> /\ rest = <<>> /\ w \in {"unknown", "menu"}
        BY <1>2, <3>3
      <4>2. m = <<"type", <<>> >>
        <5>1. b[1] = a
          BY <4>1
        <5> QED BY <3>a, <5>1
      <4>3. w \in Calc!Expected(s)
        BY <3>3, <4>1 DEF Calc!Expected
      <4> QED BY <3>1, <4>1, <4>2, <4>3
    <3>4. \/ \E a \in {"menu", "ask1", "ask2", "files", "askname"} : q = <<a>> /\ a \in Calc!Expected(s)
          \/ \E a \in {"unknown", "result"} : q = <<a, "menu">> /\ s = "choice"
      BY <1>4 DEF Coming, Calc!Expected
    <3> QED BY <3>2, <3>3, <3>4
  <2> QED BY <2>1 DEF Turn, rest, w, m, b
<1>5. CASE p = "ddata"
  <2>1. s = "choice" /\ q = <<"data", "menu">>
    BY <1>5 DEF Coming
  <2>2. k = 1 /\ rest = <<"menu">> /\ m = <<"recv", <<>> >>
    <3>1. k = 1
      BY <2>1, KindEnds
    <3> QED BY <1>5, <2>1, <3>1, Pieces DEF Calc!React, rest, m, b
  <2> QED BY <2>1, <2>2 DEF Turn, Coming, rest, m, b
<1>6. CASE p = "recv" /\ s = "ack1"
  <2>1. q = <<"download">>
    BY <1>6 DEF Coming
  <2>2. m = <<"dsize", <<[value |-> 1, about |-> "ack"]>> >> /\ rest = <<>>
    <3>1. b = <<"download">> /\ rest = <<>>
      BY <1>1, <1>3, <2>1
    <3>2. b[1] = "download"
      BY <3>1
    <3> QED BY <1>6, <3>1, <3>2, ReactRecv DEF m
  <2> QED BY <1>6, <2>2 DEF Turn, OneLine, Calc!Expected, Place, rest, m, b
<1>7. CASE p = "dsize"
  <2>1. s = "ack2" /\ q = <<"size">>
    BY <1>7 DEF Coming
  <2>2. m = <<"ddata", <<[value |-> 1, about |-> "ack"]>> >> /\ rest = <<>>
    BY <1>1, <1>3, <1>7, <2>1 DEF Calc!React, m
  <2> QED BY <2>1, <2>2 DEF Turn, OneLine, Calc!Expected, Place, rest, m, b
<1>8. CASE p = "recv" /\ s = "size"
  <2>1. q = <<"upload">>
    BY <1>8 DEF Coming
  <2>2. m = <<"uack", <<[value |-> 7, about |-> "size"]>> >> /\ rest = <<>>
    <3>1. b = <<"upload">> /\ rest = <<>>
      BY <1>1, <1>3, <2>1
    <3>2. b[1] = "upload"
      BY <3>1
    <3> QED BY <1>8, <3>1, <3>2, ReactRecv DEF m
  <2> QED BY <1>8, <2>2 DEF Turn, OneLine, Calc!Expected, Place, rest, m, b
<1>9. CASE p = "uack"
  <2>1. s = "bytes" /\ q = <<"one">>
    BY <1>9 DEF Coming
  <2>2. m = <<"recv", <<[value |-> Calc!Word, about |-> "bytes"]>> >> /\ rest = <<>>
    BY <1>1, <1>3, <1>9, <2>1 DEF Calc!React, m
  <2> QED BY <2>1, <2>2 DEF Turn, OneLine, Calc!Expected, Place, rest, m, b
<1> QED BY <1>4, <1>5, <1>6, <1>7, <1>8, <1>9 DEF Coming, rest, w, m, b

\* A step of one session leaves the turns of the others alone.
LEMMA TurnsOfOthers ==
    ASSUME CalcTurns, NEW c \in Callers,
           \A d \in Callers : d # c =>
               /\ server'[d] = server[d] /\ client'[d] = client[d] /\ toClient'[d] = toClient[d]
               /\ toServer'[d] = toServer[d] /\ shown'[d] = shown[d],
           server'[c] \in Calc!Waits =>
               Turn(client'[c], server'[c], toClient'[c], toServer'[c], shown'[c])
    PROVE  CalcTurns'
<1>1. ASSUME NEW d \in Callers, server'[d] \in Calc!Waits
      PROVE  Turn(client'[d], server'[d], toClient'[d], toServer'[d], shown'[d])
  <2>1. CASE d = c
    BY <1>1, <2>1
  <2>2. CASE d # c
    BY <1>1, <2>2 DEF CalcTurns, SessionTurn
  <2> QED BY <2>1, <2>2
<1> QED BY <1>1 DEF CalcTurns, SessionTurn

LEMMA OneLineRead ==
    ASSUME NEW S, NEW q \in Seq(S), Len(q) = 1, NEW k \in 1 .. Len(q)
    PROVE  SubSeq(q, 1, k) = q /\ SubSeq(q, k + 1, Len(q)) = <<>>
<1>1. k = 1
  OBVIOUS
<1>2. /\ SubSeq(q, 1, k) \in Seq(S) /\ Len(SubSeq(q, 1, k)) = 1
      /\ \A j \in 1 .. k : SubSeq(q, 1, k)[j] = q[j]
      /\ SubSeq(q, k + 1, Len(q)) \in Seq(S) /\ Len(SubSeq(q, k + 1, Len(q))) = 0
  BY <1>1, CutQueue
<1>3. SubSeq(q, 1, k) = q
  BY <1>1, <1>2, SeqEqual
<1>4. SubSeq(q, k + 1, Len(q)) = <<>>
  BY <1>2, EmptySeq
<1> QED BY <1>3, <1>4

\* The process that has read what came last of an upload is done with it.
LEMMA BytesRead ==
    ASSUME NEW q, Len(q) = 1, q[1].about = "bytes", NEW m \in Calc!Reply("bytes", q)
    PROVE  m[1] = "choice"
<1>1. Calc!Last(q) = q[1]
  BY DEF Calc!Last
<1>2. Calc!Reply("bytes", q) = {<<"choice", <<"menu">> >>}
  BY <1>1 DEF Calc!Reply
<1> QED BY <1>2

LEMMA TurnServerReads ==
    ASSUME CalcInv, CalcTurns, NEW c \in Callers, Calc!ServerReads(c) PROVE CalcTurns'
<1> DEFINE s == server[c]
           ts == toServer[c]
           q == toClient[c]
<1>1. PICK k \in 1 .. Len(ts) : \E m \in Calc!Reply(s, SubSeq(ts, 1, k)) :
          /\ toServer' = [toServer EXCEPT ![c] = IF m[1] = "end" THEN <<>> ELSE SubSeq(@, k + 1, Len(@))]
          /\ server' = [server EXCEPT ![c] = m[1]]
          /\ toClient' = [toClient EXCEPT ![c] = IF client[c] = "end" THEN <<>> ELSE @ \o m[2]]
  BY DEF Calc!ServerReads
<1>2. PICK m \in Calc!Reply(s, SubSeq(ts, 1, k)) :
          /\ toServer' = [toServer EXCEPT ![c] = IF m[1] = "end" THEN <<>> ELSE SubSeq(@, k + 1, Len(@))]
          /\ server' = [server EXCEPT ![c] = m[1]]
          /\ toClient' = [toClient EXCEPT ![c] = IF client[c] = "end" THEN <<>> ELSE @ \o m[2]]
  BY <1>1
<1>3. s \in Calc!Waits /\ UNCHANGED <<client, shown>>
  BY DEF Calc!ServerReads
<1>4. ts \in Seq(CalcLine) /\ q \in Seq(Calc!Texts) /\ Len(ts) \in Nat
  BY CalcTypes, LenProperties
<1>5. ts # <<>>
  BY <1>4, EmptySeq
<1>6. /\ Len(ts) = 1 /\ ts[1].about \in Calc!Expected(s)
      /\ client[c] = "end" \/ (client[c] = Place(s) /\ q = <<>>)
  BY <1>3, <1>5 DEF CalcTurns, SessionTurn, Turn, OneLine
<1>7. SubSeq(ts, 1, k) = ts /\ SubSeq(ts, k + 1, Len(ts)) = <<>>
  BY <1>4, <1>6, OneLineRead
<1>8. m \in Moves(s) /\ m[2] \in Seq(Calc!Texts) /\ m[1] \in Calc!Waits \cup {"end"}
  BY <1>3, ReplyMoves, MoveType
<1>9. s = "bytes" => m[1] = "choice"
  <2> SUFFICES ASSUME s = "bytes" PROVE m[1] = "choice"
    OBVIOUS
  <2>1. ts[1].about = "bytes"
    BY <1>6 DEF Calc!Expected
  <2>2. m \in Calc!Reply("bytes", ts)
    BY <1>7
  <2> QED BY <1>6, <2>1, <2>2, BytesRead
<1>10. /\ server'[c] = m[1] /\ toServer'[c] = <<>>
       /\ client[c] # "end" => toClient'[c] = m[2]
  <2>1. <<>> \o m[2] = m[2]
    BY <1>8, ConcatEmptySeq
  <2> QED BY <1>2, <1>6, <1>7, <2>1, CalcTypes
<1>11. ASSUME m[1] # "end" PROVE Turn(client[c], m[1], toClient'[c], <<>>, shown[c])
  <2>1. CASE client[c] = "end"
    BY <2>1 DEF Turn, OneLine
  <2>2. CASE client[c] # "end"
    <3>1. Coming(client[c], m[1], m[2])
      BY <1>3, <1>6, <1>8, <1>9, <1>11, <2>2, MoveComes
    <3> QED BY <1>10, <2>2, <3>1 DEF Turn
  <2> QED BY <2>1, <2>2
<1>12. \A d \in Callers : d # c =>
           /\ server'[d] = server[d] /\ client'[d] = client[d] /\ toClient'[d] = toClient[d]
           /\ toServer'[d] = toServer[d] /\ shown'[d] = shown[d]
  BY <1>2, <1>3, CalcTypes
<1>13. "end" \notin Calc!Waits
  BY DEF Calc!Waits
<1> HIDE DEF s, ts, q
<1>14. server'[c] \in Calc!Waits => Turn(client'[c], server'[c], toClient'[c], toServer'[c], shown'[c])
  BY <1>3, <1>10, <1>11, <1>13
<1> QED BY <1>12, <1>14, TurnsOfOthers

LEMMA TurnReceives ==
    ASSUME Network = "kind", CalcInv, CalcTurns, NEW c \in Callers, Calc!Receives(c) PROVE CalcTurns'
<1> DEFINE q == toClient[c]
           b(k) == SubSeq(q, 1, k)
           m(k) == Calc!React(client[c], b(k))
<1>1. PICK k \in Calc!Ends(q) :
          /\ client' = [client EXCEPT ![c] = m(k)[1]]
          /\ toServer' = [toServer EXCEPT ![c] = @ \o m(k)[2]]
          /\ toClient' = [toClient EXCEPT ![c] = IF m(k)[1] = "end" THEN <<>> ELSE SubSeq(@, k + 1, Len(@))]
          /\ shown' = [shown EXCEPT ![c] = Calc!Shown(b(k))]
  BY DEF Calc!Receives
<1>2. /\ client[c] \in {"recv", "dsize", "ddata", "uack"} /\ q # <<>> /\ UNCHANGED server
  BY DEF Calc!Receives
<1>3. \A d \in Callers : d # c =>
           /\ server'[d] = server[d] /\ client'[d] = client[d] /\ toClient'[d] = toClient[d]
           /\ toServer'[d] = toServer[d] /\ shown'[d] = shown[d]
  BY <1>1, <1>2, CalcTypes
<1>4. /\ client'[c] = m(k)[1] /\ toServer'[c] = toServer[c] \o m(k)[2]
      /\ toClient'[c] = IF m(k)[1] = "end" THEN <<>> ELSE SubSeq(q, k + 1, Len(q))
      /\ shown'[c] = Calc!Shown(b(k)) /\ server'[c] = server[c]
  BY <1>1, <1>2, CalcTypes
<1>5. ASSUME server[c] \in Calc!Waits
      PROVE  Turn(client'[c], server'[c], toClient'[c], toServer'[c], shown'[c])
  <2>1. Coming(client[c], server[c], q) /\ toServer[c] = <<>>
    BY <1>2, <1>5 DEF CalcTurns, SessionTurn, Turn
  <2>2. toServer'[c] = m(k)[2]
    <3>1. m(k)[2] \in Seq(CalcLine)
      BY <1>2, ReactType
    <3> QED BY <1>4, <2>1, <3>1, ConcatEmptySeq
  <2>3. Turn(m(k)[1], server[c], IF m(k)[1] = "end" THEN <<>> ELSE SubSeq(q, k + 1, Len(q)), m(k)[2],
             Calc!Shown(b(k)))
    BY <2>1, Taken
  <2> QED BY <1>4, <2>2, <2>3
<1> HIDE DEF q, b, m
<1> QED BY <1>2, <1>3, <1>5, TurnsOfOthers

LEMMA TurnTypes == ASSUME CalcInv, CalcTurns, NEW c \in Callers, Calc!Types(c) PROVE CalcTurns'
<1>1. /\ client[c] = "type" /\ client' = [client EXCEPT ![c] = "recv"]
      /\ UNCHANGED <<server, toClient, shown>>
  BY DEF Calc!Types
<1>2. PICK ts \in Seq(CalcLine) : toServer' = [toServer EXCEPT ![c] = ts] /\
          (server[c] \in Calc!Waits =>
             \/ ts = toServer[c]
             \/ \E v \in Inputs : ts = Append(toServer[c], [value |-> v, about |-> shown[c]]))
  <2>1. CASE UNCHANGED toServer
    BY <2>1, CalcTypes
  <2>2. ASSUME NEW v \in Inputs,
               toServer' = [toServer EXCEPT ![c] =
                   IF server[c] = "end" THEN <<>> ELSE Append(@, [value |-> v, about |-> shown[c]])]
        PROVE  \E ts \in Seq(CalcLine) : toServer' = [toServer EXCEPT ![c] = ts] /\
                 (server[c] \in Calc!Waits => ts = Append(toServer[c], [value |-> v, about |-> shown[c]]))
    <3>1. [value |-> v, about |-> shown[c]] \in CalcLine /\ toServer[c] \in Seq(CalcLine)
      BY CalcTypes, CalcConstants DEF CalcLine
    <3>2. Append(toServer[c], [value |-> v, about |-> shown[c]]) \in Seq(CalcLine)
      BY <3>1, AppendProperties
    <3>3. CASE server[c] = "end"
      <4>1. toServer' = [toServer EXCEPT ![c] = <<>>] /\ <<>> \in Seq(CalcLine)
        BY <2>2, <3>3
      <4>2. server[c] \notin Calc!Waits
        BY <3>3 DEF Calc!Waits
      <4> QED BY <4>1, <4>2
    <3>4. CASE server[c] # "end"
      <4>1. toServer' = [toServer EXCEPT ![c] = Append(toServer[c], [value |-> v, about |-> shown[c]])]
        BY <2>2, <3>4, CalcTypes
      <4> QED BY <3>2, <4>1
    <3> QED BY <3>3, <3>4
  <2> QED BY <2>1, <2>2 DEF Calc!Types
<1>3. \A d \in Callers : d # c =>
           /\ server'[d] = server[d] /\ client'[d] = client[d] /\ toClient'[d] = toClient[d]
           /\ toServer'[d] = toServer[d] /\ shown'[d] = shown[d]
  BY <1>1, <1>2, CalcTypes
<1>4. /\ client'[c] = "recv" /\ toServer'[c] = ts /\ toClient'[c] = toClient[c]
      /\ shown'[c] = shown[c] /\ server'[c] = server[c]
  BY <1>1, <1>2, CalcTypes
<1>5. ASSUME server[c] \in Calc!Waits
      PROVE  Turn(client'[c], server'[c], toClient'[c], toServer'[c], shown'[c])
  <2>1. /\ Place(server[c]) = "recv" /\ toClient[c] = <<>> /\ toServer[c] = <<>>
        /\ shown[c] \in Calc!Expected(server[c])
    BY <1>1, <1>5 DEF CalcTurns, SessionTurn, Turn, Coming, Place
  <2>2. OneLine(server[c], ts)
    <3>1. CASE ts = toServer[c]
      BY <2>1, <3>1 DEF OneLine
    <3>2. ASSUME NEW v \in Inputs, ts = Append(toServer[c], [value |-> v, about |-> shown[c]])
          PROVE  OneLine(server[c], ts)
      <4>1. ts = <<[value |-> v, about |-> shown[c]]>>
        BY <2>1, <3>2
      <4>2. Len(ts) = 1 /\ ts[1].about = shown[c]
        BY <4>1
      <4> QED BY <2>1, <4>2 DEF OneLine
    <3> QED BY <1>2, <1>5, <3>1, <3>2
  <2> QED BY <1>4, <2>1, <2>2 DEF Turn
<1> QED BY <1>3, <1>4, <1>5, TurnsOfOthers

LEMMA TurnLeaves ==
    ASSUME CalcInv, CalcTurns, NEW c \in Callers, Calc!ReceivesEnd(c) \/ Calc!Quits(c) PROVE CalcTurns'
<1>1. /\ client' = [client EXCEPT ![c] = "end"] /\ UNCHANGED <<server, toServer, shown>>
      /\ toClient' = toClient \/ toClient' = [toClient EXCEPT ![c] = <<>>]
  BY DEF Calc!ReceivesEnd, Calc!Quits
<1>2. \A d \in Callers : d # c =>
           /\ server'[d] = server[d] /\ client'[d] = client[d] /\ toClient'[d] = toClient[d]
           /\ toServer'[d] = toServer[d] /\ shown'[d] = shown[d]
  BY <1>1, CalcTypes
<1>3. ASSUME server[c] \in Calc!Waits
      PROVE  Turn("end", server[c], toClient'[c], toServer[c], shown[c])
  BY <1>3 DEF CalcTurns, SessionTurn, Turn, OneLine
<1>4. client'[c] = "end" /\ toServer'[c] = toServer[c] /\ shown'[c] = shown[c] /\ server'[c] = server[c]
  BY <1>1, CalcTypes
<1> QED BY <1>2, <1>3, <1>4, TurnsOfOthers

LEMMA TurnServerReadsEnd ==
    ASSUME CalcInv, CalcTurns, NEW c \in Callers, Calc!ServerReadsEnd(c) PROVE CalcTurns'
<1>1. PICK s : server' = [server EXCEPT ![c] = s]
  BY DEF Calc!ServerReadsEnd
<1>2. /\ client[c] = "end" /\ toServer[c] = <<>> /\ UNCHANGED <<client, toClient, toServer, shown>>
  BY DEF Calc!ServerReadsEnd
<1>3. \A d \in Callers : d # c =>
           /\ server'[d] = server[d] /\ client'[d] = client[d] /\ toClient'[d] = toClient[d]
           /\ toServer'[d] = toServer[d] /\ shown'[d] = shown[d]
  BY <1>1, <1>2, CalcTypes
<1>4. Turn(client'[c], server'[c], toClient'[c], toServer'[c], shown'[c])
  BY <1>2 DEF Turn, OneLine
<1> QED BY <1>3, <1>4, TurnsOfOthers

LEMMA TurnConnects ==
    ASSUME CalcInv, CalcTurns, NEW c \in Callers, Calc!Connect(c) PROVE CalcTurns'
<1>1. /\ client[c] = "off" /\ client' = [client EXCEPT ![c] = "connected"]
      /\ UNCHANGED <<server, toClient, toServer, shown>>
  BY DEF Calc!Connect
<1>2. server'[c] \notin Calc!Waits
  BY <1>1 DEF CalcInv, Opened, Calc!Waits
<1>3. \A d \in Callers : d # c =>
           /\ server'[d] = server[d] /\ client'[d] = client[d] /\ toClient'[d] = toClient[d]
           /\ toServer'[d] = toServer[d] /\ shown'[d] = shown[d]
  BY <1>1, CalcTypes
<1> QED BY <1>2, <1>3, TurnsOfOthers

LEMMA TurnAccept == ASSUME CalcInv, CalcTurns, NEW c \in Callers, Calc!Accept(c) PROVE CalcTurns'
<1>1. /\ client[c] = "connected"
      /\ client' = [client EXCEPT ![c] = "recv"] /\ server' = [server EXCEPT ![c] = "choice"]
      /\ toClient' = [toClient EXCEPT ![c] = <<"menu">>] /\ UNCHANGED <<toServer, shown>>
  BY DEF Calc!Accept
<1>2. toServer[c] = <<>>
  BY <1>1 DEF CalcInv, Opened
<1>3. \A d \in Callers : d # c =>
           /\ server'[d] = server[d] /\ client'[d] = client[d] /\ toClient'[d] = toClient[d]
           /\ toServer'[d] = toServer[d] /\ shown'[d] = shown[d]
  BY <1>1, CalcTypes
<1>4. /\ client'[c] = "recv" /\ server'[c] = "choice" /\ toClient'[c] = <<"menu">> /\ toServer'[c] = <<>>
  BY <1>1, <1>2, CalcTypes
<1>5. Turn(client'[c], server'[c], toClient'[c], toServer'[c], shown'[c])
  BY <1>4 DEF Turn, Coming
<1> QED BY <1>3, <1>5, TurnsOfOthers

LEMMA CalcTurnsStep ==
    ASSUME Network = "kind", CalcInv, CalcTurns, [Calc!Next]_CalcVars PROVE CalcTurns'
<1>1. CASE UNCHANGED CalcVars
  BY <1>1 DEF CalcVars, CalcTurns, SessionTurn
<1>2. ASSUME NEW c \in Callers,
             Calc!Connect(c) \/ Calc!Accept(c) \/ Calc!Session(c) \/ Calc!Types(c) \/ Calc!Quits(c)
      PROVE  CalcTurns'
  BY <1>2, TurnConnects, TurnAccept, TurnServerReads, TurnServerReadsEnd, TurnReceives, TurnLeaves,
     TurnTypes DEF Calc!Session
<1> QED BY <1>1, <1>2 DEF Calc!Next

LEMMA TurnsMatch == ASSUME CalcInv, CalcTurns PROVE Calc!AnswersMatch
<1>1. ASSUME NEW c \in Callers, server[c] \in Calc!Waits, toServer[c] # <<>>
      PROVE  Len(toServer[c]) = 1 /\ toServer[c][1].about \in Calc!Expected(server[c])
  BY <1>1 DEF CalcTurns, SessionTurn, Turn, OneLine
<1> QED BY <1>1 DEF Calc!AnswersMatch

LEMMA TurnsBegin == Calc!Init => CalcTurns
BY DEF Calc!Init, CalcTurns, Calc!Waits

-----------------------------------------------------------------------------
(* FileTransfer: sscanf() returns a number. *)

Greatest(s, x) == x \in s /\ \A y \in s : y <= x

LEMMA MaxIs ==
    ASSUME NEW s, s \subseteq Int, NEW x, Greatest(s, x) PROVE Transfer!Max(s) = x
<1>1. \A y \in s : Greatest(s, y) => y = x
  BY DEF Greatest
<1> QED BY <1>1 DEF Transfer!Max, Greatest

\* A fold of the digits of q, as far as the set s.
Fold(q, f, s) == IF s = {} THEN 0 ELSE 10 * f[s \ {Transfer!Max(s)}] + q[Transfer!Max(s)]

Folded(q) == CHOOSE f : f = [s \in SUBSET (DOMAIN q) |-> Fold(q, f, s)]

LEMMA FoldExists ==
    ASSUME NEW q \in Seq(Nat)
    PROVE  \E f : f = [s \in SUBSET (DOMAIN q) |-> Fold(q, f, s)]
<1> DEFINE T == {n \in Nat : \E f : f = [s \in SUBSET (1 .. n) |-> Fold(q, f, s)]}
<1>1. 0 \in T
  <2>1. SUBSET (1 .. 0) = {{}}
    OBVIOUS
  <2>2. [s \in {{}} |-> 0] = [s \in {{}} |-> Fold(q, [t \in {{}} |-> 0], s)]
    BY DEF Fold
  <2> QED BY <2>1, <2>2
<1>2. ASSUME NEW n \in Nat, n \in T PROVE n + 1 \in T
  <2>1. PICK f : f = [s \in SUBSET (1 .. n) |-> Fold(q, f, s)]
    BY <1>2
  <2> DEFINE g == [s \in SUBSET (1 .. n + 1) |->
                      IF n + 1 \in s THEN 10 * f[s \ {n + 1}] + q[n + 1] ELSE f[s]]
  <2>2. ASSUME NEW s \in SUBSET (1 .. n + 1) PROVE g[s] = Fold(q, g, s)
    <3>1. CASE n + 1 \in s
      <4>1. Transfer!Max(s) = n + 1
        <5>1. Greatest(s, n + 1) /\ s \subseteq Int
          BY <3>1 DEF Greatest
        <5> QED BY <5>1, MaxIs
      <4>2. s \ {n + 1} \in SUBSET (1 .. n + 1) /\ n + 1 \notin s \ {n + 1}
        OBVIOUS
      <4>3. g[s \ {n + 1}] = f[s \ {n + 1}]
        BY <4>2
      <4>4. g[s] = 10 * f[s \ {n + 1}] + q[n + 1]
        BY <3>1
      <4> HIDE DEF g
      <4> QED BY <3>1, <4>1, <4>3, <4>4 DEF Fold
    <3>2. CASE n + 1 \notin s
      <4>1. s \in SUBSET (1 .. n)
        BY <3>2
      <4>2. g[s] = f[s] /\ f[s] = Fold(q, f, s)
        BY <2>1, <3>2, <4>1
      <4>3. s \ {Transfer!Max(s)} \in SUBSET (1 .. n + 1) /\ n + 1 \notin s \ {Transfer!Max(s)}
        BY <3>2
      <4>4. g[s \ {Transfer!Max(s)}] = f[s \ {Transfer!Max(s)}]
        BY <4>3
      <4> HIDE DEF g
      <4> QED BY <4>2, <4>4 DEF Fold
    <3> QED BY <3>1, <3>2
  <2>3. g = [s \in SUBSET (1 .. n + 1) |-> g[s]]
    OBVIOUS
  <2> HIDE DEF g
  <2>4. g = [s \in SUBSET (1 .. n + 1) |-> Fold(q, g, s)]
    BY <2>2, <2>3
  <2> QED BY <2>4
<1>3. Len(q) \in Nat /\ DOMAIN q = 1 .. Len(q)
  BY LenProperties
<1>4. Len(q) \in 0 .. Len(q)
  BY <1>3
<1> HIDE DEF T
<1>5. Len(q) \in T
  <2>1. \A n \in 0 .. Len(q) : n \in T /\ n < Len(q) => n + 1 \in T
    BY <1>2
  <2> QED BY <1>1, <1>3, <1>4, <2>1, UpTo
<1> QED BY <1>3, <1>5 DEF T

LEMMA FoldNat == ASSUME NEW q \in Seq(Nat) PROVE Folded(q)[DOMAIN q] \in Nat
<1> DEFINE f == Folded(q)
           T == {n \in Nat : f[1 .. n] \in Nat}
<1>1. f = [s \in SUBSET (DOMAIN q) |-> Fold(q, f, s)]
  BY FoldExists DEF Folded
<1>2. Len(q) \in Nat /\ DOMAIN q = 1 .. Len(q) /\ \A n \in 1 .. Len(q) : q[n] \in Nat
  BY LenProperties, ElementOfSeq
<1> HIDE DEF f
<1>3. \A s \in SUBSET (1 .. Len(q)) : f[s] = Fold(q, f, s)
  BY <1>1, <1>2
<1>4. 0 \in T
  <2>1. 1 .. 0 = {} /\ 1 .. 0 \in SUBSET (1 .. Len(q))
    BY <1>2
  <2>2. Fold(q, f, 1 .. 0) = 0
    BY <2>1 DEF Fold
  <2> QED BY <1>3, <2>1, <2>2
<1>5. ASSUME NEW n \in 0 .. Len(q), n \in T, n < Len(q) PROVE n + 1 \in T
  <2>1. n \in Nat /\ n + 1 \in 1 .. Len(q) /\ 1 .. n + 1 \in SUBSET (1 .. Len(q)) /\ n + 1 \in 1 .. n + 1
    BY <1>2, <1>5
  <2>2. Transfer!Max(1 .. n + 1) = n + 1
    <3>1. Greatest(1 .. n + 1, n + 1) /\ 1 .. n + 1 \subseteq Int
      BY <2>1 DEF Greatest
    <3> QED BY <3>1, MaxIs
  <2>3. (1 .. n + 1) \ {n + 1} = 1 .. n
    BY <2>1
  <2>4. f[1 .. n + 1] = 10 * f[1 .. n] + q[n + 1]
    BY <1>3, <2>1, <2>2, <2>3 DEF Fold
  <2>5. f[1 .. n] \in Nat /\ q[n + 1] \in Nat
    BY <1>2, <1>5, <2>1
  <2> QED BY <2>1, <2>4, <2>5
<1> HIDE DEF T
<1>6. Len(q) \in 0 .. Len(q)
  BY <1>2
<1>7. Len(q) \in T
  BY <1>2, <1>4, <1>5, <1>6, UpTo
<1> QED BY <1>2, <1>7 DEF T, f

\* The digits at the start of a text, as a number.
LEMMA NumberType == ASSUME NEW text \in Seq(0 .. 10) PROVE Transfer!Number(text) \in Nat
<1> DEFINE K == {0} \cup {j \in 1 .. Len(text) : \A i \in 1 .. j : text[i] < 10}
           k == Transfer!Max(K)
           q == SubSeq(text, 1, k)
<1>1. Transfer!Number(text) = Folded(q)[DOMAIN q]
  BY DEF Transfer!Number, Transfer!FoldLeft, Transfer!MapThenFoldSet, Folded, Fold
<1>2. Len(text) \in Nat /\ \A j \in 1 .. Len(text) : text[j] \in Nat
  BY LenProperties, ElementOfSeq
<1>3. k \in 0 .. Len(text)
  <2> DEFINE rest == {Len(text) - j : j \in K}
  <2>1. K \subseteq 0 .. Len(text) /\ 0 \in K
    BY <1>2
  <2> HIDE DEF K
  <2>2. rest \subseteq Nat /\ Len(text) - 0 \in rest
    BY <1>2, <2>1
  <2>3. rest # {}
    BY <2>2
  <2>4. PICK x \in rest : \A y \in rest : x <= y
    <3> HIDE DEF rest
    <3> QED BY <2>2, <2>3, LeastNat
  <2>5. PICK j \in K : x = Len(text) - j
    OBVIOUS
  <2>6. \A n \in K : Len(text) - j <= Len(text) - n
    BY <2>4, <2>5
  <2>7. Greatest(K, j) /\ K \subseteq Int
    BY <1>2, <2>1, <2>6 DEF Greatest
  <2>8. Transfer!Max(K) = j
    BY <2>7, MaxIs
  <2> QED BY <2>1, <2>8
<1> HIDE DEF k
<1>4. q \in Seq(Nat)
  <2>1. \A j \in 1 .. k : text[j] \in Nat
    BY <1>2, <1>3
  <2> QED BY <1>2, <1>3, <2>1, SubSeqProperties
<1> HIDE DEF q
<1> QED BY <1>1, <1>4, FoldNat

-----------------------------------------------------------------------------
(* FileTransfer: bytes in order. *)

LEMMA TransferConstants ==
    Sizes \subseteq 1 .. 9 /\ BufSize \in Nat \ {0} /\ Names \subseteq Seq(0 .. 10)
<1>1. Transfer!ConstantAssumption
  BY InstanceAssumption
<1> QED BY <1>1 DEF Transfer!ConstantAssumption

\* Bytes of a file in the file's order, up to the offset.
InOrder(q, n) ==
    /\ q \in Seq(1 .. n)
    /\ \A j, k \in 1 .. Len(q) : j < k => q[j] < q[k]
    /\ \A j \in 1 .. Len(q) : j <= q[j]

Bytes == got \o chan

TransferInv ==
    /\ size \in Sizes /\ offset \in 0 .. 2 * size
    /\ got \in Seq(1 .. size) /\ chan \in Seq(1 .. size)
    /\ InOrder(Bytes, size) /\ \A j \in 1 .. Len(Bytes) : Bytes[j] <= offset
    /\ buff \in [1 .. BufSize -> 0 .. size]
    /\ recieved = Len(got)
    /\ pieces \in Nat /\ file \in Seq(0 .. size)
    /\ pieces = 0 => got = <<>> /\ file = <<>>
    /\ pieces = 1 => file = got

LEMMA TransferRead == TransferInv => Transfer!OnePieceIntact /\ Transfer!NoneTwice
BY DEF TransferInv, Bytes, InOrder, Transfer!OnePieceIntact, Transfer!NoneTwice

LEMMA TransferInit == Transfer!Init => TransferInv
<1> SUFFICES ASSUME Transfer!Init PROVE TransferInv
  OBVIOUS
<1>1. /\ size \in Sizes /\ offset = 0 /\ chan = <<>> /\ got = <<>> /\ pieces = 0 /\ file = <<>>
      /\ buff = [k \in 1 .. BufSize |-> 0] /\ recieved = 0
  BY DEF Transfer!Init
<1>2. size \in 1 .. 9
  BY <1>1, TransferConstants
<1>3. Bytes = <<>> /\ Len(Bytes) = 0
  BY <1>1 DEF Bytes
<1>4. InOrder(Bytes, size) /\ \A j \in 1 .. Len(Bytes) : Bytes[j] <= offset
  BY <1>3 DEF InOrder
<1>5. buff \in [1 .. BufSize -> 0 .. size] /\ offset \in 0 .. 2 * size
  BY <1>1, <1>2
<1> QED BY <1>1, <1>4, <1>5 DEF TransferInv

\* Bytes in order are no more than their file holds.
LEMMA OrderedShort ==
    ASSUME NEW n \in Nat, NEW q, InOrder(q, n)
    PROVE  Len(q) \in 0 .. n
<1>1. Len(q) \in Nat
  BY LenProperties DEF InOrder
<1>2. CASE Len(q) = 0
  BY <1>2
<1>3. CASE Len(q) # 0
  <2>1. Len(q) \in 1 .. Len(q)
    BY <1>1, <1>3
  <2>2. q[Len(q)] \in 1 .. n /\ Len(q) <= q[Len(q)]
    BY <2>1, ElementOfSeq DEF InOrder
  <2> QED BY <1>1, <2>2
<1> QED BY <1>2, <1>3

\* A piece that sendfile() sends.
LEMMA OrderedMore ==
    ASSUME NEW n \in Nat, NEW q, InOrder(q, n), NEW o \in Nat, \A j \in 1 .. Len(q) : q[j] <= o,
           NEW k \in Nat, o + k <= n
    PROVE  LET s == q \o [j \in 1 .. k |-> o + j]
           IN  InOrder(s, n) /\ \A j \in 1 .. Len(s) : s[j] <= o + k
<1> DEFINE m == [j \in 1 .. k |-> o + j]
           s == q \o m
<1>1. q \in Seq(1 .. n) /\ Len(q) \in Nat /\ \A j \in 1 .. Len(q) : q[j] \in 1 .. n
  BY LenProperties, ElementOfSeq DEF InOrder
<1>2. m \in Seq(1 .. n) /\ Len(m) = k /\ \A j \in 1 .. k : m[j] = o + j
  <2>1. \A j \in 1 .. k : o + j \in 1 .. n
    OBVIOUS
  <2> QED BY <2>1
<1> HIDE DEF m
<1> HIDE DEF s
<1>3. /\ s \in Seq(1 .. n) /\ Len(s) = Len(q) + k
      /\ \A j \in 1 .. Len(q) + k : s[j] = IF j <= Len(q) THEN q[j] ELSE m[j - Len(q)]
  BY <1>1, <1>2, ConcatProperties DEF s
<1>4. ASSUME NEW j \in 1 .. Len(s)
      PROVE  \/ j \in 1 .. Len(q) /\ s[j] = q[j] /\ q[j] \in 1 .. n
             \/ j > Len(q) /\ j - Len(q) \in 1 .. k /\ s[j] = o + (j - Len(q))
  <2>1. j \in 1 .. Len(q) + k /\ s[j] = IF j <= Len(q) THEN q[j] ELSE m[j - Len(q)]
    BY <1>3
  <2>2. CASE j <= Len(q)
    BY <1>1, <2>1, <2>2
  <2>3. CASE j > Len(q)
    <3>1. j - Len(q) \in 1 .. k
      BY <1>1, <2>1, <2>3
    <3> QED BY <1>1, <1>2, <2>1, <2>3, <3>1
  <2> QED BY <1>1, <2>2, <2>3
<1>5. Len(q) <= o
  <2>1. CASE Len(q) = 0
    BY <2>1
  <2>2. CASE Len(q) # 0
    <3>1. Len(q) \in 1 .. Len(q)
      BY <1>1, <2>2
    <3>2. q[Len(q)] \in 1 .. n /\ Len(q) <= q[Len(q)] /\ q[Len(q)] <= o
      BY <1>1, <3>1 DEF InOrder
    <3> QED BY <1>1, <3>2
  <2> QED BY <2>1, <2>2
<1>6. ASSUME NEW j \in 1 .. Len(s) PROVE s[j] <= o + k /\ j <= s[j] /\ s[j] \in Nat
  <2>1. CASE j \in 1 .. Len(q) /\ s[j] = q[j] /\ q[j] \in 1 .. n
    <3>1. q[j] <= o /\ j <= q[j]
      BY <2>1 DEF InOrder
    <3> QED BY <2>1, <3>1
  <2>2. CASE j > Len(q) /\ j - Len(q) \in 1 .. k /\ s[j] = o + (j - Len(q))
    BY <1>1, <1>5, <2>2
  <2> QED BY <1>4, <2>1, <2>2
<1>8. ASSUME NEW i \in 1 .. Len(s), NEW j \in 1 .. Len(s), i < j PROVE s[i] < s[j]
  <2>a. i \in Int /\ j \in Int /\ Len(q) \in Int
    BY <1>1
  <2>1. CASE i \in 1 .. Len(q) /\ j \in 1 .. Len(q)
    <3>1. q[i] < q[j]
      BY <1>8, <2>1 DEF InOrder
    <3>2. s[i] = q[i] /\ s[j] = q[j]
      BY <1>4, <2>a, <2>1
    <3> QED BY <3>1, <3>2
  <2>2. CASE i \in 1 .. Len(q) /\ j > Len(q)
    <3>1. s[i] = q[i] /\ q[i] <= o /\ q[i] \in Nat
      BY <1>1, <1>4, <2>a, <2>2
    <3>2. s[j] = o + (j - Len(q)) /\ j - Len(q) \in 1 .. k
      BY <1>4, <2>a, <2>2
    <3> QED BY <3>1, <3>2
  <2>3. CASE i > Len(q)
    <3>1. j > Len(q)
      BY <1>8, <2>a, <2>3
    <3>2. s[i] = o + (i - Len(q)) /\ s[j] = o + (j - Len(q))
      BY <1>4, <2>a, <2>3, <3>1
    <3> QED BY <1>8, <2>a, <3>2
  <2>4. i \in 1 .. Len(q) \/ i > Len(q)
    BY <2>a
  <2>5. j \in 1 .. Len(q) \/ j > Len(q)
    BY <2>a
  <2> QED BY <2>1, <2>2, <2>3, <2>4, <2>5
<1>9. \A j \in 1 .. Len(s) : s[j] <= o + k /\ j <= s[j]
  BY <1>6
<1> QED BY <1>3, <1>8, <1>9 DEF InOrder, s, m

LEMMA TransferSends == ASSUME TransferInv, Transfer!SendFile PROVE TransferInv'
<1>1. PICK k \in IF Partial THEN 1 .. Transfer!Asked ELSE {Transfer!Asked} :
          /\ chan' = chan \o [i \in 1 .. k |-> offset + i]
          /\ offset' \in Transfer!Added(k)
  BY DEF Transfer!SendFile
<1>2. offset < size /\ UNCHANGED <<size, buff, recieved, got, pieces, file>>
  BY DEF Transfer!SendFile
<1>3. size \in 1 .. 9 /\ offset \in Nat
  BY TransferConstants DEF TransferInv
<1>4. k \in Nat \ {0} /\ offset + k <= size
  BY <1>1, <1>2, <1>3 DEF Transfer!Asked
<1>5. offset' \in 0 .. 2 * size /\ offset' \in Nat /\ offset + k <= offset'
  BY <1>1, <1>2, <1>3, <1>4 DEF Transfer!Added
<1> DEFINE m == [i \in 1 .. k |-> offset + i]
<1>6. m \in Seq(1 .. size)
  <2>1. \A j \in 1 .. k : offset + j \in 1 .. size
    BY <1>3, <1>4
  <2> QED BY <1>4, <2>1
<1>7. got \in Seq(1 .. size) /\ chan \in Seq(1 .. size)
  BY DEF TransferInv
<1>8. Bytes' = Bytes \o m
  <2> HIDE DEF m
  <2>1. Bytes' = got \o (chan \o m)
    BY <1>1, <1>2 DEF Bytes, m
  <2>2. (got \o chan) \o m = got \o (chan \o m)
    <3> DEFINE S == 1 .. size
    <3>1. got \in Seq(S) /\ chan \in Seq(S) /\ m \in Seq(S)
      BY <1>6, <1>7
    <3> HIDE DEF S
    <3> QED BY <3>1, ConcatAssociative, SMTT(20)
  <2> QED BY <2>1, <2>2 DEF Bytes
<1>9. InOrder(Bytes', size) /\ \A j \in 1 .. Len(Bytes') : Bytes'[j] <= offset + k
  <2>1. InOrder(Bytes, size) /\ \A j \in 1 .. Len(Bytes) : Bytes[j] <= offset
    BY DEF TransferInv
  <2>2. size \in Nat
    BY <1>3
  <2> QED BY <1>3, <1>4, <1>8, <2>1, <2>2, OrderedMore
<1>10. \A j \in 1 .. Len(Bytes') : Bytes'[j] <= offset'
  <2>1. ASSUME NEW j \in 1 .. Len(Bytes') PROVE Bytes'[j] <= offset'
    <3>1. Bytes'[j] \in 1 .. size /\ Bytes'[j] <= offset + k
      BY <1>9, ElementOfSeq DEF InOrder
    <3> QED BY <1>3, <1>4, <1>5, <3>1
  <2> QED BY <2>1
<1>11. chan' \in Seq(1 .. size)
  <2> HIDE DEF m
  <2> QED BY <1>1, <1>6, <1>7, ConcatProperties DEF m
<1> QED BY <1>2, <1>5, <1>9, <1>10, <1>11 DEF TransferInv

LEMMA CutAndJoined ==
    ASSUME NEW S, NEW q \in Seq(S), NEW k \in 1 .. Len(q)
    PROVE  SubSeq(q, 1, k) \o SubSeq(q, k + 1, Len(q)) = q
<1>1. 1 \in 1 .. Len(q) + 1 /\ k \in 1 - 1 .. Len(q) /\ Len(q) \in k .. Len(q)
  BY LenProperties
<1>2. SubSeq(q, 1, k) \o SubSeq(q, k + 1, Len(q)) = SubSeq(q, 1, Len(q))
  BY <1>1, ConcatAdjacentSubSeq
<1>3. SubSeq(q, 1, Len(q)) = q
  <2>1. Len(q) \in 1 .. Len(q)
    BY LenProperties
  <2>2. /\ SubSeq(q, 1, Len(q)) \in Seq(S) /\ Len(SubSeq(q, 1, Len(q))) = Len(q)
        /\ \A j \in 1 .. Len(q) : SubSeq(q, 1, Len(q))[j] = q[j]
    BY <2>1, CutQueue
  <2> QED BY <2>2, SeqEqual
<1> QED BY <1>2, <1>3

LEMMA LesserOfTwo ==
    ASSUME NEW x \in Nat, NEW y \in Nat
    PROVE  Transfer!Min({x, y}) \in Nat /\ Transfer!Min({x, y}) <= x /\ Transfer!Min({x, y}) <= y
<1>1. \E z \in {x, y} : \A t \in {x, y} : z <= t
  OBVIOUS
<1>2. Transfer!Min({x, y}) \in {x, y} /\ \A t \in {x, y} : Transfer!Min({x, y}) <= t
  BY <1>1 DEF Transfer!Min
<1> QED BY <1>2

LEMMA TransferReceives == ASSUME TransferInv, Transfer!Receive PROVE TransferInv'
<1>1. PICK n \in 1 .. Transfer!Min({BufSize, Len(chan)}) :
          /\ got' = got \o SubSeq(chan, 1, n) /\ pieces' = pieces + 1
          /\ buff' = [i \in 1 .. BufSize |-> IF i <= n THEN chan[i] ELSE buff[i]]
          /\ chan' = SubSeq(chan, n + 1, Len(chan))
          /\ recieved' = recieved + n
          /\ file' = file \o Transfer!Written(n)
  BY DEF Transfer!Receive
<1>2. UNCHANGED <<size, offset>>
  BY DEF Transfer!Receive
<1>3. /\ got \in Seq(1 .. size) /\ chan \in Seq(1 .. size) /\ Len(chan) \in Nat /\ Len(got) \in Nat
      /\ \A j \in 1 .. Len(chan) : chan[j] \in 1 .. size
  BY LenProperties, ElementOfSeq DEF TransferInv
<1>4. n \in 1 .. Len(chan) /\ n <= BufSize /\ n \in Nat
  <2>1. BufSize \in Nat
    BY TransferConstants
  <2>2. LET z == Transfer!Min({BufSize, Len(chan)}) IN z \in Nat /\ z <= BufSize /\ z <= Len(chan)
    BY <1>3, <2>1, LesserOfTwo
  <2> QED BY <1>1, <1>3, <2>1, <2>2
<1>5. size \in Nat
  BY TransferConstants DEF TransferInv
<1> DEFINE piece == SubSeq(chan, 1, n)
           rest == SubSeq(chan, n + 1, Len(chan))
<1>6. /\ piece \in Seq(1 .. size) /\ Len(piece) = n /\ \A j \in 1 .. n : piece[j] = chan[j]
      /\ rest \in Seq(1 .. size)
  BY <1>3, <1>4, CutQueue
<1>7. piece \o rest = chan
  BY <1>3, <1>4, CutAndJoined
<1>a. got' = got \o piece /\ chan' = rest
  BY <1>1
<1> HIDE DEF piece, rest
<1>8. Bytes' = Bytes
  <2>1. Bytes' = (got \o piece) \o rest
    BY <1>a DEF Bytes
  <2>2. (got \o piece) \o rest = got \o (piece \o rest)
    <3> DEFINE S == 1 .. size
    <3>1. got \in Seq(S) /\ piece \in Seq(S) /\ rest \in Seq(S)
      BY <1>3, <1>6
    <3> HIDE DEF S
    <3> QED BY <3>1, ConcatAssociative
  <2> QED BY <1>7, <2>1, <2>2 DEF Bytes
<1>9. got' \in Seq(1 .. size) /\ chan' \in Seq(1 .. size) /\ Len(got') = Len(got) + n
  BY <1>3, <1>6, <1>a, ConcatProperties
<1>10. buff' \in [1 .. BufSize -> 0 .. size]
  <2>1. buff \in [1 .. BufSize -> 0 .. size]
    BY DEF TransferInv
  <2>2. ASSUME NEW i \in 1 .. BufSize PROVE (IF i <= n THEN chan[i] ELSE buff[i]) \in 0 .. size
    <3>1. CASE i <= n
      <4>1. i \in 1 .. Len(chan)
        BY <1>3, <1>4, <3>1
      <4> QED BY <1>3, <1>5, <3>1, <4>1
    <3>2. CASE ~ (i <= n)
      BY <2>1, <3>2
    <3> QED BY <3>1, <3>2
  <2> QED BY <1>1, <2>2
<1> DEFINE w == Transfer!Written(n)
<1>11. recieved \in Nat /\ recieved = Len(got)
  BY <1>3 DEF TransferInv
<1>12. w = [i \in 1 .. recieved + n |-> IF i <= BufSize THEN buff'[i] ELSE 0]
  BY DEF Transfer!Written
<1>13. w \in Seq(0 .. size)
  <2>1. ASSUME NEW i \in 1 .. recieved + n PROVE (IF i <= BufSize THEN buff'[i] ELSE 0) \in 0 .. size
    <3>1. CASE i <= BufSize
      <4>1. i \in 1 .. BufSize
        BY <3>1
      <4> QED BY <1>10, <3>1, <4>1
    <3> QED BY <1>5, <3>1
  <2>2. recieved + n \in Nat
    BY <1>4, <1>11
  <2>3. w \in [1 .. recieved + n -> 0 .. size]
    BY <1>12, <2>1
  <2> DEFINE l == recieved + n
             V == 0 .. size
  <2>4. l \in Nat /\ w \in [1 .. l -> V]
    BY <2>2, <2>3
  <2> HIDE DEF w, l, V
  <2>5. w \in Seq(V)
    BY <2>4
  <2> QED BY <2>5 DEF V
<1>14. file' \in Seq(0 .. size)
  <2>1. file \in Seq(0 .. size)
    BY DEF TransferInv
  <2> HIDE DEF w
  <2> QED BY <1>1, <1>13, <2>1, ConcatProperties DEF w
<1>15. pieces' = 1 => file' = got'
  <2> SUFFICES ASSUME pieces' = 1 PROVE file' = got'
    OBVIOUS
  <2>1. got = <<>> /\ file = <<>>
    BY <1>1 DEF TransferInv
  <2>2. recieved + n = n
    BY <1>4, <1>11, <2>1
  <2>3. w = piece
    <3>1. w \in Seq(0 .. size) /\ Len(w) = n /\ \A i \in 1 .. n : w[i] = chan[i]
      <4>1. \A i \in 1 .. n : i \in 1 .. BufSize /\ i <= BufSize
        BY <1>4, TransferConstants
      <4>2. \A i \in 1 .. n : (IF i <= BufSize THEN buff'[i] ELSE 0) = chan[i]
        BY <1>1, <4>1
      <4>3. w = [i \in 1 .. n |-> IF i <= BufSize THEN buff'[i] ELSE 0]
        BY <1>12, <2>2
      <4> HIDE DEF w
      <4> QED BY <1>4, <1>13, <4>2, <4>3
    <3>2. piece \in Seq(0 .. size)
      <4>1. 1 .. size \subseteq 0 .. size
        OBVIOUS
      <4>2. \A j \in 1 .. Len(piece) : piece[j] \in 1 .. size
        BY <1>6, ElementOfSeq
      <4>3. \A j \in 1 .. Len(piece) : piece[j] \in 0 .. size
        BY <4>1, <4>2
      <4>4. piece \in [1 .. n -> 0 .. size]
        BY <1>6, <4>3, LenProperties
      <4> DEFINE V == 0 .. size
      <4>5. piece \in [1 .. n -> V] /\ n \in Nat
        BY <1>4, <4>4
      <4> HIDE DEF V
      <4>6. piece \in Seq(V)
        BY <4>5
      <4> QED BY <4>6 DEF V
    <3> HIDE DEF w
    <3> QED BY <1>6, <3>1, <3>2, SeqEqual
  <2>4. <<>> \o piece = piece
    BY <1>6, ConcatEmptySeq
  <2> QED BY <1>1, <1>a, <2>1, <2>3, <2>4
<1>16. pieces' \in Nat /\ pieces' # 0
  BY <1>1 DEF TransferInv
<1>17. recieved' = Len(got')
  BY <1>1, <1>9, <1>11
<1>18. InOrder(Bytes', size') /\ \A j \in 1 .. Len(Bytes') : Bytes'[j] <= offset'
  BY <1>2, <1>8 DEF TransferInv
<1> QED BY <1>2, <1>9, <1>10, <1>14, <1>15, <1>16, <1>17, <1>18 DEF TransferInv

LEMMA TransferStep == ASSUME TransferInv, [Transfer!Next]_TransferVars PROVE TransferInv'
<1>1. CASE UNCHANGED TransferVars
  BY <1>1 DEF TransferVars, TransferInv, Bytes
<1>2. CASE Transfer!GetSize
  BY <1>2 DEF Transfer!GetSize, TransferInv, Bytes
<1> QED BY <1>1, <1>2, TransferSends, TransferReceives DEF Transfer!Next

TransferTypes == stale \in Names /\ filesize \in Nat

\* The size that is read over the file name is a number, whatever the name leaves behind.
LEMMA TransferTyped ==
    /\ Transfer!Init => TransferTypes
    /\ TransferInv /\ TransferTypes /\ [Transfer!Next]_TransferVars => TransferTypes'
<1>1. Transfer!Init => TransferTypes
  BY DEF Transfer!Init, TransferTypes
<1>2. ASSUME TransferInv, TransferTypes, Transfer!GetSize PROVE TransferTypes'
  <2>1. size \in 0 .. 10 /\ stale \in Seq(0 .. 10)
    BY <1>2, TransferConstants DEF TransferInv, TransferTypes
  <2>2. [stale EXCEPT ![1] = size] \in Seq(0 .. 10) /\ <<size>> \in Seq(0 .. 10)
    <3> DEFINE V == 0 .. 10
    <3>1. size \in V /\ stale \in [1 .. Len(stale) -> V] /\ Len(stale) \in Nat
      BY <2>1, LenProperties
    <3> HIDE DEF V
    <3>2. [stale EXCEPT ![1] = size] \in [1 .. Len(stale) -> V]
      BY <3>1
    <3>3. [stale EXCEPT ![1] = size] \in Seq(V) /\ <<size>> \in Seq(V)
      BY <3>1, <3>2
    <3> QED BY <3>3 DEF V
  <2>3. stale' = stale /\ \E text \in Seq(0 .. 10) : filesize' = Transfer!Number(text)
    BY <1>2, <2>2 DEF Transfer!GetSize, Transfer!ReplaceAt
  <2> QED BY <1>2, <2>3, NumberType DEF TransferTypes
<1>3. ASSUME TransferTypes, Transfer!SendFile \/ Transfer!Receive \/ UNCHANGED TransferVars
      PROVE  TransferTypes'
  BY <1>3 DEF TransferTypes, Transfer!SendFile, Transfer!Receive, TransferVars
<1> QED BY <1>1, <1>2, <1>3 DEF Transfer!Next

LEMMA TransferTypesRead == TransferInv /\ TransferTypes => Transfer!TypeOK
<1> SUFFICES ASSUME TransferInv, TransferTypes PROVE Transfer!TypeOK
  OBVIOUS
<1>1. got \in Seq(1 .. size) /\ chan \in Seq(1 .. size) /\ size \in Nat
  BY TransferConstants DEF TransferInv
<1>2. Len(Bytes) = Len(got) + Len(chan) /\ Len(got) \in Nat /\ Len(chan) \in Nat
  BY <1>1, ConcatProperties, LenProperties DEF Bytes
<1>3. Len(Bytes) \in 0 .. size
  BY <1>1, OrderedShort DEF TransferInv
<1>4. recieved \in 0 .. size
  BY <1>1, <1>2, <1>3 DEF TransferInv
<1> QED BY <1>4 DEF TransferInv, TransferTypes, Transfer!TypeOK

-----------------------------------------------------------------------------
(* UdpChat: the lines that listeners print. *)

ChatLine == [by : Ports, len : 0 .. MaxLength]

\* A line as it is printed: that many cells with its number.
Whole(n) == [from |-> lines[n].by, cells |-> [j \in 1 .. lines[n].len |-> n]]

UdpLines == lines \in Seq(ChatLine) /\ Len(lines) <= MaxSent /\ flying \subseteq 1 .. Len(lines)

UdpProcs ==
    /\ writer \in [Ports -> BOOLEAN] /\ listener \in [Ports -> BOOLEAN] /\ failed \subseteq Ports
    /\ \A p \in Ports : (writer[p] => listener[p]) /\ (p \in failed => ~listener[p])

UdpBuffers == buf \in [Ports -> [1 .. MaxLength + 1 -> 0 .. MaxSent]]

UdpPrinted == printed \in [Ports -> Seq([from : Ports, cells : Seq(0 .. MaxSent)])]

AllWhole ==
    \A p \in Ports : \A k \in DOMAIN printed[p] :
        \E n \in 1 .. Len(lines) : printed[p][k] = Whole(n) /\ Peer[lines[n].by] = p

Recorded ==
    /\ dump \in Seq(1 .. Len(lines))
    /\ \A k \in 1 .. Len(dump) : Watched \in {lines[dump[k]].by, Peer[lines[dump[k]].by]}

UdpInv == UdpLines /\ UdpProcs /\ UdpBuffers /\ UdpPrinted /\ AllWhole /\ Recorded

LEMMA UdpConstants == Peer \in [Ports -> Ports] /\ Watched \in Ports /\ MaxLength \in Nat /\ MaxSent \in Nat
<1>1. Udp!ConstantAssumption
  BY InstanceAssumption
<1> QED BY <1>1 DEF Udp!ConstantAssumption

LEMMA UdpRead == UdpInv => Udp!TypeOK /\ Udp!ChatRight
<1> SUFFICES ASSUME UdpInv PROVE Udp!TypeOK /\ Udp!ChatRight
  OBVIOUS
<1>1. DOMAIN lines = 1 .. Len(lines) /\ DOMAIN dump = 1 .. Len(dump)
  BY LenProperties DEF UdpInv, UdpLines, Recorded
<1>2. Udp!TypeOK
  BY <1>1 DEF UdpInv, UdpLines, UdpProcs, UdpBuffers, Udp!TypeOK
<1>3. Udp!ChatRight
  BY <1>1 DEF UdpInv, UdpLines, UdpProcs, AllWhole, Recorded, Udp!ChatRight, Whole
<1> QED BY <1>2, <1>3

LEMMA UdpStart == Udp!Init => UdpInv
<1> SUFFICES ASSUME Udp!Init PROVE UdpInv
  OBVIOUS
<1>1. /\ lines = <<>> /\ dump = <<>> /\ flying = {} /\ failed = {}
      /\ writer = [p \in Ports |-> FALSE] /\ listener = [p \in Ports |-> FALSE]
      /\ printed = [p \in Ports |-> <<>>]
      /\ buf = [p \in Ports |-> [k \in 1 .. MaxLength + 1 |-> 0]]
  BY DEF Udp!Init, Udp!NUL
<1>2. Len(lines) = 0 /\ lines \in Seq(ChatLine) /\ Len(lines) <= MaxSent
  BY <1>1, UdpConstants
<1>3. dump \in Seq(1 .. Len(lines)) /\ Len(dump) = 0
  BY <1>1
<1>4. buf \in [Ports -> [1 .. MaxLength + 1 -> 0 .. MaxSent]]
  BY <1>1, UdpConstants
<1>5. printed \in [Ports -> Seq([from : Ports, cells : Seq(0 .. MaxSent)])]
  BY <1>1
<1>6. \A p \in Ports : DOMAIN printed[p] = {}
  BY <1>1
<1> QED BY <1>1, <1>2, <1>3, <1>4, <1>5, <1>6 DEF UdpLines, UdpProcs, UdpBuffers, UdpPrinted, AllWhole, Recorded, UdpInv

\* A line more: the numbers of the others, and what was printed of them, stay.
LEMMA OneLineMore ==
    ASSUME UdpInv, Len(lines) < MaxSent, NEW l \in ChatLine, lines' = Append(lines, l)
    PROVE  /\ lines' \in Seq(ChatLine) /\ Len(lines') = Len(lines) + 1 /\ Len(lines') <= MaxSent
           /\ \A n \in 1 .. Len(lines) : n \in 1 .. Len(lines') /\ lines'[n] = lines[n]
           /\ dump \in Seq(1 .. Len(lines'))
           /\ flying \cup {Len(lines')} \subseteq 1 .. Len(lines')
           /\ \A k \in 1 .. Len(dump) : Watched \in {lines'[dump[k]].by, Peer[lines'[dump[k]].by]}
           /\ \A p \in Ports : \A k \in DOMAIN printed[p] :
                 \E n \in 1 .. Len(lines') :
                     printed[p][k] = Whole(n)' /\ Peer[lines'[n].by] = p
<1>1. lines \in Seq(ChatLine) /\ Len(lines) \in Nat
  BY LenProperties DEF UdpInv, UdpLines
<1>2. /\ lines' \in Seq(ChatLine) /\ Len(lines') = Len(lines) + 1
      /\ \A n \in 1 .. Len(lines) : lines'[n] = lines[n]
  BY <1>1, AppendProperties
<1>3. Len(lines') <= MaxSent
  BY <1>1, <1>2, UdpConstants
<1>4. \A n \in 1 .. Len(lines) : n \in 1 .. Len(lines') /\ lines'[n] = lines[n]
  BY <1>1, <1>2
<1>5. dump \in Seq(1 .. Len(lines')) /\ \A k \in 1 .. Len(dump) : dump[k] \in 1 .. Len(lines)
  <2>1. dump \in Seq(1 .. Len(lines)) /\ \A k \in 1 .. Len(dump) : dump[k] \in 1 .. Len(lines)
    BY ElementOfSeq DEF UdpInv, Recorded
  <2>2. 1 .. Len(lines) \subseteq 1 .. Len(lines')
    BY <1>4
  <2>3. dump \in Seq(1 .. Len(lines'))
    BY <2>1, <2>2
  <2> QED BY <2>1, <2>3
<1>6. flying \cup {Len(lines')} \subseteq 1 .. Len(lines')
  <2>1. flying \subseteq 1 .. Len(lines)
    BY DEF UdpInv, UdpLines
  <2>2. flying \subseteq 1 .. Len(lines')
    BY <1>4, <2>1
  <2>3. Len(lines') \in 1 .. Len(lines')
    BY <1>1, <1>2
  <2> QED BY <2>2, <2>3
<1>7. \A k \in 1 .. Len(dump) : Watched \in {lines'[dump[k]].by, Peer[lines'[dump[k]].by]}
  BY <1>4, <1>5 DEF UdpInv, Recorded
<1>8. ASSUME NEW p \in Ports, NEW k \in DOMAIN printed[p]
      PROVE  \E n \in 1 .. Len(lines') : printed[p][k] = Whole(n)' /\ Peer[lines'[n].by] = p
  <2>1. PICK n \in 1 .. Len(lines) : printed[p][k] = Whole(n) /\ Peer[lines[n].by] = p
    BY DEF UdpInv, AllWhole
  <2>2. Whole(n)' = Whole(n)
    BY <1>4 DEF Whole
  <2> QED BY <1>4, <2>1, <2>2
<1> QED BY <1>2, <1>3, <1>4, <1>5, <1>6, <1>7, <1>8

LEMMA UdpTyped ==
    ASSUME UdpInv, NEW p \in Ports, Udp!Write(p) \/ Udp!WriteFails(p) PROVE UdpInv'
<1>1. /\ writer[p] /\ Len(lines) < MaxSent /\ UNCHANGED <<buf, printed, dump>>
      /\ flying' = flying \cup {Len(lines')} \/ flying' = flying
      /\ \/ UNCHANGED <<writer, listener, failed>>
         \/ /\ writer' = [writer EXCEPT ![p] = FALSE] /\ listener' = [listener EXCEPT ![p] = FALSE]
            /\ failed' = failed \cup {p}
  BY DEF Udp!Write, Udp!WriteFails, Udp!Set
<1>2. PICK l \in ChatLine : lines' = Append(lines, l)
  <2>1. \A l \in 0 .. MaxLength : [by |-> p, len |-> l] \in ChatLine
    BY DEF ChatLine
  <2>2. 0 \in 0 .. MaxLength
    BY UdpConstants
  <2>3. \E l \in 0 .. MaxLength : lines' = Append(lines, [by |-> p, len |-> l])
    BY <2>2 DEF Udp!Write, Udp!WriteFails
  <2> QED BY <2>1, <2>3
<1>3. /\ lines' \in Seq(ChatLine) /\ Len(lines') <= MaxSent
      /\ dump' \in Seq(1 .. Len(lines'))
      /\ flying' \subseteq 1 .. Len(lines')
      /\ \A k \in 1 .. Len(dump') : Watched \in {lines'[dump'[k]].by, Peer[lines'[dump'[k]].by]}
      /\ \A q \in Ports : \A k \in DOMAIN printed'[q] :
            \E n \in 1 .. Len(lines') :
                printed'[q][k] = Whole(n)' /\ Peer[lines'[n].by] = q
  BY <1>1, <1>2, OneLineMore
<1>4. /\ writer' \in [Ports -> BOOLEAN] /\ listener' \in [Ports -> BOOLEAN] /\ failed' \subseteq Ports
      /\ \A q \in Ports : (writer'[q] => listener'[q]) /\ (q \in failed' => ~listener'[q])
  BY <1>1 DEF UdpInv, UdpProcs
<1> QED BY <1>1, <1>3, <1>4 DEF UdpLines, UdpProcs, UdpBuffers, UdpPrinted, AllWhole, Recorded, UdpInv

LEMMA UdpProcesses ==
    ASSUME UdpInv, NEW p \in Ports, Udp!Start(p) \/ Udp!EndOfInput(p) \/ Udp!Interrupt(p)
    PROVE  UdpInv'
<1>1. /\ UNCHANGED <<lines, flying, buf, dump>>
      /\ printed' = printed \/ printed' = [printed EXCEPT ![p] = <<>>]
  BY DEF Udp!Start, Udp!EndOfInput, Udp!Interrupt, Udp!Set
<1>2. /\ writer' \in [Ports -> BOOLEAN] /\ listener' \in [Ports -> BOOLEAN] /\ failed' \subseteq Ports
      /\ \A q \in Ports : (writer'[q] => listener'[q]) /\ (q \in failed' => ~listener'[q])
  BY DEF Udp!Start, Udp!EndOfInput, Udp!Interrupt, Udp!Set, UdpInv, UdpProcs
<1>3. printed' \in [Ports -> Seq([from : Ports, cells : Seq(0 .. MaxSent)])]
  <2>1. <<>> \in Seq([from : Ports, cells : Seq(0 .. MaxSent)])
    OBVIOUS
  <2> QED BY <1>1, <2>1 DEF UdpInv, UdpPrinted
<1>4. ASSUME NEW q \in Ports, NEW k \in DOMAIN printed'[q]
      PROVE  \E n \in 1 .. Len(lines') : printed'[q][k] = Whole(n)' /\ Peer[lines'[n].by] = q
  <2>1. printed'[q] = printed[q] \/ printed'[q] = <<>>
    BY <1>1 DEF UdpInv, UdpPrinted
  <2>2. printed'[q] = printed[q]
    BY <2>1, <1>4
  <2>3. PICK n \in 1 .. Len(lines) : printed[q][k] = Whole(n) /\ Peer[lines[n].by] = q
    BY <1>4, <2>2 DEF UdpInv, AllWhole
  <2>4. Whole(n)' = Whole(n)
    BY <1>1 DEF Whole
  <2> QED BY <1>1, <2>2, <2>3, <2>4
<1> QED BY <1>1, <1>2, <1>3, <1>4 DEF UdpLines, UdpProcs, UdpBuffers, UdpPrinted, AllWhole, Recorded, UdpInv

\* What is printed is what was sent: the NUL ends it, whatever the buffer held behind it.
LEMMA PrintedWhole ==
    ASSUME UdpInv, NEW n \in 1 .. Len(lines), NEW p \in Ports, NEW b,
           b = [k \in DOMAIN buf[p] |-> IF k \in DOMAIN Udp!Cells(n) THEN Udp!Cells(n)[k] ELSE buf[p][k]]
    PROVE  /\ b \in [1 .. MaxLength + 1 -> 0 .. MaxSent]
           /\ Udp!UpToNul(b) = [j \in 1 .. lines[n].len |-> n]
           /\ Udp!UpToNul(b) \in Seq(0 .. MaxSent)
<1>1. Len(lines) \in Nat /\ lines[n] \in ChatLine /\ lines[n].len \in 0 .. MaxLength
  <2>1. Len(lines) \in Nat /\ lines[n] \in ChatLine
    BY LenProperties, ElementOfSeq DEF UdpInv, UdpLines
  <2> QED BY <2>1 DEF ChatLine
<1>2. n \in 1 .. MaxSent
  BY <1>1, UdpConstants DEF UdpInv, UdpLines
<1> DEFINE l == lines[n].len
           full == [j \in 1 .. l |-> n]
<1>3. full \in Seq({n, 0}) /\ Len(full) = l
  BY <1>1
<1>4. <<0>> \in Seq({n, 0}) /\ Len(<<0>>) = 1 /\ <<0>>[1] = 0
  OBVIOUS
<1>5. Udp!Cells(n) = full \o <<0>>
  BY DEF Udp!Cells, Udp!NUL
<1>6. /\ Udp!Cells(n) \in Seq({n, 0}) /\ Len(Udp!Cells(n)) = l + 1
      /\ \A j \in 1 .. l : Udp!Cells(n)[j] = n
      /\ Udp!Cells(n)[l + 1] = 0
  <2>1. /\ Udp!Cells(n) \in Seq({n, 0}) /\ Len(Udp!Cells(n)) = l + 1
        /\ \A j \in 1 .. l + 1 : Udp!Cells(n)[j] = IF j <= l THEN full[j] ELSE <<0>>[j - l]
    <3>a. l \in Nat
      BY <1>1
    <3> HIDE DEF full, l
    <3>1. /\ full \o <<0>> \in Seq({n, 0}) /\ Len(full \o <<0>>) = l + 1
          /\ \A j \in 1 .. l + 1 : (full \o <<0>>)[j] = IF j <= l THEN full[j] ELSE <<0>>[j - l]
      BY <1>3, <1>4, <3>a, ConcatProperties
    <3> QED BY <1>5, <3>1
  <2>2. l + 1 \in 1 .. l + 1 /\ ~ (l + 1 <= l) /\ (l + 1) - l = 1
    BY <1>1
  <2>3. Udp!Cells(n)[l + 1] = 0
    BY <1>4, <2>1, <2>2
  <2>4. \A j \in 1 .. l : Udp!Cells(n)[j] = n
    BY <1>1, <2>1
  <2> QED BY <2>1, <2>3, <2>4
<1>7. DOMAIN Udp!Cells(n) = 1 .. l + 1
  BY <1>6, LenProperties
<1>8. DOMAIN buf[p] = 1 .. MaxLength + 1 /\ \A k \in 1 .. MaxLength + 1 : buf[p][k] \in 0 .. MaxSent
  BY DEF UdpInv, UdpBuffers
<1>9. b \in [1 .. MaxLength + 1 -> 0 .. MaxSent]
  <2>1. \A j \in 1 .. l + 1 : Udp!Cells(n)[j] \in 0 .. MaxSent
    BY <1>1, <1>2, <1>6, UdpConstants
  <2> QED BY <1>7, <1>8, <2>1
<1>10. /\ \A j \in 1 .. l : b[j] = n
       /\ l + 1 \in DOMAIN b /\ b[l + 1] = 0
  <2>1. \A j \in 1 .. l : j \in 1 .. l + 1 /\ j \in 1 .. MaxLength + 1
    BY <1>1, UdpConstants
  <2>2. l + 1 \in 1 .. MaxLength + 1 /\ l + 1 \in 1 .. l + 1
    BY <1>1, UdpConstants
  <2> QED BY <1>6, <1>7, <1>8, <2>1, <2>2
<1> DEFINE Ends(k) == k \in DOMAIN b /\ b[k] = 0 /\ \A j \in 1 .. k - 1 : b[j] # 0
<1>11. Ends(l + 1) /\ \A k : Ends(k) => k = l + 1
  <2>1. \A j \in 1 .. (l + 1) - 1 : b[j] # 0
    <3>1. ASSUME NEW j \in 1 .. (l + 1) - 1 PROVE b[j] # 0
      <4>1. j \in 1 .. l
        BY <1>1
      <4>2. b[j] = n
        BY <1>10, <4>1
      <4> QED BY <1>2, <4>2
    <3> QED BY <3>1
  <2>2. ASSUME NEW k, Ends(k) PROVE k = l + 1
    <3>1. k \in 1 .. MaxLength + 1
      BY <1>9, <2>2
    <3>2. ~ (k <= l)
      BY <1>1, <1>2, <1>10, <2>2, <3>1, SMTT(20)
    <3>3. ~ (l + 1 <= k - 1)
      <4> SUFFICES ASSUME l + 1 <= k - 1 PROVE FALSE
        OBVIOUS
      <4>1. l + 1 \in 1 .. k - 1
        BY <1>1, <3>1
      <4>2. b[l + 1] # 0
        BY <2>2, <4>1
      <4> QED BY <1>10, <4>2
    <3> QED BY <1>1, <3>1, <3>2, <3>3
  <2> QED BY <1>10, <2>1, <2>2
<1>12. Udp!UpToNul(b) = SubSeq(b, 1, l)
  <2>1. (CHOOSE k \in DOMAIN b : b[k] = 0 /\ \A j \in 1 .. k - 1 : b[j] # 0) = l + 1
    BY <1>11
  <2>2. (l + 1) - 1 = l
    BY <1>1
  <2> QED BY <2>1, <2>2 DEF Udp!UpToNul, Udp!NUL
<1>13. SubSeq(b, 1, l) \in Seq({n}) /\ Len(SubSeq(b, 1, l)) = l /\ \A j \in 1 .. l : SubSeq(b, 1, l)[j] = n
  <2>1. \A j \in 1 .. l : b[j] \in {n}
    BY <1>10
  <2>2. 1 \in Int /\ l \in Int /\ l >= 0
    BY <1>1
  <2> HIDE DEF l
  <2>3. /\ SubSeq(b, 1, l) \in Seq({n})
        /\ Len(SubSeq(b, 1, l)) = IF 1 <= l THEN l - 1 + 1 ELSE 0
        /\ \A j \in 1 .. l - 1 + 1 : SubSeq(b, 1, l)[j] = b[1 + j - 1]
    BY <2>1, <2>2, SubSeqProperties
  <2>4. Len(SubSeq(b, 1, l)) = l
    BY <2>2, <2>3
  <2>5. \A j \in 1 .. l : SubSeq(b, 1, l)[j] = n
    <3>1. ASSUME NEW j \in 1 .. l PROVE SubSeq(b, 1, l)[j] \in {n}
      BY <2>2, <2>3, <2>4, ElementOfSeq
    <3> QED BY <3>1
  <2> QED BY <2>3, <2>4, <2>5
<1>14. SubSeq(b, 1, l) = full
  <2>1. full \in Seq({n}) /\ Len(full) = l /\ \A j \in 1 .. l : full[j] = n
    BY <1>1
  <2> HIDE DEF full
  <2> QED BY <1>13, <2>1, SeqEqual
<1>15. full \in Seq(0 .. MaxSent)
  <2> DEFINE V == 0 .. MaxSent
  <2>1. n \in V /\ l \in Nat
    BY <1>1, <1>2
  <2> HIDE DEF l, V
  <2>2. full \in [1 .. l -> V]
    BY <2>1
  <2>3. full \in Seq(V)
    BY <2>1, <2>2
  <2> QED BY <2>3 DEF V
<1> QED BY <1>9, <1>12, <1>14, <1>15

\* A datagram comes to its listener and to the sniffer.
LEMMA UdpArrives == ASSUME UdpInv, NEW n \in flying, Udp!Arrive(n) PROVE UdpInv'
<1> DEFINE to == Peer[lines[n].by]
           b == [k \in DOMAIN buf[to] |-> IF k \in DOMAIN Udp!Cells(n) THEN Udp!Cells(n)[k] ELSE buf[to][k]]
           item == [from |-> lines[n].by, cells |-> Udp!UpToNul(b)]
<1>1. /\ UNCHANGED <<writer, listener, lines, failed>> /\ flying' \subseteq flying
      /\ \/ UNCHANGED <<buf, printed>>
         \/ /\ buf' = [buf EXCEPT ![to] = b]
            /\ printed' = [printed EXCEPT ![to] = Append(@, item)]
      /\ dump' = dump \/ (dump' = Append(dump, n) /\ Udp!Matches(n))
  BY DEF Udp!Arrive, Udp!Listen, Udp!Set
<1>2. /\ lines \in Seq(ChatLine) /\ Len(lines) \in Nat /\ flying \subseteq 1 .. Len(lines)
      /\ n \in 1 .. Len(lines) /\ lines[n] \in ChatLine
  BY LenProperties, ElementOfSeq DEF UdpInv, UdpLines
<1>3. lines[n].by \in Ports /\ to \in Ports
  BY <1>2, UdpConstants DEF ChatLine
<1>4. UdpLines'
  BY <1>1 DEF UdpInv, UdpLines
<1>5. UdpProcs'
  BY <1>1 DEF UdpInv, UdpProcs
<1>6. /\ b \in [1 .. MaxLength + 1 -> 0 .. MaxSent] /\ Udp!UpToNul(b) = [j \in 1 .. lines[n].len |-> n]
      /\ Udp!UpToNul(b) \in Seq(0 .. MaxSent)
  BY <1>2, <1>3, PrintedWhole
<1>7. item \in [from : Ports, cells : Seq(0 .. MaxSent)] /\ item = Whole(n)
  BY <1>3, <1>6 DEF Whole
<1> HIDE DEF b, item
<1>8. UdpBuffers'
  BY <1>1, <1>3, <1>6 DEF UdpInv, UdpBuffers
<1>9. printed[to] \in Seq([from : Ports, cells : Seq(0 .. MaxSent)])
  BY <1>3 DEF UdpInv, UdpPrinted
<1>10. /\ Append(printed[to], item) \in Seq([from : Ports, cells : Seq(0 .. MaxSent)])
       /\ Len(printed[to]) \in Nat /\ Len(Append(printed[to], item)) = Len(printed[to]) + 1
       /\ \A k \in 1 .. Len(printed[to]) : Append(printed[to], item)[k] = printed[to][k]
       /\ Append(printed[to], item)[Len(printed[to]) + 1] = item
  BY <1>7, <1>9, AppendProperties, LenProperties
<1>11. UdpPrinted'
  BY <1>1, <1>10 DEF UdpInv, UdpPrinted
<1>12. AllWhole'
  <2> SUFFICES ASSUME NEW p \in Ports, NEW k \in DOMAIN printed'[p]
               PROVE  \E x \in 1 .. Len(lines) : printed'[p][k] = Whole(x) /\ Peer[lines[x].by] = p
    BY <1>1, SMTT(20) DEF AllWhole, Whole
  <2>1. CASE printed'[p] = printed[p]
    BY <2>1 DEF UdpInv, AllWhole
  <2>2. CASE p = to /\ printed'[p] = Append(printed[to], item)
    <3>1. k \in 1 .. Len(printed[to]) + 1
      BY <1>10, <2>2, LenProperties
    <3>2. CASE k = Len(printed[to]) + 1
      BY <1>2, <1>7, <1>10, <2>2, <3>2
    <3>3. CASE k \in 1 .. Len(printed[to])
      <4>1. printed'[p][k] = printed[to][k] /\ k \in DOMAIN printed[to]
        BY <1>9, <1>10, <2>2, <3>3, LenProperties
      <4> QED BY <2>2, <4>1, SMTT(20) DEF UdpInv, AllWhole
    <3> QED BY <1>10, <3>1, <3>2, <3>3, SMTT(20)
  <2> QED BY <1>1, <1>3, <2>1, <2>2 DEF UdpInv, UdpPrinted
<1>13. Recorded'
  <2>1. dump \in Seq(1 .. Len(lines)) /\ Len(dump) \in Nat
    BY LenProperties DEF UdpInv, Recorded
  <2>2. CASE dump' = dump
    BY <1>1, <2>2 DEF UdpInv, Recorded
  <2>3. CASE dump' = Append(dump, n) /\ Udp!Matches(n)
    <3>1. /\ dump' \in Seq(1 .. Len(lines)) /\ Len(dump') = Len(dump) + 1
          /\ \A k \in 1 .. Len(dump) : dump'[k] = dump[k]
          /\ dump'[Len(dump) + 1] = n
      BY <1>2, <2>1, <2>3, AppendProperties
    <3>2. Watched \in {lines[n].by, Peer[lines[n].by]}
      BY <2>3 DEF Udp!Matches
    <3>3. ASSUME NEW k \in 1 .. Len(dump') PROVE Watched \in {lines[dump'[k]].by, Peer[lines[dump'[k]].by]}
      <4>1. CASE k = Len(dump) + 1
        BY <3>1, <3>2, <4>1
      <4>2. CASE k \in 1 .. Len(dump)
        BY <3>1, <4>2 DEF UdpInv, Recorded
      <4> QED BY <2>1, <3>1, <4>1, <4>2
    <3> QED BY <1>1, <3>1, <3>3 DEF Recorded
  <2> QED BY <1>1, <2>2, <2>3
<1> QED BY <1>4, <1>5, <1>8, <1>11, <1>12, <1>13 DEF UdpInv

LEMMA UdpLost == ASSUME UdpInv, NEW n \in flying, Udp!Lose(n) PROVE UdpInv'
<1>1. flying' \subseteq flying /\ UNCHANGED <<writer, listener, lines, buf, printed, dump, failed>>
  BY DEF Udp!Lose
<1>2. AllWhole'
  BY <1>1 DEF UdpInv, AllWhole, Whole
<1> QED BY <1>1, <1>2 DEF UdpInv, UdpLines, UdpProcs, UdpBuffers, UdpPrinted, Recorded

LEMMA UdpStep == ASSUME UdpInv, [Udp!Next]_UdpVars PROVE UdpInv'
<1>1. CASE UNCHANGED UdpVars
  <2>1. AllWhole'
    BY <1>1 DEF UdpVars, UdpInv, AllWhole, Whole
  <2> QED BY <1>1, <2>1 DEF UdpVars, UdpInv, UdpLines, UdpProcs, UdpBuffers, UdpPrinted, Recorded
<1>2. ASSUME NEW p \in Ports,
             Udp!Start(p) \/ Udp!Write(p) \/ Udp!WriteFails(p) \/ Udp!EndOfInput(p) \/ Udp!Interrupt(p)
      PROVE  UdpInv'
  BY <1>2, UdpTyped, UdpProcesses
<1>3. ASSUME NEW n \in flying, Udp!Arrive(n) \/ Udp!Lose(n) PROVE UdpInv'
  BY <1>3, UdpArrives, UdpLost
<1> QED BY <1>1, <1>2, <1>3 DEF Udp!Next

-----------------------------------------------------------------------------
(* EchoCount: the invariant. *)

LEMMA EchoConstants ==
    /\ MaxMessages \in Nat /\ MaxRuns \in Nat
    /\ IsFiniteSet(EchoClient)
<1>1. Echo!ConstantAssumption
  BY InstanceAssumption
<1>2. IsFiniteSet(EchoClient) <=> Echo!IsFiniteSet(EchoClient)
  BY DEF IsFiniteSet, Echo!IsFiniteSet
<1> QED BY <1>1, <1>2 DEF Echo!ConstantAssumption

LEMMA EchoNull == \A c \in EchoClient, k \in Nat : [client |-> c, count |-> k] # NoClient
  BY InstanceAssumption DEF Echo!ConstantAssumption

\* The message that a client sent last, in this run.
Latest(c) == [run |-> run[c], n |-> messages[c]]

\* Places in the net of what a client has sent, and of that the messages.
From(c) == {k \in 1 .. Len(net) : net[k].from = c}
Mail(c) == {k \in From(c) : net[k].text # Echo!Exit}

EchoReply == [text : Echo!Text, count : Nat]

EchoTypes ==
    /\ net \in Seq(Echo!Packet)
    /\ head = NoClient \/ head \in [client : EchoClient, count : Nat \ {0}]
    /\ inbox \in [EchoClient -> Seq(EchoReply)]
    /\ pc \in [EchoClient -> {"off", "input", "send", "exit", "recv"}]
    /\ leaving \in [EchoClient -> BOOLEAN]
    /\ messages \in [EchoClient -> 0 .. MaxMessages] /\ run \in [EchoClient -> 0 .. MaxRuns]
    /\ echoed \in [EchoClient -> Seq(EchoReply)]
    /\ signalled \subseteq EchoClient /\ fresh \subseteq EchoClient /\ crowded \subseteq EchoClient
    /\ \A c \in EchoClient : /\ pc[c] # "off" => run[c] > 0
                             /\ pc[c] = "exit" => leaving[c]
                             /\ Len(echoed[c]) <= messages[c]
                             /\ pc[c] \in {"send", "recv"} => Len(echoed[c]) < messages[c]

\* Who waits has sent one message, and its answer is the only one that may come; who does
\* not wait has nothing under way.
Outstanding(c) ==
    /\ \A k \in Mail(c) : pc[c] = "recv" /\ inbox[c] = <<>> /\ net[k].text = Latest(c)
    /\ \A j, k \in Mail(c) : j = k
    /\ inbox[c] # <<>> => pc[c] = "recv" /\ Len(inbox[c]) = 1 /\ inbox[c][1].text = Latest(c)

\* The answers printed are those of the messages answered.
Printed(c) ==
    /\ \A k \in 1 .. Len(echoed[c]) : echoed[c][k].text = [run |-> run[c], n |-> k]
    /\ pc[c] \in {"send", "recv"} => Len(echoed[c]) = messages[c] - 1
    /\ pc[c] \in {"input", "exit"} => Len(echoed[c]) = messages[c]

\* A client that was never interrupted.
Calm(c) == /\ Outstanding(c) /\ Printed(c)
           /\ leaving[c] => pc[c] \in {"exit", "off"}

\* The server has counted k messages of c.
Numbered(c, k) == IF k = 0 THEN head = NoClient \/ head.client # c
                           ELSE head # NoClient /\ head = [client |-> c, count |-> k]

\* A client alone with a server that had forgotten it, until it leaves.
Working(c) ==
    /\ pc[c] # "off" /\ Outstanding(c) /\ Printed(c) /\ From(c) = Mail(c)
    /\ pc[c] = "input" => Numbered(c, messages[c])
    /\ pc[c] = "send" => Numbered(c, messages[c] - 1)
    /\ inbox[c] # <<>> => Numbered(c, messages[c]) /\ inbox[c][1].count = messages[c]
    /\ Mail(c) # {} => Numbered(c, messages[c] - 1)

Counts(c) == \A k \in 1 .. Len(echoed[c]) : echoed[c][k].count = echoed[c][k].text.n

Fine(c) ==
    /\ c \notin signalled => Calm(c)
    /\ c \in fresh \ crowded => Counts(c) /\ (leaving[c] \/ Working(c))

EchoInv == EchoTypes /\ \A c \in EchoClient : Fine(c)

LEMMA EchoRead == EchoInv => Echo!EchoMatches /\ Echo!NumberedAlone
<1> SUFFICES ASSUME EchoInv PROVE Echo!EchoMatches /\ Echo!NumberedAlone
  OBVIOUS
<1>1. ASSUME NEW c \in EchoClient, c \notin signalled
      PROVE  /\ Len(inbox[c]) <= 1
             /\ \A i \in 1 .. Len(echoed[c]) : echoed[c][i].text = [run |-> run[c], n |-> i]
  <2>1. Outstanding(c) /\ Printed(c)
    BY <1>1 DEF EchoInv, Fine, Calm
  <2>2. CASE inbox[c] = <<>>
    <3>1. Len(inbox[c]) = 0
      BY <2>2
    <3> QED BY <2>1, <3>1 DEF Printed
  <2>3. CASE inbox[c] # <<>>
    <3>1. Len(inbox[c]) = 1
      BY <2>1, <2>3 DEF Outstanding
    <3> QED BY <2>1, <3>1 DEF Printed
  <2> QED BY <2>2, <2>3
<1>2. Echo!NumberedAlone
  BY DEF EchoInv, EchoTypes, Fine, Counts, Echo!NumberedAlone
<1> QED BY <1>1, <1>2 DEF Echo!EchoMatches

LEMMA EchoInit == Echo!Init => EchoInv
<1> SUFFICES ASSUME Echo!Init PROVE EchoInv
  OBVIOUS
<1>1. /\ net = <<>> /\ head = NoClient /\ inbox = [c \in EchoClient |-> <<>>]
      /\ pc = [c \in EchoClient |-> "off"] /\ leaving = [c \in EchoClient |-> FALSE]
      /\ messages = [c \in EchoClient |-> 0] /\ run = [c \in EchoClient |-> 0]
      /\ echoed = [c \in EchoClient |-> <<>>]
      /\ signalled = {} /\ fresh = {} /\ crowded = {}
  BY DEF Echo!Init
<1>2. net \in Seq(Echo!Packet) /\ <<>> \in Seq(EchoReply) /\ Len(<<>>) = 0 /\ Len(net) = 0
  BY <1>1
<1>3. EchoTypes
  BY <1>1, <1>2, EchoConstants DEF EchoTypes
<1>4. ASSUME NEW c \in EchoClient PROVE Calm(c)
  <2>1. Mail(c) = {}
    BY <1>2 DEF Mail, From
  <2> QED BY <1>1, <1>2, <2>1 DEF Calm, Outstanding, Printed
<1> QED BY <1>1, <1>3, <1>4 DEF EchoInv, Fine

-----------------------------------------------------------------------------
(* EchoCount: the net and the clients that a step does not concern. *)

LEMMA NetMore ==
    ASSUME EchoTypes, NEW p \in Echo!Packet, net' = Append(net, p)
    PROVE  /\ net' \in Seq(Echo!Packet) /\ Len(net) \in Nat
           /\ \A c : c # p.from => From(c)' = From(c) /\ Mail(c)' = Mail(c)
           /\ From(p.from)' = From(p.from) \cup {Len(net) + 1}
           /\ Mail(p.from)' = Mail(p.from) \cup (IF p.text = Echo!Exit THEN {} ELSE {Len(net) + 1})
           /\ \A k \in 1 .. Len(net) : net'[k] = net[k]
           /\ net'[Len(net) + 1] = p
<1>1. /\ net' \in Seq(Echo!Packet) /\ Len(net) \in Nat /\ Len(net') = Len(net) + 1
      /\ \A k \in 1 .. Len(net) : net'[k] = net[k]
      /\ net'[Len(net) + 1] = p
  BY AppendProperties, LenProperties DEF EchoTypes
<1>2. 1 .. Len(net') = (1 .. Len(net)) \cup {Len(net) + 1}
  BY <1>1
<1>3. ASSUME NEW c, c # p.from PROVE From(c)' = From(c) /\ Mail(c)' = Mail(c)
  <2>1. From(c)' = From(c)
    BY <1>1, <1>2, <1>3 DEF From
  <2>2. \A k \in From(c) : net'[k] = net[k]
    BY <1>1 DEF From
  <2> QED BY <2>1, <2>2 DEF Mail, Echo!Exit
<1>4. From(p.from)' = From(p.from) \cup {Len(net) + 1}
  BY <1>1, <1>2 DEF From
<1>5. Mail(p.from)' = Mail(p.from) \cup (IF p.text = Echo!Exit THEN {} ELSE {Len(net) + 1})
  <2>1. \A k \in From(p.from) : net'[k] = net[k]
    BY <1>1 DEF From
  <2> QED BY <1>1, <1>4, <2>1 DEF Mail, Echo!Exit
<1> QED BY <1>1, <1>3, <1>4, <1>5

\* What is left when the first datagram is gone.
LEMMA NetLess ==
    ASSUME EchoTypes, net # <<>>, net' = Tail(net)
    PROVE  /\ net' \in Seq(Echo!Packet) /\ Len(net) \in Nat \ {0} /\ Head(net) = net[1]
           /\ Head(net) \in Echo!Packet
           /\ \A c : \A k \in From(c)' : k + 1 \in From(c) /\ k + 1 # 1 /\ net'[k] = net[k + 1]
           /\ \A c : \A k \in Mail(c)' : k + 1 \in Mail(c) /\ k + 1 # 1 /\ net'[k] = net[k + 1]
           /\ \A c : From(c) = Mail(c) => From(c)' = Mail(c)'
<1>1. /\ net' \in Seq(Echo!Packet) /\ Len(net) \in Nat \ {0} /\ Head(net) = net[1]
      /\ Head(net) \in Echo!Packet /\ Len(net') = Len(net) - 1
      /\ \A k \in 1 .. Len(net') : net'[k] = net[k + 1]
  BY HeadTailProperties, LenProperties, EmptySeq DEF EchoTypes
<1>2. \A k \in 1 .. Len(net') : k \in Nat /\ k + 1 \in 1 .. Len(net) /\ k + 1 # 1
  BY <1>1
<1>3. ASSUME NEW c, NEW k \in From(c)' PROVE k + 1 \in From(c) /\ k + 1 # 1 /\ net'[k] = net[k + 1]
  BY <1>1, <1>2 DEF From
<1>4. ASSUME NEW c, NEW k \in Mail(c)' PROVE k + 1 \in Mail(c) /\ k + 1 # 1 /\ net'[k] = net[k + 1]
  BY <1>3 DEF Mail, Echo!Exit
<1>5. ASSUME NEW c, From(c) = Mail(c) PROVE From(c)' = Mail(c)'
  BY <1>3, <1>5 DEF Mail, Echo!Exit
<1> QED BY <1>1, <1>3, <1>4, <1>5

\* A client that a step leaves as it was: of its datagrams nothing is new, and the first
\* one may be gone (n = 1).
LEMMA FineKept ==
    ASSUME EchoTypes, NEW d \in EchoClient, Fine(d), NEW n \in {0, 1},
           pc'[d] = pc[d], leaving'[d] = leaving[d], messages'[d] = messages[d],
           run'[d] = run[d], echoed'[d] = echoed[d], inbox'[d] = inbox[d],
           d \in signalled => d \in signalled',
           d \in fresh' \ crowded' => d \in fresh \ crowded,
           \A k \in From(d)' : k + n \in From(d) /\ net'[k] = net[k + n],
           \A k \in Mail(d)' : k + n \in Mail(d) /\ net'[k] = net[k + n],
           From(d) = Mail(d) => From(d)' = Mail(d)',
           leaving[d] \/ d \notin fresh' \ crowded' \/ \A k : Numbered(d, k)' <=> Numbered(d, k)
    PROVE  Fine(d)'
<1>1. Latest(d)' = Latest(d)
  BY DEF Latest
<1>2. Outstanding(d) => Outstanding(d)'
  <2> SUFFICES ASSUME Outstanding(d) PROVE Outstanding(d)'
    OBVIOUS
  <2>1. \A k \in Mail(d)' : pc'[d] = "recv" /\ inbox'[d] = <<>> /\ net'[k].text = Latest(d)'
    BY <1>1 DEF Outstanding
  <2>2. ASSUME NEW j \in Mail(d)', NEW k \in Mail(d)' PROVE j = k
    <3>1. j + n = k + n
      BY DEF Outstanding
    <3>2. j \in 1 .. Len(net') /\ k \in 1 .. Len(net')
      BY DEF Mail, From
    <3> QED BY <3>1, <3>2
  <2>3. \A j, k \in Mail(d)' : j = k
    BY <2>2
  <2> QED BY <1>1, <2>1, <2>3 DEF Outstanding
<1>3. Printed(d) <=> Printed(d)'
  BY DEF Printed
<1>4. Counts(d) <=> Counts(d)'
  BY DEF Counts
<1>5. d \notin signalled' => Calm(d)'
  BY <1>2, <1>3 DEF Fine, Calm
<1>6. ASSUME d \in fresh' \ crowded', ~ leaving[d] PROVE Working(d)'
  <2>1. Working(d)
    BY <1>6 DEF Fine
  <2>2. \A k : Numbered(d, k)' <=> Numbered(d, k)
    BY <1>6
  <2>3. Mail(d)' # {} => Mail(d) # {}
    OBVIOUS
  <2> QED BY <1>2, <1>3, <2>1, <2>2, <2>3 DEF Working
<1> QED BY <1>4, <1>5, <1>6 DEF Fine

\* The same, when the net stays or gets a datagram of another client.
LEMMA FineOther ==
    ASSUME EchoTypes, NEW d \in EchoClient, Fine(d),
           net' = net \/ \E p \in Echo!Packet : p.from # d /\ net' = Append(net, p),
           pc'[d] = pc[d], leaving'[d] = leaving[d], messages'[d] = messages[d],
           run'[d] = run[d], echoed'[d] = echoed[d], inbox'[d] = inbox[d],
           d \in signalled => d \in signalled',
           d \in fresh' \ crowded' => d \in fresh \ crowded,
           head' = head
    PROVE  Fine(d)'
<1>1. /\ From(d)' = From(d) /\ Mail(d)' = Mail(d)
      /\ \A k \in From(d) : net'[k] = net[k] /\ k \in Nat /\ k + 0 = k
  <2>1. CASE net' = net
    BY <2>1 DEF From, Mail, Echo!Exit
  <2>2. CASE \E p \in Echo!Packet : p.from # d /\ net' = Append(net, p)
    BY <2>2, NetMore DEF From
  <2> QED BY <2>1, <2>2
<1>2. \A k \in Mail(d) : k \in From(d)
  BY DEF Mail
<1>3. \A k : Numbered(d, k)' <=> Numbered(d, k)
  BY DEF Numbered
<1>4. 0 \in {0, 1}
  OBVIOUS
<1> QED BY <1>1, <1>2, <1>3, <1>4, FineKept

-----------------------------------------------------------------------------
(* EchoCount: the steps. *)

\* The types of a client's variables.
LEMMA EchoTyped ==
    ASSUME EchoTypes, NEW c \in EchoClient
    PROVE  /\ pc[c] \in {"off", "input", "send", "exit", "recv"} /\ leaving[c] \in BOOLEAN
           /\ messages[c] \in 0 .. MaxMessages /\ run[c] \in 0 .. MaxRuns
           /\ messages[c] \in Nat /\ run[c] \in Nat
           /\ inbox[c] \in Seq(EchoReply) /\ echoed[c] \in Seq(EchoReply)
           /\ Len(echoed[c]) \in Nat /\ Len(echoed[c]) <= messages[c]
           /\ pc[c] # "off" => run[c] > 0
           /\ pc[c] = "exit" => leaving[c]
           /\ pc[c] \in {"send", "recv"} => Len(echoed[c]) < messages[c]
  BY EchoConstants, LenProperties DEF EchoTypes

LEMMA EchoType ==
    ASSUME EchoInv, NEW c \in EchoClient, Echo!Type(c) PROVE EchoInv'
<1>1. /\ pc[c] = "input" /\ messages[c] < MaxMessages
      /\ messages' = [messages EXCEPT ![c] = @ + 1] /\ pc' = [pc EXCEPT ![c] = "send"]
      /\ net' = net /\ head' = head /\ inbox' = inbox /\ leaving' = leaving /\ run' = run
      /\ echoed' = echoed /\ signalled' = signalled /\ fresh' = fresh /\ crowded' = crowded
  BY DEF Echo!Type
<1>2. EchoTypes
  BY DEF EchoInv
<1>3. EchoTypes'
  BY <1>1, <1>2, EchoTyped, EchoConstants DEF EchoTypes
<1>4. ASSUME NEW d \in EchoClient, d # c PROVE Fine(d)'
  BY <1>1, <1>2, <1>4, FineOther DEF EchoInv, EchoTypes
<1>5. pc'[c] = "send" /\ messages'[c] = messages[c] + 1 /\ messages'[c] - 1 = messages[c]
  BY <1>1, <1>2, EchoTyped DEF EchoTypes
<1>6. From(c)' = From(c) /\ Mail(c)' = Mail(c)
  BY <1>1 DEF From, Mail, Echo!Exit
<1>7. Outstanding(c) => Outstanding(c)' /\ inbox[c] = <<>> /\ Mail(c) = {}
  BY <1>1, <1>6 DEF Outstanding
<1>8. Printed(c) => Printed(c)'
  BY <1>1, <1>5 DEF Printed
<1>9. ~ leaving[c] /\ Working(c) => Working(c)'
  BY <1>1, <1>5, <1>6, <1>7, <1>8 DEF Working, Numbered
<1>10. Fine(c)'
  BY <1>1, <1>5, <1>7, <1>8, <1>9 DEF EchoInv, Fine, Calm, Counts
<1> QED BY <1>3, <1>4, <1>10 DEF EchoInv

LEMMA EchoTypeExit ==
    ASSUME EchoInv, NEW c \in EchoClient, Echo!TypeExit(c) PROVE EchoInv'
<1>1. /\ pc[c] = "input" /\ leaving' = [leaving EXCEPT ![c] = TRUE]
      /\ pc' = [pc EXCEPT ![c] = "exit"] /\ messages' = messages
      /\ net' = net /\ head' = head /\ inbox' = inbox /\ run' = run
      /\ echoed' = echoed /\ signalled' = signalled /\ fresh' = fresh /\ crowded' = crowded
  BY DEF Echo!TypeExit
<1>2. EchoTypes
  BY DEF EchoInv
<1>3. EchoTypes'
  BY <1>1, <1>2, EchoTyped DEF EchoTypes
<1>4. ASSUME NEW d \in EchoClient, d # c PROVE Fine(d)'
  BY <1>1, <1>2, <1>4, FineOther DEF EchoInv, EchoTypes
<1>5. pc'[c] = "exit" /\ leaving'[c] = TRUE
  BY <1>1, <1>2 DEF EchoTypes
<1>6. From(c)' = From(c) /\ Mail(c)' = Mail(c)
  BY <1>1 DEF From, Mail, Echo!Exit
<1>7. Outstanding(c) => Outstanding(c)'
  BY <1>1, <1>6 DEF Outstanding
<1>8. Printed(c) => Printed(c)'
  BY <1>1, <1>5 DEF Printed
<1>9. Fine(c)'
  BY <1>1, <1>5, <1>7, <1>8 DEF EchoInv, Fine, Calm, Counts
<1> QED BY <1>3, <1>4, <1>9 DEF EchoInv

LEMMA EchoReceive ==
    ASSUME EchoInv, NEW c \in EchoClient, Echo!Receive(c) PROVE EchoInv'
<1>1. /\ pc[c] = "recv" /\ inbox[c] # <<>> /\ inbox' = [inbox EXCEPT ![c] = Tail(@)]
      /\ echoed' = IF leaving[c] THEN echoed
                   ELSE [echoed EXCEPT ![c] = Append(@, Head(inbox[c]))]
      /\ pc' = [pc EXCEPT ![c] = IF leaving[c] THEN "off" ELSE "input"]
      /\ messages' = messages /\ net' = net /\ head' = head /\ leaving' = leaving /\ run' = run
      /\ signalled' = signalled /\ fresh' = fresh /\ crowded' = crowded
  BY DEF Echo!Receive
<1>2. EchoTypes
  BY DEF EchoInv
<1>3. /\ inbox[c] \in Seq(EchoReply) /\ Head(inbox[c]) = inbox[c][1] /\ inbox[c][1] \in EchoReply
      /\ Tail(inbox[c]) \in Seq(EchoReply) /\ Len(Tail(inbox[c])) = Len(inbox[c]) - 1
      /\ Len(inbox[c]) = 1 => Tail(inbox[c]) = <<>>
  <2>1. inbox[c] \in Seq(EchoReply)
    BY <1>2, EchoTyped
  <2>2. /\ Head(inbox[c]) \in EchoReply /\ Tail(inbox[c]) \in Seq(EchoReply)
        /\ Len(Tail(inbox[c])) = Len(inbox[c]) - 1
    BY <1>1, <2>1, HeadTailProperties
  <2>3. Head(inbox[c]) = inbox[c][1]
    BY <1>1, <2>1
  <2>4. ASSUME Len(inbox[c]) = 1 PROVE Tail(inbox[c]) = <<>>
    <3>1. Len(Tail(inbox[c])) = 0
      BY <2>2, <2>4
    <3> QED BY <2>2, <3>1, EmptySeq
  <2> QED BY <2>1, <2>2, <2>3, <2>4
<1>4. /\ Append(echoed[c], Head(inbox[c])) \in Seq(EchoReply)
      /\ Len(Append(echoed[c], Head(inbox[c]))) = Len(echoed[c]) + 1
      /\ \A k \in 1 .. Len(echoed[c]) : Append(echoed[c], Head(inbox[c]))[k] = echoed[c][k]
      /\ Append(echoed[c], Head(inbox[c]))[Len(echoed[c]) + 1] = inbox[c][1]
  BY <1>2, <1>3, EchoTyped, AppendProperties
<1>5. /\ pc'[c] = (IF leaving[c] THEN "off" ELSE "input") /\ inbox'[c] = Tail(inbox[c])
      /\ echoed'[c] = (IF leaving[c] THEN echoed[c] ELSE Append(echoed[c], Head(inbox[c])))
  BY <1>1, <1>2 DEF EchoTypes
<1>6. EchoTypes'
  <2>1. Len(echoed'[c]) <= messages[c]
    BY <1>1, <1>2, <1>4, <1>5, EchoTyped
  <2> QED BY <1>1, <1>2, <1>3, <1>4, <1>5, <2>1, EchoTyped DEF EchoTypes
<1>7. ASSUME NEW d \in EchoClient, d # c PROVE Fine(d)'
  <2>1. /\ pc'[d] = pc[d] /\ inbox'[d] = inbox[d] /\ echoed'[d] = echoed[d]
    BY <1>1, <1>2, <1>7 DEF EchoTypes
  <2> QED BY <1>1, <1>2, <2>1, FineOther DEF EchoInv
<1>8. From(c)' = From(c) /\ Mail(c)' = Mail(c) /\ Latest(c)' = Latest(c)
  BY <1>1 DEF From, Mail, Echo!Exit, Latest
<1>9. Outstanding(c) => /\ Outstanding(c)' /\ inbox'[c] = <<>> /\ Mail(c) = {}
                       /\ inbox[c][1].text = Latest(c)
  BY <1>1, <1>3, <1>5, <1>8 DEF Outstanding
<1>10. Outstanding(c) /\ Printed(c) /\ ~ leaving[c] => Printed(c)' /\ Len(echoed'[c]) = messages[c]
  <2> SUFFICES ASSUME Outstanding(c), Printed(c), ~ leaving[c]
               PROVE Printed(c)' /\ Len(echoed'[c]) = messages[c]
    OBVIOUS
  <2>1. Len(echoed[c]) = messages[c] - 1 /\ Len(echoed'[c]) = messages[c]
        /\ Len(echoed[c]) + 1 = messages[c]
    BY <1>1, <1>2, <1>4, <1>5, EchoTyped DEF Printed
  <2>2. ASSUME NEW k \in 1 .. Len(echoed'[c]) PROVE echoed'[c][k].text = [run |-> run[c], n |-> k]
    <3>1. k \in 1 .. Len(echoed[c]) \/ k = Len(echoed[c]) + 1
      BY <1>2, <2>1, EchoTyped
    <3> QED BY <1>4, <1>5, <1>9, <2>1, <3>1 DEF Printed, Latest
  <2> QED BY <1>1, <1>5, <2>1, <2>2 DEF Printed
<1>11. Fine(c)'
  <2>1. ASSUME leaving[c] PROVE Fine(c)'
    <3>1. Counts(c) => Counts(c)'
      BY <1>5, <2>1 DEF Counts
    <3>2. c \in signalled
      BY <1>1, <2>1 DEF EchoInv, Fine, Calm
    <3> QED BY <1>1, <2>1, <3>1, <3>2 DEF EchoInv, Fine
  <2>2. ASSUME ~ leaving[c] PROVE Fine(c)'
    <3>1. c \notin signalled => Calm(c)'
      BY <1>1, <1>9, <1>10, <2>2 DEF EchoInv, Fine, Calm
    <3>2. ASSUME c \in fresh \ crowded PROVE Counts(c)' /\ Working(c)'
      <4>1. Counts(c) /\ Working(c)
        BY <2>2, <3>2 DEF EchoInv, Fine
      <4>2. /\ Outstanding(c) /\ Printed(c) /\ inbox[c][1].count = messages[c]
            /\ Numbered(c, messages[c]) /\ From(c) = Mail(c)
        BY <1>1, <4>1 DEF Working
      <4>3. Working(c)'
        BY <1>1, <1>5, <1>8, <1>9, <1>10, <2>2, <4>2 DEF Working, Numbered
      <4>4. Len(echoed[c]) + 1 = messages[c] /\ Len(echoed'[c]) = messages[c]
        BY <1>1, <1>2, <1>10, <2>2, <4>2, EchoTyped DEF Printed
      <4>5. ASSUME NEW k \in 1 .. Len(echoed'[c]) PROVE echoed'[c][k].count = echoed'[c][k].text.n
        <5>1. k \in 1 .. Len(echoed[c]) \/ k = Len(echoed[c]) + 1
          BY <1>2, <4>4, EchoTyped
        <5>2. CASE k \in 1 .. Len(echoed[c])
          BY <1>4, <1>5, <2>2, <4>1, <5>2 DEF Counts
        <5>3. CASE k = Len(echoed[c]) + 1
          BY <1>4, <1>5, <1>9, <2>2, <4>2, <4>4, <5>3 DEF Latest
        <5> QED BY <5>1, <5>2, <5>3
      <4> QED BY <4>3, <4>5 DEF Counts
    <3> QED BY <1>1, <3>1, <3>2 DEF Fine
  <2> QED BY <2>1, <2>2
<1> QED BY <1>6, <1>7, <1>11 DEF EchoInv

LEMMA EchoSend ==
    ASSUME EchoInv, NEW c \in EchoClient, Echo!Send(c) PROVE EchoInv'
<1> DEFINE p == [from |-> c, text |-> IF pc[c] = "exit" THEN Echo!Exit
                                     ELSE [run |-> run[c], n |-> messages[c]]]
<1>1. /\ pc[c] \in {"send", "exit"} /\ net' = Append(net, p)
      /\ pc' = [pc EXCEPT ![c] = IF leaving[c] THEN "off" ELSE "recv"]
      /\ head' = head /\ inbox' = inbox /\ leaving' = leaving /\ messages' = messages
      /\ run' = run /\ echoed' = echoed /\ signalled' = signalled /\ fresh' = fresh
      /\ crowded' = crowded
  BY DEF Echo!Send
<1>2. EchoTypes
  BY DEF EchoInv
<1>3. /\ p.from = c /\ (pc[c] = "exit" => p.text = Echo!Exit)
      /\ (pc[c] = "send" => p.text = Latest(c) /\ p.text \in Echo!Text /\ p.text # Echo!Exit)
  <2>1. ASSUME pc[c] = "send" PROVE /\ p.text = Latest(c) /\ p.text \in Echo!Text
                                    /\ p.text # Echo!Exit
    <3>1. run[c] \in 1 .. MaxRuns /\ messages[c] \in 1 .. MaxMessages
      BY <1>2, <2>1, EchoTyped, EchoConstants
    <3>2. p.text = [run |-> run[c], n |-> messages[c]]
      BY <2>1
    <3>3. run[c] # 0
      BY <3>1
    <3> QED BY <3>1, <3>2, <3>3 DEF Latest, Echo!Text, Echo!Exit
  <2> QED BY <2>1
<1>4. p \in Echo!Packet
  BY <1>1, <1>3 DEF Echo!Packet
<1>5. ASSUME NEW d \in EchoClient, d # c PROVE Fine(d)'
  <2>1. pc'[d] = pc[d] /\ p.from # d
    BY <1>1, <1>2, <1>3, <1>5 DEF EchoTypes
  <2> HIDE DEF p
  <2> QED BY <1>1, <1>2, <1>4, <2>1, FineOther DEF EchoInv
<1> HIDE DEF p
<1>6. /\ net' \in Seq(Echo!Packet) /\ Len(net) \in Nat
      /\ From(c)' = From(c) \cup {Len(net) + 1}
      /\ Mail(c)' = Mail(c) \cup (IF p.text = Echo!Exit THEN {} ELSE {Len(net) + 1})
      /\ \A k \in 1 .. Len(net) : net'[k] = net[k]
      /\ net'[Len(net) + 1] = p
  BY <1>1, <1>2, <1>3, <1>4, NetMore
<1>7. pc'[c] = (IF leaving[c] THEN "off" ELSE "recv")
  BY <1>1, <1>2 DEF EchoTypes
<1>8. EchoTypes'
  BY <1>1, <1>2, <1>6, <1>7, EchoTyped DEF EchoTypes
<1>9. Latest(c)' = Latest(c)
  BY <1>1 DEF Latest
<1>10. Outstanding(c) => Mail(c) = {} /\ inbox[c] = <<>>
  BY <1>1 DEF Outstanding
<1>11. ASSUME Outstanding(c), pc[c] = "exit" \/ ~ leaving[c] PROVE Outstanding(c)'
  <2>1. CASE pc[c] = "exit"
    BY <1>1, <1>3, <1>6, <1>10, <1>11, <2>1 DEF Outstanding
  <2>2. CASE pc[c] = "send" /\ ~ leaving[c]
    <3>1. Mail(c)' = {Len(net) + 1} /\ pc'[c] = "recv" /\ inbox'[c] = <<>>
      BY <1>1, <1>3, <1>6, <1>7, <1>10, <1>11, <2>2
    <3> QED BY <1>3, <1>6, <1>9, <2>2, <3>1 DEF Outstanding
  <2> QED BY <1>1, <1>11, <2>1, <2>2
<1>12. Printed(c) => Printed(c)'
  BY <1>1, <1>2, <1>7, EchoTyped DEF Printed
<1>13. Fine(c)'
  <2>1. ASSUME c \notin signalled PROVE Calm(c)'
    <3>1. Calm(c)
      BY <2>1 DEF EchoInv, Fine
    <3>2. pc[c] = "exit" \/ ~ leaving[c]
      BY <1>1, <3>1 DEF Calm
    <3> QED BY <1>1, <1>7, <1>11, <1>12, <3>1, <3>2 DEF Calm
  <2>2. ASSUME c \in fresh \ crowded, ~ leaving[c] PROVE Working(c)'
    <3>1. Working(c)
      BY <2>2 DEF EchoInv, Fine
    <3>2. pc[c] = "send" /\ pc'[c] = "recv"
      BY <1>1, <1>2, <1>7, <2>2, EchoTyped
    <3>3. From(c)' = Mail(c)' /\ inbox'[c] = <<>>
      BY <1>1, <1>3, <1>6, <1>10, <3>1, <3>2 DEF Working
    <3>4. Numbered(c, messages[c] - 1)'
      BY <1>1, <3>1, <3>2 DEF Working, Numbered
    <3> QED BY <1>1, <1>11, <1>12, <2>2, <3>1, <3>2, <3>3, <3>4 DEF Working
  <2>3. Counts(c) => Counts(c)'
    BY <1>1 DEF Counts
  <2> QED BY <1>1, <2>1, <2>2, <2>3 DEF EchoInv, Fine
<1> QED BY <1>5, <1>8, <1>13 DEF EchoInv

LEMMA EchoInterrupt ==
    ASSUME EchoInv, NEW c \in EchoClient, Echo!Interrupt(c) PROVE EchoInv'
<1> DEFINE p == [from |-> c, text |-> Echo!Exit]
<1>1. /\ signalled' = signalled \cup {c} /\ net' = Append(net, p)
      /\ leaving' = [leaving EXCEPT ![c] = TRUE]
      /\ pc' = pc \/ pc' = [pc EXCEPT ![c] = "off"]
      /\ head' = head /\ inbox' = inbox /\ messages' = messages
      /\ run' = run /\ echoed' = echoed /\ fresh' = fresh /\ crowded' = crowded
  BY DEF Echo!Interrupt
<1>2. EchoTypes
  BY DEF EchoInv
<1>3. p \in Echo!Packet /\ p.from = c
  BY DEF Echo!Packet
<1> HIDE DEF p
<1>4. ASSUME NEW d \in EchoClient, d # c PROVE Fine(d)'
  <2>1. pc'[d] = pc[d] /\ leaving'[d] = leaving[d] /\ p.from # d
    BY <1>1, <1>2, <1>3, <1>4 DEF EchoTypes
  <2> QED BY <1>1, <1>2, <1>3, <2>1, FineOther DEF EchoInv
<1>5. net' \in Seq(Echo!Packet)
  BY <1>1, <1>2, <1>3, NetMore
<1>6. leaving'[c] = TRUE /\ (pc'[c] = pc[c] \/ pc'[c] = "off")
  BY <1>1, <1>2 DEF EchoTypes
<1>7. EchoTypes'
  BY <1>1, <1>2, <1>5, <1>6, EchoTyped, ZenonT(40) DEF EchoTypes
<1>8. Counts(c) => Counts(c)'
  BY <1>1 DEF Counts
<1>9. Fine(c)'
  BY <1>1, <1>6, <1>8 DEF EchoInv, Fine
<1> QED BY <1>4, <1>7, <1>9 DEF EchoInv

\* A client that has not run MaxRuns times.
LEMMA RunsLeft ==
    ASSUME EchoTypes, NEW c \in EchoClient, Echo!Cardinality(Echo!Runs) < MaxRuns
    PROVE  run[c] < MaxRuns
<1> DEFINE own == {c} \X (1 .. MaxRuns)
<1>1. SUFFICES ASSUME run[c] = MaxRuns PROVE FALSE
  BY EchoConstants, EchoTyped
<1>2. own \subseteq Echo!Runs
  BY <1>1 DEF Echo!Runs
<1>3. /\ IsFiniteSet(1 .. MaxRuns) /\ Cardinality(1 .. MaxRuns) = MaxRuns
      /\ IsFiniteSet({c}) /\ Cardinality({c}) = 1
  <2>1. MaxRuns \in Int /\ 1 \in Int
    BY EchoConstants
  <2>2. IsFiniteSet(1 .. MaxRuns)
    BY <2>1, FS_Interval
  <2>3. Cardinality(1 .. MaxRuns) = IF 1 > MaxRuns THEN 0 ELSE MaxRuns - 1 + 1
    BY <2>1, FS_Interval
  <2>4. Cardinality(1 .. MaxRuns) = MaxRuns
    BY <2>3, EchoConstants
  <2> QED BY <2>2, <2>4, FS_Singleton
<1>4. IsFiniteSet(own) /\ Cardinality(own) = MaxRuns
  <2>1. IsFiniteSet(own) /\ Cardinality(own) = 1 * MaxRuns
    BY <1>3, FS_Product, ZenonT(40)
  <2> QED BY <2>1, EchoConstants
<1>5. IsFiniteSet(Echo!Runs)
  <2>1. IsFiniteSet(EchoClient \X (1 .. MaxRuns))
    BY <1>3, EchoConstants, FS_Product
  <2> QED BY <2>1, FS_Subset DEF Echo!Runs
<1>6. Cardinality(Echo!Runs) \in Nat /\ Cardinality(own) <= Cardinality(Echo!Runs)
  BY <1>2, <1>5, FS_Subset, FS_CardinalityType
<1>7. Echo!Cardinality(Echo!Runs) = Cardinality(Echo!Runs)
  BY DEF Echo!Cardinality, Cardinality
<1> HIDE DEF own
<1> QED BY <1>4, <1>6, <1>7, EchoConstants

LEMMA EchoStart ==
    ASSUME EchoInv, NEW c \in EchoClient, Echo!Start(c) PROVE EchoInv'
<1>1. /\ run' = [run EXCEPT ![c] = @ + 1] /\ pc' = [pc EXCEPT ![c] = "input"]
      /\ leaving' = [leaving EXCEPT ![c] = FALSE] /\ messages' = [messages EXCEPT ![c] = 0]
      /\ echoed' = [echoed EXCEPT ![c] = <<>>] /\ inbox' = [inbox EXCEPT ![c] = <<>>]
      /\ fresh' = IF (head # NoClient /\ head.client = c) \/ From(c) # {}
                    THEN fresh \ {c} ELSE fresh \cup {c}
      /\ crowded' = crowded \ {c} /\ net' = net /\ head' = head /\ signalled' = signalled
  BY DEF Echo!Start, From
<1>2. EchoTypes /\ pc[c] = "off"
  BY DEF EchoInv, Echo!Start
<1>3. run[c] < MaxRuns
  BY <1>2, RunsLeft DEF Echo!Start
<1>4. /\ <<>> \in Seq(EchoReply) /\ Len(<<>>) = 0
  OBVIOUS
<1>5. /\ run'[c] = run[c] + 1 /\ pc'[c] = "input" /\ leaving'[c] = FALSE
      /\ messages'[c] = 0 /\ echoed'[c] = <<>> /\ inbox'[c] = <<>>
      /\ Len(echoed'[c]) = 0
  BY <1>1, <1>2, <1>4 DEF EchoTypes
<1>6. EchoTypes'
  BY <1>1, <1>2, <1>3, <1>4, <1>5, EchoTyped, EchoConstants DEF EchoTypes
<1>7. ASSUME NEW d \in EchoClient, d # c PROVE Fine(d)'
  <2>1. /\ run'[d] = run[d] /\ pc'[d] = pc[d] /\ leaving'[d] = leaving[d]
        /\ messages'[d] = messages[d] /\ echoed'[d] = echoed[d] /\ inbox'[d] = inbox[d]
        /\ d \in fresh' \ crowded' => d \in fresh \ crowded
    BY <1>1, <1>2, <1>7 DEF EchoTypes
  <2> QED BY <1>1, <1>2, <2>1, FineOther DEF EchoInv
<1>8. From(c)' = From(c) /\ Mail(c)' = Mail(c)
  BY <1>1 DEF From, Mail, Echo!Exit
<1>9. Printed(c)' /\ Counts(c)'
  BY <1>5 DEF Printed, Counts
<1>10. ASSUME Mail(c) = {} PROVE Outstanding(c)'
  BY <1>5, <1>8, <1>10 DEF Outstanding
<1>11. ASSUME c \notin signalled PROVE Calm(c)'
  <2>1. Mail(c) = {}
    BY <1>2, <1>11 DEF EchoInv, Fine, Calm, Outstanding
  <2> QED BY <1>5, <1>9, <1>10, <2>1 DEF Calm
<1>12. ASSUME c \in fresh' PROVE Working(c)'
  <2>1. From(c) = {} /\ (head = NoClient \/ head.client # c)
    BY <1>1, <1>12
  <2>2. Mail(c) = {}
    BY <2>1 DEF Mail
  <2> QED BY <1>1, <1>5, <1>8, <1>9, <1>10, <2>1, <2>2 DEF Working, Numbered
<1>13. Fine(c)'
  BY <1>1, <1>9, <1>11, <1>12 DEF Fine
<1> QED BY <1>6, <1>7, <1>13 DEF EchoInv

\* Whoever the first datagram is not from, and who does not wait for an answer to it.
LEMMA FineLess ==
    ASSUME EchoInv, NEW d \in EchoClient, net # <<>>, net' = Tail(net),
           pc' = pc, leaving' = leaving, messages' = messages, run' = run, echoed' = echoed,
           inbox'[d] = inbox[d], signalled' = signalled, fresh' = fresh, crowded \subseteq crowded',
           leaving[d] \/ d \notin fresh' \ crowded' \/ \A k : Numbered(d, k)' <=> Numbered(d, k)
    PROVE  Fine(d)'
<1>1. EchoTypes /\ Fine(d) /\ 1 \in {0, 1}
  BY DEF EchoInv
<1>2. /\ \A k \in From(d)' : k + 1 \in From(d) /\ net'[k] = net[k + 1]
      /\ \A k \in Mail(d)' : k + 1 \in Mail(d) /\ net'[k] = net[k + 1]
      /\ From(d) = Mail(d) => From(d)' = Mail(d)'
  BY <1>1, NetLess
<1> QED BY <1>1, <1>2, FineKept

LEMMA EchoLose ==
    ASSUME EchoInv, Echo!Lose PROVE EchoInv'
<1>1. /\ net # <<>> /\ net' = Tail(net)
      /\ head' = head /\ inbox' = inbox /\ pc' = pc /\ leaving' = leaving
      /\ messages' = messages /\ run' = run /\ echoed' = echoed
      /\ signalled' = signalled /\ fresh' = fresh /\ crowded' = crowded
  BY DEF Echo!Lose
<1>2. EchoTypes
  BY DEF EchoInv
<1>3. net' \in Seq(Echo!Packet)
  BY <1>1, <1>2, NetLess
<1>4. EchoTypes'
  BY <1>1, <1>2, <1>3 DEF EchoTypes
<1>5. ASSUME NEW d \in EchoClient PROVE Fine(d)'
  <2>1. \A k : Numbered(d, k)' <=> Numbered(d, k)
    BY <1>1 DEF Numbered
  <2> QED BY <1>1, <2>1, FineLess
<1> QED BY <1>4, <1>5 DEF EchoInv

LEMMA EchoServe ==
    ASSUME EchoInv, Echo!Serve PROVE EchoInv'
<1> PICK p, c : p = Head(net) /\ c = p.from
  OBVIOUS
<1> DEFINE known == head # NoClient /\ head.client = c
           count == IF known THEN head.count + 1 ELSE 1
           answer == [text |-> p.text, count |-> count]
           reaches == p.text # Echo!Exit /\ pc[c] # "off"
<1>1. /\ net # <<>> /\ net' = Tail(net)
      /\ head' = IF head # NoClient /\ ~ known THEN head
                 ELSE IF p.text = Echo!Exit THEN NoClient ELSE [client |-> c, count |-> count]
      /\ inbox' = IF reaches THEN [inbox EXCEPT ![c] = Append(@, answer)] ELSE inbox
      /\ crowded' = IF head # NoClient /\ ~ known THEN crowded \cup {c} ELSE crowded
      /\ pc' = pc /\ leaving' = leaving /\ messages' = messages /\ run' = run
      /\ echoed' = echoed /\ signalled' = signalled /\ fresh' = fresh
  <2>1. /\ net # <<>> /\ net' = Tail(net) /\ head' = Echo!List(p)
        /\ inbox' = IF reaches THEN [inbox EXCEPT ![c] = Append(@, answer)] ELSE inbox
        /\ crowded' = IF head # NoClient /\ ~ known THEN crowded \cup {c} ELSE crowded
        /\ pc' = pc /\ leaving' = leaving /\ messages' = messages /\ run' = run
        /\ echoed' = echoed /\ signalled' = signalled /\ fresh' = fresh
    BY DEF Echo!Serve, Echo!Answers, Echo!Answer, Echo!Known, Echo!Count
  <2>2. Echo!List(p) = IF head # NoClient /\ ~ known THEN head
                 ELSE IF p.text = Echo!Exit THEN NoClient ELSE [client |-> c, count |-> count]
    BY DEF Echo!List, Echo!Known, Echo!Count
  <2> QED BY <2>1, <2>2
<1>2. EchoTypes
  BY DEF EchoInv
<1>3. /\ net' \in Seq(Echo!Packet) /\ Len(net) \in Nat \ {0} /\ p = net[1] /\ p \in Echo!Packet
  BY <1>1, <1>2, NetLess
<1>4. /\ c \in EchoClient /\ p.text \in Echo!Text \cup {Echo!Exit} /\ count \in Nat \ {0}
      /\ p.text # Echo!Exit => answer \in EchoReply
      /\ head = NoClient \/ (head.client \in EchoClient /\ head.count \in Nat \ {0}
                             /\ head = [client |-> head.client, count |-> head.count])
  <2>1. head = NoClient \/ (head.client \in EchoClient /\ head.count \in Nat \ {0}
                             /\ head = [client |-> head.client, count |-> head.count])
    BY <1>2 DEF EchoTypes
  <2>2. c \in EchoClient /\ p.text \in Echo!Text \cup {Echo!Exit}
    BY <1>3 DEF Echo!Packet
  <2>3. count \in Nat \ {0}
    BY <2>1
  <2> QED BY <2>1, <2>2, <2>3 DEF EchoReply
<1>5. 1 \in From(c) /\ (p.text # Echo!Exit => 1 \in Mail(c))
  <2>1. 1 \in 1 .. Len(net)
    BY <1>3
  <2> QED BY <1>3, <2>1 DEF From, Mail
<1> HIDE DEF answer
<1>6. head' = NoClient \/ head' \in [client : EchoClient, count : Nat \ {0}]
  BY <1>1, <1>2, <1>4 DEF EchoTypes
<1>7. inbox' \in [EchoClient -> Seq(EchoReply)]
  BY <1>1, <1>2, <1>4 DEF EchoTypes
<1>8. crowded' \subseteq EchoClient /\ crowded \subseteq crowded'
  BY <1>1, <1>2, <1>4 DEF EchoTypes
<1>9. EchoTypes'
  BY <1>1, <1>2, <1>3, <1>6, <1>7, <1>8 DEF EchoTypes
<1>10. ASSUME NEW d \in EchoClient, d # c PROVE Fine(d)'
  <2>1. inbox'[d] = inbox[d]
    BY <1>1, <1>2, <1>10 DEF EchoTypes
  <2>2. head # NoClient /\ ~ known => head' = head
    BY <1>1
  <2>3. ASSUME head = NoClient \/ known
        PROVE  (head' = NoClient \/ head'.client = c) /\ (head = NoClient \/ head.client = c)
    <3>1. head' = NoClient \/ head' = [client |-> c, count |-> count]
      BY <1>1, <2>3
    <3> QED BY <2>3, <3>1
  <2>4. /\ \A k : head = [client |-> d, count |-> k] => head.client = d
        /\ \A k : head' = [client |-> d, count |-> k] => head'.client = d
    OBVIOUS
  <2>5. ASSUME head = NoClient \/ known, NEW k PROVE Numbered(d, k)' <=> Numbered(d, k)
    <3>1. head = NoClient \/ head.client # d
      BY <1>10, <2>3, <2>5
    <3>2. head' = NoClient \/ head'.client # d
      <4>1. head' = NoClient \/ head'.client = c
        BY <2>3, <2>5
      <4> QED BY <1>10, <4>1
    <3> QED BY <2>4, <3>1, <3>2 DEF Numbered
  <2>6. \A k : Numbered(d, k)' <=> Numbered(d, k)
    BY <2>2, <2>5 DEF Numbered
  <2> QED BY <1>1, <1>8, <2>1, <2>6, FineLess
<1>11. ASSUME ~ reaches PROVE Fine(c)'
  <2>1. c \in fresh \ crowded => leaving[c]
    <3> SUFFICES ASSUME c \in fresh \ crowded, ~ leaving[c] PROVE FALSE
      OBVIOUS
    <3>1. Working(c)
      BY <1>4 DEF EchoInv, Fine
    <3>2. pc[c] # "off" /\ From(c) = Mail(c)
      BY <3>1 DEF Working
    <3>3. 1 \in Mail(c) /\ p.text = Echo!Exit
      BY <1>5, <1>11, <3>2
    <3> QED BY <1>3, <3>3 DEF Mail
  <2>2. inbox'[c] = inbox[c]
    BY <1>1, <1>11
  <2>3. leaving[c] \/ c \notin fresh' \ crowded'
    BY <1>1, <1>8, <2>1
  <2> QED BY <1>1, <1>4, <1>8, <2>2, <2>3, FineLess
<1>12. ASSUME reaches PROVE Fine(c)'
  <2>1. 1 \in Mail(c) /\ inbox'[c] = Append(inbox[c], answer)
    BY <1>1, <1>2, <1>4, <1>5, <1>12 DEF EchoTypes
  <2>2. Latest(c)' = Latest(c) /\ (Printed(c) <=> Printed(c)') /\ (Counts(c) <=> Counts(c)')
    BY <1>1 DEF Latest, Printed, Counts
  <2>3. ASSUME Outstanding(c)
        PROVE  /\ Outstanding(c)' /\ Mail(c)' = {} /\ pc[c] = "recv" /\ inbox'[c] = <<answer>>
               /\ answer.count = count
    <3>1. /\ pc[c] = "recv" /\ inbox[c] = <<>> /\ p.text = Latest(c)
          /\ \A k \in Mail(c) : k = 1
      BY <1>3, <2>1, <2>3 DEF Outstanding
    <3>2. \A k \in Mail(c)' : k + 1 \in Mail(c) /\ k + 1 # 1
      BY <1>1, <1>2, NetLess
    <3>3. Mail(c)' = {}
      BY <3>1, <3>2
    <3>4. inbox'[c] = <<answer>>
      BY <2>1, <3>1
    <3>5. /\ inbox'[c] # <<>> /\ Len(inbox'[c]) = 1 /\ inbox'[c][1] = answer
      BY <3>4
    <3>6. answer.text = p.text /\ answer.count = count
      BY DEF answer
    <3>7. inbox'[c][1].text = Latest(c)'
      BY <2>2, <3>1, <3>5, <3>6
    <3> QED BY <1>1, <3>1, <3>3, <3>4, <3>5, <3>6, <3>7 DEF Outstanding
  <2>4. c \notin signalled' => Calm(c)'
    BY <1>1, <1>4, <2>2, <2>3 DEF EchoInv, Fine, Calm
  <2>5. ASSUME c \in fresh' \ crowded', ~ leaving[c] PROVE Working(c)'
    <3>1. c \in fresh \ crowded /\ (head = NoClient \/ known)
      BY <1>1, <1>8, <2>5
    <3>2. Working(c)
      BY <1>4, <2>5, <3>1 DEF EchoInv, Fine
    <3>3. /\ Outstanding(c) /\ Printed(c) /\ From(c) = Mail(c) /\ Numbered(c, messages[c] - 1)
      BY <2>1, <3>2 DEF Working
    <3>4. messages[c] \in Nat /\ messages[c] > 0
      BY <1>2, <1>4, <2>3, <3>3, EchoTyped
    <3>5. count = messages[c]
      <4>1. CASE messages[c] - 1 = 0
        BY <3>1, <3>3, <3>4, <4>1 DEF Numbered
      <4>2. CASE messages[c] - 1 # 0
        <5>1. head = [client |-> c, count |-> messages[c] - 1]
          BY <3>3, <4>2 DEF Numbered
        <5>2. head # NoClient /\ head.client = c /\ head.count = messages[c] - 1
          BY <5>1, <3>3, <4>2 DEF Numbered
        <5> QED BY <3>4, <5>2
      <4> QED BY <4>1, <4>2
    <3>6. head' = [client |-> c, count |-> messages[c]] /\ head' # NoClient
      BY <1>1, <1>4, <1>12, <3>1, <3>4, <3>5, EchoNull
    <3>7. Numbered(c, messages[c])'
      BY <1>1, <3>4, <3>6 DEF Numbered
    <3>8. From(c)' = Mail(c)' /\ Mail(c)' = {} /\ pc'[c] = "recv"
      BY <1>1, <1>2, <2>3, <3>3, NetLess
    <3>9. inbox'[c][1].count = messages'[c]
      BY <1>1, <2>3, <3>3, <3>5
    <3> QED BY <2>2, <2>3, <3>3, <3>7, <3>8, <3>9 DEF Working
  <2> QED BY <1>1, <1>4, <1>8, <2>2, <2>4, <2>5 DEF EchoInv, Fine
<1> QED BY <1>9, <1>10, <1>11, <1>12 DEF EchoInv

LEMMA EchoStep == EchoInv /\ [Echo!Next]_EchoVars => EchoInv'
<1> SUFFICES ASSUME EchoInv, [Echo!Next]_EchoVars PROVE EchoInv'
  OBVIOUS
<1>1. CASE UNCHANGED EchoVars
  BY <1>1 DEF EchoInv, EchoTypes, Fine, Calm, Counts, Working, Outstanding, Printed, Numbered, Mail,
    From, Latest, EchoVars, Echo!Exit
<1>2. CASE Echo!Next
  BY <1>2, EchoServe, EchoLose, EchoStart, EchoType, EchoTypeExit, EchoSend, EchoReceive,
    EchoInterrupt DEF Echo!Next
<1> QED BY <1>1, <1>2

-----------------------------------------------------------------------------
(* EchoCount: the server counts no more messages than were sent. *)

\* The message n of a run is still to be sent.
Unsent(c, r, n) == r = run[c] /\ (n \notin 1 .. messages[c] \/ (n = messages[c] /\ pc[c] = "send"))

Datagram(x) == [from |-> x[1][1], text |-> [run |-> x[1][2], n |-> x[2]]]
Numbers == Echo!Runs \X (1 .. MaxMessages)

\* Messages, by run and number, that are past the net.
Past == {x \in Numbers : /\ ~ Unsent(x[1][1], x[1][2], x[2])
                         /\ \A k \in 1 .. Len(net) : net[k] # Datagram(x)}

NetSent ==
    /\ \A k \in 1 .. Len(net), p \in Echo!Packet : net[k] = p /\ p.text # Echo!Exit =>
          /\ p.text.run <= run[p.from]
          /\ ~ Unsent(p.from, p.text.run, p.text.n)
    /\ \A j, k \in 1 .. Len(net) : net[j] = net[k] /\ net[j].text # Echo!Exit => j = k

CountSmall == head # NoClient => head.count <= Cardinality(Past)

EchoCounted ==
    /\ Cardinality(Echo!Runs) <= MaxRuns
    /\ NetSent /\ CountSmall
    /\ restart \in [EchoClient -> BOOLEAN]

LEMMA FiniteRuns ==
    /\ IsFiniteSet(Echo!Runs) /\ Cardinality(Echo!Runs) \in Nat
    /\ IsFiniteSet(Numbers)
    /\ Cardinality(Numbers) = Cardinality(Echo!Runs) * MaxMessages
    /\ IsFiniteSet(Past) /\ Cardinality(Past) \in Nat /\ Cardinality(Past) <= Cardinality(Numbers)
<1>1. /\ MaxRuns \in Int /\ MaxMessages \in Int /\ 1 \in Int
  BY EchoConstants
<1>2. IsFiniteSet(1 .. MaxRuns) /\ IsFiniteSet(1 .. MaxMessages)
  BY <1>1, FS_Interval
<1>3. Cardinality(1 .. MaxMessages) = IF 1 > MaxMessages THEN 0 ELSE MaxMessages - 1 + 1
  BY <1>1, FS_Interval
<1>4. Cardinality(1 .. MaxMessages) = MaxMessages
  BY <1>3, EchoConstants
<1>5. IsFiniteSet(EchoClient \X (1 .. MaxRuns))
  BY <1>2, EchoConstants, FS_Product
<1>6. IsFiniteSet(Echo!Runs) /\ Cardinality(Echo!Runs) \in Nat
  BY <1>5, FS_Subset, FS_CardinalityType DEF Echo!Runs
<1>7. IsFiniteSet(Numbers) /\ Cardinality(Numbers) = Cardinality(Echo!Runs) * MaxMessages
  BY <1>2, <1>4, <1>6, FS_Product DEF Numbers
<1>8. Past \subseteq Numbers
  BY DEF Past
<1> QED BY <1>6, <1>7, <1>8, FS_Subset, FS_CardinalityType

LEMMA NumbersOf ==
    ASSUME NEW x \in Numbers
    PROVE  /\ x[1] \in Echo!Runs /\ x[1][1] \in EchoClient /\ x[1][2] \in 1 .. MaxRuns
           /\ x[1] = <<x[1][1], x[1][2]>> /\ x[1][2] <= run[x[1][1]]
           /\ x[2] \in 1 .. MaxMessages /\ x = <<x[1], x[2]>>
  BY DEF Numbers, Echo!Runs

LEMMA CountRead == EchoInv /\ EchoCounted => Echo!TypeOK
<1> SUFFICES ASSUME EchoInv, EchoCounted PROVE Echo!TypeOK
  OBVIOUS
<1>1. EchoTypes
  BY DEF EchoInv
<1>2. ASSUME head # NoClient PROVE head \in [client : EchoClient, count : 1 .. MaxMessages * MaxRuns]
  <2>1. head \in [client : EchoClient, count : Nat \ {0}]
    BY <1>1, <1>2 DEF EchoTypes
  <2>2. head.count <= Cardinality(Past)
    BY <1>2 DEF EchoCounted, CountSmall
  <2>3. Cardinality(Echo!Runs) * MaxMessages <= MaxMessages * MaxRuns
    <3>1. \A i, j, n \in Nat : i <= j => i * n <= n * j
      OBVIOUS
    <3> QED BY <3>1, FiniteRuns, EchoConstants DEF EchoCounted
  <2>4. Cardinality(Past) \in Nat /\ Cardinality(Past) <= Cardinality(Echo!Runs) * MaxMessages
    BY FiniteRuns
  <2>5. Cardinality(Echo!Runs) * MaxMessages \in Nat /\ MaxMessages * MaxRuns \in Nat
    BY FiniteRuns, EchoConstants
  <2>6. head.count \in Nat \ {0}
    BY <2>1
  <2>7. head.count <= MaxMessages * MaxRuns
    BY <2>2, <2>3, <2>4, <2>5, <2>6
  <2>8. head.count \in 1 .. MaxMessages * MaxRuns
    BY <2>5, <2>6, <2>7
  <2> QED BY <2>1, <2>8
<1>3. /\ \A c \in EchoClient : Len(echoed[c]) <= messages[c]
      /\ inbox \in [EchoClient -> Seq(Echo!Reply)] /\ echoed \in [EchoClient -> Seq(Echo!Reply)]
  BY <1>1 DEF EchoTypes, EchoReply, Echo!Reply
<1> QED BY <1>1, <1>2, <1>3 DEF Echo!TypeOK, EchoTypes, EchoCounted

LEMMA AllNumbers == /\ IsFiniteSet((EchoClient \X (1 .. MaxRuns)) \X (1 .. MaxMessages))
                    /\ IsFiniteSet(EchoClient \X (1 .. MaxRuns))
<1>1. /\ MaxRuns \in Int /\ MaxMessages \in Int /\ 1 \in Int
  BY EchoConstants
<1>2. IsFiniteSet(1 .. MaxRuns) /\ IsFiniteSet(1 .. MaxMessages)
  BY <1>1, FS_Interval
<1>3. IsFiniteSet(EchoClient \X (1 .. MaxRuns))
  BY <1>2, EchoConstants, FS_Product
<1> QED BY <1>2, <1>3, FS_Product

\* As long as the head stays and no message comes back into the net, the count is small.
LEMMA CountKept ==
    ASSUME EchoTypes, CountSmall, head' = head, \A x \in Past : x \in Past'
    PROVE  CountSmall'
<1>1. IsFiniteSet(Past') /\ Cardinality(Past') \in Nat
  <2>1. Past' \subseteq (EchoClient \X (1 .. MaxRuns)) \X (1 .. MaxMessages)
    BY DEF Past, Numbers, Echo!Runs
  <2> QED BY <2>1, AllNumbers, FS_Subset, FS_CardinalityType
<1>2. Past \subseteq Past'
  OBVIOUS
<1>3. Cardinality(Past) <= Cardinality(Past') /\ Cardinality(Past) \in Nat
  BY <1>1, <1>2, FS_Subset, FS_CardinalityType
<1> QED BY <1>1, <1>3 DEF CountSmall, EchoTypes

LEMMA CountInit == Echo!Init => EchoCounted
<1> SUFFICES ASSUME Echo!Init PROVE EchoCounted
  OBVIOUS
<1>1. /\ net = <<>> /\ head = NoClient /\ run = [c \in EchoClient |-> 0]
      /\ restart \in [EchoClient -> BOOLEAN]
  BY DEF Echo!Init
<1>2. Echo!Runs = {}
  BY <1>1 DEF Echo!Runs
<1>3. Cardinality({}) = 0
  BY FS_EmptySet
<1> QED BY <1>1, <1>2, <1>3, EchoConstants DEF EchoCounted, NetSent, CountSmall

\* Steps that send nothing and start nothing.
LEMMA CountSame ==
    ASSUME EchoInv, EchoCounted, head' = head, net' = net, run' = run, restart' = restart,
           \A c \in EchoClient : \A r, n : Unsent(c, r, n)' => Unsent(c, r, n)
    PROVE  EchoCounted'
<1>1. Echo!Runs' = Echo!Runs /\ Numbers' = Numbers
  BY DEF Echo!Runs, Numbers
<1>2. NetSent'
  <2>1. \A p \in Echo!Packet : p.from \in EchoClient
    BY DEF Echo!Packet
  <2>2. NetSent
    BY DEF EchoCounted
  <2> QED BY <2>1, <2>2 DEF NetSent, Echo!Exit
<1>3. ASSUME NEW x \in Past PROVE x \in Past'
  <2>1. x \in Numbers' /\ ~ Unsent(x[1][1], x[1][2], x[2])'
    BY <1>1, NumbersOf DEF Past
  <2> QED BY <2>1 DEF Past, Datagram
<1>4. CountSmall'
  BY <1>3, CountKept DEF EchoInv, EchoCounted
<1> QED BY <1>1, <1>2, <1>4 DEF EchoCounted

\* A datagram more: the text "exit", or a message that was unsent.
LEMMA CountMore ==
    ASSUME EchoInv, EchoCounted, NEW p \in Echo!Packet, net' = Append(net, p), head' = head,
           run' = run, restart' = restart,
           \A c \in EchoClient : \A r, n : Unsent(c, r, n)' => Unsent(c, r, n),
           p.text # Echo!Exit => /\ Unsent(p.from, p.text.run, p.text.n)
                                 /\ ~ Unsent(p.from, p.text.run, p.text.n)'
    PROVE  EchoCounted'
<1>1. Echo!Runs' = Echo!Runs /\ Numbers' = Numbers
  BY DEF Echo!Runs, Numbers
<1>2. EchoTypes
  BY DEF EchoInv
<1>3. /\ Len(net) \in Nat /\ Len(net') = Len(net) + 1
      /\ \A k \in 1 .. Len(net) : net'[k] = net[k]
      /\ net'[Len(net) + 1] = p
  BY <1>2, AppendProperties, LenProperties DEF EchoTypes
<1>4. 1 .. Len(net') = (1 .. Len(net)) \cup {Len(net) + 1}
  BY <1>3
<1>5. p.text # Echo!Exit => p.text.run = run[p.from]
  BY DEF Unsent
<1>6. ASSUME NEW k \in 1 .. Len(net'), NEW q \in Echo!Packet, net'[k] = q, q.text # Echo!Exit
      PROVE  q.text.run <= run'[q.from] /\ ~ Unsent(q.from, q.text.run, q.text.n)'
  <2>1. CASE k \in 1 .. Len(net)
    <3>1. net[k] = q /\ q.from \in EchoClient
      BY <1>3, <1>6, <2>1 DEF Echo!Packet
    <3>2. q.text.run <= run[q.from] /\ ~ Unsent(q.from, q.text.run, q.text.n)
      BY <1>6, <2>1, <3>1 DEF EchoCounted, NetSent
    <3> QED BY <3>1, <3>2
  <2>2. CASE k = Len(net) + 1
    <3>1. q = p
      BY <1>3, <1>6, <2>2
    <3>2. q.text.run \in Nat
      BY <1>6 DEF Echo!Packet, Echo!Text
    <3> QED BY <1>5, <1>6, <3>1, <3>2
  <2> QED BY <1>4, <2>1, <2>2
<1>7. p.text # Echo!Exit => \A k \in 1 .. Len(net) : net[k] # p
  BY DEF EchoCounted, NetSent
<1>8. ASSUME NEW j \in 1 .. Len(net'), NEW k \in 1 .. Len(net'), net'[j] = net'[k],
             net'[j].text # Echo!Exit
      PROVE  j = k
  <2>1. CASE j \in 1 .. Len(net) /\ k \in 1 .. Len(net)
    BY <1>3, <1>8, <2>1 DEF EchoCounted, NetSent
  <2> QED BY <1>3, <1>4, <1>7, <1>8, <2>1
<1>9. NetSent'
  BY <1>6, <1>8 DEF NetSent, Echo!Exit
<1>10. ASSUME NEW x \in Past PROVE x \in Past'
  <2>1. x \in Numbers' /\ ~ Unsent(x[1][1], x[1][2], x[2])'
    BY <1>1, NumbersOf DEF Past
  <2>2. Datagram(x) # p
    <3> SUFFICES ASSUME Datagram(x) = p PROVE FALSE
      OBVIOUS
    <3>1. p.from = x[1][1] /\ p.text.run = x[1][2] /\ p.text.n = x[2]
      BY DEF Datagram
    <3>2. p.text # Echo!Exit
      BY <3>1 DEF Past, Numbers, Echo!Runs, Echo!Exit
    <3> QED BY <3>1, <3>2 DEF Past
  <2> QED BY <1>3, <1>4, <2>1, <2>2 DEF Past, Datagram
<1>11. CountSmall'
  BY <1>2, <1>10, CountKept DEF EchoCounted
<1> QED BY <1>1, <1>9, <1>11 DEF EchoCounted

LEMMA CountClients ==
    ASSUME EchoInv, EchoCounted, NEW c \in EchoClient,
           Echo!Type(c) \/ Echo!TypeExit(c) \/ Echo!Receive(c) \/ Echo!Send(c) \/ Echo!Interrupt(c)
    PROVE  EchoCounted'
<1>1. EchoTypes
  BY DEF EchoInv
<1>2. \A d \in EchoClient : d # c => pc'[d] = pc[d] /\ messages'[d] = messages[d]
  BY <1>1 DEF EchoTypes, Echo!Type, Echo!TypeExit, Echo!Receive, Echo!Send, Echo!Interrupt
<1>3. \A r, n : Unsent(c, r, n)' => Unsent(c, r, n)
  <2>1. CASE Echo!Type(c)
    <3>1. pc[c] = "input" /\ messages'[c] = messages[c] + 1 /\ pc'[c] = "send" /\ run' = run
      BY <1>1, <2>1 DEF Echo!Type, EchoTypes
    <3>2. messages[c] \in Nat
      BY <1>1, EchoTyped
    <3> QED BY <3>1, <3>2 DEF Unsent
  <2>2. CASE Echo!TypeExit(c) \/ Echo!Receive(c) \/ Echo!Send(c) \/ Echo!Interrupt(c)
    <3>1. messages' = messages /\ run' = run /\ (pc'[c] = "send" => pc[c] = "send")
      BY <1>1, <2>2 DEF Echo!TypeExit, Echo!Receive, Echo!Send, Echo!Interrupt, EchoTypes
    <3> QED BY <3>1 DEF Unsent
  <2> QED BY <2>1, <2>2
<1>4. \A d \in EchoClient : \A r, n : Unsent(d, r, n)' => Unsent(d, r, n)
  <2>1. run' = run
    BY DEF Echo!Type, Echo!TypeExit, Echo!Receive, Echo!Send, Echo!Interrupt
  <2> QED BY <1>2, <1>3, <2>1 DEF Unsent
<1>5. CASE Echo!Type(c) \/ Echo!TypeExit(c) \/ Echo!Receive(c)
  <2>1. head' = head /\ net' = net /\ run' = run /\ restart' = restart
    BY <1>5 DEF Echo!Type, Echo!TypeExit, Echo!Receive
  <2> QED BY <1>4, <2>1, CountSame
<1>6. CASE Echo!Send(c)
  <2> PICK p : p = [from |-> c, text |-> IF pc[c] = "exit" THEN Echo!Exit
                                         ELSE [run |-> run[c], n |-> messages[c]]]
    OBVIOUS
  <2>1. /\ net' = Append(net, p) /\ head' = head /\ run' = run /\ restart' = restart
        /\ messages' = messages /\ pc[c] \in {"send", "exit"} /\ pc'[c] \in {"off", "recv"}
    BY <1>1, <1>6 DEF Echo!Send, EchoTypes
  <2>2. p \in Echo!Packet /\ p.from = c
    <3>1. ASSUME pc[c] = "send" PROVE [run |-> run[c], n |-> messages[c]] \in Echo!Text
      <4>1. run[c] \in 1 .. MaxRuns /\ messages[c] \in 1 .. MaxMessages
        BY <1>1, <3>1, EchoTyped, EchoConstants
      <4> QED BY <4>1 DEF Echo!Text
    <3> QED BY <2>1, <3>1 DEF Echo!Packet
  <2>3. ASSUME p.text # Echo!Exit
        PROVE  /\ Unsent(p.from, p.text.run, p.text.n)
               /\ ~ Unsent(p.from, p.text.run, p.text.n)'
    <3>1. pc[c] = "send" /\ p.text.run = run[c] /\ p.text.n = messages[c]
      BY <2>1, <2>3
    <3>2. messages[c] \in 1 .. messages[c]
      BY <1>1, <3>1, EchoTyped
    <3> QED BY <2>1, <2>2, <3>1, <3>2 DEF Unsent
  <2> QED BY <1>4, <2>1, <2>2, <2>3, CountMore
<1>7. CASE Echo!Interrupt(c)
  <2> DEFINE p == [from |-> c, text |-> Echo!Exit]
  <2>1. /\ net' = Append(net, p) /\ head' = head /\ run' = run /\ restart' = restart
    BY <1>7 DEF Echo!Interrupt
  <2>2. p \in Echo!Packet /\ p.text = Echo!Exit
    BY DEF Echo!Packet
  <2> HIDE DEF p
  <2> QED BY <1>4, <2>1, <2>2, CountMore
<1> QED BY <1>5, <1>6, <1>7

LEMMA CountStarts ==
    ASSUME EchoInv, EchoCounted, NEW c \in EchoClient, Echo!Start(c)
    PROVE  EchoCounted'
<1>1. EchoTypes
  BY DEF EchoInv
<1>2. /\ pc[c] = "off" /\ run' = [run EXCEPT ![c] = @ + 1] /\ pc' = [pc EXCEPT ![c] = "input"]
      /\ messages' = [messages EXCEPT ![c] = 0]
      /\ net' = net /\ head' = head /\ restart' = restart
      /\ Echo!Cardinality(Echo!Runs) < MaxRuns
  BY DEF Echo!Start
<1>3. /\ run'[c] = run[c] + 1 /\ run[c] \in Nat /\ pc'[c] = "input" /\ messages'[c] = 0
      /\ \A d \in EchoClient : run[d] \in Nat /\ run'[d] \in Nat
      /\ \A d \in EchoClient : d # c => /\ run'[d] = run[d] /\ pc'[d] = pc[d]
                                        /\ messages'[d] = messages[d]
  BY <1>1, <1>2, EchoTyped DEF EchoTypes
<1>4. Cardinality(Echo!Runs') <= MaxRuns
  <2>1. Echo!Runs' \subseteq Echo!Runs \cup {<<c, run[c] + 1>>}
    BY <1>3 DEF Echo!Runs
  <2>2. Cardinality(Echo!Runs) < MaxRuns /\ Cardinality(Echo!Runs) \in Nat /\ IsFiniteSet(Echo!Runs)
    <3>1. Echo!Cardinality(Echo!Runs) = Cardinality(Echo!Runs)
      BY DEF Echo!Cardinality, Cardinality
    <3> QED BY <1>2, <3>1, FiniteRuns
  <2>3. /\ IsFiniteSet(Echo!Runs \cup {<<c, run[c] + 1>>})
        /\ Cardinality(Echo!Runs \cup {<<c, run[c] + 1>>}) <= Cardinality(Echo!Runs) + 1
    <3> PICK x : x = <<c, run[c] + 1>>
      OBVIOUS
    <3>1. /\ IsFiniteSet(Echo!Runs \cup {x})
          /\ Cardinality(Echo!Runs \cup {x}) = IF x \in Echo!Runs THEN Cardinality(Echo!Runs)
                                                ELSE Cardinality(Echo!Runs) + 1
      BY <2>2, FS_AddElement
    <3> QED BY <2>2, <3>1
  <2>4. /\ Cardinality(Echo!Runs') <= Cardinality(Echo!Runs \cup {<<c, run[c] + 1>>})
        /\ Cardinality(Echo!Runs') \in Nat
        /\ Cardinality(Echo!Runs \cup {<<c, run[c] + 1>>}) \in Nat
    BY <2>1, <2>3, FS_Subset, FS_CardinalityType
  <2> QED BY <2>2, <2>3, <2>4, EchoConstants
<1>5. ASSUME NEW d \in EchoClient, NEW r \in Nat, NEW n, r <= run[d], ~ Unsent(d, r, n)
      PROVE  r <= run'[d] /\ ~ Unsent(d, r, n)'
  <2>1. CASE d = c
    BY <1>3, <1>5, <2>1 DEF Unsent
  <2>2. CASE d # c
    BY <1>3, <1>5, <2>2 DEF Unsent
  <2> QED BY <2>1, <2>2
<1>6. NetSent'
  <2>1. \A p \in Echo!Packet : p.text # Echo!Exit => p.from \in EchoClient /\ p.text.run \in Nat
    BY DEF Echo!Packet, Echo!Text
  <2>2. NetSent
    BY DEF EchoCounted
  <2> QED BY <1>2, <1>5, <2>1, <2>2 DEF NetSent, Echo!Exit
<1>7. ASSUME NEW x \in Past PROVE x \in Past'
  <2>1. x \in Numbers /\ ~ Unsent(x[1][1], x[1][2], x[2])
    BY DEF Past
  <2>2. /\ x[1][1] \in EchoClient /\ x[1][2] \in 1 .. MaxRuns /\ x[1] = <<x[1][1], x[1][2]>>
        /\ x[1][2] <= run[x[1][1]] /\ x[2] \in 1 .. MaxMessages /\ x = <<x[1], x[2]>>
    BY <2>1, NumbersOf
  <2>3. x[1][2] \in Nat
    BY <2>2, EchoConstants
  <2>4. x[1][2] <= run'[x[1][1]] /\ ~ Unsent(x[1][1], x[1][2], x[2])'
    BY <1>5, <2>1, <2>2, <2>3
  <2>5. x[1] \in Echo!Runs'
    BY <2>2, <2>4 DEF Echo!Runs
  <2>6. x \in Numbers'
    BY <2>2, <2>5 DEF Numbers
  <2> QED BY <1>2, <2>4, <2>6 DEF Past, Datagram
<1>8. CountSmall'
  BY <1>1, <1>2, <1>7, CountKept DEF EchoCounted
<1> QED BY <1>2, <1>4, <1>6, <1>8 DEF EchoCounted

\* The net without its first datagram.
LEMMA CountLess ==
    ASSUME EchoInv, EchoCounted, net # <<>>, net' = Tail(net),
           run' = run, messages' = messages, pc' = pc, restart' = restart
    PROVE  /\ Cardinality(Echo!Runs') <= MaxRuns /\ NetSent' /\ restart' \in [EchoClient -> BOOLEAN]
           /\ \A x \in Past : x \in Past'
           /\ \A x \in Numbers : Datagram(x) = Head(net) => x \in Past' /\ x \notin Past
<1>1. EchoTypes
  BY DEF EchoInv
<1>2. /\ Len(net) \in Nat \ {0} /\ Head(net) = net[1] /\ Len(net') = Len(net) - 1
      /\ \A k \in 1 .. Len(net') : net'[k] = net[k + 1]
  BY <1>1, HeadTailProperties, LenProperties, EmptySeq DEF EchoTypes
<1>3. \A k \in 1 .. Len(net') : k \in Nat /\ k + 1 \in 1 .. Len(net) /\ k + 1 # 1
  BY <1>2
<1>4. Echo!Runs' = Echo!Runs /\ Numbers' = Numbers /\ \A c, r, n : Unsent(c, r, n)' <=> Unsent(c, r, n)
  BY DEF Echo!Runs, Numbers, Unsent
<1>5. NetSent
  BY DEF EchoCounted
<1>6. ASSUME NEW j \in 1 .. Len(net'), NEW k \in 1 .. Len(net'), net'[j] = net'[k],
             net'[j].text # Echo!Exit
      PROVE  j = k
  <2>1. j + 1 = k + 1
    BY <1>2, <1>3, <1>5, <1>6 DEF NetSent
  <2> QED BY <1>3, <2>1
<1>7. NetSent'
  <2>1. ASSUME NEW k \in 1 .. Len(net'), NEW p \in Echo!Packet, net'[k] = p, p.text # Echo!Exit
        PROVE  p.text.run <= run'[p.from] /\ ~ Unsent(p.from, p.text.run, p.text.n)'
    BY <1>2, <1>3, <1>4, <1>5, <2>1 DEF NetSent
  <2> QED BY <1>6, <2>1 DEF NetSent, Echo!Exit
<1>8. \A x \in Past : x \in Past'
  BY <1>2, <1>3, <1>4 DEF Past, Datagram
<1>9. ASSUME NEW x \in Numbers, Datagram(x) = Head(net) PROVE x \in Past' /\ x \notin Past
  <2>1. 1 \in 1 .. Len(net) /\ net[1] = Datagram(x)
    BY <1>2, <1>9
  <2>2. Datagram(x).text # Echo!Exit /\ Datagram(x) \in Echo!Packet
    BY NumbersOf DEF Datagram, Echo!Exit, Echo!Packet, Echo!Text
  <2>3. ~ Unsent(x[1][1], x[1][2], x[2])
    BY <1>5, <2>1, <2>2 DEF NetSent, Datagram
  <2>4. ASSUME NEW k \in 1 .. Len(net') PROVE net'[k] # Datagram(x)
    BY <1>2, <1>3, <1>5, <2>1, <2>2 DEF NetSent
  <2> QED BY <1>4, <2>1, <2>3, <2>4 DEF Past, Datagram
<1> QED BY <1>4, <1>7, <1>8, <1>9 DEF EchoCounted

LEMMA CountLost == ASSUME EchoInv, EchoCounted, Echo!Lose PROVE EchoCounted'
<1>1. /\ net # <<>> /\ net' = Tail(net) /\ run' = run /\ messages' = messages /\ pc' = pc
      /\ restart' = restart /\ head' = head
  BY DEF Echo!Lose
<1>2. \A x \in Past : x \in Past'
  BY <1>1, CountLess
<1>3. CountSmall'
  BY <1>1, <1>2, CountKept DEF EchoCounted, EchoInv
<1>4. Cardinality(Echo!Runs') <= MaxRuns /\ NetSent' /\ restart' \in [EchoClient -> BOOLEAN]
  BY <1>1, CountLess
<1> QED BY <1>3, <1>4 DEF EchoCounted

LEMMA CountServed == ASSUME EchoInv, EchoCounted, Echo!Serve PROVE EchoCounted'
<1> PICK p : p = Head(net)
  OBVIOUS
<1>1. /\ net # <<>> /\ net' = Tail(net) /\ run' = run /\ messages' = messages /\ pc' = pc
      /\ restart' = restart
      /\ \/ head' = head \/ head' = NoClient
         \/ p.text # Echo!Exit /\ head' = [client |-> p.from, count |-> Echo!Count(p)]
  BY DEF Echo!Serve, Echo!List
<1>2. EchoTypes
  BY DEF EchoInv
<1>3. p \in Echo!Packet /\ p = net[1] /\ Len(net) \in Nat \ {0}
  BY <1>1, <1>2, NetLess
<1>4. \A x \in Past : x \in Past'
  BY <1>1, CountLess
<1>5. Cardinality(Echo!Runs') <= MaxRuns /\ NetSent' /\ restart' \in [EchoClient -> BOOLEAN]
  BY <1>1, CountLess
<1>6. ASSUME p.text # Echo!Exit, head' = [client |-> p.from, count |-> Echo!Count(p)]
      PROVE  CountSmall'
  <2> DEFINE x == <<<<p.from, p.text.run>>, p.text.n>>
  <2>1. /\ p.from \in EchoClient /\ p.text.run \in 1 .. MaxRuns /\ p.text.n \in 1 .. MaxMessages
        /\ p.text = [run |-> p.text.run, n |-> p.text.n] /\ p = [from |-> p.from, text |-> p.text]
    BY <1>3, <1>6 DEF Echo!Packet, Echo!Text
  <2>2. p.text.run <= run[p.from]
    <3>1. 1 \in 1 .. Len(net)
      BY <1>3
    <3> QED BY <1>3, <1>6, <3>1 DEF EchoCounted, NetSent
  <2>3. x \in Numbers /\ Datagram(x) = p
    BY <2>1, <2>2 DEF Numbers, Echo!Runs, Datagram
  <2> HIDE DEF x
  <2>4. x \in Past' /\ x \notin Past
    BY <1>1, <2>3, CountLess
  <2>5. Past \cup {x} \subseteq Past'
    BY <1>4, <2>4
  <2>6. IsFiniteSet(Past') /\ Cardinality(Past') \in Nat
    <3>1. Past' \subseteq (EchoClient \X (1 .. MaxRuns)) \X (1 .. MaxMessages)
      BY DEF Past, Numbers, Echo!Runs
    <3> QED BY <3>1, AllNumbers, FS_Subset, FS_CardinalityType
  <2>7. IsFiniteSet(Past) /\ Cardinality(Past) \in Nat
    BY FiniteRuns
  <2>8. Cardinality(Past \cup {x}) = Cardinality(Past) + 1 /\ IsFiniteSet(Past \cup {x})
    BY <2>4, <2>7, FS_AddElement
  <2>9. Cardinality(Past) + 1 <= Cardinality(Past')
    BY <2>5, <2>6, <2>8, FS_Subset
  <2>10. Echo!Count(p) <= Cardinality(Past) + 1 /\ Echo!Count(p) \in Nat
    BY <1>2, <2>7 DEF Echo!Count, Echo!Known, EchoCounted, CountSmall, EchoTypes
  <2>11. head'.count = Echo!Count(p)
    BY <1>6
  <2> HIDE DEF CountSmall
  <2>12. head'.count <= Cardinality(Past')
    BY <2>6, <2>7, <2>9, <2>10, <2>11
  <2> QED BY <2>12 DEF CountSmall
<1>7. CountSmall'
  <2>1. CASE head' = head
    BY <1>2, <1>4, <2>1, CountKept DEF EchoCounted
  <2>2. CASE head' = NoClient
    BY <2>2 DEF CountSmall
  <2> QED BY <1>1, <1>6, <2>1, <2>2
<1> QED BY <1>5, <1>7 DEF EchoCounted

LEMMA CountStep == ASSUME EchoInv, EchoCounted, [Echo!Next]_EchoVars PROVE EchoCounted'
<1>1. CASE UNCHANGED EchoVars
  <2>1. head' = head /\ net' = net /\ run' = run /\ restart' = restart
        /\ \A c \in EchoClient : \A r, n : Unsent(c, r, n)' => Unsent(c, r, n)
    BY <1>1 DEF EchoVars, Unsent
  <2> QED BY <2>1, CountSame
<1>2. CASE Echo!Next
  BY <1>2, CountServed, CountLost, CountStarts, CountClients DEF Echo!Next
<1> QED BY <1>1, <1>2

-----------------------------------------------------------------------------
(* All programs: the theorems. *)

SocketInv ==
    /\ IInv /\ CalcInv /\ TransferInv /\ TransferTypes /\ UdpInv /\ EchoInv /\ EchoCounted

\* The inductive invariants of the five programs, whichever of them runs.
THEOREM SocketInductive == SocketSpec => []SocketInv
<1>1. SocketInit => SocketInv
  <2> SUFFICES ASSUME SocketInit PROVE SocketInv
    OBVIOUS
  <2>1. Init /\ Echo!Init /\ Calc!Init /\ Transfer!Init /\ Udp!Init
    BY DEF SocketInit
  <2>2. IInv
    BY <2>1, ConstantAssumption, InvInit
  <2>3. CalcInv /\ TransferInv /\ TransferTypes
    BY <2>1, CalcInit, TransferInit, TransferTyped
  <2>4. UdpInv /\ EchoInv /\ EchoCounted
    BY <2>1, UdpStart, EchoInit, CountInit
  <2> QED BY <2>2, <2>3, <2>4 DEF SocketInv
<1>2. SocketInv /\ [SocketNext]_Vars => SocketInv'
  <2> SUFFICES ASSUME SocketInv, [SocketNext]_Vars PROVE SocketInv'
    OBVIOUS
  <2>1. IInv /\ CalcInv /\ TransferInv /\ TransferTypes /\ UdpInv /\ EchoInv /\ EchoCounted
    BY DEF SocketInv
  <2>2. /\ [Next]_vars /\ [Calc!Next]_CalcVars /\ [Transfer!Next]_TransferVars
        /\ [Udp!Next]_UdpVars /\ [Echo!Next]_EchoVars
    BY DEF SocketNext, Vars
  <2>3. IInv'
    BY <2>1, <2>2, ConstantAssumption, InvStep
  <2>4. CalcInv'
    BY <2>1, <2>2, CalcStep
  <2>5. TransferInv' /\ TransferTypes'
    BY <2>1, <2>2, TransferStep, TransferTyped
  <2>6. UdpInv'
    BY <2>1, <2>2, UdpStep
  <2>7. EchoInv' /\ EchoCounted'
    BY <2>1, <2>2, EchoStep, CountStep
  <2> QED BY <2>3, <2>4, <2>5, <2>6, <2>7 DEF SocketInv
<1> QED BY <1>1, <1>2, PTL DEF SocketSpec

\* Every variable of every program has its type: of module3/ct1, the server counts no more
\* messages than were sent; of module3/13, nclients is the number of processes; the size
\* that a receiver reads is a number.
THEOREM TypesKept == SocketSpec => []TypesOK
<1>1. SocketInv => TypesOK
  <2> SUFFICES ASSUME SocketInv PROVE TypesOK
    OBVIOUS
  <2>1. TypeOK /\ Calc!TypeOK
    BY DEF SocketInv, IInv, CalcInv
  <2>2. Transfer!TypeOK /\ Udp!TypeOK /\ Echo!TypeOK
    BY TransferTypesRead, UdpRead, CountRead DEF SocketInv
  <2> QED BY <2>1, <2>2 DEF TypesOK
<1> QED BY <1>1, SocketInductive, PTL

\* server.c and client.c of module3/ct1, 12, 13, 14 and 15: what is received is what was
\* sent.  A client that got no SIGINT prints the echoes of its own messages in order, one
\* alone with a server that had forgotten it gets the numbers 1, 2, 3 ...; no byte of a
\* file comes twice or out of order; every chat line is printed as it was typed.
THEOREM Received == SocketSpec => []ReceivedRight
<1>1. SocketInv => ReceivedRight
  BY EchoRead, TransferRead, UdpRead DEF SocketInv, ReceivedRight
<1> QED BY <1>1, SocketInductive, PTL

\* The turns of the two protocols, when recv() ends where the server goes to read.
THEOREM Turns == ASSUME Network = "kind" PROVE SocketSpec => []CalcTurns
<1>1. SocketInit => CalcTurns
  BY TurnsBegin DEF SocketInit
<1>2. CalcInv /\ CalcTurns /\ [SocketNext]_Vars => CalcTurns'
  <2> SUFFICES ASSUME CalcInv, CalcTurns, [SocketNext]_Vars PROVE CalcTurns'
    OBVIOUS
  <2>1. [Calc!Next]_CalcVars
    BY DEF SocketNext, Vars
  <2> QED BY <2>1, CalcTurnsStep
<1>3. SocketInv => CalcInv
  BY DEF SocketInv
<1> QED BY <1>1, <1>2, <1>3, SocketInductive, PTL DEF SocketSpec

\* server.c and client.c of module3/13 and 15: a line is read as the answer to the question
\* that its user saw last, and between a line and the next message nothing else is under
\* way, if recv() ends where the server goes to read.
THEOREM TurnsHold == ASSUME Network = "kind" PROVE SocketSpec => []TurnsKept
<1>1. SocketInv /\ CalcTurns => TurnsKept
  <2> SUFFICES ASSUME SocketInv, CalcTurns PROVE TurnsKept
    OBVIOUS
  <2>1. Calc!AnswersMatch
    BY TurnsMatch DEF SocketInv
  <2>2. TakeTurns
    BY DEF SocketInv, IInv
  <2> QED BY <2>1, <2>2 DEF TurnsKept
<1> QED BY <1>1, SocketInductive, Turns, PTL
=============================================================================
