--------------------------- MODULE ProcessesProofs ---------------------------
(***************************************************************************)
(* Proofs about MCProcesses.  GroupChat: the server counts the clients     *)
(* that have connected and not disconnected, and all of them get the       *)
(* broadcasts in one order, without holes.  PingPong: one turn in all.     *)
(* SignalCounter: the numbers of the file.  ForkOutput: the lines of both  *)
(* processes.  NamedSem: over any number of runs of the program, killed at *)
(* any point, the semaphore admits one process, and the children print     *)
(* what LineLog promises.  The other programs: what is proved of their     *)
(* modules holds of every behaviour of the composition.                    *)
(***************************************************************************)
EXTENDS MCProcesses, SequenceTheorems, FiniteSetTheorems, TLAPS

-----------------------------------------------------------------------------
(* GroupChat: the inductive invariant. *)

\* Where the messages of a client to the server are in the queue.
Mail(c, t) == {k \in 1 .. Len(queue) :
                  queue[k].dest = Server /\ queue[k].from = c /\ queue[k].type = t}

\* Messages to the server are from clients, and broadcasts are lines that a client typed.
Proper(m) == /\ m.dest = Server => m.from \in Client
             /\ m.type = "BROADCAST" => m.from \in Client /\ m.n \in 1 .. MaxTyped

Mails ==
    /\ \A k \in 1 .. Len(queue) : Proper(queue[k])
    /\ srv.pc = "send" => Proper([srv.msg EXCEPT !.dest = Server])
    /\ \A c \in Client : parent[c].pc = "send" =>
          Proper(parent[c].msg) /\ parent[c].msg.type \in {"BROADCAST", "PRIVATE"}

\* The CONNECT and the DISCONNECT of a client, each once and in this order.
Course(c) ==
    /\ parent[c].pc \in {"off", "fork"} => Mail(c, "CONNECT") = {} /\ c \notin joined
    /\ parent[c].pc # "done" => Mail(c, "DISCONNECT") = {}
    /\ parent[c].pc \in {"input", "send", "end"} /\ exists => c \in joined \/ Mail(c, "CONNECT") # {}
    /\ Mail(c, "CONNECT") # {} => c \notin joined
    /\ \A t \in {"CONNECT", "DISCONNECT"} : \A j, k \in Mail(c, t) : j = k
    /\ \A k \in Mail(c, "DISCONNECT") : c \in joined \/ \E j \in Mail(c, "CONNECT") : j < k

Counted == srv.pc # "overrun" => Len(clients) = Cardinality(joined)

ChatInv == TypeOK /\ Mails /\ (\A c \in Client : Course(c)) /\ Counted

-----------------------------------------------------------------------------
(* Messages and the queue. *)

LEMMA MessageType ==
    ASSUME NEW m \in Msg
    PROVE  /\ m = Message(m.dest, m.from, m.type, m.n)
           /\ m.dest \in Client \cup {Server} /\ m.from \in Client \cup {Server}
           /\ m.type \in Types /\ m.n \in 0 .. MaxTyped
BY DEF Msg, Message

LEMMA MessageIs ==
    ASSUME NEW d \in Client \cup {Server}, NEW f \in Client \cup {Server},
           NEW t \in Types, NEW n \in 0 .. MaxTyped
    PROVE  /\ Message(d, f, t, n) \in Msg
           /\ Message(d, f, t, n).dest = d /\ Message(d, f, t, n).from = f
           /\ Message(d, f, t, n).type = t /\ Message(d, f, t, n).n = n
BY DEF Msg, Message

\* A message comes to the end of the queue.
LEMMA MailAppend ==
    ASSUME TypeOK, NEW m \in Msg, queue' = Append(queue, m), NEW c, NEW t
    PROVE  /\ (m.dest = Server /\ m.from = c /\ m.type = t)
                => Mail(c, t)' = Mail(c, t) \cup {Len(queue) + 1}
           /\ ~ (m.dest = Server /\ m.from = c /\ m.type = t) => Mail(c, t)' = Mail(c, t)
<1>1. queue \in Seq(Msg) /\ Len(queue) \in Nat
  BY LenProperties DEF TypeOK
<1>2. /\ Len(queue') = Len(queue) + 1 /\ queue'[Len(queue) + 1] = m
      /\ \A k \in 1 .. Len(queue) : queue'[k] = queue[k]
  BY <1>1, AppendProperties
<1>3. 1 .. Len(queue) + 1 = (1 .. Len(queue)) \cup {Len(queue) + 1}
  BY <1>1
<1> QED BY <1>1, <1>2, <1>3 DEF Mail

\* RemoveAt: the elements after k move down.
LEMMA RemoveAtElements ==
    ASSUME NEW S, NEW s \in Seq(S), NEW k \in 1 .. Len(s)
    PROVE  /\ RemoveAt(s, k) \in Seq(S) /\ Len(RemoveAt(s, k)) = Len(s) - 1
           /\ \A j \in 1 .. Len(s) - 1 : RemoveAt(s, k)[j] = IF j < k THEN s[j] ELSE s[j + 1]
<1> DEFINE a == SubSeq(s, 1, k - 1)
           b == SubSeq(s, k + 1, Len(s))
<1>1. Len(s) \in Nat /\ k \in Int /\ 1 <= k /\ k <= Len(s)
  BY LenProperties
<1>2. a \in Seq(S) /\ Len(a) = k - 1 /\ \A j \in 1 .. k - 1 : a[j] = s[j]
  <2>1. \A j \in 1 .. k - 1 : s[j] \in S
    BY <1>1, ElementOfSeq
  <2>2. /\ a \in Seq(S) /\ Len(a) = IF 1 <= k - 1 THEN k - 1 - 1 + 1 ELSE 0
        /\ \A j \in 1 .. k - 1 - 1 + 1 : a[j] = s[1 + j - 1]
    BY <1>1, <2>1, SubSeqProperties
  <2> HIDE DEF a
  <2> QED BY <1>1, <2>2
<1>3. b \in Seq(S) /\ Len(b) = Len(s) - k /\ \A j \in 1 .. Len(s) - k : b[j] = s[k + j]
  <2>1. \A j \in k + 1 .. Len(s) : s[j] \in S
    BY <1>1, ElementOfSeq
  <2>2. /\ b \in Seq(S) /\ Len(b) = IF k + 1 <= Len(s) THEN Len(s) - (k + 1) + 1 ELSE 0
        /\ \A j \in 1 .. Len(s) - (k + 1) + 1 : b[j] = s[k + 1 + j - 1]
    BY <1>1, <2>1, SubSeqProperties
  <2> HIDE DEF b
  <2> QED BY <1>1, <2>2
<1>4. /\ a \o b \in Seq(S) /\ Len(a \o b) = Len(a) + Len(b)
      /\ \A j \in 1 .. Len(a) + Len(b) : (a \o b)[j] = IF j <= Len(a) THEN a[j] ELSE b[j - Len(a)]
  BY <1>2, <1>3, ConcatProperties
<1>5. RemoveAt(s, k) = a \o b
  BY DEF RemoveAt
<1> HIDE DEF a, b
<1>6. Len(a) + Len(b) = Len(s) - 1
  BY <1>1, <1>2, <1>3
<1>7. ASSUME NEW j \in 1 .. Len(s) - 1
      PROVE  (a \o b)[j] = IF j < k THEN s[j] ELSE s[j + 1]
  <2>1. CASE j < k
    BY <1>1, <1>2, <1>4, <1>6, <2>1
  <2>2. CASE ~ (j < k)
    <3>1. j - (k - 1) \in 1 .. Len(s) - k /\ k + (j - (k - 1)) = j + 1 /\ ~ (j <= k - 1)
      BY <1>1, <2>2
    <3>2. (a \o b)[j] = b[j - (k - 1)]
      BY <1>2, <1>4, <1>6, <3>1
    <3>3. b[j - (k - 1)] = s[k + (j - (k - 1))]
      BY <1>3, <3>1
    <3> QED BY <2>2, <3>1, <3>2, <3>3
  <2> QED BY <2>1, <2>2
<1> QED BY <1>4, <1>5, <1>6, <1>7

\* A message is taken: the places of the others, before and after.
Was(k, j) == IF j < k THEN j ELSE j + 1

LEMMA Received ==
    ASSUME TypeOK, NEW d, NEW k, Recv(d, k)
    PROVE  /\ exists /\ k \in 1 .. Len(queue) /\ queue[k].dest = d /\ queue[k] \in Msg
           /\ \A j \in 1 .. Len(queue) : queue[j].dest = d => k <= j
           /\ queue' \in Seq(Msg) /\ Len(queue') = Len(queue) - 1 /\ Len(queue) \in Nat
           /\ \A j \in 1 .. Len(queue') : /\ queue'[j] = queue[Was(k, j)]
                                          /\ Was(k, j) \in (1 .. Len(queue)) \ {k}
           /\ \A j \in (1 .. Len(queue)) \ {k} : \E x \in 1 .. Len(queue') : j = Was(k, x)
<1>1. exists /\ k \in 1 .. Len(queue) /\ queue[k].dest = d /\ queue' = RemoveAt(queue, k)
  BY DEF Recv, For
<1>2. \A j \in 1 .. Len(queue) : queue[j].dest = d => k <= j
  BY DEF Recv, For, Oldest
<1>3. queue \in Seq(Msg) /\ Len(queue) \in Nat /\ queue[k] \in Msg
  BY <1>1, LenProperties, ElementOfSeq DEF TypeOK
<1>4. /\ queue' \in Seq(Msg) /\ Len(queue') = Len(queue) - 1
      /\ \A j \in 1 .. Len(queue) - 1 : queue'[j] = IF j < k THEN queue[j] ELSE queue[j + 1]
  BY <1>1, <1>3, RemoveAtElements
<1>5. \A j \in 1 .. Len(queue') : /\ queue'[j] = queue[Was(k, j)]
                                  /\ Was(k, j) \in (1 .. Len(queue)) \ {k}
  BY <1>1, <1>3, <1>4 DEF Was
<1>6. ASSUME NEW j \in (1 .. Len(queue)) \ {k}
      PROVE  \E x \in 1 .. Len(queue') : j = Was(k, x)
  <2>1. CASE j < k
    BY <1>1, <1>3, <1>4, <2>1 DEF Was
  <2>2. CASE j > k
    <3>1. j - 1 \in 1 .. Len(queue') /\ j = Was(k, j - 1)
      BY <1>1, <1>3, <1>4, <2>2 DEF Was
    <3> QED BY <3>1
  <2> QED BY <1>1, <1>3, <2>1, <2>2
<1> QED BY <1>1, <1>2, <1>3, <1>4, <1>5, <1>6

LEMMA MailRemove ==
    ASSUME TypeOK, NEW d, NEW k, Recv(d, k), NEW c, NEW t
    PROVE  /\ \A j \in Mail(c, t)' : Was(k, j) \in Mail(c, t) \ {k} /\ j \in Nat
           /\ \A j \in Mail(c, t) \ {k} : \E x \in Mail(c, t)' : j = Was(k, x)
<1>1. ASSUME NEW j \in Mail(c, t)' PROVE Was(k, j) \in Mail(c, t) \ {k} /\ j \in Nat
  <2>1. /\ j \in 1 .. Len(queue') /\ Len(queue') \in Int
        /\ queue'[j].dest = Server /\ queue'[j].from = c /\ queue'[j].type = t
    BY Received DEF Mail
  <2>2. queue'[j] = queue[Was(k, j)] /\ Was(k, j) \in (1 .. Len(queue)) \ {k}
    BY <2>1, Received
  <2> QED BY <2>1, <2>2 DEF Mail
<1>2. ASSUME NEW j \in Mail(c, t) \ {k} PROVE \E x \in Mail(c, t)' : j = Was(k, x)
  <2>1. j \in (1 .. Len(queue)) \ {k}
    BY DEF Mail
  <2>2. PICK x \in 1 .. Len(queue') : j = Was(k, x)
    BY <2>1, Received
  <2>3. queue'[x] = queue[j]
    BY <2>2, Received
  <2> QED BY <2>2, <2>3 DEF Mail
<1> QED BY <1>1, <1>2

LEMMA WasOrder ==
    ASSUME NEW k \in Int, NEW i2 \in Int, NEW j \in Int
    PROVE  /\ Was(k, i2) = Was(k, j) => i2 = j
           /\ Was(k, i2) < Was(k, j) => i2 < j
BY DEF Was

\* msq_send.
LEMMA Sending ==
    ASSUME TypeOK, NEW m \in Msg, Send(m)
    PROVE  /\ queue' \in Seq(Msg) /\ Len(queue') <= QueueCap
           /\ \/ exists /\ queue' = Append(queue, m)
              \/ ~ exists /\ queue' = queue
           /\ \A k \in 1 .. Len(queue') : queue'[k] = m \/ \E j \in 1 .. Len(queue) : queue'[k] = queue[j]
<1>1. queue \in Seq(Msg) /\ Len(queue) \in Nat /\ Len(queue) <= QueueCap /\ QueueCap \in Nat
  BY LenProperties, BoundAssumption DEF TypeOK
<1>2. CASE exists
  <2>1. Len(queue) < QueueCap /\ queue' = Append(queue, m)
    BY <1>2 DEF Send
  <2>2. /\ queue' \in Seq(Msg) /\ Len(queue') = Len(queue) + 1 /\ queue'[Len(queue) + 1] = m
        /\ \A k \in 1 .. Len(queue) : queue'[k] = queue[k]
    BY <1>1, <2>1, AppendProperties
  <2>3. \A k \in 1 .. Len(queue') : k = Len(queue) + 1 \/ k \in 1 .. Len(queue)
    BY <1>1, <2>2
  <2>4. Len(queue') <= QueueCap
    BY <1>1, <2>1, <2>2
  <2>5. \A k \in 1 .. Len(queue') : queue'[k] = m \/ \E j \in 1 .. Len(queue) : queue'[k] = queue[j]
    BY <2>2, <2>3
  <2>6. queue' \in Seq(Msg)
    BY <2>2
  <2>7. exists /\ queue' = Append(queue, m)
    BY <1>2, <2>1
  <2> QED BY <2>4, <2>5, <2>6, <2>7
<1>3. CASE ~ exists
  BY <1>1, <1>3 DEF Send
<1> QED BY <1>2, <1>3

-----------------------------------------------------------------------------
(* GroupChat: the order of CONNECT and DISCONNECT. *)

LEMMA CourseKept ==
    ASSUME NEW c \in Client, Course(c),
           Mail(c, "CONNECT")' = Mail(c, "CONNECT"), Mail(c, "DISCONNECT")' = Mail(c, "DISCONNECT"),
           c \in joined' <=> c \in joined, exists' => exists,
           \/ parent'[c].pc = parent[c].pc
           \/ parent[c].pc = "off" /\ parent'[c].pc \in {"fork", "done"}
           \/ {parent[c].pc, parent'[c].pc} \subseteq {"input", "send", "end"}
    PROVE  Course(c)'
BY DEF Course

LEMMA CourseRecv ==
    ASSUME ChatInv, NEW d, NEW k, Recv(d, k), NEW c \in Client,
           parent'[c].pc = parent[c].pc, exists' = exists,
           c \in joined' <=>
              \/ k \in Mail(c, "CONNECT")
              \/ c \in joined /\ k \notin Mail(c, "DISCONNECT"),
           d = Server \/ d \in Client
    PROVE  Course(c)'
<1>1. TypeOK /\ Course(c) /\ k \in Int
  BY Received DEF ChatInv
<1>2. \A t : /\ \A j \in Mail(c, t)' : Was(k, j) \in Mail(c, t) \ {k} /\ j \in Nat
             /\ \A j \in Mail(c, t) \ {k} : \E x \in Mail(c, t)' : j = Was(k, x)
  BY <1>1, MailRemove
<1>3. \A t : /\ Mail(c, t) \subseteq {k} => Mail(c, t)' = {}
             /\ k \notin Mail(c, t) /\ Mail(c, t) # {} => Mail(c, t)' # {}
  BY <1>2
<1>4. \A t \in {"CONNECT", "DISCONNECT"} : \A x, y \in Mail(c, t)' : x = y
  <2> SUFFICES ASSUME NEW t \in {"CONNECT", "DISCONNECT"}, NEW x \in Mail(c, t)', NEW y \in Mail(c, t)'
               PROVE  x = y
    OBVIOUS
  <2>1. Was(k, x) = Was(k, y) /\ x \in Int /\ y \in Int
    BY <1>1, <1>2 DEF Course
  <2> QED BY <1>1, <2>1, WasOrder
<1>5. CASE k \notin Mail(c, "CONNECT") /\ k \notin Mail(c, "DISCONNECT")
  <2>1. \A t \in {"CONNECT", "DISCONNECT"} : Mail(c, t)' = {} <=> Mail(c, t) = {}
    BY <1>3, <1>5
  <2>2. c \in joined' <=> c \in joined
    BY <1>5
  <2>3. ASSUME NEW x \in Mail(c, "DISCONNECT")', c \notin joined
        PROVE  \E y \in Mail(c, "CONNECT")' : y < x
    <3>1. Was(k, x) \in Mail(c, "DISCONNECT") /\ x \in Int
      BY <1>2
    <3>2. PICK j \in Mail(c, "CONNECT") : j < Was(k, x)
      BY <1>1, <2>3, <3>1 DEF Course
    <3>3. PICK y \in Mail(c, "CONNECT")' : j = Was(k, y)
      BY <1>2, <1>5
    <3>4. y \in Int
      BY <1>2
    <3> QED BY <1>1, <3>1, <3>2, <3>3, <3>4, WasOrder
  <2> QED BY <1>1, <1>4, <2>1, <2>2, <2>3 DEF Course
<1>6. CASE k \in Mail(c, "CONNECT")
  <2>a. \A j \in Mail(c, "CONNECT") : j = k
    BY <1>1, <1>6 DEF Course
  <2>b. Mail(c, "CONNECT") \subseteq {k}
    BY <2>a
  <2>c. Mail(c, "CONNECT")' = {}
    BY <1>3, <2>b
  <2>1. Mail(c, "CONNECT")' = {} /\ c \in joined'
    BY <1>6, <2>c
  <2>2. Mail(c, "DISCONNECT") = {} => Mail(c, "DISCONNECT")' = {}
    BY <1>3
  <2>3. parent[c].pc \notin {"off", "fork"}
    BY <1>1, <1>6 DEF Course
  <2> QED BY <1>1, <1>4, <2>1, <2>2, <2>3 DEF Course
<1>7. CASE k \in Mail(c, "DISCONNECT")
  <2>1. parent[c].pc = "done" /\ Mail(c, "DISCONNECT") \subseteq {k}
    BY <1>1, <1>7 DEF Course
  <2>2. \A j \in Mail(c, "CONNECT") : k <= j /\ j \in Int
    <3>1. queue[k].dest = Server /\ Len(queue) \in Nat
      BY <1>1, <1>7, Received DEF Mail
    <3>2. d = Server
      BY <1>1, <3>1, Received
    <3> QED BY <1>1, <3>1, <3>2, Received DEF Mail
  <2>3. c \in joined
    BY <1>1, <1>7, <2>2 DEF Course
  <2>4. Mail(c, "CONNECT") = {}
    BY <1>1, <2>3 DEF Course
  <2>5. Mail(c, "CONNECT")' = {} /\ Mail(c, "DISCONNECT")' = {}
    BY <1>3, <2>1, <2>4
  <2> QED BY <2>1, <2>5 DEF Course
<1> QED BY <1>5, <1>6, <1>7

\* SrvRecv: the oldest message to the server, from a client.
LEMMA SrvReceived ==
    ASSUME ChatInv, SrvRecv
    PROVE  /\ srv.pc = "recv" /\ UNCHANGED <<exists, parent, child, typed, screen>>
           /\ \E k \in 1 .. Len(queue) :
                LET m == queue[k] IN
                /\ Recv(Server, k) /\ m \in Msg /\ m.dest = Server /\ m.from \in Client /\ Proper(m)
                /\ joined' = CASE m.type = "CONNECT" -> joined \cup {m.from}
                               [] m.type = "DISCONNECT" -> joined \ {m.from}
                               [] OTHER -> joined
                /\ IF Overrun(m)
                     THEN srv' = [srv EXCEPT !.pc = "overrun"] /\ UNCHANGED clients
                     ELSE /\ clients' = Table(m)
                          /\ srv' = IF m.type = "PRIVATE" THEN srv
                                    ELSE SendAll([m EXCEPT !.type = IF @ = "BROADCAST" THEN @ ELSE "CONNECT"])
<1>1. PICK k \in For(Server) :
         LET m == queue[k] IN
         /\ Recv(Server, k)
         /\ joined' = CASE m.type = "CONNECT" -> joined \cup {m.from}
                        [] m.type = "DISCONNECT" -> joined \ {m.from}
                        [] OTHER -> joined
         /\ IF Overrun(m)
              THEN srv' = [srv EXCEPT !.pc = "overrun"] /\ UNCHANGED clients
              ELSE /\ clients' = Table(m)
                   /\ srv' = IF m.type = "PRIVATE" THEN srv
                             ELSE SendAll([m EXCEPT !.type = IF @ = "BROADCAST" THEN @ ELSE "CONNECT"])
  BY DEF SrvRecv
<1>2. srv.pc = "recv" /\ UNCHANGED <<exists, parent, child, typed, screen>>
  BY DEF SrvRecv
<1>3. k \in 1 .. Len(queue) /\ queue[k] \in Msg /\ queue[k].dest = Server
  BY <1>1, Received DEF ChatInv
<1>4. queue[k].from \in Client /\ Proper(queue[k])
  BY <1>3 DEF ChatInv, Mails, Proper
<1> QED BY <1>1, <1>2, <1>3, <1>4

LEMMA CourseStep ==
    ASSUME ChatInv, [Next]_vars
    PROVE  \A c \in Client : Course(c)'
<1> USE DEF ChatInv
\* Where CONNECT and DISCONNECT are if a message of another kind comes to the queue.
<1>a. ASSUME NEW m \in Msg, Send(m), m.dest # Server \/ m.type \in {"BROADCAST", "PRIVATE"}, NEW c \in Client
      PROVE  Mail(c, "CONNECT")' = Mail(c, "CONNECT") /\ Mail(c, "DISCONNECT")' = Mail(c, "DISCONNECT")
  <2>1. CASE queue' = Append(queue, m)
    BY <1>a, <2>1, MailAppend
  <2>2. CASE queue' = queue
    BY <2>2 DEF Mail
  <2> QED BY <1>a, <2>1, <2>2, Sending
<1>1. CASE SrvRecv
  <2>1. PICK k \in 1 .. Len(queue) :
                LET m == queue[k] IN
                /\ Recv(Server, k) /\ m.dest = Server
                /\ joined' = CASE m.type = "CONNECT" -> joined \cup {m.from}
                               [] m.type = "DISCONNECT" -> joined \ {m.from}
                               [] OTHER -> joined
    BY <1>1, SrvReceived
  <2>2. UNCHANGED <<exists, parent>>
    BY <1>1, SrvReceived
  <2> SUFFICES ASSUME NEW c \in Client PROVE Course(c)'
    OBVIOUS
  <2>3. \A t : k \in Mail(c, t) <=> queue[k].from = c /\ queue[k].type = t
    BY <2>1 DEF Mail
  <2>4. c \in joined' <=>
           \/ k \in Mail(c, "CONNECT")
           \/ c \in joined /\ k \notin Mail(c, "DISCONNECT")
    <3>1. CASE queue[k].type = "CONNECT"
      BY <2>1, <2>3, <3>1
    <3>2. CASE queue[k].type = "DISCONNECT"
      BY <2>1, <2>3, <3>2
    <3>3. CASE queue[k].type \notin {"CONNECT", "DISCONNECT"}
      BY <2>1, <2>3, <3>3
    <3> QED BY <3>1, <3>2, <3>3
  <2> QED BY <2>1, <2>2, <2>4, CourseRecv
<1>2. CASE SrvSend
  <2>1. /\ srv.i \in 0 .. MaxClients /\ srv.i < Len(clients) /\ srv.msg \in Msg
        /\ Send([srv.msg EXCEPT !.dest = clients[srv.i + 1]])
        /\ UNCHANGED <<exists, parent, joined>>
    BY <1>2 DEF SrvSend, TypeOK
  <2>2. clients[srv.i + 1] \in Client
    <3>1. Len(clients) \in Nat /\ srv.i + 1 \in 1 .. Len(clients)
      BY <2>1, LenProperties DEF TypeOK
    <3> QED BY <3>1, ElementOfSeq DEF TypeOK
  <2>3. PICK m \in Msg : m = [srv.msg EXCEPT !.dest = clients[srv.i + 1]] /\ m.dest # Server
    BY <2>1, <2>2, ClientAssumption DEF Msg
  <2> QED BY <1>a, <2>1, <2>3, CourseKept
<1>3. CASE SrvInterrupt
  <2>1. queue' = <<>> /\ exists' = FALSE /\ UNCHANGED <<parent, joined>>
    BY <1>3 DEF SrvInterrupt
  <2>2. \A c, t : Mail(c, t)' = {}
    BY <2>1 DEF Mail
  <2> QED BY <2>1, <2>2 DEF Course
<1>4. ASSUME NEW c \in Client, Start(c) \/ Type(c) \/ Shutdown(c) PROVE \A d \in Client : Course(d)'
  <2>1. /\ UNCHANGED <<queue, joined, exists>> /\ \A d \in Client \ {c} : parent'[d] = parent[d]
        /\ \/ parent[c].pc = "off" /\ parent'[c].pc \in {"fork", "done"}
           \/ {parent[c].pc, parent'[c].pc} \subseteq {"input", "send", "end"}
    <3>1. CASE Start(c)
      BY <3>1 DEF Start, TypeOK
    <3>2. CASE Type(c)
      BY <3>2 DEF Type, TypeOK
    <3>3. CASE Shutdown(c)
      BY <3>3 DEF Shutdown, TypeOK
    <3> QED BY <1>4, <3>1, <3>2, <3>3
  <2>2. \A d, t : Mail(d, t)' = Mail(d, t)
    BY <2>1 DEF Mail
  <2> QED BY <2>1, <2>2, CourseKept
<1>5. ASSUME NEW c \in Client, SendTyped(c) PROVE \A d \in Client : Course(d)'
  <2>1. /\ parent[c].pc = "send" /\ Send(parent[c].msg) /\ parent' = [parent EXCEPT ![c] = AtInput]
        /\ UNCHANGED <<exists, joined>>
    BY <1>5 DEF SendTyped
  <2>2. parent[c].msg \in Msg /\ parent[c].msg.type \in {"BROADCAST", "PRIVATE"}
    BY <2>1 DEF Mails, TypeOK
  <2>3. PICK m \in Msg : m = parent[c].msg
    BY <2>2
  <2>4. parent'[c].pc = "input" /\ \A d \in Client \ {c} : parent'[d] = parent[d]
    BY <2>1 DEF TypeOK, AtInput
  <2> QED BY <1>a, <2>1, <2>2, <2>3, <2>4, CourseKept
<1>6. ASSUME NEW c \in Client, Connect(c) PROVE \A d \in Client : Course(d)'
  <2>1. /\ parent[c].pc = "fork" /\ parent' = [parent EXCEPT ![c].pc = "input"]
        /\ Send(Message(Server, c, "CONNECT", 0)) /\ UNCHANGED <<exists, joined>>
    BY <1>6 DEF Connect
  <2>2. PICK m \in Msg : m = Message(Server, c, "CONNECT", 0) /\ m.dest = Server /\ m.from = c /\ m.type = "CONNECT"
    <3>1. 0 \in 0 .. MaxTyped /\ "CONNECT" \in Types
      BY BoundAssumption DEF Types
    <3> QED BY <3>1, MessageIs
  <2>3. parent'[c].pc = "input" /\ \A d \in Client \ {c} : parent'[d] = parent[d]
    BY <2>1 DEF TypeOK
  <2>4. CASE ~ exists /\ queue' = queue
    <3>1. \A d, t : Mail(d, t)' = Mail(d, t)
      BY <2>4 DEF Mail
    <3>2. Course(c)'
      BY <2>1, <2>3, <2>4, <3>1 DEF Course
    <3>3. \A d \in Client \ {c} : Course(d)'
      BY <2>1, <2>3, <3>1, CourseKept
    <3> QED BY <3>2, <3>3
  <2>5. CASE queue' = Append(queue, m)
    <3>1. \A d \in Client \ {c} : \A t : Mail(d, t)' = Mail(d, t)
      BY <2>2, <2>5, MailAppend
    <3>2. Mail(c, "DISCONNECT")' = Mail(c, "DISCONNECT")
          /\ Mail(c, "CONNECT")' = Mail(c, "CONNECT") \cup {Len(queue) + 1}
      BY <2>2, <2>5, MailAppend
    <3>3. Mail(c, "CONNECT") = {} /\ Mail(c, "DISCONNECT") = {} /\ c \notin joined
      BY <2>1 DEF Course
    <3>4. Course(c)'
      BY <2>1, <2>3, <3>2, <3>3 DEF Course
    <3>5. \A d \in Client \ {c} : Course(d)'
      BY <2>1, <2>3, <3>1, CourseKept
    <3> QED BY <3>4, <3>5
  <2> QED BY <2>1, <2>2, <2>4, <2>5, Sending
<1>7. ASSUME NEW c \in Client, Disconnect(c) PROVE \A d \in Client : Course(d)'
  <2>1. /\ parent[c].pc = "end" /\ parent' = [parent EXCEPT ![c].pc = "done"]
        /\ Send(Message(Server, c, "DISCONNECT", 0)) /\ UNCHANGED <<exists, joined>>
    BY <1>7 DEF Disconnect
  <2>2. PICK m \in Msg : m = Message(Server, c, "DISCONNECT", 0) /\ m.dest = Server /\ m.from = c /\ m.type = "DISCONNECT"
    <3>1. 0 \in 0 .. MaxTyped /\ "DISCONNECT" \in Types
      BY BoundAssumption DEF Types
    <3> QED BY <3>1, MessageIs
  <2>3. parent'[c].pc = "done" /\ \A d \in Client \ {c} : parent'[d] = parent[d]
    BY <2>1 DEF TypeOK
  <2>4. CASE ~ exists /\ queue' = queue
    <3>1. \A d, t : Mail(d, t)' = Mail(d, t)
      BY <2>4 DEF Mail
    <3>2. Course(c)'
      BY <2>1, <2>3, <2>4, <3>1 DEF Course
    <3>3. \A d \in Client \ {c} : Course(d)'
      BY <2>1, <2>3, <3>1, CourseKept
    <3> QED BY <3>2, <3>3
  <2>5. CASE exists /\ queue' = Append(queue, m)
    <3>1. \A d \in Client \ {c} : \A t : Mail(d, t)' = Mail(d, t)
      BY <2>2, <2>5, MailAppend
    <3>a. Mail(c, "CONNECT")' = Mail(c, "CONNECT")
      BY <2>2, <2>5, MailAppend
    <3>b. Mail(c, "DISCONNECT")' = Mail(c, "DISCONNECT") \cup {Len(queue) + 1}
      BY <2>2, <2>5, MailAppend
    <3>3. Mail(c, "DISCONNECT") = {} /\ (c \in joined \/ Mail(c, "CONNECT") # {})
      BY <2>1, <2>5 DEF Course
    <3>4. \A k \in Mail(c, "CONNECT") : k < Len(queue) + 1
      BY LenProperties DEF Mail, TypeOK
    <3>5. Course(c)'
      BY <2>1, <2>3, <3>a, <3>b, <3>3, <3>4 DEF Course
    <3>6. \A d \in Client \ {c} : Course(d)'
      BY <2>1, <2>3, <3>1, CourseKept
    <3> QED BY <3>5, <3>6
  <2> QED BY <2>1, <2>2, <2>4, <2>5, Sending
<1>8. ASSUME NEW c \in Client, Listen(c) PROVE \A d \in Client : Course(d)'
  <2>1. PICK k \in For(c) : Recv(c, k) /\ UNCHANGED <<exists, parent, joined>>
    BY <1>8 DEF Listen
  <2>2. \A d, t : k \notin Mail(d, t)
    BY <2>1, Received, ClientAssumption DEF Mail
  <2> QED BY <2>1, <2>2, CourseRecv
<1>9. CASE UNCHANGED <<queue, exists, parent, joined>>
  BY <1>9 DEF Course, Mail
<1> QED
  BY <1>1, <1>2, <1>3, <1>4, <1>5, <1>6, <1>7, <1>8, <1>9
  DEF Next, SrvStep, SendStep, SrvDone, SrvExit, vars

-----------------------------------------------------------------------------
(* GroupChat: the count, the messages and the types. *)

LEMMA CountedStep ==
    ASSUME ChatInv, [Next]_vars
    PROVE  Counted'
<1> USE DEF ChatInv
<1>1. CASE SrvRecv
  <2>1. PICK k \in 1 .. Len(queue) :
                LET m == queue[k] IN
                /\ Recv(Server, k) /\ m \in Msg /\ m.dest = Server /\ m.from \in Client
                /\ joined' = CASE m.type = "CONNECT" -> joined \cup {m.from}
                               [] m.type = "DISCONNECT" -> joined \ {m.from}
                               [] OTHER -> joined
                /\ IF Overrun(m)
                     THEN srv' = [srv EXCEPT !.pc = "overrun"] /\ UNCHANGED clients
                     ELSE clients' = Table(m)
    BY <1>1, SrvReceived
  <2>2. PICK m \in Msg : m = queue[k]
    BY <2>1
  <2>3. /\ Len(clients) = Cardinality(joined) /\ clients \in Seq(Client)
        /\ IsFiniteSet(joined) /\ Cardinality(joined) \in Nat
    <3>1. IsFiniteSet(joined)
      BY FS_Subset, ClientAssumption DEF TypeOK
    <3>2. srv.pc = "recv"
      BY <1>1, SrvReceived
    <3> QED BY <3>1, <3>2, FS_CardinalityType DEF Counted, TypeOK
  <2>4. CASE Overrun(m)
    <3>1. srv'.pc = "overrun"
      BY <2>1, <2>2, <2>4 DEF TypeOK
    <3> QED BY <3>1 DEF Counted
  <2>5. CASE ~ Overrun(m) /\ m.type = "CONNECT"
    <3>1. k \in Mail(m.from, "CONNECT")
      BY <2>1, <2>2, <2>5 DEF Mail
    <3>2. m.from \notin joined /\ joined' = joined \cup {m.from}
      BY <2>1, <2>2, <2>5, <3>1 DEF Course
    <3>3. clients' = Append(clients, m.from) /\ m.from \in Client
      BY <2>1, <2>2, <2>5 DEF Table
    <3>4. Len(clients') = Len(clients) + 1
      BY <2>3, <3>3, AppendProperties
    <3>5. Cardinality(joined') = Cardinality(joined) + 1
      BY <2>3, <3>2, FS_AddElement
    <3> QED BY <2>3, <3>4, <3>5 DEF Counted
  <2>6. CASE m.type = "DISCONNECT"
    <3>1. k \in Mail(m.from, "DISCONNECT") /\ k \in Int
      BY <2>1, <2>2, <2>6 DEF Mail
    <3>2. \A j \in Mail(m.from, "CONNECT") : k <= j /\ j \in Int
      BY <2>1, Received DEF Mail
    <3>3. m.from \in joined /\ joined' = joined \ {m.from}
      BY <2>1, <2>2, <2>6, <3>1, <3>2 DEF Course
    <3>4. Cardinality(joined') = Cardinality(joined) - 1 /\ Cardinality(joined) # 0
      BY <2>3, <3>3, FS_RemoveElement, FS_EmptySet
    <3>5. ~ Overrun(m)
      BY <2>6 DEF Overrun
    <3>6. clients' = SubSeq(clients, 1, Len(clients) - 1)
      BY <2>1, <2>2, <2>6, <3>5 DEF Table, Front
    <3>7. \A j \in 1 .. Len(clients) - 1 : clients[j] \in Client
      BY <2>3, ElementOfSeq
    <3>8. Len(clients') = IF 1 <= Len(clients) - 1 THEN Len(clients) - 1 - 1 + 1 ELSE 0
      BY <2>3, <3>6, <3>7, SubSeqProperties
    <3> QED BY <2>3, <3>4, <3>8 DEF Counted
  <2>7. CASE ~ Overrun(m) /\ m.type \notin {"CONNECT", "DISCONNECT"}
    <3>1. joined' = joined /\ clients' = clients
      BY <2>1, <2>2, <2>7 DEF Table
    <3> QED BY <2>3, <3>1 DEF Counted
  <2> QED BY <2>4, <2>5, <2>6, <2>7 DEF Overrun
<1>2. CASE SrvSend \/ SrvDone \/ SrvExit
  <2>1. UNCHANGED <<clients, joined>> /\ srv.pc # "overrun"
    BY <1>2 DEF SrvSend, SrvDone, SrvExit
  <2> QED BY <2>1 DEF Counted
<1>3. CASE UNCHANGED <<clients, srv, joined>>
  BY <1>3 DEF Counted
<1> QED
  BY <1>1, <1>2, <1>3
  DEF Next, SrvStep, SendStep, SrvInterrupt, Start, Connect, Type, SendTyped, Shutdown, Disconnect,
      Listen, vars

LEMMA MailsStep ==
    ASSUME ChatInv, [Next]_vars
    PROVE  Mails'
<1> USE DEF ChatInv
\* A proper message comes to the queue, and one process moves.
<1>a. ASSUME NEW m \in Msg, Send(m), Proper(m) PROVE \A k \in 1 .. Len(queue') : Proper(queue'[k])
  BY <1>a, Sending DEF Mails
<1>b. ASSUME NEW d, NEW k, Recv(d, k) PROVE \A j \in 1 .. Len(queue') : Proper(queue'[j])
  BY <1>b, Received DEF Mails
<1>1. CASE SrvRecv
  <2>1. PICK k \in 1 .. Len(queue) :
                LET m == queue[k] IN
                /\ Recv(Server, k) /\ m \in Msg /\ Proper(m) /\ m.dest = Server /\ m.from \in Client
                /\ \/ srv' = [srv EXCEPT !.pc = "overrun"]
                   \/ srv' = srv
                   \/ srv' = SendAll([m EXCEPT !.type = IF @ = "BROADCAST" THEN @ ELSE "CONNECT"])
    BY <1>1, SrvReceived
  <2>2. UNCHANGED parent /\ srv.pc = "recv"
    BY <1>1, SrvReceived
  <2>3. PICK m \in Msg : m = queue[k]
    BY <2>1
  <2>4. CASE srv' = SendAll([m EXCEPT !.type = IF @ = "BROADCAST" THEN @ ELSE "CONNECT"])
    <3>1. srv'.msg = [m EXCEPT !.type = IF @ = "BROADCAST" THEN @ ELSE "CONNECT"]
      BY <2>4 DEF SendAll
    <3>2. Proper([srv'.msg EXCEPT !.dest = Server])
      BY <2>1, <2>3, <3>1 DEF Proper, Msg
    <3> QED BY <1>b, <2>1, <2>2, <3>2 DEF Mails
  <2>5. CASE srv' = [srv EXCEPT !.pc = "overrun"] \/ srv' = srv
    <3>1. srv'.pc # "send"
      BY <2>2, <2>5 DEF TypeOK
    <3> QED BY <1>b, <2>1, <2>2, <3>1 DEF Mails
  <2> QED BY <2>1, <2>3, <2>4, <2>5
<1>2. CASE SrvSend
  <2>1. /\ srv.pc = "send" /\ srv.i \in 0 .. MaxClients /\ srv.i < Len(clients) /\ srv.msg \in Msg
        /\ Send([srv.msg EXCEPT !.dest = clients[srv.i + 1]])
        /\ srv' = [srv EXCEPT !.i = srv.i + 1] /\ UNCHANGED parent
    BY <1>2 DEF SrvSend, TypeOK
  <2>2. clients[srv.i + 1] \in Client
    <3>1. Len(clients) \in Nat /\ srv.i + 1 \in 1 .. Len(clients)
      BY <2>1, LenProperties DEF TypeOK
    <3> QED BY <3>1, ElementOfSeq DEF TypeOK
  <2>3. PICK m \in Msg : m = [srv.msg EXCEPT !.dest = clients[srv.i + 1]] /\ m.dest # Server
    BY <2>1, <2>2, ClientAssumption DEF Msg
  <2>4. Proper([srv.msg EXCEPT !.dest = Server])
    BY <2>1 DEF Mails
  <2>5. Proper(m)
    BY <2>1, <2>3, <2>4 DEF Proper, Msg
  <2>6. srv'.msg = srv.msg
    BY <2>1 DEF TypeOK
  <2> QED BY <1>a, <2>1, <2>3, <2>4, <2>5, <2>6 DEF Mails
<1>3. CASE SrvDone \/ SrvExit
  <2>1. srv'.pc # "send" /\ UNCHANGED <<queue, parent>>
    BY <1>3 DEF SrvDone, SrvExit, AtRecv, TypeOK
  <2> QED BY <2>1 DEF Mails
<1>4. CASE SrvInterrupt
  BY <1>4 DEF SrvInterrupt, Mails
<1>5. ASSUME NEW c \in Client, Start(c) \/ Shutdown(c) PROVE Mails'
  <2>1. UNCHANGED <<queue, srv>> /\ parent'[c].pc # "send" /\ \A d \in Client \ {c} : parent'[d] = parent[d]
    BY <1>5 DEF Start, Shutdown, TypeOK
  <2> QED BY <2>1 DEF Mails
<1>6. ASSUME NEW c \in Client, Type(c) PROVE Mails'
  <2>1. PICK m \in {Message(Server, c, "BROADCAST", typed[c] + 1)}
                  \cup {Message(d, c, "PRIVATE", 0) : d \in Private} :
          parent' = [parent EXCEPT ![c] = [pc |-> "send", msg |-> m]]
    BY <1>6 DEF Type
  <2>2. typed[c] + 1 \in 1 .. MaxTyped /\ typed[c] + 1 \in 0 .. MaxTyped
    BY <1>6, BoundAssumption DEF Type, TypeOK
  <2>3. Proper(m) /\ m.type \in {"BROADCAST", "PRIVATE"}
    BY <2>2, PrivateAssumption DEF Message, Proper
  <2>4. parent'[c].msg = m /\ \A d \in Client \ {c} : parent'[d] = parent[d]
    BY <2>1 DEF TypeOK
  <2>5. UNCHANGED <<queue, srv>>
    BY <1>6 DEF Type
  <2> QED BY <2>3, <2>4, <2>5 DEF Mails
<1>7. ASSUME NEW c \in Client, SendStep(c) PROVE Mails'
  <2>1. parent'[c].pc # "send" /\ UNCHANGED srv /\ \A d \in Client \ {c} : parent'[d] = parent[d]
    BY <1>7 DEF SendStep, Connect, SendTyped, Disconnect, AtInput, TypeOK
  <2>2. \E m \in Msg : Proper(m) /\ Send(m)
    <3>1. CASE Connect(c)
      <4>1. 0 \in 0 .. MaxTyped /\ "CONNECT" \in Types
        BY BoundAssumption DEF Types
      <4>2. Message(Server, c, "CONNECT", 0) \in Msg /\ Proper(Message(Server, c, "CONNECT", 0))
        BY <4>1, MessageIs DEF Proper
      <4> QED BY <3>1, <4>2 DEF Connect
    <3>2. CASE SendTyped(c)
      BY <3>2 DEF SendTyped, Mails, TypeOK
    <3>3. CASE Disconnect(c)
      <4>1. 0 \in 0 .. MaxTyped /\ "DISCONNECT" \in Types
        BY BoundAssumption DEF Types
      <4>2. Message(Server, c, "DISCONNECT", 0) \in Msg /\ Proper(Message(Server, c, "DISCONNECT", 0))
        BY <4>1, MessageIs DEF Proper
      <4> QED BY <3>3, <4>2 DEF Disconnect
    <3> QED BY <1>7, <3>1, <3>2, <3>3 DEF SendStep
  <2> QED BY <1>a, <2>1, <2>2 DEF Mails
<1>8. ASSUME NEW c \in Client, Listen(c) PROVE Mails'
  BY <1>8, <1>b DEF Listen, Mails
<1>9. CASE UNCHANGED vars
  BY <1>9 DEF vars, Mails
<1> QED
  BY <1>1, <1>2, <1>3, <1>4, <1>5, <1>6, <1>7, <1>8, <1>9 DEF Next, SrvStep

LEMMA NoMessage == NoMsg \in Msg
<1>1. Server \in Client \cup {Server} /\ "CONNECT" \in Types
  BY DEF Types
<1>2. 0 \in 0 .. MaxTyped
  BY BoundAssumption
<1> QED BY <1>1, <1>2, MessageIs DEF NoMsg

\* What a client or the server sends is a message, and may be one to print.
LEMMA ChatTypeStep ==
    ASSUME ChatInv, [Next]_vars
    PROVE  TypeOK'
<1> USE DEF ChatInv
<1>a. /\ Len(queue) \in Nat /\ QueueCap \in Nat /\ Len(queue) <= QueueCap
      /\ Len(clients) \in Nat /\ MaxClients \in Nat /\ Len(clients) <= MaxClients
      /\ MaxTyped \in Nat /\ clients \in Seq(Client)
  BY LenProperties, BoundAssumption DEF TypeOK
<1>b. ASSUME NEW d, NEW k, Recv(d, k) PROVE queue' \in Seq(Msg) /\ Len(queue') <= QueueCap
  BY <1>a, <1>b, Received
<1>1. CASE SrvRecv
  <2>1. PICK k \in 1 .. Len(queue) :
                LET m == queue[k] IN
                /\ Recv(Server, k) /\ m \in Msg /\ m.dest = Server /\ m.from \in Client
                /\ joined' = CASE m.type = "CONNECT" -> joined \cup {m.from}
                               [] m.type = "DISCONNECT" -> joined \ {m.from}
                               [] OTHER -> joined
                /\ IF Overrun(m)
                     THEN srv' = [srv EXCEPT !.pc = "overrun"] /\ UNCHANGED clients
                     ELSE /\ clients' = Table(m)
                          /\ srv' = IF m.type = "PRIVATE" THEN srv
                                    ELSE SendAll([m EXCEPT !.type = IF @ = "BROADCAST" THEN @ ELSE "CONNECT"])
    BY <1>1, SrvReceived
  <2>2. PICK m \in Msg : m = queue[k]
    BY <2>1
  <2>3. UNCHANGED <<exists, parent, child, typed, screen>> /\ srv.pc = "recv"
    BY <1>1, SrvReceived
  <2>4. joined' \subseteq Client
    BY <2>1, <2>2 DEF TypeOK
  <2>5. srv' \in [pc : {"recv", "send", "overrun", "exited"}, msg : Msg, i : 0 .. MaxClients]
    <3>1. SendAll([m EXCEPT !.type = IF @ = "BROADCAST" THEN @ ELSE "CONNECT"])
             \in [pc : {"recv", "send", "overrun", "exited"}, msg : Msg, i : 0 .. MaxClients]
      <4>1. PICK t \in Types : t = IF m.type = "BROADCAST" THEN m.type ELSE "CONNECT"
        BY DEF Types
      <4>2. [m EXCEPT !.type = t] \in Msg /\ 0 \in 0 .. MaxClients
        BY <1>a DEF Msg
      <4> QED BY <4>1, <4>2 DEF SendAll
    <3> QED BY <2>1, <2>2, <3>1 DEF TypeOK
  <2>6. clients' \in Seq(Client) /\ Len(clients') <= MaxClients
    <3>1. CASE Overrun(m)
      BY <1>a, <2>1, <2>2, <3>1
    <3>2. CASE ~ Overrun(m) /\ m.type = "CONNECT"
      <4>1. Len(clients) # MaxClients /\ m.from \in Client /\ clients' = Append(clients, m.from)
        BY <2>1, <2>2, <3>2 DEF Overrun, Table
      <4>2. clients' \in Seq(Client) /\ Len(clients') = Len(clients) + 1
        BY <1>a, <4>1, AppendProperties
      <4> QED BY <1>a, <4>1, <4>2
    <3>3. CASE ~ Overrun(m) /\ m.type = "DISCONNECT"
      <4>1. clients' = SubSeq(clients, 1, Len(clients) - 1)
        BY <2>1, <2>2, <3>3 DEF Table, Front
      <4>2. \A j \in 1 .. Len(clients) - 1 : clients[j] \in Client
        BY <1>a, ElementOfSeq
      <4>3. /\ clients' \in Seq(Client)
            /\ Len(clients') = IF 1 <= Len(clients) - 1 THEN Len(clients) - 1 - 1 + 1 ELSE 0
        BY <1>a, <4>1, <4>2, SubSeqProperties
      <4> QED BY <1>a, <4>3
    <3>4. CASE ~ Overrun(m) /\ m.type \notin {"CONNECT", "DISCONNECT"}
      BY <1>a, <2>1, <2>2, <3>4 DEF Table
    <3> QED BY <3>1, <3>2, <3>3, <3>4
  <2> QED BY <1>b, <2>1, <2>3, <2>4, <2>5, <2>6 DEF TypeOK
<1>2. CASE SrvSend
  <2>1. /\ srv.pc = "send" /\ srv.i \in 0 .. MaxClients /\ srv.i < Len(clients) /\ srv.msg \in Msg
        /\ Send([srv.msg EXCEPT !.dest = clients[srv.i + 1]])
        /\ srv' = [srv EXCEPT !.i = srv.i + 1]
        /\ UNCHANGED <<exists, clients, parent, child, typed, screen, joined>>
    BY <1>2 DEF SrvSend, TypeOK
  <2>2. clients[srv.i + 1] \in Client
    BY <1>a, <2>1, ElementOfSeq
  <2>3. [srv.msg EXCEPT !.dest = clients[srv.i + 1]] \in Msg
    BY <2>1, <2>2 DEF Msg
  <2>4. srv.i + 1 \in 0 .. MaxClients
    BY <1>a, <2>1
  <2>5. srv' \in [pc : {"recv", "send", "overrun", "exited"}, msg : Msg, i : 0 .. MaxClients]
    BY <2>1, <2>4 DEF TypeOK
  <2> QED BY <2>1, <2>3, <2>5, Sending DEF TypeOK
<1>3. CASE SrvDone \/ SrvExit
  <2>1. NoMsg \in Msg
    BY NoMessage
  <2>2. srv' \in [pc : {"recv", "send", "overrun", "exited"}, msg : Msg, i : 0 .. MaxClients]
    <3>1. CASE SrvDone
      <4>1. srv' = [pc |-> "recv", msg |-> NoMsg, i |-> 0] /\ 0 \in 0 .. MaxClients
        BY <1>a, <3>1 DEF SrvDone, AtRecv
      <4> QED BY <2>1, <4>1
    <3>2. CASE SrvExit
      BY <3>2 DEF SrvExit, TypeOK
    <3> QED BY <1>3, <3>1, <3>2
  <2>3. UNCHANGED <<queue, exists, clients, parent, child, typed, screen, joined>>
    BY <1>3 DEF SrvDone, SrvExit
  <2> QED BY <2>2, <2>3 DEF TypeOK
<1>4. CASE SrvInterrupt
  <2>1. exists' = FALSE /\ queue' = <<>> /\ UNCHANGED <<clients, srv, parent, child, typed, screen, joined>>
    BY <1>4 DEF SrvInterrupt
  <2>2. queue' \in Seq(Msg) /\ Len(queue') <= QueueCap
    BY <1>a, <2>1
  <2> QED BY <2>1, <2>2 DEF TypeOK
<1>5. ASSUME NEW c \in Client, Start(c) \/ Shutdown(c) PROVE TypeOK'
  <2>1. /\ parent' \in [Client -> [pc : {"off", "fork", "input", "send", "end", "done"}, msg : Msg]]
        /\ child' \in [Client -> {"off", "listen", "dead"}]
    <3>1. CASE Start(c)
      BY <3>1 DEF Start, TypeOK
    <3>2. CASE Shutdown(c)
      BY <3>2 DEF Shutdown, TypeOK
    <3> QED BY <1>5, <3>1, <3>2
  <2>2. UNCHANGED <<queue, exists, clients, srv, typed, screen, joined>>
    BY <1>5 DEF Start, Shutdown
  <2> QED BY <2>1, <2>2 DEF TypeOK
<1>6. ASSUME NEW c \in Client, Type(c) PROVE TypeOK'
  <2>1. PICK m \in {Message(Server, c, "BROADCAST", typed[c] + 1)}
                  \cup {Message(d, c, "PRIVATE", 0) : d \in Private} :
          parent' = [parent EXCEPT ![c] = [pc |-> "send", msg |-> m]]
    BY <1>6 DEF Type
  <2>2. /\ typed[c] + 1 \in 0 .. MaxTyped /\ typed' = [typed EXCEPT ![c] = typed[c] + 1]
        /\ UNCHANGED <<queue, exists, clients, srv, child, screen, joined>>
    BY <1>6, <1>a DEF Type, TypeOK
  <2>3. m \in Msg
    BY <2>2, <1>a, PrivateAssumption DEF Message, Msg, Types
  <2>4. /\ parent' \in [Client -> [pc : {"off", "fork", "input", "send", "end", "done"}, msg : Msg]]
        /\ typed' \in [Client -> 0 .. MaxTyped]
    BY <2>1, <2>2, <2>3 DEF TypeOK
  <2> QED BY <2>2, <2>4 DEF TypeOK
<1>7. ASSUME NEW c \in Client, SendStep(c) PROVE TypeOK'
  <2>1. NoMsg \in Msg
    BY NoMessage
  <2>2. /\ parent' \in [Client -> [pc : {"off", "fork", "input", "send", "end", "done"}, msg : Msg]]
        /\ child' \in [Client -> {"off", "listen", "dead"}]
    <3>1. CASE Connect(c)
      BY <3>1 DEF Connect, TypeOK
    <3>2. CASE SendTyped(c)
      BY <2>1, <3>2 DEF SendTyped, AtInput, TypeOK
    <3>3. CASE Disconnect(c)
      BY <3>3 DEF Disconnect, TypeOK
    <3> QED BY <1>7, <3>1, <3>2, <3>3 DEF SendStep
  <2>3. UNCHANGED <<exists, clients, srv, typed, screen, joined>>
    BY <1>7 DEF SendStep, Connect, SendTyped, Disconnect
  <2>4. \E m \in Msg : Send(m)
    <3>1. /\ Message(Server, c, "CONNECT", 0) \in Msg
          /\ Message(Server, c, "DISCONNECT", 0) \in Msg
      BY <1>a, MessageIs DEF Types
    <3> QED BY <1>7, <3>1 DEF SendStep, Connect, SendTyped, Disconnect, TypeOK
  <2> QED BY <2>2, <2>3, <2>4, Sending DEF TypeOK
<1>8. ASSUME NEW c \in Client, Listen(c) PROVE TypeOK'
  <2>1. PICK k \in For(c) :
         /\ Recv(c, k)
         /\ screen' = IF queue[k].type = "BROADCAST"
                        THEN [screen EXCEPT ![c] =
                                 Append(@, [from |-> queue[k].from, n |-> queue[k].n])]
                        ELSE screen
    BY <1>8 DEF Listen
  <2>2. UNCHANGED <<exists, clients, srv, parent, child, typed, joined>>
    BY <1>8 DEF Listen
  <2>3. Proper(queue[k])
    BY <2>1, Received DEF Mails
  <2>4. screen' \in [Client -> Seq([from : Client, n : 1 .. MaxTyped])]
    <3>1. CASE queue[k].type = "BROADCAST"
      <4>1. [from |-> queue[k].from, n |-> queue[k].n] \in [from : Client, n : 1 .. MaxTyped]
        BY <2>3, <3>1 DEF Proper
      <4>2. PICK x \in [from : Client, n : 1 .. MaxTyped] : x = [from |-> queue[k].from, n |-> queue[k].n]
        BY <4>1
      <4>3. Append(screen[c], x) \in Seq([from : Client, n : 1 .. MaxTyped])
        BY AppendProperties DEF TypeOK
      <4>4. screen' = [screen EXCEPT ![c] = Append(screen[c], x)]
        BY <2>1, <3>1, <4>2
      <4> QED BY <4>3, <4>4 DEF TypeOK
    <3> QED BY <2>1, <3>1 DEF TypeOK
  <2> QED BY <1>b, <2>1, <2>2, <2>4 DEF TypeOK
<1>9. CASE UNCHANGED vars
  BY <1>9 DEF vars, TypeOK
<1> QED
  BY <1>1, <1>2, <1>3, <1>4, <1>5, <1>6, <1>7, <1>8, <1>9 DEF Next, SrvStep

LEMMA ChatInit ==
    ASSUME Init
    PROVE  ChatInv
<1>1. queue = <<>> /\ Len(queue) = 0 /\ clients = <<>> /\ Len(clients) = 0 /\ joined = {}
  BY DEF Init
<1>2. NoMsg \in Msg
  BY NoMessage
<1>3. TypeOK
  <2>1. srv \in [pc : {"recv", "send", "overrun", "exited"}, msg : Msg, i : 0 .. MaxClients]
    BY <1>2, BoundAssumption DEF Init, AtRecv
  <2>2. /\ parent \in [Client -> [pc : {"off", "fork", "input", "send", "end", "done"}, msg : Msg]]
        /\ child \in [Client -> {"off", "listen", "dead"}]
        /\ typed \in [Client -> 0 .. MaxTyped]
        /\ screen \in [Client -> Seq([from : Client, n : 1 .. MaxTyped])]
    BY <1>2, BoundAssumption DEF Init
  <2>3. /\ queue \in Seq(Msg) /\ Len(queue) <= QueueCap
        /\ clients \in Seq(Client) /\ Len(clients) <= MaxClients
    BY <1>1, BoundAssumption
  <2> QED BY <1>1, <2>1, <2>2, <2>3 DEF Init, TypeOK
<1>4. \A c, t : Mail(c, t) = {}
  BY <1>1 DEF Mail
<1>5. srv.pc = "recv" /\ \A c \in Client : parent[c].pc = "off"
  BY DEF Init, AtRecv
<1>6. Mails
  BY <1>1, <1>5 DEF Mails
<1>7. \A c \in Client : Course(c)
  BY <1>1, <1>4, <1>5 DEF Course
<1>8. Counted
  BY <1>1, FS_EmptySet DEF Counted
<1> QED BY <1>3, <1>6, <1>7, <1>8 DEF ChatInv

\* module3/06: whatever comes through the queue and whoever leaves, each client's CONNECT is
\* handled before its DISCONNECT, each once, and the server's count is right (server.c:
\* clients_count).
THEOREM ChatInductive == Spec => []ChatInv
<1>1. Init => ChatInv
  BY ChatInit
<1>2. ChatInv /\ [Next]_vars => ChatInv'
  BY CourseStep, CountedStep, MailsStep, ChatTypeStep DEF ChatInv
<1> QED BY <1>1, <1>2, PTL DEF Spec

\* Every variable of the chat has its type: no entry is written beyond the table.
THEOREM ChatTypeCorrect == Spec => []TypeOK
<1>1. ChatInv => TypeOK
  BY DEF ChatInv
<1> QED BY <1>1, ChatInductive, PTL

\* The server counts as many clients as have connected and not disconnected (server.c).
THEOREM ClientsCounted == Spec => []CountRight
<1>1. ChatInv => CountRight
  BY DEF ChatInv, Counted, CountRight
<1> QED BY <1>1, ChatInductive, PTL

-----------------------------------------------------------------------------
(* GroupChat: the order of the broadcasts.  The server takes the lines out  *)
(* of the queue one by one, and hands each on to all of its table before it *)
(* takes the next: there is one order o of all lines, and each client gets  *)
(* a stretch of it.                                                         *)

Line == [from : Client, n : 1 .. MaxTyped]
LineOf(m) == [from |-> m.from, n |-> m.n]

\* Where the broadcasts for an addressee are in the queue.
Copies(d) == {k \in 1 .. Len(queue) : queue[k].dest = d /\ queue[k].type = "BROADCAST"}

\* Every line typed is one: with its typist, on its way to the server, or in the order o in
\* which the server has taken them.
TypedOnce(o) ==
    /\ \A h, j \in 1 .. Len(o) : o[h] = o[j] => h = j
    /\ \A h \in 1 .. Len(o) : o[h].n <= typed[o[h].from]
    /\ \A k \in Copies(Server) :
          /\ queue[k].n <= typed[queue[k].from]
          /\ \A h \in 1 .. Len(o) : o[h] # LineOf(queue[k])
    /\ \A j, k \in Copies(Server) : LineOf(queue[j]) = LineOf(queue[k]) => j = k
    /\ \A c \in Client : parent[c].pc = "send" /\ parent[c].msg.type = "BROADCAST" =>
          /\ \A h \in 1 .. Len(o) : o[h] # LineOf(parent[c].msg)
          /\ \A k \in Copies(Server) : LineOf(queue[k]) # LineOf(parent[c].msg)

\* What a typist is about to send to everybody is the line typed last.
Typist ==
    \A c \in Client : parent[c].pc = "send" /\ parent[c].msg.type = "BROADCAST" =>
        parent[c].msg = Message(Server, c, "BROADCAST", typed[c])

\* The lines next .. upto of o, and no others, wait for c in the queue, in this order.
Coming(c, o, next, upto) ==
    /\ \A k \in Copies(c) : \E p \in next .. upto : LineOf(queue[k]) = o[p]
    /\ \A p \in next .. upto : \E k \in Copies(c) : LineOf(queue[k]) = o[p]
    /\ \A j, k \in Copies(c) : \A p, q \in next .. upto :
          j < k /\ LineOf(queue[j]) = o[p] /\ LineOf(queue[k]) = o[q] => p < q

\* What c has printed and what waits for it are the lines first + 1 .. upto of o.
Stream(c, o, first, upto) ==
    /\ first \in Nat /\ upto \in Nat /\ first + Len(screen[c]) <= upto /\ upto <= Len(o)
    /\ \A h \in 1 .. Len(screen[c]) : screen[c][h] = o[first + h]
    /\ exists => Coming(c, o, first + Len(screen[c]) + 1, upto)

\* Who is in the table has been sent all lines, but for the one that is being sent.
Broadcasting == srv.pc = "send" /\ srv.msg.type = "BROADCAST"

SentTo(o, upto) ==
    exists =>
       /\ Broadcasting => Len(o) > 0 /\ o[Len(o)] = LineOf(srv.msg)
       /\ \A h \in 1 .. Len(clients) :
             upto[clients[h]] = IF Broadcasting /\ h > srv.i THEN Len(o) - 1 ELSE Len(o)

\* Before its CONNECT is handled a client gets nothing, and it is in the table once.
Met(c) == parent[c].pc \notin {"off", "fork"} /\ Mail(c, "CONNECT") = {}
Entered ==
    /\ \A c \in Client : Met(c) \/ (screen[c] = <<>> /\ Copies(c) = {})
    /\ \A h \in 1 .. Len(clients) : Met(clients[h])
    /\ \A h, j \in 1 .. Len(clients) : clients[h] = clients[j] => h = j

Ordered(o, first, upto) ==
    /\ TypedOnce(o) /\ SentTo(o, upto)
    /\ \A c \in Client : Stream(c, o, first[c], upto[c])

OrderInv ==
    Entered /\ Typist /\ \E o \in Seq(Line) : \E first, upto \in [Client -> Nat] : Ordered(o, first, upto)

-----------------------------------------------------------------------------

\* A message comes to the end of the queue.
LEMMA CopiesAppend ==
    ASSUME TypeOK, NEW m \in Msg, queue' = Append(queue, m), NEW d
    PROVE  /\ Copies(d)' = IF m.dest = d /\ m.type = "BROADCAST"
                              THEN Copies(d) \cup {Len(queue) + 1} ELSE Copies(d)
           /\ \A k \in Copies(d) : queue'[k] = queue[k] /\ k \in Nat /\ k < Len(queue) + 1
           /\ queue'[Len(queue) + 1] = m /\ Len(queue) \in Nat
<1>1. queue \in Seq(Msg) /\ Len(queue) \in Nat
  BY LenProperties DEF TypeOK
<1>2. /\ Len(queue') = Len(queue) + 1 /\ queue'[Len(queue) + 1] = m
      /\ \A k \in 1 .. Len(queue) : queue'[k] = queue[k]
  BY <1>1, AppendProperties
<1>3. 1 .. Len(queue) + 1 = (1 .. Len(queue)) \cup {Len(queue) + 1}
  BY <1>1
<1>4. Copies(d)' = IF m.dest = d /\ m.type = "BROADCAST"
                      THEN Copies(d) \cup {Len(queue) + 1} ELSE Copies(d)
  BY <1>2, <1>3 DEF Copies
<1>5. \A k \in Copies(d) : queue'[k] = queue[k] /\ k \in Nat /\ k < Len(queue) + 1
  BY <1>1, <1>2 DEF Copies
<1> QED BY <1>1, <1>2, <1>4, <1>5

\* One is taken.
LEMMA CopiesRemove ==
    ASSUME TypeOK, NEW d, NEW k, Recv(d, k), NEW c
    PROVE  /\ \A j \in Copies(c)' : /\ Was(k, j) \in Copies(c) \ {k} /\ j \in Nat
                                    /\ queue'[j] = queue[Was(k, j)]
           /\ \A j \in Copies(c) \ {k} : \E x \in Copies(c)' : j = Was(k, x)
<1>1. ASSUME NEW j \in Copies(c)'
      PROVE  /\ Was(k, j) \in Copies(c) \ {k} /\ j \in Nat
             /\ queue'[j] = queue[Was(k, j)]
  <2>1. j \in 1 .. Len(queue') /\ queue'[j].dest = c /\ queue'[j].type = "BROADCAST"
    BY DEF Copies
  <2>2. queue'[j] = queue[Was(k, j)] /\ Was(k, j) \in (1 .. Len(queue)) \ {k}
    BY <2>1, Received
  <2>3. j \in Nat
    BY <2>1
  <2> QED BY <2>1, <2>2, <2>3 DEF Copies
<1>2. ASSUME NEW j \in Copies(c) \ {k} PROVE \E x \in Copies(c)' : j = Was(k, x)
  <2>1. j \in (1 .. Len(queue)) \ {k}
    BY DEF Copies
  <2>2. PICK x \in 1 .. Len(queue') : j = Was(k, x)
    BY <2>1, Received
  <2>3. queue'[x] = queue[j]
    BY <2>2, Received
  <2> QED BY <2>2, <2>3 DEF Copies
<1> QED BY <1>1, <1>2

\* The copies of others keep their order.
LEMMA ComingShift ==
    ASSUME TypeOK, NEW d, NEW k, Recv(d, k), NEW c, k \notin Copies(c),
           NEW o, NEW next, NEW upto, Coming(c, o, next, upto)
    PROVE  Coming(c, o, next, upto)'
<1>1. /\ \A j \in Copies(c)' : /\ Was(k, j) \in Copies(c) /\ j \in Nat
                               /\ queue'[j] = queue[Was(k, j)]
      /\ \A j \in Copies(c) : \E x \in Copies(c)' : j = Was(k, x)
  BY CopiesRemove
<1>2. \A j \in Copies(c)' : \E p \in next .. upto : LineOf(queue'[j]) = o[p]
  BY <1>1 DEF Coming
<1>3. ASSUME NEW p \in next .. upto PROVE \E j \in Copies(c)' : LineOf(queue'[j]) = o[p]
  <2>1. PICK h \in Copies(c) : LineOf(queue[h]) = o[p]
    BY DEF Coming
  <2>2. PICK j \in Copies(c)' : h = Was(k, j)
    BY <1>1
  <2> QED BY <1>1, <2>1, <2>2
<1>4. k \in Nat
  BY Received
<1>5. ASSUME NEW h \in Copies(c)', NEW j \in Copies(c)', NEW p \in next .. upto, NEW q \in next .. upto,
             h < j, LineOf(queue'[h]) = o[p], LineOf(queue'[j]) = o[q]
      PROVE  p < q
  <2>1. Was(k, h) < Was(k, j)
    BY <1>1, <1>4, <1>5 DEF Was
  <2>2. /\ Was(k, h) \in Copies(c) /\ Was(k, j) \in Copies(c)
        /\ LineOf(queue[Was(k, h)]) = o[p] /\ LineOf(queue[Was(k, j)]) = o[q]
    BY <1>1, <1>5
  <2> QED BY <2>1, <2>2 DEF Coming
<1> QED BY <1>2, <1>3, <1>5 DEF Coming

Injective(o) == \A h, j \in 1 .. Len(o) : o[h] = o[j] => h = j

\* The oldest copy for c is the next line.
LEMMA ComingTaken ==
    ASSUME TypeOK, NEW c, NEW k, Recv(c, k), k \in Copies(c),
           NEW o \in Seq(Line), Injective(o), NEW next \in Nat \ {0}, NEW upto \in Nat, upto <= Len(o),
           Coming(c, o, next, upto)
    PROVE  next <= upto /\ LineOf(queue[k]) = o[next] /\ Coming(c, o, next + 1, upto)'
<1>1. /\ \A j \in Copies(c)' : /\ Was(k, j) \in Copies(c) \ {k} /\ j \in Nat
                               /\ queue'[j] = queue[Was(k, j)]
      /\ \A j \in Copies(c) \ {k} : \E x \in Copies(c)' : j = Was(k, x)
  BY CopiesRemove
<1>2. k \in Nat /\ Len(o) \in Nat
  BY Received, LenProperties
<1>3. \A j \in Copies(c) \ {k} : j \in Nat /\ k < j
  <2>1. \A j \in Copies(c) : j \in 1 .. Len(queue) /\ queue[j].dest = c
    BY DEF Copies
  <2>2. \A j \in 1 .. Len(queue) : queue[j].dest = c => k <= j
    BY Received
  <2>3. \A j \in Copies(c) : k <= j /\ j \in Nat
    BY <2>1, <2>2
  <2> QED BY <1>2, <2>3
<1>4. PICK p0 \in next .. upto : LineOf(queue[k]) = o[p0]
  BY DEF Coming
<1>5. next <= upto /\ next \in next .. upto
  BY <1>4
<1>6. PICK k0 \in Copies(c) : LineOf(queue[k0]) = o[next]
  BY <1>5 DEF Coming
<1>7. k0 = k
  <2> SUFFICES ASSUME k0 # k PROVE FALSE
    OBVIOUS
  <2>1. k < k0
    BY <1>3
  <2>2. p0 < next
    BY <1>4, <1>5, <1>6, <2>1 DEF Coming
  <2> QED BY <1>4, <2>2
<1>8. LineOf(queue[k]) = o[next]
  BY <1>6, <1>7
<1>9. ASSUME NEW j \in Copies(c)' PROVE \E p \in next + 1 .. upto : LineOf(queue'[j]) = o[p]
  <2>1. Was(k, j) \in Copies(c) \ {k} /\ k < Was(k, j) /\ queue'[j] = queue[Was(k, j)]
    BY <1>1, <1>3
  <2>2. PICK p \in next .. upto : LineOf(queue[Was(k, j)]) = o[p]
    BY <2>1 DEF Coming
  <2>3. next < p
    BY <1>5, <1>8, <2>1, <2>2 DEF Coming
  <2>4. p \in next + 1 .. upto
    BY <2>3
  <2> QED BY <2>1, <2>2, <2>4
<1>10. ASSUME NEW p \in next + 1 .. upto PROVE \E j \in Copies(c)' : LineOf(queue'[j]) = o[p]
  <2>0. p \in next .. upto /\ p \in 1 .. Len(o) /\ next \in 1 .. Len(o) /\ p # next
    BY <1>2, <1>5
  <2>1. PICK h \in Copies(c) : LineOf(queue[h]) = o[p]
    BY <2>0 DEF Coming
  <2>2. h # k
    BY <1>8, <2>0, <2>1 DEF Injective
  <2>3. PICK j \in Copies(c)' : h = Was(k, j)
    BY <1>1, <2>2
  <2> QED BY <1>1, <2>1, <2>3
<1>11. ASSUME NEW h \in Copies(c)', NEW j \in Copies(c)', NEW p \in next + 1 .. upto,
              NEW q \in next + 1 .. upto,
              h < j, LineOf(queue'[h]) = o[p], LineOf(queue'[j]) = o[q]
       PROVE  p < q
  <2>1. Was(k, h) < Was(k, j)
    BY <1>1, <1>2, <1>11 DEF Was
  <2>2. /\ Was(k, h) \in Copies(c) /\ Was(k, j) \in Copies(c)
        /\ LineOf(queue[Was(k, h)]) = o[p] /\ LineOf(queue[Was(k, j)]) = o[q]
    BY <1>1, <1>11
  <2>3. p \in next .. upto /\ q \in next .. upto
    OBVIOUS
  <2> QED BY <2>1, <2>2, <2>3 DEF Coming
<1>12. Coming(c, o, next + 1, upto)'
  BY <1>9, <1>10, <1>11 DEF Coming
<1> QED BY <1>5, <1>8, <1>12

\* A copy of the next line comes to the end.
LEMMA ComingMore ==
    ASSUME TypeOK, NEW m \in Msg, queue' = Append(queue, m), m.type = "BROADCAST",
           NEW o \in Seq(Line), Injective(o), NEW next \in Nat \ {0}, NEW upto \in Nat,
           next <= upto + 1, upto < Len(o), LineOf(m) = o[upto + 1], Coming(m.dest, o, next, upto)
    PROVE  Coming(m.dest, o, next, upto + 1)'
<1> DEFINE c == m.dest
           new == Len(queue) + 1
<1>a. /\ Copies(c)' = Copies(c) \cup {new} /\ queue'[new] = m /\ Len(queue) \in Nat
      /\ \A k \in Copies(c) : queue'[k] = queue[k] /\ k \in Nat /\ k < new
  BY CopiesAppend, Zenon
<1>b. new \in Nat
  BY <1>a
<1> HIDE DEF c, new
<1>1. /\ Copies(c)' = Copies(c) \cup {new} /\ queue'[new] = m /\ new \in Nat
      /\ \A k \in Copies(c) : queue'[k] = queue[k] /\ k \in Nat /\ k < new
  BY <1>a, <1>b
<1>2. /\ next .. (upto + 1) = (next .. upto) \cup {upto + 1}
      /\ \A p \in next .. (upto + 1) : p \in 1 .. Len(o)
      /\ upto + 1 \in next .. (upto + 1)
  BY LenProperties
<1>3a. \A p, q \in next .. (upto + 1) : o[p] = o[q] => p = q
  BY <1>2 DEF Injective
<1>3. Coming(c, o, next, upto)
  BY DEF c
<1>4. ASSUME NEW k \in Copies(c)' PROVE \E p \in next .. upto + 1 : LineOf(queue'[k]) = o[p]
  <2>1. CASE k = new
    BY <1>1, <1>2, <2>1
  <2>2. CASE k \in Copies(c)
    <3>1. PICK p \in next .. upto : LineOf(queue[k]) = o[p]
      BY <1>3, <2>2 DEF Coming
    <3>2. p \in next .. upto + 1
      BY <1>2
    <3>3. queue'[k] = queue[k]
      BY <1>1, <2>2
    <3> QED BY <3>1, <3>2, <3>3
  <2> QED BY <1>1, <2>1, <2>2
<1>5. \A p \in next .. upto + 1 : \E k \in Copies(c)' : LineOf(queue'[k]) = o[p]
  BY <1>1, <1>2, <1>3 DEF Coming
<1>6. ASSUME NEW h \in Copies(c)', NEW j \in Copies(c)', NEW p \in next .. upto + 1,
             NEW q \in next .. upto + 1,
             h < j, LineOf(queue'[h]) = o[p], LineOf(queue'[j]) = o[q]
      PROVE  p < q
  <2>1. h \in Copies(c)
    BY <1>1, <1>6
  <2>2. PICK x \in next .. upto : LineOf(queue[h]) = o[x]
    BY <1>3, <2>1 DEF Coming
  <2>3. p = x
    BY <1>1, <1>2, <1>3a, <1>6, <2>1, <2>2
  <2>4. CASE j = new
    <3>1. q = upto + 1
      BY <1>1, <1>2, <1>3a, <1>6, <2>4
    <3> QED BY <2>2, <2>3, <3>1
  <2>5. CASE j \in Copies(c)
    <3>1. PICK y \in next .. upto : LineOf(queue[j]) = o[y]
      BY <1>3, <2>5 DEF Coming
    <3>2. q = y
      <4>1. queue'[j] = queue[j] /\ y \in next .. upto + 1
        BY <1>1, <1>2, <2>5
      <4> QED BY <1>3a, <1>6, <3>1, <4>1
    <3>3. x < y
      BY <1>3, <1>6, <2>1, <2>2, <2>5, <3>1 DEF Coming
    <3> QED BY <2>3, <3>2, <3>3
  <2> QED BY <1>1, <2>4, <2>5
<1>7. Coming(c, o, next, upto + 1)'
  BY <1>4, <1>5, <1>6 DEF Coming
<1> QED BY <1>7 DEF c

\* Nothing happens to the copies of c.
LEMMA ComingSame ==
    ASSUME NEW c, Copies(c)' = Copies(c), \A k \in Copies(c) : queue'[k] = queue[k],
           NEW o, NEW next, NEW upto, Coming(c, o, next, upto)
    PROVE  Coming(c, o, next, upto)'
BY DEF Coming

\* The order goes on.
LEMMA StreamOn ==
    ASSUME NEW c \in Client, NEW o \in Seq(Line), NEW l \in Line, NEW first, NEW upto,
           screen[c] \in Seq(Line), Stream(c, o, first, upto)
    PROVE  Stream(c, Append(o, l), first, upto)
<1> DEFINE o2 == Append(o, l)
<1>1. Len(o) \in Nat /\ Len(screen[c]) \in Nat
  BY LenProperties
<1>2. Len(o2) = Len(o) + 1 /\ \A p \in 1 .. Len(o) : o2[p] = o[p]
  BY <1>1, AppendProperties
<1> HIDE DEF o2
<1>3. /\ first \in Nat /\ upto \in Nat /\ first + Len(screen[c]) <= upto /\ upto <= Len(o)
      /\ \A h \in 1 .. Len(screen[c]) : screen[c][h] = o[first + h]
  BY DEF Stream
<1>4. \A h \in 1 .. Len(screen[c]) : first + h \in 1 .. Len(o)
  BY <1>1, <1>3
<1>5. \A p \in (first + Len(screen[c]) + 1) .. upto : p \in 1 .. Len(o)
  BY <1>1, <1>3
<1>6. ASSUME exists PROVE Coming(c, o2, first + Len(screen[c]) + 1, upto)
  <2>1. Coming(c, o, first + Len(screen[c]) + 1, upto)
    BY <1>6 DEF Stream
  <2> QED BY <1>2, <1>5, <2>1 DEF Coming
<1>7. /\ first + Len(screen[c]) <= upto /\ upto <= Len(o2)
      /\ \A h \in 1 .. Len(screen[c]) : screen[c][h] = o2[first + h]
  BY <1>1, <1>2, <1>3, <1>4
<1>8. Stream(c, o2, first, upto)
  BY <1>3, <1>6, <1>7 DEF Stream
<1> QED BY <1>8 DEF o2

-----------------------------------------------------------------------------

\* A message that is no broadcast for d leaves its copies alone.
LEMMA CopiesSend ==
    ASSUME TypeOK, NEW m \in Msg, Send(m), NEW d, ~ (m.dest = d /\ m.type = "BROADCAST")
    PROVE  Copies(d)' = Copies(d) /\ \A k \in Copies(d) : queue'[k] = queue[k]
<1>1. CASE queue' = Append(queue, m)
  BY <1>1, CopiesAppend
<1>2. CASE queue' = queue
  BY <1>2 DEF Copies
<1> QED BY <1>1, <1>2, Sending

\* One that is no CONNECT for the server leaves the places of those alone.
LEMMA ConnectsSend ==
    ASSUME TypeOK, NEW m \in Msg, Send(m), m.dest # Server \/ m.type # "CONNECT"
    PROVE  \A c \in Client : Mail(c, "CONNECT")' = Mail(c, "CONNECT")
<1>1. CASE queue' = Append(queue, m)
  BY <1>1, MailAppend
<1>2. CASE queue' = queue
  BY <1>2 DEF Mail
<1> QED BY <1>1, <1>2, Sending

\* Taking a message takes no client's acquaintance, and brings none a copy.
LEMMA MetRecv ==
    ASSUME TypeOK, NEW d, NEW k, Recv(d, k), NEW c \in Client
    PROVE  /\ Mail(c, "CONNECT") = {} => Mail(c, "CONNECT")' = {}
           /\ Copies(c) = {} => Copies(c)' = {}
BY MailRemove, CopiesRemove

\* A step that leaves the table alone.
LEMMA EnteredKept ==
    ASSUME TypeOK, Entered, UNCHANGED clients,
           \A c \in Client : Met(c) => Met(c)',
           \A c \in Client : ~ Met(c) /\ screen[c] = <<>> /\ Copies(c) = {}
                                => screen'[c] = <<>> /\ Copies(c)' = {}
    PROVE  Entered'
<1>1. \A h \in 1 .. Len(clients) : clients[h] \in Client
  BY ElementOfSeq DEF TypeOK
<1>2. \A h \in 1 .. Len(clients) : Met(clients[h])'
  BY <1>1 DEF Entered
<1>3. \A c \in Client : Met(c)' \/ (screen'[c] = <<>> /\ Copies(c)' = {})
  BY DEF Entered
<1> QED BY <1>2, <1>3 DEF Entered

\* server.c: the table after a message.
LEMMA EnteredRecv ==
    ASSUME ChatInv, Entered, SrvRecv
    PROVE  Entered'
<1>1. PICK k \in 1 .. Len(queue) :
         LET m == queue[k] IN
         /\ Recv(Server, k) /\ m \in Msg /\ m.dest = Server /\ m.from \in Client
         /\ IF Overrun(m) THEN UNCHANGED clients ELSE clients' = Table(m)
  BY SrvReceived
<1>2. UNCHANGED <<parent, screen>>
  BY SrvReceived
<1>3. PICK m \in Msg : m = queue[k]
  BY <1>1
<1>4. TypeOK /\ clients \in Seq(Client) /\ Len(clients) \in Nat
  BY LenProperties DEF ChatInv, TypeOK
<1>5. \A c \in Client : Met(c) => Met(c)'
  BY <1>1, <1>2, <1>4, MetRecv DEF Met
<1>6. \A c \in Client : screen[c] = <<>> /\ Copies(c) = {} => screen'[c] = <<>> /\ Copies(c)' = {}
  BY <1>1, <1>2, <1>4, MetRecv
<1>7. CASE clients' = clients
  BY <1>4, <1>5, <1>6, <1>7, EnteredKept
<1>8. CASE ~ Overrun(m) /\ m.type = "CONNECT"
  <2> DEFINE c == m.from
  <2>1. c \in Client /\ clients' = Append(clients, c)
    BY <1>1, <1>3, <1>8 DEF Table
  <2>2. /\ Len(clients') = Len(clients) + 1 /\ clients'[Len(clients) + 1] = c
        /\ \A h \in 1 .. Len(clients) : clients'[h] = clients[h]
    BY <1>4, <2>1, AppendProperties
  <2>3. k \in Mail(c, "CONNECT")
    BY <1>1, <1>3, <1>8 DEF Mail
  <2> HIDE DEF c
  <2>4. Course(c)
    BY <2>1 DEF ChatInv
  <2>5. Mail(c, "CONNECT")' = {}
    <3>1. \A j \in Mail(c, "CONNECT") : j = k
      BY <2>3, <2>4 DEF Course
    <3> QED BY <1>1, <1>4, <3>1, MailRemove
  <2>6. Met(c)'
    BY <1>2, <2>3, <2>4, <2>5 DEF Met, Course
  <2>7. \A h \in 1 .. Len(clients) : clients[h] # c
    BY <2>3 DEF Entered, Met
  <2>8. \A h \in 1 .. Len(clients') : h = Len(clients) + 1 \/ h \in 1 .. Len(clients)
    BY <1>4, <2>2
  <2>9. \A h \in 1 .. Len(clients) : clients[h] \in Client
    BY <1>4, ElementOfSeq
  <2>10. \A h \in 1 .. Len(clients') : Met(clients[h])'
    BY <1>5, <2>2, <2>6, <2>8, <2>9 DEF Entered
  <2>11. \A h, j \in 1 .. Len(clients') : clients'[h] = clients'[j] => h = j
    BY <2>2, <2>7, <2>8 DEF Entered
  <2>12. \A a \in Client : Met(a)' \/ (screen'[a] = <<>> /\ Copies(a)' = {})
    BY <1>5, <1>6 DEF Entered
  <2> QED BY <2>10, <2>11, <2>12 DEF Entered
<1>9. CASE ~ Overrun(m) /\ m.type = "DISCONNECT"
  <2>1. clients' = SubSeq(clients, 1, Len(clients) - 1)
    BY <1>1, <1>3, <1>9 DEF Table, Front
  <2>2. \A h \in 1 .. Len(clients) : clients[h] \in Client
    BY <1>4, ElementOfSeq
  <2>3. \A h \in 1 .. Len(clients') : h \in 1 .. Len(clients) /\ clients'[h] = clients[h]
    BY <1>4, <2>1
  <2>4. \A h \in 1 .. Len(clients') : Met(clients[h])'
    BY <1>5, <2>2, <2>3 DEF Entered
  <2>5. \A h, j \in 1 .. Len(clients') : clients'[h] = clients'[j] => h = j
    BY <2>3 DEF Entered
  <2>6. \A a \in Client : Met(a)' \/ (screen'[a] = <<>> /\ Copies(a)' = {})
    BY <1>5, <1>6 DEF Entered
  <2> QED BY <2>4, <2>5, <2>6 DEF Entered
<1> QED BY <1>1, <1>3, <1>7, <1>8, <1>9 DEF Table

\* client.c: between the keyboard and msgsnd a typist changes nothing.
LEMMA TypistStep ==
    ASSUME ChatInv, Typist, [Next]_vars
    PROVE  Typist'
<1>0. TypeOK
  BY DEF ChatInv
<1>1. CASE UNCHANGED <<parent, typed>>
  BY <1>1 DEF Typist
<1>2. ASSUME NEW c \in Client, Start(c) \/ Shutdown(c) \/ SendStep(c) PROVE Typist'
  <2>1. /\ parent'[c].pc # "send" /\ UNCHANGED typed
        /\ \A d \in Client \ {c} : parent'[d] = parent[d]
    BY <1>0, <1>2 DEF Start, Shutdown, SendStep, Connect, SendTyped, Disconnect, AtInput, TypeOK
  <2> QED BY <2>1 DEF Typist
<1>3. ASSUME NEW c \in Client, Type(c) PROVE Typist'
  <2>1. PICK m \in {Message(Server, c, "BROADCAST", typed[c] + 1)}
                  \cup {Message(d, c, "PRIVATE", 0) : d \in Private} :
          parent' = [parent EXCEPT ![c] = [pc |-> "send", msg |-> m]]
    BY <1>3 DEF Type
  <2>2. typed' = [typed EXCEPT ![c] = typed[c] + 1]
    BY <1>3 DEF Type
  <2>3. /\ parent'[c].msg = m /\ typed'[c] = typed[c] + 1
        /\ \A d \in Client \ {c} : parent'[d] = parent[d] /\ typed'[d] = typed[d]
    BY <1>0, <2>1, <2>2 DEF TypeOK
  <2>4. m.type = "BROADCAST" => m = Message(Server, c, "BROADCAST", typed[c] + 1)
    BY DEF Message
  <2> QED BY <2>3, <2>4 DEF Typist
<1> QED
  BY <1>1, <1>2, <1>3
  DEF Next, SrvStep, SrvRecv, SrvSend, SrvDone, SrvExit, SrvInterrupt, Listen, vars

\* Every step: nobody is twice in the table, and nobody gets lines before its CONNECT is handled.
LEMMA EnteredStep ==
    ASSUME ChatInv, Entered, Typist, [Next]_vars
    PROVE  Entered'
<1>0. TypeOK
  BY DEF ChatInv
<1>1. CASE SrvRecv
  BY <1>1, EnteredRecv
<1>2. CASE SrvSend
  <2>1. /\ srv.i \in 0 .. MaxClients /\ srv.i < Len(clients) /\ srv.msg \in Msg
        /\ Send([srv.msg EXCEPT !.dest = clients[srv.i + 1]])
        /\ UNCHANGED <<parent, screen, clients>>
    BY <1>0, <1>2 DEF SrvSend, TypeOK
  <2>2. Len(clients) \in Nat /\ srv.i + 1 \in 1 .. Len(clients)
    BY <1>0, <2>1, LenProperties DEF TypeOK
  <2>3. clients[srv.i + 1] \in Client
    BY <1>0, <2>2, ElementOfSeq DEF TypeOK
  <2>4. PICK m \in Msg : m = [srv.msg EXCEPT !.dest = clients[srv.i + 1]] /\ m.dest = clients[srv.i + 1] /\ m.dest # Server
    BY <2>1, <2>3, ClientAssumption DEF Msg
  <2>5. Met(m.dest)
    BY <2>2, <2>4 DEF Entered
  <2>6. \A c \in Client : Met(c) => Met(c)'
    BY <1>0, <2>1, <2>4, ConnectsSend DEF Met
  <2>7. \A c \in Client : ~ Met(c) => Copies(c)' = Copies(c)
    BY <1>0, <2>1, <2>4, <2>5, CopiesSend
  <2> QED BY <1>0, <2>1, <2>6, <2>7, EnteredKept
<1>3. CASE SrvInterrupt
  <2>1. queue' = <<>> /\ UNCHANGED <<parent, screen, clients>>
    BY <1>3 DEF SrvInterrupt
  <2>2. \A c : Mail(c, "CONNECT")' = {} /\ Copies(c)' = {}
    BY <2>1 DEF Mail, Copies
  <2> QED BY <1>0, <2>1, <2>2, EnteredKept DEF Met
<1>4. CASE UNCHANGED <<queue, parent, screen, clients>>
  BY <1>0, <1>4, EnteredKept DEF Met, Mail, Copies
<1>5. ASSUME NEW c \in Client, Start(c) \/ Type(c) \/ Shutdown(c) PROVE Entered'
  <2>1. UNCHANGED <<queue, screen, clients>> /\ \A d \in Client \ {c} : parent'[d] = parent[d]
    BY <1>0, <1>5 DEF Start, Type, Shutdown, TypeOK
  <2>2. parent[c].pc \notin {"off", "fork"} => parent'[c].pc \notin {"off", "fork"}
    BY <1>0, <1>5 DEF Start, Type, Shutdown, TypeOK
  <2>3. \A a : Mail(a, "CONNECT")' = Mail(a, "CONNECT") /\ Copies(a)' = Copies(a)
    BY <2>1 DEF Mail, Copies
  <2>4. \A a \in Client : Met(a) => Met(a)'
    BY <2>1, <2>2, <2>3 DEF Met
  <2> QED BY <1>0, <2>1, <2>3, <2>4, EnteredKept
<1>6. ASSUME NEW c \in Client, SendTyped(c) \/ Disconnect(c) PROVE Entered'
  <2>1. PICK m \in Msg : Send(m) /\ (m.dest # Server \/ m.type # "CONNECT") /\ (m.dest \in Client => m.type # "BROADCAST")
    <3>1. CASE SendTyped(c)
      <4>1. /\ parent[c].pc = "send" /\ Send(parent[c].msg) /\ parent[c].msg \in Msg
            /\ parent[c].msg.type \in {"BROADCAST", "PRIVATE"}
        BY <1>0, <3>1 DEF SendTyped, TypeOK, ChatInv, Mails
      <4>2. parent[c].msg.type = "BROADCAST" => parent[c].msg.dest = Server
        <5>1. ASSUME parent[c].msg.type = "BROADCAST"
              PROVE  parent[c].msg = Message(Server, c, "BROADCAST", typed[c])
          BY <4>1, <5>1 DEF Typist
        <5> QED BY <5>1 DEF Message
      <4> QED BY <4>1, <4>2, ClientAssumption
    <3>2. CASE Disconnect(c)
      <4>1. 0 \in 0 .. MaxTyped /\ "DISCONNECT" \in Types
        BY BoundAssumption DEF Types
      <4> QED BY <3>2, <4>1, MessageIs DEF Disconnect
    <3> QED BY <1>6, <3>1, <3>2
  <2>2. UNCHANGED <<screen, clients>> /\ \A d \in Client \ {c} : parent'[d] = parent[d]
    BY <1>0, <1>6 DEF SendTyped, Disconnect, TypeOK
  <2>3. parent'[c].pc \notin {"off", "fork"}
    BY <1>0, <1>6 DEF SendTyped, Disconnect, TypeOK, AtInput
  <2>4. \A a \in Client : Mail(a, "CONNECT")' = Mail(a, "CONNECT") /\ Copies(a)' = Copies(a)
    BY <1>0, <2>1, ConnectsSend, CopiesSend
  <2>5. \A a \in Client : Met(a) => Met(a)'
    BY <2>2, <2>3, <2>4 DEF Met
  <2> QED BY <1>0, <2>2, <2>4, <2>5, EnteredKept
<1>7. ASSUME NEW c \in Client, Connect(c) PROVE Entered'
  <2>1. 0 \in 0 .. MaxTyped /\ "CONNECT" \in Types
    BY BoundAssumption DEF Types
  <2>2. PICK m \in Msg : Send(m) /\ m.from = c /\ m.type = "CONNECT"
    BY <1>7, <2>1, MessageIs DEF Connect
  <2>3. UNCHANGED <<screen, clients>> /\ \A d \in Client \ {c} : parent'[d] = parent[d]
    BY <1>0, <1>7 DEF Connect, TypeOK
  <2>4. ~ Met(c)
    BY <1>7 DEF Connect, Met
  <2>5. \A a \in Client : Copies(a)' = Copies(a)
    BY <1>0, <2>2, CopiesSend
  <2>6. ASSUME NEW a \in Client \ {c} PROVE Mail(a, "CONNECT")' = Mail(a, "CONNECT")
    <3>1. CASE queue' = Append(queue, m)
      BY <1>0, <2>2, <3>1, MailAppend
    <3>2. CASE queue' = queue
      BY <3>2 DEF Mail
    <3> QED BY <1>0, <2>2, <3>1, <3>2, Sending
  <2>7. \A a \in Client : Met(a) => Met(a)'
    BY <2>3, <2>4, <2>6 DEF Met
  <2> QED BY <1>0, <2>3, <2>5, <2>7, EnteredKept
<1>8. ASSUME NEW c \in Client, Listen(c) PROVE Entered'
  <2>1. PICK k \in For(c) :
         /\ Recv(c, k)
         /\ screen' = IF queue[k].type = "BROADCAST"
                        THEN [screen EXCEPT ![c] =
                                 Append(@, [from |-> queue[k].from, n |-> queue[k].n])]
                        ELSE screen
    BY <1>8 DEF Listen
  <2>2. UNCHANGED <<clients, parent>>
    BY <1>8 DEF Listen
  <2>3. \A a \in Client : Met(a) => Met(a)'
    BY <1>0, <2>1, <2>2, MetRecv DEF Met
  <2>4. queue[k].type = "BROADCAST" => k \in Copies(c)
    BY <2>1 DEF For, Copies
  <2>5. \A a \in Client : Copies(a) = {} => screen'[a] = screen[a]
    BY <1>0, <2>1, <2>4 DEF TypeOK
  <2>6. \A a \in Client : Copies(a) = {} => Copies(a)' = {}
    BY <1>0, <2>1, MetRecv
  <2> QED BY <1>0, <2>2, <2>3, <2>5, <2>6, EnteredKept
<1> QED
  BY <1>1, <1>2, <1>3, <1>4, <1>5, <1>6, <1>7, <1>8
  DEF Next, SrvStep, SendStep, SrvDone, SrvExit, vars

-----------------------------------------------------------------------------
(* Each step keeps the order, or continues it. *)

\* Nothing happens to the screen and the copies of c.
LEMMA StreamSame ==
    ASSUME NEW c, Copies(c)' = Copies(c), \A k \in Copies(c) : queue'[k] = queue[k],
           screen'[c] = screen[c], exists' => exists,
           NEW o, NEW first, NEW upto, Stream(c, o, first, upto)
    PROVE  Stream(c, o, first, upto)'
<1>1. Len(screen[c])' = Len(screen[c])
  OBVIOUS
<1> DEFINE next == first + Len(screen[c]) + 1
<1>2. ASSUME exists' PROVE Coming(c, o, first + Len(screen[c]) + 1, upto)'
  <2>1. PICK n : n = first + Len(screen[c]) + 1
    OBVIOUS
  <2>2. Coming(c, o, n, upto)'
    BY <1>2, <2>1, ComingSame DEF Stream
  <2> QED BY <2>1, <2>2 DEF Coming
<1> QED BY <1>2 DEF Stream

\* Copies of others are taken.
LEMMA StreamShift ==
    ASSUME TypeOK, NEW d, NEW k, Recv(d, k), NEW c, k \notin Copies(c),
           screen'[c] = screen[c], exists' => exists,
           NEW o, NEW first, NEW upto, Stream(c, o, first, upto)
    PROVE  Stream(c, o, first, upto)'
<1>2. ASSUME exists' PROVE Coming(c, o, first + Len(screen[c]) + 1, upto)'
  <2>1. PICK n : n = first + Len(screen[c]) + 1
    OBVIOUS
  <2>2. Coming(c, o, n, upto)'
    BY <1>2, <2>1, ComingShift DEF Stream
  <2> QED BY <2>1, <2>2 DEF Coming
<1> QED BY <1>2 DEF Stream

\* No line comes to the typists and to the server.
LEMMA TypedOnceSame ==
    ASSUME Copies(Server)' = Copies(Server), \A k \in Copies(Server) : queue'[k] = queue[k],
           UNCHANGED typed,
           \A c \in Client : parent'[c] = parent[c] \/ parent'[c].pc # "send",
           NEW o, TypedOnce(o)
    PROVE  TypedOnce(o)'
BY DEF TypedOnce

\* One is taken from the queue, and may come to the order.
LEMMA TypedOnceRecv ==
    ASSUME TypeOK, NEW d, NEW k, Recv(d, k), UNCHANGED <<typed, parent>>, NEW o, TypedOnce(o)
    PROVE  TypedOnce(o)'
<1>1. \A j \in Copies(Server)' : /\ Was(k, j) \in Copies(Server)
                                 /\ queue'[j] = queue[Was(k, j)] /\ j \in Nat
  BY CopiesRemove
<1>2. k \in Nat
  BY Received
<1>3. \A h, j \in Copies(Server)' : LineOf(queue'[h]) = LineOf(queue'[j]) => h = j
  <2> SUFFICES ASSUME NEW h \in Copies(Server)', NEW j \in Copies(Server)',
                      LineOf(queue'[h]) = LineOf(queue'[j])
               PROVE  h = j
    OBVIOUS
  <2>1. Was(k, h) = Was(k, j)
    BY <1>1 DEF TypedOnce
  <2> QED BY <1>1, <1>2, <2>1 DEF Was
<1>4. \A j \in Copies(Server)' :
          /\ queue'[j].n <= typed'[queue'[j].from]
          /\ \A h \in 1 .. Len(o) : o[h] # LineOf(queue'[j])
  BY <1>1 DEF TypedOnce
<1>5. \A c \in Client : parent'[c].pc = "send" /\ parent'[c].msg.type = "BROADCAST" =>
          /\ \A h \in 1 .. Len(o) : o[h] # LineOf(parent'[c].msg)
          /\ \A j \in Copies(Server)' : LineOf(queue'[j]) # LineOf(parent'[c].msg)
  BY <1>1 DEF TypedOnce
<1> QED BY <1>3, <1>4, <1>5 DEF TypedOnce

\* The line that the server takes continues the order.
LEMMA TypedOnceTaken ==
    ASSUME TypeOK, NEW k, Recv(Server, k), k \in Copies(Server), UNCHANGED <<typed, parent>>,
           NEW l \in Line, l = LineOf(queue[k]), NEW o \in Seq(Line), TypedOnce(o)
    PROVE  TypedOnce(Append(o, l))'
<1> DEFINE o2 == Append(o, l)
<1>1. Len(o) \in Nat /\ Len(o2) = Len(o) + 1 /\ o2[Len(o) + 1] = l /\ \A h \in 1 .. Len(o) : o2[h] = o[h]
  BY LenProperties, AppendProperties
<1>2. /\ l = [from |-> queue[k].from, n |-> queue[k].n]
      /\ l.from = queue[k].from /\ l.n = queue[k].n
  BY DEF LineOf
<1> HIDE DEF o2
<1>3. \A h \in 1 .. Len(o2) : h = Len(o) + 1 \/ h \in 1 .. Len(o)
  BY <1>1
<1>4. \A j \in Copies(Server)' : /\ Was(k, j) \in Copies(Server) \ {k}
                                 /\ queue'[j] = queue[Was(k, j)]
  BY CopiesRemove
<1>5. TypedOnce(o)'
  BY TypedOnceRecv
<1>6. \A h \in 1 .. Len(o) : o[h] # l
  BY DEF TypedOnce
<1>7. \A j \in Copies(Server)' : LineOf(queue'[j]) # l
  BY <1>4 DEF TypedOnce
<1>8. \A c \in Client : parent[c].pc = "send" /\ parent[c].msg.type = "BROADCAST" => l # LineOf(parent[c].msg)
  BY DEF TypedOnce
<1>9. l.n <= typed[l.from]
  BY <1>2 DEF TypedOnce
<1>10. \A h, j \in 1 .. Len(o2) : o2[h] = o2[j] => h = j
  <2>1. \A h, j \in 1 .. Len(o) : o[h] = o[j] => h = j
    BY DEF TypedOnce
  <2> QED BY <1>1, <1>3, <1>6, <2>1
<1>11. \A h \in 1 .. Len(o2) : o2[h].n <= typed'[o2[h].from]
  <2>1. \A h \in 1 .. Len(o) : o[h].n <= typed[o[h].from]
    BY DEF TypedOnce
  <2> QED BY <1>1, <1>3, <1>9, <2>1
<1>12. \A j \in Copies(Server)' :
          /\ queue'[j].n <= typed'[queue'[j].from]
          /\ \A h \in 1 .. Len(o2) : o2[h] # LineOf(queue'[j])
  BY <1>1, <1>3, <1>5, <1>7 DEF TypedOnce
<1>13. \A h, j \in Copies(Server)' : LineOf(queue'[h]) = LineOf(queue'[j]) => h = j
  BY <1>5 DEF TypedOnce
<1>14. \A c \in Client : parent'[c].pc = "send" /\ parent'[c].msg.type = "BROADCAST" =>
          /\ \A h \in 1 .. Len(o2) : o2[h] # LineOf(parent'[c].msg)
          /\ \A j \in Copies(Server)' : LineOf(queue'[j]) # LineOf(parent'[c].msg)
  BY <1>1, <1>3, <1>5, <1>8 DEF TypedOnce
<1>15. TypedOnce(o2)'
  BY <1>10, <1>11, <1>12, <1>13, <1>14 DEF TypedOnce
<1> QED BY <1>15 DEF o2

\* client.c: a line goes to the server, or its broadcast is typed.
LEMMA OrderSendTyped ==
    ASSUME TypeOK, Typist, NEW c \in Client, SendTyped(c), parent[c].msg \in Msg,
           NEW o \in Seq(Line), TypedOnce(o)
    PROVE  TypedOnce(o)'
<1>1. /\ parent[c].pc = "send" /\ Send(parent[c].msg) /\ UNCHANGED typed
      /\ parent'[c].pc # "send" /\ \A d \in Client \ {c} : parent'[d] = parent[d]
  BY DEF SendTyped, TypeOK, AtInput
<1>2. PICK m \in Msg : m = parent[c].msg
  OBVIOUS
<1>3. CASE ~ (m.dest = Server /\ m.type = "BROADCAST")
  BY <1>1, <1>2, <1>3, CopiesSend, TypedOnceSame
<1>4. CASE queue' = queue
  BY <1>1, <1>4, TypedOnceSame DEF Copies
<1>5. CASE queue' = Append(queue, m) /\ m.dest = Server /\ m.type = "BROADCAST"
  <2> DEFINE new == Len(queue) + 1
  <2>1. /\ Copies(Server)' = Copies(Server) \cup {new} /\ queue'[new] = m
        /\ \A k \in Copies(Server) : queue'[k] = queue[k]
    BY <1>5, CopiesAppend
  <2> HIDE DEF new
  <2>2. m.from = c /\ m.n = typed[c] /\ typed[c] \in Nat
    <3>1. m = Message(Server, c, "BROADCAST", typed[c])
      BY <1>1, <1>2, <1>5 DEF Typist
    <3>2. m.from = c /\ m.n = typed[c]
      BY <3>1 DEF Message
    <3> QED BY <3>2, BoundAssumption DEF TypeOK
  <2>3. /\ \A h \in 1 .. Len(o) : o[h] # LineOf(m)
        /\ \A k \in Copies(Server) : LineOf(queue[k]) # LineOf(m)
    BY <1>1, <1>2, <1>5 DEF TypedOnce
  <2>4. \A d \in Client \ {c} : parent[d].pc = "send" /\ parent[d].msg.type = "BROADCAST"
                                  => LineOf(parent[d].msg) # LineOf(m)
    <3> SUFFICES ASSUME NEW d \in Client \ {c}, parent[d].pc = "send", parent[d].msg.type = "BROADCAST"
                 PROVE  LineOf(parent[d].msg) # LineOf(m)
      OBVIOUS
    <3>1. parent[d].msg = Message(Server, d, "BROADCAST", typed[d])
      BY DEF Typist
    <3>2. parent[d].msg.from = d
      BY <3>1 DEF Message
    <3> QED BY <2>2, <3>2 DEF LineOf
  <2>5. \A k \in Copies(Server)' :
          /\ queue'[k].n <= typed'[queue'[k].from]
          /\ \A h \in 1 .. Len(o) : o[h] # LineOf(queue'[k])
    BY <1>1, <2>1, <2>2, <2>3 DEF TypedOnce
  <2>6. \A j, k \in Copies(Server)' : LineOf(queue'[j]) = LineOf(queue'[k]) => j = k
    BY <2>1, <2>3 DEF TypedOnce
  <2>7. \A d \in Client : parent'[d].pc = "send" /\ parent'[d].msg.type = "BROADCAST" =>
          /\ \A h \in 1 .. Len(o) : o[h] # LineOf(parent'[d].msg)
          /\ \A k \in Copies(Server)' : LineOf(queue'[k]) # LineOf(parent'[d].msg)
    BY <1>1, <2>1, <2>4 DEF TypedOnce
  <2> QED BY <1>1, <2>5, <2>6, <2>7 DEF TypedOnce
<1> QED BY <1>1, <1>2, <1>3, <1>4, <1>5, Sending

\* client.c: a line that is typed has a number of its own.
LEMMA OrderType ==
    ASSUME TypeOK, Mails, Typist', NEW c \in Client, Type(c), NEW o \in Seq(Line), TypedOnce(o)
    PROVE  TypedOnce(o)'
<1>1. /\ UNCHANGED queue /\ typed' = [typed EXCEPT ![c] = typed[c] + 1]
      /\ \A d \in Client \ {c} : parent'[d] = parent[d]
  BY DEF Type, TypeOK
<1>2. Copies(Server)' = Copies(Server)
  BY <1>1 DEF Copies
<1>3. \A d \in Client : typed[d] \in Nat /\ typed[d] <= typed'[d]
  BY <1>1, BoundAssumption DEF TypeOK
<1>4. typed'[c] = typed[c] + 1
  BY <1>1 DEF TypeOK
<1>5. \A h \in 1 .. Len(o) : o[h].from \in Client /\ o[h].n \in Nat
  <2>1. \A h \in 1 .. Len(o) : o[h] \in Line
    BY ElementOfSeq
  <2> QED BY <2>1, BoundAssumption DEF Line
<1>6. \A k \in Copies(Server) : queue[k].n \in Nat
  <2>1. \A k \in 1 .. Len(queue) : queue[k] \in Msg
    BY ElementOfSeq DEF TypeOK
  <2> QED BY <2>1, BoundAssumption DEF Copies, Msg
<1>7. \A k \in Copies(Server) : queue[k].from \in Client
  BY DEF Copies, Mails, Proper
<1>8. ASSUME parent'[c].pc = "send", parent'[c].msg.type = "BROADCAST"
      PROVE  /\ \A h \in 1 .. Len(o) : o[h] # LineOf(parent'[c].msg)
             /\ \A k \in Copies(Server) : LineOf(queue[k]) # LineOf(parent'[c].msg)
  <2>1. parent'[c].msg = Message(Server, c, "BROADCAST", typed'[c])
    BY <1>8 DEF Typist
  <2>2. LineOf(parent'[c].msg).from = c /\ LineOf(parent'[c].msg).n = typed[c] + 1
    BY <1>4, <2>1 DEF LineOf, Message
  <2>3. \A h \in 1 .. Len(o) : o[h].from = c => o[h].n # typed[c] + 1
    BY <1>3, <1>5 DEF TypedOnce
  <2>4. \A k \in Copies(Server) : queue[k].from = c => queue[k].n # typed[c] + 1
    BY <1>3, <1>6 DEF TypedOnce
  <2>5. \A k \in Copies(Server) : LineOf(queue[k]).from = queue[k].from /\ LineOf(queue[k]).n = queue[k].n
    BY DEF LineOf
  <2> QED BY <2>2, <2>3, <2>4, <2>5
<1>9. \A h \in 1 .. Len(o) : o[h].n <= typed'[o[h].from]
  <2>1. \A h \in 1 .. Len(o) : o[h].n <= typed[o[h].from]
    BY DEF TypedOnce
  <2>2. \A d \in Client : typed'[d] \in Nat
    BY <1>1, <1>3 DEF TypeOK
  <2> QED BY <1>3, <1>5, <2>1, <2>2
<1>10. \A k \in Copies(Server) : queue[k].n <= typed'[queue[k].from]
  <2>1. \A k \in Copies(Server) : queue[k].n <= typed[queue[k].from]
    BY DEF TypedOnce
  <2>2. \A d \in Client : typed'[d] \in Nat
    BY <1>1, <1>3 DEF TypeOK
  <2> QED BY <1>3, <1>6, <1>7, <2>1, <2>2
<1> QED BY <1>1, <1>2, <1>8, <1>9, <1>10 DEF TypedOnce

\* server.c: a broadcast that is received continues the order; whoever connects begins at
\* its end.
LEMMA OrderRecv ==
    ASSUME ChatInv, Entered, SrvRecv, NEW o \in Seq(Line),
           NEW first \in [Client -> Nat], NEW upto \in [Client -> Nat], Ordered(o, first, upto)
    PROVE  \E o2 \in Seq(Line) : \E first2, upto2 \in [Client -> Nat] : Ordered(o2, first2, upto2)'
<1>1. PICK k \in 1 .. Len(queue) :
         LET m == queue[k] IN
         /\ Recv(Server, k) /\ m \in Msg /\ m.dest = Server /\ m.from \in Client /\ Proper(m)
         /\ IF Overrun(m)
              THEN srv' = [srv EXCEPT !.pc = "overrun"] /\ UNCHANGED clients
              ELSE /\ clients' = Table(m)
                   /\ srv' = IF m.type = "PRIVATE" THEN srv
                             ELSE SendAll([m EXCEPT !.type = IF @ = "BROADCAST" THEN @ ELSE "CONNECT"])
  BY SrvReceived
<1>2. srv.pc = "recv" /\ UNCHANGED <<exists, parent, child, typed, screen>>
  BY SrvReceived
<1>3. PICK m \in Msg : m = queue[k]
  BY <1>1
<1>4. TypeOK /\ exists /\ clients \in Seq(Client) /\ Len(clients) \in Nat /\ Len(o) \in Nat
  BY <1>1, Received, LenProperties DEF ChatInv, TypeOK
<1>5. \A c : c \in Client => k \notin Copies(c)
  BY <1>1, ClientAssumption DEF Copies
<1>6. TypedOnce(o)'
  BY <1>1, <1>2, <1>4, TypedOnceRecv DEF Ordered
<1>7. ASSUME NEW c \in Client, NEW o2, NEW f, NEW l, Stream(c, o2, f, l) PROVE Stream(c, o2, f, l)'
  BY <1>1, <1>2, <1>4, <1>5, <1>7, StreamShift
<1>8. \A h \in 1 .. Len(clients) : clients[h] \in Client /\ upto[clients[h]] = Len(o)
  BY <1>2, <1>4, ElementOfSeq DEF Ordered, SentTo, Broadcasting
<1>9. CASE Overrun(m) \/ m.type = "PRIVATE"
  <2>1. clients' = clients /\ srv'.pc # "send"
    BY <1>1, <1>2, <1>3, <1>4, <1>9 DEF Overrun, Table, TypeOK
  <2>2. SentTo(o, upto)'
    BY <1>8, <2>1 DEF SentTo, Broadcasting
  <2>3. Ordered(o, first, upto)'
    BY <1>6, <1>7, <2>2 DEF Ordered
  <2> QED BY <2>3
<1>10. CASE m.type = "BROADCAST"
  <2>1. PICK l \in Line : l = LineOf(m)
    BY <1>1, <1>3, <1>10 DEF Line, LineOf, Proper
  <2>2. PICK o2 \in Seq(Line) : o2 = Append(o, l)
    BY AppendProperties
  <2>3. Len(o2) = Len(o) + 1 /\ o2[Len(o) + 1] = l
    BY <1>4, <2>2, AppendProperties
  <2>4. TypedOnce(o2)'
    <3>1. k \in Copies(Server)
      BY <1>1, <1>3, <1>10 DEF Copies
    <3> QED BY <1>1, <1>2, <1>3, <1>4, <2>1, <2>2, <3>1, TypedOnceTaken DEF Ordered
  <2>5. \A c \in Client : Stream(c, o2, first[c], upto[c])'
    <3>1. \A c \in Client : screen[c] \in Seq(Line)
      BY <1>4 DEF TypeOK, Line
    <3>2. \A c \in Client : Stream(c, o2, first[c], upto[c])
      BY <2>2, <3>1, StreamOn DEF Ordered
    <3> QED BY <1>7, <3>2
  <2>6. /\ clients' = clients
        /\ srv' = SendAll([m EXCEPT !.type = "BROADCAST"])
    BY <1>1, <1>3, <1>10 DEF Overrun, Table
  <2>7. srv'.pc = "send" /\ srv'.i = 0 /\ LineOf(srv'.msg) = l /\ srv'.msg.type = "BROADCAST"
    <3>1. [m EXCEPT !.type = "BROADCAST"] = m
      BY <1>10 DEF Msg
    <3>2. srv' = [pc |-> "send", msg |-> m, i |-> 0]
      BY <2>6, <3>1 DEF SendAll
    <3> QED BY <1>10, <2>1, <3>2
  <2>8. SentTo(o2, upto)'
    <3>1. Broadcasting'
      BY <2>7 DEF Broadcasting
    <3>2. Len(o2) > 0 /\ o2[Len(o2)] = LineOf(srv'.msg)
      BY <1>4, <2>3, <2>7
    <3>3. ASSUME NEW h \in 1 .. Len(clients') PROVE h > srv'.i /\ upto[clients'[h]] = Len(o2) - 1
      BY <1>4, <1>8, <2>3, <2>6, <2>7
    <3> QED BY <3>1, <3>2, <3>3 DEF SentTo
  <2>9. Ordered(o2, first, upto)'
    BY <2>4, <2>5, <2>8 DEF Ordered
  <2> QED BY <2>9
<1>11. CASE ~ Overrun(m) /\ m.type \in {"CONNECT", "DISCONNECT"}
  <2>1. clients' = Table(m) /\ srv' = SendAll([m EXCEPT !.type = "CONNECT"])
    BY <1>1, <1>3, <1>11
  <2>2. ~ Broadcasting'
    <3>1. srv'.msg = [m EXCEPT !.type = "CONNECT"]
      BY <2>1 DEF SendAll
    <3>2. srv'.msg.type = "CONNECT"
      BY <3>1 DEF Msg
    <3> QED BY <3>2 DEF Broadcasting
  <2>3. CASE m.type = "CONNECT"
    <3> DEFINE c == m.from
               first2 == [first EXCEPT ![c] = Len(o)]
               upto2 == [upto EXCEPT ![c] = Len(o)]
    <3>1. c \in Client /\ clients' = Append(clients, c)
      BY <1>1, <1>3, <2>1, <2>3 DEF Table
    <3>2. /\ Len(clients') = Len(clients) + 1 /\ clients'[Len(clients) + 1] = c
          /\ \A h \in 1 .. Len(clients) : clients'[h] = clients[h]
      BY <1>4, <3>1, AppendProperties
    <3>3. ~ Met(c)
      <4>1. k \in Mail(c, "CONNECT")
        BY <1>1, <1>3, <2>3 DEF Mail
      <4> QED BY <4>1 DEF Met
    <3>4. screen[c] = <<>> /\ Copies(c) = {}
      BY <3>1, <3>3 DEF Entered
    <3>5. Copies(c)' = {}
      BY <1>1, <1>4, <3>1, <3>4, MetRecv
    <3>6. Len(screen'[c]) = 0
      BY <1>2, <3>4
    <3>7. Stream(c, o, Len(o), Len(o))'
      <4>1. (Len(o) + 0 + 1) .. Len(o) = {}
        BY <1>4
      <4> QED BY <1>4, <3>5, <3>6, <4>1 DEF Stream, Coming
    <3>8. /\ first2 \in [Client -> Nat] /\ upto2 \in [Client -> Nat] /\ first2[c] = Len(o) /\ upto2[c] = Len(o)
          /\ \A d \in Client \ {c} : first2[d] = first[d] /\ upto2[d] = upto[d]
      BY <1>4, <3>1
    <3>9. \A h \in 1 .. Len(clients) : clients[h] # c
      BY <3>3 DEF Entered
    <3> HIDE DEF c
    <3>a. PICK f \in [Client -> Nat], l \in [Client -> Nat] : f = first2 /\ l = upto2
      BY <3>8
    <3> HIDE DEF first2, upto2
    <3>10. \A h \in 1 .. Len(clients') : l[clients'[h]] = Len(o)
      <4>1. \A h \in 1 .. Len(clients') : h = Len(clients) + 1 \/ h \in 1 .. Len(clients)
        BY <1>4, <3>2
      <4>2. ASSUME NEW h \in 1 .. Len(clients) PROVE l[clients'[h]] = Len(o)
        <5>1. clients[h] \in Client \ {c} /\ clients'[h] = clients[h] /\ upto[clients[h]] = Len(o)
          BY <1>8, <3>2, <3>9
        <5>2. l[clients[h]] = upto[clients[h]]
          BY <3>8, <3>a, <5>1
        <5> QED BY <5>1, <5>2
      <4>3. l[clients'[Len(clients) + 1]] = Len(o)
        BY <3>2, <3>8, <3>a
      <4> QED BY <4>1, <4>2, <4>3
    <3>11. SentTo(o, l)'
      BY <2>2, <3>10 DEF SentTo
    <3>12. \A d \in Client : Stream(d, o, f[d], l[d])'
      <4>1. \A d \in Client \ {c} : Stream(d, o, first[d], upto[d])'
        BY <1>7 DEF Ordered
      <4> QED BY <3>7, <3>8, <3>a, <4>1
    <3>13. Ordered(o, f, l)'
      BY <1>6, <3>11, <3>12 DEF Ordered
    <3> QED BY <3>13
  <2>4. CASE m.type = "DISCONNECT"
    <3>1. clients' = SubSeq(clients, 1, Len(clients) - 1)
      BY <2>1, <2>4 DEF Table, Front
    <3>2. \A h \in 1 .. Len(clients') : h \in 1 .. Len(clients) /\ clients'[h] = clients[h]
      BY <1>4, <3>1
    <3>3. SentTo(o, upto)'
      BY <1>8, <2>2, <3>2 DEF SentTo
    <3>4. Ordered(o, first, upto)'
      BY <1>6, <1>7, <3>3 DEF Ordered
    <3> QED BY <3>4
  <2> QED BY <1>11, <2>3, <2>4
<1> QED BY <1>3, <1>9, <1>10, <1>11 DEF Msg, Types

\* server.c: send_all hands the line on, from one client of the table to the next.
LEMMA OrderSrvSend ==
    ASSUME ChatInv, Entered, SrvSend, NEW o \in Seq(Line),
           NEW first \in [Client -> Nat], NEW upto \in [Client -> Nat], Ordered(o, first, upto)
    PROVE  \E upto2 \in [Client -> Nat] : Ordered(o, first, upto2)'
<1>0. TypeOK
  BY DEF ChatInv
<1>1. /\ srv.pc = "send" /\ srv.i \in 0 .. MaxClients /\ srv.i < Len(clients) /\ srv.msg \in Msg
      /\ Send([srv.msg EXCEPT !.dest = clients[srv.i + 1]])
      /\ srv' = [srv EXCEPT !.i = srv.i + 1]
      /\ UNCHANGED <<exists, clients, parent, typed, screen>>
  BY <1>0 DEF SrvSend, TypeOK
<1>2. Len(clients) \in Nat /\ srv.i \in Nat /\ srv.i + 1 \in 1 .. Len(clients) /\ Len(o) \in Nat
  <2>1. Len(clients) \in Nat /\ Len(o) \in Nat
    BY <1>0, LenProperties DEF TypeOK
  <2>2. srv.i \in Nat
    BY <1>1, BoundAssumption
  <2>3. srv.i + 1 \in 1 .. Len(clients)
    BY <1>1, <2>1, <2>2
  <2> QED BY <2>1, <2>2, <2>3
<1>3. PICK c \in Client : c = clients[srv.i + 1]
  <2>1. clients \in Seq(Client)
    BY <1>0 DEF TypeOK
  <2>2. clients[srv.i + 1] \in Client
    BY <1>2, <2>1, ElementOfSeq
  <2> QED BY <2>2
<1>4. PICK m \in Msg : m = [srv.msg EXCEPT !.dest = c]
  BY <1>1, <1>3 DEF Msg
<1>5. /\ m.dest = c /\ m.dest # Server /\ m.type = srv.msg.type /\ LineOf(m) = LineOf(srv.msg) /\ Send(m)
  BY <1>1, <1>3, <1>4, ClientAssumption DEF Msg, LineOf
<1>6. srv'.pc = "send" /\ srv'.i = srv.i + 1 /\ srv'.msg = srv.msg
  BY <1>0, <1>1 DEF TypeOK
<1>7. TypedOnce(o)'
  BY <1>0, <1>1, <1>5, CopiesSend, TypedOnceSame DEF Ordered
<1>8. ASSUME NEW d \in Client, ~ (d = c /\ m.type = "BROADCAST")
      PROVE  Stream(d, o, first[d], upto[d])'
  <2>1. Copies(d)' = Copies(d) /\ \A k \in Copies(d) : queue'[k] = queue[k]
    BY <1>0, <1>5, <1>8, CopiesSend
  <2> QED BY <1>1, <2>1, StreamSame DEF Ordered
<1>9. CASE ~ exists
  <2>1. queue' = queue
    BY <1>5, <1>9 DEF Send
  <2>2. \A d : Copies(d)' = Copies(d)
    BY <2>1 DEF Copies
  <2>3. \A d \in Client : Stream(d, o, first[d], upto[d])'
    BY <1>1, <2>1, <2>2, StreamSame DEF Ordered
  <2>4. SentTo(o, upto)'
    BY <1>1, <1>9 DEF SentTo
  <2>5. Ordered(o, first, upto)'
    BY <1>7, <2>3, <2>4 DEF Ordered
  <2> QED BY <2>5
<1>10. CASE exists /\ m.type # "BROADCAST"
  <2>1. SentTo(o, upto)'
    BY <1>1, <1>5, <1>6, <1>10 DEF Ordered, SentTo, Broadcasting
  <2>2. Ordered(o, first, upto)'
    BY <1>7, <1>8, <1>10, <2>1 DEF Ordered
  <2> QED BY <2>2
<1>11. CASE exists /\ m.type = "BROADCAST"
  <2>1. Broadcasting /\ Broadcasting'
    BY <1>1, <1>5, <1>6, <1>11 DEF Broadcasting
  <2>2. /\ Len(o) > 0 /\ o[Len(o)] = LineOf(m)
        /\ \A h \in 1 .. Len(clients) : upto[clients[h]] = IF h > srv.i THEN Len(o) - 1 ELSE Len(o)
    BY <1>5, <1>11, <2>1 DEF Ordered, SentTo
  <2>3. upto[c] = Len(o) - 1
    BY <1>2, <1>3, <2>2
  <2>4. PICK upto2 \in [Client -> Nat] : upto2 = [upto EXCEPT ![c] = Len(o)]
    BY <1>2
  <2>5. upto2[c] = Len(o) /\ \A d \in Client \ {c} : upto2[d] = upto[d]
    BY <2>4
  <2>6. \A h \in 1 .. Len(clients) : clients[h] = c <=> h = srv.i + 1
    BY <1>2, <1>3 DEF Entered
  <2>7. \A h \in 1 .. Len(clients) : clients[h] \in Client
    BY <1>0, ElementOfSeq DEF TypeOK
  <2>8. \A h \in 1 .. Len(clients) : upto2[clients[h]] = IF h > srv.i + 1 THEN Len(o) - 1 ELSE Len(o)
    <3> SUFFICES ASSUME NEW h \in 1 .. Len(clients)
                 PROVE  upto2[clients[h]] = IF h > srv.i + 1 THEN Len(o) - 1 ELSE Len(o)
      OBVIOUS
    <3>1. CASE h = srv.i + 1
      BY <1>2, <2>5, <2>6, <3>1
    <3>2. CASE h # srv.i + 1
      <4>1. upto2[clients[h]] = upto[clients[h]]
        BY <2>5, <2>6, <2>7, <3>2
      <4>2. h > srv.i + 1 <=> h > srv.i
        BY <1>2, <3>2
      <4> QED BY <2>2, <4>1, <4>2
    <3> QED BY <3>1, <3>2
  <2>9. SentTo(o, upto2)'
    <3>1. Len(o) > 0 /\ o[Len(o)] = LineOf(srv'.msg)
      BY <1>5, <1>6, <2>2
    <3>2. \A h \in 1 .. Len(clients') : upto2[clients'[h]] = IF h > srv'.i THEN Len(o) - 1 ELSE Len(o)
      BY <1>1, <1>6, <2>8
    <3> QED BY <2>1, <3>1, <3>2 DEF SentTo
  <2>10. Stream(c, o, first[c], Len(o))'
    <3>1. /\ Stream(c, o, first[c], Len(o) - 1) /\ first[c] \in Nat
          /\ Len(screen[c]) \in Nat /\ Len(o) - 1 \in Nat
      BY <1>0, <1>2, <2>2, <2>3, LenProperties DEF Ordered, TypeOK
    <3>2. queue' = Append(queue, m)
      BY <1>5, <1>11 DEF Send
    <3>3. Injective(o)
      BY DEF Ordered, TypedOnce, Injective
    <3>4. PICK next \in Nat \ {0} : next = first[c] + Len(screen[c]) + 1
      BY <3>1
    <3>5. PICK e \in Nat : e = Len(o) - 1
      BY <3>1
    <3>6. next <= e + 1 /\ e < Len(o) /\ e + 1 = Len(o)
      BY <1>2, <3>1, <3>4, <3>5 DEF Stream
    <3>7. Coming(c, o, next, e)
      BY <1>11, <3>1, <3>4, <3>5 DEF Stream
    <3>8. Coming(c, o, next, Len(o))'
      BY <1>0, <1>5, <1>11, <2>2, <3>2, <3>3, <3>6, <3>7, ComingMore
    <3>9. /\ first[c] + Len(screen[c]) <= Len(o)
          /\ \A h \in 1 .. Len(screen[c]) : screen[c][h] = o[first[c] + h]
      BY <1>2, <3>1 DEF Stream
    <3>10. screen'[c] = screen[c]
      BY <1>1
    <3> QED BY <1>2, <3>1, <3>4, <3>8, <3>9, <3>10 DEF Stream
  <2>11. \A d \in Client : Stream(d, o, first[d], upto2[d])'
    BY <1>8, <2>5, <2>10
  <2>12. Ordered(o, first, upto2)'
    BY <1>7, <2>9, <2>11 DEF Ordered
  <2> QED BY <2>12
<1> QED BY <1>9, <1>10, <1>11

\* Who is in the table has been sent as much as before.
LEMMA SentToSame ==
    ASSUME UNCHANGED <<exists, clients, srv>>, NEW o, NEW upto, SentTo(o, upto)
    PROVE  SentTo(o, upto)'
BY DEF SentTo, Broadcasting

\* A step that sends no line and takes none.
LEMMA OrderQuiet ==
    ASSUME \A d \in Client \cup {Server} :
              Copies(d)' = Copies(d) /\ \A k \in Copies(d) : queue'[k] = queue[k],
           UNCHANGED <<exists, clients, srv, typed, screen>>,
           \A c \in Client : parent'[c] = parent[c] \/ parent'[c].pc # "send",
           NEW o, NEW first, NEW upto, Ordered(o, first, upto)
    PROVE  Ordered(o, first, upto)'
<1>1. TypedOnce(o)'
  BY TypedOnceSame DEF Ordered
<1>2. SentTo(o, upto)'
  BY SentToSame DEF Ordered
<1>3. \A c \in Client : Stream(c, o, first[c], upto[c])'
  BY StreamSame DEF Ordered
<1> QED BY <1>1, <1>2, <1>3 DEF Ordered

\* client.c: the child prints the next line, or a message that is none.
LEMMA OrderListen ==
    ASSUME ChatInv, NEW c \in Client, Listen(c), NEW o \in Seq(Line),
           NEW first \in [Client -> Nat], NEW upto \in [Client -> Nat], Ordered(o, first, upto)
    PROVE  Ordered(o, first, upto)'
<1>0. TypeOK /\ c # Server
  BY ClientAssumption DEF ChatInv
<1>1. PICK k \in For(c) :
         /\ Recv(c, k)
         /\ screen' = IF queue[k].type = "BROADCAST"
                        THEN [screen EXCEPT ![c] =
                                 Append(screen[c], [from |-> queue[k].from, n |-> queue[k].n])]
                        ELSE screen
  BY DEF Listen
<1>2. UNCHANGED <<exists, clients, srv, parent, typed>> /\ exists
  BY <1>1 DEF Listen, Recv
<1>3. TypedOnce(o)'
  BY <1>0, <1>1, <1>2, TypedOnceRecv DEF Ordered
<1>4. SentTo(o, upto)'
  BY <1>2, SentToSame DEF Ordered
<1>5. \A d \in Client \ {c} : k \notin Copies(d) /\ screen'[d] = screen[d]
  BY <1>0, <1>1 DEF Copies, For, TypeOK
<1>6. \A d \in Client \ {c} : Stream(d, o, first[d], upto[d])'
  BY <1>0, <1>1, <1>2, <1>5, StreamShift DEF Ordered
<1>7. Stream(c, o, first[c], upto[c])'
  <2>1. CASE queue[k].type # "BROADCAST"
    <3>1. k \notin Copies(c) /\ screen'[c] = screen[c]
      BY <1>1, <2>1 DEF Copies
    <3> QED BY <1>0, <1>1, <1>2, <3>1, StreamShift DEF Ordered
  <2>2. CASE queue[k].type = "BROADCAST"
    <3>1. k \in Copies(c)
      BY <1>1, <2>2 DEF Copies, For
    <3>2. PICK s \in Seq(Line) : s = screen[c] /\ Len(s) \in Nat
      <4>1. screen[c] \in Seq(Line)
        BY <1>0 DEF TypeOK, Line
      <4> QED BY <4>1, LenProperties
    <3>3. PICK f \in Nat, l \in Nat : f = first[c] /\ l = upto[c]
      OBVIOUS
    <3>4. /\ f + Len(s) <= l /\ l <= Len(o) /\ Len(o) \in Nat
          /\ \A h \in 1 .. Len(s) : s[h] = o[f + h]
          /\ Coming(c, o, f + Len(s) + 1, l)
      BY <1>2, <3>2, <3>3, LenProperties DEF Ordered, Stream
    <3>5. Injective(o)
      BY DEF Ordered, TypedOnce, Injective
    <3>6. PICK next \in Nat \ {0} : next = f + Len(s) + 1
      BY <3>2
    <3>7. next <= l /\ LineOf(queue[k]) = o[next] /\ Coming(c, o, next + 1, l)'
      BY <1>0, <1>1, <3>1, <3>4, <3>5, <3>6, ComingTaken
    <3>8. screen'[c] = Append(s, LineOf(queue[k]))
      BY <1>0, <1>1, <2>2, <3>2 DEF LineOf, TypeOK
    <3>9. LineOf(queue[k]) \in Line
      <4>1. next \in 1 .. Len(o)
        BY <3>4, <3>6, <3>7
      <4> QED BY <3>7, <4>1, ElementOfSeq
    <3>10. PICK s2 \in Seq(Line) : s2 = Append(s, LineOf(queue[k]))
      BY <3>2, <3>9, AppendProperties
    <3>11. /\ Len(s2) = Len(s) + 1 /\ s2[Len(s) + 1] = o[next]
           /\ \A h \in 1 .. Len(s) : s2[h] = s[h]
      BY <3>2, <3>7, <3>9, <3>10, AppendProperties
    <3>12. \A h \in 1 .. Len(s2) : s2[h] = o[f + h]
      <4>1. \A h \in 1 .. Len(s2) : h = Len(s) + 1 \/ h \in 1 .. Len(s)
        BY <3>2, <3>11
      <4>2. f + (Len(s) + 1) = next
        BY <3>2, <3>6
      <4> QED BY <3>4, <3>11, <4>1, <4>2
    <3>13. f + Len(s2) <= l /\ f + Len(s2) + 1 = next + 1
      BY <3>2, <3>6, <3>7, <3>11
    <3>14. Coming(c, o, f + Len(s2) + 1, l)'
      BY <3>7, <3>13
    <3>15. screen'[c] = s2
      BY <3>8, <3>10
    <3>16. Stream(c, o, f, l)'
      BY <3>4, <3>12, <3>13, <3>14, <3>15 DEF Stream
    <3> QED BY <3>3, <3>16
  <2> QED BY <2>1, <2>2
<1> QED BY <1>3, <1>4, <1>6, <1>7 DEF Ordered

\* server.c: send_all is through with the table.
LEMMA OrderDone ==
    ASSUME ChatInv, SrvDone, NEW o \in Seq(Line), NEW first, NEW upto, Ordered(o, first, upto)
    PROVE  Ordered(o, first, upto)'
<1>0. TypeOK
  BY DEF ChatInv
<1>1. /\ srv.i >= Len(clients) /\ srv.i \in Nat /\ Len(clients) \in Nat /\ srv'.pc = "recv"
      /\ UNCHANGED <<queue, exists, clients, parent, typed, screen>>
  BY <1>0, BoundAssumption, LenProperties DEF SrvDone, AtRecv, TypeOK
<1>2. \A d : Copies(d)' = Copies(d)
  BY <1>1 DEF Copies
<1>3. TypedOnce(o)'
  BY <1>1, <1>2, TypedOnceSame DEF Ordered
<1>4. \A c \in Client : Stream(c, o, first[c], upto[c])'
  BY <1>1, <1>2, StreamSame DEF Ordered
<1>5. SentTo(o, upto)'
  <2>1. ASSUME exists, NEW h \in 1 .. Len(clients) PROVE upto[clients[h]] = Len(o)
    <3>1. ~ (h > srv.i)
      BY <1>1
    <3> QED BY <2>1, <3>1 DEF Ordered, SentTo
  <2>2. ~ Broadcasting'
    BY <1>1 DEF Broadcasting
  <2> QED BY <1>1, <2>1, <2>2 DEF SentTo
<1> QED BY <1>3, <1>4, <1>5 DEF Ordered

\* server.c: the queue is removed, and all that waits in it.
LEMMA OrderInterrupt ==
    ASSUME SrvInterrupt, NEW o, NEW first, NEW upto, Ordered(o, first, upto)
    PROVE  Ordered(o, first, upto)'
<1>1. queue' = <<>> /\ exists' = FALSE /\ UNCHANGED <<parent, typed, screen>>
  BY DEF SrvInterrupt
<1>2. \A d : Copies(d)' = {}
  BY <1>1 DEF Copies
<1>3. TypedOnce(o)'
  BY <1>1, <1>2 DEF Ordered, TypedOnce
<1>4. SentTo(o, upto)'
  BY <1>1 DEF SentTo
<1>5. \A c \in Client : Stream(c, o, first[c], upto[c])'
  BY <1>1 DEF Ordered, Stream
<1> QED BY <1>3, <1>4, <1>5 DEF Ordered

\* Nobody has typed: the order is empty.
LEMMA OrderInit ==
    ASSUME Init
    PROVE  OrderInv
<1> DEFINE none == [c \in Client |-> 0]
<1>1. <<>> \in Seq(Line) /\ Len(<<>>) = 0 /\ none \in [Client -> Nat] /\ \A c \in Client : none[c] = 0
  BY EmptySeq
<1>2. /\ \A c \in Client : screen[c] = <<>> /\ parent[c].pc = "off"
      /\ clients = <<>> /\ queue = <<>> /\ srv.pc = "recv"
  BY DEF Init, AtRecv
<1> HIDE DEF none
<1>3. \A d : Copies(d) = {}
  BY <1>2 DEF Copies
<1>4. Entered
  BY <1>2, <1>3 DEF Entered
<1>5. Typist
  BY <1>2 DEF Typist
<1>6. TypedOnce(<<>>)
  BY <1>1, <1>2, <1>3 DEF TypedOnce
<1>7. SentTo(<<>>, none)
  BY <1>2 DEF SentTo, Broadcasting
<1>8. ASSUME NEW c \in Client PROVE Stream(c, <<>>, none[c], none[c])
  <2>1. Len(screen[c]) = 0 /\ none[c] = 0 /\ (0 + 0 + 1) .. 0 = {}
    BY <1>1, <1>2
  <2>2. Coming(c, <<>>, 0 + 0 + 1, 0)
    BY <1>3, <2>1 DEF Coming
  <2> QED BY <1>1, <2>1, <2>2 DEF Stream
<1>9. Ordered(<<>>, none, none)
  BY <1>6, <1>7, <1>8 DEF Ordered
<1> QED BY <1>1, <1>4, <1>5, <1>9 DEF OrderInv

\* Every step keeps the order or continues it.
LEMMA OrderStep ==
    ASSUME ChatInv, OrderInv, [Next]_vars
    PROVE  OrderInv'
<1>0. TypeOK /\ Mails /\ Entered /\ Typist
  BY DEF ChatInv, OrderInv
<1>1. Entered' /\ Typist'
  BY <1>0, EnteredStep, TypistStep
<1>2. PICK o \in Seq(Line), first \in [Client -> Nat], upto \in [Client -> Nat] : Ordered(o, first, upto)
  BY DEF OrderInv
<1>3. SUFFICES \E o2 \in Seq(Line) : \E first2, upto2 \in [Client -> Nat] : Ordered(o2, first2, upto2)'
  BY <1>1 DEF OrderInv
<1>4. SUFFICES ASSUME ~ SrvRecv, ~ SrvSend PROVE Ordered(o, first, upto)'
  BY <1>0, <1>2, OrderRecv, OrderSrvSend
<1>5. CASE SrvDone
  BY <1>2, <1>5, OrderDone
<1>6. CASE SrvExit
  <2>1. /\ exists' = FALSE
        /\ UNCHANGED <<queue, clients, parent, typed, screen, exists>>
    BY <1>0, <1>6 DEF SrvExit, TypeOK
  <2>2. \A d : Copies(d)' = Copies(d)
    BY <2>1 DEF Copies
  <2>3. TypedOnce(o)'
    BY <1>2, <2>1, <2>2, TypedOnceSame DEF Ordered
  <2>4. SentTo(o, upto)'
    BY <2>1 DEF SentTo
  <2>5. \A c \in Client : Stream(c, o, first[c], upto[c])'
    BY <1>2, <2>1, <2>2, StreamSame DEF Ordered
  <2> QED BY <2>3, <2>4, <2>5 DEF Ordered
<1>7. CASE SrvInterrupt
  BY <1>2, <1>7, OrderInterrupt
<1>8. ASSUME NEW c \in Client, Start(c) \/ Shutdown(c) PROVE Ordered(o, first, upto)'
  <2>1. /\ UNCHANGED <<queue, exists, clients, srv, typed, screen>>
        /\ parent'[c].pc # "send" /\ \A d \in Client \ {c} : parent'[d] = parent[d]
    BY <1>0, <1>8 DEF Start, Shutdown, TypeOK
  <2>2. \A d : Copies(d)' = Copies(d)
    BY <2>1 DEF Copies
  <2> QED BY <1>2, <2>1, <2>2, OrderQuiet
<1>9. ASSUME NEW c \in Client, Connect(c) \/ Disconnect(c) PROVE Ordered(o, first, upto)'
  <2>1. /\ UNCHANGED <<exists, clients, srv, typed, screen>>
        /\ parent'[c].pc # "send" /\ \A d \in Client \ {c} : parent'[d] = parent[d]
    BY <1>0, <1>9 DEF Connect, Disconnect, TypeOK
  <2>2. 0 \in 0 .. MaxTyped /\ "CONNECT" \in Types /\ "DISCONNECT" \in Types
    BY BoundAssumption DEF Types
  <2>a. PICK t \in {"CONNECT", "DISCONNECT"} : Send(Message(Server, c, t, 0))
    BY <1>9 DEF Connect, Disconnect
  <2>3. PICK m \in Msg : Send(m) /\ m.type # "BROADCAST"
    <3>1. PICK m \in Msg : m = Message(Server, c, t, 0) /\ m.type = t
      <4>1. Server \in Client \cup {Server} /\ c \in Client \cup {Server} /\ t \in Types
        BY <2>2
      <4>2. Message(Server, c, t, 0) \in Msg /\ Message(Server, c, t, 0).type = t
        BY <2>2, <4>1 DEF Message, Msg
      <4> QED BY <4>2
    <3> QED BY <2>a, <3>1
  <2>4. \A d : Copies(d)' = Copies(d) /\ \A k \in Copies(d) : queue'[k] = queue[k]
    BY <1>0, <2>3, CopiesSend
  <2> QED BY <1>2, <2>1, <2>4, OrderQuiet
<1>10. ASSUME NEW c \in Client, Type(c) PROVE Ordered(o, first, upto)'
  <2>1. UNCHANGED <<queue, exists, clients, srv, screen>>
    BY <1>10 DEF Type
  <2>2. \A d : Copies(d)' = Copies(d)
    BY <2>1 DEF Copies
  <2>3. TypedOnce(o)'
    BY <1>0, <1>1, <1>2, <1>10, OrderType DEF Ordered
  <2>4. SentTo(o, upto)'
    BY <1>2, <2>1, SentToSame DEF Ordered
  <2>5. \A d \in Client : Stream(d, o, first[d], upto[d])'
    BY <1>2, <2>1, <2>2, StreamSame DEF Ordered
  <2> QED BY <2>3, <2>4, <2>5 DEF Ordered
<1>11. ASSUME NEW c \in Client, SendTyped(c) PROVE Ordered(o, first, upto)'
  <2>1. /\ parent[c].pc = "send" /\ Send(parent[c].msg)
        /\ UNCHANGED <<exists, clients, srv, typed, screen>>
    BY <1>11 DEF SendTyped
  <2>2. PICK m \in Msg : m = parent[c].msg
    BY <1>0 DEF TypeOK
  <2>3. m.type = "BROADCAST" => m.dest = Server
    <3>1. ASSUME m.type = "BROADCAST" PROVE m = Message(Server, c, "BROADCAST", typed[c])
      BY <1>0, <2>1, <2>2, <3>1 DEF Typist
    <3> QED BY <3>1 DEF Message
  <2>4. \A d \in Client : Copies(d)' = Copies(d) /\ \A k \in Copies(d) : queue'[k] = queue[k]
    BY <1>0, <2>1, <2>2, <2>3, CopiesSend, ClientAssumption
  <2>5. TypedOnce(o)'
    BY <1>0, <1>2, <1>11, <2>2, OrderSendTyped DEF Ordered
  <2>6. SentTo(o, upto)'
    BY <1>2, <2>1, SentToSame DEF Ordered
  <2>7. \A d \in Client : Stream(d, o, first[d], upto[d])'
    BY <1>2, <2>1, <2>4, StreamSame DEF Ordered
  <2> QED BY <2>5, <2>6, <2>7 DEF Ordered
<1>12. ASSUME NEW c \in Client, Listen(c) PROVE Ordered(o, first, upto)'
  BY <1>2, <1>12, OrderListen
<1>13. CASE UNCHANGED vars
  <2>1. UNCHANGED <<queue, exists, clients, srv, typed, screen, parent>>
    BY <1>13 DEF vars
  <2>2. \A d : Copies(d)' = Copies(d)
    BY <2>1 DEF Copies
  <2> QED BY <1>2, <2>1, <2>2, OrderQuiet
<1> QED
  BY <1>4, <1>5, <1>6, <1>7, <1>8, <1>9, <1>10, <1>11, <1>12, <1>13
  DEF Next, SrvStep, SendStep

\* There is one order of all lines, every client gets a stretch of it, and who is in the table
\* the lines up to its end (server.c: send_all; ipc.c: msgrcv takes the oldest message).
THEOREM OrderInductive == Spec => []OrderInv
<1>1. Init => OrderInv
  BY OrderInit
<1>2. ChatInv /\ OrderInv /\ [Next]_vars => OrderInv'
  BY OrderStep
<1> QED BY <1>1, <1>2, ChatInductive, PTL DEF Spec

-----------------------------------------------------------------------------
(* What the screens show. *)

\* Two screens are stretches of one order.
LEMMA Screens ==
    ASSUME TypeOK, OrderInv
    PROVE  \E o \in Seq(Line) : \E first \in [Client -> Nat] :
              /\ Injective(o)
              /\ \A c \in Client : /\ Len(screen[c]) \in Nat /\ first[c] + Len(screen[c]) <= Len(o)
                                   /\ \A h \in 1 .. Len(screen[c]) :
                                        first[c] + h \in 1 .. Len(o) /\ screen[c][h] = o[first[c] + h]
<1>1. PICK o \in Seq(Line), first \in [Client -> Nat], upto \in [Client -> Nat] : Ordered(o, first, upto)
  BY DEF OrderInv
<1>2. Injective(o)
  BY <1>1 DEF Ordered, TypedOnce, Injective
<1>3. ASSUME NEW c \in Client
      PROVE  /\ Len(screen[c]) \in Nat /\ first[c] + Len(screen[c]) <= Len(o)
             /\ \A h \in 1 .. Len(screen[c]) :
                  first[c] + h \in 1 .. Len(o) /\ screen[c][h] = o[first[c] + h]
  <2>1. Len(screen[c]) \in Nat /\ Len(o) \in Nat /\ first[c] \in Nat
    BY LenProperties DEF TypeOK
  <2>2. /\ upto[c] \in Nat /\ first[c] + Len(screen[c]) <= upto[c] /\ upto[c] <= Len(o)
        /\ \A h \in 1 .. Len(screen[c]) : screen[c][h] = o[first[c] + h]
    BY <1>1 DEF Ordered, Stream
  <2>3. \A h \in 1 .. Len(screen[c]) : first[c] + h \in 1 .. Len(o)
    BY <2>1, <2>2
  <2> QED BY <2>1, <2>2, <2>3
<1> QED BY <1>2, <1>3

\* No two screens show two lines in two orders.
LEMMA OrderSame ==
    ASSUME TypeOK, OrderInv
    PROVE  SameOrder
<1>1. PICK o \in Seq(Line), first \in [Client -> Nat] :
         /\ Injective(o)
         /\ \A c \in Client : \A h \in 1 .. Len(screen[c]) :
               first[c] + h \in 1 .. Len(o) /\ screen[c][h] = o[first[c] + h]
  BY Screens
<1> SUFFICES ASSUME NEW c \in Client, NEW d \in Client,
                    NEW h \in 1 .. Len(screen[c]), NEW j \in 1 .. Len(screen[c]), h < j,
                    NEW k \in 1 .. Len(screen[d]), NEW l \in 1 .. Len(screen[d]), k < l,
                    screen[d][k] = screen[c][j], screen[d][l] = screen[c][h]
             PROVE  FALSE
  BY DEF SameOrder
<1>2. /\ first[d] + k \in 1 .. Len(o) /\ screen[d][k] = o[first[d] + k]
      /\ first[d] + l \in 1 .. Len(o) /\ screen[d][l] = o[first[d] + l]
      /\ first[c] + h \in 1 .. Len(o) /\ screen[c][h] = o[first[c] + h]
      /\ first[c] + j \in 1 .. Len(o) /\ screen[c][j] = o[first[c] + j]
  BY <1>1
<1>4. first[d] + k = first[c] + j /\ first[d] + l = first[c] + h
  BY <1>1, <1>2 DEF Injective
<1>5. first[c] \in Nat /\ first[d] \in Nat
  OBVIOUS
<1> QED BY <1>4, <1>5

\* No screen shows a line twice, or misses one between two that it has.
LEMMA OrderWhole ==
    ASSUME TypeOK, OrderInv
    PROVE  NoHoles
<1>1. PICK o \in Seq(Line), first \in [Client -> Nat] :
         /\ Injective(o)
         /\ \A c \in Client : /\ Len(screen[c]) \in Nat
                              /\ \A h \in 1 .. Len(screen[c]) :
                                   first[c] + h \in 1 .. Len(o) /\ screen[c][h] = o[first[c] + h]
  BY Screens
<1>2. ASSUME NEW c \in Client PROVE Cardinality(ToSet(screen[c])) = Len(screen[c])
  <2>1. PICK n \in Nat : n = Len(screen[c])
    BY <1>1
  <2> DEFINE s == screen[c]
  <2>2. ToSet(s) = {s[h] : h \in 1 .. n}
    BY <2>1 DEF ToSet
  <2>3. \A h, j \in 1 .. n : s[h] = s[j] => h = j
    <3> SUFFICES ASSUME NEW h \in 1 .. n, NEW j \in 1 .. n, s[h] = s[j] PROVE h = j
      OBVIOUS
    <3>0. /\ first[c] + h \in 1 .. Len(o) /\ s[h] = o[first[c] + h]
          /\ first[c] + j \in 1 .. Len(o) /\ s[j] = o[first[c] + j]
      BY <1>1, <2>1
    <3>1. first[c] + h = first[c] + j
      BY <1>1, <3>0 DEF Injective
    <3>2. first[c] \in Nat
      OBVIOUS
    <3> QED BY <3>1, <3>2
  <2> DEFINE f == [h \in 1 .. n |-> s[h]]
  <2>4. f \in Bijection(1 .. n, ToSet(s))
    BY <2>2, <2>3 DEF Bijection, Injection, Surjection, IsInjective
  <2>5. Cardinality(1 .. n) = n /\ IsFiniteSet(1 .. n)
    <3>1. 1 \in Int /\ n \in Int
      OBVIOUS
    <3>2. Cardinality(1 .. n) = (IF 1 > n THEN 0 ELSE n - 1 + 1) /\ IsFiniteSet(1 .. n)
      BY <3>1, FS_Interval
    <3> QED BY <3>2
  <2> HIDE DEF f, s
  <2>6. Cardinality(ToSet(s)) = Cardinality(1 .. n)
    <3>1. ExistsBijection(1 .. n, ToSet(s))
      BY <2>4 DEF ExistsBijection
    <3> QED BY <2>5, <3>1, FS_Bijection
  <2>7. Cardinality(ToSet(s)) = n
    BY <2>5, <2>6
  <2> QED BY <2>1, <2>7 DEF s
<1>3. ASSUME NEW c \in Client, NEW d \in Client,
             NEW h \in 1 .. Len(screen[d]), NEW j \in 1 .. Len(screen[d]),
             screen[d][h] \in ToSet(screen[c]), screen[d][j] \in ToSet(screen[c]), NEW k \in h .. j
      PROVE  screen[d][k] \in ToSet(screen[c])
  <2>0. \A e \in Client : ToSet(screen[e]) = {screen[e][x] : x \in 1 .. Len(screen[e])}
    BY DEF ToSet
  <2>1. PICK a \in 1 .. Len(screen[c]), b \in 1 .. Len(screen[c]) :
           screen[d][h] = screen[c][a] /\ screen[d][j] = screen[c][b]
    <3>1. \A v \in ToSet(screen[c]) : \E x \in 1 .. Len(screen[c]) : v = screen[c][x]
      BY <2>0
    <3> QED BY <1>3, <3>1
  <2>a. /\ first[d] + h \in 1 .. Len(o) /\ screen[d][h] = o[first[d] + h]
        /\ first[d] + j \in 1 .. Len(o) /\ screen[d][j] = o[first[d] + j]
        /\ first[c] + a \in 1 .. Len(o) /\ screen[c][a] = o[first[c] + a]
        /\ first[c] + b \in 1 .. Len(o) /\ screen[c][b] = o[first[c] + b]
    BY <1>1
  <2>2. first[d] + h = first[c] + a /\ first[d] + j = first[c] + b
    BY <1>1, <2>1, <2>a DEF Injective
  <2>3. first[c] \in Nat /\ first[d] \in Nat /\ Len(screen[c]) \in Nat /\ Len(screen[d]) \in Nat
    BY <1>1
  <2>4. PICK x \in 1 .. Len(screen[c]) : first[c] + x = first[d] + k
    <3>1. h \in Nat /\ j \in Nat /\ k \in Nat /\ a \in Nat /\ b \in Nat /\ h <= k /\ k <= j
      BY <2>3
    <3>2. (first[d] + k) - first[c] \in Int /\ (first[d] + k) - first[c] >= a /\ (first[d] + k) - first[c] <= b
      BY <2>2, <2>3, <3>1
    <3>3. (first[d] + k) - first[c] \in 1 .. Len(screen[c])
      BY <2>3, <3>2
    <3> QED BY <2>3, <3>1, <3>3
  <2>5. k \in 1 .. Len(screen[d])
    BY <2>3
  <2>6. screen[d][k] = screen[c][x]
    BY <1>1, <2>4, <2>5
  <2> QED BY <2>0, <2>6
<1> QED BY <1>2, <1>3 DEF NoHoles

-----------------------------------------------------------------------------
(* PingPong: the turns. *)

Writing == {c \in Talkers : place[c] = "writing"}
Away == {c \in {r} : place[c] \notin {"reading", "writing"}}

\* A client that is started has its queues.
Opened ==
    \A c \in Talkers :
        /\ place[c] \in {"open", "reading", "writing", "close"} => mqd0[c] \in Queues
        /\ place[c] \in {"reading", "writing", "close"} => mqd1[c] \in Queues

\* Under which of the two names a queue is, or was opened by who has it open.
AsRead(q) ==
    name["READ"] = q \/ \E c \in Talkers : (IF c = r THEN mqd1[c] ELSE mqd0[c]) = q
AsWrite(q) ==
    name["WRITE"] = q \/ \E c \in Talkers : (IF c = r THEN mqd0[c] ELSE mqd1[c]) = q

Sides == \A q \in Queues : ~(AsRead(q) /\ AsWrite(q))

\* The turn of the client with -r is with a client, under way, or waits while it is away.
Turn == Cardinality(Talk!Messages) + Cardinality(Writing) + Cardinality(Away) <= 1

TalkInv == Talk!TypeOK /\ Opened /\ Sides /\ (r \notin Killed => Turn)

\* The instance has finite sets and cardinalities by names of its own.
LEMMA SameSizes ==
    /\ \A S : Talk!IsFiniteSet(S) <=> IsFiniteSet(S)
    /\ \A S : Talk!Cardinality(S) = Cardinality(S)
<1>1. \A S : Talk!IsFiniteSet(S) <=> IsFiniteSet(S)
  BY DEF Talk!IsFiniteSet, IsFiniteSet
<1>2. \A S : Talk!Cardinality(S) = Cardinality(S)
  BY DEF Talk!Cardinality, Cardinality
<1> QED BY <1>1, <1>2

LEMMA TalkConstants ==
    /\ IsFiniteSet(Talkers) /\ r \in Talkers /\ MaxMsg \in Nat
    /\ Queues \subseteq Nat \ {0} /\ IsFiniteSet(Queues)
    /\ Cardinality(Queues) >= 2 + 2 * Cardinality(Talkers)
<1>1. Talk!ConstantAssumption
  BY InstanceAssumption
<1>2. IsFiniteSet(Talkers) /\ r \in Talkers /\ MaxMsg \in Nat
  BY <1>1, SameSizes DEF Talk!ConstantAssumption
<1>3. Queues \subseteq Nat \ {0} /\ IsFiniteSet(Queues)
  BY <1>1, SameSizes DEF Talk!ConstantAssumption
<1>4. Cardinality(Queues) >= 2 + 2 * Cardinality(Talkers)
  BY <1>1, SameSizes DEF Talk!ConstantAssumption
<1> QED BY <1>2, <1>3, <1>4

LEMMA RangeSize ==
    ASSUME NEW S, NEW T, NEW f \in [S -> T], IsFiniteSet(S)
    PROVE  /\ IsFiniteSet({f[x] : x \in S})
           /\ Cardinality({f[x] : x \in S}) <= Cardinality(S)
<1>1. f \in Surjection(S, {f[x] : x \in S})
  BY DEF Surjection
<1> QED BY <1>1, FS_Surjection

LEMMA UnionSize ==
    ASSUME NEW S, NEW T, IsFiniteSet(S), IsFiniteSet(T)
    PROVE  /\ IsFiniteSet(S \cup T)
           /\ Cardinality(S \cup T) <= Cardinality(S) + Cardinality(T)
<1>1. IsFiniteSet(S \cup T)
  BY FS_Union
<1>2. Cardinality(S \cup T) = Cardinality(S) + Cardinality(T) - Cardinality(S \cap T)
  BY FS_Union
<1>3. IsFiniteSet(S \cap T)
  BY FS_Subset
<1>4. Cardinality(S) \in Nat /\ Cardinality(T) \in Nat /\ Cardinality(S \cap T) \in Nat
  BY <1>3, FS_CardinalityType
<1> QED BY <1>1, <1>2, <1>4

\* There are queues enough for a name that has none.
LEMMA Spare ==
    ASSUME Talk!TypeOK, NEW n \in Talk!QueueNames, name[n] = 0
    PROVE  \E q \in Queues : ~ Talk!Used(q)
<1> DEFINE Names == {name[m] : m \in {"READ", "WRITE"} \ {n}}
           A == {mqd0[c] : c \in Talkers}
           B == {mqd1[c] : c \in Talkers}
<1>1. IsFiniteSet(A) /\ Cardinality(A) <= Cardinality(Talkers)
  <2>1. mqd0 \in [Talkers -> Queues \cup {0}] /\ IsFiniteSet(Talkers)
    BY TalkConstants DEF Talk!TypeOK, Talk!NoQueue
  <2> QED BY ONLY <2>1, RangeSize
<1>2. IsFiniteSet(B) /\ Cardinality(B) <= Cardinality(Talkers)
  <2>1. mqd1 \in [Talkers -> Queues \cup {0}] /\ IsFiniteSet(Talkers)
    BY TalkConstants DEF Talk!TypeOK, Talk!NoQueue
  <2> QED BY ONLY <2>1, RangeSize
<1>3. PICK x : Names = {x}
  <2>1. CASE n = "READ"
    <3>1. Names = {name["WRITE"]}
      BY <2>1
    <3> QED BY <3>1
  <2>2. CASE n = "WRITE"
    <3>1. Names = {name["READ"]}
      BY <2>2
    <3> QED BY <3>1
  <2> QED BY <2>1, <2>2 DEF Talk!QueueNames
<1>4. IsFiniteSet(Names) /\ Cardinality(Names) = 1
  BY <1>3, FS_Singleton
<1> HIDE DEF Names, A, B
<1>5. IsFiniteSet(A \cup B) /\ Cardinality(A \cup B) <= Cardinality(A) + Cardinality(B)
  BY <1>1, <1>2, UnionSize
<1>6. /\ IsFiniteSet(Names \cup (A \cup B))
      /\ Cardinality(Names \cup (A \cup B)) <= Cardinality(Names) + Cardinality(A \cup B)
  BY <1>4, <1>5, UnionSize
<1>7. SUFFICES ASSUME \A q \in Queues : Talk!Used(q) PROVE FALSE
  OBVIOUS
<1>8. Queues \subseteq Names \cup (A \cup B)
  <2> SUFFICES ASSUME NEW q \in Queues PROVE q \in Names \cup (A \cup B)
    OBVIOUS
  <2>1. q # 0
    BY TalkConstants
  <2>2. Talk!Used(q)
    BY <1>7
  <2>3. ASSUME NEW m \in Talk!QueueNames, name[m] = q PROVE q \in Names
    BY <2>1, <2>3 DEF Names, Talk!QueueNames
  <2> QED BY <2>2, <2>3 DEF Talk!Used, A, B
<1>9. Cardinality(Queues) <= Cardinality(Names \cup (A \cup B))
  BY <1>6, <1>8, FS_Subset
<1>10. /\ Cardinality(A) \in Nat /\ Cardinality(B) \in Nat /\ Cardinality(A \cup B) \in Nat
       /\ Cardinality(Names \cup (A \cup B)) \in Nat
       /\ Cardinality(Talkers) \in Nat /\ Cardinality(Queues) \in Nat
  BY <1>1, <1>2, <1>5, <1>6, TalkConstants, FS_CardinalityType
<1>11. Cardinality(Queues) >= 2 + 2 * Cardinality(Talkers)
  BY TalkConstants
<1> QED BY ONLY <1>1, <1>2, <1>4, <1>5, <1>6, <1>9, <1>10, <1>11

\* mq_open: the queue with the name, or one that nobody uses and that is empty.
LEMMA Opening ==
    ASSUME Talk!TypeOK, NEW n \in Talk!QueueNames, NEW q \in Queues, Talk!Open(n, q)
    PROVE  /\ \/ name[n] = q /\ name' = name /\ msgs' = msgs
              \/ /\ ~ Talk!Used(q)
                 /\ name' = [name EXCEPT ![n] = q] /\ msgs' = [msgs EXCEPT ![q] = 0]
           /\ name'[n] = q
<1>1. name \in [{"READ", "WRITE"} -> Queues \cup {0}] /\ n \in {"READ", "WRITE"}
  BY DEF Talk!TypeOK, Talk!QueueNames, Talk!NoQueue
<1>2. CASE name[n] # 0
  BY <1>2 DEF Talk!Open, Talk!NoQueue
<1>3. CASE name[n] = 0
  <2>1. ~ Talk!Used(CHOOSE x \in Queues : ~ Talk!Used(x))
    BY <1>3, Spare
  <2> QED BY <1>1, <1>3, <2>1 DEF Talk!Open, Talk!NoQueue
<1> QED BY <1>2, <1>3

LEMMA UsedAs ==
    /\ \A q : Talk!Used(q) <=> AsRead(q) \/ AsWrite(q)
    /\ \A q : Talk!Used(q)' <=> AsRead(q)' \/ AsWrite(q)'
BY DEF Talk!Used, Talk!QueueNames, AsRead, AsWrite

-----------------------------------------------------------------------------

LEMMA TalkFinite ==
    /\ IsFiniteSet(Talk!Messages) /\ IsFiniteSet(Talk!Messages')
    /\ IsFiniteSet(Writing) /\ IsFiniteSet(Writing') /\ IsFiniteSet(Away) /\ IsFiniteSet(Away')
<1>1. IsFiniteSet(1 .. MaxMsg)
  BY TalkConstants, FS_Interval
<1>2. IsFiniteSet(Queues \X (1 .. MaxMsg))
  BY <1>1, TalkConstants, FS_Product
<1>3. /\ Talk!Messages \in SUBSET (Queues \X (1 .. MaxMsg))
      /\ Talk!Messages' \in SUBSET (Queues \X (1 .. MaxMsg))
  BY DEF Talk!Messages
<1>4. IsFiniteSet(Talk!Messages) /\ IsFiniteSet(Talk!Messages')
  BY <1>2, <1>3, FS_Subset
<1>5. /\ Writing \in SUBSET Talkers /\ Away \in SUBSET {r}
      /\ Writing' \in SUBSET Talkers /\ Away' \in SUBSET {r}
  BY DEF Writing, Away
<1> QED BY <1>4, <1>5, TalkConstants, FS_Subset, FS_Singleton

LEMMA TurnKept ==
    ASSUME Turn, NEW m \in Int, NEW w \in Int, NEW a \in Int,
           Cardinality(Talk!Messages') <= Cardinality(Talk!Messages) + m,
           Cardinality(Writing') <= Cardinality(Writing) + w,
           Cardinality(Away') <= Cardinality(Away) + a,
           m + w + a <= 0
    PROVE  Turn'
<1>1. /\ Cardinality(Talk!Messages) \in Nat /\ Cardinality(Writing) \in Nat
      /\ Cardinality(Away) \in Nat
  BY TalkFinite, FS_CardinalityType
<1>3. /\ Cardinality(Talk!Messages') \in Nat /\ Cardinality(Writing') \in Nat
      /\ Cardinality(Away') \in Nat
  BY TalkFinite, FS_CardinalityType
<1> QED BY <1>1, <1>3 DEF Turn

\* What a step of client c does to the three sets.
LEMMA TurnMoves ==
    ASSUME Turn, Writing' = Writing, Away' = Away, Talk!Messages' \subseteq Talk!Messages
    PROVE  Turn'
<1>1. Cardinality(Talk!Messages') <= Cardinality(Talk!Messages)
  BY TalkFinite, FS_Subset
<1>2. Cardinality(Writing) \in Nat /\ Cardinality(Away) \in Nat /\ Cardinality(Talk!Messages) \in Nat
      /\ Cardinality(Talk!Messages') \in Nat
  BY TalkFinite, FS_CardinalityType
<1> QED BY <1>1, <1>2, TurnKept

\* A queue is opened by c: one more queue is on the side of its name, and no message more.
LEMMA OpenStep ==
    ASSUME Talk!TypeOK, Sides, NEW n \in Talk!QueueNames, NEW q \in Queues, Talk!Open(n, q),
           NEW c \in Talkers,
           \/ /\ n = Talk!ReadName(c) /\ mqd0' = [mqd0 EXCEPT ![c] = q] /\ mqd1' = mqd1
           \/ /\ n = Talk!WriteName(c) /\ mqd1' = [mqd1 EXCEPT ![c] = q] /\ mqd0' = mqd0
    PROVE  Sides' /\ Talk!Messages' \subseteq Talk!Messages
<1>a. /\ name \in [{"READ", "WRITE"} -> Queues \cup {0}]
      /\ mqd0 \in [Talkers -> Queues \cup {0}] /\ mqd1 \in [Talkers -> Queues \cup {0}]
      /\ msgs \in [Queues -> 0 .. MaxMsg] /\ n \in {"READ", "WRITE"}
  BY DEF Talk!TypeOK, Talk!QueueNames, Talk!NoQueue
<1>b. /\ \/ name[n] = q /\ name' = name /\ msgs' = msgs
         \/ /\ ~ Talk!Used(q)
            /\ name' = [name EXCEPT ![n] = q] /\ msgs' = [msgs EXCEPT ![q] = 0]
      /\ name'[n] = q
  BY Opening
<1>c. /\ \A m \in {"READ", "WRITE"} : name'[m] = IF m = n THEN q ELSE name[m]
  BY <1>a, <1>b
<1>1. CASE n = "READ"
  <2>1. \A d \in Talkers :
           /\ (IF d = r THEN mqd1' [d] ELSE mqd0'[d]) =
                 IF d = c THEN q ELSE IF d = r THEN mqd1[d] ELSE mqd0[d]
           /\ (IF d = r THEN mqd0' [d] ELSE mqd1'[d]) = IF d = r THEN mqd0[d] ELSE mqd1[d]
    BY <1>a, <1>1 DEF Talk!ReadName, Talk!WriteName
  <2>2. \A x \in Queues : AsRead(x)' => AsRead(x) \/ x = q
    BY <1>c, <1>1, <2>1 DEF AsRead
  <2>3. \A x \in Queues : AsWrite(x)' => AsWrite(x)
    BY <1>c, <1>1, <2>1 DEF AsWrite
  <2>4. AsRead(q) \/ ~ Talk!Used(q)
    BY <1>b, <1>1 DEF AsRead
  <2>5. Sides'
    BY <2>2, <2>3, <2>4, UsedAs DEF Sides
  <2>6. \A x \in Queues : Talk!Used(x)' => Talk!Used(x) \/ x = q
    BY <2>2, <2>3, UsedAs
  <2>7. \A x \in Queues : Talk!Used(x)' => (Talk!Used(x) /\ msgs'[x] = msgs[x]) \/ msgs'[x] = 0
    <3>1. CASE name[n] = q /\ msgs' = msgs
      <4>1. Talk!Used(q)
        BY <1>1, <3>1, UsedAs DEF AsRead
      <4> QED BY <2>6, <3>1, <4>1
    <3>2. CASE msgs' = [msgs EXCEPT ![q] = 0]
      BY <1>a, <2>6, <3>2
    <3> QED BY <1>b, <3>1, <3>2
  <2> QED BY <2>5, <2>7 DEF Talk!Messages
<1>2. CASE n = "WRITE"
  <2>1. \A d \in Talkers :
           /\ (IF d = r THEN mqd0' [d] ELSE mqd1'[d]) =
                 IF d = c THEN q ELSE IF d = r THEN mqd0[d] ELSE mqd1[d]
           /\ (IF d = r THEN mqd1' [d] ELSE mqd0'[d]) = IF d = r THEN mqd1[d] ELSE mqd0[d]
    BY <1>a, <1>2 DEF Talk!ReadName, Talk!WriteName
  <2>2. \A x \in Queues : AsWrite(x)' => AsWrite(x) \/ x = q
    BY <1>c, <1>2, <2>1 DEF AsWrite
  <2>3. \A x \in Queues : AsRead(x)' => AsRead(x)
    BY <1>c, <1>2, <2>1 DEF AsRead
  <2>4. AsWrite(q) \/ ~ Talk!Used(q)
    BY <1>b, <1>2 DEF AsWrite
  <2>5. Sides'
    BY <2>2, <2>3, <2>4, UsedAs DEF Sides
  <2>6. \A x \in Queues : Talk!Used(x)' => Talk!Used(x) \/ x = q
    BY <2>2, <2>3, UsedAs
  <2>7. \A x \in Queues : Talk!Used(x)' => (Talk!Used(x) /\ msgs'[x] = msgs[x]) \/ msgs'[x] = 0
    <3>1. CASE name[n] = q /\ msgs' = msgs
      <4>1. Talk!Used(q)
        BY <1>2, <3>1, UsedAs DEF AsWrite
      <4> QED BY <2>6, <3>1, <4>1
    <3>2. CASE msgs' = [msgs EXCEPT ![q] = 0]
      BY <1>a, <2>6, <3>2
    <3> QED BY <1>b, <3>1, <3>2
  <2> QED BY <2>5, <2>7 DEF Talk!Messages
<1> QED BY <1>a, <1>1, <1>2

\* A step in which no queue comes into use and no message comes into being.
LEMMA NoMore ==
    ASSUME Sides, msgs' = msgs,
           \A q \in Queues : (AsRead(q)' => AsRead(q)) /\ (AsWrite(q)' => AsWrite(q))
    PROVE  Sides' /\ Talk!Messages' \subseteq Talk!Messages
<1>1. Sides'
  BY DEF Sides
<1>2. \A q \in Queues : Talk!Used(q)' => Talk!Used(q)
  BY UsedAs
<1> QED BY <1>1, <1>2 DEF Talk!Messages

\* Closing the queues of c, and taking names away, brings no queue into use.
LEMMA Closing ==
    ASSUME Talk!TypeOK, Sides, NEW c \in Talkers, Talk!Closed(c), msgs' = msgs,
           \A n \in {"READ", "WRITE"} : name'[n] \in {name[n], 0}
    PROVE  Sides' /\ Talk!Messages' \subseteq Talk!Messages
<1>1. \A d \in Talkers : mqd0'[d] \in {mqd0[d], 0} /\ mqd1'[d] \in {mqd1[d], 0}
  BY DEF Talk!Closed, Talk!TypeOK, Talk!NoQueue
<1>2. 0 \notin Queues
  BY TalkConstants
<1>3. \A q \in Queues : (AsRead(q)' => AsRead(q)) /\ (AsWrite(q)' => AsWrite(q))
  BY <1>1, <1>2 DEF AsRead, AsWrite
<1> QED BY <1>3, NoMore

LEMMA TalkInit == Talk!Init => TalkInv
<1> SUFFICES ASSUME Talk!Init PROVE TalkInv
  OBVIOUS
<1>1. 0 \notin Queues /\ MaxMsg \in Nat
  BY TalkConstants
<1>2. /\ name = [n \in {"READ", "WRITE"} |-> 0] /\ msgs = [q \in Queues |-> 0]
      /\ mqd0 = [c \in Talkers |-> 0] /\ mqd1 = [c \in Talkers |-> 0]
      /\ place = [c \in Talkers |-> "off"]
  BY DEF Talk!Init, Talk!QueueNames, Talk!NoQueue
<1>3. Talk!TypeOK
  BY <1>1, <1>2 DEF Talk!TypeOK, Talk!QueueNames, Talk!NoQueue
<1>4. Opened
  BY <1>2 DEF Opened
<1>5. \A q \in Queues : ~ AsRead(q) /\ ~ AsWrite(q)
  BY <1>1, <1>2 DEF AsRead, AsWrite
<1>6. Talk!Messages = {} /\ Writing = {}
  BY <1>1, <1>2, <1>5, UsedAs DEF Talk!Messages, Writing
<1>7. Away \in SUBSET {r}
  BY DEF Away
<1>8. Cardinality(Away) <= 1 /\ Cardinality(Away) \in Nat
  <2>1. IsFiniteSet({r}) /\ Cardinality({r}) = 1
    BY FS_Singleton
  <2>2. Cardinality(Away) <= Cardinality({r})
    BY <1>7, <2>1, FS_Subset
  <2> QED BY <2>1, <2>2, TalkFinite, FS_CardinalityType
<1>9. Turn
  BY <1>6, <1>8, FS_EmptySet DEF Turn
<1> QED BY <1>3, <1>4, <1>5, <1>9 DEF TalkInv, Sides

\* A client opens one of its queues.
LEMMA OpenTurn ==
    ASSUME TalkInv, NEW c \in Talkers, Talk!OpenRead(c) \/ Talk!OpenWrite(c)
    PROVE  TalkInv'
<1>a. /\ Talk!TypeOK /\ Opened /\ Sides /\ (r \notin Killed => Turn)
      /\ name \in [{"READ", "WRITE"} -> Queues \cup {0}] /\ msgs \in [Queues -> 0 .. MaxMsg]
      /\ mqd0 \in [Talkers -> Queues \cup {0}] /\ mqd1 \in [Talkers -> Queues \cup {0}]
      /\ place \in [Talkers -> {"off", "open", "reading", "writing", "close", "unlink"}]
  BY DEF TalkInv, Talk!TypeOK, Talk!QueueNames, Talk!NoQueue
<1>b. Talk!ReadName(c) \in Talk!QueueNames /\ Talk!WriteName(c) \in Talk!QueueNames
  BY DEF Talk!ReadName, Talk!WriteName, Talk!QueueNames
<1>c. 0 \notin Queues /\ MaxMsg \in Nat /\ r \in Talkers
  BY TalkConstants
<1>d. ASSUME NEW n \in Talk!QueueNames, NEW q \in Queues, Talk!Open(n, q)
      PROVE  name' \in [{"READ", "WRITE"} -> Queues \cup {0}] /\ msgs' \in [Queues -> 0 .. MaxMsg]
  <2>1. \/ name' = name /\ msgs' = msgs
        \/ name' = [name EXCEPT ![n] = q] /\ msgs' = [msgs EXCEPT ![q] = 0]
    BY <1>a, <1>d, Opening
  <2>2. 0 \in 0 .. MaxMsg
    BY <1>c
  <2> QED BY <1>a, <2>1, <2>2
<1>1. CASE Talk!OpenRead(c)
  <2>1. PICK q \in Queues : Talk!Open(Talk!ReadName(c), q) /\ mqd0' = [mqd0 EXCEPT ![c] = q]
    BY <1>1 DEF Talk!OpenRead
  <2>2. place[c] = "off" /\ place' = [place EXCEPT ![c] = "open"] /\ mqd1' = mqd1
    BY <1>1 DEF Talk!OpenRead
  <2>3. Sides' /\ Talk!Messages' \subseteq Talk!Messages
    BY <1>a, <1>b, <2>1, <2>2, OpenStep
  <2>4. Writing' = Writing /\ Away' = Away
    BY <1>a, <2>2 DEF Writing, Away
  <2>5. Talk!TypeOK'
    BY <1>a, <1>b, <1>d, <2>1, <2>2 DEF Talk!TypeOK, Talk!QueueNames, Talk!NoQueue
  <2>6. Opened'
    BY <1>a, <2>1, <2>2 DEF Opened
  <2>7. r \notin Killed => Turn'
    BY <1>a, <2>3, <2>4, TurnMoves
  <2> QED BY <2>3, <2>5, <2>6, <2>7 DEF TalkInv
<1>2. CASE Talk!OpenWrite(c)
  <2>1. PICK q \in Queues : Talk!Open(Talk!WriteName(c), q) /\ mqd1' = [mqd1 EXCEPT ![c] = q]
    BY <1>2 DEF Talk!OpenWrite
  <2>2. /\ place[c] = "open" /\ mqd0' = mqd0
        /\ place' = [place EXCEPT ![c] = IF c = r THEN "writing" ELSE "reading"]
    BY <1>2 DEF Talk!OpenWrite, Talk!FirstTurn
  <2>3. Sides' /\ Talk!Messages' \subseteq Talk!Messages
    BY <1>a, <1>b, <2>1, <2>2, OpenStep
  <2>5. Talk!TypeOK'
    BY <1>a, <1>b, <1>d, <2>1, <2>2 DEF Talk!TypeOK, Talk!QueueNames, Talk!NoQueue
  <2>6. Opened'
    BY <1>a, <2>1, <2>2 DEF Opened
  <2>7. CASE c # r
    <3>1. Writing' = Writing /\ Away' = Away
      BY <1>a, <2>2, <2>7 DEF Writing, Away
    <3>2. r \notin Killed => Turn'
      BY <1>a, <2>3, <3>1, TurnMoves
    <3> QED BY <2>3, <2>5, <2>6, <3>2 DEF TalkInv
  <2>8. CASE c = r
    <3>1. Writing' = Writing \cup {r} /\ Away' = Away \ {r} /\ r \in Away
      BY <1>a, <1>c, <2>2, <2>8 DEF Writing, Away
    <3>2. /\ Cardinality(Writing') <= Cardinality(Writing) + 1
          /\ Cardinality(Away') <= Cardinality(Away) + (-1)
          /\ Cardinality(Talk!Messages') <= Cardinality(Talk!Messages) + 0
      <4>1. Cardinality(Writing) \in Nat /\ Cardinality(Away) \in Nat
            /\ Cardinality(Talk!Messages) \in Nat
        BY TalkFinite, FS_CardinalityType
      <4>2. Cardinality(Writing') \in {Cardinality(Writing), Cardinality(Writing) + 1}
        BY <3>1, TalkFinite, FS_AddElement
      <4>3. Cardinality(Away') = Cardinality(Away) - 1
        BY <3>1, TalkFinite, FS_RemoveElement
      <4>4. Cardinality(Talk!Messages') <= Cardinality(Talk!Messages)
        BY <2>3, TalkFinite, FS_Subset
      <4> QED BY <4>1, <4>2, <4>3, <4>4
    <3>3. r \notin Killed => Turn'
      BY <1>a, <3>2, TurnKept
    <3> QED BY <2>3, <2>5, <2>6, <3>3 DEF TalkInv
  <2> QED BY <2>7, <2>8
<1> QED BY <1>1, <1>2

\* A client reads or writes: the turn goes into the queue or comes from it.
LEMMA MessageTurn ==
    ASSUME TalkInv, NEW c \in Talkers, Talk!Receive(c) \/ Talk!Send(c)
    PROVE  TalkInv'
<1>a. /\ Talk!TypeOK /\ Opened /\ Sides /\ (r \notin Killed => Turn)
      /\ msgs \in [Queues -> 0 .. MaxMsg]
      /\ place \in [Talkers -> {"off", "open", "reading", "writing", "close", "unlink"}]
      /\ UNCHANGED <<name, mqd0, mqd1>>
  BY DEF TalkInv, Talk!TypeOK, Talk!Receive, Talk!Send
<1>b. MaxMsg \in Nat /\ r \in Talkers
  BY TalkConstants
<1>c. \A q : (AsRead(q)' <=> AsRead(q)) /\ (AsWrite(q)' <=> AsWrite(q))
  BY <1>a DEF AsRead, AsWrite
<1>d. Sides' /\ \A q : Talk!Used(q)' <=> Talk!Used(q)
  BY <1>a, <1>c, UsedAs DEF Sides
<1>e. Cardinality(Writing) \in Nat /\ Cardinality(Away) \in Nat /\ Cardinality(Talk!Messages) \in Nat
  BY TalkFinite, FS_CardinalityType
<1>1. CASE Talk!Receive(c)
  <2>1. /\ place[c] = "reading" /\ msgs[mqd0[c]] > 0
        /\ msgs' = [msgs EXCEPT ![mqd0[c]] = msgs[mqd0[c]] - 1]
        /\ place' = [place EXCEPT ![c] = "writing"]
    BY <1>1 DEF Talk!Receive, Talk!Arrived
  <2>2. PICK q \in Queues : q = mqd0[c]
    BY <1>a, <2>1 DEF Opened
  <2>3. PICK k \in 1 .. MaxMsg : k = msgs[q] /\ k - 1 \in 0 .. MaxMsg
    BY <1>a, <1>b, <2>1, <2>2
  <2>4. msgs' = [msgs EXCEPT ![q] = k - 1] /\ Talk!Used(q)
    BY <2>1, <2>2, <2>3 DEF Talk!Used
  <2>5. Talk!TypeOK'
    BY <1>a, <2>1, <2>3, <2>4 DEF Talk!TypeOK
  <2>6. Opened'
    BY <1>a, <2>1 DEF Opened
  <2>7. /\ <<q, k>> \in Talk!Messages /\ Talk!Messages' = Talk!Messages \ {<<q, k>>}
    <3>1. \A x \in Queues : msgs'[x] = IF x = q THEN k - 1 ELSE msgs[x]
      BY <1>a, <2>4
    <3>2. \A j \in 1 .. MaxMsg : j <= k - 1 <=> j <= k /\ j # k
      BY <2>3
    <3>3. \A x \in Queues, j \in 1 .. MaxMsg : j <= msgs'[x] <=> j <= msgs[x] /\ <<x, j>> # <<q, k>>
      BY <2>3, <3>1, <3>2
    <3>4. k <= msgs[q]
      BY <2>3
    <3> QED BY <1>d, <2>4, <3>3, <3>4 DEF Talk!Messages
  <2>8. Writing' = Writing \cup {c} /\ Away' = Away
    BY <1>a, <2>1 DEF Writing, Away
  <2>9. /\ Cardinality(Talk!Messages') = Cardinality(Talk!Messages) - 1
        /\ Cardinality(Writing') \in {Cardinality(Writing), Cardinality(Writing) + 1}
    BY <2>7, <2>8, TalkFinite, FS_RemoveElement, FS_AddElement
  <2>10. /\ Cardinality(Talk!Messages') <= Cardinality(Talk!Messages) + (-1)
         /\ Cardinality(Writing') <= Cardinality(Writing) + 1
         /\ Cardinality(Away') <= Cardinality(Away) + 0
    BY <1>e, <2>8, <2>9
  <2>11. r \notin Killed => Turn'
    BY <1>a, <2>10, TurnKept
  <2> QED BY <1>d, <2>5, <2>6, <2>11 DEF TalkInv
<1>2. CASE Talk!Send(c)
  <2>1. /\ place[c] = "writing" /\ msgs[mqd1[c]] < MaxMsg
        /\ msgs' = [msgs EXCEPT ![mqd1[c]] = msgs[mqd1[c]] + 1]
        /\ place' = [place EXCEPT ![c] = "reading"]
    BY <1>2 DEF Talk!Send
  <2>2. PICK q \in Queues : q = mqd1[c]
    BY <1>a, <2>1 DEF Opened
  <2>3. PICK k \in 1 .. MaxMsg : k = msgs[q] + 1
    BY <1>a, <1>b, <2>1, <2>2
  <2>4. msgs' = [msgs EXCEPT ![q] = k] /\ Talk!Used(q)
    BY <2>1, <2>2, <2>3 DEF Talk!Used
  <2>5. Talk!TypeOK'
    BY <1>a, <2>1, <2>3, <2>4 DEF Talk!TypeOK
  <2>6. Opened'
    BY <1>a, <2>1 DEF Opened
  <2>7. Talk!Messages' = Talk!Messages \cup {<<q, k>>}
    <3>1. \A x \in Queues : msgs'[x] = IF x = q THEN k ELSE msgs[x]
      BY <1>a, <2>4
    <3>2. msgs[q] = k - 1
      BY <1>a, <2>3
    <3>3. \A j \in 1 .. MaxMsg : j <= k <=> j <= k - 1 \/ j = k
      BY <2>3
    <3>4. \A x \in Queues, j \in 1 .. MaxMsg : j <= msgs'[x] <=> j <= msgs[x] \/ <<x, j>> = <<q, k>>
      BY <2>3, <3>1, <3>2, <3>3
    <3> QED BY <1>d, <2>3, <2>4, <3>4 DEF Talk!Messages
  <2>8. Writing' = Writing \ {c} /\ Away' = Away /\ c \in Writing
    BY <1>a, <2>1 DEF Writing, Away
  <2>9. /\ Cardinality(Talk!Messages') \in {Cardinality(Talk!Messages), Cardinality(Talk!Messages) + 1}
        /\ Cardinality(Writing') = Cardinality(Writing) - 1
    BY <2>7, <2>8, TalkFinite, FS_RemoveElement, FS_AddElement
  <2>10. /\ Cardinality(Talk!Messages') <= Cardinality(Talk!Messages) + 1
         /\ Cardinality(Writing') <= Cardinality(Writing) + (-1)
         /\ Cardinality(Away') <= Cardinality(Away) + 0
    BY <1>e, <2>8, <2>9
  <2>11. r \notin Killed => Turn'
    BY <1>a, <2>10, TurnKept
  <2> QED BY <1>d, <2>5, <2>6, <2>11 DEF TalkInv
<1> QED BY <1>1, <1>2

\* A client ends, or is killed.
LEMMA EndTurn ==
    ASSUME TalkInv, NEW c \in Talkers,
           \/ Talk!EndOfInput(c) \/ Talk!Leave(c) \/ Talk!UnlinkWrite(c) \/ Talk!Kill(c)
    PROVE  TalkInv'
<1>a. /\ Talk!TypeOK /\ Opened /\ Sides /\ (r \notin Killed => Turn)
      /\ name \in [{"READ", "WRITE"} -> Queues \cup {0}]
      /\ mqd0 \in [Talkers -> Queues \cup {0}] /\ mqd1 \in [Talkers -> Queues \cup {0}]
      /\ place \in [Talkers -> {"off", "open", "reading", "writing", "close", "unlink"}]
      /\ msgs' = msgs
  BY DEF TalkInv, Talk!TypeOK, Talk!QueueNames, Talk!NoQueue, Talk!EndOfInput, Talk!Leave,
         Talk!UnlinkWrite, Talk!Kill
<1>b. r \in Talkers /\ 0 \notin Queues
  BY TalkConstants
<1>c. Cardinality(Writing) \in Nat /\ Cardinality(Away) \in Nat /\ Cardinality(Talk!Messages) \in Nat
  BY TalkFinite, FS_CardinalityType
<1>d. ASSUME Talk!Closed(c), \A d \in Talkers \ {c} : place'[d] = place[d],
             place'[c] \in {"off", "unlink"}
      PROVE  /\ mqd0' \in [Talkers -> Queues \cup {0}] /\ mqd1' \in [Talkers -> Queues \cup {0}]
             /\ Opened'
  <2>1. /\ mqd0' = [mqd0 EXCEPT ![c] = 0] /\ mqd1' = [mqd1 EXCEPT ![c] = 0]
    BY <1>d DEF Talk!Closed, Talk!NoQueue
  <2> QED BY <1>a, <1>d, <2>1 DEF Opened
<1>1. CASE Talk!EndOfInput(c)
  <2>1. /\ place[c] = "writing" /\ place' = [place EXCEPT ![c] = "close"]
        /\ UNCHANGED <<name, msgs, mqd0, mqd1>>
    BY <1>1 DEF Talk!EndOfInput
  <2>2. Talk!TypeOK' /\ Opened'
    BY <1>a, <2>1 DEF Talk!TypeOK, Opened
  <2>3. Sides' /\ Talk!Messages' \subseteq Talk!Messages
    BY <1>a, <2>1, NoMore DEF AsRead, AsWrite
  <2>4. Writing' = Writing \ {c} /\ c \in Writing /\ Away' \subseteq Away \cup {c}
    BY <1>a, <2>1 DEF Writing, Away
  <2>5. Cardinality(Writing') = Cardinality(Writing) - 1
    BY <2>4, TalkFinite, FS_RemoveElement
  <2>6. Cardinality(Away') <= Cardinality(Away) + 1
    <3>1. /\ IsFiniteSet(Away \cup {c})
          /\ Cardinality(Away \cup {c}) \in {Cardinality(Away), Cardinality(Away) + 1}
      BY TalkFinite, FS_AddElement
    <3>2. Cardinality(Away') <= Cardinality(Away \cup {c}) /\ Cardinality(Away') \in Nat
      BY <2>4, <3>1, TalkFinite, FS_Subset, FS_CardinalityType
    <3> QED BY <1>c, <3>1, <3>2
  <2>7. Cardinality(Talk!Messages') <= Cardinality(Talk!Messages) + 0
    <3>1. Cardinality(Talk!Messages') <= Cardinality(Talk!Messages)
      BY <2>3, TalkFinite, FS_Subset
    <3> QED BY <1>c, <3>1
  <2>8. Cardinality(Writing') <= Cardinality(Writing) + (-1)
    BY <1>c, <2>5
  <2>9. r \notin Killed => Turn'
    BY <1>a, <2>6, <2>7, <2>8, TurnKept
  <2> QED BY <2>2, <2>3, <2>9 DEF TalkInv
<1>2. CASE Talk!Leave(c)
  <2>1. /\ place[c] = "close" /\ Talk!Closed(c)
        /\ \/ name' = [name EXCEPT !["READ"] = 0] /\ place' = [place EXCEPT ![c] = "unlink"]
           \/ name' = name /\ place' = [place EXCEPT ![c] = "off"]
    BY <1>2 DEF Talk!Leave, Talk!NoQueue
  <2>2. /\ name' \in [{"READ", "WRITE"} -> Queues \cup {0}]
        /\ \A n \in {"READ", "WRITE"} : name'[n] \in {name[n], 0}
        /\ place' \in [Talkers -> {"off", "open", "reading", "writing", "close", "unlink"}]
        /\ \A d \in Talkers \ {c} : place'[d] = place[d]
        /\ place'[c] \in {"off", "unlink"}
    BY <1>a, <2>1
  <2>3. Sides' /\ Talk!Messages' \subseteq Talk!Messages
    BY <1>a, <2>1, <2>2, Closing
  <2>4. Talk!TypeOK' /\ Opened'
    BY <1>a, <1>d, <2>1, <2>2 DEF Talk!TypeOK, Talk!QueueNames, Talk!NoQueue
  <2>5. Writing' = Writing /\ Away' = Away
    <3>1. \A d \in Talkers :
             /\ place'[d] = "writing" <=> place[d] = "writing"
             /\ place'[d] \in {"reading", "writing"} <=> place[d] \in {"reading", "writing"}
      BY <2>1, <2>2
    <3> QED BY <1>b, <3>1 DEF Writing, Away
  <2>6. r \notin Killed => Turn'
    BY <1>a, <2>3, <2>5, TurnMoves
  <2> QED BY <2>3, <2>4, <2>6 DEF TalkInv
<1>3. CASE Talk!UnlinkWrite(c)
  <2>1. /\ place[c] = "unlink" /\ place' = [place EXCEPT ![c] = "off"]
        /\ name' = [name EXCEPT !["WRITE"] = 0] /\ UNCHANGED <<msgs, mqd0, mqd1>>
    BY <1>3 DEF Talk!UnlinkWrite, Talk!NoQueue
  <2>2. /\ name' \in [{"READ", "WRITE"} -> Queues \cup {0}]
        /\ name'["READ"] = name["READ"] /\ name'["WRITE"] = 0
    BY <1>a, <2>1
  <2>3. Sides' /\ Talk!Messages' \subseteq Talk!Messages
    BY <1>a, <1>b, <2>1, <2>2, NoMore DEF AsRead, AsWrite
  <2>4. Talk!TypeOK' /\ Opened'
    BY <1>a, <2>1, <2>2 DEF Talk!TypeOK, Talk!QueueNames, Talk!NoQueue, Opened
  <2>5. Writing' = Writing /\ Away' = Away
    BY <1>a, <2>1 DEF Writing, Away
  <2>6. r \notin Killed => Turn'
    BY <1>a, <2>3, <2>5, TurnMoves
  <2> QED BY <2>3, <2>4, <2>6 DEF TalkInv
<1>4. CASE Talk!Kill(c)
  <2>1. /\ c \in Killed /\ Talk!Closed(c) /\ place' = [place EXCEPT ![c] = "off"] /\ name' = name
    BY <1>4 DEF Talk!Kill
  <2>2. /\ place' \in [Talkers -> {"off", "open", "reading", "writing", "close", "unlink"}]
        /\ \A d \in Talkers \ {c} : place'[d] = place[d]
        /\ place'[c] = "off"
    BY <1>a, <2>1
  <2>3. Sides' /\ Talk!Messages' \subseteq Talk!Messages
    BY <1>a, <2>1, Closing
  <2>4. Talk!TypeOK' /\ Opened'
    BY <1>a, <1>d, <2>1, <2>2 DEF Talk!TypeOK, Talk!QueueNames, Talk!NoQueue
  <2>5. ASSUME r \notin Killed PROVE Turn'
    <3>1. c # r /\ Away' = Away /\ Writing' \subseteq Writing
      BY <1>b, <2>1, <2>2, <2>5 DEF Writing, Away
    <3>2. /\ Cardinality(Writing') <= Cardinality(Writing)
          /\ Cardinality(Talk!Messages') <= Cardinality(Talk!Messages)
          /\ Cardinality(Writing') \in Nat /\ Cardinality(Talk!Messages') \in Nat
      BY <2>3, <3>1, TalkFinite, FS_Subset, FS_CardinalityType
    <3>3. /\ Cardinality(Writing') <= Cardinality(Writing) + 0
          /\ Cardinality(Talk!Messages') <= Cardinality(Talk!Messages) + 0
          /\ Cardinality(Away') <= Cardinality(Away) + 0
      BY <1>c, <3>1, <3>2
    <3> QED BY <1>a, <2>5, <3>3, TurnKept
  <2> QED BY <2>3, <2>4, <2>5 DEF TalkInv
<1> QED BY <1>1, <1>2, <1>3, <1>4

LEMMA TalkStep == TalkInv /\ [Talk!Next]_Talk!vars => TalkInv'
<1> SUFFICES ASSUME TalkInv, [Talk!Next]_Talk!vars PROVE TalkInv'
  OBVIOUS
<1>1. CASE Talk!Next
  <2>1. PICK c \in Talkers : Talk!OpenRead(c) \/ Talk!Step(c) \/ Talk!Send(c)
                             \/ Talk!EndOfInput(c) \/ Talk!Kill(c)
    BY <1>1 DEF Talk!Next
  <2> QED BY <2>1, OpenTurn, MessageTurn, EndTurn DEF Talk!Step
<1>2. CASE UNCHANGED Talk!vars
  <2>1. UNCHANGED <<name, msgs, mqd0, mqd1, place>>
    BY <1>2 DEF Talk!vars
  <2>2. Sides' /\ Talk!Messages' \subseteq Talk!Messages
    BY <2>1, NoMore DEF TalkInv, AsRead, AsWrite
  <2>3. Talk!TypeOK' /\ Opened' /\ Writing' = Writing /\ Away' = Away
    BY <2>1 DEF TalkInv, Talk!TypeOK, Opened, Writing, Away
  <2>4. r \notin Killed => Turn'
    BY <2>2, <2>3, TurnMoves DEF TalkInv
  <2> QED BY <2>2, <2>3, <2>4 DEF TalkInv
<1> QED BY <1>1, <1>2

\* Who reads and who writes: the two queues of a client are on different sides.
LEMMA TalkCrossed == TalkInv => Talk!Crossed
<1> SUFFICES ASSUME TalkInv PROVE Talk!Crossed
  OBVIOUS
<1>1. ASSUME NEW c \in Talkers, place[c] \in {"reading", "writing"}
      PROVE  /\ mqd0[c] \in Queues /\ mqd1[c] \in Queues
             /\ c # r => AsRead(mqd0[c]) /\ AsWrite(mqd1[c])
             /\ c = r => AsWrite(mqd0[c]) /\ AsRead(mqd1[c])
  BY <1>1 DEF TalkInv, Opened, AsRead, AsWrite
<1>2. \A q \in Queues : ~(AsRead(q) /\ AsWrite(q))
  BY DEF TalkInv, Sides
<1>3. ASSUME NEW c \in Talkers, place[c] \in {"reading", "writing"} PROVE mqd0[c] # mqd1[c]
  BY <1>1, <1>2, <1>3
<1>4. ASSUME NEW c \in Talkers \ {r}, {place[c], place[r]} \subseteq {"reading", "writing"},
             {mqd0[c], mqd1[c]} = {mqd0[r], mqd1[r]}
      PROVE  mqd0[c] = mqd1[r]
  <2>1. r \in Talkers /\ place[c] \in {"reading", "writing"} /\ place[r] \in {"reading", "writing"}
    BY <1>4, TalkConstants
  <2>2. AsRead(mqd0[c]) /\ AsWrite(mqd0[r]) /\ mqd0[c] \in Queues
    BY <1>1, <2>1
  <2>3. mqd0[c] = mqd0[r] \/ mqd0[c] = mqd1[r]
    BY <1>4
  <2> QED BY <1>2, <2>2, <2>3
<1> QED BY <1>3, <1>4 DEF Talk!Crossed

LEMMA TalkOneTurn == TalkInv /\ r \notin Killed => Talk!OneTurn
<1> SUFFICES ASSUME TalkInv, r \notin Killed PROVE Talk!OneTurn
  OBVIOUS
<1>1. /\ Cardinality(Talk!Messages) \in Nat /\ Cardinality(Writing) \in Nat
      /\ Cardinality(Away) \in Nat
  BY TalkFinite, FS_CardinalityType
<1>2. Cardinality(Talk!Messages) + Cardinality(Writing) <= 1
  BY <1>1 DEF TalkInv, Turn
<1>3. Cardinality({r}) = 1
  BY FS_Singleton
<1> QED BY <1>2, <1>3, SameSizes DEF Talk!OneTurn, Writing

LEMMA TalkPart == ProcSpec => Talk!Spec
<1>1. ProcInit => Talk!Init
  BY DEF ProcInit
<1>2. [ProcNext]_Vars => [Talk!Next]_Talk!vars
  BY DEF ProcNext, Vars, TalkVars, Talk!vars
<1> QED BY <1>1, <1>2, PTL DEF ProcSpec, Talk!Spec

\* module3/07: the client with -r is one, whoever else is started, ended or killed; and its
\* turn is in one place.
THEOREM TalkInductive == ProcSpec => []TalkInv
<1>1. Talk!Spec => []TalkInv
  BY TalkInit, TalkStep, PTL DEF Talk!Spec
<1> QED BY <1>1, TalkPart, PTL

\* module3/07: however many clients read first, and whenever one ends, is killed and is
\* started again, at most one may write or one message is under way, as long as nobody kills
\* the client with -r; and two that share their queues each read what the other writes.
THEOREM TurnsHold == ASSUME r \notin Killed PROVE ProcSpec => []TurnsRight
<1>1. TalkInv => TurnsRight
  BY TalkCrossed, TalkOneTurn DEF TurnsRight
<1> QED BY <1>1, TalkInductive, PTL

-----------------------------------------------------------------------------
(* SignalCounter: what is in the file and on the stack. *)

Frames == [signal : Counter!SignalKinds, at : {"begin", "store", "write"}, loaded : Nat]
Unstored == {k \in DOMAIN handlers : handlers[k].signal = "SIGINT" /\ handlers[k].at # "write"}
Stored == {k \in DOMAIN handlers : handlers[k].signal = "SIGINT" /\ handlers[k].at = "write"}
Interrupts == {k \in DOMAIN log : log[k][1] = "SIGINT"}

CounterStack ==
    /\ handlers \in Seq(Frames)
    /\ \A k \in DOMAIN handlers : handlers[k].at # "begin" => handlers[k].signal = "SIGINT"
    /\ \A j, k \in DOMAIN handlers : handlers[k].at = "store" =>
          /\ handlers[k].loaded <= sigint_count
          /\ j < k /\ handlers[j].at = "store" => handlers[j].loaded <= handlers[k].loaded

\* No signal is counted that was not sent.
CounterBound == sigint_count + Cardinality(pending) + Cardinality(Unstored) <= sent

CounterFields ==
    /\ sent \in 0 .. MaxSignals /\ sa_flags \subseteq {"NODEFER", "RESETHAND"}
    /\ at5 = "off" => handlers = <<>> /\ log = <<>> /\ sigint_count = 0
    /\ at5 = "killed" => handlers = <<>>
    /\ at5 = "done" => handlers = <<>>

CounterNumbers ==
    /\ \A k \in Counter!Numbers : log[k][2] = Cardinality({j \in Counter!Numbers : j <= k})
    /\ number = Cardinality(Counter!Numbers) + 1

\* While handlers of one signal do not nest, the count is that of the lines.
CounterCount ==
    "NODEFER" \notin sa_flags =>
       /\ \A j, k \in DOMAIN handlers :
             handlers[j].signal = "SIGINT" /\ handlers[k].signal = "SIGINT" => j = k
       /\ \A k \in DOMAIN handlers : handlers[k].at = "store" => handlers[k].loaded = sigint_count
       /\ at5 \notin {"closed", "done", "killed"} =>
             sigint_count = Cardinality(Interrupts) + Cardinality(Stored)
       /\ at5 \in {"close", "closed", "done"} => Cardinality(Interrupts) >= 3
       /\ \A k \in DOMAIN log : Counter!ThirdBy(k) =>
             /\ \A a, b \in Counter!Numbers : a > k /\ b > k => a = b
             /\ at5 = "write" => \A a \in Counter!Numbers : ~(a > k)

CounterInv ==
    /\ Counter!TypeOK /\ CounterFields /\ CounterStack /\ CounterBound
    /\ CounterNumbers /\ CounterCount

LEMMA CounterConstants == MaxSignals \in Nat
<1>1. Counter!ConstantAssumption
  BY InstanceAssumption
<1> QED BY <1>1 DEF Counter!ConstantAssumption

LEMMA CounterSizes == \A S : Counter!Cardinality(S) = Cardinality(S)
BY DEF Counter!Cardinality, Cardinality

\* The stack.
LEMMA Stack ==
    ASSUME handlers \in Seq(Frames)
    PROVE  /\ Len(handlers) \in Nat /\ DOMAIN handlers = 1 .. Len(handlers)
           /\ \A k \in 1 .. Len(handlers) :
                 /\ handlers[k] \in Frames
                 /\ handlers[k].signal \in {"SIGINT", "SIGQUIT"}
                 /\ handlers[k].at \in {"begin", "store", "write"} /\ handlers[k].loaded \in Nat
           /\ IsFiniteSet(Unstored) /\ IsFiniteSet(Stored)
           /\ Cardinality(Unstored) \in Nat /\ Cardinality(Stored) \in Nat
<1>1. Len(handlers) \in Nat /\ DOMAIN handlers = 1 .. Len(handlers)
  BY LenProperties
<1>2. ASSUME NEW k \in 1 .. Len(handlers)
      PROVE  /\ handlers[k] \in Frames
             /\ handlers[k].signal \in {"SIGINT", "SIGQUIT"}
             /\ handlers[k].at \in {"begin", "store", "write"} /\ handlers[k].loaded \in Nat
  <2>1. handlers[k] \in Frames
    BY ElementOfSeq
  <2> QED BY <2>1 DEF Frames, Counter!SignalKinds
<1>3. Unstored \in SUBSET (1 .. Len(handlers)) /\ Stored \in SUBSET (1 .. Len(handlers))
  BY <1>1 DEF Unstored, Stored
<1>4. IsFiniteSet(1 .. Len(handlers))
  BY <1>1, FS_Interval
<1>5. IsFiniteSet(Unstored) /\ IsFiniteSet(Stored)
  BY <1>3, <1>4, FS_Subset
<1> QED BY <1>1, <1>2, <1>5, FS_CardinalityType

\* A handler begins.
LEMMA Push ==
    ASSUME handlers \in Seq(Frames), NEW f \in Frames, f.at = "begin", handlers' = Append(handlers, f)
    PROVE  /\ handlers' \in Seq(Frames) /\ DOMAIN handlers' = 1 .. Len(handlers) + 1
           /\ \A k \in 1 .. Len(handlers) : handlers'[k] = handlers[k]
           /\ handlers'[Len(handlers) + 1] = f
           /\ Stored' = Stored
           /\ f.signal # "SIGINT" => Unstored' = Unstored
           /\ f.signal = "SIGINT" => Unstored' = Unstored \cup {Len(handlers) + 1}
<1>1. /\ handlers' \in Seq(Frames) /\ Len(handlers') = Len(handlers) + 1
      /\ handlers'[Len(handlers) + 1] = f
      /\ \A k \in 1 .. Len(handlers) : handlers'[k] = handlers[k]
  BY AppendProperties
<1>2. Len(handlers) \in Nat /\ DOMAIN handlers = 1 .. Len(handlers)
  BY LenProperties
<1>3. DOMAIN handlers' = 1 .. Len(handlers) + 1
  BY <1>1, LenProperties
<1>4. 1 .. Len(handlers) + 1 = (1 .. Len(handlers)) \cup {Len(handlers) + 1}
  BY <1>2
<1>5. Stored' = Stored
  BY <1>1, <1>2, <1>3, <1>4 DEF Stored
<1>6. f.signal # "SIGINT" => Unstored' = Unstored
  BY <1>1, <1>2, <1>3, <1>4 DEF Unstored
<1>7. f.signal = "SIGINT" => Unstored' = Unstored \cup {Len(handlers) + 1}
  BY <1>1, <1>2, <1>3, <1>4 DEF Unstored
<1> QED BY <1>1, <1>3, <1>5, <1>6, <1>7

\* The innermost handler goes on.
LEMMA Innermost ==
    ASSUME handlers \in Seq(Frames), handlers # <<>>, NEW f \in Frames, Counter!Resume(f)
    PROVE  /\ Len(handlers) \in 1 .. Len(handlers) /\ Len(handlers) \in Nat
           /\ handlers' \in Seq(Frames)
           /\ DOMAIN handlers' = 1 .. Len(handlers) /\ DOMAIN handlers = 1 .. Len(handlers)
           /\ \A k \in 1 .. Len(handlers) :
                 handlers'[k] = IF k = Len(handlers) THEN f ELSE handlers[k]
<1>1. /\ Len(handlers) \in Nat /\ DOMAIN handlers = 1 .. Len(handlers)
      /\ handlers \in [1 .. Len(handlers) -> Frames]
  BY LenProperties
<1>2. Len(handlers) # 0
  BY EmptySeq
<1>3. handlers' = [handlers EXCEPT ![Len(handlers)] = f]
  BY DEF Counter!Resume
<1>4. handlers' \in [1 .. Len(handlers) -> Frames]
  BY <1>1, <1>3
<1>5. handlers' \in Seq(Frames)
  <2>1. Len(handlers) \in 1 .. Len(handlers)
    BY <1>1, <1>2
  <2>2. [handlers EXCEPT ![Len(handlers)] = f] \in Seq(Frames)
    BY <2>1, ExceptSeq
  <2> QED BY <1>3, <2>2
<1>6. Len(handlers) \in 1 .. Len(handlers)
  BY <1>1, <1>2
<1>7. DOMAIN handlers' = 1 .. Len(handlers)
  BY <1>4
<1>8. \A k \in 1 .. Len(handlers) :
         handlers'[k] = IF k = Len(handlers) THEN f ELSE handlers[k]
  BY <1>1, <1>3
<1> QED BY <1>1, <1>5, <1>6, <1>7, <1>8

\* The innermost handler returns.
LEMMA Returned ==
    ASSUME handlers \in Seq(Frames), handlers # <<>>,
           handlers' = SubSeq(handlers, 1, Len(handlers) - 1)
    PROVE  /\ Len(handlers) \in 1 .. Len(handlers) /\ Len(handlers) \in Nat
           /\ handlers' \in Seq(Frames)
           /\ DOMAIN handlers' = 1 .. Len(handlers) - 1 /\ DOMAIN handlers = 1 .. Len(handlers)
           /\ \A k \in 1 .. Len(handlers) - 1 : handlers'[k] = handlers[k]
           /\ Unstored' = Unstored \ {Len(handlers)} /\ Stored' = Stored \ {Len(handlers)}
<1>1. /\ Len(handlers) \in Nat /\ DOMAIN handlers = 1 .. Len(handlers)
  BY LenProperties
<1>2. Len(handlers) # 0
  BY EmptySeq
<1>3. \A k \in 1 .. Len(handlers) - 1 : handlers[k] \in Frames
  BY <1>1, ElementOfSeq
<1>4. /\ handlers' \in Seq(Frames)
      /\ Len(handlers') = IF 1 <= Len(handlers) - 1 THEN Len(handlers) - 1 - 1 + 1 ELSE 0
      /\ \A k \in 1 .. Len(handlers) - 1 - 1 + 1 : handlers'[k] = handlers[1 + k - 1]
  BY <1>1, <1>3, SubSeqProperties
<1>5. Len(handlers') = Len(handlers) - 1
  BY <1>1, <1>2, <1>4
<1>6. DOMAIN handlers' = 1 .. Len(handlers) - 1
  BY <1>4, <1>5, LenProperties
<1>7. \A k \in 1 .. Len(handlers) - 1 : handlers'[k] = handlers[k]
  BY <1>1, <1>4
<1>8. 1 .. Len(handlers) - 1 = (1 .. Len(handlers)) \ {Len(handlers)}
  BY <1>1
<1>9. Unstored' = Unstored \ {Len(handlers)} /\ Stored' = Stored \ {Len(handlers)}
  BY <1>1, <1>6, <1>7, <1>8 DEF Unstored, Stored
<1> QED BY <1>1, <1>2, <1>4, <1>6, <1>7, <1>9

\* The file.
LogLines == (Counter!SignalKinds \cup {"number"}) \X Nat

LEMMA LogFinite ==
    ASSUME log \in Seq(LogLines)
    PROVE  /\ Len(log) \in Nat /\ DOMAIN log = 1 .. Len(log)
           /\ IsFiniteSet(Counter!Numbers) /\ IsFiniteSet(Interrupts)
           /\ Cardinality(Counter!Numbers) \in Nat /\ Cardinality(Interrupts) \in Nat
           /\ Counter!Numbers \subseteq 1 .. Len(log) /\ Interrupts \subseteq 1 .. Len(log)
<1>1. Len(log) \in Nat /\ DOMAIN log = 1 .. Len(log)
  BY LenProperties
<1>2. Counter!Numbers \in SUBSET (1 .. Len(log)) /\ Interrupts \in SUBSET (1 .. Len(log))
  BY <1>1 DEF Counter!Numbers, Interrupts
<1>3. IsFiniteSet(1 .. Len(log))
  BY <1>1, FS_Interval
<1>4. IsFiniteSet(Counter!Numbers) /\ IsFiniteSet(Interrupts)
  BY <1>2, <1>3, FS_Subset
<1> QED BY <1>1, <1>2, <1>4, FS_CardinalityType

LEMMA LogAdd ==
    ASSUME log \in Seq(LogLines), NEW m \in Counter!SignalKinds \cup {"number"}, NEW n \in Nat,
           log' = Append(log, <<m, n>>)
    PROVE  /\ log' \in Seq(LogLines) /\ DOMAIN log' = 1 .. Len(log) + 1
           /\ log'[Len(log) + 1] = <<m, n>>
           /\ \A k \in 1 .. Len(log) : log'[k] = log[k]
           /\ Counter!Numbers' =
                 IF m = "number" THEN Counter!Numbers \cup {Len(log) + 1} ELSE Counter!Numbers
           /\ Interrupts' = IF m = "SIGINT" THEN Interrupts \cup {Len(log) + 1} ELSE Interrupts
           /\ \A k \in 1 .. Len(log) : Counter!ThirdBy(k)' <=> Counter!ThirdBy(k)
<1>0. <<m, n>> \in LogLines
  BY DEF LogLines
<1>1. /\ log' \in Seq(LogLines) /\ Len(log') = Len(log) + 1
      /\ log'[Len(log) + 1] = <<m, n>>
      /\ \A k \in 1 .. Len(log) : log'[k] = log[k]
  BY <1>0, AppendProperties
<1>2. Len(log) \in Nat /\ DOMAIN log = 1 .. Len(log)
  BY LenProperties
<1>3. DOMAIN log' = 1 .. Len(log) + 1
  BY <1>1, LenProperties
<1>4. 1 .. Len(log) + 1 = (1 .. Len(log)) \cup {Len(log) + 1}
  BY <1>2
<1>5. log'[Len(log) + 1][1] = m
  BY <1>1
<1>6. Counter!Numbers' =
         IF m = "number" THEN Counter!Numbers \cup {Len(log) + 1} ELSE Counter!Numbers
  BY <1>1, <1>2, <1>3, <1>4, <1>5 DEF Counter!Numbers
<1>7. Interrupts' = IF m = "SIGINT" THEN Interrupts \cup {Len(log) + 1} ELSE Interrupts
  BY <1>1, <1>2, <1>3, <1>4, <1>5 DEF Interrupts
<1>8. ASSUME NEW k \in 1 .. Len(log) PROVE Counter!ThirdBy(k)' <=> Counter!ThirdBy(k)
  <2>1. \A x \in 1 .. k : log'[x] = log[x]
    BY <1>1, <1>2
  <2> QED BY <2>1 DEF Counter!ThirdBy
<1> QED BY <1>1, <1>3, <1>6, <1>7, <1>8

\* Three SIGINT are in the file: as a count and as three places.
LEMMA ThreePlaces ==
    ASSUME log \in Seq(LogLines)
    PROVE  /\ Cardinality(Interrupts) >= 3 => Counter!ThirdBy(Len(log))
           /\ \A k \in 1 .. Len(log) : Counter!ThirdBy(k) => Cardinality(Interrupts) >= 3
<1>a. /\ Len(log) \in Nat /\ DOMAIN log = 1 .. Len(log)
      /\ IsFiniteSet(Interrupts) /\ Cardinality(Interrupts) \in Nat
      /\ Interrupts \subseteq 1 .. Len(log)
  BY LogFinite
<1>1. ASSUME Cardinality(Interrupts) >= 3 PROVE Counter!ThirdBy(Len(log))
  <2> DEFINE A == Interrupts
  <2>1. PICK x : x \in A
    BY <1>a, <1>1, FS_EmptySet
  <2>2. IsFiniteSet(A \ {x}) /\ Cardinality(A \ {x}) = Cardinality(A) - 1
    BY <1>a, <2>1, FS_RemoveElement
  <2>3. PICK y : y \in A \ {x}
    BY <1>a, <1>1, <2>2, FS_EmptySet
  <2>4. /\ IsFiniteSet((A \ {x}) \ {y})
        /\ Cardinality((A \ {x}) \ {y}) = Cardinality(A \ {x}) - 1
    BY <2>2, <2>3, FS_RemoveElement
  <2>5. PICK z : z \in (A \ {x}) \ {y}
    BY <1>a, <1>1, <2>2, <2>4, FS_EmptySet
  <2>6. /\ x \in 1 .. Len(log) /\ y \in 1 .. Len(log) /\ z \in 1 .. Len(log)
        /\ x # y /\ x # z /\ y # z
        /\ log[x][1] = "SIGINT" /\ log[y][1] = "SIGINT" /\ log[z][1] = "SIGINT"
    BY <1>a, <2>1, <2>3, <2>5 DEF Interrupts
  <2>7. \E a, b, c \in {x, y, z} : a < b /\ b < c
    BY <2>6, <1>a
  <2>8. PICK a, b, c \in {x, y, z} : a < b /\ b < c
    BY <2>7
  <2>9. /\ a \in 1 .. Len(log) /\ b \in 1 .. Len(log) /\ c \in 1 .. Len(log)
        /\ \A k \in {a, b, c} : log[k][1] = "SIGINT"
    BY <2>6, <2>8
  <2> QED BY <2>8, <2>9 DEF Counter!ThirdBy
<1>2. ASSUME NEW k \in 1 .. Len(log), Counter!ThirdBy(k) PROVE Cardinality(Interrupts) >= 3
  <2>1. PICK a, b, c \in 1 .. k : a < b /\ b < c /\ \A j \in {a, b, c} : log[j][1] = "SIGINT"
    BY <1>2 DEF Counter!ThirdBy
  <2>2. a # b /\ a # c /\ b # c /\ {a, b, c} \in SUBSET Interrupts
    BY <1>a, <2>1 DEF Interrupts
  <2>3. Cardinality({a, b, c}) = 3
    <3>1. IsFiniteSet({a}) /\ Cardinality({a}) = 1
      BY FS_Singleton
    <3>2. b \notin {a} /\ c \notin {a} \cup {b}
      BY <2>2
    <3>3. IsFiniteSet({a} \cup {b}) /\ Cardinality({a} \cup {b}) = 1 + 1
      BY <3>1, <3>2, FS_AddElement
    <3>5. Cardinality(({a} \cup {b}) \cup {c}) = 1 + 1 + 1
      BY <3>2, <3>3, FS_AddElement
    <3>4. {a, b, c} = ({a} \cup {b}) \cup {c}
      OBVIOUS
    <3>6. 1 + 1 + 1 = 3
      OBVIOUS
    <3>7. Cardinality({a, b, c}) = 1 + 1 + 1
      BY ONLY <3>4, <3>5
    <3> QED BY ONLY <3>6, <3>7
  <2>4. Cardinality({a, b, c}) <= Cardinality(Interrupts)
    BY <1>a, <2>2, FS_Subset
  <2> QED BY <1>a, <2>3, <2>4
<1> QED BY <1>1, <1>2

LEMMA Known ==
    ASSUME CounterInv
    PROVE  /\ handlers \in Seq(Frames) /\ log \in Seq(LogLines)
           /\ sigint_count \in Nat /\ sent \in Nat /\ sent <= MaxSignals /\ number \in Nat
           /\ MaxSignals \in Nat
           /\ pending \subseteq {"SIGINT", "SIGQUIT"} /\ IsFiniteSet(pending)
           /\ Cardinality(pending) \in Nat
           /\ sigint_count + Cardinality(pending) + Cardinality(Unstored) <= sent
<1>1. pending \in SUBSET {"SIGINT", "SIGQUIT"}
  BY DEF CounterInv, Counter!TypeOK, Counter!SignalKinds
<1>2. IsFiniteSet({"SIGINT"} \cup {"SIGQUIT"})
  BY FS_Singleton, FS_AddElement
<1>3. {"SIGINT"} \cup {"SIGQUIT"} = {"SIGINT", "SIGQUIT"}
  OBVIOUS
<1>4. IsFiniteSet(pending) /\ Cardinality(pending) \in Nat
  BY <1>1, <1>2, <1>3, FS_Subset, FS_CardinalityType
<1>5. log \in Seq(LogLines)
  BY DEF CounterInv, Counter!TypeOK, LogLines
<1> QED BY <1>1, <1>4, <1>5, CounterConstants
        DEF CounterInv, Counter!TypeOK, CounterFields, CounterStack, CounterBound

\* What the properties of the file become when it stays, and when the stack stays.
LEMMA LogStays ==
    ASSUME log' = log
    PROVE  /\ Counter!Numbers' = Counter!Numbers /\ Interrupts' = Interrupts
           /\ \A k : Counter!ThirdBy(k)' <=> Counter!ThirdBy(k)
           /\ CounterNumbers /\ number' = number => CounterNumbers'
BY DEF Counter!Numbers, Interrupts, Counter!ThirdBy, CounterNumbers

LEMMA StackStays ==
    ASSUME handlers' = handlers
    PROVE  /\ Unstored' = Unstored /\ Stored' = Stored
           /\ CounterStack /\ sigint_count' = sigint_count => CounterStack'
BY DEF Unstored, Stored, CounterStack

LEMMA CounterStart == ASSUME CounterInv, Counter!Start PROVE CounterInv'
<1>1. /\ at5 = "off" /\ at5' = "check" /\ sa_flags' \subseteq {"NODEFER", "RESETHAND"}
      /\ caught' = Counter!SignalKinds
      /\ UNCHANGED <<number, sigint_count, handlers, pending, sent, log>>
  BY DEF Counter!Start
<1>2. handlers = <<>> /\ log = <<>> /\ sigint_count = 0
  BY <1>1 DEF CounterInv, CounterFields
<1>3. Counter!TypeOK'
  BY <1>1 DEF CounterInv, Counter!TypeOK
<1>4. CounterFields' /\ CounterBound' /\ CounterStack' /\ CounterNumbers'
  BY <1>1, LogStays, StackStays DEF CounterInv, CounterFields, CounterBound
<1>5. Interrupts = {} /\ Stored = {} /\ Cardinality({}) = 0
  BY <1>2, FS_EmptySet DEF Interrupts, Stored
<1>6. CounterCount'
  <2>1. DOMAIN handlers' = {} /\ DOMAIN log' = {} /\ at5' = "check" /\ sigint_count' = 0
    BY <1>1, <1>2
  <2>2. Interrupts' = {} /\ Stored' = {}
    BY <1>1, <1>5, LogStays, StackStays
  <2>3. sigint_count' = Cardinality(Interrupts') + Cardinality(Stored')
    BY <1>5, <2>1, <2>2
  <2> QED BY <2>1, <2>3 DEF CounterCount
<1> QED BY <1>3, <1>4, <1>6 DEF CounterInv

LEMMA CounterSend ==
    ASSUME CounterInv, NEW s \in Counter!SignalKinds, Counter!Send(s) PROVE CounterInv'
<1>1. /\ sent < MaxSignals /\ pending' = pending \cup {s} /\ sent' = sent + 1
      /\ UNCHANGED <<sa_flags, at5, number, sigint_count, handlers, caught, log>>
  BY DEF Counter!Send
<1>2. Cardinality(pending') \in {Cardinality(pending), Cardinality(pending) + 1}
  BY <1>1, Known, FS_AddElement
<1>3. Counter!TypeOK'
  BY <1>1 DEF CounterInv, Counter!TypeOK
<1>4. CounterFields'
  <2>1. sent + 1 \in 0 .. MaxSignals
    BY <1>1, Known
  <2> QED BY <1>1, <2>1 DEF CounterInv, CounterFields
<1>5. CounterStack' /\ CounterNumbers' /\ Unstored' = Unstored /\ Stored' = Stored
  BY <1>1, LogStays, StackStays DEF CounterInv
<1>6. CounterBound'
  <2>1. Cardinality(Unstored) \in Nat
    BY Known, Stack
  <2>2. sigint_count + Cardinality(pending') + Cardinality(Unstored) <= sent + 1
    BY <1>2, <2>1, Known
  <2> QED BY <1>1, <1>5, <2>2 DEF CounterBound
<1>7. CounterCount'
  BY <1>1, <1>5, LogStays DEF CounterInv, CounterCount
<1> QED BY <1>3, <1>4, <1>5, <1>6, <1>7 DEF CounterInv

LEMMA CounterDeliver ==
    ASSUME CounterInv, NEW s \in Counter!SignalKinds, Counter!Deliver(s) PROVE CounterInv'
<1>1. /\ at5 \notin {"off", "done", "killed"} /\ s \in pending /\ ~ Counter!Deferred(s)
      /\ pending' = pending \ {s}
      /\ UNCHANGED <<sa_flags, number, sigint_count, sent, log>>
  BY DEF Counter!Deliver, Counter!Over
<1>2. Cardinality(pending') = Cardinality(pending) - 1
  BY <1>1, Known, FS_RemoveElement
<1>a. /\ Cardinality(Unstored) \in Nat
      /\ Len(handlers) \in Nat /\ DOMAIN handlers = 1 .. Len(handlers)
      /\ \A k \in 1 .. Len(handlers) : handlers[k].signal \in {"SIGINT", "SIGQUIT"}
      /\ IsFiniteSet(Unstored)
  BY Known, Stack
<1>3. CASE s \in caught
  <2> DEFINE f == [signal |-> s, at |-> "begin", loaded |-> 0]
  <2>1. /\ handlers' = Append(handlers, f) /\ caught' \in {caught, caught \ {s}}
        /\ at5' = IF at5 = "sleep" THEN "check" ELSE at5
    BY <1>3 DEF Counter!Deliver
  <2>2. f \in Frames /\ f.at = "begin" /\ f.signal = s
    BY DEF Frames
  <2> HIDE DEF f
  <2>3. /\ handlers' \in Seq(Frames) /\ DOMAIN handlers' = 1 .. Len(handlers) + 1
        /\ \A k \in 1 .. Len(handlers) : handlers'[k] = handlers[k]
        /\ handlers'[Len(handlers) + 1] = f
        /\ Stored' = Stored
        /\ s # "SIGINT" => Unstored' = Unstored
        /\ s = "SIGINT" => Unstored' = Unstored \cup {Len(handlers) + 1}
    BY <2>1, <2>2, Known, Push
  <2>4. Cardinality(Unstored') \in {Cardinality(Unstored), Cardinality(Unstored) + 1}
    BY <1>a, <2>3, FS_AddElement
  <2>5. CounterBound'
    <3>1. sigint_count + Cardinality(pending') + Cardinality(Unstored') <= sent
      BY <1>2, <1>a, <2>4, Known
    <3> QED BY <1>1, <3>1 DEF CounterBound
  <2>6. CounterStack'
    <3>1. \A k \in 1 .. Len(handlers) + 1 : k \in 1 .. Len(handlers) \/ k = Len(handlers) + 1
      BY <1>a
    <3>2. \A k \in 1 .. Len(handlers) + 1 : handlers'[k].at # "begin" =>
             k \in 1 .. Len(handlers) /\ handlers'[k] = handlers[k]
      BY <2>2, <2>3, <3>1
    <3> QED BY <1>1, <1>a, <2>3, <3>2 DEF CounterInv, CounterStack
  <2>7. Counter!TypeOK' /\ CounterFields' /\ CounterNumbers'
    BY <1>1, <2>1, LogStays DEF CounterInv, Counter!TypeOK, CounterFields
  <2>8. CounterCount'
    <3> SUFFICES ASSUME "NODEFER" \notin sa_flags PROVE CounterCount'
      BY <1>1 DEF CounterCount
    <3>1. \A k \in 1 .. Len(handlers) : handlers[k].signal # s
      BY <1>1, <1>a DEF Counter!Deferred
    <3>2. \A k \in 1 .. Len(handlers) + 1 : k \in 1 .. Len(handlers) \/ k = Len(handlers) + 1
      BY <1>a
    <3>3. \A j, k \in DOMAIN handlers' :
             handlers'[j].signal = "SIGINT" /\ handlers'[k].signal = "SIGINT" => j = k
      BY <1>a, <2>2, <2>3, <3>1, <3>2 DEF CounterInv, CounterCount
    <3>4. \A k \in DOMAIN handlers' : handlers'[k].at = "store" => handlers'[k].loaded = sigint_count
      BY <1>a, <2>2, <2>3, <3>2 DEF CounterInv, CounterCount
    <3>5. at5' = at5 \/ (at5 = "sleep" /\ at5' = "check")
      BY <2>1
    <3> QED BY <1>1, <2>3, <3>3, <3>4, <3>5, LogStays DEF CounterInv, CounterCount
  <2> QED BY <2>5, <2>6, <2>7, <2>8 DEF CounterInv
<1>4. CASE s \notin caught
  <2>1. at5' = "killed" /\ handlers' = <<>> /\ caught' = caught
    BY <1>4 DEF Counter!Deliver
  <2>2. /\ handlers' \in Seq(Frames) /\ DOMAIN handlers' = {} /\ Unstored' = {}
    BY <2>1 DEF Unstored
  <2>3. CounterBound'
    <3>1. sigint_count + Cardinality(pending') + 0 <= sent
      BY <1>2, <1>a, Known
    <3> QED BY <1>1, <2>2, <3>1, FS_EmptySet DEF CounterBound
  <2>4. CounterStack'
    BY <2>2 DEF CounterStack
  <2>5. Counter!TypeOK' /\ CounterFields' /\ CounterNumbers'
    BY <1>1, <2>1, LogStays DEF CounterInv, Counter!TypeOK, CounterFields
  <2>6. CounterCount'
    BY <1>1, <2>1, <2>2, LogStays DEF CounterInv, CounterCount
  <2> QED BY <2>3, <2>4, <2>5, <2>6 DEF CounterInv
<1> QED BY <1>3, <1>4

LEMMA CounterLoad == ASSUME CounterInv, Counter!Load PROVE CounterInv'
<1> DEFINE n == Len(handlers)
           f == [handlers[n] EXCEPT !.at = "store", !.loaded = sigint_count]
<1>1. /\ handlers # <<>> /\ handlers[n].signal = "SIGINT" /\ handlers[n].at = "begin"
      /\ Counter!Resume(f)
      /\ UNCHANGED <<sa_flags, at5, number, sigint_count, caught, pending, sent, log>>
  BY DEF Counter!Load, Counter!Top
<1>a. /\ handlers \in Seq(Frames) /\ sigint_count \in Nat
      /\ n \in Nat /\ DOMAIN handlers = 1 .. n /\ n \in 1 .. n
  <2>1. handlers \in Seq(Frames) /\ sigint_count \in Nat
    BY Known
  <2>2. n \in Nat /\ DOMAIN handlers = 1 .. n /\ n # 0
    BY <1>1, <2>1, Stack, EmptySeq
  <2> QED BY <2>1, <2>2
<1>2. /\ f \in Frames /\ f.at = "store" /\ f.loaded = sigint_count /\ f.signal = "SIGINT"
  <2>1. handlers[n] \in Frames
    BY <1>a, Stack
  <2> QED BY <1>1, <1>a, <2>1 DEF Frames
<1> HIDE DEF f
<1>3. /\ handlers' \in Seq(Frames) /\ DOMAIN handlers' = 1 .. n
      /\ \A k \in 1 .. n : handlers'[k] = IF k = n THEN f ELSE handlers[k]
  BY <1>1, <1>2, <1>a, Innermost
<1> HIDE DEF n
<1>4. Unstored' = Unstored /\ Stored' = Stored
  BY <1>1, <1>2, <1>3, <1>a DEF Unstored, Stored
<1>5. CounterStack'
  <2>1. /\ \A k \in 1 .. n : handlers[k].at # "begin" => handlers[k].signal = "SIGINT"
        /\ \A j, k \in 1 .. n : handlers[k].at = "store" =>
             /\ handlers[k].loaded <= sigint_count
             /\ j < k /\ handlers[j].at = "store" => handlers[j].loaded <= handlers[k].loaded
    BY <1>a DEF CounterInv, CounterStack
  <2>2. \A k \in 1 .. n : handlers'[k].at # "begin" => handlers'[k].signal = "SIGINT"
    BY <1>2, <1>3, <2>1
  <2>3. \A j \in 1 .. n : ~ (n < j)
    BY <1>a
  <2>4. \A j, k \in 1 .. n : handlers'[k].at = "store" =>
           /\ handlers'[k].loaded <= sigint_count
           /\ j < k /\ handlers'[j].at = "store" => handlers'[j].loaded <= handlers'[k].loaded
    BY <1>2, <1>3, <1>a, <2>1, <2>3
  <2> QED BY <1>1, <1>3, <2>2, <2>4 DEF CounterStack
<1>6. Counter!TypeOK' /\ CounterFields' /\ CounterNumbers' /\ CounterBound'
  BY <1>1, <1>4, LogStays
     DEF CounterInv, Counter!TypeOK, CounterFields, CounterBound
<1>7. CounterCount'
  <2> SUFFICES ASSUME "NODEFER" \notin sa_flags PROVE CounterCount'
    BY <1>1 DEF CounterCount
  <2>1. \A j, k \in DOMAIN handlers' :
           handlers'[j].signal = "SIGINT" /\ handlers'[k].signal = "SIGINT" => j = k
    BY <1>1, <1>2, <1>3, <1>a DEF CounterInv, CounterCount
  <2>2. \A k \in DOMAIN handlers' : handlers'[k].at = "store" => handlers'[k].loaded = sigint_count
    BY <1>2, <1>3, <1>a DEF CounterInv, CounterCount
  <2> QED BY <1>1, <1>4, <2>1, <2>2, LogStays DEF CounterInv, CounterCount
<1> QED BY <1>5, <1>6, <1>7 DEF CounterInv

LEMMA CounterStore == ASSUME CounterInv, Counter!Store PROVE CounterInv'
<1> DEFINE n == Len(handlers)
           f == [handlers[n] EXCEPT !.at = "write"]
<1>1. /\ handlers # <<>> /\ handlers[n].at = "store"
      /\ sigint_count' = handlers[n].loaded + 1
      /\ Counter!Resume(f)
      /\ UNCHANGED <<sa_flags, at5, number, caught, pending, sent, log>>
  BY DEF Counter!Store, Counter!Top
<1>a. /\ handlers \in Seq(Frames) /\ sigint_count \in Nat
      /\ n \in Nat /\ DOMAIN handlers = 1 .. n /\ n \in 1 .. n
      /\ \A k \in 1 .. n : handlers[k].loaded \in Nat
      /\ IsFiniteSet(Unstored) /\ IsFiniteSet(Stored)
      /\ Cardinality(Unstored) \in Nat /\ Cardinality(Stored) \in Nat
  <2>1. handlers \in Seq(Frames) /\ sigint_count \in Nat
    BY Known
  <2>2. n \in Nat /\ DOMAIN handlers = 1 .. n /\ n # 0
    BY <1>1, <2>1, Stack, EmptySeq
  <2> QED BY <2>1, <2>2, Stack
<1>b. /\ \A k \in 1 .. n : handlers[k].at # "begin" => handlers[k].signal = "SIGINT"
      /\ \A j, k \in 1 .. n : handlers[k].at = "store" =>
           /\ handlers[k].loaded <= sigint_count
           /\ j < k /\ handlers[j].at = "store" => handlers[j].loaded <= handlers[k].loaded
  BY <1>a DEF CounterInv, CounterStack
<1>2. /\ f \in Frames /\ f.at = "write" /\ f.signal = "SIGINT" /\ handlers[n].signal = "SIGINT"
  <2>1. handlers[n] \in Frames /\ handlers[n].signal = "SIGINT"
    BY <1>1, <1>a, <1>b, Stack
  <2> QED BY <1>1, <1>a, <2>1 DEF Frames
<1> HIDE DEF f
<1>3. /\ handlers' \in Seq(Frames) /\ DOMAIN handlers' = 1 .. n
      /\ \A k \in 1 .. n : handlers'[k] = IF k = n THEN f ELSE handlers[k]
  BY <1>1, <1>2, <1>a, Innermost
<1> HIDE DEF n
<1>4. /\ Unstored' = Unstored \ {n} /\ n \in Unstored
      /\ Stored' = Stored \cup {n} /\ n \notin Stored
  BY <1>1, <1>2, <1>3, <1>a DEF Unstored, Stored
<1>5. /\ Cardinality(Unstored') = Cardinality(Unstored) - 1
      /\ Cardinality(Stored') = Cardinality(Stored) + 1
  BY <1>4, <1>a, FS_AddElement, FS_RemoveElement
<1>6. sigint_count' \in Nat /\ sigint_count' <= sigint_count + 1
  BY <1>1, <1>a, <1>b
<1>7. CounterBound'
  <2>1. /\ sigint_count \in Nat /\ sent \in Nat /\ Cardinality(pending) \in Nat
        /\ sigint_count + Cardinality(pending) + Cardinality(Unstored) <= sent
    BY <1>a, Known
  <2>2. sigint_count' + Cardinality(pending) + Cardinality(Unstored') <= sent
    BY ONLY <1>5, <1>6, <1>a, <2>1
  <2> QED BY <1>1, <2>2 DEF CounterBound
<1>8. Counter!TypeOK'
  <2>1. sigint_count' \in 0 .. MaxSignals
    <3>1. /\ sigint_count' + Cardinality(pending) + Cardinality(Unstored') <= sent
          /\ sent \in Nat /\ sent <= MaxSignals /\ MaxSignals \in Nat
      BY <1>1, <1>7, Known DEF CounterBound
    <3>2. Cardinality(pending) \in Nat /\ Cardinality(Unstored') \in Nat
      BY <1>5, <1>4, <1>a, Known, FS_RemoveElement, FS_CardinalityType
    <3> QED BY ONLY <1>6, <3>1, <3>2
  <2> QED BY <1>1, <2>1 DEF CounterInv, Counter!TypeOK
<1>9. CounterStack'
  <2>1. \A k \in 1 .. n : handlers'[k].at # "begin" => handlers'[k].signal = "SIGINT"
    BY <1>2, <1>3, <1>b
  <2>2. \A k \in 1 .. n : handlers'[k].at = "store" =>
           k < n /\ handlers'[k] = handlers[k] /\ handlers[k].loaded <= handlers[n].loaded
    BY <1>1, <1>2, <1>3, <1>a, <1>b
  <2>3. \A k \in 1 .. n : handlers'[k].at = "store" => handlers'[k].loaded <= sigint_count'
    BY <1>1, <1>a, <2>2
  <2>4. \A j, k \in 1 .. n : handlers'[k].at = "store" =>
           (j < k /\ handlers'[j].at = "store" => handlers'[j].loaded <= handlers'[k].loaded)
    BY <1>b, <2>2
  <2> QED BY <1>3, <2>1, <2>3, <2>4 DEF CounterStack
<1>10. CounterFields' /\ CounterNumbers'
  BY <1>1, <1>a, LogStays DEF CounterInv, CounterFields
<1>11. CounterCount'
  <2> SUFFICES ASSUME "NODEFER" \notin sa_flags PROVE CounterCount'
    BY <1>1 DEF CounterCount
  <2>1. /\ \A j, k \in DOMAIN handlers' :
              handlers'[j].signal = "SIGINT" /\ handlers'[k].signal = "SIGINT" => j = k
        /\ \A k \in 1 .. n : handlers[k].signal = "SIGINT" => k = n
    BY <1>2, <1>3, <1>a DEF CounterInv, CounterCount
  <2>2. \A k \in DOMAIN handlers' : handlers'[k].at # "store"
    BY <1>2, <1>3, <1>b, <2>1
  <2>3. sigint_count' = sigint_count + 1
    BY <1>1, <1>a DEF CounterInv, CounterCount
  <2>4. at5 \notin {"closed", "done", "killed"} =>
             sigint_count' = Cardinality(Interrupts) + Cardinality(Stored')
    <3>1. Cardinality(Interrupts) \in Nat
      BY Known, LogFinite
    <3>2. at5 \notin {"closed", "done", "killed"} =>
             sigint_count = Cardinality(Interrupts) + Cardinality(Stored)
      BY DEF CounterInv, CounterCount
    <3> QED BY <1>5, <1>a, <2>3, <3>1, <3>2
  <2> QED BY <1>1, <2>1, <2>2, <2>4, LogStays DEF CounterInv, CounterCount
<1> QED BY <1>7, <1>8, <1>9, <1>10, <1>11 DEF CounterInv

\* A line is written after the others: what becomes of the properties of the file.
LEMMA CounterLine ==
    ASSUME CounterInv, "NODEFER" \notin sa_flags, NEW m \in {"SIGINT", "SIGQUIT"},
           log' = Append(log, <<m, 0>>), at5' = at5
    PROVE  \A k \in DOMAIN log' : Counter!ThirdBy(k)' =>
              /\ \A a, b \in Counter!Numbers' : a > k /\ b > k => a = b
              /\ at5' = "write" => \A a \in Counter!Numbers' : ~(a > k)
<1>1. log \in Seq(LogLines) /\ m \in Counter!SignalKinds \cup {"number"} /\ m # "number"
  BY Known DEF Counter!SignalKinds
<1>2. /\ DOMAIN log' = 1 .. Len(log) + 1 /\ Counter!Numbers' = Counter!Numbers
      /\ \A k \in 1 .. Len(log) : Counter!ThirdBy(k)' <=> Counter!ThirdBy(k)
  BY <1>1, LogAdd
<1>3. Len(log) \in Nat /\ DOMAIN log = 1 .. Len(log) /\ Counter!Numbers \subseteq 1 .. Len(log)
  BY <1>1, LogFinite
<1>4. \A k \in 1 .. Len(log) : Counter!ThirdBy(k) =>
         /\ \A a, b \in Counter!Numbers : a > k /\ b > k => a = b
         /\ at5 = "write" => \A a \in Counter!Numbers : ~(a > k)
  BY <1>3 DEF CounterInv, CounterCount
<1>5. \A a \in Counter!Numbers : ~(a > Len(log) + 1)
  BY <1>3
<1>6. \A k \in 1 .. Len(log) + 1 : k \in 1 .. Len(log) \/ k = Len(log) + 1
  BY <1>3
<1> QED BY <1>2, <1>4, <1>5, <1>6

LEMMA CounterWrite == ASSUME CounterInv, Counter!Write PROVE CounterInv'
<1> DEFINE n == Len(handlers)
<1>1. /\ handlers # <<>>
      /\ handlers[n].at = "write" \/ handlers[n].signal = "SIGQUIT"
      /\ log' = IF at5 = "closed" THEN log ELSE Append(log, <<handlers[n].signal, 0>>)
      /\ handlers' = SubSeq(handlers, 1, n - 1)
      /\ UNCHANGED <<sa_flags, at5, number, sigint_count, caught, pending, sent>>
  BY DEF Counter!Write, Counter!Top, Counter!Written
<1>a. handlers \in Seq(Frames) /\ log \in Seq(LogLines) /\ sigint_count \in Nat
  BY Known
<1>2. /\ n \in 1 .. n /\ n \in Nat /\ handlers' \in Seq(Frames)
      /\ DOMAIN handlers' = 1 .. n - 1 /\ DOMAIN handlers = 1 .. n
      /\ \A k \in 1 .. n - 1 : handlers'[k] = handlers[k]
      /\ Unstored' = Unstored \ {n} /\ Stored' = Stored \ {n}
  BY <1>1, <1>a, Returned
<1>b. /\ handlers[n].signal \in {"SIGINT", "SIGQUIT"}
      /\ IsFiniteSet(Stored) /\ Cardinality(Stored) \in Nat
      /\ IsFiniteSet(Interrupts) /\ Cardinality(Interrupts) \in Nat
      /\ Len(log) \in Nat /\ Interrupts \subseteq 1 .. Len(log)
  BY <1>a, <1>2, Stack, LogFinite
<1> HIDE DEF n
<1>c. \A k \in 1 .. n - 1 : k \in 1 .. n
  BY <1>2
<1>3. Unstored' = Unstored
  BY <1>1, <1>2 DEF Unstored
<1>4. CounterBound' /\ CounterStack'
  <2>1. CounterBound'
    BY <1>1, <1>3 DEF CounterInv, CounterBound
  <2>2. CounterStack'
    BY <1>1, <1>2, <1>c DEF CounterInv, CounterStack
  <2> QED BY <2>1, <2>2
<1>5. at5 \notin {"off", "killed", "done"}
  BY <1>1 DEF CounterInv, CounterFields
<1>6. CounterFields'
  BY <1>1, <1>5 DEF CounterInv, CounterFields
<1>d. \A j, k \in DOMAIN handlers' : "NODEFER" \notin sa_flags =>
         /\ handlers'[j].signal = "SIGINT" /\ handlers'[k].signal = "SIGINT" => j = k
         /\ handlers'[k].at = "store" => handlers'[k].loaded = sigint_count
  BY <1>2, <1>c DEF CounterInv, CounterCount
<1>7. CASE at5 = "closed"
  <2>1. log' = log
    BY <1>1, <1>7
  <2>2. Counter!TypeOK' /\ CounterNumbers'
    BY <1>1, <2>1, LogStays DEF CounterInv, Counter!TypeOK
  <2>3. CounterCount'
    BY <1>1, <1>7, <1>d, <2>1, LogStays DEF CounterInv, CounterCount
  <2> QED BY <1>4, <1>6, <2>2, <2>3 DEF CounterInv
<1>8. CASE at5 # "closed"
  <2>1. PICK m \in {"SIGINT", "SIGQUIT"} : m = handlers[n].signal /\ log' = Append(log, <<m, 0>>)
    BY <1>1, <1>8, <1>b
  <2>2. m \in Counter!SignalKinds \cup {"number"} /\ m # "number"
    BY DEF Counter!SignalKinds
  <2>3. /\ log' \in Seq(LogLines) /\ DOMAIN log' = 1 .. Len(log) + 1
        /\ \A k \in 1 .. Len(log) : log'[k] = log[k]
        /\ Counter!Numbers' = Counter!Numbers
        /\ Interrupts' = IF m = "SIGINT" THEN Interrupts \cup {Len(log) + 1} ELSE Interrupts
    BY <1>a, <2>1, <2>2, LogAdd
  <2>4. Counter!TypeOK'
    BY <1>1, <2>3 DEF CounterInv, Counter!TypeOK, LogLines
  <2>5. CounterNumbers'
    <3>1. Counter!Numbers \subseteq 1 .. Len(log)
      BY <1>a, LogFinite
    <3> QED BY <1>1, <2>3, <3>1 DEF CounterInv, CounterNumbers
  <2>6. CounterCount'
    <3> SUFFICES ASSUME "NODEFER" \notin sa_flags PROVE CounterCount'
      BY <1>1 DEF CounterCount
    <3>1. sigint_count = Cardinality(Interrupts) + Cardinality(Stored)
      BY <1>5, <1>8 DEF CounterInv, CounterCount
    <3>2. Cardinality(Interrupts') + Cardinality(Stored') = Cardinality(Interrupts) + Cardinality(Stored)
      <4>1. CASE m = "SIGINT"
        <5>1. n \in Stored /\ Len(log) + 1 \notin Interrupts
          <6>1. n \in Stored
            BY <1>1, <1>2, <2>1, <4>1 DEF Stored
          <6>2. Len(log) + 1 \notin Interrupts
            BY <1>b
          <6> QED BY <6>1, <6>2
        <5>2. Cardinality(Stored') = Cardinality(Stored) - 1
          BY <1>2, <1>b, <5>1, FS_RemoveElement
        <5>3. Cardinality(Interrupts') = Cardinality(Interrupts) + 1
          BY <1>b, <2>3, <4>1, <5>1, FS_AddElement
        <5> QED BY <1>b, <5>2, <5>3
      <4>2. CASE m = "SIGQUIT"
        <5>1. n \notin Stored
          BY <2>1, <4>2 DEF Stored
        <5>2. Stored' = Stored /\ Interrupts' = Interrupts
          BY <1>2, <2>3, <4>2, <5>1
        <5> QED BY <5>2
      <4> QED BY <4>1, <4>2
    <3>3. at5 \in {"close", "closed", "done"} => Cardinality(Interrupts') >= 3
      <4>1. Interrupts \in SUBSET Interrupts' /\ IsFiniteSet(Interrupts')
        BY <1>b, <2>3, FS_AddElement
      <4>2. Cardinality(Interrupts) <= Cardinality(Interrupts') /\ Cardinality(Interrupts') \in Nat
        BY <4>1, FS_Subset, FS_CardinalityType
      <4>3. at5 \in {"close", "closed", "done"} => Cardinality(Interrupts) >= 3
        BY DEF CounterInv, CounterCount
      <4> QED BY <1>b, <4>2, <4>3
    <3>4. \A k \in DOMAIN log' : Counter!ThirdBy(k)' =>
              /\ \A a, b \in Counter!Numbers' : a > k /\ b > k => a = b
              /\ at5' = "write" => \A a \in Counter!Numbers' : ~(a > k)
      BY <1>1, <2>1, CounterLine
    <3> QED BY <1>1, <1>d, <3>1, <3>2, <3>3, <3>4 DEF CounterCount
  <2> QED BY <1>4, <1>6, <2>4, <2>5, <2>6 DEF CounterInv
<1> QED BY <1>7, <1>8

\* A number is written: it is the next one, and the last if three SIGINT are before it.
LEMMA CounterNumber ==
    ASSUME CounterInv, at5 = "write", handlers = <<>>,
           log' = Append(log, <<"number", number>>), at5' = "sleep", number' = number + 1,
           UNCHANGED <<sa_flags, sigint_count, handlers, caught, pending, sent>>
    PROVE  CounterInv'
<1>a. log \in Seq(LogLines) /\ number \in Nat /\ "number" \in Counter!SignalKinds \cup {"number"}
  BY Known
<1>b. /\ Len(log) \in Nat /\ DOMAIN log = 1 .. Len(log)
      /\ IsFiniteSet(Counter!Numbers) /\ Cardinality(Counter!Numbers) \in Nat
      /\ Counter!Numbers \subseteq 1 .. Len(log)
  BY <1>a, LogFinite
<1>1. /\ log' \in Seq(LogLines) /\ DOMAIN log' = 1 .. Len(log) + 1
      /\ log'[Len(log) + 1] = <<"number", number>>
      /\ \A k \in 1 .. Len(log) : log'[k] = log[k]
      /\ Counter!Numbers' = Counter!Numbers \cup {Len(log) + 1}
      /\ Interrupts' = Interrupts
      /\ \A k \in 1 .. Len(log) : Counter!ThirdBy(k)' <=> Counter!ThirdBy(k)
  BY <1>a, LogAdd
<1>2. Counter!TypeOK'
  BY <1>1, <1>a DEF CounterInv, Counter!TypeOK, LogLines
<1>3. CounterFields' /\ CounterBound' /\ CounterStack' /\ Stored' = Stored
  BY StackStays DEF CounterInv, CounterFields, CounterBound
<1>4. CounterNumbers'
  <2>1. Len(log) + 1 \notin Counter!Numbers
    BY <1>b
  <2>2. Cardinality(Counter!Numbers') = Cardinality(Counter!Numbers) + 1
    BY <1>1, <1>b, <2>1, FS_AddElement
  <2>3. number = Cardinality(Counter!Numbers) + 1
    BY DEF CounterInv, CounterNumbers
  <2>4. ASSUME NEW k \in Counter!Numbers
        PROVE  log'[k][2] = Cardinality({j \in Counter!Numbers' : j <= k})
    <3>1. k \in 1 .. Len(log)
      BY <1>b
    <3>2. {j \in Counter!Numbers' : j <= k} = {j \in Counter!Numbers : j <= k}
      BY <1>1, <1>b, <3>1
    <3> QED BY <1>1, <3>1, <3>2 DEF CounterInv, CounterNumbers
  <2>5. {j \in Counter!Numbers' : j <= Len(log) + 1} = Counter!Numbers'
    BY <1>1, <1>b
  <2>6. log'[Len(log) + 1][2] = number
    BY <1>1
  <2>7. number' = Cardinality(Counter!Numbers') + 1
    BY <2>2, <2>3
  <2>8. \A k \in Counter!Numbers' : k \in Counter!Numbers \/ k = Len(log) + 1
    BY <1>1
  <2> QED BY <2>2, <2>3, <2>4, <2>5, <2>6, <2>7, <2>8 DEF CounterNumbers
<1>5. CounterCount'
  <2> SUFFICES ASSUME "NODEFER" \notin sa_flags PROVE CounterCount'
    BY DEF CounterCount
  <2>1. \A k \in 1 .. Len(log) : Counter!ThirdBy(k) => \A a \in Counter!Numbers : ~(a > k)
    BY <1>b DEF CounterInv, CounterCount
  <2>2. \A k \in 1 .. Len(log) + 1 : k \in 1 .. Len(log) \/ k = Len(log) + 1
    BY <1>b
  <2>3. \A a \in Counter!Numbers' : ~(a > Len(log) + 1)
    BY <1>1, <1>b
  <2>4. \A k \in DOMAIN log' : Counter!ThirdBy(k)' =>
           \A a, b \in Counter!Numbers' : a > k /\ b > k => a = b
    BY <1>1, <1>b, <2>1, <2>2, <2>3
  <2> QED BY <1>1, <1>3, <2>4 DEF CounterInv, CounterCount
<1> QED BY <1>2, <1>3, <1>4, <1>5 DEF CounterInv

LEMMA CounterMain == ASSUME CounterInv, Counter!Main PROVE CounterInv'
<1>1. /\ handlers = <<>> /\ UNCHANGED <<sa_flags, sigint_count, handlers, caught, pending, sent>>
      /\ at5 \notin {"off", "done", "killed"}
  BY DEF Counter!Main, Counter!Over
<1>a. /\ Stored = {} /\ Cardinality({}) = 0 /\ DOMAIN handlers = {}
  BY <1>1, FS_EmptySet DEF Stored
<1>b. /\ log \in Seq(LogLines) /\ Cardinality(Interrupts) \in Nat /\ DOMAIN log = 1 .. Len(log)
      /\ \A k \in 1 .. Len(log) : Counter!ThirdBy(k) => Cardinality(Interrupts) >= 3
  BY Known, LogFinite, ThreePlaces
<1>c. "NODEFER" \notin sa_flags /\ at5 # "closed" => sigint_count = Cardinality(Interrupts)
  BY <1>1, <1>a, <1>b DEF CounterInv, CounterCount
<1>2. CASE at5 = "write"
  <2>1. at5' = "sleep" /\ log' = Append(log, <<"number", number>>) /\ number' = number + 1
    BY <1>2 DEF Counter!Main, Counter!Written
  <2> QED BY <1>1, <1>2, <2>1, CounterNumber
<1>3. CASE at5 # "write"
  <2>1. /\ log' = log /\ number' = number
        /\ \/ at5 = "check" /\ sigint_count >= 3 /\ at5' = "close"
           \/ at5 = "check" /\ ~(sigint_count >= 3) /\ at5' = "write"
           \/ at5 = "sleep" /\ at5' = "check"
           \/ at5 = "close" /\ at5' = "closed"
           \/ at5 = "closed" /\ at5' = "done"
    BY <1>3 DEF Counter!Main, Counter!Enough
  <2>2. Counter!TypeOK'
    BY <1>1, <2>1 DEF CounterInv, Counter!TypeOK
  <2>3. /\ CounterFields' /\ CounterBound' /\ CounterStack' /\ CounterNumbers'
        /\ Stored' = Stored /\ Interrupts' = Interrupts
    BY <1>1, <2>1, StackStays, LogStays DEF CounterInv, CounterFields, CounterBound
  <2>4. CounterCount'
    <3> SUFFICES ASSUME "NODEFER" \notin sa_flags PROVE CounterCount'
      BY <1>1 DEF CounterCount
    <3>1. at5' \in {"close", "closed", "done"} => Cardinality(Interrupts) >= 3
      <4>1. at5 \in {"close", "closed"} => Cardinality(Interrupts) >= 3
        BY DEF CounterInv, CounterCount
      <4> QED BY <1>c, <2>1, <4>1
    <3>2. at5' = "write" => \A k \in 1 .. Len(log) : ~ Counter!ThirdBy(k)
      BY <1>b, <1>c, <2>1
    <3>3. at5' \notin {"closed", "done", "killed"} => sigint_count = Cardinality(Interrupts) + 0
      BY <1>b, <1>c, <2>1
    <3>4. \A k \in DOMAIN log : Counter!ThirdBy(k) =>
             /\ \A a, b \in Counter!Numbers : a > k /\ b > k => a = b
             /\ at5' = "write" => \A a \in Counter!Numbers : ~(a > k)
      BY <1>b, <3>2 DEF CounterInv, CounterCount
    <3> QED BY <1>1, <1>a, <2>1, <2>3, <3>1, <3>3, <3>4, LogStays DEF CounterCount
  <2> QED BY <2>2, <2>3, <2>4 DEF CounterInv
<1> QED BY <1>2, <1>3

LEMMA CounterInit == Counter!Init => CounterInv
<1> SUFFICES ASSUME Counter!Init PROVE CounterInv
  OBVIOUS
<1>1. /\ sa_flags = {} /\ at5 = "off" /\ number = 1 /\ sigint_count = 0
      /\ handlers = <<>> /\ caught = {} /\ pending = {} /\ sent = 0 /\ log = <<>>
  BY DEF Counter!Init
<1>2. /\ DOMAIN handlers = {} /\ DOMAIN log = {} /\ handlers \in Seq(Frames)
      /\ log \in Seq((Counter!SignalKinds \cup {"number"}) \X Nat)
      /\ Cardinality({}) = 0 /\ MaxSignals \in Nat
  BY <1>1, FS_EmptySet, CounterConstants
<1>3. Unstored = {} /\ Stored = {} /\ Interrupts = {} /\ Counter!Numbers = {}
  BY <1>2 DEF Unstored, Stored, Interrupts, Counter!Numbers
<1>4. Counter!TypeOK /\ CounterFields
  BY <1>1, <1>2 DEF Counter!TypeOK, CounterFields
<1>5. CounterStack /\ CounterBound /\ CounterNumbers
  BY <1>1, <1>2, <1>3 DEF CounterStack, CounterBound, CounterNumbers
<1>6. CounterCount
  BY <1>1, <1>2, <1>3 DEF CounterCount
<1> QED BY <1>4, <1>5, <1>6 DEF CounterInv

LEMMA CounterStep == CounterInv /\ [Counter!Next]_Counter!vars => CounterInv'
<1> SUFFICES ASSUME CounterInv, [Counter!Next]_Counter!vars PROVE CounterInv'
  OBVIOUS
<1>1. CASE Counter!Next
  BY <1>1, CounterStart, CounterSend, CounterDeliver, CounterLoad, CounterStore, CounterWrite,
     CounterMain DEF Counter!Next
<1>2. CASE UNCHANGED Counter!vars
  <2>1. UNCHANGED <<sa_flags, at5, number, sigint_count, handlers, caught, pending, sent, log>>
    BY <1>2 DEF Counter!vars
  <2> QED BY <2>1, LogStays, StackStays
          DEF CounterInv, Counter!TypeOK, CounterFields, CounterBound, CounterCount
<1> QED BY <1>1, <1>2

LEMMA CounterPart == ProcSpec => Counter!Init /\ [][Counter!Next]_Counter!vars
<1>1. ProcInit => Counter!Init
  BY DEF ProcInit
<1>2. [ProcNext]_Vars => [Counter!Next]_Counter!vars
  BY DEF ProcNext, Vars, CounterVars, Counter!vars
<1> QED BY <1>1, <1>2, PTL DEF ProcSpec

\* module3/05: the stack of handlers, the count and the file, in every reachable state.
THEOREM CounterInductive == ProcSpec => []CounterInv
BY CounterInit, CounterStep, CounterPart, PTL

\* module3/05: the numbers of the file are 1, 2, 3 ..., and unless handlers nest, at most one
\* follows the third SIGINT and the program ends after it only.
THEOREM LogHolds == ProcSpec => []Counter!LogRight
<1>1. CounterInv => Counter!LogRight
  <2> SUFFICES ASSUME CounterInv PROVE Counter!LogRight
    OBVIOUS
  <2>1. \A k \in Counter!Numbers : log[k][2] = Counter!Cardinality({j \in Counter!Numbers : j <= k})
    BY CounterSizes DEF CounterInv, CounterNumbers
  <2>2. "NODEFER" \notin sa_flags /\ at5 = "done" => Counter!ThirdBy(Len(log))
    BY Known, ThreePlaces DEF CounterInv, CounterCount
  <2> QED BY <2>1, <2>2 DEF Counter!LogRight, CounterInv, CounterCount
<1> QED BY <1>1, CounterInductive, PTL

-----------------------------------------------------------------------------
(* ForkOutput: the lines of the two processes. *)

OutputLines == {"argument", "Main PID", "Child returned"} \X Nat
Half == argc \div 2
HeaderLine == <<"Main PID", 0>>
LastLine == <<"Child returned", 0>>

\* What the parent's output is when it ends, if the child writes nothing more.
Mine == shown \o buffer["parent"]

\* A line with an argument from lo on, and that those up to before hi are in s in order.
Late(line, lo) == line[1] = "argument" /\ line[2] >= lo
InOrder(s, lo, hi) ==
    /\ \A m, n \in 1 .. Len(s) : m < n /\ Late(s[m], lo) /\ Late(s[n], lo) => s[m][2] < s[n][2]
    /\ \A n \in 1 .. Len(s) : Late(s[n], lo) => s[n][2] < hi
    /\ \A k \in lo .. hi - 1 : \E n \in 1 .. Len(s) : s[n] = <<"argument", k>>

\* The header is the first line there is, or the first that each process will write.
HeaderFirst ==
    IF shown = <<>>
    THEN \A p \in {"parent", "child"} : buffer[p] # <<>> /\ buffer[p][1] = HeaderLine
    ELSE shown[1] = HeaderLine

\* On a terminal no line waits, and what was printed is known.
AtOnce ==
    terminal =>
        /\ buffer["parent"] = <<>> /\ buffer["child"] = <<>>
        /\ Len(shown) = 1 + (i["parent"] - Half) + i["child"]
                        + (IF at1["parent"] = "loop" THEN 0 ELSE 1)
        /\ \A k \in 0 .. i["child"] - 1 : \E n \in 1 .. Len(shown) : shown[n] = <<"argument", k>>

ChildLines == \A n \in 1 .. Len(buffer["child"]) : ~ Late(buffer["child"][n], Half)

\* From the fork on.
Halving ==
    /\ argc > 1 /\ i["parent"] \in Half .. argc /\ i["child"] \in 0 .. Half
    /\ at1["child"] = "loop" \/ (at1["child"] = "done" /\ i["child"] = Half)
    /\ at1["parent"] # "loop" => at1["child"] = "done" /\ i["parent"] = argc

Printing ==
    /\ Halving /\ ChildLines /\ HeaderFirst /\ AtOnce
    /\ InOrder(Mine, Half, i["parent"])
    /\ at1["parent"] # "loop" => Len(Mine) > 0 /\ Mine[Len(Mine)] = LastLine
    /\ at1["parent"] = "done" => buffer["parent"] = <<>>

HalvesType ==
    /\ argc \in 1 .. MaxArgs /\ terminal \in BOOLEAN
    /\ at1 \in [{"parent", "child"} ->
                   {"off", "none", "start", "fork", "loop", "exit", "done", "failed"}]
    /\ i \in [{"parent", "child"} -> 0 .. MaxArgs]
    /\ buffer \in [{"parent", "child"} -> Seq(OutputLines)] /\ shown \in Seq(OutputLines)
    /\ \A p \in {"parent", "child"} : Len(buffer[p]) <= BufLines

\* Up to the fork.
Alone ==
    /\ at1["parent"] # "none"
    /\ at1["parent"] \in {"off", "start"} =>
          shown = <<>> /\ buffer["parent"] = <<>> /\ buffer["child"] = <<>>
    /\ at1["parent"] \in {"off", "start", "fork", "failed"} => at1["child"] = "none"
    /\ at1["parent"] = "fork" =>
          /\ argc > 1 /\ buffer["child"] = <<>>
          /\ shown = IF terminal THEN <<HeaderLine>> ELSE <<>>
          /\ buffer["parent"] = IF terminal THEN <<>> ELSE <<HeaderLine>>
    /\ at1["parent"] = "done" /\ argc <= 1 => at1["child"] = "none"

HalvesInv ==
    /\ HalvesType /\ Alone
    /\ at1["parent"] \in {"loop", "exit"} \/ (at1["parent"] = "done" /\ argc > 1) => Printing

LEMMA HalvesConstants == MaxArgs \in Nat \ {0} /\ BufLines \in Nat \ {0}
<1>1. Halves!ConstantAssumption
  BY InstanceAssumption
<1> QED BY <1>1 DEF Halves!ConstantAssumption

LEMMA HalfBounds == ASSUME argc \in Nat \ {0}
                    PROVE  Half \in Nat /\ Half < argc /\ (argc > 1 => Half > 0)
BY DEF Half

\* The next argument of the parent comes at the end.
LEMMA OrderAppend ==
    ASSUME NEW s \in Seq(OutputLines), NEW lo \in Nat, NEW hi \in Nat, lo <= hi, InOrder(s, lo, hi)
    PROVE  InOrder(Append(s, <<"argument", hi>>), lo, hi + 1)
<1> DEFINE t == Append(s, <<"argument", hi>>)
<1>1. /\ Len(s) \in Nat /\ Len(t) = Len(s) + 1
      /\ \A n \in 1 .. Len(s) : t[n] = s[n]
      /\ t[Len(s) + 1] = <<"argument", hi>>
  OBVIOUS
<1>2. \A n \in 1 .. Len(s) : s[n] \in OutputLines
  OBVIOUS
<1>3. \A n \in 1 .. Len(s) : s[n][2] \in Nat
  BY <1>2 DEF OutputLines
<1>4. /\ <<"argument", hi>>[2] = hi
      /\ \A n \in 1 .. Len(t) : n \in 1 .. Len(s) \/ n = Len(s) + 1
  BY <1>1
<1> HIDE DEF t
<1>5. \A m, n \in 1 .. Len(t) : m < n /\ Late(t[m], lo) /\ Late(t[n], lo) => t[m][2] < t[n][2]
  <2> SUFFICES ASSUME NEW m \in 1 .. Len(t), NEW n \in 1 .. Len(t), m < n, Late(t[m], lo), Late(t[n], lo)
               PROVE  t[m][2] < t[n][2]
    OBVIOUS
  <2>1. m \in 1 .. Len(s)
    BY <1>1
  <2> QED BY <2>1, <1>1, <1>4 DEF InOrder
<1>6. \A n \in 1 .. Len(t) : Late(t[n], lo) => t[n][2] < hi + 1
  <2> SUFFICES ASSUME NEW n \in 1 .. Len(t), Late(t[n], lo) PROVE t[n][2] < hi + 1
    OBVIOUS
  <2>1. CASE n \in 1 .. Len(s)
    BY <2>1, <1>1, <1>3 DEF InOrder
  <2>2. CASE n = Len(s) + 1
    BY <2>2, <1>1, <1>4
  <2> QED BY <2>1, <2>2, <1>4
<1>7. \A k \in lo .. hi : \E n \in 1 .. Len(t) : t[n] = <<"argument", k>>
  <2> SUFFICES ASSUME NEW k \in lo .. hi PROVE \E n \in 1 .. Len(t) : t[n] = <<"argument", k>>
    OBVIOUS
  <2>1. CASE k = hi
    BY <2>1, <1>1
  <2>2. CASE k # hi
    <3>1. k \in lo .. hi - 1
      BY <2>2
    <3>2. PICK n \in 1 .. Len(s) : s[n] = <<"argument", k>>
      BY <3>1 DEF InOrder
    <3>3. n \in 1 .. Len(t) /\ t[n] = s[n]
      BY <1>1
    <3> QED BY <3>2, <3>3
  <2> QED BY <2>1, <2>2
<1>8. lo .. (hi + 1) - 1 = lo .. hi
  OBVIOUS
<1>9. InOrder(t, lo, hi + 1)
  BY <1>5, <1>6, <1>7, <1>8 DEF InOrder
<1> QED BY <1>9 DEF t

\* Lines that are not the parent's arguments change nothing, wherever they come.
LEMMA OrderInsert ==
    ASSUME NEW a \in Seq(OutputLines), NEW b \in Seq(OutputLines), NEW c \in Seq(OutputLines),
           NEW lo \in Nat, NEW hi \in Nat, InOrder(a \o c, lo, hi),
           \A n \in 1 .. Len(b) : ~ Late(b[n], lo)
    PROVE  InOrder((a \o b) \o c, lo, hi)
<1> DEFINE s == a \o c
           t == (a \o b) \o c
           back(n) == IF n <= Len(a) THEN n ELSE n - Len(b)
           to(n) == IF n <= Len(a) THEN n ELSE n + Len(b)
<1>1. /\ Len(a) \in Nat /\ Len(b) \in Nat /\ Len(c) \in Nat
      /\ a \o b \in Seq(OutputLines) /\ Len(a \o b) = Len(a) + Len(b)
      /\ \A n \in 1 .. Len(a) + Len(b) :
            (a \o b)[n] = IF n <= Len(a) THEN a[n] ELSE b[n - Len(a)]
  OBVIOUS
<1>2. /\ Len(s) = Len(a) + Len(c)
      /\ \A n \in 1 .. Len(a) + Len(c) : s[n] = IF n <= Len(a) THEN a[n] ELSE c[n - Len(a)]
  BY <1>1
<1>3. /\ Len(t) = Len(a) + Len(b) + Len(c)
      /\ \A n \in 1 .. Len(a) + Len(b) + Len(c) :
            t[n] = IF n <= Len(a) + Len(b) THEN (a \o b)[n] ELSE c[n - (Len(a) + Len(b))]
  BY <1>1
<1> HIDE DEF s, t
<1>4. \A n \in 1 .. Len(t) : Late(t[n], lo) => n <= Len(a) \/ n > Len(a) + Len(b)
  <2> SUFFICES ASSUME NEW n \in 1 .. Len(t), Late(t[n], lo), ~(n <= Len(a)), ~(n > Len(a) + Len(b))
               PROVE  FALSE
    OBVIOUS
  <2>1. n - Len(a) \in 1 .. Len(b) /\ t[n] = b[n - Len(a)]
    BY <1>1, <1>3
  <2> QED BY <2>1
<1>5. \A n \in 1 .. Len(t) : Late(t[n], lo) => back(n) \in 1 .. Len(s) /\ t[n] = s[back(n)]
  <2> SUFFICES ASSUME NEW n \in 1 .. Len(t), Late(t[n], lo)
               PROVE  back(n) \in 1 .. Len(s) /\ t[n] = s[back(n)]
    OBVIOUS
  <2>1. CASE n <= Len(a)
    <3>1. n \in 1 .. Len(a) + Len(b) + Len(c) /\ n <= Len(a) + Len(b) /\ n \in 1 .. Len(a) + Len(c)
      BY <2>1, <1>1, <1>3
    <3>2. t[n] = (a \o b)[n]
      BY ONLY <3>1, <1>3
    <3>3. (a \o b)[n] = a[n] /\ s[n] = a[n]
      BY <2>1, <3>1, <1>1, <1>2
    <3> QED BY <2>1, <3>1, <3>2, <3>3, <1>2
  <2>2. CASE n > Len(a) + Len(b)
    <3>1. /\ back(n) = n - Len(b) /\ back(n) \in 1 .. Len(a) + Len(c) /\ ~(back(n) <= Len(a))
          /\ back(n) - Len(a) = n - (Len(a) + Len(b))
      BY <2>2, <1>1, <1>3
    <3>2. s[back(n)] = c[back(n) - Len(a)]
      BY <3>1, <1>2
    <3>3. n \in 1 .. Len(a) + Len(b) + Len(c) /\ ~(n <= Len(a) + Len(b))
      BY <2>2, <1>1, <1>3
    <3>4. t[n] = c[n - (Len(a) + Len(b))]
      BY ONLY <3>3, <1>3
    <3> QED BY <3>1, <3>2, <3>4, <1>2
  <2> QED BY <2>1, <2>2, <1>4
<1>6. \A n \in 1 .. Len(s) : to(n) \in 1 .. Len(t) /\ t[to(n)] = s[n]
  <2> SUFFICES ASSUME NEW n \in 1 .. Len(s) PROVE to(n) \in 1 .. Len(t) /\ t[to(n)] = s[n]
    OBVIOUS
  <2>1. CASE n <= Len(a)
    <3>1. to(n) = n /\ n \in 1 .. Len(a) + Len(b) + Len(c) /\ n <= Len(a) + Len(b)
      BY <2>1, <1>1, <1>2
    <3>2. t[n] = (a \o b)[n]
      BY ONLY <3>1, <1>3
    <3>3. (a \o b)[n] = a[n] /\ s[n] = a[n]
      BY <2>1, <3>1, <1>1, <1>2
    <3> QED BY <3>1, <3>2, <3>3, <1>3
  <2>2. CASE n > Len(a)
    <3>1. /\ to(n) = n + Len(b) /\ to(n) \in 1 .. Len(t) /\ ~(to(n) <= Len(a) + Len(b))
          /\ to(n) - (Len(a) + Len(b)) = n - Len(a)
      BY <2>2, <1>1, <1>2, <1>3
    <3>2. s[n] = c[n - Len(a)]
      BY <2>2, <1>1, <1>2
    <3>3. to(n) \in 1 .. Len(a) + Len(b) + Len(c)
      BY <3>1, <1>3
    <3>4. t[to(n)] = c[to(n) - (Len(a) + Len(b))]
      BY ONLY <3>1, <3>3, <1>3
    <3> QED BY <3>1, <3>2, <3>4
  <2> QED BY <2>1, <2>2, <1>1, <1>2
<1>7. \A m, n \in 1 .. Len(t) : m < n /\ Late(t[m], lo) /\ Late(t[n], lo) => t[m][2] < t[n][2]
  <2> SUFFICES ASSUME NEW m \in 1 .. Len(t), NEW n \in 1 .. Len(t), m < n, Late(t[m], lo), Late(t[n], lo)
               PROVE  t[m][2] < t[n][2]
    OBVIOUS
  <2>1. back(m) < back(n)
    BY <1>1, <1>3, <1>4
  <2>2. /\ back(m) \in 1 .. Len(s) /\ t[m] = s[back(m)]
        /\ back(n) \in 1 .. Len(s) /\ t[n] = s[back(n)]
    BY <1>5
  <2>3. \A x, y \in 1 .. Len(s) : x < y /\ Late(s[x], lo) /\ Late(s[y], lo) => s[x][2] < s[y][2]
    BY DEF InOrder, s
  <2> HIDE DEF back
  <2> QED BY <2>1, <2>2, <2>3
<1>8. \A n \in 1 .. Len(t) : Late(t[n], lo) => t[n][2] < hi
  <2>1. \A n \in 1 .. Len(s) : Late(s[n], lo) => s[n][2] < hi
    BY DEF InOrder, s
  <2> HIDE DEF back
  <2> QED BY <2>1, <1>5
<1>9. \A k \in lo .. hi - 1 : \E n \in 1 .. Len(t) : t[n] = <<"argument", k>>
  <2>1. \A k \in lo .. hi - 1 : \E n \in 1 .. Len(s) : s[n] = <<"argument", k>>
    BY DEF InOrder, s
  <2> HIDE DEF to
  <2> QED BY <2>1, <1>6
<1>10. InOrder(t, lo, hi)
  BY <1>7, <1>8, <1>9 DEF InOrder
<1> QED BY <1>10 DEF t

\* What PutLine does to the buffer and what was printed, in its three cases.
LEMMA PutCases ==
    ASSUME HalvesType, NEW p \in {"parent", "child"}, NEW line \in OutputLines, Halves!PutLine(p, line)
    PROVE  \/ terminal /\ shown' = Append(shown, line) /\ buffer' = buffer
           \/ /\ ~ terminal /\ Len(buffer[p]) < BufLines /\ shown' = shown
              /\ buffer' = [buffer EXCEPT ![p] = Append(buffer[p], line)]
           \/ /\ ~ terminal /\ Len(buffer[p]) > 0 /\ shown' = shown \o buffer[p]
              /\ buffer' = [buffer EXCEPT ![p] = <<line>>]
<1>1. buffer[p] \in Seq(OutputLines) /\ Len(buffer[p]) \in Nat /\ BufLines \in Nat \ {0}
  BY HalvesConstants DEF HalvesType
<1> QED BY <1>1 DEF Halves!PutLine

LEMMA PutTypes ==
    ASSUME HalvesType, NEW p \in {"parent", "child"}, NEW line \in OutputLines, Halves!PutLine(p, line)
    PROVE  /\ shown' \in Seq(OutputLines) /\ buffer' \in [{"parent", "child"} -> Seq(OutputLines)]
           /\ \A q \in {"parent", "child"} : Len(buffer'[q]) <= BufLines
           /\ \A q \in {"parent", "child"} : q # p => buffer'[q] = buffer[q]
<1>1. /\ buffer \in [{"parent", "child"} -> Seq(OutputLines)] /\ shown \in Seq(OutputLines)
      /\ \A q \in {"parent", "child"} : Len(buffer[q]) <= BufLines
      /\ BufLines \in Nat \ {0}
  BY HalvesConstants DEF HalvesType
<1>2. buffer[p] \in Seq(OutputLines)
  BY <1>1
<1>3. /\ Append(buffer[p], line) \in Seq(OutputLines) /\ <<line>> \in Seq(OutputLines)
      /\ Append(shown, line) \in Seq(OutputLines) /\ shown \o buffer[p] \in Seq(OutputLines)
      /\ Len(Append(buffer[p], line)) = Len(buffer[p]) + 1 /\ Len(<<line>>) = 1
      /\ Len(buffer[p]) \in Nat
  BY <1>1, <1>2
<1>4. CASE shown' = Append(shown, line) /\ buffer' = buffer
  BY <1>4, <1>1, <1>3
<1>5. CASE /\ Len(buffer[p]) < BufLines /\ shown' = shown
           /\ buffer' = [buffer EXCEPT ![p] = Append(buffer[p], line)]
  <2>1. \A q \in {"parent", "child"} :
           buffer'[q] = IF q = p THEN Append(buffer[p], line) ELSE buffer[q]
    BY <1>5, <1>1
  <2> QED BY <2>1, <1>1, <1>3, <1>5
<1>6. CASE shown' = shown \o buffer[p] /\ buffer' = [buffer EXCEPT ![p] = <<line>>]
  <2>1. \A q \in {"parent", "child"} : buffer'[q] = IF q = p THEN <<line>> ELSE buffer[q]
    BY <1>6, <1>1
  <2> QED BY <2>1, <1>1, <1>3, <1>6
<1> QED BY <1>4, <1>5, <1>6, PutCases

LEMMA PutHeader ==
    ASSUME HalvesType, NEW p \in {"parent", "child"}, NEW line \in OutputLines, Halves!PutLine(p, line),
           terminal => buffer[p] = <<>>, HeaderFirst
    PROVE  HeaderFirst'
<1>1. /\ buffer \in [{"parent", "child"} -> Seq(OutputLines)] /\ shown \in Seq(OutputLines)
      /\ buffer[p] \in Seq(OutputLines)
  BY DEF HalvesType
<1>2. CASE terminal /\ shown' = Append(shown, line) /\ buffer' = buffer
  <2>1. shown # <<>> /\ shown[1] = HeaderLine
    BY <1>2 DEF HeaderFirst
  <2>2. Append(shown, line) # <<>> /\ Append(shown, line)[1] = shown[1]
    BY <1>1, <2>1
  <2> QED BY <2>1, <2>2, <1>2 DEF HeaderFirst, HeaderLine
<1>3. CASE /\ ~ terminal /\ Len(buffer[p]) < BufLines /\ shown' = shown
           /\ buffer' = [buffer EXCEPT ![p] = Append(buffer[p], line)]
  <2>1. CASE shown = <<>>
    <3>1. buffer[p] # <<>> /\ buffer[p][1] = HeaderLine
      BY <2>1 DEF HeaderFirst
    <3>2. Append(buffer[p], line) # <<>> /\ Append(buffer[p], line)[1] = HeaderLine
      BY <3>1, <1>1
    <3>3. \A q \in {"parent", "child"} :
             buffer'[q] = IF q = p THEN Append(buffer[p], line) ELSE buffer[q]
      BY <1>3, <1>1
    <3>4. \A q \in {"parent", "child"} : buffer[q] # <<>> /\ buffer[q][1] = HeaderLine
      BY <2>1 DEF HeaderFirst
    <3> QED BY <2>1, <3>2, <3>3, <3>4, <1>3 DEF HeaderFirst, HeaderLine
  <2>2. CASE shown # <<>>
    BY <2>2, <1>3 DEF HeaderFirst, HeaderLine
  <2> QED BY <2>1, <2>2
<1>4. CASE ~ terminal /\ Len(buffer[p]) > 0 /\ shown' = shown \o buffer[p]
  <2>1. CASE shown = <<>>
    <3>1. buffer[p][1] = HeaderLine
      BY <2>1 DEF HeaderFirst
    <3>2. shown' = buffer[p] /\ shown' # <<>>
      BY <2>1, <1>1, <1>4
    <3> QED BY <3>1, <3>2 DEF HeaderFirst, HeaderLine
  <2>2. CASE shown # <<>>
    <3>1. shown' # <<>> /\ shown'[1] = shown[1]
      BY <2>2, <1>1, <1>4
    <3> QED BY <3>1, <2>2 DEF HeaderFirst, HeaderLine
  <2> QED BY <2>1, <2>2
<1> QED BY <1>2, <1>3, <1>4, PutCases

LEMMA ParentPuts ==
    ASSUME HalvesType, NEW line \in OutputLines, Halves!PutLine("parent", line),
           terminal => buffer["parent"] = <<>>
    PROVE  Mine' = Append(Mine, line)
<1>1. /\ buffer \in [{"parent", "child"} -> Seq(OutputLines)] /\ shown \in Seq(OutputLines)
      /\ buffer["parent"] \in Seq(OutputLines)
  BY DEF HalvesType
<1>2. CASE terminal /\ shown' = Append(shown, line) /\ buffer' = buffer
  <2>1. buffer["parent"] = <<>> /\ buffer'["parent"] = <<>>
    BY <1>2
  <2>2. Append(shown, line) \o <<>> = Append(shown \o <<>>, line)
    BY <1>1
  <2> QED BY <2>1, <2>2, <1>2 DEF Mine
<1>3. CASE shown' = shown /\ buffer' = [buffer EXCEPT !["parent"] = Append(buffer["parent"], line)]
  <2>1. buffer'["parent"] = Append(buffer["parent"], line)
    BY <1>3, <1>1
  <2>2. shown \o Append(buffer["parent"], line) = Append(shown \o buffer["parent"], line)
    BY <1>1
  <2> QED BY <2>1, <2>2, <1>3 DEF Mine
<1>4. CASE shown' = shown \o buffer["parent"] /\ buffer' = [buffer EXCEPT !["parent"] = <<line>>]
  <2>1. buffer'["parent"] = <<line>>
    BY <1>4, <1>1
  <2>2. (shown \o buffer["parent"]) \o <<line>> = Append(shown \o buffer["parent"], line)
    BY <1>1
  <2> QED BY <2>1, <2>2, <1>4 DEF Mine
<1> QED BY <1>2, <1>3, <1>4, PutCases

LEMMA ChildPuts ==
    ASSUME HalvesType, NEW line \in OutputLines, Halves!PutLine("child", line),
           ~ Late(line, Half), ChildLines
    PROVE  /\ \E b \in Seq(OutputLines) :
                 /\ Mine' = (shown \o b) \o buffer["parent"]
                 /\ \A n \in 1 .. Len(b) : ~ Late(b[n], Half)
           /\ \A n \in 1 .. Len(buffer'["child"]) : ~ Late(buffer'["child"][n], Half)
<1>1. /\ buffer \in [{"parent", "child"} -> Seq(OutputLines)] /\ shown \in Seq(OutputLines)
      /\ buffer["parent"] \in Seq(OutputLines) /\ buffer["child"] \in Seq(OutputLines)
  BY DEF HalvesType
<1>2. /\ <<line>> \in Seq(OutputLines) /\ <<>> \in Seq(OutputLines)
      /\ \A n \in 1 .. Len(<<line>>) : <<line>>[n] = line
      /\ 1 .. Len(<<>>) = {}
  OBVIOUS
<1>3. CASE shown' = Append(shown, line) /\ buffer' = buffer
  <2>1. Mine' = (shown \o <<line>>) \o buffer["parent"]
    BY <1>1, <1>3 DEF Mine
  <2>2. \A n \in 1 .. Len(<<line>>) : ~ Late(<<line>>[n], Half)
    BY <1>2
  <2>3. \A n \in 1 .. Len(buffer'["child"]) : ~ Late(buffer'["child"][n], Half)
    BY <1>3 DEF ChildLines
  <2> QED BY <2>1, <2>2, <2>3, <1>2
<1>4. CASE shown' = shown /\ buffer' = [buffer EXCEPT !["child"] = Append(buffer["child"], line)]
  <2>1. buffer'["parent"] = buffer["parent"] /\ buffer'["child"] = Append(buffer["child"], line)
    BY <1>4, <1>1
  <2>2. Mine' = (shown \o <<>>) \o buffer["parent"]
    BY <2>1, <1>1, <1>4 DEF Mine
  <2>3. \A n \in 1 .. Len(buffer'["child"]) :
           buffer'["child"][n] = line \/ (n \in 1 .. Len(buffer["child"])
                                          /\ buffer'["child"][n] = buffer["child"][n])
    BY <2>1, <1>1
  <2>4. \A n \in 1 .. Len(buffer'["child"]) : ~ Late(buffer'["child"][n], Half)
    BY <2>3 DEF ChildLines
  <2> QED BY <2>2, <2>4, <1>2
<1>5. CASE shown' = shown \o buffer["child"] /\ buffer' = [buffer EXCEPT !["child"] = <<line>>]
  <2>1. buffer'["parent"] = buffer["parent"] /\ buffer'["child"] = <<line>>
    BY <1>5, <1>1
  <2>2. Mine' = (shown \o buffer["child"]) \o buffer["parent"]
    BY <2>1, <1>5 DEF Mine
  <2>3. \A n \in 1 .. Len(buffer'["child"]) : ~ Late(buffer'["child"][n], Half)
    BY <2>1, <1>2
  <2> QED BY <2>2, <2>3, <1>1 DEF ChildLines
<1> QED BY <1>3, <1>4, <1>5, PutCases

LEMMA HalvesInit == Halves!Init => HalvesInv
<1> SUFFICES ASSUME Halves!Init PROVE HalvesInv
  OBVIOUS
<1>1. /\ argc = 1 /\ terminal = TRUE /\ shown = <<>>
      /\ at1 = [p \in {"parent", "child"} |-> IF p = "parent" THEN "off" ELSE "none"]
      /\ i = [p \in {"parent", "child"} |-> 0] /\ buffer = [p \in {"parent", "child"} |-> <<>>]
  BY DEF Halves!Init, Halves!Process
<1>2. HalvesType
  <2>1. <<>> \in Seq(OutputLines) /\ Len(<<>>) = 0
    OBVIOUS
  <2> QED BY <1>1, <2>1, HalvesConstants DEF HalvesType
<1>3. at1["parent"] = "off" /\ at1["child"] = "none" /\ buffer["parent"] = <<>> /\ buffer["child"] = <<>>
  BY <1>1
<1> QED BY <1>1, <1>2, <1>3 DEF HalvesInv, Alone

\* What goes somewhere goes alone.
LEMMA HalvesGoto ==
    ASSUME HalvesType, NEW p \in {"parent", "child"},
           NEW s \in {"off", "none", "start", "fork", "loop", "exit", "done", "failed"}, Halves!Goto(p, s)
    PROVE  /\ at1' \in [{"parent", "child"} ->
                           {"off", "none", "start", "fork", "loop", "exit", "done", "failed"}]
           /\ at1'[p] = s
           /\ \A q \in {"parent", "child"} : q # p => at1'[q] = at1[q]
BY DEF HalvesType, Halves!Goto

LEMMA HalvesStart == ASSUME HalvesInv, Halves!Start PROVE HalvesInv'
<1>1. /\ at1["parent"] = "off" /\ Halves!Goto("parent", "start")
      /\ argc' \in 1 .. MaxArgs /\ terminal' \in BOOLEAN
      /\ i' = i /\ buffer' = buffer /\ shown' = shown
  BY DEF Halves!Start
<1>2. HalvesType /\ Alone
  BY DEF HalvesInv
<1>3. /\ at1' \in [{"parent", "child"} ->
                      {"off", "none", "start", "fork", "loop", "exit", "done", "failed"}]
      /\ at1'["parent"] = "start" /\ at1'["child"] = at1["child"]
  BY <1>1, <1>2, HalvesGoto
<1>4. HalvesType'
  BY <1>1, <1>2, <1>3 DEF HalvesType
<1>5. Alone'
  BY <1>1, <1>2, <1>3 DEF Alone
<1> QED BY <1>3, <1>4, <1>5 DEF HalvesInv

LEMMA HalvesAnnounce == ASSUME HalvesInv, Halves!Announce PROVE HalvesInv'
<1>1. /\ at1["parent"] = "start" /\ argc' = argc /\ terminal' = terminal /\ i' = i
  BY DEF Halves!Announce
<1>2. HalvesType /\ Alone
  BY DEF HalvesInv
<1>3. /\ shown = <<>> /\ buffer["parent"] = <<>> /\ buffer["child"] = <<>> /\ at1["child"] = "none"
      /\ argc \in Nat
  BY <1>1, <1>2 DEF Alone, HalvesType
<1>4. CASE argc <= 1
  <2>1. Halves!Goto("parent", "done") /\ buffer' = buffer /\ shown' = shown
    BY <1>4 DEF Halves!Announce
  <2>2. /\ at1' \in [{"parent", "child"} ->
                        {"off", "none", "start", "fork", "loop", "exit", "done", "failed"}]
        /\ at1'["parent"] = "done" /\ at1'["child"] = "none"
    BY <2>1, <1>2, <1>3, HalvesGoto
  <2>3. HalvesType'
    BY <1>1, <1>2, <2>1, <2>2 DEF HalvesType
  <2>4. Alone'
    BY <2>2 DEF Alone
  <2> QED BY <1>1, <1>3, <1>4, <2>2, <2>3, <2>4 DEF HalvesInv
<1>5. CASE ~(argc <= 1)
  <2>1. Halves!Goto("parent", "fork") /\ Halves!PutLine("parent", HeaderLine)
    BY <1>5 DEF Halves!Announce, HeaderLine, Halves!Header
  <2>2. /\ at1' \in [{"parent", "child"} ->
                        {"off", "none", "start", "fork", "loop", "exit", "done", "failed"}]
        /\ at1'["parent"] = "fork" /\ at1'["child"] = "none"
    BY <2>1, <1>2, <1>3, HalvesGoto
  <2>3. HeaderLine \in OutputLines
    BY DEF HeaderLine, OutputLines
  <2>4. /\ shown' \in Seq(OutputLines) /\ buffer' \in [{"parent", "child"} -> Seq(OutputLines)]
        /\ \A q \in {"parent", "child"} : Len(buffer'[q]) <= BufLines
        /\ \A q \in {"parent", "child"} : q # "parent" => buffer'[q] = buffer[q]
    BY <2>1, <2>3, <1>2, PutTypes
  <2>5. HalvesType'
    BY <1>1, <1>2, <2>2, <2>4 DEF HalvesType
  <2>6. Append(<<>>, HeaderLine) = <<HeaderLine>> /\ Len(<<>>) = 0
    OBVIOUS
  <2>7. /\ shown' = IF terminal THEN <<HeaderLine>> ELSE <<>>
        /\ buffer'["parent"] = IF terminal THEN <<>> ELSE <<HeaderLine>>
    <3>1. CASE terminal /\ shown' = Append(shown, HeaderLine) /\ buffer' = buffer
      BY <3>1, <1>3, <2>6
    <3>2. CASE /\ ~ terminal /\ shown' = shown
               /\ buffer' = [buffer EXCEPT !["parent"] = Append(buffer["parent"], HeaderLine)]
      <4>1. buffer'["parent"] = Append(buffer["parent"], HeaderLine)
        BY <3>2, <1>2 DEF HalvesType
      <4> QED BY <4>1, <3>2, <1>3, <2>6
    <3>3. ~(Len(buffer["parent"]) > 0)
      BY <1>3, <2>6
    <3> QED BY <3>1, <3>2, <3>3, <2>1, <2>3, <1>2, PutCases
  <2>8. argc > 1
    BY <1>3, <1>5
  <2>9. Alone'
    BY <1>1, <1>3, <2>2, <2>4, <2>7, <2>8 DEF Alone, HeaderLine
  <2> QED BY <2>2, <2>5, <2>9 DEF HalvesInv
<1> QED BY <1>4, <1>5

LEMMA HalvesFork == ASSUME HalvesInv, Halves!Fork PROVE HalvesInv'
<1>1. /\ at1["parent"] = "fork" /\ argc' = argc /\ terminal' = terminal
  BY DEF Halves!Fork
<1>2. HalvesType /\ Alone
  BY DEF HalvesInv
<1>3. /\ argc \in 1 .. MaxArgs /\ MaxArgs \in Nat /\ i \in [{"parent", "child"} -> 0 .. MaxArgs]
      /\ buffer \in [{"parent", "child"} -> Seq(OutputLines)] /\ shown \in Seq(OutputLines)
      /\ terminal \in BOOLEAN
  BY <1>2, HalvesConstants DEF HalvesType
<1>4. /\ at1["child"] = "none" /\ argc > 1 /\ buffer["child"] = <<>>
      /\ shown = IF terminal THEN <<HeaderLine>> ELSE <<>>
      /\ buffer["parent"] = IF terminal THEN <<>> ELSE <<HeaderLine>>
  BY <1>1, <1>2 DEF Alone
<1>5. CASE /\ at1' = [p \in {"parent", "child"} |-> "loop"]
           /\ i' = [p \in {"parent", "child"} |-> IF p = "child" THEN 0 ELSE argc \div 2]
           /\ buffer' = [buffer EXCEPT !["child"] = buffer["parent"]]
           /\ shown' = shown
  <2>1. /\ at1'["parent"] = "loop" /\ at1'["child"] = "loop"
        /\ i'["parent"] = Half /\ i'["child"] = 0
        /\ buffer'["parent"] = buffer["parent"] /\ buffer'["child"] = buffer["parent"]
    BY <1>5, <1>3 DEF Half
  <2>2. Half \in Nat /\ Half < argc
    BY <1>3, HalfBounds
  <2>3. /\ buffer' \in [{"parent", "child"} -> Seq(OutputLines)]
        /\ \A p \in {"parent", "child"} : Len(buffer'[p]) <= BufLines
    BY <1>2, <1>3, <1>5, <2>1 DEF HalvesType
  <2>4. HalvesType'
    <3>1. i' \in [{"parent", "child"} -> 0 .. MaxArgs]
      BY <1>5, <1>3, <2>2 DEF Half
    <3>2. at1' \in [{"parent", "child"} ->
                       {"off", "none", "start", "fork", "loop", "exit", "done", "failed"}]
      BY <1>5
    <3> QED BY <1>1, <1>3, <1>5, <2>3, <3>1, <3>2 DEF HalvesType
  <2>5. Alone'
    BY <2>1 DEF Alone
  <2>6. /\ Len(<<HeaderLine>>) = 1 /\ <<HeaderLine>>[1] = HeaderLine /\ <<HeaderLine>> # <<>>
        /\ Len(<<>>) = 0 /\ <<>> \o <<HeaderLine>> = <<HeaderLine>>
        /\ <<HeaderLine>> \o <<>> = <<HeaderLine>>
        /\ \A n \in 1 .. Len(<<HeaderLine>>) : <<HeaderLine>>[n] = HeaderLine
    OBVIOUS
  <2>7. ~ Late(HeaderLine, Half)
    BY DEF Late, HeaderLine
  <2>8. Half' = Half
    BY <1>1 DEF Half
  <2>9. Halving'
    BY <2>1, <2>2, <2>8, <1>1, <1>3, <1>4 DEF Halving
  <2>10. ChildLines'
    <3>1. \A n \in 1 .. Len(buffer["parent"]) : ~ Late(buffer["parent"][n], Half)
      <4>1. CASE terminal
        BY <4>1, <1>4, <2>6
      <4>2. CASE ~ terminal
        BY <4>2, <1>4, <2>6, <2>7
      <4> QED BY <4>1, <4>2
    <3> QED BY <3>1, <2>1, <2>8 DEF ChildLines
  <2>11. HeaderFirst'
    <3>1. CASE terminal
      BY <3>1, <1>4, <1>5, <2>6 DEF HeaderFirst, HeaderLine
    <3>2. CASE ~ terminal
      <4>1. \A p \in {"parent", "child"} : buffer'[p] # <<>> /\ buffer'[p][1] = HeaderLine
        BY <3>2, <1>4, <2>1, <2>6
      <4>2. shown' = <<>>
        BY <3>2, <1>4, <1>5
      <4> QED BY <4>1, <4>2 DEF HeaderFirst, HeaderLine
    <3> QED BY <3>1, <3>2
  <2>12. AtOnce'
    <3> SUFFICES ASSUME terminal PROVE AtOnce'
      BY <1>1 DEF AtOnce
    <3>1. /\ buffer'["parent"] = <<>> /\ buffer'["child"] = <<>> /\ Len(shown') = 1
      BY <1>4, <1>5, <2>1, <2>6
    <3>2. 0 .. i'["child"] - 1 = {} /\ i'["parent"] - Half = 0
      BY <2>1, <2>2
    <3>3. Len(shown') = 1 + (i'["parent"] - Half) + i'["child"]
                        + (IF at1'["parent"] = "loop" THEN 0 ELSE 1)
      BY <3>1, <3>2, <2>1
    <3> QED BY <3>1, <3>2, <3>3, <2>8 DEF AtOnce
  <2>13. Mine = <<HeaderLine>> /\ Mine' = Mine
    <3>1. Mine = <<HeaderLine>>
      BY <1>4, <2>6 DEF Mine
    <3> QED BY <3>1, <1>5, <2>1 DEF Mine
  <2>14. InOrder(<<HeaderLine>>, Half, Half)
    <3>1. Half .. Half - 1 = {}
      BY <2>2
    <3> QED BY <3>1, <2>6, <2>7 DEF InOrder
  <2>15. InOrder(Mine, Half, i["parent"])'
    BY <2>1, <2>8, <2>13, <2>14
  <2>16. Printing'
    BY <2>1, <2>9, <2>10, <2>11, <2>12, <2>15 DEF Printing
  <2> QED BY <2>4, <2>5, <2>16 DEF HalvesInv
<1>6. CASE Halves!Exit("parent") /\ Halves!Goto("parent", "failed") /\ i' = i
  <2>1. shown' = shown \o buffer["parent"] /\ buffer' = [buffer EXCEPT !["parent"] = <<>>]
    BY <1>6 DEF Halves!Exit
  <2>2. /\ at1' \in [{"parent", "child"} ->
                        {"off", "none", "start", "fork", "loop", "exit", "done", "failed"}]
        /\ at1'["parent"] = "failed" /\ at1'["child"] = "none"
    BY <1>2, <1>4, <1>6, HalvesGoto
  <2>3. buffer["parent"] \in Seq(OutputLines) /\ <<>> \in Seq(OutputLines) /\ Len(<<>>) = 0
    BY <1>3
  <2>4. shown' \in Seq(OutputLines)
    BY <2>1, <2>3, <1>3
  <2>5. \A q \in {"parent", "child"} : buffer'[q] = IF q = "parent" THEN <<>> ELSE buffer[q]
    BY <2>1, <1>3
  <2>6. buffer' \in [{"parent", "child"} -> Seq(OutputLines)]
    BY <2>1, <2>3, <1>3
  <2>7. \A q \in {"parent", "child"} : Len(buffer'[q]) <= BufLines
    BY <2>3, <2>5, <1>2, HalvesConstants DEF HalvesType
  <2>8. HalvesType'
    BY <1>1, <1>3, <1>6, <2>2, <2>4, <2>6, <2>7 DEF HalvesType
  <2>9. Alone'
    BY <2>2 DEF Alone
  <2> QED BY <2>2, <2>8, <2>9 DEF HalvesInv
<1> QED BY <1>5, <1>6 DEF Halves!Fork, Halves!Process

\* What holds while a process prints, from the invariant.
LEMMA WhilePrinting ==
    ASSUME HalvesInv, at1["parent"] \in {"loop", "exit"} \/ at1["child"] # "none"
    PROVE  /\ HalvesType /\ Alone /\ Printing
           /\ argc \in Nat /\ argc > 1 /\ argc <= MaxArgs /\ Half \in Nat /\ Half < argc
           /\ i["parent"] \in Nat /\ i["child"] \in Nat
           /\ at1["parent"] \in {"loop", "exit", "done"}
<1>1. HalvesType /\ Alone
  BY DEF HalvesInv
<1>2. at1["parent"] \in {"off", "none", "start", "fork", "loop", "exit", "done", "failed"}
  BY <1>1 DEF HalvesType
<1>3. argc \in 1 .. MaxArgs /\ MaxArgs \in Nat /\ i \in [{"parent", "child"} -> 0 .. MaxArgs]
  BY <1>1, HalvesConstants DEF HalvesType
<1>4. at1["parent"] \in {"loop", "exit", "done"} \/ at1["parent"] = "none"
  BY <1>1, <1>2 DEF Alone
<1>5. at1["parent"] = "done" => argc > 1
  BY <1>1, <1>3 DEF Alone
<1>6. at1["parent"] # "none"
  BY <1>1 DEF Alone
<1>7. Printing
  BY <1>4, <1>5, <1>6 DEF HalvesInv
<1>8. argc > 1
  BY <1>7 DEF Printing, Halving
<1> QED BY <1>1, <1>3, <1>4, <1>6, <1>7, <1>8, HalfBounds

\* The child's step: its lines are not the parent's.
LEMMA HalvesChildArg == ASSUME HalvesInv, Halves!ProcessArg("child") PROVE HalvesInv'
<1> DEFINE line == <<"argument", i["child"]>>
<1>1. /\ at1["child"] = "loop" /\ i["child"] < Half /\ Halves!PutLine("child", line)
      /\ i' = [i EXCEPT !["child"] = i["child"] + 1]
      /\ argc' = argc /\ terminal' = terminal /\ at1' = at1
  BY DEF Halves!ProcessArg, Halves!UpTo, Half
<1>2. /\ HalvesType /\ Alone /\ Printing
      /\ argc \in Nat /\ argc > 1 /\ argc <= MaxArgs /\ Half \in Nat /\ Half < argc
      /\ i["parent"] \in Nat /\ i["child"] \in Nat
      /\ at1["parent"] \in {"loop", "exit", "done"}
  BY <1>1, WhilePrinting
<1>3. /\ Halving /\ ChildLines /\ HeaderFirst /\ AtOnce /\ InOrder(Mine, Half, i["parent"])
      /\ at1["parent"] = "loop"
  BY <1>1, <1>2 DEF Printing, Halving
<1>4. line \in OutputLines /\ ~ Late(line, Half)
  <2>1. line[2] = i["child"] /\ ~(i["child"] >= Half)
    BY <1>1, <1>2
  <2>2. ~ Late(line, Half)
    BY ONLY <2>1 DEF Late
  <2> QED BY <2>2, <1>2 DEF OutputLines
<1>5. /\ i \in [{"parent", "child"} -> 0 .. MaxArgs] /\ MaxArgs \in Nat
      /\ buffer \in [{"parent", "child"} -> Seq(OutputLines)] /\ shown \in Seq(OutputLines)
      /\ terminal \in BOOLEAN
  BY <1>2, HalvesConstants DEF HalvesType
<1> HIDE DEF line
<1>6. /\ shown' \in Seq(OutputLines) /\ buffer' \in [{"parent", "child"} -> Seq(OutputLines)]
      /\ \A q \in {"parent", "child"} : Len(buffer'[q]) <= BufLines
      /\ buffer'["parent"] = buffer["parent"]
  BY <1>1, <1>2, <1>4, PutTypes
<1>7. i'["child"] = i["child"] + 1 /\ i'["parent"] = i["parent"]
  BY <1>1, <1>5
<1>8. i' \in [{"parent", "child"} -> 0 .. MaxArgs]
  <2>1. i["child"] + 1 \in 0 .. MaxArgs
    BY <1>1, <1>2, <1>5
  <2> QED BY <2>1, <1>1, <1>5
<1>9. HalvesType'
  BY <1>1, <1>2, <1>6, <1>8 DEF HalvesType
<1>10. Alone'
  BY <1>1, <1>2, <1>3 DEF Alone
<1>11. Half' = Half
  BY <1>1 DEF Half
<1>12. Halving'
  <2>1. i["child"] + 1 \in 0 .. Half
    BY <1>1, <1>2
  <2> QED BY <2>1, <1>1, <1>3, <1>7, <1>11 DEF Halving
<1>13. terminal => buffer["child"] = <<>> /\ buffer["parent"] = <<>>
  BY <1>3 DEF AtOnce
<1>14. HeaderFirst'
  BY <1>1, <1>2, <1>3, <1>4, <1>13, PutHeader
<1>15. /\ \E b \in Seq(OutputLines) :
            /\ Mine' = (shown \o b) \o buffer["parent"]
            /\ \A n \in 1 .. Len(b) : ~ Late(b[n], Half)
       /\ \A n \in 1 .. Len(buffer'["child"]) : ~ Late(buffer'["child"][n], Half)
  BY <1>1, <1>2, <1>3, <1>4, ChildPuts
<1>16. ChildLines'
  BY <1>11, <1>15 DEF ChildLines
<1>17. InOrder(Mine, Half, i["parent"])'
  <2>1. PICK b \in Seq(OutputLines) :
           /\ Mine' = (shown \o b) \o buffer["parent"]
           /\ \A n \in 1 .. Len(b) : ~ Late(b[n], Half)
    BY <1>15
  <2>2. buffer["parent"] \in Seq(OutputLines) /\ InOrder(shown \o buffer["parent"], Half, i["parent"])
    BY <1>3, <1>5 DEF Mine
  <2>3. InOrder((shown \o b) \o buffer["parent"], Half, i["parent"])
    BY <2>1, <2>2, <1>2, <1>5, OrderInsert
  <2>4. i'["parent"] = i["parent"] /\ Half' = Half
    BY <1>7, <1>11
  <2> QED BY <2>1, <2>3, <2>4
<1>18. AtOnce'
  <2> SUFFICES ASSUME terminal PROVE AtOnce'
    BY <1>1 DEF AtOnce
  <2>1. shown' = Append(shown, line) /\ buffer' = buffer
    BY <1>1, <1>2, <1>4, PutCases
  <2>2. /\ Len(shown) = 1 + (i["parent"] - Half) + i["child"] + 0
        /\ \A k \in 0 .. i["child"] - 1 : \E n \in 1 .. Len(shown) : shown[n] = <<"argument", k>>
    BY <1>3 DEF AtOnce
  <2>3. /\ Len(shown') = Len(shown) + 1 /\ Len(shown) \in Nat
        /\ \A n \in 1 .. Len(shown) : n \in 1 .. Len(shown') /\ shown'[n] = shown[n]
        /\ Len(shown) + 1 \in 1 .. Len(shown') /\ shown'[Len(shown) + 1] = <<"argument", i["child"]>>
    BY <2>1, <1>4, <1>5 DEF line
  <2>4. \A k \in 0 .. i'["child"] - 1 : \E n \in 1 .. Len(shown') : shown'[n] = <<"argument", k>>
    <3> SUFFICES ASSUME NEW k \in 0 .. i'["child"] - 1
                 PROVE  \E n \in 1 .. Len(shown') : shown'[n] = <<"argument", k>>
      OBVIOUS
    <3>1. CASE k = i["child"]
      BY <3>1, <2>3
    <3>2. CASE k # i["child"]
      <4>1. k \in 0 .. i["child"] - 1
        BY <3>2, <1>2, <1>7
      <4>2. PICK n \in 1 .. Len(shown) : shown[n] = <<"argument", k>>
        BY <4>1, <2>2
      <4> QED BY <4>2, <2>3
    <3> QED BY <3>1, <3>2
  <2>5. Len(shown') = 1 + (i'["parent"] - Half) + i'["child"] + 0
    BY <2>2, <2>3, <1>2, <1>7
  <2>6. at1'["parent"] = "loop" /\ buffer'["parent"] = <<>> /\ buffer'["child"] = <<>>
    BY <2>1, <1>1, <1>3, <1>13
  <2> QED BY <2>4, <2>5, <2>6, <1>11 DEF AtOnce
<1>19. Printing'
  BY <1>1, <1>3, <1>12, <1>14, <1>16, <1>17, <1>18 DEF Printing
<1> QED BY <1>9, <1>10, <1>19 DEF HalvesInv

\* What the parent's lines keep: its argument and the end of the child.
LEMMA ParentKeeps ==
    ASSUME HalvesInv, at1["parent"] = "loop", NEW line \in OutputLines,
           Halves!PutLine("parent", line), argc' = argc, terminal' = terminal
    PROVE  /\ shown' \in Seq(OutputLines) /\ buffer' \in [{"parent", "child"} -> Seq(OutputLines)]
           /\ \A q \in {"parent", "child"} : Len(buffer'[q]) <= BufLines
           /\ Mine \in Seq(OutputLines) /\ Mine' = Append(Mine, line)
           /\ HeaderFirst' /\ ChildLines' /\ Half' = Half
           /\ terminal => buffer' = buffer /\ Len(shown') = Len(shown) + 1
                          /\ \A n \in 1 .. Len(shown) : shown'[n] = shown[n]
<1>1. HalvesType /\ Printing
  BY WhilePrinting
<1>2. ChildLines /\ HeaderFirst /\ AtOnce
  BY <1>1 DEF Printing
<1>3. terminal => buffer["child"] = <<>> /\ buffer["parent"] = <<>>
  BY <1>2 DEF AtOnce
<1>4. /\ buffer \in [{"parent", "child"} -> Seq(OutputLines)] /\ shown \in Seq(OutputLines)
      /\ buffer["parent"] \in Seq(OutputLines)
  BY <1>1 DEF HalvesType
<1>5. /\ shown' \in Seq(OutputLines) /\ buffer' \in [{"parent", "child"} -> Seq(OutputLines)]
      /\ \A q \in {"parent", "child"} : Len(buffer'[q]) <= BufLines
      /\ buffer'["child"] = buffer["child"]
  BY <1>1, PutTypes
<1>6. Mine \in Seq(OutputLines)
  BY <1>4 DEF Mine
<1>7. Mine' = Append(Mine, line)
  BY <1>1, <1>3, ParentPuts
<1>8. HeaderFirst'
  BY <1>1, <1>2, <1>3, PutHeader
<1>9. Half' = Half
  BY DEF Half
<1>10. ChildLines'
  BY <1>2, <1>5, <1>9 DEF ChildLines
<1>11. terminal => buffer' = buffer /\ Len(shown') = Len(shown) + 1
                   /\ \A n \in 1 .. Len(shown) : shown'[n] = shown[n]
  <2> SUFFICES ASSUME terminal
               PROVE  /\ buffer' = buffer /\ Len(shown') = Len(shown) + 1
                      /\ \A n \in 1 .. Len(shown) : shown'[n] = shown[n]
    OBVIOUS
  <2>1. shown' = Append(shown, line) /\ buffer' = buffer
    BY <1>1, PutCases
  <2> QED BY <2>1, <1>4
<1> QED BY <1>5, <1>6, <1>7, <1>8, <1>9, <1>10, <1>11

LEMMA HalvesParentArg == ASSUME HalvesInv, Halves!ProcessArg("parent") PROVE HalvesInv'
<1> DEFINE line == <<"argument", i["parent"]>>
<1>1. /\ at1["parent"] = "loop" /\ i["parent"] < argc /\ Halves!PutLine("parent", line)
      /\ i' = [i EXCEPT !["parent"] = i["parent"] + 1]
      /\ argc' = argc /\ terminal' = terminal /\ at1' = at1
  BY DEF Halves!ProcessArg, Halves!UpTo
<1>2. /\ HalvesType /\ Alone /\ Printing
      /\ argc \in Nat /\ argc > 1 /\ argc <= MaxArgs /\ Half \in Nat /\ Half < argc
      /\ i["parent"] \in Nat /\ i["child"] \in Nat
  BY <1>1, WhilePrinting
<1>3. Halving /\ ChildLines /\ HeaderFirst /\ AtOnce /\ InOrder(Mine, Half, i["parent"])
  BY <1>1, <1>2 DEF Printing, Halving
<1>4. line \in OutputLines
  BY <1>1, <1>2 DEF OutputLines
<1>5. /\ i \in [{"parent", "child"} -> 0 .. MaxArgs] /\ MaxArgs \in Nat
      /\ terminal \in BOOLEAN
  BY <1>2, HalvesConstants DEF HalvesType
<1>6. /\ shown' \in Seq(OutputLines) /\ buffer' \in [{"parent", "child"} -> Seq(OutputLines)]
      /\ \A q \in {"parent", "child"} : Len(buffer'[q]) <= BufLines
      /\ Mine \in Seq(OutputLines) /\ Mine' = Append(Mine, line)
      /\ HeaderFirst' /\ ChildLines' /\ Half' = Half
      /\ terminal => buffer' = buffer /\ Len(shown') = Len(shown) + 1
                     /\ \A n \in 1 .. Len(shown) : shown'[n] = shown[n]
  BY <1>1, <1>4, ParentKeeps
<1>7. i'["child"] = i["child"] /\ i'["parent"] = i["parent"] + 1
  BY <1>1, <1>5
<1>8. i' \in [{"parent", "child"} -> 0 .. MaxArgs]
  <2>1. i["parent"] + 1 \in 0 .. MaxArgs
    BY <1>1, <1>2, <1>5
  <2> QED BY <2>1, <1>1, <1>5
<1>9. HalvesType'
  BY <1>1, <1>2, <1>6, <1>8 DEF HalvesType
<1>10. Alone'
  BY <1>1, <1>2 DEF Alone
<1>11. Halving'
  <2>1. i["parent"] + 1 \in Half .. argc
    BY <1>1, <1>2, <1>3 DEF Halving
  <2> QED BY <2>1, <1>1, <1>3, <1>6, <1>7 DEF Halving
<1>12. InOrder(Mine, Half, i["parent"])'
  <2>1. Half <= i["parent"]
    BY <1>2, <1>3 DEF Halving
  <2>2. InOrder(Append(Mine, <<"argument", i["parent"]>>), Half, i["parent"] + 1)
    BY <2>1, <1>2, <1>3, <1>6, OrderAppend
  <2> QED BY <2>2, <1>6, <1>7
<1>13. AtOnce'
  <2> SUFFICES ASSUME terminal PROVE AtOnce'
    BY <1>1 DEF AtOnce
  <2>1. /\ buffer["parent"] = <<>> /\ buffer["child"] = <<>>
        /\ Len(shown) = 1 + (i["parent"] - Half) + i["child"] + 0
        /\ \A k \in 0 .. i["child"] - 1 : \E n \in 1 .. Len(shown) : shown[n] = <<"argument", k>>
    BY <1>1, <1>3 DEF AtOnce
  <2>2. Len(shown') = 1 + (i'["parent"] - Half) + i'["child"] + 0
    <3>1. Len(shown') = Len(shown) + 1
      BY <1>6
    <3>2. Len(shown) = 1 + (i["parent"] - Half) + i["child"] + 0
      BY <2>1
    <3> QED BY ONLY <3>1, <3>2, <1>2, <1>7
  <2>3. \A k \in 0 .. i'["child"] - 1 : \E n \in 1 .. Len(shown') : shown'[n] = <<"argument", k>>
    <3> SUFFICES ASSUME NEW k \in 0 .. i'["child"] - 1
                 PROVE  \E n \in 1 .. Len(shown') : shown'[n] = <<"argument", k>>
      OBVIOUS
    <3>1. PICK n \in 1 .. Len(shown) : shown[n] = <<"argument", k>>
      BY <2>1, <1>7
    <3>2. Len(shown) \in Nat
      BY <1>2 DEF HalvesType
    <3>3. n \in 1 .. Len(shown') /\ shown'[n] = shown[n]
      BY <3>2, <1>6
    <3> QED BY <3>1, <3>3
  <2> QED BY <2>1, <2>2, <2>3, <1>1, <1>6 DEF AtOnce
<1>14. Printing'
  BY <1>1, <1>6, <1>11, <1>12, <1>13 DEF Printing
<1> QED BY <1>9, <1>10, <1>14 DEF HalvesInv

LEMMA HalvesChildExit == ASSUME HalvesInv, Halves!ChildExit PROVE HalvesInv'
<1>1. /\ at1["child"] = "loop" /\ i["child"] >= Half /\ Halves!Goto("child", "done")
      /\ argc' = argc /\ terminal' = terminal /\ i' = i /\ buffer' = buffer /\ shown' = shown
  BY DEF Halves!ChildExit, Halves!UpTo, Half
<1>2. /\ HalvesType /\ Alone /\ Printing
      /\ Half \in Nat /\ i["parent"] \in Nat /\ i["child"] \in Nat
  BY <1>1, WhilePrinting
<1>3. /\ Halving /\ ChildLines /\ HeaderFirst /\ AtOnce /\ InOrder(Mine, Half, i["parent"])
      /\ at1["parent"] = "loop"
  BY <1>1, <1>2 DEF Printing, Halving
<1>4. /\ at1' \in [{"parent", "child"} ->
                      {"off", "none", "start", "fork", "loop", "exit", "done", "failed"}]
      /\ at1'["parent"] = "loop" /\ at1'["child"] = "done"
  BY <1>1, <1>2, <1>3, HalvesGoto
<1>5. HalvesType'
  BY <1>1, <1>2, <1>4 DEF HalvesType
<1>6. Half' = Half /\ Mine' = Mine
  BY <1>1 DEF Half, Mine
<1>7. Halving'
  <2>1. i["child"] = Half
    BY <1>1, <1>2, <1>3 DEF Halving
  <2> QED BY <2>1, <1>1, <1>3, <1>4, <1>6 DEF Halving
<1>8. ChildLines' /\ HeaderFirst' /\ AtOnce' /\ InOrder(Mine, Half, i["parent"])'
  BY <1>1, <1>3, <1>4, <1>6 DEF ChildLines, HeaderFirst, HeaderLine, AtOnce
<1>9. Printing'
  BY <1>4, <1>7, <1>8 DEF Printing
<1>10. Alone'
  BY <1>4 DEF Alone
<1> QED BY <1>5, <1>9, <1>10 DEF HalvesInv

LEMMA HalvesWait == ASSUME HalvesInv, Halves!Wait PROVE HalvesInv'
<1>1. /\ at1["parent"] = "loop" /\ i["parent"] >= argc /\ at1["child"] = "done"
      /\ Halves!PutLine("parent", LastLine) /\ Halves!Goto("parent", "exit")
      /\ argc' = argc /\ terminal' = terminal /\ i' = i
  BY DEF Halves!Wait, Halves!UpTo, LastLine, Halves!Returned
<1>2. /\ HalvesType /\ Alone /\ Printing
      /\ argc \in Nat /\ Half \in Nat /\ Half < argc
      /\ i["parent"] \in Nat /\ i["child"] \in Nat
  BY <1>1, WhilePrinting
<1>3. Halving /\ ChildLines /\ HeaderFirst /\ AtOnce /\ InOrder(Mine, Half, i["parent"])
  BY <1>1, <1>2 DEF Printing, Halving
<1>4. LastLine \in OutputLines /\ ~ Late(LastLine, Half)
  BY DEF OutputLines, Late, LastLine
<1>5. /\ at1' \in [{"parent", "child"} ->
                      {"off", "none", "start", "fork", "loop", "exit", "done", "failed"}]
      /\ at1'["parent"] = "exit" /\ at1'["child"] = "done"
  BY <1>1, <1>2, HalvesGoto
<1>6. /\ shown' \in Seq(OutputLines) /\ buffer' \in [{"parent", "child"} -> Seq(OutputLines)]
      /\ \A q \in {"parent", "child"} : Len(buffer'[q]) <= BufLines
      /\ Mine \in Seq(OutputLines) /\ Mine' = Append(Mine, LastLine)
      /\ HeaderFirst' /\ ChildLines' /\ Half' = Half
      /\ terminal => buffer' = buffer /\ Len(shown') = Len(shown) + 1
                     /\ \A n \in 1 .. Len(shown) : shown'[n] = shown[n]
  BY <1>1, <1>4, ParentKeeps
<1>7. HalvesType'
  BY <1>1, <1>2, <1>5, <1>6 DEF HalvesType
<1>8. Alone'
  BY <1>5 DEF Alone
<1>9. Halving'
  <2>1. i["parent"] = argc /\ i["child"] = Half
    BY <1>1, <1>2, <1>3 DEF Halving
  <2> QED BY <2>1, <1>1, <1>3, <1>5, <1>6 DEF Halving
<1>10. InOrder(Mine, Half, i["parent"])'
  <2>1. <<>> \in Seq(OutputLines) /\ <<LastLine>> \in Seq(OutputLines)
    BY <1>4
  <2>2. /\ Mine \o <<>> = Mine /\ Append(Mine, LastLine) = (Mine \o <<LastLine>>) \o <<>>
        /\ \A n \in 1 .. Len(<<LastLine>>) : <<LastLine>>[n] = LastLine
    BY <1>6, <2>1, <1>4
  <2>3. \A n \in 1 .. Len(<<LastLine>>) : ~ Late(<<LastLine>>[n], Half)
    BY <2>2, <1>4
  <2>4. InOrder(Mine \o <<>>, Half, i["parent"])
    BY <2>2, <1>3
  <2>5. InOrder((Mine \o <<LastLine>>) \o <<>>, Half, i["parent"])
    BY <2>1, <2>3, <2>4, <1>2, <1>6, OrderInsert
  <2> QED BY <2>2, <2>5, <1>1, <1>6
<1>11. Len(Mine') > 0 /\ Mine'[Len(Mine')] = LastLine
  BY <1>6, <1>4
<1>12. AtOnce'
  <2> SUFFICES ASSUME terminal PROVE AtOnce'
    BY <1>1 DEF AtOnce
  <2>1. /\ buffer["parent"] = <<>> /\ buffer["child"] = <<>>
        /\ Len(shown) = 1 + (i["parent"] - Half) + i["child"] + 0
        /\ \A k \in 0 .. i["child"] - 1 : \E n \in 1 .. Len(shown) : shown[n] = <<"argument", k>>
    BY <1>1, <1>3 DEF AtOnce
  <2>2. Len(shown') = 1 + (i["parent"] - Half) + i["child"] + 1
    <3>1. Len(shown') = Len(shown) + 1
      BY <1>6
    <3> QED BY ONLY <3>1, <2>1, <1>2
  <2>3. \A n \in 1 .. Len(shown) : n \in 1 .. Len(shown') /\ shown'[n] = shown[n]
    BY <2>1, <2>2, <1>2, <1>6
  <2>4. \A k \in 0 .. i["child"] - 1 : \E n \in 1 .. Len(shown') : shown'[n] = <<"argument", k>>
    BY <2>1, <2>3
  <2> QED BY <2>1, <2>2, <2>4, <1>1, <1>5, <1>6 DEF AtOnce
<1>13. Printing'
  BY <1>5, <1>6, <1>9, <1>10, <1>11, <1>12 DEF Printing, LastLine
<1> QED BY <1>7, <1>8, <1>13 DEF HalvesInv

LEMMA HalvesParentExit == ASSUME HalvesInv, Halves!ParentExit PROVE HalvesInv'
<1>1. /\ at1["parent"] = "exit" /\ Halves!Goto("parent", "done")
      /\ shown' = shown \o buffer["parent"] /\ buffer' = [buffer EXCEPT !["parent"] = <<>>]
      /\ argc' = argc /\ terminal' = terminal /\ i' = i
  BY DEF Halves!ParentExit, Halves!Exit
<1>2. /\ HalvesType /\ Alone /\ Printing
      /\ argc \in Nat /\ argc > 1 /\ Half \in Nat /\ Half < argc
      /\ i["parent"] \in Nat /\ i["child"] \in Nat
  BY <1>1, WhilePrinting
<1>3. /\ Halving /\ ChildLines /\ HeaderFirst /\ AtOnce /\ InOrder(Mine, Half, i["parent"])
      /\ Len(Mine) > 0 /\ Mine[Len(Mine)] = LastLine
  BY <1>1, <1>2 DEF Printing
<1>4. /\ buffer \in [{"parent", "child"} -> Seq(OutputLines)] /\ shown \in Seq(OutputLines)
      /\ buffer["parent"] \in Seq(OutputLines) /\ <<>> \in Seq(OutputLines) /\ Len(<<>>) = 0
      /\ BufLines \in Nat
  BY <1>2, HalvesConstants DEF HalvesType
<1>5. /\ at1' \in [{"parent", "child"} ->
                      {"off", "none", "start", "fork", "loop", "exit", "done", "failed"}]
      /\ at1'["parent"] = "done" /\ at1'["child"] = at1["child"]
  BY <1>1, <1>2, HalvesGoto
<1>6. buffer'["parent"] = <<>> /\ buffer'["child"] = buffer["child"]
  BY <1>1, <1>4
<1>7. shown' \in Seq(OutputLines) /\ buffer' \in [{"parent", "child"} -> Seq(OutputLines)]
  BY <1>1, <1>4
<1>8. \A q \in {"parent", "child"} : Len(buffer'[q]) <= BufLines
  BY <1>2, <1>4, <1>6 DEF HalvesType
<1>9. HalvesType'
  BY <1>1, <1>2, <1>5, <1>7, <1>8 DEF HalvesType
<1>10. Half' = Half /\ shown' = Mine
  BY <1>1 DEF Half, Mine
<1>11. Mine' = Mine
  <2>1. Mine' = shown' \o <<>>
    BY <1>6 DEF Mine
  <2> QED BY <2>1, <1>7, <1>10
<1>12. Halving'
  BY <1>1, <1>3, <1>5, <1>10 DEF Halving
<1>13. ChildLines'
  BY <1>3, <1>6, <1>10 DEF ChildLines
<1>14. HeaderFirst'
  <2>1. CASE shown = <<>>
    <3>1. buffer["parent"] # <<>> /\ buffer["parent"][1] = HeaderLine
      BY <2>1, <1>3 DEF HeaderFirst
    <3>2. shown' = buffer["parent"]
      BY <2>1, <1>1, <1>4
    <3> QED BY <3>1, <3>2 DEF HeaderFirst, HeaderLine
  <2>2. CASE shown # <<>>
    <3>1. shown' # <<>> /\ shown'[1] = shown[1]
      BY <2>2, <1>1, <1>4
    <3> QED BY <2>2, <3>1, <1>3 DEF HeaderFirst, HeaderLine
  <2> QED BY <2>1, <2>2
<1>15. AtOnce'
  <2> SUFFICES ASSUME terminal PROVE AtOnce'
    BY <1>1 DEF AtOnce
  <2>1. buffer["parent"] = <<>> /\ buffer["child"] = <<>>
    BY <1>3 DEF AtOnce
  <2>2. shown' = shown
    BY <2>1, <1>1, <1>4
  <2> QED BY <2>1, <2>2, <1>1, <1>3, <1>5, <1>6, <1>10 DEF AtOnce
<1>16. InOrder(Mine, Half, i["parent"])'
  BY <1>1, <1>3, <1>10, <1>11
<1>17. Printing'
  BY <1>3, <1>5, <1>6, <1>11, <1>12, <1>13, <1>14, <1>15, <1>16 DEF Printing, LastLine
<1>18. Alone'
  BY <1>1, <1>2, <1>5 DEF Alone
<1> QED BY <1>9, <1>17, <1>18 DEF HalvesInv

LEMMA HalvesStep == HalvesInv /\ [Halves!Next]_Halves!vars => HalvesInv'
<1> SUFFICES ASSUME HalvesInv, [Halves!Next]_Halves!vars PROVE HalvesInv'
  OBVIOUS
<1>1. CASE Halves!Next
  BY <1>1, HalvesStart, HalvesAnnounce, HalvesFork, HalvesChildArg, HalvesParentArg,
     HalvesChildExit, HalvesWait, HalvesParentExit DEF Halves!Next, Halves!Process
<1>2. CASE UNCHANGED Halves!vars
  <2>1. UNCHANGED <<argc, terminal, at1, i, buffer, shown>>
    BY <1>2 DEF Halves!vars
  <2>2. Half' = Half /\ Mine' = Mine
    BY <2>1 DEF Half, Mine
  <2> QED BY <2>1, <2>2 DEF HalvesInv, HalvesType, Alone, Printing, Halving, ChildLines,
                           HeaderFirst, AtOnce, HeaderLine, LastLine
<1> QED BY <1>1, <1>2

LEMMA HalvesPart == ProcSpec => Halves!Init /\ [][Halves!Next]_Halves!vars
<1>1. ProcInit => Halves!Init
  BY DEF ProcInit
<1>2. [ProcNext]_Vars => [Halves!Next]_Halves!vars
  BY DEF ProcNext, Vars, HalfVars, Halves!vars
<1> QED BY <1>1, <1>2, PTL DEF ProcSpec

\* module3/01: the lines that were printed and that wait in the two buffers, in every
\* reachable state.
THEOREM HalvesInductive == ProcSpec => []HalvesInv
BY HalvesInit, HalvesStep, HalvesPart, PTL

LEMMA HalvesRead == HalvesInv => Halves!OutputRight /\ Halves!TypeOK
<1> SUFFICES ASSUME HalvesInv PROVE Halves!OutputRight /\ Halves!TypeOK
  OBVIOUS
<1>1. HalvesType
  BY DEF HalvesInv
<1>2. Halves!TypeOK
  BY <1>1 DEF HalvesType, Halves!TypeOK, Halves!Process
<1>3. ASSUME at1["parent"] = "done", argc > 1
      PROVE  /\ \A k \in argc \div 2 .. argc - 1 : Halves!Printed(k)
             /\ \A n \in DOMAIN shown : Halves!ByParent(shown[n]) => shown[n][2] < argc
             /\ \A m, n \in DOMAIN shown :
                   m < n /\ Halves!ByParent(shown[m]) /\ Halves!ByParent(shown[n])
                   => shown[m][2] < shown[n][2]
             /\ shown[1] = <<Halves!Header, 0>> /\ shown[Len(shown)] = <<Halves!Returned, 0>>
             /\ terminal => Len(shown) = argc + 2 /\ \A k \in 0 .. argc - 1 : Halves!Printed(k)
  <2>1. Printing /\ argc \in Nat /\ Half \in Nat
    <3>1. argc \in Nat \ {0}
      BY <1>1, HalvesConstants DEF HalvesType
    <3> QED BY <3>1, <1>3, HalfBounds DEF HalvesInv
  <2>2. /\ HeaderFirst /\ AtOnce /\ InOrder(Mine, Half, i["parent"])
        /\ Len(Mine) > 0 /\ Mine[Len(Mine)] = LastLine /\ buffer["parent"] = <<>>
        /\ i["parent"] = argc /\ i["child"] = Half
    BY <1>3, <2>1 DEF Printing, Halving
  <2>3. shown \in Seq(OutputLines)
    BY <1>1 DEF HalvesType
  <2>4. Mine = shown /\ DOMAIN shown = 1 .. Len(shown) /\ Len(shown) > 0 /\ shown # <<>>
    BY <2>2, <2>3 DEF Mine
  <2>5. InOrder(shown, Half, argc)
    BY <2>2, <2>4
  <2>6. \A k \in Half .. argc - 1 : Halves!Printed(k)
    BY <2>4, <2>5 DEF InOrder, Halves!Printed
  <2>7. \A line : Halves!ByParent(line) <=> Late(line, Half)
    BY DEF Halves!ByParent, Late, Half
  <2>8. /\ \A n \in DOMAIN shown : Halves!ByParent(shown[n]) => shown[n][2] < argc
        /\ \A m, n \in DOMAIN shown :
              m < n /\ Halves!ByParent(shown[m]) /\ Halves!ByParent(shown[n])
              => shown[m][2] < shown[n][2]
    BY <2>4, <2>5, <2>7 DEF InOrder
  <2>9. shown[1] = <<Halves!Header, 0>> /\ shown[Len(shown)] = <<Halves!Returned, 0>>
    BY <2>2, <2>4 DEF HeaderFirst, HeaderLine, LastLine, Halves!Header, Halves!Returned
  <2>10. ASSUME terminal
         PROVE  Len(shown) = argc + 2 /\ \A k \in 0 .. argc - 1 : Halves!Printed(k)
    <3>1. /\ Len(shown) = 1 + (i["parent"] - Half) + i["child"] + 1
          /\ \A k \in 0 .. i["child"] - 1 : \E n \in 1 .. Len(shown) : shown[n] = <<"argument", k>>
      BY <1>3, <2>2, <2>10 DEF AtOnce
    <3>2. \A k \in 0 .. Half - 1 : Halves!Printed(k)
      BY <3>1, <2>2, <2>4 DEF Halves!Printed
    <3>3. Len(shown) = argc + 2
      BY <3>1, <2>1, <2>2
    <3>4. \A k \in 0 .. argc - 1 : k \in 0 .. Half - 1 \/ k \in Half .. argc - 1
      BY <2>1
    <3> QED BY <3>2, <3>3, <3>4, <2>6
  <2> QED BY <2>6, <2>8, <2>9, <2>10 DEF Half
<1>4. Halves!OutputRight
  BY <1>3 DEF Halves!OutputRight
<1> QED BY <1>2, <1>4

-----------------------------------------------------------------------------
(* NamedSem: the inductive invariant. *)

\* sem_post finds the value 0: one process is inside.  Together with the type it is
\* the invariant of the program; a semaphore nobody created has nobody inside.
NamedTokens ==
    /\ value + Cardinality(Named!Inside) <= 1
    /\ created /\ ~ lost => value + Cardinality(Named!Inside) = 1
    /\ ~ created => value = 0 /\ \A p \in Named!Process : step[p] = "off"
    /\ \A run \in Runs : step[Named!Parent(run)] = "off" <=> step[Named!Child(run)] = "off"

\* A child has printed as many pairs as it has read lines.
NamedPrinted ==
    \A run \in Runs : Len(printed[run]) = seen[run]

NamedInv == Named!TypeOK /\ NamedTokens /\ NamedPrinted

\* An instance has its names for the operators of the modules it extends.
LEMMA NamedCounts ==
    \A x : Named!Cardinality(x) = Cardinality(x) /\ (Named!IsFiniteSet(x) <=> IsFiniteSet(x))
BY DEF Cardinality, IsFiniteSet, Named!Cardinality, Named!IsFiniteSet

\* The processes are finitely many, so those inside can be counted.
LEMMA NamedInsideFinite ==
    ASSUME Named!ConstantAssumption
    PROVE  IsFiniteSet(Named!Inside) /\ Cardinality(Named!Inside) \in Nat
<1>0. IsFiniteSet(Runs) /\ IsFiniteSet({"parent", "child"})
  <2>1. IsFiniteSet(Runs)
    BY NamedCounts DEF Named!ConstantAssumption
  <2>2. IsFiniteSet({"parent"} \cup {"child"})
    BY FS_Singleton, FS_AddElement
  <2>3. {"parent"} \cup {"child"} = {"parent", "child"}
    OBVIOUS
  <2> QED BY <2>1, <2>2, <2>3
<1>1. IsFiniteSet(Named!Process)
  BY <1>0, FS_Product DEF Named!Process
<1>2. IsFiniteSet(Named!Inside)
  BY <1>1, FS_Subset DEF Named!Inside
<1> QED BY <1>2, FS_CardinalityType

\* The places between sem_wait and sem_post.
NamedPlaces == {"open", "use", "post", "fail"}

\* A process that moves from one place to another: what it does to the number inside.
LEMMA NamedMoves ==
    ASSUME Named!ConstantAssumption, Named!TypeOK, NEW p \in Named!Process, NEW q,
           step' = [step EXCEPT ![p] = q]
    PROVE  LET n == Cardinality(Named!Inside) IN
           /\ p \in Named!Inside /\ q \in NamedPlaces => Cardinality(Named!Inside') = n
           /\ p \in Named!Inside /\ q \notin NamedPlaces => Cardinality(Named!Inside') = n - 1
           /\ p \notin Named!Inside /\ q \in NamedPlaces => Cardinality(Named!Inside') = n + 1
           /\ p \notin Named!Inside /\ q \notin NamedPlaces => Cardinality(Named!Inside') = n
<1>1. \A x \in Named!Process : step'[x] = IF x = p THEN q ELSE step[x]
  BY DEF Named!TypeOK
<1>2. Named!Inside' = {x \in Named!Process : step'[x] \in NamedPlaces}
  BY DEF Named!Inside, NamedPlaces
<1>3. Named!Inside' = IF q \in NamedPlaces THEN Named!Inside \cup {p} ELSE Named!Inside \ {p}
  BY <1>1, <1>2 DEF Named!Inside, NamedPlaces
<1> QED BY <1>3, NamedInsideFinite, FS_AddElement, FS_RemoveElement

LEMMA NamedBegins == Named!ConstantAssumption /\ Named!Init => NamedInv
<1> SUFFICES ASSUME Named!ConstantAssumption, Named!Init PROVE NamedInv
  OBVIOUS
<1>1. \A p \in Named!Process : step[p] = "off"
  BY DEF Named!Init
<1>2. Named!TypeOK
  <2>1. <<>> \in Seq(Lines) /\ <<>> \in Seq(Named!Number \X Named!Number) /\ Len(theFile) = 0
    BY DEF Named!Init
  <2>2. /\ seen \in [Runs -> 0 .. Len(theFile)]
        /\ printed \in [Runs -> Seq(Named!Number \X Named!Number)]
    BY <2>1 DEF Named!Init
  <2>3. there \in BOOLEAN /\ created \in BOOLEAN /\ lost \in BOOLEAN
    BY DEF Named!Init, Named!ConstantAssumption
  <2>4. step \in [Named!Process -> {"off", "wait", "open", "use", "post", "fail", "exited"}]
    BY DEF Named!Init
  <2>5. theFile \in Seq(Lines) /\ value \in 0 .. 1
    BY <2>1 DEF Named!Init
  <2> QED BY <2>2, <2>3, <2>4, <2>5 DEF Named!TypeOK
<1>3. NamedTokens
  <2>1. Named!Inside = {}
    BY <1>1 DEF Named!Inside
  <2>2. \A run \in Runs : Named!Parent(run) \in Named!Process /\ Named!Child(run) \in Named!Process
    BY DEF Named!Process, Named!Parent, Named!Child
  <2> QED BY <1>1, <2>1, <2>2, FS_EmptySet DEF Named!Init, NamedTokens
<1>4. NamedPrinted
  BY DEF Named!Init, NamedPrinted
<1> QED BY <1>2, <1>3, <1>4 DEF NamedInv

\* Types.
LEMMA NamedTypeStep ==
    ASSUME Named!ConstantAssumption, NamedInv, [Named!Next]_Named!vars
    PROVE  Named!TypeOK'
<1> USE DEF NamedInv, Named!TypeOK
<1>0. \A run \in Runs : Named!Parent(run) \in Named!Process /\ Named!Child(run) \in Named!Process
  BY DEF Named!Process, Named!Parent, Named!Child
<1>1. ASSUME NEW run \in Runs, Named!Start(run) PROVE Named!TypeOK'
  <2>1. step' \in [Named!Process -> {"off", "wait", "open", "use", "post", "fail", "exited"}]
    BY <1>0, <1>1 DEF Named!Start
  <2>2. value' \in 0 .. 1 /\ created' \in BOOLEAN
    BY <1>1 DEF Named!Start
  <2> QED BY <1>1, <2>1, <2>2 DEF Named!Start
<1>2. ASSUME NEW p \in Named!Process, Named!SemWait(p) PROVE Named!TypeOK'
  BY <1>2 DEF Named!SemWait, Named!Down
<1>3. ASSUME NEW p \in Named!Process, Named!SemPost(p) PROVE Named!TypeOK'
  <2>1. p \in Named!Inside
    BY <1>3 DEF Named!SemPost, Named!Inside
  <2>2. Cardinality(Named!Inside) >= 1
    BY <2>1, NamedInsideFinite, FS_EmptySet
  <2>3. value = 0
    BY <2>2, NamedInsideFinite DEF NamedTokens
  <2> QED BY <1>3, <2>3 DEF Named!SemPost
<1>4. ASSUME NEW run \in Runs, Named!Create(run) PROVE Named!TypeOK'
  BY <1>0, <1>4 DEF Named!Create
<1>5. ASSUME NEW run \in Runs, Named!WriteLine(run) PROVE Named!TypeOK'
  <2>1. PICK line \in Lines : theFile' = Append(theFile, line)
    BY <1>5 DEF Named!WriteLine
  <2>2. theFile' \in Seq(Lines) /\ Len(theFile') = Len(theFile) + 1 /\ Len(theFile) \in Nat
    BY <2>1, AppendProperties, LenProperties
  <2>3. seen' \in [Runs -> 0 .. Len(theFile')]
    BY <1>5, <2>2 DEF Named!WriteLine
  <2> QED BY <1>0, <1>5, <2>2, <2>3 DEF Named!WriteLine
<1>6. ASSUME NEW run \in Runs, Named!OpenRead(run) PROVE Named!TypeOK'
  BY <1>0, <1>6 DEF Named!OpenRead
<1>7. ASSUME NEW run \in Runs, Named!ReadLine(run) PROVE Named!TypeOK'
  <2>1. Len(theFile) \in Nat /\ seen[run] + 1 \in 1 .. Len(theFile)
    BY <1>7, LenProperties DEF Named!ReadLine
  <2>2. Named!analyze_line(theFile[seen[run] + 1]) \in Named!Number \X Named!Number
    <3>1. theFile[seen[run] + 1] \in Lines
      BY <2>1, ElementOfSeq
    <3> QED BY <3>1, Named!PairFound DEF Named!ConstantAssumption
  <2>3. printed' \in [Runs -> Seq(Named!Number \X Named!Number)]
    BY <1>7, <2>2, AppendProperties DEF Named!ReadLine
  <2> QED BY <1>7, <2>1, <2>3 DEF Named!ReadLine
<1>8. ASSUME NEW run \in Runs, Named!ReadEnd(run) PROVE Named!TypeOK'
  BY <1>0, <1>8 DEF Named!ReadEnd
<1>9. ASSUME NEW p \in Named!Process, Named!Kill(p) PROVE Named!TypeOK'
  BY <1>9 DEF Named!Kill
<1>10. CASE UNCHANGED Named!vars
  BY <1>10 DEF Named!vars
<1> QED BY <1>1, <1>2, <1>3, <1>4, <1>5, <1>6, <1>7, <1>8, <1>9, <1>10 DEF Named!Next, Named!Work

\* The semaphore and the processes.
LEMMA NamedTokensStep ==
    ASSUME Named!ConstantAssumption, NamedInv, [Named!Next]_Named!vars
    PROVE  NamedTokens'
<1> USE DEF NamedInv
<1> DEFINE n == Cardinality(Named!Inside)
<1>0. /\ \A run \in Runs :
            /\ Named!Parent(run) \in Named!Process /\ Named!Child(run) \in Named!Process
            /\ Named!Parent(run)[2] = "parent" /\ Named!Child(run)[2] = "child"
      /\ \A run, s \in Runs :
            /\ Named!Parent(run) # Named!Child(s)
            /\ Named!Parent(run) = Named!Parent(s) => run = s
            /\ Named!Child(run) = Named!Child(s) => run = s
      /\ \A p \in Named!Process : \E run \in Runs : p = Named!Parent(run) \/ p = Named!Child(run)
      /\ n \in Nat /\ value \in 0 .. 1
  BY NamedInsideFinite DEF Named!Process, Named!Parent, Named!Child, Named!TypeOK
\* A step of a process that has begun and goes on.
<1>a. ASSUME NEW p \in Named!Process, NEW q \in {"wait", "open", "use", "post", "fail", "exited"},
             step[p] # "off", step' = [step EXCEPT ![p] = q], UNCHANGED created,
             lost => lost',
             \/ value' + Cardinality(Named!Inside') = value + n
             \/ /\ value' + Cardinality(Named!Inside') \in Nat
                /\ value' + Cardinality(Named!Inside') <= value + n
                /\ lost'
      PROVE  NamedTokens'
  <2>1. \A run \in Runs : step'[Named!Parent(run)] = "off" <=> step'[Named!Child(run)] = "off"
    BY <1>0, <1>a DEF NamedTokens, Named!TypeOK
  <2>2. created
    BY <1>a DEF NamedTokens
  <2>3. value' + Cardinality(Named!Inside') <= 1
    BY <1>0, <1>a DEF NamedTokens
  <2> QED BY <1>a, <2>1, <2>2, <2>3 DEF NamedTokens
<1>1. ASSUME NEW run \in Runs, Named!Start(run) PROVE NamedTokens'
  <2>1. \A p \in Named!Process :
           step'[p] = IF p \in {Named!Parent(run), Named!Child(run)} THEN "wait" ELSE step[p]
    BY <1>0, <1>1 DEF Named!Start, Named!TypeOK
  <2>2. step[Named!Parent(run)] = "off" /\ step[Named!Child(run)] = "off"
    BY <1>1 DEF Named!Start, NamedTokens
  <2>3. Named!Inside' = Named!Inside
    BY <2>1, <2>2 DEF Named!Inside
  <2>4. ~ created => Named!Inside = {}
    BY DEF NamedTokens, Named!Inside
  <2>5. \A s \in Runs : step'[Named!Parent(s)] = "off" <=> step'[Named!Child(s)] = "off"
    BY <1>0, <2>1 DEF NamedTokens
  <2>6. /\ value' + Cardinality(Named!Inside') <= 1
        /\ ~ lost' => value' + Cardinality(Named!Inside') = 1
    <3>1. CASE created
      BY <1>1, <2>3, <3>1 DEF Named!Start, NamedTokens
    <3>2. CASE ~ created
      <4>1. Cardinality(Named!Inside') = 0 /\ value' = 1
        BY <1>1, <2>3, <2>4, <3>2, FS_EmptySet DEF Named!Start
      <4> QED BY <4>1
    <3> QED BY <3>1, <3>2
  <2>8. created'
    BY <1>1 DEF Named!Start
  <2> QED BY <2>5, <2>6, <2>8 DEF NamedTokens
<1>2. ASSUME NEW p \in Named!Process, Named!SemWait(p) PROVE NamedTokens'
  <2>1. p \notin Named!Inside
    BY <1>2 DEF Named!SemWait, Named!Inside
  <2>2. Cardinality(Named!Inside') = n + 1
    BY <1>2, <2>1, NamedMoves DEF Named!SemWait, NamedPlaces
  <2>3. value' + Cardinality(Named!Inside') = value + n
    BY <1>0, <1>2, <2>2 DEF Named!SemWait, Named!Down
  <2> QED BY <1>2, <1>a, <2>3 DEF Named!SemWait
<1>3. ASSUME NEW p \in Named!Process, Named!SemPost(p) PROVE NamedTokens'
  <2>1. p \in Named!Inside
    BY <1>3 DEF Named!SemPost, Named!Inside
  <2> DEFINE q == IF step[p] = "post" THEN "wait" ELSE "exited"
  <2>2. q \in {"wait", "exited"} /\ step' = [step EXCEPT ![p] = q]
    BY <1>3 DEF Named!SemPost
  <2> HIDE DEF q
  <2>3. Cardinality(Named!Inside') = n - 1
    BY <2>1, <2>2, NamedMoves DEF NamedPlaces
  <2>4. value' + Cardinality(Named!Inside') = value + n
    BY <1>0, <1>3, <2>3 DEF Named!SemPost
  <2>5. step[p] # "off" /\ UNCHANGED <<created, lost>>
    BY <1>3 DEF Named!SemPost
  <2> QED BY <1>a, <2>2, <2>4, <2>5
<1>4. ASSUME NEW run \in Runs, Named!Create(run) PROVE NamedTokens'
  <2>1. Cardinality(Named!Inside') = n
    BY <1>0, <1>4, NamedMoves DEF Named!Create, Named!Inside, NamedPlaces
  <2> QED BY <1>0, <1>4, <1>a, <2>1 DEF Named!Create
<1>5. ASSUME NEW run \in Runs, Named!WriteLine(run) PROVE NamedTokens'
  <2>1. Cardinality(Named!Inside') = n
    BY <1>0, <1>5, NamedMoves DEF Named!WriteLine, Named!Inside, NamedPlaces
  <2> QED BY <1>0, <1>5, <1>a, <2>1 DEF Named!WriteLine
<1>6. ASSUME NEW run \in Runs, Named!OpenRead(run) PROVE NamedTokens'
  <2> DEFINE q == IF there THEN "use" ELSE "fail"
  <2>1. q \in {"use", "fail"} /\ step' = [step EXCEPT ![Named!Child(run)] = q]
    BY <1>6 DEF Named!OpenRead
  <2> HIDE DEF q
  <2>2. Cardinality(Named!Inside') = n
    BY <1>0, <1>6, <2>1, NamedMoves DEF Named!OpenRead, Named!Inside, NamedPlaces
  <2> QED BY <1>0, <1>6, <1>a, <2>1, <2>2 DEF Named!OpenRead
<1>7. ASSUME NEW run \in Runs, Named!ReadLine(run) PROVE NamedTokens'
  BY <1>7 DEF Named!ReadLine, NamedTokens, Named!Inside
<1>8. ASSUME NEW run \in Runs, Named!ReadEnd(run) PROVE NamedTokens'
  <2>1. Cardinality(Named!Inside') = n
    BY <1>0, <1>8, NamedMoves DEF Named!ReadEnd, Named!Inside, NamedPlaces
  <2> QED BY <1>0, <1>8, <1>a, <2>1 DEF Named!ReadEnd
<1>9. ASSUME NEW p \in Named!Process, Named!Kill(p) PROVE NamedTokens'
  <2>1. step' = [step EXCEPT ![p] = "exited"] /\ step[p] # "off" /\ UNCHANGED <<created, value>>
    BY <1>9 DEF Named!Kill
  <2>2. CASE p \in Named!Inside
    <3>0. "exited" \notin NamedPlaces
      BY DEF NamedPlaces
    <3>1. Cardinality(Named!Inside') = n - 1
      BY <2>1, <2>2, <3>0, NamedMoves
    <3>2. n # 0
      BY <2>2, NamedInsideFinite, FS_EmptySet
    <3>3. lost'
      BY <1>9, <2>2 DEF Named!Kill
    <3>4. /\ value' + Cardinality(Named!Inside') \in Nat
          /\ value' + Cardinality(Named!Inside') <= value + n
      BY <1>0, <2>1, <3>1, <3>2
    <3> QED BY <1>a, <2>1, <3>3, <3>4
  <2>3. CASE p \notin Named!Inside
    <3>0. "exited" \notin NamedPlaces
      BY DEF NamedPlaces
    <3>1. Cardinality(Named!Inside') = n
      BY <2>1, <2>3, <3>0, NamedMoves
    <3>2. lost => lost'
      BY <1>9 DEF Named!Kill
    <3> QED BY <1>a, <2>1, <3>1, <3>2
  <2> QED BY <2>2, <2>3
<1>10. CASE UNCHANGED Named!vars
  BY <1>10 DEF Named!vars, NamedTokens, Named!Inside
<1> QED BY <1>1, <1>2, <1>3, <1>4, <1>5, <1>6, <1>7, <1>8, <1>9, <1>10 DEF Named!Next, Named!Work

\* The place in the file.
LEMMA NamedPrintedStep ==
    ASSUME NamedInv, [Named!Next]_Named!vars
    PROVE  NamedPrinted'
<1>1. ASSUME NEW run \in Runs, Named!ReadLine(run) PROVE NamedPrinted'
  <2>1. \A x \in Seq(Named!Number \X Named!Number) : \A y : Len(Append(x, y)) = Len(x) + 1
    OBVIOUS
  <2> QED BY <1>1, <2>1 DEF NamedInv, Named!TypeOK, NamedPrinted, Named!ReadLine
<1>2. CASE UNCHANGED <<printed, seen>>
  BY <1>2 DEF NamedInv, NamedPrinted
<1> QED
  BY <1>1, <1>2
     DEF Named!Next, Named!Work, Named!Start, Named!SemWait, Named!SemPost, Named!Create,
         Named!WriteLine, Named!OpenRead, Named!ReadEnd, Named!Kill, Named!vars

\* The invariant holds in every reachable state.
THEOREM NamedInductive == ASSUME Named!ConstantAssumption PROVE Named!Spec => []NamedInv
<1>1. Named!Init => NamedInv
  BY NamedBegins
<1>2. NamedInv /\ [Named!Next]_Named!vars => NamedInv'
  BY NamedTypeStep, NamedTokensStep, NamedPrintedStep DEF NamedInv
<1> QED BY <1>1, <1>2, PTL DEF Named!Spec

\* Every variable keeps its type: sem_post never raises the semaphore above 1.
THEOREM NamedTypeCorrect == ASSUME Named!ConstantAssumption PROVE Named!Spec => []Named!TypeOK
<1>1. NamedInv => Named!TypeOK
  BY DEF NamedInv
<1> QED BY <1>1, NamedInductive, PTL

\* Unless a process was killed inside, the semaphore is free or one process is inside,
\* over any number of runs.
THEOREM NamedOneToken == ASSUME Named!ConstantAssumption PROVE Named!Spec => []Named!OneToken
<1>1. NamedInv => Named!OneToken
  BY NamedCounts DEF NamedInv, NamedTokens, Named!OneToken
<1> QED BY <1>1, NamedInductive, PTL

-----------------------------------------------------------------------------
(* NamedSem: LineLog, the promise of the program. *)

\* The pair the child prints is the one the promise asks for.
LEMMA NamedBounds ==
    ASSUME NEW line \in Seq(Named!Number) \ {<<>>}
    PROVE  Named!analyze_line(line) = Named!Log!Bounds(line)
<1> DEFINE R == {line[k] : k \in DOMAIN line}
           b == Named!analyze_line(line)
<1>1. R = Named!Range(line)
  BY DEF Named!Range
<1>2. b = <<Named!Min(R), Named!Max(R)>>
  BY <1>1, Named!BoundsFound
<1>3. /\ Named!Min(R) \in R /\ Named!Max(R) \in R
      /\ \A n \in R : Named!Min(R) <= n /\ n <= Named!Max(R)
  BY <1>1, Named!PairFound
<1>4. R \subseteq Int
  <2>1. \A k \in DOMAIN line : line[k] \in Named!Number
    OBVIOUS
  <2>2. R \subseteq Named!Number
    BY <2>1
  <2>3. Named!Number \subseteq Int
    BY DEF Named!Number
  <2> QED BY <2>2, <2>3
<1> HIDE DEF R, b
<1>5. /\ b \in R \X R /\ b[1] = Named!Min(R) /\ b[2] = Named!Max(R)
  BY <1>2, <1>3
<1>6. ASSUME NEW c \in R \X R, \A n \in R : c[1] <= n /\ n <= c[2]
      PROVE  c = b
  <2>1. c[1] \in R /\ c[2] \in R /\ c = <<c[1], c[2]>>
    OBVIOUS
  <2>2. /\ c[1] <= Named!Min(R) /\ Named!Min(R) <= c[1]
        /\ c[2] <= Named!Max(R) /\ Named!Max(R) <= c[2]
    BY <1>3, <1>6, <2>1
  <2>3. c[1] \in Int /\ c[2] \in Int /\ Named!Min(R) \in Int /\ Named!Max(R) \in Int
    BY <1>3, <1>4, <2>1
  <2>4. c[1] = Named!Min(R) /\ c[2] = Named!Max(R)
    BY ONLY <2>2, <2>3
  <2> QED BY <1>2, <2>1, <2>4
<1>7. b = CHOOSE c \in R \X R : \A n \in R : c[1] <= n /\ n <= c[2]
  BY <1>3, <1>5, <1>6
<1> QED BY <1>7 DEF Named!Log!Bounds, R, b

\* Every step of the program is a step of LineLog or leaves the file and what is printed.
LEMMA NamedLogStep ==
    ASSUME Named!ConstantAssumption, NamedInv, [Named!Next]_Named!vars
    PROVE  [Named!Log!Next]_<<[f \in {"file"} |-> theFile], printed>>
<1>1. ASSUME NEW run \in Runs, Named!WriteLine(run) PROVE Named!Log!Write("file")
  <2>1. PICK line \in Lines : theFile' = Append(theFile, line)
    BY <1>1 DEF Named!WriteLine
  <2>2. [f \in {"file"} |-> theFile'] =
           [[f \in {"file"} |-> theFile] EXCEPT !["file"] = Append(@, line)]
    BY <2>1
  <2>3. UNCHANGED printed
    BY <1>1 DEF Named!WriteLine
  <2> QED BY <2>2, <2>3 DEF Named!Log!Write
<1>2. ASSUME NEW run \in Runs, Named!ReadLine(run) PROVE Named!Log!Analyse(run)
  <2>1. Len(printed[run]) = seen[run]
    BY DEF NamedInv, NamedPrinted
  <2>2. theFile[seen[run] + 1] \in Seq(Named!Number) \ {<<>>}
    <3>1. seen[run] + 1 \in 1 .. Len(theFile)
      BY <1>2, LenProperties DEF Named!ReadLine, NamedInv, Named!TypeOK
    <3>2. theFile[seen[run] + 1] \in Lines
      BY <3>1, ElementOfSeq DEF NamedInv, Named!TypeOK
    <3> QED BY <3>2 DEF Named!ConstantAssumption
  <2>3. Named!analyze_line(theFile[seen[run] + 1]) = Named!Log!Bounds(theFile[Len(printed[run]) + 1])
    BY <2>1, <2>2, NamedBounds
  <2>4. printed' = [printed EXCEPT ![run] = Append(@, Named!Log!Bounds(theFile[Len(@) + 1]))]
    BY <1>2, <2>3 DEF Named!ReadLine
  <2>5. Len(printed[run]) < Len(theFile) /\ UNCHANGED theFile
    BY <1>2, <2>1 DEF Named!ReadLine
  <2> QED BY <2>4, <2>5 DEF Named!Log!Analyse
<1>3. CASE UNCHANGED <<theFile, printed>>
  BY <1>3
<1> QED
  BY <1>1, <1>2, <1>3
     DEF Named!Log!Next, Named!Next, Named!Work, Named!Start, Named!SemWait, Named!SemPost,
         Named!Create, Named!OpenRead, Named!ReadEnd, Named!Kill, Named!vars

\* The children print the bounds of every line once and in order: the program implements
\* LineLog, whatever happens to its processes.
THEOREM NamedLogHolds == ASSUME Named!ConstantAssumption PROVE Named!Spec => Named!LogSpec
<1>1. Named!Init => Named!Log!Init
  BY DEF Named!Init, Named!Log!Init
<1>2. NamedInv /\ [Named!Next]_Named!vars => [Named!Log!Next]_<<[f \in {"file"} |-> theFile], printed>>
  BY NamedLogStep
<1> QED BY <1>1, <1>2, NamedInductive, PTL DEF Named!Spec, Named!LogSpec, Named!Log!Spec

-----------------------------------------------------------------------------
(* The composition. *)

\* A step of the composition is a step of each program or leaves it alone.
LEMMA ChatPart == ProcSpec => Spec
<1>1. ProcInit => Init
  BY DEF ProcInit
<1>2. [ProcNext]_Vars => [Next]_vars
  BY DEF ProcNext, Vars
<1> QED BY <1>1, <1>2, PTL DEF ProcSpec, Spec

LEMMA FilePart == ProcSpec => Guarded!Spec
<1>1. ProcInit => Guarded!Init
  BY DEF ProcInit
<1>2. [ProcNext]_Vars => [Guarded!Next]_Guarded!vars
  BY DEF ProcNext, Vars, FileVars, Guarded!vars
<1> QED BY <1>1, <1>2, PTL DEF ProcSpec, Guarded!Spec

LEMMA NamedPart == ProcSpec => Named!Spec
<1>1. ProcInit => Named!Init
  BY DEF ProcInit
<1>2. [ProcNext]_Vars => [Named!Next]_Named!vars
  BY DEF ProcNext, Vars, NamedVars, Named!vars
<1> QED BY <1>1, <1>2, PTL DEF ProcSpec, Named!Spec

LEMMA ShmPart == ProcSpec => Shm!Spec
<1>1. ProcInit => Shm!Init
  BY DEF ProcInit
<1>2. [ProcNext]_Vars => [Shm!Next]_Shm!vars
  BY DEF ProcNext, Vars, ShmVars, Shm!vars
<1> QED BY <1>1, <1>2, PTL DEF ProcSpec, Shm!Spec

\* Who is inside a critical section is alone, in the programs of module3/08, 09, 10 and 11.
THEOREM InsideHolds == ProcSpec => []OneInside
<1>1. Guarded!Spec => []Guarded!OneToken
  BY InstanceAssumption, Guarded!OneTokenHolds
<1>2. Named!Spec => []Named!OneToken
  BY InstanceAssumption, NamedOneToken
<1>3. Shm!Spec => []Shm!Turns
  BY InstanceAssumption, Shm!TurnsHold
<1> QED BY <1>1, <1>2, <1>3, FilePart, NamedPart, ShmPart, PTL DEF OneInside

\* Every reader of a file prints the bounds of every line once and in order, in the programs
\* of module3/08 and 09.
THEOREM LogsHold == ProcSpec => LogsRight
<1>1. Guarded!Spec => Guarded!LogSpec
  BY InstanceAssumption, Guarded!ImplementsLog
<1>2. Named!Spec => Named!LogSpec
  BY InstanceAssumption, NamedLogHolds
<1> QED BY <1>1, <1>2, FilePart, NamedPart DEF LogsRight

\* The server's count is right in the composition, too.
THEOREM CountHolds == ProcSpec => []CountRight
BY ChatPart, ClientsCounted

\* module3/06: what two clients have printed are stretches of one order of the lines, in which
\* each line is once: they see the lines in the same order, and neither misses one between
\* two that it has (server.c: send_all and the single queue).
THEOREM OrderHolds == ProcSpec => []BroadcastOrder
<1>1. ChatInv /\ OrderInv => BroadcastOrder
  BY OrderSame, OrderWhole DEF ChatInv, BroadcastOrder
<1> QED BY <1>1, ChatPart, ChatInductive, OrderInductive, PTL

\* module3/10 and 11: a parent prints the bounds of its own lines.  module3/05: the numbers of
\* the file follow each other.  module3/01: every argument is printed once, or stays in the
\* buffer of the child.
THEOREM OutputsHold == ProcSpec => []OutputsRight
<1>1. Shm!Spec => []Shm!ResultsRight
  BY InstanceAssumption, Shm!ResultsHold
<1>2. HalvesInv => Halves!OutputRight
  BY HalvesRead
<1> QED BY <1>1, <1>2, ShmPart, LogHolds, HalvesInductive, PTL DEF OutputsRight

\* Every variable of the seven programs has its type.
THEOREM TypesHold == ProcSpec => []TypesOK
<1>1. Guarded!Spec => []Guarded!TypeOK
  BY InstanceAssumption, Guarded!TypeCorrect
<1>2. Named!Spec => []Named!TypeOK
  BY InstanceAssumption, NamedTypeCorrect
<1>3. Shm!Spec => []Shm!TypeOK
  BY InstanceAssumption, Shm!TypeCorrect
<1>4. TalkInv => Talk!TypeOK
  BY DEF TalkInv
<1>5. CounterInv => Counter!TypeOK
  BY DEF CounterInv
<1>6. HalvesInv => Halves!TypeOK
  BY HalvesRead
<1> QED BY <1>1, <1>2, <1>3, <1>4, <1>5, <1>6, ChatPart, FilePart, NamedPart, ShmPart,
           ChatTypeCorrect, TalkInductive, CounterInductive, HalvesInductive, PTL
        DEF TypesOK

=============================================================================
