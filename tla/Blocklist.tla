----------------------------- MODULE Blocklist -----------------------------
(***************************************************************************)
(* The kernel module rkn (module5/lab6): a list of addresses that writers  *)
(* change through sysfs while packets are held against it.  Nothing is     *)
(* locked: every read and write of the list is a step of its own.          *)
(***************************************************************************)
EXTENDS Naturals, FiniteSets, Functions, SequencesExt

CONSTANTS
    Nodes,       \* memory; bound: adding waits for a free node (the code gives up)
    Addresses, Writers, Packets, NULL,
    Operations   \* bound: what the writers do, of {"add", "remove"}

ConstantAssumption ==
    /\ IsFiniteSet(Nodes) /\ NULL \notin Nodes \cup Addresses
    /\ Operations \subseteq {"add", "remove"}

VARIABLES
    blocklist, ip4, next,   \* the list and the fields of its nodes
    live,                   \* nodes between kmalloc and kfree
    step, addr, new, head, prev,    \* the variables of each writer
    packet,                 \* per packet: where it is, its way and address, its place in the list
    meant                   \* history: packets whose address has been in the list throughout
                            \* and that never stood at a node when it was freed

listVars == <<blocklist, ip4, next, live>>
writerVars == <<step, addr, new, head, prev>>
vars == <<listVars, writerVars, packet, meant>>

Ways == {"through", "out"}    \* arrived and routed on, or sent by this machine

Init ==
    /\ blocklist = NULL /\ live = {}
    /\ ip4 = [n \in Nodes |-> NULL] /\ next = [n \in Nodes |-> NULL]
    /\ step = [w \in Writers |-> "idle"]
    /\ addr = [w \in Writers |-> NULL] /\ new = [w \in Writers |-> NULL]
    /\ head = [w \in Writers |-> NULL] /\ prev = [w \in Writers |-> NULL]
    /\ packet = [p \in Packets |-> [at |-> "none", way |-> "out", daddr |-> NULL, node |-> NULL]]
    /\ meant = {}

\* The nodes of a list, from its head on; a circle is cut.
Chain(first, link) ==
    LET n == Cardinality(Nodes)
        at[k \in 0 .. n] == IF k = 0 THEN first ELSE IF at[k - 1] = NULL THEN NULL ELSE link[at[k - 1]]
    IN  [k \in 1 .. Cardinality({j \in 0 .. n : at[j] # NULL}) |-> at[k - 1]]

ListedIn(first, link, ip) == {ip[n] : n \in Range(Chain(first, link))}
Listed == ListedIn(blocklist, next, ip4)

\* Memory that is free reads as anything.
ip4Of(n) == IF n \in live THEN {ip4[n]} ELSE Addresses
nextOf(n) == IF n \in live THEN {next[n]} ELSE Nodes \cup {NULL}

\* A packet whose address is taken from the list while it is looked for has no claim.
Claims == meant' = {p \in meant : packet[p].daddr \in ListedIn(blocklist', next', ip4')}

-----------------------------------------------------------------------------
(* add_entry_store *)

Goto(w, s) == step' = [step EXCEPT ![w] = s]

AddStart(w, a) ==
    /\ step[w] = "idle" /\ "add" \in Operations
    /\ \E n \in Nodes \ live :
          /\ live' = live \cup {n} /\ new' = [new EXCEPT ![w] = n]
          /\ next' = [next EXCEPT ![n] = NULL] /\ ip4' = [ip4 EXCEPT ![n] = a]
    /\ addr' = [addr EXCEPT ![w] = a] /\ head' = [head EXCEPT ![w] = blocklist]
    /\ Goto(w, "search")
    /\ UNCHANGED <<blocklist, prev, packet>> /\ Claims

Duplicate(w) ==
    /\ step[w] = "search" /\ head[w] # NULL /\ addr[w] \in ip4Of(head[w])
    /\ live' = live \ {new[w]}
    /\ Goto(w, "idle")
    /\ UNCHANGED <<blocklist, ip4, next, addr, new, head, prev, packet, meant>>

Differs(n, a) == \E x \in ip4Of(n) : x # a

Forward(w) == \E n \in nextOf(head[w]) : head' = [head EXCEPT ![w] = n]

SearchOn(w) ==
    /\ step[w] = "search" /\ head[w] # NULL /\ Differs(head[w], addr[w])
    /\ Forward(w)
    /\ UNCHANGED <<listVars, step, addr, new, prev, packet, meant>>

Where == IF blocklist = NULL THEN "first" ELSE "tail"

\* The list is read a second time.
Searched(w) ==
    /\ step[w] = "search" /\ head[w] = NULL
    /\ head' = [head EXCEPT ![w] = blocklist]
    /\ Goto(w, Where)
    /\ UNCHANGED <<listVars, addr, new, prev, packet, meant>>

First(w) ==
    /\ step[w] = "first"
    /\ blocklist' = new[w]
    /\ Goto(w, "idle")
    /\ UNCHANGED <<ip4, next, live, addr, new, head, prev, packet>> /\ Claims

ToTail(w) ==
    /\ step[w] = "tail"
    /\ IF NULL \in nextOf(head[w]) THEN Goto(w, "append") /\ UNCHANGED head
       ELSE Forward(w) /\ UNCHANGED step
    /\ UNCHANGED <<listVars, addr, new, prev, packet, meant>>

Link(w) ==
    /\ step[w] = "append"
    /\ next' = [next EXCEPT ![head[w]] = new[w]]
    /\ Goto(w, "idle")
    /\ UNCHANGED <<blocklist, ip4, live, addr, new, head, prev, packet>> /\ Claims

-----------------------------------------------------------------------------
(* remove_entry_store *)

RemoveStart(w, a) ==
    /\ step[w] = "idle" /\ "remove" \in Operations
    /\ blocklist # NULL
    /\ addr' = [addr EXCEPT ![w] = a]
    /\ head' = [head EXCEPT ![w] = blocklist] /\ prev' = [prev EXCEPT ![w] = NULL]
    /\ Goto(w, "find")
    /\ UNCHANGED <<listVars, new, packet, meant>>

FindOn(w) ==
    /\ step[w] = "find" /\ head[w] # NULL /\ Differs(head[w], addr[w])
    /\ prev' = [prev EXCEPT ![w] = head[w]]
    /\ Forward(w)
    /\ UNCHANGED <<listVars, step, addr, new, packet, meant>>

NotInList(w) ==
    /\ step[w] = "find" /\ head[w] = NULL
    /\ Goto(w, "idle")
    /\ UNCHANGED <<listVars, addr, new, head, prev, packet, meant>>

\* Mutant: prev is not taken along, so that the head is always replaced.
BehindNever(w) == FALSE

Behind(w) == prev[w] # NULL

Unlink(w) ==
    /\ step[w] = "find" /\ head[w] # NULL /\ addr[w] \in ip4Of(head[w])
    /\ \E n \in nextOf(head[w]) :
          IF Behind(w) THEN next' = [next EXCEPT ![prev[w]] = n] /\ UNCHANGED blocklist
          ELSE blocklist' = n /\ UNCHANGED next
    /\ Goto(w, "free")
    /\ UNCHANGED <<ip4, live, addr, new, head, prev, packet>> /\ Claims

\* Mutant: the node before is freed.
FreedBefore(w) == IF prev[w] = NULL THEN head[w] ELSE prev[w]

Freed(w) == head[w]

Kfree(w) ==
    /\ step[w] = "free"
    /\ live' = live \ {Freed(w)}
    /\ Goto(w, "idle")
    /\ meant' = {p \in meant : packet[p].node # Freed(w)}
    /\ UNCHANGED <<blocklist, ip4, next, addr, new, head, prev, packet>>

-----------------------------------------------------------------------------
(* Packets.  The hook is called before routing: only for what comes in. *)

Place(p, at, n) == packet' = [packet EXCEPT ![p].at = at, ![p].node = n]

Hooked(way) == way = "through"

Arrive(p, way, a) ==
    /\ packet[p].at = "none"
    /\ packet' = [packet EXCEPT ![p] =
          IF Hooked(way) THEN [at |-> "hook", way |-> way, daddr |-> a, node |-> blocklist]
          ELSE [at |-> "sent", way |-> way, daddr |-> a, node |-> NULL]]
    /\ meant' = IF a \in Listed THEN meant \cup {p} ELSE meant
    /\ UNCHANGED <<listVars, writerVars>>

Drop(p) ==
    /\ packet[p].at = "hook" /\ packet[p].node # NULL
    /\ packet[p].daddr \in ip4Of(packet[p].node)
    /\ Place(p, "dropped", NULL)
    /\ UNCHANGED <<listVars, writerVars, meant>>

\* Mutant: the list ends at its last node.
AheadLess(n) == {IF m # NULL /\ next[m] = NULL THEN NULL ELSE m : m \in nextOf(n)}

Ahead(n) == nextOf(n)

WalkOn(p) ==
    /\ packet[p].at = "hook" /\ packet[p].node # NULL
    /\ Differs(packet[p].node, packet[p].daddr)
    /\ \E n \in Ahead(packet[p].node) : Place(p, "hook", n)
    /\ UNCHANGED <<listVars, writerVars, meant>>

Accept(p) ==
    /\ packet[p].at = "hook" /\ packet[p].node = NULL
    /\ Place(p, "sent", NULL)
    /\ UNCHANGED <<listVars, writerVars, meant>>

\* The next packet takes its place.
Gone(p) ==
    /\ packet[p].at \in {"sent", "dropped"}
    /\ packet' = [packet EXCEPT ![p] = [at |-> "none", way |-> "out", daddr |-> NULL, node |-> NULL]]
    /\ meant' = meant \ {p}
    /\ UNCHANGED <<listVars, writerVars>>

-----------------------------------------------------------------------------

Write(w) ==
    \/ \E a \in Addresses : AddStart(w, a) \/ RemoveStart(w, a)
    \/ Duplicate(w) \/ SearchOn(w) \/ Searched(w) \/ First(w) \/ ToTail(w) \/ Link(w)
    \/ FindOn(w) \/ NotInList(w) \/ Unlink(w) \/ Kfree(w)

Walk(p) ==
    \/ \E way \in Ways, a \in Addresses : Arrive(p, way, a)
    \/ Drop(p) \/ WalkOn(p) \/ Accept(p) \/ Gone(p)

Next == (\E w \in Writers : Write(w)) \/ (\E p \in Packets : Walk(p))

Spec == Init /\ [][Next]_vars

-----------------------------------------------------------------------------
(* Properties. *)

\* The last line: who goes to the tail stands at a node.
TypeOK ==
    /\ blocklist \in Nodes \cup {NULL} /\ live \subseteq Nodes
    /\ ip4 \in [Nodes -> Addresses \cup {NULL}] /\ next \in [Nodes -> Nodes \cup {NULL}]
    /\ step \in [Writers -> {"idle", "search", "first", "tail", "append", "find", "free"}]
    /\ addr \in [Writers -> Addresses \cup {NULL}]
    /\ new \in [Writers -> Nodes \cup {NULL}]
    /\ head \in [Writers -> Nodes \cup {NULL}] /\ prev \in [Writers -> Nodes \cup {NULL}]
    /\ packet \in [Packets -> [at : {"none", "hook", "sent", "dropped"}, way : Ways,
                               daddr : Addresses \cup {NULL}, node : Nodes \cup {NULL}]]
    /\ meant \subseteq Packets
    /\ \A w \in Writers : step[w] \in {"tail", "append"} => head[w] # NULL

\* With one writer the list has every address once, ends, and is made of allocated nodes;
\* between operations nothing else is allocated.
OneEach ==
    LET nodes == Chain(blocklist, next)
    IN  /\ IsInjective(nodes) /\ Range(nodes) \subseteq live
        /\ \A j, k \in DOMAIN nodes : ip4[nodes[j]] = ip4[nodes[k]] => j = k
        /\ (\A w \in Writers : step[w] = "idle") => live = Range(nodes)

\* An address leaves the list by its own removal only: adding an entry, or removing
\* another, never loses one.
OnlyRemovalTakes ==
    [][\A a \in Listed \ ListedIn(blocklist', next', ip4') :
          \E w \in Writers : step[w] = "find" /\ step'[w] = "free" /\ addr[w] = a]_vars

\* A packet on its way through whose address has been in the list from the moment the hook
\* was called is not let through, whatever is added and removed meanwhile ("if the address
\* is in the list, do not send the packet", README.md of module5/lab6).  Packets that stood
\* at a node when it was freed are beyond any claim.
Dropped == \A p \in meant : packet[p].way = "through" => packet[p].at # "sent"
=============================================================================
