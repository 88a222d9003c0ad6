------------------------------ MODULE Ip4test ------------------------------
(***************************************************************************)
(* module2/3/3.2: how many of n random addresses are in the network of a   *)
(* gateway, and how many should be.  An address has four octets of         *)
(* OctetBits bits.                                                         *)
(***************************************************************************)
EXTENDS Integers, FiniteSets

CONSTANTS
    OctetBits,     \* 8
    Octets,        \* the numbers typed between the dots
    Sent           \* numbers of packets

Width == 4 * OctetBits
ConstantAssumption == OctetBits \in Nat \ {0} /\ Octets \subseteq Nat /\ Sent \subseteq Nat

VARIABLES
    phase,         \* "gateway", "netmask", "n", "test", "done", "refused", "crashed"
    i, result,     \* of parseAddr4
    gateway, netmask, n,
    sent, hits,
    prefix         \* history: the number after "/", or -1

vars == <<phase, i, result, gateway, netmask, n, sent, hits, prefix>>

Init ==
    /\ phase = "gateway" /\ i = 0 /\ result = 0
    /\ gateway = 0 /\ netmask = 0 /\ n = 0 /\ sent = 0 /\ hits = 0 /\ prefix = -1

Wide(x) == x % 2 ^ Width

\* parseAddr4: an octet is not compared with its greatest value.
Octet(o) ==
    /\ phase \in {"gateway", "netmask"} /\ i < 4
    /\ result' = IF i = 3 THEN Wide(result + o) ELSE Wide((result + o) * 2 ^ OctetBits)
    /\ i' = i + 1
    /\ UNCHANGED <<phase, gateway, netmask, n, sent, hits, prefix>>

Dotted ==
    /\ i = 4 /\ i' = 0 /\ result' = 0
    /\ \/ phase = "gateway" /\ gateway' = result /\ phase' = "netmask" /\ UNCHANGED netmask
       \/ phase = "netmask" /\ netmask' = result /\ phase' \in {"n", "crashed"} /\ UNCHANGED gateway
    /\ UNCHANGED <<n, sent, hits, prefix>>

\* No number where one is due, or too few of them.
Refused ==
    /\ phase \in {"gateway", "netmask", "n"} /\ phase' = "refused"
    /\ UNCHANGED <<i, result, gateway, netmask, n, sent, hits, prefix>>

\* Mutant: a shift too few.
ShiftLess(p) == {Wide((2 ^ Width - 1) * 2 ^ (Width - p + 1))}

\* All bits shifted left; what a shift by the whole width gives is not defined.
Shift(p) == IF p = 0 THEN {0, 2 ^ Width - 1} ELSE {Wide((2 ^ Width - 1) * 2 ^ (Width - p))}

\* The gateway has "/" behind it.
Prefix(p) ==
    /\ phase = "netmask" /\ i = 0 /\ phase' = "n"
    /\ netmask' \in Shift(p) /\ prefix' = p
    /\ UNCHANGED <<i, result, gateway, n, sent, hits>>

Count(m) ==
    /\ phase = "n" /\ phase' = "test" /\ n' = m
    /\ UNCHANGED <<i, result, gateway, netmask, sent, hits, prefix>>

\* The bits that are set; of two addresses with & they are what both have.
Ones(x) == {b \in 0 .. Width - 1 : (x \div 2 ^ b) % 2 = 1}

In(ip) == Ones(ip) \cap Ones(netmask) = Ones(gateway) \cap Ones(netmask)

Random(ip) ==
    /\ phase = "test" /\ sent < n /\ sent' = sent + 1
    /\ hits' = IF In(ip) THEN hits + 1 ELSE hits
    /\ UNCHANGED <<phase, i, result, gateway, netmask, n, prefix>>

Tested ==
    /\ phase = "test" /\ sent = n /\ phase' = "done"
    /\ UNCHANGED <<i, result, gateway, netmask, n, sent, hits, prefix>>

Next ==
    \/ (\E o \in Octets : Octet(o)) \/ Dotted \/ Refused \/ (\E p \in 0 .. Width : Prefix(p))
    \/ (\E m \in Sent : Count(m)) \/ (\E ip \in 0 .. 2 ^ Width - 1 : Random(ip)) \/ Tested

Spec == Init /\ [][Next]_vars

-----------------------------------------------------------------------------
(* Properties *)

\* Every variable has its type.
TypeOK ==
    /\ phase \in {"gateway", "netmask", "n", "test", "done", "refused", "crashed"}
    /\ {result, gateway, netmask} \subseteq 0 .. 2 ^ Width - 1
    /\ hits \in 0 .. sent /\ sent <= n

\* The shifts until nothing is left of the mask.
netmask_num == CHOOSE k \in 0 .. Width :
    Wide(netmask * 2 ^ k) = 0 /\ \A j \in 0 .. k - 1 : Wide(netmask * 2 ^ j) # 0

Network == {ip \in 0 .. 2 ^ Width - 1 : In(ip)}

\* With a mask of leading ones the probability that is shown is the share of the addresses
\* that are counted; and a prefix is as many leading ones, unless it is 0.
ProbabilityRight ==
    phase = "n" =>
        /\ (\E p \in 0 .. Width : netmask = 2 ^ Width - 2 ^ p) =>
              Cardinality(Network) * 2 ^ netmask_num = 2 ^ Width
        /\ prefix > 0 => netmask_num = prefix
        /\ gateway \in Network
=============================================================================
