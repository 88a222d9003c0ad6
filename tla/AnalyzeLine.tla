----------------------------- MODULE AnalyzeLine -----------------------------
(***************************************************************************)
(* analyze_line() of module3/08 to 11: one pass over the numbers of a      *)
(* line keeps the smallest and the largest so far.  The loop is a fold;    *)
(* the theorem says what it returns for every line.                        *)
(***************************************************************************)
EXTENDS Integers, Sequences, SequencesExt, FiniteSetsExt, SequenceTheorems,
        WellFoundedInduction, TLAPS

\* Numbers generate_line() makes: rand() % 100.
Number == 0 .. 99

\* Mutant: the two bounds change places.
analyze_line_swapped(line) ==
    FoldLeft(LAMBDA b, n : <<IF n > b[1] THEN n ELSE b[1], IF n < b[2] THEN n ELSE b[2]>>,
             <<-1, 100>>, line)

\* INT_MAX and INT_MIN stand at 100 and -1, outside Number.
analyze_line(line) ==
    FoldLeft(LAMBDA b, n : <<IF n < b[1] THEN n ELSE b[1], IF n > b[2] THEN n ELSE b[2]>>,
             <<100, -1>>, line)

-----------------------------------------------------------------------------
(* What it returns. *)

\* A set of natural numbers that is not empty has a least one.
LEMMA LeastNat ==
    ASSUME NEW T, T \subseteq Nat, T # {}
    PROVE  \E x \in T : \A y \in T : x <= y
<1> DEFINE R == {p \in Nat \X Nat : p[1] < p[2]}
<1>1. IsWellFoundedOn(R, Nat)
  BY NatLessThanWellFounded DEF OpToRel
<1>2. PICK x \in T : \A y \in T : ~ (<<y, x>> \in R)
  <2> HIDE DEF R
  <2> QED BY <1>1, WFMin
<1>3. ASSUME NEW y \in T PROVE x <= y
  <2>1. x \in Nat /\ y \in Nat
    OBVIOUS
  <2>2. y < x => <<y, x>> \in R
    BY <2>1
  <2> QED BY <1>2, <2>1, <2>2
<1> QED BY <1>3

\* Numbers and the bounds the loop begins with, and their Min and Max.
Bound == -1 .. 100

LEMMA Extremes ==
    ASSUME NEW T, T \subseteq Bound, T # {}
    PROVE  /\ Min(T) \in T /\ \A y \in T : Min(T) <= y
           /\ Max(T) \in T /\ \A y \in T : y <= Max(T)
<1>0. \A y \in T : y \in Int /\ -1 <= y /\ y <= 100
  BY DEF Bound
<1>1. \E x \in T : \A y \in T : x <= y
  <2> DEFINE U == {y + 1 : y \in T}
  <2>1. U \subseteq Nat /\ U # {}
    <3>1. ASSUME NEW y \in T PROVE y + 1 \in Nat
      BY <1>0
    <3> QED BY <3>1
  <2>2. PICK u \in U : \A v \in U : u <= v
    <3> HIDE DEF U
    <3> QED BY <2>1, LeastNat
  <2>3. PICK x \in T : u = x + 1
    BY <2>2
  <2>4. ASSUME NEW y \in T PROVE x <= y
    <3>1. y + 1 \in U
      OBVIOUS
    <3>2. x + 1 <= y + 1
      BY <3>1, <2>2, <2>3
    <3> QED BY <3>2, <1>0
  <2> QED BY <2>4
<1>2. \E x \in T : \A y \in T : x >= y
  <2> DEFINE U == {100 - y : y \in T}
  <2>1. U \subseteq Nat /\ U # {}
    <3>1. ASSUME NEW y \in T PROVE 100 - y \in Nat
      BY <1>0
    <3> QED BY <3>1
  <2>2. PICK u \in U : \A v \in U : u <= v
    <3> HIDE DEF U
    <3> QED BY <2>1, LeastNat
  <2>3. PICK x \in T : u = 100 - x
    BY <2>2
  <2>4. ASSUME NEW y \in T PROVE x >= y
    <3>1. 100 - y \in U
      OBVIOUS
    <3>2. 100 - x <= 100 - y
      BY <3>1, <2>2, <2>3
    <3> QED BY <3>2, <1>0
  <2> QED BY <2>4
<1>3. Min(T) \in T /\ \A y \in T : Min(T) <= y
  BY <1>1 DEF Min
<1>4. Max(T) \in T /\ \A y \in T : Max(T) >= y
  BY <1>2 DEF Max
<1> QED BY <1>0, <1>3, <1>4

\* What one more number does to the bounds.
LEMMA OneMore ==
    ASSUME NEW T, T \subseteq Bound, T # {}, NEW n \in Number
    PROVE  /\ Min(T \cup {n}) = IF n < Min(T) THEN n ELSE Min(T)
           /\ Max(T \cup {n}) = IF n > Max(T) THEN n ELSE Max(T)
<1> DEFINE U == T \cup {n}
<1>1. U \subseteq Bound /\ U # {}
  BY DEF Number, Bound
<1>2. /\ Min(T) \in T /\ \A y \in T : Min(T) <= y
      /\ Max(T) \in T /\ \A y \in T : y <= Max(T)
  BY Extremes
<1>3. /\ Min(U) \in U /\ \A y \in U : Min(U) <= y
      /\ Max(U) \in U /\ \A y \in U : y <= Max(U)
  <2> HIDE DEF U
  <2> QED BY <1>1, Extremes
<1>4. /\ n \in Int /\ Min(T) \in Int /\ Max(T) \in Int /\ Min(U) \in Int /\ Max(U) \in Int
      /\ n \in U /\ Min(T) \in U /\ Max(T) \in U
      /\ (Min(U) \in T \/ Min(U) = n) /\ (Max(U) \in T \/ Max(U) = n)
  BY <1>1, <1>2, <1>3 DEF Bound
<1>5. Min(U) <= n /\ Min(U) <= Min(T) /\ (Min(U) = n \/ Min(T) <= Min(U))
  BY <1>2, <1>3, <1>4
<1>6. n <= Max(U) /\ Max(T) <= Max(U) /\ (Max(U) = n \/ Max(U) <= Max(T))
  BY <1>2, <1>3, <1>4
<1>7. Min(U) = IF n < Min(T) THEN n ELSE Min(T)
  <2> HIDE DEF U
  <2> QED BY <1>4, <1>5
<1>8. Max(U) = IF n > Max(T) THEN n ELSE Max(T)
  <2> HIDE DEF U
  <2> QED BY <1>4, <1>6
<1> QED BY <1>7, <1>8

\* The values the loop begins with are no bounds of a line that has a number.
LEMMA StartsOutside ==
    ASSUME NEW T, T \subseteq Number, T # {}
    PROVE  Min(T \cup {100}) = Min(T) /\ Max(T \cup {-1}) = Max(T)
<1>1. \A y \in T : y \in Int /\ 0 <= y /\ y <= 99
  BY DEF Number
<1>2. T \subseteq Bound /\ T \cup {100} \subseteq Bound /\ T \cup {-1} \subseteq Bound
  BY DEF Number, Bound
<1>3. /\ Min(T) \in T /\ \A y \in T : Min(T) <= y
      /\ Max(T) \in T /\ \A y \in T : y <= Max(T)
  BY <1>2, Extremes
<1>4. /\ Min(T \cup {100}) \in T \cup {100}
      /\ \A y \in T \cup {100} : Min(T \cup {100}) <= y
  BY <1>2, Extremes
<1>5. /\ Max(T \cup {-1}) \in T \cup {-1}
      /\ \A y \in T \cup {-1} : y <= Max(T \cup {-1})
  BY <1>2, Extremes
<1>6. ASSUME NEW lo, NEW m \in T, lo \in T \cup {100}, lo <= m, lo \in T => m <= lo
      PROVE  lo = m
  BY <1>1, <1>6
<1>7. ASSUME NEW hi, NEW m \in T, hi \in T \cup {-1}, m <= hi, hi \in T => hi <= m
      PROVE  hi = m
  BY <1>1, <1>7
<1>8. Min(T \cup {100}) = Min(T)
  BY <1>3, <1>4, <1>6
<1>9. Max(T \cup {-1}) = Max(T)
  BY <1>3, <1>5, <1>7
<1> QED BY <1>8, <1>9

\* The last of some positions, and of the positions up to k.
LEMMA LastPosition ==
    ASSUME NEW n \in Nat, NEW s \in SUBSET (1 .. n), s # {}
    PROVE  Max(s) \in s
<1> DEFINE U == {n - x : x \in s}
<1>1. U \subseteq Nat /\ U # {}
  <2>1. ASSUME NEW x \in s PROVE n - x \in Nat
    OBVIOUS
  <2> QED BY <2>1
<1>2. PICK u \in U : \A v \in U : u <= v
  <2> HIDE DEF U
  <2> QED BY <1>1, LeastNat
<1>3. PICK x \in s : u = n - x
  BY <1>2
<1>4. ASSUME NEW y \in s PROVE x >= y
  <2>1. n - x <= n - y
    BY <1>2, <1>3
  <2> QED BY <2>1
<1> QED BY <1>4 DEF Max

LEMMA MaxUpTo ==
    ASSUME NEW k \in Nat \ {0}
    PROVE  (1 .. k) \ {Max(1 .. k)} = 1 .. (k - 1)
<1>1. k \in 1 .. k /\ \A y \in 1 .. k : k >= y
  OBVIOUS
<1>2. Max(1 .. k) \in 1 .. k /\ \A y \in 1 .. k : Max(1 .. k) >= y
  BY <1>1 DEF Max
<1>3. Max(1 .. k) = k
  BY <1>1, <1>2
<1> QED BY <1>3

\* The bounds of the numbers at the positions of s, with those the loop begins with.
Bounds(line, s) == <<Min({line[j] : j \in s} \cup {100}), Max({line[j] : j \in s} \cup {-1})>>

\* One turn of the loop, from the bounds b at position x of the line.
Turn(line, x, b) ==
    <<IF line[x] < b[1] THEN line[x] ELSE b[1], IF line[x] > b[2] THEN line[x] ELSE b[2]>>

\* What the recursion of the fold says of a function from sets of positions to bounds.
Folded(line, f) ==
    f = [s \in SUBSET DOMAIN line |->
            IF s = {} THEN <<100, -1>> ELSE Turn(line, Max(s), f[s \ {Max(s)}])]

\* The bounds at any positions are one turn away from those without the last position.
LEMMA BoundsFolded ==
    ASSUME NEW line \in Seq(Number)
    PROVE  Folded(line, [s \in SUBSET DOMAIN line |-> Bounds(line, s)])
<1> DEFINE D == DOMAIN line
           f == [s \in SUBSET D |-> Bounds(line, s)]
<1>1. /\ Len(line) \in Nat /\ D = 1 .. Len(line)
      /\ \A x \in D : x \in Int /\ line[x] \in Number
  OBVIOUS
<1>2. Bounds(line, {}) = <<100, -1>>
  <2>1. {line[j] : j \in {}} \cup {100} = {100} /\ {line[j] : j \in {}} \cup {-1} = {-1}
    OBVIOUS
  <2>2. Min({100}) = 100 /\ Max({-1}) = -1
    BY DEF Min, Max
  <2> QED BY <2>1, <2>2 DEF Bounds
<1>3. ASSUME NEW s \in SUBSET D, s # {}
      PROVE  Bounds(line, s) = Turn(line, Max(s), Bounds(line, s \ {Max(s)}))
  <2> DEFINE x == Max(s)
             rest == s \ {x}
             lo == {line[j] : j \in rest} \cup {100}
             hi == {line[j] : j \in rest} \cup {-1}
  <2>1. x \in s
    BY <1>1, <1>3, LastPosition
  <2>2. line[x] \in Number /\ lo \subseteq Bound /\ hi \subseteq Bound /\ lo # {} /\ hi # {}
    <3>1. \A j \in rest : line[j] \in Number
      BY <1>1
    <3>2. Number \subseteq Bound /\ 100 \in Bound /\ -1 \in Bound
      BY DEF Number, Bound
    <3> QED BY <1>1, <2>1, <3>1, <3>2
  <2>3. /\ {line[j] : j \in s} \cup {100} = lo \cup {line[x]}
        /\ {line[j] : j \in s} \cup {-1} = hi \cup {line[x]}
    BY <2>1
  <2>4. /\ Min(lo \cup {line[x]}) = IF line[x] < Min(lo) THEN line[x] ELSE Min(lo)
        /\ Max(hi \cup {line[x]}) = IF line[x] > Max(hi) THEN line[x] ELSE Max(hi)
    <3> HIDE DEF x, lo, hi
    <3> QED BY <2>2, OneMore
  <2>5. Bounds(line, s) = <<Min(lo \cup {line[x]}), Max(hi \cup {line[x]})>>
    BY <2>3 DEF Bounds
  <2>6. Bounds(line, rest) = <<Min(lo), Max(hi)>>
    BY DEF Bounds
  <2> QED BY <2>4, <2>5, <2>6 DEF Turn
<1>4. ASSUME NEW s \in SUBSET D
      PROVE  f[s] = IF s = {} THEN <<100, -1>> ELSE Turn(line, Max(s), f[s \ {Max(s)}])
  <2>1. f[s] = Bounds(line, s) /\ f[s \ {Max(s)}] = Bounds(line, s \ {Max(s)})
    OBVIOUS
  <2> QED BY <1>2, <1>3, <2>1
<1> QED
  <2> HIDE DEF f
  <2>1. f = [s \in SUBSET D |-> f[s]]
    BY DEF f
  <2>2. f = [s \in SUBSET D |->
               IF s = {} THEN <<100, -1>> ELSE Turn(line, Max(s), f[s \ {Max(s)}])]
    BY <1>4, <2>1
  <2> QED BY <2>2 DEF Folded, f

\* A function that the recursion allows gives those bounds for the whole line.
LEMMA FoldedBounds ==
    ASSUME NEW line \in Seq(Number), NEW f, Folded(line, f)
    PROVE  f[DOMAIN line] = Bounds(line, DOMAIN line)
<1> DEFINE n == Len(line)
           g == [s \in SUBSET DOMAIN line |-> Bounds(line, s)]
           T == {k \in 0 .. n : f[1 .. k] # g[1 .. k]}
<1>1. n \in Nat /\ DOMAIN line = 1 .. n
  OBVIOUS
<1>2. Folded(line, g)
  BY BoundsFolded
<1>3. ASSUME T # {} PROVE FALSE
  <2>1. PICK k \in T : \A j \in T : k <= j
    <3> T \subseteq Nat
      BY <1>1
    <3> HIDE DEF T
    <3> QED BY <1>3, LeastNat
  <2>2. k \in 0 .. n /\ f[1 .. k] # g[1 .. k] /\ 1 .. k \in SUBSET DOMAIN line
    BY <1>1, <2>1
  <2> HIDE DEF g
  <2>3. /\ f[1 .. k] = IF 1 .. k = {} THEN <<100, -1>>
                       ELSE Turn(line, Max(1 .. k), f[(1 .. k) \ {Max(1 .. k)}])
        /\ g[1 .. k] = IF 1 .. k = {} THEN <<100, -1>>
                       ELSE Turn(line, Max(1 .. k), g[(1 .. k) \ {Max(1 .. k)}])
    BY <1>2, <2>2 DEF Folded
  <2>4. CASE k = 0
    BY <2>2, <2>3, <2>4
  <2>5. CASE k # 0
    <3>1. k \in Nat \ {0} /\ k - 1 \in 0 .. n /\ ~ (k <= k - 1)
      BY <1>1, <2>2, <2>5
    <3>2. (1 .. k) \ {Max(1 .. k)} = 1 .. (k - 1)
      BY <3>1, MaxUpTo
    <3>3. k - 1 \notin T
      BY <2>1, <3>1
    <3>4. f[1 .. (k - 1)] = g[1 .. (k - 1)]
      BY <3>1, <3>3
    <3> QED BY <2>2, <2>3, <3>2, <3>4, <3>1
  <2> QED BY <2>4, <2>5
<1>4. f[1 .. n] = g[1 .. n]
  BY <1>1, <1>3
<1> QED BY <1>1, <1>4

\* analyze_line() returns the smallest and the largest number of the line, whatever the
\* numbers and however many.
THEOREM BoundsFound ==
    ASSUME NEW line \in Seq(Number), line # <<>>
    PROVE  analyze_line(line) = <<Min(Range(line)), Max(Range(line))>>
<1>1. PICK f : Folded(line, f)
  BY BoundsFolded
<1>2. \E g : Folded(line, g) /\ analyze_line(line) = g[DOMAIN line]
  BY <1>1 DEF analyze_line, FoldLeft, MapThenFoldSet, Folded, Turn
<1>3. analyze_line(line) = Bounds(line, DOMAIN line)
  BY <1>2, FoldedBounds
<1> DEFINE T == {line[j] : j \in DOMAIN line}
<1>4. T \subseteq Bound /\ T # {} /\ T = Range(line) /\ T \subseteq Number
  <2>1. 1 \in DOMAIN line
    BY EmptySeq, LenProperties
  <2>2. \A j \in DOMAIN line : line[j] \in Number
    OBVIOUS
  <2>3. Number \subseteq Bound
    BY DEF Number, Bound
  <2>4. T = Range(line)
    BY DEF Range
  <2> QED BY <2>1, <2>2, <2>3, <2>4
<1>5. Min(T \cup {100}) = Min(T) /\ Max(T \cup {-1}) = Max(T)
  <2> HIDE DEF T
  <2> QED BY <1>4, StartsOutside
<1> QED BY <1>3, <1>4, <1>5 DEF Bounds

\* They are numbers of the line.
LEMMA PairFound ==
    ASSUME NEW line \in Seq(Number) \ {<<>>}
    PROVE  /\ analyze_line(line) \in Number \X Number
           /\ Min(Range(line)) \in Range(line) /\ Max(Range(line)) \in Range(line)
           /\ \A n \in Range(line) : Min(Range(line)) <= n /\ n <= Max(Range(line))
<1>1. Range(line) \subseteq Number /\ Range(line) # {}
  <2>1. 1 \in DOMAIN line
    BY EmptySeq, LenProperties
  <2>2. \A j \in DOMAIN line : line[j] \in Number
    OBVIOUS
  <2> QED BY <2>1, <2>2 DEF Range
<1>2. Number \subseteq Bound
  BY DEF Number, Bound
<1> QED BY <1>1, <1>2, BoundsFound, Extremes

=============================================================================
