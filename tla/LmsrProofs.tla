----------------------------- MODULE LmsrProofs -----------------------------
(***************************************************************************)
(* What the market maker guarantees for every table, precision, b and      *)
(* width: the cost is a number, and calc_shares_out never returns more     *)
(* shares than the amount pays for.                                        *)
(*                                                                         *)
(* The loop is a recursive function.  The induction over its iterations    *)
(* is SetInduction, which speaks of sets instead of predicates;            *)
(* SearchRuns shows that the recursive definition has a solution.          *)
(***************************************************************************)
EXTENDS Lmsr, WellFoundedInduction, TLAPS

LEMMA SetInduction ==
    ASSUME NEW S, 0 \in S, \A n \in Nat : n \in S => n + 1 \in S
    PROVE  Nat \subseteq S
<1> DEFINE T == Nat \ S
           R == {p \in Nat \X Nat : p[1] < p[2]}
<1>1. OpToRel(<, Nat) = R
  BY DEF OpToRel
<1>2. IsWellFoundedOn(R, Nat)
  BY <1>1, NatLessThanWellFounded
<1>3. SUFFICES ASSUME T # {} PROVE FALSE
  OBVIOUS
<1>4. PICK x \in T : \A y \in T : <<y, x>> \notin R
  BY <1>2, <1>3, WFMin
<1>5. x \in Nat /\ x # 0
  BY <1>4
<1>6. x - 1 \in Nat /\ <<x - 1, x>> \in R
  BY <1>5
<1>7. x - 1 \in S
  BY <1>4, <1>6
<1>8. (x - 1) + 1 \in S
  BY <1>6, <1>7
<1> QED
  BY <1>4, <1>5, <1>8

-----------------------------------------------------------------------------
(* Rounding down.                                                          *)

LEMMA FloorBounds ==
    ASSUME NEW n \in Nat, NEW d \in Nat \ {0}
    PROVE  /\ n \div d \in Nat
           /\ d * (n \div d) <= n
           /\ \A m \in Nat : d * m <= n => m <= n \div d
<1> DEFINE q == n \div d
<1>1. q \in Int /\ n % d \in 0..(d - 1) /\ n = d * q + (n % d)
  OBVIOUS
<1> HIDE DEF q
<1>2. d * q <= n /\ n < d * q + d
  BY <1>1
<1>3. ASSUME NEW m \in Int, d * m <= n
      PROVE  m <= q
  <2>1. SUFFICES ASSUME m >= q + 1 PROVE FALSE
    BY <1>1
  <2>2. d * m >= d * (q + 1)
    BY <1>1, <2>1
  <2>3. d * (q + 1) = d * q + d
    BY <1>1
  <2> QED
    BY <1>1, <1>2, <1>3, <2>2, <2>3
<1>4. 0 <= q
  <2>1. d * 0 <= n
    OBVIOUS
  <2> QED
    BY <1>3, <2>1
<1> QED
  BY <1>1, <1>2, <1>3, <1>4 DEF q

LEMMA FloorRises ==
    ASSUME NEW m \in Nat, NEW n \in Nat, NEW d \in Nat \ {0}, m <= n
    PROVE  m \div d <= n \div d
<1>1. m \div d \in Nat /\ d * (m \div d) <= m
  BY FloorBounds
<1>2. d * (m \div d) <= n
  BY <1>1
<1> QED
  BY <1>1, <1>2, FloorBounds

LEMMA Scaled ==
    ASSUME NEW b \in Nat, NEW m \in Nat, NEW n \in Nat, m <= n
    PROVE  b * m \in Nat /\ b * m <= b * n
<1>1. b * (n - m) >= 0
  OBVIOUS
<1> QED
  BY <1>1

\* A factor can be taken off both sides.
LEMMA Cancelled ==
    ASSUME NEW b \in Nat \ {0}, NEW m \in Int, NEW n \in Int, b * m <= b * n
    PROVE  m <= n
<1>1. SUFFICES ASSUME m >= n + 1 PROVE FALSE
  OBVIOUS
<1>2. b * (m - n) >= b * 1
  <2>1. m - n >= 1
    BY <1>1
  <2> QED
    BY <2>1
<1> QED
  BY <1>2

-----------------------------------------------------------------------------
(* The cost.                                                               *)

LEMMA DivBounds ==
    ASSUME NEW x \in Nat, NEW p \in Nat \ {0}, x < 10 * p
    PROVE  x \div p \in 0..9
<1> DEFINE y == x \div p
<1>1. y \in Int /\ x % p \in 0..(p - 1) /\ x = p * y + (x % p)
  OBVIOUS
<1> HIDE DEF y
<1>2. ASSUME y >= 10 PROVE FALSE
  <2>1. p * (y - 10) >= 0
    BY <1>1, <1>2
  <2>2. p * (y - 10) = p * y - 10 * p
    BY <1>1
  <2> QED
    BY <1>1, <2>1, <2>2
<1>3. ASSUME y < 0 PROVE FALSE
  <2>1. p * (y + 1) <= 0
    BY <1>1, <1>3
  <2>2. p * (y + 1) = p * y + p
    BY <1>1
  <2> QED
    BY <1>1, <2>1, <2>2
<1> QED
  BY <1>1, <1>2, <1>3 DEF y

LEMMA TableFalls ==
    ASSUME NEW j \in 1..11, NEW l \in 1..11, j <= l
    PROVE  TABLE[l] <= TABLE[j] /\ TABLE[l] \in Nat /\ TABLE[j] \in Nat
<1> DEFINE Below == {n \in Nat : j + n \in 1..11 => TABLE[j + n] <= TABLE[j]}
<1>1. \A n \in 1..11 : TABLE[n] \in Nat
  BY LmsrAssumption
<1>2. 0 \in Below
  BY <1>1
<1>3. ASSUME NEW n \in Nat, n \in Below
      PROVE  n + 1 \in Below
  <2> SUFFICES ASSUME j + (n + 1) \in 1..11
               PROVE  TABLE[j + (n + 1)] <= TABLE[j]
    OBVIOUS
  <2>1. j + n \in 1..10 /\ j + (n + 1) = (j + n) + 1
    OBVIOUS
  <2>2. TABLE[(j + n) + 1] <= TABLE[j + n]
    BY <2>1, LmsrAssumption
  <2>3. TABLE[j + n] <= TABLE[j]
    BY <1>3, <2>1
  <2> QED
    BY <1>1, <2>1, <2>2, <2>3
<1> HIDE DEF Below
<1>4. Nat \subseteq Below
  BY <1>2, <1>3, SetInduction
<1>5. l - j \in Nat /\ j + (l - j) = l
  OBVIOUS
<1>6. TABLE[l] <= TABLE[j]
  BY <1>4, <1>5 DEF Below
<1> QED
  BY <1>1, <1>6

\* What is taken off between two points of the table: nothing at the first,
\* never more than the step between them.
Drop(x) ==
    ((TABLE[x \div PRECISION + 1] - TABLE[x \div PRECISION + 2]) * (x % PRECISION))
        \div PRECISION

LEMMA InTheTable ==
    ASSUME NEW x \in Nat, x < 10 * PRECISION
    PROVE  LET k  == x \div PRECISION
               lo == TABLE[k + 1]
               hi == TABLE[k + 2]
           IN  /\ k \in 0..9 /\ x % PRECISION \in 0..(PRECISION - 1)
               /\ x = PRECISION * k + (x % PRECISION)
               /\ lo \in Nat /\ hi \in Nat /\ hi <= lo
               /\ (lo - hi) * (x % PRECISION) \in Nat
               /\ Drop(x) \in 0..(lo - hi)
               /\ SoftplusNeg(x) = lo - Drop(x)
<1> DEFINE k    == x \div PRECISION
           lo   == TABLE[k + 1]
           hi   == TABLE[k + 2]
           frac == x % PRECISION
<1>1. PRECISION \in Nat \ {0}
  BY LmsrAssumption
<1>2. k \in 0..9 /\ frac \in 0..(PRECISION - 1) /\ x = PRECISION * k + frac
  BY <1>1, DivBounds
<1>3. lo \in Nat /\ hi \in Nat /\ hi <= lo
  <2> HIDE DEF k
  <2>1. k + 1 \in 1..11 /\ k + 2 \in 1..11 /\ k + 1 <= k + 2
    BY <1>2
  <2> QED
    BY <2>1, TableFalls
<1>4. SoftplusNeg(x) = lo - Drop(x)
  BY <1>1 DEF SoftplusNeg, Drop
<1>5. Drop(x) = ((lo - hi) * frac) \div PRECISION
  BY DEF Drop
<1> HIDE DEF k, lo, hi, frac
<1>6. (lo - hi) * frac \in Nat /\ (lo - hi) * frac <= (lo - hi) * PRECISION
  <2>1. lo - hi \in Nat /\ frac \in Nat /\ frac <= PRECISION
    BY <1>1, <1>2, <1>3
  <2> QED
    BY <1>1, <2>1, Scaled
<1>7. Drop(x) \in Nat /\ PRECISION * Drop(x) <= PRECISION * (lo - hi)
  <2> DEFINE n == (lo - hi) * frac
  <2>1. n \in Nat /\ n <= PRECISION * (lo - hi)
    BY <1>1, <1>3, <1>6
  <2>2. Drop(x) = n \div PRECISION
    BY <1>5
  <2> HIDE DEF n
  <2>3. Drop(x) \in Nat /\ PRECISION * Drop(x) <= n
    BY <1>1, <2>1, <2>2, FloorBounds
  <2>4. PRECISION * Drop(x) \in Int /\ PRECISION * (lo - hi) \in Int
    BY <1>1, <1>3, <2>3
  <2> QED
    BY <2>1, <2>3, <2>4
<1>8. Drop(x) \in 0..(lo - hi)
  BY <1>1, <1>3, <1>7, Cancelled
<1> QED
  BY <1>2, <1>3, <1>4, <1>6, <1>8 DEF k, lo, hi, frac

LEMMA SoftplusNegNat ==
    ASSUME NEW x \in Nat
    PROVE  SoftplusNeg(x) \in Nat
<1>1. CASE x >= 10 * PRECISION
  BY <1>1 DEF SoftplusNeg
<1>2. CASE x < 10 * PRECISION
  <2> DEFINE lo == TABLE[x \div PRECISION + 1]
             hi == TABLE[x \div PRECISION + 2]
  <2>1. lo \in Nat /\ hi \in Nat /\ Drop(x) \in 0..(lo - hi)
        /\ SoftplusNeg(x) = lo - Drop(x)
    BY <1>2, InTheTable
  <2> HIDE DEF lo, hi
  <2> QED
    BY <2>1
<1> QED
  BY <1>1, <1>2, LmsrAssumption

\* The interpolation never rises, neither within a step of the table nor from
\* one step to the next.
LEMMA SoftplusNegFalls ==
    ASSUME NEW x \in Nat, NEW y \in Nat, x <= y
    PROVE  SoftplusNeg(y) <= SoftplusNeg(x)
<1>1. PRECISION \in Nat \ {0}
  BY LmsrAssumption
<1>2. CASE y >= 10 * PRECISION
  BY <1>2, SoftplusNegNat DEF SoftplusNeg
<1>3. CASE y < 10 * PRECISION
  <2> DEFINE j == x \div PRECISION
             k == y \div PRECISION
             r == x % PRECISION
             s == y % PRECISION
  <2>1. x < 10 * PRECISION
    BY <1>1, <1>3
  <2>2. /\ j \in 0..9 /\ r \in 0..(PRECISION - 1) /\ x = PRECISION * j + r
        /\ TABLE[j + 1] \in Nat /\ TABLE[j + 2] \in Nat
        /\ Drop(x) \in 0..(TABLE[j + 1] - TABLE[j + 2])
        /\ (TABLE[j + 1] - TABLE[j + 2]) * r \in Nat
        /\ SoftplusNeg(x) = TABLE[j + 1] - Drop(x)
    BY <2>1, InTheTable
  <2>3. /\ k \in 0..9 /\ s \in 0..(PRECISION - 1) /\ y = PRECISION * k + s
        /\ TABLE[k + 1] \in Nat /\ TABLE[k + 2] \in Nat
        /\ TABLE[k + 2] <= TABLE[k + 1]
        /\ Drop(y) \in 0..(TABLE[k + 1] - TABLE[k + 2])
        /\ (TABLE[k + 1] - TABLE[k + 2]) * s \in Nat
        /\ SoftplusNeg(y) = TABLE[k + 1] - Drop(y)
    BY <1>3, InTheTable
  <2>4. j <= k
    BY <1>1, FloorRises
  <2>5. Drop(x) = ((TABLE[j + 1] - TABLE[j + 2]) * r) \div PRECISION
        /\ Drop(y) = ((TABLE[k + 1] - TABLE[k + 2]) * s) \div PRECISION
    BY DEF Drop
  <2> HIDE DEF j, k, r, s
  <2>6. CASE j = k
    <3>1. r <= s
      BY <1>1, <2>2, <2>3, <2>6
    <3>2. (TABLE[k + 1] - TABLE[k + 2]) * r <= (TABLE[k + 1] - TABLE[k + 2]) * s
      <4>1. TABLE[k + 1] - TABLE[k + 2] \in Nat /\ r \in Nat /\ s \in Nat
        BY <1>1, <2>2, <2>3
      <4> QED
        BY <3>1, <4>1, Scaled
    <3>3. Drop(x) <= Drop(y)
      BY <1>1, <2>2, <2>3, <2>5, <2>6, <3>2, FloorRises
    <3> QED
      BY <2>2, <2>3, <2>6, <3>3
  <2>7. CASE j < k
    <3>1. TABLE[k + 1] <= TABLE[j + 2]
      <4>1. j + 2 \in 1..11 /\ k + 1 \in 1..11 /\ j + 2 <= k + 1
        BY <2>2, <2>3, <2>7
      <4> QED
        BY <4>1, TableFalls
    <3> QED
      BY <2>2, <2>3, <3>1
  <2> QED
    BY <2>2, <2>3, <2>4, <2>6, <2>7
<1> QED
  BY <1>1, <1>2, <1>3

\* It falls by at most one for each step of x, since ln 2 is less than one.
LEMMA SoftplusNegSlope ==
    ASSUME NEW x \in Nat
    PROVE  SoftplusNeg(x) >= TABLE[1] - x
<1>1. PRECISION \in Nat \ {0} /\ TABLE[1] \in Nat /\ TABLE[1] <= PRECISION
      /\ TABLE[2] \in Nat /\ TABLE[2] <= TABLE[1]
  <2>1. TABLE[1 + 1] <= TABLE[1]
    BY LmsrAssumption
  <2> QED
    BY <2>1, LmsrAssumption
<1>2. CASE x >= PRECISION
  BY <1>1, <1>2, SoftplusNegNat
<1>3. CASE x < PRECISION
  <2>1. x < 10 * PRECISION
    BY <1>1, <1>3
  <2>2. x \div PRECISION = 0 /\ x % PRECISION = x
    BY <1>1, <1>3
  <2>3. /\ SoftplusNeg(x) = TABLE[1] - Drop(x)
        /\ (TABLE[1] - TABLE[2]) * x \in Nat
        /\ Drop(x) \in Int
    <3>1. TABLE[x \div PRECISION + 1] = TABLE[1]
          /\ TABLE[x \div PRECISION + 2] = TABLE[2]
      BY <2>2
    <3> QED
      BY <2>1, <2>2, <3>1, InTheTable
  <2>4. Drop(x) = ((TABLE[1] - TABLE[2]) * x) \div PRECISION
    BY <2>2 DEF Drop
  <2>5. PRECISION * Drop(x) <= (TABLE[1] - TABLE[2]) * x
    BY <1>1, <2>3, <2>4, FloorBounds
  <2>6. (TABLE[1] - TABLE[2]) * x <= PRECISION * x
    <3>1. x * (TABLE[1] - TABLE[2]) <= x * PRECISION
      BY <1>1, Scaled
    <3> QED
      BY <1>1, <3>1
  <2>7. PRECISION * Drop(x) <= PRECISION * x
    BY <1>1, <2>3, <2>5, <2>6
  <2>8. Drop(x) <= x
    BY <1>1, <2>3, <2>7, Cancelled
  <2> QED
    BY <1>1, <2>3, <2>8
<1> QED
  BY <1>1, <1>2, <1>3

LEMMA SpreadParts ==
    ASSUME NEW q \in Supplies
    PROVE  LET d == Distance(q["Yes"], q["No"])
               x == (d * PRECISION) \div LMSR_B
           IN  /\ d \in Nat /\ d <= Larger(q["Yes"], q["No"])
               /\ Larger(q["Yes"], q["No"]) \in Nat
               /\ d * PRECISION \in Nat
               /\ x \in Nat /\ LMSR_B * x <= d * PRECISION
               /\ LMSR_B * SoftplusNeg(x) \in Nat
               /\ Spread(q) = (LMSR_B * SoftplusNeg(x)) \div PRECISION
               /\ Spread(q) \in Nat
<1> DEFINE d == Distance(q["Yes"], q["No"])
           x == (d * PRECISION) \div LMSR_B
<1>1. d \in Nat /\ d <= Larger(q["Yes"], q["No"])
      /\ Larger(q["Yes"], q["No"]) \in Nat
  BY DEF Supplies, Outcome, Distance, Larger
<1>2. Spread(q) = (LMSR_B * SoftplusNeg(x)) \div PRECISION
  BY DEF Spread
<1>3. LMSR_B \in Nat \ {0} /\ PRECISION \in Nat \ {0}
  BY LmsrAssumption
<1> HIDE DEF d
<1>4. d * PRECISION \in Nat
  BY <1>1, <1>3
<1>5. x \in Nat /\ LMSR_B * x <= d * PRECISION
  BY <1>3, <1>4, FloorBounds
<1> HIDE DEF x
<1>6. SoftplusNeg(x) \in Nat
  BY <1>5, SoftplusNegNat
<1>7. LMSR_B * SoftplusNeg(x) \in Nat
  BY <1>3, <1>6
<1>8. Spread(q) \in Nat
  BY <1>2, <1>3, <1>7, FloorBounds
<1> QED
  BY <1>1, <1>2, <1>4, <1>5, <1>7, <1>8 DEF d, x

\* The further one supply is ahead, the smaller the spread.
LEMMA SpreadFalls ==
    ASSUME NEW q \in Supplies, NEW r \in Supplies,
           Distance(q["Yes"], q["No"]) <= Distance(r["Yes"], r["No"])
    PROVE  Spread(r) <= Spread(q)
<1> DEFINE d == Distance(q["Yes"], q["No"])
           e == Distance(r["Yes"], r["No"])
           x == (d * PRECISION) \div LMSR_B
           y == (e * PRECISION) \div LMSR_B
<1>1. LMSR_B \in Nat \ {0} /\ PRECISION \in Nat \ {0}
  BY LmsrAssumption
<1>2. /\ d \in Nat /\ d * PRECISION \in Nat /\ x \in Nat
      /\ LMSR_B * SoftplusNeg(x) \in Nat
      /\ Spread(q) = (LMSR_B * SoftplusNeg(x)) \div PRECISION
  BY SpreadParts
<1>3. /\ e \in Nat /\ e * PRECISION \in Nat /\ y \in Nat
      /\ LMSR_B * SoftplusNeg(y) \in Nat
      /\ Spread(r) = (LMSR_B * SoftplusNeg(y)) \div PRECISION
  BY SpreadParts
<1>4. d * PRECISION <= e * PRECISION
  <2>1. d <= e
    OBVIOUS
  <2> HIDE DEF d, e
  <2>2. PRECISION * d <= PRECISION * e
    BY <1>1, <1>2, <1>3, <2>1, Scaled
  <2> QED
    BY <1>1, <1>2, <1>3, <2>2
<1>5. x <= y
  <2> HIDE DEF d, e
  <2> QED
    BY <1>1, <1>2, <1>3, <1>4, FloorRises
<1> HIDE DEF x, y
<1>6. SoftplusNeg(y) <= SoftplusNeg(x)
      /\ SoftplusNeg(x) \in Nat /\ SoftplusNeg(y) \in Nat
  BY <1>2, <1>3, <1>5, SoftplusNegFalls, SoftplusNegNat
<1>7. LMSR_B * SoftplusNeg(y) <= LMSR_B * SoftplusNeg(x)
  BY <1>1, <1>6, Scaled
<1> QED
  BY <1>1, <1>2, <1>3, <1>7, FloorRises

LEMMA CostInt ==
    ASSUME NEW q \in Supplies
    PROVE  Cost(q) \in Int
  BY SpreadParts DEF Cost

LEMMA CostBounds ==
    ASSUME NEW q \in Supplies, NEW o \in Outcome
    PROVE  /\ Cost(q) \in Nat /\ Spread(q) \in Nat
           /\ Cost(q) >= q[o] + Spread(q)
<1>1. Spread(q) \in Nat
  BY SpreadParts
<1>2. q[o] \in Nat /\ q["Yes"] \in Nat /\ q["No"] \in Nat
      /\ q[o] <= Larger(q["Yes"], q["No"])
  BY DEF Supplies, Outcome, Larger
<1> QED
  BY <1>1, <1>2 DEF Cost, Larger

LEMMA EmptySpread ==
    /\ NoShares \in Supplies
    /\ Cost(NoShares) = (LMSR_B * TABLE[1]) \div PRECISION
<1>1. NoShares \in Supplies /\ NoShares["Yes"] = 0 /\ NoShares["No"] = 0
  BY DEF NoShares, Supplies, Outcome
<1>2. LMSR_B \in Nat \ {0} /\ PRECISION \in Nat \ {0} /\ TABLE[1] \in Nat
      /\ TABLE[2] \in Nat
  BY LmsrAssumption
<1>3. (0 * PRECISION) \div LMSR_B = 0
  BY <1>2
<1>4. SoftplusNeg(0) = TABLE[1]
  <2>1. 0 \div PRECISION = 0 /\ 0 % PRECISION = 0 /\ 0 < 10 * PRECISION
    BY <1>2
  <2>2. Drop(0) = ((TABLE[1] - TABLE[2]) * 0) \div PRECISION
    BY <2>1 DEF Drop
  <2>3. Drop(0) = 0
    BY <1>2, <2>1, <2>2
  <2>4. SoftplusNeg(0) = TABLE[0 \div PRECISION + 1] - Drop(0)
    BY <2>1, InTheTable
  <2> QED
    BY <1>2, <2>1, <2>3, <2>4
<1>5. Distance(0, 0) = 0 /\ Larger(0, 0) = 0
  BY DEF Distance, Larger
<1>6. Spread(NoShares) = (LMSR_B * TABLE[1]) \div PRECISION
  BY <1>1, <1>3, <1>4, <1>5 DEF Spread
<1>7. Spread(NoShares) \in Nat
  BY <1>1, SpreadParts
<1>8. Cost(NoShares) = Spread(NoShares)
  BY <1>1, <1>5, <1>7 DEF Cost
<1> QED
  BY <1>1, <1>6, <1>8

\* Nothing is cheaper than an empty market: although the cost may fall when a
\* share is added, it never falls below where it started, so that nobody can
\* be paid out more than all have paid in.
THEOREM EmptyIsCheapest ==
    ASSUME NEW q \in Supplies
    PROVE  Cost(NoShares) <= Cost(q)
<1> DEFINE d == Distance(q["Yes"], q["No"])
           x == (d * PRECISION) \div LMSR_B
           m == (LMSR_B * TABLE[1]) \div PRECISION
<1>1. LMSR_B \in Nat \ {0} /\ PRECISION \in Nat \ {0} /\ TABLE[1] \in Nat
  BY LmsrAssumption
<1>2. /\ d \in Nat /\ d <= Larger(q["Yes"], q["No"])
      /\ Larger(q["Yes"], q["No"]) \in Nat
      /\ x \in Nat /\ LMSR_B * x <= d * PRECISION
      /\ LMSR_B * SoftplusNeg(x) \in Nat
      /\ Spread(q) = (LMSR_B * SoftplusNeg(x)) \div PRECISION
      /\ Spread(q) \in Nat
  BY SpreadParts
<1>3. LMSR_B * TABLE[1] \in Nat
  BY <1>1
<1>4. m \in Nat /\ PRECISION * m <= LMSR_B * TABLE[1]
  BY <1>1, <1>3, FloorBounds
<1>5. Cost(NoShares) = m
  BY EmptySpread
<1> HIDE DEF d, x, m
<1>6. SoftplusNeg(x) \in Nat /\ SoftplusNeg(x) >= TABLE[1] - x
  BY <1>2, SoftplusNegNat, SoftplusNegSlope
<1>7. LMSR_B * SoftplusNeg(x) >= PRECISION * (m - d)
  <2> DEFINE s  == SoftplusNeg(x)
             t1 == TABLE[1]
  <2>0. s \in Nat /\ t1 \in Nat /\ s - (t1 - x) \in Nat
    BY <1>1, <1>2, <1>6
  <2> HIDE DEF s, t1
  <2>1. LMSR_B * (s - (t1 - x)) >= 0
    BY <1>1, <2>0
  <2>2. LMSR_B * (s - (t1 - x)) = (LMSR_B * s - LMSR_B * t1) + LMSR_B * x
    <3>1. LMSR_B * (s - (t1 - x)) = LMSR_B * s - LMSR_B * (t1 - x)
      BY <1>1, <1>2, <2>0
    <3>2. LMSR_B * (t1 - x) = LMSR_B * t1 - LMSR_B * x
      BY <1>1, <1>2, <2>0
    <3>3. LMSR_B * s \in Int /\ LMSR_B * t1 \in Int /\ LMSR_B * x \in Int
      BY <1>1, <1>2, <2>0
    <3> QED
      BY <3>1, <3>2, <3>3
  <2>3. PRECISION * (m - d) = PRECISION * m - d * PRECISION
    BY <1>1, <1>2, <1>4
  <2>4. /\ LMSR_B * x \in Int /\ d * PRECISION \in Int /\ PRECISION * m \in Int
        /\ LMSR_B * TABLE[1] \in Int /\ LMSR_B * SoftplusNeg(x) \in Int
    BY <1>1, <1>2, <1>3, <1>4
  <2>5. LMSR_B * s = LMSR_B * SoftplusNeg(x) /\ LMSR_B * t1 = LMSR_B * TABLE[1]
    BY DEF s, t1
  <2> QED
    BY <1>2, <1>4, <2>1, <2>2, <2>3, <2>4, <2>5
<1>8. m - d <= Spread(q)
  <2>1. CASE m - d <= 0
    BY <1>2, <1>4, <2>1
  <2>2. CASE m - d > 0
    <3> DEFINE n == LMSR_B * SoftplusNeg(x)
    <3>1. n \in Nat /\ PRECISION * (m - d) <= n /\ Spread(q) = n \div PRECISION
      BY <1>2, <1>7
    <3>2. m - d \in Nat
      BY <1>2, <1>4, <2>2
    <3> HIDE DEF n
    <3> QED
      BY <1>1, <3>1, <3>2, FloorBounds
  <2> QED
    BY <1>2, <1>4, <2>1, <2>2
<1> QED
  BY <1>2, <1>4, <1>5, <1>8 DEF Cost

-----------------------------------------------------------------------------
(* The search.                                                             *)

\* What the loop keeps: `best` can be paid for at every moment.
Sound(q, o, amount, s) ==
    /\ s \in [low : Nat, high : Int, best : Nat, ok : BOOLEAN]
    /\ Affordable(q, o, amount, s.best)

LEMMA WithNothing ==
    ASSUME NEW q \in Supplies, NEW o \in Outcome
    PROVE  With(q, o, 0) = q
  BY DEF With, Supplies

LEMMA SearchStartSound ==
    ASSUME NEW q \in Supplies, NEW o \in Outcome, NEW amount \in Nat
    PROVE  Sound(q, o, amount, SearchStart(q, o, amount))
<1> DEFINE s == SearchStart(q, o, amount)
<1>1. amount * MAX_LEVERAGE \in Nat
  BY LmsrAssumption
<1>2. MaxShares(q, o, amount) \in Int
  BY <1>1, LmsrAssumption DEF MaxShares, Smaller, Supplies
<1>3. s \in [low : Nat, high : Int, best : Nat, ok : BOOLEAN] /\ s.best = 0
  BY <1>2 DEF SearchStart, Representable
<1>4. Affordable(q, o, amount, 0)
  BY CostInt, WithNothing DEF Affordable
<1> QED
  BY <1>3, <1>4 DEF Sound

LEMMA SearchStepSound ==
    ASSUME NEW q \in Supplies, NEW o \in Outcome, NEW amount \in Nat,
           NEW s, Sound(q, o, amount, s)
    PROVE  Sound(q, o, amount, SearchStep(q, o, amount, s))
<1> DEFINE mid == s.low + (s.high - s.low) \div 2
           t   == SearchStep(q, o, amount, s)
<1>1. s \in [low : Nat, high : Int, best : Nat, ok : BOOLEAN]
  BY DEF Sound
<1>2. CASE Exhausted(s)
  BY <1>2 DEF SearchStep
<1>3. CASE ~Exhausted(s) /\ ~Representable(With(q, o, mid))
  <2>1. t = [s EXCEPT !.ok = FALSE]
    BY <1>3 DEF SearchStep
  <2> QED
    BY <1>1, <2>1 DEF Sound
<1>4. CASE /\ ~Exhausted(s) /\ Representable(With(q, o, mid))
           /\ Affordable(q, o, amount, mid)
  <2>1. mid \in Nat
    BY <1>1, <1>4 DEF Exhausted
  <2>2. t = [s EXCEPT !.best = mid, !.low = Smaller(mid + 1, U64_MAX)]
    BY <1>4 DEF SearchStep
  <2>3. Smaller(mid + 1, U64_MAX) \in Nat
    BY <2>1, LmsrAssumption DEF Smaller
  <2> HIDE DEF mid
  <2>4. t \in [low : Nat, high : Int, best : Nat, ok : BOOLEAN] /\ t.best = mid
    BY <1>1, <2>1, <2>2, <2>3
  <2> QED
    BY <1>4, <2>4 DEF Sound
<1>5. CASE /\ ~Exhausted(s) /\ Representable(With(q, o, mid))
           /\ ~Affordable(q, o, amount, mid)
  <2>1. mid \in Nat
    BY <1>1, <1>5 DEF Exhausted
  <2>2. t = [s EXCEPT !.high = Larger(mid - 1, 0)]
    BY <1>5 DEF SearchStep
  <2>3. Larger(mid - 1, 0) \in Int
    BY <2>1 DEF Larger
  <2> QED
    BY <1>1, <2>2, <2>3 DEF Sound
<1> QED
  BY <1>2, <1>3, <1>4, <1>5

\* f holds the search after each of N iterations.
IsRun(f, N, q, o, amount) ==
    \A n \in 0..N : f[n] = IF n = 0 THEN SearchStart(q, o, amount)
                           ELSE SearchStep(q, o, amount, f[n - 1])

\* The loop can be run for any number of iterations.
LEMMA SearchRuns ==
    ASSUME NEW q, NEW o, NEW amount, NEW N \in Nat
    PROVE  \E f : f = [n \in 0..N |-> f[n]] /\ IsRun(f, N, q, o, amount)
<1> DEFINE Solves(f, m) == f = [n \in 0..m |-> f[n]] /\ IsRun(f, m, q, o, amount)
           Done == {m \in Nat : \E f : Solves(f, m)}
<1>1. 0 \in Done
  <2> DEFINE f == [n \in 0..0 |-> SearchStart(q, o, amount)]
  <2>1. Solves(f, 0)
    BY DEF IsRun
  <2> QED
    BY <2>1
<1>2. ASSUME NEW m \in Nat, m \in Done
      PROVE  m + 1 \in Done
  <2>1. PICK f : Solves(f, m)
    BY <1>2
  <2> DEFINE g == [n \in 0..(m + 1) |->
                     IF n = m + 1 THEN SearchStep(q, o, amount, f[m]) ELSE f[n]]
  <2>2. ASSUME NEW n \in 0..(m + 1)
        PROVE  g[n] = IF n = 0 THEN SearchStart(q, o, amount)
                      ELSE SearchStep(q, o, amount, g[n - 1])
    <3>1. CASE n = m + 1
      <4>1. g[n] = SearchStep(q, o, amount, f[m]) /\ n # 0
        BY <3>1
      <4>2. n - 1 \in 0..(m + 1) /\ n - 1 # m + 1 /\ n - 1 = m
        BY <3>1
      <4> QED
        BY <4>1, <4>2
    <3>2. CASE n # m + 1
      <4>1. n \in 0..m /\ g[n] = f[n]
        BY <3>2
      <4>2. f[n] = IF n = 0 THEN SearchStart(q, o, amount)
                   ELSE SearchStep(q, o, amount, f[n - 1])
        BY <2>1, <4>1 DEF IsRun
      <4>3. n # 0 => n - 1 \in 0..(m + 1) /\ g[n - 1] = f[n - 1]
        BY <4>1
      <4> QED
        BY <4>1, <4>2, <4>3
    <3> QED
      BY <3>1, <3>2
  <2>3. g = [n \in 0..(m + 1) |-> g[n]]
    OBVIOUS
  <2> HIDE DEF g
  <2>4. Solves(g, m + 1)
    BY <2>2, <2>3 DEF IsRun
  <2> QED
    BY <2>4
<1> HIDE DEF Done
<1>3. Nat \subseteq Done
  BY <1>1, <1>2, SetInduction
<1> QED
  BY <1>3 DEF Done

\* What the market calls is the last state of such a run.
LEMMA SearchedRuns ==
    ASSUME NEW q, NEW o, NEW amount
    PROVE  \E f : /\ IsRun(f, ITERATIONS, q, o, amount)
                  /\ Searched(q, o, amount) = f[ITERATIONS]
<1> DEFINE Solution(f) ==
             f = [n \in 0..ITERATIONS |->
                    IF n = 0 THEN SearchStart(q, o, amount)
                    ELSE SearchStep(q, o, amount, f[n - 1])]
           after == CHOOSE f : Solution(f)
<1>1. ITERATIONS \in Nat
  BY LmsrAssumption
<1>2. \E f : Solution(f)
  <2>1. PICK f : f = [n \in 0..ITERATIONS |-> f[n]] /\ IsRun(f, ITERATIONS, q, o, amount)
    BY <1>1, SearchRuns
  <2>2. Solution(f)
    BY <2>1 DEF IsRun
  <2> QED
    BY <2>2
<1>3. Solution(after)
  BY <1>2
<1>4. Searched(q, o, amount) = after[ITERATIONS]
  BY DEF Searched, after, Solution
<1> HIDE DEF after
<1>5. IsRun(after, ITERATIONS, q, o, amount)
  BY <1>3 DEF IsRun
<1> QED
  BY <1>4, <1>5

\* Induction over the iterations: what holds of the first search and is kept
\* by every step, iteration for iteration, holds of the result.
LEMMA SearchedInduction ==
    ASSUME NEW q, NEW o, NEW amount, NEW Kept,
           SearchStart(q, o, amount) \in Kept[0],
           \A n \in 0..(ITERATIONS - 1) : \A s \in Kept[n] :
               SearchStep(q, o, amount, s) \in Kept[n + 1]
    PROVE  Searched(q, o, amount) \in Kept[ITERATIONS]
<1>1. ITERATIONS \in Nat
  BY LmsrAssumption
<1>2. PICK f : /\ IsRun(f, ITERATIONS, q, o, amount)
               /\ Searched(q, o, amount) = f[ITERATIONS]
  BY SearchedRuns
<1> DEFINE Good == {n \in Nat : n \in 0..ITERATIONS => f[n] \in Kept[n]}
<1>3. 0 \in Good
  BY <1>1, <1>2 DEF IsRun
<1>4. ASSUME NEW n \in Nat, n \in Good
      PROVE  n + 1 \in Good
  <2> SUFFICES ASSUME n + 1 \in 0..ITERATIONS
               PROVE  f[n + 1] \in Kept[n + 1]
    OBVIOUS
  <2>1. n \in 0..(ITERATIONS - 1) /\ n + 1 # 0 /\ (n + 1) - 1 = n
    BY <1>1
  <2>2. f[n] \in Kept[n]
    BY <1>1, <1>4, <2>1
  <2>3. f[n + 1] = SearchStep(q, o, amount, f[n])
    BY <1>2, <2>1 DEF IsRun
  <2> QED
    BY <2>1, <2>2, <2>3
<1> HIDE DEF Good
<1>5. Nat \subseteq Good
  BY <1>3, <1>4, SetInduction
<1> QED
  BY <1>1, <1>2, <1>5 DEF Good

\* calc_shares_out never returns shares that cost more than was paid, the
\* first half of what keeps the vault solvent (see MarketProofs).
THEOREM SearchedSound ==
    ASSUME NEW q \in Supplies, NEW o \in Outcome, NEW amount \in Nat
    PROVE  Sound(q, o, amount, Searched(q, o, amount))
<1> DEFINE Always == {s \in [low : Nat, high : Int, best : Nat, ok : BOOLEAN] :
                        Sound(q, o, amount, s)}
           Kept   == [n \in 0..ITERATIONS |-> Always]
<1>1. \A n \in 0..ITERATIONS : Kept[n] = Always
  OBVIOUS
<1>2. \A s : s \in Always <=> Sound(q, o, amount, s)
  BY DEF Sound
<1> HIDE DEF Kept, Always
<1>3. 0 \in 0..ITERATIONS /\ ITERATIONS \in 0..ITERATIONS
  BY LmsrAssumption
<1>4. SearchStart(q, o, amount) \in Kept[0]
  BY <1>1, <1>2, <1>3, SearchStartSound
<1>5. ASSUME NEW n \in 0..(ITERATIONS - 1), NEW s \in Kept[n]
      PROVE  SearchStep(q, o, amount, s) \in Kept[n + 1]
  <2>1. n \in 0..ITERATIONS /\ n + 1 \in 0..ITERATIONS
    BY LmsrAssumption
  <2> QED
    BY <1>1, <1>2, <1>5, <2>1, SearchStepSound
<1>6. Searched(q, o, amount) \in Kept[ITERATIONS]
  BY <1>4, <1>5, SearchedInduction
<1> QED
  BY <1>1, <1>2, <1>3, <1>6

\* Shares sold back at once bring no more than was paid for them, although
\* purchase and sale round the cost separately.
THEOREM RoundTripGainsNothing ==
    ASSUME NEW q \in Supplies, NEW o \in Outcome, NEW amount \in Nat
    PROVE  LET best == Searched(q, o, amount).best
           IN  AmountOut(With(q, o, best), o, best) <= amount
<1> DEFINE best == Searched(q, o, amount).best
           more == With(q, o, best)
<1>1. best \in Nat /\ Affordable(q, o, amount, best)
  BY SearchedSound DEF Sound
<1> HIDE DEF best
<1>2. more \in Supplies /\ With(more, o, -best) = q
  <2>1. \A p \in Outcome : q[p] \in Nat
    BY DEF Supplies
  <2>2. more = [p \in Outcome |-> IF p = o THEN q[o] + best ELSE q[p]]
    BY DEF With, Supplies
  <2> HIDE DEF more
  <2>3. /\ more[o] = q[o] + best
        /\ \A p \in Outcome : p # o => more[p] = q[p]
    BY <2>2
  <2>4. \A p \in Outcome : more[p] \in Nat
    BY <1>1, <2>1, <2>3
  <2>5. more \in Supplies
    BY <2>2, <2>4 DEF Supplies
  <2>6. With(more, o, -best) =
            [p \in Outcome |-> IF p = o THEN more[o] + (-best) ELSE more[p]]
    BY <2>5 DEF With, Supplies
  <2>7. more[o] + (-best) = q[o]
    BY <1>1, <2>1, <2>3
  <2>8. With(more, o, -best) = [p \in Outcome |-> q[p]]
    BY <2>3, <2>6, <2>7
  <2>9. q = [p \in Outcome |-> q[p]]
    BY DEF Supplies
  <2> QED
    BY <2>5, <2>8, <2>9
<1>3. Cost(q) \in Int /\ Cost(more) \in Int
  BY <1>2, CostInt
<1>4. AmountOut(more, o, best) = Cost(more) - Cost(q)
  BY <1>2 DEF AmountOut
<1>5. Cost(more) <= Cost(q) + amount
  BY <1>1 DEF Affordable
<1> HIDE DEF more
<1>6. AmountOut(more, o, best) <= amount
  BY <1>3, <1>4, <1>5
<1> QED
  BY <1>6 DEF more, best

-----------------------------------------------------------------------------
(* Every iteration halves the range, so that a u64 is searched in as many  *)
(* iterations as it has bits.                                              *)

\* f holds the powers of two up to the m-th.
ArePowers(f, m) ==
    /\ f \in [0..m -> Nat \ {0}]
    /\ \A n \in 0..m : f[n] = IF n = 0 THEN 1 ELSE 2 * f[n - 1]

\* The recursive function doubles.
LEMMA Doubling ==
    /\ TwoToThe[0] = 1
    /\ \A n \in 0..ITERATIONS : TwoToThe[n] \in Nat \ {0}
    /\ \A n \in 0..(ITERATIONS - 1) : TwoToThe[n + 1] = 2 * TwoToThe[n]
<1> DEFINE Done == {m \in Nat : \E f : ArePowers(f, m)}
           Solution(f) == f = [n \in 0..ITERATIONS |->
                                 IF n = 0 THEN 1 ELSE 2 * f[n - 1]]
<1>1. ITERATIONS \in Nat
  BY LmsrAssumption
<1>2. 0 \in Done
  <2>1. ArePowers([n \in 0..0 |-> 1], 0)
    BY DEF ArePowers
  <2> QED
    BY <2>1
<1>3. ASSUME NEW m \in Nat, m \in Done
      PROVE  m + 1 \in Done
  <2>1. PICK f : ArePowers(f, m)
    BY <1>3
  <2> DEFINE g == [n \in 0..(m + 1) |-> IF n = m + 1 THEN 2 * f[m] ELSE f[n]]
  <2>2. f[m] \in Nat \ {0}
    BY <2>1 DEF ArePowers
  <2>3. g \in [0..(m + 1) -> Nat \ {0}]
    <3>1. \A n \in 0..(m + 1) : n # m + 1 => f[n] \in Nat \ {0}
      BY <2>1 DEF ArePowers
    <3> QED
      BY <2>2, <3>1
  <2>4. ASSUME NEW n \in 0..(m + 1)
        PROVE  g[n] = IF n = 0 THEN 1 ELSE 2 * g[n - 1]
    <3>1. CASE n = m + 1
      <4>1. g[n] = 2 * f[m] /\ n # 0 /\ n - 1 = m
        BY <3>1
      <4>2. m \in 0..(m + 1) /\ m # m + 1
        OBVIOUS
      <4> QED
        BY <4>1, <4>2
    <3>2. CASE n # m + 1
      <4>1. n \in 0..m /\ g[n] = f[n]
        BY <3>2
      <4>2. n # 0 => n - 1 \in 0..(m + 1) /\ n - 1 # m + 1 /\ g[n - 1] = f[n - 1]
        BY <4>1
      <4>3. f[n] = IF n = 0 THEN 1 ELSE 2 * f[n - 1]
        BY <2>1, <4>1 DEF ArePowers
      <4> QED
        BY <4>1, <4>2, <4>3
    <3> QED
      BY <3>1, <3>2
  <2> HIDE DEF g
  <2>5. ArePowers(g, m + 1)
    BY <2>3, <2>4 DEF ArePowers
  <2> QED
    BY <2>5
<1> HIDE DEF Done
<1>4. Nat \subseteq Done
  BY <1>2, <1>3, SetInduction
<1>5. PICK f : ArePowers(f, ITERATIONS)
  BY <1>1, <1>4 DEF Done
<1>6. Solution(f)
  BY <1>5 DEF ArePowers
<1>7. Solution(TwoToThe)
  <2>1. TwoToThe = CHOOSE h : Solution(h)
    BY DEF TwoToThe
  <2> HIDE DEF Solution
  <2> QED
    BY <1>6, <2>1
<1>8. \A n \in 0..ITERATIONS : TwoToThe[n] = IF n = 0 THEN 1 ELSE 2 * TwoToThe[n - 1]
  BY <1>7
<1> HIDE DEF Solution
<1> DEFINE Positive == {n \in Nat : n \in 0..ITERATIONS => TwoToThe[n] \in Nat \ {0}}
<1>9. 0 \in Positive
  BY <1>1, <1>8
<1>10. ASSUME NEW n \in Nat, n \in Positive
       PROVE  n + 1 \in Positive
  <2> SUFFICES ASSUME n + 1 \in 0..ITERATIONS
               PROVE  TwoToThe[n + 1] \in Nat \ {0}
    OBVIOUS
  <2>1. n \in 0..ITERATIONS /\ n + 1 # 0 /\ (n + 1) - 1 = n
    BY <1>1
  <2>2. TwoToThe[n] \in Nat \ {0}
    BY <1>10, <2>1
  <2>3. TwoToThe[n + 1] = 2 * TwoToThe[n]
    BY <1>8, <2>1
  <2> QED
    BY <2>2, <2>3
<1> HIDE DEF Positive
<1>11. Nat \subseteq Positive
  BY <1>9, <1>10, SetInduction
<1>12. \A n \in 0..ITERATIONS : TwoToThe[n] \in Nat \ {0}
  BY <1>11 DEF Positive
<1>13. ASSUME NEW n \in 0..(ITERATIONS - 1)
       PROVE  TwoToThe[n + 1] = 2 * TwoToThe[n]
  <2>1. n + 1 \in 0..ITERATIONS /\ n + 1 # 0 /\ (n + 1) - 1 = n
    BY <1>1
  <2> QED
    BY <1>8, <2>1
<1>14. TwoToThe[0] = 1
  BY <1>1, <1>8
<1> QED
  BY <1>12, <1>13, <1>14

\* The middle of a range leaves at most half of it on either side.
LEMMA MiddleOf ==
    ASSUME NEW low \in Nat, NEW high \in Nat, low <= high
    PROVE  \E mid \in low..high :
              /\ mid = low + (high - low) \div 2
              /\ 2 * (mid - low) <= high - low
              /\ 2 * (high - mid) <= high - low + 1
<1> DEFINE mid == low + (high - low) \div 2
<1>1. /\ mid \in low..high
      /\ 2 * (mid - low) <= high - low
      /\ 2 * (high - mid) <= high - low + 1
  OBVIOUS
<1> QED
  BY <1>1

\* The range after n iterations, of a search that has not failed: at most one
\* part in 2^n of a u64 is left, `best` is just below it, and one share more
\* than its top is not affordable or is out of reach.
Narrowed(q, o, amount, n, s) ==
    /\ s.low \in Nat
    /\ s.high \in Nat
    /\ s.high < U64_MAX
    /\ s.low <= s.high + 1
    /\ (s.high - s.low + 1) * TwoToThe[n] < TwoToThe[ITERATIONS]
    /\ s.low = 0 \/ s.low = s.best + 1
    /\ \/ s.high = MaxShares(q, o, amount)
       \/ ~Affordable(q, o, amount, s.high + 1)

\* A range that fits the iterations: the amount is small enough for the
\* largest share count not to be tried, and a u64 has ITERATIONS bits.
FitsTheLoop(q, o, amount) ==
    /\ q[o] \in 0..U64_MAX
    /\ amount * MAX_LEVERAGE < U64_MAX
    /\ U64_MAX < TwoToThe[ITERATIONS]

LEMMA StartsNarrow ==
    ASSUME NEW q \in Supplies, NEW o \in Outcome, NEW amount \in Nat,
           FitsTheLoop(q, o, amount)
    PROVE  Narrowed(q, o, amount, 0, SearchStart(q, o, amount))
<1> DEFINE most == MaxShares(q, o, amount)
<1>1. amount * MAX_LEVERAGE \in Nat
  BY LmsrAssumption
<1>2. most \in Nat /\ most < U64_MAX
  BY <1>1, LmsrAssumption DEF MaxShares, Smaller, FitsTheLoop
<1>3. TwoToThe[0] = 1 /\ TwoToThe[ITERATIONS] \in Nat
  BY Doubling, LmsrAssumption
<1> HIDE DEF most
<1>4. (most - 0 + 1) * TwoToThe[0] < TwoToThe[ITERATIONS]
  BY <1>2, <1>3, LmsrAssumption DEF FitsTheLoop
<1> QED
  BY <1>2, <1>4 DEF Narrowed, SearchStart, most

\* Half the range times twice the power is no more than before.
LEMMA HalfAgain ==
    ASSUME NEW w \in Nat, NEW v \in Nat, NEW p \in Nat, 2 * w <= v
    PROVE  w * (2 * p) <= v * p
<1>1. PICK d \in Nat : v = 2 * w + d
  BY v - 2 * w \in Nat
<1>2. d * p \in Nat /\ v * p = (2 * w) * p + d * p
  BY <1>1
<1>3. (2 * w) * p = w * (2 * p) /\ w * (2 * p) \in Nat
  OBVIOUS
<1> QED
  BY <1>2, <1>3

LEMMA StepNarrows ==
    ASSUME NEW q \in Supplies, NEW o \in Outcome, NEW amount \in Nat,
           NEW n \in 0..(ITERATIONS - 1), NEW s,
           Sound(q, o, amount, s), s.ok,
           Narrowed(q, o, amount, n, s),
           SearchStep(q, o, amount, s).ok
    PROVE  Narrowed(q, o, amount, n + 1, SearchStep(q, o, amount, s))
<1> DEFINE t == SearchStep(q, o, amount, s)
<1>1. s \in [low : Nat, high : Int, best : Nat, ok : BOOLEAN]
      /\ s.low \in Nat /\ s.high \in Nat
  BY DEF Sound, Narrowed
<1>2. /\ TwoToThe[n] \in Nat /\ TwoToThe[n + 1] = 2 * TwoToThe[n]
      /\ TwoToThe[ITERATIONS] \in Nat
  <2>1. n \in 0..ITERATIONS /\ ITERATIONS \in 0..ITERATIONS
    BY LmsrAssumption
  <2> QED
    BY <2>1, Doubling
<1>3. ASSUME NEW w \in Nat, 2 * w <= s.high - s.low + 1
      PROVE  w * TwoToThe[n + 1] < TwoToThe[ITERATIONS]
  <2>1. s.high - s.low + 1 \in Nat
    BY <1>1, <1>3
  <2>2. w * (2 * TwoToThe[n]) <= (s.high - s.low + 1) * TwoToThe[n]
    BY <1>2, <1>3, <2>1, HalfAgain
  <2>3. w * (2 * TwoToThe[n]) \in Nat /\ (s.high - s.low + 1) * TwoToThe[n] \in Nat
    BY <1>2, <2>1
  <2>4. (s.high - s.low + 1) * TwoToThe[n] < TwoToThe[ITERATIONS]
    BY DEF Narrowed
  <2> QED
    BY <1>2, <2>2, <2>3, <2>4
<1>4. CASE s.low > s.high
  <2>1. t = s /\ s.high - s.low + 1 = 0
    BY <1>1, <1>4 DEF SearchStep, Exhausted, Narrowed
  <2>2. 0 * TwoToThe[n + 1] < TwoToThe[ITERATIONS]
    BY <1>3, <2>1
  <2> QED
    BY <2>1, <2>2 DEF Narrowed
<1>5. CASE s.low <= s.high
  <2>1. PICK mid \in s.low..s.high :
           /\ mid = s.low + (s.high - s.low) \div 2
           /\ 2 * (mid - s.low) <= s.high - s.low
           /\ 2 * (s.high - mid) <= s.high - s.low + 1
    BY <1>1, <1>5, MiddleOf
  <2>2. mid \in Nat /\ mid < U64_MAX
    BY <1>1, <2>1, LmsrAssumption DEF Narrowed
  <2>3. t = IF ~Representable(With(q, o, mid)) THEN [s EXCEPT !.ok = FALSE]
            ELSE IF Affordable(q, o, amount, mid)
            THEN [s EXCEPT !.best = mid, !.low = Smaller(mid + 1, U64_MAX)]
            ELSE [s EXCEPT !.high = Larger(mid - 1, 0)]
    BY <1>1, <1>5, <2>1 DEF SearchStep, Exhausted
  <2>4. Representable(With(q, o, mid))
    <3> SUFFICES ASSUME ~Representable(With(q, o, mid)) PROVE FALSE
      OBVIOUS
    <3>1. t.ok = FALSE
      BY <1>1, <2>3
    <3> QED
      BY <3>1
  <2>5. CASE Affordable(q, o, amount, mid)
    <3>1. Smaller(mid + 1, U64_MAX) = mid + 1
      BY <2>2, LmsrAssumption DEF Smaller
    <3>2. t = [s EXCEPT !.best = mid, !.low = mid + 1]
      BY <2>3, <2>4, <2>5, <3>1
    <3> HIDE DEF t
    <3>3. t.low = mid + 1 /\ t.best = mid /\ t.high = s.high
      BY <1>1, <3>2
    <3>4. /\ s.high - mid \in Nat
          /\ t.high - t.low + 1 = s.high - mid
          /\ t.low <= t.high + 1
          /\ t.low \in Nat
      BY <1>1, <2>1, <2>2, <3>3
    <3>5. (t.high - t.low + 1) * TwoToThe[n + 1] < TwoToThe[ITERATIONS]
      BY <1>3, <2>1, <3>4
    <3>6. Narrowed(q, o, amount, n + 1, t)
      BY <3>3, <3>4, <3>5 DEF Narrowed
    <3> QED
      BY <3>6 DEF t
  <2>6. CASE ~Affordable(q, o, amount, mid)
    <3>1. mid # 0
      BY <2>6, CostInt, WithNothing DEF Affordable
    <3>2. Larger(mid - 1, 0) = mid - 1
      BY <2>2, <3>1 DEF Larger
    <3>3. t = [s EXCEPT !.high = mid - 1]
      BY <2>3, <2>4, <2>6, <3>2
    <3> HIDE DEF t
    <3>4. t.low = s.low /\ t.best = s.best /\ t.high = mid - 1
      BY <1>1, <3>3
    <3>5. /\ mid - s.low \in Nat
          /\ 2 * (mid - s.low) <= s.high - s.low + 1
          /\ t.high - t.low + 1 = mid - s.low
          /\ t.low <= t.high + 1
          /\ t.high \in Nat /\ t.high < U64_MAX
          /\ t.high + 1 = mid
      BY <1>1, <2>1, <2>2, <3>1, <3>4, LmsrAssumption
    <3>6. (t.high - t.low + 1) * TwoToThe[n + 1] < TwoToThe[ITERATIONS]
      BY <1>3, <3>5
    <3>7. ~Affordable(q, o, amount, t.high + 1)
      BY <2>6, <3>5
    <3>8. Narrowed(q, o, amount, n + 1, t)
      BY <3>4, <3>5, <3>6, <3>7 DEF Narrowed
    <3> QED
      BY <3>8 DEF t
  <2> QED
    BY <2>5, <2>6
<1> QED
  BY <1>1, <1>4, <1>5

\* A range that small is empty.
LEMMA NarrowedToNothing ==
    ASSUME NEW q, NEW o, NEW amount, NEW s,
           Narrowed(q, o, amount, ITERATIONS, s)
    PROVE  s.low = s.high + 1
<1> DEFINE w == s.high - s.low + 1
           p == TwoToThe[ITERATIONS]
<1>1. w \in Nat
  BY DEF Narrowed
<1>2. p \in Nat
  BY Doubling, LmsrAssumption
<1>3. w * p < p
  BY DEF Narrowed
<1>4. w = 0
  <2> SUFFICES ASSUME w >= 1 PROVE FALSE
    BY <1>1
  <2>1. w - 1 \in Nat
    BY <1>1
  <2> HIDE DEF w, p
  <2>2. (w - 1) * p \in Nat /\ w * p = (w - 1) * p + p
    BY <1>1, <1>2, <2>1
  <2> QED
    BY <1>2, <1>3, <2>2
<1> QED
  BY <1>4 DEF Narrowed

\* calc_shares_out ends at an edge: when it succeeds, the buyer gets all the
\* shares the program lets the amount buy, or one share more would have cost
\* more than was paid.  (Other edges may lie above: the cost is not monotone.)
THEOREM SearchedAtTheEdge ==
    ASSUME NEW q \in Supplies, NEW o \in Outcome, NEW amount \in Nat,
           FitsTheLoop(q, o, amount),
           Searched(q, o, amount).ok
    PROVE  LET best == Searched(q, o, amount).best
           IN  \/ best = MaxShares(q, o, amount)
               \/ ~Affordable(q, o, amount, best + 1)
<1> DEFINE Good(n, s) == /\ Sound(q, o, amount, s)
                         /\ s.ok => Narrowed(q, o, amount, n, s)
           Kept == [n \in 0..ITERATIONS |->
                      {s \in [low : Nat, high : Int, best : Nat, ok : BOOLEAN] :
                          Good(n, s)}]
           result == Searched(q, o, amount)
<1>1. ASSUME NEW n \in 0..ITERATIONS, NEW s
      PROVE  s \in Kept[n] <=> Good(n, s)
  BY DEF Sound
<1>2. 0 \in 0..ITERATIONS /\ ITERATIONS \in 0..ITERATIONS
  BY LmsrAssumption
<1> HIDE DEF Kept
<1>3. SearchStart(q, o, amount) \in Kept[0]
  BY <1>1, <1>2, SearchStartSound, StartsNarrow
<1>4. ASSUME NEW n \in 0..(ITERATIONS - 1), NEW s \in Kept[n]
      PROVE  SearchStep(q, o, amount, s) \in Kept[n + 1]
  <2>1. n \in 0..ITERATIONS /\ n + 1 \in 0..ITERATIONS
    BY LmsrAssumption
  <2>2. Good(n, s)
    BY <1>1, <1>4, <2>1
  <2>3. Sound(q, o, amount, SearchStep(q, o, amount, s))
    BY <2>2, SearchStepSound
  <2>4. SearchStep(q, o, amount, s).ok => s.ok
    <3>1. ~s.ok => SearchStep(q, o, amount, s) = s
      BY DEF SearchStep, Exhausted
    <3> QED
      BY <3>1
  <2>5. Good(n + 1, SearchStep(q, o, amount, s))
    BY <2>2, <2>3, <2>4, StepNarrows
  <2> QED
    BY <1>1, <2>1, <2>5
<1>5. result \in Kept[ITERATIONS]
  BY <1>3, <1>4, SearchedInduction
<1>6. Good(ITERATIONS, result)
  BY <1>1, <1>2, <1>5
<1>7. Narrowed(q, o, amount, ITERATIONS, result) /\ result.best \in Nat
  BY <1>6 DEF Sound
<1> HIDE DEF result
<1>8. result.low = result.high + 1 /\ result.high \in Nat /\ result.low \in Nat
  BY <1>7, NarrowedToNothing DEF Narrowed
<1>9. result.best = result.high
  BY <1>7, <1>8 DEF Narrowed
<1>10. \/ result.best = MaxShares(q, o, amount)
       \/ ~Affordable(q, o, amount, result.best + 1)
  BY <1>7, <1>9 DEF Narrowed
<1> QED
  BY <1>10 DEF result

=============================================================================
