---------------------------- MODULE MarketProofs ----------------------------
(***************************************************************************)
(* The prediction market for every number of traders, every price table,   *)
(* liquidity, deadline and amount: its types, its accounting, the refunds, *)
(* and the promises of Escrow.                                             *)
(***************************************************************************)
EXTENDS MarketProperties, LmsrProofs, FiniteSetTheorems

(* Sums over the traders.  SumFunction folds over a set in the order that  *)
(* CHOOSE picks; the lemmas below say what does not depend on that order.  *)

Picked(s) == CHOOSE x \in s : TRUE

\* fold holds the sum of f over each subset of S with at most n elements.
IsFold(fold, f, S, n) ==
    \A s \in SUBSET S : Cardinality(s) <= n =>
        fold[s] = IF s = {} THEN 0 ELSE f[Picked(s)] + fold[s \ {Picked(s)}]

\* A set of subsets that grows by one picked element at a time has them all.
LEMMA SubsetInduction ==
    ASSUME NEW S, IsFiniteSet(S), NEW P, {} \in P,
           \A s \in SUBSET S : s # {} /\ s \ {Picked(s)} \in P => s \in P
    PROVE  S \in P
<1> DEFINE Good == {n \in Nat : \A s \in SUBSET S : Cardinality(s) = n => s \in P}
<1>1. \A s \in SUBSET S : IsFiniteSet(s) /\ Cardinality(s) \in Nat
  BY FS_Subset, FS_CardinalityType
<1>2. 0 \in Good
  BY <1>1, FS_EmptySet
<1>3. ASSUME NEW n \in Nat, n \in Good
      PROVE  n + 1 \in Good
  <2> SUFFICES ASSUME NEW s \in SUBSET S, Cardinality(s) = n + 1
               PROVE  s \in P
    OBVIOUS
  <2>1. s # {}
    BY FS_EmptySet
  <2>2. Picked(s) \in s
    BY <2>1 DEF Picked
  <2>3. Cardinality(s \ {Picked(s)}) = n
    BY <1>1, <2>2, FS_RemoveElement
  <2> QED
    BY <1>3, <2>1, <2>3
<1> HIDE DEF Good
<1>4. Nat \subseteq Good
  BY <1>2, <1>3, SetInduction
<1> QED
  BY <1>1, <1>4 DEF Good

LEMMA FoldExists ==
    ASSUME NEW S, IsFiniteSet(S), NEW f, NEW N \in Nat
    PROVE  \E fold : IsFold(fold, f, S, N)
<1> DEFINE Done == {n \in Nat : \E fold : IsFold(fold, f, S, n)}
<1>1. \A s \in SUBSET S : IsFiniteSet(s) /\ Cardinality(s) \in Nat
  BY FS_Subset, FS_CardinalityType
<1>2. \A s \in SUBSET S : s # {} =>
          Picked(s) \in s /\ s \ {Picked(s)} \in SUBSET S
          /\ Cardinality(s \ {Picked(s)}) = Cardinality(s) - 1
  <2> SUFFICES ASSUME NEW s \in SUBSET S, s # {}
               PROVE  Picked(s) \in s
                      /\ Cardinality(s \ {Picked(s)}) = Cardinality(s) - 1
    OBVIOUS
  <2>1. Picked(s) \in s
    BY DEF Picked
  <2> QED
    BY <1>1, <2>1, FS_RemoveElement
<1>3. 0 \in Done
  <2> DEFINE z == [s \in SUBSET S |-> 0]
  <2>1. ASSUME NEW s \in SUBSET S, Cardinality(s) <= 0
        PROVE  s = {}
    BY <1>1, <2>1, FS_EmptySet
  <2>2. IsFold(z, f, S, 0)
    BY <2>1 DEF IsFold
  <2> QED
    BY <2>2
<1>4. ASSUME NEW n \in Nat, n \in Done
      PROVE  n + 1 \in Done
  <2>1. PICK fold : IsFold(fold, f, S, n)
    BY <1>4
  <2> DEFINE g == [s \in SUBSET S |->
                     IF Cardinality(s) <= n THEN fold[s]
                     ELSE f[Picked(s)] + fold[s \ {Picked(s)}]]
  <2>2. ASSUME NEW s \in SUBSET S, Cardinality(s) <= n + 1, s # {}
        PROVE  g[s] = f[Picked(s)] + g[s \ {Picked(s)}]
    <3>1. g[s \ {Picked(s)}] = fold[s \ {Picked(s)}]
      BY <1>1, <1>2, <2>2
    <3>2. CASE Cardinality(s) <= n
      <4>1. g[s] = fold[s]
        BY <3>2
      <4>2. fold[s] = f[Picked(s)] + fold[s \ {Picked(s)}]
        BY <2>1, <2>2, <3>2 DEF IsFold
      <4> QED
        BY <3>1, <4>1, <4>2
    <3>3. CASE ~(Cardinality(s) <= n)
      BY <3>1, <3>3
    <3> QED
      BY <3>2, <3>3
  <2>3. g[{}] = 0
    <3>1. Cardinality({}) <= n /\ {} \in SUBSET S
      BY FS_EmptySet
    <3>2. fold[{}] = 0
      BY <2>1, <3>1 DEF IsFold
    <3> QED
      BY <3>1, <3>2
  <2> HIDE DEF g
  <2>4. IsFold(g, f, S, n + 1)
    BY <2>2, <2>3 DEF IsFold
  <2> QED
    BY <2>4
<1> HIDE DEF Done
<1>5. Nat \subseteq Done
  BY <1>3, <1>4, SetInduction
<1> QED
  BY <1>5 DEF Done

\* What a sum over S is: the last value of a fold.
SumsUp(fold, f, S) ==
    /\ SumFunction(f) = fold[S]
    /\ fold[{}] = 0
    /\ \A s \in SUBSET S : s # {} =>
          fold[s] = f[Picked(s)] + fold[s \ {Picked(s)}]

LEMMA SumIsFold ==
    ASSUME NEW S, IsFiniteSet(S), NEW f, DOMAIN f = S
    PROVE  \E fold : SumsUp(fold, f, S)
<1> DEFINE Solution(fold) ==
      fold = [s \in SUBSET S |-> IF s = {} THEN 0
                                 ELSE f[Picked(s)] + fold[s \ {Picked(s)}]]
           it == CHOOSE fold : Solution(fold)
<1>1. PICK fold : IsFold(fold, f, S, Cardinality(S))
  BY FoldExists, FS_CardinalityType
<1>2. \A s \in SUBSET S : Cardinality(s) <= Cardinality(S)
  BY FS_Subset
<1> DEFINE g == [s \in SUBSET S |-> fold[s]]
<1>3. Solution(g)
  <2>1. \A s \in SUBSET S :
           fold[s] = IF s = {} THEN 0 ELSE f[Picked(s)] + fold[s \ {Picked(s)}]
    BY <1>1, <1>2 DEF IsFold
  <2>2. \A s \in SUBSET S : s \ {Picked(s)} \in SUBSET S
    OBVIOUS
  <2> QED
    BY <2>1, <2>2
<1>4. Solution(it)
  <2> HIDE DEF g, Solution
  <2> QED
    BY <1>3
<1>5. SumFunction(f) = it[S]
  BY DEF SumFunction, SumFunctionOnSet, FoldFunctionOnSet, MapThenFoldSet, Picked
<1> HIDE DEF it
<1>6. SumsUp(it, f, S)
  BY <1>4, <1>5 DEF SumsUp
<1> QED
  BY <1>6

LEMMA SumType ==
    ASSUME NEW S, IsFiniteSet(S), NEW f \in [S -> Int]
    PROVE  SumFunction(f) \in Int
<1>1. PICK fold : SumsUp(fold, f, S)
  BY SumIsFold
<1> DEFINE P == {s \in SUBSET S : fold[s] \in Int}
<1>2. {} \in P
  BY <1>1 DEF SumsUp
<1>3. ASSUME NEW s \in SUBSET S, s # {}, s \ {Picked(s)} \in P
      PROVE  s \in P
  <2>1. Picked(s) \in S
    BY <1>3 DEF Picked
  <2> QED
    BY <1>1, <1>3, <2>1 DEF SumsUp
<1> HIDE DEF P
<1>4. S \in P
  BY <1>2, <1>3, SubsetInduction
<1> QED
  BY <1>1, <1>4 DEF P, SumsUp

LEMMA SumZero ==
    ASSUME NEW S, IsFiniteSet(S), NEW f \in [S -> Int], \A x \in S : f[x] = 0
    PROVE  SumFunction(f) = 0
<1>1. PICK fold : SumsUp(fold, f, S)
  BY SumIsFold
<1> DEFINE P == {s \in SUBSET S : fold[s] = 0}
<1>2. {} \in P
  BY <1>1 DEF SumsUp
<1>3. ASSUME NEW s \in SUBSET S, s # {}, s \ {Picked(s)} \in P
      PROVE  s \in P
  <2>1. Picked(s) \in S
    BY <1>3 DEF Picked
  <2> QED
    BY <1>1, <1>3, <2>1 DEF SumsUp
<1> HIDE DEF P
<1>4. S \in P
  BY <1>2, <1>3, SubsetInduction
<1> QED
  BY <1>1, <1>4 DEF P, SumsUp

\* What is bounded term by term is bounded in the sum.
LEMMA SumScaled ==
    ASSUME NEW S, IsFiniteSet(S), NEW f \in [S -> Nat], NEW g \in [S -> Nat],
           NEW a \in Nat, NEW b \in Nat, \A x \in S : a * g[x] <= b * f[x]
    PROVE  /\ SumFunction(f) \in Nat
           /\ SumFunction(g) \in Nat
           /\ a * SumFunction(g) <= b * SumFunction(f)
<1>1. PICK ff : SumsUp(ff, f, S)
  BY SumIsFold
<1>2. PICK gg : SumsUp(gg, g, S)
  BY SumIsFold
<1> DEFINE P == {s \in SUBSET S :
                    ff[s] \in Nat /\ gg[s] \in Nat /\ a * gg[s] <= b * ff[s]}
<1>3. {} \in P
  BY <1>1, <1>2 DEF SumsUp
<1>4. ASSUME NEW s \in SUBSET S, s # {}, s \ {Picked(s)} \in P
      PROVE  s \in P
  <2> DEFINE x == Picked(s)
             r == s \ {Picked(s)}
  <2>1. x \in S
    BY <1>4 DEF Picked
  <2>2. ff[s] = f[x] + ff[r] /\ gg[s] = g[x] + gg[r]
    BY <1>1, <1>2, <1>4 DEF SumsUp
  <2>3. ff[r] \in Nat /\ gg[r] \in Nat /\ a * gg[r] <= b * ff[r]
    BY <1>4
  <2>4. f[x] \in Nat /\ g[x] \in Nat /\ a * g[x] <= b * f[x]
    BY <2>1
  <2> HIDE DEF x, r
  <2>5. /\ a * (g[x] + gg[r]) = a * g[x] + a * gg[r]
        /\ b * (f[x] + ff[r]) = b * f[x] + b * ff[r]
    BY <2>3, <2>4
  <2>6. a * (g[x] + gg[r]) <= b * (f[x] + ff[r])
    BY <2>3, <2>4, <2>5
  <2> QED
    BY <2>2, <2>3, <2>4, <2>6
<1> HIDE DEF P
<1>5. S \in P
  BY <1>3, <1>4, SubsetInduction
<1> QED
  BY <1>1, <1>2, <1>5 DEF P, SumsUp

\* A change of one term changes the sum by as much.
LEMMA SumUpdate ==
    ASSUME NEW S, IsFiniteSet(S), NEW f \in [S -> Int], NEW g \in [S -> Int],
           NEW u \in S, \A x \in S \ {u} : g[x] = f[x]
    PROVE  SumFunction(g) = SumFunction(f) - f[u] + g[u]
<1>1. PICK ff : SumsUp(ff, f, S)
  BY SumIsFold
<1>2. PICK gg : SumsUp(gg, g, S)
  BY SumIsFold
<1> DEFINE P == {s \in SUBSET S :
                    /\ ff[s] \in Int /\ gg[s] \in Int
                    /\ gg[s] = IF u \in s THEN ff[s] - f[u] + g[u] ELSE ff[s]}
<1>3. {} \in P
  BY <1>1, <1>2 DEF SumsUp
<1>4. ASSUME NEW s \in SUBSET S, s # {}, s \ {Picked(s)} \in P
      PROVE  s \in P
  <2> DEFINE x == Picked(s)
             r == s \ {Picked(s)}
  <2>1. x \in s /\ x \in S
    BY <1>4 DEF Picked
  <2>2. ff[s] = f[x] + ff[r] /\ gg[s] = g[x] + gg[r]
    BY <1>1, <1>2, <1>4 DEF SumsUp
  <2>3. /\ ff[r] \in Int /\ gg[r] \in Int
        /\ gg[r] = IF u \in r THEN ff[r] - f[u] + g[u] ELSE ff[r]
    BY <1>4
  <2>4. f[x] \in Int /\ g[x] \in Int /\ f[u] \in Int /\ g[u] \in Int
    BY <2>1
  <2>5. CASE x = u
    BY <2>1, <2>2, <2>3, <2>4, <2>5
  <2>6. CASE x # u
    <3>1. g[x] = f[x] /\ (u \in s <=> u \in r)
      BY <2>1, <2>6
    <3> QED
      BY <2>2, <2>3, <2>4, <3>1
  <2> QED
    BY <2>5, <2>6
<1> HIDE DEF P
<1>5. S \in P
  BY <1>3, <1>4, SubsetInduction
<1> QED
  BY <1>1, <1>2, <1>5 DEF P, SumsUp

\* No term is larger than the sum.
LEMMA TermBelowSum ==
    ASSUME NEW S, IsFiniteSet(S), NEW f \in [S -> Nat], NEW u \in S
    PROVE  f[u] <= SumFunction(f)
<1> DEFINE g == [f EXCEPT ![u] = 0]
<1>1. g \in [S -> Nat] /\ g[u] = 0 /\ \A x \in S \ {u} : g[x] = f[x]
  OBVIOUS
<1>2. SumFunction(g) = SumFunction(f) - f[u] + g[u]
  <2> HIDE DEF g
  <2>1. f \in [S -> Int] /\ g \in [S -> Int]
    BY <1>1
  <2> QED
    BY <1>1, <2>1, SumUpdate
<1>3. SumFunction(g) \in Nat /\ SumFunction(f) \in Nat
  <2> HIDE DEF g
  <2>1. \A x \in S : 0 * g[x] <= 0 * f[x]
    BY <1>1
  <2> QED
    BY <1>1, <2>1, SumScaled
<1>4. f[u] \in Nat
  OBVIOUS
<1> HIDE DEF g
<1> QED
  BY <1>1, <1>2, <1>3, <1>4

-----------------------------------------------------------------------------
(* The inductive invariant.                                                *)

\* An outcome belongs to a resolved market, and a market whose liquidity left
\* before it was resolved can no longer be resolved.
Lifecycle ==
    Open => /\ market.resolved <=> market.outcome \in Outcome
            /\ market.lp_withdrawn /\ ~market.resolved => Overdue

\* claim_payout closes the position that it marks as claimed.
NeverMarked == \A u \in Traders : Holds(u) => ~position[u].claimed

Base == TypeOK /\ Lifecycle /\ NeverMarked

LEMMA OpenMarket ==
    ASSUME Base, Open
    PROVE  /\ market \in Markets
           /\ market.supply \in Supplies
           /\ market.total_volume \in Nat
           /\ market.resolved \in BOOLEAN
           /\ market.expires_at \in Nat
           /\ market.fee_balance \in Nat
           /\ market.lp_withdrawn \in BOOLEAN
           /\ market.resolved_at \in Nat
           /\ market.winner_payout_ratio \in Nat
           /\ vault \in Nat
           /\ now \in Nat
  BY MarketAssumption DEF Base, TypeOK, Open, Markets

LEMMA OpenStays ==
    ASSUME market' \in Markets
    PROVE  Open'
  BY NoMarketAssumption DEF Open

LEMMA HeldType ==
    ASSUME Base, NEW u \in Traders
    PROVE  Held(u) \in UserPositions /\ ~Held(u).claimed
  BY DEF Base, TypeOK, NeverMarked, Held, Holds, UserPositions, Supplies, NoShares

LEMMA FeeBounds ==
    ASSUME NEW amount \in Nat
    PROVE  FeeOn(amount) \in Nat /\ FeeOn(amount) <= amount
  BY DEF FeeOn

LEMMA FeeInProportion ==
    ASSUME NEW amount \in Nat, FeeOn(amount) > 0
    PROVE  amount - FeeOn(amount) <= VolumePerFee * FeeOn(amount)
  BY DEF FeeOn, VolumePerFee

LEMMA WithType ==
    ASSUME NEW q \in Supplies, NEW o \in Outcome, NEW n \in Int, q[o] + n \in Nat
    PROVE  With(q, o, n) \in Supplies
  BY DEF With, Supplies

\* What a position becomes when its owner trades.
LEMMA TradedPositions ==
    ASSUME Base, NEW u \in Traders, NEW q \in Supplies, NEW p \in UserPositions,
           p.claimed = FALSE,
           position' = [position EXCEPT ![u] = [p EXCEPT !.shares = q]]
    PROVE  /\ position' \in [Traders -> UserPositions \cup {NoAccount}]
           /\ NeverMarked'
           /\ \A v \in Traders : Holds(v) => Holds(v)'
<1>1. [p EXCEPT !.shares = q] \in UserPositions
      /\ [p EXCEPT !.shares = q].claimed = FALSE
  BY DEF UserPositions
<1>2. position \in [Traders -> UserPositions \cup {NoAccount}]
  BY DEF Base, TypeOK
<1>3. \A v \in Traders : position'[v] = IF v = u THEN [p EXCEPT !.shares = q]
                                        ELSE position[v]
  BY <1>2
<1>4. position' \in [Traders -> UserPositions \cup {NoAccount}]
  BY <1>1, <1>2
<1>5. \A v \in Traders : Holds(v) => Holds(v)'
  BY <1>1, <1>3, NoMarketAssumption DEF Holds
<1>6. NeverMarked'
  BY <1>1, <1>3 DEF Base, NeverMarked, Holds
<1> QED
  BY <1>4, <1>5, <1>6

\* A position is closed, all others stay as they are.
LEMMA ClosedPositions ==
    ASSUME Base, NEW u \in Traders, Close(u)
    PROVE  /\ position' \in [Traders -> UserPositions \cup {NoAccount}]
           /\ NeverMarked'
           /\ \A v \in Traders \ {u} : position'[v] = position[v]
           /\ position'[u] = NoAccount
<1>1. position \in [Traders -> UserPositions \cup {NoAccount}]
  BY DEF Base, TypeOK
<1>2. \A v \in Traders : position'[v] = IF v = u THEN NoAccount ELSE position[v]
  BY <1>1 DEF Close
<1>3. position' \in [Traders -> UserPositions \cup {NoAccount}]
  BY <1>1 DEF Close
<1>4. NeverMarked'
  BY <1>2 DEF Base, NeverMarked, Holds
<1> QED
  BY <1>2, <1>3, <1>4

LEMMA InitBase == Init => Base
  BY MarketAssumption
  DEF Init, Base, TypeOK, Lifecycle, NeverMarked, Open, Holds

-----------------------------------------------------------------------------
(* The instructions, one by one.                                           *)

LEMMA CreateMarketBase ==
    ASSUME Base, NEW k \in Keys, NEW t \in Expiries, CreateMarket(k, t)
    PROVE  Base'
<1>1. t \in Nat
  BY MarketAssumption
<1>2. market' \in Markets /\ vault' \in Nat
  BY <1>1, MarketAssumption DEF CreateMarket, Markets, Supplies, NoShares, Outcome
<1>3. Lifecycle'
  BY DEF CreateMarket, Lifecycle, Outcome
<1> QED
  BY <1>2, <1>3 DEF CreateMarket, Base, TypeOK, NeverMarked, Holds

\* What a purchase and a sale have in common: n shares change hands for
\* `paid` tokens, both negative in a sale, the cost grows by no more than
\* what was paid beside the fee, and that is in proportion to the fee.
Traded(u, o, n, volume, fee, paid) ==
    /\ Open /\ ~market.resolved /\ now < market.expires_at
    /\ market.supply[o] + n \in Nat
    /\ Held(u).shares[o] + n \in Nat
    /\ Cost(With(market.supply, o, n)) <= Cost(market.supply) + (paid - fee)
    /\ paid - fee <= VolumePerFee * fee
    /\ market' = [market EXCEPT !.supply       = With(market.supply, o, n),
                                !.total_volume = market.total_volume + volume,
                                !.fee_balance  = market.fee_balance + fee]
    /\ position' = [position EXCEPT
                      ![u] = [Held(u) EXCEPT
                                !.shares = With(Held(u).shares, o, n)]]
    /\ vault' = vault + paid /\ vault' \in Nat
    /\ now' = now

LEMMA BuySharesSpec ==
    ASSUME Base, NEW u \in Traders, NEW o \in Outcome, NEW amount \in Amounts,
           BuyShares(u, o, amount)
    PROVE  \E n \in Int, volume \in Nat, fee \in Nat, paid \in Int :
               Traded(u, o, n, volume, fee, paid)
<1> DEFINE trade  == amount - FeeOn(amount)
           shares == Searched(market.supply, o, trade).best
<1>1. Open
  BY DEF BuyShares
<1>2. amount \in Nat /\ trade \in Nat /\ FeeOn(amount) \in Nat
  BY FeeBounds, MarketAssumption
<1>3. Sound(market.supply, o, trade, Searched(market.supply, o, trade))
  BY <1>1, <1>2, OpenMarket, SearchedSound
<1>4. shares \in Nat
  BY <1>3 DEF Sound
<1>5. market.supply[o] + shares \in Nat /\ Held(u).shares[o] + shares \in Nat
  BY <1>1, <1>4, OpenMarket, HeldType DEF Supplies, UserPositions
<1>6. Cost(With(market.supply, o, shares)) <= Cost(market.supply) + trade
  BY <1>3 DEF Sound, Affordable
<1>7. vault' = vault + amount /\ vault' \in Nat /\ now' = now
      /\ ~market.resolved /\ now < market.expires_at
  BY <1>1, <1>2, OpenMarket DEF BuyShares
<1>8. market' = [market EXCEPT
                   !.supply       = With(market.supply, o, shares),
                   !.total_volume = market.total_volume + trade,
                   !.fee_balance  = market.fee_balance + FeeOn(amount)]
  BY <1>1, OpenMarket DEF BuyShares, Markets
<1>9. position' = [position EXCEPT
                     ![u] = [Held(u) EXCEPT
                               !.shares = With(Held(u).shares, o, shares)]]
  BY HeldType DEF BuyShares, UserPositions
<1>10. trade = amount - FeeOn(amount) /\ trade <= VolumePerFee * FeeOn(amount)
  BY <1>2, FeeInProportion DEF BuyShares
<1> HIDE DEF trade, shares
<1>11. Traded(u, o, shares, trade, FeeOn(amount), amount)
  BY <1>1, <1>5, <1>6, <1>7, <1>8, <1>9, <1>10 DEF Traded
<1> QED
  BY <1>2, <1>4, <1>11

LEMMA SellSharesSpec ==
    ASSUME Base, NEW u \in Traders, NEW o \in Outcome,
           NEW shares \in Lots \cup {Held(u).shares[o]}, SellShares(u, o, shares)
    PROVE  \E n \in Int, volume \in Nat, fee \in Nat, paid \in Int :
               Traded(u, o, n, volume, fee, paid)
<1> DEFINE gross == AmountOut(market.supply, o, shares)
           left  == With(market.supply, o, -shares)
<1>1. Open /\ Holds(u) /\ market.supply \in Supplies /\ market \in Markets
  BY OpenMarket DEF SellShares
<1>2. Held(u) = position[u] /\ Held(u) \in UserPositions
      /\ Held(u).shares \in Supplies
  BY <1>1, HeldType DEF Held, UserPositions
<1>3. shares \in Nat
  BY <1>2, MarketAssumption DEF Supplies
<1>4. market.supply[o] + (-shares) \in Nat /\ Held(u).shares[o] + (-shares) \in Nat
  BY <1>1, <1>2, <1>3 DEF SellShares, Supplies
<1>5. left \in Supplies
  BY <1>1, <1>3, <1>4, WithType
<1>6. gross \in Int /\ Cost(left) = Cost(market.supply) - gross
  BY <1>1, <1>5, CostInt DEF AmountOut
<1>7. gross \in Nat
  BY <1>6 DEF SellShares
<1>8. FeeOn(gross) \in Nat
  BY <1>7, FeeBounds
<1>9. Cost(left) <= Cost(market.supply) + ((FeeOn(gross) - gross) - FeeOn(gross))
  <2>1. Cost(market.supply) \in Int
    BY <1>1, CostInt
  <2> HIDE DEF gross, left
  <2> QED
    BY <1>6, <1>7, <1>8, <2>1
<1>10. market' = [market EXCEPT !.supply       = left,
                                !.total_volume = market.total_volume + 0,
                                !.fee_balance  = market.fee_balance + FeeOn(gross)]
  <2>1. market' = [market EXCEPT
                     !.supply      = left,
                     !.fee_balance = market.fee_balance + FeeOn(gross)]
    BY DEF SellShares
  <2>2. market.total_volume + 0 = market.total_volume
    BY <1>1, OpenMarket
  <2> HIDE DEF gross, left
  <2> QED
    BY <1>1, <2>1, <2>2 DEF Markets
<1>11. position' = [position EXCEPT
                      ![u] = [Held(u) EXCEPT
                                !.shares = With(Held(u).shares, o, -shares)]]
  BY <1>2 DEF SellShares, UserPositions
<1>12. vault >= gross - FeeOn(gross) /\ vault' = vault - (gross - FeeOn(gross))
  BY DEF SellShares, Pay
<1>13. vault' = vault + (FeeOn(gross) - gross) /\ vault' \in Nat
  <2> HIDE DEF gross
  <2> QED
    BY <1>1, <1>7, <1>8, <1>12, OpenMarket
<1>14. ~market.resolved /\ now < market.expires_at /\ now' = now
  BY DEF SellShares
<1> HIDE DEF gross
<1>17. (FeeOn(gross) - gross) - FeeOn(gross) <= VolumePerFee * FeeOn(gross)
  BY <1>7, <1>8 DEF VolumePerFee
<1>15. Traded(u, o, -shares, 0, FeeOn(gross), FeeOn(gross) - gross)
  BY <1>1, <1>4, <1>9, <1>10, <1>11, <1>13, <1>14, <1>17 DEF Traded
<1>16. -shares \in Int /\ FeeOn(gross) - gross \in Int
  BY <1>3, <1>7, <1>8
<1> QED
  BY <1>8, <1>15, <1>16

LEMMA TradeSpec ==
    ASSUME Base, NEW u \in Traders, Trade(u)
    PROVE  \E o \in Outcome, n \in Int, volume \in Nat, fee \in Nat, paid \in Int :
               Traded(u, o, n, volume, fee, paid)
  BY BuySharesSpec, SellSharesSpec DEF Trade

\* What a trade leaves as it was.
LEMMA TradedMarket ==
    ASSUME Base, NEW u \in Traders, NEW o \in Outcome, NEW n \in Int,
           NEW volume \in Nat, NEW fee \in Nat, NEW paid \in Int,
           Traded(u, o, n, volume, fee, paid)
    PROVE  /\ market' \in Markets
           /\ market'.supply = With(market.supply, o, n)
           /\ market'.fee_balance = market.fee_balance + fee
           /\ market'.resolved = market.resolved
           /\ market'.outcome = market.outcome
           /\ market'.lp_withdrawn = market.lp_withdrawn
           /\ market'.expires_at = market.expires_at
<1>1. market \in Markets
  BY OpenMarket DEF Traded
<1>2. With(market.supply, o, n) \in Supplies
  BY OpenMarket, WithType DEF Traded
<1>3. market.total_volume + volume \in Nat /\ market.fee_balance + fee \in Nat
  BY OpenMarket DEF Traded
<1>4. market' = [market EXCEPT !.supply       = With(market.supply, o, n),
                               !.total_volume = market.total_volume + volume,
                               !.fee_balance  = market.fee_balance + fee]
  BY DEF Traded
<1> QED
  BY <1>1, <1>2, <1>3, <1>4 DEF Markets

LEMMA TradeBase ==
    ASSUME Base, NEW u \in Traders, Trade(u)
    PROVE  Base'
<1>1. PICK o \in Outcome, n \in Int, volume \in Nat, fee \in Nat, paid \in Int :
          Traded(u, o, n, volume, fee, paid)
  BY TradeSpec
<1>2. Lifecycle'
  BY <1>1, TradedMarket DEF Base, Lifecycle, Overdue, Traded
<1>3. With(Held(u).shares, o, n) \in Supplies
  BY <1>1, HeldType, WithType DEF Traded, UserPositions
<1>4. position' \in [Traders -> UserPositions \cup {NoAccount}] /\ NeverMarked'
  BY <1>1, <1>3, HeldType, TradedPositions DEF Traded, UserPositions
<1> QED
  BY <1>1, <1>2, <1>4, TradedMarket DEF Base, TypeOK, Traded

LEMMA ResolveMarketBase ==
    ASSUME Base, NEW k \in Keys, NEW o \in Outcome, ResolveMarket(k, o)
    PROVE  Base'
<1>1. Open /\ market' = [market EXCEPT !.resolved = TRUE, !.outcome = o,
                                       !.resolved_at = now]
      /\ UNCHANGED <<vault, position, now>>
  BY DEF ResolveMarket
<1>2. market' \in Markets
  BY <1>1, OpenMarket DEF Markets
<1>3. market'.resolved = TRUE /\ market'.outcome = o
  BY <1>1, OpenMarket DEF Markets
<1> QED
  BY <1>1, <1>2, <1>3 DEF Base, TypeOK, Lifecycle, NeverMarked, Holds

\* What the winners hold is a number, and what the administrator takes is
\* there.
LEMMA WithdrawableBounds ==
    ASSUME Base, Open, market.resolved
    PROVE  /\ WinningShares \in Nat
           /\ PayoutRatio \in Nat
           /\ Withdrawable \in 0..vault
<1>1. WinningShares \in Nat
  BY OpenMarket DEF WinningShares, Base, Lifecycle, Supplies
<1>2. vault \in Nat /\ vault * RATIO_ONE \in Nat
  BY OpenMarket, MarketAssumption
<1>3. PayoutRatio \in Nat
  BY <1>1, <1>2, MarketAssumption DEF PayoutRatio
<1>4. Withdrawable \in 0..vault
  BY <1>1, <1>2 DEF Withdrawable
<1> QED
  BY <1>1, <1>3, <1>4

LEMMA WithdrawLpBase ==
    ASSUME Base, NEW k \in Keys, WithdrawLp(k)
    PROVE  Base'
<1>1. /\ Open /\ market.resolved
      /\ market' = [market EXCEPT !.winner_payout_ratio = PayoutRatio,
                                  !.fee_balance         = 0,
                                  !.lp_withdrawn        = TRUE]
      /\ vault' = vault - Withdrawable
      /\ UNCHANGED <<position, now>>
  BY DEF WithdrawLp, Pay
<1>2. vault' \in Nat
  BY <1>1, OpenMarket, WithdrawableBounds
<1>3. market' \in Markets /\ market'.resolved = market.resolved
      /\ market'.outcome = market.outcome
  <2>1. market \in Markets /\ PayoutRatio \in Nat
    BY <1>1, OpenMarket, WithdrawableBounds
  <2> QED
    BY <1>1, <2>1 DEF Markets
<1> QED
  BY <1>1, <1>2, <1>3 DEF Base, TypeOK, Lifecycle, NeverMarked, Holds

LEMMA PayoutType ==
    ASSUME Base, Open, NEW n \in Nat
    PROVE  Payout(n) \in Nat
<1>1. n * market.winner_payout_ratio \in Nat
  BY OpenMarket
<1> QED
  BY <1>1, MarketAssumption DEF Payout

LEMMA ClaimPayoutBase ==
    ASSUME Base, NEW u \in Traders, ClaimPayout(u)
    PROVE  Base'
<1>1. /\ Open /\ Close(u) /\ UNCHANGED <<market, now>>
      /\ Pay(Payout(position[u].shares[market.outcome]))
      /\ Holds(u) /\ market.resolved
  BY DEF ClaimPayout
<1>2. position[u].shares[market.outcome] \in Nat
  BY <1>1 DEF Base, TypeOK, Lifecycle, Holds, UserPositions, Supplies
<1>3. vault' \in Nat
  BY <1>1, <1>2, PayoutType, OpenMarket DEF Pay
<1> QED
  BY <1>1, <1>3, ClosedPositions DEF Base, TypeOK, Lifecycle, Open, Overdue

LEMMA SweepUnclaimedBase ==
    ASSUME Base, NEW k \in Keys, SweepUnclaimed(k)
    PROVE  Base'
  BY DEF SweepUnclaimed, Base, TypeOK, Lifecycle, NeverMarked, Holds, Open

LEMMA ClosePositionBase ==
    ASSUME Base, NEW u \in Traders, ClosePosition(u)
    PROVE  Base'
<1>1. Close(u) /\ UNCHANGED <<market, vault, now>>
  BY DEF ClosePosition
<1> QED
  BY <1>1, ClosedPositions DEF Base, TypeOK, Lifecycle, Open, Overdue

LEMMA RefundBounds ==
    ASSUME Base, Open, NEW shares \in Supplies, AllShares(market.supply) > 0,
           \A o \in Outcome : shares[o] <= market.supply[o]
    PROVE  Refund(shares) \in Nat /\ Refund(shares) <= RefundPool
           /\ RefundPool \in Nat /\ RefundPool <= vault
<1> DEFINE held  == AllShares(shares)
           total == AllShares(market.supply)
           pool  == RefundPool
<1>1. held \in Nat /\ total \in Nat /\ total > 0 /\ held <= total
  <2>1. shares["Yes"] \in Nat /\ shares["No"] \in Nat
        /\ market.supply["Yes"] \in Nat /\ market.supply["No"] \in Nat
        /\ shares["Yes"] <= market.supply["Yes"]
        /\ shares["No"] <= market.supply["No"]
    BY OpenMarket DEF Supplies, Outcome
  <2> QED
    BY <2>1 DEF AllShares
<1>2. pool \in Nat /\ pool <= vault
  BY OpenMarket, MarketAssumption DEF RefundPool, SatSub
<1>3. Refund(shares) = (held * pool) \div total
  BY DEF Refund
<1> HIDE DEF held, total, pool
<1>4. held * pool \in Nat /\ held * pool <= total * pool
  BY <1>1, <1>2
<1>5. (held * pool) \div total \in Nat /\ (held * pool) \div total <= pool
  <2> DEFINE n == held * pool
             d == n \div total
  <2>1. n \in Nat /\ n <= total * pool
    BY <1>4
  <2> HIDE DEF n
  <2>2. d \in Int /\ n % total \in 0..(total - 1) /\ n = total * d + (n % total)
    BY <1>1, <2>1
  <2> HIDE DEF d
  <2>3. d >= 0
    <3>1. SUFFICES ASSUME d <= -1 PROVE FALSE
      BY <2>2
    <3>2. total * d <= -total
      BY <1>1, <2>2, <3>1
    <3> QED
      BY <1>1, <2>1, <2>2, <3>2
  <2>4. d <= pool
    <3>1. SUFFICES ASSUME d >= pool + 1 PROVE FALSE
      BY <1>2, <2>2
    <3>2. total * d >= total * (pool + 1)
      BY <1>1, <1>2, <2>2, <3>1
    <3>3. total * (pool + 1) = total * pool + total
      BY <1>1, <1>2
    <3>4. total * pool \in Nat
      BY <1>1, <1>2
    <3> QED
      BY <1>1, <2>1, <2>2, <3>2, <3>3, <3>4
  <2> QED
    BY <2>2, <2>3, <2>4 DEF d, n
<1> QED
  BY <1>2, <1>3, <1>5 DEF pool

LEMMA RefundExpiredSpec ==
    ASSUME Base, NEW u \in Traders, RefundExpired(u)
    PROVE  LET shares == position[u].shares
               left   == [o \in Outcome |-> market.supply[o] - shares[o]]
           IN  /\ Open /\ Holds(u) /\ ~market.resolved /\ Overdue
               /\ position[u] \in UserPositions /\ shares \in Supplies
               /\ left \in Supplies
               /\ market' = [market EXCEPT !.supply = left]
               /\ market' \in Markets
               /\ Refund(shares) \in Nat /\ Refund(shares) <= RefundPool
               /\ vault' = vault - Refund(shares) /\ vault' \in Nat
               /\ Close(u) /\ now' = now
<1> DEFINE shares == position[u].shares
           left   == [o \in Outcome |-> market.supply[o] - shares[o]]
<1>1. /\ Open /\ Holds(u) /\ ~market.resolved /\ Overdue
      /\ AllShares(market.supply) > 0
      /\ \A o \in Outcome : shares[o] <= market.supply[o]
      /\ vault' = vault - Refund(shares)
      /\ Close(u) /\ now' = now
  BY DEF RefundExpired, Pay
<1>2. position[u] \in UserPositions /\ shares \in Supplies
  BY <1>1, HeldType DEF Held, UserPositions
<1>3. left \in Supplies
  BY <1>1, <1>2, OpenMarket DEF Supplies
<1>4. market' = [market EXCEPT !.supply = left]
  BY DEF RefundExpired
<1> HIDE DEF left
<1>5. market' \in Markets
  BY <1>1, <1>3, <1>4, OpenMarket DEF Markets
<1> HIDE DEF shares
<1>6. Refund(shares) \in Nat /\ Refund(shares) <= RefundPool
      /\ RefundPool \in Nat /\ RefundPool <= vault
  BY <1>1, <1>2, RefundBounds
<1>7. vault' \in Nat
  BY <1>1, <1>6, OpenMarket
<1> QED
  BY <1>1, <1>2, <1>3, <1>4, <1>5, <1>6, <1>7 DEF shares, left

LEMMA RefundExpiredBase ==
    ASSUME Base, NEW u \in Traders, RefundExpired(u)
    PROVE  Base'
<1> DEFINE left == [o \in Outcome |-> market.supply[o] - position[u].shares[o]]
<1>1. /\ Open /\ ~market.resolved /\ Overdue
      /\ left \in Supplies /\ market' = [market EXCEPT !.supply = left]
      /\ market' \in Markets /\ vault' \in Nat /\ Close(u) /\ now' = now
  BY RefundExpiredSpec
<1> HIDE DEF left
<1>2. /\ market'.resolved = market.resolved /\ market'.outcome = market.outcome
      /\ market'.expires_at = market.expires_at
  BY <1>1, OpenMarket DEF Markets
<1>3. Lifecycle'
  BY <1>1, <1>2 DEF Base, Lifecycle, Overdue
<1> QED
  BY <1>1, <1>3, ClosedPositions DEF Base, TypeOK

LEMMA ReclaimExpiredLpBase ==
    ASSUME Base, NEW k \in Keys, ReclaimExpiredLp(k)
    PROVE  Base'
<1>1. /\ Open /\ ~market.resolved /\ Overdue
      /\ market' = [market EXCEPT !.lp_withdrawn = TRUE]
      /\ vault' = vault - Smaller(INITIAL_LIQUIDITY, vault)
      /\ UNCHANGED <<position, now>>
  BY DEF ReclaimExpiredLp, Pay
<1>2. vault' \in Nat
  BY <1>1, OpenMarket, MarketAssumption DEF Smaller
<1>3. /\ market' \in Markets
      /\ market'.resolved = market.resolved /\ market'.outcome = market.outcome
      /\ market'.expires_at = market.expires_at
  BY <1>1, OpenMarket DEF Markets
<1>4. Lifecycle'
  BY <1>1, <1>3 DEF Base, Lifecycle, Overdue
<1> QED
  BY <1>1, <1>2, <1>3, <1>4 DEF Base, TypeOK, NeverMarked, Holds

\* Time never takes a deadline back.
LEMMA OverdueStays ==
    ASSUME Base, Open, Overdue, market' \in Markets,
           market'.expires_at = market.expires_at, now' \in {now, now + 1}
    PROVE  Overdue'
  BY OpenMarket, MarketAssumption DEF Overdue

LEMMA TickBase ==
    ASSUME Base, Tick
    PROVE  Base'
<1>1. now' = now + 1 /\ now < MaxTime /\ UNCHANGED <<market, vault, position>>
  BY DEF Tick
<1>2. now' \in 0..MaxTime
  BY <1>1, MarketAssumption DEF Base, TypeOK
<1>3. Open /\ Overdue => Overdue'
  BY <1>1, OpenMarket, OverdueStays
<1>4. Lifecycle'
  BY <1>1, <1>3 DEF Base, Lifecycle, Open
<1> QED
  BY <1>1, <1>2, <1>4 DEF Base, TypeOK, NeverMarked, Holds

LEMMA NextBase == Base /\ [Next]_vars => Base'
<1> SUFFICES ASSUME Base, [Next]_vars PROVE Base'
  OBVIOUS
<1>1. ASSUME NEW u \in Traders, Trade(u) \/ Leave(u)
      PROVE  Base'
  BY <1>1, TradeBase, ClaimPayoutBase, RefundExpiredBase, ClosePositionBase
  DEF Leave
<1>2. ASSUME NEW k \in Keys, Administer(k)
      PROVE  Base'
  BY <1>2, CreateMarketBase, ResolveMarketBase, WithdrawLpBase,
     SweepUnclaimedBase, ReclaimExpiredLpBase DEF Administer
<1>3. CASE UNCHANGED vars
  BY <1>3 DEF vars, Base, TypeOK, Lifecycle, NeverMarked, Open, Holds, Overdue
<1> QED
  BY <1>1, <1>2, <1>3, TickBase DEF Next

LEMMA BaseInvariance == Spec => []Base
  BY InitBase, NextBase, PTL DEF Spec

\* No instruction brings an account of the market into a state that its
\* layout does not provide for; no balance and no count goes below zero.
THEOREM MarketTypeCorrect == Spec => []TypeOK
<1>1. Base => TypeOK
  BY DEF Base
<1> QED
  BY <1>1, BaseInvariance, PTL

-----------------------------------------------------------------------------
(* Solvency while the market trades.                                       *)

LEMMA NoSharesCost == NoShares \in Supplies /\ Cost(NoShares) \in Nat
<1>1. "Yes" \in Outcome
  BY DEF Outcome
<1> QED
  BY <1>1, EmptySpread, CostBounds

\* The steps after which a market trades: nothing that counts has changed, or
\* there was a trade, or the market is new.
LEMMA StepsToTrading ==
    ASSUME Base, [Next]_vars, Trading', ~Overdue'
    PROVE  \/ /\ Trading /\ ~Overdue
              /\ UNCHANGED <<market, vault>>
           \/ /\ Trading /\ ~Overdue
              /\ \E u \in Traders, o \in Outcome, n \in Int, volume \in Nat,
                    fee \in Nat, paid \in Int :
                     Traded(u, o, n, volume, fee, paid)
           \/ /\ vault' = INITIAL_LIQUIDITY /\ market'.fee_balance = 0
              /\ market'.supply = NoShares
<1>1. CASE UNCHANGED <<market, vault>> /\ now' \in {now, now + 1}
  <2>1. Open
    BY <1>1 DEF Trading, Open
  <2>2. market' \in Markets
    BY <1>1, <2>1, OpenMarket
  <2> QED
    BY <1>1, <2>1, <2>2, OverdueStays DEF Trading
<1>2. ASSUME NEW u \in Traders, Trade(u)
      PROVE  /\ Trading /\ ~Overdue
             /\ \E o \in Outcome, n \in Int, volume \in Nat, fee \in Nat, paid \in Int :
                    Traded(u, o, n, volume, fee, paid)
  <2>1. PICK o \in Outcome, n \in Int, volume \in Nat, fee \in Nat, paid \in Int :
            Traded(u, o, n, volume, fee, paid)
    BY <1>2, TradeSpec
  <2>2. /\ market'.lp_withdrawn = market.lp_withdrawn
        /\ market'.expires_at = market.expires_at
    BY <2>1, TradedMarket
  <2>3. Trading /\ ~Overdue
    BY <2>1, <2>2 DEF Traded, Trading, Overdue
  <2> QED
    BY <2>1, <2>3
<1>3. ASSUME NEW u \in Traders, Leave(u)
      PROVE  UNCHANGED <<market, vault, now>>
  <2>1. CASE ClaimPayout(u)
    BY <2>1 DEF ClaimPayout, Trading
  <2>2. CASE RefundExpired(u)
    <3>1. Open /\ Overdue /\ market'.expires_at = market.expires_at /\ now' = now
      BY <2>2, RefundExpiredSpec, OpenMarket DEF Markets
    <3> QED
      BY <3>1 DEF Overdue
  <2>3. CASE ClosePosition(u)
    BY <2>3 DEF ClosePosition
  <2> QED
    BY <1>3, <2>1, <2>2, <2>3 DEF Leave
<1>4. ASSUME NEW k \in Keys, Administer(k)
      PROVE  /\ vault' = INITIAL_LIQUIDITY /\ market'.fee_balance = 0
             /\ market'.supply = NoShares
  <2>1. ASSUME NEW t \in Expiries, CreateMarket(k, t)
        PROVE  /\ vault' = INITIAL_LIQUIDITY /\ market'.fee_balance = 0
               /\ market'.supply = NoShares
    BY <2>1 DEF CreateMarket
  <2>2. ASSUME NEW o \in Outcome, ResolveMarket(k, o)
        PROVE  FALSE
    <3>1. market'.resolved = TRUE
      BY <2>2, OpenMarket DEF ResolveMarket, Markets
    <3> QED
      BY <3>1 DEF Trading
  <2>3. ASSUME WithdrawLp(k)
        PROVE  FALSE
    <3>1. market'.lp_withdrawn = TRUE
      BY <2>3, OpenMarket DEF WithdrawLp, Markets
    <3> QED
      BY <3>1 DEF Trading
  <2>4. ASSUME SweepUnclaimed(k)
        PROVE  FALSE
    BY <2>4 DEF SweepUnclaimed, Trading, Open
  <2>5. ASSUME ReclaimExpiredLp(k)
        PROVE  FALSE
    <3>1. market'.lp_withdrawn = TRUE
      BY <2>5, OpenMarket DEF ReclaimExpiredLp, Markets
    <3> QED
      BY <3>1 DEF Trading
  <2> QED
    BY <1>4, <2>1, <2>2, <2>3, <2>4, <2>5 DEF Administer
<1>5. CASE Tick \/ UNCHANGED vars
  BY <1>1, <1>5 DEF Tick, vars
<1> QED
  BY <1>1, <1>2, <1>3, <1>4, <1>5 DEF Next

LEMMA NextSolvent ==
    Base /\ VaultCoversTheCost /\ [Next]_vars => VaultCoversTheCost'
<1> SUFFICES ASSUME Base, VaultCoversTheCost, [Next]_vars,
                    Trading', ~Overdue'
             PROVE  vault' + Cost(NoShares)
                      >= INITIAL_LIQUIDITY + market'.fee_balance
                         + Cost(market'.supply)
  BY DEF VaultCoversTheCost
<1>1. ASSUME Trading, ~Overdue
      PROVE  vault + Cost(NoShares)
               >= INITIAL_LIQUIDITY + market.fee_balance + Cost(market.supply)
  BY <1>1 DEF VaultCoversTheCost
<1>2. CASE Trading /\ ~Overdue /\ UNCHANGED <<market, vault>>
  BY <1>1, <1>2
<1>3. ASSUME Trading, ~Overdue,
             NEW u \in Traders, NEW o \in Outcome, NEW n \in Int,
             NEW volume \in Nat, NEW fee \in Nat, NEW paid \in Int,
             Traded(u, o, n, volume, fee, paid)
      PROVE  vault' + Cost(NoShares)
               >= INITIAL_LIQUIDITY + market'.fee_balance + Cost(market'.supply)
  <2>1. /\ market'.supply = With(market.supply, o, n)
        /\ market'.fee_balance = market.fee_balance + fee
    BY <1>3, TradedMarket
  <2>2. Cost(market'.supply) <= Cost(market.supply) + (paid - fee)
        /\ vault' = vault + paid
    BY <1>3, <2>1 DEF Traded
  <2>3. market.supply \in Supplies /\ market'.supply \in Supplies
    BY <1>3, <2>1, OpenMarket, WithType DEF Traded
  <2>4. Cost(market.supply) \in Int /\ Cost(market'.supply) \in Int
    BY <2>3, CostInt
  <2>5. vault \in Nat /\ market.fee_balance \in Nat /\ INITIAL_LIQUIDITY \in Nat
    BY <1>3, OpenMarket, MarketAssumption DEF Traded
  <2> QED
    BY <1>1, <1>3, <2>1, <2>2, <2>4, <2>5, NoSharesCost
<1>4. CASE /\ vault' = INITIAL_LIQUIDITY /\ market'.fee_balance = 0
           /\ market'.supply = NoShares
  BY <1>4, NoSharesCost, MarketAssumption
<1> QED
  BY <1>2, <1>3, <1>4, StepsToTrading

\* No sequence of purchases and sales, with whatever rounding, takes out more
\* than it put in.
THEOREM VaultStaysSolvent == Spec => []VaultCoversTheCost
<1>1. Init => Base /\ VaultCoversTheCost
  BY InitBase DEF Init, VaultCoversTheCost, Trading, Open
<1>2. Base /\ VaultCoversTheCost /\ [Next]_vars => (Base /\ VaultCoversTheCost)'
  BY NextBase, NextSolvent
<1> QED
  BY <1>1, <1>2, PTL DEF Spec

-----------------------------------------------------------------------------
(* The liquidity, the fees, and a ratio of one for one.                    *)

\* What has been traded is in proportion to the fees: the market can only be
\* far from empty once it has earned much.
FeesFollow ==
    Trading /\ ~Overdue =>
        Cost(market.supply) <= Cost(NoShares) + VolumePerFee * market.fee_balance

\* From the resolution on the vault holds a token for each winning share.
WinnersAwaited ==
    Open /\ market.resolved /\ ~market.lp_withdrawn => vault >= WinningShares

Funded == /\ VaultCoversTheCost /\ FeesFollow /\ LiquidityIsKept
          /\ WinnersAwaited /\ WinnersArePaidInFull

LEMMA NextFees ==
    Base /\ FeesFollow /\ [Next]_vars => FeesFollow'
<1> SUFFICES ASSUME Base, FeesFollow, [Next]_vars, Trading', ~Overdue'
             PROVE  Cost(market'.supply)
                      <= Cost(NoShares) + VolumePerFee * market'.fee_balance
  BY DEF FeesFollow
<1>1. ASSUME Trading, ~Overdue
      PROVE  Cost(market.supply)
               <= Cost(NoShares) + VolumePerFee * market.fee_balance
  BY <1>1 DEF FeesFollow
<1>2. CASE Trading /\ ~Overdue /\ UNCHANGED <<market, vault>>
  BY <1>1, <1>2
<1>3. ASSUME Trading, ~Overdue,
             NEW u \in Traders, NEW o \in Outcome, NEW n \in Int,
             NEW volume \in Nat, NEW fee \in Nat, NEW paid \in Int,
             Traded(u, o, n, volume, fee, paid)
      PROVE  Cost(market'.supply)
               <= Cost(NoShares) + VolumePerFee * market'.fee_balance
  <2>1. /\ market'.supply = With(market.supply, o, n)
        /\ market'.fee_balance = market.fee_balance + fee
    BY <1>3, TradedMarket
  <2>2. Cost(market'.supply) <= Cost(market.supply) + (paid - fee)
        /\ paid - fee <= VolumePerFee * fee
    BY <1>3, <2>1 DEF Traded
  <2>3. market.supply \in Supplies /\ market'.supply \in Supplies
    BY <1>3, <2>1, OpenMarket, WithType DEF Traded
  <2>4. Cost(market.supply) \in Int /\ Cost(market'.supply) \in Int
    BY <2>3, CostInt
  <2>5. market.fee_balance \in Nat
    BY <1>3, OpenMarket DEF Traded
  <2> QED
    BY <1>1, <1>3, <2>1, <2>2, <2>4, <2>5, NoSharesCost DEF VolumePerFee
<1>4. CASE /\ vault' = INITIAL_LIQUIDITY /\ market'.fee_balance = 0
           /\ market'.supply = NoShares
  BY <1>4, NoSharesCost DEF VolumePerFee
<1> QED
  BY <1>2, <1>3, <1>4, StepsToTrading

\* While the spread is above the shortfall it makes up for it; where it is
\* not, one supply is so far ahead that the fees do.
LEMMA SharesArePaidFor ==
    ASSUME NEW q \in Supplies, NEW o \in Outcome, NEW v \in Nat, NEW fee \in Nat,
           v + Cost(NoShares) >= INITIAL_LIQUIDITY + fee + Cost(q),
           Cost(q) <= Cost(NoShares) + VolumePerFee * fee
    PROVE  v >= q[o]
<1> DEFINE lead == Cost(NoShares) + VolumePerFee * Shortfall
           far  == With(NoShares, "Yes", lead)
<1>1. /\ Cost(NoShares) \in Nat /\ INITIAL_LIQUIDITY \in Nat
      /\ Shortfall \in Nat /\ Shortfall >= Cost(NoShares) - INITIAL_LIQUIDITY
  BY NoSharesCost, MarketAssumption DEF Shortfall, Larger
<1>2. /\ q[o] \in Nat /\ Cost(q) \in Nat /\ Spread(q) \in Nat
      /\ Cost(q) >= q[o] + Spread(q)
  BY CostBounds DEF Supplies
<1>3. lead \in Nat /\ lead = Cost(NoShares) + 198 * Shortfall
  BY <1>1 DEF VolumePerFee
<1>4. CASE Spread(q) >= Shortfall
  BY <1>1, <1>2, <1>4
<1>5. CASE Spread(q) < Shortfall
  <2>1. /\ far \in Supplies
        /\ Distance(far["Yes"], far["No"]) = lead
        /\ Spread(far) >= Shortfall
    <3>1. Spread(far) >= Shortfall
      BY LiquidityAssumption DEF LiquidityIsEnough
    <3> HIDE DEF lead
    <3>2. far["Yes"] = lead /\ far["No"] = 0 /\ far \in Supplies
      BY <1>3 DEF With, NoShares, Outcome, Supplies
    <3> QED
      BY <1>3, <3>1, <3>2 DEF Distance
  <2> DEFINE d == Distance(q["Yes"], q["No"])
  <2>2. d \in Nat
    BY SpreadParts
  <2>3. d > lead
    <3>1. SUFFICES ASSUME d <= lead PROVE FALSE
      BY <1>3, <2>2
    <3> HIDE DEF far, lead
    <3>2. Spread(far) <= Spread(q)
      BY <2>1, <3>1, SpreadFalls
    <3>3. Spread(far) \in Nat
      BY <2>1, SpreadParts
    <3> QED
      BY <1>1, <1>2, <1>5, <2>1, <3>2, <3>3
  <2>4. Cost(q) >= d
    <3>1. d <= Larger(q["Yes"], q["No"])
      BY SpreadParts
    <3>2. Larger(q["Yes"], q["No"]) \in {q["Yes"], q["No"]}
      BY DEF Larger
    <3>3. "Yes" \in Outcome /\ "No" \in Outcome
      BY DEF Outcome
    <3>4. Cost(q) >= q["Yes"] + Spread(q) /\ Cost(q) >= q["No"] + Spread(q)
      BY <3>3, CostBounds
    <3>5. q["Yes"] \in Nat /\ q["No"] \in Nat
      BY <3>3 DEF Supplies
    <3> HIDE DEF d
    <3> QED
      BY <1>2, <2>2, <3>1, <3>2, <3>4, <3>5
  <2> HIDE DEF d, far, lead
  <2>5. fee >= Shortfall
    BY <1>1, <1>2, <1>3, <2>2, <2>3, <2>4 DEF VolumePerFee
  <2> QED
    BY <1>1, <1>2, <2>5
<1> QED
  BY <1>1, <1>2, <1>4, <1>5

\* No supplies cost less than none, so that a vault that covers the cost has
\* no less than the liquidity and the fees.
LEMMA LiquidityIsThere ==
    ASSUME NEW q \in Supplies, NEW v \in Nat, NEW fee \in Nat,
           v + Cost(NoShares) >= INITIAL_LIQUIDITY + fee + Cost(q)
    PROVE  v >= fee + INITIAL_LIQUIDITY
<1>1. Cost(NoShares) <= Cost(q) /\ Cost(q) \in Int
  BY EmptyIsCheapest, CostInt
<1> QED
  BY <1>1, NoSharesCost, MarketAssumption

\* What the administrator and the fees must find in the vault.
Kept == market.fee_balance
        + (IF market.lp_withdrawn THEN 0 ELSE INITIAL_LIQUIDITY)

LEMMA NextKept ==
    ASSUME Base, Base', LiquidityIsKept, VaultCoversTheCost', [Next]_vars
    PROVE  LiquidityIsKept'
<1> SUFFICES ASSUME Open', ~market'.resolved
             PROVE  vault' >= Kept'
  BY DEF LiquidityIsKept, Kept
<1>1. ASSUME Open, ~market.resolved
      PROVE  vault >= Kept
  BY <1>1 DEF LiquidityIsKept, Kept
<1>2. CASE ~market'.lp_withdrawn /\ ~Overdue'
  <2>1. vault' + Cost(NoShares)
          >= INITIAL_LIQUIDITY + market'.fee_balance + Cost(market'.supply)
    BY <1>2 DEF VaultCoversTheCost, Trading
  <2>2. market'.supply \in Supplies /\ vault' \in Nat /\ market'.fee_balance \in Nat
    BY DEF Base, TypeOK, Open, Markets
  <2> QED
    BY <1>2, <2>1, <2>2, LiquidityIsThere DEF Kept
<1>3. ASSUME UNCHANGED <<market, vault>>
      PROVE  vault' >= Kept'
  BY <1>1, <1>3 DEF Kept, Open
<1>4. ASSUME NEW u \in Traders, Trade(u)
      PROVE  ~market'.lp_withdrawn /\ ~Overdue'
  <2>1. PICK o \in Outcome, n \in Int, volume \in Nat, fee \in Nat, paid \in Int :
            Traded(u, o, n, volume, fee, paid)
    BY <1>4, TradeSpec
  <2>2. /\ market'.lp_withdrawn = market.lp_withdrawn
        /\ market'.expires_at = market.expires_at
    BY <2>1, TradedMarket
  <2>3. ~Overdue
    BY <2>1, OpenMarket, MarketAssumption DEF Traded, Overdue
  <2> QED
    BY <2>1, <2>2, <2>3 DEF Traded, Overdue, Base, Lifecycle
<1>5. ASSUME NEW u \in Traders, Leave(u)
      PROVE  vault' >= Kept'
  <2>1. CASE ClaimPayout(u)
    BY <2>1 DEF ClaimPayout
  <2>2. CASE RefundExpired(u)
    <3> DEFINE refund == Refund(position[u].shares)
    <3>1. /\ Open /\ ~market.resolved
          /\ refund \in Nat /\ refund <= RefundPool /\ vault' = vault - refund
      BY <2>2, RefundExpiredSpec
    <3>2. market' = [market EXCEPT !.supply =
                       [o \in Outcome |-> @[o] - position[u].shares[o]]]
      BY <2>2 DEF RefundExpired
    <3>3. /\ market'.fee_balance = market.fee_balance
          /\ market'.lp_withdrawn = market.lp_withdrawn
      BY <3>1, <3>2, OpenMarket DEF Markets
    <3>4. vault \in Nat /\ market.fee_balance \in Nat /\ INITIAL_LIQUIDITY \in Nat
      BY <3>1, OpenMarket, MarketAssumption
    <3>5. vault >= Kept
      BY <1>1, <3>1
    <3>6. RefundPool = vault - Kept
      BY <3>4, <3>5 DEF RefundPool, SatSub, Kept
    <3>7. Kept' = Kept /\ Kept \in Nat
      BY <3>3, <3>4 DEF Kept
    <3> HIDE DEF refund
    <3> QED
      BY <3>1, <3>4, <3>6, <3>7
  <2>3. CASE ClosePosition(u)
    BY <1>3, <2>3 DEF ClosePosition
  <2> QED
    BY <1>5, <2>1, <2>2, <2>3 DEF Leave
<1>6. ASSUME NEW k \in Keys, Administer(k)
      PROVE  vault' >= Kept'
  <2>1. ASSUME NEW t \in Expiries, CreateMarket(k, t)
        PROVE  vault' >= Kept'
    <3>1. vault' = INITIAL_LIQUIDITY /\ market'.fee_balance = 0
          /\ market'.lp_withdrawn = FALSE
      BY <2>1 DEF CreateMarket
    <3> QED
      BY <3>1, MarketAssumption DEF Kept
  <2>2. ASSUME NEW o \in Outcome, ResolveMarket(k, o)
        PROVE  FALSE
    BY <2>2, OpenMarket DEF ResolveMarket, Markets
  <2>3. ASSUME WithdrawLp(k)
        PROVE  FALSE
    <3>1. market'.resolved = TRUE
      BY <2>3, OpenMarket DEF WithdrawLp, Markets
    <3> QED
      BY <3>1
  <2>4. ASSUME SweepUnclaimed(k)
        PROVE  FALSE
    BY <2>4 DEF SweepUnclaimed, Open
  <2>5. ASSUME ReclaimExpiredLp(k)
        PROVE  vault' >= Kept'
    <3>1. Open /\ ~market.resolved /\ ~market.lp_withdrawn
          /\ vault' = vault - Smaller(INITIAL_LIQUIDITY, vault)
      BY <2>5 DEF ReclaimExpiredLp, Pay
    <3>2. market'.fee_balance = market.fee_balance /\ market'.lp_withdrawn = TRUE
      BY <2>5, <3>1, OpenMarket DEF ReclaimExpiredLp, Markets
    <3>3. vault \in Nat /\ market.fee_balance \in Nat /\ INITIAL_LIQUIDITY \in Nat
      BY <3>1, OpenMarket, MarketAssumption
    <3> QED
      BY <1>1, <3>1, <3>2, <3>3 DEF Kept, Smaller
  <2> QED
    BY <1>6, <2>1, <2>2, <2>3, <2>4, <2>5 DEF Administer
<1>7. CASE Tick \/ UNCHANGED vars
  BY <1>3, <1>7 DEF Tick, vars
<1> QED
  BY <1>2, <1>3, <1>4, <1>5, <1>6, <1>7 DEF Next

\* A market is resolved only while it trades or, closed, before the deadline.
LEMMA NextAwaited ==
    ASSUME Base, WinnersAwaited, VaultCoversTheCost, FeesFollow, [Next]_vars
    PROVE  WinnersAwaited'
<1> SUFFICES ASSUME Open', market'.resolved, ~market'.lp_withdrawn
             PROVE  vault' >= WinningShares'
  BY DEF WinnersAwaited
<1>1. ASSUME UNCHANGED <<market, vault>>
      PROVE  vault' >= WinningShares'
  BY <1>1 DEF WinnersAwaited, WinningShares, Open
<1>2. ASSUME NEW u \in Traders, Trade(u)
      PROVE  FALSE
  <2>1. PICK o \in Outcome, n \in Int, volume \in Nat, fee \in Nat, paid \in Int :
            Traded(u, o, n, volume, fee, paid)
    BY <1>2, TradeSpec
  <2> QED
    BY <2>1, TradedMarket DEF Traded
<1>3. ASSUME NEW u \in Traders, Leave(u)
      PROVE  vault' >= WinningShares'
  <2>1. CASE ClaimPayout(u)
    BY <2>1 DEF ClaimPayout
  <2>2. CASE RefundExpired(u)
    <3>1. Open /\ ~market.resolved
          /\ market' = [market EXCEPT !.supply =
                           [o \in Outcome |-> @[o] - position[u].shares[o]]]
      BY <2>2 DEF RefundExpired
    <3> QED
      BY <3>1, OpenMarket DEF Markets
  <2>3. CASE ClosePosition(u)
    BY <1>1, <2>3 DEF ClosePosition
  <2> QED
    BY <1>3, <2>1, <2>2, <2>3 DEF Leave
<1>4. ASSUME NEW k \in Keys, Administer(k)
      PROVE  vault' >= WinningShares'
  <2>1. ASSUME NEW t \in Expiries, CreateMarket(k, t)
        PROVE  FALSE
    BY <2>1 DEF CreateMarket
  <2>2. ASSUME NEW o \in Outcome, ResolveMarket(k, o)
        PROVE  vault' >= WinningShares'
    <3>1. /\ Open /\ ~market.resolved /\ ~Overdue /\ vault' = vault
          /\ market' = [market EXCEPT !.resolved    = TRUE,
                                      !.outcome     = o,
                                      !.resolved_at = now]
      BY <2>2 DEF ResolveMarket
    <3>2. market'.supply = market.supply /\ market'.outcome = o
      BY <3>1, OpenMarket DEF Markets
    <3>3. Trading
      BY <3>1, OpenMarket DEF Trading, Base, Lifecycle
    <3>4. market.supply \in Supplies /\ vault \in Nat /\ market.fee_balance \in Nat
      BY <3>1, OpenMarket
    <3>5. vault >= market.supply[o]
      BY <3>1, <3>3, <3>4, SharesArePaidFor DEF VaultCoversTheCost, FeesFollow
    <3> QED
      BY <3>1, <3>2, <3>5 DEF WinningShares
  <2>3. ASSUME WithdrawLp(k) \/ ReclaimExpiredLp(k)
        PROVE  FALSE
    <3>1. market'.lp_withdrawn = TRUE
      BY <2>3, OpenMarket DEF WithdrawLp, ReclaimExpiredLp, Markets
    <3> QED
      BY <3>1
  <2>4. ASSUME SweepUnclaimed(k)
        PROVE  FALSE
    BY <2>4 DEF SweepUnclaimed, Open
  <2> QED
    BY <1>4, <2>1, <2>2, <2>3, <2>4 DEF Administer
<1>5. CASE Tick \/ UNCHANGED vars
  BY <1>1, <1>5 DEF Tick, vars
<1> QED
  BY <1>1, <1>2, <1>3, <1>4, <1>5 DEF Next

LEMMA NextPaidInFull ==
    ASSUME Base, WinnersAwaited, WinnersArePaidInFull, [Next]_vars
    PROVE  WinnersArePaidInFull'
<1> DEFINE Full == market.winner_payout_ratio =
                       IF WinningShares = 0 THEN 0 ELSE RATIO_ONE
<1> SUFFICES ASSUME Settling' PROVE Full'
  BY DEF WinnersArePaidInFull
<1>1. ASSUME market' = market
      PROVE  Full'
  BY <1>1 DEF WinnersArePaidInFull, Settling, WinningShares, Open
<1>2. ASSUME NEW u \in Traders, Trade(u)
      PROVE  FALSE
  <2>1. PICK o \in Outcome, n \in Int, volume \in Nat, fee \in Nat, paid \in Int :
            Traded(u, o, n, volume, fee, paid)
    BY <1>2, TradeSpec
  <2> QED
    BY <2>1, TradedMarket DEF Traded, Settling
<1>3. ASSUME NEW u \in Traders, Leave(u)
      PROVE  Full'
  <2>1. CASE RefundExpired(u)
    <3>1. Open /\ ~market.resolved
          /\ market' = [market EXCEPT !.supply =
                           [o \in Outcome |-> @[o] - position[u].shares[o]]]
      BY <2>1 DEF RefundExpired
    <3> QED
      BY <3>1, OpenMarket DEF Markets, Settling
  <2>2. CASE ClaimPayout(u) \/ ClosePosition(u)
    BY <1>1, <2>2 DEF ClaimPayout, ClosePosition
  <2> QED
    BY <1>3, <2>1, <2>2 DEF Leave
<1>4. ASSUME NEW k \in Keys, Administer(k)
      PROVE  Full'
  <2>1. ASSUME NEW t \in Expiries, CreateMarket(k, t)
        PROVE  FALSE
    BY <2>1 DEF CreateMarket, Settling
  <2>2. ASSUME NEW o \in Outcome, ResolveMarket(k, o)
        PROVE  FALSE
    <3>1. Open /\ ~market.resolved /\ ~Overdue
          /\ market'.lp_withdrawn = market.lp_withdrawn
      BY <2>2, OpenMarket DEF ResolveMarket, Markets
    <3> QED
      BY <3>1, OpenMarket DEF Settling, Base, Lifecycle
  <2>3. ASSUME WithdrawLp(k)
        PROVE  Full'
    <3>1. /\ Open /\ market.resolved /\ ~market.lp_withdrawn
          /\ market' = [market EXCEPT !.winner_payout_ratio = PayoutRatio,
                                      !.fee_balance         = 0,
                                      !.lp_withdrawn        = TRUE]
      BY <2>3 DEF WithdrawLp
    <3>2. /\ market'.supply = market.supply /\ market'.outcome = market.outcome
          /\ market'.winner_payout_ratio = PayoutRatio
      BY <3>1, OpenMarket DEF Markets
    <3>3. vault >= WinningShares
      BY <3>1 DEF WinnersAwaited
    <3> QED
      BY <3>2, <3>3 DEF PayoutRatio, WinningShares
  <2>4. ASSUME SweepUnclaimed(k)
        PROVE  FALSE
    BY <2>4 DEF SweepUnclaimed, Settling, Open
  <2>5. ASSUME ReclaimExpiredLp(k)
        PROVE  FALSE
    <3>1. market'.resolved = market.resolved
      BY <2>5, OpenMarket DEF ReclaimExpiredLp, Markets
    <3> QED
      BY <2>5, <3>1 DEF ReclaimExpiredLp, Settling
  <2> QED
    BY <1>4, <2>1, <2>2, <2>3, <2>4, <2>5 DEF Administer
<1>5. CASE Tick \/ UNCHANGED vars
  BY <1>1, <1>5 DEF Tick, vars
<1> QED
  BY <1>2, <1>3, <1>4, <1>5 DEF Next

LEMMA FundedInvariance == Spec => []Funded
<1>1. Init => Base /\ Funded
  BY InitBase
     DEF Init, Funded, VaultCoversTheCost, FeesFollow, LiquidityIsKept,
         WinnersAwaited, WinnersArePaidInFull, Trading, Settling, Open
<1>2. Base /\ Funded /\ [Next]_vars => (Base /\ Funded)'
  BY NextBase, NextSolvent, NextFees, NextKept, NextAwaited, NextPaidInFull
     DEF Funded
<1> QED
  BY <1>1, <1>2, PTL DEF Spec

\* Whatever is bought, sold and refunded, the liquidity of the administrator
\* and the fees stay in the vault until they are taken: no subtraction of
\* refund_expired is ever cut off at zero.
THEOREM LiquidityStays == Spec => []LiquidityIsKept
<1>1. Funded => LiquidityIsKept
  BY DEF Funded
<1> QED
  BY <1>1, FundedInvariance, PTL

\* withdraw_lp always sets a ratio of one for one when there are winners,
\* although the liquidity is less than the market maker can lose.
THEOREM WinnersPaidInFull == Spec => []WinnersArePaidInFull
<1>1. Funded => WinnersArePaidInFull
  BY DEF Funded
<1> QED
  BY <1>1, FundedInvariance, PTL

-----------------------------------------------------------------------------
(* Positions.                                                              *)

\* How a position can leave.
LEMMA LeavesWithNothing ==
    ASSUME Base, [Next]_vars, NEW u \in Traders, Holds(u), ~Holds(u)',
           vault' = vault
    PROVE  IF market.resolved THEN SharesOf(u, market.outcome) = 0
           ELSE \/ position[u].shares = NoShares
                \/ Overdue /\ Refund(position[u].shares) = 0
<1>1. position'[u] # position[u]
  BY DEF Holds
<1>2. ASSUME NEW v \in Traders, Trade(v)
      PROVE  FALSE
  <2>1. PICK o \in Outcome, n \in Int, volume \in Nat, fee \in Nat, paid \in Int :
            Traded(v, o, n, volume, fee, paid)
    BY <1>2, TradeSpec
  <2>2. With(Held(v).shares, o, n) \in Supplies
    BY <2>1, HeldType, WithType DEF Traded, UserPositions
  <2>3. \A w \in Traders : Holds(w) => Holds(w)'
    BY <2>1, <2>2, HeldType, TradedPositions DEF Traded, UserPositions
  <2> QED
    BY <2>3
<1>3. ASSUME NEW v \in Traders, Leave(v)
      PROVE  v = u
  <2>1. Close(v)
    BY <1>3 DEF Leave, ClaimPayout, RefundExpired, ClosePosition
  <2> QED
    BY <1>1, <2>1, ClosedPositions
<1>4. CASE ClaimPayout(u)
  <2>1. Open /\ Holds(u) /\ market.resolved
        /\ vault' = vault - Payout(position[u].shares[market.outcome])
        /\ Payout(position[u].shares[market.outcome]) > 0
    BY <1>4 DEF ClaimPayout, Pay
  <2>2. position[u].shares[market.outcome] \in Nat
    BY <2>1 DEF Base, TypeOK, Lifecycle, Holds, UserPositions, Supplies
  <2>3. Payout(position[u].shares[market.outcome]) \in Nat /\ vault \in Nat
    BY <2>1, <2>2, PayoutType, OpenMarket
  <2> QED
    BY <2>1, <2>3
<1>5. CASE RefundExpired(u)
  <2>1. /\ Open /\ ~market.resolved /\ Overdue
        /\ Refund(position[u].shares) \in Nat
        /\ vault' = vault - Refund(position[u].shares)
    BY <1>5, RefundExpiredSpec
  <2>2. Refund(position[u].shares) = 0
    BY <2>1, OpenMarket
  <2> QED
    BY <2>1, <2>2
<1>6. CASE ClosePosition(u)
  <2>1. Open /\ ~position[u].claimed
    BY <1>6 DEF ClosePosition, Base, NeverMarked
  <2>2. Held(u) = position[u]
    BY DEF Held
  <2>3. market.resolved => market.outcome \in Outcome
    BY <2>1 DEF Base, Lifecycle
  <2>4. CASE position[u].shares = NoShares
    BY <2>2, <2>3, <2>4 DEF SharesOf, NoShares
  <2>5. CASE market.resolved /\ position[u].shares[market.outcome] = 0
    BY <2>2, <2>5 DEF SharesOf
  <2> QED
    BY <1>6, <2>1, <2>4, <2>5 DEF ClosePosition
<1>7. ASSUME NEW k \in Keys, Administer(k)
      PROVE  FALSE
  BY <1>1, <1>7 DEF Administer, CreateMarket, ResolveMarket, WithdrawLp,
                    SweepUnclaimed, ReclaimExpiredLp
<1>8. CASE Tick \/ UNCHANGED vars
  BY <1>1, <1>8 DEF Tick, vars
<1>9. ASSUME NEW v \in Traders, Leave(v)
      PROVE  ClaimPayout(u) \/ RefundExpired(u) \/ ClosePosition(u)
  BY <1>3, <1>9 DEF Leave
<1> QED
  BY <1>2, <1>4, <1>5, <1>6, <1>7, <1>8, <1>9 DEF Next

\* Nobody's position is taken away while it is worth something.
THEOREM NothingForfeited == Spec => NothingIsForfeited
<1> DEFINE A == \A u \in Traders :
                  Holds(u) /\ ~Holds(u)' /\ vault' = vault =>
                      IF market.resolved THEN SharesOf(u, market.outcome) = 0
                      ELSE \/ position[u].shares = NoShares
                           \/ Overdue /\ Refund(position[u].shares) = 0
<1>1. Base /\ [Next]_vars => A
  BY LeavesWithNothing
<1> HIDE DEF A
<1>2. Spec => [][A]_vars
  BY <1>1, BaseInvariance, PTL DEF Spec
<1> QED
  BY <1>2 DEF A, NothingIsForfeited

-----------------------------------------------------------------------------
(* The promises of Escrow.                                                 *)

\* While it trades, a market can be neither overdue nor reclaimed.
LEMMA TradingStage ==
    ASSUME Base, Open, ~market.resolved, now < market.expires_at
    PROVE  ~Overdue /\ ~market.lp_withdrawn /\ StageNow = "Trading"
<1>1. ~Overdue
  BY OpenMarket, MarketAssumption DEF Overdue
<1>2. ~market.lp_withdrawn
  BY <1>1 DEF Base, Lifecycle
<1>3. ~(now >= market.expires_at)
  BY OpenMarket
<1> QED
  BY <1>1, <1>2, <1>3 DEF StageNow

LEMMA TradeKeepsPromises ==
    ASSUME Base, Base', NEW u \in Traders, Trade(u)
    PROVE  Escrowed!Trade
<1>1. PICK o \in Outcome, n \in Int, volume \in Nat, fee \in Nat, paid \in Int :
          Traded(u, o, n, volume, fee, paid)
  BY TradeSpec
<1>2. Open /\ ~market.resolved /\ now < market.expires_at /\ now' = now
      /\ vault' \in Nat
  BY <1>1 DEF Traded
<1>3. /\ Open' /\ market'.resolved = market.resolved
      /\ market'.outcome = market.outcome
      /\ market'.expires_at = market.expires_at
  BY <1>1, TradedMarket, OpenStays
<1>4. StageNow = "Trading"
  BY <1>2, TradingStage
<1>5. StageNow' = "Trading"
  <2>1. ~Overdue'
    BY <1>2, <1>3, TradingStage DEF Overdue
  <2>2. market'.lp_withdrawn = FALSE
    BY <1>1, <1>2, TradedMarket, TradingStage, OpenMarket
  <2> QED
    BY <1>2, <1>3, <2>1, <2>2, OpenMarket DEF StageNow
<1>6. OutcomeNow' = OutcomeNow
  BY <1>2, <1>3 DEF OutcomeNow
<1> QED
  BY <1>2, <1>4, <1>5, <1>6 DEF Escrowed!Trade

LEMMA LeaveKeepsPromises ==
    ASSUME Base, Base', NEW u \in Traders, Leave(u)
    PROVE  \/ Escrowed!Claim \/ Escrowed!Refund
           \/ UNCHANGED <<StageNow, OutcomeNow, vault>>
<1>1. CASE ClaimPayout(u)
  <2>1. /\ Open /\ Holds(u) /\ market.resolved /\ market.lp_withdrawn
        /\ Pay(Payout(position[u].shares[market.outcome]))
        /\ UNCHANGED <<market, now>>
    BY <1>1 DEF ClaimPayout
  <2>2. position[u].shares[market.outcome] \in Nat
    BY <2>1 DEF Base, TypeOK, Lifecycle, Holds, UserPositions, Supplies
  <2>3. vault' \in 0..vault
    BY <2>1, <2>2, PayoutType, OpenMarket DEF Pay
  <2>4. StageNow = "Settling" /\ UNCHANGED <<StageNow, OutcomeNow>>
    BY <1>1, <2>1 DEF ClaimPayout, StageNow, OutcomeNow, Open, Overdue, InClaimWindow
  <2> QED
    BY <2>3, <2>4 DEF Escrowed!Claim
<1>2. CASE RefundExpired(u)
  <2> DEFINE left == [o \in Outcome |-> market.supply[o] - position[u].shares[o]]
  <2>1. /\ Open /\ ~market.resolved /\ Overdue
        /\ market' = [market EXCEPT !.supply = left]
        /\ market' \in Markets
        /\ Refund(position[u].shares) \in Nat
        /\ vault' = vault - Refund(position[u].shares) /\ vault' \in Nat
        /\ now' = now
    BY <1>2, RefundExpiredSpec
  <2> HIDE DEF left
  <2>2. /\ Open' /\ market'.resolved = market.resolved
        /\ market'.outcome = market.outcome
        /\ market'.expires_at = market.expires_at
        /\ market'.lp_withdrawn = market.lp_withdrawn
    BY <2>1, OpenMarket, OpenStays DEF Markets
  <2>3. StageNow \in {"Dead", "Reclaimed"} /\ UNCHANGED <<StageNow, OutcomeNow>>
    BY <2>1, <2>2 DEF StageNow, OutcomeNow, Overdue
  <2>4. vault' \in 0..vault
    BY <2>1, OpenMarket
  <2> QED
    BY <2>3, <2>4 DEF Escrowed!Refund
<1>3. CASE ClosePosition(u)
  BY <1>3 DEF ClosePosition, StageNow, OutcomeNow, Open, Overdue, InClaimWindow
<1> QED
  BY <1>1, <1>2, <1>3 DEF Leave

LEMMA AdministerKeepsPromises ==
    ASSUME Base, Base', NEW k \in Keys, Administer(k)
    PROVE  \/ Escrowed!Open \/ Escrowed!Resolve \/ Escrowed!Release
           \/ Escrowed!Sweep \/ Escrowed!Reclaim
<1>1. ASSUME NEW t \in Expiries, CreateMarket(k, t)
      PROVE  Escrowed!Open
  <2>1. /\ ~Open /\ now < t /\ now' = now
        /\ market'.resolved = FALSE /\ market'.lp_withdrawn = FALSE
        /\ market'.outcome = "None" /\ market'.expires_at = t
    BY <1>1, MarketAssumption DEF CreateMarket, Base, TypeOK
  <2>2. market' \in Markets /\ vault' \in Nat
    <3>1. t \in Nat
      BY MarketAssumption
    <3> QED
      BY <1>1, <3>1, MarketAssumption
      DEF CreateMarket, Markets, Supplies, NoShares, Outcome
  <2>3. Open'
    BY <2>2, OpenStays
  <2>4. ~Overdue' /\ ~(now' >= market'.expires_at)
    BY <2>1, MarketAssumption DEF Overdue, Base, TypeOK
  <2>5. StageNow = "None" /\ StageNow' = "Trading"
    BY <2>1, <2>3, <2>4 DEF StageNow
  <2>6. OutcomeNow' = OutcomeNow
    BY <2>1, <2>3 DEF OutcomeNow
  <2> QED
    BY <2>2, <2>5, <2>6 DEF Escrowed!Open, Escrowed!Become
<1>2. ASSUME NEW o \in Outcome, ResolveMarket(k, o)
      PROVE  Escrowed!Resolve
  <2>1. /\ Open /\ ~market.resolved /\ ~Overdue /\ UNCHANGED <<vault, now>>
        /\ market' = [market EXCEPT !.resolved = TRUE, !.outcome = o,
                                    !.resolved_at = now]
    BY <1>2 DEF ResolveMarket
  <2>2. /\ market' \in Markets
        /\ market'.resolved = TRUE /\ market'.outcome = o
        /\ market'.lp_withdrawn = market.lp_withdrawn
    BY <2>1, OpenMarket DEF Markets
  <2>3. Open' /\ ~market.lp_withdrawn
    BY <2>1, <2>2, OpenStays DEF Base, Lifecycle
  <2>4. StageNow \in {"Trading", "Closed"} /\ StageNow' = "Resolved"
    BY <2>1, <2>2, <2>3 DEF StageNow
  <2>5. OutcomeNow' \in Outcome
    BY <2>2, <2>3 DEF OutcomeNow
  <2> QED
    BY <2>1, <2>4, <2>5 DEF Escrowed!Resolve, Escrowed!Become
<1>3. ASSUME WithdrawLp(k)
      PROVE  Escrowed!Release
  <2>1. /\ Open /\ market.resolved /\ ~market.lp_withdrawn
        /\ market' = [market EXCEPT !.winner_payout_ratio = PayoutRatio,
                                    !.fee_balance         = 0,
                                    !.lp_withdrawn        = TRUE]
        /\ vault' = vault - Withdrawable /\ now' = now
    BY <1>3 DEF WithdrawLp, Pay
  <2>2. vault' \in 0..vault
    BY <2>1, OpenMarket, WithdrawableBounds
  <2>3. /\ market' \in Markets /\ market'.resolved = market.resolved
        /\ market'.outcome = market.outcome /\ market'.lp_withdrawn = TRUE
    <3>1. market \in Markets /\ PayoutRatio \in Nat
      BY <2>1, OpenMarket, WithdrawableBounds
    <3> QED
      BY <2>1, <3>1 DEF Markets
  <2>4. Open'
    BY <2>3, OpenStays
  <2>5. /\ StageNow = "Resolved" /\ StageNow' \in {"Settling", "Lapsed"}
        /\ OutcomeNow' = OutcomeNow
    BY <2>1, <2>3, <2>4 DEF StageNow, OutcomeNow
  <2> QED
    BY <2>2, <2>5 DEF Escrowed!Release, Escrowed!Become
<1>4. ASSUME SweepUnclaimed(k)
      PROVE  Escrowed!Sweep
  BY <1>4 DEF SweepUnclaimed, StageNow, OutcomeNow, Open, Escrowed!Sweep,
              Escrowed!Become
<1>5. ASSUME ReclaimExpiredLp(k)
      PROVE  Escrowed!Reclaim
  <2>1. /\ Open /\ ~market.resolved /\ Overdue /\ ~market.lp_withdrawn
        /\ market' = [market EXCEPT !.lp_withdrawn = TRUE]
        /\ vault' = vault - Smaller(INITIAL_LIQUIDITY, vault) /\ now' = now
    BY <1>5 DEF ReclaimExpiredLp, Pay
  <2>2. vault' \in 0..vault
    BY <2>1, OpenMarket, MarketAssumption DEF Smaller
  <2>3. /\ market' \in Markets /\ market'.resolved = market.resolved
        /\ market'.outcome = market.outcome /\ market'.lp_withdrawn = TRUE
    BY <2>1, OpenMarket DEF Markets
  <2>4. Open'
    BY <2>3, OpenStays
  <2>5. StageNow = "Dead" /\ StageNow' = "Reclaimed" /\ OutcomeNow' = OutcomeNow
    BY <2>1, <2>3, <2>4 DEF StageNow, OutcomeNow
  <2> QED
    BY <2>2, <2>5 DEF Escrowed!Reclaim, Escrowed!Become
<1> QED
  BY <1>1, <1>2, <1>3, <1>4, <1>5 DEF Administer

\* One second ends trading or the time to resolve, but never both.
LEMMA TickKeepsPromises ==
    ASSUME Base, Tick
    PROVE  Escrowed!Expire \/ UNCHANGED <<StageNow, OutcomeNow, vault>>
<1>1. now' = now + 1 /\ UNCHANGED <<market, vault>>
  BY DEF Tick
<1>2. CASE ~Open
  BY <1>1, <1>2 DEF StageNow, OutcomeNow, Open
<1>3. CASE Open /\ market.lp_withdrawn /\ market.resolved
  <2> DEFINE t == market.resolved_at
  <2>1. t \in Nat /\ now \in Nat /\ CLAIM_WINDOW_SECS \in Nat
    BY <1>3, OpenMarket, MarketAssumption
  <2>2. StageNow = IF now <= t + CLAIM_WINDOW_SECS THEN "Settling" ELSE "Lapsed"
    BY <1>3 DEF StageNow, InClaimWindow
  <2>3. StageNow' =
            IF now + 1 <= t + CLAIM_WINDOW_SECS THEN "Settling" ELSE "Lapsed"
    BY <1>1, <1>3 DEF StageNow, InClaimWindow, Open
  <2>4. OutcomeNow' = OutcomeNow
    BY <1>1 DEF OutcomeNow, Open
  <2> HIDE DEF t
  <2>5. \/ StageNow' = StageNow
        \/ StageNow = "Settling" /\ StageNow' = "Lapsed"
    BY <2>1, <2>2, <2>3
  <2> QED
    BY <1>1, <2>4, <2>5 DEF Escrowed!Expire, Escrowed!Become
<1>4. CASE Open /\ market.resolved /\ ~market.lp_withdrawn
  BY <1>1, <1>4 DEF StageNow, OutcomeNow, Open
<1>5. CASE Open /\ market.lp_withdrawn /\ ~market.resolved
  BY <1>1, <1>5 DEF StageNow, OutcomeNow, Open
<1>6. CASE Open /\ ~market.resolved /\ ~market.lp_withdrawn
  <2> DEFINE t == market.expires_at
  <2>1. t \in Nat /\ now \in Nat /\ RESOLVE_DEADLINE_SECS \in Nat
    BY <1>6, OpenMarket, MarketAssumption
  <2>2. StageNow = IF now > t + RESOLVE_DEADLINE_SECS THEN "Dead"
                   ELSE IF now >= t THEN "Closed" ELSE "Trading"
    BY <1>6 DEF StageNow, Overdue
  <2>3. StageNow' = IF now + 1 > t + RESOLVE_DEADLINE_SECS THEN "Dead"
                    ELSE IF now + 1 >= t THEN "Closed" ELSE "Trading"
    BY <1>1, <1>6 DEF StageNow, Overdue, Open
  <2>4. OutcomeNow' = OutcomeNow
    BY <1>1 DEF OutcomeNow, Open
  <2> HIDE DEF t
  <2>5. \/ StageNow' = StageNow
        \/ StageNow = "Trading" /\ StageNow' = "Closed"
        \/ StageNow = "Closed" /\ StageNow' = "Dead"
    BY <2>1, <2>2, <2>3
  <2> QED
    BY <1>1, <2>4, <2>5 DEF Escrowed!Expire, Escrowed!Become
<1> QED
  BY <1>2, <1>3, <1>4, <1>5, <1>6

\* The whole program, with its prices and deadlines, keeps them.
THEOREM PromisesKept == Spec => KeepsItsPromises
<1>1. Init => Escrowed!Init
  BY DEF Init, Escrowed!Init, StageNow, OutcomeNow, Open
<1>2. Base /\ Base' /\ [Next]_vars => [Escrowed!Next]_(Escrowed!escrow)
  <2> SUFFICES ASSUME Base, Base', [Next]_vars
               PROVE  [Escrowed!Next]_(Escrowed!escrow)
    OBVIOUS
  <2>1. CASE UNCHANGED vars
    BY <2>1 DEF vars, Escrowed!escrow, StageNow, OutcomeNow, Open, Overdue,
                InClaimWindow
  <2> QED
    BY <2>1, TradeKeepsPromises, LeaveKeepsPromises, AdministerKeepsPromises,
       TickKeepsPromises DEF Next, Escrowed!Next, Escrowed!escrow
<1>3. Spec => Escrowed!Spec
  BY <1>1, <1>2, BaseInvariance, PTL DEF Spec, Escrowed!Spec
<1> QED
  BY <1>3 DEF KeepsItsPromises

-----------------------------------------------------------------------------
(* The books.                                                              *)

HeldShares(o) == [u \in Traders |-> SharesOf(u, o)]

LEMMA HeldSharesType ==
    ASSUME Base, NEW o \in Outcome
    PROVE  /\ HeldShares(o) \in [Traders -> Nat]
           /\ SumFunction(HeldShares(o)) \in Nat
<1>1. \A u \in Traders : SharesOf(u, o) \in Nat
  BY HeldType DEF SharesOf, UserPositions, Supplies
<1>2. HeldShares(o) \in [Traders -> Nat]
  BY <1>1 DEF HeldShares
<1>3. \A u \in Traders : 1 * HeldShares(o)[u] <= 1 * HeldShares(o)[u]
  BY <1>2
<1> QED
  BY <1>2, <1>3, SumScaled, FewTraders

\* One trader's shares change: so does the sum.
LEMMA HeldChange ==
    ASSUME Base, Base', NEW o \in Outcome, NEW u \in Traders,
           \A v \in Traders \ {u} : position'[v] = position[v]
    PROVE  SumFunction(HeldShares(o)')
             = SumFunction(HeldShares(o)) - SharesOf(u, o) + SharesOf(u, o)'
<1> DEFINE f == HeldShares(o)
           g == HeldShares(o)'
<1>1. f \in [Traders -> Int] /\ f[u] = SharesOf(u, o)
  <2>1. f \in [Traders -> Nat]
    BY HeldSharesType
  <2> QED
    BY <2>1 DEF HeldShares
<1>2. \A v \in Traders : SharesOf(v, o)' \in Nat
  BY DEF Base, TypeOK, Held, SharesOf, Holds, UserPositions,
                       Supplies, NoShares
<1>3. g \in [Traders -> Int] /\ g[u] = SharesOf(u, o)'
  BY <1>2 DEF HeldShares
<1>4. \A v \in Traders \ {u} : g[v] = f[v]
  BY DEF HeldShares, SharesOf, Held, Holds
<1> HIDE DEF f, g
<1>5. SumFunction(g) = SumFunction(f) - f[u] + g[u]
  BY <1>1, <1>3, <1>4, SumUpdate, FewTraders
<1> QED
  BY <1>1, <1>3, <1>5 DEF f, g

\* Nobody's shares change.
LEMMA HeldSame ==
    ASSUME NEW o \in Outcome, position' = position
    PROVE  HeldShares(o)' = HeldShares(o)
  BY DEF HeldShares, SharesOf, Held, Holds

\* The books, for one outcome.
Balanced(o) ==
    IF market.resolved THEN SumFunction(HeldShares(o)) <= market.supply[o]
                       ELSE SumFunction(HeldShares(o)) = market.supply[o]

LEMMA AccountedDef == Accounted <=> (Open => \A o \in Outcome : Balanced(o))
  BY DEF Accounted, Balanced, HeldShares

\* Trades and departures, where the supplies follow the position or the market
\* is resolved.
LEMMA BooksFollow ==
    ASSUME Base, Base', Open, Accounted, NEW u \in Traders,
           \A v \in Traders \ {u} : position'[v] = position[v],
           market'.resolved = market.resolved,
           \A o \in Outcome :
               \/ market'.supply[o]
                      = market.supply[o] - SharesOf(u, o) + SharesOf(u, o)'
               \/ /\ market.resolved /\ market'.supply[o] = market.supply[o]
                  /\ SharesOf(u, o)' <= SharesOf(u, o)
    PROVE  Accounted'
<1> SUFFICES ASSUME NEW o \in Outcome
             PROVE  IF market'.resolved
                    THEN SumFunction(HeldShares(o)') <= market'.supply[o]
                    ELSE SumFunction(HeldShares(o)') = market'.supply[o]
  BY DEF Accounted, HeldShares
<1>1. Balanced(o)
  BY AccountedDef
<1>2. SumFunction(HeldShares(o)')
        = SumFunction(HeldShares(o)) - SharesOf(u, o) + SharesOf(u, o)'
  BY HeldChange
<1>3. SumFunction(HeldShares(o)) \in Nat
  BY HeldSharesType
<1>4. SharesOf(u, o) \in Nat /\ SharesOf(u, o)' \in Nat
  BY HeldType DEF SharesOf, Base, TypeOK, Held, Holds, UserPositions, Supplies,
                  NoShares
<1>5. market.supply[o] \in Nat
  BY OpenMarket DEF Supplies
<1> QED
  BY <1>1, <1>2, <1>3, <1>4, <1>5 DEF Balanced

LEMMA TradeBooks ==
    ASSUME Base, Base', Accounted, NEW u \in Traders, Trade(u)
    PROVE  Accounted'
<1>1. PICK o \in Outcome, n \in Int, volume \in Nat, fee \in Nat, paid \in Int :
          Traded(u, o, n, volume, fee, paid)
  BY TradeSpec
<1>2. /\ Open /\ market'.supply = With(market.supply, o, n)
      /\ market'.resolved = market.resolved
  BY <1>1, TradedMarket DEF Traded
<1>3. position' = [position EXCEPT
                     ![u] = [Held(u) EXCEPT
                               !.shares = With(Held(u).shares, o, n)]]
  BY <1>1 DEF Traded
<1>4. Held(u) \in UserPositions /\ Held(u).shares \in Supplies
      /\ market.supply \in Supplies
  BY <1>2, HeldType, OpenMarket DEF UserPositions
<1>5. With(Held(u).shares, o, n) \in Supplies
  BY <1>1, <1>4, WithType DEF Traded
<1>6. position'[u] = [Held(u) EXCEPT !.shares = With(Held(u).shares, o, n)]
      /\ \A v \in Traders \ {u} : position'[v] = position[v]
  BY <1>3 DEF Base, TypeOK
<1>7. position'[u] \in UserPositions
      /\ position'[u].shares = With(Held(u).shares, o, n)
  BY <1>4, <1>5, <1>6 DEF UserPositions
<1>8. Held(u)' = position'[u]
  BY <1>7, NoMarketAssumption DEF Held, Holds
<1>9. \A p \in Outcome :
          market'.supply[p] = market.supply[p] - SharesOf(u, p) + SharesOf(u, p)'
  <2> SUFFICES ASSUME NEW p \in Outcome
               PROVE  market'.supply[p]
                        = market.supply[p] - SharesOf(u, p) + SharesOf(u, p)'
    OBVIOUS
  <2>1. SharesOf(u, p)' = With(Held(u).shares, o, n)[p]
    BY <1>7, <1>8 DEF SharesOf
  <2>2. market.supply[p] \in Nat /\ Held(u).shares[p] \in Nat
    BY <1>4 DEF Supplies
  <2>3. /\ With(Held(u).shares, o, n)[p]
             = IF p = o THEN Held(u).shares[p] + n ELSE Held(u).shares[p]
        /\ With(market.supply, o, n)[p]
             = IF p = o THEN market.supply[p] + n ELSE market.supply[p]
    BY <1>4 DEF With, Supplies
  <2> QED
    BY <1>2, <2>1, <2>2, <2>3 DEF SharesOf
<1> QED
  BY <1>2, <1>6, <1>9, BooksFollow

LEMMA LeaveBooks ==
    ASSUME Base, Base', Accounted, NEW u \in Traders, Leave(u)
    PROVE  Accounted'
<1>1. Open /\ Close(u) /\ Holds(u)
  BY DEF Leave, ClaimPayout, RefundExpired, ClosePosition
<1>2. position'[u] = NoAccount /\ \A v \in Traders \ {u} : position'[v] = position[v]
  BY <1>1, ClosedPositions
<1>3. Held(u) = position[u]
      /\ \A o \in Outcome : SharesOf(u, o) = position[u].shares[o]
                            /\ SharesOf(u, o) \in Nat /\ SharesOf(u, o)' = 0
  BY <1>1, <1>2, HeldType DEF Held, Holds, SharesOf, NoShares, UserPositions, Supplies
<1>4. \A o \in Outcome : market.supply[o] \in Nat
  BY <1>1, OpenMarket DEF Supplies
<1>5. CASE market' = market /\ market.resolved
  <2>1. \A o \in Outcome : /\ market'.supply[o] = market.supply[o]
                           /\ SharesOf(u, o)' <= SharesOf(u, o)
    BY <1>3, <1>5
  <2> QED
    BY <1>1, <1>2, <1>5, <2>1, BooksFollow
<1>6. CASE ClaimPayout(u)
  BY <1>5, <1>6 DEF ClaimPayout
<1>7. CASE RefundExpired(u)
  <2> DEFINE left == [o \in Outcome |-> market.supply[o] - position[u].shares[o]]
  <2>1. market' = [market EXCEPT !.supply = left]
    BY <1>7, RefundExpiredSpec
  <2>2. market'.supply = left /\ market'.resolved = market.resolved
    <3> HIDE DEF left
    <3> QED
      BY <1>1, <2>1, OpenMarket DEF Markets
  <2>3. \A o \in Outcome :
            market'.supply[o] = market.supply[o] - SharesOf(u, o) + SharesOf(u, o)'
    BY <1>3, <1>4, <2>2
  <2> QED
    BY <1>1, <1>2, <2>2, <2>3, BooksFollow
<1>8. CASE ClosePosition(u) /\ ~market.resolved
  <2>1. market' = market /\ position[u].shares = NoShares
    BY <1>1, <1>8 DEF ClosePosition, Base, NeverMarked
  <2>2. \A o \in Outcome :
            market'.supply[o] = market.supply[o] - SharesOf(u, o) + SharesOf(u, o)'
    BY <1>3, <1>4, <2>1 DEF NoShares
  <2> QED
    BY <1>1, <1>2, <2>1, <2>2, BooksFollow
<1>9. CASE ClosePosition(u) /\ market.resolved
  BY <1>5, <1>9 DEF ClosePosition
<1> QED
  BY <1>6, <1>7, <1>8, <1>9 DEF Leave

LEMMA AdministerBooks ==
    ASSUME Base, Base', Accounted, ~Renews, NEW k \in Keys, Administer(k)
    PROVE  Accounted'
<1>1. position' = position
  BY DEF Administer, CreateMarket, ResolveMarket, WithdrawLp, SweepUnclaimed,
         ReclaimExpiredLp
<1>2. ASSUME Open, market'.supply = market.supply,
             market.resolved => market'.resolved
      PROVE  Accounted'
  <2> SUFFICES ASSUME NEW o \in Outcome
               PROVE  IF market'.resolved
                      THEN SumFunction(HeldShares(o)) <= market'.supply[o]
                      ELSE SumFunction(HeldShares(o)) = market'.supply[o]
    BY <1>1, HeldSame DEF Accounted, HeldShares
  <2>1. Balanced(o) /\ SumFunction(HeldShares(o)) \in Nat
    BY <1>2, AccountedDef, HeldSharesType
  <2>2. market.supply[o] \in Nat
    BY <1>2, OpenMarket DEF Supplies
  <2> QED
    BY <1>2, <2>1, <2>2 DEF Balanced
<1>3. ASSUME NEW t \in Expiries, CreateMarket(k, t)
      PROVE  Accounted'
  <2>1. market'.supply = NoShares /\ market'.resolved = FALSE /\ ~Open
    BY <1>3 DEF CreateMarket
  <2>2. Open' => \A u \in Traders : ~Holds(u)
    BY <2>1 DEF Renews
  <2> SUFFICES ASSUME Open', NEW o \in Outcome
               PROVE  SumFunction(HeldShares(o)) = 0
    BY <1>1, <2>1, HeldSame DEF Accounted, HeldShares, NoShares
  <2>3. \A u \in Traders : HeldShares(o)[u] = 0
    BY <2>2 DEF HeldShares, SharesOf, Held, NoShares
  <2>4. HeldShares(o) \in [Traders -> Int]
    BY HeldSharesType
  <2> QED
    BY <2>3, <2>4, SumZero, FewTraders
<1>4. ASSUME NEW o \in Outcome, ResolveMarket(k, o)
      PROVE  Accounted'
  <2>1. Open /\ market'.supply = market.supply /\ market'.resolved = TRUE
    BY <1>4, OpenMarket DEF ResolveMarket, Markets
  <2> QED
    BY <1>2, <2>1
<1>5. ASSUME WithdrawLp(k) \/ ReclaimExpiredLp(k)
      PROVE  Accounted'
  <2>1. Open /\ market'.supply = market.supply /\ market'.resolved = market.resolved
    BY <1>5, OpenMarket DEF WithdrawLp, ReclaimExpiredLp, Markets
  <2> QED
    BY <1>2, <2>1
<1>6. ASSUME SweepUnclaimed(k)
      PROVE  Accounted'
  BY <1>6 DEF SweepUnclaimed, Accounted, Open
<1> QED
  BY <1>3, <1>4, <1>5, <1>6 DEF Administer

LEMMA NextBooks ==
    ASSUME Base, Base', Accounted, ~Renews, [Next]_vars
    PROVE  Accounted'
<1>1. CASE Tick \/ UNCHANGED vars
  <2>1. market' = market /\ position' = position
    BY <1>1 DEF Tick, vars
  <2> QED
    BY <2>1 DEF Accounted, Open, SharesOf, Held, Holds
<1> QED
  BY <1>1, TradeBooks, LeaveBooks, AdministerBooks DEF Next

\* No instruction upsets the books of a market.
THEOREM SharesAreAccounted == Spec => SharesStayAccounted
<1>1. Base /\ Base' /\ [Next]_vars => (Accounted /\ ~Renews => Accounted')
  BY NextBooks
<1> QED
  BY <1>1, BaseInvariance, PTL DEF Spec, SharesStayAccounted

-----------------------------------------------------------------------------
(* The winners.                                                            *)

Payouts == [u \in Traders |-> Payout(SharesOf(u, market.outcome))]

LEMMA CoveredDef == Covered <=> (Settling => vault >= SumFunction(Payouts))
  BY DEF Covered, Payouts

LEMMA PayoutsType ==
    ASSUME Base, Open, market.resolved
    PROVE  /\ market.outcome \in Outcome
           /\ Payouts \in [Traders -> Nat]
           /\ \A u \in Traders :
                 RATIO_ONE * Payouts[u]
                     <= market.winner_payout_ratio * HeldShares(market.outcome)[u]
<1>1. market.outcome \in Outcome /\ market.winner_payout_ratio \in Nat
  BY OpenMarket DEF Base, Lifecycle
<1>2. \A u \in Traders : SharesOf(u, market.outcome) \in Nat
  BY <1>1, HeldType DEF SharesOf, UserPositions, Supplies
<1>3. ASSUME NEW u \in Traders
      PROVE  /\ Payouts[u] \in Nat
             /\ RATIO_ONE * Payouts[u]
                  <= market.winner_payout_ratio * HeldShares(market.outcome)[u]
  <2> DEFINE n == SharesOf(u, market.outcome)
             r == market.winner_payout_ratio
  <2>1. n \in Nat /\ r \in Nat /\ RATIO_ONE \in Nat \ {0}
    BY <1>1, <1>2, MarketAssumption
  <2>2. Payouts[u] = (n * r) \div RATIO_ONE /\ HeldShares(market.outcome)[u] = n
    BY DEF Payouts, Payout, HeldShares
  <2> HIDE DEF n, r
  <2>3. n * r \in Nat /\ n * r = r * n
    BY <2>1
  <2>4. (n * r) \div RATIO_ONE \in Nat
        /\ RATIO_ONE * ((n * r) \div RATIO_ONE) <= n * r
    BY <2>1, <2>3, FloorBounds
  <2> QED
    BY <2>2, <2>3, <2>4 DEF r
<1>4. Payouts \in [Traders -> Nat]
  BY <1>3 DEF Payouts
<1> QED
  BY <1>1, <1>3, <1>4

\* When the administrator has taken the surplus, what is left is enough.
LEMMA ReleaseCovers ==
    ASSUME Base, Base', Accounted, NEW k \in Keys, WithdrawLp(k)
    PROVE  vault' >= SumFunction(Payouts')
<1> DEFINE W    == WinningShares
           r    == PayoutRatio
           held == SumFunction(HeldShares(market.outcome))
           sum  == SumFunction(Payouts')
<1>1. /\ Open /\ market.resolved /\ UNCHANGED <<position, now>>
      /\ market' = [market EXCEPT !.winner_payout_ratio = r,
                                  !.fee_balance         = 0,
                                  !.lp_withdrawn        = TRUE]
      /\ vault' = vault - Withdrawable
  BY DEF WithdrawLp, Pay
<1>2. W \in Nat /\ r \in Nat /\ vault \in Nat /\ RATIO_ONE \in Nat \ {0}
  BY <1>1, OpenMarket, WithdrawableBounds, MarketAssumption
<1>3. /\ Open' /\ market'.resolved /\ market'.outcome = market.outcome
      /\ market'.winner_payout_ratio = r
  <2>1. market \in Markets
    BY <1>1, OpenMarket
  <2>2. market' \in Markets /\ market'.resolved = market.resolved
        /\ market'.outcome = market.outcome /\ market'.winner_payout_ratio = r
    BY <1>1, <1>2, <2>1 DEF Markets
  <2> QED
    BY <1>1, <2>2, OpenStays
<1>4. market.outcome \in Outcome
  BY <1>1 DEF Base, Lifecycle
<1>5. HeldShares(market.outcome)' = HeldShares(market.outcome)
  BY <1>1, <1>3 DEF HeldShares, SharesOf, Held, Holds
<1>6. /\ Payouts' \in [Traders -> Nat]
      /\ \A u \in Traders :
            RATIO_ONE * Payouts'[u] <= r * HeldShares(market.outcome)[u]
  <2> DEFINE h == HeldShares(market.outcome)
  <2>1. h \in [Traders -> Nat]
    BY <1>4, HeldSharesType
  <2>2. \A u \in Traders : Payouts'[u] = (h[u] * r) \div RATIO_ONE
    BY <1>1, <1>3 DEF Payouts, Payout, HeldShares, SharesOf, Held, Holds
  <2> HIDE DEF h, r
  <2>3. ASSUME NEW u \in Traders
        PROVE  Payouts'[u] \in Nat /\ RATIO_ONE * Payouts'[u] <= r * h[u]
    <3>1. h[u] \in Nat /\ h[u] * r \in Nat /\ h[u] * r = r * h[u]
      BY <1>2, <2>1
    <3> QED
      BY <1>2, <2>2, <3>1, FloorBounds
  <2>4. Payouts' = [u \in Traders |-> Payouts'[u]]
    BY DEF Payouts
  <2> QED
    BY <2>3, <2>4 DEF h
<1>7. sum \in Nat /\ held \in Nat /\ RATIO_ONE * sum <= r * held
  <2>1. HeldShares(market.outcome) \in [Traders -> Nat]
    BY <1>4, HeldSharesType
  <2> QED
    BY <1>2, <1>6, <2>1, SumScaled, FewTraders
<1>8. held <= W
  BY <1>1, <1>4, AccountedDef DEF Balanced, WinningShares
<1> HIDE DEF held, sum, W, r
<1>9. RATIO_ONE * sum <= r * W
  <2>1. r * held <= r * W
    BY <1>2, <1>7, <1>8
  <2> QED
    BY <1>2, <1>7, <2>1
<1>10. \A m \in Nat : RATIO_ONE * sum <= RATIO_ONE * m => sum <= m
  <2> SUFFICES ASSUME NEW m \in Nat, RATIO_ONE * sum <= RATIO_ONE * m
               PROVE  sum <= m
    OBVIOUS
  <2>1. SUFFICES ASSUME sum >= m + 1 PROVE FALSE
    BY <1>7
  <2>2. RATIO_ONE * sum >= RATIO_ONE * (m + 1)
    BY <1>2, <1>7, <2>1
  <2>3. RATIO_ONE * (m + 1) = RATIO_ONE * m + RATIO_ONE
    BY <1>2
  <2> QED
    BY <1>2, <1>7, <2>2, <2>3
<1>11. CASE W = 0
  <2>1. r * W = RATIO_ONE * 0 /\ vault' = 0
    BY <1>1, <1>2, <1>11 DEF W, Withdrawable
  <2> QED
    BY <1>7, <1>9, <1>10, <2>1 DEF sum
<1>12. CASE W # 0 /\ vault >= W
  <2>1. r = RATIO_ONE /\ vault' = vault - (vault - W)
    BY <1>1, <1>12 DEF W, r, Withdrawable, PayoutRatio
  <2> QED
    BY <1>2, <1>7, <1>9, <1>10, <2>1 DEF sum
<1>13. CASE W # 0 /\ ~(vault >= W)
  <2>1. r = (vault * RATIO_ONE) \div W /\ vault' = vault
    BY <1>1, <1>2, <1>13 DEF W, r, Withdrawable, PayoutRatio
  <2>2. vault * RATIO_ONE \in Nat /\ vault * RATIO_ONE = RATIO_ONE * vault
    BY <1>2
  <2>3. W * r <= RATIO_ONE * vault
    BY <1>2, <1>13, <2>1, <2>2, FloorBounds
  <2>4. W * r = r * W
    BY <1>2
  <2>5. r * W \in Nat /\ RATIO_ONE * sum \in Nat
    BY <1>2, <1>7
  <2>6. RATIO_ONE * sum <= RATIO_ONE * vault
    BY <1>9, <2>2, <2>3, <2>4, <2>5
  <2> QED
    BY <1>2, <1>10, <2>1, <2>6 DEF sum
<1> QED
  BY <1>11, <1>12, <1>13

\* A winner takes what was set aside for this position and nothing else.
LEMMA LeaveCovered ==
    ASSUME Base, Base', Settling, Settling', Covered, NEW u \in Traders, Leave(u)
    PROVE  vault' >= SumFunction(Payouts')
<1>1. Open /\ market.resolved /\ Holds(u)
  BY DEF Settling, Leave, ClaimPayout, RefundExpired, ClosePosition
<1>2. Close(u) /\ market' = market
  BY <1>1 DEF Leave, ClaimPayout, RefundExpired, ClosePosition
<1>3. position'[u] = NoAccount /\ \A v \in Traders \ {u} : position'[v] = position[v]
  BY <1>2, ClosedPositions
<1>4. market.outcome \in Outcome /\ Payouts \in [Traders -> Nat]
  BY <1>1, PayoutsType
<1>5. Payouts[u] = Payout(position[u].shares[market.outcome])
  BY <1>1 DEF Payouts, SharesOf, Held
<1>6. Payouts'[u] = 0
  <2>1. SharesOf(u, market.outcome)' = 0
    BY <1>2, <1>3, <1>4 DEF SharesOf, Held, Holds, NoShares
  <2>2. (0 * market.winner_payout_ratio) \div RATIO_ONE = 0
    BY <1>1, OpenMarket, MarketAssumption
  <2> QED
    BY <1>2, <2>1, <2>2 DEF Payouts, Payout
<1>7. \A v \in Traders \ {u} : Payouts'[v] = Payouts[v]
  BY <1>2, <1>3 DEF Payouts, Payout, SharesOf, Held, Holds
<1>8. Payouts' \in [Traders -> Int] /\ Payouts \in [Traders -> Int]
  <2>1. \A v \in Traders : Payouts'[v] \in Int /\ Payouts[v] \in Int
    BY <1>4, <1>6, <1>7
  <2> QED
    BY <2>1 DEF Payouts
<1>9. SumFunction(Payouts') = SumFunction(Payouts) - Payouts[u]
  <2>1. SumFunction(Payouts') = SumFunction(Payouts) - Payouts[u] + Payouts'[u]
    BY <1>7, <1>8, SumUpdate, FewTraders
  <2>2. SumFunction(Payouts) \in Int /\ Payouts[u] \in Int
    BY <1>8, SumType, FewTraders
  <2> QED
    BY <1>6, <2>1, <2>2
<1>10. vault >= SumFunction(Payouts) /\ vault \in Nat
       /\ SumFunction(Payouts) \in Int /\ Payouts[u] \in Nat
  BY <1>1, <1>4, <1>8, CoveredDef, OpenMarket, SumType, FewTraders
<1>11. CASE ClaimPayout(u)
  <2>1. vault' = vault - Payouts[u]
    BY <1>5, <1>11 DEF ClaimPayout, Pay
  <2> QED
    BY <1>9, <1>10, <2>1
<1>12. CASE ClosePosition(u)
  <2>1. vault' = vault
    BY <1>12 DEF ClosePosition
  <2> QED
    BY <1>9, <1>10, <2>1
<1>13. CASE RefundExpired(u)
  BY <1>1, <1>13 DEF RefundExpired
<1> QED
  BY <1>11, <1>12, <1>13 DEF Leave

LEMMA NextCovered ==
    ASSUME Base, Base', Settling', Accounted, Covered, [Next]_vars
    PROVE  Covered'
<1> SUFFICES vault' >= SumFunction(Payouts')
  BY DEF Covered, Payouts
<1>1. CASE UNCHANGED <<market, vault, position>>
  <2>1. Settling /\ vault >= SumFunction(Payouts)
    BY <1>1, CoveredDef DEF Settling, Open
  <2> QED
    BY <1>1, <2>1 DEF Payouts, Payout, SharesOf, Held, Holds
<1>2. ASSUME NEW u \in Traders, Trade(u)
      PROVE  FALSE
  <2>1. PICK o \in Outcome, n \in Int, volume \in Nat, fee \in Nat, paid \in Int :
            Traded(u, o, n, volume, fee, paid)
    BY <1>2, TradeSpec
  <2> QED
    BY <2>1, TradedMarket DEF Traded, Settling
<1>3. ASSUME NEW u \in Traders, Leave(u)
      PROVE  vault' >= SumFunction(Payouts')
  <2>1. CASE Settling
    BY <1>3, <2>1, LeaveCovered
  <2>2. CASE RefundExpired(u)
    <3>1. Open /\ ~market.resolved /\ market'.resolved = market.resolved
      BY <2>2, OpenMarket DEF RefundExpired, Markets
    <3> QED
      BY <3>1 DEF Settling
  <2>3. CASE ClaimPayout(u)
    BY <2>1, <2>3 DEF ClaimPayout, Settling
  <2>4. CASE ClosePosition(u)
    BY <2>1, <2>4 DEF ClosePosition, Settling, Open
  <2> QED
    BY <1>3, <2>2, <2>3, <2>4 DEF Leave
<1>4. ASSUME NEW k \in Keys, Administer(k)
      PROVE  WithdrawLp(k)
  <2>1. ASSUME NEW t \in Expiries, CreateMarket(k, t)
        PROVE  FALSE
    BY <2>1 DEF CreateMarket, Settling
  <2>2. ASSUME NEW o \in Outcome, ResolveMarket(k, o)
        PROVE  FALSE
    <3>1. Open /\ ~market.resolved /\ market'.lp_withdrawn = market.lp_withdrawn
          /\ ~Overdue
      BY <2>2, OpenMarket DEF ResolveMarket, Markets
    <3>2. ~market.lp_withdrawn
      BY <3>1 DEF Base, Lifecycle
    <3> QED
      BY <3>1, <3>2 DEF Settling
  <2>3. ASSUME SweepUnclaimed(k)
        PROVE  FALSE
    BY <2>3 DEF SweepUnclaimed, Settling, Open
  <2>4. ASSUME ReclaimExpiredLp(k)
        PROVE  FALSE
    <3>1. Open /\ ~market.resolved /\ market'.resolved = market.resolved
      BY <2>4, OpenMarket DEF ReclaimExpiredLp, Markets
    <3> QED
      BY <3>1 DEF Settling
  <2> QED
    BY <1>4, <2>1, <2>2, <2>3, <2>4 DEF Administer
<1>5. CASE Tick \/ UNCHANGED vars
  BY <1>1, <1>5 DEF Tick, vars
<1> QED
  BY <1>2, <1>3, <1>4, <1>5, ReleaseCovers DEF Next

\* No order of claims leaves the last winner without.
THEOREM WinnersAreCovered == Spec => ClaimsStayCovered
<1>1. Base /\ Base' /\ [Next]_vars
        => (Settling' /\ Accounted /\ Covered => Covered')
  BY NextCovered
<1> QED
  BY <1>1, BaseInvariance, PTL DEF Spec, ClaimsStayCovered

-----------------------------------------------------------------------------
(* The refunds.                                                            *)

\* One refund taken out of pool and total leaves the share of another intact:
\* it is rounded down, so that what stays per share does not shrink.
LEMMA RefundsAreFair ==
    ASSUME NEW s \in Nat, NEW v \in Nat, NEW pool \in Nat, NEW total \in Nat,
           s > 0, s + v <= total
    PROVE  (s * (pool - (v * pool) \div total)) \div (total - v)
             >= (s * pool) \div total
<1> DEFINE R    == (v * pool) \div total
           d    == (s * pool) \div total
           rest == total - v
<1>1. total \in Nat \ {0} /\ rest \in Nat \ {0}
  OBVIOUS
<1>2. v * pool \in Nat /\ s * pool \in Nat /\ v * pool <= total * pool
  OBVIOUS
<1>3. R \in Nat /\ total * R <= v * pool /\ d \in Nat /\ total * d <= s * pool
  BY <1>1, <1>2, FloorBounds
<1>4. R <= pool
  <2> HIDE DEF R, d
  <2>1. SUFFICES ASSUME R >= pool + 1 PROVE FALSE
    BY <1>3
  <2>2. total * R >= total * (pool + 1)
    BY <1>3, <2>1
  <2>3. total * (pool + 1) = total * pool + total
    OBVIOUS
  <2>4. total * R \in Nat /\ total * pool \in Nat
    BY <1>3
  <2> QED
    BY <1>1, <1>2, <1>3, <2>2, <2>3, <2>4
<1> HIDE DEF R, d
<1>5. rest * d <= s * (pool - R)
  <2> DEFINE a == rest * d
             b == s * (pool - R)
  <2>1. a \in Nat /\ b \in Nat
    BY <1>1, <1>3, <1>4
  <2>2. total * a <= s * pool * rest
    <3>1. total * a = (total * d) * rest
      BY <1>1, <1>3
    <3>2. (total * d) * rest <= (s * pool) * rest
      <4>1. total * d \in Nat /\ s * pool \in Nat
        BY <1>2, <1>3
      <4> QED
        BY <1>1, <1>3, <4>1
    <3> QED
      BY <3>1, <3>2
  <2>3. s * pool * rest <= total * b
    <3>1. total * b = s * (total * pool) - s * (total * R)
      BY <1>3
    <3>2. s * pool * rest = s * (total * pool) - s * (v * pool)
      OBVIOUS
    <3>3. s * (total * R) <= s * (v * pool)
      <4>1. total * R \in Nat /\ v * pool \in Nat
        BY <1>2, <1>3
      <4> QED
        BY <1>3, <4>1
    <3>4. s * (total * pool) \in Int /\ s * (total * R) \in Int
          /\ s * (v * pool) \in Int
      BY <1>3
    <3> QED
      BY <3>1, <3>2, <3>3, <3>4
  <2> HIDE DEF a, b
  <2>4. total * a <= total * b
    <3>1. total * a \in Int /\ total * b \in Int /\ s * pool * rest \in Int
      BY <1>1, <1>2, <2>1
    <3> QED
      BY <2>2, <2>3, <3>1
  <2>5. SUFFICES ASSUME a >= b + 1 PROVE a <= b
    BY <2>1 DEF a, b
  <2>6. total * a >= total * (b + 1)
    BY <1>1, <2>1, <2>5
  <2>7. total * (b + 1) = total * b + total
    BY <2>1
  <2>8. total * a \in Int /\ total * b \in Int
    BY <2>1
  <2> QED
    BY <1>1, <2>4, <2>6, <2>7, <2>8
<1>6. s * (pool - R) \in Nat
  BY <1>3, <1>4
<1>7. d <= (s * (pool - R)) \div rest
  <2> HIDE DEF rest
  <2> QED
    BY <1>1, <1>3, <1>5, <1>6, FloorBounds
<1> QED
  BY <1>7 DEF R, d, rest

\* What a trader is refunded depends on the pool and the supplies alone.
LEMMA RefundIs ==
    ASSUME NEW q
    PROVE  Refund(q) = (AllShares(q) * RefundPool) \div AllShares(market.supply)
  BY DEF Refund

LEMMA AllSharesType ==
    ASSUME NEW q \in Supplies
    PROVE  AllShares(q) \in Nat
  BY DEF AllShares, Supplies, Outcome

\* A refund to v.
LEMMA RefundHoldsForOthers ==
    ASSUME Base, Base', Dead, Accounted, NEW u \in Traders, NEW v \in Traders,
           u # v, RefundExpired(v), Holds(u), AllShares(position[u].shares) > 0
    PROVE  Dead' /\ Refund(position[u].shares)' >= Refund(position[u].shares)
<1> DEFINE s     == AllShares(position[u].shares)
           gone  == AllShares(position[v].shares)
           pool  == RefundPool
           total == AllShares(market.supply)
           left  == [o \in Outcome |-> market.supply[o] - position[v].shares[o]]
<1>1. /\ Open /\ Holds(v) /\ ~market.resolved /\ Overdue
      /\ position[v].shares \in Supplies /\ left \in Supplies
      /\ market' = [market EXCEPT !.supply = left] /\ market' \in Markets
      /\ Refund(position[v].shares) \in Nat /\ Refund(position[v].shares) <= pool
      /\ vault' = vault - Refund(position[v].shares)
      /\ Close(v) /\ now' = now
  BY RefundExpiredSpec
<1>2. /\ Open' /\ market'.supply = left
      /\ market'.resolved = market.resolved
      /\ market'.expires_at = market.expires_at
      /\ market'.fee_balance = market.fee_balance
      /\ market'.lp_withdrawn = market.lp_withdrawn
  <2> HIDE DEF left
  <2> QED
    BY <1>1, OpenMarket, OpenStays DEF Markets
<1>3. Dead'
  BY <1>1, <1>2 DEF Dead, Overdue
<1>4. position'[u] = position[u] /\ position[u] \in UserPositions
      /\ position[u].shares \in Supplies
  BY <1>1, ClosedPositions, HeldType DEF Held, UserPositions
<1>5. s \in Nat /\ gone \in Nat /\ total \in Nat /\ pool \in Nat
  <2>1. market.supply \in Supplies
    BY <1>1, OpenMarket
  <2>2. pool \in Nat
    BY <1>1, OpenMarket, MarketAssumption DEF RefundPool, SatSub
  <2> QED
    BY <1>1, <1>4, <2>1, <2>2, AllSharesType
<1>6. AllShares(left) = total - gone
  <2>1. \A o \in Outcome : market.supply[o] \in Nat /\ position[v].shares[o] \in Nat
    BY <1>1, OpenMarket DEF Supplies
  <2> QED
    BY <2>1 DEF AllShares, Outcome
<1>7. s <= AllShares(left)
  <2>1. Accounted'
    BY LeaveBooks DEF Leave
  <2>2. \A o \in Outcome : SumFunction(HeldShares(o)') = left[o]
    BY <1>1, <1>2, <2>1 DEF Accounted, HeldShares
  <2>3. ASSUME NEW o \in Outcome
        PROVE  position[u].shares[o] <= left[o]
    <3>1. HeldShares(o)' \in [Traders -> Nat]
      <4>1. \A w \in Traders : SharesOf(w, o)' \in Nat
        BY DEF Base, TypeOK, Held, SharesOf, Holds, UserPositions, Supplies,
               NoShares
      <4> QED
        BY <4>1 DEF HeldShares
    <3>2. HeldShares(o)'[u] = position[u].shares[o]
      BY <1>4 DEF HeldShares, SharesOf, Held, Holds
    <3>3. HeldShares(o)'[u] <= SumFunction(HeldShares(o)')
      BY <3>1, TermBelowSum, FewTraders
    <3> QED
      BY <2>2, <3>2, <3>3
  <2>4. \A o \in Outcome : left[o] \in Nat /\ position[u].shares[o] \in Nat
    BY <1>1, <1>4 DEF Supplies
  <2> HIDE DEF left
  <2> QED
    BY <2>3, <2>4 DEF AllShares, Outcome
<1>8. RefundPool' = pool - Refund(position[v].shares)
  <2>1. vault \in Nat /\ market.fee_balance \in Nat /\ INITIAL_LIQUIDITY \in Nat
    BY <1>1, OpenMarket, MarketAssumption
  <2> DEFINE R == Refund(position[v].shares)
  <2>2. R \in Nat /\ R <= pool /\ vault' = vault - R
    BY <1>1
  <2> HIDE DEF R
  <2> QED
    BY <1>2, <2>1, <2>2 DEF RefundPool, SatSub, R
<1>9. Refund(position[u].shares) = (s * pool) \div total
      /\ Refund(position[v].shares) = (gone * pool) \div total
  BY DEF Refund
<1>10. Refund(position[u].shares)'
         = (s * (pool - (gone * pool) \div total)) \div (total - gone)
  BY <1>2, <1>4, <1>6, <1>8, <1>9 DEF Refund
<1> HIDE DEF s, gone, pool, total
<1>11. s > 0
  BY DEF s
<1>12. s + gone <= total
  BY <1>5, <1>6, <1>7
<1> QED
  BY <1>3, <1>5, <1>9, <1>10, <1>11, <1>12, RefundsAreFair

\* Taking the liquidity back leaves the pool as it was.
LEMMA ReclaimKeepsPool ==
    ASSUME Base, NEW k \in Keys, ReclaimExpiredLp(k)
    PROVE  /\ market' \in Markets /\ market'.supply = market.supply
           /\ market'.resolved = market.resolved
           /\ market'.expires_at = market.expires_at
           /\ RefundPool' = RefundPool
<1>1. /\ Open /\ market.lp_withdrawn = FALSE
      /\ market' = [market EXCEPT !.lp_withdrawn = TRUE]
      /\ vault' = vault - Smaller(INITIAL_LIQUIDITY, vault)
  BY OpenMarket DEF ReclaimExpiredLp, Pay
<1>2. /\ market' \in Markets /\ market'.supply = market.supply
      /\ market'.resolved = market.resolved
      /\ market'.expires_at = market.expires_at
      /\ market'.fee_balance = market.fee_balance /\ market'.lp_withdrawn = TRUE
  BY <1>1, OpenMarket DEF Markets
<1>3. vault \in Nat /\ market.fee_balance \in Nat /\ INITIAL_LIQUIDITY \in Nat
  BY <1>1, OpenMarket, MarketAssumption
<1>4. RefundPool' = RefundPool
  BY <1>1, <1>2, <1>3 DEF RefundPool, SatSub, Smaller
<1> QED
  BY <1>2, <1>4

LEMMA NextRefunds ==
    ASSUME Base, Base', Dead, Accounted, [Next]_vars, NEW u \in Traders,
           Holds(u), Holds(u)', AllShares(position[u].shares) > 0
    PROVE  Dead' /\ Refund(position[u].shares)' >= Refund(position[u].shares)
<1>1. Open /\ ~market.resolved /\ Overdue
  BY DEF Dead
<1>2. Refund(position[u].shares) \in Int
  <2>1. position[u].shares \in Supplies /\ market.supply \in Supplies
    BY <1>1, HeldType, OpenMarket DEF Held, UserPositions
  <2>2. \A o \in Outcome : position[u].shares[o] <= market.supply[o]
    <3> SUFFICES ASSUME NEW o \in Outcome
                 PROVE  position[u].shares[o] <= market.supply[o]
      OBVIOUS
    <3>1. SumFunction(HeldShares(o)) = market.supply[o]
      BY <1>1, AccountedDef DEF Balanced
    <3>2. HeldShares(o)[u] = position[u].shares[o]
      BY DEF HeldShares, SharesOf, Held
    <3> QED
      BY <3>1, <3>2, HeldSharesType, TermBelowSum, FewTraders
  <2>3. AllShares(market.supply) > 0
    <3>1. \A o \in Outcome : /\ market.supply[o] \in Nat
                             /\ position[u].shares[o] \in Nat
      BY <2>1 DEF Supplies
    <3> QED
      BY <2>2, <3>1 DEF AllShares, Outcome
  <2> QED
    BY <1>1, <2>1, <2>2, <2>3, RefundBounds
<1>3. ASSUME position' = position \/ position'[u] = position[u],
             market' \in Markets, market'.supply = market.supply,
             market'.resolved = market.resolved,
             market'.expires_at = market.expires_at,
             RefundPool' = RefundPool, now' \in {now, now + 1}
      PROVE  Dead' /\ Refund(position[u].shares)' >= Refund(position[u].shares)
  <2>1. Dead'
    BY <1>1, <1>3, OverdueStays, OpenStays DEF Dead
  <2>2. Refund(position[u].shares)' = Refund(position[u].shares)
    BY <1>3 DEF Refund
  <2> QED
    BY <1>2, <2>1, <2>2
<1>4. ASSUME NEW v \in Traders, Trade(v)
      PROVE  FALSE
  <2>1. PICK o \in Outcome, n \in Int, volume \in Nat, fee \in Nat, paid \in Int :
            Traded(v, o, n, volume, fee, paid)
    BY <1>4, TradeSpec
  <2> QED
    BY <1>1, <2>1, TradingStage DEF Traded
<1>5. ASSUME NEW v \in Traders, Leave(v)
      PROVE  Dead' /\ Refund(position[u].shares)' >= Refund(position[u].shares)
  <2>1. Close(v)
    BY <1>5 DEF Leave, ClaimPayout, RefundExpired, ClosePosition
  <2>2. u # v
    BY <2>1, ClosedPositions DEF Holds
  <2>3. position'[u] = position[u]
    BY <2>1, <2>2, ClosedPositions
  <2>4. CASE ClaimPayout(v)
    BY <1>1, <2>4 DEF ClaimPayout
  <2>5. CASE RefundExpired(v)
    BY <2>2, <2>5, RefundHoldsForOthers
  <2>6. CASE ClosePosition(v)
    <3>1. UNCHANGED <<market, vault, now>>
      BY <2>6 DEF ClosePosition
    <3>2. market' \in Markets /\ RefundPool' = RefundPool
      BY <1>1, <3>1, OpenMarket DEF RefundPool
    <3> QED
      BY <1>3, <2>3, <3>1, <3>2
  <2> QED
    BY <1>5, <2>4, <2>5, <2>6 DEF Leave
<1>6. ASSUME NEW k \in Keys, Administer(k)
      PROVE  ReclaimExpiredLp(k)
  BY <1>1, <1>6 DEF Administer, CreateMarket, ResolveMarket, WithdrawLp,
                    SweepUnclaimed
<1>7. ASSUME NEW k \in Keys, ReclaimExpiredLp(k)
      PROVE  Dead' /\ Refund(position[u].shares)' >= Refund(position[u].shares)
  <2>1. position' = position /\ now' = now
    BY <1>7 DEF ReclaimExpiredLp
  <2> QED
    BY <1>3, <1>7, <2>1, ReclaimKeepsPool
<1>8. CASE Tick \/ UNCHANGED vars
  <2>1. UNCHANGED <<market, vault, position>> /\ now' \in {now, now + 1}
    BY <1>8 DEF Tick, vars
  <2>2. market' \in Markets /\ RefundPool' = RefundPool
    BY <1>1, <2>1, OpenMarket DEF RefundPool
  <2> QED
    BY <1>3, <2>1, <2>2
<1> QED
  BY <1>4, <1>5, <1>6, <1>7, <1>8 DEF Next

\* Whoever comes first, nobody's refund shrinks.
THEOREM RefundsAreKept == Spec => RefundsHold
<1> DEFINE A == Dead /\ Accounted =>
                  \A u \in Traders :
                      Holds(u) /\ Holds(u)' /\ AllShares(position[u].shares) > 0
                      => Dead' /\ Refund(position[u].shares)'
                                    >= Refund(position[u].shares)
<1>1. Base /\ Base' /\ [Next]_vars => A
  BY NextRefunds
<1> HIDE DEF A
<1>2. Spec => [][A]_vars
  BY <1>1, BaseInvariance, PTL DEF Spec
<1> QED
  BY <1>2 DEF A, RefundsHold

-----------------------------------------------------------------------------
(* The way out.                                                            *)

\* CanSell, CanClaim, CanRefund and CanClose are the checks of the actions:
\* the rest of each action is its effect.
LEMMA ChecksOfTheActions ==
    ASSUME NEW u \in Traders
    PROVE  /\ \A o \in Outcome : \A shares :
                LET gross == AmountOut(market.supply, o, shares)
                IN  SellShares(u, o, shares) <=>
                       /\ CanSell(u, o, shares)
                       /\ market' = [market EXCEPT
                            !.supply      = With(market.supply, o, -shares),
                            !.fee_balance = @ + FeeOn(gross)]
                       /\ position' = [position EXCEPT
                                         ![u].shares = With(@, o, -shares)]
                       /\ vault' = vault - (gross - FeeOn(gross))
                       /\ UNCHANGED now
           /\ ClaimPayout(u) <=>
                  /\ CanClaim(u)
                  /\ vault' = vault - Payout(position[u].shares[market.outcome])
                  /\ Close(u)
                  /\ UNCHANGED <<market, now>>
           /\ RefundExpired(u) <=>
                  /\ CanRefund(u)
                  /\ market' = [market EXCEPT
                       !.supply = [o \in Outcome |-> @[o] - position[u].shares[o]]]
                  /\ vault' = vault - Refund(position[u].shares)
                  /\ Close(u)
                  /\ UNCHANGED now
           /\ ClosePosition(u) <=>
                  CanClose(u) /\ Close(u) /\ UNCHANGED <<market, vault, now>>
<1>1. ASSUME NEW o \in Outcome, NEW shares
      PROVE  LET gross == AmountOut(market.supply, o, shares)
             IN  SellShares(u, o, shares) <=>
                    /\ CanSell(u, o, shares)
                    /\ market' = [market EXCEPT
                         !.supply      = With(market.supply, o, -shares),
                         !.fee_balance = @ + FeeOn(gross)]
                    /\ position' = [position EXCEPT
                                      ![u].shares = With(@, o, -shares)]
                    /\ vault' = vault - (gross - FeeOn(gross))
                    /\ UNCHANGED now
  BY DEF SellShares, CanSell, Pay
<1>2. ClaimPayout(u) <=>
          /\ CanClaim(u)
          /\ vault' = vault - Payout(position[u].shares[market.outcome])
          /\ Close(u)
          /\ UNCHANGED <<market, now>>
  BY DEF ClaimPayout, CanClaim, Pay
<1>3. RefundExpired(u) <=>
          /\ CanRefund(u)
          /\ market' = [market EXCEPT
               !.supply = [o \in Outcome |-> @[o] - position[u].shares[o]]]
          /\ vault' = vault - Refund(position[u].shares)
          /\ Close(u)
          /\ UNCHANGED now
  BY DEF RefundExpired, CanRefund, Pay
<1>4. ClosePosition(u) <=>
          CanClose(u) /\ Close(u) /\ UNCHANGED <<market, vault, now>>
  BY DEF ClosePosition, CanClose
<1> QED
  BY <1>1, <1>2, <1>3, <1>4

\* Right books count the shares of everyone.
LEMMA SharesAreCounted ==
    ASSUME Base, Open, Accounted, NEW u \in Traders, NEW o \in Outcome
    PROVE  SharesOf(u, o) \in Nat /\ SharesOf(u, o) <= market.supply[o]
<1>1. Balanced(o)
  BY AccountedDef
<1>2. HeldShares(o) \in [Traders -> Nat] /\ SumFunction(HeldShares(o)) \in Nat
  BY HeldSharesType
<1>3. HeldShares(o)[u] <= SumFunction(HeldShares(o))
  BY <1>2, TermBelowSum, FewTraders
<1>4. HeldShares(o)[u] = SharesOf(u, o) /\ HeldShares(o)[u] \in Nat
  BY <1>2 DEF HeldShares
<1>5. market.supply[o] \in Nat
  BY OpenMarket DEF Supplies
<1> QED
  BY <1>1, <1>2, <1>3, <1>4, <1>5 DEF Balanced

\* The vault can pay for every sale: no shares are worth more than what was
\* paid in for all of them.
LEMMA SalesGoThrough ==
    ASSUME Base, VaultCoversTheCost, Accounted, NEW u \in Traders, Holds(u),
           Trading, now < market.expires_at, NEW o \in Outcome,
           SharesOf(u, o) > 0,
           FeeOn(AmountOut(market.supply, o, SharesOf(u, o))) > 0
    PROVE  CanSell(u, o, SharesOf(u, o))
<1> DEFINE n     == SharesOf(u, o)
           left  == With(market.supply, o, -n)
           gross == AmountOut(market.supply, o, n)
<1>1. /\ Open /\ ~market.resolved
      /\ market.supply \in Supplies
      /\ market.fee_balance \in Nat /\ vault \in Nat
  BY OpenMarket DEF Trading
<1>2. n \in Nat /\ n <= market.supply[o] /\ position[u].shares[o] = n
  BY <1>1, SharesAreCounted DEF SharesOf, Held
<1>3. left \in Supplies
  <2>1. market.supply[o] + (-n) \in Nat
    BY <1>1, <1>2 DEF Supplies
  <2> HIDE DEF n
  <2> QED
    BY <1>1, <1>2, <2>1, WithType
<1>4. /\ Cost(market.supply) \in Int /\ Cost(left) \in Int
      /\ Cost(left) >= Cost(NoShares)
      /\ gross = Cost(market.supply) - Cost(left)
  BY <1>1, <1>3, CostInt, EmptyIsCheapest DEF AmountOut
<1>5. FeeOn(gross) > 0
  OBVIOUS
<1> HIDE DEF gross, left
<1>6. gross \in Int /\ gross >= 100
  BY <1>4, <1>5 DEF FeeOn
<1>7. ~Overdue
  BY <1>1, TradingStage
<1>8. vault + Cost(NoShares)
        >= INITIAL_LIQUIDITY + market.fee_balance + Cost(market.supply)
  BY <1>7 DEF VaultCoversTheCost
<1>9. vault >= gross
  BY <1>1, <1>4, <1>8, NoSharesCost, MarketAssumption
<1>10. vault >= gross - FeeOn(gross)
  BY <1>1, <1>6, <1>9, FeeBounds
<1> QED
  BY <1>1, <1>2, <1>5, <1>6, <1>10 DEF CanSell, gross

\* A winner is paid one token for each share, and the vault has them.
LEMMA ClaimsGoThrough ==
    ASSUME Base, WinnersArePaidInFull, Accounted, Covered,
           NEW u \in Traders, Holds(u), Settling, InClaimWindow,
           SharesOf(u, market.outcome) > 0
    PROVE  /\ CanClaim(u)
           /\ Payout(position[u].shares[market.outcome])
                = position[u].shares[market.outcome]
<1> DEFINE o == market.outcome
           n == SharesOf(u, o)
<1>1. Open /\ market.resolved /\ market.lp_withdrawn /\ o \in Outcome
  BY DEF Settling, Base, Lifecycle
<1>2. n \in Nat /\ n <= market.supply[o] /\ n = position[u].shares[o]
  BY <1>1, SharesAreCounted DEF SharesOf, Held
<1>3. market.winner_payout_ratio = RATIO_ONE
  BY <1>2 DEF WinnersArePaidInFull, WinningShares
<1>4. Payout(n) = n
  <2> HIDE DEF n
  <2>1. RATIO_ONE \in Nat \ {0}
    BY MarketAssumption
  <2>2. (n * RATIO_ONE) \div RATIO_ONE = n
    BY <1>2, <2>1
  <2> QED
    BY <1>3, <2>2 DEF Payout
<1>5. vault >= Payout(n)
  <2>1. vault >= SumFunction(Payouts)
    BY CoveredDef
  <2>2. Payouts \in [Traders -> Nat]
    BY <1>1, PayoutsType
  <2>3. Payouts[u] <= SumFunction(Payouts)
    BY <2>2, TermBelowSum, FewTraders
  <2>4. Payouts[u] = Payout(n) /\ Payouts[u] \in Nat
    BY <2>2 DEF Payouts
  <2>5. SumFunction(Payouts) \in Nat
    <3>1. \A v \in Traders : 1 * Payouts[v] <= 1 * Payouts[v]
      BY <2>2
    <3> QED
      BY <2>2, <3>1, SumScaled, FewTraders
  <2> QED
    BY <2>1, <2>3, <2>4, <2>5, <1>1, OpenMarket
<1>6. ~position[u].claimed
  BY DEF Base, NeverMarked
<1> HIDE DEF n
<1>7. Payout(n) > 0
  BY <1>2, <1>4 DEF n
<1> QED
  BY <1>1, <1>2, <1>4, <1>5, <1>6, <1>7 DEF CanClaim, n

LEMMA RefundsGoThrough ==
    ASSUME Base, Accounted, NEW u \in Traders, Holds(u), Dead
    PROVE  CanRefund(u) \/ CanClose(u)
<1> DEFINE shares == position[u].shares
<1>1. Open /\ ~market.resolved /\ Overdue /\ ~position[u].claimed
  BY DEF Dead, Base, NeverMarked
<1>2. shares \in Supplies
  BY HeldType DEF Held, UserPositions
<1>3. \A o \in Outcome : shares[o] <= market.supply[o]
  BY <1>1, SharesAreCounted DEF SharesOf, Held
<1>4. CASE AllShares(shares) > 0
  <2>1. AllShares(market.supply) > 0
    <3>1. /\ shares["Yes"] \in Nat /\ shares["No"] \in Nat
          /\ market.supply["Yes"] \in Nat /\ market.supply["No"] \in Nat
          /\ shares["Yes"] <= market.supply["Yes"]
          /\ shares["No"] <= market.supply["No"]
      BY <1>1, <1>2, <1>3, OpenMarket DEF Supplies, Outcome
    <3> QED
      BY <1>4, <3>1 DEF AllShares
  <2>2. /\ Refund(shares) \in Nat /\ Refund(shares) <= RefundPool
        /\ RefundPool \in Nat /\ RefundPool <= vault
    <3> HIDE DEF shares
    <3> QED
      BY <1>1, <1>2, <1>3, <2>1, RefundBounds
  <2>3. vault >= Refund(shares)
    BY <2>2, <1>1, OpenMarket
  <2> QED
    BY <1>1, <1>3, <1>4, <2>1, <2>3 DEF CanRefund
<1>5. CASE ~(AllShares(shares) > 0)
  <2>1. shares["Yes"] = 0 /\ shares["No"] = 0
    BY <1>2, <1>5 DEF AllShares, Supplies, Outcome
  <2>2. shares = NoShares
    BY <1>2, <2>1 DEF Supplies, NoShares, Outcome
  <2> QED
    BY <1>1, <2>2 DEF CanClose
<1> QED
  BY <1>4, <1>5

\* In the claim window a position that has nothing to claim can be closed.
LEMMA LosersCanClose ==
    ASSUME Base, NEW u \in Traders, Holds(u), Settling,
           ~(SharesOf(u, market.outcome) > 0)
    PROVE  CanClose(u)
<1> DEFINE shares == position[u].shares
           o      == market.outcome
<1>1. Open /\ market.resolved /\ o \in Outcome
  BY DEF Settling, Base, Lifecycle
<1>2. shares \in Supplies
  BY HeldType DEF Held, UserPositions
<1>3. shares[o] = 0
  <2>1. shares[o] \in Nat /\ ~(shares[o] > 0)
    BY <1>1, <1>2 DEF Supplies, SharesOf, Held
  <2> QED
    BY <2>1
<1>4. CASE shares[Opposite(o)] > 0
  BY <1>1, <1>3, <1>4 DEF CanClose
<1>5. CASE ~(shares[Opposite(o)] > 0)
  <2>1. shares["Yes"] = 0 /\ shares["No"] = 0
    BY <1>1, <1>2, <1>3, <1>5 DEF Supplies, Opposite, Outcome
  <2>2. shares = NoShares
    BY <1>2, <2>1 DEF Supplies, NoShares, Outcome
  <2> QED
    BY <1>1, <2>2 DEF CanClose
<1> QED
  BY <1>4, <1>5

LEMMA LeavingGoesThrough == Base /\ Funded => NobodyIsLockedOut
  BY SalesGoThrough, ClaimsGoThrough, LosersCanClose, RefundsGoThrough
     DEF NobodyIsLockedOut, EveryoneCanLeave, Funded

\* No check and no transfer stands between a trader and what is due, for any
\* number of traders and whatever they have done before.
THEOREM NobodyLockedOut == Spec => []NobodyIsLockedOut
  BY LeavingGoesThrough, BaseInvariance, FundedInvariance, PTL

\* The books of a market that is not created again over old positions are
\* right for its whole life, and what is due to its traders is covered: the
\* properties that ask for right books hold of it without a condition, and
\* everyone can leave it.
THEOREM FirstLivesAreCovered ==
    Spec /\ [][~Renews]_vars => [](Accounted /\ Covered /\ EveryoneCanLeave)
<1>1. Init => Accounted /\ Covered
  BY DEF Init, Accounted, Covered, Settling, Open
<1>2. Base /\ Base' /\ Accounted /\ Covered /\ [Next]_vars /\ [~Renews]_vars
        => (Accounted /\ Covered)'
  <2> SUFFICES ASSUME Base, Base', Accounted, Covered, [Next]_vars, [~Renews]_vars
               PROVE  Accounted' /\ Covered'
    OBVIOUS
  <2>1. ~Renews
    BY DEF Renews, Open, vars
  <2>2. Accounted'
    BY <2>1, NextBooks
  <2>3. ~Settling' => Covered'
    BY DEF Covered
  <2>4. Settling' => Covered'
    BY NextCovered
  <2> QED
    BY <2>2, <2>3, <2>4
<1>3. Spec /\ [][~Renews]_vars => [](Accounted /\ Covered)
  BY <1>1, <1>2, BaseInvariance, PTL DEF Spec
<1>4. NobodyIsLockedOut /\ Accounted /\ Covered => EveryoneCanLeave
  BY DEF NobodyIsLockedOut
<1> QED
  BY <1>3, <1>4, NobodyLockedOut, PTL

=============================================================================
