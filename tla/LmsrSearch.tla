----------------------------- MODULE LmsrSearch -----------------------------
(***************************************************************************)
(* The binary search of calc_shares_out as a state machine: a query is     *)
(* chosen, and every step is one iteration of the loop.  The cost is not   *)
(* monotone, so what the search finds has to be shown and not assumed.     *)
(***************************************************************************)
EXTENDS Lmsr

CONSTANTS Holdings,   \* supplies a market may have on either side
          Trades      \* amounts a buyer may pay, the fee deducted

ASSUME SearchAssumption ==
    /\ Holdings \subseteq 0..U64_MAX
    /\ Trades \subseteq Nat

\* The loop is as long as a u64 has bits, and buy_shares refuses amounts above
\* 10 * LMSR_B, far from those that would buy the largest share count.
ASSUME LoopAssumption ==
    /\ U64_MAX < TwoToThe[ITERATIONS]
    /\ \A amount \in Trades : amount * MAX_LEVERAGE < U64_MAX

VARIABLES query,    \* the arguments of the call
          search,   \* the variables of the loop
          i         \* iterations done

vars == <<query, search, i>>

Queries == [supply : [Outcome -> Holdings], outcome : Outcome, amount : Trades]

Searches == [low : 0..U64_MAX, high : 0..U64_MAX, best : 0..U64_MAX,
             ok  : BOOLEAN]

TypeOK == /\ query \in Queries
          /\ search \in Searches
          /\ i \in 0..ITERATIONS

Init == /\ query \in Queries
        /\ search = SearchStart(query.supply, query.outcome, query.amount)
        /\ i = 0

Iterate == /\ i < ITERATIONS
           /\ search' = SearchStep(query.supply, query.outcome, query.amount,
                                   search)
           /\ i' = i + 1
           /\ UNCHANGED query

Next == Iterate

Spec == Init /\ [][Next]_vars

-----------------------------------------------------------------------------

Target == Cost(query.supply) + query.amount

Fits(shares) == Affordable(query.supply, query.outcome, query.amount, shares)

\* The debug_assert of lmsr.rs, at every iteration: the shares the buyer gets
\* never cost more than the buyer paid, whatever the rounding of the cost.
NeverOverpaid ==
    Cost(With(query.supply, query.outcome, search.best)) <= Target

\* The range is never left: once empty, `best` sits just below it, and one
\* share more would not have been affordable or is out of reach.
BestIsAtTheEdge ==
    search.ok =>
        /\ search.low > 0 => search.low = Smaller(search.best + 1, U64_MAX)
        /\ \/ search.high = MaxShares(query.supply, query.outcome, query.amount)
           \/ ~Fits(search.high + 1)

\* The loop is long enough: it has emptied its range, or has failed, when its
\* iterations are used up.
SearchFinishes == i = ITERATIONS => Exhausted(search)

-----------------------------------------------------------------------------

\* README.md, Market Pricing: the initial price is 0.5 per share.  In an
\* empty market a trade that is small beside b (at most b/20, whose own price
\* impact is below 5%) buys close to two shares per token, here at least 1.9.
InitialPriceIsHalf ==
    /\ query.supply = NoShares
    /\ query.amount * 20 <= LMSR_B
    /\ i = ITERATIONS
    /\ search.ok
    => 10 * search.best >= 19 * query.amount - 10

=============================================================================
