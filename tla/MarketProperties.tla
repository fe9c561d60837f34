-------------------------- MODULE MarketProperties --------------------------
(***************************************************************************)
(* What must be true of a prediction market: its shares are accounted for, *)
(* the vault covers what the market owes, and every trader of a market     *)
(* that is never resolved is refunded alike; the refinement of Escrow.     *)
(***************************************************************************)
EXTENDS PredictionMarket, FiniteSets, Functions

ASSUME FewTraders == IsFiniteSet(Traders)

\* What INITIAL_LIQUIDITY lacks of the cost of an empty market.
Shortfall == Larger(Cost(NoShares) - INITIAL_LIQUIDITY, 0)

\* The most that can be traded for each token of fees: 99, and as much again
\* for what the fee, rounded down, leaves out.
VolumePerFee == 198

\* A supply may be ahead by the cost of the empty market, and by as much as
\* can be traded before the fees make up for the shortfall, and its spread
\* still makes up for it.  The program lacks 317_690 of 100_000_317_690, and
\* the spread at a lead of 100_063_220_310 is above 60_000_000_000.
LiquidityIsEnough ==
    LET lead == Cost(NoShares) + VolumePerFee * Shortfall
    IN  Spread(With(NoShares, "Yes", lead)) >= Shortfall

ASSUME LiquidityAssumption == LiquidityIsEnough

TypeOK == /\ market \in Markets \cup {NoAccount}
          /\ vault \in Nat
          /\ position \in [Traders -> UserPositions \cup {NoAccount}]
          /\ now \in 0..MaxTime

SharesOf(u, o) == Held(u).shares[o]

\* Unresolved and in nobody's hands but the traders'.
Trading == Open /\ ~market.resolved /\ ~market.lp_withdrawn

Settling == Open /\ market.resolved /\ market.lp_withdrawn

\* Past the deadline without an outcome.
Dead == Open /\ ~market.resolved /\ Overdue

-----------------------------------------------------------------------------

\* The supplies, which set the price, the payout ratio and the refund of
\* everyone, are the sum of the positions while a market is unresolved; once
\* it is resolved positions leave and the supplies stay, so that nobody holds
\* more than was counted.
Accounted ==
    Open => \A o \in Outcome :
        LET held == SumFunction([u \in Traders |-> SharesOf(u, o)])
        IN  IF market.resolved THEN held <= market.supply[o]
                               ELSE held = market.supply[o]

\* Whatever the ratio, once the administrator has taken the surplus the vault
\* covers the payouts of all winners together, so that no order of claims
\* leaves the last one without.
Covered ==
    Settling =>
        vault >= SumFunction([u \in Traders |->
                                Payout(SharesOf(u, market.outcome))])

\* A sweep closes the market and leaves the positions.
Renews == ~Open /\ Open' /\ \E u \in Traders : Holds(u)

\* The books of a market are never upset, but by one step: to create it again
\* over positions that have outlived its sweep, whose shares the supplies of
\* the new market do not count.
SharesStayAccounted == [][Accounted /\ ~Renews => Accounted']_vars

\* Nor do the winners ever lose their cover while the books are right.
ClaimsStayCovered == [][Settling' /\ Accounted /\ Covered => Covered']_vars

\* What has been paid in for the shares outstanding, at the price of the cost
\* function, is still there, with the liquidity and the fees: no sequence of
\* purchases and sales takes out more than it put in.  Refunds only begin when
\* trading is over for good.
VaultCoversTheCost ==
    Trading /\ ~Overdue =>
        vault + Cost(NoShares)
            >= INITIAL_LIQUIDITY + market.fee_balance + Cost(market.supply)

\* The liquidity and the fees are enough for the market to pay one for one:
\* the branch of withdraw_lp that gives winners less than their shares is
\* never taken, and a ratio of zero means that nobody won.
WinnersArePaidInFull ==
    Settling => market.winner_payout_ratio =
                    IF WinningShares = 0 THEN 0 ELSE RATIO_ONE

\* A position leaves a market without any token only when it is worth none.
NothingIsForfeited ==
    [][\A u \in Traders :
         Holds(u) /\ ~Holds(u)' /\ vault' = vault =>
             IF market.resolved THEN SharesOf(u, market.outcome) = 0
             ELSE \/ position[u].shares = NoShares
                  \/ Overdue /\ Refund(position[u].shares) = 0]_vars

-----------------------------------------------------------------------------

\* Neither sales nor refunds reach the liquidity of the administrator or the
\* fees: none of the saturating subtractions of refund_expired is ever cut
\* off at zero.
LiquidityIsKept ==
    Open /\ ~market.resolved =>
        vault >= market.fee_balance
                 + (IF market.lp_withdrawn THEN 0 ELSE INITIAL_LIQUIDITY)

\* The refund a trader can still take never shrinks, whoever takes theirs
\* first and whenever the administrator takes the liquidity back.
RefundsHold ==
    [][Dead /\ Accounted =>
         \A u \in Traders :
             Holds(u) /\ Holds(u)' /\ AllShares(position[u].shares) > 0
             => Dead' /\ Refund(position[u].shares)' >= Refund(position[u].shares)]_vars

-----------------------------------------------------------------------------
(* The way out.                                                            *)

\* The checks of sell_shares, claim_payout, refund_expired and
\* close_position, the transfer from the vault included.
CanSell(u, o, shares) ==
    LET gross == AmountOut(market.supply, o, shares)
    IN  /\ Open /\ Holds(u)
        /\ now < market.expires_at
        /\ ~market.resolved
        /\ shares > 0
        /\ position[u].shares[o] >= shares
        /\ shares <= market.supply[o]
        /\ gross >= 0
        /\ FeeOn(gross) > 0
        /\ vault >= gross - FeeOn(gross)

CanClaim(u) ==
    LET shares == position[u].shares[market.outcome]
    IN  /\ Open /\ Holds(u)
        /\ market.resolved
        /\ ~position[u].claimed
        /\ market.lp_withdrawn
        /\ InClaimWindow
        /\ shares > 0
        /\ Payout(shares) > 0
        /\ vault >= Payout(shares)

CanRefund(u) ==
    LET shares == position[u].shares
    IN  /\ Open /\ Holds(u)
        /\ ~market.resolved
        /\ Overdue
        /\ ~position[u].claimed
        /\ AllShares(shares) > 0
        /\ AllShares(market.supply) > 0
        /\ \A o \in Outcome : shares[o] <= market.supply[o]
        /\ vault >= Refund(shares)

CanClose(u) ==
    LET shares == position[u].shares
    IN  /\ Open /\ Holds(u)
        /\ \/ shares = NoShares
           \/ /\ market.resolved
              /\ shares[market.outcome] = 0
              /\ shares[Opposite(market.outcome)] > 0
           \/ position[u].claimed

\* All the shares of an outcome can be sold while the market trades, unless
\* the sale is too small to pay a fee; a position can be claimed or closed in
\* the claim window, and refunded or closed in a dead market.
EveryoneCanLeave ==
    \A u \in Traders : Holds(u) =>
        /\ Trading /\ now < market.expires_at =>
             \A o \in Outcome :
                 LET shares == SharesOf(u, o)
                 IN  shares > 0
                     /\ FeeOn(AmountOut(market.supply, o, shares)) > 0
                     => CanSell(u, o, shares)
        /\ Settling /\ InClaimWindow => CanClaim(u) \/ CanClose(u)
        /\ Dead => CanRefund(u) \/ CanClose(u)

\* While its books are right a market never holds a trader back: no check of
\* the program and no transfer from the vault fails, and no payout is rounded
\* down to nothing, whatever the others have taken before.
NobodyIsLockedOut == Accounted /\ Covered => EveryoneCanLeave

-----------------------------------------------------------------------------
(* The life of a market.                                                   *)

StageNow ==
    IF ~Open THEN "None"
    ELSE IF market.resolved
         THEN IF ~market.lp_withdrawn THEN "Resolved"
              ELSE IF InClaimWindow THEN "Settling" ELSE "Lapsed"
    ELSE IF market.lp_withdrawn THEN "Reclaimed"
    ELSE IF Overdue THEN "Dead"
    ELSE IF now >= market.expires_at THEN "Closed" ELSE "Trading"

OutcomeNow == IF Open THEN market.outcome ELSE "None"

Escrowed == INSTANCE Escrow WITH Outcomes <- Outcome, stage <- StageNow,
                                 outcome <- OutcomeNow

\* The market keeps the promises of Escrow: trading ends before anything else
\* moves, an outcome is set once, the vault pays either winners or refunds
\* (the two sides of the resolution deadline neither leave a gap nor
\* overlap, nor do those of the claim window, before the sweep), and what an
\* administrator takes back is never followed by a resolution.
KeepsItsPromises == Escrowed!Spec

=============================================================================
