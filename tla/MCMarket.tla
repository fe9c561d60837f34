------------------------------ MODULE MCMarket ------------------------------
(***************************************************************************)
(* Two traders, whole tokens, and the table at a precision of 1/20 (see    *)
(* MCLmsr).  At this scale the cost of the empty market is 102, a little   *)
(* more than the INITIAL_LIQUIDITY of 100; in the program it is            *)
(* 100_000_317_690 against 100_000_000_000.                                *)
(***************************************************************************)
EXTENDS MarketClaims, TLC

CONSTANTS admin, game, ann, bob

MCKeys == {admin, game, ann, bob}

MCTraders == {ann, bob}

CoarseTable == <<14, 6, 3, 1, 0, 0, 0, 0, 0, 0, 0>>

\* A fair trade, and the largest one allowed.
MCAmounts == {500, 1460}

MCLots == {300}

TradersAreAlike == Permutations(MCTraders)

CONSTANTS MaxVolume,   \* no trade once this much was traded
          MaxFees      \* nor once this much was taken in fees

\* Bounds purchases, and sales by the fee that each of them pays.
FewTrades == Open => /\ market.total_volume <= MaxVolume
                     /\ market.fee_balance <= MaxFees

\* The second expiry is for markets created late, the renewed ones, in which
\* a fair purchase is followed while nobody holds much more than it buys.
RenewedLate == Open /\ market.expires_at = 3 =>
                   /\ now = 2
                   /\ market.total_volume <= 500
                   /\ \A u \in Traders : AllShares(Held(u).shares) <= 1000
=============================================================================
