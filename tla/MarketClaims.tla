---------------------------- MODULE MarketClaims ----------------------------
(***************************************************************************)
(* What the README says of the markets and the program does not do.        *)
(***************************************************************************)
EXTENDS MarketProperties

Winners == {u \in Traders : SharesOf(u, market.outcome) > 0}

\* README.md, claim_payout: winners redeem shares for tokens.  So a claim
\* window never passes without winners having been able to claim.
WinnersCanRedeem ==
    Open /\ market.resolved /\ ~market.lp_withdrawn /\ Winners # {}
    => InClaimWindow

=============================================================================
