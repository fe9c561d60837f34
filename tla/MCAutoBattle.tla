----------------------------- MODULE MCAutoBattle ---------------------------
(***************************************************************************)
(* One match with the market of its fourth round, which may or may not be  *)
(* the last one.                                                           *)
(***************************************************************************)
EXTENDS AutoBattle

CONSTANTS admin, red, blue

MCKeys == {admin, red, blue}

OneMatchup == {<<red, blue>>}

\* Every list of up to two accounts, and those of three with a market in the
\* second place and the program in the third.
Pairs == [1..2 -> RemainingAccounts]
ShortLists == {<<>>} \cup {<<x>> : x \in RemainingAccounts} \cup Pairs
              \cup {<<x, m, "program">> : x \in RemainingAccounts,
                                         m \in {"main", "round"}}

CoarseTable == <<14, 6, 3, 1, 0, 0, 0, 0, 0, 0, 0>>

\* Ten is the value of byte 9.
Tens == {9}

\* Red wins the first three rounds; either player may win the fourth, which
\* is fatal for Blue, and the fifth, which is fatal for the loser.
RedLeads == \A g \in Playing :
    games[g].round_number <= FollowedRound => games[g].hp["Red"] = 10

\* No market, and no second passes, before the followed round is ready to be
\* resolved: only from there on does an instruction of the game look at them.
MarketsComeLate ==
    Main!Open \/ Round!Open \/ now > 0 =>
        \A g \in GameIds :
            /\ Exists(g)
            /\ \/ games[g].round_number > FollowedRound
               \/ /\ games[g].round_number = FollowedRound
                  /\ games[g].phase \in {"ReadyToResolve",
                                         "AwaitingTiebreakerVRF"}

\* The liquidity stays in the round market.
RoundKeepsLiquidity == Round!Open => ~round_market.lp_withdrawn

\* At most one hand of a round is hit: the other one ends at 20, this one at
\* 30, or at 40 after the second hit, which ends the play.
OneHit == \A g \in Playing :
    games[g].phase \in Moving =>
        games[g].hand["Red"].score + games[g].hand["Blue"].score <= 30

\* Randomness accounts that keep the seed of the roll pending on them.
SeedsKept == \A g \in GameIds : ~Lost(g)

\* Games whose upgrade lock is still on.
LockOn == \A g \in Playing : games[g].upgrade_locked
=============================================================================
