------------------------------- MODULE MCGame -------------------------------
(* Small instances of the game engine.                                     *)
EXTENDS GameClaims, TLC

CONSTANTS admin, red, blue

MCKeys == {admin, red, blue}

\* One agent for each side.
OneMatchup == {<<red, blue>>}

\* Bytes 0, 1, 3, 8 and 9 are an ace, a two, a four, a nine and a ten.
AceFourTen == {0, 3, 9}
NineTen == {8, 9}
Tens == {9}

AccountsAreAlike == Permutations(RandAccounts)

-----------------------------------------------------------------------------
(* Bounds.                                                                 *)

\* The opening round, tiebreakers included.
FirstRound == \A g \in Playing : games[g].round_number = 1

\* Matches in which Red has lost no round.
RedUnhurt == \A g \in Playing : games[g].hp["Red"] = 10

\* Randomness accounts that keep the seed of the roll pending on them.
SeedsKept == \A g \in GameIds : ~Lost(g)

\* The cooldown may be changed until the first game, and is 300 by then.
UsualCooldown ==
    Playing # {} => registry.cooldown_duration = 300

\* Games whose upgrade lock is still on.
LockOn == \A g \in Playing : games[g].upgrade_locked
=============================================================================
