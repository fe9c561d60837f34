----------------------------- MODULE GameClaims -----------------------------
(***************************************************************************)
(* What the README says of the game engine and its code does not do.       *)
(* Each formula is refuted by a run of its own.                            *)
(***************************************************************************)
EXTENDS GameProperties

\* "Active player either stays or requests a hit": a stay is a move of the
\* player whose turn it is.  The stay handler compares the signer with the
\* agent of the player argument, never with active_player.
OnlyTheActivePlayerStays ==
    [][\A g \in GameIds :
         Exists(g) /\ games[g].phase = "AwaitingAction" =>
             LET waiting == Other(games[g].active_player)
             IN  games'[g].stayed[waiting] = games[g].stayed[waiting]]_vars

\* "Score > 21 automatically loses the round".  resolve_round compares the
\* distances to 21, so that a bust hand beats one further below.
BustLosesTheRound ==
    [][\A g \in GameIds, c \in Color :
         /\ Exists(g)
         /\ games[g].phase = "ReadyToResolve"
         /\ games[g].hand[c].score > 21
         /\ games[g].hand[Other(c)].score <= 21
         => games'[g].hp[Other(c)] = games[g].hp[Other(c)]]_vars

=============================================================================
