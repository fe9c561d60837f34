-------------------------------- MODULE Duel --------------------------------
(***************************************************************************)
(* What the game engine promises of its matches, with cards, turns and     *)
(* randomness left out: two players start with 10 hit points, every round  *)
(* that is not a tie is won by one of them, the loser of round r loses     *)
(* 2^(r-1) hit points, and the first player without hit points ends the    *)
(* match.  A step of one match leaves the other matches alone.             *)
(* GameEngine implements this specification (GameProperties); creating a   *)
(* game, and a tied round, are stuttering steps here.                      *)
(***************************************************************************)
EXTENDS Integers

CONSTANT Games

VARIABLE match   \* Games -> the standing of that match

Color == {"Red", "Blue"}

Other(c) == IF c = "Red" THEN "Blue" ELSE "Red"

Opening == [hp |-> [c \in Color |-> 10], round |-> 1, winner |-> "None"]

\* Hit points the loser of round r loses; a byte holds no more than 2^7.
Stake(r) == IF r > 7 THEN 128 ELSE <<1, 2, 4, 8, 16, 32, 64>>[r]

Hurt(points, r) == IF points > Stake(r) THEN points - Stake(r) ELSE 0

-----------------------------------------------------------------------------

Init == match = [g \in Games |-> Opening]

\* Player c wins a round of match g, which the loser survives.
WinRound(g, c) ==
    LET left == Hurt(match[g].hp[Other(c)], match[g].round)
    IN  /\ match[g].winner = "None"
        /\ left > 0
        /\ match' = [match EXCEPT
                       ![g] = [hp     |-> [match[g].hp EXCEPT ![Other(c)] = left],
                               round  |-> match[g].round + 1,
                               winner |-> "None"]]

\* Player c wins the last round of match g.
WinMatch(g, c) ==
    /\ match[g].winner = "None"
    /\ Hurt(match[g].hp[Other(c)], match[g].round) = 0
    /\ match' = [match EXCEPT
                   ![g] = [hp     |-> [match[g].hp EXCEPT ![Other(c)] = 0],
                           round  |-> match[g].round,
                           winner |-> c]]

Next == \E g \in Games, c \in Color : WinRound(g, c) \/ WinMatch(g, c)

Spec == Init /\ [][Next]_match

-----------------------------------------------------------------------------

\* The damage handed out before round r, 2^(r-1) - 1.
DealtBefore(r) == <<0, 1, 3, 7, 15>>[r]

\* While a match is open its hit points account for every round played: what
\* is missing from the 20 the players began with is the sum of the stakes of
\* the rounds before this one.  So no damage was ever cut off at zero, no
\* match goes beyond its fifth round, and the u8 counters of the program
\* never come near their limits.
StakesAddUp ==
    \A g \in Games :
        match[g].winner = "None" =>
            /\ match[g].round \in 1..5
            /\ match[g].hp["Red"] + match[g].hp["Blue"]
                 = 20 - DealtBefore(match[g].round)

=============================================================================
