----------------------------- MODULE HandDraws -----------------------------
(***************************************************************************)
(* One hand that draws cards with apply_card, beside the plain account of  *)
(* the cards it holds: `hard` counts every ace as 1, `held` is the number  *)
(* of aces.  The incremental counters of the program are right when they   *)
(* always agree with the value of the whole hand.                          *)
(*                                                                         *)
(* MaxHard bounds the hard total at which a card may still be drawn.  In a *)
(* match no hand draws above a total of 30 (HandsInPlay), and the          *)
(* u8 total cannot saturate below 246.                                     *)
(***************************************************************************)
EXTENDS Hand

CONSTANTS Bytes,    \* random bytes the oracle may reveal
          MaxHard   \* no card is drawn once the hard total exceeds this

ASSUME BytesAssumption == Bytes \subseteq U8
ASSUME MaxHardAssumption == MaxHard \in 0..244

VARIABLES hand, hard, held

vars == <<hand, hard, held>>

TypeOK == /\ hand \in Hands
          /\ hard \in Nat
          /\ held \in Nat

Init == /\ hand = EmptyHand
        /\ hard = 0
        /\ held = 0

Draw(byte) ==
    LET raw == RawCard(byte)
    IN  /\ hard <= MaxHard
        /\ hand' = ApplyCard(hand, byte)
        /\ hard' = hard + (IF IsAce(raw) THEN 1 ELSE CardValue(raw))
        /\ held' = held + (IF IsAce(raw) THEN 1 ELSE 0)

Next == \E byte \in Bytes : Draw(byte)

Spec == Init /\ [][Next]_vars

-----------------------------------------------------------------------------

\* The value of the cards taken together: an ace may count as 11 when that
\* does not take the hand over 21, and two aces at 11 always would.
SoftAces == IF held > 0 /\ hard <= 11 THEN 1 ELSE 0

\* apply_card never busts a hand that an ace could save, and never leaves an
\* ace at 1 that could count as 11: after every draw the score is the best
\* total of the cards held, and p_aces counts exactly the aces worth 11.
BestTotal == /\ hand.score = hard + 10 * SoftAces
             /\ hand.aces = SoftAces

\* An ace that was turned from 11 into 1 stays 1: once a hand that holds an
\* ace is hard (aces = 0), no later card makes it soft again.
DowngradeIsFinal ==
    [][held > 0 /\ hand.aces = 0 => hand'.aces = 0]_vars

=============================================================================
