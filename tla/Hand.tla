-------------------------------- MODULE Hand --------------------------------
(***************************************************************************)
(* The blackjack arithmetic of the game engine: apply_card in              *)
(* programs/game-engine/src/instructions/game.rs.  A hand is the pair of   *)
(* u8 counters the program keeps for a player, p1_score/p1_aces or         *)
(* p2_score/p2_aces: the running total, and how many of its aces still     *)
(* count as 11.  No operator here is recursive, so that the module can be  *)
(* used under proofs.                                                      *)
(*                                                                         *)
(* An operator named Op_Mistake is Op with a plausible mistake in it.  The *)
(* model does not use it: put in the place of Op, it shows that a property *)
(* notices the mistake.                                                    *)
(***************************************************************************)
EXTENDS Integers

U8 == 0..255

Hands == [score : U8, aces : U8]

EmptyHand == [score |-> 0, aces |-> 0]

-----------------------------------------------------------------------------

\* The face of a card drawn with a random byte: 1 is an ace, 11..13 are the
\* court cards.
RawCard(byte) == (byte % 13) + 1

IsAce(raw) == raw = 1

CardValue(raw) ==
    CASE IsAce(raw) -> 11
      [] raw > 10   -> 10
      [] OTHER      -> raw

\* u8::saturating_add.
SatAddU8(m, n) == IF m + n > 255 THEN 255 ELSE m + n

LoopDone_FromTwentyOne(score, aces, k) ==
    score - 10 * k < 21 \/ aces - k = 0

\* `while *score > 21 && *aces > 0` has turned k aces from 11 into 1 when it
\* stops: the first k at which its condition is false.
LoopDone(score, aces, k) == score - 10 * k <= 21 \/ aces - k = 0

Downgrades_IfForWhile(score, aces) == IF score > 21 THEN 1 ELSE 0

Downgrades(score, aces) ==
    CHOOSE k \in 0..aces : /\ LoopDone(score, aces, k)
                           /\ \A j \in 0..(k - 1) : ~LoopDone(score, aces, j)

\* The loop applied to the hand the new card was added to.
Settle(score, aces) ==
    LET k == Downgrades(score, aces)
    IN  [score |-> score - 10 * k, aces |-> aces - k]

ApplyCard_AceCountedLate(hand, byte) ==
    LET raw     == RawCard(byte)
        settled == Settle(SatAddU8(hand.score, CardValue(raw)), hand.aces)
    IN  [settled EXCEPT !.aces = @ + (IF IsAce(raw) THEN 1 ELSE 0)]

ApplyCard(hand, byte) ==
    LET raw == RawCard(byte)
    IN  Settle(SatAddU8(hand.score, CardValue(raw)),
               hand.aces + (IF IsAce(raw) THEN 1 ELSE 0))

=============================================================================
