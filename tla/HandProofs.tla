----------------------------- MODULE HandProofs -----------------------------
(***************************************************************************)
(* What apply_card does to a hand with at most one ace counted as 11,      *)
(* which is every hand of a match.                                         *)
(***************************************************************************)
EXTENDS Hand, TLAPS

\* A hand as the program keeps it: no more than one ace counts as 11, and
\* never in a hand over 21.
Sound(hand) == /\ hand \in Hands
               /\ hand.aces = 0 \/ (hand.aces = 1 /\ hand.score \in 11..21)

-----------------------------------------------------------------------------

\* The loop of apply_card stops: with at most two aces in the hand there is a
\* first number of downgrades at which its condition is false, and Downgrades
\* is that number.
LEMMA DowngradesSpec ==
    ASSUME NEW score \in Nat, NEW aces \in 0..2
    PROVE  LET k == Downgrades(score, aces)
           IN  /\ k \in 0..aces
               /\ LoopDone(score, aces, k)
               /\ \A j \in 0..(k - 1) : ~LoopDone(score, aces, j)
<1> DEFINE First(k) == /\ LoopDone(score, aces, k)
                       /\ \A j \in 0..(k - 1) : ~LoopDone(score, aces, j)
<1>1. \E k \in 0..aces : First(k)
  <2>1. CASE LoopDone(score, aces, 0)
    BY <2>1
  <2>2. CASE ~LoopDone(score, aces, 0) /\ LoopDone(score, aces, 1)
    <3>1. 1 \in 0..aces
      BY <2>2 DEF LoopDone
    <3>2. First(1)
      BY <2>2
    <3> QED
      BY <3>1, <3>2
  <2>3. CASE ~LoopDone(score, aces, 0) /\ ~LoopDone(score, aces, 1)
    <3>1. aces = 2
      BY <2>3 DEF LoopDone
    <3>2. LoopDone(score, aces, 2)
      BY <3>1 DEF LoopDone
    <3>3. First(2)
      BY <2>3, <3>2
    <3> QED
      BY <3>1, <3>3
  <2> QED
    BY <2>1, <2>2, <2>3
<1>2. Downgrades(score, aces) = CHOOSE k \in 0..aces : First(k)
  BY DEF Downgrades
<1> HIDE DEF First
<1>3. /\ Downgrades(score, aces) \in 0..aces
      /\ First(Downgrades(score, aces))
  BY <1>1, <1>2, Zenon
<1> QED
  BY <1>3 DEF First

\* The faces are 1..13 and the values 2..11.
LEMMA CardValueRange ==
    ASSUME NEW byte \in U8
    PROVE  /\ CardValue(RawCard(byte)) \in 2..11
           /\ IsAce(RawCard(byte)) <=> CardValue(RawCard(byte)) = 11
  BY DEF U8, RawCard, CardValue, IsAce

\* A card drawn to a sound hand of at most 244 leaves a sound hand that holds
\* something and has grown by at most 10, unless it is 21 or less.
LEMMA ApplyCardSpec ==
    ASSUME NEW hand, Sound(hand), hand.score <= 244, NEW byte \in U8
    PROVE  /\ Sound(ApplyCard(hand, byte))
           /\ ApplyCard(hand, byte).score >= 2
           /\ \/ ApplyCard(hand, byte).score <= 21
              \/ ApplyCard(hand, byte).score <= hand.score + 10
           /\ ApplyCard(hand, byte).score <= hand.score + 11
<1> DEFINE value == CardValue(RawCard(byte))
           total == hand.score + value
           aces  == hand.aces + (IF IsAce(RawCard(byte)) THEN 1 ELSE 0)
           k     == Downgrades(total, aces)
<1>1. /\ value \in Int
      /\ 2 <= value /\ value <= 11
      /\ IsAce(RawCard(byte)) <=> value = 11
  BY CardValueRange
<1>2. /\ hand.score \in Nat /\ hand.score <= 244
      /\ hand.aces = 0 \/ hand.aces = 1
      /\ hand.aces = 1 => 11 <= hand.score /\ hand.score <= 21
  BY DEF Sound, Hands, U8
<1>3. SatAddU8(hand.score, value) = total
  BY <1>1, <1>2 DEF SatAddU8
<1>4. aces = hand.aces + (IF value = 11 THEN 1 ELSE 0)
  BY <1>1
<1>5. ApplyCard(hand, byte) = [score |-> total - 10 * k, aces |-> aces - k]
  BY <1>3 DEF ApplyCard, Settle
<1>6. total \in Nat /\ aces \in 0..2
  BY <1>1, <1>2, <1>4
<1>7. /\ k \in 0..aces
      /\ LoopDone(total, aces, k)
      /\ \A j \in 0..(k - 1) : ~LoopDone(total, aces, j)
  <2> HIDE DEF total, aces
  <2> QED
    BY <1>6, DowngradesSpec
<1> HIDE DEF k, aces, value
<1>8. CASE k = 0
  <2>1. total <= 21 \/ aces = 0
    BY <1>6, <1>7, <1>8 DEF LoopDone
  <2>2. Sound(ApplyCard(hand, byte))
    BY <2>1, <1>1, <1>2, <1>4, <1>5, <1>8 DEF Sound, Hands, U8
  <2> QED
    BY <2>1, <2>2, <1>1, <1>2, <1>4, <1>5, <1>8
<1>9. CASE k > 0
  <2>1. ~LoopDone(total, aces, k - 1)
    BY <1>6, <1>7, <1>9
  <2>2. aces > 0 /\ total > 21 /\ k \in 1..2
    BY <2>1, <1>6, <1>7, <1>9 DEF LoopDone
  <2>3. total - 10 * k \in Nat /\ total - 10 * k >= 2
    BY <2>1, <2>2, <1>6 DEF LoopDone
  <2>4. total - 10 * k <= hand.score + 1
    BY <2>2, <1>1, <1>2
  <2>5. aces - k = 0 \/ (aces - k = 1 /\ total - 10 * k \in 11..21)
    BY <2>2, <1>6, <1>7 DEF LoopDone
  <2>6. Sound(ApplyCard(hand, byte))
    BY <2>3, <2>4, <2>5, <1>2, <1>5 DEF Sound, Hands, U8
  <2>7. ApplyCard(hand, byte).score = total - 10 * k
    BY <1>5
  <2> QED
    BY <2>3, <2>4, <2>6, <2>7, <1>2, <1>6
<1> QED
  BY <1>6, <1>7, <1>8, <1>9

\* With every ace counted as 1, a card adds at least 1 and at most 10: the
\* downgrades of apply_card take 10 from the score for every ace they turn.
LEMMA CardAddsUp ==
    ASSUME NEW hand, Sound(hand), hand.score <= 244, NEW byte \in U8
    PROVE  LET drawn == ApplyCard(hand, byte)
           IN  (drawn.score - 10 * drawn.aces) - (hand.score - 10 * hand.aces)
                   \in 1..10
<1> DEFINE value == CardValue(RawCard(byte))
           total == hand.score + value
           aces  == hand.aces + (IF IsAce(RawCard(byte)) THEN 1 ELSE 0)
           k     == Downgrades(total, aces)
<1>1. /\ value \in Int
      /\ 2 <= value /\ value <= 11
      /\ IsAce(RawCard(byte)) <=> value = 11
  BY CardValueRange
<1>2. /\ hand.score \in Nat /\ hand.score <= 244
      /\ hand.aces \in 0..1
  BY DEF Sound, Hands, U8
<1>3. ApplyCard(hand, byte) = [score |-> total - 10 * k, aces |-> aces - k]
  BY <1>1, <1>2 DEF ApplyCard, Settle, SatAddU8
<1>4. aces = hand.aces + (IF value = 11 THEN 1 ELSE 0)
  BY <1>1
<1>5. total \in Nat /\ aces \in 0..2
  BY <1>1, <1>2, <1>4
<1>6. k \in 0..aces
  <2> HIDE DEF total, aces
  <2> QED
    BY <1>5, DowngradesSpec
<1> HIDE DEF k
<1>7. /\ ApplyCard(hand, byte).score = total - 10 * k
      /\ ApplyCard(hand, byte).aces = aces - k
  BY <1>3
<1>8. total - 10 * k - 10 * (aces - k) = total - 10 * aces
  BY <1>5, <1>6
<1> HIDE DEF aces
<1>9. (total - 10 * aces) - (hand.score - 10 * hand.aces) \in 1..10
  <2> DEFINE s == hand.score
             a == hand.aces
  <2>1. s \in Int /\ a \in Int
    BY <1>2
  <2>2. aces = a + (IF value = 11 THEN 1 ELSE 0)
    BY <1>4
  <2> HIDE DEF value, s, a
  <2>3. CASE value = 11
    <3>1. aces = a + 1
      BY <2>2, <2>3
    <3>2. ((s + value) - 10 * aces) - (s - 10 * a) \in 1..10
      BY <3>1, <2>1, <2>3
    <3> QED
      BY <3>2 DEF s, a
  <2>4. CASE value # 11
    <3>1. aces = a
      BY <2>1, <2>2, <2>4
    <3>2. ((s + value) - 10 * aces) - (s - 10 * a) \in 1..10
      BY <3>1, <2>1, <2>4, <1>1
    <3> QED
      BY <3>2 DEF s, a
  <2> QED
    BY <2>3, <2>4
<1> HIDE DEF total
<1> QED
  BY <1>7, <1>8, <1>9

=============================================================================
