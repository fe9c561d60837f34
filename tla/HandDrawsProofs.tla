-------------------------- MODULE HandDrawsProofs --------------------------
(***************************************************************************)
(* The running total of apply_card is the best total of the cards drawn,   *)
(* for every sequence of random bytes.                                     *)
(***************************************************************************)
EXTENDS HandDraws, HandProofs, TLAPS

\* Every ace adds at least one to the hard total, and a draw adds at most ten.
IInv == /\ TypeOK
        /\ held <= hard
        /\ hard <= MaxHard + 10
        /\ BestTotal

\* Turning the aces of a hand from 11 into 1 one by one: when the k-th turn
\* was needed and no further one is, `aces - k` of them stay at 11.
LEMMA TurnedAces ==
    ASSUME NEW hard1 \in Nat, NEW aces1 \in 0..2, NEW k \in 0..2, k > 0,
           ~((hard1 + 10 * aces1) - 10 * (k - 1) <= 21)
    PROVE  hard1 + 10 * (aces1 - k) > 11
<1>1. CASE k = 1
  BY <1>1
<1>2. CASE k = 2
  BY <1>2
<1> QED
  BY <1>1, <1>2

\* At most one ace of a settled hand counts as 11: exactly when there is an
\* ace and the hard total leaves room for it.
LEMMA SoftAfterDraw ==
    ASSUME NEW hard0 \in Nat, NEW held0 \in Nat, held0 <= hard0,
           NEW ace \in 0..1,
           NEW aces0 \in 0..1, aces0 = 1 <=> held0 > 0 /\ hard0 <= 11,
           NEW hard1 \in Nat, hard1 > hard0, hard1 >= hard0 + ace,
           NEW left \in 0..2, left <= aces0 + ace,
           left = 0 \/ hard1 + 10 * left <= 21,
           left < aces0 + ace => hard1 + 10 * left > 11
    PROVE  left = IF held0 + ace > 0 /\ hard1 <= 11 THEN 1 ELSE 0
<1>1. CASE left = 0
  <2>1. CASE aces0 + ace = 0
    <3>1. aces0 = 0 /\ ace = 0
      BY <2>1
    <3> QED
      BY <3>1, <1>1
  <2>2. CASE aces0 + ace # 0
    <3>1. hard1 > 11
      BY <2>2, <1>1
    <3> QED
      BY <3>1, <1>1
  <2> QED
    BY <2>1, <2>2
<1>2. CASE left = 1
  <2>1. hard1 <= 11
    BY <1>2
  <2>2. held0 + ace > 0
    BY <1>2
  <2> QED
    BY <2>1, <2>2, <1>2
<1>3. CASE left = 2
  <2>1. aces0 = 1 /\ ace = 1 /\ hard1 <= 1
    BY <1>3
  <2> QED
    BY <2>1
<1> QED
  BY <1>1, <1>2, <1>3

\* The arithmetic of a draw: `soft` aces counted as 11 before it, `ace` is 1
\* when the card is an ace, and k aces are downgraded.
LEMMA DrawSpec ==
    ASSUME IInv, NEW byte \in Bytes, Draw(byte)
    PROVE  LET ace  == IF IsAce(RawCard(byte)) THEN 1 ELSE 0
               left == hand'.aces
           IN  /\ hard' \in Nat
               /\ held' = held + ace
               /\ hard + 1 <= hard' /\ hard' <= hard + 10
               /\ hard' >= hard + ace
               /\ left \in 0..(hand.aces + ace)
               /\ hand'.score = hard' + 10 * left
               /\ left = 0 \/ hard' + 10 * left <= 21
               /\ left < hand.aces + ace => hard' + 10 * left > 11
<1> DEFINE value == CardValue(RawCard(byte))
           ace   == IF IsAce(RawCard(byte)) THEN 1 ELSE 0
           total == hand.score + value
           aces  == hand.aces + ace
           k     == Downgrades(total, aces)
<1>1. /\ value \in 2..11
      /\ ace = IF value = 11 THEN 1 ELSE 0
  BY BytesAssumption, CardValueRange
<1>2. /\ hard \in Nat /\ held \in Nat
      /\ hard <= 244
      /\ hand.aces \in 0..1
      /\ hand.score = hard + 10 * hand.aces
      /\ hand.aces = 1 => hard <= 11
  BY MaxHardAssumption DEF IInv, TypeOK, BestTotal, SoftAces, Draw
<1>3. hard' = hard + (IF value = 11 THEN 1 ELSE value)
  BY <1>1 DEF Draw
<1>4. SatAddU8(hand.score, value) = total
  BY <1>1, <1>2 DEF SatAddU8
<1>5. hand' = [score |-> total - 10 * k, aces |-> aces - k]
  BY <1>4 DEF Draw, ApplyCard, Settle
<1>6. total \in Nat /\ aces \in 0..2 /\ total = hard' + 10 * aces
  <2> HIDE DEF value
  <2> QED
    BY <1>1, <1>2, <1>3
<1>7. /\ k \in 0..aces
      /\ LoopDone(total, aces, k)
      /\ \A j \in 0..(k - 1) : ~LoopDone(total, aces, j)
  <2> HIDE DEF total, aces
  <2> QED
    BY <1>6, DowngradesSpec
<1>8. held' = held + ace
  BY DEF Draw
<1>9. hard' \in Nat /\ hard + 1 <= hard' /\ hard' <= hard + 10 /\ hard' >= hard + ace
  <2> HIDE DEF value
  <2> QED
    BY <1>1, <1>2, <1>3
<1> HIDE DEF value, ace, total, aces, k
<1>10. /\ hand'.aces = aces - k
       /\ hand'.score = hard' + 10 * (aces - k)
  BY <1>5, <1>6, <1>7, <1>9
<1>11. k \in 0..2
  BY <1>6, <1>7
<1>12. total - 10 * k = hard' + 10 * (aces - k)
  BY <1>6, <1>9, <1>11
<1>13. aces - k = 0 \/ hard' + 10 * (aces - k) <= 21
  BY <1>7, <1>12 DEF LoopDone
<1>14. k > 0 => hard' + 10 * (aces - k) > 11
  <2> SUFFICES ASSUME k > 0
               PROVE  hard' + 10 * (aces - k) > 11
    OBVIOUS
  <2>1. k - 1 \in 0..(k - 1)
    BY <1>11
  <2>2. ~(total - 10 * (k - 1) <= 21)
    BY <2>1, <1>7 DEF LoopDone
  <2>3. ~((hard' + 10 * aces) - 10 * (k - 1) <= 21)
    BY <2>2, <1>6
  <2>4. /\ hard' \in Nat
        /\ aces \in 0..2
    BY <1>6, <1>9
  <2> QED
    BY <2>3, <2>4, <1>11, TurnedAces
<1> QED
  BY <1>6, <1>7, <1>8, <1>9, <1>10, <1>11, <1>13, <1>14 DEF ace, aces

LEMMA DrawInv ==
    ASSUME IInv, NEW byte \in Bytes, Draw(byte)
    PROVE  /\ IInv'
           /\ held > 0 /\ hand.aces = 0 => hand'.aces = 0
<1> DEFINE ace  == IF IsAce(RawCard(byte)) THEN 1 ELSE 0
           left == hand'.aces
<1>1. /\ hard' \in Nat
      /\ held' = held + ace
      /\ hard + 1 <= hard' /\ hard' <= hard + 10
      /\ hard' >= hard + ace
      /\ left \in 0..(hand.aces + ace)
      /\ hand'.score = hard' + 10 * left
      /\ left = 0 \/ hard' + 10 * left <= 21
      /\ left < hand.aces + ace => hard' + 10 * left > 11
  BY DrawSpec
<1>2. /\ hard \in Nat /\ held \in Nat /\ held <= hard
      /\ hard <= MaxHard /\ MaxHard \in Nat /\ MaxHard <= 244
      /\ hand.aces = IF held > 0 /\ hard <= 11 THEN 1 ELSE 0
  BY MaxHardAssumption DEF IInv, TypeOK, BestTotal, SoftAces, Draw
<1>3. ace \in 0..1
  OBVIOUS
<1> HIDE DEF ace
<1>4. left = SoftAces'
  <2> HIDE DEF left
  <2>1. SoftAces' = IF held + ace > 0 /\ hard' <= 11 THEN 1 ELSE 0
    BY <1>1 DEF SoftAces
  <2>2. /\ hand.aces \in 0..1
        /\ hand.aces = 1 <=> held > 0 /\ hard <= 11
    BY <1>2
  <2>3. left \in 0..2 /\ left <= hand.aces + ace
    BY <1>1, <1>3, <2>2
  <2>4. hard' > hard
    BY <1>1, <1>2
  <2> QED
    BY <2>1, <2>2, <2>3, <2>4, <1>1, <1>2, <1>3, SoftAfterDraw
<1>5. BestTotal'
  BY <1>1, <1>4 DEF BestTotal
<1>6. hand' \in Hands
  <2>1. hand' = [score |-> hand'.score, aces |-> left]
    BY DEF Draw, ApplyCard, Settle
  <2>2. left \in U8
    BY <1>1, <1>2, <1>3 DEF U8
  <2>3. hand'.score \in U8
    BY <1>1, <1>2 DEF U8
  <2> QED
    BY <2>1, <2>2, <2>3 DEF Hands
<1>7. /\ held' \in Nat /\ held' <= hard'
      /\ hard' <= MaxHard + 10
  BY <1>1, <1>2, <1>3
<1>8. ASSUME held > 0, hand.aces = 0
      PROVE  left = 0
  BY <1>1, <1>2, <1>3, <1>4, <1>8 DEF SoftAces
<1> QED
  BY <1>1, <1>5, <1>6, <1>7, <1>8 DEF IInv, TypeOK

LEMMA Inductive ==
    /\ Init => IInv
    /\ IInv /\ [Next]_vars => IInv'
<1>1. Init => IInv
  BY MaxHardAssumption
     DEF Init, IInv, TypeOK, BestTotal, SoftAces, Hands, EmptyHand, U8
<1>2. IInv /\ UNCHANGED vars => IInv'
  BY DEF vars, IInv, TypeOK, BestTotal, SoftAces
<1> QED
  BY <1>1, <1>2, DrawInv DEF Next

\* Score and soft aces stay bytes: the subtractions of apply_card never go
\* below zero and its additions never above 255.
THEOREM HandTypeCorrect == Spec => []TypeOK
<1>1. IInv => TypeOK
  BY DEF IInv
<1> QED
  BY <1>1, Inductive, PTL DEF Spec

\* The incremental score is the best total of all the cards held.
THEOREM ScoreIsBestTotal == Spec => []BestTotal
<1>1. IInv => BestTotal
  BY DEF IInv
<1> QED
  BY <1>1, Inductive, PTL DEF Spec

\* An ace once counted as 1 is never counted as 11 again.
THEOREM HardHandsStayHard == Spec => DowngradeIsFinal
<1>1. IInv /\ [Next]_vars =>
        [held > 0 /\ hand.aces = 0 => hand'.aces = 0]_vars
  BY DrawInv DEF Next
<1> QED
  BY <1>1, Inductive, PTL DEF Spec, DowngradeIsFinal

=============================================================================
