-------------------------- MODULE GameEngineProofs --------------------------
(***************************************************************************)
(* The safety properties of GameProperties, proved for any number of games *)
(* and keys and for every random byte.                                     *)
(*                                                                         *)
(* GameInv is the invariant of one GameState record.  A lemma for each     *)
(* handler shows that the record it returns satisfies GameInv again; the   *)
(* theorems then only have to follow the accounts.                         *)
(***************************************************************************)
EXTENDS GameProperties, HandProofs, TLAPS

\* Match!StakesAddUp for one game.
StakesOK(gs) ==
    gs.winner = "None" =>
        /\ gs.round_number \in 1..5
        /\ gs.hp["Red"] + gs.hp["Blue"]
             = 20 - Match!DealtBefore(gs.round_number)

GameInv(gs) == /\ gs \in GameStates
               /\ \A c \in Color : HandOK(gs, c)
               /\ TurnOK(gs)
               /\ EndOK(gs)
               /\ StakesOK(gs)

-----------------------------------------------------------------------------
(* The handlers keep GameInv.                                              *)

LEMMA OtherColor ==
    ASSUME NEW c \in Color
    PROVE  /\ Other(c) \in Color
           /\ Other(c) # c
           /\ \A d \in Color : d = c \/ d = Other(c)
  BY DEF Color, Other

LEMMA NewGameInv ==
    ASSUME NEW red \in Keys, NEW blue \in Keys
    PROVE  GameInv(NewGame(red, blue))
<1> DEFINE gs == NewGame(red, blue)
<1>1. gs \in GameStates
  BY DEF NewGame, GameStates, Color, U8, Hands, EmptyHand, GamePhase
<1>2. \A c \in Color : HandOK(gs, c)
  BY DEF NewGame, HandOK, EmptyHand, NoCards, Moving
<1>3. TurnOK(gs)
  BY DEF NewGame, TurnOK, Moving
<1>4. EndOK(gs) /\ StakesOK(gs)
  BY DEF NewGame, EndOK, StakesOK, Color, Match!DealtBefore
<1> QED
  BY <1>1, <1>2, <1>3, <1>4 DEF GameInv

LEMMA RequestedInv ==
    ASSUME NEW gs, GameInv(gs), NEW roll \in RollTypes, NEW agent,
           MayRequest(gs, roll, agent)
    PROVE  GameInv(Requested(gs, roll))
<1> DEFINE new == Requested(gs, roll)
<1>1. PendingPhase(roll) \in GamePhase \ {"Ended"}
  BY DEF PendingPhase, GamePhase
<1>2. new \in GameStates
  BY <1>1 DEF GameInv, Requested, GameStates
<1>3. /\ new.hand = gs.hand
      /\ new.stayed = gs.stayed
      /\ new.hp = gs.hp
      /\ new.winner = gs.winner
      /\ new.round_number = gs.round_number
      /\ new.active_player = gs.active_player
      /\ new.phase = PendingPhase(roll)
  BY DEF GameInv, Requested, GameStates
<1>4. /\ gs.phase \in NoCards <=> new.phase \in NoCards
      /\ gs.phase \in Moving <=> new.phase \in Moving
      /\ gs.phase = "AwaitingFinalRevealVRF" <=> new.phase = "AwaitingFinalRevealVRF"
      /\ gs.phase # "Ended" /\ new.phase # "Ended"
  BY <1>3 DEF MayRequest, MayDeal, MayHit, MayReveal, MayBreakTie,
              PendingPhase, NoCards, Moving, RollTypes
<1>5. \A c \in Color : HandOK(new, c)
  BY <1>3, <1>4 DEF GameInv, HandOK
<1>6. TurnOK(new) /\ EndOK(new) /\ StakesOK(new)
  BY <1>3, <1>4 DEF GameInv, TurnOK, EndOK, StakesOK
<1> QED
  BY <1>2, <1>5, <1>6 DEF GameInv

\* Every hand of a game is sound, so ApplyCardSpec applies to it.
LEMMA HandIsSound ==
    ASSUME NEW gs, GameInv(gs), NEW c \in Color
    PROVE  Sound(gs.hand[c])
  BY DEF GameInv, GameStates, HandOK, Sound

\* A roll that deals one card to each player.
LEMMA DealBothSpec ==
    ASSUME NEW gs, GameInv(gs), NEW b0 \in U8, NEW b1 \in U8,
           NEW c \in Color, gs.hand[c].score <= 30
    PROVE  LET h == DealBoth(gs, b0, b1)[c]
           IN  /\ Sound(h)
               /\ h.score \in 2..41
               /\ h.score <= 40
               /\ gs.hand[c] = EmptyHand => h.score <= 20
<1> DEFINE b == IF c = "Red" THEN b0 ELSE b1
           h == ApplyCard(gs.hand[c], b)
<1>1. DealBoth(gs, b0, b1)[c] = h
  BY DEF DealBoth
<1>2. Sound(gs.hand[c])
  BY HandIsSound
<1>3. gs.hand[c].score \in Nat
  BY <1>2 DEF Sound, Hands, U8
<1>4. b \in U8
  OBVIOUS
<1>5. /\ Sound(h)
      /\ h.score >= 2
      /\ h.score <= 21 \/ h.score <= gs.hand[c].score + 10
      /\ h.score <= gs.hand[c].score + 11
  <2> HIDE DEF b
  <2> QED
    BY <1>2, <1>3, <1>4, ApplyCardSpec
<1>6. h.score \in Nat
  BY <1>5 DEF Sound, Hands, U8
<1> HIDE DEF h
<1> QED
  BY <1>1, <1>3, <1>5, <1>6 DEF EmptyHand

LEMMA AfterDealInv ==
    ASSUME NEW gs, GameInv(gs), gs.phase = "AwaitingInitialDealVRF",
           NEW b0 \in U8, NEW b1 \in U8
    PROVE  GameInv(AfterDeal(gs, b0, b1))
<1> DEFINE new == AfterDeal(gs, b0, b1)
<1>1. \A c \in Color : gs.hand[c] = EmptyHand /\ ~gs.stayed[c]
  BY DEF GameInv, HandOK, NoCards
<1>2. \A c \in Color : LET h == DealBoth(gs, b0, b1)[c]
                       IN  Sound(h) /\ h.score \in 2..20
  BY <1>1, DealBothSpec DEF EmptyHand
<1>3. /\ new.hand = DealBoth(gs, b0, b1)
      /\ new.stayed = gs.stayed
      /\ new.hp = gs.hp
      /\ new.winner = gs.winner
      /\ new.round_number = gs.round_number
      /\ new.active_player = gs.active_player
      /\ new.phase = "AwaitingAction"
  BY DEF GameInv, AfterDeal, GameStates
<1>4. DealBoth(gs, b0, b1) \in [Color -> Hands]
  BY <1>2 DEF DealBoth, Sound
<1>5. new \in GameStates
  BY <1>4 DEF GameInv, AfterDeal, GameStates, GamePhase
<1>6. \A c \in Color : HandOK(new, c)
  BY <1>1, <1>2, <1>3 DEF HandOK, Sound, NoCards, Moving
<1>7. TurnOK(new)
  BY <1>1, <1>3 DEF GameInv, TurnOK, GameStates
<1>8. EndOK(new) /\ StakesOK(new)
  BY <1>3 DEF GameInv, EndOK, StakesOK
<1> QED
  BY <1>5, <1>6, <1>7, <1>8 DEF GameInv

LEMMA AfterHitInv ==
    ASSUME NEW gs, GameInv(gs), gs.phase = "AwaitingHitVRF", NEW b0 \in U8
    PROVE  GameInv(AfterHit(gs, b0))
<1> DEFINE p      == gs.active_player
           drawn  == ApplyCard(gs.hand[p], b0)
           stayed == [gs.stayed EXCEPT ![p] = @ \/ drawn.score >= 21]
           new    == AfterHit(gs, b0)
<1>1. /\ p \in Color
      /\ ~gs.stayed[p]
      /\ gs.hand[p].score \in 2..20
  BY DEF GameInv, TurnOK, HandOK, Moving, NoCards, GameStates
<1>2. Sound(drawn) /\ drawn.score \in 2..30
  <2>1. Sound(gs.hand[p])
    BY <1>1, HandIsSound
  <2>2. /\ Sound(drawn)
        /\ drawn.score >= 2
        /\ drawn.score <= 21 \/ drawn.score <= gs.hand[p].score + 10
    BY <1>1, <2>1, ApplyCardSpec
  <2>3. drawn.score \in Nat
    BY <2>2 DEF Sound, Hands, U8
  <2> HIDE DEF drawn
  <2> QED
    BY <1>1, <2>2, <2>3
<1> HIDE DEF drawn
<1>3. /\ new.hand = [gs.hand EXCEPT ![p] = drawn]
      /\ new.stayed = stayed
      /\ new.hp = gs.hp
      /\ new.winner = gs.winner
      /\ new.round_number = gs.round_number
      /\ new.active_player = IF stayed[Other(p)] THEN p ELSE Other(p)
      /\ new.phase = IF BothStayed(stayed) THEN "AwaitingFinalRevealVRF"
                     ELSE "AwaitingAction"
      /\ new.pending = FALSE
      /\ new.agent = gs.agent
      /\ new.upgrade_locked = gs.upgrade_locked
  BY DEF GameInv, AfterHit, GameStates, drawn
<1>4. new \in GameStates
  <2>1. stayed \in [Color -> BOOLEAN]
    BY DEF GameInv, GameStates
  <2>2. [gs.hand EXCEPT ![p] = drawn] \in [Color -> Hands]
    BY <1>2 DEF GameInv, GameStates, Sound
  <2> QED
    BY <2>1, <2>2, <1>1, OtherColor
       DEF GameInv, AfterHit, GameStates, GamePhase, drawn
<1>5. ASSUME NEW c \in Color
      PROVE  HandOK(new, c)
  <2>1. CASE c = p
    <3>1. /\ new.hand[c] = drawn
          /\ new.stayed[c] <=> drawn.score >= 21
      BY <2>1, <1>1, <1>3 DEF GameInv, GameStates
    <3>2. BothStayed(stayed) => new.stayed[c]
      BY <1>3 DEF BothStayed, Color
    <3> QED
      BY <3>1, <3>2, <1>2, <1>3 DEF HandOK, Sound, NoCards, Moving
  <2>2. CASE c # p
    <3>1. new.hand[c] = gs.hand[c] /\ new.stayed[c] = gs.stayed[c]
      BY <2>2, <1>1, <1>3 DEF GameInv, GameStates
    <3>2. BothStayed(stayed) => new.stayed[c]
      BY <1>3 DEF BothStayed, Color
    <3>3. HandOK(gs, c)
      BY DEF GameInv
    <3> QED
      BY <3>1, <3>2, <3>3, <1>3 DEF HandOK, NoCards, Moving
  <2> QED
    BY <2>1, <2>2
<1>6. TurnOK(new)
  <2>1. SUFFICES ASSUME ~BothStayed(stayed)
                 PROVE  ~stayed[new.active_player]
    BY <1>3 DEF TurnOK, Moving
  <2> QED
    BY <2>1, <1>1, <1>3 DEF BothStayed, Other, Color
<1>7. EndOK(new) /\ StakesOK(new)
  BY <1>3 DEF GameInv, EndOK, StakesOK
<1> QED
  BY <1>4, <1>5, <1>6, <1>7 DEF GameInv

LEMMA AfterRevealInv ==
    ASSUME NEW gs, GameInv(gs),
           gs.phase \in {"AwaitingFinalRevealVRF", "AwaitingTiebreakerVRF"},
           NEW b0 \in U8, NEW b1 \in U8
    PROVE  GameInv(AfterReveal(gs, b0, b1))
<1> DEFINE new == AfterReveal(gs, b0, b1)
<1>1. \A c \in Color : gs.hand[c].score <= 30
  BY DEF GameInv, HandOK, NoCards, EmptyHand
<1>2. \A c \in Color : LET h == DealBoth(gs, b0, b1)[c]
                       IN  Sound(h) /\ h.score \in 2..40
  BY <1>1, DealBothSpec
<1>3. /\ new.hand = DealBoth(gs, b0, b1)
      /\ new.stayed = gs.stayed
      /\ new.hp = gs.hp
      /\ new.winner = gs.winner
      /\ new.round_number = gs.round_number
      /\ new.phase = "ReadyToResolve"
  BY DEF GameInv, AfterReveal, GameStates
<1>4. DealBoth(gs, b0, b1) \in [Color -> Hands]
  BY <1>2 DEF DealBoth, Sound
<1>5. new \in GameStates
  BY <1>4 DEF GameInv, AfterReveal, GameStates, GamePhase
<1>6. \A c \in Color : HandOK(new, c)
  BY <1>2, <1>3 DEF HandOK, Sound, NoCards, Moving
<1>7. TurnOK(new) /\ EndOK(new) /\ StakesOK(new)
  BY <1>3 DEF GameInv, TurnOK, EndOK, StakesOK, Moving
<1> QED
  BY <1>5, <1>6, <1>7 DEF GameInv

LEMMA FulfilledInv ==
    ASSUME NEW gs, GameInv(gs), NEW roll \in RollTypes,
           gs.phase = PendingPhase(roll), NEW b0 \in U8, NEW b1 \in U8
    PROVE  GameInv(Fulfilled(gs, roll, b0, b1))
<1>1. CASE roll = 0
  BY <1>1, AfterDealInv DEF Fulfilled, PendingPhase
<1>2. CASE roll = 1
  BY <1>2, AfterHitInv DEF Fulfilled, PendingPhase
<1>3. CASE roll \notin {0, 1}
  BY <1>3, AfterRevealInv DEF Fulfilled, PendingPhase
<1> QED
  BY <1>1, <1>2, <1>3

\* The signer of a stay need not be the active player, so the two cases of
\* the turn are both possible.
LEMMA StayedInv ==
    ASSUME NEW gs, GameInv(gs), gs.phase = "AwaitingAction",
           NEW player \in Color, ~gs.stayed[player]
    PROVE  GameInv(Stayed(gs, player))
<1> DEFINE stayed == [gs.stayed EXCEPT ![player] = TRUE]
           new    == Stayed(gs, player)
<1>1. /\ new.hand = gs.hand
      /\ new.stayed = stayed
      /\ new.hp = gs.hp
      /\ new.winner = gs.winner
      /\ new.round_number = gs.round_number
      /\ new.active_player = IF stayed[Other(player)] THEN gs.active_player
                             ELSE Other(player)
      /\ new.phase = IF BothStayed(stayed) THEN "AwaitingFinalRevealVRF"
                     ELSE "AwaitingAction"
  BY DEF GameInv, Stayed, GameStates
<1>2. new \in GameStates
  <2>1. stayed \in [Color -> BOOLEAN]
    BY DEF GameInv, GameStates
  <2> QED
    BY <2>1, OtherColor DEF GameInv, Stayed, GameStates, GamePhase
<1>3. ASSUME NEW c \in Color
      PROVE  HandOK(new, c)
  <2>1. HandOK(gs, c)
    BY DEF GameInv
  <2>2. /\ c = player => new.stayed[c]
        /\ c # player => new.stayed[c] = gs.stayed[c]
    BY <1>1 DEF GameInv, GameStates
  <2>3. BothStayed(stayed) => new.stayed[c]
    BY <1>1 DEF BothStayed, Color
  <2> QED
    BY <1>1, <2>1, <2>2, <2>3 DEF HandOK, NoCards, Moving
<1>4. TurnOK(new)
  <2>1. SUFFICES ASSUME ~BothStayed(stayed)
                 PROVE  ~stayed[new.active_player]
    BY <1>1 DEF TurnOK, Moving
  <2>2. /\ ~gs.stayed[gs.active_player]
        /\ gs.active_player \in Color
        /\ gs.stayed \in [Color -> BOOLEAN]
    BY DEF GameInv, GameStates, TurnOK, Moving
  <2> QED
    BY <2>1, <2>2, <1>1 DEF BothStayed, Other, Color
<1>5. EndOK(new) /\ StakesOK(new)
  BY <1>1 DEF GameInv, EndOK, StakesOK
<1> QED
  BY <1>2, <1>3, <1>4, <1>5 DEF GameInv

-----------------------------------------------------------------------------
(* resolve_round.                                                          *)

LEMMA ResetSpec ==
    ASSUME NEW gs \in GameStates, NEW phase \in NoCards
    PROVE  /\ Reset(gs, phase) \in GameStates
           /\ \A c \in Color : HandOK(Reset(gs, phase), c)
           /\ TurnOK(Reset(gs, phase))
<1> DEFINE new == Reset(gs, phase)
<1>1. /\ new.hand = [c \in Color |-> EmptyHand]
      /\ new.stayed = [c \in Color |-> FALSE]
      /\ new.active_player = "Red"
      /\ new.phase = phase
  BY DEF Reset, GameStates
<1>2. new \in GameStates
  <2>1. [c \in Color |-> EmptyHand] \in [Color -> Hands]
    BY DEF Hands, EmptyHand, U8
  <2>2. phase \in GamePhase /\ "Red" \in Color
    BY DEF NoCards, GamePhase, Color
  <2> QED
    BY <2>1, <2>2 DEF Reset, GameStates
<1>3. \A c \in Color : HandOK(new, c)
  BY <1>1 DEF HandOK, NoCards, Moving, EmptyHand
<1>4. TurnOK(new)
  BY <1>1 DEF TurnOK, Color
<1> QED
  BY <1>2, <1>3, <1>4

LEMMA AfterTieInv ==
    ASSUME NEW gs, GameInv(gs), gs.phase = "ReadyToResolve"
    PROVE  GameInv(AfterTie(gs))
<1> DEFINE reset == Reset(gs, "AwaitingTiebreakerVRF")
           new   == AfterTie(gs)
<1>1. /\ reset \in GameStates
      /\ \A c \in Color : HandOK(reset, c)
      /\ TurnOK(reset)
  BY ResetSpec DEF GameInv, NoCards
<1>2. /\ reset.hp = gs.hp
      /\ reset.winner = gs.winner
      /\ reset.round_number = gs.round_number
      /\ reset.phase = "AwaitingTiebreakerVRF"
  BY DEF GameInv, Reset, GameStates
<1> HIDE DEF reset
<1>3. new = [reset EXCEPT !.pending = FALSE]
  BY DEF AfterTie, reset
<1>4. /\ new \in GameStates
      /\ new.hand = reset.hand
      /\ new.stayed = reset.stayed
      /\ new.phase = reset.phase
      /\ new.active_player = reset.active_player
      /\ new.hp = reset.hp
      /\ new.winner = reset.winner
      /\ new.round_number = reset.round_number
  BY <1>1, <1>3 DEF GameStates
<1> HIDE DEF new
<1>5. (\A c \in Color : HandOK(new, c)) /\ TurnOK(new)
  BY <1>1, <1>4 DEF HandOK, TurnOK
<1>6. EndOK(new) /\ StakesOK(new)
  BY <1>2, <1>4 DEF GameInv, EndOK, StakesOK
<1>7. GameInv(new)
  BY <1>4, <1>5, <1>6 DEF GameInv
<1> QED
  BY <1>7 DEF new

\* The damage of a round is the stake of Duel, and the stakes up to a round
\* add up to DealtBefore of the next one.
LEMMA DamageIsStake ==
    ASSUME NEW r \in 1..5
    PROVE  /\ Damage(r) = Match!Stake(r)
           /\ Damage(r) \in 1..16
           /\ r <= 4 => Match!DealtBefore(r + 1) = Match!DealtBefore(r) + Damage(r)
           /\ r = 5 => Damage(r) = 16 /\ Match!DealtBefore(r) = 15
  BY DEF Damage, Match!Stake, Match!DealtBefore

\* What is left of the two players after a round of an open match.
LEMMA HpAfterSpec ==
    ASSUME NEW gs, GameInv(gs), gs.phase = "ReadyToResolve"
    PROVE  LET w    == RoundWinner(gs)
               l    == Other(w)
               left == Match!Hurt(gs.hp[l], gs.round_number)
           IN  /\ w \in Color
               /\ gs.round_number \in 1..5
               /\ gs.hp[w] \in 1..20 /\ gs.hp[l] \in 1..20
               /\ HpAfter(gs) = [gs.hp EXCEPT ![l] = left]
               /\ left \in U8
               /\ left > 0 => left = gs.hp[l] - Damage(gs.round_number)
               /\ Fatal(gs) <=> left = 0
               /\ gs.round_number = 5 => Fatal(gs)
<1> DEFINE w    == RoundWinner(gs)
           l    == Other(w)
           r    == gs.round_number
           left == Match!Hurt(gs.hp[l], r)
<1>1. w \in Color /\ l \in Color /\ l # w /\ {w, l} = Color
  BY DEF RoundWinner, Color, Other
<1>2. /\ r \in 1..5
      /\ gs.hp \in [Color -> U8]
      /\ \A c \in Color : gs.hp[c] # 0
      /\ gs.hp["Red"] + gs.hp["Blue"] = 20 - Match!DealtBefore(r)
  BY DEF GameInv, GameStates, EndOK, StakesOK
<1>3. /\ gs.hp[w] \in Nat /\ gs.hp[w] > 0
      /\ gs.hp[l] \in Nat /\ gs.hp[l] > 0
      /\ gs.hp[w] + gs.hp[l] = 20 - Match!DealtBefore(r)
  <2>1. gs.hp[w] + gs.hp[l] = gs.hp["Red"] + gs.hp["Blue"]
    <3>1. \/ w = "Red" /\ l = "Blue"
          \/ w = "Blue" /\ l = "Red"
      BY <1>1 DEF Color
    <3>2. gs.hp["Red"] \in Nat /\ gs.hp["Blue"] \in Nat
      BY <1>2 DEF U8, Color
    <3> HIDE DEF w, l
    <3> QED
      BY <3>1, <3>2
  <2>2. /\ gs.hp[w] \in Nat /\ gs.hp[w] > 0
        /\ gs.hp[l] \in Nat /\ gs.hp[l] > 0
    <3> HIDE DEF w, l
    <3> QED
      BY <1>1, <1>2 DEF U8
  <2> QED
    BY <1>2, <2>1, <2>2
<1>4. Match!DealtBefore(r) \in 0..15
  BY <1>2 DEF Match!DealtBefore
<1>5. gs.hp[w] \in 1..20 /\ gs.hp[l] \in 1..20
  BY <1>3, <1>4
<1>6. Damage(r) = Match!Stake(r) /\ Damage(r) \in 1..16
  BY <1>2, DamageIsStake
<1>7. left = SatSubU8(gs.hp[l], Damage(r))
  BY <1>6 DEF SatSubU8, Match!Hurt
<1>8. HpAfter(gs) = [gs.hp EXCEPT ![l] = left]
  BY <1>1, <1>2, <1>7 DEF HpAfter
<1>9. /\ left \in U8
      /\ left > 0 => left = gs.hp[l] - Damage(r)
  BY <1>5, <1>6, <1>7 DEF SatSubU8, U8
<1>10. Fatal(gs) <=> left = 0
  <2>1. HpAfter(gs)[l] = left /\ HpAfter(gs)[w] = gs.hp[w]
    BY <1>1, <1>2, <1>8
  <2> QED
    BY <2>1, <1>1, <1>5 DEF Fatal
<1>11. r = 5 => left = 0
  BY <1>3, <1>5, <1>7, DamageIsStake DEF SatSubU8
<1> QED
  BY <1>1, <1>2, <1>5, <1>8, <1>9, <1>10, <1>11

LEMMA AfterRoundInv ==
    ASSUME NEW gs, GameInv(gs), gs.phase = "ReadyToResolve", ~Fatal(gs)
    PROVE  GameInv(AfterRound(gs))
<1> DEFINE reset == Reset(gs, "AwaitingInitialDeal")
           new   == AfterRound(gs)
           w     == RoundWinner(gs)
           l     == Other(w)
           left  == Match!Hurt(gs.hp[l], gs.round_number)
           r     == gs.round_number
<1>1. /\ reset \in GameStates
      /\ \A c \in Color : HandOK(reset, c)
      /\ TurnOK(reset)
  BY ResetSpec DEF GameInv, NoCards
<1>2. /\ reset.winner = gs.winner
      /\ reset.phase = "AwaitingInitialDeal"
  BY DEF GameInv, Reset, GameStates
<1> HIDE DEF reset
<1>3. /\ w \in Color
      /\ r \in 1..4
      /\ gs.hp[w] \in 1..20 /\ gs.hp[l] \in 1..20
      /\ HpAfter(gs) = [gs.hp EXCEPT ![l] = left]
      /\ left \in U8
      /\ left = gs.hp[l] - Damage(r) /\ left # 0
  <2> HIDE DEF left
  <2>1. /\ w \in Color
        /\ r \in 1..5 /\ (r = 5 => Fatal(gs))
        /\ gs.hp[w] \in 1..20 /\ gs.hp[l] \in 1..20
        /\ HpAfter(gs) = [gs.hp EXCEPT ![l] = left]
        /\ left \in U8 /\ (left > 0 => left = gs.hp[l] - Damage(r))
        /\ Fatal(gs) <=> left = 0
    BY HpAfterSpec DEF left
  <2>2. left > 0
    BY <2>1 DEF U8
  <2> QED
    BY <2>1, <2>2
<1> HIDE DEF left
<1>4. HpAfter(gs) \in [Color -> U8]
  BY <1>3 DEF GameInv, GameStates
<1>5. new = [reset EXCEPT !.hp = HpAfter(gs), !.round_number = r + 1]
  BY DEF AfterRound, reset
<1>6. /\ new \in GameStates
      /\ new.hand = reset.hand
      /\ new.stayed = reset.stayed
      /\ new.phase = reset.phase
      /\ new.active_player = reset.active_player
      /\ new.winner = reset.winner
      /\ new.hp = HpAfter(gs)
      /\ new.round_number = r + 1
  <2>1. r + 1 \in U8
    BY <1>3 DEF U8
  <2> QED
    BY <2>1, <1>1, <1>4, <1>5 DEF GameStates
<1> HIDE DEF new
<1>7. (\A c \in Color : HandOK(new, c)) /\ TurnOK(new)
  BY <1>1, <1>6 DEF HandOK, TurnOK
<1>8. /\ new.hp[w] = gs.hp[w] /\ new.hp[l] = left
      /\ \/ w = "Red" /\ l = "Blue"
         \/ w = "Blue" /\ l = "Red"
  BY <1>3, <1>6 DEF GameInv, GameStates, Color, Other
<1>9. EndOK(new)
  <2>1. gs.winner = "None"
    BY DEF GameInv, EndOK
  <2>2. \A c \in Color : new.hp[c] # 0
    BY <1>3, <1>8 DEF Color
  <2> QED
    BY <2>1, <2>2, <1>2, <1>6 DEF EndOK
<1>10. StakesOK(new)
  <2>1. gs.hp["Red"] + gs.hp["Blue"] = 20 - Match!DealtBefore(r)
    BY DEF GameInv, EndOK, StakesOK
  <2>2. Match!DealtBefore(r + 1) = Match!DealtBefore(r) + Damage(r)
    BY <1>3, DamageIsStake
  <2>3. Match!DealtBefore(r) \in Int /\ Damage(r) \in Int
    BY <1>3 DEF Match!DealtBefore, Damage
  <2>4. new.hp["Red"] + new.hp["Blue"] = 20 - Match!DealtBefore(r + 1)
    <3> HIDE DEF w, l, r
    <3>1. new.hp["Red"] + new.hp["Blue"]
            = (gs.hp["Red"] + gs.hp["Blue"]) - Damage(r)
      <4>1. CASE w = "Red" /\ l = "Blue"
        BY <4>1, <2>3, <1>3, <1>8
      <4>2. CASE w = "Blue" /\ l = "Red"
        BY <4>2, <2>3, <1>3, <1>8
      <4> QED
        BY <4>1, <4>2, <1>8
    <3> QED
      BY <3>1, <2>1, <2>2, <2>3
  <2> QED
    BY <2>4, <1>3, <1>6 DEF StakesOK
<1>11. GameInv(new)
  BY <1>6, <1>7, <1>9, <1>10 DEF GameInv
<1> QED
  BY <1>11 DEF new

LEMMA AfterFatalInv ==
    ASSUME NEW gs, GameInv(gs), gs.phase = "ReadyToResolve", Fatal(gs)
    PROVE  GameInv(AfterFatal(gs))
<1> DEFINE new == AfterFatal(gs)
<1>1. RoundWinner(gs) \in Color
  BY HpAfterSpec
<1>2. HpAfter(gs) \in [Color -> U8]
  BY HpAfterSpec DEF GameInv, GameStates
<1>3. /\ new \in GameStates
      /\ new.hand = gs.hand
      /\ new.phase = "Ended"
      /\ new.hp = HpAfter(gs)
      /\ new.winner = RoundWinner(gs)
  BY <1>1, <1>2 DEF GameInv, AfterFatal, GameStates, GamePhase
<1> HIDE DEF new
<1>4. new.winner # "None"
  BY <1>1, <1>3 DEF Color
<1>5. \A c \in Color : HandOK(new, c)
  BY <1>3 DEF GameInv, HandOK, NoCards, Moving
<1>6. EndOK(new)
  BY <1>3, <1>4 DEF EndOK, Fatal
<1>7. TurnOK(new) /\ StakesOK(new)
  BY <1>3, <1>4 DEF TurnOK, StakesOK, Moving
<1>8. GameInv(new)
  BY <1>3, <1>5, <1>6, <1>7 DEF GameInv
<1> QED
  BY <1>8 DEF new

LEMMA UnlockedInv ==
    ASSUME NEW gs, GameInv(gs)
    PROVE  GameInv([gs EXCEPT !.upgrade_locked = FALSE])
<1> DEFINE new == [gs EXCEPT !.upgrade_locked = FALSE]
<1>1. /\ new \in GameStates
      /\ new.hand = gs.hand
      /\ new.stayed = gs.stayed
      /\ new.phase = gs.phase
      /\ new.active_player = gs.active_player
      /\ new.hp = gs.hp
      /\ new.winner = gs.winner
      /\ new.round_number = gs.round_number
  BY DEF GameInv, GameStates
<1> HIDE DEF new
<1>2. GameInv(new)
  BY <1>1 DEF GameInv, HandOK, TurnOK, EndOK, StakesOK
<1> QED
  BY <1>2 DEF new

-----------------------------------------------------------------------------
(* The accounts together.                                                  *)

Inv == /\ TypeOK
       /\ \A g \in Playing : GameInv(games[g])
       /\ RollOnRecord
       /\ RegistryKeepsCount

LEMMA InitInv == Init => Inv
<1> SUFFICES ASSUME Init PROVE Inv
  OBVIOUS
<1>1. TypeOK
  BY DEF Init, TypeOK, RandStates
<1>2. Playing = {}
  BY DEF Init, Playing, Exists
<1>3. RollOnRecord
  BY DEF Init, RollOnRecord, Exists
<1>4. RegistryKeepsCount
  BY <1>2 DEF Init, RegistryKeepsCount
<1> QED
  BY <1>1, <1>2, <1>3, <1>4 DEF Inv

\* What every instruction on one game does to the accounts.
LEMMA GameStepInv ==
    ASSUME Inv,
           NEW g \in Playing,
           NEW new, GameInv(new),
           NEW req \in VRFRequests \cup {NoAccount}, RollOK(new, req),
           games' = [games EXCEPT ![g] = new],
           vrf' = [vrf EXCEPT ![g] = req],
           rand' = rand,
           \/ registry' = registry /\ new.phase # "Ended"
           \/ registry' = registry /\ games[g].phase = "Ended"
           \/ /\ registry # NoAccount
              /\ registry' = [registry EXCEPT !.game_active = FALSE]
    PROVE  Inv'
<1>1. /\ new \in GameStates /\ new # NoAccount
      /\ g \in GameIds
  BY NoAccountAssumption DEF GameInv, Playing
<1>2. TypeOK'
  BY <1>1 DEF Inv, TypeOK, Registries
<1>3. Playing' = Playing
  BY <1>1 DEF Inv, TypeOK, Playing, Exists
<1>4. \A h \in Playing' : GameInv(games'[h])
  BY <1>1, <1>3 DEF Inv, TypeOK, Playing
<1>5. RollOnRecord'
  BY <1>1 DEF Inv, TypeOK, RollOnRecord, Exists
<1>6. RegistryKeepsCount'
  <2>1. CASE /\ registry' = registry
             /\ new.phase # "Ended" \/ games[g].phase = "Ended"
    <3>1. \A h \in Playing : InProgress(h) => InProgress(h)'
      BY <1>1, <2>1 DEF Inv, TypeOK, Playing, InProgress, Exists
    <3>2. registry # NoAccount =>
            (registry.game_active => /\ registry.current_game_id \in Playing
                                     /\ InProgress(registry.current_game_id)')
      BY <2>1, <3>1 DEF Inv, RegistryKeepsCount, InProgress, Exists
    <3> QED
      BY <1>3, <2>1, <3>2 DEF Inv, RegistryKeepsCount
  <2>2. CASE /\ registry # NoAccount
             /\ registry' = [registry EXCEPT !.game_active = FALSE]
    <3>1. /\ registry' # NoAccount
          /\ registry'.game_count = registry.game_count
          /\ registry'.current_game_id = registry.current_game_id
          /\ registry'.game_active = FALSE
      BY <2>2, NoAccountAssumption DEF Inv, TypeOK, Registries
    <3> QED
      BY <1>3, <2>2, <3>1 DEF Inv, RegistryKeepsCount
  <2> QED
    BY <2>1, <2>2
<1> QED
  BY <1>2, <1>4, <1>5, <1>6 DEF Inv

LEMMA RequestVrfInv ==
    ASSUME Inv, NEW g \in GameIds, NEW roll \in RollTypes, NEW agent,
           NEW a \in RandAccounts, RequestVrf(g, roll, agent, a)
    PROVE  Inv'
<1> DEFINE gs  == games[g]
           new == Requested(gs, roll)
           req == [sb_account     |-> a,
                   commit_current |-> TRUE,
                   player         |-> gs.active_player,
                   roll_type      |-> roll]
<1>1. g \in Playing /\ GameInv(gs) /\ MayRequest(gs, roll, agent)
  BY DEF RequestVrf, Inv, Playing, Exists
<1>2. GameInv(new)
  BY <1>1, RequestedInv
<1>3. req \in VRFRequests
  BY <1>1 DEF VRFRequests, GameInv, GameStates
<1>4. RollOK(new, req)
  BY <1>1, <1>3, NoAccountAssumption
     DEF RollOK, Requested, GameInv, GameStates
<1>5. new.phase # "Ended"
  BY <1>1 DEF Requested, PendingPhase, GameInv, GameStates
<1> QED
  <2> HIDE DEF new, req
  <2>1. /\ games' = [games EXCEPT ![g] = new]
        /\ vrf' = [vrf EXCEPT ![g] = req]
        /\ registry' = registry
        /\ rand' = rand
    BY DEF RequestVrf, new, req
  <2> QED
    BY <2>1, <1>1, <1>2, <1>3, <1>4, <1>5, GameStepInv

LEMMA FulfillVrfInv ==
    ASSUME Inv, NEW g \in GameIds, NEW crank, NEW a \in RandAccounts,
           NEW b0 \in Bytes, NEW b1 \in Bytes, FulfillVrf(g, crank, a, b0, b1)
    PROVE  Inv'
<1> DEFINE gs   == games[g]
           roll == vrf[g].roll_type
           new  == Fulfilled(gs, roll, b0, b1)
<1>1. /\ g \in Playing
      /\ GameInv(gs)
      /\ vrf[g] \in VRFRequests
      /\ RollOK(gs, vrf[g])
  BY DEF FulfillVrf, Inv, Playing, Exists, TypeOK, RollOnRecord
<1>2. roll \in RollTypes /\ gs.phase = PendingPhase(roll)
  BY <1>1 DEF RollOK, VRFRequests, FulfillVrf
<1>3. b0 \in U8 /\ b1 \in U8
  BY BytesAssumption
<1>4. GameInv(new)
  BY <1>1, <1>2, <1>3, FulfilledInv
<1>5. /\ new.pending = FALSE
      /\ new.phase \in {"AwaitingAction", "AwaitingFinalRevealVRF",
                        "ReadyToResolve"}
  <2> HIDE DEF gs, roll
  <2>1. CASE roll = 0
    <3>1. new = AfterDeal(gs, b0, b1)
      BY <2>1 DEF Fulfilled
    <3> QED
      BY <3>1, <1>1 DEF AfterDeal, GameInv, GameStates
  <2>2. CASE roll = 1
    <3>1. new = AfterHit(gs, b0)
      BY <2>2 DEF Fulfilled
    <3> HIDE DEF new
    <3> QED
      BY <3>1, <1>1 DEF AfterHit, GameInv, GameStates
  <2>3. CASE roll \notin {0, 1}
    <3>1. new = AfterReveal(gs, b0, b1)
      BY <2>3 DEF Fulfilled
    <3> QED
      BY <3>1, <1>1 DEF AfterReveal, GameInv, GameStates
  <2> QED
    BY <2>1, <2>2, <2>3
<1> HIDE DEF new
<1>6. RollOK(new, NoAccount)
  BY <1>5 DEF RollOK
<1>7. /\ games' = [games EXCEPT ![g] = new]
      /\ vrf' = [vrf EXCEPT ![g] = NoAccount]
      /\ registry' = registry
      /\ rand' = rand
  BY DEF FulfillVrf, new
<1> QED
  BY <1>1, <1>4, <1>5, <1>6, <1>7, GameStepInv

\* The game instructions that leave the roll alone.
LEMMA QuietStepInv ==
    ASSUME Inv, NEW g \in Playing, NEW new, GameInv(new),
           RollOK(new, vrf[g]),
           games' = [games EXCEPT ![g] = new],
           vrf' = vrf,
           rand' = rand,
           \/ registry' = registry /\ new.phase # "Ended"
           \/ registry' = registry /\ games[g].phase = "Ended"
           \/ /\ registry # NoAccount
              /\ registry' = [registry EXCEPT !.game_active = FALSE]
    PROVE  Inv'
<1>1. /\ vrf[g] \in VRFRequests \cup {NoAccount}
      /\ vrf' = [vrf EXCEPT ![g] = vrf[g]]
  BY DEF Inv, TypeOK, Playing
<1> QED
  BY <1>1, GameStepInv

LEMMA StayInv ==
    ASSUME Inv, NEW g \in GameIds, NEW player \in Color, NEW agent,
           Stay(g, player, agent)
    PROVE  Inv'
<1> DEFINE gs  == games[g]
           new == Stayed(gs, player)
<1>1. /\ g \in Playing
      /\ GameInv(gs)
      /\ RollOK(gs, vrf[g])
      /\ gs.phase = "AwaitingAction"
      /\ ~gs.stayed[player]
  BY DEF Stay, Inv, Playing, Exists, RollOnRecord
<1>2. GameInv(new)
  BY <1>1, StayedInv
<1>3. /\ new.pending = gs.pending
      /\ new.phase \in {"AwaitingAction", "AwaitingFinalRevealVRF"}
  BY <1>1 DEF Stayed, GameInv, GameStates
<1>4. vrf[g] = NoAccount /\ ~gs.pending
  <2>1. gs.pending => gs.phase = PendingPhase(vrf[g].roll_type)
    BY <1>1 DEF RollOK
  <2>2. gs.pending => vrf[g].roll_type \in RollTypes
    BY <1>1 DEF RollOK, Inv, TypeOK, VRFRequests
  <2> QED
    BY <2>1, <2>2, <1>1 DEF PendingPhase, RollOK
<1> HIDE DEF new
<1>5. RollOK(new, vrf[g])
  BY <1>3, <1>4 DEF RollOK
<1>6. /\ games' = [games EXCEPT ![g] = new]
      /\ vrf' = vrf
      /\ rand' = rand
      /\ registry' = registry
  BY DEF Stay, new
<1> QED
  BY <1>1, <1>2, <1>3, <1>5, <1>6, QuietStepInv

LEMMA ResolveRoundInv ==
    ASSUME Inv, NEW g \in GameIds, NEW crank, ResolveRound(g, crank)
    PROVE  Inv'
<1> DEFINE gs == games[g]
<1>1. /\ g \in Playing
      /\ GameInv(gs)
      /\ RollOK(gs, vrf[g])
      /\ gs.phase = "ReadyToResolve"
      /\ registry # NoAccount
  BY DEF ResolveRound, ResolveTie, ResolveSurvived, ResolveFatal,
         MayResolve, Inv, Playing, Exists, RollOnRecord
<1>2. vrf[g] = NoAccount /\ gs.pending = FALSE
  <2>1. gs.pending => gs.phase = PendingPhase(vrf[g].roll_type)
    BY <1>1 DEF RollOK
  <2>2. gs.pending \in BOOLEAN
    BY <1>1 DEF GameInv, GameStates
  <2> QED
    BY <2>1, <2>2, <1>1 DEF PendingPhase, RollOK
<1>3. CASE ResolveTie(g, crank)
  <2> DEFINE new == AfterTie(gs)
  <2>1. GameInv(new)
    BY <1>1, AfterTieInv
  <2>2. new.pending = FALSE /\ new.phase = "AwaitingTiebreakerVRF"
    BY <1>1 DEF AfterTie, Reset, GameInv, GameStates
  <2> HIDE DEF new
  <2>3. RollOK(new, vrf[g])
    BY <1>2, <2>2 DEF RollOK
  <2>4. /\ games' = [games EXCEPT ![g] = new]
        /\ vrf' = vrf
        /\ rand' = rand
        /\ registry' = registry
    BY <1>3 DEF ResolveTie, new
  <2> QED
    BY <1>1, <2>1, <2>2, <2>3, <2>4, QuietStepInv
<1>4. CASE ResolveSurvived(g, crank)
  <2> DEFINE new == AfterRound(gs)
  <2>1. GameInv(new)
    BY <1>1, <1>4, AfterRoundInv DEF ResolveSurvived
  <2>2. new.pending = FALSE /\ new.phase = "AwaitingInitialDeal"
    BY <1>1, <1>2 DEF AfterRound, Reset, GameInv, GameStates
  <2> HIDE DEF new
  <2>3. RollOK(new, vrf[g])
    BY <1>2, <2>2 DEF RollOK
  <2>4. /\ games' = [games EXCEPT ![g] = new]
        /\ vrf' = vrf
        /\ rand' = rand
        /\ registry' = registry
    BY <1>4 DEF ResolveSurvived, new
  <2> QED
    BY <1>1, <2>1, <2>2, <2>3, <2>4, QuietStepInv
<1>5. CASE ResolveFatal(g, crank)
  <2> DEFINE new == AfterFatal(gs)
  <2>1. GameInv(new)
    BY <1>1, <1>5, AfterFatalInv DEF ResolveFatal
  <2>2. new.pending = FALSE /\ new.phase = "Ended"
    BY <1>1, <1>2 DEF AfterFatal, GameInv, GameStates
  <2> HIDE DEF new
  <2>3. RollOK(new, vrf[g])
    BY <1>2, <2>2 DEF RollOK
  <2>4. /\ games' = [games EXCEPT ![g] = new]
        /\ vrf' = vrf
        /\ rand' = rand
        /\ registry' = [registry EXCEPT !.game_active = FALSE]
    BY <1>5 DEF ResolveFatal, new
  <2> QED
    BY <1>1, <2>1, <2>3, <2>4, QuietStepInv
<1> QED
  BY <1>3, <1>4, <1>5 DEF ResolveRound

LEMMA UnlockUpgradeInv ==
    ASSUME Inv, NEW g \in GameIds, NEW authority, UnlockUpgrade(g, authority)
    PROVE  Inv'
<1> DEFINE gs  == games[g]
           new == [gs EXCEPT !.upgrade_locked = FALSE]
<1>1. g \in Playing /\ GameInv(gs) /\ RollOK(gs, vrf[g])
  BY DEF UnlockUpgrade, Inv, Playing, Exists, RollOnRecord
<1>2. GameInv(new)
  BY <1>1, UnlockedInv
<1>3. /\ new.pending = gs.pending
      /\ new.phase = gs.phase
      /\ new.active_player = gs.active_player
  BY <1>1 DEF GameInv, GameStates
<1>4. RollOK(new, vrf[g])
  BY <1>1, <1>3 DEF RollOK
<1>5. games' = [games EXCEPT ![g] = new]
  BY <1>1 DEF UnlockUpgrade, Inv, TypeOK
<1>6. vrf' = vrf /\ rand' = rand /\ registry' = registry
  BY DEF UnlockUpgrade
<1> HIDE DEF new
<1> QED
  BY <1>1, <1>2, <1>3, <1>4, <1>5, <1>6, QuietStepInv

LEMMA RegistryStepInv ==
    ASSUME Inv, RegistryStep
    PROVE  Inv'
<1> USE NoAccountAssumption
<1>1. ASSUME NEW k \in Keys, NEW d \in Cooldowns, InitializeRegistry(k, d)
      PROVE  Inv'
  <2>1. /\ registry = NoAccount
        /\ registry' \in Registries
        /\ registry'.game_count = 0
        /\ registry'.current_game_id = 0
        /\ registry'.game_active = FALSE
        /\ games' = games /\ vrf' = vrf /\ rand' = rand
    BY <1>1, GameIdAssumption DEF InitializeRegistry, Registries
  <2>2. Playing = {} /\ Playing' = {}
    BY <2>1 DEF Inv, RegistryKeepsCount, Playing, Exists
  <2>3. TypeOK'
    BY <2>1 DEF Inv, TypeOK
  <2>4. RollOnRecord'
    BY <2>1 DEF Inv, RollOnRecord, Exists
  <2>5. RegistryKeepsCount'
    BY <2>1, <2>2 DEF RegistryKeepsCount
  <2> QED
    BY <2>2, <2>3, <2>4, <2>5 DEF Inv
<1>2. ASSUME NEW k \in Keys, NEW d \in Cooldowns, UpdateCooldown(k, d)
      PROVE  Inv'
  <2>1. /\ registry \in Registries
        /\ registry' \in Registries
        /\ registry'.game_count = registry.game_count
        /\ registry'.current_game_id = registry.current_game_id
        /\ registry'.game_active = registry.game_active
        /\ games' = games /\ vrf' = vrf /\ rand' = rand
    BY <1>2 DEF UpdateCooldown, Registries, Inv, TypeOK
  <2>2. Playing' = Playing
    BY <2>1 DEF Playing, Exists
  <2>3. TypeOK'
    BY <2>1 DEF Inv, TypeOK
  <2>4. RollOnRecord'
    BY <2>1 DEF Inv, RollOnRecord, Exists
  <2>5. RegistryKeepsCount'
    BY <2>1, <2>2 DEF Inv, RegistryKeepsCount, InProgress, Exists
  <2>6. \A g \in Playing' : GameInv(games'[g])
    BY <2>1, <2>2 DEF Inv
  <2> QED
    BY <2>3, <2>4, <2>5, <2>6 DEF Inv
<1>3. ASSUME NEW k \in Keys, NEW m \in Matchups, InitGame(k, m[1], m[2])
      PROVE  Inv'
  <2> DEFINE new == registry.game_count + 1
             gs  == NewGame(m[1], m[2])
  <2>1. /\ registry \in Registries
        /\ new \in GameIds /\ new \in 1..MaxGameId
        /\ games[new] = NoAccount
    BY <1>3, GameIdAssumption DEF InitGame, Inv, TypeOK, Registries, GameIds
  <2>2. GameInv(gs)
    BY MatchupAssumption, NewGameInv
  <2>3. /\ gs.pending = FALSE
        /\ gs.phase = "AwaitingInitialDeal"
        /\ gs \in GameStates /\ gs # NoAccount
    BY <2>2 DEF NewGame, GameInv
  <2> HIDE DEF gs
  <2>4. /\ registry' \in Registries /\ registry' # NoAccount
        /\ registry'.game_count = new
        /\ registry'.current_game_id = new
        /\ games' = [games EXCEPT ![new] = gs]
        /\ vrf' = vrf /\ rand' = rand
    <3>1. registry' = [registry EXCEPT !.game_count      = new,
                                       !.current_game_id = new,
                                       !.game_active     = TRUE]
      BY <1>3 DEF InitGame
    <3>2. /\ games' = [games EXCEPT ![new] = gs]
          /\ vrf' = vrf /\ rand' = rand
      BY <1>3 DEF InitGame, gs
    <3> HIDE DEF new
    <3>3. new \in 0..MaxGameId
      BY <2>1, GameIdAssumption
    <3>4. registry' \in Registries
      BY <3>1, <3>3, <2>1 DEF Registries
    <3>5. registry'.game_count = new /\ registry'.current_game_id = new
      BY <3>1, <2>1 DEF Registries
    <3> QED
      BY <3>2, <3>4, <3>5
  <2>5. Playing = 1..registry.game_count
    BY <2>1 DEF Inv, RegistryKeepsCount
  <2>6. Playing' = Playing \cup {new}
    BY <2>1, <2>3, <2>4 DEF Inv, TypeOK, Playing, Exists
  <2>7. Playing' = 1..new
    BY <2>1, <2>5, <2>6 DEF Registries
  <2>8. TypeOK'
    BY <2>1, <2>3, <2>4 DEF Inv, TypeOK
  <2>9. \A g \in Playing' : GameInv(games'[g])
    BY <2>1, <2>2, <2>4, <2>6 DEF Inv, TypeOK, Playing
  <2>10. RollOnRecord'
    <3>1. vrf[new] = NoAccount
      BY <2>1 DEF Inv, RollOnRecord, Exists
    <3>2. RollOK(gs, NoAccount)
      BY <2>3 DEF RollOK
    <3> QED
      BY <2>1, <2>4, <3>1, <3>2 DEF Inv, TypeOK, RollOnRecord, Exists
  <2>11. RegistryKeepsCount'
    <3>1. games'[new].phase # "Ended" /\ games'[new] # NoAccount
      BY <2>1, <2>3, <2>4 DEF Inv, TypeOK
    <3>2. new \in Playing'
      BY <2>6
    <3> HIDE DEF new
    <3> QED
      BY <2>4, <2>7, <3>1, <3>2
         DEF RegistryKeepsCount, InProgress, Exists
  <2> QED
    BY <2>8, <2>9, <2>10, <2>11 DEF Inv
<1> QED
  BY <1>1, <1>2, <1>3 DEF RegistryStep

LEMMA EnvironmentInv ==
    ASSUME Inv, Environment
    PROVE  Inv'
<1>1. registry' = registry /\ games' = games
  BY DEF Environment, Tick, AccountChanges
<1>2. rand' \in [RandAccounts -> RandStates]
  <2>1. CASE Tick
    BY <2>1 DEF Tick, RandStates
  <2>2. ASSUME NEW a \in RandAccounts, AccountChanges(a)
        PROVE  rand' \in [RandAccounts -> RandStates]
    BY <2>2 DEF AccountChanges, Inv, TypeOK
  <2> QED
    BY <2>1, <2>2 DEF Environment
<1> DEFINE Aged == \A g \in GameIds :
                      \/ vrf'[g] = vrf[g]
                      \/ /\ vrf[g] # NoAccount
                         /\ vrf'[g] # NoAccount
                         /\ vrf'[g].roll_type = vrf[g].roll_type
                         /\ vrf'[g].player = vrf[g].player
<1>3. vrf' \in [GameIds -> VRFRequests \cup {NoAccount}] /\ Aged
  <2>1. CASE vrf' = vrf
    BY <2>1 DEF Inv, TypeOK
  <2>2. ASSUME NEW a \in RandAccounts, AccountChanges(a)
        PROVE  vrf' \in [GameIds -> VRFRequests \cup {NoAccount}] /\ Aged
    <3>1. PICK kept \in SUBSET PendingOn(a) :
              vrf' = [g \in GameIds |->
                        IF g \in PendingOn(a)
                        THEN [vrf[g] EXCEPT !.commit_current = g \in kept]
                        ELSE vrf[g]]
      BY <2>2 DEF AccountChanges
    <3>2. ASSUME NEW g \in GameIds
          PROVE  /\ vrf'[g] \in VRFRequests \cup {NoAccount}
                 /\ \/ vrf'[g] = vrf[g]
                    \/ /\ vrf[g] # NoAccount
                       /\ vrf'[g] # NoAccount
                       /\ vrf'[g].roll_type = vrf[g].roll_type
                       /\ vrf'[g].player = vrf[g].player
      <4>1. vrf[g] \in VRFRequests \cup {NoAccount}
        BY DEF Inv, TypeOK
      <4>2. CASE g \in PendingOn(a)
        <5>1. vrf[g] # NoAccount /\ vrf[g] \in VRFRequests
          BY <4>1, <4>2 DEF PendingOn
        <5>2. (g \in kept) \in BOOLEAN
          OBVIOUS
        <5>3. vrf'[g] = [vrf[g] EXCEPT !.commit_current = g \in kept]
          BY <3>1, <4>2
        <5>4. /\ vrf'[g] \in VRFRequests
              /\ vrf'[g].roll_type = vrf[g].roll_type
              /\ vrf'[g].player = vrf[g].player
          BY <5>1, <5>2, <5>3 DEF VRFRequests
        <5> QED
          BY <5>1, <5>4, NoAccountAssumption
      <4>3. CASE g \notin PendingOn(a)
        BY <3>1, <4>1, <4>3
      <4> QED
        BY <4>2, <4>3
    <3> QED
      BY <3>1, <3>2
  <2> QED
    BY <2>1, <2>2 DEF Environment, Tick
<1>4. TypeOK'
  BY <1>1, <1>2, <1>3 DEF Inv, TypeOK
<1>5. Playing' = Playing
  BY <1>1 DEF Playing, Exists
<1>6. RollOnRecord'
  BY <1>1, <1>3 DEF Inv, RollOnRecord, RollOK, Exists
<1>7. RegistryKeepsCount'
  BY <1>1, <1>5 DEF Inv, RegistryKeepsCount, InProgress, Exists
<1> QED
  BY <1>1, <1>4, <1>5, <1>6, <1>7 DEF Inv

LEMMA NextInv == Inv /\ [Next]_vars => Inv'
<1> SUFFICES ASSUME Inv, [Next]_vars
             PROVE  Inv'
  OBVIOUS
<1>1. CASE RegistryStep
  BY <1>1, RegistryStepInv
<1>2. ASSUME NEW g \in GameIds, GameStep(g)
      PROVE  Inv'
  BY <1>2, RequestVrfInv, FulfillVrfInv, StayInv, ResolveRoundInv,
     UnlockUpgradeInv DEF GameStep, PlayStep
<1>3. CASE Environment
  BY <1>3, EnvironmentInv
<1>4. CASE UNCHANGED vars
  BY <1>4 DEF vars, Inv, TypeOK, RollOnRecord, RegistryKeepsCount,
              Playing, Exists, InProgress
<1> QED
  BY <1>1, <1>2, <1>3, <1>4 DEF Next

\* Inv is an inductive invariant of the game engine.
THEOREM Invariance == Spec => []Inv
  BY InitInv, NextInv, PTL DEF Spec

-----------------------------------------------------------------------------
(* The invariants.                                                         *)

\* The accounts always have their types: no counter leaves its byte.
THEOREM TypeCorrect == Spec => []TypeOK
<1>1. Inv => TypeOK
  BY DEF Inv
<1> QED
  BY <1>1, Invariance, PTL

\* The two records of a pending roll always agree.
THEOREM RollsAgree == Spec => []RollOnRecord
<1>1. Inv => RollOnRecord
  BY DEF Inv
<1> QED
  BY <1>1, Invariance, PTL

\* The hands of every phase are within the rules, whatever bytes are drawn.
THEOREM HandsWithinRules == Spec => []HandsInPlay
<1>1. Inv => HandsInPlay
  BY DEF Inv, HandsInPlay, GameInv
<1> QED
  BY <1>1, Invariance, PTL

\* The turn is always with a player who can still move.
THEOREM TurnStaysOpen == Spec => []TurnIsOpen
<1>1. Inv => TurnIsOpen
  BY DEF Inv, TurnIsOpen, GameInv
<1> QED
  BY <1>1, Invariance, PTL

\* The hit points of an open match account for its rounds, of which there are
\* at most five.
THEOREM StakesAlwaysAddUp == Spec => []StakesAddUp
<1>1. Inv => StakesAddUp
  <2> SUFFICES ASSUME Inv, NEW g \in GameIds, Standings[g].winner = "None"
               PROVE  /\ Standings[g].round \in 1..5
                      /\ Standings[g].hp["Red"] + Standings[g].hp["Blue"]
                           = 20 - Match!DealtBefore(Standings[g].round)
    BY DEF StakesAddUp, Match!StakesAddUp
  <2>1. CASE ~Exists(g)
    BY <2>1 DEF Standings, Opening, Match!DealtBefore, Color
  <2>2. CASE Exists(g)
    <3>1. StakesOK(games[g])
      BY <2>2 DEF Inv, GameInv, Playing
    <3> QED
      BY <3>1, <2>2 DEF StakesOK, Standings, Standing
  <2> QED
    BY <2>1, <2>2
<1> QED
  BY <1>1, Invariance, PTL

\* A match is over exactly when it is won.
THEOREM EndedMatchesAreWon == Spec => []EndedMeansWon
<1>1. Inv => EndedMeansWon
  BY DEF Inv, EndedMeansWon, GameInv
<1> QED
  BY <1>1, Invariance, PTL

\* The registry counts the games, and its active game is in progress.
THEOREM RegistryIsRight == Spec => []RegistryKeepsCount
<1>1. Inv => RegistryKeepsCount
  BY DEF Inv
<1> QED
  BY <1>1, Invariance, PTL

-----------------------------------------------------------------------------
(* The refinement of Duel.                                                 *)

\* A step that keeps the hit points, round and winner of every game, or
\* creates a game, is a stutter of Duel.
LEMMA SameStanding ==
    ASSUME Inv, NEW g \in Playing, NEW new \in GameStates,
           games' = [games EXCEPT ![g] = new],
           Standing(new) = Standing(games[g])
    PROVE  Standings' = Standings
<1>1. new # NoAccount /\ g \in GameIds /\ Exists(g)
  BY NoAccountAssumption DEF Playing
<1>2. \A h \in GameIds : Standings'[h] = Standings[h]
  BY <1>1 DEF Inv, TypeOK, Standings, Exists, Standing
<1> QED
  BY <1>2 DEF Standings

LEMMA HandlersKeepStanding ==
    ASSUME NEW gs \in GameStates
    PROVE  /\ \A roll : Standing(Requested(gs, roll)) = Standing(gs)
           /\ \A roll, b0, b1 :
                Standing(Fulfilled(gs, roll, b0, b1)) = Standing(gs)
           /\ \A c : Standing(Stayed(gs, c)) = Standing(gs)
           /\ Standing(AfterTie(gs)) = Standing(gs)
           /\ Standing([gs EXCEPT !.upgrade_locked = FALSE]) = Standing(gs)
<1>1. ASSUME NEW roll
      PROVE  Standing(Requested(gs, roll)) = Standing(gs)
  BY DEF Requested, Standing, GameStates
<1>2. ASSUME NEW roll, NEW b0, NEW b1
      PROVE  Standing(Fulfilled(gs, roll, b0, b1)) = Standing(gs)
  <2>1. Standing(AfterDeal(gs, b0, b1)) = Standing(gs)
    BY DEF AfterDeal, Standing, GameStates
  <2>2. Standing(AfterHit(gs, b0)) = Standing(gs)
    BY DEF AfterHit, Standing, GameStates
  <2>3. Standing(AfterReveal(gs, b0, b1)) = Standing(gs)
    BY DEF AfterReveal, Standing, GameStates
  <2>4. \/ Fulfilled(gs, roll, b0, b1) = AfterDeal(gs, b0, b1)
        \/ Fulfilled(gs, roll, b0, b1) = AfterHit(gs, b0)
        \/ Fulfilled(gs, roll, b0, b1) = AfterReveal(gs, b0, b1)
    BY DEF Fulfilled
  <2> QED
    BY <2>1, <2>2, <2>3, <2>4
<1>3. ASSUME NEW c
      PROVE  Standing(Stayed(gs, c)) = Standing(gs)
  BY DEF Stayed, Standing, GameStates
<1>4. Standing(AfterTie(gs)) = Standing(gs)
  BY DEF AfterTie, Reset, Standing, GameStates
<1>5. Standing([gs EXCEPT !.upgrade_locked = FALSE]) = Standing(gs)
  BY DEF Standing, GameStates
<1> QED
  BY <1>1, <1>2, <1>3, <1>4, <1>5

\* The winner and the loser's remaining hit points in the terms of Duel.
LEMMA ResolveSpec ==
    ASSUME Inv, NEW g \in Playing, games[g].phase = "ReadyToResolve"
    PROVE  LET gs   == games[g]
               w    == RoundWinner(gs)
               left == Match!Hurt(Standings[g].hp[Match!Other(w)],
                                  Standings[g].round)
           IN  /\ w \in Match!Color
               /\ Standings[g] = Standing(gs)
               /\ Standings[g].winner = "None"
               /\ HpAfter(gs) = [gs.hp EXCEPT ![Match!Other(w)] = left]
               /\ left \in Nat
               /\ Fatal(gs) <=> left = 0
<1> DEFINE gs == games[g]
<1>1. GameInv(gs) /\ g \in GameIds /\ Exists(g)
  BY DEF Inv, Playing
<1>2. Standings[g] = Standing(gs)
  BY <1>1 DEF Standings
<1>3. Standings[g].winner = "None"
  BY <1>1, <1>2 DEF Standing, GameInv, EndOK
<1>4. /\ Standings[g].hp = gs.hp
      /\ Standings[g].round = gs.round_number
  BY <1>2 DEF Standing
<1>5. /\ RoundWinner(gs) \in Match!Color
      /\ Match!Other(RoundWinner(gs)) = Other(RoundWinner(gs))
  BY DEF RoundWinner, Match!Color, Match!Other, Other
<1> QED
  BY <1>1, <1>2, <1>3, <1>4, <1>5, HpAfterSpec DEF U8

LEMMA SurvivedIsWinRound ==
    ASSUME Inv, NEW g \in GameIds, NEW crank, ResolveSurvived(g, crank)
    PROVE  Match!Next
<1> DEFINE gs   == games[g]
           w    == RoundWinner(gs)
           l    == Match!Other(w)
           left == Match!Hurt(Standings[g].hp[l], Standings[g].round)
           new  == AfterRound(gs)
           abs  == [Standings EXCEPT
                      ![g] = [hp     |-> [Standings[g].hp EXCEPT ![l] = left],
                              round  |-> Standings[g].round + 1,
                              winner |-> "None"]]
<1>1. /\ g \in Playing
      /\ gs.phase = "ReadyToResolve"
      /\ ~Fatal(gs)
      /\ games' = [games EXCEPT ![g] = new]
  BY DEF ResolveSurvived, MayResolve, Playing, Exists
<1>2. gs \in GameStates /\ GameInv(new) /\ new # NoAccount
  BY <1>1, AfterRoundInv, NoAccountAssumption DEF Inv, GameInv
<1>3. /\ w \in Match!Color
      /\ Standings[g] = Standing(gs)
      /\ Standings[g].winner = "None"
      /\ HpAfter(gs) = [gs.hp EXCEPT ![l] = left]
      /\ left > 0
  <2> HIDE DEF left
  <2>1. /\ w \in Match!Color
        /\ Standings[g] = Standing(gs)
        /\ Standings[g].winner = "None"
        /\ HpAfter(gs) = [gs.hp EXCEPT ![l] = left]
        /\ left \in Nat
        /\ Fatal(gs) <=> left = 0
    BY <1>1, ResolveSpec DEF left
  <2> QED
    BY <2>1, <1>1
<1> HIDE DEF left, l, w
<1>4. /\ new.hp = HpAfter(gs)
      /\ new.round_number = gs.round_number + 1
      /\ new.winner = gs.winner
  BY <1>2 DEF AfterRound, Reset, GameStates
<1> HIDE DEF new
<1>5. Standings' = abs
  <2>1. Standings'[g] = abs[g]
    <3>1. Standings'[g] = Standing(new)
      BY <1>1, <1>2 DEF Standings, Exists, Inv, TypeOK, Playing
    <3>2. abs[g] = [hp     |-> [gs.hp EXCEPT ![l] = left],
                    round  |-> gs.round_number + 1,
                    winner |-> gs.winner]
      BY <1>3 DEF Standing, Standings
    <3> QED
      BY <3>1, <3>2, <1>3, <1>4 DEF Standing
  <2>2. \A h \in GameIds : h # g => Standings'[h] = abs[h]
    BY <1>1 DEF Standings, Exists, Inv, TypeOK
  <2>3. DOMAIN Standings' = GameIds /\ DOMAIN abs = GameIds
    BY DEF Standings
  <2> QED
    BY <2>1, <2>2, <2>3 DEF Standings
<1>6. Match!WinRound(g, w)
  BY <1>3, <1>5 DEF Match!WinRound, left, l
<1> QED
  BY <1>3, <1>6 DEF Match!Next

LEMMA FatalIsWinMatch ==
    ASSUME Inv, NEW g \in GameIds, NEW crank, ResolveFatal(g, crank)
    PROVE  Match!Next
<1> DEFINE gs   == games[g]
           w    == RoundWinner(gs)
           l    == Match!Other(w)
           left == Match!Hurt(Standings[g].hp[l], Standings[g].round)
           new  == AfterFatal(gs)
           abs  == [Standings EXCEPT
                      ![g] = [hp     |-> [Standings[g].hp EXCEPT ![l] = 0],
                              round  |-> Standings[g].round,
                              winner |-> w]]
<1>1. /\ g \in Playing
      /\ gs.phase = "ReadyToResolve"
      /\ Fatal(gs)
      /\ games' = [games EXCEPT ![g] = new]
  BY DEF ResolveFatal, MayResolve, Playing, Exists
<1>2. gs \in GameStates /\ GameInv(new) /\ new # NoAccount
  BY <1>1, AfterFatalInv, NoAccountAssumption DEF Inv, GameInv
<1>3. /\ w \in Match!Color
      /\ Standings[g] = Standing(gs)
      /\ Standings[g].winner = "None"
      /\ HpAfter(gs) = [gs.hp EXCEPT ![l] = left]
      /\ left = 0
  BY <1>1, ResolveSpec
<1> HIDE DEF left, l
<1>4. /\ new.hp = HpAfter(gs)
      /\ new.round_number = gs.round_number
      /\ new.winner = w
  BY <1>2 DEF AfterFatal, GameStates
<1> HIDE DEF new, w
<1>5. Standings' = abs
  <2>1. Standings'[g] = abs[g]
    <3>1. Standings'[g] = Standing(new)
      BY <1>1, <1>2 DEF Standings, Exists, Inv, TypeOK, Playing
    <3>2. abs[g] = [hp     |-> [gs.hp EXCEPT ![l] = 0],
                    round  |-> gs.round_number,
                    winner |-> w]
      BY <1>3 DEF Standing, Standings
    <3> QED
      BY <3>1, <3>2, <1>3, <1>4 DEF Standing
  <2>2. \A h \in GameIds : h # g => Standings'[h] = abs[h]
    BY <1>1 DEF Standings, Exists, Inv, TypeOK
  <2>3. DOMAIN Standings' = GameIds /\ DOMAIN abs = GameIds
    BY DEF Standings
  <2> QED
    BY <2>1, <2>2, <2>3 DEF Standings
<1>6. Match!WinMatch(g, w)
  BY <1>3, <1>5 DEF Match!WinMatch, left, l
<1> QED
  BY <1>3, <1>6 DEF Match!Next

LEMMA GameStepRefines ==
    ASSUME Inv, NEW g \in GameIds, GameStep(g)
    PROVE  [Match!Next]_Standings
<1> DEFINE gs == games[g]
<1> USE DEF GameInv
<1>1. ASSUME NEW k \in Keys, NEW roll \in RollTypes, NEW a \in RandAccounts,
             RequestVrf(g, roll, k, a)
      PROVE  Standings' = Standings
  <2>1. g \in Playing /\ gs \in GameStates /\ MayRequest(gs, roll, k)
    BY <1>1 DEF RequestVrf, Inv, Playing, Exists
  <2>2. Requested(gs, roll) \in GameStates
    BY <2>1, RequestedInv DEF Inv
  <2> QED
    BY <1>1, <2>1, <2>2, HandlersKeepStanding, SameStanding DEF RequestVrf
<1>2. ASSUME NEW k \in Keys, NEW a \in RandAccounts,
             NEW b0 \in Bytes, NEW b1 \in Bytes, FulfillVrf(g, k, a, b0, b1)
      PROVE  Standings' = Standings
  <2> DEFINE new == Fulfilled(gs, vrf[g].roll_type, b0, b1)
  <2>1. g \in Playing /\ gs \in GameStates
    BY <1>2 DEF FulfillVrf, Inv, Playing, Exists
  <2>2. games' = [games EXCEPT ![g] = new]
    BY <1>2 DEF FulfillVrf
  <2>3. Standing(new) = Standing(gs)
    <3>1. \A roll, x, y : Standing(Fulfilled(gs, roll, x, y)) = Standing(gs)
      BY <2>1, HandlersKeepStanding
    <3> QED
      BY <3>1
  <2>4. new \in GameStates
    <3>1. RollOK(gs, vrf[g]) /\ vrf[g] \in VRFRequests /\ vrf[g] # NoAccount
      BY <1>2, <2>1 DEF FulfillVrf, Inv, TypeOK, RollOnRecord, Playing
    <3>2. /\ vrf[g].roll_type \in RollTypes
          /\ gs.phase = PendingPhase(vrf[g].roll_type)
      BY <3>1 DEF RollOK, VRFRequests
    <3> QED
      BY <2>1, <3>2, BytesAssumption, FulfilledInv DEF Inv
  <2> HIDE DEF new
  <2> QED
    BY <2>1, <2>2, <2>3, <2>4, SameStanding
<1>3. ASSUME NEW k \in Keys, NEW c \in Color, Stay(g, c, k)
      PROVE  Standings' = Standings
  <2>1. /\ g \in Playing /\ gs \in GameStates
        /\ gs.phase = "AwaitingAction" /\ ~gs.stayed[c]
    BY <1>3 DEF Stay, Inv, Playing, Exists
  <2>2. Stayed(gs, c) \in GameStates
    BY <2>1, StayedInv DEF Inv
  <2> QED
    BY <1>3, <2>1, <2>2, HandlersKeepStanding, SameStanding DEF Stay
<1>4. ASSUME NEW k \in Keys, ResolveRound(g, k)
      PROVE  [Match!Next]_Standings
  <2>1. CASE ResolveTie(g, k)
    <3>1. g \in Playing /\ gs \in GameStates /\ gs.phase = "ReadyToResolve"
      BY <2>1 DEF ResolveTie, MayResolve, Inv, Playing, Exists
    <3>2. AfterTie(gs) \in GameStates
      BY <3>1, AfterTieInv DEF Inv
    <3> QED
      BY <2>1, <3>1, <3>2, HandlersKeepStanding, SameStanding DEF ResolveTie
  <2>2. CASE ResolveSurvived(g, k)
    BY <2>2, SurvivedIsWinRound
  <2>3. CASE ResolveFatal(g, k)
    BY <2>3, FatalIsWinMatch
  <2> QED
    BY <1>4, <2>1, <2>2, <2>3 DEF ResolveRound
<1>5. ASSUME NEW k \in Keys, UnlockUpgrade(g, k)
      PROVE  Standings' = Standings
  <2> DEFINE new == [gs EXCEPT !.upgrade_locked = FALSE]
  <2>1. g \in Playing /\ GameInv(gs)
    BY <1>5 DEF UnlockUpgrade, Inv, Playing, Exists
  <2>2. new \in GameStates
    BY <2>1, UnlockedInv
  <2>3. games' = [games EXCEPT ![g] = new]
    BY <2>1, <1>5 DEF UnlockUpgrade, Inv, TypeOK
  <2>4. Standing(new) = Standing(gs)
    BY <2>1, HandlersKeepStanding
  <2> HIDE DEF new
  <2> QED
    BY <2>1, <2>2, <2>3, <2>4, SameStanding
<1> QED
  BY <1>1, <1>2, <1>3, <1>4, <1>5 DEF GameStep, PlayStep

LEMMA NewGameRefines ==
    ASSUME Inv, RegistryStep
    PROVE  Standings' = Standings
<1>1. ASSUME NEW k \in Keys, NEW m \in Matchups, InitGame(k, m[1], m[2])
      PROVE  Standings' = Standings
  <2> DEFINE id == registry.game_count + 1
             gs == NewGame(m[1], m[2])
  <2>1. /\ games' = [games EXCEPT ![id] = gs]
        /\ games[id] = NoAccount
    BY <1>1 DEF InitGame
  <2>2. GameInv(gs)
    BY MatchupAssumption, NewGameInv
  <2>3. Standing(gs) = Opening
    BY DEF Standing, NewGame, Opening
  <2>4. \A h \in GameIds : Standings'[h] = Standings[h]
    <3> HIDE DEF gs, id
    <3> QED
      BY <2>1, <2>2, <2>3, NoAccountAssumption
         DEF Inv, TypeOK, Standings, Exists, GameInv
  <2> QED
    BY <2>4 DEF Standings
<1>2. CASE games' = games
  BY <1>2 DEF Standings, Exists
<1> QED
  BY <1>1, <1>2 DEF RegistryStep, InitializeRegistry, UpdateCooldown

\* Every behaviour of the game engine plays its matches as Duel allows.
THEOREM Refinement == Spec => PlaysDuels
<1>1. Init => Match!Init
  BY DEF Init, Match!Init, Standings, Exists, Opening, Match!Opening,
         Color, Match!Color
<1>2. Inv /\ [Next]_vars => [Match!Next]_Standings
  <2> SUFFICES ASSUME Inv, [Next]_vars
               PROVE  [Match!Next]_Standings
    OBVIOUS
  <2>1. CASE RegistryStep
    BY <2>1, NewGameRefines
  <2>2. ASSUME NEW g \in GameIds, GameStep(g)
        PROVE  [Match!Next]_Standings
    BY <2>2, GameStepRefines
  <2>3. CASE games' = games
    BY <2>3 DEF Standings, Exists
  <2> QED
    BY <2>1, <2>2, <2>3 DEF Next, Environment, Tick, AccountChanges, vars
<1> QED
  BY <1>1, <1>2, Invariance, PTL DEF Spec, PlaysDuels, Match!Spec

=============================================================================
