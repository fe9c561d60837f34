--------------------------- MODULE GameStepProofs ---------------------------
(***************************************************************************)
(* The action properties of GameProperties, from the invariant of          *)
(* GameEngineProofs.                                                       *)
(***************************************************************************)
EXTENDS GameEngineProofs

\* A game whose roll is pending is in none of the phases in which a player
\* moves or the crank resolves.
LEMMA PendingPhases ==
    ASSUME Inv, NEW g \in GameIds, vrf[g] # NoAccount
    PROVE  /\ g \in Playing
           /\ games[g].phase \notin {"AwaitingAction", "ReadyToResolve"}
<1>1. g \in Playing /\ RollOK(games[g], vrf[g]) /\ vrf[g] \in VRFRequests
  BY DEF Inv, TypeOK, RollOnRecord, Playing
<1>2. games[g].phase = PendingPhase(vrf[g].roll_type)
  BY <1>1 DEF RollOK
<1> QED
  BY <1>1, <1>2 DEF PendingPhase

\* An instruction on one game touches no account of another.
LEMMA OtherGamesStand ==
    ASSUME Inv, NEW h \in GameIds, GameStep(h), NEW g \in GameIds, g # h
    PROVE  games'[g] = games[g] /\ vrf'[g] = vrf[g]
<1>1. games \in [GameIds -> GameStates \cup {NoAccount}]
  BY DEF Inv, TypeOK
<1>2. vrf \in [GameIds -> VRFRequests \cup {NoAccount}]
  BY DEF Inv, TypeOK
<1>3. ASSUME NEW k \in Keys, NEW roll \in RollTypes, NEW a \in RandAccounts,
             RequestVrf(h, roll, k, a)
      PROVE  games'[g] = games[g] /\ vrf'[g] = vrf[g]
  BY <1>1, <1>2, <1>3 DEF RequestVrf
<1>4. ASSUME NEW k \in Keys, NEW a \in RandAccounts,
             NEW b0 \in Bytes, NEW b1 \in Bytes, FulfillVrf(h, k, a, b0, b1)
      PROVE  games'[g] = games[g] /\ vrf'[g] = vrf[g]
  BY <1>1, <1>2, <1>4 DEF FulfillVrf
<1>5. ASSUME NEW k \in Keys, NEW c \in Color, Stay(h, c, k)
      PROVE  games'[g] = games[g] /\ vrf'[g] = vrf[g]
  BY <1>1, <1>5 DEF Stay
<1>6. ASSUME NEW k \in Keys, ResolveRound(h, k)
      PROVE  games'[g] = games[g] /\ vrf'[g] = vrf[g]
  BY <1>1, <1>6 DEF ResolveRound, ResolveTie, ResolveSurvived, ResolveFatal
<1>7. ASSUME NEW k \in Keys, UnlockUpgrade(h, k)
      PROVE  games'[g] = games[g] /\ vrf'[g] = vrf[g]
  BY <1>1, <1>7 DEF UnlockUpgrade
<1> QED
  BY <1>3, <1>4, <1>5, <1>6, <1>7 DEF GameStep, PlayStep

\* Steps that are not instructions on a game leave every hand alone, create
\* only new games, and change no more of a request than whether its account
\* shows its seed.
LEMMA OtherSteps ==
    ASSUME Inv, RegistryStep \/ Environment \/ UNCHANGED vars,
           NEW g \in GameIds, Exists(g)
    PROVE  /\ games'[g] = games[g]
           /\ \/ vrf'[g] = vrf[g]
              \/ /\ vrf[g] # NoAccount
                 /\ \E shown \in BOOLEAN :
                        vrf'[g] = [vrf[g] EXCEPT !.commit_current = shown]
<1>1. games \in [GameIds -> GameStates \cup {NoAccount}]
  BY DEF Inv, TypeOK
<1>2. CASE RegistryStep
  BY <1>1, <1>2 DEF RegistryStep, InitializeRegistry, UpdateCooldown,
                    InitGame, Exists
<1>3. CASE Environment
  <2>1. CASE Tick
    BY <1>3, <2>1 DEF Tick
  <2>2. ASSUME NEW a \in RandAccounts, AccountChanges(a)
        PROVE  /\ games'[g] = games[g]
               /\ \/ vrf'[g] = vrf[g]
                  \/ /\ vrf[g] # NoAccount
                     /\ \E shown \in BOOLEAN :
                            vrf'[g] = [vrf[g] EXCEPT !.commit_current = shown]
    <3>1. PICK kept \in SUBSET PendingOn(a) :
              vrf' = [h \in GameIds |->
                        IF h \in PendingOn(a)
                        THEN [vrf[h] EXCEPT !.commit_current = h \in kept]
                        ELSE vrf[h]]
      BY <2>2 DEF AccountChanges
    <3>2. CASE g \in PendingOn(a)
      <4>1. vrf'[g] = [vrf[g] EXCEPT !.commit_current = g \in kept]
        BY <3>1, <3>2
      <4>2. (g \in kept) \in BOOLEAN
        OBVIOUS
      <4> QED
        BY <2>2, <3>2, <4>1, <4>2 DEF AccountChanges, PendingOn
    <3>3. CASE g \notin PendingOn(a)
      BY <2>2, <3>1, <3>3 DEF AccountChanges
    <3> QED
      BY <3>2, <3>3
  <2> QED
    BY <1>3, <2>1, <2>2 DEF Environment
<1>4. CASE UNCHANGED vars
  BY <1>4 DEF vars
<1> QED
  BY <1>2, <1>3, <1>4

-----------------------------------------------------------------------------

\* While a roll is pending nothing that it depends on can be changed.
THEOREM NothingMovesDuringARoll == Spec => PlayStopsForTheRoll
<1> DEFINE Stop(g) ==
      vrf[g] # NoAccount /\ vrf'[g] # NoAccount =>
          /\ games'[g] = [games[g] EXCEPT
                            !.upgrade_locked = games'[g].upgrade_locked]
          /\ vrf'[g] = [vrf[g] EXCEPT
                          !.commit_current = vrf'[g].commit_current]
<1>1. ASSUME Inv, [Next]_vars, NEW g \in GameIds
      PROVE  Stop(g)
  <2> SUFFICES ASSUME vrf[g] # NoAccount, vrf'[g] # NoAccount
               PROVE  Stop(g)
    OBVIOUS
  <2>1. /\ g \in Playing /\ Exists(g)
        /\ games[g] \in GameStates
        /\ vrf[g] \in VRFRequests
        /\ games[g].phase \notin {"AwaitingAction", "ReadyToResolve"}
    BY <1>1, PendingPhases DEF Inv, TypeOK, Playing, GameInv
  <2>2. ASSUME games'[g] = games[g], vrf'[g] = vrf[g]
        PROVE  Stop(g)
    BY <2>1, <2>2 DEF GameStates, VRFRequests
  <2>3. CASE GameStep(g)
    <3>1. ASSUME NEW k \in Keys, UnlockUpgrade(g, k)
          PROVE  Stop(g)
      <4>1. games'[g] = [games[g] EXCEPT !.upgrade_locked = FALSE]
        BY <1>1, <3>1 DEF UnlockUpgrade, Inv, TypeOK
      <4>2. vrf'[g] = vrf[g]
        BY <3>1 DEF UnlockUpgrade
      <4> QED
        BY <4>1, <4>2, <2>1 DEF GameStates, VRFRequests
    <3>2. ~\E k \in Keys, roll \in RollTypes, a \in RandAccounts :
              RequestVrf(g, roll, k, a)
      BY DEF RequestVrf
    <3>3. ~\E k \in Keys, a \in RandAccounts, b0, b1 \in Bytes :
              FulfillVrf(g, k, a, b0, b1)
      BY <1>1 DEF FulfillVrf, Inv, TypeOK
    <3>4. ~\E k \in Keys : (\E c \in Color : Stay(g, c, k)) \/ ResolveRound(g, k)
      BY <2>1 DEF Stay, ResolveRound, ResolveTie, ResolveSurvived,
                  ResolveFatal, MayResolve
    <3> QED
      BY <2>3, <3>1, <3>2, <3>3, <3>4 DEF GameStep, PlayStep
  <2>4. ASSUME NEW h \in GameIds, h # g, GameStep(h)
        PROVE  Stop(g)
    BY <1>1, <2>2, <2>4, OtherGamesStand
  <2>5. CASE RegistryStep \/ Environment \/ UNCHANGED vars
    <3>1. /\ games'[g] = games[g]
          /\ \/ vrf'[g] = vrf[g]
             \/ \E shown \in BOOLEAN :
                    vrf'[g] = [vrf[g] EXCEPT !.commit_current = shown]
      BY <1>1, <2>1, <2>5, OtherSteps
    <3> QED
      BY <2>1, <3>1 DEF GameStates, VRFRequests
  <2> QED
    BY <1>1, <2>3, <2>4, <2>5 DEF Next
<1>2. Inv /\ [Next]_vars => \A g \in GameIds : Stop(g)
  BY <1>1
<1>3. Spec => [][\A g \in GameIds : Stop(g)]_vars
  BY <1>2, Invariance, PTL DEF Spec
<1> QED
  BY <1>3 DEF PlayStopsForTheRoll

\* The hand of a player who has stayed is out of reach until the reveal.
THEOREM StayedHandsAreKept == Spec => StayedHandsStand
<1> DEFINE Kept(g, c) ==
      /\ Exists(g)
      /\ games[g].phase \in Moving
      /\ games[g].stayed[c]
      => /\ games'[g].hand[c] = games[g].hand[c]
         /\ games'[g].stayed[c]
<1>1. ASSUME Inv, [Next]_vars, NEW g \in GameIds, NEW c \in Color
      PROVE  Kept(g, c)
  <2> SUFFICES ASSUME Exists(g), games[g].phase \in Moving, games[g].stayed[c]
               PROVE  /\ games'[g].hand[c] = games[g].hand[c]
                      /\ games'[g].stayed[c]
    OBVIOUS
  <2> DEFINE gs == games[g]
  <2>1. /\ g \in Playing
        /\ gs \in GameStates
        /\ c # gs.active_player
    BY <1>1 DEF Inv, Playing, GameInv, TurnOK
  <2>2. CASE games'[g] = games[g]
    BY <2>2
  <2>3. ASSUME NEW k \in Keys, NEW roll \in RollTypes, NEW a \in RandAccounts,
               RequestVrf(g, roll, k, a)
        PROVE  Kept(g, c)
    <3>1. games'[g] = Requested(gs, roll)
      BY <1>1, <2>3 DEF RequestVrf, Inv, TypeOK
    <3> QED
      BY <3>1, <2>1 DEF Requested, GameStates
  <2>4. ASSUME NEW k \in Keys, NEW a \in RandAccounts,
               NEW b0 \in Bytes, NEW b1 \in Bytes, FulfillVrf(g, k, a, b0, b1)
        PROVE  Kept(g, c)
    <3>1. /\ RollOK(gs, vrf[g])
          /\ vrf[g] \in VRFRequests /\ vrf[g] # NoAccount
      BY <1>1, <2>4, <2>1
         DEF FulfillVrf, Inv, TypeOK, RollOnRecord, Playing
    <3>2. vrf[g].roll_type = 1
      BY <3>1 DEF RollOK, PendingPhase, Moving, VRFRequests, RollTypes
    <3>3. games'[g] = AfterHit(gs, b0)
      BY <1>1, <2>4, <3>2 DEF FulfillVrf, Fulfilled, Inv, TypeOK
    <3> QED
      BY <3>3, <2>1 DEF AfterHit, GameStates
  <2>5. ASSUME NEW k \in Keys, NEW player \in Color, Stay(g, player, k)
        PROVE  Kept(g, c)
    <3>1. games'[g] = Stayed(gs, player)
      BY <1>1, <2>5 DEF Stay, Inv, TypeOK
    <3> QED
      BY <3>1, <2>1 DEF Stayed, GameStates
  <2>6. ASSUME NEW k \in Keys, ResolveRound(g, k)
        PROVE  Kept(g, c)
    BY <2>6 DEF ResolveRound, ResolveTie, ResolveSurvived, ResolveFatal,
                MayResolve, Moving
  <2>7. ASSUME NEW k \in Keys, UnlockUpgrade(g, k)
        PROVE  Kept(g, c)
    <3>1. games'[g] = [gs EXCEPT !.upgrade_locked = FALSE]
      BY <1>1, <2>7 DEF UnlockUpgrade, Inv, TypeOK
    <3> QED
      BY <3>1, <2>1 DEF GameStates
  <2>8. CASE GameStep(g)
    BY <2>3, <2>4, <2>5, <2>6, <2>7, <2>8 DEF GameStep, PlayStep
  <2>9. ASSUME NEW h \in GameIds, h # g, GameStep(h)
        PROVE  Kept(g, c)
    BY <1>1, <2>2, <2>9, OtherGamesStand
  <2>10. CASE RegistryStep \/ Environment \/ UNCHANGED vars
    BY <1>1, <2>2, <2>10, OtherSteps
  <2> QED
    BY <1>1, <2>8, <2>9, <2>10 DEF Next
<1>2. Inv /\ [Next]_vars => \A g \in GameIds, c \in Color : Kept(g, c)
  BY <1>1
<1>3. Spec => [][\A g \in GameIds, c \in Color : Kept(g, c)]_vars
  BY <1>2, Invariance, PTL DEF Spec
<1> QED
  BY <1>3 DEF StayedHandsStand

\* No instruction lets go of a pending roll, and none deals a card, unless the
\* account of the roll shows its seed and the value.
THEOREM RollsAreCommitted == Spec => OnlyTheCommittedSeedAnswers
<1> DEFINE Committed(g, c) ==
      Exists(g) /\ games'[g].hand[c] \notin {games[g].hand[c], EmptyHand} =>
          vrf[g] # NoAccount /\ Answerable(g) /\ vrf'[g] = NoAccount
<1> DEFINE Held(g) ==
      vrf[g] # NoAccount /\ ~Answerable(g) => vrf'[g] # NoAccount
<1> DEFINE Both(g) ==
      /\ vrf[g] # NoAccount /\ ~Answerable(g) => vrf'[g] # NoAccount
      /\ Exists(g) /\ Dealt(g) =>
           /\ vrf[g] # NoAccount
           /\ Answerable(g)
           /\ vrf'[g] = NoAccount
<1>1. ASSUME Inv, [Next]_vars, NEW g \in GameIds, NEW c \in Color
      PROVE  Committed(g, c)
  <2> SUFFICES ASSUME Exists(g)
               PROVE  Committed(g, c)
    OBVIOUS
  <2> DEFINE gs == games[g]
  <2>1. g \in Playing /\ gs \in GameStates
    BY <1>1 DEF Inv, Playing, GameInv
  <2>2. CASE games'[g].hand = gs.hand
    BY <2>2
  <2>3. ASSUME NEW k \in Keys, NEW roll \in RollTypes, NEW a \in RandAccounts,
               RequestVrf(g, roll, k, a)
        PROVE  Committed(g, c)
    <3>1. games'[g] = Requested(gs, roll)
      BY <1>1, <2>3 DEF RequestVrf, Inv, TypeOK
    <3> QED
      BY <3>1, <2>1 DEF Requested, GameStates
  <2>4. ASSUME NEW k \in Keys, NEW a \in RandAccounts,
               NEW b0 \in Bytes, NEW b1 \in Bytes, FulfillVrf(g, k, a, b0, b1)
        PROVE  Committed(g, c)
    BY <1>1, <2>4 DEF FulfillVrf, Answerable, Inv, TypeOK
  <2>5. ASSUME NEW k \in Keys, NEW player \in Color, Stay(g, player, k)
        PROVE  Committed(g, c)
    <3>1. games'[g] = Stayed(gs, player)
      BY <1>1, <2>5 DEF Stay, Inv, TypeOK
    <3> QED
      BY <3>1, <2>1 DEF Stayed, GameStates
  <2>6. ASSUME NEW k \in Keys, ResolveRound(g, k)
        PROVE  Committed(g, c)
    <3>1. CASE games'[g] = AfterTie(gs)
      BY <3>1, <2>1 DEF AfterTie, Reset, GameStates
    <3>2. CASE games'[g] = AfterRound(gs)
      BY <3>2, <2>1 DEF AfterRound, Reset, GameStates
    <3>3. CASE games'[g] = AfterFatal(gs)
      BY <3>3, <2>1 DEF AfterFatal, GameStates
    <3> QED
      BY <1>1, <2>6, <3>1, <3>2, <3>3
         DEF ResolveRound, ResolveTie, ResolveSurvived, ResolveFatal,
             Inv, TypeOK
  <2>7. ASSUME NEW k \in Keys, UnlockUpgrade(g, k)
        PROVE  Committed(g, c)
    <3>1. games'[g] = [gs EXCEPT !.upgrade_locked = FALSE]
      BY <1>1, <2>7 DEF UnlockUpgrade, Inv, TypeOK
    <3> QED
      BY <3>1, <2>1 DEF GameStates
  <2>8. CASE GameStep(g)
    BY <2>3, <2>4, <2>5, <2>6, <2>7, <2>8 DEF GameStep, PlayStep
  <2>9. ASSUME NEW h \in GameIds, h # g, GameStep(h)
        PROVE  Committed(g, c)
    BY <1>1, <2>9, OtherGamesStand
  <2>10. CASE RegistryStep \/ Environment \/ UNCHANGED vars
    BY <1>1, <2>10, OtherSteps
  <2> QED
    BY <1>1, <2>8, <2>9, <2>10 DEF Next
<1>2. ASSUME Inv, [Next]_vars, NEW g \in GameIds
      PROVE  Held(g)
  <2> SUFFICES ASSUME vrf[g] # NoAccount, ~Answerable(g)
               PROVE  vrf'[g] # NoAccount
    OBVIOUS
  <2>1. g \in Playing /\ Exists(g) /\ vrf[g] \in VRFRequests
    BY <1>2, PendingPhases DEF Inv, TypeOK, Playing
  <2>2. CASE vrf'[g] = vrf[g]
    BY <2>2
  <2>3. CASE GameStep(g)
    <3>1. ~\E k \in Keys, roll \in RollTypes, a \in RandAccounts :
              RequestVrf(g, roll, k, a)
      BY DEF RequestVrf
    <3>2. ~\E k \in Keys, a \in RandAccounts, b0, b1 \in Bytes :
              FulfillVrf(g, k, a, b0, b1)
      BY DEF FulfillVrf, Answerable
    <3> QED
      BY <2>2, <2>3, <3>1, <3>2
         DEF GameStep, PlayStep, Stay, ResolveRound, ResolveTie, ResolveSurvived,
             ResolveFatal, UnlockUpgrade
  <2>4. ASSUME NEW h \in GameIds, h # g, GameStep(h)
        PROVE  vrf'[g] # NoAccount
    BY <1>2, <2>2, <2>4, OtherGamesStand
  <2>5. CASE RegistryStep \/ Environment \/ UNCHANGED vars
    <3>1. ASSUME NEW shown \in BOOLEAN,
                 vrf'[g] = [vrf[g] EXCEPT !.commit_current = shown]
          PROVE  vrf'[g] # NoAccount
      <4>1. vrf'[g] \in VRFRequests
        BY <2>1, <3>1 DEF VRFRequests
      <4> QED
        BY <4>1, NoAccountAssumption
    <3> QED
      BY <1>2, <2>1, <2>2, <2>5, <3>1, OtherSteps
  <2> QED
    BY <1>2, <2>3, <2>4, <2>5 DEF Next
<1>3. Inv /\ [Next]_vars => \A g \in GameIds : Both(g)
  BY <1>1, <1>2 DEF Dealt
<1>4. Spec => [][\A g \in GameIds : Both(g)]_vars
  BY <1>3, Invariance, PTL DEF Spec
<1> QED
  BY <1>4 DEF OnlyTheCommittedSeedAnswers

-----------------------------------------------------------------------------
(* Progress: MovesLeft as a measure of what is left of a match.            *)

LEMMA HardTotalType == ASSUME NEW hand, Sound(hand) PROVE HardTotal(hand) \in Nat
  BY DEF HardTotal, Sound, Hands, U8

LEMMA WaitsType == ASSUME NEW gs PROVE Waits(gs) \in 0..1
  BY DEF Waits

\* A player who has not stayed can be dealt another card, and is at most 21
\* cards away from a hard total of 21; nobody else has a hit left.
LEMMA HitsLeftBounds ==
    ASSUME NEW gs, GameInv(gs), gs.phase \notin {"ReadyToResolve", "Ended"},
           NEW c \in Color
    PROVE  /\ HitsLeft(gs, c) \in 0..21
           /\ gs.phase \in Moving /\ ~gs.stayed[c] => HitsLeft(gs, c) >= 1
<1>1. /\ Sound(gs.hand[c])
      /\ HandOK(gs, c)
      /\ gs.phase \in GamePhase
  BY HandIsSound DEF GameInv, GameStates
<1>2. /\ gs.hand[c].score \in Nat
      /\ gs.hand[c].aces \in 0..1
      /\ gs.hand[c].aces = 1 => gs.hand[c].score >= 11
  BY <1>1 DEF Sound, Hands, U8
<1>3. ASSUME ~gs.stayed[c]
      PROVE  gs.hand[c].score <= 20
  <2>1. gs.phase \in NoCards \cup Moving
    BY <1>1, <1>3 DEF HandOK, GamePhase, NoCards, Moving
  <2>2. CASE gs.phase \in NoCards
    BY <2>2, <1>1 DEF HandOK, EmptyHand
  <2>3. CASE gs.phase \in Moving
    BY <2>3, <1>1, <1>3 DEF HandOK
  <2> QED
    BY <2>1, <2>2, <2>3
<1> QED
  BY <1>2, <1>3 DEF HitsLeft, HardTotal

\* 87 instructions: two hands of 21 cards, a request and an answer for each,
\* and the last three.
LEMMA LeftInRoundBounds ==
    ASSUME NEW gs, GameInv(gs), gs.phase # "Ended"
    PROVE  LeftInRound(gs) \in 1..87
<1>1. Waits(gs) \in 0..1
  BY WaitsType
<1>2. CASE gs.phase \in {"ReadyToResolve", "AwaitingTiebreakerVRF"}
  BY <1>1, <1>2 DEF LeftInRound
<1>3. CASE gs.phase \notin {"ReadyToResolve", "AwaitingTiebreakerVRF"}
  <2>1. /\ HitsLeft(gs, "Red") \in 0..21
        /\ HitsLeft(gs, "Blue") \in 0..21
    BY <1>3, HitsLeftBounds DEF Color
  <2>2. LeftInRound(gs)
          = 3 + 2 * (HitsLeft(gs, "Red") + HitsLeft(gs, "Blue")) - Waits(gs)
    BY <1>3 DEF LeftInRound
  <2> QED
    BY <1>1, <2>1, <2>2
<1> QED
  BY <1>2, <1>3

LEMMA MovesLeftBounds ==
    ASSUME NEW gs, GameInv(gs)
    PROVE  MovesLeft(gs) \in 0..435
<1>1. CASE gs.phase = "Ended"
  BY <1>1 DEF MovesLeft
<1>2. CASE gs.phase # "Ended"
  <2>1. gs.round_number \in 1..5
    BY <1>2 DEF GameInv, EndOK, StakesOK
  <2>2. LeftInRound(gs) \in 1..87
    BY <1>2, LeftInRoundBounds
  <2> QED
    BY <1>2, <2>1, <2>2 DEF MovesLeft
<1> QED
  BY <1>1, <1>2

\* Within a round it is enough to look at the round.
LEMMA NearerInRound ==
    ASSUME NEW gs, GameInv(gs), gs.phase # "Ended",
           NEW new, GameInv(new), new.phase # "Ended",
           new.round_number = gs.round_number,
           LeftInRound(new) < LeftInRound(gs)
    PROVE  MovesLeft(new) \in 0..(MovesLeft(gs) - 1)
<1>1. MovesLeft(new) \in 0..435
  BY MovesLeftBounds
<1>2. /\ LeftInRound(new) \in Int
      /\ LeftInRound(gs) \in Int
  BY LeftInRoundBounds
<1>3. gs.round_number \in Int
  BY DEF GameInv, GameStates, U8
<1>4. /\ MovesLeft(gs) = LeftInRound(gs) + 87 * (5 - gs.round_number)
      /\ MovesLeft(new) = LeftInRound(new) + 87 * (5 - gs.round_number)
  BY DEF MovesLeft
<1> QED
  BY <1>1, <1>2, <1>3, <1>4

\* request_vrf: the instruction that is no longer to come is the request.
LEMMA RequestedNearer ==
    ASSUME NEW gs, GameInv(gs), ~gs.pending, NEW roll \in RollTypes, NEW agent,
           MayRequest(gs, roll, agent)
    PROVE  MovesLeft(Requested(gs, roll)) \in 0..(MovesLeft(gs) - 1)
<1> DEFINE new == Requested(gs, roll)
<1>1. GameInv(new)
  BY RequestedInv
<1>2. /\ new.hand = gs.hand
      /\ new.stayed = gs.stayed
      /\ new.round_number = gs.round_number
      /\ new.pending = TRUE
      /\ new.phase = PendingPhase(roll)
  BY DEF GameInv, Requested, GameStates
<1>3. /\ gs.phase \notin {"ReadyToResolve", "Ended"}
      /\ new.phase \notin {"ReadyToResolve", "Ended"}
      /\ gs.phase = "AwaitingTiebreakerVRF" <=> new.phase = "AwaitingTiebreakerVRF"
  BY <1>2 DEF MayRequest, MayDeal, MayHit, MayReveal, MayBreakTie,
              PendingPhase, RollTypes
<1>4. /\ HitsLeft(new, "Red") = HitsLeft(gs, "Red")
      /\ HitsLeft(new, "Blue") = HitsLeft(gs, "Blue")
  BY <1>2 DEF HitsLeft
<1>5. Waits(gs) = 0 /\ Waits(new) = 1
  BY <1>2 DEF Waits
<1> HIDE DEF new
<1>6. /\ HitsLeft(gs, "Red") \in Int
      /\ HitsLeft(gs, "Blue") \in Int
  BY <1>3, HitsLeftBounds DEF Color
<1>7. LeftInRound(new) < LeftInRound(gs)
  BY <1>3, <1>4, <1>5, <1>6 DEF LeftInRound
<1>8. MovesLeft(new) \in 0..(MovesLeft(gs) - 1)
  BY <1>1, <1>2, <1>3, <1>7, NearerInRound
<1> QED
  BY <1>8 DEF new

\* A hand that is dealt a card has a larger hard total.
LEMMA DealtHand ==
    ASSUME NEW gs, GameInv(gs), NEW c \in Color, gs.hand[c].score <= 30,
           NEW b \in U8
    PROVE  HardTotal(ApplyCard(gs.hand[c], b)) - HardTotal(gs.hand[c]) \in 1..10
<1>1. Sound(gs.hand[c])
  BY HandIsSound
<1>2. gs.hand[c].score <= 244
  BY <1>1 DEF Sound, Hands, U8
<1> QED
  BY <1>1, <1>2, CardAddsUp DEF HardTotal

\* fulfill_vrf, the opening deal.
LEMMA AfterDealNearer ==
    ASSUME NEW gs, GameInv(gs), gs.phase = "AwaitingInitialDealVRF", gs.pending,
           NEW b0 \in U8, NEW b1 \in U8
    PROVE  MovesLeft(AfterDeal(gs, b0, b1)) \in 0..(MovesLeft(gs) - 1)
<1> DEFINE new == AfterDeal(gs, b0, b1)
<1>1. GameInv(new)
  BY AfterDealInv
<1>2. \A c \in Color : gs.hand[c] = EmptyHand /\ ~gs.stayed[c]
  BY DEF GameInv, HandOK, NoCards
<1>3. /\ new.hand = DealBoth(gs, b0, b1)
      /\ new.stayed = gs.stayed
      /\ new.round_number = gs.round_number
      /\ new.pending = FALSE
      /\ new.phase = "AwaitingAction"
  BY DEF GameInv, AfterDeal, GameStates
<1>4. \A c \in Color : HardTotal(new.hand[c]) - HardTotal(gs.hand[c]) \in 1..10
  BY <1>2, <1>3, DealtHand DEF DealBoth, EmptyHand
<1>5. \A c \in Color : HitsLeft(gs, c) = 21
  BY <1>2 DEF HitsLeft, HardTotal, EmptyHand
<1>6. \A c \in Color : HardTotal(gs.hand[c]) = 0
  BY <1>2 DEF HardTotal, EmptyHand
<1> HIDE DEF new
<1>7. \A c \in Color : HitsLeft(new, c) \in 11..20
  <2> TAKE c \in Color
  <2>1. HardTotal(new.hand[c]) \in Int
    BY <1>1, HandIsSound, HardTotalType
  <2>2. HitsLeft(new, c) = 21 - HardTotal(new.hand[c])
    BY <1>2, <1>3 DEF HitsLeft
  <2> QED
    BY <2>1, <2>2, <1>4, <1>6
<1>8. LeftInRound(gs) = 86
  <2>1. HitsLeft(gs, "Red") = 21 /\ HitsLeft(gs, "Blue") = 21
    BY <1>5 DEF Color
  <2> QED
    BY <2>1 DEF LeftInRound, Waits
<1>9. LeftInRound(new) <= 83
  <2>1. HitsLeft(new, "Red") \in 11..20 /\ HitsLeft(new, "Blue") \in 11..20
    BY <1>7 DEF Color
  <2>2. LeftInRound(new) = 3 + 2 * (HitsLeft(new, "Red") + HitsLeft(new, "Blue"))
    BY <2>1, <1>3 DEF LeftInRound, Waits
  <2> QED
    BY <2>1, <2>2
<1>10. LeftInRound(new) \in Int
  BY <1>1, <1>3, LeftInRoundBounds
<1>11. MovesLeft(new) \in 0..(MovesLeft(gs) - 1)
  BY <1>1, <1>3, <1>8, <1>9, <1>10, NearerInRound
<1> QED
  BY <1>11 DEF new

\* fulfill_vrf, a hit: the card takes at least one hit, two instructions, from
\* its player, and the answer is no longer waited for.
LEMMA AfterHitNearer ==
    ASSUME NEW gs, GameInv(gs), gs.phase = "AwaitingHitVRF", gs.pending,
           NEW b0 \in U8
    PROVE  MovesLeft(AfterHit(gs, b0)) \in 0..(MovesLeft(gs) - 1)
<1> DEFINE p      == gs.active_player
           q      == Other(p)
           drawn  == ApplyCard(gs.hand[p], b0)
           stayed == [gs.stayed EXCEPT ![p] = @ \/ drawn.score >= 21]
           new    == AfterHit(gs, b0)
<1>1. /\ p \in Color
      /\ ~gs.stayed[p]
      /\ gs.hand[p].score \in 2..20
  BY DEF GameInv, TurnOK, HandOK, Moving, NoCards, GameStates
<1>2. GameInv(new)
  BY AfterHitInv
<1>3. HardTotal(drawn) - HardTotal(gs.hand[p]) \in 1..10
  BY <1>1, DealtHand
<1>4. /\ new.hand = [gs.hand EXCEPT ![p] = drawn]
      /\ new.stayed = stayed
      /\ new.round_number = gs.round_number
      /\ new.pending = FALSE
      /\ new.phase \in {"AwaitingFinalRevealVRF", "AwaitingAction"}
  BY DEF GameInv, AfterHit, GameStates
<1>5. /\ q \in Color /\ q # p
      /\ \/ p = "Red" /\ q = "Blue"
         \/ p = "Blue" /\ q = "Red"
  BY <1>1 DEF Color, Other
<1>6. /\ new.hand[p] = drawn
      /\ new.hand[q] = gs.hand[q]
      /\ new.stayed[q] = gs.stayed[q]
  BY <1>1, <1>4, <1>5 DEF GameInv, GameStates
<1> HIDE DEF new, drawn, q
<1>7. /\ HitsLeft(gs, p) \in 1..21 /\ HitsLeft(gs, q) \in 0..21
      /\ HitsLeft(new, p) \in 0..21
  <2>1. /\ HitsLeft(gs, p) \in 0..21 /\ HitsLeft(gs, q) \in 0..21
        /\ HitsLeft(gs, p) >= 1
    BY <1>1, <1>5, HitsLeftBounds DEF Moving
  <2>2. HitsLeft(new, p) \in 0..21
    BY <1>1, <1>2, <1>4, HitsLeftBounds
  <2> QED
    BY <2>1, <2>2
<1>8. HitsLeft(new, q) = HitsLeft(gs, q)
  BY <1>6 DEF HitsLeft
<1>9. HitsLeft(new, p) <= HitsLeft(gs, p) - 1
  <2>1. CASE new.stayed[p]
    BY <2>1, <1>7 DEF HitsLeft
  <2>2. CASE ~new.stayed[p]
    <3>1. /\ HitsLeft(new, p) = 21 - HardTotal(drawn)
          /\ HitsLeft(gs, p) = 21 - HardTotal(gs.hand[p])
      BY <2>2, <1>1, <1>6 DEF HitsLeft
    <3>2. HardTotal(drawn) \in Int /\ HardTotal(gs.hand[p]) \in Int
      BY <1>1, <1>2, <1>6, HandIsSound, HardTotalType
    <3> QED
      BY <3>1, <3>2, <1>3
  <2> QED
    BY <2>1, <2>2
<1>10. /\ LeftInRound(gs) = 2 + 2 * (HitsLeft(gs, p) + HitsLeft(gs, q))
       /\ LeftInRound(new) = 3 + 2 * (HitsLeft(new, p) + HitsLeft(new, q))
  <2>1. /\ LeftInRound(gs) = 2 + 2 * (HitsLeft(gs, "Red") + HitsLeft(gs, "Blue"))
        /\ LeftInRound(new)
              = 3 + 2 * (HitsLeft(new, "Red") + HitsLeft(new, "Blue"))
    <3>1. /\ HitsLeft(gs, "Red") \in Int /\ HitsLeft(gs, "Blue") \in Int
          /\ HitsLeft(new, "Red") \in Int /\ HitsLeft(new, "Blue") \in Int
      BY <1>5, <1>7, <1>8
    <3>2. Waits(gs) = 1 /\ Waits(new) = 0
      BY <1>4 DEF Waits
    <3> QED
      BY <3>1, <3>2, <1>4 DEF LeftInRound
  <2> QED
    BY <2>1, <1>5, <1>7, <1>8
<1>11. LeftInRound(new) < LeftInRound(gs)
  BY <1>7, <1>8, <1>9, <1>10
<1>12. MovesLeft(new) \in 0..(MovesLeft(gs) - 1)
  BY <1>2, <1>4, <1>11, NearerInRound
<1> QED
  BY <1>12 DEF new

\* fulfill_vrf, the last cards: the answer is no longer waited for.
LEMMA AfterRevealNearer ==
    ASSUME NEW gs, GameInv(gs), gs.pending,
           gs.phase \in {"AwaitingFinalRevealVRF", "AwaitingTiebreakerVRF"},
           NEW b0 \in U8, NEW b1 \in U8
    PROVE  MovesLeft(AfterReveal(gs, b0, b1)) \in 0..(MovesLeft(gs) - 1)
<1> DEFINE new == AfterReveal(gs, b0, b1)
<1>1. GameInv(new)
  BY AfterRevealInv
<1>2. /\ new.round_number = gs.round_number
      /\ new.phase = "ReadyToResolve"
  BY DEF GameInv, AfterReveal, GameStates
<1> HIDE DEF new
<1>3. LeftInRound(new) = 1
  BY <1>2 DEF LeftInRound
<1>4. LeftInRound(gs) >= 2
  <2>1. CASE gs.phase = "AwaitingTiebreakerVRF"
    BY <2>1 DEF LeftInRound, Waits
  <2>2. CASE gs.phase = "AwaitingFinalRevealVRF"
    <3>1. HitsLeft(gs, "Red") = 0 /\ HitsLeft(gs, "Blue") = 0
      BY <2>2 DEF GameInv, HandOK, HitsLeft, Color
    <3> QED
      BY <3>1, <2>2 DEF LeftInRound, Waits
  <2> QED
    BY <2>1, <2>2
<1>5. LeftInRound(gs) \in Int
  BY LeftInRoundBounds
<1>6. MovesLeft(new) \in 0..(MovesLeft(gs) - 1)
  BY <1>1, <1>2, <1>3, <1>4, <1>5, NearerInRound
<1> QED
  BY <1>6 DEF new

LEMMA FulfilledNearer ==
    ASSUME NEW gs, GameInv(gs), NEW roll \in RollTypes, gs.pending,
           gs.phase = PendingPhase(roll), NEW b0 \in U8, NEW b1 \in U8
    PROVE  MovesLeft(Fulfilled(gs, roll, b0, b1)) \in 0..(MovesLeft(gs) - 1)
<1>1. CASE roll = 0
  BY <1>1, AfterDealNearer DEF Fulfilled, PendingPhase
<1>2. CASE roll = 1
  BY <1>2, AfterHitNearer DEF Fulfilled, PendingPhase
<1>3. CASE roll \notin {0, 1}
  BY <1>3, AfterRevealNearer DEF Fulfilled, PendingPhase
<1> QED
  BY <1>1, <1>2, <1>3

\* stay: a player who can still hit gives up at least one hit.
LEMMA StayedNearer ==
    ASSUME NEW gs, GameInv(gs), gs.phase = "AwaitingAction",
           NEW p \in Color, ~gs.stayed[p]
    PROVE  MovesLeft(Stayed(gs, p)) \in 0..(MovesLeft(gs) - 1)
<1> DEFINE new == Stayed(gs, p)
           q   == Other(p)
<1>1. GameInv(new)
  BY StayedInv
<1>2. /\ new.hand = gs.hand
      /\ new.stayed = [gs.stayed EXCEPT ![p] = TRUE]
      /\ new.round_number = gs.round_number
      /\ new.pending = gs.pending
      /\ new.phase \in {"AwaitingFinalRevealVRF", "AwaitingAction"}
  BY DEF GameInv, Stayed, GameStates
<1>3. /\ q \in Color /\ q # p
      /\ \/ p = "Red" /\ q = "Blue"
         \/ p = "Blue" /\ q = "Red"
  BY DEF Color, Other
<1>4. /\ new.stayed[p]
      /\ new.stayed[q] = gs.stayed[q]
  BY <1>2, <1>3 DEF GameInv, GameStates
<1> HIDE DEF new, q
<1>5. /\ HitsLeft(new, p) = 0
      /\ HitsLeft(new, q) = HitsLeft(gs, q)
      /\ Waits(new) = Waits(gs)
  BY <1>2, <1>4 DEF HitsLeft, Waits
<1>6. HitsLeft(gs, p) \in 1..21 /\ HitsLeft(gs, q) \in 0..21
  <2>1. /\ HitsLeft(gs, p) \in 0..21 /\ HitsLeft(gs, q) \in 0..21
        /\ HitsLeft(gs, p) >= 1
    BY <1>3, HitsLeftBounds DEF Moving
  <2> QED
    BY <2>1
<1>7. /\ LeftInRound(gs)
            = 3 + 2 * (HitsLeft(gs, "Red") + HitsLeft(gs, "Blue")) - Waits(gs)
      /\ LeftInRound(new)
            = 3 + 2 * (HitsLeft(new, "Red") + HitsLeft(new, "Blue")) - Waits(new)
  BY <1>2 DEF LeftInRound
<1>8. LeftInRound(new) < LeftInRound(gs)
  BY <1>3, <1>5, <1>6, <1>7, WaitsType
<1>9. MovesLeft(new) \in 0..(MovesLeft(gs) - 1)
  BY <1>1, <1>2, <1>8, NearerInRound
<1> QED
  BY <1>9 DEF new

\* resolve_round.
LEMMA AfterTieTakesBack ==
    ASSUME NEW gs, GameInv(gs), gs.phase = "ReadyToResolve"
    PROVE  MovesLeft(AfterTie(gs)) = MovesLeft(gs) + 2
<1> DEFINE new == AfterTie(gs)
<1>1. /\ new.round_number = gs.round_number
      /\ new.phase = "AwaitingTiebreakerVRF"
      /\ new.pending = FALSE
  BY DEF GameInv, AfterTie, Reset, GameStates
<1> HIDE DEF new
<1>2. LeftInRound(gs) = 1 /\ LeftInRound(new) = 3
  BY <1>1 DEF LeftInRound, Waits
<1>3. gs.round_number \in Int
  BY DEF GameInv, GameStates, U8
<1>4. MovesLeft(new) = MovesLeft(gs) + 2
  BY <1>1, <1>2, <1>3 DEF MovesLeft
<1> QED
  BY <1>4 DEF new

LEMMA AfterRoundNearer ==
    ASSUME NEW gs, GameInv(gs), gs.phase = "ReadyToResolve", ~Fatal(gs)
    PROVE  MovesLeft(AfterRound(gs)) \in 0..(MovesLeft(gs) - 1)
<1> DEFINE new == AfterRound(gs)
<1>1. GameInv(new)
  BY AfterRoundInv
<1>2. /\ new.round_number = gs.round_number + 1
      /\ new.phase = "AwaitingInitialDeal"
  BY DEF GameInv, AfterRound, Reset, GameStates
<1> HIDE DEF new
<1>3. LeftInRound(gs) = 1
  BY DEF LeftInRound
<1>4. LeftInRound(new) \in 1..87
  BY <1>1, <1>2, LeftInRoundBounds
<1>5. gs.round_number \in Int
  BY DEF GameInv, GameStates, U8
<1>6. MovesLeft(new) <= MovesLeft(gs) - 1
  BY <1>2, <1>3, <1>4, <1>5 DEF MovesLeft
<1>7. MovesLeft(new) \in 0..435 /\ MovesLeft(gs) \in 0..435
  BY <1>1, MovesLeftBounds
<1>8. MovesLeft(new) \in 0..(MovesLeft(gs) - 1)
  BY <1>6, <1>7
<1> QED
  BY <1>8 DEF new

LEMMA AfterFatalNearer ==
    ASSUME NEW gs, GameInv(gs), gs.phase = "ReadyToResolve"
    PROVE  MovesLeft(AfterFatal(gs)) \in 0..(MovesLeft(gs) - 1)
<1>1. MovesLeft(AfterFatal(gs)) = 0
  BY DEF GameInv, AfterFatal, GameStates, MovesLeft
<1>2. gs.round_number \in 1..5
  BY DEF GameInv, EndOK, StakesOK
<1>3. LeftInRound(gs) = 1
  BY DEF LeftInRound
<1>4. MovesLeft(gs) >= 1 /\ MovesLeft(gs) \in Int
  BY <1>2, <1>3 DEF MovesLeft
<1> QED
  BY <1>1, <1>4

\* A match comes nearer to its end with every step that plays it, but for the
\* three instructions that a tie gives back.
THEOREM MatchesRunDown == Spec => OnlyTiesTakeBack
<1> DEFINE Nearer(g) ==
      LET gs == games[g]
      IN  Exists(g) /\ Played(gs, games'[g]) =>
              \/ MovesLeft(games'[g]) \in 0..(MovesLeft(gs) - 1)
              \/ /\ gs.phase = "ReadyToResolve"
                 /\ Tied(gs)
                 /\ MovesLeft(games'[g]) = MovesLeft(gs) + 2
<1>1. ASSUME Inv, [Next]_vars, NEW g \in GameIds
      PROVE  Nearer(g)
  <2> SUFFICES ASSUME Exists(g)
               PROVE  Nearer(g)
    OBVIOUS
  <2> DEFINE gs == games[g]
  <2>1. /\ g \in Playing
        /\ GameInv(gs) /\ gs \in GameStates
        /\ RollOK(gs, vrf[g])
        /\ vrf[g] \in VRFRequests \cup {NoAccount}
        /\ games \in [GameIds -> GameStates \cup {NoAccount}]
    BY <1>1 DEF Inv, Playing, GameInv, TypeOK, RollOnRecord
  <2>2. ASSUME games'[g] = gs
        PROVE  Nearer(g)
    BY <2>1, <2>2 DEF Played, GameStates
  <2>3. ASSUME NEW k \in Keys, NEW roll \in RollTypes, NEW a \in RandAccounts,
               RequestVrf(g, roll, k, a)
        PROVE  Nearer(g)
    <3>1. games'[g] = Requested(gs, roll)
      BY <2>1, <2>3 DEF RequestVrf
    <3>2. ~gs.pending /\ MayRequest(gs, roll, k)
      BY <2>3 DEF RequestVrf
    <3>3. MovesLeft(games'[g]) \in 0..(MovesLeft(gs) - 1)
      BY <2>1, <3>1, <3>2, RequestedNearer
    <3> QED
      BY <3>3
  <2>4. ASSUME NEW k \in Keys, NEW a \in RandAccounts,
               NEW b0 \in Bytes, NEW b1 \in Bytes, FulfillVrf(g, k, a, b0, b1)
        PROVE  Nearer(g)
    <3>1. games'[g] = Fulfilled(gs, vrf[g].roll_type, b0, b1)
      BY <2>1, <2>4 DEF FulfillVrf
    <3>2. /\ vrf[g] \in VRFRequests
          /\ gs.pending
          /\ gs.phase = PendingPhase(vrf[g].roll_type)
      BY <2>1, <2>4 DEF FulfillVrf, RollOK
    <3>3. vrf[g].roll_type \in RollTypes /\ b0 \in U8 /\ b1 \in U8
      BY <3>2, BytesAssumption DEF VRFRequests
    <3>4. MovesLeft(games'[g]) \in 0..(MovesLeft(gs) - 1)
      BY <2>1, <3>1, <3>2, <3>3, FulfilledNearer
    <3> QED
      BY <3>4
  <2>5. ASSUME NEW k \in Keys, NEW player \in Color, Stay(g, player, k)
        PROVE  Nearer(g)
    <3>1. games'[g] = Stayed(gs, player)
      BY <2>1, <2>5 DEF Stay
    <3>2. gs.phase = "AwaitingAction" /\ ~gs.stayed[player]
      BY <2>5 DEF Stay
    <3>3. MovesLeft(games'[g]) \in 0..(MovesLeft(gs) - 1)
      BY <2>1, <3>1, <3>2, StayedNearer
    <3> QED
      BY <3>3
  <2>6. ASSUME NEW k \in Keys, ResolveRound(g, k)
        PROVE  Nearer(g)
    <3>1. gs.phase = "ReadyToResolve"
      BY <2>6 DEF ResolveRound, ResolveTie, ResolveSurvived, ResolveFatal,
                  MayResolve
    <3>2. \/ Tied(gs) /\ games'[g] = AfterTie(gs)
          \/ ~Fatal(gs) /\ games'[g] = AfterRound(gs)
          \/ games'[g] = AfterFatal(gs)
      BY <2>1, <2>6
         DEF ResolveRound, ResolveTie, ResolveSurvived, ResolveFatal
    <3>3. \/ Tied(gs) /\ MovesLeft(games'[g]) = MovesLeft(gs) + 2
          \/ MovesLeft(games'[g]) \in 0..(MovesLeft(gs) - 1)
      BY <2>1, <3>1, <3>2, AfterTieTakesBack, AfterRoundNearer, AfterFatalNearer
    <3> QED
      BY <3>1, <3>3
  <2>7. ASSUME NEW k \in Keys, UnlockUpgrade(g, k)
        PROVE  Nearer(g)
    <3>1. games'[g] = [gs EXCEPT !.upgrade_locked = FALSE]
      BY <2>1, <2>7 DEF UnlockUpgrade
    <3> QED
      BY <3>1, <2>1 DEF GameStates, Played
  <2>8. CASE GameStep(g)
    BY <2>3, <2>4, <2>5, <2>6, <2>7, <2>8 DEF GameStep, PlayStep
  <2>9. ASSUME NEW h \in GameIds, h # g, GameStep(h)
        PROVE  Nearer(g)
    BY <1>1, <2>2, <2>9, OtherGamesStand
  <2>10. CASE RegistryStep \/ Environment \/ UNCHANGED vars
    BY <1>1, <2>2, <2>10, OtherSteps
  <2> QED
    BY <1>1, <2>8, <2>9, <2>10 DEF Next
<1>2. Inv /\ [Next]_vars => \A g \in GameIds : Nearer(g)
  BY <1>1
<1>3. Spec => [][\A g \in GameIds : Nearer(g)]_vars
  BY <1>2, Invariance, PTL DEF Spec
<1> QED
  BY <1>3 DEF OnlyTiesTakeBack

\* The measure is a number of instructions, 435 at most: with MatchesRunDown,
\* a match of n ties has no more than 435 + 3 n of them, the ties included.
THEOREM MovesAreLimited ==
    Spec => [](\A g \in Playing : MovesLeft(games[g]) \in 0..435)
<1>1. Inv => \A g \in Playing : MovesLeft(games[g]) \in 0..435
  BY MovesLeftBounds DEF Inv
<1> QED
  BY <1>1, Invariance, PTL

\* A game in progress that waits for no answer is in a phase in which somebody
\* passes the checks of request_vrf or of resolve_round.
LEMMA OneWayOn ==
    ASSUME Inv, NEW g \in GameIds, InProgress(g), ~Lost(g)
    PROVE  CanRequest(g) \/ CanFulfil(g) \/ CanDecide(g)
<1> DEFINE gs == games[g]
<1>1. /\ g \in Playing
      /\ GameInv(gs) /\ gs \in GameStates
      /\ RollOK(gs, vrf[g])
      /\ gs.phase \in GamePhase \ {"Ended"}
      /\ Exists(g)
  BY DEF Inv, Playing, InProgress, GameInv, RollOnRecord, GameStates
<1>2. CASE gs.pending
  BY <1>1, <1>2 DEF RollOK, Lost, CanFulfil
<1>3. CASE ~gs.pending
  <2>1. /\ vrf[g] = NoAccount
        /\ gs.phase \in {"AwaitingInitialDeal", "AwaitingAction",
                        "AwaitingFinalRevealVRF", "ReadyToResolve",
                        "AwaitingTiebreakerVRF"}
    BY <1>1, <1>3 DEF RollOK, GamePhase
  <2>2. CASE gs.phase = "ReadyToResolve"
    <3>1. registry # NoAccount
      BY <1>1 DEF Inv, RegistryKeepsCount
    <3>2. MayResolve(g, ADMIN_PUBKEY)
      BY <2>2, <1>1, <3>1 DEF MayResolve, Exists
    <3>3. gs.round_number + 1 <= 255
      BY <1>1, <2>2 DEF GameInv, EndOK, StakesOK
    <3> QED
      BY <3>2, <3>3 DEF CanDecide
  <2>3. CASE gs.phase = "AwaitingAction"
    <3> DEFINE p == gs.active_player
    <3>1. p \in Color /\ gs.agent[p] \in Keys /\ ~gs.stayed[p]
      BY <1>1, <2>3 DEF GameStates, GameInv, TurnOK, Moving
    <3>2. gs.hand[p].score <= 21
      <4>1. gs.hand[p].score <= 20 /\ gs.hand[p].score \in 2..40
        BY <1>1, <2>3, <3>1 DEF GameInv, HandOK, Moving, NoCards
      <4> QED
        BY <4>1
    <3>3. MayRequest(gs, 1, gs.agent[p])
      BY <2>3, <3>1, <3>2 DEF MayRequest, MayHit
    <3>4. 1 \in RollTypes
      BY DEF RollTypes
    <3> QED
      BY <2>1, <1>3, <3>1, <3>3, <3>4 DEF CanRequest
  <2>4. CASE gs.phase \notin {"AwaitingAction", "ReadyToResolve"}
    <3>1. \E roll \in RollTypes : MayRequest(gs, roll, ADMIN_PUBKEY)
      BY <2>1, <2>4 DEF MayRequest, MayDeal, MayReveal, MayBreakTie, RollTypes
    <3> QED
      BY <2>1, <1>3, <3>1, KeysAssumption DEF CanRequest
  <2> QED
    BY <2>2, <2>3, <2>4
<1> QED
  BY <1>2, <1>3

\* No reachable state of a match is a dead end, unless its roll is lost.
THEOREM NoDeadEnds == Spec => []NeverStuck
<1>1. Inv => NeverStuck
  BY OneWayOn DEF NeverStuck
<1> QED
  BY <1>1, Invariance, PTL

=============================================================================
