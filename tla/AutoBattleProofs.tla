-------------------------- MODULE AutoBattleProofs --------------------------
(***************************************************************************)
(* The two programs together, for every number of keys, every list of      *)
(* accounts and every clock: a step of the whole is a step of the game     *)
(* engine and a step of each market, so that what was proved of the parts  *)
(* holds of the whole, and the parts keep in step.                         *)
(***************************************************************************)
EXTENDS AutoBattle, GameStepProofs

MainProofs == INSTANCE MarketProofs
                  WITH Keys <- Keys \cup {GamePda}, Traders <- {},
                       market <- main_market, vault <- main_vault,
                       position <- <<>>

RoundProofs == INSTANCE MarketProofs
                   WITH Keys <- Keys \cup {GamePda}, Traders <- {},
                        market <- round_market, vault <- round_vault,
                        position <- <<>>

\* What MarketProofs assumes is true of both markets.
LEMMA MainFits ==
    /\ MainProofs!LmsrAssumption /\ MainProofs!MarketAssumption
    /\ MainProofs!NoMarketAssumption /\ MainProofs!FewTraders
    /\ MainProofs!LiquidityAssumption
<1>1. MainProofs!LmsrAssumption
  BY MarketsAssumption DEF MainProofs!LmsrAssumption
<1>2. MainProofs!MarketAssumption
  BY MarketsAssumption, KeysAssumption DEF MainProofs!MarketAssumption
<1>3. MainProofs!NoMarketAssumption
  BY MarketsAssumption
     DEF MainProofs!NoMarketAssumption, MainProofs!Markets,
         MainProofs!UserPositions, MainProofs!Supplies, MainProofs!Outcome,
         Main!Markets, Main!UserPositions, Main!Supplies, Main!Outcome
<1>4. MainProofs!FewTraders
  <2>1. <<>> \in Seq({})
    OBVIOUS
  <2> QED
    BY <2>1 DEF MainProofs!FewTraders, MainProofs!IsFiniteSet
<1>5. MainProofs!LiquidityAssumption
  <2>1. \A x : MainProofs!SoftplusNeg(x) = Main!SoftplusNeg(x)
    BY DEF MainProofs!SoftplusNeg, Main!SoftplusNeg
  <2>2. \A q : MainProofs!Spread(q) = Main!Spread(q)
    BY <2>1 DEF MainProofs!Spread, Main!Spread, MainProofs!Distance, Main!Distance
  <2>3. \A q : MainProofs!Cost(q) = Main!Cost(q)
    BY <2>2 DEF MainProofs!Cost, Main!Cost, MainProofs!Larger, Main!Larger
  <2>4. MainProofs!NoShares = Main!NoShares
    BY DEF MainProofs!NoShares, Main!NoShares, MainProofs!Outcome, Main!Outcome
  <2>5. MainProofs!Shortfall = Main!Shortfall
    BY <2>3, <2>4 DEF MainProofs!Shortfall, Main!Shortfall, MainProofs!Larger, Main!Larger
  <2>6. \A q, o, n : MainProofs!With(q, o, n) = Main!With(q, o, n)
    BY DEF MainProofs!With, Main!With
  <2>7. MainProofs!LiquidityIsEnough <=> Main!LiquidityIsEnough
    BY <2>2, <2>3, <2>4, <2>5, <2>6
       DEF MainProofs!LiquidityIsEnough, Main!LiquidityIsEnough,
           MainProofs!VolumePerFee, Main!VolumePerFee
  <2> QED
    BY <2>7, MarketsAssumption DEF MainProofs!LiquidityAssumption
<1> QED
  BY <1>1, <1>2, <1>3, <1>4, <1>5

LEMMA RoundFits ==
    /\ RoundProofs!LmsrAssumption /\ RoundProofs!MarketAssumption
    /\ RoundProofs!NoMarketAssumption /\ RoundProofs!FewTraders
    /\ RoundProofs!LiquidityAssumption
<1>1. RoundProofs!LmsrAssumption
  BY MarketsAssumption DEF RoundProofs!LmsrAssumption
<1>2. RoundProofs!MarketAssumption
  BY MarketsAssumption, KeysAssumption DEF RoundProofs!MarketAssumption
<1>3. RoundProofs!NoMarketAssumption
  BY MarketsAssumption
     DEF RoundProofs!NoMarketAssumption, RoundProofs!Markets,
         RoundProofs!UserPositions, RoundProofs!Supplies, RoundProofs!Outcome,
         Main!Markets, Main!UserPositions, Main!Supplies, Main!Outcome
<1>4. RoundProofs!FewTraders
  <2>1. <<>> \in Seq({})
    OBVIOUS
  <2> QED
    BY <2>1 DEF RoundProofs!FewTraders, RoundProofs!IsFiniteSet
<1>5. RoundProofs!LiquidityAssumption
  <2>1. \A x : RoundProofs!SoftplusNeg(x) = Main!SoftplusNeg(x)
    BY DEF RoundProofs!SoftplusNeg, Main!SoftplusNeg
  <2>2. \A q : RoundProofs!Spread(q) = Main!Spread(q)
    BY <2>1 DEF RoundProofs!Spread, Main!Spread, RoundProofs!Distance, Main!Distance
  <2>3. \A q : RoundProofs!Cost(q) = Main!Cost(q)
    BY <2>2 DEF RoundProofs!Cost, Main!Cost, RoundProofs!Larger, Main!Larger
  <2>4. RoundProofs!NoShares = Main!NoShares
    BY DEF RoundProofs!NoShares, Main!NoShares, RoundProofs!Outcome, Main!Outcome
  <2>5. RoundProofs!Shortfall = Main!Shortfall
    BY <2>3, <2>4 DEF RoundProofs!Shortfall, Main!Shortfall, RoundProofs!Larger, Main!Larger
  <2>6. \A q, o, n : RoundProofs!With(q, o, n) = Main!With(q, o, n)
    BY DEF RoundProofs!With, Main!With
  <2>7. RoundProofs!LiquidityIsEnough <=> Main!LiquidityIsEnough
    BY <2>2, <2>3, <2>4, <2>5, <2>6
       DEF RoundProofs!LiquidityIsEnough, Main!LiquidityIsEnough,
           RoundProofs!VolumePerFee, Main!VolumePerFee
  <2> QED
    BY <2>7, MarketsAssumption DEF RoundProofs!LiquidityAssumption
<1> QED
  BY <1>1, <1>2, <1>3, <1>4, <1>5

-----------------------------------------------------------------------------
(* A step of the whole is a step of each part.                             *)

\* The calls are restrictions on resolve_round, nothing else of the engine.
LEMMA EngineSteps == [SystemNext]_system => [Next]_vars
<1> SUFFICES ASSUME [SystemNext]_system PROVE [Next]_vars
  OBVIOUS
<1>1. CASE PlayGame
  BY <1>1 DEF PlayGame, Next, GameStep
<1>2. ASSUME NEW g \in GameIds, NEW k \in Keys, NEW accounts,
             ResolveRoundWith(g, k, accounts)
      PROVE  Next
  <2>1. ResolveRound(g, k)
    BY <1>2 DEF ResolveRoundWith, ResolveRound
  <2> QED
    BY <2>1 DEF Next, GameStep
<1>3. CASE AdministerMain \/ AdministerRound \/ Second \/ UNCHANGED system
  BY <1>3 DEF AdministerMain, AdministerRound, Second, system, vars
<1> QED
  BY <1>1, <1>2, <1>3 DEF SystemNext

LEMMA MainAdministered ==
    ASSUME NEW k, Main!Administer(k)
    PROVE  MainProofs!Administer(k)
  BY DEF Main!Administer, MainProofs!Administer,
         Main!CreateMarket, MainProofs!CreateMarket,
         Main!ResolveMarket, MainProofs!ResolveMarket,
         Main!WithdrawLp, MainProofs!WithdrawLp,
         Main!SweepUnclaimed, MainProofs!SweepUnclaimed,
         Main!ReclaimExpiredLp, MainProofs!ReclaimExpiredLp,
         Main!Open, MainProofs!Open, Main!Overdue, MainProofs!Overdue,
         Main!InClaimWindow, MainProofs!InClaimWindow,
         Main!Pay, MainProofs!Pay, Main!Smaller, MainProofs!Smaller,
         Main!PayoutRatio, MainProofs!PayoutRatio,
         Main!Withdrawable, MainProofs!Withdrawable,
         Main!WinningShares, MainProofs!WinningShares,
         Main!NoShares, MainProofs!NoShares, Main!Outcome, MainProofs!Outcome

LEMMA RoundAdministered ==
    ASSUME NEW k, Round!Administer(k)
    PROVE  RoundProofs!Administer(k)
  BY DEF Round!Administer, RoundProofs!Administer,
         Round!CreateMarket, RoundProofs!CreateMarket,
         Round!ResolveMarket, RoundProofs!ResolveMarket,
         Round!WithdrawLp, RoundProofs!WithdrawLp,
         Round!SweepUnclaimed, RoundProofs!SweepUnclaimed,
         Round!ReclaimExpiredLp, RoundProofs!ReclaimExpiredLp,
         Round!Open, RoundProofs!Open, Round!Overdue, RoundProofs!Overdue,
         Round!InClaimWindow, RoundProofs!InClaimWindow,
         Round!Pay, RoundProofs!Pay, Round!Smaller, RoundProofs!Smaller,
         Round!PayoutRatio, RoundProofs!PayoutRatio,
         Round!Withdrawable, RoundProofs!Withdrawable,
         Round!WinningShares, RoundProofs!WinningShares,
         Round!NoShares, RoundProofs!NoShares,
         Round!Outcome, RoundProofs!Outcome

LEMMA OutcomeIs == \A w : OutcomeOf(w) \in {"Yes", "No"}
  BY DEF OutcomeOf

\* Who administers a market leaves the clock alone.
LEMMA ClockStands ==
    /\ \A k : Main!Administer(k) => now' = now
    /\ \A k : Round!Administer(k) => now' = now
<1>1. ASSUME NEW k, Main!Administer(k) PROVE now' = now
  BY <1>1 DEF Main!Administer, Main!CreateMarket, Main!ResolveMarket,
              Main!WithdrawLp, Main!SweepUnclaimed, Main!ReclaimExpiredLp
<1>2. ASSUME NEW k, Round!Administer(k) PROVE now' = now
  BY <1>2 DEF Round!Administer, Round!CreateMarket, Round!ResolveMarket,
              Round!WithdrawLp, Round!SweepUnclaimed, Round!ReclaimExpiredLp
<1> QED
  BY <1>1, <1>2

LEMMA MainSteps ==
    [SystemNext]_system => [MainProofs!Next]_(MainProofs!vars)
<1> SUFFICES ASSUME [SystemNext]_system
             PROVE  [MainProofs!Next]_(MainProofs!vars)
  OBVIOUS
<1>1. CASE UNCHANGED <<mainVars, now>>
  BY <1>1 DEF mainVars, MainProofs!vars
<1>2. ASSUME NEW g \in GameIds, NEW k \in Keys, NEW accounts,
             ResolveRoundWith(g, k, accounts), ~ UNCHANGED mainVars
      PROVE  MainProofs!Next
  <2>1. Main!ResolveMarket(GamePda, OutcomeOf(RoundWinner(games[g])))
    BY <1>2 DEF ResolveRoundWith, ResolveMainMarket
  <2>2. Main!Administer(GamePda)
    BY <2>1, OutcomeIs DEF Main!Administer, Main!Outcome
  <2> QED
    BY <2>2, MainAdministered DEF MainProofs!Next
<1>3. ASSUME NEW k \in Keys, Main!Administer(k)
      PROVE  MainProofs!Next
  BY <1>3, MainAdministered DEF MainProofs!Next
<1>4. CASE Second
  BY <1>4 DEF Second, Main!Tick, MainProofs!Next, MainProofs!Tick
<1> QED
  BY <1>1, <1>2, <1>3, <1>4, ClockStands
     DEF SystemNext, PlayGame, ResolveRoundWith, AdministerMain,
         AdministerRound, system, mainVars

LEMMA RoundSteps ==
    [SystemNext]_system => [RoundProofs!Next]_(RoundProofs!vars)
<1> SUFFICES ASSUME [SystemNext]_system
             PROVE  [RoundProofs!Next]_(RoundProofs!vars)
  OBVIOUS
<1>1. CASE UNCHANGED <<roundVars, now>>
  BY <1>1 DEF roundVars, RoundProofs!vars
<1>2. ASSUME NEW g \in GameIds, NEW k \in Keys, NEW accounts,
             ResolveRoundWith(g, k, accounts), ~ UNCHANGED roundVars
      PROVE  RoundProofs!Next
  <2>1. Round!ResolveMarket(GamePda, OutcomeOf(RoundWinner(games[g])))
    BY <1>2 DEF ResolveRoundWith, ResolveRoundMarket
  <2>2. Round!Administer(GamePda)
    BY <2>1, OutcomeIs DEF Round!Administer, Round!Outcome
  <2> QED
    BY <2>2, RoundAdministered DEF RoundProofs!Next
<1>3. ASSUME NEW k \in Keys, Round!Administer(k)
      PROVE  RoundProofs!Next
  BY <1>3, RoundAdministered DEF RoundProofs!Next
<1>4. CASE Second
  BY <1>4 DEF Second, Round!Tick, RoundProofs!Next, RoundProofs!Tick
<1> QED
  BY <1>1, <1>2, <1>3, <1>4, ClockStands
     DEF SystemNext, PlayGame, ResolveRoundWith, AdministerMain,
         AdministerRound, system, roundVars

\* The parts' invariants together.
SystemInv == Inv /\ MainProofs!Base /\ RoundProofs!Base

LEMMA SystemNextInv == SystemInv /\ [SystemNext]_system => SystemInv'
  BY NextInv, EngineSteps, MainSteps, RoundSteps, MainFits, RoundFits,
     MainProofs!NextBase, RoundProofs!NextBase DEF SystemInv

LEMMA SystemInvariance == SystemSpec => []SystemInv
<1>1. SystemInit => SystemInv
  <2> SUFFICES ASSUME SystemInit PROVE SystemInv
    OBVIOUS
  <2>1. MainProofs!Init
    BY DEF SystemInit, Main!Init, MainProofs!Init
  <2>2. RoundProofs!Init
    BY DEF SystemInit, Round!Init, RoundProofs!Init
  <2> QED
    BY <2>1, <2>2, InitInv, MainProofs!InitBase, MainFits,
       RoundProofs!InitBase, RoundFits DEF SystemInit, SystemInv
<1>2. SystemInv /\ [SystemNext]_system => SystemInv'
  BY SystemNextInv
<1> QED
  BY <1>1, <1>2, PTL DEF SystemSpec

\* The composition never lets the engine do what it could not do alone:
\* everything proved of GameEngine holds of the whole.
THEOREM EngineIsKept == SystemSpec => Spec
<1>1. SystemInit => Init
  BY DEF SystemInit
<1> QED
  BY <1>1, EngineSteps, PTL DEF SystemSpec, Spec

\* Nor a market: with the game resolving it, it still keeps the promises of
\* Escrow.
THEOREM MarketsAreKept ==
    SystemSpec => MainProofs!KeepsItsPromises /\ RoundProofs!KeepsItsPromises
<1>1. SystemInit => MainProofs!Init /\ RoundProofs!Init
  BY DEF SystemInit, Main!Init, MainProofs!Init, Round!Init, RoundProofs!Init
<1>2. SystemSpec => MainProofs!Spec
  BY <1>1, MainSteps, PTL DEF SystemSpec, MainProofs!Spec
<1>3. SystemSpec => RoundProofs!Spec
  BY <1>1, RoundSteps, PTL DEF SystemSpec, RoundProofs!Spec
<1>4. MainProofs!Spec => MainProofs!KeepsItsPromises
  BY MainProofs!PromisesKept, MainFits
<1>5. RoundProofs!Spec => RoundProofs!KeepsItsPromises
  BY RoundProofs!PromisesKept, RoundFits
<1> QED
  BY <1>2, <1>3, <1>4, <1>5

\* Every account of both programs keeps its type.
THEOREM SystemTypeCorrect == SystemSpec => []SystemTypeOK
<1>1. MainProofs!TypeOK => Main!TypeOK
  BY DEF MainProofs!TypeOK, Main!TypeOK, MainProofs!Markets, Main!Markets,
         MainProofs!Supplies, Main!Supplies, MainProofs!Outcome, Main!Outcome,
         MainProofs!UserPositions, Main!UserPositions
<1>2. RoundProofs!TypeOK => Round!TypeOK
  BY DEF RoundProofs!TypeOK, Round!TypeOK, RoundProofs!Markets, Round!Markets,
         RoundProofs!Supplies, Round!Supplies,
         RoundProofs!Outcome, Round!Outcome,
         RoundProofs!UserPositions, Round!UserPositions
<1>3. SystemInv => SystemTypeOK
  BY <1>1, <1>2 DEF SystemInv, Inv, MainProofs!Base, RoundProofs!Base,
                    SystemTypeOK
<1> QED
  BY <1>3, SystemInvariance, PTL

-----------------------------------------------------------------------------
(* What a step does to a match.                                            *)

\* Phase and winner end together, so a match without a winner goes on.
LEMMA GoesOn ==
    ASSUME Inv, NEW g \in GameIds, InProgress(g), NEW new, GameInv(new),
           Standing(new) = Standing(games[g]),
           games' = [games EXCEPT ![g] = new]
    PROVE  InProgress(g)'
<1>1. EndOK(games[g]) /\ EndOK(new) /\ new \in GameStates
  BY DEF Inv, GameInv, Playing, InProgress, Exists
<1>2. new.winner = games[g].winner
  BY DEF Standing
<1>3. new.phase # "Ended" /\ new # NoAccount
  BY <1>1, <1>2, NoAccountAssumption DEF EndOK, InProgress
<1> QED
  BY <1>3 DEF Inv, TypeOK, InProgress, Exists

\* No move of a player, no roll and no upgrade ends a match.
LEMMA MovesGoOn ==
    ASSUME Inv, NEW g \in GameIds, NEW h \in GameIds, PlayStep(h), InProgress(g)
    PROVE  InProgress(g)'
<1>1. CASE h # g
  BY <1>1, OtherGamesStand DEF GameStep, InProgress, Exists
<1>2. CASE h = g
  <2> DEFINE gs == games[g]
  <2>1. GameInv(gs) /\ gs \in GameStates
    BY DEF Inv, GameInv, Playing, InProgress, Exists
  <2>2. ASSUME NEW k \in Keys, NEW roll \in RollTypes, NEW a \in RandAccounts,
               RequestVrf(g, roll, k, a)
        PROVE  InProgress(g)'
    <3>1. GameInv(Requested(gs, roll))
      BY <2>1, <2>2, RequestedInv DEF RequestVrf
    <3> QED
      BY <2>1, <2>2, <3>1, GoesOn, HandlersKeepStanding DEF RequestVrf
  <2>3. ASSUME NEW k \in Keys, NEW a \in RandAccounts,
               NEW b0 \in Bytes, NEW b1 \in Bytes, FulfillVrf(g, k, a, b0, b1)
        PROVE  InProgress(g)'
    <3>1. /\ vrf[g] \in VRFRequests
          /\ RollOK(gs, vrf[g])
      BY <2>3 DEF FulfillVrf, Inv, TypeOK, RollOnRecord, InProgress
    <3>2. /\ vrf[g].roll_type \in RollTypes
          /\ gs.phase = PendingPhase(vrf[g].roll_type)
          /\ b0 \in U8 /\ b1 \in U8
      BY <2>3, <3>1, BytesAssumption DEF RollOK, VRFRequests, FulfillVrf
    <3> DEFINE new == Fulfilled(gs, vrf[g].roll_type, b0, b1)
    <3>3. GameInv(new)
      BY <2>1, <3>2, FulfilledInv
    <3>4. Standing(new) = Standing(gs)
      <4>1. \A roll, x, y : Standing(Fulfilled(gs, roll, x, y)) = Standing(gs)
        BY <2>1, HandlersKeepStanding
      <4> HIDE DEF gs
      <4> QED
        BY <4>1
    <3>5. games' = [games EXCEPT ![g] = new]
      BY <2>3 DEF FulfillVrf
    <3> HIDE DEF new
    <3> QED
      BY <3>3, <3>4, <3>5, GoesOn
  <2>4. ASSUME NEW k \in Keys, NEW c \in Color, Stay(g, c, k)
        PROVE  InProgress(g)'
    <3>1. GameInv(Stayed(gs, c))
      BY <2>1, <2>4, StayedInv DEF Stay
    <3> QED
      BY <2>1, <2>4, <3>1, GoesOn, HandlersKeepStanding DEF Stay
  <2>5. ASSUME NEW k \in Keys, UnlockUpgrade(g, k)
        PROVE  InProgress(g)'
    <3>1. games' = [games EXCEPT ![g] = [gs EXCEPT !.upgrade_locked = FALSE]]
      BY <2>5 DEF UnlockUpgrade
    <3>2. GameInv([gs EXCEPT !.upgrade_locked = FALSE])
      BY <2>1, UnlockedInv
    <3> QED
      BY <2>1, <3>1, <3>2, GoesOn, HandlersKeepStanding
  <2> QED
    BY <1>2, <2>2, <2>3, <2>4, <2>5 DEF PlayStep
<1> QED
  BY <1>1, <1>2

\* A match ends only where the main market is resolved.
LEMMA EndsByTheCall ==
    ASSUME Inv, [SystemNext]_system, NEW g \in GameIds, InProgress(g)
    PROVE  \/ InProgress(g)'
           \/ \E k \in Keys, accounts \in AccountLists :
                 /\ ResolveFatal(g, k)
                 /\ ResolveMainMarket(games[g], accounts)
<1>1. CASE PlayGame
  <2>1. CASE RegistryStep \/ Environment
    BY <2>1, OtherSteps DEF InProgress, Exists
  <2> QED
    BY <1>1, <2>1, MovesGoOn DEF PlayGame
<1>2. ASSUME NEW h \in GameIds, NEW k \in Keys, NEW accounts \in AccountLists,
             ResolveRoundWith(h, k, accounts)
      PROVE  \/ InProgress(g)'
             \/ ResolveFatal(g, k) /\ ResolveMainMarket(games[g], accounts)
  <2>1. CASE h # g
    <3>1. GameStep(h)
      BY <1>2 DEF ResolveRoundWith, ResolveRound, GameStep
    <3> QED
      BY <2>1, <3>1, OtherGamesStand DEF InProgress, Exists
  <2>2. CASE h = g /\ ~ResolveFatal(g, k)
    <3>1. GameInv(games[g]) /\ games[g] \in GameStates
      BY DEF Inv, GameInv, Playing, InProgress, Exists
    <3>2. CASE ResolveTie(g, k)
      <4>1. GameInv(AfterTie(games[g]))
        BY <3>1, <3>2, AfterTieInv DEF ResolveTie, MayResolve
      <4> QED
        BY <3>1, <3>2, <4>1, GoesOn, HandlersKeepStanding DEF ResolveTie
    <3>3. CASE ResolveSurvived(g, k)
      <4> DEFINE new == AfterRound(games[g])
      <4>1. GameInv(new)
        BY <3>1, <3>3, AfterRoundInv DEF ResolveSurvived, MayResolve
      <4>2. new.phase = "AwaitingInitialDeal"
        BY <3>1 DEF AfterRound, Reset, GameStates
      <4>3. games' = [games EXCEPT ![g] = new]
        BY <3>3 DEF ResolveSurvived
      <4> HIDE DEF new
      <4>4. new # NoAccount
        BY <4>1, NoAccountAssumption DEF GameInv
      <4> QED
        BY <4>2, <4>3, <4>4 DEF Inv, TypeOK, InProgress, Exists
    <3> QED
      BY <1>2, <2>2, <3>2, <3>3 DEF ResolveRoundWith
  <2> QED
    BY <1>2, <2>1, <2>2 DEF ResolveRoundWith, ResolveTie, ResolveSurvived,
                            ResolveFatal
<1>3. CASE AdministerMain \/ AdministerRound \/ Second \/ UNCHANGED system
  BY <1>3 DEF AdministerMain, AdministerRound, Second, system, vars,
              InProgress, Exists
<1> QED
  BY <1>1, <1>2, <1>3 DEF SystemNext

\* How a fatal round leaves the game.
LEMMA FatalEnds ==
    ASSUME Inv, NEW g \in GameIds, NEW k, ResolveFatal(g, k)
    PROVE  /\ InProgress(g)
           /\ games'[g].phase = "Ended"
           /\ games'[g].winner = RoundWinner(games[g])
           /\ RoundWinner(games[g]) \in Color
<1>1. /\ games[g].phase = "ReadyToResolve"
      /\ GameInv(games[g]) /\ games[g] \in GameStates
      /\ Exists(g)
  BY DEF ResolveFatal, MayResolve, Inv, GameInv, Playing, Exists
<1>2. games'[g] = AfterFatal(games[g])
  BY DEF ResolveFatal, Inv, TypeOK
<1> QED
  BY <1>1, <1>2, HpAfterSpec DEF AfterFatal, GameStates, InProgress

-----------------------------------------------------------------------------
(* The two programs keep in step.                                          *)

\* What the call does to the main market.
LEMMA MainIsSettled ==
    ASSUME SystemInv, NEW w, NEW k, Main!ResolveMarket(k, OutcomeOf(w))
    PROVE  /\ Settles(main_market)
           /\ main_market'.outcome = OutcomeOf(w)
           /\ ~Main!Dead
<1>1. main_market \in MainProofs!Markets /\ main_market # NoAccount
  BY DEF SystemInv, MainProofs!Base, MainProofs!TypeOK, Main!ResolveMarket,
         Main!Open
<1>2. main_market' = [main_market EXCEPT !.resolved    = TRUE,
                                         !.outcome     = OutcomeOf(w),
                                         !.resolved_at = now]
  BY DEF Main!ResolveMarket
<1>3. now \in Nat
  BY MarketsAssumption DEF SystemInv, MainProofs!Base, MainProofs!TypeOK
<1>4. main_market' \in MainProofs!Markets
  BY <1>1, <1>2, <1>3, OutcomeIs DEF MainProofs!Markets, MainProofs!Outcome
<1>5. main_market' # NoAccount
  BY <1>4, MainFits DEF MainProofs!NoMarketAssumption
<1>6. main_market'.resolved /\ main_market'.outcome = OutcomeOf(w)
  BY <1>1, <1>2 DEF MainProofs!Markets
<1> QED
  BY <1>1, <1>5, <1>6 DEF Settles, Main!ResolveMarket, Main!Dead

\* A match ends exactly when its main market is resolved by the game, for the
\* player who has won it.
THEOREM MatchesSettleTheirMarket == SystemSpec => MatchSettlesItsMarket
<1> DEFINE InStep ==
      /\ \A g \in GameIds :
            Ends(g) => /\ Settles(main_market)
                       /\ main_market'.outcome =
                              IF games'[g].winner = "Red" THEN "Yes" ELSE "No"
      /\ Settles(main_market) =>
            games' = games \/ \E g \in GameIds : Ends(g)
<1>1. ASSUME SystemInv, [SystemNext]_system, NEW g \in GameIds, Ends(g)
      PROVE  /\ Settles(main_market)
             /\ main_market'.outcome =
                    IF games'[g].winner = "Red" THEN "Yes" ELSE "No"
  <2>1. PICK k \in Keys, accounts \in AccountLists :
            ResolveFatal(g, k) /\ ResolveMainMarket(games[g], accounts)
    BY <1>1, EndsByTheCall DEF SystemInv, Ends, InProgress
  <2>2. games'[g].winner = RoundWinner(games[g])
    BY <1>1, <2>1, FatalEnds DEF SystemInv
  <2>3. Main!ResolveMarket(GamePda, OutcomeOf(RoundWinner(games[g])))
    BY <2>1 DEF ResolveMainMarket
  <2> QED
    BY <1>1, <2>2, <2>3, MainIsSettled DEF OutcomeOf
<1>2. ASSUME SystemInv, [SystemNext]_system, Settles(main_market), games' # games
      PROVE  \E g \in GameIds : Ends(g)
  <2>1. main_market' # main_market
    BY <1>2 DEF Settles
  <2>2. PICK g \in GameIds, k \in Keys, accounts \in AccountLists :
            ResolveRoundWith(g, k, accounts)
    BY <1>2, <2>1 DEF SystemNext, PlayGame, AdministerMain, AdministerRound,
                      Second, system, mainVars, vars
  <2>3. ResolveFatal(g, k)
    BY <2>1, <2>2 DEF ResolveRoundWith, mainVars
  <2> QED
    BY <1>2, <2>3, FatalEnds DEF SystemInv, Ends
<1>3. SystemInv /\ [SystemNext]_system => InStep
  BY <1>1, <1>2
<1>4. SystemSpec => [][InStep]_system
  BY <1>3, SystemInvariance, PTL DEF SystemSpec
<1> QED
  BY <1>4 DEF MatchSettlesItsMarket

\* What the call does to the market of the round.
LEMMA RoundIsSettled ==
    ASSUME SystemInv, NEW w, NEW k, Round!ResolveMarket(k, OutcomeOf(w))
    PROVE  round_market'.outcome = OutcomeOf(w)
<1>1. round_market \in RoundProofs!Markets
  BY DEF SystemInv, RoundProofs!Base, RoundProofs!TypeOK, Round!ResolveMarket,
         Round!Open
<1> QED
  BY <1>1 DEF Round!ResolveMarket, RoundProofs!Markets

\* The loser of a round that is decided has lost hit points.
LEMMA LoserIsHurt ==
    ASSUME Inv, NEW g \in GameIds, NEW k,
           ResolveSurvived(g, k) \/ ResolveFatal(g, k)
    PROVE  /\ RoundWinner(games[g]) \in Color
           /\ Hurt(g, Other(RoundWinner(games[g])))
<1> DEFINE gs == games[g]
           w  == RoundWinner(gs)
           l  == Other(w)
<1>1. /\ gs.phase = "ReadyToResolve"
      /\ GameInv(gs) /\ gs \in GameStates
      /\ Exists(g)
  BY DEF ResolveSurvived, ResolveFatal, MayResolve, Inv, GameInv, Playing, Exists
<1>2. games'[g].hp = HpAfter(gs)
  <2>1. CASE ResolveSurvived(g, k)
    <3>1. games'[g] = AfterRound(gs)
      BY <2>1 DEF ResolveSurvived, Inv, TypeOK
    <3> QED
      BY <1>1, <3>1 DEF AfterRound, Reset, GameStates
  <2>2. CASE ResolveFatal(g, k)
    <3>1. games'[g] = AfterFatal(gs)
      BY <2>2 DEF ResolveFatal, Inv, TypeOK
    <3> QED
      BY <1>1, <3>1 DEF AfterFatal, GameStates
  <2> QED
    BY <2>1, <2>2
<1>3. /\ w \in Color
      /\ gs.round_number \in 1..5
      /\ gs.hp[l] \in 1..20
      /\ HpAfter(gs) = [gs.hp EXCEPT ![l] = Match!Hurt(gs.hp[l], gs.round_number)]
  BY <1>1, HpAfterSpec
<1>4. l \in Color
  BY <1>3, OtherColor
<1>5. Match!Hurt(gs.hp[l], gs.round_number) < gs.hp[l]
  <2>1. Match!Stake(gs.round_number) \in 1..16
    BY <1>3, DamageIsStake
  <2> QED
    BY <1>3, <2>1 DEF Match!Hurt
<1>6. HpAfter(gs)[l] < gs.hp[l]
  BY <1>1, <1>3, <1>4, <1>5 DEF GameStates
<1> QED
  BY <1>1, <1>2, <1>3, <1>6 DEF Hurt

\* The market of a round is resolved by the game in that round only, in the
\* step that decides it and against its loser.
THEOREM RoundsSettleTheirMarket == SystemSpec => RoundSettlesItsMarket
<1> DEFINE InStep ==
      Settles(round_market) /\ games' # games =>
         \E g \in GameIds :
             /\ games[g].round_number = FollowedRound
             /\ Hurt(g, IF round_market'.outcome = "Yes" THEN "Blue" ELSE "Red")
<1>1. ASSUME SystemInv, [SystemNext]_system, Settles(round_market),
             games' # games
      PROVE  \E g \in GameIds :
                /\ games[g].round_number = FollowedRound
                /\ Hurt(g, IF round_market'.outcome = "Yes" THEN "Blue" ELSE "Red")
  <2>1. round_market' # round_market
    BY <1>1 DEF Settles
  <2>2. PICK g \in GameIds, k \in Keys, accounts \in AccountLists :
            ResolveRoundWith(g, k, accounts)
    BY <1>1, <2>1 DEF SystemNext, PlayGame, AdministerMain, AdministerRound,
                      Second, system, roundVars, vars
  <2> DEFINE w == RoundWinner(games[g])
  <2>3. /\ ResolveSurvived(g, k) \/ ResolveFatal(g, k)
        /\ games[g].round_number = FollowedRound
        /\ Round!ResolveMarket(GamePda, OutcomeOf(w))
    BY <2>1, <2>2 DEF ResolveRoundWith, ResolveRoundMarket, IsRoundPda, roundVars
  <2>4. w \in Color /\ Hurt(g, Other(w))
    BY <1>1, <2>3, LoserIsHurt DEF SystemInv
  <2>5. round_market'.outcome = OutcomeOf(w)
    BY <1>1, <2>3, RoundIsSettled
  <2>6. Other(w) = IF round_market'.outcome = "Yes" THEN "Blue" ELSE "Red"
    BY <2>4, <2>5 DEF OutcomeOf, Other, Color
  <2> QED
    BY <2>3, <2>4, <2>6
<1>2. SystemInv /\ [SystemNext]_system => InStep
  BY <1>1
<1>3. SystemSpec => [][InStep]_system
  BY <1>2, SystemInvariance, PTL DEF SystemSpec
<1> QED
  BY <1>3 DEF RoundSettlesItsMarket

\* No step takes a main market past its deadline back into play.
LEMMA DeadStaysDead ==
    ASSUME SystemInv, [SystemNext]_system, Main!Dead
    PROVE  Main!Dead'
<1>1. /\ main_market \in MainProofs!Markets /\ main_market # NoAccount
      /\ now \in Nat /\ main_market.expires_at \in Nat
      /\ RESOLVE_DEADLINE_SECS \in Nat
  BY MarketsAssumption
     DEF SystemInv, MainProofs!Base, MainProofs!TypeOK, Main!Dead, Main!Open,
         MainProofs!Markets
<1>3. ~\E k, o : Main!ResolveMarket(k, o)
  BY DEF Main!ResolveMarket, Main!Dead
<1>4. CASE main_market' = main_market /\ now' \in {now, now + 1}
  BY <1>1, <1>4 DEF Main!Dead, Main!Open, Main!Overdue
<1>5. ASSUME NEW k, Main!Administer(k)
      PROVE  Main!Dead'
  <2>1. main_market' = [main_market EXCEPT !.lp_withdrawn = TRUE] /\ now' = now
    BY <1>3, <1>5 DEF Main!Administer, Main!CreateMarket, Main!WithdrawLp,
                      Main!SweepUnclaimed, Main!ReclaimExpiredLp, Main!Dead
  <2>2. main_market' \in MainProofs!Markets
    BY <1>1, <2>1 DEF MainProofs!Markets
  <2>3. main_market' # NoAccount
    BY <2>2, MainFits DEF MainProofs!NoMarketAssumption
  <2> QED
    BY <1>1, <2>1, <2>3 DEF Main!Dead, Main!Open, Main!Overdue, MainProofs!Markets
<1>6. CASE PlayGame \/ AdministerRound \/ Second \/ UNCHANGED system
  BY <1>4, <1>6, ClockStands
     DEF PlayGame, AdministerRound, Second, Main!Tick, system, mainVars
<1>7. ASSUME NEW g, NEW k, NEW accounts, ResolveRoundWith(g, k, accounts)
      PROVE  Main!Dead'
  <2>1. ~ResolveMainMarket(games[g], accounts)
    BY <1>3 DEF ResolveMainMarket
  <2> QED
    BY <2>1, <1>4, <1>7 DEF ResolveRoundWith, mainVars
<1> QED
  BY <1>5, <1>6, <1>7 DEF SystemNext, AdministerMain

\* A match whose main market has passed its deadline never ends.
THEOREM BlockedMatchesNeverEnd == SystemSpec => BlockedForGood
<1>1. ASSUME SystemInv, [SystemNext]_system, NEW g \in GameIds, Blocked(g)
      PROVE  Blocked(g)'
  <2>1. Main!Dead'
    BY <1>1, DeadStaysDead DEF Blocked
  <2>2. ~\E accounts : ResolveMainMarket(games[g], accounts)
    BY <1>1 DEF Blocked, ResolveMainMarket, Main!ResolveMarket, Main!Dead
  <2>3. InProgress(g)'
    BY <1>1, <2>2, EndsByTheCall DEF SystemInv, Blocked
  <2> QED
    BY <2>1, <2>3 DEF Blocked
<1>2. SystemInv /\ [SystemNext]_system =>
          (\A g \in GameIds : Blocked(g) => Blocked(g)')
  BY <1>1
<1>3. SystemSpec => [][\A g \in GameIds : Blocked(g) => Blocked(g)']_system
  BY <1>2, SystemInvariance, PTL DEF SystemSpec
<1> QED
  BY <1>3 DEF BlockedForGood

\* With the accounts that the scripts pass, no round but a tied one can be
\* resolved while the main market is there.
THEOREM ScriptsAreRefused == SystemSpec => TheScriptsListIsRefused
<1> DEFINE list    == <<"main", "program">>
           Refused == \A g \in GameIds, k \in Keys :
                        Main!Open /\ ResolveRoundWith(g, k, list)
                        => Tied(games[g])
<1>1. ASSUME NEW g \in GameIds, NEW k \in Keys,
             Main!Open, ResolveRoundWith(g, k, list)
      PROVE  Tied(games[g])
  <2>1. list # <<>> /\ list[1] = "main"
    OBVIOUS
  <2>2. ~SkipsRoundMarket(list)
    BY <1>1, <2>1 DEF SkipsRoundMarket, HasData
  <2>3. ~IsRoundPda(games[g], list[1])
    BY <2>1 DEF IsRoundPda
  <2> HIDE DEF list
  <2>4. ~ResolveRoundMarket(games[g], list)
    BY <2>2, <2>3 DEF ResolveRoundMarket
  <2>5. ResolveTie(g, k)
    BY <1>1, <2>4 DEF ResolveRoundWith
  <2> QED
    BY <2>5 DEF ResolveTie
<1>2. Refused
  BY <1>1
<1>3. SystemSpec => [][Refused]_system
  BY <1>2, PTL
<1> QED
  BY <1>3 DEF TheScriptsListIsRefused

-----------------------------------------------------------------------------
(* What can keep a round from being resolved.  OnlyTheMainMarketBlocks     *)
(* says it with ENABLED, which the provers do not know; here the checks of *)
(* resolve_round and of its calls are spelled out instead.                 *)

PassesRoundMarket(gs, accounts) ==
    \/ SkipsRoundMarket(accounts)
    \/ /\ IsRoundPda(gs, accounts[1])
       /\ CanCall(accounts)
       /\ Round!Open /\ ~round_market.resolved /\ ~Round!Overdue

PassesMainMarket(accounts) ==
    Len(accounts) >= 2 /\ accounts[2] = "main" /\ CanCall(accounts)
    /\ MainResolvable

Accepted(g, crank, accounts) ==
    /\ MayResolve(g, crank)
    /\ \/ Tied(games[g])
       \/ /\ PassesRoundMarket(games[g], accounts)
          /\ IF Fatal(games[g]) THEN PassesMainMarket(accounts)
             ELSE games[g].round_number + 1 <= 255

\* Each variable after the instruction, as a function of the state before it.
ResolvedFor(gs, m) == [m EXCEPT !.resolved    = TRUE,
                                !.outcome     = OutcomeOf(RoundWinner(gs)),
                                !.resolved_at = now]

Effects(g, accounts) ==
    LET gs == games[g]
    IN  /\ games' = [games EXCEPT ![g] = IF Tied(gs) THEN AfterTie(gs)
                                        ELSE IF Fatal(gs) THEN AfterFatal(gs)
                                        ELSE AfterRound(gs)]
        /\ registry' = IF ~Tied(gs) /\ Fatal(gs)
                       THEN [registry EXCEPT !.game_active = FALSE]
                       ELSE registry
        /\ main_market' = IF ~Tied(gs) /\ Fatal(gs)
                          THEN ResolvedFor(gs, main_market) ELSE main_market
        /\ round_market' = IF Tied(gs) \/ SkipsRoundMarket(accounts)
                           THEN round_market ELSE ResolvedFor(gs, round_market)
        /\ UNCHANGED <<vrf, rand, main_vault, round_vault, now>>

\* The checks are all of them and none too many: a list that passes them
\* resolves the round, with effects that exist in every state.
LEMMA AcceptedIsResolved ==
    ASSUME NEW g, NEW k, NEW accounts
    PROVE  ResolveRoundWith(g, k, accounts)
               <=> Accepted(g, k, accounts) /\ Effects(g, accounts)
<1> DEFINE gs == games[g]
<1> USE DEF Accepted, Effects, ResolveRoundWith, vars
<1>1. ResolveRoundMarket(gs, accounts)
          <=> /\ PassesRoundMarket(gs, accounts)
              /\ UNCHANGED round_vault
              /\ round_market' = IF SkipsRoundMarket(accounts)
                                 THEN round_market ELSE ResolvedFor(gs, round_market)
              /\ ~SkipsRoundMarket(accounts) => UNCHANGED now
  BY DEF ResolveRoundMarket, PassesRoundMarket, Round!ResolveMarket,
         ResolvedFor, roundVars
<1>2. ResolveMainMarket(gs, accounts)
          <=> /\ PassesMainMarket(accounts)
              /\ UNCHANGED <<main_vault, now>>
              /\ main_market' = ResolvedFor(gs, main_market)
  BY DEF ResolveMainMarket, PassesMainMarket, Main!ResolveMarket,
         MainResolvable, ResolvedFor
<1>3. CASE Tied(gs)
  BY <1>3 DEF ResolveTie, ResolveSurvived, ResolveFatal, mainVars, roundVars
<1>4. CASE ~Tied(gs) /\ Fatal(gs)
  BY <1>1, <1>2, <1>4 DEF ResolveTie, ResolveSurvived, ResolveFatal
<1>5. CASE ~Tied(gs) /\ ~Fatal(gs)
  BY <1>1, <1>5 DEF ResolveTie, ResolveSurvived, ResolveFatal, mainVars
<1> QED
  BY <1>3, <1>4, <1>5

\* Whatever has become of the round market, the crank has a list of accounts
\* with which the round is resolved: one that starts with an empty account.
\* Only a fatal round waits, for a main market that is there, unresolved and
\* in time, and no list does without it.
RightListPasses ==
    \A g \in GameIds : Ready(g) =>
        ((\E accounts \in Seq(RemainingAccounts) :
              Accepted(g, ADMIN_PUBKEY, accounts))
            <=> (Tied(games[g]) \/ ~Fatal(games[g]) \/ MainResolvable))

THEOREM OnlyTheMainMarketHoldsUp == SystemSpec => []RightListPasses
<1>1. ASSUME Inv, NEW g \in GameIds, Ready(g)
      PROVE  (\E accounts \in Seq(RemainingAccounts) :
                  Accepted(g, ADMIN_PUBKEY, accounts))
                 <=> (Tied(games[g]) \/ ~Fatal(games[g]) \/ MainResolvable)
  <2>1. /\ MayResolve(g, ADMIN_PUBKEY)
        /\ games[g].round_number + 1 <= 255
    <3>1. g \in Playing /\ GameInv(games[g]) /\ games[g].phase # "Ended"
      BY <1>1 DEF Ready, Exists, Inv, Playing
    <3>2. registry # NoAccount
      BY <1>1, <3>1 DEF Inv, RegistryKeepsCount
    <3> QED
      BY <1>1, <3>1, <3>2 DEF Ready, Exists, MayResolve, GameInv, EndOK, StakesOK
  <2> DEFINE list == <<"empty", "main", "program">>
  <2>2. /\ list \in Seq(RemainingAccounts)
        /\ SkipsRoundMarket(list)
        /\ MainResolvable => PassesMainMarket(list)
    <3>1. list \in Seq(RemainingAccounts)
      BY DEF RemainingAccounts
    <3>2. list # <<>> /\ list[1] = "empty" /\ list[2] = "main" /\ Len(list) = 3
          /\ 3 \in DOMAIN list /\ list[3] = "program"
      OBVIOUS
    <3> HIDE DEF list
    <3> QED
      BY <3>1, <3>2 DEF SkipsRoundMarket, HasData, PassesMainMarket, CanCall
  <2> HIDE DEF list
  <2>3. ASSUME Tied(games[g]) \/ ~Fatal(games[g]) \/ MainResolvable
        PROVE  Accepted(g, ADMIN_PUBKEY, list)
    BY <2>1, <2>2, <2>3 DEF Accepted, PassesRoundMarket
  <2>4. ASSUME NEW accounts, Accepted(g, ADMIN_PUBKEY, accounts)
        PROVE  Tied(games[g]) \/ ~Fatal(games[g]) \/ MainResolvable
    BY <2>4 DEF Accepted, PassesMainMarket
  <2> QED
    BY <2>2, <2>3, <2>4
<1>2. SystemInv => RightListPasses
  BY <1>1 DEF SystemInv, RightListPasses
<1> QED
  BY <1>2, SystemInvariance, PTL
=============================================================================
