----------------------------- MODULE AutoBattle -----------------------------
(***************************************************************************)
(* Both programs together: one match, its main market and the market of    *)
(* one of its rounds.  The game engine is GameEngine, each market is a     *)
(* PredictionMarket without traders: resolution reads and writes nothing   *)
(* that a trade, a claim or a refund changes.                              *)
(*                                                                         *)
(* The programs meet in resolve_round, which resolves markets by calls     *)
(* inside its own transaction, signed as the game (resolve_market_cpi).    *)
(* Which accounts it finds is up to the caller: the context names none of  *)
(* the markets, they are the remaining_accounts of the instruction.  If    *)
(* one of the calls fails, everything has failed.                          *)
(***************************************************************************)
EXTENDS GameProperties, Sequences

CONSTANTS
    AccountLists,   \* remaining_accounts that the crank passes
    FollowedRound,  \* the round whose market is followed
    GamePda,        \* the game account as a signer
    \* The constants of PredictionMarket, apart from its Keys and Traders.
    LMSR_B, PRECISION, TABLE, U64_MAX, MAX_LEVERAGE, ITERATIONS,
    INITIAL_LIQUIDITY, RESOLVE_DEADLINE_SECS, CLAIM_WINDOW_SECS, RATIO_ONE,
    Expiries, Amounts, Lots, MaxTime

\* What may be passed: the two markets, an account without data, and the
\* prediction-market program.  The market of a round that is not followed
\* counts as empty in its own round, in which it is resolved or skipped, and
\* in any other round as the program, which is refused as well.
RemainingAccounts == {"main", "round", "empty", "program"}

VARIABLES main_market, main_vault, round_market, round_vault,
          now   \* the clock's unix_timestamp

mainVars == <<main_market, main_vault>>
roundVars == <<round_market, round_vault>>
system == <<vars, mainVars, roundVars, now>>

Main == INSTANCE MarketProperties
            WITH Keys <- Keys \cup {GamePda}, Traders <- {},
                 market <- main_market, vault <- main_vault, position <- <<>>

Round == INSTANCE MarketProperties
             WITH Keys <- Keys \cup {GamePda}, Traders <- {},
                  market <- round_market, vault <- round_vault, position <- <<>>

ASSUME AutoBattleAssumption ==
    /\ MaxGameId = 1
    /\ AccountLists \subseteq Seq(RemainingAccounts)
    /\ FollowedRound \in 1..5
    /\ GamePda \notin Keys

\* What PredictionMarket assumes.
ASSUME MarketsAssumption ==
    /\ {LMSR_B, PRECISION, RATIO_ONE} \subseteq Nat \ {0}
    /\ TABLE \in [1..11 -> Nat]
    /\ \A k \in 1..10 : TABLE[k + 1] <= TABLE[k]
    /\ TABLE[1] <= PRECISION
    /\ {U64_MAX, MAX_LEVERAGE, ITERATIONS, INITIAL_LIQUIDITY,
        RESOLVE_DEADLINE_SECS, CLAIM_WINDOW_SECS, MaxTime} \subseteq Nat
    /\ Expiries \cup Amounts \cup Lots \subseteq Nat
    /\ NoAccount \notin Main!Markets \cup Main!UserPositions
    /\ Main!LiquidityIsEnough

SystemInit == Init /\ Main!Init /\ Round!Init

-----------------------------------------------------------------------------
(* resolve_round with its calls.                                           *)

OutcomeOf_Swapped(winner) == IF winner = "Red" THEN "No" ELSE "Yes"

OutcomeOf_AsColor(winner) == winner

\* outcome_byte: the ABI of the prediction market has Yes = 0 and No = 1.
OutcomeOf(winner) == IF winner = "Red" THEN "Yes" ELSE "No"

\* The runtime finds a called program only among the accounts of the caller.
CanCall(accounts) == \E i \in DOMAIN accounts : accounts[i] = "program"

HasData(account) == \/ account = "main" /\ Main!Open
                    \/ account = "round" /\ Round!Open
                    \/ account = "program"

IsRoundPda_FromZero(gs, account) ==
    account = "round" /\ gs.round_number - 1 = FollowedRound

\* The address is derived from the round number.
IsRoundPda(gs, account) == account = "round" /\ gs.round_number = FollowedRound

SkipsRoundMarket_Never(accounts) == accounts = <<>>

SkipsRoundMarket_AnyOther(accounts) ==
    accounts = <<>> \/ accounts[1] # "round" \/ ~Round!Open

SkipsRoundMarket(accounts) == accounts = <<>> \/ ~HasData(accounts[1])

\* Index 0: skipped without data, refused if it is not the market of this
\* round, else resolved, and if that fails everything does.
ResolveRoundMarket(gs, accounts) ==
    IF SkipsRoundMarket(accounts)
    THEN UNCHANGED roundVars
    ELSE /\ IsRoundPda(gs, accounts[1])
         /\ CanCall(accounts)
         /\ Round!ResolveMarket(GamePda, OutcomeOf(RoundWinner(gs)))

\* Index 1: the main market, without which a match does not end.
ResolveMainMarket(gs, accounts) ==
    /\ Len(accounts) >= 2
    /\ accounts[2] = "main"
    /\ CanCall(accounts)
    /\ Main!ResolveMarket(GamePda, OutcomeOf(RoundWinner(gs)))

\* The early return of a tie comes before any account is looked at.
ResolveRoundWith(g, crank, accounts) ==
    /\ \/ /\ ResolveTie(g, crank)
          /\ UNCHANGED <<mainVars, roundVars>>
       \/ /\ ResolveSurvived(g, crank)
          /\ ResolveRoundMarket(games[g], accounts)
          /\ UNCHANGED mainVars
       \/ /\ ResolveFatal(g, crank)
          /\ ResolveRoundMarket(games[g], accounts)
          /\ ResolveMainMarket(games[g], accounts)
    /\ UNCHANGED now

-----------------------------------------------------------------------------

\* Everything else the game engine does leaves the markets alone.
PlayGame == /\ RegistryStep \/ Environment \/ \E g \in GameIds : PlayStep(g)
            /\ UNCHANGED <<mainVars, roundVars, now>>

AdministerMain == /\ \E k \in Keys : Main!Administer(k)
                  /\ UNCHANGED <<vars, roundVars>>

AdministerRound == /\ \E k \in Keys : Round!Administer(k)
                   /\ UNCHANGED <<vars, mainVars>>

Second == Main!Tick /\ Round!Tick /\ UNCHANGED vars

SystemNext ==
    \/ PlayGame
    \/ \E g \in GameIds, k \in Keys, accounts \in AccountLists :
           ResolveRoundWith(g, k, accounts)
    \/ AdministerMain
    \/ AdministerRound
    \/ Second

SystemSpec == SystemInit /\ [][SystemNext]_system

-----------------------------------------------------------------------------
(* Properties.                                                             *)

SystemTypeOK == TypeOK /\ Main!TypeOK /\ Round!TypeOK

Settles(m) == /\ m # NoAccount /\ ~m.resolved
              /\ m' # NoAccount /\ m'.resolved

Ends(g) == InProgress(g) /\ games'[g].phase = "Ended"

\* A match ends in the very step that resolves its main market, for Yes if
\* Red has won it and for No if Blue has; no other instruction of the game
\* resolves that market.  The two programs agree on the winner although the
\* outcome crosses between them as a byte.
MatchSettlesItsMarket ==
    [][/\ \A g \in GameIds :
            Ends(g) => /\ Settles(main_market)
                       /\ main_market'.outcome =
                              IF games'[g].winner = "Red" THEN "Yes" ELSE "No"
       /\ Settles(main_market) =>
            games' = games \/ \E g \in GameIds : Ends(g)]_system

Hurt(g, c) == Exists(g) /\ games'[g].hp[c] < games[g].hp[c]

\* When the game resolves the market of a round, it is that round that was
\* decided in the same step, against the player who has lost hit points:
\* neither a tie nor another round resolves it, and a transaction that fails
\* later, at the main market, leaves it open.
RoundSettlesItsMarket ==
    [][Settles(round_market) /\ games' # games =>
         \E g \in GameIds :
             /\ games[g].round_number = FollowedRound
             /\ Hurt(g, IF round_market'.outcome = "Yes" THEN "Blue" ELSE "Red")]_system

-----------------------------------------------------------------------------
(* What can keep a round from being resolved.                              *)

Ready(g) == Exists(g) /\ games[g].phase = "ReadyToResolve"

CanResolve(g, accounts) == ENABLED ResolveRoundWith(g, ADMIN_PUBKEY, accounts)

MainResolvable == Main!Open /\ ~main_market.resolved /\ ~Main!Overdue

\* The crank always finds a list of accounts with which the round can be
\* resolved, whatever has become of the round market; only a fatal round has
\* to wait for a main market that is there, unresolved and in time.
OnlyTheMainMarketBlocks ==
    \A g \in GameIds : Ready(g) =>
        ((\E accounts \in AccountLists : CanResolve(g, accounts))
            <=> (Tied(games[g]) \/ ~Fatal(games[g]) \/ MainResolvable))

\* The scripts pass the main market and the program.  With that list no round
\* but a tied one is ever resolved while the main market exists: it stands
\* where the round market is expected.
TheScriptsListIsRefused ==
    [][\A g \in GameIds, k \in Keys :
         Main!Open /\ ResolveRoundWith(g, k, <<"main", "program">>)
         => Tied(games[g])]_system

\* A match in progress whose main market was not resolved in time can never
\* end: the market can neither be resolved nor replaced any more.
Blocked(g) == InProgress(g) /\ Main!Dead

BlockedForGood == [][\A g \in GameIds : Blocked(g) => Blocked(g)']_system

=============================================================================
