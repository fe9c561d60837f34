----------------------------- MODULE GameEngine -----------------------------
(***************************************************************************)
(* The game-engine program (programs/game-engine): the registry, one       *)
(* GameState account per game, one VRFRequest account per pending roll,    *)
(* and every instruction that changes them.  An instruction is one atomic  *)
(* step: a transaction that fails a check changes nothing and is no step.  *)
(*                                                                         *)
(* Each handler is an operator on the GameState record that returns the    *)
(* updated record; the action adds the account constraints of its Anchor   *)
(* context and the checks of its body.                                     *)
(*                                                                         *)
(* Slots.  The program only compares slots for equality: seed_slot with    *)
(* the previous slot, reveal_slot with the present one, and seed_slot with *)
(* the commit_slot recorded by the request.  The outcomes of these         *)
(* comparisons are the state here (fresh, revealed, commit_current) and    *)
(* Tick ages them, so time is unbounded and the state space finite.        *)
(*                                                                         *)
(* An operator named Op_Mistake is Op with a plausible mistake in it.  The *)
(* model does not use it: put in the place of Op, it shows that a property *)
(* notices the mistake.                                                    *)
(***************************************************************************)
EXTENDS Hand

CONSTANTS
    Keys,           \* public keys that may sign
    ADMIN_PUBKEY,   \* the crank and administrator of the deployment
    NoAccount,      \* the value of an account that does not exist
    MaxGameId,      \* the largest game_count; u64::MAX in the program
    Matchups,       \* pairs <<agent_red, agent_blue>> that callers pass
    RandAccounts,   \* Switchboard randomness accounts
    Bytes,          \* values of the two random bytes the program reads
    Cooldowns       \* cooldown durations that callers pass

ASSUME KeysAssumption == ADMIN_PUBKEY \in Keys
ASSUME GameIdAssumption == MaxGameId \in Nat
ASSUME MatchupAssumption == Matchups \subseteq Keys \X Keys
ASSUME BytesAssumption == Bytes \subseteq U8

VARIABLES registry,   \* the Registry account
          games,      \* game_id -> GameState account
          vrf,        \* game_id -> VRFRequest account
          rand        \* randomness account -> its slots against the present

vars == <<registry, games, vrf, rand>>

-----------------------------------------------------------------------------
(* Accounts.                                                               *)

GameIds == 1..MaxGameId

Color == {"Red", "Blue"}

Other(c) == IF c = "Red" THEN "Blue" ELSE "Red"

GamePhase == {"AwaitingInitialDeal", "AwaitingInitialDealVRF",
              "AwaitingHitVRF", "AwaitingAction", "AwaitingFinalRevealVRF",
              "ReadyToResolve", "AwaitingTiebreakerVRF", "Ended"}

Registries == [authority         : Keys,
               game_count        : 0..MaxGameId,
               current_game_id   : 0..MaxGameId,
               cooldown_duration : Cooldowns,
               game_active       : BOOLEAN]

\* p1_x and p2_x are x["Red"] and x["Blue"]; `pending` is
\* pending_commit_slot # 0.
GameStates == [agent          : [Color -> Keys],
               hp             : [Color -> U8],
               hand           : [Color -> Hands],
               stayed         : [Color -> BOOLEAN],
               round_number   : U8,
               phase          : GamePhase,
               active_player  : Color,
               winner         : Color \cup {"None"},
               pending        : BOOLEAN,
               upgrade_locked : BOOLEAN]

RollTypes == 0..3

\* commit_current: the randomness account still has the seed_slot that the
\* request recorded as its commit_slot.
VRFRequests == [sb_account     : RandAccounts,
                commit_current : BOOLEAN,
                player         : Color,
                roll_type      : RollTypes]

\* fresh: seed_slot is the slot before the present one.
\* revealed: reveal_slot is the present slot, so get_value succeeds.
RandStates == [fresh : BOOLEAN, revealed : BOOLEAN]

ASSUME NoAccountAssumption ==
    NoAccount \notin Registries \cup GameStates \cup VRFRequests

Init == /\ registry = NoAccount
        /\ games = [g \in GameIds |-> NoAccount]
        /\ vrf = [g \in GameIds |-> NoAccount]
        /\ rand = [a \in RandAccounts |-> [fresh |-> FALSE, revealed |-> FALSE]]

-----------------------------------------------------------------------------
(* Registry.                                                               *)

\* The init constraint lets this succeed once, for whoever signs first.
InitializeRegistry(authority, cooldown) ==
    /\ registry = NoAccount
    /\ registry' = [authority         |-> authority,
                    game_count        |-> 0,
                    current_game_id   |-> 0,
                    cooldown_duration |-> cooldown,
                    game_active       |-> FALSE]
    /\ UNCHANGED <<games, vrf, rand>>

UpdateCooldown(authority, duration) ==
    /\ registry # NoAccount
    /\ authority = registry.authority
    /\ ~registry.game_active
    /\ registry' = [registry EXCEPT !.cooldown_duration = duration]
    /\ UNCHANGED <<games, vrf, rand>>

-----------------------------------------------------------------------------
(* init_game.                                                              *)

NewGame(red, blue) ==
    [agent          |-> [c \in Color |-> IF c = "Red" THEN red ELSE blue],
     hp             |-> [c \in Color |-> 10],
     hand           |-> [c \in Color |-> EmptyHand],
     stayed         |-> [c \in Color |-> FALSE],
     round_number   |-> 1,
     phase          |-> "AwaitingInitialDeal",
     active_player  |-> "Red",
     winner         |-> "None",
     pending        |-> FALSE,
     upgrade_locked |-> TRUE]

InitGame(crank, red, blue) ==
    /\ registry # NoAccount
    /\ crank = ADMIN_PUBKEY
    /\ registry.game_count + 1 <= MaxGameId
    /\ LET new == registry.game_count + 1
       IN  /\ games[new] = NoAccount
           /\ registry' = [registry EXCEPT !.game_count      = new,
                                           !.current_game_id = new,
                                           !.game_active     = TRUE]
           /\ games' = [games EXCEPT ![new] = NewGame(red, blue)]
    /\ UNCHANGED <<vrf, rand>>

-----------------------------------------------------------------------------
(* request_vrf: who may ask for which roll in which phase.                 *)

MayDeal(gs, agent) ==
    gs.phase = "AwaitingInitialDeal" /\ agent = ADMIN_PUBKEY

MayHit(gs, agent) ==
    /\ gs.phase = "AwaitingAction"
    /\ agent = gs.agent[gs.active_player]
    /\ gs.hand[gs.active_player].score <= 21
    /\ ~gs.stayed[gs.active_player]

MayReveal(gs, agent) ==
    gs.phase = "AwaitingFinalRevealVRF" /\ agent = ADMIN_PUBKEY

MayBreakTie(gs, agent) ==
    gs.phase = "AwaitingTiebreakerVRF" /\ agent = ADMIN_PUBKEY

MayRequest(gs, roll_type, agent) ==
    \/ roll_type = 0 /\ MayDeal(gs, agent)
    \/ roll_type = 1 /\ MayHit(gs, agent)
    \/ roll_type = 2 /\ MayReveal(gs, agent)
    \/ roll_type = 3 /\ MayBreakTie(gs, agent)

\* Rolls 2 and 3 leave the phase as it is while the roll is pending.
PendingPhase(roll_type) ==
    CASE roll_type = 0 -> "AwaitingInitialDealVRF"
      [] roll_type = 1 -> "AwaitingHitVRF"
      [] roll_type = 2 -> "AwaitingFinalRevealVRF"
      [] OTHER         -> "AwaitingTiebreakerVRF"

Requested(gs, roll_type) ==
    [gs EXCEPT !.pending = TRUE, !.phase = PendingPhase(roll_type)]

RequestVrf(g, roll_type, agent, a) ==
    /\ games[g] # NoAccount
    /\ vrf[g] = NoAccount               \* the init constraint of vrf_request
    /\ MayRequest(games[g], roll_type, agent)
    /\ ~games[g].pending
    /\ rand[a].fresh
    /\ ~rand[a].revealed
    /\ games' = [games EXCEPT ![g] = Requested(games[g], roll_type)]
    /\ vrf' = [vrf EXCEPT ![g] = [sb_account     |-> a,
                                  commit_current |-> TRUE,
                                  player         |-> games[g].active_player,
                                  roll_type      |-> roll_type]]
    /\ UNCHANGED <<registry, rand>>

-----------------------------------------------------------------------------
(* fulfill_vrf.                                                            *)

BothStayed(stayed) == stayed["Red"] /\ stayed["Blue"]

\* Byte 0 is Red's card, byte 1 is Blue's.
DealBoth(gs, byte0, byte1) ==
    [c \in Color |-> ApplyCard(gs.hand[c], IF c = "Red" THEN byte0 ELSE byte1)]

AfterDeal(gs, byte0, byte1) ==
    [gs EXCEPT !.hand    = DealBoth(gs, byte0, byte1),
               !.phase   = "AwaitingAction",
               !.pending = FALSE]

AfterHit_OtherHand(gs, byte0) ==
    LET p      == gs.active_player
        drawn  == ApplyCard(gs.hand[Other(p)], byte0)
        stayed == [gs.stayed EXCEPT ![p] = @ \/ drawn.score >= 21]
    IN  [gs EXCEPT !.hand          = [@ EXCEPT ![Other(p)] = drawn],
                   !.stayed        = stayed,
                   !.active_player = IF stayed[Other(p)] THEN p ELSE Other(p),
                   !.phase         = IF BothStayed(stayed)
                                     THEN "AwaitingFinalRevealVRF"
                                     ELSE "AwaitingAction",
                   !.pending       = FALSE]

AfterHit_AlwaysPasses(gs, byte0) ==
    LET p      == gs.active_player
        drawn  == ApplyCard(gs.hand[p], byte0)
        stayed == [gs.stayed EXCEPT ![p] = @ \/ drawn.score >= 21]
    IN  [gs EXCEPT !.hand          = [@ EXCEPT ![p] = drawn],
                   !.stayed        = stayed,
                   !.active_player = Other(p),
                   !.phase         = IF BothStayed(stayed)
                                     THEN "AwaitingFinalRevealVRF"
                                     ELSE "AwaitingAction",
                   !.pending       = FALSE]

\* A hit at 21 or more stays its player.  The turn passes unless the other
\* player has stayed.
AfterHit(gs, byte0) ==
    LET p      == gs.active_player
        drawn  == ApplyCard(gs.hand[p], byte0)
        stayed == [gs.stayed EXCEPT ![p] = @ \/ drawn.score >= 21]
    IN  [gs EXCEPT !.hand          = [@ EXCEPT ![p] = drawn],
                   !.stayed        = stayed,
                   !.active_player = IF stayed[Other(p)] THEN p ELSE Other(p),
                   !.phase         = IF BothStayed(stayed)
                                     THEN "AwaitingFinalRevealVRF"
                                     ELSE "AwaitingAction",
                   !.pending       = FALSE]

AfterReveal_StaysPending(gs, byte0, byte1) ==
    [gs EXCEPT !.hand  = DealBoth(gs, byte0, byte1),
               !.phase = "ReadyToResolve"]

\* The final reveal and the tiebreaker deal one card to each player.
AfterReveal(gs, byte0, byte1) ==
    [gs EXCEPT !.hand    = DealBoth(gs, byte0, byte1),
               !.phase   = "ReadyToResolve",
               !.pending = FALSE]

Fulfilled(gs, roll_type, byte0, byte1) ==
    CASE roll_type = 0 -> AfterDeal(gs, byte0, byte1)
      [] roll_type = 1 -> AfterHit(gs, byte0)
      [] OTHER         -> AfterReveal(gs, byte0, byte1)

FulfillVrf_AnySeed(g, crank, a, byte0, byte1) ==
    /\ games[g] # NoAccount
    /\ vrf[g] # NoAccount
    /\ crank = ADMIN_PUBKEY
    /\ a = vrf[g].sb_account
    /\ rand[a].revealed
    /\ games' = [games EXCEPT
                   ![g] = Fulfilled(games[g], vrf[g].roll_type, byte0, byte1)]
    /\ vrf' = [vrf EXCEPT ![g] = NoAccount]
    /\ UNCHANGED <<registry, rand>>

\* The oracle's value is free, so it is chosen here, where it is read.
FulfillVrf(g, crank, a, byte0, byte1) ==
    /\ games[g] # NoAccount
    /\ vrf[g] # NoAccount
    /\ crank = ADMIN_PUBKEY
    /\ a = vrf[g].sb_account
    /\ vrf[g].commit_current            \* seed_slot = vrf_request.commit_slot
    /\ rand[a].revealed
    /\ games' = [games EXCEPT
                   ![g] = Fulfilled(games[g], vrf[g].roll_type, byte0, byte1)]
    /\ vrf' = [vrf EXCEPT ![g] = NoAccount]         \* close = crank
    /\ UNCHANGED <<registry, rand>>

-----------------------------------------------------------------------------
(* stay.  The player argument is checked against the signer only.          *)

Stayed(gs, player) ==
    LET stayed == [gs.stayed EXCEPT ![player] = TRUE]
    IN  [gs EXCEPT !.stayed        = stayed,
                   !.active_player = IF stayed[Other(player)]
                                     THEN @ ELSE Other(player),
                   !.phase         = IF BothStayed(stayed)
                                     THEN "AwaitingFinalRevealVRF" ELSE @]

Stay_DuringRoll(g, player, agent) ==
    /\ games[g] # NoAccount
    /\ games[g].phase \in {"AwaitingAction", "AwaitingHitVRF"}
    /\ agent = games[g].agent[player]
    /\ ~games[g].stayed[player]
    /\ games' = [games EXCEPT ![g] = Stayed(games[g], player)]
    /\ UNCHANGED <<registry, vrf, rand>>

Stay(g, player, agent) ==
    /\ games[g] # NoAccount
    /\ games[g].phase = "AwaitingAction"
    /\ agent = games[g].agent[player]
    /\ ~games[g].stayed[player]
    /\ games' = [games EXCEPT ![g] = Stayed(games[g], player)]
    /\ UNCHANGED <<registry, vrf, rand>>

-----------------------------------------------------------------------------
(* resolve_round.                                                          *)

\* u8::abs_diff(21).
Diff(score) == IF score > 21 THEN score - 21 ELSE 21 - score

Tied(gs) == Diff(gs.hand["Red"].score) = Diff(gs.hand["Blue"].score)

RoundWinner(gs) ==
    IF Diff(gs.hand["Red"].score) < Diff(gs.hand["Blue"].score)
    THEN "Red" ELSE "Blue"

Damage_NoShiftBack(round_number) ==
    LET shift == IF round_number > 7 THEN 7 ELSE round_number
    IN  <<1, 2, 4, 8, 16, 32, 64, 128>>[shift + 1]

\* 1u8 << round_number.saturating_sub(1).min(7).
Damage(round_number) ==
    LET shift == IF round_number = 0 THEN 0
                 ELSE IF round_number > 8 THEN 7 ELSE round_number - 1
    IN  <<1, 2, 4, 8, 16, 32, 64, 128>>[shift + 1]

SatSubU8(m, n) == IF m > n THEN m - n ELSE 0

\* The hit points once the loser of the round has taken the damage.
HpAfter(gs) ==
    [gs.hp EXCEPT ![Other(RoundWinner(gs))] =
        SatSubU8(@, Damage(gs.round_number))]

Fatal_RedOnly(gs) == HpAfter(gs)["Red"] = 0

Fatal(gs) == \E c \in Color : HpAfter(gs)[c] = 0

Reset_KeepsAces(gs, phase) ==
    [gs EXCEPT !.hand          = [c \in Color |-> [@[c] EXCEPT !.score = 0]],
               !.stayed        = [c \in Color |-> FALSE],
               !.active_player = "Red",
               !.phase         = phase]

\* What a tie and a round that is survived have in common.
Reset(gs, phase) ==
    [gs EXCEPT !.hand          = [c \in Color |-> EmptyHand],
               !.stayed        = [c \in Color |-> FALSE],
               !.active_player = "Red",
               !.phase         = phase]

AfterTie_NextRound(gs) ==
    [Reset(gs, "AwaitingTiebreakerVRF") EXCEPT
        !.pending      = FALSE,
        !.round_number = gs.round_number + 1]

AfterTie(gs) == [Reset(gs, "AwaitingTiebreakerVRF") EXCEPT !.pending = FALSE]

AfterRound_SameRound(gs) ==
    [Reset(gs, "AwaitingInitialDeal") EXCEPT !.hp = HpAfter(gs)]

AfterRound(gs) ==
    [Reset(gs, "AwaitingInitialDeal") EXCEPT
        !.hp           = HpAfter(gs),
        !.round_number = gs.round_number + 1]

AfterFatal(gs) ==
    [gs EXCEPT !.hp     = HpAfter(gs),
               !.phase  = "Ended",
               !.winner = RoundWinner(gs)]

MayResolve(g, crank) ==
    /\ registry # NoAccount
    /\ games[g] # NoAccount
    /\ crank = ADMIN_PUBKEY
    /\ games[g].phase = "ReadyToResolve"

ResolveTie(g, crank) ==
    /\ MayResolve(g, crank)
    /\ Tied(games[g])
    /\ games' = [games EXCEPT ![g] = AfterTie(games[g])]
    /\ UNCHANGED <<registry, vrf, rand>>

\* The round market is resolved in the same transaction, or skipped.
ResolveSurvived(g, crank) ==
    /\ MayResolve(g, crank)
    /\ ~Tied(games[g])
    /\ ~Fatal(games[g])
    /\ games[g].round_number + 1 <= 255
    /\ games' = [games EXCEPT ![g] = AfterRound(games[g])]
    /\ UNCHANGED <<registry, vrf, rand>>

ResolveFatal_KeepsActive(g, crank) ==
    /\ MayResolve(g, crank)
    /\ ~Tied(games[g])
    /\ Fatal(games[g])
    /\ games' = [games EXCEPT ![g] = AfterFatal(games[g])]
    /\ UNCHANGED <<registry, vrf, rand>>

\* Succeeds only together with the resolution of the main market.
ResolveFatal(g, crank) ==
    /\ MayResolve(g, crank)
    /\ ~Tied(games[g])
    /\ Fatal(games[g])
    /\ games' = [games EXCEPT ![g] = AfterFatal(games[g])]
    /\ registry' = [registry EXCEPT !.game_active = FALSE]
    /\ UNCHANGED <<vrf, rand>>

ResolveRound(g, crank) ==
    \/ ResolveTie(g, crank)
    \/ ResolveSurvived(g, crank)
    \/ ResolveFatal(g, crank)

-----------------------------------------------------------------------------

UnlockUpgrade(g, authority) ==
    /\ games[g] # NoAccount
    /\ authority = ADMIN_PUBKEY
    /\ games' = [games EXCEPT ![g].upgrade_locked = FALSE]
    /\ UNCHANGED <<registry, vrf, rand>>

-----------------------------------------------------------------------------
(* The chain and Switchboard, outside src/.                                *)

\* A new slot: no seed_slot is the previous slot any more, and no value was
\* revealed in it.
Tick ==
    /\ rand' = [a \in RandAccounts |-> [fresh |-> FALSE, revealed |-> FALSE]]
    /\ UNCHANGED <<registry, games, vrf>>

PendingOn(a) == {g \in GameIds : vrf[g] # NoAccount /\ vrf[g].sb_account = a}

\* Whatever the randomness account becomes.  The program takes it as a raw
\* account and parses its data: no owner is required, so nothing is assumed
\* of who writes it, or when.  It may show another seed than the one a
\* pending roll was requested on, show the old one again (kept), and a value
\* may land in any slot or in none.
AccountChanges(a) ==
    \E data \in RandStates, kept \in SUBSET PendingOn(a) :
        /\ rand' = [rand EXCEPT ![a] = data]
        /\ vrf' = [g \in GameIds |->
                     IF g \in PendingOn(a)
                     THEN [vrf[g] EXCEPT !.commit_current = g \in kept]
                     ELSE vrf[g]]
        /\ UNCHANGED <<registry, games>>

-----------------------------------------------------------------------------

RegistryStep ==
    \E k \in Keys :
        \/ \E d \in Cooldowns : InitializeRegistry(k, d) \/ UpdateCooldown(k, d)
        \/ \E m \in Matchups : InitGame(k, m[1], m[2])

PlayStep(g) ==
    \E k \in Keys :
        \/ \E roll \in RollTypes, a \in RandAccounts : RequestVrf(g, roll, k, a)
        \/ \E a \in RandAccounts, b0, b1 \in Bytes : FulfillVrf(g, k, a, b0, b1)
        \/ \E c \in Color : Stay(g, c, k)
        \/ UnlockUpgrade(g, k)

GameStep(g) == PlayStep(g) \/ \E k \in Keys : ResolveRound(g, k)

Environment == Tick \/ \E a \in RandAccounts : AccountChanges(a)

Next == \/ RegistryStep
        \/ \E g \in GameIds : GameStep(g)
        \/ Environment

Spec == Init /\ [][Next]_vars

=============================================================================
