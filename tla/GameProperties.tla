--------------------------- MODULE GameProperties ---------------------------
(***************************************************************************)
(* What must be true of the game engine: agreement between the accounts    *)
(* that describe a pending roll, the rules of the hands and turns, the     *)
(* registry against the games, the refinement of Duel, and progress.       *)
(***************************************************************************)
EXTENDS GameEngine

Exists(g) == games[g] # NoAccount

Playing == {g \in GameIds : Exists(g)}

InProgress(g) == Exists(g) /\ games[g].phase # "Ended"

\* The accounts are what their Rust types say.
TypeOK == /\ registry \in Registries \cup {NoAccount}
          /\ games \in [GameIds -> GameStates \cup {NoAccount}]
          /\ vrf \in [GameIds -> VRFRequests \cup {NoAccount}]
          /\ rand \in [RandAccounts -> RandStates]

-----------------------------------------------------------------------------
(* Rolls.                                                                  *)

RollOK(gs, req) ==
    /\ gs.pending <=> req # NoAccount
    /\ gs.pending => /\ gs.phase = PendingPhase(req.roll_type)
                     /\ gs.active_player = req.player
    /\ gs.phase \in {"AwaitingInitialDealVRF", "AwaitingHitVRF"} => gs.pending

\* A pending roll is recorded twice, by pending_commit_slot in the game and
\* by the VRFRequest account, and fulfill_vrf takes the roll type from one
\* and the player from the other.  The two records never disagree, and a
\* phase that waits for an answer always has a roll to be answered.
RollOnRecord ==
    \A g \in GameIds : IF Exists(g) THEN RollOK(games[g], vrf[g])
                                    ELSE vrf[g] = NoAccount

\* From the request to the answer nobody can change what the cards will be
\* applied to: not the game (apart from its upgrade lock), not the request.
\* In particular a stay cannot slip in while a roll is pending.
PlayStopsForTheRoll ==
    [][\A g \in GameIds :
         vrf[g] # NoAccount /\ vrf'[g] # NoAccount =>
             /\ games'[g] = [games[g] EXCEPT
                               !.upgrade_locked = games'[g].upgrade_locked]
             /\ vrf'[g] = [vrf[g] EXCEPT
                             !.commit_current = vrf'[g].commit_current]]_vars

\* The account shows the seed of the request, and a value of this slot.
Answerable(g) == vrf[g].commit_current /\ rand[vrf[g].sb_account].revealed

Dealt(g) == \E c \in Color :
    games'[g].hand[c] \notin {games[g].hand[c], EmptyHand}

\* Request Commitment: a request is binding.  Whatever becomes of the
\* randomness account, a pending roll is neither cancelled nor replaced nor
\* timed out: until the account shows, in the slot of the answer, the seed of
\* the request and a value, the roll stays, and with it the match stands
\* still.  And no card reaches a hand but by such an answer, which ends the
\* roll.
OnlyTheCommittedSeedAnswers ==
    [][\A g \in GameIds :
         /\ vrf[g] # NoAccount /\ ~Answerable(g) => vrf'[g] # NoAccount
         /\ Exists(g) /\ Dealt(g) =>
              /\ vrf[g] # NoAccount
              /\ Answerable(g)
              /\ vrf'[g] = NoAccount]_vars

\* The randomness account does not show the seed of the pending roll.
Lost(g) == vrf[g] # NoAccount /\ ~vrf[g].commit_current

-----------------------------------------------------------------------------
(* Hands and turns.                                                        *)

NoCards == {"AwaitingInitialDeal", "AwaitingInitialDealVRF",
            "AwaitingTiebreakerVRF"}

Moving == {"AwaitingAction", "AwaitingHitVRF"}

HandOK(gs, c) ==
    LET h == gs.hand[c]
    IN  /\ h.aces = 0 \/ (h.aces = 1 /\ h.score \in 11..21)
        /\ gs.phase \in NoCards => h = EmptyHand /\ ~gs.stayed[c]
        /\ gs.phase \notin NoCards => h.score \in 2..40
        /\ gs.phase \in Moving => h.score <= IF gs.stayed[c] THEN 30 ELSE 20
        /\ gs.phase = "AwaitingFinalRevealVRF" => gs.stayed[c] /\ h.score <= 30

\* The hands of every phase.  An unfinished hand is below 21, a finished one
\* at most 30, and the forced last card takes none above 40: the u8 totals
\* never saturate, at most one ace counts as 11, and a hand that can still be
\* played is never bust.
HandsInPlay == \A g \in Playing, c \in Color : HandOK(games[g], c)

TurnOK(gs) == gs.phase \in Moving => ~gs.stayed[gs.active_player]

\* The turn is never with a player who has stayed, by choice or at 21: the
\* agent to move can always hit, and no round waits for a finished player.
TurnIsOpen == \A g \in Playing : TurnOK(games[g])

\* A player who has stayed keeps the hand until the final reveal: the only
\* change to it while the other one plays on is none at all.
StayedHandsStand ==
    [][\A g \in GameIds, c \in Color :
         /\ Exists(g)
         /\ games[g].phase \in Moving
         /\ games[g].stayed[c]
         => /\ games'[g].hand[c] = games[g].hand[c]
            /\ games'[g].stayed[c]]_vars

-----------------------------------------------------------------------------
(* The registry.                                                           *)

\* Game accounts are created one after the other, the registry counts them,
\* and while it says that a game is active the current game is in progress:
\* current_game_id with game_active never points at a finished match.
RegistryKeepsCount ==
    /\ registry = NoAccount => Playing = {}
    /\ registry # NoAccount =>
         /\ Playing = 1..registry.game_count
         /\ registry.current_game_id = registry.game_count
         /\ registry.game_active => /\ registry.current_game_id \in Playing
                                    /\ InProgress(registry.current_game_id)

-----------------------------------------------------------------------------
(* The match.                                                              *)

Standing(gs) == [hp |-> gs.hp, round |-> gs.round_number, winner |-> gs.winner]

Opening == [hp |-> [c \in Color |-> 10], round |-> 1, winner |-> "None"]

Standings == [g \in GameIds |-> IF Exists(g) THEN Standing(games[g])
                                             ELSE Opening]

Match == INSTANCE Duel WITH Games <- GameIds, match <- Standings

\* The game engine plays duels: hit points, rounds and winners change only in
\* the steps Duel allows, in one match at a time.
PlaysDuels == Match!Spec

\* While a match is open, its hit points account for every round played; so
\* it has at most five rounds (see Duel).
StakesAddUp == Match!StakesAddUp

EndOK(gs) ==
    /\ gs.phase = "Ended" <=> gs.winner # "None"
    /\ gs.phase = "Ended" <=> \E c \in Color : gs.hp[c] = 0

\* Phase Ended, the winner and a player at zero hit points come together.
EndedMeansWon == \A g \in Playing : EndOK(games[g])

-----------------------------------------------------------------------------
(* Progress: what the steps themselves guarantee.                          *)

\* The total of a hand with every ace counted as 1.  The score may fall when
\* a card is drawn; this total never does.
HardTotal(hand) == hand.score - 10 * hand.aces

Waits(gs) == IF gs.pending THEN 1 ELSE 0

HitsLeft(gs, c) == IF gs.stayed[c] THEN 0 ELSE 21 - HardTotal(gs.hand[c])

\* The most instructions that can still come in this round before it is tied
\* or decided.  A player who has not stayed can hit, by a request and an
\* answer, until the hard total reaches 21; then come the request for the
\* last cards, the answer and the resolution.
LeftInRound(gs) ==
    CASE gs.phase = "ReadyToResolve"        -> 1
      [] gs.phase = "AwaitingTiebreakerVRF" -> 3 - Waits(gs)
      [] OTHER -> 3 + 2 * (HitsLeft(gs, "Red") + HitsLeft(gs, "Blue"))
                    - Waits(gs)

\* A round has at most 87 instructions, and a match five rounds.
MovesLeft(gs) ==
    IF gs.phase = "Ended" THEN 0
    ELSE LeftInRound(gs) + 87 * (5 - gs.round_number)

\* More has changed than the upgrade lock.
Played(gs, next) == next # [gs EXCEPT !.upgrade_locked = next.upgrade_locked]

\* Every instruction that changes a match, the upgrade lock apart, brings its
\* end nearer: no order of requests, answers, hits and stays goes round in a
\* circle, and nothing is undone.  Only a tie takes anything back, the three
\* instructions of the tiebreaker, so that a match without ties is over
\* after 435 instructions whatever the agents and the oracle do.
OnlyTiesTakeBack ==
    [][\A g \in GameIds :
         LET gs == games[g]
         IN  Exists(g) /\ Played(gs, games'[g]) =>
                 \/ MovesLeft(games'[g]) \in 0..(MovesLeft(gs) - 1)
                 \/ /\ gs.phase = "ReadyToResolve"
                    /\ Tied(gs)
                    /\ MovesLeft(games'[g]) = MovesLeft(gs) + 2]_vars

\* The checks that request_vrf, fulfill_vrf and resolve_round make of the
\* accounts of a game; the slots of the randomness are the caller's affair.
CanRequest(g) ==
    /\ vrf[g] = NoAccount
    /\ ~games[g].pending
    /\ \E k \in Keys, roll \in RollTypes : MayRequest(games[g], roll, k)

CanFulfil(g) == vrf[g] # NoAccount /\ vrf[g].commit_current

CanDecide(g) ==
    /\ MayResolve(g, ADMIN_PUBKEY)
    /\ Tied(games[g]) \/ Fatal(games[g]) \/ games[g].round_number + 1 <= 255

\* A match in progress is never stuck: one of the three instructions that
\* carry it forward passes its checks, for a signer who exists, unless the
\* account of the pending roll shows another seed.  (Whether it also shows a
\* value in the slot of the answer is the caller's affair, and the markets,
\* which can hold up a resolution, are that of AutoBattle.)
NeverStuck ==
    \A g \in GameIds : InProgress(g) /\ ~Lost(g) =>
        CanRequest(g) \/ CanFulfil(g) \/ CanDecide(g)

=============================================================================
