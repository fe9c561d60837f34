# Verification of autobattle-contracts

TLA+ models of the two Solana programs of this repository, the runs that check
them with TLC on small instances, and theorems about them checked by TLAPS.
Paths are relative to the repository; `game.rs` is
`programs/game-engine/src/instructions/game.rs`, `lib.rs` is
`programs/prediction-market/src/lib.rs`.

## The system

Two agents play a blackjack match, round after round, until one of them has no
hit points left. Users trade shares of its outcome. Every instruction of a
program is one atomic transaction: if any check fails, nothing has happened.
What is concurrent is the order in which the transactions of the crank, the
agents, the traders, the administrator and the randomness accounts arrive, and
the passing of slots and seconds between them.

| Part | State | Operations | Interacts with |
| --- | --- | --- | --- |
| Hand (`apply_card`) | score and soft aces of one player, two u8 | draw a card | called by `fulfill_vrf` |
| Registry (`registry.rs`) | authority, game count, current game, cooldown, one `game_active` flag | `initialize_registry`, `update_cooldown` | written by `init_game`, `resolve_round` |
| Match (`game.rs`) | one GameState per game: agents, hit points, hands, stays, round, phase, turn, winner, pending slot, upgrade lock | `init_game`, `request_vrf`, `fulfill_vrf`, `stay`, `resolve_round`, `unlock_upgrade` | Registry, VRFRequest, Switchboard, market (CPI) |
| VRFRequest | commit slot, randomness account, player, roll type; exists while a roll is pending | created by `request_vrf`, closed by `fulfill_vrf` | Match |
| Randomness account (external) | seed slot, reveal slot, value | whatever its owner writes | read by `request_vrf`, `fulfill_vrf` |
| Market maker (`lmsr.rs`) | none | cost, shares for an amount, amount for shares | called by purchases and sales |
| Market (`lib.rs`) | Market account, vault, one UserPosition per trader | ten instructions from `create_market` to `reclaim_expired_lp` | resolved by the administrator or by the match |

What makes it hard:

- *Rolls.* A roll is requested in one transaction and answered in another, and
  is recorded in two accounts; the answer is applied to the game as it is then.
  The randomness account is shared, may change in between, and counts only if it
  shows the seed of the request, and a value of the slot of the answer.
- *Turns.* Hits, automatic stays at 21, voluntary stays (also out of turn) and
  ties all recompute the turn and the phase.
- *Several games.* Games overlap, and share one `game_active` flag.
- *Rounding.* The market maker rounds three times per cost; with `b` much
  larger than the fixed-point unit the cost is a sawtooth, and the purchase
  searches it as if it were monotone.
- *Deadlines.* Resolution, refunds, reclaim, claims and the sweep are separated
  only by comparisons with `expires_at` and `resolved_at`.
- *Order.* Claims and refunds are paid from one vault by separate transactions
  in any order, with the liquidity leaving somewhere in between.
- *Two programs in one transaction.* `resolve_round` resolves up to two markets
  by calls of the other program, finds them by their position among the accounts
  the crank passes, and fails as a whole when one of them cannot be resolved.

What makes each part correct:

- Hand: the running total is the best total of all the cards held.
- Registry: it counts the games, and its active flag never points at a
  finished one.
- Match: the two records of a roll agree; nothing moves during a roll; cards
  come from the committed seed; the turn is open; hands keep to their ranges;
  phase, winner and hit points agree; the match is a Duel; it is never stuck
  while the account of its roll shows the seed, and only ties prolong it.
- Market maker: a buyer never gets shares worth more than was paid; the search
  ends, at an edge of what is affordable.
- Market: shares are accounted for; the vault covers the cost function, the
  winners and every refund, in any order; a market is either resolved or
  refunded, never both; at every stage everyone can leave it.
- Both together: a match ends in the step that resolves its main market, for the
  same winner; a round market is resolved by its own round only; nothing but the
  main market can keep a round from being resolved.

## Modules

| Module | Role |
| --- | --- |
| `Hand` | `apply_card` as operators on `[score, aces]`, without recursion |
| `HandDraws` | one hand drawing cards, beside the plain account of what it holds |
| `Duel` | abstract specification of a match: hit points, rounds, winner |
| `GameEngine` | registry, games, requests, randomness accounts; one action per instruction |
| `GameProperties` | its invariants, action properties, refinement of `Duel`, variant |
| `GameClaims` | what the README says and the program does not do |
| `Lmsr` | the cost function, the search and the sale price |
| `LmsrSearch` | the search loop as a state machine |
| `Escrow` | abstract specification of a market: its stages, and which tokens may move in each |
| `PredictionMarket` | one market with its vault, positions and clock |
| `MarketProperties`, `MarketClaims` | its properties, the refinement of `Escrow`, and a refuted claim |
| `AutoBattle` | both programs: one match, its main market and the market of one round |
| `HandProofs`, `HandDrawsProofs` | proofs about the hand |
| `GameEngineProofs`, `GameStepProofs` | proofs about the game engine |
| `LmsrProofs`, `LmsrSearchProofs` | proofs about the cost and the search |
| `MarketProofs` | proofs about the market |
| `AutoBattleProofs` | proofs about both programs, from those of the parts |
| `MCHandDraws`, `MCGame`, `MCLmsr`, `MCMarket`, `MCAutoBattle` | instances for TLC |

An operator named `Op_Mistake` stands before `Op` and is `Op` with a plausible
mistake. No specification uses it; put in the place of `Op` it makes a property
fail, which shows that the property depends on that piece of the program
(`PROJECT.json`, "mutants").

### Game engine

`registry`, `games`, `vrf` and `rand` are the accounts; an account that does
not exist is `NoAccount`, which is how Anchor's `init` and `close` constraints
appear as guards and effects. `p1_x` and `p2_x` become `x["Red"]` and
`x["Blue"]`. Signers are the parameters `crank`, `agent`, `authority` of the
actions. The handlers' effects on the GameState record are operators that
return the new record (`Requested`, `Fulfilled`, `Stayed`, `AfterTie`,
`AfterRound`, `AfterFatal`), so that the proofs can be about records.

The program compares slots only for equality, so that the state keeps the
outcomes of the comparisons: `fresh` (the seed slot is the previous slot),
`revealed` (the reveal slot is this slot) and, in a request, `commit_current`
(the account has the seed slot of the request). `Tick` and `AccountChanges` are
the environment; time is unbounded and the state finite. The two random bytes
are chosen when they are read, since nothing reads them earlier.

What is assumed of the randomness accounts. `request_vrf` and `fulfill_vrf` take
the account as a raw account and parse its data (`game.rs:41, 60, 167, 214`);
they ask for no owner. So the model assumes nothing of how it changes:
`AccountChanges` may set the seed, take the seed of a pending request away and
put it back, and show a value or not, in any slot. This is more than an account
of the oracle does, never less, and every safety property holds on top of it.
What no property says, because the program does not provide it: that the data
comes from Switchboard, that the value is fair, or that a value is used once.
Two games that request on one account in one slot record the same seed and may
both be dealt its value.

`resolve_round` is split by its early return and its last branch into a tie, a
survived round and a fatal round. In this module its calls to the markets
succeed; `AutoBattle` adds when they do.

`OnlyTheCommittedSeedAnswers` is what the comparison with `commit_slot` is for.
While the account does not show, in the present slot, the seed of the request and
a value, the roll stays: there is no instruction that cancels, replaces or times
it out, and by `PlayStopsForTheRoll` the match stands still as long. The other
side of it is that an account which never shows them again holds up its match for
ever; whether it does is the affair of its owner. `Lost` is the state in which it
shows another seed.

How a match gets on: `NeverStuck` says that in every state of a match in
progress, unless its roll is lost, the accounts pass the checks of one of
`request_vrf`, `fulfill_vrf` and `resolve_round`; and `OnlyTiesTakeBack` that
every instruction that changes the match (the upgrade lock aside) lowers
`MovesLeft`, a number from 0 to 435, but for a tie, which raises it by two. So
whatever order requests, answers, hits, stays in or out of turn and resolutions
come in, a match with n ties is over after at most 435 + 3n of them. Whether
they come is another matter (see Fairness).

### Market

`market`, `vault`, `position` and `now` are the accounts of one market and the
clock. The check, the effect and the close constraint of an instruction are one
action. `Pay` is a transfer out of the vault, which fails when the vault holds
too little: an invariant that says the vault is large enough is thus also the
reason that no claim or refund is refused. Left out: the question text, events,
rent, slippage limits (they only make a call fail), transfers to the vault by
other programs, and mints that take a fee on transfers.

`LMSR_B`, `PRECISION`, `TABLE`, the u64 width and the deadlines are constants,
because TLC's integers have 32 bits.

A sweep closes the market and not its positions, and the market may then be
created again under the same seeds. The positions of its first life still hold
their shares, which the new supplies do not count. `SharesStayAccounted` says
that this (`Renews`) is the only step that upsets the books (`Accounted`: before
the resolution the supplies are the sum of the positions, after it at least that
sum); `ClaimsStayCovered` and `RefundsHold` hold of markets whose books are
right. What holds without this condition (`VaultCoversTheCost`,
`WinnersArePaidInFull`, `LiquidityIsKept`, `NothingIsForfeited`, the refinement)
is checked over renewed markets as well.

`NobodyIsLockedOut` looks at the market from the side of one holder: while the
books are right and the winners covered, whoever has a position passes every check, the transfer
included, of an instruction that leads out of it. While the market trades, all
the shares of an outcome can be sold (if the sale is worth a fee: a fee of zero
is refused); in the claim window the position can be claimed or closed; in a
dead market it can be refunded or closed. In particular no payout is rounded
down to nothing. A winner who lets the claim window pass can do neither, which is
how the program is meant to work.

`Escrow` leaves out prices, positions and times and keeps what a market promises
about the tokens: the vault moves while the market trades, then not at all until
the administrator has released it to the winners or the deadline has released it
to the refunds, never both; winners are paid until the claim window has passed
and the sweep takes the rest after it; the outcome is set once; what is reclaimed is never
followed by a resolution. `StageNow` and `OutcomeNow` are the refinement mapping.

### Both programs

`AutoBattle` puts a `GameEngine` with one match beside two instances of
`PredictionMarket`, the main market (index 0) and the market of one round
(`FollowedRound`), on one clock. The instances have no traders:
`resolve_market` reads the flags and times of a market and writes its outcome,
none of which a trader changes. `ResolveRoundWith(g, crank, accounts)` is
`resolve_round` with its `remaining_accounts`: the cases of `GameEngine`
conjoined with what each does to the markets, so that a call that is not enabled
fails the whole step. Index 0 is skipped when it is absent or has no data,
refused when it is not the market of the present round, and resolved otherwise;
a fatal round needs the main market at index 1. A call also needs the program
itself among the accounts.

The properties: a match ends in the step that resolves its main market, with
Red's win as Yes and Blue's as No, and the game resolves that market in no other
step (`MatchSettlesItsMarket`); the round market is resolved by the game only in
its own round, against the player who lost hit points in that step
(`RoundSettlesItsMarket`); whatever became of the round market, some list of
accounts resolves the round, except that a fatal round waits for a main market
that exists, is unresolved and is in time (`OnlyTheMainMarketBlocks`); once that
deadline has passed the match can never end (`BlockedForGood`); and the list of
accounts that the drivers under `scripts/` pass is refused in every round but a
tie (`TheScriptsListIsRefused`).

## Runs

| Run | Instance | Shows |
| --- | --- | --- |
| `HandDraws` | bytes for all 13 faces and 255, hard totals to 70 | totals and downgrades are right for every sequence of cards |
| `GameMatch` | one game, nines and tens, two cooldowns | whole matches with ties refine `Duel`; ends agree; only ties prolong a match |
| `GameRound` | one round; ace, four, ten; two randomness accounts that change in any way | hands, turns and stays in all orders of play; the rolls' bookkeeping and commitment; no dead ends, no going round in circles |
| `GameRegistry` | two games at once, Red never hurt | count and active flag |
| `SharesOut` | supplies around the teeth of the cost, past the end of the table and near the largest u64 | the search |
| `Market` | two traders, trades of 500 and 1460, expiry at 1 or 3, deadlines of 1, a second life | accounting, solvency, payment in full, refunds, reclaim and resolution; the way out for everyone |
| `AutoBattle` | one match, the market of its fourth round, 29 lists of accounts | which round resolves which market, and what can keep it from doing so |

Bounds of the game runs. Cards are few because only their values matter: ties
need two hands at one distance from 21, wins and losses two values, aces and
downgrades an ace with small and large cards. `FirstRound` stops after the
first round, tiebreakers included; every later round starts from the same
record except for hit points and round number, which `GameMatch` covers over
whole matches. `RedUnhurt` keeps to matches Red does not lose a round of, which
halves the match but not the interleavings of two games. `LockOn` leaves out
`unlock_upgrade` where the lock is not the question; it fires in `GameMatch`.
`SeedsKept` leaves out the states in which an account shows another seed than
that of its pending roll; `GameRound`, which is about rolls, has them.
`UsualCooldown` lets the cooldown vary until the first game. `MaxGameId` bounds `game_count`. All runs set CHECK_DEADLOCK
FALSE only where the system may stop: a finished hand, a decided match, a search
at its end, a clock at `MaxTime`, or (with a shared configuration) a game whose
environment always moves anyway.

Bounds of the market runs. The table is the program's at a precision of 1/20,
with `b` = 146. `b` > `PRECISION`, as in the program (144_270_000_000 against
1_000_000), keeps the teeth of the cost. The cost of the empty market is 102
against a liquidity of 100; in the program it is 100_000_317_690 against
100_000_000_000, so that fees have to cover the difference. 1460 is the largest
bet, ten times `b`; it drives the market past the end of the table. With these numbers the vault
always covers the winning shares (`WinnersArePaidInFull`), so that the branch of
`withdraw_lp` that pays less than one for one is not taken. `LiquidityIsEnough`
is the condition on the constants from which this is proved for every market;
it holds of the numbers of the program too (see Proofs). `FewTrades`
(`MaxVolume`, `MaxFees`) ends trading after a few purchases and sales. With
`expires_at` = 1 and deadlines of 1, a clock to 3 reaches every comparison from
both sides. A market is resolved at 0 and swept at 2 at the earliest; the expiry
3 is for its second life (`RenewedLate`), in which one fair purchase, sales, a
resolution, the withdrawal, claims and close_position are followed, on top of
the positions of the first life. The two traders are interchangeable (SYMMETRY, safety
properties only). The search needs 17 iterations for at most 73_000 candidates;
in the program a bet of at most 10 b gives less than 2^57 candidates for 64
iterations. In `SharesOut` the largest share count is 2^17 - 1, for as many
iterations as it has bits, as in the program with its u64 and 64 iterations;
supplies close to it make a cost on the way overflow.

Bounds of the run `AutoBattle`. Every list of up to two accounts is passed, and
those of three with a market in the second place and the program at the end;
other third accounts make no difference. Cards are tens, and at most one hand of
a round is hit (`OneHit`), which then loses; otherwise the round is tied.
`RedLeads` lets Red win the first three rounds, so that the fourth may be
survived (by Blue's win) or fatal, and the fifth is fatal either way. Markets
are created, and the clock starts, when the fourth round is ready to be resolved
(`MarketsComeLate`): before that no instruction of the game looks at a market,
the fifth round is played beside markets in all their states, and a skipped
round market is a case of the fourth and fifth round too. Expiry 1 and a
deadline of 0 with a clock to 2 put both sides of the resolution deadline within
reach; the administrator may resolve, withdraw, sweep and create the main market
again, the round market keeps its liquidity (`RoundKeepsLiquidity`), so that it
is not swept.

### Refuted claims

Each run below shows by a counterexample that a sentence of the repository does
not describe the program; `PROJECT.json` quotes the sentences.

| Run | The program |
| --- | --- |
| `ClaimStay` | lets the waiting agent stay out of turn |
| `ClaimBust` | compares distances to 21, so a bust hand may win |
| `ClaimHalfPrice` | sells the first shares at 0.62, not 0.5 |
| `ClaimRedeem` | can let the claim window pass before claims are possible |

Other sentences that the program contradicts, read from the code and without a
run of their own (`README.md` is the one at the root of the repository):

- `README.md:119` deals two cards to each player; roll type 0 deals one.
- `README.md:148` turns three aces into 30, 20, 10, 1; `apply_card` makes them
  13, which is the best total (`BestTotal`).
- `README.md:159` keeps `upgrade_locked` during a game; `unlock_upgrade` does
  not look at the phase.
- `README.md:160` has `init_game` check the cooldown; it checks neither a time
  nor `game_active`. Games overlap, the end of one clears the flag for all, and
  `update_cooldown` is open again while another one is played.
- `README.md:161` allows refunds after 3 minutes; `refund_expired` waits for
  48 hours.
- `README.md:162` keeps positions open until they are closed by hand;
  `claim_payout` and `refund_expired` close them.
- `scripts/play_devnet.ts:119` and `scripts/combined_test.ts:102` resolve a round
  with the main market and the program as remaining accounts. Index 0 is where
  the round market is expected: while the main market exists, every round that
  is not a tie is refused (`TheScriptsListIsRefused`, checked by `AutoBattle`).
  Both also create the main market without the `creator_token_account` that
  `create_market` requires.
- `tests/autobattle.test.ts:242` blocks the withdrawal of the liquidity while
  claims are pending; claims wait for that withdrawal.

### Fairness

None is assumed, and no run is about liveness. The programs schedule nothing:
every instruction waits for somebody to send it, nothing makes an agent move, a
crank answer or an administrator act, and there is no timeout that would. Nor do
the drivers under `scripts/` promise any of it. They send each transaction once,
an exception ends them (or is passed over, at `resolve_round`), `play_devnet.ts` never requests the tiebreaker's roll,
and the account list of both is refused in every round but a tie. What takes the
place of liveness are statements about the steps themselves: `NeverStuck`,
`OnlyTiesTakeBack`, `NobodyIsLockedOut` and `OnlyTheMainMarketBlocks` say that a
way on exists and that every step along it counts, and `BlockedForGood` says
where there is none.

## Proofs

Proved with TLAPS for every value of the constants: any number of games, keys,
randomness accounts and traders, every set of bytes, every table, liquidity,
amount and deadline. The assumptions are the named ASSUMEs of the modules: the
administrator is a key, bytes are bytes, numbers are natural numbers, the table
does not increase and its first entry, ln 2, is at most one, the traders are
finitely many (`FewTraders`), `NoAccount` is no account. Two more relate
constants to each other. `LoopAssumption` (of `LmsrSearch`) says that a u64 has
no more bits than the loop has iterations and that no purchase pays for the
largest share count: `buy_shares` refuses more than 10 b, which times the
leverage of 50_000 is below 2^57. Without it the saturating step past the largest
count would leave the range non-empty. `LiquidityAssumption` (of
`MarketProperties`) says that the spread still makes up for what
INITIAL_LIQUIDITY lacks of the cost of an empty market (`Shortfall`) when one
supply leads by that cost and `VolumePerFee` times the shortfall. In the program
the shortfall is 317_690, the lead 100_063_220_310, and the spread there above
60_000_000_000. TLC evaluates the assumptions in every run.

**Hand.** `HandProofs` proves what the downgrade loop does (`DowngradesSpec`: the
first k at which its condition is false exists and is unique) and
`ApplyCardSpec`, which all else rests on. `HandDrawsProofs` proves `BestTotal`:
the strengthening is that every ace adds at least one to the hard total, so that
a hand with an ace of its own and one more is never below 2.

**Game engine.** `GameEngineProofs` proves the inductive invariant `Inv`: a
conjunction of types, of the registry's count, and, for each game, of `GameInv`,
a predicate on one GameState record and its VRFRequest. `GameInv` collects
`RollOK`, `HandOK`, `TurnOK`, `EndOK` and the sum of the hit points. None of them
is inductive alone: that a hit leaves a hand of at most 30 needs the hand to be
at most 20, which is true because the turn is never with a player who has
stayed; that an answer finds its game in the right phase needs the agreement of
the two records; that types are kept (no u8 leaves its range) needs the ranges
of the hands and the five rounds that follow from the hit points. Each handler
has a lemma about records (`GameInv` before gives `GameInv` after), each action a
lemma that applies it to the one game it changes, and `Invariance` combines them.
The invariants of `GameProperties` follow, and `Refinement` shows that each step
is a step of `Duel` or stutters. `GameStepProofs` uses the invariant for the
action properties: nothing moves during a roll, stayed hands stand, only the
committed seed answers a roll. Since `AccountChanges` may do anything to an
account, these hold for every behaviour of the oracle and of whoever owns it.

That a match ends would need somebody who plays it; what it rests on is proved.
`MatchesRunDown` proves `OnlyTiesTakeBack`: the variant `MovesLeft` counts what may
still come in this round, and 87 for each round after it. In a round it falls
because the hard total of a hand (every ace as 1) rises with every card
(`CardAddsUp`), although the score may fall, and a player whose hard total is 21
has stayed; between rounds it falls because the hit points bound the rounds by
five (`StakesOK`). `MovesAreLimited` gives its bounds. `NoDeadEnds` proves
`NeverStuck` from `Inv` alone: a pending roll has its request, the player whose
turn it is may hit, since the turn is open and the hand is at most 20, and a
round that is ready has a registry and a round number far from 255.

**Market maker.** `Searched` folds the iterations of the search into a recursive
function. What it computes cannot be proved by the library's induction theorems
(they take an operator as parameter); `SetInduction` states induction for a set
of numbers instead, with which `LmsrProofs` shows that the function exists, that
each step keeps `Sound` (the best count so far is affordable) and hence
`SearchedSound`. That shares sold back at once bring no more than was paid
(`RoundTripGainsNothing`) follows. This is all a purchase needs, and it needs no convexity: the
cost may go up and down between the counts the search has tried. `Narrowed` says
what the range is after n iterations: not more than one part in 2^n of a u64 is
left, `best` is just below it and the count above it is a miss. A hit leaves the
upper half and a miss the lower one (`StepNarrows`); a miss is never at 0, and no
bound saturates while the range stays below the largest count. After the last
iteration nothing is left, so that the result is an edge (`SearchedAtTheEdge`).
Powers of two are the recursive function `TwoToThe`, since the provers know
nothing of exponents. `LmsrSearchProofs` proves types, `NeverOverpaid`,
`BestIsAtTheEdge` and `SearchFinishes` of the loop as a state machine, and that
the machine ends in `Searched` (`SearchIsTheLoop`).

About the cost, `LmsrProofs` shows that the interpolated logarithm falls and by
how much at most (`SoftplusNegFalls`, `SoftplusNegSlope`), that the spread falls
when the supplies move apart (`SpreadFalls`), and, in spite of three roundings,
that no supplies cost less than none (`EmptyIsCheapest`).

**Market.** `MarketProofs` proves the inductive invariant `Base`: types, that a
market has an outcome exactly when it is resolved, that liquidity taken from an
unresolved market means that the deadline has passed, and that no position is
ever marked as claimed and left open. The second is what makes a reclaimed
market one that nobody can resolve any more, which solvency and the refinement
rest on. Purchases and sales are one lemma (`Traded`: n shares move for an
amount that, the fee aside, is no better for the trader than the cost
function), from `SearchedSound` for the one and from the rounding of
`AmountOut` for the other; `VaultCoversTheCost` follows. The books need sums over
the positions: `SumFunction` picks the elements in an order of its own, and
`SubsetInduction` (on the size of a subset) shows what does not depend on that
order: that a sum follows a change of one term (`SumUpdate`), is at least each
term, and that scaled and rounded-down terms stay below the scaled sum
(`SumScaled`). With them every step that moves a position moves the supply alike
(`SharesStayAccounted`), the withdrawal leaves what the winners together are
owed and each claim takes exactly its own term (`ClaimsStayCovered`), and a
refund, being rounded down, never lowers the share of the others
(`RefundsHold`).

`LiquidityIsKept` needs `VaultCoversTheCost`, `EmptyIsCheapest` and `Base`:
whatever is sold back, the cost does not fall below that of the empty market,
and after the deadline a refund takes its part of what lies above the liquidity
and the fees only. `WinnersArePaidInFull` needs more: that the vault covers the
cost says nothing for the winners as long as the cost of the empty market,
which the liquidity does not quite reach, is to be deducted. The strengthening
is `Funded`. `FeesFollow` bounds the cost by the fees: each trade brings a fee of
at least one part in `VolumePerFee` of what it adds. So either the supplies are
close, and their spread alone makes up for the shortfall, or one of them leads so
far that the fees of the trades it took do (`SharesArePaidFor`).
`WinnersAwaited` carries this from the resolution, after which nothing is traded,
to the withdrawal, where the ratio is fixed. `PromisesKept` shows that each step is a step of `Escrow`.

`NobodyLockedOut` puts the pieces together. `ChecksOfTheActions` shows that the
conditions of `CanSell`, `CanClaim`, `CanRefund` and `CanClose` are those of the
actions, no more and no fewer: each action is its condition and assignments to
the variables. That they hold then takes `VaultCoversTheCost` for a sale (whose
proceeds the vault has because no supplies cost less than none), `Funded` for a
claim (the ratio is one for one, so that nothing is rounded away) and what
`Covered` says for its transfer, and the books for a refund.
`FirstLivesAreCovered` does without the two conditions: as long as no market is
created again over old positions (`Renews`), both always hold.

**Both programs.** `AutoBattleProofs` shows that a step of the whole is a step
of the engine and a step of each market (`EngineSteps`, `MainSteps`,
`RoundSteps`), so that the invariants proved of the parts hold of the whole:
`EngineIsKept`, `MarketsAreKept`. It instantiates `MarketProofs` for each market
and first proves what that module assumes (`MainFits`, `RoundFits`). The
properties about markets and match follow from `EndsByTheCall` (a match in
progress goes on unless the main market is resolved in the same step), from what
a call does to a market, and from `DeadStaysDead`.

`OnlyTheMainMarketBlocks` says ENABLED. Its counterpart without it,
`OnlyTheMainMarketHoldsUp`, is proved for lists of accounts of any length:
`Accepted` spells out the checks of `resolve_round` and of its calls, and
`AcceptedIsResolved` shows that the instruction is exactly these checks and an
assignment to every variable (`Effects`), so that what is accepted can happen.

Only model-checked:

- `OnlyTheMainMarketBlocks`: ENABLED is something the provers do not know; what
  is proved in its place is above.

## Not modelled

- Concrete u64 slots, in particular slot 0, where `pending_commit_slot` = 0
  cannot be told from "none". All comparisons of slots are for equality, and the
  models keep their outcomes.
- `expires_at` close to the largest i64, where adding the deadline overflows and
  fails.
- Several round markets at once. They share no account; any one of them may be
  the one followed.
- Trading while a match is played, in one run with it: a trade and a call of the
  game meet in the market's flags only, and `Market` has both resolving in every
  order with the trades.
- Events, account sizes, rent, error texts, the TypeScript clients. They keep no
  state that an instruction reads.

## Plan

All parts that keep state are modelled, and all that the runs check is proved but
for ENABLED. What would come next: if the program checks the owner of the
randomness account, `AccountChanges` with the steps of the oracle only; if it
gains an instruction that cancels a roll, or a driver that retries, a liveness
property under the fairness of that driver; if it gains a second fee, or another
liquidity, the numbers of `LiquidityIsEnough`.
