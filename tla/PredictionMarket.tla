-------------------------- MODULE PredictionMarket --------------------------
(***************************************************************************)
(* One market of the prediction-market program                             *)
(* (programs/prediction-market/src/lib.rs): the Market account, its vault, *)
(* the UserPosition accounts of its traders, and the clock the deadlines   *)
(* are compared with.  Markets share nothing, so one is enough here.       *)
(*                                                                         *)
(* An instruction is one atomic step.  A token transfer out of the vault   *)
(* fails, and the instruction with it, when the vault holds too little;    *)
(* the slippage limits only let the caller refuse a trade.  The mint takes *)
(* no fee on transfers, so that the vault receives what a buyer sends.     *)
(*                                                                         *)
(* As in Hand, an operator named Op_Mistake is Op with a mistake in it.    *)
(***************************************************************************)
EXTENDS Lmsr

CONSTANTS Keys,                   \* public keys that may sign
          Traders,                \* the ones that trade
          ADMIN_PUBKEY,
          GamePda,                \* the game account that owns the market
          NoAccount,              \* the value of an account not allocated
          INITIAL_LIQUIDITY,
          RESOLVE_DEADLINE_SECS,
          CLAIM_WINDOW_SECS,
          RATIO_ONE,              \* 1_000_000_000, a payout of one for one
          Expiries,               \* values of expires_at that callers pass
          Amounts,                \* amounts that buyers pay
          Lots,                   \* numbers of shares sold, beside all
          MaxTime                 \* the clock is not followed any further

ASSUME MarketAssumption ==
    /\ Traders \cup {ADMIN_PUBKEY, GamePda} \subseteq Keys
    /\ INITIAL_LIQUIDITY \in Nat
    /\ RESOLVE_DEADLINE_SECS \in Nat
    /\ CLAIM_WINDOW_SECS \in Nat
    /\ RATIO_ONE \in Nat \ {0}
    /\ Expiries \subseteq Nat
    /\ Amounts \subseteq Nat
    /\ Lots \subseteq Nat
    /\ MaxTime \in Nat

VARIABLES market,     \* the Market account
          vault,      \* the balance of its vault, 0 without a vault
          position,   \* trader -> UserPosition account
          now         \* the clock's unix_timestamp

vars == <<market, vault, position, now>>

Markets == [supply              : Supplies,
            total_volume        : Nat,
            resolved            : BOOLEAN,
            outcome             : Outcome \cup {"None"},
            expires_at          : Nat,
            fee_balance         : Nat,
            lp_withdrawn        : BOOLEAN,
            resolved_at         : Nat,
            winner_payout_ratio : Nat]

UserPositions == [shares : Supplies, claimed : BOOLEAN]

ASSUME NoMarketAssumption == NoAccount \notin Markets \cup UserPositions

Init == /\ market = NoAccount
        /\ vault = 0
        /\ position = [u \in Traders |-> NoAccount]
        /\ now = 0

Open == market # NoAccount

Holds(u) == position[u] # NoAccount

Pay(amount) == vault >= amount /\ vault' = vault - amount

Close(u) == position' = [position EXCEPT ![u] = NoAccount]

\* The market can no longer be resolved.
Overdue == now > market.expires_at + RESOLVE_DEADLINE_SECS

InClaimWindow == now <= market.resolved_at + CLAIM_WINDOW_SECS

-----------------------------------------------------------------------------

\* The init constraints ask that neither account exists.
CreateMarket(authority, expires_at) ==
    /\ ~Open
    /\ authority = ADMIN_PUBKEY
    /\ expires_at > now
    /\ market' = [supply              |-> NoShares,
                  total_volume        |-> 0,
                  resolved            |-> FALSE,
                  outcome             |-> "None",
                  expires_at          |-> expires_at,
                  fee_balance         |-> 0,
                  lp_withdrawn        |-> FALSE,
                  resolved_at         |-> 0,
                  winner_payout_ratio |-> 0]
    /\ vault' = INITIAL_LIQUIDITY
    /\ UNCHANGED <<position, now>>

\* A new position is allocated by the first purchase (init_if_needed).
Held(u) == IF Holds(u) THEN position[u]
           ELSE [shares |-> NoShares, claimed |-> FALSE]

FeeOn(amount) == amount \div 100

BuyShares_FeeNotTaken(u, o, amount) ==
    LET q      == market.supply
        search == Searched(q, o, amount)
        shares == search.best
    IN  /\ Open
        /\ ~market.resolved
        /\ now < market.expires_at
        /\ amount <= 10 * LMSR_B
        /\ FeeOn(amount) > 0
        /\ search.ok
        /\ vault' = vault + amount
        /\ market' = [market EXCEPT !.supply       = With(q, o, shares),
                                    !.total_volume = @ + amount,
                                    !.fee_balance  = @ + FeeOn(amount)]
        /\ position' = [position EXCEPT
                          ![u] = [Held(u) EXCEPT !.shares = With(@, o, shares)]]
        /\ UNCHANGED now

BuyShares(u, o, amount) ==
    LET q      == market.supply
        trade  == amount - FeeOn(amount)
        search == Searched(q, o, trade)
        shares == search.best
    IN  /\ Open
        /\ ~market.resolved
        /\ now < market.expires_at
        /\ amount <= 10 * LMSR_B
        /\ FeeOn(amount) > 0
        /\ search.ok
        /\ vault' = vault + amount
        /\ market' = [market EXCEPT !.supply       = With(q, o, shares),
                                    !.total_volume = @ + trade,
                                    !.fee_balance  = @ + FeeOn(amount)]
        /\ position' = [position EXCEPT
                          ![u] = [Held(u) EXCEPT !.shares = With(@, o, shares)]]
        /\ UNCHANGED now

SellShares_SupplyKept(u, o, shares) ==
    LET q     == market.supply
        gross == AmountOut(q, o, shares)
    IN  /\ Open /\ Holds(u)
        /\ now < market.expires_at
        /\ ~market.resolved
        /\ shares > 0
        /\ position[u].shares[o] >= shares
        /\ gross >= 0
        /\ FeeOn(gross) > 0
        /\ market' = [market EXCEPT !.fee_balance = @ + FeeOn(gross)]
        /\ position' = [position EXCEPT ![u].shares = With(@, o, -shares)]
        /\ Pay(gross - FeeOn(gross))
        /\ UNCHANGED now

SellShares_NotHeld(u, o, shares) ==
    LET q     == market.supply
        gross == AmountOut(q, o, shares)
    IN  /\ Open /\ Holds(u)
        /\ now < market.expires_at
        /\ ~market.resolved
        /\ shares > 0
        /\ shares <= q[o]
        /\ gross >= 0
        /\ FeeOn(gross) > 0
        /\ market' = [market EXCEPT !.supply      = With(q, o, -shares),
                                    !.fee_balance = @ + FeeOn(gross)]
        /\ position' = [position EXCEPT ![u].shares = With(@, o, -shares)]
        /\ Pay(gross - FeeOn(gross))
        /\ UNCHANGED now

SellShares(u, o, shares) ==
    LET q     == market.supply
        gross == AmountOut(q, o, shares)
    IN  /\ Open /\ Holds(u)
        /\ now < market.expires_at
        /\ ~market.resolved
        /\ shares > 0
        /\ position[u].shares[o] >= shares
        /\ shares <= q[o]
        /\ gross >= 0
        /\ FeeOn(gross) > 0
        /\ market' = [market EXCEPT !.supply      = With(q, o, -shares),
                                    !.fee_balance = @ + FeeOn(gross)]
        /\ position' = [position EXCEPT ![u].shares = With(@, o, -shares)]
        /\ Pay(gross - FeeOn(gross))
        /\ UNCHANGED now

ResolveMarket_AnyTime(authority, o) ==
    /\ Open
    /\ authority \in {ADMIN_PUBKEY, GamePda}
    /\ ~market.resolved
    /\ market' = [market EXCEPT !.resolved    = TRUE,
                                !.outcome     = o,
                                !.resolved_at = now]
    /\ UNCHANGED <<vault, position, now>>

\* By the administrator or, through resolve_market_cpi, by the game.  Nothing
\* asks that trading has ended.
ResolveMarket(authority, o) ==
    /\ Open
    /\ authority \in {ADMIN_PUBKEY, GamePda}
    /\ ~market.resolved
    /\ ~Overdue
    /\ market' = [market EXCEPT !.resolved    = TRUE,
                                !.outcome     = o,
                                !.resolved_at = now]
    /\ UNCHANGED <<vault, position, now>>

-----------------------------------------------------------------------------
(* After the resolution.                                                   *)

WinningShares == market.supply[market.outcome]

\* winner_payout_ratio and the amount the administrator takes: one for one
\* and the surplus when the vault covers every winning share.
PayoutRatio ==
    IF WinningShares = 0 THEN 0
    ELSE IF vault >= WinningShares THEN RATIO_ONE
    ELSE (vault * RATIO_ONE) \div WinningShares

Withdrawable_Everything == vault

Withdrawable ==
    IF WinningShares = 0 THEN vault
    ELSE IF vault >= WinningShares THEN vault - WinningShares
    ELSE 0

WithdrawLp(authority) ==
    /\ Open
    /\ market.resolved
    /\ authority = ADMIN_PUBKEY
    /\ ~market.lp_withdrawn
    /\ market' = [market EXCEPT !.winner_payout_ratio = PayoutRatio,
                                !.fee_balance         = 0,
                                !.lp_withdrawn        = TRUE]
    /\ Pay(Withdrawable)
    /\ UNCHANGED <<position, now>>

Payout_DividedFirst(shares) == (shares \div RATIO_ONE) * market.winner_payout_ratio

Payout(shares) == (shares * market.winner_payout_ratio) \div RATIO_ONE

\* The position is marked claimed and closed in the same instruction.
ClaimPayout(u) ==
    LET payout == Payout(position[u].shares[market.outcome])
    IN  /\ Open /\ Holds(u)
        /\ market.resolved
        /\ ~position[u].claimed
        /\ market.lp_withdrawn
        /\ InClaimWindow
        /\ position[u].shares[market.outcome] > 0
        /\ payout > 0
        /\ Pay(payout)
        /\ Close(u)
        /\ UNCHANGED <<market, now>>

\* The market account is closed as well; positions are not.
SweepUnclaimed(authority) ==
    /\ Open
    /\ market.resolved
    /\ market.lp_withdrawn
    /\ authority = ADMIN_PUBKEY
    /\ ~InClaimWindow
    /\ vault' = 0
    /\ market' = NoAccount
    /\ UNCHANGED <<position, now>>

ClosePosition_AnySide(u) ==
    LET shares == position[u].shares
    IN  /\ Open /\ Holds(u)
        /\ \/ shares = NoShares
           \/ /\ market.resolved
              /\ \E o \in Outcome : shares[o] = 0 /\ shares[Opposite(o)] > 0
           \/ position[u].claimed
        /\ Close(u)
        /\ UNCHANGED <<market, vault, now>>

ClosePosition(u) ==
    LET shares == position[u].shares
    IN  /\ Open /\ Holds(u)
        /\ \/ shares = NoShares
           \/ /\ market.resolved
              /\ shares[market.outcome] = 0
              /\ shares[Opposite(market.outcome)] > 0
           \/ position[u].claimed
        /\ Close(u)
        /\ UNCHANGED <<market, vault, now>>

-----------------------------------------------------------------------------
(* A market that was never resolved.                                       *)

SatSub(m, n) == IF m > n THEN m - n ELSE 0

RefundPool_LpForgotten ==
    SatSub(SatSub(vault, INITIAL_LIQUIDITY), market.fee_balance)

RefundPool_WithLiquidity == SatSub(vault, market.fee_balance)

RefundPool ==
    IF market.lp_withdrawn
    THEN SatSub(vault, market.fee_balance)
    ELSE SatSub(SatSub(vault, INITIAL_LIQUIDITY), market.fee_balance)

AllShares(q) == q["Yes"] + q["No"]

Refund(shares) == (AllShares(shares) * RefundPool) \div AllShares(market.supply)

RefundExpired(u) ==
    LET shares == position[u].shares
    IN  /\ Open /\ Holds(u)
        /\ ~market.resolved
        /\ Overdue
        /\ ~position[u].claimed
        /\ AllShares(shares) > 0
        /\ AllShares(market.supply) > 0
        /\ \A o \in Outcome : shares[o] <= market.supply[o]
        /\ market' = [market EXCEPT
                        !.supply = [o \in Outcome |-> @[o] - shares[o]]]
        /\ Pay(Refund(shares))
        /\ Close(u)
        /\ UNCHANGED now

ReclaimExpiredLp_BeforeDeadline(authority) ==
    /\ Open
    /\ authority = ADMIN_PUBKEY
    /\ ~market.resolved
    /\ now > market.expires_at
    /\ ~market.lp_withdrawn
    /\ market' = [market EXCEPT !.lp_withdrawn = TRUE]
    /\ Pay(Smaller(INITIAL_LIQUIDITY, vault))
    /\ UNCHANGED <<position, now>>

ReclaimExpiredLp(authority) ==
    /\ Open
    /\ authority = ADMIN_PUBKEY
    /\ ~market.resolved
    /\ Overdue
    /\ ~market.lp_withdrawn
    /\ market' = [market EXCEPT !.lp_withdrawn = TRUE]
    /\ Pay(Smaller(INITIAL_LIQUIDITY, vault))
    /\ UNCHANGED <<position, now>>

-----------------------------------------------------------------------------

\* The clock of the chain.
Tick == /\ now < MaxTime
        /\ now' = now + 1
        /\ UNCHANGED <<market, vault, position>>

Trade(u) ==
    \E o \in Outcome :
        \/ \E amount \in Amounts : BuyShares(u, o, amount)
        \/ \E shares \in Lots \cup {Held(u).shares[o]} : SellShares(u, o, shares)

Leave(u) == ClaimPayout(u) \/ RefundExpired(u) \/ ClosePosition(u)

Administer(k) ==
    \/ \E expires_at \in Expiries : CreateMarket(k, expires_at)
    \/ \E o \in Outcome : ResolveMarket(k, o)
    \/ WithdrawLp(k)
    \/ SweepUnclaimed(k)
    \/ ReclaimExpiredLp(k)

Next == \/ \E u \in Traders : Trade(u) \/ Leave(u)
        \/ \E k \in Keys : Administer(k)
        \/ Tick

Spec == Init /\ [][Next]_vars

=============================================================================
