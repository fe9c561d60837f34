------------------------------- MODULE Escrow -------------------------------
(***************************************************************************)
(* What a prediction market promises about the tokens in its vault, with   *)
(* prices, positions and deadlines left out: a market goes through stages, *)
(* and each stage says which tokens may move.                              *)
(*                                                                         *)
(*   None -> Trading -> Closed -> Dead -> Reclaimed                        *)
(*              |          |                                               *)
(*              +----------+--> Resolved -> Settling -> Lapsed -> None     *)
(*                                                                         *)
(* Traders pay in and out while the market trades; nothing moves between   *)
(* the end of trading and either the release by the administrator, after   *)
(* which winners are paid until their time has lapsed, or the death of the *)
(* market, after which traders are refunded: never both, and nobody is     *)
(* paid any more once the sweep is open.  The outcome is set once.         *)
(* PredictionMarket implements this specification (MarketProperties).      *)
(***************************************************************************)
EXTENDS Integers

CONSTANT Outcomes

VARIABLES stage,     \* of the market
          outcome,   \* "None" until the market is resolved
          vault      \* tokens held for the market

escrow == <<stage, outcome, vault>>

Init == stage = "None" /\ outcome = "None" /\ vault = 0

Become(from, to) == stage \in from /\ stage' = to

\* The administrator pays in the liquidity.
Open == /\ Become({"None"}, "Trading")
        /\ vault' \in Nat
        /\ UNCHANGED outcome

Trade == /\ stage = "Trading"
         /\ vault' \in Nat
         /\ UNCHANGED <<stage, outcome>>

\* Time runs out: to trade, to resolve the market, or to claim.
Expire == /\ \/ Become({"Trading"}, "Closed")
             \/ Become({"Closed"}, "Dead")
             \/ Become({"Settling"}, "Lapsed")
          /\ UNCHANGED <<outcome, vault>>

Resolve == /\ Become({"Trading", "Closed"}, "Resolved")
           /\ outcome' \in Outcomes
           /\ UNCHANGED vault

\* The administrator takes what the winners are not owed, perhaps when their
\* time is over.
Release == /\ Become({"Resolved"}, "Settling") \/ Become({"Resolved"}, "Lapsed")
           /\ vault' \in 0..vault
           /\ UNCHANGED outcome

\* A winner is paid.
Claim == /\ stage = "Settling"
         /\ vault' \in 0..vault
         /\ UNCHANGED <<stage, outcome>>

\* What nobody claimed goes to the administrator, and the market is gone.
Sweep == /\ Become({"Lapsed"}, "None")
         /\ outcome' = "None"
         /\ vault' = 0

Refund == /\ stage \in {"Dead", "Reclaimed"}
          /\ vault' \in 0..vault
          /\ UNCHANGED <<stage, outcome>>

Reclaim == /\ Become({"Dead"}, "Reclaimed")
           /\ vault' \in 0..vault
           /\ UNCHANGED outcome

Next == \/ Open \/ Trade \/ Expire \/ Resolve \/ Release
        \/ Claim \/ Sweep \/ Refund \/ Reclaim

Spec == Init /\ [][Next]_escrow

=============================================================================
