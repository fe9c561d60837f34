-------------------------------- MODULE Lmsr --------------------------------
(***************************************************************************)
(* The fixed-point market maker of programs/prediction-market/src/lmsr.rs: *)
(* the cost of a pair of supplies is                                       *)
(*     max(yes, no) + b * ln(1 + e^(-|yes - no| / b))                      *)
(* with the logarithm read from a table of eleven points and interpolated. *)
(* Every division rounds down, so the cost is a sawtooth, not a convex     *)
(* function: it may fall when a share is added.                            *)
(*                                                                         *)
(* A trade that overflows a u64 fails; the guards of the callers ask       *)
(* Representable.  The 64 iterations of the search are SearchStep applied  *)
(* again and again to a record; LmsrSearch runs the same steps as a state  *)
(* machine.                                                                *)
(*                                                                         *)
(* As in Hand, an operator named Op_Mistake is Op with a mistake in it.    *)
(***************************************************************************)
EXTENDS Integers

CONSTANTS LMSR_B,       \* LMSR_B_SCALED of the program
          PRECISION,    \* the fixed-point unit of the table
          TABLE,        \* ln(1 + e^-k) * PRECISION at TABLE[k + 1]
          U64_MAX,      \* the largest share count
          MAX_LEVERAGE, \* shares per token the search starts from
          ITERATIONS    \* length of the search loop

ASSUME LmsrAssumption ==
    /\ LMSR_B \in Nat \ {0}
    /\ PRECISION \in Nat \ {0}
    /\ TABLE \in [1..11 -> Nat]
    /\ \A k \in 1..10 : TABLE[k + 1] <= TABLE[k]
    /\ TABLE[1] <= PRECISION    \* ln 2 is less than one
    /\ U64_MAX \in Nat
    /\ MAX_LEVERAGE \in Nat
    /\ ITERATIONS \in Nat

Outcome == {"Yes", "No"}

Opposite(o) == IF o = "Yes" THEN "No" ELSE "Yes"

Supplies == [Outcome -> Nat]

NoShares == [o \in Outcome |-> 0]

-----------------------------------------------------------------------------

Larger(m, n) == IF m > n THEN m ELSE n

Smaller(m, n) == IF m < n THEN m ELSE n

Distance(m, n) == IF m > n THEN m - n ELSE n - m

\* ln(1 + e^-x): on a line between two points of the table, 0 from x = 10 on.
SoftplusNeg(x) ==
    IF x >= 10 * PRECISION THEN 0
    ELSE LET lo   == TABLE[x \div PRECISION + 1]
             hi   == TABLE[x \div PRECISION + 2]
             frac == x % PRECISION
         IN  lo - ((lo - hi) * frac) \div PRECISION

\* The part of the cost above the larger supply, b_ln.
Spread(q) ==
    (LMSR_B * SoftplusNeg((Distance(q["Yes"], q["No"]) * PRECISION) \div LMSR_B))
        \div PRECISION

Cost(q) == Larger(q["Yes"], q["No"]) + Spread(q)

Representable(q) == Cost(q) <= U64_MAX

-----------------------------------------------------------------------------
(* calc_shares_out.                                                        *)

With(q, o, shares) == [q EXCEPT ![o] = @ + shares]

Affordable(q, o, amount, shares) ==
    Cost(With(q, o, shares)) <= Cost(q) + amount

MaxShares_TakesTheSupplyLast(q, o, amount) ==
    Smaller(amount * MAX_LEVERAGE, U64_MAX) - q[o]

MaxShares(q, o, amount) ==
    Smaller(Smaller(amount * MAX_LEVERAGE, U64_MAX), U64_MAX - q[o])

\* `ok` turns FALSE when a cost on the way does not fit a u64.
SearchStart(q, o, amount) ==
    [low  |-> 0, high |-> MaxShares(q, o, amount), best |-> 0,
     ok   |-> Representable(q) /\ Cost(q) + amount <= U64_MAX]

Exhausted(s) == s.low > s.high \/ ~s.ok

SearchStep_KeepsMid(q, o, amount, s) ==
    LET mid == s.low + (s.high - s.low) \div 2
    IN  IF Exhausted(s) THEN s
        ELSE IF ~Representable(With(q, o, mid)) THEN [s EXCEPT !.ok = FALSE]
        ELSE IF Affordable(q, o, amount, mid)
        THEN [s EXCEPT !.best = mid, !.low = Smaller(mid + 1, U64_MAX)]
        ELSE [s EXCEPT !.high = mid]

SearchStep_SkipsOne(q, o, amount, s) ==
    LET mid == s.low + (s.high - s.low) \div 2
    IN  IF Exhausted(s) THEN s
        ELSE IF ~Representable(With(q, o, mid)) THEN [s EXCEPT !.ok = FALSE]
        ELSE IF Affordable(q, o, amount, mid)
        THEN [s EXCEPT !.best = mid, !.low = Smaller(mid + 1, U64_MAX)]
        ELSE [s EXCEPT !.high = Larger(mid - 2, 0)]

SearchStep_RemembersLast(q, o, amount, s) ==
    LET mid == s.low + (s.high - s.low) \div 2
    IN  IF Exhausted(s) THEN s
        ELSE IF ~Representable(With(q, o, mid)) THEN [s EXCEPT !.ok = FALSE]
        ELSE IF Affordable(q, o, amount, mid)
        THEN [s EXCEPT !.best = mid, !.low = Smaller(mid + 1, U64_MAX)]
        ELSE [s EXCEPT !.best = mid, !.high = Larger(mid - 1, 0)]

\* One iteration of the loop; nothing changes once the range is empty.
SearchStep(q, o, amount, s) ==
    LET mid == s.low + (s.high - s.low) \div 2
    IN  IF Exhausted(s) THEN s
        ELSE IF ~Representable(With(q, o, mid)) THEN [s EXCEPT !.ok = FALSE]
        ELSE IF Affordable(q, o, amount, mid)
        THEN [s EXCEPT !.best = mid, !.low = Smaller(mid + 1, U64_MAX)]
        ELSE [s EXCEPT !.high = Larger(mid - 1, 0)]

\* The search after all iterations.
Searched(q, o, amount) ==
    LET after[n \in 0..ITERATIONS] ==
            IF n = 0 THEN SearchStart(q, o, amount)
            ELSE SearchStep(q, o, amount, after[n - 1])
    IN  after[ITERATIONS]

\* What a range of shares shrinks by in n iterations.
TwoToThe[n \in 0..ITERATIONS] == IF n = 0 THEN 1 ELSE 2 * TwoToThe[n - 1]

-----------------------------------------------------------------------------
(* calc_amount_out.  The sale fails when the result is negative.           *)

AmountOut_OneForOne(q, o, shares) == shares

AmountOut(q, o, shares) == Cost(q) - Cost(With(q, o, -shares))

=============================================================================
