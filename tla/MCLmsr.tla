------------------------------- MODULE MCLmsr -------------------------------
(***************************************************************************)
(* The table of the program with fewer digits.  At a precision of 1/20,    *)
(* LMSR_B is much larger than PRECISION, as in the program, so that the    *)
(* rounding of the spread makes the cost a sawtooth here too.  Where the   *)
(* price itself is the question, the table has three digits.               *)
(***************************************************************************)
EXTENDS LmsrSearch

CoarseTable == <<14, 6, 3, 1, 0, 0, 0, 0, 0, 0, 0>>

\* Around the teeth of the cost, beyond the end of the table, and close to
\* the largest share count, where a cost on the way may not fit.
MCHoldings == {0, 20, 21, 22, 60, 200, 700, 1500, 130870, 131064}

MCTrades == {1, 7, 99, 100, 396, 1446}

FineTable == <<693, 313, 127, 49, 18, 7, 2, 1, 0, 0, 0>>

SmallTrades == {70, 140}
=============================================================================
