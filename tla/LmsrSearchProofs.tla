-------------------------- MODULE LmsrSearchProofs --------------------------
(***************************************************************************)
(* The binary search for every query, table and width: the properties of   *)
(* LmsrSearch as theorems of its specification, and that its last state is *)
(* what the market calls, Searched.                                        *)
(***************************************************************************)
EXTENDS LmsrSearch, LmsrProofs

LEMMA QueryParts ==
    ASSUME query \in Queries
    PROVE  /\ query.supply \in Supplies
           /\ query.outcome \in Outcome
           /\ query.amount \in Nat
           /\ query.supply[query.outcome] \in 0..U64_MAX
<1>1. /\ query.supply \in [Outcome -> Holdings]
      /\ query.outcome \in Outcome
      /\ query.amount \in Trades
  BY DEF Queries
<1>2. \A o \in Outcome : query.supply[o] \in 0..U64_MAX
  BY <1>1, SearchAssumption
<1>3. query.supply \in Supplies
  <2>1. \A o \in Outcome : query.supply[o] \in Nat
    BY <1>2, LmsrAssumption
  <2> QED
    BY <1>1, <2>1 DEF Supplies
<1> QED
  BY <1>1, <1>2, <1>3, SearchAssumption

LEMMA MaxSharesBounds ==
    ASSUME query \in Queries
    PROVE  MaxShares(query.supply, query.outcome, query.amount) \in 0..U64_MAX
<1>1. query.amount * MAX_LEVERAGE \in Nat
  BY QueryParts, LmsrAssumption
<1> QED
  BY <1>1, QueryParts, LmsrAssumption DEF MaxShares, Smaller

\* The middle of a range that is not empty lies in it.
LEMMA MidBounds ==
    ASSUME NEW low \in Nat, NEW high \in Nat, low <= high
    PROVE  low + (high - low) \div 2 \in low..high
  OBVIOUS

\* Nothing bought is always affordable.
LEMMA NothingFits ==
    ASSUME query \in Queries
    PROVE  Fits(0)
  BY QueryParts, CostInt, WithNothing DEF Fits, Affordable

-----------------------------------------------------------------------------

\* The whole range stays within a u64, and `best` is paid for.
Inv == TypeOK /\ Sound(query.supply, query.outcome, query.amount, search)

LEMMA InitInv == Init => Inv /\ BestIsAtTheEdge
<1> SUFFICES ASSUME Init PROVE Inv /\ BestIsAtTheEdge
  OBVIOUS
<1> DEFINE start == SearchStart(query.supply, query.outcome, query.amount)
<1>1. query \in Queries /\ search = start /\ i = 0
  BY DEF Init
<1>2. Sound(query.supply, query.outcome, query.amount, search)
  BY <1>1, QueryParts, SearchStartSound
<1>3. search.low = 0 /\ search.best = 0
      /\ search.high = MaxShares(query.supply, query.outcome, query.amount)
  BY <1>1 DEF SearchStart
<1>4. search.ok \in BOOLEAN
  BY <1>2 DEF Sound
<1>5. search \in Searches
  BY <1>1, <1>3, <1>4, MaxSharesBounds, LmsrAssumption DEF Searches, SearchStart
<1>6. TypeOK
  BY <1>1, <1>5, LmsrAssumption DEF TypeOK
<1> QED
  BY <1>2, <1>3, <1>6 DEF Inv, BestIsAtTheEdge

\* What one iteration does to a range that is not empty.
LEMMA IterateCases ==
    ASSUME TypeOK, Iterate
    PROVE  \/ search' = search
           \/ search' = [search EXCEPT !.ok = FALSE]
           \/ \E mid \in search.low..search.high :
                 /\ Fits(mid)
                 /\ search' = [search EXCEPT !.best = mid,
                                             !.low  = Smaller(mid + 1, U64_MAX)]
           \/ \E mid \in search.low..search.high :
                 /\ ~Fits(mid)
                 /\ search' = [search EXCEPT !.high = Larger(mid - 1, 0)]
<1> DEFINE mid == search.low + (search.high - search.low) \div 2
<1>1. search' = SearchStep(query.supply, query.outcome, query.amount, search)
  BY DEF Iterate
<1>2. CASE Exhausted(search)
  BY <1>1, <1>2 DEF SearchStep
<1>3. CASE ~Exhausted(search)
  <2>1. mid \in search.low..search.high
    <3>1. search.low \in Nat /\ search.high \in Nat
      BY LmsrAssumption DEF TypeOK, Searches
    <3>2. search.low <= search.high
      BY <1>3, <3>1 DEF Exhausted
    <3> QED
      BY <3>1, <3>2, MidBounds
  <2>2. search' =
            IF ~Representable(With(query.supply, query.outcome, mid))
            THEN [search EXCEPT !.ok = FALSE]
            ELSE IF Fits(mid)
            THEN [search EXCEPT !.best = mid, !.low = Smaller(mid + 1, U64_MAX)]
            ELSE [search EXCEPT !.high = Larger(mid - 1, 0)]
    BY <1>1, <1>3 DEF SearchStep, Fits
  <2> HIDE DEF mid
  <2> QED
    BY <2>1, <2>2
<1> QED
  BY <1>2, <1>3

LEMMA NextInv == Inv /\ [Next]_vars => Inv'
<1> SUFFICES ASSUME Inv, [Next]_vars PROVE Inv'
  OBVIOUS
<1>1. CASE Iterate
  <2>1. TypeOK
    BY DEF Inv
  <2>2. query' = query /\ i' = i + 1 /\ i < ITERATIONS
    BY <1>1 DEF Iterate
  <2>3. Sound(query.supply, query.outcome, query.amount, search')
    <3>1. Sound(query.supply, query.outcome, query.amount, search)
      BY DEF Inv
    <3>2. search' = SearchStep(query.supply, query.outcome, query.amount, search)
      BY <1>1 DEF Iterate
    <3>3. query \in Queries
      BY <2>1 DEF TypeOK
    <3> QED
      BY <3>1, <3>2, <3>3, QueryParts, SearchStepSound
  <2>4. search' \in Searches
    <3>1. search \in Searches
      BY <2>1 DEF TypeOK
    <3>2. ASSUME NEW mid \in search.low..search.high
          PROVE  /\ mid \in 0..U64_MAX
                 /\ Smaller(mid + 1, U64_MAX) \in 0..U64_MAX
                 /\ Larger(mid - 1, 0) \in 0..U64_MAX
      BY <3>1, LmsrAssumption DEF Searches, Smaller, Larger
    <3> QED
      BY <1>1, <2>1, <3>1, <3>2, IterateCases DEF Searches
  <2>5. i' \in 0..ITERATIONS
    BY <2>1, <2>2, LmsrAssumption DEF TypeOK
  <2> QED
    BY <2>1, <2>2, <2>3, <2>4, <2>5 DEF Inv, TypeOK
<1>2. CASE UNCHANGED vars
  BY <1>2 DEF vars, Inv, TypeOK
<1> QED
  BY <1>1, <1>2 DEF Next

\* A miss cannot be at 0, so that one share more is exactly the miss.
LEMMA NextEdge == Inv /\ BestIsAtTheEdge /\ [Next]_vars => BestIsAtTheEdge'
<1> SUFFICES ASSUME Inv, BestIsAtTheEdge, [Next]_vars
             PROVE  BestIsAtTheEdge'
  OBVIOUS
<1>1. CASE Iterate
  <2>1. TypeOK /\ query \in Queries /\ search \in Searches
    BY DEF Inv, TypeOK
  <2>2. query' = query
    BY <1>1 DEF Iterate
  <2>3. ASSUME NEW mid \in search.low..search.high, Fits(mid),
               search' = [search EXCEPT !.best = mid,
                                        !.low  = Smaller(mid + 1, U64_MAX)]
        PROVE  BestIsAtTheEdge'
    BY <2>1, <2>2, <2>3 DEF BestIsAtTheEdge, Fits, Searches
  <2>4. ASSUME NEW mid \in search.low..search.high, ~Fits(mid),
               search' = [search EXCEPT !.high = Larger(mid - 1, 0)]
        PROVE  BestIsAtTheEdge'
    <3>1. mid \in Nat /\ mid # 0
      BY <2>1, <2>4, NothingFits, LmsrAssumption DEF Searches
    <3>2. Larger(mid - 1, 0) + 1 = mid
      BY <3>1 DEF Larger
    <3>3. search'.high + 1 = mid /\ search'.low = search.low
          /\ search'.best = search.best /\ search'.ok = search.ok
      BY <2>1, <2>4, <3>2 DEF Searches
    <3> QED
      BY <2>2, <2>4, <3>3 DEF BestIsAtTheEdge, Fits
  <2>5. CASE search' = search
    BY <2>2, <2>5 DEF BestIsAtTheEdge, Fits
  <2>6. CASE search' = [search EXCEPT !.ok = FALSE]
    BY <2>1, <2>6 DEF BestIsAtTheEdge, Searches
  <2> QED
    BY <1>1, <2>1, <2>3, <2>4, <2>5, <2>6, IterateCases
<1>2. CASE UNCHANGED vars
  BY <1>2 DEF vars, BestIsAtTheEdge, Fits
<1> QED
  BY <1>1, <1>2 DEF Next

-----------------------------------------------------------------------------

\* The variables of the loop never leave the range of a u64.
THEOREM SearchTypeCorrect == Spec => []TypeOK
<1>1. Init => Inv
  BY InitInv
<1>2. Inv => TypeOK
  BY DEF Inv
<1> QED
  BY <1>1, <1>2, NextInv, PTL DEF Spec

\* The debug_assert of calc_shares_out holds at every iteration.
THEOREM SearchNeverOverpays == Spec => []NeverOverpaid
<1>1. Init => Inv
  BY InitInv
<1>2. Inv => NeverOverpaid
  BY DEF Inv, Sound, Affordable, NeverOverpaid, Target
<1> QED
  BY <1>1, <1>2, NextInv, PTL DEF Spec

\* `best` stays just below a miss although the cost is not monotone.
THEOREM SearchStaysAtTheEdge == Spec => []BestIsAtTheEdge
<1>1. Init => Inv /\ BestIsAtTheEdge
  BY InitInv
<1>2. Inv /\ BestIsAtTheEdge /\ [Next]_vars => (Inv /\ BestIsAtTheEdge)'
  BY NextInv, NextEdge
<1> QED
  BY <1>1, <1>2, PTL DEF Spec

\* The search takes at most as many iterations as a u64 has bits: the range
\* halves, as Narrowed says, and no saturation keeps it from shrinking.
THEOREM SearchIsLongEnough == Spec => []SearchFinishes
<1> DEFINE Halves == search.ok => Narrowed(query.supply, query.outcome,
                                           query.amount, i, search)
<1>1. ASSUME query \in Queries
      PROVE  FitsTheLoop(query.supply, query.outcome, query.amount)
  BY <1>1, QueryParts, LoopAssumption DEF FitsTheLoop, Queries
<1>2. Init => Inv /\ Halves
  <2> SUFFICES ASSUME Init PROVE Inv /\ Halves
    OBVIOUS
  <2>1. Inv /\ query \in Queries
    BY InitInv DEF Inv, TypeOK
  <2> QED
    BY <1>1, <2>1, QueryParts, StartsNarrow DEF Init
<1>3. Inv /\ Halves /\ [Next]_vars => (Inv /\ Halves)'
  <2> SUFFICES ASSUME Inv, Halves, [Next]_vars PROVE (Inv /\ Halves)'
    OBVIOUS
  <2>1. Inv'
    BY NextInv
  <2>2. query \in Queries /\ i \in 0..ITERATIONS
        /\ Sound(query.supply, query.outcome, query.amount, search)
    BY DEF Inv, TypeOK
  <2>3. CASE Iterate
    <3>1. /\ query' = query /\ i' = i + 1 /\ i \in 0..(ITERATIONS - 1)
          /\ search' = SearchStep(query.supply, query.outcome, query.amount, search)
      BY <2>2, <2>3, LmsrAssumption DEF Iterate
    <3>2. search'.ok => search.ok
      BY <3>1 DEF SearchStep, Exhausted
    <3> QED
      BY <2>1, <2>2, <3>1, <3>2, QueryParts, <1>1, StepNarrows
  <2>4. CASE UNCHANGED vars
    BY <2>1, <2>4 DEF vars
  <2> QED
    BY <2>3, <2>4 DEF Next
<1>4. Inv /\ Halves => SearchFinishes
  <2> SUFFICES ASSUME Inv, Halves, i = ITERATIONS, search.ok
               PROVE  search.low > search.high
    BY DEF SearchFinishes, Exhausted
  <2>1. Narrowed(query.supply, query.outcome, query.amount, ITERATIONS, search)
    OBVIOUS
  <2>2. search.low = search.high + 1 /\ search.low \in Nat /\ search.high \in Nat
    BY <2>1, NarrowedToNothing DEF Narrowed
  <2> QED
    BY <2>2
<1> QED
  BY <1>2, <1>3, <1>4, PTL DEF Spec

\* The state machine runs the loop the market calls: its last state is
\* Searched, so that what the runs find of one holds of the other.
THEOREM SearchIsTheLoop ==
    Spec => [](i = ITERATIONS =>
                   search = Searched(query.supply, query.outcome, query.amount))
<1> DEFINE Run(f) == /\ IsRun(f, ITERATIONS, query.supply, query.outcome,
                              query.amount)
                     /\ Searched(query.supply, query.outcome, query.amount)
                            = f[ITERATIONS]
           Follows == i \in 0..ITERATIONS /\ \E f : Run(f) /\ search = f[i]
           AtEnd   == i = ITERATIONS =>
                          search = Searched(query.supply, query.outcome,
                                            query.amount)
<1>1. Init => Follows
  <2> SUFFICES ASSUME Init PROVE Follows
    OBVIOUS
  <2>1. PICK f : Run(f)
    BY SearchedRuns
  <2>2. i = 0 /\ 0 \in 0..ITERATIONS /\ search = f[0]
    BY <2>1, LmsrAssumption DEF Init, IsRun
  <2> QED
    BY <2>1, <2>2
<1>2. Follows /\ [Next]_vars => Follows'
  <2> SUFFICES ASSUME Follows, [Next]_vars PROVE Follows'
    OBVIOUS
  <2>1. PICK f : Run(f) /\ search = f[i]
    OBVIOUS
  <2>2. CASE Iterate
    <3>1. /\ query' = query /\ i' = i + 1 /\ i + 1 \in 0..ITERATIONS
          /\ i + 1 # 0 /\ (i + 1) - 1 = i
      BY <2>2, LmsrAssumption DEF Iterate
    <3>2. search' = f[i']
      BY <2>1, <2>2, <3>1 DEF Iterate, IsRun
    <3> QED
      BY <2>1, <3>1, <3>2
  <2>3. CASE UNCHANGED vars
    BY <2>1, <2>3 DEF vars
  <2> QED
    BY <2>2, <2>3 DEF Next
<1>3. Follows => AtEnd
  OBVIOUS
<1> HIDE DEF Follows, AtEnd
<1>4. Spec => []AtEnd
  BY <1>1, <1>2, <1>3, PTL DEF Spec
<1> QED
  BY <1>4 DEF AtEnd

=============================================================================
