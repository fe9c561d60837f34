SPECIFICATION Spec
CONSTANTS
    LMSR_B = 146
    PRECISION = 20
    TABLE <- CoarseTable
    U64_MAX = 131071
    MAX_LEVERAGE = 40
    ITERATIONS = 17
    Holdings <- MCHoldings
    Trades <- MCTrades
INVARIANTS
    TypeOK
    NeverOverpaid
    BestIsAtTheEdge
    SearchFinishes
CHECK_DEADLOCK FALSE
