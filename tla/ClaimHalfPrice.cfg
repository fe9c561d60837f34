SPECIFICATION Spec
CONSTANTS
    LMSR_B = 2920
    PRECISION = 1000
    TABLE <- FineTable
    U64_MAX = 131071
    MAX_LEVERAGE = 40
    ITERATIONS = 17
    Holdings <- MCHoldings
    Trades <- SmallTrades
INVARIANTS
    InitialPriceIsHalf
CHECK_DEADLOCK FALSE
