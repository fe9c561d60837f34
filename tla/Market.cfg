SPECIFICATION Spec
CONSTANTS
    LMSR_B = 146
    PRECISION = 20
    TABLE <- CoarseTable
    U64_MAX = 100000
    MAX_LEVERAGE = 50
    ITERATIONS = 17
    admin = admin
    game = game
    ann = ann
    bob = bob
    Keys <- MCKeys
    Traders <- MCTraders
    ADMIN_PUBKEY = admin
    GamePda = game
    NoAccount = NoAccount
    INITIAL_LIQUIDITY = 100
    RESOLVE_DEADLINE_SECS = 1
    CLAIM_WINDOW_SECS = 1
    RATIO_ONE = 1000
    Expiries = {1, 3}
    Amounts <- MCAmounts
    Lots <- MCLots
    MaxTime = 3
    MaxVolume = 2000
    MaxFees = 24
SYMMETRY TradersAreAlike
CONSTRAINTS
    FewTrades
    RenewedLate
INVARIANTS
    TypeOK
    VaultCoversTheCost
    WinnersArePaidInFull
    LiquidityIsKept
    NobodyIsLockedOut
PROPERTIES
    SharesStayAccounted
    ClaimsStayCovered
    NothingIsForfeited
    RefundsHold
    KeepsItsPromises
CHECK_DEADLOCK FALSE
