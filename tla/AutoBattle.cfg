SPECIFICATION SystemSpec
CONSTANTS
    admin = admin
    red = red
    blue = blue
    GamePda = pda
    NoAccount = NoAccount
    Keys <- MCKeys
    ADMIN_PUBKEY = admin
    MaxGameId = 1
    Matchups <- OneMatchup
    RandAccounts = {a1}
    Bytes <- Tens
    Cooldowns = {300}
    AccountLists <- ShortLists
    FollowedRound = 4
    LMSR_B = 146
    PRECISION = 20
    TABLE <- CoarseTable
    U64_MAX = 100000
    MAX_LEVERAGE = 50
    ITERATIONS = 17
    INITIAL_LIQUIDITY = 100
    RESOLVE_DEADLINE_SECS = 0
    CLAIM_WINDOW_SECS = 0
    RATIO_ONE = 1000
    Expiries = {1}
    Amounts = {}
    Lots = {}
    MaxTime = 2
CONSTRAINTS
    SeedsKept
    RedLeads
    OneHit
    MarketsComeLate
    RoundKeepsLiquidity
    LockOn
INVARIANTS
    SystemTypeOK
    OnlyTheMainMarketBlocks
PROPERTIES
    TheScriptsListIsRefused
    MatchSettlesItsMarket
    RoundSettlesItsMarket
    BlockedForGood
CHECK_DEADLOCK FALSE
