SPECIFICATION Spec
CONSTANTS
    admin = admin
    red = red
    blue = blue
    NoAccount = NoAccount
    Keys <- MCKeys
    ADMIN_PUBKEY = admin
    MaxGameId = 1
    Matchups <- OneMatchup
    RandAccounts = {a1}
    Bytes <- Tens
    Cooldowns = {300}
CONSTRAINTS
    SeedsKept
PROPERTIES
    OnlyTheActivePlayerStays
CHECK_DEADLOCK FALSE
