SPECIFICATION Spec
CONSTANTS
    admin = admin
    red = red
    blue = blue
    NoAccount = NoAccount
    Keys <- MCKeys
    ADMIN_PUBKEY = admin
    MaxGameId = 2
    Matchups <- OneMatchup
    RandAccounts = {a1}
    Bytes <- Tens
    Cooldowns = {300}
CONSTRAINTS
    SeedsKept
    RedUnhurt
    LockOn
INVARIANTS
    RegistryKeepsCount
CHECK_DEADLOCK FALSE
