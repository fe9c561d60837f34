SPECIFICATION Spec
CONSTANTS
    admin = admin
    red = red
    blue = blue
    NoAccount = NoAccount
    Keys <- MCKeys
    ADMIN_PUBKEY = admin
    MaxGameId = 1
    Matchups <- OneMatchup
    RandAccounts = {a1}
    Bytes <- AceFourTen
    Cooldowns = {300}
CONSTRAINTS
    SeedsKept
    FirstRound
PROPERTIES
    BustLosesTheRound
CHECK_DEADLOCK FALSE
