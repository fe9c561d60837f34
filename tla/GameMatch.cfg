SPECIFICATION Spec
CONSTANTS
    admin = admin
    red = red
    blue = blue
    NoAccount = NoAccount
    Keys <- MCKeys
    ADMIN_PUBKEY = admin
    MaxGameId = 1
    Matchups <- OneMatchup
    RandAccounts = {a1}
    Bytes <- NineTen
    Cooldowns = {300, 60}
CONSTRAINTS
    SeedsKept
    UsualCooldown
INVARIANTS
    StakesAddUp
    EndedMeansWon
PROPERTIES
    PlaysDuels
    OnlyTiesTakeBack
CHECK_DEADLOCK FALSE
