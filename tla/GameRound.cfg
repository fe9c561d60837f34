SPECIFICATION Spec
CONSTANTS
    admin = admin
    red = red
    blue = blue
    NoAccount = NoAccount
    Keys <- MCKeys
    ADMIN_PUBKEY = admin
    MaxGameId = 1
    Matchups <- OneMatchup
    RandAccounts = {a1, a2}
    Bytes <- AceFourTen
    Cooldowns = {300}
SYMMETRY AccountsAreAlike
CONSTRAINTS
    FirstRound
    LockOn
INVARIANTS
    TypeOK
    HandsInPlay
    TurnIsOpen
    RollOnRecord
    NeverStuck
PROPERTIES
    StayedHandsStand
    PlayStopsForTheRoll
    OnlyTheCommittedSeedAnswers
    OnlyTiesTakeBack
CHECK_DEADLOCK FALSE
