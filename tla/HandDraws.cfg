SPECIFICATION Spec
CONSTANTS
    Bytes <- MCBytes
    MaxHard = 60
INVARIANTS
    TypeOK
    BestTotal
PROPERTIES
    DowngradeIsFinal
CHECK_DEADLOCK FALSE
