SPECIFICATION Spec
CONSTANTS
    Blocks = 2
    A = A
    B = B
    Contents = {A, B}
    Old = Old
    Spoilt = Spoilt
    MAX_ATTEMPTS = 3
    BLOCK_ATTEMPTS = 2
    Tasks <- AllTasks
    Targets <- AllTargets
    MaxFaults = 2
CHECK_DEADLOCK FALSE
INVARIANTS
    TypeOK
    OnlyVerifiedStarts
    RefusedIsUntouched
    AcknowledgedIsWritten
    ReadBackIsFlash
    FewFaultsOnlyCostTheLastAnswer
PROPERTIES
    FrozenAfterEof
    Terminates
    ImplementsContract
