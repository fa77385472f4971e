SPECIFICATION Spec
CONSTANTS
    None = None
    Top = 2
    Mcus <- Bridges
    Images <- Files
    MaxPolls = 2
CHECK_DEADLOCK FALSE
INVARIANTS
    FileWhereItCanRun
