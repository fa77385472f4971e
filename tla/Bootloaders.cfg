SPECIFICATION Spec
CONSTANTS
    A = A
    B = B
    Old = Old
    Spoilt = Spoilt
    None = None
    Unused = Unused
    Top = 2
    Mcus <- AllMcus
    RouteImages <- AllImages
    MaxPolls = 2
    Backends <- AllBackends
    VendorBlocks = 3
    Blocks = 3
    Contents <- TwoContents
    MAX_ATTEMPTS = 5
    BLOCK_ATTEMPTS = 3
    Tasks <- Uploads
    Targets <- SoundBoard
    MaxFaults = 4
CHECK_DEADLOCK FALSE
INVARIANTS
    FlashIsSound
PROPERTIES
    ImplementsContract
    Terminates
