SPECIFICATION Spec
CONSTANTS
    None = None
    NoTag = NoTag
    Unused = Unused
    MaxMoves = 2
    Digits <- HashDigits
    Commits <- Line
    Where <- Described
    Hash <- Hashes
    Older <- History
    Upstream = "a2"
    Minimum <- Minima
    KlipperMcus <- ClassifiedMcus
    KlipperHosts <- OneHost
    VendorMcus <- PrebuiltMcus
    VendorHosts <- ReadyHosts
    VendorMoves = 1
    Probes <- SomeProbes
    Clones <- TwoClones
    Files <- OtherFiles
    Top = 2
    Rates <- TwoRates
    Beacons <- Three
    BeaconRevision <- RevisionOf
    UsbId <- UsbIds
    BcdVersions <- TwoVersions
    Boards <- SomeBoards
    Releases = 1
    Editions = 2
    Reuse = 4
    Retry = 2
    Last = 5
CHECK_DEADLOCK FALSE
INVARIANTS
    UpdateSettles
    OnlyItsImage
PROPERTIES
    ApprovedOrReported
