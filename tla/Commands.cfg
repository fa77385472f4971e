SPECIFICATION Spec
CONSTANTS
    user = user
    other = other
    root = root
    p1 = p1
    p2 = p2
    p3 = p3
    Nobody = Nobody
    NoFile = NoFile
    None = None
    Torn = Torn
    Absent = Absent
    Processes <- ThreeProcesses
    Accounts <- ThreeAccounts
    Root = root
    AccountOf <- TheirAccounts
    Strict <- Masked
    Protected = TRUE
    Inodes <- TwoFiles
    MaxCleans = 1
    MaxDeaths = 1
    Updaters <- OneUpdater
    Files <- FourFiles
    Installed = 1
    Newest = 3
    MaxKills = 2
    Places <- TwoPorts
    Ttys <- OneTty
    Devices <- KatapultOnly
    OnePlace <- OnePort
    ManyTtys <- TwoTtys
    AllDevices <- EveryDevice
    NoTty = "none"
    MaxMoves = 2
    Users <- TwoUsers
    Urls <- TwoUrls
    MaxRelease = 2
    MaxOutside = 2
    Own = "own"
    HostUnits <- ThreeUnits
    Buses <- TwoBuses
    Hosts <- EightHosts
INVARIANTS
    SetupRepairs
    BridgesAreSafe
PROPERTIES
    LockIsKept
    SelfUpdateIsSafe
    RebootIsHonest
    FlashKeepsItsWord
