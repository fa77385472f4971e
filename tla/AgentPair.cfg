SPECIFICATION Spec
CONSTANTS
    Instances = {k1, k2}
    Clis = {cli}
    Nobody = Nobody
    MessageCap = 2
    MaxRuns = 1
    MaxProgress = 0
    MaxCliRuns = 1
    MaxDrops = 0
SYMMETRY Printers
INVARIANTS
    OneAtATime
    HolderIsAtWork
    
