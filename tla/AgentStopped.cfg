SPECIFICATION Spec
CONSTANTS
    Instances = {k1}
    Clis = {cli}
    Nobody = Nobody
    MessageCap = 2
    MaxRuns = 1
    MaxProgress = 0
    MaxCliRuns = 1
    MaxDrops = 0
INVARIANTS
    LeftStoppedIsTheRuns
