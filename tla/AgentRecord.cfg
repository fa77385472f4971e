SPECIFICATION Spec
CONSTANTS
    Instances = {k1}
    Clis = {cli}
    Nobody = Nobody
    MessageCap = 2
    MaxRuns = 2
    MaxProgress = 2
    MaxCliRuns = 1
    MaxDrops = 2
INVARIANTS
    TypeOK
    RecordIsFaithful
PROPERTIES
    RecordKept
    ReplyBeforeEvents
    RequestAnswered
    RunFinishes
