SPECIFICATION FairSpec
CONSTANTS
    t1 = t1
    t2 = t2
    Tasks = {t1, t2}
    Names <- UnlikeNames
    TableSize = 2
    MaxServers = 2
    MaxRetries = 2
    SeqnoMod = 2
    MaxTtl = 1
    TtlMod = 2
    Kept = 1
INVARIANT Inv
PROPERTY Resolves
PROPERTY CallsReturn
CHECK_DEADLOCK FALSE
