SPECIFICATION FairSpec
CONSTANTS
    Finders = {f1, f2}
    Instances = {i1, i2}
    MaxTrials = 3
    Timeout = 1
    Ttl = 1
    Horizon = 2
INVARIANTS
    FreshInstances
    AlwaysDecides
PROPERTIES
    FindEnds
CHECK_DEADLOCK FALSE
