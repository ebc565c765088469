SPECIFICATION FairSpec
CHECK_DEADLOCK FALSE
CONSTANTS
    Instances = {i1}
    Streams = {s1}
    NPObjects = {o1}
    MaxRefs = 2
    MaxTimers = 2
    MaxAsync = 1
    MaxDepth = 4
    NONE = NONE
    Freed = Freed
INVARIANT MemoryIsLive
INVARIANT StreamsAgree
PROPERTY NoLateCallback
PROPERTY InstanceIsFreed
