SPECIFICATION FairSpec
CONSTANTS
    Methods = {m1}
    NoMethod = NoMethod
    MaxDepth = 2
    Faults <- AllFaults
INVARIANT SyncStartsOutOfSync
PROPERTY SyncIsAnswered
PROPERTY CallsReturn
PROPERTY OrphanViewerExits
