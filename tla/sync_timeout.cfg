SPECIFICATION Spec
CONSTANTS
    Methods = {m1, m2}
    NoMethod = NoMethod
    MaxDepth = 3
    Faults <- Timeouts
INVARIANT MutualExclusion
