SPECIFICATION Spec
CONSTANTS
    Methods = {m1, m2}
    NoMethod = NoMethod
    MaxDepth = 7
    Faults <- NoFaults
INVARIANT MutualExclusion
INVARIANT ControlInvariant
INVARIANT CallsGoThrough
PROPERTY ImplementsSharedThread
