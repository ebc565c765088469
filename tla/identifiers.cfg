SPECIFICATION Spec
CHECK_DEADLOCK FALSE
CONSTANTS
    Strings = {s1, s2}
    Ints <- MCInts
    Pointers = {p1, p2, p3}
    NULL = NULL
    NPIDENTIFIER_CACHE_SIZE = 2
    MaxDepth = 2
    MaxNames = 2
SYMMETRY Symmetry
INVARIANT AnswersAreTheBrowsers
INVARIANT NoAbortWhileConnected
