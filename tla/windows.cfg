SPECIFICATION MCSpec
CHECK_DEADLOCK FALSE
CONSTANTS
    Instances = {i1}
    Sizes = {0, 1}
    Hints = {0, 2}
    ActualSize = 3
    XT_MAX_DISPATCH_EVENTS = 2
    MaxSent = 2
    MaxRefused = 1
    NONE = NONE
    Offsets = {2, 4}
    n_inputs_max = 4
    MaxOwn = 2
INVARIANT PluginKnowsItsWindow
INVARIANT InputInOrder
PROPERTY WorkIsDispatched
INVARIANT InputsAreNoticed
