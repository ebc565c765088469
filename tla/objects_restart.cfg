SPECIFICATION Spec
CHECK_DEADLOCK FALSE
CONSTANTS
    BrowserObjects = {b1}
    PluginObjects = {p1}
    MaxGen = 3
    MaxBrowserStubs = 1
    MaxPluginStubs = 1
    MaxRefs = 2
    MaxDepth = 2
    MaxArgs = 1
INVARIANT ProxiesResolve
