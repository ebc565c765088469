SPECIFICATION Spec
CHECK_DEADLOCK FALSE
CONSTANTS
    BrowserObjects = {b1}
    PluginObjects = {p1}
    MaxGen = 1
    MaxBrowserStubs = 2
    MaxPluginStubs = 2
    MaxRefs = 2
    MaxDepth = 3
    MaxArgs = 1
INVARIANT RefCountsAreExact
INVARIANT StubsMatchProxies
