SPECIFICATION MCSpec
CHECK_DEADLOCK FALSE
CONSTANTS
    Apps = {a1}
    Streams = {s1}
    Uris = {"file", "http", "javascript"}
    MaxBytes = 3
    MaxPiece = 2
    MaxRefusals = 2
    NoApp = NoApp
    PluginDirs <- MCPluginDirs
    Types = {"m1", "m2"}
    Extensions = {"e1", "e2"}
    DirContents <- MCContents
    NONE = NONE
    Arguments <- MCArguments
    MaxArguments = 4
    DEFAULT_WIDTH = "default"
    strdown <- MCstrdown
    LocalFiles <- MCLocalFiles
    KnownTypes = {"m1"}
    MimeOfUri <- MCMimeOfUri
    WindowWidths = {"5"}
    NoDesc = NoDesc
    NPObjects = {o1, o2}
    Classes <- MCClasses
    Variants = {v1}
    Strings = {n1, n2}
    Integers31 <- MCIntegers31
    WordSize = 32
    MaxRefs = 2
    NULL = NULL
    AString = AString
    Bins = {x1, x2}
    Children = {c1, c2}
    Home <- MCHome
    XTBIN_MAX_EVENTS = 2
    PollingEvents = 1
    MaxQueue = 2
    MaxClicks = 1
    NoParent = NoParent
    x1 = x1
INVARIANT NoDanglingStream
INVARIANT DeliveredInOrder
PROPERTY TransfersEndStreams
INVARIANT HomePluginsFirst
INVARIANT AttributesReachPlugin
INVARIANT PlayerKeepsTrack
INVARIANT ClicksAreHeard
