SPECIFICATION MCSpec
CONSTANTS
    Connections = {c1, c2, c3}
    NoConnection = NoConnection
    Instances = {i1}
    NoInstance = NoInstance
    MaxStack = 3
    MaxRefs = 4
    Plugins <- MCPlugins
    Texts <- MCTexts
    Chatter <- MCChatter
    LineSize = 3
    Newline = Newline
    NoText = NoText
    char = char
INVARIANT OneViewer
PROPERTY NotFreedInUse
PROPERTY ViewerIsRestarted
INVARIANT InfoIsThePlugins
