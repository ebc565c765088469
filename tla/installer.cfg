CONSTANTS
    HostArch = "x86_64"
    HostOS = "linux"
    ViewerSpecs <- MCViewerSpecs
    InfoVersion = 2
    NONE = NONE
    Paths <- MCPaths
    Files <- MCFiles
    Replacements <- MCReplacements
    ViewerSets <- MCViewerSets
    RootOnly <- MCRootOnly
    MaxTime = 2
    MaxIdent = 2
    MaxRuns = 3
    MaxNamed = 1
    NativeCommands = {"install"}
    MaxChanges = 1
SPECIFICATION InstallerSpec
INVARIANT UpdatesSettle
INVARIANT UpdateLosesNothing
PROPERTY ViewerFits
CHECK_DEADLOCK FALSE
