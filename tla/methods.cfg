CONSTANTS
  Null = Null
  BufSize = 16
  WordSize = 256
  KnownIds = {1, 2}
  PrintDataMaxSize = 4
  FileSizes = {0, 3, 4, 9}
  Flavours = {1, 2, 3, 4, 5, 6}
  Sample <- MCSample
  Browsers <- MCBrowsers
  NPStreams = {1, 2}
  NPWindows <- MCNPWindows
  Wrappers = {w1, w2}
  FileOf <- MCFileOf
  PidOf <- MCPidOf
  VtableOf <- MCVtableOf
  NPW_INIT_TIMEOUT = 0
  RPC_INIT_TIMEOUT = 2
  MaxStarts = 2
SPECIFICATION MCSpec
INVARIANT MessagesArrive
INVARIANT BreakIsNoticed
INVARIANT NothingLeaks
INVARIANT ThunksFitBrowser
INVARIANT OwnViewer
