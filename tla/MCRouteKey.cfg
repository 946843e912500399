CONSTANTS
  Methods = {"GET", "POST"}
  UNKNOWN = "UNKNOWN"
  Names = {"u", "ab"}
  ShortNames = {"u"}
  h1 = h1
  h2 = h2
  Handlers <- MCHandlers
  NoHandler = NoHandler
  Paths <- MCPaths
SPECIFICATION Spec
SYMMETRY Symmetry
INVARIANT KeyIsMethodAndPath
