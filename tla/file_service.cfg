SPECIFICATION Spec
CONSTANTS
  MAX_FD = 2
  CHUNK = 100
  BIN_SIZE = 200
  dirs <- Preloaded
  root_dir = "root_dir"
  Prefixes <- BeginningsOf
  SLASH = "/"
  NULL = NULL
  Clients = {c1, c2}
  Paths <- MCPaths
  Checked <- MCChecked
SYMMETRY ClientSymmetry
INVARIANTS
  TypeOK
PROPERTIES
  ServesStreams
