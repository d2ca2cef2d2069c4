CONSTANTS
  Proc = {p1, p2, p3}
  Foreground = {}
  OlderClients = TRUE
  MaxDirs = 2
  MaxClaims = 1
SPECIFICATION Spec
INVARIANT MutualExclusion
PROPERTIES TopNeverRegresses Implements
SYMMETRY Contenders
CHECK_DEADLOCK FALSE
