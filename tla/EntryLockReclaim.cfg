SPECIFICATION Spec
CONSTANTS
  Proc = {a, b, c}
  Mortal = {a}
  HolderMayStall = FALSE
INVARIANT OneAtATime
