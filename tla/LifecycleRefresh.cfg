SPECIFICATION Spec
CONSTANTS
  a = a  b = b  c = c
  Proc = {a, b, c}
  Ops <- RefreshOps
  Wants <- JustPlain
  Casts <- RefreshCasts
  Mortal = {}
  Slow = {}
  WriteMayFail = FALSE
  MaxOps <- MCMaxOps
  MaxPids = 2
  Reusable = {}
INVARIANTS QemuIsRecorded
\* An operation once over is over.
CHECK_DEADLOCK FALSE
