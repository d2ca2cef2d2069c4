SPECIFICATION Spec
CONSTANTS
  a = a  b = b  c = c
  Proc = {a, b, c}
  Ops <- MCOps
  Wants <- MCWants
  Casts <- MCCasts
  Mortal = {a, c}
  Slow = {1}
  WriteMayFail = TRUE
  MaxOps <- MCMaxOps
  MaxPids = 3
  Reusable = {1}
INVARIANTS QemuIsRecorded OpenWindowIsFactory EndsOnlyRecorded EndedHoldsNothing
PROPERTY NeverSpawnsBeside
\* An operation once over is over.
CHECK_DEADLOCK FALSE
