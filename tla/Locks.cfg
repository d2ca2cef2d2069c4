SPECIFICATION Locks
CONSTANTS
  Nil = Nil
  Proc = {c1, c2}
  Foreground = {c2}
  OlderClients = FALSE
  MaxDirs = 2
  MaxClaims = 2
  Linker = {a, b, c}
  MortalLinker = {a, b}
  HolderMayStall = FALSE
INVARIANT OneAtATimeUntilADeath
PROPERTIES DeadHolderIsCleared AttemptsEnd
\* Each contender claims the machine lock a bounded number of times.
CHECK_DEADLOCK FALSE
