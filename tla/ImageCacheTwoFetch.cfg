SPECIFICATION Both
CONSTANTS
  p1 = p1  p2 = p2  p3 = p3
  Proc = {p1, p2}
  Fetchers = {p1, p2}
  Installers = {}
  Old = {}
  MayCrash = FALSE
  TornSaves = FALSE
INVARIANTS ReadersKeepImage
