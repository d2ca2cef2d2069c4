SPECIFICATION Launches
CONSTANTS
  Nil = Nil
  p1 = p1  p2 = p2  p3 = p3
  m1 = m1  m2 = m2  m3 = m3  l1 = l1  l2 = l2
  Proc = {p1, p2, p3}
  Fetchers = {p1}
  Old = {p2}
  Installers = {p2}
  MayCrash = TRUE
  TornSaves = FALSE
  Machine = {m1, m2, m3}
  Link = {l1, l2}
  Joiners = {p1, p2}
  Scenes <- MCScenes
  MaxStarts = 1
  Extras = 2
  DiskCrashes = 1
  DiskLosses = 1
  EfiWrites = 3
  EfiCrashes = 2
  Users = {"u", "w"}
  Host <- MCHost
  Guest = "x86"
  Flag <- MCFlag
  Env <- MCEnv
  FileMode <- MCFileMode
  Bad = "bad"
  MaxChanges = 3
INVARIANTS ImageServesItsUsers PackagesServeTheirUsers EndsAreExclusive LinksFollowTheirUsers
INVARIANTS LaunchedAsLeft WaitFitsTheLaunch
PROPERTY EvictsOnlyUnused
\* Machines are started a bounded number of times, and an operation once over is over.
CHECK_DEADLOCK FALSE
