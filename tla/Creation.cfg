SPECIFICATION Creation
CONSTANTS
  Nil = Nil
  n1 = n1  n2 = n2
  a1 = a1  a2 = a2  a3 = a3  e3 = e3  s1 = s1  w1 = w1  r1 = r1
  PortsPerBlock = 3
  DefaultPortBase = 4
  Name = {n1, n2}
  Adder = {a1, a2, a3, e3}
  Starter = {s1}
  Rewriter = {w1}
  Remover = {r1}
  Casts <- MCCasts
  Target <- MCTarget
  PortBase <- MCPortBase
  Digest <- MCDigest
  Mortal = {a1, s1, w1}
  MaxProbes = 2
  MaxTries = 1
  SearchOffsets = {0, 2}
  SearchHosts = {6}
  SearchBases = {1, 2, 4, 5, 7, 8, 11}
  SearchListening = {4, 6, 8, 12}
  SearchTries = 3
  ForwardBlock = 10
  ForwardBase = 9100
  Services <- MCService
  WellKnown <- MCRegistry
  ExtraOffset = 6
  HighestPort = 65535
  LongestRange = 64
  ForwardsAsked <- MCAsked
  ForwardsEach = 2
  ForwardMachines = 2
  ForwardTries = 3
  Setter = {"p", "q"}
  OwnKeys = {"channel", "accel"}
  OtherKeys = {"other"}
  SettingValues = {"v"}
  BadValue = "bad"
  FileLines = 3
  FileEdits = 2
  FileChanges = 2
  Channels = {"stable", "testing"}
  Finished = {"stable"}
  ReleaseLine <- MCLine
  MinRelease = 4
  AskTries = 2
  NewReleases = 1
  LoginProc = {"p", "q"}
  LoginMachine = {"m", "n"}
  LoginsGiven = 2
INVARIANTS OwnResources SearchIsExact ForwardsAreKept ChannelsAreJudged SavedIsFound
PROPERTIES TouchesOnlyItsOwn KeepsOtherLines
\* Every process has one thing to do.
CHECK_DEADLOCK FALSE
