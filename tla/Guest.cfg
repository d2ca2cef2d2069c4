SPECIFICATION Guest
CONSTANTS
  Nil = Nil
  s1 = s1
  t1 = t1
  Proc <- MCProc
  Calls <- MCCalls
  Ops <- MCOps
  Intents <- MCIntents
  Available <- MCAvailable
  Kept = {TRUE, FALSE}
  LateFailures = {"install"}
  Mortal = {"start"}
  Features = {"f", "g"}
  Modes = {"rose", "home"}
  ModeRequests = 3
  StepKinds = {"user", "admin", "mode", "packages", "license", "renewal", "key"}
  StepPolls = 3
  StepUpdates = 3
  StepRenews = 3
  StepMisses = 2
  Asker = {"a", "b", "e", "s"}
  AgentOp <- MCAgentOp
  AgentPolls = 2
  AgentPipe = 3
  Typist = {"a", "b", "c"}
  TypesAs <- MCTypesAs
  Pokes = 2
  FirstAsks <- MCFirstAsks
  ScriptRetries = 3
  WordLength <- MCWords
  LongWord = 2
  BootProbes = 4
  BootReboots = 2
  Snapper = {"p", "q"}
  SnapName = {"n"}
  SnapGuest = 1
  BootForwards <- MCForwards
  BootLogins = 3
  BootQueries = 3
  QueryTime = 2
  LoginTime = 2
  LoginCost = 2
  BootBudget = 8
  BootSubjects <- MCSubjects
  BootReports = 1
  BootCaptures = 2
  BootHiccups = 2
INVARIANTS RecordIsTrue ReturnedIsDone AgentAnswersItsCaller ConsoleRunsTheCommand
INVARIANTS ScriptRunsOnce ReadyIsAnsweredTwice MonitorTellsTheTruth DiagnosisIsTrue
PROPERTIES NothingDropped EveryStepEnds
\* A call once over is over.
CHECK_DEADLOCK FALSE
