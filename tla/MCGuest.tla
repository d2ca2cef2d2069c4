------------------------------ MODULE MCGuest ------------------------------
(***************************************************************************)
(* What is said to a guest that runs: its provisioning, the steps that it  *)
(* is made of and the channels they go through, and what is found out of a *)
(* guest that does not boot.  Each is modelled against a guest of its own, *)
(* so one of them plays at a time: Provisioning, or, while that rests, one *)
(* whose variables are the slots.                                          *)
(***************************************************************************)
EXTENDS MCProvisioning

CONSTANTS
  Nil,                                               \* in what is not used, and "absent"
  Features, Modes, ModeRequests,                     \* of the device mode
  StepKinds, StepPolls, StepUpdates, StepRenews, StepMisses,
  Asker, AgentOp, AgentPolls, AgentPipe,               \* of the guest agent
  Typist, TypesAs, Pokes, FirstAsks,                 \* of the console
  ScriptRetries,
  WordLength, LongWord, BootProbes, BootReboots,     \* of the readiness probes
  Snapper, SnapName, SnapGuest,                      \* of the monitor
  BootForwards, BootLogins, BootQueries, QueryTime, LoginTime, LoginCost, BootBudget,
  BootSubjects, BootReports, BootCaptures, BootHiccups  \* of the boot forensics

VARIABLES
  plays, v1, v2, v3, v4, v5, v6, v7, v8, v9, v10, v11, v12, v13, v14, v15, v16, v17, v18,
  v19, v20

high == <<v13, v14, v15, v16, v17, v18, v19, v20>>   \* of the boot forensics alone
slots == <<v1, v2, v3, v4, v5, v6, v7, v8, v9, v10, v11, v12, high>>
all == <<vars, plays, slots>>

RestingProvisioning == Init /\ rec = NewRecord(CHOOSE want \in Intents : TRUE)

NoHigh ==
  /\ v13 = Nil /\ v14 = Nil /\ v15 = Nil /\ v16 = Nil /\ v17 = Nil /\ v18 = Nil /\ v19 = Nil
  /\ v20 = Nil

-----------------------------------------------------------------------------
(* Three requests for two features and two modes.                          *)
Mode == INSTANCE DeviceMode WITH
  Feature <- Features, Mode <- Modes, MaxRequests <- ModeRequests,
  guest <- v1, record <- v2, window <- v3, want <- v4, pc <- v5, told <- v6, unsure <- v7,
  requests <- v8

(* Each kind of step, against a guest that answers or not.                 *)
Steps == INSTANCE GuestSteps WITH
  Kinds <- StepKinds, MaxPolls <- StepPolls, MaxUpdates <- StepUpdates,
  MaxRenews <- StepRenews, Misses <- StepMisses,
  guest <- v1, kind <- v2, at <- v3, polls <- v4, misses <- v5, tries <- v6, dropped <- v7,
  outcome <- v8

(* One call of each kind at the guest agent.                               *)
MCAgentOp == [k \in Asker |-> CASE k = "a" -> "exec" [] k = "b" -> "write" [] k = "e" -> "run"
                             [] k = "s" -> "shutdown"]
Agent == INSTANCE Qga WITH
  Calls <- Asker, Op <- AgentOp, MaxPolls <- AgentPolls, MaxPipe <- AgentPipe,
  up <- v1, queue <- v2, outbox <- v3, toGuest <- v4, fromGuest <- v5, awaits <- v6,
  polls <- v7, done <- v8, ran <- v9, foreign <- v10

(* Three calls on the serial console of a guest that asks for the license *)
(* and a new password first.                                               *)
MCTypesAs == [k \in Typist |-> IF k = "a" THEN "admin" ELSE "u"]
MCFirstAsks == <<"license", "newpassword">>
Serial == INSTANCE Console WITH
  Calls <- Typist, User <- TypesAs, MaxPokes <- Pokes,
  queue <- v1, keys <- v2, tty <- v3, buf <- v4, at <- v5, pokes <- v6, quit <- v7,
  result <- v8, ranAs <- v9

(* One exec(), by each route, with three retries.                          *)
Script == INSTANCE Exec WITH
  MaxRetries <- ScriptRetries,
  via <- v1, at <- v2, attempt <- v3, sent <- v4, stray <- v5, reply <- v6, error <- v7,
  ran <- v8

(* Four probes of a guest that reboots twice, with credentials that fit or *)
(* do not; an answer of the API is up to six bytes long, and may come byte *)
(* by byte.                                                                *)
MCWords == [w \in {"!done", "!trap", "!fatal", "message"} |-> IF w = "message" THEN 3 ELSE 1]
Rest == INSTANCE Readiness WITH
  Service <- "rest", MaxProbes <- BootProbes, MaxReboots <- BootReboots,
  guest <- v1, reboots <- v2, probe <- v3, probes <- v4, ready <- v5, upRow <- v6,
  result <- v7, fits <- v8
Api == INSTANCE Readiness WITH
  Service <- "api", MaxProbes <- BootProbes, MaxReboots <- BootReboots,
  guest <- v1, reboots <- v2, probe <- v3, probes <- v4, ready <- v5, upRow <- v6,
  result <- v7, fits <- v8

(* Two snapshot operations on QEMU's monitor.                              *)
Snapshots == INSTANCE Monitor WITH
  Calls <- Snapper, Name <- SnapName, Absent <- Nil, MaxGuest <- SnapGuest,
  alive <- v1, guest <- v2, paused <- v3, snaps <- v4, serving <- v5, pc <- v6, cmd <- v7,
  name <- v8, answer <- v9, result <- v10, did <- v11, unresumed <- v12

(* Two captures, one report kept, two forwards, two calls that hang.  The  *)
(* forwards are tried in full on a guest that takes none of the logins,    *)
(* and the logins and the counting rule on guests whose forwards serve.    *)
MCForwards == [f \in {"http", "web"} |-> [host |-> IF f = "http" THEN 9100 ELSE 9180, guest |-> 80]]
MCSubjects ==
  [login : {0}, port : [{80} -> {"serves", "closed", "drops"}], bound : SUBSET {"http", "web"},
   received : BOOLEAN, outbound : BOOLEAN, hostPorts : BOOLEAN]
  \cup
  [login : 1..BootLogins, port : [{80} -> {"serves"}], bound : {{"http"}},
   received : BOOLEAN, outbound : {FALSE}, hostPorts : {TRUE}]
Forensics == INSTANCE BootForensics WITH
  Forwards <- BootForwards, Candidates <- BootLogins, Queries <- BootQueries,
  QueryTimeout <- QueryTime, LoginAllowance <- LoginTime, Budget <- BootBudget,
  Subjects <- BootSubjects, Keep <- BootReports, MaxCaptures <- BootCaptures, MaxHiccups <- BootHiccups,
  guest <- v1, session <- v2, counters <- v3, kind <- v4, pc <- v5, outcome <- v6, q <- v7,
  elapsed <- v8, tried <- v9, given <- v10, left <- v11, working <- v12, reachable <- v13,
  hiccups <- v14, before <- v15, after <- v16, verdict <- v17, leftover <- v18, files <- v19,
  captures <- v20

ASSUME GuestAssumption ==
  /\ Mode!DeviceModeAssumption /\ Steps!GuestStepsAssumption /\ Agent!QgaAssumption
  /\ Serial!ConsoleAssumption /\ Script!ExecAssumption /\ Rest!ReadinessAssumption
  /\ Api!ReadinessAssumption /\ Snapshots!MonitorAssumption
  /\ Forensics!BootForensicsAssumption

-----------------------------------------------------------------------------
GuestInit ==
  \/ plays = "provisioning" /\ Init /\ NoHigh
     /\ v1 = Nil /\ v2 = Nil /\ v3 = Nil /\ v4 = Nil /\ v5 = Nil /\ v6 = Nil /\ v7 = Nil
     /\ v8 = Nil /\ v9 = Nil /\ v10 = Nil /\ v11 = Nil /\ v12 = Nil
  \/ plays = "forensics" /\ RestingProvisioning /\ Forensics!Init
  \/ /\ RestingProvisioning /\ NoHigh
     /\ \/ plays = "monitor" /\ Snapshots!Init
        \/ /\ v11 = Nil /\ v12 = Nil
           /\ \/ plays = "agent" /\ Agent!Init
              \/ plays = "console" /\ Serial!Init /\ v10 = Nil
              \/ /\ v9 = Nil /\ v10 = Nil
                 /\ \/ plays = "mode" /\ Mode!Init
                    \/ plays = "steps" /\ Steps!Init
                    \/ plays = "exec" /\ Script!Init
                    \/ plays = "rest" /\ Rest!Init
                    \/ plays = "api" /\ Api!Init

\* Nothing else of the rest moves.
Plays(who, idle) == plays = who /\ UNCHANGED <<plays, idle>>
low == <<vars, high, v9, v10, v11, v12>>

GuestNext ==
  \/ Plays("provisioning", slots) /\ Next
  \/ Plays("forensics", vars) /\ Forensics!Next
  \/ Plays("monitor", <<vars, high>>) /\ Snapshots!Next
  \/ Plays("agent", <<vars, v11, v12, high>>) /\ Agent!Next
  \/ Plays("console", <<vars, v10, v11, v12, high>>) /\ Serial!Next
  \/ Plays("mode", low) /\ Mode!Next
  \/ Plays("steps", low) /\ Steps!Next
  \/ Plays("exec", low) /\ Script!Next
  \/ Plays("rest", low) /\ Rest!Next
  \/ Plays("api", low) /\ Api!Next

\* A step polls and gives up by itself; nothing is promised of the guest.
step == <<v1, v2, v3, v4, v5, v6, v7, v8>>
Guest == GuestInit /\ [][GuestNext]_all /\ WF_step(plays = "steps" /\ Steps!Caller)

-----------------------------------------------------------------------------
(* Properties                                                              *)

\* A step that returned had its effect in the guest: no early answer, no dropped connection
\* and no data of another resource passes for it (quickchr.ts:1700-1760 records it next), and
\* a renewal without a level had been asked for (license.ts:153); and the device mode on
\* record is the guest's (device-mode.ts:390-397), where no first boot was given another than
\* add() wrote down (quickchr.ts:2976-2981).
ReturnedIsDone ==
  /\ plays = "steps" => Steps!ReturnedIsDone
  /\ plays = "mode" => Mode!RecordDescribesGuest

\* Every step ends, also against a guest that never answers or never comes back.
EveryStepEnds == <>(plays = "steps" => Steps!Returned)

\* An answer of the agent is to the request it was asked for, a script runs once, and a
\* call that ended is out of the queue (qga.ts:55, 234-240, 277-283, 341-343).
AgentAnswersItsCaller ==
  plays = "agent" => Agent!AnswersAreOwn /\ Agent!RanOnce /\ Agent!EndedLetGo

\* A framed reply on the console holds the command's output, and the command ran once, as
\* the user asked for unless two calls gave up (console.ts:191-208, 307-318, 472-481).
ConsoleRunsTheCommand ==
  plays = "console" => Serial!FramedIsWhole /\ Serial!RanOnce /\ Serial!RunsAsAsked

\* exec() runs a script once at most, and not at all when it says so (exec.ts:95-125).
ScriptRunsOnce == plays = "exec" => Script!ScriptRunsOnce

\* Ready is what answered two probes in a row when it was up, in whole answers; credentials
\* that do not fit may be refused while it still starts (qemu.ts:561-571, 602-611, 642-645;
\* api-login.ts:84-135).
ReadyIsAnsweredTwice ==
  /\ plays = "rest" => Rest!ReadyIsAnsweredTwice
  /\ plays = "api" => Api!ReadyIsAnsweredTwice

\* A snapshot operation that returned was carried out, and a failed load leaves the guest
\* running (channels.ts:77-81; quickchr.ts:1326-1328, 1360-1370).
MonitorTellsTheTruth ==
  plays = "monitor" => Snapshots!ReturnedWasDone /\ Snapshots!NoGuestIsLeftPaused

\* What a capture finds out of a guest that does not boot is so, whichever logins hang,
\* ports drop and rules earlier captures left; the second login may hang before its prompt
\* only, and a forward whose table was not read is no evidence (guest-snapshot.ts:155-215,
\* 428-450; diagnostics.ts:273-316, 371-378, 427-466).
DiagnosisIsTrue ==
  plays = "forensics" => /\ Forensics!HealthyIsReachable /\ Forensics!ForwardsAreJudged
                         /\ Forensics!VerdictIsTrue /\ Forensics!NewestReportsStay
=============================================================================
