----------------------------- MODULE Lifecycle -----------------------------
(***************************************************************************)
(* One machine's life: start, stop, shutdown, continue, clean, remove and  *)
(* setDeviceMode (src/lib/quickchr.ts), each its own process, on what they *)
(* share: machine.json, the disk, the QEMU processes and the machine lock. *)
(* refresh stands for list() and get(), note for the other writers of      *)
(* machine.json that do not take the lock.                                 *)
(*                                                                         *)
(* The lock is the abstract lock of Mutex.  A step reads or writes         *)
(* machine.json at most once.  A pid that has gone may be given to a       *)
(* process that is none of quickchr's ("other").                           *)
(***************************************************************************)
EXTENDS Naturals, FiniteSets

CONSTANTS
  Proc,          \* processes, each running operations one after the other
  Ops,           \* the operations each may run
  Wants,         \* what each may ask of a start: fg, frozen, wait, prov
  Mortal,        \* the processes that may die
  Slow,          \* pids that may outlive SIGKILL, let alone the 5 s after SIGTERM
  WriteMayFail,  \* machine.json may fail to be written after a spawn
  Casts,         \* the sets of processes that may meet
  MaxOps,        \* operations each process runs
  MaxPids,       \* QEMU processes spawned
  Reusable       \* the pids the host may give to something else

Pid == 1..MaxPids
Nobody == "nobody"
Locked == {"start", "stop", "shutdown", "continue", "remove", "clean", "device-mode"}
Unlocked == {"refresh", "note"}

ASSUME LifecycleAssumption ==
  /\ Nobody \notin Proc /\ Mortal \subseteq Proc
  /\ Ops \in [Proc -> SUBSET (Locked \union Unlocked)]
  /\ Wants \in [Proc -> SUBSET [fg : BOOLEAN, frozen : BOOLEAN, wait : BOOLEAN, prov : BOOLEAN]]
  /\ Casts \subseteq SUBSET Proc
  /\ Slow \subseteq Pid /\ WriteMayFail \in BOOLEAN
  /\ MaxOps \in [Proc -> Nat] /\ MaxPids \in Nat /\ Reusable \subseteq Pid

VARIABLES
  rec,           \* machine.json
  dir,           \* the machine's directory is there
  disk,          \* "factory", "used" by a guest, or used by one nobody recorded
  qemu,          \* every pid: "none" yet, "held" at reset, "up", "dying", "gone", "other"
  launcher,      \* who spawned it
  lost,          \* pids machine.json never named: their launcher died, failed, or waited
                 \* for them in the foreground
  owner,         \* who holds the machine lock
  created,       \* machines created under the name so far
  removed,       \* those that were removed
  pc, op, want,
  h,             \* the state of the process's handle
  cur,           \* machine.json as a read-modify-write last read it
  edit, after,   \* what that write changes, and where the operation goes on
  child,         \* the pid it spawned last
  phase,         \* why: "launch", "respawn" or "power-cycle"
  restore,       \* what a failed boot goes back to: a record, Created, or nothing
  left           \* operations it may still begin

host == <<rec, dir, disk, qemu, launcher, lost, owner, created, removed>>
local == <<op, want, h, cur, edit, after, child, phase, restore, left>>
vars == <<host, pc, local>>

NoRecord == [status |-> "none"]
Created == [status |-> "created"]   \* this start() made the machine: undoing it removes it
NewRecord(id) ==
  [id |-> id, status |-> "stopped", pid |-> 0, frozen |-> FALSE, started |-> FALSE, prov |-> FALSE]

\* What kill(pid, 0) answers, whoever has the pid.
Exists(n) == n \in Pid /\ qemu[n] \in {"held", "up", "dying", "other"}
Alive(n) == qemu[n] \in {"held", "up", "dying"}

\* isMachineRunning()
Running(r) == r # NoRecord /\ r.status = "running" /\ Exists(r.pid)

\* isProvisioningWindowOpen()
WindowOpen(r) == ~r.prov /\ ~r.started

Stopped(r) == [r EXCEPT !.status = "stopped", !.pid = 0, !.frozen = FALSE]

\* The writes that read machine.json, change some of it and write it back.
Edited(what, r) ==
  CASE what = "stopped" -> Stopped(r)
    [] what = "resumed" -> [r EXCEPT !.frozen = FALSE]
    [] what = "cleaned" -> [Stopped(r) EXCEPT !.started = FALSE, !.prov = FALSE]
    [] what = "provisioned" -> [r EXCEPT !.prov = TRUE]
    [] what = "noted" -> r

NoWant == [fg |-> FALSE, frozen |-> FALSE, wait |-> FALSE, prov |-> FALSE]

Init ==
  /\ rec \in {NoRecord, NewRecord(1)}   \* add() made it, or nothing did
  /\ dir = (rec # NoRecord)
  /\ disk = "factory"
  /\ qemu = [n \in Pid |-> "none"] /\ launcher = [n \in Pid |-> Nobody] /\ lost = {}
  /\ owner = Nobody
  /\ created = 1 /\ removed = {}
  /\ pc = [p \in Proc |-> "idle"]
  /\ op = [p \in Proc |-> "none"]
  /\ want = [p \in Proc |-> NoWant]
  /\ h = [p \in Proc |-> NoRecord] /\ cur = [p \in Proc |-> NoRecord]
  /\ edit = [p \in Proc |-> "noted"] /\ after = [p \in Proc |-> "idle"]
  /\ child = [p \in Proc |-> 0] /\ phase = [p \in Proc |-> "launch"]
  /\ restore = [p \in Proc |-> NoRecord]
  /\ \E cast \in Casts : left = [p \in Proc |-> IF p \in cast THEN MaxOps[p] ELSE 0]

Goto(p, from, to) == pc[p] = from /\ pc' = [pc EXCEPT ![p] = to]

\* Go on to `next` by way of `via`: reading, changing and writing back machine.json, or
\* ending QEMU first.
Via(p, via, what, next) ==
  /\ pc' = [pc EXCEPT ![p] = via]
  /\ edit' = [edit EXCEPT ![p] = what] /\ after' = [after EXCEPT ![p] = next]

Save(p, what, next) == Via(p, "load", what, next)
StopUnderLock(p, next) == Via(p, "stop", "stopped", next)

\* What an operation had in hand goes with it; the handle stays.
Over(p) ==
  /\ op' = [op EXCEPT ![p] = "none"] /\ want' = [want EXCEPT ![p] = NoWant]
  /\ phase' = [phase EXCEPT ![p] = "launch"]
  /\ cur' = [cur EXCEPT ![p] = NoRecord] /\ child' = [child EXCEPT ![p] = 0]
  /\ restore' = [restore EXCEPT ![p] = NoRecord]
  /\ edit' = [edit EXCEPT ![p] = "noted"] /\ after' = [after EXCEPT ![p] = "idle"]

----------------------------------------------------------------------------
(* Beginning an operation, and taking the lock *)

Begins(p, o) ==
  /\ pc[p] = "idle" /\ left[p] > 0 /\ o \in Ops[p]
  /\ op' = [op EXCEPT ![p] = o] /\ left' = [left EXCEPT ![p] = @ - 1]

\* Provisioning a machine whose window has shut is refused before anything happens; a
\* running machine is handed back.
BeginStart(p) ==
  /\ Begins(p, "start")
  /\ \E w \in Wants[p] :
       /\ w.prov /\ rec # NoRecord => WindowOpen(rec)
       /\ want' = [want EXCEPT ![p] = w]
  /\ h' = [h EXCEPT ![p] = rec]
  /\ pc' = [pc EXCEPT ![p] = IF Running(rec) THEN "release" ELSE "lock"]
  /\ UNCHANGED <<host, cur, edit, after, child, phase, restore>>

\* The handle is a new one, or one from before.
BeginOther(p) ==
  /\ \E o \in Locked \ {"start"} : Begins(p, o)
  /\ \E r \in {rec, h[p]} \ {NoRecord} : h' = [h EXCEPT ![p] = r]
  /\ phase' = [phase EXCEPT ![p] = "power-cycle"]
  /\ pc' = [pc EXCEPT ![p] = "lock"]
  /\ UNCHANGED <<host, want, cur, edit, after, child, restore>>

\* A create makes the directory the lock lives in; any other operation needs it there.
Acquire(p) ==
  /\ owner = Nobody
  /\ h[p] # NoRecord => dir
  /\ Goto(p, "lock", "verify")
  /\ owner' = p /\ dir' = TRUE
  /\ UNCHANGED <<rec, disk, qemu, launcher, lost, created, removed, local>>

\* MACHINE_LOCKED, at once or when the wait is over, or MACHINE_NOT_FOUND.
Refused(p) ==
  /\ owner # Nobody \/ (h[p] # NoRecord /\ ~dir)
  /\ Goto(p, "lock", "idle") /\ Over(p)
  /\ UNCHANGED <<host, h, left>>

\* Seeded fault: the handle is taken for what machine.json holds now.
Remembered(p) == h[p]

\* refreshMachineState()
Reread(p) == IF rec = NoRecord THEN h[p] ELSE rec

\* Seeded fault: the machine is taken for the one the operation was asked about.
AnyMachine(p) == TRUE

\* assertSameMachine(), or claimNewMachine()'s look for a machine created meanwhile.
SameMachine(p) ==
  IF h[p] = NoRecord THEN rec = NoRecord ELSE rec # NoRecord /\ rec.id = h[p].id

Turned(p) ==
  /\ ~SameMachine(p)
  /\ Goto(p, "verify", "release")
  /\ UNCHANGED <<host, local>>

VerifyNew(p) ==
  /\ op[p] = "start" /\ h[p] = NoRecord /\ SameMachine(p)
  /\ Goto(p, "verify", "spawn")
  /\ created' = created + 1
  /\ h' = [h EXCEPT ![p] = NewRecord(created')]
  /\ disk' = "factory"
  /\ restore' = [restore EXCEPT ![p] = Created]
  /\ UNCHANGED <<rec, dir, qemu, launcher, lost, owner, removed, op, want, cur, edit, after,
                  child, phase, left>>

\* Seeded fault: a machine another start got running in between is not looked for.
NeverRunning(p) == FALSE

RunningMeanwhile(p) == Running(Reread(p))

\* A relaunch hands back a machine that is running by now, and drops or refuses the
\* provisioning that another start's boot has made impossible.
VerifyStart(p) ==
  LET r == Reread(p)
      shut == want[p].prov /\ ~WindowOpen(r)
  IN  /\ op[p] = "start" /\ h[p] # NoRecord /\ SameMachine(p)
      /\ h' = [h EXCEPT ![p] = r]
      /\ restore' = [restore EXCEPT ![p] = IF WindowOpen(r) THEN r ELSE NoRecord]
      /\ \/ ~RunningMeanwhile(p) /\ Goto(p, "verify", "spawn")
         \/ (RunningMeanwhile(p) \/ shut) /\ Goto(p, "verify", "release")
      /\ want' = [want EXCEPT ![p].prov = @ /\ ~shut]
      /\ UNCHANGED <<host, op, cur, edit, after, child, phase, left>>

\* What every other operation does once the machine is its own.
VerifyOther(p) ==
  LET r == Reread(p)
  IN  /\ op[p] # "start" /\ SameMachine(p)
      /\ pc[p] = "verify"
      /\ h' = [h EXCEPT ![p] = r]
      /\ CASE op[p] = "stop" -> StopUnderLock(p, "release")
           [] op[p] = "shutdown" /\ ~Running(r) -> Save(p, "stopped", "release")
           [] op[p] = "continue" /\ ~Running(r) -> Save(p, "stopped", "release")
           [] op[p] = "device-mode" /\ Running(r) -> Via(p, "cycle", "noted", "release")
           [] op[p] = "device-mode" -> Via(p, "release", "noted", "release")
           [] OTHER -> Via(p, op[p], "noted", "release")
      /\ UNCHANGED <<host, op, want, cur, child, phase, restore, left>>

----------------------------------------------------------------------------
(* Ending QEMU, and writing machine.json *)

\* Seeded fault: remove and clean leave QEMU to whoever finds it.
VictimOfStop(p) ==
  CASE pc[p] \in {"stop", "cycle"} -> h[p].pid
    [] pc[p] = "shutdown" /\ Running(h[p]) -> h[p].pid
    [] OTHER -> 0

\* The pid an operation is about to end, 0 when it ends none.
Victim(p) ==
  CASE pc[p] \in {"stop", "cycle"} -> h[p].pid
    [] pc[p] \in {"shutdown", "remove", "clean"} /\ Running(h[p]) -> h[p].pid
    [] OTHER -> 0

\* stopQemu() does not wait for SIGKILL to take effect.
Ended(n) ==
  IF ~Exists(n) THEN {qemu}
  ELSE {[qemu EXCEPT ![n] = "gone"]} \union
       (IF n \in Slow /\ Alive(n) THEN {[qemu EXCEPT ![n] = "dying"]} ELSE {})

Terminate(p) ==
  /\ pc[p] \in {"stop", "cycle", "remove", "clean"}
  /\ qemu' \in Ended(Victim(p))
  /\ pc' = [pc EXCEPT ![p] =
       CASE @ = "stop" -> "load" [] @ = "cycle" -> "spawn"
         [] @ = "remove" -> "delete" [] @ = "clean" -> "reset"]
  /\ UNCHANGED <<rec, dir, disk, launcher, lost, owner, created, removed, local>>

\* shutdown(): the guest halts, or stopQemu() ends it within a second, or it throws.
Shutdown(p) ==
  /\ pc[p] = "shutdown"
  /\ qemu' \in Ended(Victim(p))
  /\ IF Victim(p) # 0 /\ qemu'[Victim(p)] = "dying"
     THEN Via(p, "release", "noted", "release") ELSE Save(p, "stopped", "release")
  /\ UNCHANGED <<rec, dir, disk, launcher, lost, owner, created, removed, op, want, h, cur,
                  child, phase, restore, left>>

Load(p) ==
  /\ Goto(p, "load", "save")
  /\ cur' = [cur EXCEPT ![p] = rec]
  /\ UNCHANGED <<host, op, want, h, edit, after, child, phase, restore, left>>

\* The handle changes with the record, which nobody writes when it was not there.
SaveEdited(p) ==
  /\ Goto(p, "save", after[p])
  /\ IF cur[p] = NoRecord THEN UNCHANGED <<rec, dir>>
     ELSE rec' = Edited(edit[p], cur[p]) /\ dir' = TRUE
  /\ h' = [h EXCEPT ![p] = IF @ = NoRecord THEN NoRecord ELSE Edited(edit[p], @)]
  /\ cur' = [cur EXCEPT ![p] = NoRecord]
  /\ edit' = [edit EXCEPT ![p] = "noted"] /\ after' = [after EXCEPT ![p] = "idle"]
  /\ UNCHANGED <<disk, qemu, launcher, lost, owner, created, removed, op, want, child, phase,
                  restore, left>>

----------------------------------------------------------------------------
(* Launching QEMU *)

Frozen(p) == op[p] = "start" /\ want[p].frozen /\ phase[p] = "launch"
Foregrounded(p) == want[p].fg /\ ~want[p].prov /\ op[p] = "start"

\* Where an operation goes on when QEMU cannot be brought up: a power-cycle inside a
\* start's provisioning is undone with it.
SpawnFailed(p) ==
  IF op[p] = "start" /\ phase[p] = "power-cycle"
  THEN StopUnderLock(p, "undo") ELSE Via(p, "release", "noted", "idle")

Spawn(p) ==
  /\ pc[p] = "spawn"
  /\ \E n \in Pid :
       /\ qemu[n] = "none" /\ \A m \in 1..(n - 1) : qemu[m] # "none"
       /\ qemu' = [qemu EXCEPT ![n] = IF Frozen(p) THEN "held" ELSE "up"]
       /\ launcher' = [launcher EXCEPT ![n] = p]
       /\ child' = [child EXCEPT ![p] = n]
  /\ Goto(p, "spawn", IF Foregrounded(p) THEN "foreground" ELSE "spawned")
  /\ UNCHANGED <<rec, dir, disk, lost, owner, created, removed, op, want, h, cur, edit, after,
                  phase, restore, left>>

\* Missing disks, a taken endpoint, no memory: nothing was spawned.
CannotSpawn(p) ==
  /\ pc[p] = "spawn"
  /\ SpawnFailed(p)
  /\ UNCHANGED <<host, op, want, h, cur, child, phase, restore, left>>

\* The look 1.5 s later: the pid answers, or QEMU never came up.
Spawned(p) ==
  /\ pc[p] = "spawned"
  /\ IF Exists(child[p]) THEN Via(p, "record", "noted", "idle") ELSE SpawnFailed(p)
  /\ UNCHANGED <<host, op, want, h, cur, child, phase, restore, left>>

Launched(p) ==
  [h[p] EXCEPT !.status = "running", !.pid = child[p], !.started = TRUE, !.frozen = Frozen(p)]

\* What a guest nobody records leaves of the disk.
Unrecorded == IF disk = "used" THEN "unrecorded" ELSE disk

Record(p) ==
  /\ pc[p] = "record"
  /\ h' = [h EXCEPT ![p] = Launched(p)]
  /\ \/ /\ rec' = Launched(p) /\ dir' = TRUE
        /\ pc' = [pc EXCEPT ![p] =
             IF phase[p] = "power-cycle" THEN "reboot"
             ELSE IF Frozen(p) \/ ~want[p].wait THEN "release" ELSE "boot"]
        /\ UNCHANGED <<lost, disk>>
     \/ /\ WriteMayFail
        /\ pc' = [pc EXCEPT ![p] = "release"]
        /\ lost' = lost \union {child[p]} /\ disk' = Unrecorded
        /\ UNCHANGED <<rec, dir>>
  /\ UNCHANGED <<qemu, launcher, owner, created, removed, op, want, cur, edit,
                  after, child, phase, restore, left>>

\* spawnQemu() in the foreground returns when QEMU exits, and throws when it failed.
Foreground(p) ==
  LET r == [h[p] EXCEPT !.status = "stopped", !.started = TRUE]
  IN  /\ Goto(p, "foreground", "release")
      /\ ~Alive(child[p])
      /\ lost' = lost \union {child[p]} /\ disk' = Unrecorded
      /\ \/ rec' = r /\ dir' = TRUE /\ h' = [h EXCEPT ![p] = r]
         \/ UNCHANGED <<rec, dir, h>>
      /\ UNCHANGED <<qemu, launcher, owner, created, removed, op, want, cur, edit,
                      after, child, phase, restore, left>>

----------------------------------------------------------------------------
(* After the launch *)

Provisions(p) == op[p] = "start" /\ want[p].prov

\* waitForBoot() answers; a start saves its handle's state, boot time included.
BootAnswers(p) ==
  /\ pc[p] = "boot" /\ qemu[h[p].pid] = "up"
  /\ IF op[p] = "start" THEN rec' = h[p] /\ dir' = TRUE ELSE UNCHANGED <<rec, dir>>
  /\ Goto(p, "boot", IF Provisions(p) THEN "provision" ELSE "release")
  /\ UNCHANGED <<disk, qemu, launcher, lost, owner, created, removed, local>>

\* A machine this start made is respawned once when the host accelerates it.
Respawn(p) ==
  /\ restore[p] = Created /\ phase[p] = "launch"
  /\ Goto(p, "boot", "cycle")
  /\ phase' = [phase EXCEPT ![p] = "respawn"]
  /\ UNCHANGED <<host, op, want, h, cur, edit, after, child, restore, left>>

BootTimesOut(p) ==
  /\ pc[p] = "boot"
  /\ StopUnderLock(p, IF op[p] = "start" THEN "undo" ELSE "release")
  /\ UNCHANGED <<host, op, want, h, cur, child, phase, restore, left>>

Provisioned(p) ==
  /\ pc[p] = "provision" /\ qemu[h[p].pid] = "up"
  /\ Save(p, "provisioned", IF want[p].fg /\ restore[p] = Created THEN "again" ELSE "release")
  /\ UNCHANGED <<host, op, want, h, cur, child, phase, restore, left>>

\* device-mode: hardRebootMachine() quits QEMU and spawns another.
PowerCycle(p) ==
  /\ phase[p] # "power-cycle"
  /\ Goto(p, "provision", "cycle")
  /\ phase' = [phase EXCEPT ![p] = "power-cycle"]
  /\ UNCHANGED <<host, op, want, h, cur, edit, after, child, restore, left>>

ProvisionFails(p) ==
  /\ pc[p] = "provision"
  /\ StopUnderLock(p, "undo")
  /\ UNCHANGED <<host, op, want, h, cur, child, phase, restore, left>>

Rebooted(p) ==
  /\ pc[p] = "reboot" /\ qemu[h[p].pid] = "up"
  /\ IF op[p] = "start" THEN Via(p, "provision", "noted", "idle")
     ELSE Save(p, "provisioned", "release")
  /\ UNCHANGED <<host, op, want, h, cur, child, phase, restore, left>>

RebootFails(p) ==
  /\ pc[p] = "reboot"
  /\ SpawnFailed(p)
  /\ UNCHANGED <<host, op, want, h, cur, child, phase, restore, left>>

\* A provisioned foreground start stops its guest, gives the lock up, and relaunches it in
\* the foreground as any other start would.
StopForRelaunch(p) ==
  /\ pc[p] = "again"
  /\ StopUnderLock(p, "relaunch")
  /\ UNCHANGED <<host, op, want, h, cur, child, phase, restore, left>>

Relaunch(p) ==
  /\ Goto(p, "relaunch", "lock")
  /\ owner' = Nobody
  /\ want' = [want EXCEPT ![p].prov = FALSE]
  /\ phase' = [phase EXCEPT ![p] = "launch"] /\ child' = [child EXCEPT ![p] = 0]
  /\ restore' = [restore EXCEPT ![p] = NoRecord]
  /\ UNCHANGED <<rec, dir, disk, qemu, launcher, lost, created, removed, op, h, cur, edit,
                  after, left>>

\* Seeded fault: a failed first boot puts the record back and leaves the disk.
DiskAsLeft == disk

FactoryDisk == "factory"

\* cleanupAfterBootFailure() and rollbackFailedProvisioning(), the guest already stopped:
\* keep the machine, remove it, or put its disk and its record back; the disk may fail to
\* reset.
Undo(p) ==
  /\ pc[p] = "undo"
  /\ \/ Goto(p, "undo", "release") /\ UNCHANGED <<rec, dir, disk, h>>
     \/ restore[p] = Created /\ Goto(p, "undo", "remove") /\ UNCHANGED <<rec, dir, disk, h>>
     \/ /\ restore[p] \notin {Created, NoRecord}
        /\ disk' = FactoryDisk
        /\ rec' = [restore[p] EXCEPT !.status = "stopped", !.pid = 0] /\ dir' = TRUE
        /\ h' = [h EXCEPT ![p] = rec']
        /\ Goto(p, "undo", "release")
  /\ UNCHANGED <<qemu, launcher, lost, owner, created, removed, op, want, cur, edit, after,
                  child, phase, restore, left>>

----------------------------------------------------------------------------
(* continue, remove and clean *)

\* The monitor answers for a live QEMU only.
Resume(p) ==
  /\ pc[p] = "continue"
  /\ \/ /\ qemu[h[p].pid] \in {"held", "up"}
        /\ qemu' = [qemu EXCEPT ![h[p].pid] = "up"]
        /\ \E next \in {"boot", "release"} : Save(p, "resumed", next)
     \/ Via(p, "release", "noted", "idle") /\ UNCHANGED qemu
  /\ UNCHANGED <<rec, dir, disk, launcher, lost, owner, created, removed, op, want, h, cur,
                  child, phase, restore, left>>

\* The lock goes with the directory.
Delete(p) ==
  /\ Goto(p, "delete", "idle") /\ Over(p)
  /\ rec' = NoRecord /\ dir' = FALSE /\ owner' = Nobody
  /\ removed' = removed \union {h[p].id}
  /\ UNCHANGED <<disk, qemu, launcher, lost, created, h, left>>

Reset(p) ==
  /\ pc[p] = "reset"
  /\ \/ disk' = FactoryDisk /\ Save(p, "cleaned", "release")
     \/ Via(p, "release", "noted", "idle") /\ UNCHANGED disk
  /\ UNCHANGED <<rec, dir, qemu, launcher, lost, owner, created, removed, op, want, h, cur,
                  child, phase, restore, left>>

\* A start that made the machine and saved nothing takes its directory with it.
Release(p) ==
  /\ Goto(p, "release", "idle") /\ Over(p)
  /\ owner' = IF owner = p THEN Nobody ELSE owner
  /\ dir' = (dir /\ (restore[p] = Created => rec # NoRecord))
  /\ UNCHANGED <<rec, disk, qemu, launcher, lost, created, removed, h, left>>

----------------------------------------------------------------------------
(* Without the lock *)

\* list() and get() write a machine back as stopped when its pid has gone.
Refresh(p) ==
  /\ Begins(p, "refresh")
  /\ rec # NoRecord
  /\ IF rec.status = "running" /\ ~Running(rec)
     THEN Via(p, "save", "stopped", "release") /\ cur' = [cur EXCEPT ![p] = rec]
     ELSE Via(p, "release", "noted", "idle") /\ UNCHANGED cur
  /\ UNCHANGED <<host, want, h, child, phase, restore>>

\* license() and `set --qemu-arg` change a field nothing here tells apart; the second is
\* for a stopped machine.
Note(p) ==
  /\ Begins(p, "note")
  /\ rec # NoRecord
  /\ Via(p, "save", "noted", "release") /\ cur' = [cur EXCEPT ![p] = rec]
  /\ UNCHANGED <<host, want, h, child, phase, restore>>

----------------------------------------------------------------------------
(* What happens to them *)

\* The process dies.  A QEMU it has not recorded is nobody's.
Crash(p) ==
  /\ p \in Mortal /\ pc[p] # "idle"
  /\ pc' = [pc EXCEPT ![p] = "idle"] /\ Over(p)
  /\ owner' = IF owner = p THEN Nobody ELSE owner
  /\ lost' = lost \union
       IF pc[p] \in {"spawned", "record", "foreground"} THEN {child[p]} ELSE {}
  /\ disk' = IF lost' # lost THEN Unrecorded ELSE disk
  /\ h' = [h EXCEPT ![p] = NoRecord]
  /\ UNCHANGED <<rec, dir, qemu, launcher, created, removed, left>>

Becomes(n, from, to) == qemu[n] \in from /\ qemu' = [qemu EXCEPT ![n] = to]

\* QEMU exits; SIGKILL takes effect; the pid is reused; gdb resumes a held guest.
Die(n) == Becomes(n, {"held", "up"}, "gone")
Reap(n) == Becomes(n, {"dying"}, "gone")
Reuse(n) == n \in Reusable /\ Becomes(n, {"gone"}, "other")
Debug(n) == Becomes(n, {"held"}, "up")

\* A guest writes to its disk, though hardly in QEMU's first second and a half.
Use(n) ==
  /\ qemu[n] = "up" /\ disk = "factory"
  /\ ~(child[launcher[n]] = n /\ pc[launcher[n]] = "spawned")
  /\ disk' = IF n \in lost THEN "unrecorded" ELSE "used"

Host(n) ==
  \/ (Die(n) \/ Reap(n) \/ Reuse(n) \/ Debug(n)) /\ UNCHANGED disk
  \/ Use(n) /\ UNCHANGED qemu

Step(p) ==
  \/ BeginStart(p) \/ BeginOther(p) \/ Acquire(p) \/ Refused(p) \/ Turned(p)
  \/ VerifyNew(p) \/ VerifyStart(p) \/ VerifyOther(p)
  \/ Terminate(p) \/ Shutdown(p) \/ Load(p) \/ SaveEdited(p)
  \/ Spawn(p) \/ CannotSpawn(p) \/ Spawned(p) \/ Record(p) \/ Foreground(p)
  \/ BootAnswers(p) \/ Respawn(p) \/ BootTimesOut(p)
  \/ Provisioned(p) \/ PowerCycle(p) \/ ProvisionFails(p) \/ Rebooted(p) \/ RebootFails(p)
  \/ StopForRelaunch(p) \/ Relaunch(p) \/ Undo(p)
  \/ Resume(p) \/ Delete(p) \/ Reset(p) \/ Release(p)
  \/ Refresh(p) \/ Note(p)
  \/ Crash(p)

Next ==
  \/ \E p \in Proc : Step(p)
  \/ \E n \in Pid :
       Host(n) /\ UNCHANGED <<rec, dir, launcher, lost, owner, created, removed, pc, local>>

Spec == Init /\ [][Next]_vars

----------------------------------------------------------------------------
(* Properties *)

Saved ==
  [id : Nat, status : {"stopped", "running"}, pid : Nat, frozen : BOOLEAN, started : BOOLEAN,
   prov : BOOLEAN]
Records == {NoRecord} \union Saved

PC == (Locked \ {"start", "device-mode"}) \union
      {"idle", "lock", "verify", "spawn", "spawned", "record", "foreground", "boot", "cycle",
       "provision", "reboot", "again", "relaunch", "undo", "load", "save", "delete", "reset",
       "release"}
Edits == {"stopped", "resumed", "cleaned", "provisioned", "noted"}
After == {"idle", "boot", "again", "relaunch", "undo", "release"}
AnyWant == [fg : BOOLEAN, frozen : BOOLEAN, wait : BOOLEAN, prov : BOOLEAN]

TypeOK ==
  /\ rec \in Records /\ dir \in BOOLEAN
  /\ disk \in {"factory", "used", "unrecorded"}
  /\ qemu \in [Pid -> {"none", "held", "up", "dying", "gone", "other"}]
  /\ launcher \in [Pid -> Proc \union {Nobody}] /\ lost \subseteq Pid
  /\ owner \in Proc \union {Nobody}
  /\ created \in Nat /\ removed \subseteq Nat
  /\ pc \in [Proc -> PC] /\ op \in [Proc -> Locked \union Unlocked \union {"none"}]
  /\ want \in [Proc -> AnyWant]
  /\ h \in [Proc -> Records] /\ cur \in [Proc -> Records]
  /\ edit \in [Proc -> Edits]
  /\ after \in [Proc -> After]
  /\ child \in [Proc -> Pid \union {0}]
  /\ phase \in [Proc -> {"launch", "respawn", "power-cycle"}]
  /\ restore \in [Proc -> Records \union {Created}]
  /\ left \in [Proc -> Nat]

\* QEMU processes that nobody has killed and somebody has recorded.
Ours(n) == qemu[n] \in {"held", "up"} /\ n \notin lost

Spawns == \E n \in Pid : qemu[n] = "none" /\ qemu'[n] # "none"

\* No operation boots a second QEMU on the disk of one that runs (quickchr.ts:3101-3104),
\* whatever other operations did before it had the lock.  One it sent SIGKILL to may still be
\* going: a respawn does not wait for it (qemu.ts:525-530).
NeverSpawnsBeside == [][Spawns => \A m \in Pid : ~Ours(m)]_vars

\* Between operations every QEMU that runs is the one machine.json names, so that stop, list
\* and remove find it; only a start that ended between spawning and saving leaves another.
QemuIsRecorded ==
  owner = Nobody =>
    \A n \in Pid : Ours(n) => rec # NoRecord /\ rec.status = "running" /\ rec.pid = n

\* An open provisioning window promises a factory disk (quickchr.ts:1601-1603,
\* provisioning-window.ts:45-57): after a crash, a failed boot and its undoing, or a clean,
\* unless nothing says that a guest has run.
OpenWindowIsFactory ==
  owner = Nobody /\ rec # NoRecord /\ WindowOpen(rec) => disk # "used"

\* A stopped machine holds nothing: no pid that stop() would end, no frozen marker
\* (quickchr.ts:500-501, types.ts:318-321), unless it was stopped in the foreground.
StoppedHoldsNothing ==
  rec # NoRecord /\ rec.status = "stopped" =>
    (rec.pid = 0 /\ ~rec.frozen) \/ \E n \in lost : rec.pid < n

\* An operation ends a process only by the pid machine.json has for it by then, or one it
\* spawned: not by what its handle remembers, a pid that has long been reused
\* (quickchr.ts:466-469).
EndsOnlyRecorded ==
  \A p \in Proc : LET n == Victim(p)
    IN  Exists(n) => launcher[n] = p \/ (rec # NoRecord /\ rec.pid = n)

\* A machine that was removed does not come back: nobody saves the state of a machine that
\* went while he waited for it (quickchr.ts:440-450).
RemovedStaysRemoved == rec # NoRecord => rec.id \notin removed

\* What was stopped or removed holds nothing that a later operation could mistake for a
\* machine that runs or is there.
EndedHoldsNothing == StoppedHoldsNothing /\ RemovedStaysRemoved
=============================================================================
