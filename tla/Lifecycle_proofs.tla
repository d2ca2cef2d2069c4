-------------------------- MODULE Lifecycle_proofs --------------------------
(***************************************************************************)
(* One machine's life, for any number of processes, operations and QEMUs:  *)
(* IInv is an inductive invariant of Lifecycle.                            *)
(*                                                                         *)
(* The argument: only the holder of the machine lock writes the host's     *)
(* state, so what an operation relies on is stated for the holder alone    *)
(* (HolderInv), step by step of the operation; everybody else keeps it.    *)
(* list(), get() and the writers that take no lock break this, so a        *)
(* process that runs them is assumed to be alone: WritersAlone.  The run   *)
(* refresh_hides_relaunch shows what happens otherwise.                    *)
(***************************************************************************)
EXTENDS Lifecycle, TLAPS

WritersAlone ==
  \A cast \in Casts : \A p \in cast : Ops[p] \intersect Unlocked # {} => cast = {p}

----------------------------------------------------------------------------
(* The inductive invariant *)

\* The QEMUs spawned so far are 1, 2, ...
Spawned1(n) == n \in Pid /\ qemu[n] # "none"

\* What any record says, however old: a pid that was spawned, and only of a machine that
\* was started; an identity that was given.
Sound(r) ==
  r # NoRecord =>
    /\ r.id <= created
    /\ r.pid # 0 => r.started /\ Spawned1(r.pid)
    /\ r.frozen => r.started

Undoes(r) == r \notin {NoRecord, Created} => Sound(r) /\ WindowOpen(r)

RecordsInv ==
  /\ Sound(rec)
  /\ \A p \in Proc : Sound(h[p]) /\ Sound(cur[p]) /\ Undoes(restore[p])

PidInv ==
  /\ \A m, n \in Pid : m < n /\ Spawned1(n) => Spawned1(m)
  /\ \A n \in lost : Spawned1(n)

\* A process with a writer that takes no lock has the machine for itself.
Idle(p) == pc[p] = "idle" /\ left[p] = 0
CastInv ==
  \A p, q \in Proc : p # q /\ Ops[p] \intersect Unlocked # {} => Idle(p) \/ Idle(q)

\* Who has the lock, who is on the way to it, and who writes without.
LockInv ==
  \A p \in Proc :
    /\ pc[p] = "idle" <=> op[p] = "none"
    /\ op[p] \in Unlocked => Ops[p] \intersect Unlocked # {} /\ pc[p] \in {"save", "release"}
    /\ owner = p => op[p] \notin Unlocked /\ pc[p] \notin {"idle", "lock"}
    /\ owner # p => pc[p] \in {"idle", "lock", "release"} \/ op[p] \in Unlocked
    /\ pc[p] = "lock" => op[p] \in Locked
    /\ pc[p] \in {"lock", "verify"} /\ op[p] # "start" => h[p] # NoRecord
    /\ pc[p] \in {"idle", "lock", "verify"} => restore[p] = NoRecord
    /\ pc[p] = "idle" \/ (pc[p] \in {"lock", "verify"} /\ op[p] = "start") =>
         phase[p] = "launch"

\* What the rest of a write leads to.
EditInv ==
  \A p \in Proc :
    /\ pc[p] = "stop" => edit[p] = "stopped"
    /\ pc[p] \in {"stop", "load", "save"} =>
         /\ after[p] # "idle"
         /\ op[p] \in Unlocked => after[p] = "release" /\ edit[p] \in {"stopped", "noted"}
         /\ after[p] \in {"undo", "relaunch"} => edit[p] = "stopped"
    /\ pc[p] = "save" => cur[p] = rec

\* The record of the machine that the holder works on is the one in its hand ...
InHand(p) ==
  \/ pc[p] \notin {"verify", "release", "spawn", "spawned", "record", "foreground"}
  \/ pc[p] \in {"spawn", "spawned"} /\ phase[p] = "power-cycle"

\* ... no QEMU of the machine runs ...
Bare(p) ==
  \/ pc[p] \in {"spawn", "relaunch", "undo", "delete", "reset"}
  \/ pc[p] \in {"load", "save"} /\ edit[p] \in {"stopped", "cleaned"}

\* ... or none but the one it spawned and nobody has recorded yet.
Launching(p) == pc[p] \in {"spawned", "record", "foreground"}

HolderInv(p) ==
  /\ pc[p] \notin {"verify", "release"} =>
       /\ h[p] # NoRecord /\ h[p].id \notin removed
       /\ restore[p] \notin {NoRecord, Created} => restore[p].id \notin removed
  /\ InHand(p) => rec = h[p]
  /\ Bare(p) => \A n \in Pid : ~Ours(n)
  /\ Launching(p) =>
       /\ child[p] \in Pid /\ qemu[child[p]] # "none" /\ launcher[child[p]] = p
       /\ child[p] \notin lost /\ h[p].pid < child[p]
       /\ \A n \in Pid : Ours(n) => n = child[p]
  /\ pc[p] \in {"load", "save"} /\ edit[p] = "cleaned" => disk # "used"

Recorded(n) == rec # NoRecord /\ rec.status = "running" /\ rec.pid = n

\* Every QEMU that runs is recorded, or the holder has just spawned it.
Known == \A n \in Pid : Ours(n) => Recorded(n) \/ (owner # Nobody /\ Launching(owner))

\* Who writes "stopped" without the lock found nothing that runs.
Writes(p) == op[p] \in Unlocked /\ edit[p] = "stopped" => \A n \in Pid : ~Ours(n)

OpenIsFactory ==
  rec # NoRecord /\ WindowOpen(rec) /\ disk = "used" =>
    owner # Nobody /\ pc[owner] \in {"record", "foreground"}

RemovedWasThere == RemovedStaysRemoved /\ \A i \in removed : i <= created

Works == owner # Nobody => HolderInv(owner)
WritesInv == \A p \in Proc : Writes(p)

HostInv ==
  /\ Works /\ Known /\ WritesInv /\ OpenIsFactory
  /\ StoppedHoldsNothing /\ RemovedWasThere

IInv ==
  TypeOK /\ RecordsInv /\ PidInv /\ CastInv /\ LockInv /\ EditInv /\ HostInv

----------------------------------------------------------------------------
(* Records, and the writes that change them *)

LEMMA Kinds ==
  /\ NoRecord \notin Saved /\ Created \notin Saved /\ Created # NoRecord
  /\ \A n \in Nat : NewRecord(n) \in Saved
BY DEF NoRecord, Created, Saved, NewRecord

LEMMA StoppedIs ==
  ASSUME NEW r \in Saved
  PROVE  /\ Stopped(r) \in Saved
         /\ Stopped(r).id = r.id /\ Stopped(r).status = "stopped" /\ Stopped(r).pid = 0
         /\ Stopped(r).frozen = FALSE
         /\ Stopped(r).started = r.started /\ Stopped(r).prov = r.prov
BY DEF Stopped, Saved

LEMMA EditedIs ==
  ASSUME NEW r \in Saved,
         NEW e \in Edits
  PROVE  /\ Edited(e, r) \in Saved
         /\ Edited(e, r).id = r.id
         /\ e \in {"stopped", "cleaned"} =>
              Edited(e, r).status = "stopped" /\ Edited(e, r).pid = 0 /\ ~Edited(e, r).frozen
         /\ e \notin {"stopped", "cleaned"} =>
              /\ Edited(e, r).status = r.status /\ Edited(e, r).pid = r.pid
              /\ Edited(e, r).frozen => r.frozen
         /\ e # "cleaned" =>
              /\ Edited(e, r).started = r.started
              /\ WindowOpen(Edited(e, r)) => WindowOpen(r)
<1>1. CASE e = "stopped"
  BY <1>1, StoppedIs DEF Edited, WindowOpen
<1>2. CASE e = "resumed"
  BY <1>2 DEF Edited, WindowOpen, Saved
<1>3. CASE e = "cleaned"
  <2>1. Stopped(r) \in Saved
    BY StoppedIs
  <2>2. Edited(e, r) = [Stopped(r) EXCEPT !.started = FALSE, !.prov = FALSE]
    BY <1>3 DEF Edited
  <2> QED
    BY <1>3, <2>1, <2>2, StoppedIs DEF Saved
<1>4. CASE e = "provisioned"
  BY <1>4 DEF Edited, WindowOpen, Saved
<1>5. CASE e = "noted"
  BY <1>5 DEF Edited
<1> QED
  BY <1>1, <1>2, <1>3, <1>4, <1>5 DEF Edits

LEMMA LaunchedIs ==
  ASSUME NEW p, h[p] \in Saved, child[p] \in Pid
  PROVE  /\ Launched(p) \in Saved /\ Launched(p).id = h[p].id
         /\ Launched(p).status = "running" /\ Launched(p).pid = child[p] /\ Launched(p).started
<1>1. Frozen(p) \in BOOLEAN
  BY Zenon DEF Frozen
<1>2. child[p] \in Nat
  BY DEF Pid
<1> QED
  BY <1>1, <1>2 DEF Launched, Saved

----------------------------------------------------------------------------
(* Types *)

\* A step of none of the processes.
HostStep(n) ==
  Host(n) /\ UNCHANGED <<rec, dir, launcher, lost, owner, created, removed, pc, local>>

LEMMA Names ==
  /\ {"idle", "lock", "verify", "spawn", "spawned", "record", "foreground", "boot", "cycle",
      "provision", "reboot", "again", "relaunch", "undo", "load", "save", "delete", "reset",
      "release", "stop", "shutdown", "continue", "remove", "clean"} = PC
  /\ After \subseteq PC
  /\ {"start", "stop", "shutdown", "continue", "remove", "clean", "device-mode"} = Locked
  /\ {"refresh", "note"} = Unlocked
BY DEF PC, After, Locked, Unlocked

LEMMA GotoTyped ==
  ASSUME TypeOK, NEW p \in Proc, NEW from, NEW to \in PC, Goto(p, from, to)
  PROVE  pc' \in [Proc -> PC]
BY DEF TypeOK, Goto

LEMMA ViaTyped ==
  ASSUME TypeOK, NEW p \in Proc, NEW via \in PC, NEW what \in Edits, NEW next \in After,
         Via(p, via, what, next)
  PROVE  pc' \in [Proc -> PC] /\ edit' \in [Proc -> Edits] /\ after' \in [Proc -> After]
BY DEF TypeOK, Via

LEMMA OverTyped ==
  ASSUME TypeOK, NEW p \in Proc, Over(p)
  PROVE  /\ op' \in [Proc -> Locked \union Unlocked \union {"none"}]
         /\ want' \in [Proc -> AnyWant]
         /\ phase' \in [Proc -> {"launch", "respawn", "power-cycle"}]
         /\ cur' \in [Proc -> Records] /\ child' \in [Proc -> Pid \union {0}]
         /\ restore' \in [Proc -> Records \union {Created}]
         /\ edit' \in [Proc -> Edits] /\ after' \in [Proc -> After]
BY DEF TypeOK, Over, Records, NoWant, AnyWant, Edits, After

LEMMA WantTyped ==
  ASSUME NEW w \in AnyWant, NEW b \in BOOLEAN
  PROVE  [w EXCEPT !.prov = b] \in AnyWant
BY DEF AnyWant

LEMMA BeginsTyped ==
  ASSUME TypeOK, NEW p \in Proc, NEW o, Begins(p, o)
  PROVE  /\ op' \in [Proc -> Locked \union Unlocked \union {"none"}]
         /\ left' \in [Proc -> Nat]
<1>1. Ops[p] \subseteq Locked \union Unlocked
  BY LifecycleAssumption
<1>2. o \in Ops[p] /\ left[p] \in Nat /\ left[p] > 0
  BY DEF TypeOK, Begins
<1>3. o \in Locked \union Unlocked /\ left[p] - 1 \in Nat
  BY <1>1, <1>2
<1> QED
  BY <1>3 DEF TypeOK, Begins

LEMMA Holds ==
  ASSUME IInv, NEW p \in Proc, pc[p] \notin {"idle", "lock", "save", "release"}
  PROVE  /\ owner = p /\ op[p] \in Locked /\ HolderInv(p)
         /\ pc[p] # "verify" => h[p] \in Saved /\ h[p] # NoRecord
<1>1. owner = p /\ op[p] \in Locked
  BY DEF IInv, LockInv, TypeOK
<1>2. HolderInv(p)
  BY <1>1, LifecycleAssumption DEF IInv, HostInv, Works, WritesInv
<1> QED
  BY <1>1, <1>2 DEF HolderInv, IInv, TypeOK, Records

LEMMA TypeInit == Init => TypeOK
BY LifecycleAssumption, Kinds, Names
DEF Init, TypeOK, Records, NoWant, AnyWant, Edits, After

\* Every action, every variable.
LEMMA TypeStep ==
  ASSUME IInv, [Next]_vars
  PROVE  TypeOK'
<1> TypeOK
  BY DEF IInv
<1> USE DEF TypeOK
<1>1. CASE UNCHANGED vars
  BY <1>1 DEF vars, host, local
<1>2. ASSUME NEW p \in Proc, BeginStart(p) PROVE TypeOK'
  <2>1. PICK w \in Wants[p] : want' = [want EXCEPT ![p] = w]
    BY <1>2 DEF BeginStart
  <2>2. w \in AnyWant
    BY LifecycleAssumption DEF AnyWant
  <2> QED
    BY <1>2, <2>1, <2>2, Names, BeginsTyped DEF BeginStart, host
<1>3. ASSUME NEW p \in Proc, BeginOther(p) PROVE TypeOK'
  BY <1>3, Names, BeginsTyped
  DEF BeginOther, host
<1>4. ASSUME NEW p \in Proc, Acquire(p) PROVE TypeOK'
  BY <1>4, Names, GotoTyped
  DEF Acquire, local
<1>5. ASSUME NEW p \in Proc, Refused(p) PROVE TypeOK'
  BY <1>5, Names, GotoTyped, OverTyped
  DEF Refused, host
<1>6. ASSUME NEW p \in Proc, Turned(p) PROVE TypeOK'
  BY <1>6, Names, GotoTyped
  DEF Turned, host, local
<1>7. ASSUME NEW p \in Proc, VerifyNew(p) PROVE TypeOK'
  <2>1. h' \in [Proc -> Records] /\ created' \in Nat
    BY <1>7, Kinds DEF VerifyNew, Records
  <2>2. pc' \in [Proc -> PC]
    BY <1>7, Names, GotoTyped DEF VerifyNew
  <2> QED
    BY <1>7, <2>1, <2>2 DEF VerifyNew
<1>8. ASSUME NEW p \in Proc, VerifyStart(p) PROVE TypeOK'
  <2>1. Reread(p) \in Records
    BY DEF Reread
  <2>2. h' \in [Proc -> Records] /\ restore' \in [Proc -> Records \union {Created}]
    BY <1>8, <2>1 DEF VerifyStart, Records
  <2>3. pc' \in [Proc -> PC]
    BY <1>8, Names, GotoTyped DEF VerifyStart
  <2>4. want' \in [Proc -> AnyWant]
    <3> DEFINE shut == want[p].prov /\ ~WindowOpen(Reread(p))
    <3>1. want' = [want EXCEPT ![p] = [want[p] EXCEPT !.prov = want[p].prov /\ ~shut]]
      BY <1>8 DEF VerifyStart
    <3> HIDE DEF shut
    <3>2. PICK b \in BOOLEAN : b = (want[p].prov /\ ~shut)
      BY Zenon
    <3>3. [want[p] EXCEPT !.prov = b] \in AnyWant
      BY WantTyped
    <3> QED
      BY <3>1, <3>2, <3>3
  <2> QED
    BY <1>8, <2>2, <2>3, <2>4 DEF VerifyStart, host
<1>9. ASSUME NEW p \in Proc, VerifyOther(p) PROVE TypeOK'
  <2>1. Reread(p) \in Records
    BY DEF Reread
  <2>2. h' \in [Proc -> Records]
    BY <1>9, <2>1 DEF VerifyOther
  <2>3. op[p] \in Locked
    BY <1>9, Holds DEF VerifyOther, Via, Save, StopUnderLock
  <2>4. PICK via \in PC, what \in Edits, next \in After : Via(p, via, what, next)
    BY <1>9, <2>3, Names DEF VerifyOther, Save, StopUnderLock, Edits, After, PC
  <2> QED
    BY <1>9, <2>2, <2>4, ViaTyped DEF VerifyOther, host
<1>10. ASSUME NEW p \in Proc, Terminate(p) PROVE TypeOK'
  <2>1. qemu' \in [Pid -> {"none", "held", "up", "dying", "gone", "other"}]
    BY <1>10 DEF Terminate, Ended
  <2>2. pc' \in [Proc -> PC]
    BY <1>10, Names DEF Terminate
  <2> QED
    BY <1>10, <2>1, <2>2 DEF Terminate, local
<1>11. ASSUME NEW p \in Proc, Shutdown(p) PROVE TypeOK'
  <2>1. qemu' \in [Pid -> {"none", "held", "up", "dying", "gone", "other"}]
    BY <1>11 DEF Shutdown, Ended
  <2>2. PICK via \in PC, what \in Edits, next \in After : Via(p, via, what, next)
    BY <1>11, Names DEF Shutdown, Save, Edits, After
  <2> QED
    BY <1>11, <2>1, <2>2, ViaTyped DEF Shutdown
<1>12. ASSUME NEW p \in Proc, Load(p) PROVE TypeOK'
  BY <1>12, Names, GotoTyped
  DEF Load, host
<1>13. ASSUME NEW p \in Proc, SaveEdited(p) PROVE TypeOK'
  <2>1. pc' \in [Proc -> PC]
    BY <1>13, Names, GotoTyped DEF SaveEdited
  <2>2. rec' \in Records /\ dir' \in BOOLEAN
    <3>1. cur[p] # NoRecord => Edited(edit[p], cur[p]) \in Records
      BY EditedIs DEF Records
    <3> QED
      BY <1>13, <3>1 DEF SaveEdited
  <2>3. h' \in [Proc -> Records]
    <3>1. h[p] # NoRecord => Edited(edit[p], h[p]) \in Records
      BY EditedIs DEF Records
    <3>2. NoRecord \in Records
      BY DEF Records
    <3> QED
      BY <1>13, <3>1, <3>2 DEF SaveEdited
  <2>4. cur' \in [Proc -> Records] /\ edit' \in [Proc -> Edits] /\ after' \in [Proc -> After]
    BY <1>13 DEF SaveEdited, Records, Edits, After
  <2> QED
    BY <1>13, <2>1, <2>2, <2>3, <2>4 DEF SaveEdited
<1>14. ASSUME NEW p \in Proc, Spawn(p) PROVE TypeOK'
  BY <1>14, Names, GotoTyped
  DEF Spawn
<1>15. ASSUME NEW p \in Proc, CannotSpawn(p) PROVE TypeOK'
  BY <1>15, Names, ViaTyped
  DEF CannotSpawn, Edits, After, StopUnderLock, SpawnFailed, host
<1>16. ASSUME NEW p \in Proc, Spawned(p) PROVE TypeOK'
  BY <1>16, Names, ViaTyped
  DEF Spawned, Edits, After, StopUnderLock, SpawnFailed, host
<1>17. ASSUME NEW p \in Proc, Record(p) PROVE TypeOK'
  <2>1. pc[p] = "record" /\ h[p] \in Saved
    BY <1>17, Holds DEF Record
  <2>2. Launched(p) \in Records
    BY <2>1, <1>17, Holds, LaunchedIs DEF Records, HolderInv, Launching
  <2>3. pc' \in [Proc -> PC]
    BY <1>17, Names DEF Record
  <2>4. h' \in [Proc -> Records] /\ rec' \in Records /\ dir' \in BOOLEAN
    BY <1>17, <2>2 DEF Record
  <2>5. lost' \subseteq Pid /\ disk' \in {"factory", "used", "unrecorded"}
    BY <1>17, <2>1, Holds DEF Record, Unrecorded, HolderInv, Launching
  <2> QED
    BY <1>17, <2>3, <2>4, <2>5 DEF Record
<1>18. ASSUME NEW p \in Proc, Foreground(p) PROVE TypeOK'
  <2>1. pc[p] = "foreground" /\ h[p] \in Saved
    BY <1>18, Holds DEF Foreground, Goto
  <2>2. [h[p] EXCEPT !.status = "stopped", !.started = TRUE] \in Records
    BY <2>1 DEF Saved, Records
  <2>3. pc' \in [Proc -> PC]
    BY <1>18, Names, GotoTyped DEF Foreground
  <2>4. h' \in [Proc -> Records] /\ rec' \in Records /\ dir' \in BOOLEAN
    <3> DEFINE r == [h[p] EXCEPT !.status = "stopped", !.started = TRUE]
    <3>1. r \in Records
      BY <2>2
    <3>2. (rec' = r /\ dir' = TRUE /\ h' = [h EXCEPT ![p] = r]) \/ UNCHANGED <<rec, dir, h>>
      BY <1>18 DEF Foreground
    <3> HIDE DEF r
    <3>3. rec' \in Records /\ dir' \in BOOLEAN
      BY <3>1, <3>2
    <3>4. h' = h \/ (r \in Records /\ h' = [h EXCEPT ![p] = r])
      BY <3>1, <3>2
    <3> QED
      BY <3>3, <3>4
  <2>5. lost' \subseteq Pid /\ disk' \in {"factory", "used", "unrecorded"}
    BY <1>18, <2>1, Holds DEF Foreground, Unrecorded, HolderInv, Launching
  <2> QED
    BY <1>18, <2>3, <2>4, <2>5 DEF Foreground
<1>19. ASSUME NEW p \in Proc, BootAnswers(p) PROVE TypeOK'
  <2>1. pc' \in [Proc -> PC]
    BY <1>19, Names, GotoTyped DEF BootAnswers
  <2>2. rec' \in Records /\ dir' \in BOOLEAN
    <3>1. h[p] \in Records
      OBVIOUS
    <3>2. (rec' = h[p] /\ dir' = TRUE) \/ UNCHANGED <<rec, dir>>
      BY <1>19 DEF BootAnswers
    <3> QED
      BY <3>1, <3>2
  <2> QED
    BY <1>19, <2>1, <2>2 DEF BootAnswers, local
<1>20. ASSUME NEW p \in Proc, Respawn(p) PROVE TypeOK'
  BY <1>20, Names, GotoTyped
  DEF Respawn, host
<1>21. ASSUME NEW p \in Proc, BootTimesOut(p) PROVE TypeOK'
  BY <1>21, Names, ViaTyped
  DEF BootTimesOut, Edits, After, StopUnderLock, host
<1>22. ASSUME NEW p \in Proc, Provisioned(p) PROVE TypeOK'
  BY <1>22, Names, ViaTyped
  DEF Provisioned, Edits, After, Save, host
<1>23. ASSUME NEW p \in Proc, PowerCycle(p) PROVE TypeOK'
  BY <1>23, Names, GotoTyped
  DEF PowerCycle, host
<1>24. ASSUME NEW p \in Proc, ProvisionFails(p) PROVE TypeOK'
  BY <1>24, Names, ViaTyped
  DEF ProvisionFails, Edits, After, StopUnderLock, host
<1>25. ASSUME NEW p \in Proc, Rebooted(p) PROVE TypeOK'
  BY <1>25, Names, ViaTyped
  DEF Rebooted, Edits, After, Save, host
<1>26. ASSUME NEW p \in Proc, RebootFails(p) PROVE TypeOK'
  BY <1>26, Names, ViaTyped
  DEF RebootFails, Edits, After, StopUnderLock, SpawnFailed, host
<1>27. ASSUME NEW p \in Proc, StopForRelaunch(p) PROVE TypeOK'
  BY <1>27, Names, ViaTyped
  DEF StopForRelaunch, Edits, After, StopUnderLock, host
<1>28. ASSUME NEW p \in Proc, Relaunch(p) PROVE TypeOK'
  <2>1. [want[p] EXCEPT !.prov = FALSE] \in AnyWant
    BY WantTyped
  <2>2. pc' \in [Proc -> PC]
    BY <1>28, Names, GotoTyped DEF Relaunch
  <2> QED
    BY <1>28, <2>1, <2>2 DEF Relaunch, Records
<1>29. ASSUME NEW p \in Proc, Undo(p) PROVE TypeOK'
  <2>1. pc' \in [Proc -> PC]
    BY <1>29, Names, GotoTyped DEF Undo
  <2>2. restore[p] \notin {Created, NoRecord} => restore[p] \in Saved
    BY DEF Records
  <2>3. h' \in [Proc -> Records] /\ rec' \in Records /\ dir' \in BOOLEAN
    <3> DEFINE r == [restore[p] EXCEPT !.status = "stopped", !.pid = 0]
    <3>1. restore[p] \notin {Created, NoRecord} => r \in Records
      BY <2>2 DEF Saved, Records
    <3>2. \/ /\ restore[p] \notin {Created, NoRecord}
             /\ rec' = r /\ dir' = TRUE /\ h' = [h EXCEPT ![p] = r]
          \/ UNCHANGED <<rec, dir, h>>
      BY <1>29 DEF Undo
    <3> HIDE DEF r
    <3>3. rec' \in Records /\ dir' \in BOOLEAN
      BY <3>1, <3>2
    <3>4. h' = h \/ (r \in Records /\ h' = [h EXCEPT ![p] = r])
      BY <3>1, <3>2
    <3> QED
      BY <3>3, <3>4
  <2> QED
    BY <1>29, <2>1, <2>3 DEF Undo, FactoryDisk
<1>30. ASSUME NEW p \in Proc, Resume(p) PROVE TypeOK'
  <2>1. qemu' \in [Pid -> {"none", "held", "up", "dying", "gone", "other"}]
    BY <1>30 DEF Resume
  <2>2. PICK via \in PC, what \in Edits, next \in After : Via(p, via, what, next)
    BY <1>30, Names DEF Resume, Save, Edits, After
  <2> QED
    BY <1>30, <2>1, <2>2, ViaTyped DEF Resume
<1>31. ASSUME NEW p \in Proc, Delete(p) PROVE TypeOK'
  <2>1. h[p] \in Saved
    BY <1>31, Holds DEF Delete, Goto
  <2>2. removed' \subseteq Nat /\ rec' \in Records
    BY <1>31, <2>1 DEF Delete, Saved, Records
  <2>3. pc' \in [Proc -> PC]
    BY <1>31, Names, GotoTyped DEF Delete
  <2> QED
    BY <1>31, <2>2, <2>3, OverTyped DEF Delete
<1>32. ASSUME NEW p \in Proc, Reset(p) PROVE TypeOK'
  <2>1. PICK via \in PC, what \in Edits, next \in After : Via(p, via, what, next)
    BY <1>32, Names DEF Reset, Save, Edits, After
  <2> QED
    BY <1>32, <2>1, ViaTyped DEF Reset, FactoryDisk
<1>33. ASSUME NEW p \in Proc, Release(p) PROVE TypeOK'
  BY <1>33, Names, GotoTyped, OverTyped
  DEF Release
<1>34. ASSUME NEW p \in Proc, Refresh(p) PROVE TypeOK'
  <2>1. cur' \in [Proc -> Records]
    BY <1>34 DEF Refresh
  <2>2. PICK via \in PC, what \in Edits, next \in After : Via(p, via, what, next)
    BY <1>34, Names DEF Refresh, Edits, After
  <2> QED
    BY <1>34, <2>1, <2>2, ViaTyped, BeginsTyped DEF Refresh, host
<1>35. ASSUME NEW p \in Proc, Note(p) PROVE TypeOK'
  BY <1>35, Names, ViaTyped, BeginsTyped
  DEF Note, Edits, After, host
<1>36. ASSUME NEW p \in Proc, Crash(p) PROVE TypeOK'
  <2>1. pc' \in [Proc -> PC] /\ h' \in [Proc -> Records]
    BY <1>36, Names DEF Crash, Records
  <2>2. lost' \subseteq Pid /\ disk' \in {"factory", "used", "unrecorded"}
    BY <1>36, Holds DEF Crash, Unrecorded, HolderInv, Launching
  <2> QED
    BY <1>36, <2>1, <2>2, OverTyped DEF Crash
<1>37. ASSUME NEW n \in Pid, HostStep(n) PROVE TypeOK'
  BY <1>37 DEF HostStep, Host, Die, Reap, Reuse, Debug, Use, Becomes, local
<1> HIDE DEF TypeOK
<1> QED
  BY <1>1, <1>2, <1>3, <1>4, <1>5, <1>6, <1>7, <1>8, <1>9, <1>10, <1>11, <1>12, <1>13, <1>14,
     <1>15, <1>16, <1>17, <1>18, <1>19, <1>20, <1>21, <1>22, <1>23, <1>24, <1>25, <1>26, <1>27,
     <1>28, <1>29, <1>30, <1>31, <1>32, <1>33, <1>34, <1>35, <1>36, <1>37
  DEF Next, Step, HostStep

LEMMA CastStep ==
  ASSUME IInv, [Next]_vars
  PROVE  CastInv'
<1> TypeOK /\ CastInv
  BY DEF IInv
<1> USE DEF TypeOK
<1>1. CASE UNCHANGED vars
  BY <1>1 DEF vars, host, local, CastInv, Idle
<1>2. ASSUME NEW p \in Proc, BeginStart(p) PROVE CastInv'
  BY <1>2
  DEF BeginStart, Begins, host, CastInv, Idle
<1>3. ASSUME NEW p \in Proc, BeginOther(p) PROVE CastInv'
  BY <1>3
  DEF BeginOther, Begins, host, CastInv, Idle
<1>4. ASSUME NEW p \in Proc, Acquire(p) PROVE CastInv'
  BY <1>4
  DEF Acquire, Goto, local, CastInv, Idle
<1>5. ASSUME NEW p \in Proc, Refused(p) PROVE CastInv'
  BY <1>5
  DEF Refused, Goto, Over, host, CastInv, Idle
<1>6. ASSUME NEW p \in Proc, Turned(p) PROVE CastInv'
  BY <1>6
  DEF Turned, Goto, host, local, CastInv, Idle
<1>7. ASSUME NEW p \in Proc, VerifyNew(p) PROVE CastInv'
  BY <1>7
  DEF VerifyNew, Goto, CastInv, Idle
<1>8. ASSUME NEW p \in Proc, VerifyStart(p) PROVE CastInv'
  BY <1>8
  DEF VerifyStart, Goto, host, CastInv, Idle
<1>9. ASSUME NEW p \in Proc, VerifyOther(p) PROVE CastInv'
  BY <1>9
  DEF VerifyOther, StopUnderLock, Save, Via, host, CastInv, Idle
<1>10. ASSUME NEW p \in Proc, Terminate(p) PROVE CastInv'
  BY <1>10
  DEF Terminate, local, CastInv, Idle
<1>11. ASSUME NEW p \in Proc, Shutdown(p) PROVE CastInv'
  BY <1>11
  DEF Shutdown, Save, Via, CastInv, Idle
<1>12. ASSUME NEW p \in Proc, Load(p) PROVE CastInv'
  BY <1>12
  DEF Load, Goto, host, CastInv, Idle
<1>13. ASSUME NEW p \in Proc, SaveEdited(p) PROVE CastInv'
  BY <1>13
  DEF SaveEdited, Goto, CastInv, Idle
<1>14. ASSUME NEW p \in Proc, Spawn(p) PROVE CastInv'
  BY <1>14
  DEF Spawn, Goto, CastInv, Idle
<1>15. ASSUME NEW p \in Proc, CannotSpawn(p) PROVE CastInv'
  BY <1>15
  DEF CannotSpawn, SpawnFailed, StopUnderLock, Via, host, CastInv, Idle
<1>16. ASSUME NEW p \in Proc, Spawned(p) PROVE CastInv'
  BY <1>16
  DEF Spawned, SpawnFailed, Via, StopUnderLock, host, CastInv, Idle
<1>17. ASSUME NEW p \in Proc, Record(p) PROVE CastInv'
  BY <1>17
  DEF Record, CastInv, Idle
<1>18. ASSUME NEW p \in Proc, Foreground(p) PROVE CastInv'
  BY <1>18
  DEF Foreground, Goto, CastInv, Idle
<1>19. ASSUME NEW p \in Proc, BootAnswers(p) PROVE CastInv'
  BY <1>19
  DEF BootAnswers, Goto, local, CastInv, Idle
<1>20. ASSUME NEW p \in Proc, Respawn(p) PROVE CastInv'
  BY <1>20
  DEF Respawn, Goto, host, CastInv, Idle
<1>21. ASSUME NEW p \in Proc, BootTimesOut(p) PROVE CastInv'
  BY <1>21
  DEF BootTimesOut, StopUnderLock, Via, host, CastInv, Idle
<1>22. ASSUME NEW p \in Proc, Provisioned(p) PROVE CastInv'
  BY <1>22
  DEF Provisioned, Save, Via, host, CastInv, Idle
<1>23. ASSUME NEW p \in Proc, PowerCycle(p) PROVE CastInv'
  BY <1>23
  DEF PowerCycle, Goto, host, CastInv, Idle
<1>24. ASSUME NEW p \in Proc, ProvisionFails(p) PROVE CastInv'
  BY <1>24
  DEF ProvisionFails, StopUnderLock, Via, host, CastInv, Idle
<1>25. ASSUME NEW p \in Proc, Rebooted(p) PROVE CastInv'
  BY <1>25
  DEF Rebooted, Save, Via, host, CastInv, Idle
<1>26. ASSUME NEW p \in Proc, RebootFails(p) PROVE CastInv'
  BY <1>26
  DEF RebootFails, SpawnFailed, StopUnderLock, Via, host, CastInv, Idle
<1>27. ASSUME NEW p \in Proc, StopForRelaunch(p) PROVE CastInv'
  BY <1>27
  DEF StopForRelaunch, StopUnderLock, Via, host, CastInv, Idle
<1>28. ASSUME NEW p \in Proc, Relaunch(p) PROVE CastInv'
  BY <1>28
  DEF Relaunch, Goto, CastInv, Idle
<1>29. ASSUME NEW p \in Proc, Undo(p) PROVE CastInv'
  BY <1>29
  DEF Undo, Goto, CastInv, Idle
<1>30. ASSUME NEW p \in Proc, Resume(p) PROVE CastInv'
  BY <1>30
  DEF Resume, Save, Via, CastInv, Idle
<1>31. ASSUME NEW p \in Proc, Delete(p) PROVE CastInv'
  BY <1>31
  DEF Delete, Goto, Over, CastInv, Idle
<1>32. ASSUME NEW p \in Proc, Reset(p) PROVE CastInv'
  BY <1>32
  DEF Reset, Save, Via, CastInv, Idle
<1>33. ASSUME NEW p \in Proc, Release(p) PROVE CastInv'
  BY <1>33
  DEF Release, Goto, Over, CastInv, Idle
<1>34. ASSUME NEW p \in Proc, Refresh(p) PROVE CastInv'
  BY <1>34
  DEF Refresh, Begins, Via, host, CastInv, Idle
<1>35. ASSUME NEW p \in Proc, Note(p) PROVE CastInv'
  BY <1>35
  DEF Note, Begins, Via, host, CastInv, Idle
<1>36. ASSUME NEW p \in Proc, Crash(p) PROVE CastInv'
  BY <1>36
  DEF Crash, Over, CastInv, Idle
<1>37. ASSUME NEW n \in Pid, HostStep(n) PROVE CastInv'
  BY <1>37 DEF HostStep, Host, local, CastInv, Idle
<1> HIDE DEF TypeOK
<1> QED
  BY <1>1, <1>2, <1>3, <1>4, <1>5, <1>6, <1>7, <1>8, <1>9, <1>10, <1>11, <1>12, <1>13, <1>14,
     <1>15, <1>16, <1>17, <1>18, <1>19, <1>20, <1>21, <1>22, <1>23, <1>24, <1>25, <1>26, <1>27,
     <1>28, <1>29, <1>30, <1>31, <1>32, <1>33, <1>34, <1>35, <1>36, <1>37
  DEF Next, Step, HostStep

\* Two processes that write, or have the lock, are one.
LEMMA OneWorks ==
  ASSUME IInv, NEW p \in Proc, NEW q \in Proc,
         pc[p] \notin {"idle", "lock", "release"} \/ owner = p,
         pc[q] \notin {"idle", "lock", "release"} \/ owner = q
  PROVE  p = q
BY DEF IInv, LockInv, CastInv, Idle

LEMMA LockStep ==
  ASSUME IInv, [Next]_vars
  PROVE  LockInv'
<1> TypeOK /\ LockInv /\ EditInv
  BY DEF IInv
<1> USE DEF TypeOK
<1>1. CASE UNCHANGED vars
  BY <1>1 DEF vars, host, local, LockInv
<1>2. ASSUME NEW p \in Proc, BeginStart(p) PROVE LockInv'
  BY <1>2, Names
  DEF BeginStart, Begins, host, LockInv
<1>3. ASSUME NEW p \in Proc, BeginOther(p) PROVE LockInv'
  BY <1>3, Names
  DEF BeginOther, Begins, host, LockInv
<1>4. ASSUME NEW p \in Proc, Acquire(p) PROVE LockInv'
  BY <1>4, Names, LifecycleAssumption
  DEF Acquire, Goto, local, LockInv
<1>5. ASSUME NEW p \in Proc, Refused(p) PROVE LockInv'
  BY <1>5, Names
  DEF Refused, Goto, Over, host, LockInv
<1>6. ASSUME NEW p \in Proc, Turned(p) PROVE LockInv'
  BY <1>6, Names
  DEF Turned, Goto, host, local, LockInv
<1>7. ASSUME NEW p \in Proc, VerifyNew(p) PROVE LockInv'
  BY <1>7, Names
  DEF VerifyNew, Goto, LockInv
<1>8. ASSUME NEW p \in Proc, VerifyStart(p) PROVE LockInv'
  BY <1>8, Names
  DEF VerifyStart, Goto, host, LockInv
<1>9. ASSUME NEW p \in Proc, VerifyOther(p) PROVE LockInv'
  BY <1>9, Names
  DEF VerifyOther, StopUnderLock, Save, Via, host, LockInv
<1>10. ASSUME NEW p \in Proc, Terminate(p) PROVE LockInv'
  BY <1>10, Names
  DEF Terminate, local, LockInv
<1>11. ASSUME NEW p \in Proc, Shutdown(p) PROVE LockInv'
  BY <1>11, Names
  DEF Shutdown, Save, Via, LockInv
<1>12. ASSUME NEW p \in Proc, Load(p) PROVE LockInv'
  BY <1>12, Names
  DEF Load, Goto, host, LockInv
<1>13. ASSUME NEW p \in Proc, SaveEdited(p) PROVE LockInv'
  BY <1>13, Names
  DEF SaveEdited, Goto, LockInv, EditInv, After
<1>14. ASSUME NEW p \in Proc, Spawn(p) PROVE LockInv'
  BY <1>14, Names
  DEF Spawn, Goto, LockInv
<1>15. ASSUME NEW p \in Proc, CannotSpawn(p) PROVE LockInv'
  BY <1>15, Names
  DEF CannotSpawn, SpawnFailed, StopUnderLock, Via, host, LockInv
<1>16. ASSUME NEW p \in Proc, Spawned(p) PROVE LockInv'
  BY <1>16, Names
  DEF Spawned, SpawnFailed, Via, StopUnderLock, host, LockInv
<1>17. ASSUME NEW p \in Proc, Record(p) PROVE LockInv'
  BY <1>17, Names
  DEF Record, LockInv
<1>18. ASSUME NEW p \in Proc, Foreground(p) PROVE LockInv'
  BY <1>18, Names
  DEF Foreground, Goto, LockInv
<1>19. ASSUME NEW p \in Proc, BootAnswers(p) PROVE LockInv'
  BY <1>19, Names
  DEF BootAnswers, Goto, local, LockInv
<1>20. ASSUME NEW p \in Proc, Respawn(p) PROVE LockInv'
  BY <1>20, Names
  DEF Respawn, Goto, host, LockInv
<1>21. ASSUME NEW p \in Proc, BootTimesOut(p) PROVE LockInv'
  BY <1>21, Names
  DEF BootTimesOut, StopUnderLock, Via, host, LockInv
<1>22. ASSUME NEW p \in Proc, Provisioned(p) PROVE LockInv'
  BY <1>22, Names
  DEF Provisioned, Save, Via, host, LockInv
<1>23. ASSUME NEW p \in Proc, PowerCycle(p) PROVE LockInv'
  BY <1>23, Names
  DEF PowerCycle, Goto, host, LockInv
<1>24. ASSUME NEW p \in Proc, ProvisionFails(p) PROVE LockInv'
  BY <1>24, Names
  DEF ProvisionFails, StopUnderLock, Via, host, LockInv
<1>25. ASSUME NEW p \in Proc, Rebooted(p) PROVE LockInv'
  BY <1>25, Names
  DEF Rebooted, Save, Via, host, LockInv
<1>26. ASSUME NEW p \in Proc, RebootFails(p) PROVE LockInv'
  BY <1>26, Names
  DEF RebootFails, SpawnFailed, StopUnderLock, Via, host, LockInv
<1>27. ASSUME NEW p \in Proc, StopForRelaunch(p) PROVE LockInv'
  BY <1>27, Names, LifecycleAssumption, Holds
  DEF StopForRelaunch, StopUnderLock, Via, host, LockInv
<1>28. ASSUME NEW p \in Proc, Relaunch(p) PROVE LockInv'
  BY <1>28, Names, LifecycleAssumption, Holds
  DEF Relaunch, Goto, LockInv
<1>29. ASSUME NEW p \in Proc, Undo(p) PROVE LockInv'
  BY <1>29, Names
  DEF Undo, Goto, LockInv
<1>30. ASSUME NEW p \in Proc, Resume(p) PROVE LockInv'
  BY <1>30, Names
  DEF Resume, Save, Via, LockInv
<1>31. ASSUME NEW p \in Proc, Delete(p) PROVE LockInv'
  BY <1>31, Names, LifecycleAssumption
  DEF Delete, Goto, Over, LockInv
<1>32. ASSUME NEW p \in Proc, Reset(p) PROVE LockInv'
  BY <1>32, Names
  DEF Reset, Save, Via, LockInv
<1>33. ASSUME NEW p \in Proc, Release(p) PROVE LockInv'
  BY <1>33, Names, LifecycleAssumption
  DEF Release, Goto, Over, LockInv
<1>34. ASSUME NEW p \in Proc, Refresh(p) PROVE LockInv'
  BY <1>34, Names
  DEF Refresh, Begins, Via, host, LockInv
<1>35. ASSUME NEW p \in Proc, Note(p) PROVE LockInv'
  BY <1>35, Names
  DEF Note, Begins, Via, host, LockInv
<1>36. ASSUME NEW p \in Proc, Crash(p) PROVE LockInv'
  BY <1>36, Names, LifecycleAssumption
  DEF Crash, Over, LockInv
<1>37. ASSUME NEW n \in Pid, HostStep(n) PROVE LockInv'
  BY <1>37 DEF HostStep, Host, local, LockInv
<1> HIDE DEF TypeOK
<1> QED
  BY <1>1, <1>2, <1>3, <1>4, <1>5, <1>6, <1>7, <1>8, <1>9, <1>10, <1>11, <1>12, <1>13, <1>14,
     <1>15, <1>16, <1>17, <1>18, <1>19, <1>20, <1>21, <1>22, <1>23, <1>24, <1>25, <1>26, <1>27,
     <1>28, <1>29, <1>30, <1>31, <1>32, <1>33, <1>34, <1>35, <1>36, <1>37
  DEF Next, Step, HostStep

LEMMA EditStep ==
  ASSUME IInv, [Next]_vars
  PROVE  EditInv'
<1> TypeOK /\ LockInv /\ EditInv
  BY DEF IInv
<1> USE DEF TypeOK
<1>1. CASE UNCHANGED vars
  BY <1>1 DEF vars, host, local, EditInv
<1>2. ASSUME NEW p \in Proc, BeginStart(p) PROVE EditInv'
  BY <1>2, Names
  DEF BeginStart, Begins, host, EditInv
<1>3. ASSUME NEW p \in Proc, BeginOther(p) PROVE EditInv'
  BY <1>3, Names
  DEF BeginOther, Begins, host, EditInv
<1>4. ASSUME NEW p \in Proc, Acquire(p) PROVE EditInv'
  BY <1>4, Names
  DEF Acquire, Goto, local, EditInv
<1>5. ASSUME NEW p \in Proc, Refused(p) PROVE EditInv'
  BY <1>5, Names
  DEF Refused, Goto, Over, host, EditInv
<1>6. ASSUME NEW p \in Proc, Turned(p) PROVE EditInv'
  BY <1>6, Names
  DEF Turned, Goto, host, local, EditInv
<1>7. ASSUME NEW p \in Proc, VerifyNew(p) PROVE EditInv'
  BY <1>7, Names
  DEF VerifyNew, Goto, EditInv
<1>8. ASSUME NEW p \in Proc, VerifyStart(p) PROVE EditInv'
  BY <1>8, Names
  DEF VerifyStart, Goto, host, EditInv
<1>9. ASSUME NEW p \in Proc, VerifyOther(p) PROVE EditInv'
  BY <1>9, Names
  DEF VerifyOther, StopUnderLock, Save, Via, host, EditInv
<1>10. ASSUME NEW p \in Proc, Terminate(p) PROVE EditInv'
  BY <1>10, Names
  DEF Terminate, local, EditInv
<1>11. ASSUME NEW p \in Proc, Shutdown(p) PROVE EditInv'
  BY <1>11, Names
  DEF Shutdown, Save, Via, EditInv
<1>12. ASSUME NEW p \in Proc, Load(p) PROVE EditInv'
  BY <1>12, Names
  DEF Load, Goto, host, EditInv
<1>13. ASSUME NEW p \in Proc, SaveEdited(p) PROVE EditInv'
  <2>1. \A q \in Proc \ {p} : pc[q] # "save"
    BY <1>13, OneWorks DEF SaveEdited, Goto
  <2>2. pc'[p] \notin {"stop", "load", "save"}
    BY <1>13 DEF SaveEdited, Goto, After
  <2> QED
    BY <1>13, <2>1, <2>2 DEF SaveEdited, Goto, EditInv
<1>14. ASSUME NEW p \in Proc, Spawn(p) PROVE EditInv'
  BY <1>14, Names
  DEF Spawn, Goto, EditInv
<1>15. ASSUME NEW p \in Proc, CannotSpawn(p) PROVE EditInv'
  BY <1>15, Names
  DEF CannotSpawn, SpawnFailed, StopUnderLock, Via, host, EditInv
<1>16. ASSUME NEW p \in Proc, Spawned(p) PROVE EditInv'
  BY <1>16, Names
  DEF Spawned, SpawnFailed, Via, StopUnderLock, host, EditInv
<1>17. ASSUME NEW p \in Proc, Record(p) PROVE EditInv'
  BY <1>17, Names, OneWorks
  DEF Record, EditInv
<1>18. ASSUME NEW p \in Proc, Foreground(p) PROVE EditInv'
  BY <1>18, Names, OneWorks
  DEF Foreground, Goto, EditInv
<1>19. ASSUME NEW p \in Proc, BootAnswers(p) PROVE EditInv'
  BY <1>19, Names, OneWorks
  DEF BootAnswers, Goto, local, EditInv
<1>20. ASSUME NEW p \in Proc, Respawn(p) PROVE EditInv'
  BY <1>20, Names
  DEF Respawn, Goto, host, EditInv
<1>21. ASSUME NEW p \in Proc, BootTimesOut(p) PROVE EditInv'
  BY <1>21, Names
  DEF BootTimesOut, StopUnderLock, Via, host, EditInv
<1>22. ASSUME NEW p \in Proc, Provisioned(p) PROVE EditInv'
  BY <1>22, Names, Holds
  DEF Provisioned, Save, Via, host, EditInv
<1>23. ASSUME NEW p \in Proc, PowerCycle(p) PROVE EditInv'
  BY <1>23, Names
  DEF PowerCycle, Goto, host, EditInv
<1>24. ASSUME NEW p \in Proc, ProvisionFails(p) PROVE EditInv'
  BY <1>24, Names, Holds
  DEF ProvisionFails, StopUnderLock, Via, host, EditInv
<1>25. ASSUME NEW p \in Proc, Rebooted(p) PROVE EditInv'
  BY <1>25, Names, Holds
  DEF Rebooted, Save, Via, host, EditInv
<1>26. ASSUME NEW p \in Proc, RebootFails(p) PROVE EditInv'
  BY <1>26, Names
  DEF RebootFails, SpawnFailed, StopUnderLock, Via, host, EditInv
<1>27. ASSUME NEW p \in Proc, StopForRelaunch(p) PROVE EditInv'
  BY <1>27, Names, Holds
  DEF StopForRelaunch, StopUnderLock, Via, host, EditInv
<1>28. ASSUME NEW p \in Proc, Relaunch(p) PROVE EditInv'
  BY <1>28, Names
  DEF Relaunch, Goto, EditInv
<1>29. ASSUME NEW p \in Proc, Undo(p) PROVE EditInv'
  BY <1>29, Names, OneWorks
  DEF Undo, Goto, EditInv
<1>30. ASSUME NEW p \in Proc, Resume(p) PROVE EditInv'
  BY <1>30, Names, Holds
  DEF Resume, Save, Via, EditInv
<1>31. ASSUME NEW p \in Proc, Delete(p) PROVE EditInv'
  BY <1>31, Names, OneWorks
  DEF Delete, Goto, Over, EditInv
<1>32. ASSUME NEW p \in Proc, Reset(p) PROVE EditInv'
  BY <1>32, Names, Holds
  DEF Reset, Save, Via, EditInv
<1>33. ASSUME NEW p \in Proc, Release(p) PROVE EditInv'
  BY <1>33, Names
  DEF Release, Goto, Over, EditInv
<1>34. ASSUME NEW p \in Proc, Refresh(p) PROVE EditInv'
  BY <1>34, Names
  DEF Refresh, Begins, Via, host, EditInv
<1>35. ASSUME NEW p \in Proc, Note(p) PROVE EditInv'
  BY <1>35, Names
  DEF Note, Begins, Via, host, EditInv
<1>36. ASSUME NEW p \in Proc, Crash(p) PROVE EditInv'
  BY <1>36, Names
  DEF Crash, Over, EditInv
<1>37. ASSUME NEW n \in Pid, HostStep(n) PROVE EditInv'
  BY <1>37 DEF HostStep, Host, local, EditInv
<1> HIDE DEF TypeOK
<1> QED
  BY <1>1, <1>2, <1>3, <1>4, <1>5, <1>6, <1>7, <1>8, <1>9, <1>10, <1>11, <1>12, <1>13, <1>14,
     <1>15, <1>16, <1>17, <1>18, <1>19, <1>20, <1>21, <1>22, <1>23, <1>24, <1>25, <1>26, <1>27,
     <1>28, <1>29, <1>30, <1>31, <1>32, <1>33, <1>34, <1>35, <1>36, <1>37
  DEF Next, Step, HostStep

----------------------------------------------------------------------------
(* Pids, and what records say of them *)

LEMMA EndedKeeps ==
  ASSUME TypeOK, NEW n, qemu' \in Ended(n)
  PROVE  \A m \in Pid : /\ qemu[m] # "none" <=> qemu'[m] # "none"
                        /\ m # n => qemu'[m] = qemu[m]
                        /\ m = n => qemu'[m] \notin {"held", "up"}
                        /\ qemu'[m] \in {"held", "up"} => qemu'[m] = qemu[m]
BY DEF TypeOK, Ended, Exists

\* Pids and identities are given out, and never taken back.
Grown ==
  /\ created <= created'
  /\ \A n \in Pid : qemu[n] # "none" => qemu'[n] # "none"

LEMMA PidStep ==
  ASSUME IInv, [Next]_vars
  PROVE  PidInv' /\ Grown
<1> TypeOK /\ PidInv
  BY DEF IInv
<1> USE DEF TypeOK, PidInv, Spawned1, Grown
<1>1. CASE UNCHANGED vars
  BY <1>1 DEF vars, host
<1>2. CASE UNCHANGED <<qemu, lost, created>>
  BY <1>2
<1>3. ASSUME NEW p \in Proc, Terminate(p) \/ Shutdown(p) PROVE PidInv' /\ Grown
  <2>1. lost' = lost /\ created' = created /\ qemu' \in Ended(Victim(p))
    BY <1>3 DEF Terminate, Shutdown
  <2> QED
    BY <2>1, EndedKeeps
<1>4. ASSUME NEW p \in Proc, Spawn(p) PROVE PidInv' /\ Grown
  <2>1. PICK n \in Pid, s \in {"held", "up"} :
          /\ qemu[n] = "none" /\ \A m \in 1..(n - 1) : qemu[m] # "none"
          /\ qemu' = [qemu EXCEPT ![n] = s]
    BY <1>4 DEF Spawn
  <2>2. \A m \in Pid : m < n => qemu[m] # "none"
    BY <2>1 DEF Pid
  <2> QED
    BY <1>4, <2>1, <2>2 DEF Spawn, Pid
<1>5. ASSUME NEW p \in Proc, Resume(p) PROVE PidInv' /\ Grown
  BY <1>5 DEF Resume
<1>6. ASSUME NEW p \in Proc, Record(p) \/ Foreground(p) \/ Crash(p) PROVE PidInv' /\ Grown
  <2>1. UNCHANGED <<qemu, created>>
    BY <1>6 DEF Record, Foreground, Crash
  <2>2. \/ lost' = lost
        \/ pc[p] \in {"spawned", "record", "foreground"} /\ lost' = lost \union {child[p]}
    BY <1>6 DEF Record, Foreground, Crash, Goto
  <2>3. lost' # lost => child[p] \in Pid /\ qemu[child[p]] # "none"
    BY <2>2, Holds DEF HolderInv, Launching
  <2> QED
    BY <2>1, <2>2, <2>3
<1>7. ASSUME NEW p \in Proc, VerifyNew(p) PROVE PidInv' /\ Grown
  BY <1>7 DEF VerifyNew
<1>8. ASSUME NEW n \in Pid, HostStep(n) PROVE PidInv' /\ Grown
  BY <1>8 DEF HostStep, Host, Die, Reap, Reuse, Debug, Use, Becomes
<1>9. ASSUME NEW p \in Proc,
        \/ BeginStart(p) \/ BeginOther(p) \/ Acquire(p) \/ Refused(p) \/ Turned(p)
        \/ VerifyStart(p) \/ VerifyOther(p) \/ Load(p) \/ SaveEdited(p) \/ CannotSpawn(p)
        \/ Spawned(p) \/ BootAnswers(p) \/ Respawn(p) \/ BootTimesOut(p)
      PROVE UNCHANGED <<qemu, lost, created>>
  BY <1>9 DEF host, BeginStart, BeginOther, Acquire, Refused, Turned, VerifyStart, VerifyOther,
     Load, SaveEdited, CannotSpawn, Spawned, BootAnswers, Respawn, BootTimesOut
<1>10. ASSUME NEW p \in Proc,
        \/ Provisioned(p) \/ PowerCycle(p) \/ ProvisionFails(p) \/ Rebooted(p)
        \/ RebootFails(p) \/ StopForRelaunch(p) \/ Relaunch(p) \/ Undo(p)
        \/ Delete(p) \/ Reset(p) \/ Release(p) \/ Refresh(p) \/ Note(p)
      PROVE UNCHANGED <<qemu, lost, created>>
  BY <1>10 DEF host, Provisioned, PowerCycle, ProvisionFails, Rebooted, RebootFails,
     StopForRelaunch, Relaunch, Undo, Delete, Reset, Release, Refresh, Note
<1> HIDE DEF TypeOK
<1> QED
  BY <1>1, <1>2, <1>3, <1>4, <1>5, <1>6, <1>7, <1>8, <1>9, <1>10
  DEF Next, Step, HostStep

LEMMA RecordsStep ==
  ASSUME IInv, [Next]_vars
  PROVE  RecordsInv'
<1> TypeOK /\ RecordsInv /\ Grown
  BY PidStep DEF IInv
<1> USE DEF TypeOK
<1>1. CASE UNCHANGED vars
  BY <1>1 DEF vars, host, local, RecordsInv, Sound, Undoes, Spawned1
<1>2. ASSUME NEW p \in Proc, BeginStart(p) PROVE RecordsInv'
  BY <1>2
  DEF BeginStart, Begins, host, RecordsInv, Sound, Undoes, Spawned1, Grown
<1>3. ASSUME NEW p \in Proc, BeginOther(p) PROVE RecordsInv'
  BY <1>3
  DEF BeginOther, Begins, host, RecordsInv, Sound, Undoes, Spawned1, Grown
<1>4. ASSUME NEW p \in Proc, Acquire(p) PROVE RecordsInv'
  BY <1>4
  DEF Acquire, Goto, local, RecordsInv, Sound, Undoes, Spawned1, Grown
<1>5. ASSUME NEW p \in Proc, Refused(p) PROVE RecordsInv'
  BY <1>5
  DEF Refused, Goto, Over, host, RecordsInv, Sound, Undoes, Spawned1, Grown
<1>6. ASSUME NEW p \in Proc, Turned(p) PROVE RecordsInv'
  BY <1>6
  DEF Turned, Goto, host, local, RecordsInv, Sound, Undoes, Spawned1, Grown
<1>7. ASSUME NEW p \in Proc, VerifyNew(p) PROVE RecordsInv'
  <2>1. NewRecord(created') \in Saved /\ NewRecord(created').id = created'
        /\ NewRecord(created').pid = 0 /\ NewRecord(created').frozen = FALSE
    BY <1>7, Kinds DEF VerifyNew, NewRecord
  <2>2. h' = [h EXCEPT ![p] = NewRecord(created')] /\ restore' = [restore EXCEPT ![p] = Created]
        /\ UNCHANGED <<rec, cur, qemu>> /\ created' \in Nat
    BY <1>7 DEF VerifyNew
  <2>3. \A r \in Records : r # NoRecord /\ r.id <= created => r.id <= created'
    BY <2>2 DEF Grown, Records, Saved
  <2>4. created' <= created'
    BY <2>2
  <2>5. Sound(rec)' /\ \A q \in Proc : Sound(cur[q])' /\ Undoes(restore[q])'
    BY <2>2, <2>3 DEF RecordsInv, Sound, Undoes, Spawned1
  <2>6. \A q \in Proc : Sound(h[q])'
    BY <2>1, <2>2, <2>3, <2>4 DEF RecordsInv, Sound, Spawned1
  <2> QED
    BY <2>5, <2>6 DEF RecordsInv
<1>8. ASSUME NEW p \in Proc, VerifyStart(p) PROVE RecordsInv'
  <2> DEFINE r == Reread(p)
  <2>1. Sound(r)
    BY DEF RecordsInv, Reread
  <2>2. /\ h' = [h EXCEPT ![p] = r]
        /\ restore' = [restore EXCEPT ![p] = IF WindowOpen(r) THEN r ELSE NoRecord]
        /\ UNCHANGED <<rec, cur, qemu, created>>
    BY <1>8 DEF VerifyStart, host
  <2> HIDE DEF r
  <2> QED
    BY <2>1, <2>2 DEF RecordsInv, Sound, Undoes, Spawned1
<1>9. ASSUME NEW p \in Proc, VerifyOther(p) PROVE RecordsInv'
  <2> DEFINE r == Reread(p)
  <2>1. Sound(r)
    BY DEF RecordsInv, Reread
  <2>2. h' = [h EXCEPT ![p] = r] /\ restore' = restore
        /\ UNCHANGED <<rec, cur, qemu, created>>
    BY <1>9 DEF VerifyOther, host
  <2> HIDE DEF r
  <2> QED
    BY <2>1, <2>2 DEF RecordsInv, Sound, Undoes, Spawned1
<1>10. ASSUME NEW p \in Proc, Terminate(p) PROVE RecordsInv'
  BY <1>10
  DEF Terminate, local, RecordsInv, Sound, Undoes, Spawned1, Grown
<1>11. ASSUME NEW p \in Proc, Shutdown(p) PROVE RecordsInv'
  BY <1>11
  DEF Shutdown, Save, Via, RecordsInv, Sound, Undoes, Spawned1, Grown
<1>12. ASSUME NEW p \in Proc, Load(p) PROVE RecordsInv'
  BY <1>12
  DEF Load, Goto, host, RecordsInv, Sound, Undoes, Spawned1, Grown
<1>13. ASSUME NEW p \in Proc, SaveEdited(p) PROVE RecordsInv'
  <2>1. \A r \in Saved : Sound(r) => Sound(Edited(edit[p], r)) /\ Edited(edit[p], r) \in Saved
    BY EditedIs, Kinds DEF Sound, Edits
  <2>2. UNCHANGED <<restore, qemu, created>>
    BY <1>13 DEF SaveEdited
  <2>3. rec' = rec \/ (cur[p] \in Saved /\ rec' = Edited(edit[p], cur[p]))
    BY <1>13 DEF SaveEdited, Records
  <2>4. h' = h \/ (h[p] \in Saved /\ h' = [h EXCEPT ![p] = Edited(edit[p], h[p])])
    BY <1>13 DEF SaveEdited, Records
  <2>5. cur' = [cur EXCEPT ![p] = NoRecord]
    BY <1>13 DEF SaveEdited
  <2>6. \A r : Sound(r) => Sound(r)'
    BY <2>2 DEF Sound, Spawned1
  <2>7. Sound(rec')
    BY <2>1, <2>3 DEF RecordsInv
  <2>8. \A q \in Proc : Sound(h'[q])
    BY <2>1, <2>4 DEF RecordsInv
  <2> QED
    BY <2>2, <2>5, <2>7, <2>8 DEF RecordsInv, Sound, Undoes, Spawned1
<1>14. ASSUME NEW p \in Proc, Spawn(p) PROVE RecordsInv'
  BY <1>14
  DEF Spawn, Goto, RecordsInv, Sound, Undoes, Spawned1, Grown
<1>15. ASSUME NEW p \in Proc, CannotSpawn(p) PROVE RecordsInv'
  BY <1>15
  DEF CannotSpawn, SpawnFailed, StopUnderLock, Via, host, RecordsInv, Sound, Undoes, Spawned1,
      Grown
<1>16. ASSUME NEW p \in Proc, Spawned(p) PROVE RecordsInv'
  BY <1>16
  DEF Spawned, SpawnFailed, Via, StopUnderLock, host, RecordsInv, Sound, Undoes, Spawned1, Grown
<1>17. ASSUME NEW p \in Proc, Record(p) PROVE RecordsInv'
  <2>1. pc[p] = "record" /\ h[p] \in Saved /\ child[p] \in Pid /\ qemu[child[p]] # "none"
    BY <1>17, Holds DEF Record, HolderInv, Launching
  <2>2. Sound(Launched(p))
    <3>1. h[p].id <= created
      BY <2>1, Kinds DEF RecordsInv, Sound
    <3> QED
      BY <3>1, <2>1, LaunchedIs DEF Sound, Spawned1
  <2>3. h' = [h EXCEPT ![p] = Launched(p)] /\ rec' \in {rec, Launched(p)}
        /\ UNCHANGED <<restore, cur, qemu, created>>
    BY <1>17 DEF Record
  <2> QED
    BY <2>2, <2>3 DEF RecordsInv, Sound, Undoes, Spawned1
<1>18. ASSUME NEW p \in Proc, Foreground(p) PROVE RecordsInv'
  <2> DEFINE r == [h[p] EXCEPT !.status = "stopped", !.started = TRUE]
  <2>1. h[p] \in Saved
    BY <1>18, Holds DEF Foreground, Goto
  <2>2. Sound(r)
    <3>1. Sound(h[p]) /\ h[p] # NoRecord
      BY <2>1, Kinds DEF RecordsInv
    <3>2. r.id = h[p].id /\ r.pid = h[p].pid /\ r.frozen = h[p].frozen /\ r.started = TRUE
      BY <2>1 DEF Saved
    <3> HIDE DEF r
    <3> QED
      BY <3>1, <3>2 DEF Sound
  <2>3. h' \in {h, [h EXCEPT ![p] = r]} /\ rec' \in {rec, r}
        /\ UNCHANGED <<restore, cur, qemu, created>>
    BY <1>18 DEF Foreground
  <2> HIDE DEF r
  <2> QED
    BY <2>2, <2>3 DEF RecordsInv, Sound, Undoes, Spawned1
<1>19. ASSUME NEW p \in Proc, BootAnswers(p) PROVE RecordsInv'
  BY <1>19
  DEF BootAnswers, Goto, local, RecordsInv, Sound, Undoes, Spawned1, Grown
<1>20. ASSUME NEW p \in Proc, Respawn(p) PROVE RecordsInv'
  BY <1>20
  DEF Respawn, Goto, host, RecordsInv, Sound, Undoes, Spawned1, Grown
<1>21. ASSUME NEW p \in Proc, BootTimesOut(p) PROVE RecordsInv'
  BY <1>21
  DEF BootTimesOut, StopUnderLock, Via, host, RecordsInv, Sound, Undoes, Spawned1, Grown
<1>22. ASSUME NEW p \in Proc, Provisioned(p) PROVE RecordsInv'
  BY <1>22
  DEF Provisioned, Save, Via, host, RecordsInv, Sound, Undoes, Spawned1, Grown
<1>23. ASSUME NEW p \in Proc, PowerCycle(p) PROVE RecordsInv'
  BY <1>23
  DEF PowerCycle, Goto, host, RecordsInv, Sound, Undoes, Spawned1, Grown
<1>24. ASSUME NEW p \in Proc, ProvisionFails(p) PROVE RecordsInv'
  BY <1>24
  DEF ProvisionFails, StopUnderLock, Via, host, RecordsInv, Sound, Undoes, Spawned1, Grown
<1>25. ASSUME NEW p \in Proc, Rebooted(p) PROVE RecordsInv'
  BY <1>25
  DEF Rebooted, Save, Via, host, RecordsInv, Sound, Undoes, Spawned1, Grown
<1>26. ASSUME NEW p \in Proc, RebootFails(p) PROVE RecordsInv'
  BY <1>26
  DEF RebootFails, SpawnFailed, StopUnderLock, Via, host, RecordsInv, Sound, Undoes, Spawned1,
      Grown
<1>27. ASSUME NEW p \in Proc, StopForRelaunch(p) PROVE RecordsInv'
  BY <1>27
  DEF StopForRelaunch, StopUnderLock, Via, host, RecordsInv, Sound, Undoes, Spawned1, Grown
<1>28. ASSUME NEW p \in Proc, Relaunch(p) PROVE RecordsInv'
  BY <1>28
  DEF Relaunch, Goto, RecordsInv, Sound, Undoes, Spawned1, Grown
<1>29. ASSUME NEW p \in Proc, Undo(p) PROVE RecordsInv'
  <2> DEFINE r == [restore[p] EXCEPT !.status = "stopped", !.pid = 0]
  <2>1. restore[p] \notin {Created, NoRecord} => restore[p] \in Saved /\ Sound(restore[p])
    BY DEF RecordsInv, Undoes, Records
  <2>2. restore[p] \notin {Created, NoRecord} => Sound(r)
    BY <2>1 DEF Sound, Saved
  <2>3. \/ restore[p] \notin {Created, NoRecord} /\ h' = [h EXCEPT ![p] = r] /\ rec' = r
        \/ UNCHANGED <<h, rec>>
    BY <1>29 DEF Undo
  <2>4. UNCHANGED <<restore, cur, qemu, created>>
    BY <1>29 DEF Undo
  <2> HIDE DEF r
  <2> QED
    BY <2>2, <2>3, <2>4 DEF RecordsInv, Sound, Undoes, Spawned1
<1>30. ASSUME NEW p \in Proc, Resume(p) PROVE RecordsInv'
  BY <1>30
  DEF Resume, Save, Via, RecordsInv, Sound, Undoes, Spawned1, Grown
<1>31. ASSUME NEW p \in Proc, Delete(p) PROVE RecordsInv'
  BY <1>31
  DEF Delete, Goto, Over, RecordsInv, Sound, Undoes, Spawned1, Grown
<1>32. ASSUME NEW p \in Proc, Reset(p) PROVE RecordsInv'
  BY <1>32
  DEF Reset, Save, Via, RecordsInv, Sound, Undoes, Spawned1, Grown
<1>33. ASSUME NEW p \in Proc, Release(p) PROVE RecordsInv'
  BY <1>33
  DEF Release, Goto, Over, RecordsInv, Sound, Undoes, Spawned1, Grown
<1>34. ASSUME NEW p \in Proc, Refresh(p) PROVE RecordsInv'
  BY <1>34
  DEF Refresh, Begins, Via, host, RecordsInv, Sound, Undoes, Spawned1, Grown
<1>35. ASSUME NEW p \in Proc, Note(p) PROVE RecordsInv'
  BY <1>35
  DEF Note, Begins, Via, host, RecordsInv, Sound, Undoes, Spawned1, Grown
<1>36. ASSUME NEW p \in Proc, Crash(p) PROVE RecordsInv'
  BY <1>36
  DEF Crash, Over, RecordsInv, Sound, Undoes, Spawned1, Grown
<1>37. ASSUME NEW n \in Pid, HostStep(n) PROVE RecordsInv'
  BY <1>37 DEF HostStep, Host, local, RecordsInv, Sound, Undoes, Spawned1, Grown
<1> HIDE DEF TypeOK
<1> QED
  BY <1>1, <1>2, <1>3, <1>4, <1>5, <1>6, <1>7, <1>8, <1>9, <1>10, <1>11, <1>12, <1>13, <1>14,
     <1>15, <1>16, <1>17, <1>18, <1>19, <1>20, <1>21, <1>22, <1>23, <1>24, <1>25, <1>26, <1>27,
     <1>28, <1>29, <1>30, <1>31, <1>32, <1>33, <1>34, <1>35, <1>36, <1>37
  DEF Next, Step, HostStep

----------------------------------------------------------------------------
(* What the writes of machine.json come to *)

LEMMA SaveIs ==
  ASSUME IInv, NEW p \in Proc, SaveEdited(p)
  PROVE  /\ rec' = rec \/ (rec \in Saved /\ rec' = Edited(edit[p], rec))
         /\ owner = p =>
              rec \in Saved /\ rec' = Edited(edit[p], rec) /\ h' = [h EXCEPT ![p] = rec']
         /\ edit[p] \in Edits
         /\ edit[p] \in {"stopped", "cleaned"} => \A n \in Pid : ~Ours(n)
         /\ edit[p] = "cleaned" => disk # "used"
         /\ UNCHANGED <<qemu, lost, disk, removed, created, owner>>
<1> TypeOK /\ EditInv /\ LockInv /\ Writes(p)
  BY DEF IInv, HostInv, Works, WritesInv
<1> USE DEF TypeOK
<1>1. pc[p] = "save" /\ UNCHANGED <<qemu, lost, disk, removed, created, owner>>
  BY DEF SaveEdited, Goto
<1>2. rec' = rec \/ (rec \in Saved /\ rec' = Edited(edit[p], rec))
  BY <1>1 DEF SaveEdited, EditInv, Records
<1>3. CASE owner = p
  <2>1. HolderInv(p)
    BY <1>3, LifecycleAssumption DEF IInv, HostInv, Works, WritesInv
  <2>2. rec = h[p] /\ h[p] # NoRecord /\ rec \in Saved
    BY <1>1, <2>1 DEF HolderInv, InHand, Records
  <2>3. cur[p] = rec
    BY <1>1, <1>3, <2>2 DEF IInv, EditInv
  <2> QED
    BY <1>1, <1>2, <1>3, <2>1, <2>2, <2>3 DEF SaveEdited, HolderInv, Bare
<1>4. CASE owner # p
  <2>1. op[p] \in Unlocked /\ edit[p] \in {"stopped", "noted"}
    BY <1>1, <1>4 DEF LockInv, EditInv
  <2> QED
    BY <1>1, <1>2, <1>4, <2>1 DEF Writes
<1> QED
  BY <1>3, <1>4

LEMMA SaveMakes ==
  ASSUME IInv, NEW p \in Proc, SaveEdited(p), rec' # rec
  PROVE  /\ rec \in Saved /\ rec' \in Saved /\ rec # NoRecord /\ rec' # NoRecord
         /\ rec'.id = rec.id
         /\ \/ /\ rec'.status = "stopped" /\ rec'.pid = 0 /\ ~rec'.frozen
               /\ \A n \in Pid : ~Ours(n)
            \/ rec'.status = rec.status /\ rec'.pid = rec.pid /\ (rec'.frozen => rec.frozen)
         /\ (WindowOpen(rec') => WindowOpen(rec)) \/ disk # "used"
         /\ UNCHANGED <<qemu, lost, disk, removed, created, owner>>
<1>1. rec \in Saved /\ rec' = Edited(edit[p], rec) /\ edit[p] \in Edits
  BY SaveIs
<1> QED
  BY <1>1, SaveIs, EditedIs, Kinds

LEMMA RecordIs ==
  ASSUME IInv, NEW p \in Proc, Record(p)
  PROVE  /\ pc[p] = "record" /\ owner = p /\ h[p] \in Saved /\ h[p].id \notin removed
         /\ child[p] \in Pid /\ child[p] \notin lost /\ \A n \in Pid : Ours(n) => n = child[p]
         /\ \/ rec' = Launched(p) /\ UNCHANGED <<lost, disk>>
            \/ rec' = rec /\ lost' = lost \union {child[p]} /\ disk' = Unrecorded
         /\ h' = [h EXCEPT ![p] = Launched(p)]
         /\ UNCHANGED <<qemu, owner, removed, created>>
<1>1. pc[p] = "record"
  BY DEF Record
<1> QED
  BY <1>1, Holds DEF Record, HolderInv, Launching

LEMMA ForegroundIs ==
  ASSUME IInv, NEW p \in Proc, Foreground(p)
  PROVE  /\ pc[p] = "foreground" /\ owner = p /\ h[p] \in Saved /\ h[p].id \notin removed
         /\ h[p].pid < child[p] /\ \A n \in Pid : ~Ours(n)
         /\ lost' = lost \union {child[p]} /\ disk' = Unrecorded
         /\ \/ UNCHANGED <<rec, h>>
            \/ /\ rec' \in Saved /\ rec'.id = h[p].id /\ rec'.status = "stopped"
               /\ rec'.pid = h[p].pid /\ rec'.started /\ h' = [h EXCEPT ![p] = rec']
         /\ UNCHANGED <<qemu, owner, removed, created>>
<1>1. pc[p] = "foreground" /\ ~Alive(child[p])
  BY DEF Foreground, Goto
<1>2. owner = p /\ h[p] \in Saved /\ HolderInv(p)
  BY <1>1, Holds
<1>3. \A n \in Pid : ~Ours(n)
  BY <1>1, <1>2 DEF HolderInv, Launching, Ours, Alive
<1> DEFINE r == [h[p] EXCEPT !.status = "stopped", !.started = TRUE]
<1>4. r \in Saved /\ r.id = h[p].id /\ r.status = "stopped" /\ r.pid = h[p].pid /\ r.started
  BY <1>2 DEF Saved
<1>5. (rec' = r /\ h' = [h EXCEPT ![p] = r]) \/ UNCHANGED <<rec, h>>
  BY DEF Foreground
<1> HIDE DEF r
<1> QED
  BY <1>1, <1>2, <1>3, <1>4, <1>5 DEF Foreground, HolderInv, Launching

LEMMA BootIs ==
  ASSUME IInv, NEW p \in Proc, BootAnswers(p)
  PROVE  pc[p] = "boot" /\ owner = p /\ rec' = rec
<1>1. pc[p] = "boot"
  BY DEF BootAnswers
<1>2. owner = p /\ rec = h[p]
  BY <1>1, Holds DEF HolderInv, InHand
<1> QED
  BY <1>1, <1>2 DEF BootAnswers

LEMMA UndoIs ==
  ASSUME IInv, NEW p \in Proc, Undo(p)
  PROVE  /\ pc[p] = "undo" /\ owner = p /\ \A n \in Pid : ~Ours(n)
         /\ \/ /\ UNCHANGED <<rec, h, disk>>
               /\ pc' \in {[pc EXCEPT ![p] = "release"], [pc EXCEPT ![p] = "remove"]}
            \/ /\ rec' \in Saved /\ rec'.status = "stopped" /\ rec'.pid = 0 /\ ~rec'.frozen
               /\ rec'.id \notin removed /\ rec'.id <= created
               /\ disk' = "factory" /\ h' = [h EXCEPT ![p] = rec']
               /\ pc' = [pc EXCEPT ![p] = "release"]
         /\ UNCHANGED <<qemu, lost, owner, removed, created>>
<1>1. pc[p] = "undo"
  BY DEF Undo, Goto
<1>2. owner = p /\ HolderInv(p) /\ TypeOK /\ Undoes(restore[p])
  BY <1>1, Holds DEF IInv, RecordsInv
<1>3. \A n \in Pid : ~Ours(n)
  BY <1>1, <1>2 DEF HolderInv, Bare
<1> DEFINE r == [restore[p] EXCEPT !.status = "stopped", !.pid = 0]
<1>4. ASSUME restore[p] \notin {Created, NoRecord}
      PROVE  r \in Saved /\ r.status = "stopped" /\ r.pid = 0 /\ ~r.frozen
             /\ r.id \notin removed /\ r.id <= created
  <2>1. restore[p] \in Saved
    BY <1>2, <1>4 DEF TypeOK, Records
  <2>2. ~restore[p].frozen /\ restore[p].id <= created
    BY <1>2, <1>4 DEF Undoes, Sound, WindowOpen
  <2>3. restore[p].id \notin removed
    BY <1>1, <1>2, <1>4 DEF HolderInv
  <2> QED
    BY <2>1, <2>2, <2>3 DEF Saved
<1>5. \/ UNCHANGED <<rec, h, disk>> /\ (Goto(p, "undo", "release") \/ Goto(p, "undo", "remove"))
      \/ restore[p] \notin {Created, NoRecord} /\ disk' = "factory" /\ rec' = r
         /\ h' = [h EXCEPT ![p] = rec'] /\ Goto(p, "undo", "release")
  BY DEF Undo, FactoryDisk
<1> HIDE DEF r
<1> QED
  BY <1>1, <1>2, <1>3, <1>4, <1>5 DEF Undo, Goto

LEMMA DeleteIs ==
  ASSUME IInv, NEW p \in Proc, Delete(p)
  PROVE  /\ pc[p] = "delete" /\ owner = p /\ \A n \in Pid : ~Ours(n)
         /\ h[p] \in Saved /\ rec = h[p] /\ h[p].id <= created
         /\ rec' = NoRecord /\ removed' = removed \union {h[p].id} /\ owner' = Nobody
         /\ UNCHANGED <<disk, qemu, lost, created>>
<1>1. pc[p] = "delete"
  BY DEF Delete, Goto
<1> QED
  BY <1>1, Holds DEF Delete, HolderInv, Bare, InHand, IInv, RecordsInv, Sound

LEMMA KnownStep ==
  ASSUME IInv, [Next]_vars
  PROVE  Known'
<1> TypeOK /\ LockInv /\ Known
  BY DEF IInv, HostInv, Works, WritesInv
<1> USE LifecycleAssumption DEF TypeOK
<1>1. CASE UNCHANGED vars
  BY <1>1 DEF vars, host, local, Known, Ours, Recorded, Launching
<1>2. ASSUME NEW p \in Proc, BeginStart(p) PROVE Known'
  BY <1>2
  DEF BeginStart, Begins, host, Known, Ours, Recorded, Launching
<1>3. ASSUME NEW p \in Proc, BeginOther(p) PROVE Known'
  BY <1>3
  DEF BeginOther, Begins, host, Known, Ours, Recorded, Launching
<1>4. ASSUME NEW p \in Proc, Acquire(p) PROVE Known'
  BY <1>4
  DEF Acquire, Goto, local, Known, Ours, Recorded, Launching
<1>5. ASSUME NEW p \in Proc, Refused(p) PROVE Known'
  BY <1>5
  DEF Refused, Goto, Over, host, Known, Ours, Recorded, Launching
<1>6. ASSUME NEW p \in Proc, Turned(p) PROVE Known'
  BY <1>6
  DEF Turned, Goto, host, local, Known, Ours, Recorded, Launching
<1>7. ASSUME NEW p \in Proc, VerifyNew(p) PROVE Known'
  BY <1>7
  DEF VerifyNew, Goto, Known, Ours, Recorded, Launching
<1>8. ASSUME NEW p \in Proc, VerifyStart(p) PROVE Known'
  BY <1>8
  DEF VerifyStart, Goto, host, Known, Ours, Recorded, Launching
<1>9. ASSUME NEW p \in Proc, VerifyOther(p) PROVE Known'
  BY <1>9
  DEF VerifyOther, StopUnderLock, Save, Via, host, Known, Ours, Recorded, Launching
<1>10. ASSUME NEW p \in Proc, Terminate(p) PROVE Known'
  <2>1. qemu' \in Ended(Victim(p)) /\ UNCHANGED <<rec, lost, owner>>
        /\ \A q \in Proc : q # p => pc'[q] = pc[q]
    BY <1>10 DEF Terminate
  <2>2. owner = p /\ ~Launching(p)
    BY <1>10, Holds DEF Terminate, Launching
  <2> QED
    BY <2>1, <2>2, EndedKeeps DEF Known, Ours, Recorded
<1>11. ASSUME NEW p \in Proc, Shutdown(p) PROVE Known'
  <2>1. qemu' \in Ended(Victim(p)) /\ UNCHANGED <<rec, lost, owner>>
    BY <1>11 DEF Shutdown
  <2>2. owner = p /\ ~Launching(p)
    BY <1>11, Holds DEF Shutdown, Launching
  <2> QED
    BY <2>1, <2>2, EndedKeeps DEF Known, Ours, Recorded
<1>12. ASSUME NEW p \in Proc, Load(p) PROVE Known'
  BY <1>12
  DEF Load, Goto, host, Known, Ours, Recorded, Launching
<1>13. ASSUME NEW p \in Proc, SaveEdited(p) PROVE Known'
  <2>1. pc[p] = "save"
    BY <1>13 DEF SaveEdited, Goto
  <2>2. owner # Nobody => ~Launching(owner)
    BY <2>1, OneWorks DEF Launching
  <2>3. \A n \in Pid : Ours(n)' => Ours(n) /\ Recorded(n)
    BY <1>13, <2>2, SaveIs DEF Known, Ours
  <2>4. CASE rec' = rec
    BY <2>3, <2>4 DEF Known, Recorded
  <2>5. CASE rec' # rec
    BY <1>13, <2>3, <2>5, SaveMakes DEF Known, Recorded
  <2> QED
    BY <2>4, <2>5
<1>14. ASSUME NEW p \in Proc, Spawn(p) PROVE Known'
  <2>1. pc[p] = "spawn" /\ owner' = owner /\ lost' = lost
        /\ pc'[p] \in {"spawned", "foreground"}
    BY <1>14 DEF Spawn, Goto
  <2>2. owner = p
    BY <2>1, Holds
  <2> QED
    BY <2>1, <2>2 DEF Known, Launching
<1>15. ASSUME NEW p \in Proc, CannotSpawn(p) PROVE Known'
  BY <1>15
  DEF CannotSpawn, SpawnFailed, StopUnderLock, Via, host, Known, Ours, Recorded, Launching
<1>16. ASSUME NEW p \in Proc, Spawned(p) PROVE Known'
  <2>1. pc[p] = "spawned" /\ UNCHANGED <<rec, qemu, lost, owner>>
    BY <1>16 DEF Spawned, host
  <2>2. owner = p /\ \A n \in Pid : Ours(n) => n = child[p]
    BY <2>1, Holds DEF HolderInv, Launching
  <2>3. CASE Exists(child[p])
    <3>1. pc'[p] = "record"
      BY <1>16, <2>3 DEF Spawned, Via
    <3> QED
      BY <2>1, <2>2, <3>1 DEF Known, Launching
  <2>4. CASE ~Exists(child[p])
    BY <2>1, <2>2, <2>4 DEF Known, Ours, Exists
  <2> QED
    BY <2>3, <2>4
<1>17. ASSUME NEW p \in Proc, Record(p) PROVE Known'
  <2>1. CASE rec' = Launched(p) /\ UNCHANGED <<lost, disk>>
    BY <1>17, <2>1, RecordIs, LaunchedIs, Kinds DEF Known, Ours, Recorded
  <2>2. CASE lost' = lost \union {child[p]}
    BY <1>17, <2>2, RecordIs DEF Known, Ours
  <2> QED
    BY <1>17, <2>1, <2>2, RecordIs
<1>18. ASSUME NEW p \in Proc, Foreground(p) PROVE Known'
  BY <1>18, ForegroundIs DEF Known, Ours
<1>19. ASSUME NEW p \in Proc, BootAnswers(p) PROVE Known'
  <2>1. UNCHANGED <<rec, qemu, lost, owner>> /\ owner = p /\ pc[p] = "boot"
    BY <1>19, BootIs DEF BootAnswers
  <2> QED
    BY <2>1 DEF Known, Ours, Recorded, Launching
<1>20. ASSUME NEW p \in Proc, Respawn(p) PROVE Known'
  BY <1>20
  DEF Respawn, Goto, host, Known, Ours, Recorded, Launching
<1>21. ASSUME NEW p \in Proc, BootTimesOut(p) PROVE Known'
  BY <1>21
  DEF BootTimesOut, StopUnderLock, Via, host, Known, Ours, Recorded, Launching
<1>22. ASSUME NEW p \in Proc, Provisioned(p) PROVE Known'
  BY <1>22
  DEF Provisioned, Save, Via, host, Known, Ours, Recorded, Launching
<1>23. ASSUME NEW p \in Proc, PowerCycle(p) PROVE Known'
  BY <1>23
  DEF PowerCycle, Goto, host, Known, Ours, Recorded, Launching
<1>24. ASSUME NEW p \in Proc, ProvisionFails(p) PROVE Known'
  BY <1>24
  DEF ProvisionFails, StopUnderLock, Via, host, Known, Ours, Recorded, Launching
<1>25. ASSUME NEW p \in Proc, Rebooted(p) PROVE Known'
  BY <1>25
  DEF Rebooted, Save, Via, host, Known, Ours, Recorded, Launching
<1>26. ASSUME NEW p \in Proc, RebootFails(p) PROVE Known'
  BY <1>26
  DEF RebootFails, SpawnFailed, StopUnderLock, Via, host, Known, Ours, Recorded, Launching
<1>27. ASSUME NEW p \in Proc, StopForRelaunch(p) PROVE Known'
  BY <1>27
  DEF StopForRelaunch, StopUnderLock, Via, host, Known, Ours, Recorded, Launching
<1>28. ASSUME NEW p \in Proc, Relaunch(p) PROVE Known'
  <2>1. pc[p] = "relaunch" /\ UNCHANGED <<qemu, lost>>
    BY <1>28 DEF Relaunch, Goto
  <2> QED
    BY <2>1, Holds DEF Known, Ours, HolderInv, Bare
<1>29. ASSUME NEW p \in Proc, Undo(p) PROVE Known'
  BY <1>29, UndoIs DEF Known, Ours
<1>30. ASSUME NEW p \in Proc, Resume(p) PROVE Known'
  BY <1>30
  DEF Resume, Save, Via, Known, Ours, Recorded, Launching
<1>31. ASSUME NEW p \in Proc, Delete(p) PROVE Known'
  BY <1>31, DeleteIs DEF Known, Ours
<1>32. ASSUME NEW p \in Proc, Reset(p) PROVE Known'
  BY <1>32
  DEF Reset, Save, Via, Known, Ours, Recorded, Launching
<1>33. ASSUME NEW p \in Proc, Release(p) PROVE Known'
  BY <1>33
  DEF Release, Goto, Over, Known, Ours, Recorded, Launching
<1>34. ASSUME NEW p \in Proc, Refresh(p) PROVE Known'
  BY <1>34
  DEF Refresh, Begins, Via, host, Known, Ours, Recorded, Launching
<1>35. ASSUME NEW p \in Proc, Note(p) PROVE Known'
  BY <1>35
  DEF Note, Begins, Via, host, Known, Ours, Recorded, Launching
<1>36. ASSUME NEW p \in Proc, Crash(p) PROVE Known'
  <2>1. CASE owner = p /\ Launching(p)
    <3>1. \A n \in Pid : Ours(n) => n = child[p]
      BY <2>1, Holds DEF HolderInv, Launching
    <3>2. lost' = lost \union {child[p]} /\ qemu' = qemu
      BY <1>36, <2>1 DEF Crash, Launching
    <3> QED
      BY <3>1, <3>2 DEF Known, Ours
  <2>2. CASE owner = p /\ ~Launching(p)
    BY <1>36, <2>2 DEF Crash, Launching, Known, Ours, Recorded
  <2>3. CASE owner # p
    BY <1>36, <2>3, Holds DEF Crash, Launching, Known, Ours, Recorded
  <2> QED
    BY <2>1, <2>2, <2>3
<1>37. ASSUME NEW n \in Pid, HostStep(n) PROVE Known'
  BY <1>37 DEF HostStep, Host, Die, Reap, Reuse, Debug, Use, Becomes, local, Known, Ours,
     Recorded,
     Launching
<1> HIDE DEF TypeOK
<1> QED
  BY <1>1, <1>2, <1>3, <1>4, <1>5, <1>6, <1>7, <1>8, <1>9, <1>10, <1>11, <1>12, <1>13, <1>14,
     <1>15, <1>16, <1>17, <1>18, <1>19, <1>20, <1>21, <1>22, <1>23, <1>24, <1>25, <1>26, <1>27,
     <1>28, <1>29, <1>30, <1>31, <1>32, <1>33, <1>34, <1>35, <1>36, <1>37
  DEF Next, Step, HostStep

LEMMA WindowStep ==
  ASSUME IInv, [Next]_vars
  PROVE  OpenIsFactory'
<1> TypeOK /\ LockInv /\ OpenIsFactory
  BY DEF IInv, HostInv, Works, WritesInv
<1> USE LifecycleAssumption DEF TypeOK
<1>1. CASE UNCHANGED vars
  BY <1>1 DEF vars, host, local, OpenIsFactory, WindowOpen
<1>2. ASSUME NEW p \in Proc, BeginStart(p) PROVE OpenIsFactory'
  BY <1>2
  DEF BeginStart, Begins, host, OpenIsFactory, WindowOpen
<1>3. ASSUME NEW p \in Proc, BeginOther(p) PROVE OpenIsFactory'
  BY <1>3
  DEF BeginOther, Begins, host, OpenIsFactory, WindowOpen
<1>4. ASSUME NEW p \in Proc, Acquire(p) PROVE OpenIsFactory'
  BY <1>4
  DEF Acquire, Goto, local, OpenIsFactory, WindowOpen
<1>5. ASSUME NEW p \in Proc, Refused(p) PROVE OpenIsFactory'
  BY <1>5
  DEF Refused, Goto, Over, host, OpenIsFactory, WindowOpen
<1>6. ASSUME NEW p \in Proc, Turned(p) PROVE OpenIsFactory'
  BY <1>6
  DEF Turned, Goto, host, local, OpenIsFactory, WindowOpen
<1>7. ASSUME NEW p \in Proc, VerifyNew(p) PROVE OpenIsFactory'
  BY <1>7
  DEF VerifyNew, Goto, OpenIsFactory, WindowOpen
<1>8. ASSUME NEW p \in Proc, VerifyStart(p) PROVE OpenIsFactory'
  BY <1>8
  DEF VerifyStart, Goto, host, OpenIsFactory, WindowOpen
<1>9. ASSUME NEW p \in Proc, VerifyOther(p) PROVE OpenIsFactory'
  BY <1>9
  DEF VerifyOther, StopUnderLock, Save, Via, host, OpenIsFactory, WindowOpen
<1>10. ASSUME NEW p \in Proc, Terminate(p) PROVE OpenIsFactory'
  BY <1>10
  DEF Terminate, local, OpenIsFactory, WindowOpen
<1>11. ASSUME NEW p \in Proc, Shutdown(p) PROVE OpenIsFactory'
  BY <1>11
  DEF Shutdown, Save, Via, OpenIsFactory, WindowOpen
<1>12. ASSUME NEW p \in Proc, Load(p) PROVE OpenIsFactory'
  BY <1>12
  DEF Load, Goto, host, OpenIsFactory, WindowOpen
<1>13. ASSUME NEW p \in Proc, SaveEdited(p) PROVE OpenIsFactory'
  <2>1. pc[p] = "save"
    BY <1>13 DEF SaveEdited, Goto
  <2>2. owner # Nobody => pc[owner] \notin {"record", "foreground"}
    BY <2>1, OneWorks
  <2>3. ~(rec # NoRecord /\ WindowOpen(rec) /\ disk = "used")
    BY <2>2 DEF OpenIsFactory
  <2>4. disk' = disk
    BY <1>13, SaveIs
  <2>5. CASE rec' = rec
    BY <2>3, <2>4, <2>5 DEF OpenIsFactory, WindowOpen
  <2>6. CASE rec' # rec
    <3>1. ~(WindowOpen(rec') /\ disk = "used")
      BY <1>13, <2>3, <2>6, SaveMakes
    <3> QED
      BY <2>4, <3>1 DEF OpenIsFactory, WindowOpen
  <2> QED
    BY <2>5, <2>6
<1>14. ASSUME NEW p \in Proc, Spawn(p) PROVE OpenIsFactory'
  BY <1>14
  DEF Spawn, Goto, OpenIsFactory, WindowOpen
<1>15. ASSUME NEW p \in Proc, CannotSpawn(p) PROVE OpenIsFactory'
  BY <1>15
  DEF CannotSpawn, SpawnFailed, StopUnderLock, Via, host, OpenIsFactory, WindowOpen
<1>16. ASSUME NEW p \in Proc, Spawned(p) PROVE OpenIsFactory'
  BY <1>16
  DEF Spawned, SpawnFailed, Via, StopUnderLock, host, OpenIsFactory, WindowOpen
<1>17. ASSUME NEW p \in Proc, Record(p) PROVE OpenIsFactory'
  <2>1. pc[p] = "record" /\ owner = p
    BY <1>17, RecordIs
  <2>2. CASE rec' = Launched(p)
    BY <1>17, <2>2, RecordIs, LaunchedIs DEF OpenIsFactory, WindowOpen
  <2>3. CASE disk' = Unrecorded
    BY <2>3 DEF OpenIsFactory, Unrecorded
  <2> QED
    BY <1>17, <2>2, <2>3, RecordIs
<1>18. ASSUME NEW p \in Proc, Foreground(p) PROVE OpenIsFactory'
  BY <1>18, ForegroundIs DEF OpenIsFactory, Unrecorded
<1>19. ASSUME NEW p \in Proc, BootAnswers(p) PROVE OpenIsFactory'
  BY <1>19, BootIs DEF OpenIsFactory, BootAnswers
<1>20. ASSUME NEW p \in Proc, Respawn(p) PROVE OpenIsFactory'
  BY <1>20
  DEF Respawn, Goto, host, OpenIsFactory, WindowOpen
<1>21. ASSUME NEW p \in Proc, BootTimesOut(p) PROVE OpenIsFactory'
  BY <1>21
  DEF BootTimesOut, StopUnderLock, Via, host, OpenIsFactory, WindowOpen
<1>22. ASSUME NEW p \in Proc, Provisioned(p) PROVE OpenIsFactory'
  BY <1>22
  DEF Provisioned, Save, Via, host, OpenIsFactory, WindowOpen
<1>23. ASSUME NEW p \in Proc, PowerCycle(p) PROVE OpenIsFactory'
  BY <1>23
  DEF PowerCycle, Goto, host, OpenIsFactory, WindowOpen
<1>24. ASSUME NEW p \in Proc, ProvisionFails(p) PROVE OpenIsFactory'
  BY <1>24
  DEF ProvisionFails, StopUnderLock, Via, host, OpenIsFactory, WindowOpen
<1>25. ASSUME NEW p \in Proc, Rebooted(p) PROVE OpenIsFactory'
  BY <1>25
  DEF Rebooted, Save, Via, host, OpenIsFactory, WindowOpen
<1>26. ASSUME NEW p \in Proc, RebootFails(p) PROVE OpenIsFactory'
  BY <1>26
  DEF RebootFails, SpawnFailed, StopUnderLock, Via, host, OpenIsFactory, WindowOpen
<1>27. ASSUME NEW p \in Proc, StopForRelaunch(p) PROVE OpenIsFactory'
  BY <1>27
  DEF StopForRelaunch, StopUnderLock, Via, host, OpenIsFactory, WindowOpen
<1>28. ASSUME NEW p \in Proc, Relaunch(p) PROVE OpenIsFactory'
  <2>1. pc[p] = "relaunch" /\ UNCHANGED <<rec, disk>>
    BY <1>28 DEF Relaunch, Goto
  <2> QED
    BY <2>1, Holds DEF OpenIsFactory
<1>29. ASSUME NEW p \in Proc, Undo(p) PROVE OpenIsFactory'
  BY <1>29, UndoIs DEF OpenIsFactory
<1>30. ASSUME NEW p \in Proc, Resume(p) PROVE OpenIsFactory'
  BY <1>30
  DEF Resume, Save, Via, OpenIsFactory, WindowOpen
<1>31. ASSUME NEW p \in Proc, Delete(p) PROVE OpenIsFactory'
  BY <1>31
  DEF Delete, Goto, Over, OpenIsFactory, WindowOpen
<1>32. ASSUME NEW p \in Proc, Reset(p) PROVE OpenIsFactory'
  <2>1. pc[p] = "reset" /\ rec' = rec /\ owner' = owner /\ disk' \in {disk, "factory"}
    BY <1>32 DEF Reset, FactoryDisk
  <2> QED
    BY <2>1, Holds DEF OpenIsFactory
<1>33. ASSUME NEW p \in Proc, Release(p) PROVE OpenIsFactory'
  BY <1>33
  DEF Release, Goto, Over, OpenIsFactory, WindowOpen
<1>34. ASSUME NEW p \in Proc, Refresh(p) PROVE OpenIsFactory'
  BY <1>34
  DEF Refresh, Begins, Via, host, OpenIsFactory, WindowOpen
<1>35. ASSUME NEW p \in Proc, Note(p) PROVE OpenIsFactory'
  BY <1>35
  DEF Note, Begins, Via, host, OpenIsFactory, WindowOpen
<1>36. ASSUME NEW p \in Proc, Crash(p) PROVE OpenIsFactory'
  <2>1. CASE pc[p] \in {"record", "foreground"}
    <3>1. child[p] \notin lost
      BY <2>1, Holds DEF HolderInv, Launching
    <3>2. disk' = Unrecorded
      BY <1>36, <2>1, <3>1 DEF Crash
    <3> QED
      BY <3>2 DEF OpenIsFactory, Unrecorded
  <2>2. CASE pc[p] \notin {"record", "foreground"}
    BY <1>36, <2>2 DEF Crash, OpenIsFactory, Unrecorded
  <2> QED
    BY <2>1, <2>2
<1>37. ASSUME NEW n \in Pid, HostStep(n) PROVE OpenIsFactory'
  <2>1. CASE disk' = disk
    BY <1>37, <2>1 DEF HostStep, OpenIsFactory, WindowOpen
  <2>2. CASE disk' # disk
    <3>1. Use(n) /\ qemu[n] = "up"
      BY <1>37, <2>2 DEF HostStep, Host, Use
    <3>2. n \in lost => disk' = "unrecorded"
      BY <3>1 DEF Use
    <3>3. n \notin lost => Ours(n)
      BY <3>1 DEF Ours
    <3>4. Recorded(n) => ~WindowOpen(rec)
      BY DEF Recorded, WindowOpen, IInv, RecordsInv, Sound, Pid
    <3>5. ASSUME owner # Nobody, Launching(owner), n \notin lost
          PROVE  pc[owner] \in {"record", "foreground"}
      <4>1. HolderInv(owner) /\ owner \in Proc
        BY <3>5 DEF IInv, HostInv, Works, WritesInv
      <4>2. n = child[owner] /\ launcher[n] = owner
        BY <3>3, <3>5, <4>1 DEF HolderInv
      <4> QED
        BY <3>1, <3>5, <4>2 DEF Use, Launching
    <3>6. n \notin lost => Recorded(n) \/ (owner # Nobody /\ Launching(owner))
      BY <3>3 DEF IInv, HostInv, Known
    <3> QED
      BY <1>37, <3>2, <3>4, <3>5, <3>6 DEF HostStep, OpenIsFactory, WindowOpen, local
  <2> QED
    BY <2>1, <2>2
<1> HIDE DEF TypeOK
<1> QED
  BY <1>1, <1>2, <1>3, <1>4, <1>5, <1>6, <1>7, <1>8, <1>9, <1>10, <1>11, <1>12, <1>13, <1>14,
     <1>15, <1>16, <1>17, <1>18, <1>19, <1>20, <1>21, <1>22, <1>23, <1>24, <1>25, <1>26, <1>27,
     <1>28, <1>29, <1>30, <1>31, <1>32, <1>33, <1>34, <1>35, <1>36, <1>37
  DEF Next, Step, HostStep

LEMMA StoppedStep ==
  ASSUME IInv, [Next]_vars
  PROVE  StoppedHoldsNothing'
<1> TypeOK /\ LockInv /\ StoppedHoldsNothing
  BY DEF IInv, HostInv, Works, WritesInv
<1> USE LifecycleAssumption DEF TypeOK
<1>1. CASE UNCHANGED vars
  BY <1>1 DEF vars, host, local, StoppedHoldsNothing
<1>2. ASSUME NEW p \in Proc, BeginStart(p) PROVE StoppedHoldsNothing'
  BY <1>2
  DEF BeginStart, Begins, host, StoppedHoldsNothing
<1>3. ASSUME NEW p \in Proc, BeginOther(p) PROVE StoppedHoldsNothing'
  BY <1>3
  DEF BeginOther, Begins, host, StoppedHoldsNothing
<1>4. ASSUME NEW p \in Proc, Acquire(p) PROVE StoppedHoldsNothing'
  BY <1>4
  DEF Acquire, Goto, local, StoppedHoldsNothing
<1>5. ASSUME NEW p \in Proc, Refused(p) PROVE StoppedHoldsNothing'
  BY <1>5
  DEF Refused, Goto, Over, host, StoppedHoldsNothing
<1>6. ASSUME NEW p \in Proc, Turned(p) PROVE StoppedHoldsNothing'
  BY <1>6
  DEF Turned, Goto, host, local, StoppedHoldsNothing
<1>7. ASSUME NEW p \in Proc, VerifyNew(p) PROVE StoppedHoldsNothing'
  BY <1>7
  DEF VerifyNew, Goto, StoppedHoldsNothing
<1>8. ASSUME NEW p \in Proc, VerifyStart(p) PROVE StoppedHoldsNothing'
  BY <1>8
  DEF VerifyStart, Goto, host, StoppedHoldsNothing
<1>9. ASSUME NEW p \in Proc, VerifyOther(p) PROVE StoppedHoldsNothing'
  BY <1>9
  DEF VerifyOther, StopUnderLock, Save, Via, host, StoppedHoldsNothing
<1>10. ASSUME NEW p \in Proc, Terminate(p) PROVE StoppedHoldsNothing'
  BY <1>10
  DEF Terminate, local, StoppedHoldsNothing
<1>11. ASSUME NEW p \in Proc, Shutdown(p) PROVE StoppedHoldsNothing'
  BY <1>11
  DEF Shutdown, Save, Via, StoppedHoldsNothing
<1>12. ASSUME NEW p \in Proc, Load(p) PROVE StoppedHoldsNothing'
  BY <1>12
  DEF Load, Goto, host, StoppedHoldsNothing
<1>13. ASSUME NEW p \in Proc, SaveEdited(p) PROVE StoppedHoldsNothing'
  <2>1. lost' = lost
    BY <1>13, SaveIs
  <2>2. CASE rec' = rec
    BY <2>1, <2>2 DEF StoppedHoldsNothing
  <2>3. CASE rec' # rec
    BY <1>13, <2>1, <2>3, SaveMakes DEF StoppedHoldsNothing
  <2> QED
    BY <2>2, <2>3
<1>14. ASSUME NEW p \in Proc, Spawn(p) PROVE StoppedHoldsNothing'
  BY <1>14
  DEF Spawn, Goto, StoppedHoldsNothing
<1>15. ASSUME NEW p \in Proc, CannotSpawn(p) PROVE StoppedHoldsNothing'
  BY <1>15
  DEF CannotSpawn, SpawnFailed, StopUnderLock, Via, host, StoppedHoldsNothing
<1>16. ASSUME NEW p \in Proc, Spawned(p) PROVE StoppedHoldsNothing'
  BY <1>16
  DEF Spawned, SpawnFailed, Via, StopUnderLock, host, StoppedHoldsNothing
<1>17. ASSUME NEW p \in Proc, Record(p) PROVE StoppedHoldsNothing'
  BY <1>17, RecordIs, LaunchedIs DEF StoppedHoldsNothing
<1>18. ASSUME NEW p \in Proc, Foreground(p) PROVE StoppedHoldsNothing'
  BY <1>18, ForegroundIs DEF StoppedHoldsNothing
<1>19. ASSUME NEW p \in Proc, BootAnswers(p) PROVE StoppedHoldsNothing'
  BY <1>19, BootIs DEF StoppedHoldsNothing, BootAnswers
<1>20. ASSUME NEW p \in Proc, Respawn(p) PROVE StoppedHoldsNothing'
  BY <1>20
  DEF Respawn, Goto, host, StoppedHoldsNothing
<1>21. ASSUME NEW p \in Proc, BootTimesOut(p) PROVE StoppedHoldsNothing'
  BY <1>21
  DEF BootTimesOut, StopUnderLock, Via, host, StoppedHoldsNothing
<1>22. ASSUME NEW p \in Proc, Provisioned(p) PROVE StoppedHoldsNothing'
  BY <1>22
  DEF Provisioned, Save, Via, host, StoppedHoldsNothing
<1>23. ASSUME NEW p \in Proc, PowerCycle(p) PROVE StoppedHoldsNothing'
  BY <1>23
  DEF PowerCycle, Goto, host, StoppedHoldsNothing
<1>24. ASSUME NEW p \in Proc, ProvisionFails(p) PROVE StoppedHoldsNothing'
  BY <1>24
  DEF ProvisionFails, StopUnderLock, Via, host, StoppedHoldsNothing
<1>25. ASSUME NEW p \in Proc, Rebooted(p) PROVE StoppedHoldsNothing'
  BY <1>25
  DEF Rebooted, Save, Via, host, StoppedHoldsNothing
<1>26. ASSUME NEW p \in Proc, RebootFails(p) PROVE StoppedHoldsNothing'
  BY <1>26
  DEF RebootFails, SpawnFailed, StopUnderLock, Via, host, StoppedHoldsNothing
<1>27. ASSUME NEW p \in Proc, StopForRelaunch(p) PROVE StoppedHoldsNothing'
  BY <1>27
  DEF StopForRelaunch, StopUnderLock, Via, host, StoppedHoldsNothing
<1>28. ASSUME NEW p \in Proc, Relaunch(p) PROVE StoppedHoldsNothing'
  BY <1>28
  DEF Relaunch, Goto, StoppedHoldsNothing
<1>29. ASSUME NEW p \in Proc, Undo(p) PROVE StoppedHoldsNothing'
  BY <1>29, UndoIs DEF StoppedHoldsNothing
<1>30. ASSUME NEW p \in Proc, Resume(p) PROVE StoppedHoldsNothing'
  BY <1>30
  DEF Resume, Save, Via, StoppedHoldsNothing
<1>31. ASSUME NEW p \in Proc, Delete(p) PROVE StoppedHoldsNothing'
  BY <1>31
  DEF Delete, Goto, Over, StoppedHoldsNothing
<1>32. ASSUME NEW p \in Proc, Reset(p) PROVE StoppedHoldsNothing'
  BY <1>32
  DEF Reset, Save, Via, StoppedHoldsNothing
<1>33. ASSUME NEW p \in Proc, Release(p) PROVE StoppedHoldsNothing'
  BY <1>33
  DEF Release, Goto, Over, StoppedHoldsNothing
<1>34. ASSUME NEW p \in Proc, Refresh(p) PROVE StoppedHoldsNothing'
  BY <1>34
  DEF Refresh, Begins, Via, host, StoppedHoldsNothing
<1>35. ASSUME NEW p \in Proc, Note(p) PROVE StoppedHoldsNothing'
  BY <1>35
  DEF Note, Begins, Via, host, StoppedHoldsNothing
<1>36. ASSUME NEW p \in Proc, Crash(p) PROVE StoppedHoldsNothing'
  BY <1>36
  DEF Crash, Over, StoppedHoldsNothing
<1>37. ASSUME NEW n \in Pid, HostStep(n) PROVE StoppedHoldsNothing'
  BY <1>37 DEF HostStep, Host, Die, Reap, Reuse, Debug, Use, Becomes, local, StoppedHoldsNothing
<1> HIDE DEF TypeOK
<1> QED
  BY <1>1, <1>2, <1>3, <1>4, <1>5, <1>6, <1>7, <1>8, <1>9, <1>10, <1>11, <1>12, <1>13, <1>14,
     <1>15, <1>16, <1>17, <1>18, <1>19, <1>20, <1>21, <1>22, <1>23, <1>24, <1>25, <1>26, <1>27,
     <1>28, <1>29, <1>30, <1>31, <1>32, <1>33, <1>34, <1>35, <1>36, <1>37
  DEF Next, Step, HostStep

LEMMA RemovedStep ==
  ASSUME IInv, [Next]_vars
  PROVE  RemovedWasThere'
<1> TypeOK /\ LockInv /\ RemovedWasThere
  BY DEF IInv, HostInv, Works, WritesInv
<1> USE LifecycleAssumption DEF TypeOK
<1>1. CASE UNCHANGED vars
  BY <1>1 DEF vars, host, local, RemovedWasThere, RemovedStaysRemoved
<1>2. ASSUME NEW p \in Proc, BeginStart(p) PROVE RemovedWasThere'
  BY <1>2
  DEF BeginStart, Begins, host, RemovedWasThere, RemovedStaysRemoved
<1>3. ASSUME NEW p \in Proc, BeginOther(p) PROVE RemovedWasThere'
  BY <1>3
  DEF BeginOther, Begins, host, RemovedWasThere, RemovedStaysRemoved
<1>4. ASSUME NEW p \in Proc, Acquire(p) PROVE RemovedWasThere'
  BY <1>4
  DEF Acquire, Goto, local, RemovedWasThere, RemovedStaysRemoved
<1>5. ASSUME NEW p \in Proc, Refused(p) PROVE RemovedWasThere'
  BY <1>5
  DEF Refused, Goto, Over, host, RemovedWasThere, RemovedStaysRemoved
<1>6. ASSUME NEW p \in Proc, Turned(p) PROVE RemovedWasThere'
  BY <1>6
  DEF Turned, Goto, host, local, RemovedWasThere, RemovedStaysRemoved
<1>7. ASSUME NEW p \in Proc, VerifyNew(p) PROVE RemovedWasThere'
  BY <1>7
  DEF VerifyNew, Goto, RemovedWasThere, RemovedStaysRemoved
<1>8. ASSUME NEW p \in Proc, VerifyStart(p) PROVE RemovedWasThere'
  BY <1>8
  DEF VerifyStart, Goto, host, RemovedWasThere, RemovedStaysRemoved
<1>9. ASSUME NEW p \in Proc, VerifyOther(p) PROVE RemovedWasThere'
  BY <1>9
  DEF VerifyOther, StopUnderLock, Save, Via, host, RemovedWasThere, RemovedStaysRemoved
<1>10. ASSUME NEW p \in Proc, Terminate(p) PROVE RemovedWasThere'
  BY <1>10
  DEF Terminate, local, RemovedWasThere, RemovedStaysRemoved
<1>11. ASSUME NEW p \in Proc, Shutdown(p) PROVE RemovedWasThere'
  BY <1>11
  DEF Shutdown, Save, Via, RemovedWasThere, RemovedStaysRemoved
<1>12. ASSUME NEW p \in Proc, Load(p) PROVE RemovedWasThere'
  BY <1>12
  DEF Load, Goto, host, RemovedWasThere, RemovedStaysRemoved
<1>13. ASSUME NEW p \in Proc, SaveEdited(p) PROVE RemovedWasThere'
  <2>1. UNCHANGED <<removed, created>>
    BY <1>13, SaveIs
  <2>2. rec' # NoRecord => rec # NoRecord /\ rec'.id = rec.id
    BY <1>13, SaveMakes
  <2> QED
    BY <2>1, <2>2 DEF RemovedWasThere, RemovedStaysRemoved
<1>14. ASSUME NEW p \in Proc, Spawn(p) PROVE RemovedWasThere'
  BY <1>14
  DEF Spawn, Goto, RemovedWasThere, RemovedStaysRemoved
<1>15. ASSUME NEW p \in Proc, CannotSpawn(p) PROVE RemovedWasThere'
  BY <1>15
  DEF CannotSpawn, SpawnFailed, StopUnderLock, Via, host, RemovedWasThere, RemovedStaysRemoved
<1>16. ASSUME NEW p \in Proc, Spawned(p) PROVE RemovedWasThere'
  BY <1>16
  DEF Spawned, SpawnFailed, Via, StopUnderLock, host, RemovedWasThere, RemovedStaysRemoved
<1>17. ASSUME NEW p \in Proc, Record(p) PROVE RemovedWasThere'
  <2>1. UNCHANGED <<removed, created>> /\ (rec' = rec \/ rec'.id \notin removed)
    BY <1>17, RecordIs, LaunchedIs
  <2> HIDE DEF TypeOK
  <2> QED
    BY <2>1 DEF RemovedWasThere, RemovedStaysRemoved
<1>18. ASSUME NEW p \in Proc, Foreground(p) PROVE RemovedWasThere'
  <2>1. UNCHANGED <<removed, created>> /\ (rec' = rec \/ rec'.id \notin removed)
    BY <1>18, ForegroundIs
  <2> HIDE DEF TypeOK
  <2> QED
    BY <2>1 DEF RemovedWasThere, RemovedStaysRemoved
<1>19. ASSUME NEW p \in Proc, BootAnswers(p) PROVE RemovedWasThere'
  BY <1>19, BootIs DEF RemovedWasThere, RemovedStaysRemoved, BootAnswers
<1>20. ASSUME NEW p \in Proc, Respawn(p) PROVE RemovedWasThere'
  BY <1>20
  DEF Respawn, Goto, host, RemovedWasThere, RemovedStaysRemoved
<1>21. ASSUME NEW p \in Proc, BootTimesOut(p) PROVE RemovedWasThere'
  BY <1>21
  DEF BootTimesOut, StopUnderLock, Via, host, RemovedWasThere, RemovedStaysRemoved
<1>22. ASSUME NEW p \in Proc, Provisioned(p) PROVE RemovedWasThere'
  BY <1>22
  DEF Provisioned, Save, Via, host, RemovedWasThere, RemovedStaysRemoved
<1>23. ASSUME NEW p \in Proc, PowerCycle(p) PROVE RemovedWasThere'
  BY <1>23
  DEF PowerCycle, Goto, host, RemovedWasThere, RemovedStaysRemoved
<1>24. ASSUME NEW p \in Proc, ProvisionFails(p) PROVE RemovedWasThere'
  BY <1>24
  DEF ProvisionFails, StopUnderLock, Via, host, RemovedWasThere, RemovedStaysRemoved
<1>25. ASSUME NEW p \in Proc, Rebooted(p) PROVE RemovedWasThere'
  BY <1>25
  DEF Rebooted, Save, Via, host, RemovedWasThere, RemovedStaysRemoved
<1>26. ASSUME NEW p \in Proc, RebootFails(p) PROVE RemovedWasThere'
  BY <1>26
  DEF RebootFails, SpawnFailed, StopUnderLock, Via, host, RemovedWasThere, RemovedStaysRemoved
<1>27. ASSUME NEW p \in Proc, StopForRelaunch(p) PROVE RemovedWasThere'
  BY <1>27
  DEF StopForRelaunch, StopUnderLock, Via, host, RemovedWasThere, RemovedStaysRemoved
<1>28. ASSUME NEW p \in Proc, Relaunch(p) PROVE RemovedWasThere'
  BY <1>28
  DEF Relaunch, Goto, RemovedWasThere, RemovedStaysRemoved
<1>29. ASSUME NEW p \in Proc, Undo(p) PROVE RemovedWasThere'
  <2>1. UNCHANGED <<removed, created>> /\ (rec' = rec \/ rec'.id \notin removed)
    BY <1>29, UndoIs
  <2> HIDE DEF TypeOK
  <2> QED
    BY <2>1 DEF RemovedWasThere, RemovedStaysRemoved
<1>30. ASSUME NEW p \in Proc, Resume(p) PROVE RemovedWasThere'
  BY <1>30
  DEF Resume, Save, Via, RemovedWasThere, RemovedStaysRemoved
<1>31. ASSUME NEW p \in Proc, Delete(p) PROVE RemovedWasThere'
  <2>1. rec' = NoRecord /\ created' = created /\ removed' = removed \union {h[p].id}
        /\ h[p].id <= created
    BY <1>31, DeleteIs
  <2> HIDE DEF TypeOK
  <2> QED
    BY <2>1 DEF RemovedWasThere, RemovedStaysRemoved
<1>32. ASSUME NEW p \in Proc, Reset(p) PROVE RemovedWasThere'
  BY <1>32
  DEF Reset, Save, Via, RemovedWasThere, RemovedStaysRemoved
<1>33. ASSUME NEW p \in Proc, Release(p) PROVE RemovedWasThere'
  BY <1>33
  DEF Release, Goto, Over, RemovedWasThere, RemovedStaysRemoved
<1>34. ASSUME NEW p \in Proc, Refresh(p) PROVE RemovedWasThere'
  BY <1>34
  DEF Refresh, Begins, Via, host, RemovedWasThere, RemovedStaysRemoved
<1>35. ASSUME NEW p \in Proc, Note(p) PROVE RemovedWasThere'
  BY <1>35
  DEF Note, Begins, Via, host, RemovedWasThere, RemovedStaysRemoved
<1>36. ASSUME NEW p \in Proc, Crash(p) PROVE RemovedWasThere'
  BY <1>36
  DEF Crash, Over, RemovedWasThere, RemovedStaysRemoved
<1>37. ASSUME NEW n \in Pid, HostStep(n) PROVE RemovedWasThere'
  BY <1>37 DEF HostStep, Host, Die, Reap, Reuse, Debug, Use, Becomes, local, RemovedWasThere,
     RemovedStaysRemoved
<1> HIDE DEF TypeOK
<1> QED
  BY <1>1, <1>2, <1>3, <1>4, <1>5, <1>6, <1>7, <1>8, <1>9, <1>10, <1>11, <1>12, <1>13, <1>14,
     <1>15, <1>16, <1>17, <1>18, <1>19, <1>20, <1>21, <1>22, <1>23, <1>24, <1>25, <1>26, <1>27,
     <1>28, <1>29, <1>30, <1>31, <1>32, <1>33, <1>34, <1>35, <1>36, <1>37
  DEF Next, Step, HostStep

LEMMA WritesStep ==
  ASSUME IInv, [Next]_vars
  PROVE  WritesInv'
<1> TypeOK /\ LockInv /\ EditInv /\ WritesInv
  BY DEF IInv, HostInv
<1> USE LifecycleAssumption DEF TypeOK
<1>1. CASE UNCHANGED vars
  BY <1>1 DEF vars, host, local, WritesInv, Writes, Ours
<1>2. ASSUME NEW p \in Proc, BeginStart(p) PROVE WritesInv'
  BY <1>2, Names
  DEF BeginStart, Begins, host, WritesInv, Writes, Ours
<1>3. ASSUME NEW p \in Proc, BeginOther(p) PROVE WritesInv'
  BY <1>3, Names
  DEF BeginOther, Begins, host, WritesInv, Writes, Ours
<1>4. ASSUME NEW p \in Proc, Acquire(p) PROVE WritesInv'
  BY <1>4, Names
  DEF Acquire, Goto, local, WritesInv, Writes, Ours
<1>5. ASSUME NEW p \in Proc, Refused(p) PROVE WritesInv'
  BY <1>5, Names
  DEF Refused, Goto, Over, host, WritesInv, Writes, Ours
<1>6. ASSUME NEW p \in Proc, Turned(p) PROVE WritesInv'
  BY <1>6, Names
  DEF Turned, Goto, host, local, WritesInv, Writes, Ours
<1>7. ASSUME NEW p \in Proc, VerifyNew(p) PROVE WritesInv'
  BY <1>7, Names
  DEF VerifyNew, Goto, WritesInv, Writes, Ours
<1>8. ASSUME NEW p \in Proc, VerifyStart(p) PROVE WritesInv'
  BY <1>8, Names
  DEF VerifyStart, Goto, host, WritesInv, Writes, Ours
<1>9. ASSUME NEW p \in Proc, VerifyOther(p) PROVE WritesInv'
  BY <1>9, Names
  DEF VerifyOther, StopUnderLock, Save, Via, host, WritesInv, Writes, Ours
<1>10. ASSUME NEW p \in Proc, Terminate(p) PROVE WritesInv'
  <2>1. op' = op /\ lost' = lost /\ \A q \in Proc : q # p => edit'[q] = edit[q]
    BY <1>10 DEF Terminate, local, Via, Save
  <2>2. op[p] \in Locked /\ qemu' \in Ended(Victim(p))
    BY <1>10, Holds DEF Terminate
  <2>3. \A n \in Pid : Ours(n)' => Ours(n)
    BY <2>1, <2>2, EndedKeeps DEF Ours
  <2> QED
    BY <2>1, <2>2, <2>3, Names DEF WritesInv, Writes
<1>11. ASSUME NEW p \in Proc, Shutdown(p) PROVE WritesInv'
  <2>1. op' = op /\ lost' = lost /\ \A q \in Proc : q # p => edit'[q] = edit[q]
    BY <1>11 DEF Shutdown, local, Via, Save
  <2>2. op[p] \in Locked /\ qemu' \in Ended(Victim(p))
    BY <1>11, Holds DEF Shutdown
  <2>3. \A n \in Pid : Ours(n)' => Ours(n)
    BY <2>1, <2>2, EndedKeeps DEF Ours
  <2> QED
    BY <2>1, <2>2, <2>3, Names DEF WritesInv, Writes
<1>12. ASSUME NEW p \in Proc, Load(p) PROVE WritesInv'
  BY <1>12, Names
  DEF Load, Goto, host, WritesInv, Writes, Ours
<1>13. ASSUME NEW p \in Proc, SaveEdited(p) PROVE WritesInv'
  BY <1>13, Names
  DEF SaveEdited, Goto, WritesInv, Writes, Ours
<1>14. ASSUME NEW p \in Proc, Spawn(p) PROVE WritesInv'
  <2>1. pc[p] = "spawn" /\ op' = op
    BY <1>14 DEF Spawn
  <2>2. op[p] \in Locked
    BY <2>1, Holds
  <2>3. \A q \in Proc : op[q] \notin Unlocked
    BY <2>1, <2>2, Names DEF IInv, LockInv, CastInv, Idle
  <2> QED
    BY <2>1, <2>3 DEF WritesInv, Writes
<1>15. ASSUME NEW p \in Proc, CannotSpawn(p) PROVE WritesInv'
  BY <1>15, Names
  DEF CannotSpawn, SpawnFailed, StopUnderLock, Via, host, WritesInv, Writes, Ours
<1>16. ASSUME NEW p \in Proc, Spawned(p) PROVE WritesInv'
  BY <1>16, Names
  DEF Spawned, SpawnFailed, Via, StopUnderLock, host, WritesInv, Writes, Ours
<1>17. ASSUME NEW p \in Proc, Record(p) PROVE WritesInv'
  BY <1>17, Names
  DEF Record, WritesInv, Writes, Ours
<1>18. ASSUME NEW p \in Proc, Foreground(p) PROVE WritesInv'
  BY <1>18, Names
  DEF Foreground, Goto, WritesInv, Writes, Ours
<1>19. ASSUME NEW p \in Proc, BootAnswers(p) PROVE WritesInv'
  BY <1>19, Names
  DEF BootAnswers, Goto, local, WritesInv, Writes, Ours
<1>20. ASSUME NEW p \in Proc, Respawn(p) PROVE WritesInv'
  BY <1>20, Names
  DEF Respawn, Goto, host, WritesInv, Writes, Ours
<1>21. ASSUME NEW p \in Proc, BootTimesOut(p) PROVE WritesInv'
  <2>1. op[p] \in Locked
    BY <1>21, Holds DEF BootTimesOut
  <2> QED
    BY <1>21, <2>1, Names DEF BootTimesOut, StopUnderLock, Via, host, WritesInv, Writes, Ours
<1>22. ASSUME NEW p \in Proc, Provisioned(p) PROVE WritesInv'
  BY <1>22, Names
  DEF Provisioned, Save, Via, host, WritesInv, Writes, Ours
<1>23. ASSUME NEW p \in Proc, PowerCycle(p) PROVE WritesInv'
  BY <1>23, Names
  DEF PowerCycle, Goto, host, WritesInv, Writes, Ours
<1>24. ASSUME NEW p \in Proc, ProvisionFails(p) PROVE WritesInv'
  <2>1. op[p] \in Locked
    BY <1>24, Holds DEF ProvisionFails
  <2> QED
    BY <1>24, <2>1, Names DEF ProvisionFails, StopUnderLock, Via, host, WritesInv, Writes, Ours
<1>25. ASSUME NEW p \in Proc, Rebooted(p) PROVE WritesInv'
  BY <1>25, Names
  DEF Rebooted, Save, Via, host, WritesInv, Writes, Ours
<1>26. ASSUME NEW p \in Proc, RebootFails(p) PROVE WritesInv'
  BY <1>26, Names
  DEF RebootFails, SpawnFailed, StopUnderLock, Via, host, WritesInv, Writes, Ours
<1>27. ASSUME NEW p \in Proc, StopForRelaunch(p) PROVE WritesInv'
  <2>1. op[p] \in Locked
    BY <1>27, Holds DEF StopForRelaunch
  <2> QED
    BY <1>27, <2>1, Names DEF StopForRelaunch, StopUnderLock, Via, host, WritesInv, Writes, Ours
<1>28. ASSUME NEW p \in Proc, Relaunch(p) PROVE WritesInv'
  BY <1>28, Names
  DEF Relaunch, Goto, WritesInv, Writes, Ours
<1>29. ASSUME NEW p \in Proc, Undo(p) PROVE WritesInv'
  BY <1>29, Names
  DEF Undo, Goto, WritesInv, Writes, Ours
<1>30. ASSUME NEW p \in Proc, Resume(p) PROVE WritesInv'
  BY <1>30, Names
  DEF Resume, Save, Via, WritesInv, Writes, Ours
<1>31. ASSUME NEW p \in Proc, Delete(p) PROVE WritesInv'
  BY <1>31, Names
  DEF Delete, Goto, Over, WritesInv, Writes, Ours
<1>32. ASSUME NEW p \in Proc, Reset(p) PROVE WritesInv'
  BY <1>32, Names
  DEF Reset, Save, Via, WritesInv, Writes, Ours
<1>33. ASSUME NEW p \in Proc, Release(p) PROVE WritesInv'
  BY <1>33, Names
  DEF Release, Goto, Over, WritesInv, Writes, Ours
<1>34. ASSUME NEW p \in Proc, Refresh(p) PROVE WritesInv'
  <2>1. /\ UNCHANGED host /\ \A q \in Proc : q # p => op'[q] = op[q] /\ edit'[q] = edit[q]
        /\ edit'[p] = "stopped" => rec.status = "running" /\ ~Running(rec) /\ rec # NoRecord
    BY <1>34 DEF Refresh, Begins, Via
  <2>2. pc[p] = "idle" /\ left[p] > 0 /\ "refresh" \in Ops[p] \intersect Unlocked
    BY <1>34, Names DEF Refresh, Begins
  <2>3. \A q \in Proc : q # p => pc[q] = "idle"
    BY <2>2 DEF IInv, CastInv, Idle
  <2>4. owner = Nobody
    BY <2>2, <2>3 DEF LockInv
  <2>5. edit'[p] = "stopped" => \A n \in Pid : ~Ours(n)
    BY <2>1, <2>4 DEF IInv, HostInv, Known, Recorded, Running, Exists, Ours
  <2> HIDE DEF TypeOK
  <2> QED
    BY <2>1, <2>5 DEF WritesInv, Writes, Ours, host
<1>35. ASSUME NEW p \in Proc, Note(p) PROVE WritesInv'
  BY <1>35, Names
  DEF Note, Begins, Via, host, WritesInv, Writes, Ours
<1>36. ASSUME NEW p \in Proc, Crash(p) PROVE WritesInv'
  BY <1>36, Names
  DEF Crash, Over, WritesInv, Writes, Ours
<1>37. ASSUME NEW n \in Pid, HostStep(n) PROVE WritesInv'
  BY <1>37 DEF HostStep, Host, Die, Reap, Reuse, Debug, Use, Becomes, local, WritesInv, Writes,
     Ours
<1> HIDE DEF TypeOK
<1> QED
  BY <1>1, <1>2, <1>3, <1>4, <1>5, <1>6, <1>7, <1>8, <1>9, <1>10, <1>11, <1>12, <1>13, <1>14,
     <1>15, <1>16, <1>17, <1>18, <1>19, <1>20, <1>21, <1>22, <1>23, <1>24, <1>25, <1>26, <1>27,
     <1>28, <1>29, <1>30, <1>31, <1>32, <1>33, <1>34, <1>35, <1>36, <1>37
  DEF Next, Step, HostStep

LEMMA WorksStep ==
  ASSUME IInv, [Next]_vars
  PROVE  Works'
<1> TypeOK /\ LockInv /\ EditInv /\ Works
  BY DEF IInv, HostInv
<1> USE LifecycleAssumption DEF TypeOK
<1>1. CASE UNCHANGED vars
  BY <1>1 DEF vars, host, local, Works, HolderInv, InHand, Bare, Launching, Ours
<1>2. ASSUME NEW p \in Proc, BeginStart(p) PROVE Works'
  BY <1>2, Holds
  DEF BeginStart, Begins, host, Works, HolderInv, InHand, Bare, Launching, Ours
<1>3. ASSUME NEW p \in Proc, BeginOther(p) PROVE Works'
  BY <1>3, Holds
  DEF BeginOther, Begins, host, Works, HolderInv, InHand, Bare, Launching, Ours
<1>4. ASSUME NEW p \in Proc, Acquire(p) PROVE Works'
  BY <1>4, Holds
  DEF Acquire, Goto, local, Works, HolderInv, InHand, Bare, Launching, Ours
<1>5. ASSUME NEW p \in Proc, Refused(p) PROVE Works'
  BY <1>5, Holds
  DEF Refused, Goto, Over, host, Works, HolderInv, InHand, Bare, Launching, Ours
<1>6. ASSUME NEW p \in Proc, Turned(p) PROVE Works'
  BY <1>6, Holds
  DEF Turned, Goto, host, local, Works, HolderInv, InHand, Bare, Launching, Ours
<1>7. ASSUME NEW p \in Proc, VerifyNew(p) PROVE Works'
  <2>1. pc[p] = "verify" /\ rec = NoRecord /\ phase[p] = "launch" /\ owner = p
    BY <1>7, Holds DEF VerifyNew, SameMachine, Goto, LockInv
  <2>2. \A n \in Pid : ~Ours(n)
    BY <2>1 DEF IInv, HostInv, Known, Recorded, Launching
  <2>3. created' \notin removed /\ created' \in Nat
    BY <1>7 DEF VerifyNew, IInv, HostInv, RemovedWasThere
  <2>4. h'[p] = NewRecord(created') /\ NewRecord(created') # NoRecord /\ h'[p].id = created'
    BY <1>7, <2>3, Kinds DEF VerifyNew, NewRecord
  <2>5. /\ pc'[p] = "spawn" /\ restore'[p] = Created
        /\ UNCHANGED <<owner, qemu, lost, removed, phase>>
    BY <1>7 DEF VerifyNew, Goto
  <2> QED
    BY <2>1, <2>2, <2>3, <2>4, <2>5 DEF Works, HolderInv, InHand, Bare, Launching, Ours
<1>8. ASSUME NEW p \in Proc, VerifyStart(p) PROVE Works'
  <2>1. pc[p] = "verify" /\ owner = p
    BY <1>8, Holds DEF VerifyStart, Goto
  <2>2. rec # NoRecord /\ rec.id \notin removed /\ Reread(p) = rec
    BY <1>8 DEF VerifyStart, SameMachine, Reread, IInv, HostInv, RemovedWasThere,
       RemovedStaysRemoved
  <2>3. h'[p] = rec /\ restore'[p] \in {rec, NoRecord} /\ UNCHANGED host
    BY <1>8, <2>2 DEF VerifyStart
  <2>4. pc'[p] = "release" \/ (pc'[p] = "spawn" /\ ~Running(rec))
    BY <1>8, <2>2 DEF VerifyStart, Goto, RunningMeanwhile
  <2>5. ~Running(rec) => \A n \in Pid : ~Ours(n)
    BY <2>1 DEF IInv, HostInv, Known, Recorded, Launching, Running, Exists, Ours
  <2> HIDE DEF TypeOK
  <2> QED
    BY <2>1, <2>2, <2>3, <2>4, <2>5 DEF Works, HolderInv, InHand, Bare, Launching, Ours, host
<1>9. ASSUME NEW p \in Proc, VerifyOther(p) PROVE Works'
  <2>1. pc[p] = "verify" /\ owner = p
    BY <1>9, Holds DEF VerifyOther, Goto
  <2>2. rec # NoRecord /\ rec.id \notin removed /\ Reread(p) = rec
    <3>1. rec # NoRecord
      BY <1>9, <2>1 DEF VerifyOther, SameMachine, LockInv
    <3> QED
      BY <3>1 DEF Reread, IInv, HostInv, RemovedWasThere, RemovedStaysRemoved
  <2>3. h'[p] = rec /\ UNCHANGED <<host, restore>>
    BY <1>9, <2>2 DEF VerifyOther
  <2>4. ~Running(rec) => \A n \in Pid : ~Ours(n)
    BY <2>1 DEF IInv, HostInv, Known, Recorded, Launching, Running, Exists, Ours
  <2>5. \/ pc'[p] \in {"stop", "cycle", "release", "shutdown", "continue", "remove", "clean"}
        \/ pc'[p] = "load" /\ edit'[p] = "stopped" /\ ~Running(rec)
    BY <1>9, <2>1, <2>2, Holds, Names DEF VerifyOther, StopUnderLock, Save, Via
  <2>6. restore[p] = NoRecord
    BY <2>1 DEF LockInv
  <2> HIDE DEF TypeOK
  <2> QED
    BY <2>1, <2>2, <2>3, <2>4, <2>5, <2>6 DEF Works, HolderInv, InHand, Bare, Launching, Ours,
       host
<1>10. ASSUME NEW p \in Proc, Terminate(p) PROVE Works'
  <2>1. /\ pc[p] \in {"stop", "cycle", "remove", "clean"} /\ owner = p /\ HolderInv(p)
        /\ h[p] # NoRecord
    BY <1>10, Holds DEF Terminate
  <2>2. /\ pc'[p] = CASE pc[p] = "stop" -> "load" [] pc[p] = "cycle" -> "spawn"
                       [] pc[p] = "remove" -> "delete" [] pc[p] = "clean" -> "reset"
        /\ qemu' \in Ended(Victim(p)) /\ UNCHANGED <<rec, lost, owner, removed, disk, local>>
    BY <1>10 DEF Terminate
  <2>3. /\ pc'[p] \in {"load", "spawn", "delete", "reset"}
        /\ pc'[p] = "load" => edit[p] = "stopped"
    BY <2>1, <2>2 DEF EditInv
  <2>4. rec = h[p]
    BY <2>1 DEF HolderInv, InHand
  <2>5. \A n \in Pid : Ours(n) => n = Victim(p)
    <3> SUFFICES ASSUME NEW n \in Pid, Ours(n) PROVE n = Victim(p)
      OBVIOUS
    <3>1. Recorded(n)
      BY <2>1 DEF IInv, HostInv, Known, Launching
    <3>2. Running(h[p]) /\ h[p].pid = n
      BY <3>1, <2>4 DEF Recorded, Running, Exists, Ours
    <3> QED
      BY <3>2, <2>1 DEF Victim
  <2>6. \A n \in Pid : ~Ours(n)'
    BY <2>2, <2>5, EndedKeeps DEF Ours
  <2> HIDE DEF TypeOK
  <2> QED
    BY <2>1, <2>2, <2>3, <2>4, <2>6 DEF Works, HolderInv, InHand, Bare, Launching, local
<1>11. ASSUME NEW p \in Proc, Shutdown(p) PROVE Works'
  <2>1. pc[p] = "shutdown" /\ owner = p /\ HolderInv(p) /\ h[p] # NoRecord /\ rec = h[p]
    BY <1>11, Holds DEF Shutdown, HolderInv, InHand
  <2>2. /\ qemu' \in Ended(Victim(p))
        /\ UNCHANGED <<rec, lost, owner, removed, disk, h, restore>>
        /\ pc'[p] \in {"release", "load"} /\ (pc'[p] = "load" => edit'[p] = "stopped")
    BY <1>11 DEF Shutdown, Save, Via
  <2>3. \A n \in Pid : Ours(n) => n = Victim(p)
    <3> SUFFICES ASSUME NEW n \in Pid, Ours(n) PROVE n = Victim(p)
      OBVIOUS
    <3>1. Recorded(n)
      BY <2>1 DEF IInv, HostInv, Known, Launching
    <3>2. Running(h[p]) /\ h[p].pid = n
      BY <3>1, <2>1 DEF Recorded, Running, Exists, Ours
    <3> QED
      BY <3>2, <2>1 DEF Victim
  <2>4. \A n \in Pid : ~Ours(n)'
    BY <2>2, <2>3, EndedKeeps DEF Ours
  <2> HIDE DEF TypeOK
  <2> QED
    BY <2>1, <2>2, <2>4 DEF Works, HolderInv, InHand, Bare, Launching
<1>12. ASSUME NEW p \in Proc, Load(p) PROVE Works'
  BY <1>12, Holds
  DEF Load, Goto, host, Works, HolderInv, InHand, Bare, Launching, Ours
<1>13. ASSUME NEW p \in Proc, SaveEdited(p) PROVE Works'
  <2>1. /\ pc[p] = "save" /\ pc' = [pc EXCEPT ![p] = after[p]]
        /\ UNCHANGED <<owner, restore, qemu, lost, removed>>
    BY <1>13 DEF SaveEdited, Goto
  <2>2. CASE owner = Nobody
    BY <2>1, <2>2 DEF Works
  <2>3. CASE owner # Nobody
    <3>1. owner = p
      BY <2>1, <2>3, OneWorks
    <3>2. HolderInv(p)
      BY <3>1 DEF Works
    <3>3. /\ rec \in Saved /\ edit[p] \in Edits /\ h[p] = rec
          /\ rec' = Edited(edit[p], rec) /\ h'[p] = rec'
      BY <1>13, <2>1, <3>1, <3>2, SaveIs DEF HolderInv, InHand
    <3>4. rec' # NoRecord /\ rec'.id = rec.id
      BY <3>3, EditedIs, Kinds
    <3>5. pc'[p] \in {"boot", "again", "relaunch", "undo", "release"}
      BY <2>1 DEF EditInv, After
    <3>6. pc'[p] \in {"undo", "relaunch"} => \A n \in Pid : ~Ours(n)
      BY <2>1, <1>13, SaveIs DEF EditInv
    <3> HIDE DEF TypeOK
    <3> QED
      BY <2>1, <3>1, <3>2, <3>3, <3>4, <3>5, <3>6 DEF Works, HolderInv, InHand, Bare,
         Launching, Ours
  <2> QED
    BY <2>2, <2>3
<1>14. ASSUME NEW p \in Proc, Spawn(p) PROVE Works'
  <2>1. pc[p] = "spawn" /\ owner = p /\ HolderInv(p) /\ h[p] \in Saved /\ h[p] # NoRecord
    BY <1>14, Holds DEF Spawn
  <2>2. PICK n \in Pid, s \in {"held", "up"} :
          /\ qemu[n] = "none" /\ qemu' = [qemu EXCEPT ![n] = s]
          /\ launcher' = [launcher EXCEPT ![n] = p] /\ child' = [child EXCEPT ![p] = n]
    BY <1>14 DEF Spawn
  <2>3. /\ pc'[p] \in {"spawned", "foreground"}
        /\ UNCHANGED <<owner, rec, lost, removed, h, restore, phase, disk>>
    BY <1>14 DEF Spawn, Goto
  <2>4. h[p].pid < n
    <3>1. h[p].pid = 0 \/ Spawned1(h[p].pid)
      BY <2>1 DEF IInv, RecordsInv, Sound
    <3>2. ~Spawned1(n) /\ n \in Nat /\ n > 0
      BY <2>2 DEF Spawned1, Pid
    <3>3. h[p].pid \in Nat
      BY <2>1 DEF Saved
    <3>4. Spawned1(h[p].pid) => h[p].pid # n /\ ~(n < h[p].pid)
      BY <3>2 DEF IInv, PidInv, Spawned1
    <3> QED
      BY <3>1, <3>2, <3>3, <3>4
  <2>5. n \notin lost
    BY <2>2 DEF IInv, PidInv, Spawned1
  <2>6. \A m \in Pid : Ours(m)' => m = n
    BY <2>1, <2>2, <2>3 DEF HolderInv, Bare, Ours
  <2> QED
    BY <2>1, <2>2, <2>3, <2>4, <2>5, <2>6 DEF Works, HolderInv, InHand, Bare, Launching
<1>15. ASSUME NEW p \in Proc, CannotSpawn(p) PROVE Works'
  BY <1>15, Holds
  DEF CannotSpawn, SpawnFailed, StopUnderLock, Via, host, Works, HolderInv, InHand, Bare,
      Launching, Ours
<1>16. ASSUME NEW p \in Proc, Spawned(p) PROVE Works'
  BY <1>16, Holds
  DEF Spawned, SpawnFailed, Via, StopUnderLock, host, Works, HolderInv, InHand, Bare,
      Launching, Ours
<1>17. ASSUME NEW p \in Proc, Record(p) PROVE Works'
  <2> pc[p] = "record"
    BY <1>17 DEF Record
  <2>1. owner' = p /\ HolderInv(p) /\ h[p] \in Saved /\ h[p] # NoRecord /\ child[p] \in Pid
    <3>1. owner = p /\ HolderInv(p) /\ h[p] \in Saved /\ h[p] # NoRecord
      BY Holds
    <3>2. owner' = owner
      BY <1>17 DEF Record
    <3> QED
      BY <3>1, <3>2 DEF HolderInv, Launching
  <2>4. h'[p] = Launched(p) /\ UNCHANGED <<restore, removed>>
    BY <1>17 DEF Record
  <2>2. h'[p] # NoRecord /\ h'[p].id \notin removed
    <3>1. Launched(p) \in Saved /\ Launched(p).id = h[p].id
      BY <2>1, LaunchedIs
    <3>2. h[p].id \notin removed
      BY <2>1 DEF HolderInv
    <3> QED
      BY <2>4, <3>1, <3>2, Kinds
  <2>3. pc'[p] = "release" \/ (pc'[p] \in {"reboot", "boot"} /\ rec' = Launched(p))
    BY <1>17 DEF Record
  <2> HIDE DEF TypeOK
  <2> QED
    BY <2>1, <2>2, <2>3, <2>4 DEF Works, HolderInv, InHand, Bare, Launching
<1>18. ASSUME NEW p \in Proc, Foreground(p) PROVE Works'
  BY <1>18, Holds
  DEF Foreground, Goto, Works, HolderInv, InHand, Bare, Launching, Ours
<1>19. ASSUME NEW p \in Proc, BootAnswers(p) PROVE Works'
  BY <1>19, Holds
  DEF BootAnswers, Goto, local, Works, HolderInv, InHand, Bare, Launching, Ours
<1>20. ASSUME NEW p \in Proc, Respawn(p) PROVE Works'
  BY <1>20, Holds
  DEF Respawn, Goto, host, Works, HolderInv, InHand, Bare, Launching, Ours
<1>21. ASSUME NEW p \in Proc, BootTimesOut(p) PROVE Works'
  BY <1>21, Holds
  DEF BootTimesOut, StopUnderLock, Via, host, Works, HolderInv, InHand, Bare, Launching, Ours
<1>22. ASSUME NEW p \in Proc, Provisioned(p) PROVE Works'
  BY <1>22, Holds
  DEF Provisioned, Save, Via, host, Works, HolderInv, InHand, Bare, Launching, Ours
<1>23. ASSUME NEW p \in Proc, PowerCycle(p) PROVE Works'
  BY <1>23, Holds
  DEF PowerCycle, Goto, host, Works, HolderInv, InHand, Bare, Launching, Ours
<1>24. ASSUME NEW p \in Proc, ProvisionFails(p) PROVE Works'
  BY <1>24, Holds
  DEF ProvisionFails, StopUnderLock, Via, host, Works, HolderInv, InHand, Bare, Launching, Ours
<1>25. ASSUME NEW p \in Proc, Rebooted(p) PROVE Works'
  BY <1>25, Holds
  DEF Rebooted, Save, Via, host, Works, HolderInv, InHand, Bare, Launching, Ours
<1>26. ASSUME NEW p \in Proc, RebootFails(p) PROVE Works'
  BY <1>26, Holds
  DEF RebootFails, SpawnFailed, StopUnderLock, Via, host, Works, HolderInv, InHand, Bare,
      Launching, Ours
<1>27. ASSUME NEW p \in Proc, StopForRelaunch(p) PROVE Works'
  BY <1>27, Holds
  DEF StopForRelaunch, StopUnderLock, Via, host, Works, HolderInv, InHand, Bare, Launching, Ours
<1>28. ASSUME NEW p \in Proc, Relaunch(p) PROVE Works'
  BY <1>28, Holds
  DEF Relaunch, Goto, Works, HolderInv, InHand, Bare, Launching, Ours
<1>29. ASSUME NEW p \in Proc, Undo(p) PROVE Works'
  BY <1>29, Holds
  DEF Undo, Goto, Works, HolderInv, InHand, Bare, Launching, Ours
<1>30. ASSUME NEW p \in Proc, Resume(p) PROVE Works'
  BY <1>30, Holds
  DEF Resume, Save, Via, Works, HolderInv, InHand, Bare, Launching, Ours
<1>31. ASSUME NEW p \in Proc, Delete(p) PROVE Works'
  BY <1>31, Holds
  DEF Delete, Goto, Over, Works, HolderInv, InHand, Bare, Launching, Ours
<1>32. ASSUME NEW p \in Proc, Reset(p) PROVE Works'
  <2>1. pc[p] = "reset" /\ owner = p /\ HolderInv(p)
    BY <1>32, Holds DEF Reset
  <2>2. /\ pc'[p] = "release" \/ (pc'[p] = "load" /\ disk' = "factory")
        /\ UNCHANGED <<rec, qemu, lost, owner, removed, h, restore>>
    BY <1>32 DEF Reset, FactoryDisk, Save, Via
  <2> HIDE DEF TypeOK
  <2> QED
    BY <2>1, <2>2 DEF Works, HolderInv, InHand, Bare, Launching, Ours
<1>33. ASSUME NEW p \in Proc, Release(p) PROVE Works'
  BY <1>33, Holds
  DEF Release, Goto, Over, Works, HolderInv, InHand, Bare, Launching, Ours
<1>34. ASSUME NEW p \in Proc, Refresh(p) PROVE Works'
  <2>1. /\ pc[p] = "idle" /\ left[p] > 0 /\ owner' = owner
        /\ "refresh" \in Ops[p] \intersect Unlocked
    BY <1>34, Names DEF Refresh, Begins, host
  <2>2. \A q \in Proc : q # p => pc[q] = "idle"
    BY <2>1 DEF IInv, CastInv, Idle
  <2>3. owner = Nobody
    BY <2>1, <2>2 DEF LockInv
  <2> QED
    BY <2>1, <2>3 DEF Works
<1>35. ASSUME NEW p \in Proc, Note(p) PROVE Works'
  BY <1>35, Holds
  DEF Note, Begins, Via, host, Works, HolderInv, InHand, Bare, Launching, Ours
<1>36. ASSUME NEW p \in Proc, Crash(p) PROVE Works'
  BY <1>36, Holds
  DEF Crash, Over, Works, HolderInv, InHand, Bare, Launching, Ours
<1>37. ASSUME NEW n \in Pid, HostStep(n) PROVE Works'
  BY <1>37 DEF HostStep, Host, Die, Reap, Reuse, Debug, Use, Becomes, local, Works, HolderInv,
     InHand,
     Bare, Launching, Ours
<1> HIDE DEF TypeOK
<1> QED
  BY <1>1, <1>2, <1>3, <1>4, <1>5, <1>6, <1>7, <1>8, <1>9, <1>10, <1>11, <1>12, <1>13, <1>14,
     <1>15, <1>16, <1>17, <1>18, <1>19, <1>20, <1>21, <1>22, <1>23, <1>24, <1>25, <1>26, <1>27,
     <1>28, <1>29, <1>30, <1>31, <1>32, <1>33, <1>34, <1>35, <1>36, <1>37
  DEF Next, Step, HostStep

----------------------------------------------------------------------------
(* The invariant *)

LEMMA InitIInv ==
  ASSUME WritersAlone, Init
  PROVE  IInv
<1>1. TypeOK
  BY TypeInit
<1>2. RecordsInv
  BY DEF Init, RecordsInv, Sound, Undoes, NewRecord, NoRecord, Created, WindowOpen
<1>3. PidInv
  BY DEF Init, PidInv, Spawned1
<1>4. CastInv
  <2>1. PICK cast \in Casts : left = [p \in Proc |-> IF p \in cast THEN MaxOps[p] ELSE 0]
    BY DEF Init
  <2>2. \A p \in Proc : pc[p] = "idle" /\ (p \notin cast => left[p] = 0)
    BY <2>1 DEF Init
  <2> QED
    BY <2>2 DEF WritersAlone, CastInv, Idle
<1>5. LockInv
  BY Names, LifecycleAssumption DEF Init, LockInv
<1>6. EditInv
  BY DEF Init, EditInv
<1>7. HostInv
  <2>1. Known /\ Works /\ WritesInv
    BY Names DEF Init, Known, Ours, Works, WritesInv, Writes
  <2>2. OpenIsFactory
    BY DEF Init, OpenIsFactory
  <2>3. StoppedHoldsNothing
    BY DEF Init, StoppedHoldsNothing, NewRecord
  <2>4. RemovedWasThere
    BY DEF Init, RemovedWasThere, RemovedStaysRemoved
  <2> QED
    BY <2>1, <2>2, <2>3, <2>4 DEF HostInv
<1> QED
  BY <1>1, <1>2, <1>3, <1>4, <1>5, <1>6, <1>7 DEF IInv

LEMMA NextIInv ==
  ASSUME IInv, [Next]_vars
  PROVE  IInv'
BY TypeStep, RecordsStep, PidStep, CastStep, LockStep, EditStep, WorksStep, KnownStep,
   WritesStep, WindowStep, StoppedStep, RemovedStep DEF IInv, HostInv

\* The invariant holds of any number of processes, operations and QEMUs, as long as whoever
\* writes machine.json without the lock (list(), get(), license(), `set --qemu-arg`) is alone.
THEOREM Inductive == WritersAlone => (Spec => []IInv)
<1> SUFFICES ASSUME WritersAlone PROVE Spec => []IInv
  OBVIOUS
<1>1. Init => IInv
  BY InitIInv
<1>2. IInv /\ [Next]_vars => IInv'
  BY NextIInv
<1> QED
  BY <1>1, <1>2, PTL DEF Spec

----------------------------------------------------------------------------
(* What the runs check *)

\* Every variable keeps its type, through every step and every failure.
THEOREM Typed == WritersAlone => (Spec => []TypeOK)
<1>1. IInv => TypeOK
  BY DEF IInv
<1> QED
  BY <1>1, Inductive, PTL

\* Once the lock is free, the QEMU that runs is the one machine.json names: no crash, failed
\* launch, time-out, undoing or removal leaves one behind that stop() and list() cannot find,
\* but those whose launcher ended before it saved the pid.
THEOREM RunningIsRecorded == WritersAlone => (Spec => []QemuIsRecorded)
<1>1. IInv => QemuIsRecorded
  BY DEF IInv, HostInv, Known, Recorded, QemuIsRecorded
<1> QED
  BY <1>1, Inductive, PTL

\* Once the lock is free, an open provisioning window stands for a disk no recorded guest
\* has used.
THEOREM OpenWindowKept == WritersAlone => (Spec => []OpenWindowIsFactory)
<1>1. IInv => OpenWindowIsFactory
  BY DEF IInv, HostInv, OpenIsFactory, OpenWindowIsFactory
<1> QED
  BY <1>1, Inductive, PTL

\* stop(), shutdown(), remove() and clean() end no process but the one machine.json names:
\* what a handle remembered from before it had the lock is never signalled.
THEOREM OnlyRecordedEnds == WritersAlone => (Spec => []EndsOnlyRecorded)
<1>1. IInv => EndsOnlyRecorded
  <2> SUFFICES ASSUME IInv, NEW p \in Proc, Victim(p) # 0
               PROVE  rec # NoRecord /\ rec.pid = Victim(p)
    BY DEF EndsOnlyRecorded, Exists, Pid
  <2>1. pc[p] \in {"stop", "cycle", "shutdown", "remove", "clean"}
    BY DEF Victim
  <2>2. HolderInv(p) /\ h[p] # NoRecord
    BY <2>1, Holds
  <2>3. rec = h[p]
    BY <2>1, <2>2 DEF HolderInv, InHand
  <2>4. Victim(p) = h[p].pid
    BY DEF Victim
  <2> QED
    BY <2>2, <2>3, <2>4
<1> QED
  BY <1>1, Inductive, PTL

\* A machine that is stopped names no process, and one that was removed never comes back.
THEOREM NothingIsHeld == WritersAlone => (Spec => []EndedHoldsNothing)
<1>1. IInv => EndedHoldsNothing
  BY DEF IInv, HostInv, RemovedWasThere, EndedHoldsNothing
<1> QED
  BY <1>1, Inductive, PTL

LEMMA OnlySpawnSpawns ==
  ASSUME IInv, [Next]_vars, Spawns
  PROVE  \E p \in Proc : Spawn(p)
<1> TypeOK
  BY DEF IInv
<1>1. ~UNCHANGED qemu
  BY DEF Spawns
<1>2. ASSUME NEW p \in Proc, Terminate(p) \/ Shutdown(p)
      PROVE  FALSE
  <2>1. qemu' \in Ended(Victim(p))
    BY <1>2 DEF Terminate, Shutdown
  <2> QED
    BY <2>1, EndedKeeps DEF Spawns
<1>3. ASSUME NEW p \in Proc, Resume(p)
      PROVE  FALSE
  BY <1>1, <1>3 DEF Resume, Spawns, TypeOK
<1>4. ASSUME NEW n \in Pid, Host(n)
      PROVE  FALSE
  BY <1>1, <1>4 DEF Host, Die, Reap, Reuse, Debug, Use, Becomes, Spawns, TypeOK
<1>5. CASE UNCHANGED vars
  BY <1>1, <1>5 DEF vars, host
<1>6. ASSUME NEW p \in Proc, Step(p), ~Spawn(p)
      PROVE  FALSE
  BY <1>1, <1>2, <1>3, <1>6
  DEF Step, host, BeginStart, BeginOther, Acquire, Refused, Turned, VerifyNew, VerifyStart,
      VerifyOther, Load, SaveEdited, CannotSpawn, Spawned, Record, Foreground, BootAnswers,
      Respawn, BootTimesOut, Provisioned, PowerCycle, ProvisionFails, Rebooted, RebootFails,
      StopForRelaunch, Relaunch, Undo, Delete, Reset, Release, Refresh, Note, Crash
<1> QED
  BY <1>4, <1>5, <1>6 DEF Next

\* No operation boots a QEMU on the disk of one that runs, whatever the operations before it
\* crashed in or gave up on.
THEOREM NoneBeside == WritersAlone => (Spec => NeverSpawnsBeside)
<1>1. IInv /\ [Next]_vars => [Spawns => \A m \in Pid : ~Ours(m)]_vars
  <2> SUFFICES ASSUME IInv, [Next]_vars, Spawns
               PROVE  \A m \in Pid : ~Ours(m)
    OBVIOUS
  <2>1. PICK p \in Proc : Spawn(p)
    BY OnlySpawnSpawns
  <2> QED
    BY <2>1, Holds DEF Spawn, HolderInv, Bare
<1> QED
  BY <1>1, Inductive, PTL DEF Spec, NeverSpawnsBeside
=============================================================================
