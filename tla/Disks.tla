------------------------------- MODULE Disks -------------------------------
(***************************************************************************)
(* disk.ts: the disks of one machine, from the factory image to a launched *)
(* guest and back.  A boot disk is built beside its place and renamed; an  *)
(* extra disk is created in place.  A machine that never booted gets the   *)
(* disks it lacks; one that did is refused.  A process may die between any *)
(* two steps, and a file may be lost.                                      *)
(***************************************************************************)
EXTENDS Naturals

CONSTANTS
  Extras,        \* the number of extra disks
  MaxCrashes, MaxLosses   \* bounds

DisksAssumption == Extras \in Nat /\ MaxCrashes \in Nat /\ MaxLosses \in Nat

Boot == 0
Disk == 0..Extras       \* the boot disk and the extra ones

VARIABLES
  format,     \* of the boot disk: "raw" or "qcow2"
  disk,       \* of each: "absent", "partial", "factory" or "guest"
  tmp,        \* the boot disk being built
  booted,     \* the record says the guest has booted
  running,
  op, at,     \* the operation under way, the disk it is at
  held,       \* ghost: the disks the guest wrote to and clean has not taken since
  crashes, losses

vars == <<format, disk, tmp, booted, running, op, at, held, crashes, losses>>

Init ==
  /\ format \in {"raw", "qcow2"}
  /\ disk = [d \in Disk |-> "absent"] /\ tmp = "absent"
  /\ booted = FALSE /\ running = FALSE
  /\ op = "none" /\ at = Boot
  /\ held = {} /\ crashes = 0 /\ losses = 0

Put(d, c) == disk' = [disk EXCEPT ![d] = c]

\* add, start and clean each hold the machine's lock.
Begin ==
  /\ op = "none" /\ ~running
  /\ op' \in {"add", "start", "wipe"}
  /\ op' = "wipe" => \E d \in Disk : disk[d] # "absent"
  /\ op' = "add" => ~booted
  /\ at' = Boot
  /\ UNCHANGED <<format, disk, tmp, booted, running, held, crashes, losses>>

Fails == op' = "none" /\ at' = Boot

\* Seeded fault: a missing disk is built again whatever happened before.
AnyTime == TRUE

\* Disks of a guest that has booted are never built, but by clean.
MayBuild == op = "rebuild" \/ ~booted

\* ensureConfiguredDisks(): the disk is there, or is to be built, or the start fails.
Ensure ==
  /\ op \in {"add", "start", "rebuild"} /\ at \in Disk /\ tmp = "absent"
  /\ CASE disk[at] # "absent" /\ ~(op = "rebuild" /\ at = Boot) ->
            at' = at + 1 /\ UNCHANGED <<disk, tmp, op, held>>
       [] OTHER ->
            IF ~MayBuild THEN Fails /\ UNCHANGED <<disk, tmp, held>>
            ELSE IF at = Boot THEN tmp' = "partial" /\ UNCHANGED <<disk, op, at, held>>
            ELSE /\ Put(at, "partial") /\ at' = at + 1 + Extras
                 /\ held' = IF op = "rebuild" THEN held \ {at} ELSE held
                 /\ UNCHANGED <<tmp, op>>
  /\ UNCHANGED <<format, booted, running, crashes, losses>>

\* The copy or conversion is renamed once it is whole and stands alone.
Placed == tmp = "factory" /\ Put(Boot, tmp)

Convert ==
  /\ op # "none" /\ at = Boot /\ tmp = "partial"
  /\ tmp' = "factory"
  /\ UNCHANGED <<format, disk, booted, running, op, at, held, crashes, losses>>

Rename ==
  /\ op # "none" /\ at = Boot /\ tmp # "absent"
  /\ Placed
  /\ tmp' = "absent"
  /\ at' = at + 1
  /\ held' = IF op = "rebuild" THEN held \ {Boot} ELSE held
  /\ UNCHANGED <<format, booted, running, op, crashes, losses>>

\* A copy, a conversion or a rename that fails takes the unfinished disk away.
BuildFails ==
  /\ op # "none" /\ at = Boot /\ tmp # "absent"
  /\ tmp' = "absent" /\ Fails
  /\ UNCHANGED <<format, disk, booted, running, held, crashes, losses>>

\* qemu-img ends writing an extra disk.
Created ==
  /\ op # "none" /\ at > Extras + 1
  /\ Put(at - Extras - 1, "factory")
  /\ at' = at - Extras
  /\ UNCHANGED <<format, tmp, booted, running, op, held, crashes, losses>>

\* cleanDiskFiles(): a qcow2 boot disk, then the extra ones up to the first missing.
Wipe ==
  /\ op = "wipe"
  /\ CASE at = Boot ->
            /\ IF format = "qcow2" THEN Put(Boot, "absent") ELSE UNCHANGED disk
            /\ at' = 1 /\ UNCHANGED op /\ held' = held \ {Boot}
       [] at \in 1..Extras /\ disk[at] # "absent" ->
            Put(at, "absent") /\ at' = at + 1 /\ UNCHANGED op /\ held' = held \ {at}
       [] OTHER -> op' = "rebuild" /\ at' = Boot /\ UNCHANGED <<disk, held>>
  /\ UNCHANGED <<format, tmp, booted, running, crashes, losses>>

\* The record of a cleaned machine says it never booted.
Finish ==
  /\ op # "none" /\ op # "wipe" /\ at = Extras + 1
  /\ op' = "none" /\ at' = Boot
  /\ running' = (op = "start")
  /\ booted' = CASE op = "start" -> TRUE [] op = "rebuild" -> FALSE [] OTHER -> booted
  /\ held' = IF op = "rebuild" THEN {} ELSE held
  /\ UNCHANGED <<format, disk, tmp, crashes, losses>>

GuestWrites ==
  /\ running
  /\ \E d \in Disk : Put(d, "guest") /\ held' = held \cup {d}
  /\ UNCHANGED <<format, tmp, booted, running, op, at, crashes, losses>>

Stop ==
  /\ running /\ op = "none"
  /\ running' = FALSE
  /\ UNCHANGED <<format, disk, tmp, booted, op, at, held, crashes, losses>>

\* The next writer of the boot disk removes what a dead one left beside it.
Crash ==
  /\ op # "none" /\ crashes < MaxCrashes
  /\ crashes' = crashes + 1
  /\ op' = "none" /\ at' = Boot /\ tmp' = "absent"
  /\ UNCHANGED <<format, disk, booted, running, held, losses>>

Lose ==
  /\ losses < MaxLosses /\ ~running /\ op = "none"
  /\ losses' = losses + 1
  /\ \E d \in Disk : disk[d] # "absent" /\ Put(d, "absent")
  /\ UNCHANGED <<format, tmp, booted, running, op, at, held, crashes>>

Next ==
  \/ Begin \/ Ensure \/ Convert \/ Rename \/ BuildFails \/ Created \/ Wipe \/ Finish
  \/ GuestWrites \/ Stop \/ Crash \/ Lose

Spec == Init /\ [][Next]_vars

----------------------------------------------------------------------------
(* Properties                                                              *)

\* A guest runs on a whole boot disk, and finds its data on every disk it wrote to
\* that clean has not taken: neither a lost file nor a process that died in the middle
\* of an operation has reset one behind its back (disk.ts:160-199, 225-276).
LaunchedAsLeft ==
  running => /\ disk[Boot] \in {"factory", "guest"}
             /\ \A d \in held : disk[d] = "guest"

Content == {"absent", "partial", "factory", "guest"}
Building == {"add", "start", "rebuild"}

\* The disks an operation is past: an extra one is still being written while at says so.
Past == IF at > Extras + 1 THEN at - Extras - 1 ELSE at

\* What a guest wrote stays written, or is lost, until clean takes it; a disk is made only
\* where there was none, and a start has looked at every disk.
IInv ==
  /\ disk \in [Disk -> Content] /\ disk[Boot] # "partial"
  /\ tmp \in {"absent", "partial", "factory"} /\ booted \in BOOLEAN /\ running \in BOOLEAN
  /\ op \in Building \union {"none", "wipe"} /\ at \in 0..(2 * Extras + 1)
  /\ held \subseteq Disk /\ \A d \in held : disk[d] \in {"guest", "absent"}
  /\ held # {} => booted
  /\ running => booted /\ op = "none"
  /\ op = "none" => at = Boot
  /\ op = "wipe" => at <= Extras + 1
  /\ op = "add" => ~booted
  /\ tmp # "absent" => op \in Building /\ at = Boot /\ MayBuild
  /\ at > Extras + 1 => MayBuild /\ Past \notin held
  /\ op \in Building => \A d \in Disk : d < Past => disk[d] # "absent"
  /\ running => LaunchedAsLeft
=============================================================================
