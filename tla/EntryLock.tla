----------------------------- MODULE EntryLock -----------------------------
(***************************************************************************)
(* The lock file of one named socket, or of the whole registry             *)
(* (withEntryLock() in src/lib/socket-registry.ts): made with O_EXCL, its  *)
(* holder's pid written by a second call, taken over when the holder is    *)
(* dead or has written nothing for half a second, and deleted by path.     *)
(*                                                                         *)
(* The half second is abstract: it may run out while the process that made *)
(* the file is dead or, when HolderMayStall, at any time, as for a waiter  *)
(* that finds one file after another gone each time it looks.  A waiter gives  *)
(* up after 5 s, ten times as long, so never while it watches a dead       *)
(* holder's file.                                                          *)
(***************************************************************************)
EXTENDS Naturals, FiniteSets

CONSTANTS
  Proc,             \* processes that join, leave or remove the link
  Mortal,           \* those that may die
  HolderMayStall    \* a live process may take half a second between two calls

EntryLockAssumption == Mortal \subseteq Proc /\ HolderMayStall \in BOOLEAN

VARIABLES
  file,      \* the lock file: absent, or who made it and whether it has its pid
  pc,
  alive

vars == <<file, pc, alive>>

Absent == [made |-> FALSE]

Made(p, written) == [made |-> TRUE, by |-> p, written |-> written]

Init ==
  /\ file = Absent
  /\ pc = [p \in Proc |-> "idle"]
  /\ alive = Proc

Goto(p, from, to) == p \in alive /\ pc[p] = from /\ pc' = [pc EXCEPT ![p] = to]

Request(p) == Goto(p, "idle", "open") /\ UNCHANGED <<file, alive>>

CanCreate(p) == ~file.made

\* openSync(lockPath, "wx")
Open(p) ==
  /\ CanCreate(p)
  /\ Goto(p, "open", "write")
  /\ file' = Made(p, FALSE)
  /\ UNCHANGED alive

OpenFails(p) == file.made /\ Goto(p, "open", "read") /\ UNCHANGED <<file, alive>>

\* The pid goes into the file that was opened, wherever that is now.
Write(p) ==
  /\ Goto(p, "write", "critical")
  /\ file' = IF file = Made(p, FALSE) THEN Made(p, TRUE) ELSE file
  /\ UNCHANGED alive

Unreadable == file.made => ~file.written

\* Seeded fault: an empty file is deleted on first sight.
AtOnce == TRUE

GraceOver == ~HolderMayStall => file.made /\ file.by \notin alive

\* Empty or gone: look again, and after half a second delete it.
ReadNothing(p) ==
  /\ Unreadable
  /\ Goto(p, "read", "open")
  /\ UNCHANGED <<file, alive>>

GiveUpOnHolder(p) ==
  /\ Unreadable /\ GraceOver
  /\ Goto(p, "read", "delete")
  /\ UNCHANGED <<file, alive>>

\* Seeded fault: a dead holder's file is waited for like a live one's.
AlwaysAlive(p) == TRUE

OwnerAlive(p) == p \in alive

\* process.kill(ownerPid, 0)
ReadOwner(p) ==
  /\ ~Unreadable
  /\ Goto(p, "read", IF OwnerAlive(file.by) THEN "open" ELSE "delete")
  /\ UNCHANGED <<file, alive>>

\* rmSync(lockPath, { force: true }): whatever is there by now.
Delete(p) ==
  /\ Goto(p, "delete", "open")
  /\ file' = Absent
  /\ UNCHANGED alive

TimeOut(p) ==
  /\ file.made => file.by \in alive
  /\ Goto(p, "open", "idle")
  /\ UNCHANGED <<file, alive>>

Unlock(p) ==
  /\ Goto(p, "critical", "idle")
  /\ file' = Absent
  /\ UNCHANGED alive

Crash(p) ==
  /\ p \in Mortal \intersect alive
  /\ alive' = alive \ {p}
  /\ UNCHANGED <<file, pc>>

Locking(p) ==
  \/ Open(p) \/ OpenFails(p) \/ Write(p) \/ ReadNothing(p) \/ GiveUpOnHolder(p)
  \/ ReadOwner(p) \/ Delete(p) \/ Unlock(p)

Next == \E p \in Proc : Request(p) \/ Locking(p) \/ TimeOut(p) \/ Crash(p)

Spec == Init /\ [][Next]_vars

----------------------------------------------------------------------------
TypeOK ==
  /\ file = Absent \/ \E p \in Proc, w \in BOOLEAN : file = Made(p, w)
  /\ pc \in [Proc -> {"idle", "open", "write", "read", "delete", "critical"}]
  /\ alive \subseteq Proc

Kept ==
  \A p \in Proc :
    /\ pc[p] = "write" => file = Made(p, FALSE)
    /\ pc[p] = "critical" => file = Made(p, TRUE)

\* The file a process made is there, and says so, for as long as it holds the lock, until a
\* process dies: nobody takes a live holder's lock away (socket-registry.ts:149-155).
HolderKeepsFile == alive = Proc => Kept

\* Two processes never read, change and write back one registry entry at a time
\* (socket-registry.ts:136-146): both would take the same end of a link.
OneAtATime ==
  \A p, q \in alive : pc[p] = "critical" /\ pc[q] = "critical" => p = q

\* As long as no process has died at it, that is what the lock promises.
OneAtATimeUntilADeath == alive = Proc => OneAtATime

\* p wants the lock of a holder that died, even before it wrote its pid: the holder's file
\* does not wedge the link (socket-registry.ts:131-133, 186).
HeldByTheDead(p) ==
  /\ file.made /\ file.by \notin alive
  /\ p \in alive /\ pc[p] \in {"open", "read", "delete"}

\* Why, while nobody has died and no holder stalls: nobody is about to delete the file, and
\* whoever is past the open has it.
AllAlive ==
  /\ alive = Proc
  /\ \A p \in Proc : pc[p] # "delete"
  /\ Kept

IInv == TypeOK /\ (alive = Proc => AllAlive)
=============================================================================
