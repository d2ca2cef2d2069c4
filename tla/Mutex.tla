------------------------------- MODULE Mutex -------------------------------
(***************************************************************************)
(* What quickchr promises its callers about one machine's lock, and        *)
(* nothing about how: at most one live operation owns the machine, only    *)
(* the owner deletes the machine, and owning one means it exists.          *)
(* FileLock implements this with files in the machine's directory.         *)
(***************************************************************************)

CONSTANT Proc   \* the operations (each its own process) that contend

VARIABLES
  exists,       \* the machine's directory is there
  owner,        \* the operations that own the lock: none or one
  alive         \* the operations whose process still runs

mutexVars == <<exists, owner, alive>>

TypeOK ==
  /\ exists \in BOOLEAN
  /\ owner \in SUBSET Proc
  /\ alive \in SUBSET Proc

Init ==
  /\ exists = FALSE
  /\ owner = {}
  /\ alive = Proc

\* A create makes the directory the lock will live in.
Create ==
  /\ ~exists
  /\ exists' = TRUE
  /\ UNCHANGED <<owner, alive>>

Acquire(p) ==
  /\ exists /\ p \in alive
  /\ owner = {}
  /\ owner' = {p}
  /\ UNCHANGED <<exists, alive>>

Release(p) ==
  /\ owner = {p} /\ p \in alive
  /\ owner' = {}
  /\ UNCHANGED <<exists, alive>>

\* Deleting the machine takes the lock with it.
Remove(p) ==
  /\ owner = {p} /\ p \in alive
  /\ exists' = FALSE
  /\ owner' = {}
  /\ UNCHANGED alive

\* A process that dies owns nothing any more.
Crash(p) ==
  /\ p \in alive
  /\ alive' = alive \ {p}
  /\ owner' = owner \ {p}
  /\ UNCHANGED exists

Next ==
  \/ Create
  \/ \E p \in Proc : Acquire(p) \/ Release(p) \/ Remove(p) \/ Crash(p)

Spec == Init /\ [][Next]_mutexVars
=============================================================================
