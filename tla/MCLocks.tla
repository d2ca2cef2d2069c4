------------------------------ MODULE MCLocks ------------------------------
(***************************************************************************)
(* The two locks taken by a file, under the fairness of the code that      *)
(* takes them: nobody waits for a dead holder.  They share no state, so    *)
(* one of them plays at a time, FileLock at rest or the lock of a link,    *)
(* whose variables the slots are.                                          *)
(***************************************************************************)
EXTENDS FileLock

CONSTANTS
  Nil,
  Linker, MortalLinker,  \* the processes of EntryLock, and those that may die
  HolderMayStall

VARIABLES plays, v1, v2, v3

slots == <<v1, v2, v3>>
all == <<vars, plays, slots>>

Entry == INSTANCE EntryLock WITH
  Proc <- Linker, Mortal <- MortalLinker, file <- v1, pc <- v2, alive <- v3

ASSUME LocksAssumption == Entry!EntryLockAssumption

LocksInit ==
  /\ Init
  /\ \/ plays = "machine" /\ v1 = Nil /\ v2 = Nil /\ v3 = Nil
     \/ plays = "entry" /\ Entry!Init

LocksNext ==
  \/ plays = "machine" /\ UNCHANGED <<plays, slots>> /\ Next
  \/ plays = "entry" /\ UNCHANGED <<plays, vars>> /\ Entry!Next

\* As FileLock and EntryLock state it for themselves.
Fairness ==
  /\ \A o \in Proc :
       /\ WF_vars(plays = "machine" /\ Acquiring(o))
       /\ WF_vars(plays = "machine" /\ Releasing(o))
       /\ WF_vars(plays = "machine" /\ EndOperation(o))
  /\ \A p \in Linker :
       /\ WF_slots(plays = "entry" /\ Entry!Locking(p))
       /\ SF_slots(plays = "entry" /\ Entry!GiveUpOnHolder(p))

Locks == LocksInit /\ [][LocksNext]_all /\ Fairness

-----------------------------------------------------------------------------
(* Properties *)

\* Two processes never read, change and write back one registry entry at a time, as long
\* as none has died at it (socket-registry.ts:136-146).
OneAtATimeUntilADeath == plays = "entry" => Entry!OneAtATimeUntilADeath

\* A holder of an entry's lock that died does not wedge the link: while anyone wants the
\* lock, its file goes (socket-registry.ts:131-133, 186).
Wedged == {p \in Linker : plays = "entry" /\ Entry!HeldByTheDead(p)}
DeadHolderIsCleared == \A p \in Linker : []<>(p \notin Wedged)

\* An attempt at the machine lock never yields to the event loop, so it ends: with the
\* lock, at a holder, or with the machine gone (lock.ts:411-427).  A machine whose holders
\* are all dead goes to its next contender (lock.ts:429-432).
Trying == {o \in Proc : plays = "machine" /\ Attempting(o)}
Waiting == {o \in Proc : plays = "machine" /\ AloneBehindTheDead(o)}
Taken == {o \in Proc : plays = "machine" /\ TakenOrGone(o)}
AttemptsEnd ==
  /\ \A o \in Proc : []<>(o \notin Trying)
  /\ \A o \in Proc : o \in Waiting ~> o \in Taken
=============================================================================
