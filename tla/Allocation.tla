----------------------------- MODULE Allocation -----------------------------
(***************************************************************************)
(* Creating machines concurrently (quickchr.ts: claimNewMachine() and its  *)
(* callers add() and start(); state.ts: loadAllMachines(), saveMachine(),  *)
(* removeMachine(); lock.ts: listReservations()).  A creation chooses a    *)
(* block of host ports and a MAC no other machine has, while others are    *)
(* created, rewritten and removed.                                         *)
(*                                                                         *)
(* The machine lock and the allocation lock are the abstract lock of       *)
(* Mutex: taken and released in one step, free once the holder has died.   *)
(* Every read of one machine's file or lock is a step of its own.          *)
(***************************************************************************)
EXTENDS Ports, FiniteSets

CONSTANTS
  Name,          \* machine names
  Adder,         \* processes that run add()
  Starter,       \* processes that run start() of a new machine
  Rewriter,      \* processes that rewrite an existing machine's machine.json
  Remover,       \* processes that run remove or removeOrphan()
  Casts,         \* the sets of processes that may meet
  Target,        \* the name each process works on
  PortBase,      \* the base a creation asks for, 0 when it leaves it to the allocator
  Digest,        \* deriveMac(name, 0, salt) is Digest[name] + salt
  Mortal,        \* the processes that may die
  MaxProbes,     \* blocks a search tries
  MaxTries       \* times a creation makes a removed directory again

Creator == Adder \union Starter
Changer == Rewriter \union Remover
Proc == Creator \union Changer
Nobody == "nobody"

ASSUME AllocationAssumption ==
  /\ Adder \intersect Starter = {} /\ Rewriter \intersect Remover = {}
  /\ Creator \intersect Changer = {}
  /\ Target \in [Proc -> Name] /\ Casts \subseteq SUBSET Proc
  /\ PortBase \in [Creator -> Nat]
  /\ Digest \in [Name -> Nat \ {0}]   \* an address starts with 02
  /\ Mortal \subseteq Proc
  /\ MaxProbes \in Nat /\ MaxTries \in Nat
  /\ Nobody \notin Proc

VARIABLES
  dir,           \* the machines/<name> directories
  json,          \* machine.json of each
  owner,         \* who holds each machine lock
  reserve,       \* the reservation in its record
  allocator,     \* who holds the allocation lock
  pc,
  todo,          \* the directories the scan that runs has still to read
  bases,         \* the port bases the process has seen
  macs,          \* the MACs it has seen
  picked,        \* the base and MAC it picked
  fresh,         \* start(): the directory was not there before the claim
  tries,         \* how often it has made the directory again
  saw            \* whose machine a rewrite or removal was asked about

disk == <<dir, json, owner, reserve, allocator>>
local == <<todo, bases, macs, picked, fresh, tries, saw>>
vars == <<disk, pc, local>>

NoJson == [by |-> Nobody]
Json(p, r, t) == [by |-> p, base |-> r.base, mac |-> r.mac, torn |-> t]
NoResources == [base |-> 0, mac |-> 0]

Readable(n) == json[n] # NoJson /\ ~json[n].torn

\* isOrphanMachineDir(): a directory without a readable machine.json.
Orphan(n) == n \in dir /\ ~Readable(n)

----------------------------------------------------------------------------
Init ==
  /\ dir = {}
  /\ json = [n \in Name |-> NoJson]
  /\ owner = [n \in Name |-> Nobody]
  /\ reserve = [n \in Name |-> NoResources]
  /\ allocator = Nobody
  /\ \E cast \in Casts : pc = [p \in Proc |-> IF p \in cast THEN "idle" ELSE "absent"]
  /\ todo = [p \in Proc |-> {}] /\ bases = [p \in Proc |-> {}] /\ macs = [p \in Proc |-> {}]
  /\ picked = [p \in Proc |-> NoResources]
  /\ fresh = [p \in Proc |-> FALSE]
  /\ tries = [p \in Proc |-> 0]
  /\ saw = [p \in Proc |-> Nobody]

Goto(p, from, to) == pc[p] = from /\ pc' = [pc EXCEPT ![p] = to]

Lock(n, p, r) == owner' = [owner EXCEPT ![n] = p] /\ reserve' = [reserve EXCEPT ![n] = r]
Unlock(n) == Lock(n, Nobody, NoResources)

----------------------------------------------------------------------------
(* Up to the allocation lock *)

\* add() refuses any directory of the name, start() launches a machine that is readable
\* and refuses one that is not; otherwise a machine is created.
Look(p) ==
  LET n == Target[p]
      ends == IF p \in Adder THEN n \in dir ELSE json[n] # NoJson
  IN  /\ Goto(p, "idle", IF ends THEN "done" ELSE IF p \in Adder THEN "allocate" ELSE "mark")
      /\ UNCHANGED <<disk, local>>

\* Only start() asks whether the directory is there already, to know whose it is.
MarkFresh(p) ==
  /\ Goto(p, "mark", "allocate")
  /\ fresh' = [fresh EXCEPT ![p] = Target[p] \notin dir]
  /\ UNCHANGED <<disk, todo, bases, macs, picked, tries, saw>>

\* An explicit base is checked against the machines listed before the reservations.
Allocate(p) ==
  /\ allocator = Nobody
  /\ Goto(p, "allocate", IF PortBase[p] # 0 THEN "machines" ELSE "reserved")
  /\ allocator' = p
  /\ todo' = [todo EXCEPT ![p] = dir]
  /\ UNCHANGED <<dir, json, owner, reserve, bases, macs, picked, fresh, tries, saw>>

AllocateTimesOut(p) ==
  /\ allocator # Nobody
  /\ Goto(p, "allocate", "done")
  /\ UNCHANGED <<disk, local>>

----------------------------------------------------------------------------
(* pickNewMachineResources(): three kinds of scan over machines/ *)

\* One machine.json of a loadAllMachines(): what cannot be read is skipped.
ReadMachine(p, n) ==
  /\ n \in todo[p]
  /\ todo' = [todo EXCEPT ![p] = todo[p] \ {n}]
  /\ LET found == IF Readable(n) THEN {json[n]} ELSE {}
     IN  \/ /\ pc[p] = "machines"
            /\ bases' = [bases EXCEPT ![p] = bases[p] \union
                           {m.base : m \in {r \in found : n # Target[p]}}]
            /\ UNCHANGED macs
         \/ /\ pc[p] = "bases"
            /\ bases' = [bases EXCEPT ![p] = bases[p] \union {m.base : m \in found}]
            /\ UNCHANGED macs
         \/ /\ pc[p] = "macs"
            /\ macs' = [macs EXCEPT ![p] = macs[p] \union {m.mac : m \in found}]
            /\ UNCHANGED bases
  /\ UNCHANGED <<disk, pc, picked, fresh, tries, saw>>

\* Seeded fault: a creation that has not saved its machine is overlooked.
NoReservations(p, n) == {}

\* listReservations(): the live holder's reservation, of every name but its own.
Reservations(p, n) ==
  IF n # Target[p] /\ owner[n] # Nobody /\ reserve[n] # NoResources THEN {reserve[n]} ELSE {}

ReadReservation(p, n) ==
  /\ pc[p] = "reserved" /\ n \in todo[p]
  /\ todo' = [todo EXCEPT ![p] = todo[p] \ {n}]
  /\ bases' = [bases EXCEPT ![p] = bases[p] \union {r.base : r \in Reservations(p, n)}]
  /\ macs' = [macs EXCEPT ![p] = macs[p] \union {r.mac : r \in Reservations(p, n)}]
  /\ UNCHANGED <<disk, pc, picked, fresh, tries, saw>>

\* The scan has read every directory it listed; the next one lists them again.
NextScan(p, from, to) ==
  /\ todo[p] = {}
  /\ Goto(p, from, to)
  /\ todo' = [todo EXCEPT ![p] = dir]

ListReservations(p) ==
  /\ NextScan(p, "machines", "reserved")
  /\ UNCHANGED <<disk, bases, macs, picked, fresh, tries, saw>>

\* The bases are read again after the reservations, so a creation that ends between the
\* two scans is seen in the second.
ListBases(p) ==
  /\ PortBase[p] = 0
  /\ NextScan(p, "reserved", "bases")
  /\ UNCHANGED <<disk, bases, macs, picked, fresh, tries, saw>>

\* assertPortBaseFree()
Clash(p) == \E b \in bases[p] : Overlap(b, PortBase[p])

CheckExplicit(p) ==
  /\ PortBase[p] # 0
  /\ NextScan(p, "reserved", IF Clash(p) THEN "abandon" ELSE "macs")
  /\ picked' = [picked EXCEPT ![p].base = PortBase[p]]
  /\ UNCHANGED <<disk, bases, macs, fresh, tries, saw>>

\* findAvailablePortBlock(): each block probed may be answered on the wire.
Candidate(used) ==
  LET block[k \in Nat] == IF k = 0 THEN NextUnusedBase(DefaultPortBase, used)
                          ELSE NextUnusedBase(block[k - 1] + PortsPerBlock, used)
  IN  block

PickBase(p) ==
  /\ PortBase[p] = 0
  /\ \E probes \in 0..MaxProbes :
       /\ NextScan(p, "bases", IF probes = MaxProbes THEN "abandon" ELSE "macs")
       /\ picked' = [picked EXCEPT ![p].base = Candidate(bases[p])[probes]]
  /\ UNCHANGED <<disk, bases, macs, fresh, tries, saw>>

\* assignMacs(): the first salt whose address is not taken.
FirstFree(n, taken) ==
  CHOOSE m \in Digest[n]..(Digest[n] + Cardinality(taken)) :
    /\ m \notin taken
    /\ \A k \in Digest[n]..(m - 1) : k \in taken

PickMac(p) ==
  /\ todo[p] = {}
  /\ Goto(p, "macs", "ensure")
  /\ picked' = [picked EXCEPT ![p].mac = FirstFree(Target[p], macs[p])]
  /\ UNCHANGED <<disk, todo, bases, macs, fresh, tries, saw>>

----------------------------------------------------------------------------
(* Taking the machine lock with the choice in its record *)

EnsureDir(p) ==
  /\ Goto(p, "ensure", "claim")
  /\ dir' = dir \union {Target[p]}
  /\ UNCHANGED <<json, owner, reserve, allocator, local>>

OnceMore(p) == tries[p] < MaxTries

Claim(p) ==
  LET n == Target[p]
  IN  \/ /\ n \notin dir /\ OnceMore(p)  \* MACHINE_NOT_FOUND: removed in between
         /\ Goto(p, "claim", "ensure")
         /\ tries' = [tries EXCEPT ![p] = tries[p] + 1]
         /\ UNCHANGED <<disk, todo, bases, macs, picked, fresh, saw>>
      \/ /\ n \notin dir /\ ~OnceMore(p)
         /\ Goto(p, "claim", "abandon")
         /\ UNCHANGED <<disk, local>>
      \/ /\ n \in dir /\ owner[n] # Nobody   \* MACHINE_LOCKED
         /\ Goto(p, "claim", "abandon")
         /\ UNCHANGED <<disk, local>>
      \/ /\ n \in dir /\ owner[n] = Nobody
         /\ Goto(p, "claim", "recheck")
         /\ Lock(n, p, picked[p])
         /\ UNCHANGED <<dir, json, allocator, local>>

CreatedMeanwhile(n) == json[n] # NoJson

\* MACHINE_EXISTS when another creation of the name has ended since the first look.
Recheck(p) ==
  LET n == Target[p]
  IN  \/ /\ CreatedMeanwhile(n)
         /\ Goto(p, "recheck", "abandon")
         /\ Unlock(n)
         /\ UNCHANGED <<dir, json, allocator, local>>
      \/ /\ ~CreatedMeanwhile(n)
         /\ Goto(p, "recheck", "claimed")
         /\ UNCHANGED <<disk, local>>

\* The allocation lock is let go however the claim ended.
ReleaseAllocator(p) ==
  /\ \/ Goto(p, "claimed", "build")
     \/ Goto(p, "abandon", "done")
  /\ allocator' = Nobody
  /\ UNCHANGED <<dir, json, owner, reserve, local>>

----------------------------------------------------------------------------
(* Under the machine lock: images, disks, and machine.json last *)

\* saveMachine() empties the file and then fills it.
Truncate(p, resources) ==
  LET n == Target[p]
  IN  /\ dir' = dir \union {n}
      /\ json' = [json EXCEPT ![n] = Json(p, resources, TRUE)]
      /\ UNCHANGED <<owner, reserve, allocator, local>>

Fill(p) ==
  /\ json' = [json EXCEPT ![Target[p]].torn = FALSE]
  /\ UNCHANGED <<dir, owner, reserve, allocator, local>>

Save(p) == Goto(p, "build", "saving") /\ Truncate(p, picked[p])
Saved(p) == Goto(p, "saving", "release") /\ Fill(p)

\* The download, a disk, the spawn or the write itself may fail.
Fail(p) ==
  /\ p \in Creator
  /\ \E from \in {"build", "saving"} : Goto(p, from, "cleanup")
  /\ UNCHANGED <<disk, local>>

RemoveDir(n) ==
  /\ dir' = dir \ {n}
  /\ json' = [json EXCEPT ![n] = NoJson]
  /\ Unlock(n)

Unfinished(n) == Orphan(n)

\* A failed creation takes its directory away; start() only one it thinks it made.
CleanUp(p) ==
  LET n == Target[p]
  IN  IF Unfinished(n) /\ (p \in Adder \/ fresh[p])
      THEN Goto(p, "cleanup", "done") /\ RemoveDir(n) /\ UNCHANGED <<allocator, local>>
      ELSE Goto(p, "cleanup", "release") /\ UNCHANGED <<disk, local>>

Release(p) ==
  /\ Goto(p, "release", "done")
  /\ Unlock(Target[p])
  /\ UNCHANGED <<dir, json, allocator, local>>

----------------------------------------------------------------------------
(* Operations on a machine that is there already *)

\* The caller's handle, or its finding of an orphan, predates the lock.
LookUp(p) ==
  LET n == Target[p]
  IN  /\ p \in Changer /\ n \in dir
      /\ p \in Rewriter => Readable(n)
      /\ Goto(p, "idle", "lock")
      /\ saw' = [saw EXCEPT ![p] = IF Readable(n) THEN json[n].by ELSE Nobody]
      /\ UNCHANGED <<disk, todo, bases, macs, picked, fresh, tries>>

LockExisting(p) ==
  LET n == Target[p]
  IN  \/ /\ n \in dir /\ owner[n] = Nobody
         /\ Goto(p, "lock", "locked")
         /\ Lock(n, p, NoResources)
         /\ UNCHANGED <<dir, json, allocator, local>>
      \/ /\ n \notin dir \/ owner[n] # Nobody
         /\ Goto(p, "lock", "done")
         /\ UNCHANGED <<disk, local>>

\* Seeded fault: what was looked up before the lock is taken for what is there.
StillThere(p) == TRUE

\* assertSameMachine(), or removeOrphan()'s second look.
SameMachine(p) ==
  LET n == Target[p]
  IN  IF saw[p] = Nobody THEN Orphan(n) ELSE Readable(n) /\ json[n].by = saw[p]

Turned(p) ==
  /\ ~SameMachine(p)
  /\ Goto(p, "locked", "release")
  /\ UNCHANGED <<disk, local>>

Rewrite(p) ==
  /\ p \in Rewriter /\ SameMachine(p)
  /\ Goto(p, "locked", "rewriting")
  /\ LET n == Target[p]
     IN  json' = [json EXCEPT ![n].torn = TRUE]
  /\ UNCHANGED <<dir, owner, reserve, allocator, local>>

Rewritten(p) == Goto(p, "rewriting", "release") /\ Fill(p)

Remove(p) ==
  /\ p \in Remover /\ SameMachine(p)
  /\ Goto(p, "locked", "done")
  /\ RemoveDir(Target[p])
  /\ UNCHANGED <<allocator, local>>

----------------------------------------------------------------------------
\* A process dies at any line; the locks it held are anyone's.
Crash(p) ==
  /\ p \in Mortal /\ pc[p] \notin {"absent", "done", "dead"}
  /\ pc' = [pc EXCEPT ![p] = "dead"]
  /\ owner' = [n \in Name |-> IF owner[n] = p THEN Nobody ELSE owner[n]]
  /\ reserve' = [n \in Name |-> IF owner[n] = p THEN NoResources ELSE reserve[n]]
  /\ allocator' = IF allocator = p THEN Nobody ELSE allocator
  /\ UNCHANGED <<dir, json, local>>

Creating(p) ==
  \/ Look(p) \/ MarkFresh(p) \/ Allocate(p) \/ AllocateTimesOut(p)
  \/ \E n \in Name : ReadMachine(p, n) \/ ReadReservation(p, n)
  \/ ListReservations(p) \/ ListBases(p) \/ CheckExplicit(p) \/ PickBase(p) \/ PickMac(p)
  \/ EnsureDir(p) \/ Claim(p) \/ Recheck(p) \/ ReleaseAllocator(p)
  \/ Save(p) \/ Saved(p) \/ Fail(p) \/ CleanUp(p) \/ Release(p)

Changing(p) ==
  \/ LookUp(p) \/ LockExisting(p) \/ Turned(p) \/ Rewrite(p) \/ Rewritten(p) \/ Remove(p)
  \/ Release(p)

Next ==
  \/ \E p \in Creator : Creating(p)
  \/ \E p \in Changer : Changing(p)
  \/ \E p \in Proc : Crash(p)

Spec == Init /\ [][Next]_vars

----------------------------------------------------------------------------
(* Properties *)

CreatorSteps ==
  {"absent", "idle", "mark", "allocate", "machines", "reserved", "bases", "macs", "ensure",
   "claim", "recheck", "claimed", "abandon", "build", "saving", "cleanup", "release", "done",
   "dead"}

ChangerSteps == {"absent", "idle", "lock", "locked", "rewriting", "release", "done", "dead"}

TypeOK ==
  /\ dir \subseteq Name
  /\ json \in [Name -> [by : Proc, base : Nat, mac : Nat, torn : BOOLEAN] \union {NoJson}]
  /\ owner \in [Name -> Proc \union {Nobody}]
  /\ reserve \in [Name -> [base : Nat, mac : Nat]]
  /\ allocator \in Creator \union {Nobody}
  /\ pc \in [Proc -> CreatorSteps \union ChangerSteps]
  /\ \A p \in Proc : pc[p] \in IF p \in Creator THEN CreatorSteps ELSE ChangerSteps
  /\ todo \in [Proc -> SUBSET Name]
  /\ bases \in [Proc -> SUBSET Nat] /\ macs \in [Proc -> SUBSET Nat]
  /\ picked \in [Proc -> [base : Nat, mac : Nat]]
  /\ fresh \in [Proc -> BOOLEAN] /\ tries \in [Proc -> 0..MaxTries]
  /\ saw \in [Proc -> Proc \union {Nobody}]

\* What a name stands for: the machine of its machine.json, or, while a creation or a
\* rewrite holds the lock, what is about to be there.
Resources(n) ==
  CASE Readable(n) -> {json[n]}
    [] ~Readable(n) /\ owner[n] \in Creator -> {reserve[n]}
    [] ~Readable(n) /\ owner[n] \in Rewriter -> {json[n]}
    [] OTHER -> {}

\* No two machines, finished or being created, have overlapping port blocks
\* (quickchr.ts:2212-2217).
DistinctBlocks ==
  \A m, n \in Name : m # n =>
    \A r \in Resources(m), s \in Resources(n) : ~Overlap(r.base, s.base)

Present == {p \in Proc : pc[p] # "absent"}

\* While no machine.json is written again in the meantime, which hides it from a scan.
Unhidden == Rewriter \intersect Present = {}

\* While, besides, every creation leaves its base to the allocator.
Automatic == Unhidden /\ \A p \in Creator \intersect Present : PortBase[p] = 0

\* Automatic allocation keeps blocks apart, whatever is created and removed meanwhile
\* (quickchr.ts:2190-2192).
DistinctAutomaticBlocks == Automatic => DistinctBlocks

\* No two machines have the same MAC, even when their digests collide (network.ts:441-449).
DistinctMacs ==
  Unhidden =>
    \A m, n \in Name : m # n => \A r \in Resources(m), s \in Resources(n) : r.mac # s.mac

\* A machine.json is never taken over by another creation of the name: only removal ends
\* a machine (quickchr.ts:2258-2263).
KeepsMachines ==
  \A n \in Name : json[n] # NoJson /\ json'[n] # NoJson => json'[n].by = json[n].by

\* A finished machine is removed only by a caller that found that machine, not by one that
\* found an earlier machine of the name or a creation in flight (quickchr.ts:3334-3345).
RemovesFound ==
  \A n \in Name : Readable(n) /\ n \notin dir' =>
    \E p \in Remover : pc[p] = "locked" /\ saw[p] = json[n].by

\* One process creates the machine of the name, or only add() does, beside no more than one
\* process that changes it.
Undisputed(n) ==
  LET working == {p \in Present : Target[p] = n}
  IN  \/ \A p, q \in working \intersect Creator : p = q
      \/ /\ working \intersect Starter = {}
         /\ \A p, q \in working \intersect Changer : p = q

\* A directory without a readable machine.json is a creation in flight or what a process
\* left by dying: a failed creation leaves nothing behind (quickchr.ts:2398-2407).
NoLeftovers ==
  \A n \in Name : Undisputed(n) /\ Orphan(n) /\ owner[n] = Nobody =>
    \E p \in Proc : Target[p] = n /\ pc[p] \in {"claim", "dead"}

\* No two machines, finished or being created, share a port or a MAC, and a creation
\* that fails leaves nothing behind (quickchr.ts:2190-2217, 2398-2407; network.ts:441-449).
OwnResources == DistinctAutomaticBlocks /\ DistinctMacs /\ NoLeftovers

\* A machine.json is never taken over by another creation, and removed only by a caller
\* that had found that machine (quickchr.ts:2258-2263, 3334-3345).
TouchesOnlyItsOwn == [][KeepsMachines /\ RemovesFound]_vars
=============================================================================
