----------------------------- MODULE Admission -----------------------------
(***************************************************************************)
(* Storage admission (admitStorage() in src/lib/storage.ts): an operation  *)
(* that writes is admitted when every filesystem it writes to has room for *)
(* it and for the configured reserve, what other operations in progress    *)
(* have reserved taken off.  Short of room, entries of the cache are       *)
(* evicted, oldest first (pruneCacheUnderLock() in src/lib/cache.ts), and  *)
(* free space is measured again.  Check and lease are made under the       *)
(* storage lock (src/lib/storage-lease.ts); writing is not.                *)
(*                                                                         *)
(* An operation writes no more than it said it would.                      *)
(***************************************************************************)
EXTENDS Integers, FiniteSetsExt

CONSTANTS
  Op,
  Fs,            \* filesystems
  CacheFs,       \* the one the cache is on
  DataFs,        \* the one the data directory is on
  Entries,       \* cache entries, 1..n from the one evicted first
  Size, Frees,   \* what an entry is counted as, and what deleting it frees
  InUse,         \* entries machines need
  Holds,         \* what each operation reserves and writes on each filesystem
  Checks,        \* what it only checks: parts that another operation reserves
  Pins,          \* the entries it reads: pinned by its lease, and protected from it
  Reserve,
  Free,          \* free space at the start
  MayFail,       \* a delete may fail
  MayCrash

Nobody == "nobody"

ASSUME AdmissionAssumption ==
  /\ IsFiniteSet(Op) /\ Nobody \notin Op /\ {CacheFs, DataFs} \subseteq Fs
  /\ IsFiniteSet(Entries) /\ Entries \subseteq Nat /\ InUse \subseteq Entries
  /\ {Size, Frees} \subseteq [Entries -> Nat] /\ \A e \in Entries : Frees[e] <= Size[e]
  /\ {Holds, Checks} \subseteq [Op -> [Fs -> Nat]]
  /\ Pins \in [Op -> SUBSET Entries]
  /\ Reserve \in Nat /\ Free \in [Fs -> Nat]
  /\ {MayFail, MayCrash} \subseteq BOOLEAN

VARIABLES
  free,      \* free space on each filesystem
  entries,   \* the entries that are there
  recent,    \* those used in the last half hour
  lease,     \* the operations with a lease
  left,      \* what each has still to write
  lock,      \* the storage lock
  others,    \* what its holder read of the leases: reserved bytes
  pinned,    \* and pins
  todo,      \* the filesystems it has still to check
  pass,      \* the eviction pass it is in: entries still to try, bytes still to evict
  evicted,   \* entries it evicted in the pass
  failed,    \* entries whose delete failed
  pc         \* "idle", "check", "evict", "writing", "refused", "done"

disk == <<free, entries, recent, left>>
check == <<others, pinned, todo, pass, evicted, failed>>
vars == <<disk, lease, lock, check, pc>>

None == [f \in Fs |-> 0]
NoPass == [try |-> {}, bytes |-> 0]

Init ==
  /\ free = Free /\ entries = Entries /\ recent = {}
  /\ lease = {} /\ left = [o \in Op |-> None]
  /\ lock = Nobody /\ others = None /\ pinned = {} /\ todo = {}
  /\ pass = NoPass /\ evicted = {} /\ failed = {}
  /\ pc = [o \in Op |-> "idle"]

Go(o, from, to) == pc[o] = from /\ pc' = [pc EXCEPT ![o] = to]

----------------------------------------------------------------------------

Need(o, f) == Holds[o][f] + Checks[o][f]

\* Seeded fault: reservations of other operations are not taken off.
NothingReserved(f) == 0

Reserved(f) == MapThenSumSet(LAMBDA o : Holds[o][f], lease)

\* An operation that writes nothing only asks whether the reserve is there.
Checked(o) == LET needs == {f \in Fs : Need(o, f) > 0} IN IF needs = {} THEN {DataFs} ELSE needs

\* withStorageLock(), liveLeases(), groupByFilesystem()
Begin(o) ==
  /\ lock = Nobody /\ lock' = o
  /\ Go(o, "idle", "check")
  /\ others' = [f \in Fs |-> Reserved(f)]
  /\ pinned' = (UNION {Pins[q] : q \in lease}) \union Pins[o]
  /\ todo' = Checked(o)
  /\ UNCHANGED <<disk, lease, pass, evicted, failed>>

Required(o, f) == Need(o, f) + Reserve

Measured(f) == free[f] - others[f]

Short(o, f) == Required(o, f) - Measured(f)

\* Entries eviction may take: not in use, pinned, needed by the operation, or just used.
Eligible == entries \ (InUse \union pinned \union recent)

Bytes(es) == MapThenSumSet(LAMBDA e : Size[e], es)

Leave(o, to) ==
  /\ Go(o, pc[o], to)
  /\ lock' = Nobody /\ others' = None /\ pinned' = {} /\ todo' = {}
  /\ pass' = NoPass /\ evicted' = {} /\ failed' = {}

Refuse(o) ==
  /\ Leave(o, "refused")
  /\ UNCHANGED <<disk, lease>>

HasRoom(o, f) ==
  /\ f \in todo /\ pc[o] = "check" /\ lock = o
  /\ Short(o, f) <= 0
  /\ todo' = todo \ {f} /\ failed' = {}
  /\ UNCHANGED <<disk, lease, lock, others, pinned, pass, evicted, pc>>

\* Only the cache's own filesystem gains from eviction, and only if everything that may be
\* evicted would cover what is missing.
Evictable(o, f) == f = CacheFs /\ Bytes(Eligible) >= Short(o, f)

\* No room, and eviction could not make any: the cache is left as it is.
NoRoom(o, f) ==
  /\ f \in todo /\ pc[o] = "check" /\ lock = o
  /\ Short(o, f) > 0 /\ ~Evictable(o, f)
  /\ Refuse(o)

StartPass(o, f) ==
  /\ f \in todo /\ Go(o, "check", "evict") /\ lock = o
  /\ Short(o, f) > 0 /\ Evictable(o, f)
  /\ pass' = [try |-> Eligible, bytes |-> Short(o, f)]
  /\ UNCHANGED <<disk, lease, lock, others, pinned, todo, evicted, failed>>

\* Seeded fault: what is evicted is not counted.
Nothing(e) == 0

Counted(e) == Size[e]

Victim(es) == CHOOSE e \in es : \A d \in es : e <= d

Evict(o) ==
  LET e == Victim(pass.try)
  IN  /\ pc[o] = "evict" /\ lock = o /\ pass.bytes > 0 /\ pass.try # {}
      /\ \/ /\ entries' = entries \ {e}
            /\ free' = [free EXCEPT ![CacheFs] = @ + Frees[e]]
            /\ evicted' = evicted \union {e}
            /\ pass' = [try |-> pass.try \ {e}, bytes |-> pass.bytes - Counted(e)]
            /\ UNCHANGED failed
         \/ /\ MayFail
            /\ failed' = failed \union {e}
            /\ pass' = [pass EXCEPT !.try = @ \ {e}]
            /\ UNCHANGED <<free, entries, evicted>>
      /\ UNCHANGED <<recent, left, lease, lock, others, pinned, todo, pc>>

\* Seeded fault: passes follow one another although the last one evicted nothing.
NeverExhausted == FALSE

Exhausted == evicted = {}

\* The pass is over: measure, and go on unless it evicted nothing.
EndPass(o) ==
  LET again == Eligible \ failed
      short == Short(o, CacheFs)
  IN  /\ pc[o] = "evict" /\ lock = o /\ (pass.bytes <= 0 \/ pass.try = {})
      /\ \/ /\ short <= 0
            /\ todo' = todo \ {CacheFs} /\ failed' = {} /\ evicted' = {} /\ pass' = NoPass
            /\ Go(o, "evict", "check")
            /\ UNCHANGED <<lease, lock, others, pinned, disk>>
         \/ /\ short > 0 /\ Exhausted
            /\ Refuse(o)
         \/ /\ short > 0 /\ ~Exhausted
            /\ pass' = [try |-> again, bytes |-> short] /\ evicted' = {}
            /\ UNCHANGED <<lease, lock, others, pinned, todo, failed, disk, pc>>

\* createLease()
Admit(o) ==
  /\ pc[o] = "check" /\ lock = o /\ todo = {}
  /\ Leave(o, "writing")
  /\ lease' = lease \union {o}
  /\ left' = [left EXCEPT ![o] = Holds[o]]
  /\ UNCHANGED <<free, entries, recent>>

----------------------------------------------------------------------------
(* Outside the lock *)

Write(o, f) ==
  /\ pc[o] = "writing" /\ left[o][f] > 0
  /\ left' = [left EXCEPT ![o][f] = @ - 1]
  /\ free' = [free EXCEPT ![f] = @ - 1]
  /\ UNCHANGED <<entries, recent, lease, lock, check, pc>>

\* All is written, or the operation has failed and writes no more.
Release(o) ==
  /\ Go(o, "writing", "done")
  /\ lease' = lease \ {o}
  /\ left' = [left EXCEPT ![o] = None]
  /\ UNCHANGED <<free, entries, recent, lock, check>>

\* A cache hit.
Touch(e) ==
  /\ e \in entries \ recent
  /\ recent' = recent \union {e}
  /\ UNCHANGED <<free, entries, left, lease, lock, check, pc>>

Live(o) == lease \ {o}

\* A dead process's lease is ignored, and its lock is taken over.
Crash(o) ==
  /\ MayCrash /\ pc[o] \in {"check", "evict", "writing"}
  /\ IF lock = o THEN Leave(o, "done") ELSE Go(o, pc[o], "done") /\ UNCHANGED <<lock, check>>
  /\ lease' = Live(o)
  /\ left' = [left EXCEPT ![o] = None]
  /\ UNCHANGED <<free, entries, recent>>

Locked(o) ==
  \/ \E f \in Fs : HasRoom(o, f) \/ NoRoom(o, f) \/ StartPass(o, f)
  \/ Evict(o) \/ EndPass(o) \/ Admit(o)

Next ==
  \/ \E o \in Op : Begin(o) \/ Locked(o) \/ Release(o) \/ Crash(o) \/ \E f \in Fs : Write(o, f)
  \/ \E e \in Entries : Touch(e)

Spec == Init /\ [][Next]_vars

----------------------------------------------------------------------------
(* Properties *)

TypeOK ==
  /\ free \in [Fs -> Nat] /\ entries \subseteq Entries /\ recent \subseteq Entries
  /\ pc \in [Op -> {"idle", "check", "evict", "writing", "refused", "done"}]
  /\ lease = {o \in Op : pc[o] = "writing"}
  /\ left \in [Op -> [Fs -> Nat]]
  /\ lock \in Op \union {Nobody}
  /\ \A o \in Op : lock = o <=> pc[o] \in {"check", "evict"}
  /\ others \in [Fs -> Nat] /\ pinned \subseteq Entries /\ todo \subseteq Fs
  /\ pass \in [try : SUBSET Entries, bytes : Int]
  /\ evicted \subseteq Entries /\ failed \subseteq Entries

Promised(f) == MapThenSumSet(LAMBDA o : left[o][f], lease)

\* Two operations do not spend the same bytes: on a filesystem that admitted operations are
\* writing to, the reserve is still there after all of them have written everything.
ReserveKept ==
  \A f \in Fs : (\E o \in lease : Holds[o][f] > 0) => free[f] - Promised(f) >= Reserve

\* Nothing is deleted once there is room: every eviction is made while the measurement falls
\* short, whatever an entry turned out to free.
EvictsWhenShort == entries' # entries => Short(lock, CacheFs) > 0

\* A refusal is the last resort: the filesystem is not the cache's, or all that could be
\* evicted would not have covered the shortage and is left alone, or nothing is left that
\* could be deleted.
RefusesWhenExhausted ==
  \A o \in Op : pc'[o] = "refused" /\ pc[o] # "refused" =>
    \E f \in todo :
      /\ Short(o, f) > 0
      /\ f = CacheFs => \/ Eligible \ failed = {}
                        \/ pc[o] = "check" /\ Bytes(Eligible) < Short(o, f)

\* An entry is evicted only while the measurement falls short, and an operation refused
\* only when nothing more could help (storage.ts:251-321).
EvictsAndRefusesLast == [][EvictsWhenShort /\ RefusesWhenExhausted]_vars
=============================================================================
