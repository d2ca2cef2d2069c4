---------------------------- MODULE PackageCache ----------------------------
(***************************************************************************)
(* One all-packages archive in the cache and what was extracted from it    *)
(* (downloadPackages() in src/lib/packages.ts): fetched and extracted on   *)
(* demand, read while packages are uploaded to a guest, evicted by any     *)
(* other process (src/lib/cache.ts).  A first boot relies on machine.json, *)
(* which says its machine still wants packages; installPackage() and the   *)
(* listing of packages pin the entry (src/lib/storage-lease.ts).           *)
(*                                                                         *)
(* Removing a directory takes time: in between it is "part".  A guest      *)
(* takes longer to boot than an eviction pass takes: a pass that did not   *)
(* see a machine's machine.json is over before that machine installs.      *)
(***************************************************************************)
EXTENDS FiniteSets

CONSTANTS
  Proc,
  Fetchers,   \* the processes that may install packages
  MayCrash

Nobody == "nobody"

PackagesAssumption == Nobody \notin Proc /\ Fetchers \subseteq Proc /\ MayCrash \in BOOLEAN

VARIABLES
  zip,       \* all_packages-<arch>-<version>.zip is there
  dir,       \* packages-<arch>-<version>: "none", "part" or "whole"
  wants,     \* the machines whose first boot has still to install packages
  unseen,    \* those of them the eviction under way has not seen
  leases,    \* the leases each process holds: "pin", "fetch"
  lock,      \* the storage lock
  kept,      \* what the lock's holder read of the leases and the machines
  pc

cache == <<zip, dir>>
machines == <<wants, unseen>>
eviction == <<lock, kept>>
vars == <<cache, machines, leases, eviction, pc>>

PC == {"idle", "complete?", "admit", "download", "extract", "clear", "publish", "verify",
       "read", "look", "evict"}

Init ==
  /\ zip \in BOOLEAN /\ dir \in {"none", "part", "whole"}
  /\ wants = {} /\ unseen = {}
  /\ leases = [p \in Proc |-> {}]
  /\ lock = Nobody /\ kept = FALSE
  /\ pc = [p \in Proc |-> "idle"]

Go(p, from, to) == pc[p] = from /\ pc' = [pc EXCEPT ![p] = to]

\* Seeded fault: the archive stands for its extraction.
ArchiveThere == zip

Complete == zip /\ dir = "whole"

----------------------------------------------------------------------------
(* Who installs: a first boot, or an operation that pins the entry *)

\* A machine that is to have packages is created, and boots.
Boot(p) ==
  /\ p \in Fetchers \ wants /\ pc[p] = "idle"
  /\ wants' = wants \union {p}
  /\ unseen' = IF lock = Nobody THEN unseen ELSE unseen \union {p}
  /\ UNCHANGED <<cache, leases, eviction, pc>>

Begin(p) ==
  /\ p \in Fetchers
  /\ Go(p, "idle", "complete?")
  /\ \/ p \in wants \ unseen /\ UNCHANGED leases
     \/ p \notin wants /\ lock = Nobody /\ leases' = [leases EXCEPT ![p] = {"pin"}]
     \/ p \notin wants /\ UNCHANGED leases   \* downloadPackages() of the library: nothing is read
  /\ UNCHANGED <<cache, machines, eviction>>

End(p, from) ==
  /\ Go(p, from, "idle")
  /\ leases' = [leases EXCEPT ![p] = {}]

\* Everything wanted is uploaded: machine.json is stamped.
Uploaded(p) ==
  /\ End(p, "read")
  /\ wants' = wants \ {p} /\ unseen' = unseen \ {p}
  /\ UNCHANGED <<cache, eviction>>

----------------------------------------------------------------------------
(* downloadPackages() *)

Return(p) == IF p \in wants \/ "pin" \in leases[p] THEN "read" ELSE "idle"

Look(p) ==
  /\ \/ Complete /\ Go(p, "complete?", Return(p))
     \/ ~Complete /\ Go(p, "complete?", "admit")
  /\ UNCHANGED <<cache, machines, leases, eviction>>

FetchPin(p) == leases[p] \union {"fetch"}

Admit(p) ==
  /\ lock = Nobody
  /\ Go(p, "admit", "download")
  /\ leases' = [leases EXCEPT ![p] = FetchPin(p)]
  /\ UNCHANGED <<cache, machines, eviction>>

\* A failure ends the operation; a first boot is rolled back, its machine still wanting.
Download(p) ==
  /\ \/ Go(p, "download", "extract") /\ zip' = TRUE /\ UNCHANGED leases
     \/ ~zip /\ End(p, "download") /\ UNCHANGED zip
  /\ UNCHANGED <<dir, machines, eviction>>

Extract(p) ==
  /\ \/ zip /\ Go(p, "extract", "clear") /\ UNCHANGED leases
     \/ ~zip /\ End(p, "extract")
  /\ UNCHANGED <<cache, machines, eviction>>

Removed == IF dir = "whole" THEN "part" ELSE "none"

\* What is in the way goes.
Clear(p) ==
  /\ \/ dir # "none" /\ dir' = Removed /\ pc[p] = "clear" /\ UNCHANGED pc
     \/ dir = "none" /\ Go(p, "clear", "publish") /\ UNCHANGED dir
  /\ UNCHANGED <<zip, machines, leases, eviction>>

\* A directory cannot be renamed onto one that has something in it.
Publish(p) ==
  /\ \/ dir = "none" /\ Go(p, "publish", "verify") /\ dir' = "whole" /\ UNCHANGED leases
     \/ dir # "none" /\ End(p, "publish") /\ UNCHANGED dir
  /\ UNCHANGED <<zip, machines, eviction>>

Verify(p) ==
  /\ \/ /\ Complete /\ Go(p, "verify", Return(p))
        /\ leases' = [leases EXCEPT ![p] = @ \ {"fetch"}]
     \/ ~Complete /\ End(p, "verify")
  /\ UNCHANGED <<cache, machines, eviction>>

----------------------------------------------------------------------------
(* Eviction, under the storage lock; the entry is the archive and its extraction *)

Prune(p) ==
  /\ lock = Nobody /\ lock' = p
  /\ Go(p, "idle", "look")
  /\ kept' = (\E q \in Proc : leases[q] # {})
  /\ UNCHANGED <<cache, machines, leases>>

Unused == wants = {}

Inspect(p) ==
  /\ lock = p
  /\ Go(p, "look", "evict")
  /\ kept' = (kept \/ ~Unused) /\ unseen' = {}
  /\ UNCHANGED <<cache, wants, leases, lock>>

Evict(p) ==
  /\ lock = p /\ pc[p] = "evict"
  /\ \/ /\ ~kept /\ (zip \/ dir # "none")
        /\ \/ zip /\ zip' = FALSE /\ UNCHANGED dir
           \/ dir # "none" /\ dir' = Removed /\ UNCHANGED zip
        /\ UNCHANGED <<unseen, eviction, pc>>
     \/ /\ kept \/ (~zip /\ dir = "none")
        /\ Go(p, "evict", "idle")
        /\ lock' = Nobody /\ kept' = FALSE /\ unseen' = {}
        /\ UNCHANGED cache
  /\ UNCHANGED <<wants, leases>>

\* The machine is removed, or its first boot fails and is not tried again.
Forget(p) ==
  /\ pc[p] = "idle" /\ p \in wants
  /\ wants' = wants \ {p} /\ unseen' = unseen \ {p}
  /\ UNCHANGED <<cache, leases, eviction, pc>>

TakenOver(p) ==
  IF lock = p THEN lock' = Nobody /\ kept' = FALSE /\ unseen' = {} ELSE UNCHANGED <<eviction, unseen>>

\* A dead process's lease is ignored, and its lock is taken over.
Crash(p) ==
  /\ MayCrash /\ pc[p] # "idle" /\ Go(p, pc[p], "idle")
  /\ leases' = [leases EXCEPT ![p] = {}]
  /\ TakenOver(p)
  /\ UNCHANGED <<cache, wants>>

Next ==
  \E p \in Proc :
    \/ Boot(p) \/ Begin(p) \/ Uploaded(p) \/ Look(p) \/ Admit(p) \/ Download(p) \/ Extract(p)
    \/ Clear(p) \/ Publish(p) \/ Verify(p)
    \/ Prune(p) \/ Inspect(p) \/ Evict(p) \/ Forget(p) \/ Crash(p)

Spec == Init /\ [][Next]_vars

----------------------------------------------------------------------------
(* Properties *)

TypeOK ==
  /\ zip \in BOOLEAN /\ dir \in {"none", "part", "whole"}
  /\ wants \subseteq Proc /\ unseen \subseteq wants
  /\ leases \in [Proc -> SUBSET {"pin", "fetch"}]
  /\ lock \in Proc \union {Nobody} /\ kept \in BOOLEAN
  /\ pc \in [Proc -> PC]
  /\ \A p \in Proc : lock = p <=> pc[p] \in {"look", "evict"}

\* While packages are looked up and uploaded every package is there: one that is not found
\* is skipped with a warning (packages.ts:200-204, quickchr.ts:1152-1163).
ReadersSeeEveryPackage == \A p \in Proc : pc[p] = "read" => dir = "whole"

\* What a process downloads and extracts is not taken before it has published and verified
\* it: a concurrent eviction cannot fail an install (storage-lease.ts:7-12).
NothingTakenWhileMade ==
  \A p \in Proc :
    /\ pc[p] \in {"extract", "clear", "publish", "verify"} => zip
    /\ pc[p] = "publish" => dir = "none"
    /\ pc[p] = "verify" => dir = "whole"

Installing == PC \ {"idle", "look", "evict"}

\* Who is to read or makes something holds a lease, or has a machine the eviction has seen;
\* and what the eviction found of both is still so.
LeaseInv ==
  /\ \A p \in Proc :
       /\ pc[p] \in Installing => p \in Fetchers /\ p \notin unseen
       /\ pc[p] \in {"download", "extract", "clear", "publish", "verify"} => "fetch" \in leases[p]
       /\ pc[p] = "read" => p \in wants \/ "pin" \in leases[p]
       /\ pc[p] = "evict" /\ ~kept => wants \subseteq unseen
  /\ lock # Nobody /\ ~kept => \A p \in Proc : leases[p] = {}

\* The inductive invariant, of a cache that one process adds to.
IInv == TypeOK /\ LeaseInv /\ ReadersSeeEveryPackage /\ NothingTakenWhileMade
=============================================================================
