----------------------------- MODULE ImageCache -----------------------------
(***************************************************************************)
(* One CHR image in the cache (src/lib/images.ts): fetched on demand by    *)
(* any process, read while a machine's boot disk is built from it, and     *)
(* evicted by any other (src/lib/cache.ts).  What keeps it is a lease,     *)
(* recorded under the storage lock (src/lib/storage-lease.ts), until the   *)
(* machine's machine.json says it is in use.                               *)
(*                                                                         *)
(* Files come into place by rename, so they are absent or whole; "bad" is  *)
(* a damaged image something else left.  A create makes one machine per    *)
(* process, of that process's name.                                        *)
(***************************************************************************)
EXTENDS FiniteSets

CONSTANTS
  Proc,
  Fetchers,     \* the processes that create machines and add to the cache
  Old,          \* the processes whose machine is there at the start
  MayCrash,
  TornSaves     \* machine.json can be seen half written

Nobody == "nobody"

ASSUME CacheAssumption ==
  /\ Nobody \notin Proc /\ Fetchers \subseteq Proc /\ Old \subseteq Proc
  /\ {MayCrash, TornSaves} \subseteq BOOLEAN

VARIABLES
  img,      \* chr-<version>.img: "none", "ok" or "bad"
  zip,      \* chr-<version>.img.zip is there
  json,     \* each machine's machine.json: "none", "saved" or "torn"
  leases,   \* the leases each process holds on the image and its ZIP: "create", "fetch"
  lock,     \* the storage lock
  pinned,   \* what the lock's holder read of the leases
  victims,  \* and what it will delete
  pc

files == <<img, zip>>
eviction == <<lock, pinned, victims>>
vars == <<files, json, leases, eviction, pc>>

PC == {"idle", "usable?", "discard", "admit", "download", "extract", "rediscard", "unzip",
       "publish", "finalize", "build", "save", "rewrite", "saved", "look", "evict"}

Init ==
  /\ img \in {"none", "ok", "bad"} /\ zip \in BOOLEAN
  /\ json = [p \in Proc |-> IF p \in Old /\ img = "ok" THEN "saved" ELSE "none"]
  /\ leases = [p \in Proc |-> {}]
  /\ lock = Nobody /\ pinned = FALSE /\ victims = {}
  /\ pc = [p \in Proc |-> "idle"]

Go(p, from, to) == pc[p] = from /\ pc' = [pc EXCEPT ![p] = to]

Creating(p) == "create" \in leases[p]

\* The lease of a create; createLease() runs under the storage lock.
Admit(p) ==
  /\ p \in Fetchers /\ json[p] = "none" /\ lock = Nobody
  /\ Go(p, "idle", "usable?")
  /\ leases' = [leases EXCEPT ![p] = {"create"}]
  /\ UNCHANGED <<files, json, eviction>>

\* cacheAdd()
Add(p) ==
  /\ p \in Fetchers
  /\ Go(p, "idle", "usable?")
  /\ UNCHANGED <<files, json, leases, eviction>>

----------------------------------------------------------------------------
(* ensureCachedImage() *)

Fetched(p) == IF Creating(p) THEN "build" ELSE "idle"

\* A create that fails releases its lease; a fetch that fails releases its own.
Fail(p, from) ==
  /\ Go(p, from, "idle")
  /\ leases' = [leases EXCEPT ![p] = {}]

Usable(p) ==
  /\ \/ img = "ok" /\ Go(p, "usable?", Fetched(p))
     \/ img # "ok" /\ Go(p, "usable?", "discard")
  /\ UNCHANGED <<files, json, leases, eviction>>

\* What is there by now goes.
Discard(p) ==
  /\ \/ Go(p, "discard", "admit") \/ Go(p, "rediscard", "unzip")
  /\ img' = "none"
  /\ UNCHANGED <<zip, json, leases, eviction>>

FetchLease(p) == leases[p] \union {"fetch"}

AdmitFetch(p) ==
  /\ lock = Nobody
  /\ Go(p, "admit", "download")
  /\ leases' = [leases EXCEPT ![p] = FetchLease(p)]
  /\ UNCHANGED <<files, json, eviction>>

\* downloadImage()
Download(p) ==
  /\ \/ Go(p, "download", "extract") /\ zip' = TRUE /\ UNCHANGED leases
     \/ ~zip /\ Fail(p, "download") /\ UNCHANGED zip
  /\ UNCHANGED <<img, json, eviction>>

\* extractImage() looks again
Extract(p) ==
  /\ \/ img = "ok" /\ Go(p, "extract", "finalize")
     \/ img # "ok" /\ Go(p, "extract", "rediscard")
  /\ UNCHANGED <<files, json, leases, eviction>>

Unzip(p) ==
  /\ \/ zip /\ Go(p, "unzip", "publish") /\ UNCHANGED leases
     \/ ~zip /\ Fail(p, "unzip")
  /\ UNCHANGED <<files, json, eviction>>

Publish(p) ==
  /\ Go(p, "publish", "finalize")
  /\ img' = "ok"
  /\ UNCHANGED <<zip, json, leases, eviction>>

\* finalizeExtractedImage(): the ZIP has served; the fetch's lease goes.
Finalize(p) ==
  /\ Go(p, "finalize", Fetched(p))
  /\ zip' = (zip /\ img = "none")
  /\ leases' = [leases EXCEPT ![p] = @ \ {"fetch"}]
  /\ UNCHANGED <<img, json, eviction>>

----------------------------------------------------------------------------
(* Building a boot disk from it *)

\* resetGuestToFactory() of a machine that is there
Reset(p) ==
  /\ json[p] = "saved"
  /\ img # "none" /\ Go(p, "idle", "build")
  /\ UNCHANGED <<files, json, leases, eviction>>

\* Seeded fault: a create releases its lease when the disk is built.
SaveUnpinned(p) == {}

SaveLeases(p) == leases[p]

Built(p) ==
  /\ Go(p, "build", IF Creating(p) THEN "save" ELSE "idle")
  /\ leases' = [leases EXCEPT ![p] = SaveLeases(p)]
  /\ UNCHANGED <<files, json, eviction>>

\* saveMachine() truncates and then fills.
Save(p) ==
  /\ json' = [json EXCEPT ![p] = IF TornSaves THEN "torn" ELSE "saved"]
  /\ \/ Go(p, "save", "saved")
     \/ json[p] = "saved" /\ Go(p, "idle", "rewrite")
  /\ UNCHANGED <<files, leases, eviction>>

Saved(p) ==
  /\ \/ Go(p, "saved", "idle") \/ Go(p, "rewrite", "idle")
  /\ json' = [json EXCEPT ![p] = "saved"]
  /\ leases' = [leases EXCEPT ![p] = {}]
  /\ UNCHANGED <<files, eviction>>

Remove(p) ==
  /\ pc[p] = "idle" /\ json' = [json EXCEPT ![p] = "none"]
  /\ UNCHANGED <<files, leases, eviction, pc>>

----------------------------------------------------------------------------
(* Eviction, under the storage lock *)

\* Seeded fault: only a download keeps its image; a create does not.
PinnedByFetch == \E q \in Proc : "fetch" \in leases[q]

Pinned == \E q \in Proc : leases[q] # {}

Prune(p) ==
  /\ lock = Nobody /\ lock' = p
  /\ Go(p, "idle", "look")
  /\ pinned' = Pinned
  /\ UNCHANGED <<files, json, leases, victims>>

\* inUseSet(): a machine.json that cannot be read is passed over.
Unused == \A q \in Proc : json[q] # "saved"

Here == (IF img = "none" THEN {} ELSE {"img"}) \union (IF zip THEN {"zip"} ELSE {})

\* The policy may choose any of the entries that are not in use.
Look(p) ==
  /\ lock = p
  /\ Go(p, "look", "evict")
  /\ victims' \in SUBSET {f \in Here : ~pinned /\ Unused}
  /\ UNCHANGED <<files, json, leases, lock, pinned>>

Evict(p) ==
  /\ lock = p /\ pc[p] = "evict"
  /\ \/ \E f \in victims :
          /\ victims' = victims \ {f}
          /\ IF f = "img" THEN img' = "none" /\ UNCHANGED zip
                          ELSE zip' = FALSE /\ UNCHANGED img
          /\ UNCHANGED <<lock, pinned, pc>>
     \/ /\ victims = {}
        /\ Go(p, "evict", "idle")
        /\ lock' = Nobody /\ pinned' = FALSE
        /\ UNCHANGED <<files, victims>>
  /\ UNCHANGED <<json, leases>>

TakenOver(p) ==
  IF lock = p THEN lock' = Nobody /\ pinned' = FALSE /\ victims' = {} ELSE UNCHANGED eviction

\* A dead process's lease is ignored, and its lock is taken over.
Crash(p) ==
  /\ MayCrash /\ Go(p, pc[p], "idle") /\ pc[p] # "idle"
  /\ leases' = [leases EXCEPT ![p] = {}]
  /\ TakenOver(p)
  /\ UNCHANGED <<files, json>>

Step(p) ==
  \/ Admit(p) \/ Add(p) \/ Usable(p) \/ Discard(p) \/ AdmitFetch(p) \/ Download(p)
  \/ Extract(p) \/ Unzip(p) \/ Publish(p) \/ Finalize(p) \/ Reset(p) \/ Built(p)
  \/ Save(p) \/ Saved(p) \/ Remove(p) \/ Prune(p) \/ Look(p) \/ Evict(p) \/ Crash(p)

Next == \E p \in Proc : Step(p)

Spec == Init /\ [][Next]_vars

----------------------------------------------------------------------------
(* Properties *)

TypeOK ==
  /\ img \in {"none", "ok", "bad"} /\ zip \in BOOLEAN
  /\ json \in [Proc -> {"none", "saved", "torn"}]
  /\ leases \in [Proc -> SUBSET {"create", "fetch"}]
  /\ lock \in Proc \union {Nobody} /\ pinned \in BOOLEAN /\ victims \subseteq {"img", "zip"}
  /\ pc \in [Proc -> PC]
  /\ \A p \in Proc : lock = p <=> pc[p] \in {"look", "evict"}
  /\ lock = Nobody => victims = {}

\* The image a disk is being built from stays, whole, until the disk is built
\* (storage-lease.ts:7-12).
ReadersKeepImage == \A p \in Proc : pc[p] = "build" => img = "ok"

\* A fetch ends without its image only when the network fails it: not because another
\* process fetched the same image (download.ts:257-261), nor because of an eviction.
UnzipFindsArchive == \A p \in Proc : pc[p] = "unzip" => zip

\* An image stays until the disk is built from it, and an archive until it is unpacked.
ImageServesItsUsers == ReadersKeepImage /\ UnzipFindsArchive

\* An eviction never takes the image of a machine, nor one a create is about to save a
\* machine for (cache.ts:6-9, 145-147).
SparesUsed ==
  img # "none" /\ img' = "none" /\ victims' # victims =>
    \A q \in Proc : json[q] = "none" /\ ~Creating(q)

\* No step of any process takes the image of such a machine away (cache.ts:6-9).
EvictsOnlyUnused == [][SparesUsed]_vars
=============================================================================
