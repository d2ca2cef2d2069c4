------------------------- MODULE MCLaunch_proofs --------------------------
(***************************************************************************)
(* The image cache, for any number of processes and machines.              *)
(*                                                                         *)
(* Two facts keep a used image: a lease is only ever added while nobody    *)
(* has the storage lock, so what an eviction read of the leases is still   *)
(* so when it deletes; and a create has a lease for as long as its         *)
(* machine.json is not there.  They need machine.json to be seen whole.    *)
(* That an image stays for its reader also needs the image to be fetched   *)
(* by one process: the run image_cache_two_fetch shows what two can do.    *)
(***************************************************************************)
EXTENDS MCLaunch, Integers, TLAPS

OneFetcher == \A p, q \in Fetchers : p = q

----------------------------------------------------------------------------
(* The invariants *)

Fetching == {"usable?", "discard", "admit", "download", "extract", "rediscard", "unzip",
             "publish", "finalize"}
Leased == {"download", "extract", "rediscard", "unzip", "publish", "finalize"}

\* Whoever has something in the cache to lose has a lease, or a machine.
LeaseInv ==
  \A p \in Proc :
    /\ pc[p] \in {"save", "saved"} => Creating(p)
    /\ pc[p] = "build" => Creating(p) \/ json[p] = "saved"
    /\ pc[p] = "rewrite" => json[p] = "saved"
    /\ pc[p] \in Leased => "fetch" \in leases[p]

\* What the eviction has read of the leases and of the machines is still so.
EvictionInv ==
  /\ lock # Nobody /\ ~pinned => \A q \in Proc : leases[q] = {}
  /\ victims # {} => lock # Nobody /\ ~pinned /\ \A q \in Proc : json[q] = "none"

WholeJson == \A p \in Proc : json[p] # "torn"

SpareInv == TypeOK /\ WholeJson /\ LeaseInv /\ EvictionInv

\* What the one fetcher finds of the image and the archive, nobody changes.
FetchInv ==
  \A p \in Proc :
    /\ pc[p] \in Fetching => p \in Fetchers
    /\ pc[p] \in {"discard", "rediscard"} => img # "ok"
    /\ pc[p] \in {"extract", "rediscard", "unzip"} => zip
    /\ pc[p] \in {"finalize", "build"} => img = "ok"
    /\ pc[p] \in {"save", "saved", "rewrite"} \/ json[p] = "saved" => img # "bad"

ReadInv == SpareInv /\ FetchInv

----------------------------------------------------------------------------
(* Types *)

LEMMA TypeInit == Init => TypeOK
BY CacheAssumption DEF Init, TypeOK, PC

LEMMA TypeStep ==
  ASSUME TypeOK, [Next]_vars
  PROVE  TypeOK'
<1> USE CacheAssumption DEF TypeOK, PC
<1>1. CASE UNCHANGED vars
  BY <1>1 DEF vars, files, eviction
<1>2. ASSUME NEW p \in Proc, Admit(p) PROVE TypeOK'
  BY <1>2 DEF Admit, Go, files, eviction
<1>3. ASSUME NEW p \in Proc, Add(p) PROVE TypeOK'
  BY <1>3 DEF Add, Go, files, eviction
<1>4. ASSUME NEW p \in Proc, Usable(p) PROVE TypeOK'
  BY <1>4 DEF Usable, Fetched, Go, files, eviction
<1>5. ASSUME NEW p \in Proc, Discard(p) PROVE TypeOK'
  BY <1>5 DEF Discard, Go, eviction
<1>6. ASSUME NEW p \in Proc, AdmitFetch(p) PROVE TypeOK'
  BY <1>6 DEF AdmitFetch, FetchLease, Go, files, eviction
<1>7. ASSUME NEW p \in Proc, Download(p) PROVE TypeOK'
  BY <1>7 DEF Download, Fail, Go, eviction
<1>8. ASSUME NEW p \in Proc, Extract(p) PROVE TypeOK'
  BY <1>8 DEF Extract, Go, files, eviction
<1>9. ASSUME NEW p \in Proc, Unzip(p) PROVE TypeOK'
  BY <1>9 DEF Unzip, Fail, Go, files, eviction
<1>10. ASSUME NEW p \in Proc, Publish(p) PROVE TypeOK'
  BY <1>10 DEF Publish, Go, eviction
<1>11. ASSUME NEW p \in Proc, Finalize(p) PROVE TypeOK'
  <2>1. zip' \in BOOLEAN
    BY <1>11, Zenon DEF Finalize
  <2> QED
    BY <1>11, <2>1 DEF Finalize, Fetched, Go, eviction
<1>12. ASSUME NEW p \in Proc, Reset(p) PROVE TypeOK'
  BY <1>12 DEF Reset, Go, files, eviction
<1>13. ASSUME NEW p \in Proc, Built(p) PROVE TypeOK'
  BY <1>13 DEF Built, SaveLeases, Go, files, eviction
<1>14. ASSUME NEW p \in Proc, Save(p) PROVE TypeOK'
  BY <1>14 DEF Save, Go, files, eviction
<1>15. ASSUME NEW p \in Proc, Saved(p) PROVE TypeOK'
  BY <1>15 DEF Saved, Go, files, eviction
<1>16. ASSUME NEW p \in Proc, Remove(p) PROVE TypeOK'
  BY <1>16 DEF Remove, files, eviction
<1>17. ASSUME NEW p \in Proc, Prune(p) PROVE TypeOK'
  <2>1. pinned' \in BOOLEAN
    BY <1>17, Zenon DEF Prune, Pinned
  <2> QED
    BY <1>17, <2>1 DEF Prune, Go, files
<1>18. ASSUME NEW p \in Proc, Look(p) PROVE TypeOK'
  BY <1>18 DEF Look, Here, Go, files
<1>19. ASSUME NEW p \in Proc, Evict(p) PROVE TypeOK'
  BY <1>19 DEF Evict, Go, files
<1>20. ASSUME NEW p \in Proc, Crash(p) PROVE TypeOK'
  BY <1>20 DEF Crash, TakenOver, Go, files, eviction
<1> QED
  BY <1>1, <1>2, <1>3, <1>4, <1>5, <1>6, <1>7, <1>8, <1>9, <1>10, <1>11, <1>12, <1>13, <1>14,
     <1>15, <1>16, <1>17, <1>18, <1>19, <1>20 DEF Next, Step

----------------------------------------------------------------------------
(* Evictions *)

LEMMA SpareInit == Init => SpareInv
<1>1. Init => LeaseInv /\ EvictionInv /\ WholeJson
  BY DEF Init, LeaseInv, EvictionInv, WholeJson, Leased
<1> QED
  BY <1>1, TypeInit DEF SpareInv

LEMMA SpareStep ==
  ASSUME TornSaves = FALSE, SpareInv, [Next]_vars
  PROVE  SpareInv'
<1> TypeOK /\ WholeJson /\ LeaseInv /\ EvictionInv /\ TypeOK'
  BY TypeStep DEF SpareInv
<1> DEFINE Goal == WholeJson' /\ LeaseInv' /\ EvictionInv'
<1> USE CacheAssumption DEF TypeOK, WholeJson, LeaseInv, EvictionInv, Creating, Leased, Go
<1>1. ASSUME UNCHANGED vars PROVE Goal
  BY <1>1 DEF vars, files, eviction
<1>2. ASSUME NEW p \in Proc, Admit(p) PROVE Goal
  BY <1>2 DEF Admit, files, eviction
<1>3. ASSUME NEW p \in Proc, Add(p) PROVE Goal
  BY <1>3 DEF Add, files, eviction
<1>4. ASSUME NEW p \in Proc, Usable(p) PROVE Goal
  BY <1>4 DEF Usable, Fetched, files, eviction
<1>5. ASSUME NEW p \in Proc, Discard(p) PROVE Goal
  BY <1>5 DEF Discard, eviction
<1>6. ASSUME NEW p \in Proc, AdmitFetch(p) PROVE Goal
  BY <1>6 DEF AdmitFetch, FetchLease, files, eviction
<1>7. ASSUME NEW p \in Proc, Download(p) PROVE Goal
  BY <1>7 DEF Download, Fail, eviction
<1>8. ASSUME NEW p \in Proc, Extract(p) PROVE Goal
  BY <1>8 DEF Extract, files, eviction
<1>9. ASSUME NEW p \in Proc, Unzip(p) PROVE Goal
  BY <1>9 DEF Unzip, Fail, files, eviction
<1>10. ASSUME NEW p \in Proc, Publish(p) PROVE Goal
  BY <1>10 DEF Publish, eviction
<1>11. ASSUME NEW p \in Proc, Finalize(p) PROVE Goal
  BY <1>11 DEF Finalize, Fetched, eviction
<1>12. ASSUME NEW p \in Proc, Reset(p) PROVE Goal
  BY <1>12 DEF Reset, files, eviction
<1>13. ASSUME NEW p \in Proc, Built(p) PROVE Goal
  BY <1>13 DEF Built, SaveLeases, files, eviction
<1>14. ASSUME NEW p \in Proc, Save(p) PROVE Goal
  BY <1>14 DEF Save, files, eviction
<1>15. ASSUME NEW p \in Proc, Saved(p) PROVE Goal
  BY <1>15 DEF Saved, files, eviction
<1>16. ASSUME NEW p \in Proc, Remove(p) PROVE Goal
  BY <1>16 DEF Remove, files, eviction
<1>17. ASSUME NEW p \in Proc, Prune(p) PROVE Goal
  BY <1>17 DEF Prune, Pinned, files
<1>18. ASSUME NEW p \in Proc, Look(p) PROVE Goal
  <2>1. UNCHANGED <<files, json, leases, lock, pinned>> /\ lock = p /\ p # Nobody
    BY <1>18 DEF Look
  <2>2. WholeJson' /\ LeaseInv'
    BY <1>18, <2>1 DEF Look, files
  <2>3. ASSUME victims' # {} PROVE ~pinned /\ Unused
    BY <1>18, <2>3 DEF Look
  <2>4. Unused => \A q \in Proc : json[q] = "none"
    BY DEF Unused
  <2> QED
    BY <2>1, <2>2, <2>3, <2>4
<1>19. ASSUME NEW p \in Proc, Evict(p) PROVE Goal
  <2>1. UNCHANGED <<json, leases>> /\ lock = p /\ p # Nobody
    BY <1>19 DEF Evict
  <2>2. WholeJson' /\ LeaseInv'
    BY <1>19, <2>1 DEF Evict
  <2>3. CASE UNCHANGED <<lock, pinned, pc>> /\ victims # {}
    BY <2>1, <2>2, <2>3
  <2>4. CASE victims = {} /\ victims' = {} /\ lock' = Nobody
    BY <2>1, <2>2, <2>4
  <2> QED
    BY <1>19, <2>3, <2>4 DEF Evict, files
<1>20. ASSUME NEW p \in Proc, Crash(p) PROVE Goal
  <2>1. UNCHANGED json /\ WholeJson' /\ LeaseInv'
    BY <1>20 DEF Crash
  <2>2. \A q \in Proc : leases[q] = {} => leases'[q] = {}
    BY <1>20 DEF Crash
  <2>3. CASE lock = p
    BY <1>20, <2>1, <2>3 DEF Crash, TakenOver
  <2>4. CASE lock # p
    BY <1>20, <2>1, <2>2, <2>4 DEF Crash, TakenOver, eviction
  <2> QED
    BY <2>3, <2>4
<1> HIDE DEF TypeOK, WholeJson, LeaseInv, EvictionInv
<1> QED
  BY <1>1, <1>2, <1>3, <1>4, <1>5, <1>6, <1>7, <1>8, <1>9, <1>10, <1>11, <1>12, <1>13, <1>14,
     <1>15, <1>16, <1>17, <1>18, <1>19, <1>20 DEF Next, Step, SpareInv

\* As long as machine.json is seen whole, no eviction takes the image of a machine, nor one
\* that a create in progress is about to save a machine for, whoever crashes.
THEOREM EvictionSpares ==
  ASSUME TornSaves = FALSE
  PROVE  Spec => EvictsOnlyUnused
<1>1. SpareInv /\ [Next]_vars => [SparesUsed]_vars
  <2> SUFFICES ASSUME SpareInv, [Next]_vars, img # "none", img' = "none", victims' # victims
               PROVE  \A q \in Proc : json[q] = "none" /\ ~Creating(q)
    BY DEF SparesUsed
  <2>1. PICK p \in Proc : Evict(p)
    BY DEF Next, Step, vars, files, eviction, Admit, Add, Usable, Discard, AdmitFetch, Download,
       Extract, Unzip, Publish, Finalize, Reset, Built, Save, Saved, Remove, Prune, Look, Crash
  <2>2. victims # {}
    BY <2>1 DEF Evict
  <2> QED
    BY <2>2 DEF SpareInv, EvictionInv, Creating
<1>2. SpareInv /\ [Next]_vars => SpareInv'
  BY SpareStep
<1> QED
  BY <1>1, <1>2, SpareInit, PTL DEF Spec, EvictsOnlyUnused

----------------------------------------------------------------------------
(* Readers *)

LEMMA FetchStep ==
  ASSUME TornSaves = FALSE, OneFetcher, ReadInv, [Next]_vars
  PROVE  FetchInv'
<1> TypeOK /\ WholeJson /\ LeaseInv /\ EvictionInv /\ FetchInv
  BY DEF ReadInv, SpareInv
<1> USE CacheAssumption DEF TypeOK, FetchInv, Fetching, Go
<1>1. CASE UNCHANGED vars
  BY <1>1 DEF vars, files, eviction
<1>2. ASSUME NEW p \in Proc, Admit(p) PROVE FetchInv'
  BY <1>2 DEF Admit, files, eviction
<1>3. ASSUME NEW p \in Proc, Add(p) PROVE FetchInv'
  BY <1>3 DEF Add, files, eviction
<1>4. ASSUME NEW p \in Proc, Usable(p) PROVE FetchInv'
  BY <1>4 DEF Usable, Fetched, files, eviction
<1>5. ASSUME NEW p \in Proc, Discard(p) PROVE FetchInv'
  BY <1>5 DEF Discard, eviction, OneFetcher
<1>6. ASSUME NEW p \in Proc, AdmitFetch(p) PROVE FetchInv'
  BY <1>6 DEF AdmitFetch, FetchLease, files, eviction
<1>7. ASSUME NEW p \in Proc, Download(p) PROVE FetchInv'
  BY <1>7 DEF Download, Fail, eviction
<1>8. ASSUME NEW p \in Proc, Extract(p) PROVE FetchInv'
  BY <1>8 DEF Extract, files, eviction
<1>9. ASSUME NEW p \in Proc, Unzip(p) PROVE FetchInv'
  BY <1>9 DEF Unzip, Fail, files, eviction
<1>10. ASSUME NEW p \in Proc, Publish(p) PROVE FetchInv'
  BY <1>10 DEF Publish, eviction, OneFetcher
<1>11. ASSUME NEW p \in Proc, Finalize(p) PROVE FetchInv'
  BY <1>11 DEF Finalize, Fetched, eviction, OneFetcher
<1>12. ASSUME NEW p \in Proc, Reset(p) PROVE FetchInv'
  BY <1>12 DEF Reset, files, eviction
<1>13. ASSUME NEW p \in Proc, Built(p) PROVE FetchInv'
  BY <1>13 DEF Built, SaveLeases, files, eviction
<1>14. ASSUME NEW p \in Proc, Save(p) PROVE FetchInv'
  BY <1>14 DEF Save, files, eviction
<1>15. ASSUME NEW p \in Proc, Saved(p) PROVE FetchInv'
  BY <1>15 DEF Saved, files, eviction
<1>16. ASSUME NEW p \in Proc, Remove(p) PROVE FetchInv'
  BY <1>16 DEF Remove, files, eviction
<1>17. ASSUME NEW p \in Proc, Prune(p) PROVE FetchInv'
  BY <1>17 DEF Prune, Pinned, files
<1>18. ASSUME NEW p \in Proc, Look(p) PROVE FetchInv'
  BY <1>18 DEF Look, Unused, files
<1>19. ASSUME NEW p \in Proc, Evict(p) PROVE FetchInv'
  <2>1. CASE victims = {}
    BY <1>19, <2>1 DEF Evict, files
  <2>2. CASE victims # {}
    <3>1. \A q \in Proc : leases[q] = {} /\ json[q] = "none"
      BY <2>2 DEF EvictionInv
    <3>2. \A q \in Proc : pc[q] \notin {"save", "saved", "build", "rewrite"} \union Leased
      BY <3>1 DEF LeaseInv, Creating
    <3> QED
      BY <1>19, <3>1, <3>2 DEF Evict, files, Leased
  <2> QED
    BY <2>1, <2>2
<1>20. ASSUME NEW p \in Proc, Crash(p) PROVE FetchInv'
  BY <1>20 DEF Crash, TakenOver, files, eviction
<1> HIDE DEF TypeOK, FetchInv
<1> QED
  BY <1>1, <1>2, <1>3, <1>4, <1>5, <1>6, <1>7, <1>8, <1>9, <1>10, <1>11, <1>12, <1>13, <1>14,
     <1>15, <1>16, <1>17, <1>18, <1>19, <1>20 DEF Next, Step

\* The image a boot disk is built from stays, whole, until the disk is built, and an archive
\* until it is unpacked, whatever evictions, resets, removals and crashes come in between, as
\* long as one process alone adds to the cache.
THEOREM ReadersServed ==
  ASSUME TornSaves = FALSE, OneFetcher
  PROVE  Spec => []ImageServesItsUsers
<1>1. Init => ReadInv
  BY SpareInit DEF Init, ReadInv, FetchInv, Fetching
<1>2. ReadInv /\ [Next]_vars => ReadInv'
  BY SpareStep, FetchStep DEF ReadInv
<1>3. ReadInv => ImageServesItsUsers
  BY DEF ReadInv, FetchInv, ImageServesItsUsers, ReadersKeepImage, UnzipFindsArchive
<1> QED
  BY <1>1, <1>2, <1>3, PTL DEF Spec

----------------------------------------------------------------------------
(* The EFI variables *)

LEMMA EfiInit == Efi!Init => Efi!IInv
BY LaunchesAssumption DEF Efi!EfiVarsAssumption, Efi!Init, Efi!IInv, Efi!Stub, Efi!Source

LEMMA EfiStep == ASSUME Efi!IInv, [Efi!Next]_(Efi!vars) PROVE Efi!IInv'
<1> USE LaunchesAssumption DEF Efi!EfiVarsAssumption, Efi!IInv, Efi!Stub, Efi!Source
<1>1. CASE UNCHANGED Efi!vars
  BY <1>1 DEF Efi!vars
<1>2. CASE Efi!Launch \/ Efi!Stage \/ Efi!SizeMatch
  BY <1>2 DEF Efi!Launch, Efi!Stage, Efi!SizeMatch
<1>3. CASE Efi!Converted \/ Efi!ConversionFailed \/ Efi!DropLegacy
  BY <1>3 DEF Efi!Converted, Efi!ConversionFailed, Efi!RemovesStub, Efi!DropLegacy
<1>4. CASE Efi!GuestWrites \/ Efi!Stop
  BY <1>4 DEF Efi!GuestWrites, Efi!Stop
<1>5. CASE Efi!Crash
  BY <1>5 DEF Efi!Crash
<1> QED
  BY <1>1, <1>2, <1>3, <1>4, <1>5 DEF Efi!Next

LEMMA EfiKept == Efi!IInv => Efi!VariablesAreKept /\ Efi!FailedIsMadeAnew
BY LaunchesAssumption
DEF Efi!EfiVarsAssumption, Efi!IInv, Efi!Stub, Efi!VariablesAreKept, Efi!FailedIsMadeAnew

----------------------------------------------------------------------------
(* The disks: format, disk, tmp, booted, running, op, at, held, crashes and *)
(* losses are v1 to v10.                                                   *)

LEMMA DrivesInit == Drives!Init => Drives!IInv
<1> SUFFICES ASSUME Drives!Init PROVE Drives!IInv
  OBVIOUS
<1> USE LaunchesAssumption DEF Drives!DisksAssumption, Drives!Disk, Drives!Boot
<1>1. /\ v2 = [d \in 0..Extras |-> "absent"] /\ v3 = "absent" /\ v4 = FALSE /\ v5 = FALSE
      /\ v6 = "none" /\ v7 = 0 /\ v8 = {}
  BY DEF Drives!Init
<1>2. v2 \in [0..Extras -> Drives!Content] /\ v2[0] = "absent" /\ 0 \in 0..(2 * Extras + 1)
  BY <1>1 DEF Drives!Content
<1>3. v6 \notin Drives!Building /\ v6 # "wipe" /\ v6 # "add" /\ ~(v7 > Extras + 1)
  BY <1>1 DEF Drives!Building
<1>4. v8 \subseteq 0..Extras /\ (\A d \in v8 : v2[d] \in {"guest", "absent"}) /\ v7 <= Extras + 1
  BY <1>1
<1> QED
  BY <1>1, <1>2, <1>3, <1>4 DEF Drives!IInv

LEMMA DrivesStep == ASSUME Drives!IInv, [Drives!Next]_(Drives!vars) PROVE Drives!IInv'
<1> USE LaunchesAssumption
    DEF Drives!DisksAssumption, Drives!IInv, Drives!Disk, Drives!Boot, Drives!Content,
        Drives!Building, Drives!Past, Drives!MayBuild, Drives!LaunchedAsLeft, Drives!Put, Drives!Fails
<1>1. CASE UNCHANGED Drives!vars
  BY <1>1 DEF Drives!vars
<1>2. CASE Drives!Begin
  BY <1>2 DEF Drives!Begin
<1>3. CASE Drives!Ensure
  <2>1. /\ v6 \in Drives!Building /\ v7 \in 0..Extras /\ v3 = "absent" /\ ~v5
        /\ UNCHANGED <<v1, v4, v5, v9, v10>>
    BY <1>3 DEF Drives!Ensure
  <2>2. CASE v2[v7] # "absent" /\ v7' = v7 + 1 /\ UNCHANGED <<v2, v3, v6, v8>>
    BY <2>1, <2>2
  <2>3. CASE Drives!Fails /\ UNCHANGED <<v2, v3, v8>>
    BY <2>1, <2>3
  <2>4. CASE Drives!MayBuild /\ v7 = 0 /\ v3' = "partial" /\ UNCHANGED <<v2, v6, v7, v8>>
    BY <2>1, <2>4
  <2>5. CASE /\ Drives!MayBuild /\ v7 # 0 /\ v2' = [v2 EXCEPT ![v7] = "partial"]
             /\ v7' = v7 + 1 + Extras /\ UNCHANGED <<v3, v6>>
             /\ v8' = IF v6 = "rebuild" THEN v8 \ {v7} ELSE v8
    <3>1. \A d \in 0..Extras : d # v7 => v2'[d] = v2[d]
      BY <2>1, <2>5
    <3>2. v7 \notin v8' /\ v8' \subseteq v8
      BY <2>1, <2>5
    <3> QED
      BY <2>1, <2>5, <3>1, <3>2
  <2> QED
    BY <1>3, <2>1, <2>2, <2>3, <2>4, <2>5 DEF Drives!Ensure
<1>4. CASE Drives!Convert
  BY <1>4 DEF Drives!Convert
<1>5. CASE Drives!Rename
  BY <1>5 DEF Drives!Rename, Drives!Placed
<1>6. CASE Drives!BuildFails
  BY <1>6 DEF Drives!BuildFails
<1>7. CASE Drives!Created
  <2>1. /\ v6 \in Drives!Building /\ v7 > Extras + 1 /\ v7 \in 0..(2 * Extras + 1) /\ v3 = "absent"
        /\ v2' = [v2 EXCEPT ![v7 - Extras - 1] = "factory"] /\ v7' = v7 - Extras
        /\ UNCHANGED <<v1, v3, v4, v5, v6, v8, v9, v10>> /\ ~v5
    BY <1>7 DEF Drives!Created
  <2> DEFINE d == v7 - Extras - 1
  <2>2. d \in 1..Extras /\ v7' = d + 1 /\ d \notin v8 /\ \A e \in 0..Extras : e < d => v2[e] # "absent"
    BY <2>1
  <2>3. v2'[d] = "factory" /\ \A e \in 0..Extras : e # d => v2'[e] = v2[e]
    BY <2>1, <2>2
  <2> HIDE DEF d
  <2>4. v2' \in [0..Extras -> {"absent", "partial", "factory", "guest"}] /\ v2'[0] # "partial"
    BY <2>1, <2>2, <2>3 DEF d
  <2>5. v7' \in 0..(2 * Extras + 1) /\ v7' <= Extras + 1
        /\ \A e \in 0..Extras : e < v7' => v2'[e] # "absent"
    BY <2>2, <2>3
  <2>6. \A e \in v8' : v2'[e] \in {"guest", "absent"}
    BY <2>1, <2>2, <2>3
  <2> QED
    BY <2>1, <2>4, <2>5, <2>6, SMTT(30)
<1>8. CASE Drives!Wipe
  <2>1. v6 = "wipe" /\ v3 = "absent" /\ ~v5 /\ UNCHANGED <<v1, v3, v4, v5, v9, v10>>
    BY <1>8 DEF Drives!Wipe
  <2>2. CASE /\ v7 = 0 /\ v2' \in {v2, [v2 EXCEPT ![0] = "absent"]}
             /\ v7' = 1 /\ v6' = v6 /\ v8' = v8 \ {0}
    BY <2>1, <2>2
  <2>3. CASE /\ v7 \in 1..Extras /\ v2' = [v2 EXCEPT ![v7] = "absent"]
             /\ v7' = v7 + 1 /\ v6' = v6 /\ v8' = v8 \ {v7}
    BY <2>1, <2>3
  <2>4. CASE v6' = "rebuild" /\ v7' = 0 /\ UNCHANGED <<v2, v8>>
    BY <2>1, <2>4
  <2> QED
    BY <1>8, <2>2, <2>3, <2>4 DEF Drives!Wipe
<1>9. CASE Drives!Finish
  <2>1. /\ v6 \in Drives!Building /\ v7 = Extras + 1 /\ v3 = "absent" /\ v6' = "none" /\ v7' = 0
        /\ UNCHANGED <<v1, v2, v3, v9, v10>> /\ ~v5
    BY <1>9 DEF Drives!Finish
  <2>2. \A d \in 0..Extras : v2[d] # "absent"
    BY <2>1
  <2>3. CASE v6 = "add"
    BY <1>9, <2>1, <2>3 DEF Drives!Finish
  <2>4. CASE v6 = "start"
    BY <1>9, <2>1, <2>2, <2>4 DEF Drives!Finish
  <2>5. CASE v6 = "rebuild"
    BY <1>9, <2>1, <2>5 DEF Drives!Finish
  <2> QED
    BY <2>1, <2>3, <2>4, <2>5
<1>10. CASE Drives!GuestWrites
  BY <1>10 DEF Drives!GuestWrites
<1>11. CASE Drives!Stop
  BY <1>11 DEF Drives!Stop
<1>12. CASE Drives!Crash
  BY <1>12 DEF Drives!Crash
<1>13. CASE Drives!Lose
  BY <1>13 DEF Drives!Lose
<1> QED
  BY <1>1, <1>2, <1>3, <1>4, <1>5, <1>6, <1>7, <1>8, <1>9, <1>10, <1>11, <1>12, <1>13
  DEF Drives!Next

\* A launched guest has a whole boot disk and its data on every disk it wrote to, and the EFI
\* variables it last wrote, for any number of extra disks, writes, crashes and lost files.
THEOREM NothingIsReset == Launches => []LaunchedAsLeft
<1> DEFINE Inv == (plays = "disks" => Drives!IInv) /\ (plays = "efi" => Efi!IInv)
<1>1. LaunchInit => Inv
  BY DrivesInit, EfiInit DEF LaunchInit
<1>2. Inv /\ [LaunchNext]_all => Inv'
  <2>1. ASSUME Inv, [LaunchNext]_all, plays' = "disks"
        PROVE  plays = "disks" /\ [Drives!Next]_(Drives!vars)
    BY <2>1 DEF LaunchNext, Plays, all, caches, slots, Drives!vars
  <2>2. ASSUME Inv, [LaunchNext]_all, plays' = "efi"
        PROVE  plays = "efi" /\ [Efi!Next]_(Efi!vars)
    BY <2>2 DEF LaunchNext, Plays, all, caches, slots, Efi!vars
  <2> QED
    BY <2>1, <2>2, DrivesStep, EfiStep
<1>3. Inv => LaunchedAsLeft
  BY EfiKept DEF LaunchedAsLeft, Drives!IInv, Drives!LaunchedAsLeft
<1> QED
  BY <1>1, <1>2, <1>3, PTL DEF Launches

----------------------------------------------------------------------------
(* The packages *)

OneInstaller == \A p, q \in Installers : p = q

LEMMA PackagesInit == Packages!Init => Packages!IInv
<1> USE CachesAssumption
    DEF Packages!PackagesAssumption, Packages!Init, Packages!Nobody, Packages!PC, Packages!Installing
<1>1. Packages!Init => Packages!TypeOK
  BY DEF Packages!TypeOK
<1>2. Packages!Init => Packages!LeaseInv
  BY DEF Packages!LeaseInv
<1>3. Packages!Init => Packages!ReadersSeeEveryPackage /\ Packages!NothingTakenWhileMade
  BY DEF Packages!ReadersSeeEveryPackage, Packages!NothingTakenWhileMade
<1> QED
  BY <1>1, <1>2, <1>3 DEF Packages!IInv

LEMMA PackagesTyped == ASSUME Packages!TypeOK, [Packages!Next]_(Packages!vars) PROVE Packages!TypeOK'
<1> USE CachesAssumption
    DEF Packages!PackagesAssumption, Packages!TypeOK, Packages!PC, Packages!Nobody, Packages!Go,
        Packages!cache, Packages!machines, Packages!eviction
<1>1. CASE UNCHANGED Packages!vars
  BY <1>1 DEF Packages!vars
<1>2. ASSUME NEW p \in Proc, Packages!Boot(p) PROVE Packages!TypeOK'
  BY <1>2 DEF Packages!Boot
<1>3. ASSUME NEW p \in Proc, Packages!Begin(p) PROVE Packages!TypeOK'
  BY <1>3 DEF Packages!Begin
<1>4. ASSUME NEW p \in Proc, Packages!Uploaded(p) PROVE Packages!TypeOK'
  BY <1>4 DEF Packages!Uploaded, Packages!End
<1>5. ASSUME NEW p \in Proc, Packages!Look(p) PROVE Packages!TypeOK'
  BY <1>5 DEF Packages!Look, Packages!Return, Packages!Complete
<1>6. ASSUME NEW p \in Proc, Packages!Admit(p) PROVE Packages!TypeOK'
  BY <1>6 DEF Packages!Admit, Packages!FetchPin
<1>7. ASSUME NEW p \in Proc, Packages!Download(p) PROVE Packages!TypeOK'
  <2>1. archive' \in BOOLEAN /\ UNCHANGED <<extracted, wants, unseen, pruner, kept>>
    BY <1>7 DEF Packages!Download
  <2>2. /\ at[p] = "download" /\ at' \in [Proc -> Packages!PC]
        /\ \A q \in Proc : at'[q] = at[q] \/ (q = p /\ at'[q] \in {"extract", "idle"})
    BY <1>7 DEF Packages!Download, Packages!End
  <2>3. pins' \in [Proc -> SUBSET {"pin", "fetch"}]
    BY <1>7 DEF Packages!Download, Packages!End
  <2> QED
    BY <2>1, <2>2, <2>3
<1>8. ASSUME NEW p \in Proc, Packages!Extract(p) PROVE Packages!TypeOK'
  BY <1>8 DEF Packages!Extract, Packages!End
<1>9. ASSUME NEW p \in Proc, Packages!Clear(p) PROVE Packages!TypeOK'
  BY <1>9 DEF Packages!Clear, Packages!Removed
<1>10. ASSUME NEW p \in Proc, Packages!Publish(p) PROVE Packages!TypeOK'
  BY <1>10 DEF Packages!Publish, Packages!End
<1>11. ASSUME NEW p \in Proc, Packages!Verify(p) PROVE Packages!TypeOK'
  BY <1>11 DEF Packages!Verify, Packages!End, Packages!Return, Packages!Complete
<1>12. ASSUME NEW p \in Proc, Packages!Prune(p) PROVE Packages!TypeOK'
  BY <1>12 DEF Packages!Prune
<1>13. ASSUME NEW p \in Proc, Packages!Inspect(p) PROVE Packages!TypeOK'
  BY <1>13 DEF Packages!Inspect, Packages!Unused
<1>14. ASSUME NEW p \in Proc, Packages!Evict(p) PROVE Packages!TypeOK'
  BY <1>14 DEF Packages!Evict, Packages!Removed
<1>15. ASSUME NEW p \in Proc, Packages!Forget(p) PROVE Packages!TypeOK'
  BY <1>15 DEF Packages!Forget
<1>16. ASSUME NEW p \in Proc, Packages!Crash(p) PROVE Packages!TypeOK'
  BY <1>16 DEF Packages!Crash, Packages!TakenOver
<1> QED
  BY <1>1, <1>2, <1>3, <1>4, <1>5, <1>6, <1>7, <1>8, <1>9, <1>10, <1>11,
     <1>12, <1>13, <1>14, <1>15, <1>16
  DEF Packages!Next

LEMMA PackagesStep ==
  ASSUME OneInstaller, Packages!IInv, [Packages!Next]_(Packages!vars)
  PROVE  Packages!IInv'
<1> DEFINE Rest ==
      Packages!LeaseInv /\ Packages!ReadersSeeEveryPackage /\ Packages!NothingTakenWhileMade
<1> Packages!TypeOK /\ Packages!TypeOK' /\ Rest
  BY PackagesTyped DEF Packages!IInv
<1> USE CachesAssumption
    DEF Packages!PackagesAssumption, Packages!TypeOK, Packages!PC, Packages!Nobody, Packages!Go,
        Packages!cache, Packages!machines, Packages!eviction, Packages!Installing,
        Packages!LeaseInv, Packages!ReadersSeeEveryPackage, Packages!NothingTakenWhileMade,
        OneInstaller
<1>1. ASSUME UNCHANGED Packages!vars PROVE Rest'
  BY <1>1 DEF Packages!vars
<1>2. ASSUME NEW p \in Proc, Packages!Boot(p) PROVE Rest'
  BY <1>2 DEF Packages!Boot
<1>3. ASSUME NEW p \in Proc, Packages!Begin(p) PROVE Rest'
  BY <1>3 DEF Packages!Begin
<1>4. ASSUME NEW p \in Proc, Packages!Uploaded(p) PROVE Rest'
  BY <1>4 DEF Packages!Uploaded, Packages!End
<1>5. ASSUME NEW p \in Proc, Packages!Look(p) PROVE Rest'
  BY <1>5 DEF Packages!Look, Packages!Return, Packages!Complete
<1>6. ASSUME NEW p \in Proc, Packages!Admit(p) PROVE Rest'
  BY <1>6 DEF Packages!Admit, Packages!FetchPin
<1>7. ASSUME NEW p \in Proc, Packages!Download(p) PROVE Rest'
  BY <1>7 DEF Packages!Download, Packages!End
<1>8. ASSUME NEW p \in Proc, Packages!Extract(p) PROVE Rest'
  BY <1>8 DEF Packages!Extract, Packages!End
<1>9. ASSUME NEW p \in Proc, Packages!Clear(p) PROVE Rest'
  BY <1>9 DEF Packages!Clear, Packages!Removed
<1>10. ASSUME NEW p \in Proc, Packages!Publish(p) PROVE Rest'
  BY <1>10 DEF Packages!Publish, Packages!End
<1>11. ASSUME NEW p \in Proc, Packages!Verify(p) PROVE Rest'
  BY <1>11 DEF Packages!Verify, Packages!End, Packages!Return, Packages!Complete
<1>12. ASSUME NEW p \in Proc, Packages!Prune(p) PROVE Rest'
  BY <1>12 DEF Packages!Prune
<1>13. ASSUME NEW p \in Proc, Packages!Inspect(p) PROVE Rest'
  <2>1. /\ pruner = p /\ at[p] = "look" /\ at' = [at EXCEPT ![p] = "evict"] /\ unseen' = {}
        /\ UNCHANGED <<archive, extracted, wants, pins, pruner>>
        /\ (kept' = FALSE => kept = FALSE /\ wants = {})
    BY <1>13, Zenon DEF Packages!Inspect, Packages!Unused, Packages!Go, Packages!cache
  <2>2. kept' \in BOOLEAN
    OBVIOUS
  <2>3. \A q \in Proc : q # p => at[q] \notin {"look", "evict"}
    BY <2>1
  <2> QED
    BY <2>1, <2>2, <2>3
<1>14. ASSUME NEW p \in Proc, Packages!Evict(p) PROVE Rest'
  BY <1>14 DEF Packages!Evict, Packages!Removed
<1>15. ASSUME NEW p \in Proc, Packages!Forget(p) PROVE Rest'
  BY <1>15 DEF Packages!Forget
<1>16. ASSUME NEW p \in Proc, Packages!Crash(p) PROVE Rest'
  BY <1>16 DEF Packages!Crash, Packages!TakenOver
<1>17. Rest'
  BY <1>1, <1>2, <1>3, <1>4, <1>5, <1>6, <1>7, <1>8, <1>9, <1>10, <1>11,
     <1>12, <1>13, <1>14, <1>15, <1>16
  DEF Packages!Next
<1> QED
  BY <1>17 DEF Packages!IInv

\* What one process extracts, verifies and uploads of the packages stays there until it is
\* done, whatever the others evict, whoever dies, for any number of processes.
THEOREM PackagesServed == ASSUME OneInstaller PROVE Launches => []PackagesServeTheirUsers
<1> DEFINE Inv == plays = "caches" => Packages!IInv
<1>1. LaunchInit => Inv
  BY PackagesInit DEF LaunchInit, BothInit
<1>2. Inv /\ [LaunchNext]_all => Inv'
  <2>1. ASSUME Inv, [LaunchNext]_all, plays' = "caches"
        PROVE  plays = "caches" /\ [Packages!Next]_(Packages!vars)
    BY <2>1 DEF LaunchNext, BothNext, Plays, all, caches, packages, Packages!vars, Packages!cache,
       Packages!machines, Packages!eviction
  <2> QED
    BY <2>1, PackagesStep
<1>3. Inv => PackagesServeTheirUsers
  BY DEF PackagesServeTheirUsers, Packages!IInv
<1> QED
  BY <1>1, <1>2, <1>3, PTL DEF Launches

----------------------------------------------------------------------------
(* The accelerator: file, kvm, changes, qemu, frozen, lastAccel and at are v1 to v7. *)

LEMMA AcceleratorIsNamed ==
  ASSUME NEW p \in Users, v1 \in FileMode \union {Nil}
  PROVE  Qemu!detectAccel(p) \in Qemu!Named \ {Nil}
<1>1. Qemu!Detected \in Qemu!Accel
  BY DEF Qemu!Detected, Qemu!Accel
<1>2. Qemu!resolveAccelOverride(p) \in Qemu!Named \ {Nil}
  BY LaunchesAssumption DEF Qemu!LaunchAssumption, Qemu!resolveAccelOverride, Qemu!Named
<1> QED
  BY <1>1, <1>2, LaunchesAssumption DEF Qemu!LaunchAssumption, Qemu!detectAccel, Qemu!Named

LEMMA QemuInit == Qemu!Init => Qemu!IInv
BY DEF Qemu!Init, Qemu!IInv, Qemu!RecordFits

\* An operation is alone, so a step of it has only itself to look after.
LEMMA Alone ==
  ASSUME Qemu!IInv, NEW p \in Users, Qemu!LockFree \/ v7[p] # Qemu!Idle, Qemu!RecordFits',
         NEW o \in Qemu!Operation \union {Qemu!Idle}, v7' = [v7 EXCEPT ![p] = o],
         o # Qemu!Idle => /\ o.do = "starting" => v4' = Nil
                          /\ o.do \in {"booting", "resuming", "cycling", "cycled"} => v4' # Nil
                          /\ o.do \in {"booting", "resuming"} => ~v5'
                          /\ o.do = "booting" \/ (o.do = "resuming" /\ o.how = "frozen")
                             => v4'.accel = o.accel
  PROVE  Qemu!IInv'
<1>1. \A q \in Users : q # p => v7[q] = Qemu!Idle
  BY DEF Qemu!IInv, Qemu!LockFree
<1>2. v7' \in [Users -> Qemu!Operation \union {Qemu!Idle}]
  BY DEF Qemu!IInv
<1>3. v7'[p] = o /\ \A q \in Users : q # p => v7'[q] = Qemu!Idle
  BY <1>1 DEF Qemu!IInv
<1>4. \A q \in Users : v7'[q] # Qemu!Idle => q = p
  BY <1>3
<1>5. Qemu!Idle' = Qemu!Idle /\ Qemu!Operation' = Qemu!Operation
  BY DEF Qemu!Idle, Qemu!Operation, Qemu!Named, Qemu!Accel
<1> QED
  BY <1>2, <1>3, <1>4, <1>5 DEF Qemu!IInv, Qemu!Fits

LEMMA QemuStep == ASSUME Qemu!IInv, [Qemu!Next]_(Qemu!vars) PROVE Qemu!IInv'
<1> Nil \notin Qemu!Launched
  BY LaunchesAssumption DEF Qemu!LaunchAssumption
<1> Qemu!RecordFits
  BY DEF Qemu!IInv
<1>9. \A p \in Users : v7[p] # Qemu!Idle => v7[p] \in Qemu!Operation /\ Qemu!Fits(v7[p])
  BY DEF Qemu!IInv
<1>10. ASSUME UNCHANGED <<v4, v5, v7>>, Qemu!RecordFits' PROVE Qemu!IInv'
  BY <1>10 DEF Qemu!IInv, Qemu!Fits, Qemu!Idle, Qemu!Operation, Qemu!Named, Qemu!Accel
<1>1. CASE UNCHANGED Qemu!vars
  BY <1>1, <1>10 DEF Qemu!vars, Qemu!RecordFits
<1>2. ASSUME NEW p \in Users, NEW how \in {"wait", "nowait", "frozen"}, Qemu!Start(p, how)
      PROVE  Qemu!IInv'
  <2> DEFINE o == Qemu!At("starting", Qemu!detectAccel(p), how)
  <2>1. o \in Qemu!Operation /\ o.do = "starting"
    BY AcceleratorIsNamed DEF Qemu!Operation, Qemu!At, Qemu!RecordFits
  <2>2. Qemu!LockFree /\ v7' = [v7 EXCEPT ![p] = o] /\ v4' = Nil /\ Qemu!RecordFits'
    BY <1>2 DEF Qemu!Start, Qemu!Go, Qemu!RecordFits
  <2> HIDE DEF o
  <2> QED
    BY <2>1, <2>2, Alone
<1>3. ASSUME NEW p \in Users, Qemu!Spawn(p) PROVE Qemu!IInv'
  <2> DEFINE o == IF v7[p].how = "wait" THEN Qemu!At("booting", v7[p].accel, "wait") ELSE Qemu!Idle
  <2>1. v7[p] # Qemu!Idle /\ v7[p] \in Qemu!Operation /\ Qemu!Fits(v7[p])
    BY <1>3, <1>9 DEF Qemu!Spawn, Qemu!Idle
  <2>2. v4' = [accel |-> v7[p].accel, paused |-> v7[p].how = "frozen", booted |-> FALSE]
    BY <1>3, <2>1 DEF Qemu!Spawn, Qemu!buildQemuArgs, Qemu!Operation
  <2>3. v4' \in Qemu!Launched /\ v4'.accel = v7[p].accel
    BY <2>1, <2>2 DEF Qemu!Launched, Qemu!Operation
  <2>4. /\ v7' = [v7 EXCEPT ![p] = o] /\ v5' = (v7[p].how = "frozen")
        /\ v6' = (IF v7[p].how = "frozen" THEN v7[p].accel ELSE v6) /\ UNCHANGED v1
    BY <1>3 DEF Qemu!Spawn, Qemu!Go, Qemu!End
  <2>5. Qemu!RecordFits'
    BY <2>1, <2>3, <2>4 DEF Qemu!RecordFits, Qemu!Operation
  <2>6. /\ o \in Qemu!Operation \union {Qemu!Idle}
        /\ o # Qemu!Idle => o.do = "booting" /\ o.accel = v7[p].accel /\ ~v5'
    BY <2>1, <2>4 DEF Qemu!Operation, Qemu!At
  <2> HIDE DEF o
  <2> QED
    BY <2>1, <2>3, <2>4, <2>5, <2>6, Alone
<1>4. ASSUME NEW p \in Users, Qemu!Respawn(p) PROVE Qemu!IInv'
  <2> DEFINE o == Qemu!At("booting", v7[p].accel, "last")
  <2>1. v7[p] # Qemu!Idle /\ v7[p] \in Qemu!Operation /\ Qemu!Fits(v7[p]) /\ v7[p].do = "booting"
    BY <1>4, <1>9 DEF Qemu!Respawn, Qemu!Idle
  <2>2. v4' = [v4 EXCEPT !.booted = FALSE] /\ v7' = [v7 EXCEPT ![p] = o] /\ UNCHANGED <<v1, v5, v6>>
    BY <1>4 DEF Qemu!Respawn, Qemu!Go
  <2>3. v4 \in Qemu!Launched /\ v4' \in Qemu!Launched /\ v4'.accel = v7[p].accel /\ ~v5
    BY <2>1, <2>2 DEF Qemu!Launched, Qemu!RecordFits, Qemu!Fits
  <2>4. o \in Qemu!Operation /\ o.do = "booting" /\ o.accel = v7[p].accel
    BY <2>1 DEF Qemu!Operation, Qemu!At
  <2>5. Qemu!RecordFits'
    BY <2>2, <2>3 DEF Qemu!RecordFits
  <2> HIDE DEF o
  <2> QED
    BY <2>1, <2>2, <2>3, <2>4, <2>5, Alone
<1>5. ASSUME NEW p \in Users, Qemu!Booted(p) PROVE Qemu!IInv'
  <2>1. v7[p] # Qemu!Idle /\ v7[p] \in Qemu!Operation /\ Qemu!Fits(v7[p])
    BY <1>5, <1>9 DEF Qemu!Booted, Qemu!Idle
  <2>2. v7' = [v7 EXCEPT ![p] = Qemu!Idle] /\ UNCHANGED <<v1, v5>>
    BY <1>5 DEF Qemu!Booted, Qemu!End
  <2>3. ASSUME v4' = [v4 EXCEPT !.booted = TRUE] /\ v7[p].do = "booting" /\ v6' = v7[p].accel
        PROVE  Qemu!RecordFits'
    <3>1. v4 \in Qemu!Launched /\ v4' \in Qemu!Launched /\ ~v5
      BY <2>1, <2>3 DEF Qemu!Launched, Qemu!RecordFits, Qemu!Fits
    <3> QED
      BY <2>1, <2>2, <2>3, <3>1 DEF Qemu!RecordFits, Qemu!Operation
  <2>4. ASSUME v4' = [v4 EXCEPT !.booted = TRUE] /\ UNCHANGED v6
        PROVE  Qemu!RecordFits'
    <3>1. v7[p].do \in {"booting", "resuming", "cycled"}
      BY <1>5 DEF Qemu!Booted
    <3>2. v4 \in Qemu!Launched
      BY <2>1, <3>1 DEF Qemu!RecordFits, Qemu!Fits
    <3>3. v4' \in Qemu!Launched /\ v4'.accel = v4.accel
      BY <2>4, <3>2 DEF Qemu!Launched
    <3> QED
      BY <2>2, <2>4, <3>2, <3>3 DEF Qemu!RecordFits
  <2>5. ASSUME v4' \in {v4, Nil} /\ UNCHANGED v6
        PROVE  Qemu!RecordFits'
    BY <2>2, <2>5 DEF Qemu!RecordFits
  <2>6. Qemu!RecordFits'
    BY <1>5, <2>3, <2>4, <2>5 DEF Qemu!Booted
  <2> QED
    BY <2>1, <2>2, <2>6, Alone
<1>6. ASSUME NEW p \in Users, NEW wait \in BOOLEAN, Qemu!Continue(p, wait) PROVE Qemu!IInv'
  <2>1. /\ Qemu!LockFree /\ v4 # Nil /\ v4' = [v4 EXCEPT !.paused = FALSE] /\ v5' = FALSE
        /\ UNCHANGED <<v1, v6>>
    BY <1>6 DEF Qemu!Continue
  <2>2. v4 \in Qemu!Launched /\ v4' \in Qemu!Launched /\ v4'.accel = v4.accel
    BY <2>1 DEF Qemu!Launched, Qemu!RecordFits
  <2>3. Qemu!RecordFits'
    BY <2>1, <2>2 DEF Qemu!RecordFits
  <2>4. CASE UNCHANGED v7
    <3>1. \A q \in Users : v7[q] = Qemu!Idle
      BY <2>1 DEF Qemu!LockFree
    <3>2. v7' = [v7 EXCEPT ![p] = Qemu!Idle]
      BY <2>4, <3>1 DEF Qemu!IInv
    <3> QED
      BY <2>1, <2>3, <3>2, Alone
  <2>5. CASE v7' = [v7 EXCEPT ![p] = Qemu!At("resuming", Qemu!ResumeAccel(p), IF v5 THEN "frozen" ELSE "wait")]
    <3> DEFINE o == Qemu!At("resuming", Qemu!ResumeAccel(p), IF v5 THEN "frozen" ELSE "wait")
    <3>1. Qemu!ResumeAccel(p) \in Qemu!Named \ {Nil} /\ (v5 => Qemu!ResumeAccel(p) = v4.accel)
      BY <2>1, AcceleratorIsNamed DEF Qemu!ResumeAccel, Qemu!RecordFits
    <3>2. o \in Qemu!Operation /\ o.do = "resuming" /\ (o.how = "frozen" => o.accel = v4.accel)
      BY <3>1 DEF Qemu!Operation, Qemu!At
    <3> HIDE DEF o
    <3> QED
      BY <2>1, <2>2, <2>3, <2>5, <3>2, Alone, LaunchesAssumption DEF o
  <2> QED
    BY <1>6, <2>4, <2>5 DEF Qemu!Continue, Qemu!Go
<1>7. ASSUME NEW p \in Users, Qemu!BeginCycle(p) PROVE Qemu!IInv'
  <2> DEFINE o == Qemu!At("cycling", Qemu!detectAccel(p), "wait")
  <2>1. o \in Qemu!Operation /\ o.do = "cycling"
    BY AcceleratorIsNamed DEF Qemu!Operation, Qemu!At, Qemu!RecordFits
  <2>2. Qemu!LockFree /\ v7' = [v7 EXCEPT ![p] = o] /\ v4' # Nil /\ Qemu!RecordFits'
    BY <1>7 DEF Qemu!BeginCycle, Qemu!Go, Qemu!RecordFits
  <2> HIDE DEF o
  <2> QED
    BY <2>1, <2>2, Alone
<1>8. ASSUME NEW p \in Users, Qemu!hardRebootMachine(p) PROVE Qemu!IInv'
  <2>1. v7[p] # Qemu!Idle /\ v7[p] \in Qemu!Operation
    BY <1>8, <1>9 DEF Qemu!hardRebootMachine, Qemu!Idle
  <2>2. CASE v4' = Nil /\ v7' = [v7 EXCEPT ![p] = Qemu!Idle] /\ UNCHANGED <<v1, v5, v6>>
    <3>1. Qemu!RecordFits'
      BY <2>2 DEF Qemu!RecordFits
    <3> QED
      BY <2>1, <2>2, <3>1, Alone
  <2>3. CASE /\ v4' = [accel |-> Qemu!detectAccel(p), paused |-> FALSE, booted |-> FALSE]
             /\ v5' = FALSE /\ v7' = [v7 EXCEPT ![p] = Qemu!At("cycled", v7[p].accel, "wait")]
             /\ UNCHANGED <<v1, v6>>
    <3> DEFINE o == Qemu!At("cycled", v7[p].accel, "wait")
    <3>1. v4' \in Qemu!Launched
      BY <2>3, AcceleratorIsNamed DEF Qemu!Launched, Qemu!RecordFits
    <3>2. Qemu!RecordFits'
      BY <2>3, <3>1 DEF Qemu!RecordFits
    <3>3. o \in Qemu!Operation /\ o.do = "cycled"
      BY <2>1 DEF Qemu!Operation, Qemu!At
    <3> HIDE DEF o
    <3> QED
      BY <2>1, <2>3, <3>1, <3>2, <3>3, Alone DEF o
  <2> QED
    BY <1>8, <2>2, <2>3
    DEF Qemu!hardRebootMachine, Qemu!End, Qemu!Go, Qemu!buildQemuArgs, Qemu!buildLaunchConfigFromState
<1>11. CASE Qemu!Pause \/ Qemu!Stop
  <2>1. /\ v4 # Nil /\ UNCHANGED <<v1, v6, v7>> /\ \A q \in Users : v7[q] = Qemu!Idle
        /\ \/ v4' = [v4 EXCEPT !.paused = TRUE] /\ UNCHANGED v5
           \/ v4' = Nil /\ v5' = FALSE
    BY <1>11 DEF Qemu!Pause, Qemu!Stop, Qemu!LockFree
  <2>2. ASSUME v4' = [v4 EXCEPT !.paused = TRUE], UNCHANGED v5 PROVE Qemu!RecordFits'
    <3>1. v4' \in Qemu!Launched /\ v4'.accel = v4.accel
      BY <2>1, <2>2 DEF Qemu!Launched, Qemu!RecordFits
    <3> QED
      BY <2>1, <2>2, <3>1 DEF Qemu!RecordFits
  <2>3. Qemu!RecordFits'
    BY <2>1, <2>2 DEF Qemu!RecordFits
  <2> QED
    BY <2>1, <2>3 DEF Qemu!IInv, Qemu!Idle, Qemu!Operation, Qemu!Named, Qemu!Accel
<1>12. CASE Qemu!Change
  BY <1>12, <1>10 DEF Qemu!Change, Qemu!RecordFits
<1> QED
  BY <1>1, <1>2, <1>3, <1>4, <1>5, <1>6, <1>7, <1>8, <1>11, <1>12 DEF Qemu!Next

\* Whoever waits for a boot waits as long as the accelerator of the running QEMU needs, for
\* any host, any overrides of any processes, and any changes of the settings and the host.
THEOREM WaitsFit == Launches => []WaitFitsTheLaunch
<1> DEFINE Inv == plays = "qemu" => Qemu!IInv
<1>1. LaunchInit => Inv
  BY QemuInit DEF LaunchInit
<1>2. Inv /\ [LaunchNext]_all => Inv'
  <2>1. ASSUME Inv, [LaunchNext]_all, plays' = "qemu"
        PROVE  plays = "qemu" /\ [Qemu!Next]_(Qemu!vars)
    BY <2>1 DEF LaunchNext, Plays, all, caches, slots, Qemu!vars
  <2> QED
    BY <2>1, QemuStep
<1>3. Inv => WaitFitsTheLaunch
  <2>1. ASSUME Qemu!IInv, NEW p \in Users,
               v7[p].do = "booting" \/ (v7[p].do = "resuming" /\ v7[p].how = "frozen")
        PROVE  v4 # Nil /\ v4.accel = v7[p].accel
    BY <2>1 DEF Qemu!IInv, Qemu!Fits, Qemu!Idle
  <2> QED
    BY <2>1 DEF WaitFitsTheLaunch, Qemu!WaitFitsTheLaunch, Qemu!Budget
<1> QED
  BY <1>1, <1>2, <1>3, PTL DEF Launches

----------------------------------------------------------------------------
(* The named sockets, from the proofs of their registry *)

Links == INSTANCE SocketRegistry_proofs WITH
  Proc <- Joiners,
  scene <- v1, reg <- v2, cache <- v3, creating <- v4, vm <- v5, by <- v6, todo <- v7,
  net <- v8, starts <- v9, creates <- v10

LEMMA RegistryIsSound == Links!RegistryAssumption
BY LaunchesAssumption
DEF Sockets!RegistryAssumption, Links!RegistryAssumption, Sockets!Nobody, Links!Nobody,
    Sockets!Scene, Links!Scene, Sockets!Pair, Links!Pair

LEMMA SameInit == Sockets!Init => Links!Init
BY DEF Sockets!Init, Links!Init, Sockets!NoLink, Links!NoLink, Sockets!NoCreate, Links!NoCreate,
       Sockets!NoNet, Links!NoNet, Sockets!Nobody, Links!Nobody

LEMMA SameNext == Sockets!Next => Links!Next
BY ZenonT(60)
DEF Sockets!Nobody, Links!Nobody, Sockets!Pair, Links!Pair, Sockets!Mode, Links!Mode,
    Sockets!shared, Links!shared, Sockets!machines, Links!machines, Sockets!vars, Links!vars,
    Sockets!NoLink, Links!NoLink, Sockets!NoCreate, Links!NoCreate, Sockets!NoNet,
    Links!NoNet, Sockets!Entry, Links!Entry, Sockets!Uses, Links!Uses, Sockets!DefaultMode,
    Links!DefaultMode, Sockets!May, Links!May, Sockets!EndOf, Links!EndOf, Sockets!EndName,
    Links!EndName, Sockets!Full, Links!Full, Sockets!Claimed, Links!Claimed, Sockets!Left,
    Links!Left, Sockets!Reload, Links!Reload, Sockets!Known, Links!Known, Sockets!Write,
    Links!Write, Sockets!CachedPorts, Links!CachedPorts, Sockets!PortsInUse, Links!PortsInUse,
    Sockets!NextPort, Links!NextPort, Sockets!Busy, Links!Busy, Sockets!EntryFree,
    Links!EntryFree, Sockets!Allocate, Links!Allocate, Sockets!SaveCreated, Links!SaveCreated,
    Sockets!On, Links!On, Sockets!Create, Links!Create, Sockets!Removable, Links!Removable,
    Sockets!Remove, Links!Remove, Sockets!Goes, Links!Goes, Sockets!Holding, Links!Holding,
    Sockets!LookUp, Links!LookUp, Sockets!Start, Links!Start, Sockets!RefusedForRoom,
    Links!RefusedForRoom, Sockets!Release, Links!Release, Sockets!Fail, Links!Fail,
    Sockets!Join, Links!Join, Sockets!TimeOut, Links!TimeOut, Sockets!Resolve, Links!Resolve,
    Sockets!Spawn, Links!Spawn, Sockets!SpawnFails, Links!SpawnFails, Sockets!Stop,
    Links!Stop, Sockets!Exhausted, Links!Exhausted, Sockets!Leave, Links!Leave, Sockets!Gone,
    Links!Gone, Sockets!Die, Links!Die, Sockets!Refresh, Links!Refresh, Sockets!Crash,
    Links!Crash, Sockets!Launch, Links!Launch, Sockets!Next, Links!Next

LEMMA SocketsStep ==
  ASSUME Links!PlacesInv, [Sockets!Next]_(Sockets!vars)
  PROVE  Links!PlacesInv'
<1>1. [Links!Next]_(Links!vars)
  BY SameNext
  DEF Sockets!vars, Sockets!shared, Sockets!machines, Links!vars, Links!shared, Links!machines
<1> QED
  BY <1>1, RegistryIsSound, Links!PlacesStep

LEMMA PlacesKept == Launches => [](plays = "sockets" => Links!PlacesInv)
<1> DEFINE Inv == plays = "sockets" => Links!PlacesInv
<1>1. LaunchInit => Inv
  BY SameInit, RegistryIsSound, Links!PlacesInit DEF LaunchInit
<1>2. Inv /\ [LaunchNext]_all => Inv'
  <2>1. ASSUME Inv, [LaunchNext]_all, plays' = "sockets"
        PROVE  plays = "sockets" /\ [Sockets!Next]_(Sockets!vars)
    BY <2>1 DEF LaunchNext, Plays, all, caches, slots, Sockets!vars, Sockets!shared, Sockets!machines
  <2> QED
    BY <2>1, SocketsStep
<1> QED
  BY <1>1, <1>2, PTL DEF Launches

\* Two machines never bind one end of a link, two links never share a port, and a machine that
\* is off holds no end, for any number of machines, links, processes and starts.
THEOREM EndsExclude == Launches => []EndsAreExclusive
<1>1. Links!PlacesInv => Links!EndsAreExclusive /\ Links!PortsDiffer /\ Links!StoppedHoldsNoEnd
  BY Links!PlacesExclude, Links!EntriesMean, Links!PlacesStopped DEF Links!PlacesInv
<1>2. Links!EndsAreExclusive => Sockets!EndsAreExclusive
  BY DEF Links!EndsAreExclusive, Sockets!EndsAreExclusive, Links!May, Sockets!May
<1>3. Links!PortsDiffer => Sockets!PortsDiffer
  BY DEF Links!PortsDiffer, Sockets!PortsDiffer, Links!NoLink, Sockets!NoLink
<1>4. Links!StoppedHoldsNoEnd => Sockets!StoppedHoldsNoEnd
  BY DEF Links!StoppedHoldsNoEnd, Sockets!StoppedHoldsNoEnd, Links!May, Sockets!May,
         Links!NoLink, Sockets!NoLink, Links!EndOf, Sockets!EndOf
<1>5. (plays = "sockets" => Links!PlacesInv) => EndsAreExclusive
  BY <1>1, <1>2, <1>3, <1>4 DEF EndsAreExclusive
<1> QED
  BY <1>5, PlacesKept, PTL

\* A link stays, with the same end, while a machine runs on it, and one made on demand goes
\* with its last machine.
THEOREM LinksFollow == Launches => []LinksFollowTheirUsers
<1>1. Links!PlacesInv => Links!LinkOutlastsItsUsers /\ Links!NoEmptyAutoLink
  BY Links!PlacesOutlast, Links!EntriesMean DEF Links!PlacesInv
<1>2. Links!LinkOutlastsItsUsers => Sockets!LinkOutlastsItsUsers
  BY DEF Links!LinkOutlastsItsUsers, Sockets!LinkOutlastsItsUsers, Links!May, Sockets!May,
         Links!NoLink, Sockets!NoLink, Links!EndOf, Sockets!EndOf, Links!EndName, Sockets!EndName
<1>3. Links!NoEmptyAutoLink => Sockets!NoEmptyAutoLink
  BY DEF Links!NoEmptyAutoLink, Sockets!NoEmptyAutoLink, Links!NoLink, Sockets!NoLink
<1>4. (plays = "sockets" => Links!PlacesInv) => LinksFollowTheirUsers
  BY <1>1, <1>2, <1>3 DEF LinksFollowTheirUsers
<1> QED
  BY <1>4, PlacesKept, PTL
=============================================================================
