----------------------------- MODULE MCStorage -----------------------------
(***************************************************************************)
(* How room is made for what a download brings, and the download itself.   *)
(* A download runs after its admission and knows nothing of it, so one of  *)
(* the two plays at a time, Admission at rest or the download, whose       *)
(* variables the slots are.                                                *)
(***************************************************************************)
EXTENDS Admission

CONSTANTS
  Nil,
  Fetchers, FetchSize, FetchAttempts   \* of the download

VARIABLES plays, v1, v2, v3, v4, v5, v6, v7, v8, v9, v10, v11

slots == <<v1, v2, v3, v4, v5, v6, v7, v8, v9, v10, v11>>
all == <<vars, plays, slots>>

NoDownload ==
  /\ v1 = Nil /\ v2 = Nil /\ v3 = Nil /\ v4 = Nil /\ v5 = Nil /\ v6 = Nil /\ v7 = Nil
  /\ v8 = Nil /\ v9 = Nil /\ v10 = Nil /\ v11 = Nil

(* Three operations on two filesystems: "c" has the cache and the          *)
(* machines, "m" machines moved elsewhere.  Entry 1 frees less than it    *)
(* counts for, entry 2 nothing at all.                                     *)
MCFs == {"c", "m"}
MCEntries == 1..3
MCSize == <<2, 2, 2>>
MCFrees == <<1, 0, 2>>
MCHolds == [o \in Op |-> CASE o = "create" -> [c |-> 0, m |-> 1]
                          [] o = "fetch"  -> [c |-> 2, m |-> 0]
                          [] o = "grow"   -> [c |-> 1, m |-> 1]]
MCChecks == [o \in Op |-> IF o = "create" THEN [c |-> 2, m |-> 0] ELSE [c |-> 0, m |-> 0]]
MCPins == [o \in Op |-> IF o = "grow" THEN {} ELSE {3}]
MCFree == [c |-> 2, m |-> 2]
MCOp == {"create", "fetch", "grow"}

(* Two processes fetch the same file in two chunks; one of them tries      *)
(* twice.                                                                  *)
MCAttempts == [f \in Fetchers |-> IF f = "p" THEN 2 ELSE 1]

Transfer == INSTANCE Download WITH
  Proc <- Fetchers, Size <- FetchSize, MaxAttempts <- FetchAttempts,
  dest <- v1, part <- v2, step <- v3, attempt <- v4, got <- v5, declared <- v6, armed <- v7,
  heard <- v8, fired <- v9, fault <- v10, result <- v11

ASSUME StorageAssumption == Transfer!DownloadAssumption

-----------------------------------------------------------------------------
StorageInit ==
  \/ plays = "admission" /\ Init /\ NoDownload
  \/ plays = "download" /\ Init /\ Transfer!Init

StorageNext ==
  \/ plays = "admission" /\ UNCHANGED <<plays, slots>> /\ Next
  \/ plays = "download" /\ UNCHANGED <<plays, vars>> /\ Transfer!Next

\* Timers fire, the code goes on where it waits for nothing outside, and the holder of the
\* storage lock awaits nothing; the server and the network owe nothing.
Fairness ==
  /\ \A o \in Op : WF_vars(plays = "admission" /\ Locked(o))
  /\ \A f \in Fetchers :
       /\ WF_slots(plays = "download" /\ Transfer!Silence(f))
       /\ \A timer \in Transfer!BodyTimers :
            WF_slots(plays = "download" /\ Transfer!Fire(f, timer))
       /\ WF_slots(plays = "download" /\ Transfer!Goes(f))

Storage == StorageInit /\ [][StorageNext]_all /\ Fairness

-----------------------------------------------------------------------------
(* Properties                                                              *)

\* Rounds of eviction end, and the storage lock is given back.
LockIsGivenBack ==
  \A o \in Op : []<>~(plays = "admission" /\ lock = o)

\* Whatever processes fetch, retry and die, the file in the cache is the work of one
\* attempt, and whole; a call that ended left no partial file (download.ts:248-275).
PublishedIsWhole ==
  plays = "download" => Transfer!PublishedIsWhole /\ Transfer!NothingLeftBehind

\* Silence and the budget end every call, also under a server that sends a byte now and
\* then for ever (download.ts:28-35).
Fetching == {f \in Fetchers : plays = "download" /\ Transfer!Fetching(f)}
Ended == {f \in Fetchers : plays = "download" /\ Transfer!Ended(f)}
EveryCallEnds == \A f \in Fetchers : f \in Fetching ~> f \in Ended
=============================================================================
