------------------------------ MODULE FileLock ------------------------------
(***************************************************************************)
(* The cross-process lock of src/lib/lock.ts, one file system call per     *)
(* step.  A machine's directory holds `.lock/`, which holds `id` (the      *)
(* lock's incarnation) and records named <id>.<gen>; the highest record    *)
(* decides.  Contenders run acquireLock / acquireLockNow, release() and    *)
(* removeMachine(); each is a process of its own that may die at any step. *)
(*                                                                         *)
(* Directories are numbered as they are made, and an incarnation id (a     *)
(* fresh UUID published once per directory) is the number of the directory *)
(* it was published in.  tok numbers a process's records, as the random    *)
(* token does: no two records are equal.                                   *)
(***************************************************************************)
EXTENDS Integers, FiniteSets

CONSTANTS
  Proc,         \* the contenders
  Foreground,   \* those whose operation is a foreground start
  OlderClients, \* whether an older quickchr may be locking the machine as well
  MaxDirs,      \* how many times the machine may be created
  MaxClaims     \* a process that published this many records starts nothing new

ASSUME FileLockAssumption ==
  /\ Foreground \subseteq Proc
  /\ OlderClients \in BOOLEAN
  /\ MaxDirs \in Nat
  /\ MaxClaims \in Nat

VARIABLES
  dir,          \* machines/<name>: the number of the directory, 0 when there is none
  made,         \* how many directories have been made
  hasLock,      \* .lock/ exists in it
  hasId,        \* .lock/id exists in it
  log,          \* the record files of .lock/, whatever incarnation they are named for
  legacy,       \* an older quickchr holds `.start-lock`
  alive,        \* the processes that still run
  pc,           \* where each contender is
  myId,         \* the incarnation it read
  tmp,          \* the directory its linkNew() temp file is in
  judged,       \* the record it judged: free, or the holder in its way
  gen,          \* the number it claims
  tok,          \* how many records it has published
  doomed,       \* the numbers its collect() has still to unlink
  refusal       \* its claim met a legacy holder and is being let go

shared == <<dir, made, hasLock, hasId, log, legacy, alive>>
local == <<myId, tmp, judged, gen, tok, doomed, refusal>>
vars == <<shared, pc, local>>

----------------------------------------------------------------------------
(* Records *)

Record(i, g, p, n, r) == [id |-> i, gen |-> g, by |-> p, tok |-> n, released |-> r]
Records == [id : Nat, gen : Nat, by : Proc, tok : Nat, released : BOOLEAN]
NoRecord == [id |-> 0]

At(i, g) == {r \in log : r.id = i /\ r.gen = g}
Generations(i) == {r.gen : r \in {s \in log : s.id = i}}

\* Seeded fault: a dead process's record still counts as a holder.
LiveWhenDead(r) == ~r.released

\* inspect(): a holder's record is live while its process runs and it is no marker.
Live(r) == ~r.released /\ r.by \in alive

Mine(p, r) == Record(myId[p], gen[p], p, tok[p], r)

\* The state of the lock is the highest record of the directory's incarnation.
InLockDir == dir # 0 /\ hasLock
Id == IF hasId THEN dir ELSE 0

\* A lost race starts the attempt's loop over, from the incarnation.
Retry == "readId"

----------------------------------------------------------------------------
Init ==
  /\ dir = 0 /\ made = 0 /\ hasLock = FALSE /\ hasId = FALSE /\ log = {}
  /\ legacy = FALSE
  /\ alive = Proc
  /\ pc = [p \in Proc |-> "idle"]
  /\ myId = [p \in Proc |-> 0]
  /\ tmp = [p \in Proc |-> 0]
  /\ judged = [p \in Proc |-> NoRecord]
  /\ gen = [p \in Proc |-> 0]
  /\ tok = [p \in Proc |-> 0]
  /\ doomed = [p \in Proc |-> {}]
  /\ refusal = [p \in Proc |-> FALSE]

Goto(p, from, to) ==
  /\ p \in alive
  /\ pc[p] = from
  /\ pc' = [pc EXCEPT ![p] = to]

\* MACHINE_NOT_FOUND ends the acquisition; the caller is told the machine is gone.
Gone(p, from) == Goto(p, from, "idle") /\ UNCHANGED <<shared, local>>

----------------------------------------------------------------------------
(* Starting an acquisition *)

\* A create makes machines/<name> first, any other operation only finds it.
Begin(p) ==
  /\ tok[p] < MaxClaims
  /\ Goto(p, "idle", "ensure")
  /\ UNCHANGED <<shared, local>>

Create(p) ==
  /\ tok[p] < MaxClaims /\ made < MaxDirs
  /\ dir = 0
  /\ Goto(p, "idle", "ensure")
  /\ made' = made + 1
  /\ dir' = made + 1
  /\ UNCHANGED <<hasLock, hasId, log, legacy, alive, local>>

EnsureLockDir(p) ==
  IF dir = 0 THEN Gone(p, "ensure")
  ELSE /\ Goto(p, "ensure", "readId")
       /\ hasLock' = TRUE
       /\ UNCHANGED <<dir, made, hasId, log, legacy, alive, local>>

----------------------------------------------------------------------------
(* incarnation(lockDir, true): read the id, or publish one and read again *)

ReadId(p) ==
  IF Id # 0
  THEN /\ Goto(p, "readId", "list")
       /\ myId' = [myId EXCEPT ![p] = Id]
       /\ UNCHANGED <<shared, tmp, judged, gen, tok, doomed, refusal>>
  ELSE Goto(p, "readId", "writeId") /\ UNCHANGED <<shared, local>>

\* linkNew() writes a temp file beside the target ...
WriteTmp(p, from, to) ==
  IF InLockDir
  THEN /\ Goto(p, from, to)
       /\ tmp' = [tmp EXCEPT ![p] = dir]
       /\ UNCHANGED <<shared, myId, judged, gen, tok, doomed, refusal>>
  ELSE Gone(p, from)

\* ... and links it, which fails when the directory the temp file is in has gone.
TmpThere(p) == InLockDir /\ tmp[p] = dir

WriteId(p) == WriteTmp(p, "writeId", "linkId")

LinkId(p) ==
  IF TmpThere(p)
  THEN /\ Goto(p, "linkId", "rereadId")
       /\ hasId' = TRUE
       /\ UNCHANGED <<dir, made, hasLock, log, legacy, alive, local>>
  ELSE Gone(p, "linkId")

RereadId(p) ==
  IF Id # 0
  THEN /\ Goto(p, "rereadId", "list")
       /\ myId' = [myId EXCEPT ![p] = Id]
       /\ UNCHANGED <<shared, tmp, judged, gen, tok, doomed, refusal>>
  ELSE Gone(p, "rereadId")

----------------------------------------------------------------------------
(* readTop(): the top record's number, then its contents *)

Tops(i) == {g \in Generations(i) : \A h \in Generations(i) : h <= g}

ListTop(p) ==
  IF ~InLockDir THEN Gone(p, "list")
  ELSE \/ /\ Generations(myId[p]) = {}
          /\ Goto(p, "list", "write")
          /\ judged' = [judged EXCEPT ![p] = NoRecord]
          /\ gen' = [gen EXCEPT ![p] = 1]
          /\ UNCHANGED <<shared, myId, tmp, tok, doomed, refusal>>
       \/ \E top \in Tops(myId[p]) :
            /\ Goto(p, "list", "inspect")
            /\ gen' = [gen EXCEPT ![p] = top]
            /\ UNCHANGED <<shared, myId, tmp, judged, tok, doomed, refusal>>

Inspect(p) ==
  \/ /\ At(myId[p], gen[p]) = {}          \* collected since: look again
     /\ Goto(p, "inspect", Retry)
     /\ UNCHANGED <<shared, local>>
  \/ \E r \in At(myId[p], gen[p]) :
       /\ judged' = [judged EXCEPT ![p] = r]
       /\ \/ /\ Live(r)
             /\ Goto(p, "inspect", "refused")
             /\ UNCHANGED gen
          \/ /\ ~Live(r)
             /\ Goto(p, "inspect", "write")
             /\ gen' = [gen EXCEPT ![p] = gen[p] + 1]
       /\ UNCHANGED <<shared, myId, tmp, tok, doomed, refusal>>

----------------------------------------------------------------------------
(* claim(): publish the next record, then check that it stands *)

WriteClaim(p) == WriteTmp(p, "write", "link")

LinkClaim(p) ==
  IF ~TmpThere(p) THEN Gone(p, "link")
  ELSE \/ /\ At(myId[p], gen[p]) # {}     \* EEXIST: another contender was first
          /\ Goto(p, "link", Retry)
          /\ UNCHANGED <<shared, local>>
       \/ /\ At(myId[p], gen[p]) = {}
          /\ Goto(p, "link", "isTop")
          /\ tok' = [tok EXCEPT ![p] = tok[p] + 1]
          /\ log' = log \union {Record(myId[p], gen[p], p, tok[p] + 1, FALSE)}
          /\ UNCHANGED <<dir, made, hasLock, hasId, legacy, alive,
                         myId, tmp, judged, gen, doomed, refusal>>

\* Seeded fault: a claim below the top passes.
StandsBelowTop(p) == judged[p] = NoRecord => Generations(myId[p]) = {1}

\* The first check lists the incarnation.  With nothing judged the record must be alone.
StandsInList(p) ==
  /\ \A g \in Generations(myId[p]) : g <= gen[p]
  /\ judged[p] = NoRecord => Generations(myId[p]) = {1}

CheckTop(p) ==
  IF ~InLockDir THEN Gone(p, "isTop")
  ELSE /\ Goto(p, "isTop", IF StandsInList(p) THEN "follows" ELSE "reject")
       /\ UNCHANGED <<shared, local>>

\* The second reads the predecessor back, byte for byte.
FollowsJudged(p) ==
  judged[p] = NoRecord \/ At(myId[p], gen[p] - 1) = {judged[p]}

CheckFollows(p) ==
  /\ Goto(p, "follows", IF FollowsJudged(p) THEN "current" ELSE "reject")
  /\ UNCHANGED <<shared, local>>

\* Seeded fault: the incarnation is not read back.
AnyIncarnation(p) == TRUE

\* The third reads the incarnation back.
IsCurrent(p) == Id = myId[p]

CheckIncarnation(p) ==
  /\ Goto(p, "current", IF IsCurrent(p) THEN "collect" ELSE "reject")
  /\ UNCHANGED <<shared, local>>

\* A claim that does not stand takes its own name back and the attempt starts over.
Reject(p) ==
  /\ Goto(p, "reject", Retry)
  /\ log' = log \ At(myId[p], gen[p])
  /\ UNCHANGED <<dir, made, hasLock, hasId, legacy, alive, local>>

----------------------------------------------------------------------------
(* collect(): one listing, then one unlink at a time *)

Superseded(p) == {g \in Generations(myId[p]) : g < gen[p]}

ListSuperseded(p, from, to) ==
  /\ Goto(p, from, to)
  /\ doomed' = [doomed EXCEPT ![p] = IF InLockDir THEN Superseded(p) ELSE {}]
  /\ UNCHANGED <<shared, myId, tmp, judged, gen, tok, refusal>>

UnlinkSuperseded(p, at) ==
  \E g \in doomed[p] :
    /\ Goto(p, at, at)
    /\ doomed' = [doomed EXCEPT ![p] = doomed[p] \ {g}]
    /\ log' = log \ At(myId[p], g)
    /\ UNCHANGED <<dir, made, hasLock, hasId, legacy, alive,
                   myId, tmp, judged, gen, tok, refusal>>

CollectClaim(p) ==
  \/ ListSuperseded(p, "collect", "collecting")
  \/ UnlinkSuperseded(p, "collecting")

\* attempt(): the lock is taken; an older quickchr's live `.start-lock` gives it back.
CheckLegacy(p) ==
  /\ doomed[p] = {}
  /\ Goto(p, "collecting", IF legacy THEN "release" ELSE "held")
  /\ refusal' = [refusal EXCEPT ![p] = legacy]
  /\ UNCHANGED <<shared, myId, tmp, judged, gen, tok, doomed>>

----------------------------------------------------------------------------
(* The holder: release(), or removeMachine() and then release() *)

EndOperation(p) == Goto(p, "held", "release") /\ UNCHANGED <<shared, local>>

\* renameSync(dir, trash): the name is free and everything in it is out of reach.
Remove(p) ==
  /\ Goto(p, "held", "removed")
  /\ dir' = 0 /\ hasLock' = FALSE /\ hasId' = FALSE /\ log' = {} /\ legacy' = FALSE
  /\ UNCHANGED <<made, alive, local>>

\* Where a finished release() leaves the contender.
AfterRelease(p) == IF refusal[p] THEN "refused" ELSE "idle"

Released(p, from) == Goto(p, from, AfterRelease(p)) /\ UNCHANGED <<shared, local>>

ReadOwn(p) ==
  /\ \E from \in {"release", "removed"} :
       Goto(p, from, IF At(myId[p], gen[p]) = {Mine(p, FALSE)}
                     THEN "relCollect" ELSE AfterRelease(p))
  /\ UNCHANGED <<shared, local>>

CollectRelease(p) ==
  \/ ListSuperseded(p, "relCollect", "relCollecting")
  \/ UnlinkSuperseded(p, "relCollecting")

WriteMarker(p) ==
  /\ doomed[p] = {}
  /\ IF InLockDir THEN WriteTmp(p, "relCollecting", "relLink")
     ELSE Released(p, "relCollecting")

\* Seeded fault: letting go deletes the record instead of publishing a marker.
UnlinkOwn(p) ==
  /\ Goto(p, "relLink", AfterRelease(p))
  /\ log' = log \ At(myId[p], gen[p])
  /\ UNCHANGED <<dir, made, hasLock, hasId, legacy, alive, local>>

LinkMarker(p) ==
  IF TmpThere(p) /\ At(myId[p], gen[p] + 1) = {}
  THEN /\ Goto(p, "relLink", AfterRelease(p))
       /\ log' = log \union {Record(myId[p], gen[p] + 1, p, tok[p], TRUE)}
       /\ UNCHANGED <<dir, made, hasLock, hasId, legacy, alive, local>>
  ELSE Released(p, "relLink")

----------------------------------------------------------------------------
(* The answer to a live holder: wait and try again, or MACHINE_LOCKED *)

\* A foreground holder keeps the lock until its VM exits, so it is never waited for.
MayWait(p) == ~refusal[p] => judged[p].by \notin Foreground

Poll(p) ==
  /\ Goto(p, "refused", "ensure")
  /\ MayWait(p)
  /\ refusal[p] => tok[p] < MaxClaims      \* bounds the claims made while one waits
  /\ refusal' = [refusal EXCEPT ![p] = FALSE]
  /\ UNCHANGED <<shared, myId, tmp, judged, gen, tok, doomed>>

GiveUp(p) ==
  /\ Goto(p, "refused", "idle")
  /\ refusal' = [refusal EXCEPT ![p] = FALSE]
  /\ UNCHANGED <<shared, myId, tmp, judged, gen, tok, doomed>>

----------------------------------------------------------------------------
(* The environment *)

Crash(p) ==
  /\ p \in alive
  /\ alive' = alive \ {p}
  /\ UNCHANGED <<dir, made, hasLock, hasId, log, legacy, pc, local>>

\* An older quickchr takes or drops its own lock file, looking at nothing else.
OlderQuickchr ==
  /\ OlderClients /\ dir # 0
  /\ legacy' = ~legacy
  /\ UNCHANGED <<dir, made, hasLock, hasId, log, alive, pc, local>>

\* What a contender does by itself once it has started, until its operation ends.
Acquiring(p) ==
  \/ EnsureLockDir(p) \/ ReadId(p) \/ WriteId(p) \/ LinkId(p) \/ RereadId(p)
  \/ ListTop(p) \/ Inspect(p) \/ WriteClaim(p) \/ LinkClaim(p)
  \/ CheckTop(p) \/ CheckFollows(p) \/ CheckIncarnation(p) \/ Reject(p)
  \/ CollectClaim(p) \/ CheckLegacy(p)

Releasing(p) ==
  \/ ReadOwn(p) \/ CollectRelease(p) \/ WriteMarker(p) \/ LinkMarker(p)

Next ==
  \/ \E p \in Proc :
       \/ Begin(p) \/ Create(p)
       \/ Acquiring(p) \/ Releasing(p)
       \/ EndOperation(p) \/ Remove(p)
       \/ Poll(p) \/ GiveUp(p)
       \/ Crash(p)
  \/ OlderQuickchr

Spec == Init /\ [][Next]_vars

----------------------------------------------------------------------------
(* Properties *)

PC == {"idle", "ensure", "readId", "writeId", "linkId", "rereadId", "list", "inspect",
       "write", "link", "isTop", "follows", "current", "reject", "collect", "collecting",
       "held", "release", "removed", "relCollect", "relCollecting", "relLink", "refused"}

TypeOK ==
  /\ made \in Nat /\ dir \in {0, made} /\ made \in 0..MaxDirs
  /\ hasLock \in BOOLEAN /\ hasId \in BOOLEAN /\ legacy \in BOOLEAN
  /\ log \subseteq Records
  /\ alive \subseteq Proc
  /\ pc \in [Proc -> PC]
  /\ myId \in [Proc -> Nat] /\ tmp \in [Proc -> Nat]
  /\ judged \in [Proc -> Records \union {NoRecord}]
  /\ gen \in [Proc -> Nat] /\ tok \in [Proc -> Nat]
  /\ doomed \in [Proc -> SUBSET Nat]
  /\ refusal \in [Proc -> BOOLEAN]

\* p passed claim()'s three checks and has not let go: the code it runs believes it
\* owns the machine.
HoldPCs == {"collect", "collecting", "held", "release", "relCollect", "relCollecting", "relLink"}
Holding(p) == p \in alive /\ pc[p] \in HoldPCs

\* Two operations never own one machine together, whatever was removed, created again,
\* collected or left behind by a dead holder meanwhile (lock.ts:1-48).
MutualExclusion == \A p, q \in Proc : Holding(p) /\ Holding(q) => p = q

\* p's record is the one that decides: of the directory's incarnation, and its highest.
Stands(p) ==
  /\ dir # 0 /\ hasLock /\ hasId /\ myId[p] = dir
  /\ Mine(p, FALSE) \in log
  /\ \A r \in log : r.id = dir => r.gen <= gen[p]

\* A holder's record stays the top of the machine's current log until the holder itself
\* lets go: no other process unlinks it, claims past it or removes the directory under
\* it (lock.ts:12-17, 31-37).
HolderStands == \A p \in Proc : Holding(p) => Stands(p)

\* A claim that is the top of the current incarnation follows the record it judged, so
\* the byte comparison (lock.ts:340) turns away only claims another check also turns away.
TopFollowsJudged ==
  \A p \in Proc : pc[p] = "follows" /\ p \in alive /\ IsCurrent(p) => FollowsJudged(p)

\* Within one directory the top record number never goes down, so a number judged free
\* once is never claimed a second time from scratch (lock.ts:280-283).
TopNeverRegresses ==
  [][dir' = dir => \A r \in log : r.id = dir =>
                     \E s \in log' : s.id = dir /\ s.gen >= r.gen]_vars

\* The abstract lock: the holders, and whether the machine exists.
Owner == {p \in Proc : Holding(p)}
M == INSTANCE Mutex WITH exists <- dir # 0, owner <- Owner
Implements == M!Spec

\* attempt() retries in a loop that never yields to the event loop, so it must end: an
\* attempt gets the lock, meets a holder, or finds the machine gone (lock.ts:411-427).
Attempting(p) == p \in alive /\ pc[p] \notin HoldPCs \union {"idle", "refused", "removed"}

\* A lock whose holders are all dead, wherever they died, goes to the next contender of a
\* machine that is still there (lock.ts:429-432).
AloneBehindTheDead(p) == alive = {p} /\ pc[p] = "ensure" /\ dir # 0
TakenOrGone(p) == Holding(p) \/ p \notin alive \/ legacy

----------------------------------------------------------------------------
(* The inductive invariant behind MutualExclusion and HolderStands *)

\* p runs, and works on the incarnation the machine's directory has now.
Current(p) == p \in alive /\ dir # 0 /\ myId[p] = dir

RecordFrom(g) == \E r \in log : r.id = dir /\ r.gen >= g
RecordAbove(g) == \E r \in log : r.id = dir /\ r.gen > g

\* q has published a claim it may still take back by name.
MayReject(q) == Current(q) /\ pc[q] \in {"isTop", "follows", "current", "reject"}

\* The record p judged is still there, and nobody is about to unlink its name.
JudgedKept(p) ==
  /\ judged[p] \in log /\ judged[p].id = dir /\ judged[p].gen = gen[p] - 1
  /\ \A q \in Proc : MayReject(q) => gen[q] # gen[p] - 1

\* What p judged is still the top, and free.
JudgedTop(p) ==
  \/ judged[p] = NoRecord /\ \A r \in log : r.id # dir
  \/ /\ JudgedKept(p) /\ ~Live(judged[p])
     /\ \A r \in log : r.id = dir => r.gen < gen[p]

Follows(p) == judged[p] = NoRecord \/ JudgedKept(p)

KnowsId == PC \ {"idle", "ensure", "readId", "writeId", "linkId", "rereadId"}

LogInv ==
  /\ dir = 0 => ~hasLock /\ ~hasId /\ log = {}
  /\ hasId => hasLock
  /\ \A r \in log : r.id \in 1..made /\ r.gen >= 1
  /\ \A r, s \in log : r.id = s.id /\ r.gen = s.gen => r = s

IdInv(p) ==
  /\ myId[p] <= made
  /\ Current(p) => hasId
  /\ pc[p] \in KnowsId => myId[p] >= 1

LocalInv(p) ==
  /\ pc[p] \in {"write", "link", "isTop"} =>
       gen[p] >= 1 /\ (judged[p] = NoRecord => gen[p] = 1)
  /\ pc[p] \in {"collecting", "relCollecting"} => \A g \in doomed[p] : g < gen[p]
  /\ pc[p] = "removed" => \A r \in log : r.by # p

ClaimInv(p) ==
  /\ Current(p) /\ pc[p] \in {"write", "link"} => RecordFrom(gen[p]) \/ JudgedTop(p)
  /\ Current(p) /\ pc[p] = "isTop" => RecordAbove(gen[p]) \/ (Stands(p) /\ Follows(p))
  /\ Current(p) /\ pc[p] = "follows" => Stands(p) /\ Follows(p)
  /\ Current(p) /\ pc[p] = "current" => Stands(p)
  /\ Current(p) /\ pc[p] = "reject" => RecordAbove(gen[p])
  /\ Holding(p) => Stands(p)

IInv ==
  /\ TypeOK
  /\ LogInv
  /\ \A p \in Proc : IdInv(p) /\ LocalInv(p) /\ ClaimInv(p)
=============================================================================
