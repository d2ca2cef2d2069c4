--------------------------- MODULE MCLocks_proofs ---------------------------
(***************************************************************************)
(* The lock of lock.ts, for any set of contenders and any number of        *)
(* directories and claims: IInv is an inductive invariant of FileLock.     *)
(*                                                                         *)
(* A step of contender p is taken apart in two: what it does to p itself   *)
(* (one lemma per group of actions), and what it does to every other       *)
(* contender q, which depends only on how the step changes the records:    *)
(* not at all, one name removed, or one record added.                      *)
(*                                                                         *)
(* And the lock file of a link, which is exclusive until a process dies,   *)
(* if holders do not stall.                                                *)
(***************************************************************************)
EXTENDS MCLocks, TLAPS

----------------------------------------------------------------------------
(* Records and names *)

LEMMA InGenerations ==
  ASSUME NEW i, NEW g
  PROVE  g \in Generations(i) <=> \E r \in log : r.id = i /\ r.gen = g
  BY DEF Generations

LEMMA MineFields ==
  ASSUME NEW p
  PROVE  /\ Mine(p, FALSE).id = myId[p] /\ Mine(p, FALSE).gen = gen[p]
         /\ Mine(p, FALSE).by = p /\ Mine(p, FALSE).tok = tok[p]
         /\ Mine(p, FALSE).released = FALSE
  BY DEF Mine, Record

LEMMA RecordTyped ==
  ASSUME TypeOK
  PROVE  \A r \in log : r.id \in Nat /\ r.gen \in Nat /\ r.by \in Proc
  BY DEF TypeOK, Records

\* Two contenders whose records stand share the top name, so they share the record.
LEMMA StandsUnique ==
  ASSUME TypeOK, LogInv, NEW p \in Proc, NEW q \in Proc, Stands(p), Stands(q)
  PROVE  p = q
<1> DEFINE r == Mine(p, FALSE)
           s == Mine(q, FALSE)
<1>1. r \in log /\ s \in log /\ r.id = dir /\ s.id = dir
  BY MineFields DEF Stands
<1>2. gen[p] \in Nat /\ gen[q] \in Nat
  BY DEF TypeOK
<1>3. r.gen = gen[p] /\ s.gen = gen[q] /\ r.by = p /\ s.by = q
  BY MineFields
<1>4. r.gen <= gen[q] /\ s.gen <= gen[p]
  BY <1>1 DEF Stands
<1> HIDE DEF r, s
<1>5. r = s
  BY <1>1, <1>2, <1>3, <1>4 DEF LogInv
<1>6. QED
  BY <1>3, <1>5

----------------------------------------------------------------------------
(* What a step of p leaves to another contender q *)

Unmoved(q) ==
  /\ pc'[q] = pc[q] /\ myId'[q] = myId[q] /\ judged'[q] = judged[q]
  /\ gen'[q] = gen[q] /\ tok'[q] = tok[q] /\ doomed'[q] = doomed[q]

\* No directory is made or removed; the lock's files and the living only go their way.
SameDir ==
  /\ dir' = dir /\ made' = made
  /\ hasLock => hasLock'
  /\ hasId => hasId'
  /\ alive' \subseteq alive

LEMMA IdFrame ==
  ASSUME IInv, NEW q \in Proc, Unmoved(q), SameDir
  PROVE  IdInv(q)'
<1>1. Current(q)' => Current(q)
  BY DEF Current, SameDir, Unmoved
<1>2. IdInv(q)
  BY DEF IInv
<1>3. QED
  BY <1>1, <1>2 DEF Unmoved, SameDir, IdInv, KnowsId, PC

\* The records stay as they are.
LEMMA QuietFrame ==
  ASSUME IInv, NEW p \in Proc, NEW q \in Proc, q # p, SameDir, log' = log,
         \A x \in Proc \ {p} : Unmoved(x),
         MayReject(p)' => MayReject(p) /\ gen'[p] = gen[p]
  PROVE  LocalInv(q)' /\ ClaimInv(q)'
<1>1. Unmoved(q)
  OBVIOUS
<1>2. Current(q)' => Current(q)
  BY <1>1 DEF Current, SameDir, Unmoved
<1>3. \A x \in Proc : MayReject(x)' => MayReject(x) /\ gen'[x] = gen[x]
  BY DEF MayReject, Current, SameDir, Unmoved
<1>4. Stands(q) => Stands(q)'
  BY <1>1 DEF Stands, Mine, SameDir, Unmoved
<1>5. JudgedKept(q) => JudgedKept(q)'
  BY <1>1, <1>3 DEF JudgedKept, SameDir, Unmoved
<1>6. JudgedTop(q) => JudgedTop(q)'
  BY <1>1, <1>5 DEF JudgedTop, Live, SameDir, Unmoved
<1>7. Follows(q) => Follows(q)'
  BY <1>1, <1>5 DEF Follows, Unmoved
<1>8. Holding(q)' => Holding(q)
  BY <1>1 DEF Holding, SameDir, Unmoved
<1>9. /\ RecordFrom(gen[q]) => RecordFrom(gen[q])'
      /\ RecordAbove(gen[q]) => RecordAbove(gen[q])'
  BY <1>1 DEF RecordFrom, RecordAbove, SameDir, Unmoved
<1>10. ClaimInv(q)
  BY DEF IInv
<1>11. ClaimInv(q)'
  BY <1>1, <1>2, <1>4, <1>6, <1>7, <1>8, <1>9, <1>10 DEF ClaimInv, Unmoved
<1>12. LocalInv(q)'
  BY <1>1 DEF IInv, LocalInv, Unmoved
<1>13. QED
  BY <1>11, <1>12

\* One name is taken away, below a higher record.  p's own record stands above it, or it
\* is p's own claim.
LEMMA RemovalFrame ==
  ASSUME IInv, NEW p \in Proc, NEW q \in Proc, q # p, SameDir,
         NEW g \in Nat, log' = log \ At(myId[p], g),
         p \in alive /\ dir # 0 /\ myId[p] = dir =>
           RecordAbove(g) /\ (Stands(p) \/ (MayReject(p) /\ gen[p] = g)),
         p \in alive,
         \A x \in Proc \ {p} : Unmoved(x),
         MayReject(p)' => MayReject(p) /\ gen'[p] = gen[p]
  PROVE  LocalInv(q)' /\ ClaimInv(q)'
<1>1. Unmoved(q)
  OBVIOUS
<1>2. Current(q)' => Current(q)
  BY <1>1 DEF Current, SameDir, Unmoved
<1>3. \A x \in Proc : MayReject(x)' => MayReject(x) /\ gen'[x] = gen[x]
  BY DEF MayReject, Current, SameDir, Unmoved
<1>4. TypeOK /\ LogInv /\ ClaimInv(q) /\ LocalInv(q)
  BY DEF IInv
<1>5. \A r \in log : r.gen \in Nat
  BY <1>4, RecordTyped
<1>6. gen[q] \in Nat
  BY <1>4 DEF TypeOK
<1>7. log' \subseteq log
  OBVIOUS
<1>8. \A r \in log : r.id = dir /\ r \notin log' =>
        dir # 0 /\ r.gen = g /\ RecordAbove(g) /\ (Stands(p) \/ (MayReject(p) /\ gen[p] = g))
  BY <1>4 DEF At, LogInv
<1>9. \A r \in log : r.id = dir => \E s \in log' : s.id = dir /\ s.gen >= r.gen
  <2> SUFFICES ASSUME NEW r \in log, r.id = dir, r \notin log'
               PROVE  \E s \in log' : s.id = dir /\ s.gen >= r.gen
    BY <1>5
  <2>1. PICK s \in log : s.id = dir /\ s.gen > g
    BY <1>8 DEF RecordAbove
  <2>2. s \in log'
    BY <2>1, <1>8, <1>5
  <2>3. QED
    BY <2>1, <2>2, <1>8, <1>5
<1>10. /\ RecordFrom(gen[q]) => RecordFrom(gen[q])'
       /\ RecordAbove(gen[q]) => RecordAbove(gen[q])'
  BY <1>1, <1>5, <1>6, <1>7, <1>9 DEF RecordFrom, RecordAbove, SameDir, Unmoved
<1>11. Stands(q) => Stands(q)'
  <2> SUFFICES ASSUME Stands(q) PROVE Stands(q)'
    OBVIOUS
  <2>1. Mine(q, FALSE) \in log /\ Mine(q, FALSE).id = dir /\ Mine(q, FALSE).gen = gen[q]
    BY MineFields DEF Stands
  <2>2. ~RecordAbove(gen[q])
    BY <1>5, <1>6 DEF Stands, RecordAbove
  <2>3. Mine(q, FALSE) \in log'
    BY <2>1, <2>2, <1>8
  <2>4. Mine(q, FALSE)' = Mine(q, FALSE)
    BY <1>1 DEF Mine, Unmoved
  <2>5. QED
    BY <1>1, <1>7, <2>3, <2>4 DEF Stands, SameDir, Unmoved
<1>12. JudgedTop(q) => JudgedTop(q)'
  <2>1. CASE judged[q] = NoRecord /\ \A r \in log : r.id # dir
    BY <2>1, <1>1, <1>7 DEF JudgedTop, SameDir, Unmoved
  <2>2. CASE JudgedKept(q) /\ ~Live(judged[q]) /\ \A r \in log : r.id = dir => r.gen < gen[q]
    <3>1. judged[q] \in log'
      BY <2>2, <1>5, <1>6, <1>8 DEF JudgedKept, RecordAbove
    <3>2. JudgedKept(q)'
      BY <2>2, <3>1, <1>1, <1>3 DEF JudgedKept, SameDir, Unmoved
    <3>3. QED
      BY <2>2, <3>2, <1>1, <1>7 DEF JudgedTop, Live, SameDir, Unmoved
  <2>3. QED
    BY <2>1, <2>2 DEF JudgedTop
<1>13. Stands(q) /\ Follows(q) => Follows(q)'
  <2> SUFFICES ASSUME Stands(q), JudgedKept(q) PROVE JudgedKept(q)'
    BY <1>1 DEF Follows, Unmoved
  <2>1. ~Stands(p)
    BY <1>4, StandsUnique
  <2>2. judged[q] \in log'
    BY <2>1, <1>8 DEF JudgedKept
  <2>3. QED
    BY <2>2, <1>1, <1>3 DEF JudgedKept, SameDir, Unmoved
<1>14. Holding(q)' => Holding(q)
  BY <1>1 DEF Holding, SameDir, Unmoved
<1>15. ClaimInv(q)'
  BY <1>1, <1>2, <1>4, <1>10, <1>11, <1>12, <1>13, <1>14 DEF ClaimInv, Unmoved
<1>16. LocalInv(q)'
  BY <1>1, <1>4, <1>7 DEF LocalInv, Unmoved
<1>17. QED
  BY <1>15, <1>16

\* One record of p's is added under a free name: a claim, by a contender that saw what
\* JudgedTop says, or the marker of a contender that stands.
LEMMA AdditionFrame ==
  ASSUME IInv, NEW p \in Proc, NEW q \in Proc, q # p, SameDir, p \in alive,
         NEW a, log' = log \union {a}, a.id = myId[p], a.gen \in Nat, a.gen >= 1, a.by = p,
         At(myId[p], a.gen) = {},
         dir # 0 /\ myId[p] = dir =>
           Stands(p) \/ (a.gen = gen[p] /\ (RecordFrom(gen[p]) \/ JudgedTop(p))),
         \A x \in Proc \ {p} : Unmoved(x),
         MayReject(p)' => myId[p] = dir /\ gen'[p] = a.gen
  PROVE  LocalInv(q)' /\ ClaimInv(q)'
<1>1. Unmoved(q)
  OBVIOUS
<1>2. Current(q)' => Current(q)
  BY <1>1 DEF Current, SameDir, Unmoved
<1>3. \A x \in Proc \ {p} : MayReject(x)' => MayReject(x) /\ gen'[x] = gen[x]
  BY DEF MayReject, Current, SameDir, Unmoved
<1>4. TypeOK /\ LogInv /\ ClaimInv(q) /\ LocalInv(q)
  BY DEF IInv
<1>5. \A r \in log : r.gen \in Nat
  BY <1>4, RecordTyped
<1>6. gen[q] \in Nat /\ gen[p] \in Nat
  BY <1>4 DEF TypeOK
<1>7. log \subseteq log' /\ a \in log'
  OBVIOUS
<1>8. JudgedKept(q) => JudgedKept(q)'
  <2> SUFFICES ASSUME JudgedKept(q) PROVE JudgedKept(q)'
    OBVIOUS
  <2>1. MayReject(p)' => gen'[p] # gen[q] - 1
    BY <1>5, <1>6 DEF JudgedKept, At
  <2>2. QED
    BY <2>1, <1>1, <1>3, <1>7 DEF JudgedKept, SameDir, Unmoved
<1>9. Stands(q) /\ Current(q) => Stands(q)'
  <2> SUFFICES ASSUME Stands(q), Current(q), a.id = dir
               PROVE  a.gen <= gen[q]
    BY <1>1, <1>7 DEF Stands, Mine, SameDir, Unmoved
  <2>1. ~Stands(p)
    BY <1>4, StandsUnique
  <2>2. a.gen = gen[p] /\ (RecordFrom(gen[p]) \/ JudgedTop(p))
    BY <2>1 DEF Current
  <2>3. CASE RecordFrom(gen[p])
    BY <2>2, <2>3, <1>5, <1>6 DEF RecordFrom, Stands
  <2>4. CASE JudgedTop(p)
    <3> DEFINE m == Mine(q, FALSE)
    <3>1. m \in log /\ m.id = dir /\ m.gen = gen[q] /\ Live(m)
      BY MineFields DEF Stands, Live, Current
    <3>2. JudgedKept(p) /\ ~Live(judged[p]) /\ m.gen < gen[p]
      BY <2>4, <3>1 DEF JudgedTop
    <3>3. judged[p].gen <= gen[q]
      BY <3>2 DEF JudgedKept, Stands
    <3>4. CASE judged[p].gen = gen[q]
      BY <3>1, <3>2, <3>4, <1>4 DEF LogInv, JudgedKept
    <3>5. CASE judged[p].gen < gen[q]
      <4>1. judged[p].gen \in Nat /\ judged[p].gen = gen[p] - 1 /\ gen[q] < gen[p]
        BY <3>1, <3>2, <1>5 DEF JudgedKept
      <4>2. QED
        BY <4>1, <3>5, <1>6
    <3>6. QED
      BY <3>2, <3>3, <3>4, <3>5, <1>5, <1>6 DEF JudgedKept
  <2>5. QED
    BY <2>2, <2>3, <2>4
<1>10. RecordFrom(gen[q]) => RecordFrom(gen[q])'
  BY <1>1, <1>7 DEF RecordFrom, SameDir, Unmoved
<1>11. RecordAbove(gen[q]) => RecordAbove(gen[q])'
  BY <1>1, <1>7 DEF RecordAbove, SameDir, Unmoved
<1>12. JudgedTop(q) /\ gen[q] >= 1 /\ (judged[q] = NoRecord => gen[q] = 1)
         => RecordFrom(gen[q])' \/ JudgedTop(q)'
  <2> SUFFICES ASSUME JudgedTop(q), judged[q] = NoRecord => gen[q] = 1, ~RecordFrom(gen[q])'
               PROVE  JudgedTop(q)'
    OBVIOUS
  <2>1. a.id = dir => a.gen < gen[q]
    BY <1>1, <1>6, <1>7 DEF RecordFrom, SameDir, Unmoved
  <2>2. CASE judged[q] = NoRecord /\ \A r \in log : r.id # dir
    BY <2>1, <2>2, <1>1, <1>6 DEF JudgedTop, SameDir, Unmoved
  <2>3. CASE JudgedKept(q) /\ ~Live(judged[q]) /\ \A r \in log : r.id = dir => r.gen < gen[q]
    BY <2>1, <2>3, <1>1, <1>8 DEF JudgedTop, Live, SameDir, Unmoved
  <2>4. QED
    BY <2>2, <2>3 DEF JudgedTop
<1>13. Follows(q) => Follows(q)'
  BY <1>1, <1>8 DEF Follows, Unmoved
<1>14. Holding(q)' => Holding(q) /\ Current(q)
  BY <1>1, <1>4 DEF Holding, SameDir, Unmoved, ClaimInv, Stands, Current
<1>15. ClaimInv(q)'
  BY <1>1, <1>2, <1>4, <1>9, <1>10, <1>11, <1>12, <1>13, <1>14 DEF ClaimInv, LocalInv, Unmoved
<1>16. LocalInv(q)'
  BY <1>1, <1>4 DEF LocalInv, Unmoved
<1>17. QED
  BY <1>15, <1>16

----------------------------------------------------------------------------
(* Steps that change no record: only p moves *)

\* Everywhere p holds nothing, claims nothing and judges nothing.
OutsidePCs == {"idle", "ensure", "readId", "writeId", "linkId", "rereadId", "list",
               "inspect", "refused"}

QuietStep(p) ==
  /\ p \in alive /\ SameDir /\ log' = log /\ LogInv'
  /\ \A x \in Proc \ {p} : Unmoved(x)

LEMMA QuietPreserves ==
  ASSUME IInv, NEW p \in Proc, TypeOK', QuietStep(p),
         MayReject(p)' => MayReject(p) /\ gen'[p] = gen[p],
         IdInv(p)', LocalInv(p)', ClaimInv(p)'
  PROVE  IInv'
<1>1. ASSUME NEW q \in Proc, q # p
      PROVE  IdInv(q)' /\ LocalInv(q)' /\ ClaimInv(q)'
  BY <1>1, QuietFrame, IdFrame DEF QuietStep
<1>2. QED
  BY <1>1 DEF IInv, QuietStep

LEMMA OutsidePreserves ==
  ASSUME IInv, NEW p \in Proc, TypeOK', QuietStep(p), pc'[p] \in OutsidePCs, IdInv(p)'
  PROVE  IInv'
<1>1. ~MayReject(p)' /\ LocalInv(p)' /\ ClaimInv(p)'
  BY DEF MayReject, LocalInv, ClaimInv, Holding, HoldPCs, OutsidePCs
<1>2. QED
  BY <1>1, QuietPreserves

LEMMA GonePreserves ==
  ASSUME IInv, NEW p \in Proc, NEW from, Gone(p, from)
  PROVE  IInv'
<1> USE DEF Gone, Goto, shared, local
<1>1. TypeOK'
  BY DEF IInv, TypeOK, PC
<1>2. QuietStep(p)
  BY DEF IInv, TypeOK, QuietStep, SameDir, LogInv, Unmoved
<1>3. pc'[p] = "idle"
  BY DEF IInv, TypeOK
<1>4. IdInv(p)'
  BY <1>3 DEF IInv, IdInv, Current, KnowsId
<1>5. QED
  BY <1>1, <1>2, <1>3, <1>4, OutsidePreserves DEF OutsidePCs

LEMMA BeginPreserves ==
  ASSUME IInv, NEW p \in Proc, Begin(p) \/ Poll(p) \/ GiveUp(p)
  PROVE  IInv'
<1> USE DEF Begin, Poll, GiveUp, Goto, shared, local
<1>1. TypeOK'
  BY DEF IInv, TypeOK, PC
<1>2. QuietStep(p)
  BY DEF IInv, TypeOK, QuietStep, SameDir, LogInv, Unmoved
<1>3. pc'[p] \in {"idle", "ensure"}
  BY DEF IInv, TypeOK
<1>4. IdInv(p)'
  BY <1>3 DEF IInv, IdInv, Current, KnowsId
<1>5. QED
  BY <1>1, <1>2, <1>3, <1>4, OutsidePreserves DEF OutsidePCs

LEMMA IncarnationPreserves ==
  ASSUME IInv, NEW p \in Proc,
         EnsureLockDir(p) \/ ReadId(p) \/ WriteId(p) \/ LinkId(p) \/ RereadId(p)
  PROVE  IInv'
<1> USE DEF Goto, shared, local
<1>1. CASE EnsureLockDir(p) /\ dir # 0
  <2> USE DEF EnsureLockDir
  <2>1. TypeOK'
    BY <1>1 DEF IInv, TypeOK, PC
  <2>2. QuietStep(p) /\ pc'[p] = "readId"
    BY <1>1 DEF IInv, TypeOK, QuietStep, SameDir, LogInv, Unmoved
  <2>3. IdInv(p)'
    BY <1>1, <2>2 DEF IInv, IdInv, Current, KnowsId
  <2>4. QED
    BY <2>1, <2>2, <2>3, OutsidePreserves DEF OutsidePCs
<1>2. CASE (ReadId(p) \/ RereadId(p)) /\ Id # 0
  <2> USE DEF ReadId, RereadId
  <2>1. TypeOK' /\ Id = dir /\ hasId
    BY <1>2 DEF IInv, TypeOK, PC, Id
  <2>2. QuietStep(p) /\ pc'[p] = "list" /\ myId'[p] = dir
    <3>1. /\ p \in alive /\ SameDir /\ log' = log
          /\ pc'[p] = "list" /\ myId'[p] = dir
      BY <1>2, <2>1 DEF IInv, TypeOK, SameDir
    <3>2. \A x \in Proc \ {p} : Unmoved(x)
      BY <1>2 DEF IInv, TypeOK, Unmoved
    <3>3. LogInv'
      BY <1>2, <3>1 DEF IInv, LogInv, SameDir
    <3> QED
      BY <3>1, <3>2, <3>3 DEF QuietStep
  <2>3. dir >= 1 /\ dir <= made
    BY <1>2, <2>1 DEF IInv, TypeOK
  <2>4. made' = made /\ hasId'
    BY <1>2, <2>1
  <2>5. IdInv(p)'
    BY <2>2, <2>3, <2>4 DEF IdInv
  <2>6. QED
    BY <2>1, <2>2, <2>5, OutsidePreserves DEF OutsidePCs
<1>3. CASE ReadId(p) /\ Id = 0
  <2> USE DEF ReadId
  <2>1. TypeOK'
    BY <1>3 DEF IInv, TypeOK, PC
  <2>2. QuietStep(p) /\ pc'[p] = "writeId"
    BY <1>3 DEF IInv, TypeOK, QuietStep, SameDir, LogInv, Unmoved
  <2>3. IdInv(p)'
    BY <1>3, <2>2 DEF IInv, IdInv, Current, KnowsId
  <2>4. QED
    BY <2>1, <2>2, <2>3, OutsidePreserves DEF OutsidePCs
<1>4. CASE WriteId(p) /\ InLockDir
  <2> USE DEF WriteId, WriteTmp
  <2>1. TypeOK'
    BY <1>4 DEF IInv, TypeOK, PC
  <2>2. QuietStep(p) /\ pc'[p] = "linkId"
    BY <1>4 DEF IInv, TypeOK, QuietStep, SameDir, LogInv, Unmoved
  <2>3. IdInv(p)'
    BY <1>4, <2>2 DEF IInv, IdInv, Current, KnowsId
  <2>4. QED
    BY <2>1, <2>2, <2>3, OutsidePreserves DEF OutsidePCs
<1>5. CASE LinkId(p) /\ TmpThere(p)
  <2> USE DEF LinkId
  <2>1. TypeOK'
    BY <1>5 DEF IInv, TypeOK, PC
  <2>2. QuietStep(p) /\ pc'[p] = "rereadId"
    BY <1>5 DEF IInv, TypeOK, QuietStep, SameDir, LogInv, Unmoved, TmpThere, InLockDir
  <2>3. IdInv(p)'
    BY <1>5, <2>2 DEF IInv, IdInv, Current, KnowsId
  <2>4. QED
    BY <2>1, <2>2, <2>3, OutsidePreserves DEF OutsidePCs
<1>6. QED
  BY <1>1, <1>2, <1>3, <1>4, <1>5, GonePreserves
  DEF EnsureLockDir, ReadId, WriteId, WriteTmp, LinkId, RereadId

----------------------------------------------------------------------------
(* readTop(), and the claim before it is published *)

LEMMA ListPreserves ==
  ASSUME IInv, NEW p \in Proc, ListTop(p)
  PROVE  IInv'
<1> USE DEF ListTop, Goto, shared, local
<1>1. CASE ~InLockDir
  BY <1>1, GonePreserves
<1>2. CASE pc'[p] = "inspect" /\ InLockDir
  <2>1. TypeOK'
    BY <1>2 DEF IInv, TypeOK, PC, Tops, Generations, Records
  <2>2. QuietStep(p) /\ pc[p] = "list" /\ myId'[p] = myId[p] /\ made' = made
    BY <1>2 DEF IInv, TypeOK, QuietStep, SameDir, LogInv, Unmoved
  <2>3. IdInv(p)'
    BY <2>2, <1>2 DEF IInv, IdInv, Current, KnowsId, PC, QuietStep, SameDir
  <2>4. QED
    BY <1>2, <2>1, <2>2, <2>3, OutsidePreserves DEF OutsidePCs
<1>3. CASE pc'[p] # "inspect" /\ InLockDir
  <2>1. TypeOK'
    BY <1>3 DEF IInv, TypeOK, PC
  <2>2. /\ pc[p] = "list" /\ pc'[p] = "write" /\ gen'[p] = 1 /\ judged'[p] = NoRecord
        /\ Generations(myId[p]) = {} /\ myId'[p] = myId[p] /\ made' = made
    BY <1>3 DEF IInv, TypeOK
  <2>3. QuietStep(p)
    BY <1>3 DEF IInv, TypeOK, QuietStep, SameDir, LogInv, Unmoved
  <2>4. IdInv(p)' /\ LocalInv(p)' /\ ~MayReject(p)'
    BY <2>2, <2>3 DEF IInv, IdInv, LocalInv, MayReject, Current, KnowsId, PC, QuietStep, SameDir
  <2>5. Current(p)' => JudgedTop(p)'
    BY <2>2, <2>3, InGenerations DEF JudgedTop, Current, QuietStep, SameDir
  <2>6. ClaimInv(p)'
    BY <2>2, <2>5 DEF ClaimInv, Holding, HoldPCs
  <2>7. QED
    BY <2>1, <2>3, <2>4, <2>6, QuietPreserves
<1>4. QED
  BY <1>1, <1>2, <1>3

LEMMA InspectPreserves ==
  ASSUME IInv, NEW p \in Proc, Inspect(p)
  PROVE  IInv'
<1> USE DEF Inspect, Goto, Retry, shared, local
<1>1. TypeOK'
  BY DEF IInv, TypeOK, PC, At
<1>2. /\ QuietStep(p) /\ pc[p] = "inspect" /\ pc'[p] \in {"readId", "refused", "write"}
      /\ myId'[p] = myId[p] /\ made' = made
  BY DEF IInv, TypeOK, QuietStep, SameDir, LogInv, Unmoved
<1>3. IdInv(p)'
  BY <1>2 DEF IInv, IdInv, Current, KnowsId, PC, QuietStep, SameDir
<1>4. CASE pc'[p] # "write"
  BY <1>1, <1>2, <1>3, <1>4, OutsidePreserves DEF OutsidePCs
<1>5. CASE pc'[p] = "write"
  <2>1. PICK r \in At(myId[p], gen[p]) :
          /\ judged' = [judged EXCEPT ![p] = r] /\ ~Live(r) /\ gen' = [gen EXCEPT ![p] = gen[p] + 1]
    BY <1>2, <1>5 DEF IInv, TypeOK
  <2>2. r \in log /\ r.id = myId[p] /\ r.gen = gen[p] /\ gen[p] \in Nat /\ gen[p] >= 1
    BY <2>1 DEF At, IInv, TypeOK, LogInv
  <2>3. judged'[p] = r /\ gen'[p] = gen[p] + 1
    BY <2>1 DEF IInv, TypeOK
  <2>4. r # NoRecord
    BY <2>2 DEF NoRecord, IInv, LogInv, TypeOK
  <2>5. LocalInv(p)' /\ ~MayReject(p)'
    BY <1>5, <2>2, <2>3, <2>4 DEF LocalInv, MayReject
  <2>6. Current(p)' => RecordFrom(gen[p])' \/ JudgedTop(p)'
    <3> SUFFICES ASSUME Current(p)', ~RecordFrom(gen[p])'
                 PROVE  JudgedTop(p)'
      OBVIOUS
    <3>1. r.id = dir /\ Current(p)
      BY <1>2, <2>2 DEF Current, QuietStep, SameDir
    <3>2. \A s \in log : s.id = dir => s.gen < gen[p] + 1
      BY <1>2, <2>2, <2>3, RecordTyped DEF RecordFrom, QuietStep, SameDir, IInv
    <3>3. ASSUME NEW q \in Proc, MayReject(q), gen[q] = gen[p]
          PROVE  FALSE
      <4>1. ~RecordAbove(gen[q])
        BY <3>2, <3>3, <2>2, RecordTyped DEF RecordAbove, IInv
      <4>2. Stands(q)
        BY <3>3, <4>1 DEF IInv, ClaimInv, MayReject
      <4>3. Mine(q, FALSE) = r
        <5>1. /\ Mine(q, FALSE) \in log /\ Mine(q, FALSE).id = dir
              /\ Mine(q, FALSE).gen = gen[q]
          BY <4>2, MineFields DEF Stands
        <5>2. QED
          BY <5>1, <3>1, <3>3, <2>2 DEF IInv, LogInv
      <4>4. Live(r)
        BY <4>3, <3>3, MineFields DEF Live, MayReject, Current
      <4>5. QED
        BY <4>4, <2>1
    <3>4. \A q \in Proc : MayReject(q)' => MayReject(q) /\ gen'[q] = gen[q]
      BY <1>2, <2>5 DEF QuietStep, Unmoved, MayReject, Current, SameDir
    <3>5. JudgedKept(p)'
      BY <1>2, <2>2, <2>3, <3>1, <3>3, <3>4 DEF JudgedKept, QuietStep, SameDir
    <3>6. QED
      BY <1>2, <2>1, <2>3, <3>2, <3>5 DEF JudgedTop, Live, QuietStep, SameDir
  <2>7. ClaimInv(p)'
    BY <1>5, <2>6 DEF ClaimInv, Holding, HoldPCs
  <2>8. QED
    BY <1>1, <1>2, <1>3, <2>5, <2>7, QuietPreserves
<1>6. QED
  BY <1>4, <1>5

LEMMA WriteClaimPreserves ==
  ASSUME IInv, NEW p \in Proc, WriteClaim(p)
  PROVE  IInv'
<1> USE DEF WriteClaim, WriteTmp, Goto, shared, local
<1>1. CASE ~InLockDir
  BY <1>1, GonePreserves
<1>2. CASE InLockDir
  <2>1. TypeOK'
    BY <1>2 DEF IInv, TypeOK, PC
  <2>2. QuietStep(p) /\ pc[p] = "write" /\ pc'[p] = "link"
    BY <1>2 DEF IInv, TypeOK, QuietStep, SameDir, LogInv, Unmoved
  <2>3. /\ UNCHANGED <<dir, made, hasId, log, alive, myId, judged, gen, tok, doomed>>
        /\ pc' = [pc EXCEPT ![p] = "link"]
    BY <1>2
  <2>4. \A q \in Proc : MayReject(q)' <=> MayReject(q)
    BY <2>2, <2>3 DEF MayReject, Current, IInv, TypeOK
  <2>5. RecordFrom(gen[p])' <=> RecordFrom(gen[p])
    BY <2>3 DEF RecordFrom
  <2>6. JudgedTop(p)' <=> JudgedTop(p)
    BY <2>3, <2>4 DEF JudgedTop, JudgedKept, Live
  <2>7. IdInv(p)' /\ LocalInv(p)'
    BY <2>2, <2>3 DEF IInv, IdInv, LocalInv, Current, KnowsId, PC
  <2>8. ClaimInv(p)'
    BY <2>2, <2>3, <2>5, <2>6 DEF IInv, ClaimInv, Current, Holding, HoldPCs
  <2>9. QED
    BY <2>1, <2>2, <2>3, <2>4, <2>7, <2>8, QuietPreserves
<1>3. QED
  BY <1>1, <1>2

----------------------------------------------------------------------------
(* claim(): publishing it and the three checks *)

LEMMA LinkClaimPreserves ==
  ASSUME IInv, NEW p \in Proc, LinkClaim(p)
  PROVE  IInv'
<1> USE DEF LinkClaim, Goto, Retry, shared, local
<1> DEFINE a == Record(myId[p], gen[p], p, tok[p] + 1, FALSE)
<1>1. CASE ~TmpThere(p)
  BY <1>1, GonePreserves
<1>2. CASE TmpThere(p) /\ At(myId[p], gen[p]) # {}
  <2>1. TypeOK'
    BY <1>2 DEF IInv, TypeOK, PC
  <2>2. /\ QuietStep(p) /\ pc[p] = "link" /\ pc'[p] = "readId"
        /\ myId'[p] = myId[p] /\ made' = made
    BY <1>2 DEF IInv, TypeOK, QuietStep, SameDir, LogInv, Unmoved
  <2>3. IdInv(p)'
    BY <2>2 DEF IInv, IdInv, Current, KnowsId, QuietStep, SameDir
  <2>4. QED
    BY <2>1, <2>2, <2>3, OutsidePreserves DEF OutsidePCs
<1>3. CASE TmpThere(p) /\ At(myId[p], gen[p]) = {}
  <2>1. /\ pc[p] = "link" /\ p \in alive /\ pc' = [pc EXCEPT ![p] = "isTop"]
        /\ tok' = [tok EXCEPT ![p] = tok[p] + 1] /\ log' = log \union {a}
        /\ UNCHANGED <<dir, made, hasLock, hasId, legacy, alive, myId, tmp, judged, gen,
                       doomed, refusal>>
        /\ hasLock /\ dir # 0
    BY <1>3 DEF TmpThere, InLockDir
  <2>2. /\ a \in Records /\ a.id = myId[p] /\ a.gen = gen[p] /\ a.by = p
        /\ a.tok = tok[p] + 1 /\ a.released = FALSE
    BY DEF IInv, TypeOK, Record, Records
  <2>3. gen[p] \in Nat /\ gen[p] >= 1 /\ myId[p] \in Nat /\ myId[p] >= 1 /\ myId[p] <= made
    BY <2>1 DEF IInv, TypeOK, LocalInv, IdInv, KnowsId, PC
  <2>4. TypeOK'
    <3>1. log' \subseteq Records
      BY <2>1, <2>2 DEF IInv, TypeOK
    <3> HIDE DEF a
    <3>2. pc' \in [Proc -> PC] /\ tok' \in [Proc -> Nat]
      BY <2>1 DEF IInv, TypeOK, PC
    <3>3. QED
      BY <2>1, <3>1, <3>2 DEF IInv, TypeOK
  <2>5. LogInv'
    <3>1. \A r \in log : ~(r.id = a.id /\ r.gen = a.gen)
      BY <1>3, <2>2 DEF At
    <3> HIDE DEF a
    <3>2. QED
      BY <2>1, <2>2, <2>3, <3>1 DEF IInv, LogInv, TypeOK
  <2>6. \A x \in Proc \ {p} : Unmoved(x)
    BY <2>1 DEF Unmoved, IInv, TypeOK
  <2>7. SameDir /\ pc'[p] = "isTop" /\ gen'[p] = gen[p] /\ tok'[p] = tok[p] + 1
    BY <2>1 DEF SameDir, IInv, TypeOK
  <2>8. dir # 0 /\ myId[p] = dir => RecordFrom(gen[p]) \/ JudgedTop(p)
    BY <2>1 DEF IInv, ClaimInv, Current
  <2>9. MayReject(p)' => myId[p] = dir /\ gen'[p] = a.gen
    BY <2>1, <2>2 DEF MayReject, Current
  <2> HIDE DEF a
  <2>10. ASSUME NEW q \in Proc, q # p
         PROVE  IdInv(q)' /\ LocalInv(q)' /\ ClaimInv(q)'
    <3>1. IdInv(q)'
      BY <2>6, <2>7, <2>10, IdFrame
    <3>2. LocalInv(q)' /\ ClaimInv(q)'
      BY <1>3, <2>1, <2>2, <2>3, <2>6, <2>7, <2>8, <2>9, <2>10, AdditionFrame
    <3>3. QED
      BY <3>1, <3>2
  <2>11. IdInv(p)' /\ LocalInv(p)'
    BY <2>1, <2>7 DEF IInv, IdInv, LocalInv, Current, KnowsId, PC
  <2>12. ClaimInv(p)'
    <3> SUFFICES ASSUME Current(p)', ~RecordAbove(gen[p])'
                 PROVE  Stands(p)' /\ Follows(p)'
      BY <2>7 DEF ClaimInv, Holding, HoldPCs
    <3>1. Current(p) /\ myId[p] = dir /\ hasId
      BY <2>1 DEF Current, IInv, IdInv
    <3>2. \A r \in log : r.id = dir => r.gen < gen[p]
      <4>1. \A r \in log : r.id = dir => r.gen <= gen[p]
        BY <2>1, <2>3, RecordTyped DEF RecordAbove, IInv
      <4>2. \A r \in log : r.id = dir => r.gen # gen[p]
        BY <1>3, <3>1 DEF At
      <4>3. QED
        BY <4>1, <4>2, <2>3, RecordTyped DEF IInv
    <3>3. JudgedTop(p)
      BY <2>1, <3>1, <3>2, <2>3, RecordTyped DEF IInv, ClaimInv, RecordFrom
    <3>4. Mine(p, FALSE)' = a
      BY <2>1, <2>7 DEF Mine, a
    <3>5. Stands(p)'
      <4>1. \A r \in log : r.id = dir => r.gen <= gen[p]
        BY <3>2, <2>3, RecordTyped DEF IInv
      <4>2. \A r \in log' : r.id = dir => r.gen <= gen[p]
        BY <4>1, <2>1, <2>2, <2>3
      <4>3. QED
        BY <2>1, <2>7, <3>1, <3>4, <4>2 DEF Stands
    <3>6. ASSUME JudgedKept(p) PROVE JudgedKept(p)'
      <4>1. \A q \in Proc : MayReject(q)' => MayReject(q) \/ q = p
        BY <2>6, <2>7 DEF MayReject, Current, Unmoved, SameDir
      <4>2. \A q \in Proc : MayReject(q)' => gen'[q] # gen[p] - 1
        BY <3>6, <4>1, <2>3, <2>1 DEF JudgedKept
      <4>3. QED
        BY <3>6, <4>2, <2>1 DEF JudgedKept
    <3>7. Follows(p)'
      BY <2>1, <3>3, <3>6 DEF JudgedTop, Follows
    <3>8. QED
      BY <3>5, <3>7
  <2>13. QED
    BY <2>4, <2>5, <2>10, <2>11, <2>12 DEF IInv
<1>4. QED
  BY <1>1, <1>2, <1>3

LEMMA CheckTopPreserves ==
  ASSUME IInv, NEW p \in Proc, CheckTop(p)
  PROVE  IInv'
<1> USE DEF CheckTop, Goto, shared, local
<1>1. CASE ~InLockDir
  BY <1>1, GonePreserves
<1>2. CASE InLockDir
  <2>1. /\ pc[p] = "isTop" /\ p \in alive
        /\ pc' = [pc EXCEPT ![p] = IF StandsInList(p) THEN "follows" ELSE "reject"]
        /\ UNCHANGED <<dir, made, hasLock, hasId, log, legacy, alive, myId, tmp, judged, gen,
                       tok, doomed, refusal>>
    BY <1>2
  <2>2. TypeOK' /\ QuietStep(p) /\ pc'[p] = IF StandsInList(p) THEN "follows" ELSE "reject"
    BY <2>1 DEF IInv, TypeOK, PC, QuietStep, SameDir, LogInv, Unmoved
  <2>3. \A q \in Proc : MayReject(q)' <=> MayReject(q)
    BY <2>1, <2>2 DEF MayReject, Current, IInv, TypeOK
  <2>4. /\ RecordAbove(gen[p])' <=> RecordAbove(gen[p])
        /\ Stands(p)' <=> Stands(p)
        /\ Follows(p)' <=> Follows(p)
        /\ Current(p)' <=> Current(p)
    BY <2>1, <2>3 DEF RecordAbove, Stands, Mine, Follows, JudgedKept, Current
  <2>5. ASSUME Current(p), StandsInList(p)
        PROVE  Stands(p) /\ Follows(p)
    <3>1. ~RecordAbove(gen[p])
      <4>1. \A r \in log : r.id = dir => r.gen <= gen[p]
        BY <2>5, InGenerations DEF StandsInList, Current
      <4>2. gen[p] \in Nat /\ \A r \in log : r.gen \in Nat
        BY RecordTyped DEF IInv, TypeOK
      <4>3. QED
        BY <4>1, <4>2 DEF RecordAbove
    <3>2. QED
      BY <2>1, <2>5, <3>1 DEF IInv, ClaimInv
  <2>6. ASSUME Current(p), ~StandsInList(p), ~RecordAbove(gen[p])
        PROVE  FALSE
    <3>1. Stands(p) /\ (judged[p] = NoRecord => gen[p] = 1) /\ gen[p] \in Nat
      <4>1. Stands(p)
        BY <2>1, <2>6 DEF IInv, ClaimInv
      <4> QED
        BY <2>1, <4>1 DEF IInv, LocalInv, TypeOK
    <3>2. gen[p] \in Generations(myId[p])
      BY <3>1, InGenerations, MineFields DEF Stands
    <3>3. \A g \in Generations(myId[p]) : g <= gen[p]
      BY <3>1, InGenerations DEF Stands
    <3>4. \A g \in Generations(myId[p]) : g >= 1 /\ g \in Nat
      BY InGenerations, RecordTyped DEF IInv, LogInv
    <3>5. judged[p] = NoRecord => Generations(myId[p]) = {1}
      BY <3>1, <3>2, <3>3, <3>4
    <3>6. QED
      BY <2>6, <3>3, <3>5 DEF StandsInList
  <2>7. IdInv(p)' /\ LocalInv(p)'
    BY <2>1, <2>2 DEF IInv, IdInv, LocalInv, Current, KnowsId, PC
  <2>8. ClaimInv(p)'
    BY <2>2, <2>4, <2>5, <2>6 DEF ClaimInv, Holding, HoldPCs
  <2>9. QED
    BY <2>1, <2>2, <2>3, <2>7, <2>8, QuietPreserves
<1>3. QED
  BY <1>1, <1>2

LEMMA JudgedFollows ==
  ASSUME IInv, NEW p \in Proc, Current(p), Follows(p)
  PROVE  FollowsJudged(p)
<1>1. CASE judged[p] = NoRecord
  BY <1>1 DEF FollowsJudged
<1>2. CASE JudgedKept(p)
  <2>1. judged[p] \in At(myId[p], gen[p] - 1)
    BY <1>2 DEF JudgedKept, At, Current
  <2>2. \A r \in At(myId[p], gen[p] - 1) : r = judged[p]
    BY <2>1 DEF At, IInv, LogInv
  <2>3. QED
    BY <2>1, <2>2 DEF FollowsJudged
<1>3. QED
  BY <1>1, <1>2 DEF Follows

LEMMA CheckFollowsPreserves ==
  ASSUME IInv, NEW p \in Proc, CheckFollows(p)
  PROVE  IInv'
<1> USE DEF CheckFollows, Goto, shared, local
<1>1. TypeOK' /\ QuietStep(p) /\ pc'[p] = IF FollowsJudged(p) THEN "current" ELSE "reject"
  BY DEF IInv, TypeOK, PC, QuietStep, SameDir, LogInv, Unmoved
<1>2. /\ MayReject(p)' <=> MayReject(p)
      /\ Stands(p)' <=> Stands(p)
      /\ Current(p)' <=> Current(p)
  BY <1>1 DEF MayReject, Current, Stands, Mine
<1>3. Current(p) => Stands(p) /\ FollowsJudged(p)
  BY JudgedFollows DEF IInv, ClaimInv
<1>4. IdInv(p)' /\ LocalInv(p)'
  BY <1>1 DEF IInv, IdInv, LocalInv, Current, KnowsId, PC
<1>5. ClaimInv(p)'
  BY <1>1, <1>2, <1>3 DEF ClaimInv, Holding, HoldPCs
<1>6. QED
  BY <1>1, <1>2, <1>4, <1>5, QuietPreserves

LEMMA CheckIncarnationPreserves ==
  ASSUME IInv, NEW p \in Proc, CheckIncarnation(p)
  PROVE  IInv'
<1> USE DEF CheckIncarnation, Goto, shared, local
<1>1. TypeOK' /\ QuietStep(p) /\ pc'[p] = IF IsCurrent(p) THEN "collect" ELSE "reject"
  BY DEF IInv, TypeOK, PC, QuietStep, SameDir, LogInv, Unmoved
<1>2. /\ MayReject(p)' => MayReject(p)
      /\ Stands(p)' <=> Stands(p)
      /\ Current(p)' <=> Current(p)
  BY <1>1 DEF MayReject, Current, Stands, Mine
<1>3. IsCurrent(p) <=> Current(p)
  BY DEF IsCurrent, Current, Id, IInv, IdInv, TypeOK, KnowsId, PC
<1>4. Current(p) => Stands(p)
  BY DEF IInv, ClaimInv
<1>5. IdInv(p)' /\ LocalInv(p)'
  BY <1>1 DEF IInv, IdInv, LocalInv, Current, KnowsId, PC
<1>6. ClaimInv(p)'
  BY <1>1, <1>2, <1>3, <1>4 DEF ClaimInv, Holding, HoldPCs
<1>7. QED
  BY <1>1, <1>2, <1>5, <1>6, QuietPreserves

----------------------------------------------------------------------------
(* Taking a rejected claim back, and collecting superseded records *)

LEMMA RejectPreserves ==
  ASSUME IInv, NEW p \in Proc, Reject(p)
  PROVE  IInv'
<1> USE DEF Reject, Goto, Retry, shared, local
<1>1. /\ pc[p] = "reject" /\ p \in alive /\ pc'[p] = "readId"
      /\ log' = log \ At(myId[p], gen[p])
      /\ UNCHANGED <<dir, made, hasLock, hasId, legacy, alive, myId, tmp, judged, gen,
                     tok, doomed, refusal>>
  BY DEF IInv, TypeOK
<1>2. TypeOK' /\ SameDir /\ gen[p] \in Nat
  BY DEF IInv, TypeOK, PC, SameDir
<1>3. \A x \in Proc \ {p} : Unmoved(x)
  BY DEF Unmoved, IInv, TypeOK
<1>4. LogInv'
  BY <1>1 DEF IInv, LogInv
<1>5. ~MayReject(p)' /\ LocalInv(p)' /\ ClaimInv(p)'
  BY <1>1 DEF MayReject, LocalInv, ClaimInv, Holding, HoldPCs
<1>6. IdInv(p)'
  BY <1>1 DEF IInv, IdInv, Current, KnowsId, PC
<1>7. p \in alive /\ dir # 0 /\ myId[p] = dir =>
        RecordAbove(gen[p]) /\ MayReject(p)
  BY <1>1 DEF IInv, ClaimInv, Current, MayReject
<1>8. ASSUME NEW q \in Proc, q # p
      PROVE  IdInv(q)' /\ LocalInv(q)' /\ ClaimInv(q)'
  BY <1>1, <1>2, <1>3, <1>5, <1>7, <1>8, IdFrame, RemovalFrame
<1>9. QED
  BY <1>2, <1>4, <1>5, <1>6, <1>8 DEF IInv

\* A contender that stands keeps standing while it collects what is below it.
LEMMA UnlinkPreserves ==
  ASSUME IInv, NEW p \in Proc, NEW at \in {"collecting", "relCollecting"},
         UnlinkSuperseded(p, at)
  PROVE  IInv'
<1>1. PICK g \in doomed[p] :
        /\ Goto(p, at, at)
        /\ doomed' = [doomed EXCEPT ![p] = doomed[p] \ {g}]
        /\ log' = log \ At(myId[p], g)
        /\ UNCHANGED <<dir, made, hasLock, hasId, legacy, alive,
                       myId, tmp, judged, gen, tok, refusal>>
  BY DEF UnlinkSuperseded
<1> USE DEF Goto
<1>2. /\ TypeOK' /\ SameDir /\ p \in alive /\ pc[p] = at /\ pc'[p] = at
      /\ g \in Nat /\ gen[p] \in Nat
      /\ doomed'[p] = doomed[p] \ {g} /\ \A x \in Proc \ {p} : Unmoved(x)
  BY <1>1 DEF IInv, TypeOK, PC, SameDir, Unmoved
<1>3. LogInv'
  BY <1>1 DEF IInv, LogInv
<1>4. Stands(p) /\ g < gen[p] /\ ~MayReject(p)'
  BY <1>1, <1>2 DEF IInv, ClaimInv, LocalInv, Holding, HoldPCs, MayReject
<1>5. RecordAbove(g)
  BY <1>4, MineFields DEF Stands, RecordAbove
<1>6. LocalInv(p)' /\ IdInv(p)'
  BY <1>1, <1>2 DEF IInv, LocalInv, IdInv, Current, KnowsId, PC
<1>7. Stands(p)'
  <2>1. Mine(p, FALSE) \in log'
    <3>1. Mine(p, FALSE) \in log
      BY <1>4 DEF Stands
    <3>2. Mine(p, FALSE).gen # g
      <4>1. gen[p] # g
        BY <1>2, <1>4
      <4>2. QED
        BY <4>1, MineFields
    <3>3. Mine(p, FALSE) \notin At(myId[p], g)
      BY <3>2 DEF At
    <3>4. QED
      BY <1>1, <3>1, <3>3
  <2>2. Mine(p, FALSE)' = Mine(p, FALSE)
    BY <1>1 DEF Mine
  <2>3. QED
    BY <1>1, <1>4, <2>1, <2>2 DEF Stands
<1>8. ClaimInv(p)'
  BY <1>2, <1>7 DEF ClaimInv, Holding, HoldPCs
<1>9. ASSUME NEW q \in Proc, q # p
      PROVE  IdInv(q)' /\ LocalInv(q)' /\ ClaimInv(q)'
  BY <1>1, <1>2, <1>4, <1>5, <1>9, IdFrame, RemovalFrame
<1>10. QED
  BY <1>2, <1>3, <1>6, <1>8, <1>9 DEF IInv

----------------------------------------------------------------------------
(* A holder that moves on and goes on standing *)

HolderMoves(p) ==
  /\ p \in alive /\ pc[p] \in HoldPCs
  /\ UNCHANGED <<dir, made, hasLock, hasId, log, alive, myId, judged, gen, tok>>
  /\ \A x \in Proc \ {p} : Unmoved(x)

LEMMA HolderPreserves ==
  ASSUME IInv, NEW p \in Proc, TypeOK', HolderMoves(p),
         pc'[p] \in HoldPCs \union {"refused", "idle"},
         pc'[p] \in {"collecting", "relCollecting"} => \A g \in doomed'[p] : g < gen[p]
  PROVE  IInv'
<1>1. QuietStep(p)
  BY DEF HolderMoves, QuietStep, SameDir, LogInv, IInv
<1>2. ~MayReject(p)'
  BY DEF MayReject, HoldPCs
<1>3. IdInv(p)'
  BY DEF HolderMoves, IInv, IdInv, Current, KnowsId, PC, HoldPCs
<1>4. LocalInv(p)'
  BY DEF LocalInv, HoldPCs, HolderMoves
<1>5. Stands(p)'
  BY DEF HolderMoves, IInv, ClaimInv, Holding, Stands, Mine
<1>6. ClaimInv(p)'
  BY <1>5 DEF ClaimInv, HoldPCs, Holding
<1>7. QED
  BY <1>1, <1>2, <1>3, <1>4, <1>6, QuietPreserves

LEMMA ListSupersededPreserves ==
  ASSUME IInv, NEW p \in Proc,
         ListSuperseded(p, "collect", "collecting") \/ ListSuperseded(p, "relCollect", "relCollecting")
  PROVE  IInv'
<1> USE DEF ListSuperseded, Goto, shared, local
<1>1. Superseded(p) \subseteq Nat /\ \A g \in Superseded(p) : g < gen[p]
  BY InGenerations, RecordTyped DEF Superseded, IInv
<1>2. doomed' = [doomed EXCEPT ![p] = IF InLockDir THEN Superseded(p) ELSE {}]
  OBVIOUS
<1>3. doomed' \in [Proc -> SUBSET Nat] /\ \A g \in doomed'[p] : g < gen[p]
  BY <1>1, <1>2 DEF IInv, TypeOK
<1>4. TypeOK'
  BY <1>3 DEF IInv, TypeOK, PC
<1>5. HolderMoves(p) /\ pc'[p] \in HoldPCs
  BY DEF HolderMoves, HoldPCs, Unmoved, IInv, TypeOK
<1>6. QED
  BY <1>3, <1>4, <1>5, HolderPreserves

LEMMA HeldPreserves ==
  ASSUME IInv, NEW p \in Proc, CheckLegacy(p) \/ EndOperation(p) \/ WriteMarker(p)
  PROVE  IInv'
<1> USE DEF CheckLegacy, EndOperation, WriteMarker, WriteTmp, Released, AfterRelease,
            Goto, shared, local
<1>1. TypeOK'
  BY DEF IInv, TypeOK, PC
<1>2. HolderMoves(p) /\ pc'[p] \in {"release", "held", "relLink", "refused", "idle"}
  BY DEF HolderMoves, HoldPCs, Unmoved, IInv, TypeOK
<1>3. QED
  BY <1>1, <1>2, HolderPreserves DEF HoldPCs

LEMMA ReadOwnPreserves ==
  ASSUME IInv, NEW p \in Proc, ReadOwn(p)
  PROVE  IInv'
<1> USE DEF ReadOwn, AfterRelease, Goto, shared, local
<1>1. TypeOK'
  BY DEF IInv, TypeOK, PC
<1>2. CASE pc[p] = "release"
  <2>1. HolderMoves(p) /\ pc'[p] \in {"relCollect", "refused", "idle"}
    BY <1>2 DEF HolderMoves, HoldPCs, Unmoved, IInv, TypeOK
  <2>2. QED
    BY <1>1, <2>1, HolderPreserves DEF HoldPCs
<1>3. CASE pc[p] = "removed"
  <2>1. At(myId[p], gen[p]) # {Mine(p, FALSE)}
    <3> SUFFICES ASSUME At(myId[p], gen[p]) = {Mine(p, FALSE)} PROVE FALSE
      OBVIOUS
    <3>1. Mine(p, FALSE) \in log
      BY DEF At
    <3>2. \A r \in log : r.by # p
      BY <1>3 DEF IInv, LocalInv
    <3>3. QED
      BY <3>1, <3>2, MineFields
  <2>2. QuietStep(p) /\ pc'[p] \in {"refused", "idle"} /\ myId'[p] = myId[p] /\ made' = made
    BY <1>3, <2>1 DEF QuietStep, SameDir, LogInv, Unmoved, IInv, TypeOK
  <2>3. IdInv(p)'
    BY <1>3, <2>2 DEF IInv, IdInv, Current, KnowsId, PC, QuietStep, SameDir
  <2>4. QED
    BY <1>1, <2>2, <2>3, OutsidePreserves DEF OutsidePCs
<1>4. QED
  BY <1>2, <1>3

LEMMA LinkMarkerPreserves ==
  ASSUME IInv, NEW p \in Proc, LinkMarker(p)
  PROVE  IInv'
<1> USE DEF LinkMarker, Released, AfterRelease, Goto, shared, local
<1> DEFINE a == Record(myId[p], gen[p] + 1, p, tok[p], TRUE)
<1>1. CASE ~(TmpThere(p) /\ At(myId[p], gen[p] + 1) = {})
  <2>1. TypeOK'
    BY <1>1 DEF IInv, TypeOK, PC
  <2>2. HolderMoves(p) /\ pc'[p] \in {"refused", "idle"}
    BY <1>1 DEF HolderMoves, HoldPCs, Unmoved, IInv, TypeOK
  <2>3. QED
    BY <2>1, <2>2, HolderPreserves
<1>2. CASE TmpThere(p) /\ At(myId[p], gen[p] + 1) = {}
  <2>1. /\ pc[p] = "relLink" /\ p \in alive /\ log' = log \union {a}
        /\ pc' = [pc EXCEPT ![p] = AfterRelease(p)]
        /\ UNCHANGED <<dir, made, hasLock, hasId, legacy, alive, myId, tmp, judged, gen,
                       tok, doomed, refusal>>
        /\ dir # 0
    BY <1>2 DEF TmpThere, InLockDir
  <2>2. /\ a \in Records /\ a.id = myId[p] /\ a.gen = gen[p] + 1 /\ a.by = p
    BY DEF IInv, TypeOK, Record, Records
  <2>3. gen[p] \in Nat /\ myId[p] \in Nat /\ myId[p] >= 1 /\ myId[p] <= made
    BY <2>1 DEF IInv, TypeOK, IdInv, KnowsId, PC
  <2>4. Stands(p)
    BY <2>1 DEF IInv, ClaimInv, Holding, HoldPCs
  <2>5. LogInv'
    <3>1. \A r \in log : ~(r.id = a.id /\ r.gen = a.gen)
      BY <1>2, <2>2 DEF At
    <3> HIDE DEF a
    <3>2. QED
      BY <2>1, <2>2, <2>3, <3>1 DEF IInv, LogInv, TypeOK
  <2> HIDE DEF a
  <2>6. TypeOK'
    <3>1. log' \subseteq Records
      BY <2>1, <2>2 DEF IInv, TypeOK
    <3>2. pc' \in [Proc -> PC]
      BY <2>1 DEF IInv, TypeOK, PC
    <3>3. QED
      BY <2>1, <3>1, <3>2 DEF IInv, TypeOK
  <2>7. /\ SameDir /\ pc'[p] \in {"refused", "idle"}
        /\ \A x \in Proc \ {p} : Unmoved(x)
    BY <2>1 DEF SameDir, Unmoved, IInv, TypeOK
  <2>8. ~MayReject(p)' /\ LocalInv(p)' /\ ClaimInv(p)'
    BY <2>7 DEF MayReject, LocalInv, ClaimInv, Holding, HoldPCs
  <2>9. IdInv(p)'
    BY <2>1, <2>3, <2>7 DEF IInv, IdInv, Current
  <2>10. ASSUME NEW q \in Proc, q # p
         PROVE  IdInv(q)' /\ LocalInv(q)' /\ ClaimInv(q)'
    <3>1. IdInv(q)'
      BY <2>7, <2>10, IdFrame
    <3>2. LocalInv(q)' /\ ClaimInv(q)'
      BY <1>2, <2>1, <2>2, <2>3, <2>4, <2>7, <2>8, <2>10, AdditionFrame
    <3>3. QED
      BY <3>1, <3>2
  <2>11. QED
    BY <2>5, <2>6, <2>8, <2>9, <2>10 DEF IInv
<1>3. QED
  BY <1>1, <1>2
----------------------------------------------------------------------------
(* Removing and creating the machine; the environment *)

LEMMA RemovePreserves ==
  ASSUME IInv, NEW p \in Proc, Remove(p)
  PROVE  IInv'
<1> USE DEF Remove, Goto, local
<1>1. TypeOK' /\ dir' = 0 /\ log' = {} /\ pc'[p] = "removed" /\ p \in alive /\ pc[p] = "held"
  BY DEF IInv, TypeOK, PC
<1>2. LogInv'
  BY DEF LogInv
<1>3. Stands(p)
  BY <1>1 DEF IInv, ClaimInv, Holding, HoldPCs
<1>4. ASSUME NEW q \in Proc
      PROVE  IdInv(q)' /\ LocalInv(q)' /\ ClaimInv(q)'
  <2>1. ~Current(q)'
    BY <1>1 DEF Current
  <2>2. q # p => ~Holding(q) /\ pc'[q] = pc[q]
    BY <1>3, StandsUnique DEF IInv, ClaimInv, TypeOK
  <2>3. ~Holding(q)'
    BY <1>1, <2>2 DEF Holding, HoldPCs
  <2>4. IdInv(q)'
    BY <1>1, <2>1, <2>2 DEF IInv, IdInv, KnowsId, PC
  <2>5. LocalInv(q)'
    BY <1>1, <2>2 DEF IInv, LocalInv
  <2>6. QED
    BY <2>1, <2>3, <2>4, <2>5 DEF ClaimInv
<1>5. QED
  BY <1>1, <1>2, <1>4 DEF IInv

\* A new directory is one nobody has read an incarnation of.
LEMMA CreatePreserves ==
  ASSUME IInv, NEW p \in Proc, Create(p)
  PROVE  IInv'
<1> USE DEF Create, Goto, local
<1>1. /\ dir = 0 /\ log' = log /\ log = {} /\ dir' = made + 1 /\ made' = made + 1
      /\ pc[p] = "idle" /\ pc'[p] = "ensure" /\ made \in Nat
      /\ UNCHANGED <<hasLock, hasId, legacy, alive, myId, tmp, judged, gen, tok, doomed, refusal>>
  BY DEF IInv, TypeOK, LogInv
<1>2. made + 1 \in 0..MaxDirs
  BY FileLockAssumption DEF IInv, TypeOK
<1>3. TypeOK'
  BY <1>1, <1>2 DEF IInv, TypeOK, PC
<1>4. LogInv'
  BY <1>1 DEF IInv, LogInv
<1>5. ASSUME NEW q \in Proc
      PROVE  IdInv(q)' /\ LocalInv(q)' /\ ClaimInv(q)'
  <2>1. myId[q] \in Nat /\ myId[q] <= made /\ myId'[q] = myId[q]
    BY <1>1 DEF IInv, IdInv, TypeOK
  <2>2. ~Current(q)'
    BY <1>1, <2>1 DEF Current
  <2>3. q # p => pc'[q] = pc[q]
    BY DEF IInv, TypeOK
  <2>4. ~Holding(q)
    BY <1>1 DEF IInv, ClaimInv, Stands
  <2>5. ~Holding(q)'
    BY <1>1, <2>3, <2>4 DEF Holding, HoldPCs
  <2>6. IdInv(q)'
    BY <1>1, <2>1, <2>2, <2>3 DEF IInv, IdInv, KnowsId, PC
  <2>7. LocalInv(q)'
    BY <1>1, <2>3 DEF IInv, LocalInv
  <2>8. QED
    BY <2>2, <2>5, <2>6, <2>7 DEF ClaimInv
<1>6. QED
  BY <1>3, <1>4, <1>5 DEF IInv

\* Nobody moves: a process dies, or an older quickchr takes or drops its own lock, or
\* nothing happens.
LEMMA EnvironmentPreserves ==
  ASSUME IInv, (\E p \in Proc : Crash(p)) \/ OlderQuickchr \/ UNCHANGED vars
  PROVE  IInv'
<1> USE DEF Crash, OlderQuickchr, vars, shared, local
<1>0. /\ UNCHANGED <<dir, made, hasLock, hasId, log, pc, myId, tmp, judged, gen, tok, doomed,
                    refusal>>
      /\ alive' \subseteq alive /\ (legacy' = legacy \/ legacy' = ~legacy)
  OBVIOUS
<1>1. TypeOK' /\ LogInv' /\ SameDir /\ log' = log
  <2>1. TypeOK'
    BY <1>0 DEF IInv, TypeOK
  <2>2. LogInv'
    BY <1>0 DEF IInv, LogInv
  <2>3. QED
    BY <1>0, <2>1, <2>2 DEF SameDir
<1>2. \A q \in Proc : Unmoved(q) /\ pc'[q] = pc[q]
  BY DEF Unmoved
<1>3. ASSUME NEW q \in Proc
      PROVE  IdInv(q)' /\ LocalInv(q)' /\ ClaimInv(q)'
  <2>1. IdInv(q)'
    BY <1>1, <1>2, IdFrame
  <2>2. Current(q)' => Current(q)
    BY <1>1, <1>2 DEF Current, SameDir, Unmoved
  <2>3. \A x \in Proc : MayReject(x)' => MayReject(x) /\ gen'[x] = gen[x]
    BY <1>1, <1>2 DEF MayReject, Current, SameDir, Unmoved
  <2>4. Stands(q) => Stands(q)'
    BY <1>1, <1>2 DEF Stands, Mine, SameDir, Unmoved
  <2>5. JudgedKept(q) => JudgedKept(q)'
    BY <1>1, <1>2, <2>3 DEF JudgedKept, SameDir, Unmoved
  <2>6. JudgedTop(q) => JudgedTop(q)'
    BY <1>1, <1>2, <2>5 DEF JudgedTop, Live, SameDir, Unmoved
  <2>7. Follows(q) => Follows(q)'
    BY <1>2, <2>5 DEF Follows, Unmoved
  <2>8. Holding(q)' => Holding(q)
    BY <1>1, <1>2 DEF Holding, SameDir, Unmoved
  <2>9. /\ RecordFrom(gen[q]) => RecordFrom(gen[q])'
        /\ RecordAbove(gen[q]) => RecordAbove(gen[q])'
    BY <1>1, <1>2 DEF RecordFrom, RecordAbove, SameDir, Unmoved
  <2>10. ClaimInv(q)'
    BY <1>2, <2>2, <2>4, <2>6, <2>7, <2>8, <2>9 DEF IInv, ClaimInv, Unmoved
  <2>11. LocalInv(q)'
    BY <1>1, <1>2 DEF IInv, LocalInv, Unmoved
  <2>12. QED
    BY <2>1, <2>10, <2>11
<1>4. QED
  BY <1>1, <1>3 DEF IInv

----------------------------------------------------------------------------
(* The invariant *)

LEMMA InitIInv == Init => IInv
<1> SUFFICES ASSUME Init PROVE IInv
  OBVIOUS
<1>1. TypeOK
  <2>1. made \in 0..MaxDirs
    BY FileLockAssumption DEF Init
  <2>2. pc \in [Proc -> PC] /\ judged \in [Proc -> Records \union {NoRecord}]
    BY DEF Init, PC
  <2>3. doomed \in [Proc -> SUBSET Nat]
    BY DEF Init
  <2>4. QED
    BY <2>1, <2>2, <2>3 DEF Init, TypeOK
<1>2. LogInv
  BY DEF Init, LogInv
<1>3. \A p \in Proc : IdInv(p) /\ LocalInv(p) /\ ClaimInv(p)
  BY DEF Init, IdInv, LocalInv, ClaimInv, Current, Holding, HoldPCs, KnowsId
<1>4. QED
  BY <1>1, <1>2, <1>3 DEF IInv

LEMMA NextIInv == IInv /\ [Next]_vars => IInv'
<1> SUFFICES ASSUME IInv, [Next]_vars PROVE IInv'
  OBVIOUS
<1>1. CASE OlderQuickchr
  BY <1>1, EnvironmentPreserves
<1>2. ASSUME NEW p \in Proc,
             \/ Begin(p) \/ Create(p) \/ Acquiring(p) \/ Releasing(p)
             \/ EndOperation(p) \/ Remove(p) \/ Poll(p) \/ GiveUp(p) \/ Crash(p)
      PROVE  IInv'
  <2>1. CASE Begin(p) \/ Poll(p) \/ GiveUp(p)
    BY <2>1, BeginPreserves
  <2>2. CASE Create(p)
    BY <2>2, CreatePreserves
  <2>3. CASE Remove(p)
    BY <2>3, RemovePreserves
  <2>4. CASE Crash(p)
    BY <2>4, EnvironmentPreserves
  <2>5. CASE EndOperation(p)
    BY <2>5, HeldPreserves
  <2>6. CASE Acquiring(p)
    <3>1. CollectClaim(p) => IInv'
      BY ListSupersededPreserves, UnlinkPreserves DEF CollectClaim
    <3>2. QED
      BY <2>6, <3>1, IncarnationPreserves, ListPreserves, InspectPreserves,
         WriteClaimPreserves, LinkClaimPreserves, CheckTopPreserves, CheckFollowsPreserves,
         CheckIncarnationPreserves, RejectPreserves, HeldPreserves
      DEF Acquiring
  <2>7. CASE Releasing(p)
    <3>1. CollectRelease(p) => IInv'
      BY ListSupersededPreserves, UnlinkPreserves DEF CollectRelease
    <3>2. QED
      BY <2>7, <3>1, ReadOwnPreserves, HeldPreserves, LinkMarkerPreserves DEF Releasing
  <2>8. QED
    BY <1>2, <2>1, <2>2, <2>3, <2>4, <2>5, <2>6, <2>7
<1>3. CASE UNCHANGED vars
  BY <1>3, EnvironmentPreserves
<1>4. QED
  BY <1>1, <1>2, <1>3 DEF Next

\* The invariant holds of every behaviour: the types, the shape of the log, and for each
\* contender what its claim rests on at each line of claim() (lock.ts:375-394).
THEOREM Inductive == Spec => []IInv
  BY InitIInv, NextIInv, PTL DEF Spec

\* A holder's record is the top of the machine's current incarnation from the moment
\* claim() returns true until its release() publishes the marker, for any number of
\* contenders, removals, re-creations and deaths.
THEOREM HoldersStand == Spec => []HolderStands
<1>1. IInv => HolderStands
  BY DEF IInv, ClaimInv, HolderStands
<1>2. QED
  BY <1>1, Inductive, PTL

LEMMA UniqueHolder == IInv => MutualExclusion
  BY StandsUnique DEF IInv, ClaimInv, MutualExclusion

\* No two live processes are past claim() on one machine at once: what every operation
\* of quickchr.ts that changes a machine relies on.
THEOREM Exclusion == Spec => []MutualExclusion
  BY UniqueHolder, Inductive, PTL

\* claim()'s byte comparison of the predecessor never turns away a claim that the
\* other two checks accept.
THEOREM ComparisonRedundant == Spec => []TopFollowsJudged
<1>1. IInv => TopFollowsJudged
  <2> SUFFICES ASSUME IInv, NEW p \in Proc, pc[p] = "follows", p \in alive, IsCurrent(p)
               PROVE  FollowsJudged(p)
    BY DEF TopFollowsJudged
  <2>1. Current(p)
    BY DEF IsCurrent, Current, Id, IInv, IdInv, TypeOK, KnowsId, PC
  <2>2. QED
    BY <2>1, JudgedFollows DEF IInv, ClaimInv
<1>2. QED
  BY <1>1, Inductive, PTL
----------------------------------------------------------------------------
(* The top never regresses *)

LEMMA TopKept ==
  ASSUME IInv, [Next]_vars, dir' = dir, NEW r \in log, r.id = dir
  PROVE  \E s \in log' : s.id = dir /\ s.gen >= r.gen
<1>1. r.gen \in Nat /\ dir # 0
  BY RecordTyped DEF IInv, LogInv
<1>2. CASE r \in log'
  BY <1>1, <1>2
<1>3. CASE r \notin log'
  <2>1. PICK p \in Proc :
          \/ Reject(p) \/ Remove(p)
          \/ UnlinkSuperseded(p, "collecting") \/ UnlinkSuperseded(p, "relCollecting")
    <3>1. /\ ~ UNCHANGED vars /\ ~ OlderQuickchr
          /\ \A p \in Proc : ~ (Begin(p) \/ Create(p) \/ EndOperation(p) \/ Poll(p) \/ GiveUp(p))
          /\ \A p \in Proc : ~ Crash(p)
      BY <1>3 DEF vars, shared, local, OlderQuickchr, Begin, Create, EndOperation, Poll, GiveUp,
         Crash, Gone
    <3>2. PICK p \in Proc : Acquiring(p) \/ Releasing(p) \/ Remove(p)
      BY <3>1 DEF Next
    <3>3. CASE Acquiring(p)
      <4>1. ~ (EnsureLockDir(p) \/ ReadId(p) \/ WriteId(p) \/ LinkId(p) \/ RereadId(p))
        BY <1>3 DEF shared, local, Gone, EnsureLockDir, ReadId, WriteId, WriteTmp, LinkId, RereadId
      <4>2. ~ (ListTop(p) \/ Inspect(p) \/ WriteClaim(p) \/ LinkClaim(p))
        BY <1>3 DEF shared, local, Gone, ListTop, Inspect, WriteClaim, WriteTmp, LinkClaim
      <4>3. ~ (CheckTop(p) \/ CheckFollows(p) \/ CheckIncarnation(p) \/ CheckLegacy(p))
        BY <1>3 DEF shared, local, Gone, CheckTop, CheckFollows, CheckIncarnation, CheckLegacy
      <4>4. CollectClaim(p) => UnlinkSuperseded(p, "collecting")
        BY <1>3 DEF shared, local, CollectClaim, ListSuperseded
      <4> QED
        BY <3>3, <4>1, <4>2, <4>3, <4>4 DEF Acquiring
    <3>4. CASE Releasing(p)
      BY <1>3, <3>4 DEF Releasing, shared, local, ReadOwn, CollectRelease, ListSuperseded,
         WriteMarker, WriteTmp, LinkMarker, Released
    <3> QED
      BY <3>2, <3>3, <3>4
  <2>2. CASE Remove(p)
    BY <2>2, <1>1 DEF Remove
  <2>3. CASE Reject(p)
    <3>1. /\ p \in alive /\ pc[p] = "reject" /\ r \in At(myId[p], gen[p])
      BY <2>3, <1>3 DEF Reject, Goto
    <3>2. myId[p] = dir /\ r.gen = gen[p]
      BY <3>1 DEF At
    <3>3. RecordAbove(gen[p])
      BY <3>1, <3>2, <1>1 DEF IInv, ClaimInv, Current
    <3>4. PICK s \in log : s.id = dir /\ s.gen > gen[p]
      BY <3>3 DEF RecordAbove
    <3>5. s.gen \in Nat /\ s.gen >= r.gen
      BY <3>2, <3>4, <1>1, RecordTyped DEF IInv
    <3>6. s.gen # gen[p]
      BY <3>2, <3>4, <3>5, <1>1
    <3>7. s \in log'
      BY <2>3, <3>4, <3>6 DEF Reject, At
    <3>8. QED
      BY <3>4, <3>5, <3>7
  <2>4. CASE UnlinkSuperseded(p, "collecting") \/ UnlinkSuperseded(p, "relCollecting")
    <3>1. PICK g \in doomed[p] : log' = log \ At(myId[p], g)
      BY <2>4 DEF UnlinkSuperseded
    <3>2. Stands(p) /\ g < gen[p]
      BY <2>4 DEF UnlinkSuperseded, Goto, IInv, ClaimInv, LocalInv, Holding, HoldPCs
    <3>3. g \in Nat /\ gen[p] \in Nat
      BY DEF IInv, TypeOK
    <3>4. Mine(p, FALSE) \in log /\ Mine(p, FALSE).id = dir /\ r.gen <= gen[p]
      BY <3>2, MineFields DEF Stands
    <3>5. g # gen[p]
      BY <3>2, <3>3
    <3>6. Mine(p, FALSE) \notin At(myId[p], g)
      BY <3>5, MineFields DEF At
    <3>7. Mine(p, FALSE) \in log' /\ Mine(p, FALSE).gen >= r.gen
      BY <3>1, <3>3, <3>4, <3>6, <1>1, MineFields
    <3>8. QED
      BY <3>4, <3>7
  <2>5. QED
    BY <2>1, <2>2, <2>3, <2>4
<1>4. QED
  BY <1>2, <1>3

\* Whoever unlinks a record, collecting or taking a claim back, a record at least as high
\* stays: the highest number of a directory's incarnation never goes down.
THEOREM TopIsMonotone == Spec => TopNeverRegresses
<1>1. IInv /\ [Next]_vars =>
        [dir' = dir => \A r \in log : r.id = dir =>
                         \E s \in log' : s.id = dir /\ s.gen >= r.gen]_vars
  BY TopKept
<1>2. QED
  BY <1>1, Inductive, PTL DEF Spec, TopNeverRegresses

----------------------------------------------------------------------------
(* The files implement the abstract lock *)

\* A step of p that leaves the directory and the living alone takes the lock, lets it go,
\* or shows nothing.
LEMMA LocalStepRefines ==
  ASSUME IInv, IInv', MutualExclusion', NEW p \in Proc, p \in alive, alive' = alive, dir' = dir,
         \A x \in Proc \ {p} : pc'[x] = pc[x]
  PROVE  [M!Next]_(M!mutexVars)
<1>1. \A x \in Proc \ {p} : x \in Owner' <=> x \in Owner
  BY DEF Owner, Holding
<1>2. Owner \subseteq Proc /\ Owner' \subseteq Proc
  BY DEF Owner
<1>3. CASE p \in Owner <=> p \in Owner'
  <2>1. Owner' = Owner
    BY <1>1, <1>2, <1>3
  <2>2. QED
    BY <2>1 DEF M!mutexVars
<1>4. CASE p \notin Owner /\ p \in Owner'
  <2>1. Owner' = {p}
    BY <1>2, <1>4 DEF Owner, MutualExclusion
  <2>2. Owner = {}
    BY <1>1, <1>2, <1>4, <2>1
  <2>3. dir # 0
    BY <1>4 DEF Owner, IInv, ClaimInv, Stands
  <2>4. M!Acquire(p)
    BY <2>1, <2>2, <2>3 DEF M!Acquire
  <2>5. QED
    BY <2>4 DEF M!Next
<1>5. CASE p \in Owner /\ p \notin Owner'
  <2>1. Owner = {p}
    BY <1>2, <1>5, UniqueHolder DEF Owner, MutualExclusion
  <2>2. Owner' = {}
    BY <1>1, <1>2, <1>5, <2>1
  <2>3. M!Release(p)
    BY <2>1, <2>2 DEF M!Release
  <2>4. QED
    BY <2>3 DEF M!Next
<1>6. QED
  BY <1>3, <1>4, <1>5

LEMMA StepRefines ==
  ASSUME IInv, IInv', MutualExclusion', [Next]_vars
  PROVE  [M!Next]_(M!mutexVars)
<1>1. CASE UNCHANGED vars \/ OlderQuickchr
  <2>1. dir' = dir /\ alive' = alive /\ pc' = pc
    BY <1>1 DEF vars, shared, OlderQuickchr
  <2>2. Owner' = Owner
    BY <2>1 DEF Owner, Holding
  <2>3. QED
    BY <2>1, <2>2 DEF M!mutexVars
<1>2. ASSUME NEW p \in Proc, Crash(p)
      PROVE  [M!Next]_(M!mutexVars)
  <2>1. p \in alive /\ alive' = alive \ {p} /\ dir' = dir /\ pc' = pc
    BY <1>2 DEF Crash
  <2>2. Owner' = Owner \ {p}
    BY <2>1 DEF Owner, Holding
  <2>3. M!Crash(p)
    BY <2>1, <2>2 DEF M!Crash
  <2>4. QED
    BY <2>3 DEF M!Next
<1>3. ASSUME NEW p \in Proc, Create(p)
      PROVE  [M!Next]_(M!mutexVars)
  <2>1. /\ dir = 0 /\ dir' # 0 /\ alive' = alive /\ pc[p] = "idle" /\ pc'[p] = "ensure"
        /\ \A x \in Proc \ {p} : pc'[x] = pc[x]
    BY <1>3 DEF Create, Goto, IInv, TypeOK
  <2>2. Owner' = Owner
    BY <2>1 DEF Owner, Holding, HoldPCs
  <2>3. M!Create
    BY <2>1, <2>2 DEF M!Create
  <2>4. QED
    BY <2>3 DEF M!Next
<1>4. ASSUME NEW p \in Proc, Remove(p)
      PROVE  [M!Next]_(M!mutexVars)
  <2>1. /\ p \in alive /\ dir' = 0 /\ alive' = alive /\ pc[p] = "held" /\ pc'[p] = "removed"
        /\ \A x \in Proc \ {p} : pc'[x] = pc[x]
    BY <1>4 DEF Remove, Goto, local, IInv, TypeOK
  <2>2. Owner = {p}
    BY <2>1, UniqueHolder DEF Owner, Holding, HoldPCs, MutualExclusion
  <2>3. Owner' = {}
    BY <2>1, <2>2 DEF Owner, Holding, HoldPCs
  <2>4. M!Remove(p)
    BY <2>1, <2>2, <2>3 DEF M!Remove
  <2>5. QED
    BY <2>4 DEF M!Next
<1>5. ASSUME NEW p \in Proc,
             Begin(p) \/ Acquiring(p) \/ Releasing(p) \/ EndOperation(p) \/ Poll(p) \/ GiveUp(p)
      PROVE  [M!Next]_(M!mutexVars)
  <2>1. /\ p \in alive /\ alive' = alive /\ dir' = dir
        /\ \E to : pc' = [pc EXCEPT ![p] = to]
    BY <1>5 DEF Begin, Acquiring, Releasing, EndOperation, Poll, GiveUp, Gone, Released, Goto,
       shared, local, EnsureLockDir, ReadId, WriteId, WriteTmp, LinkId, RereadId, ListTop,
       Inspect, WriteClaim, LinkClaim, CheckTop, CheckFollows, CheckIncarnation, Reject,
       CollectClaim, ListSuperseded, UnlinkSuperseded, CheckLegacy, ReadOwn, CollectRelease,
       WriteMarker, LinkMarker
  <2>2. \A x \in Proc \ {p} : pc'[x] = pc[x]
    BY <2>1 DEF IInv, TypeOK
  <2>3. QED
    BY <2>1, <2>2, LocalStepRefines
<1>6. QED
  BY <1>1, <1>2, <1>3, <1>4, <1>5 DEF Next

\* The files of .lock/ implement the abstract lock: claim(), release() and removeMachine()
\* appear to a caller as one atomic step each, and nothing else shows.
THEOREM Refinement == Spec => Implements
<1>1. Init => M!Init
  BY DEF Init, M!Init, Owner, Holding, HoldPCs
<1>2. IInv /\ IInv' /\ MutualExclusion' /\ [Next]_vars => [M!Next]_(M!mutexVars)
  BY StepRefines
<1>3. Spec => []MutualExclusion
  BY Exclusion
<1>4. QED
  BY <1>1, <1>2, <1>3, Inductive, PTL DEF Spec, Implements, M!Spec

----------------------------------------------------------------------------
(* The lock file of a link: file, pc and alive are v1, v2 and v3 *)

LEMMA LockFiles ==
  /\ Entry!Absent.made = FALSE
  /\ \A p, w : /\ Entry!Made(p, w).made = TRUE /\ Entry!Made(p, w).by = p
              /\ Entry!Made(p, w).written = w /\ Entry!Made(p, w) # Entry!Absent
  /\ \A p, q, v, w : Entry!Made(p, v) = Entry!Made(q, w) => p = q /\ v = w
BY DEF Entry!Absent, Entry!Made

LEMMA EntryInit == Entry!Init => Entry!IInv
BY DEF Entry!Init, Entry!IInv, Entry!TypeOK, Entry!AllAlive, Entry!Kept

LEMMA EntryTyped == Entry!TypeOK /\ [Entry!Next]_(Entry!vars) => Entry!TypeOK'
<1> SUFFICES ASSUME Entry!TypeOK, [Entry!Next]_(Entry!vars) PROVE Entry!TypeOK'
  OBVIOUS
<1> USE DEF Entry!TypeOK
<1>1. CASE UNCHANGED Entry!vars
  BY <1>1 DEF Entry!vars
<1>2. ASSUME NEW p \in Linker,
             \/ Entry!Request(p) \/ Entry!OpenFails(p) \/ Entry!ReadNothing(p)
             \/ Entry!GiveUpOnHolder(p) \/ Entry!TimeOut(p)
      PROVE  Entry!TypeOK'
  BY <1>2 DEF Entry!Request, Entry!OpenFails, Entry!ReadNothing, Entry!GiveUpOnHolder,
              Entry!TimeOut, Entry!Goto
<1>3. ASSUME NEW p \in Linker, Entry!Open(p) \/ Entry!Delete(p) \/ Entry!Unlock(p)
      PROVE  Entry!TypeOK'
  BY <1>3 DEF Entry!Open, Entry!Delete, Entry!Unlock, Entry!Goto
<1>4. ASSUME NEW p \in Linker, Entry!Write(p) PROVE Entry!TypeOK'
  BY <1>4 DEF Entry!Write, Entry!Goto
<1>5. ASSUME NEW p \in Linker, Entry!ReadOwner(p) PROVE Entry!TypeOK'
  BY <1>5 DEF Entry!ReadOwner, Entry!Goto
<1>6. ASSUME NEW p \in Linker, Entry!Crash(p) PROVE Entry!TypeOK'
  BY <1>6 DEF Entry!Crash
<1> QED
  BY <1>1, <1>2, <1>3, <1>4, <1>5, <1>6 DEF Entry!Next, Entry!Locking

LEMMA EntryKeptAlive ==
  ASSUME HolderMayStall = FALSE, Entry!TypeOK, Entry!AllAlive, [Entry!Next]_(Entry!vars), v3' = Linker
  PROVE  Entry!AllAlive'
<1> USE DEF Entry!AllAlive, Entry!TypeOK
<1>1. CASE UNCHANGED Entry!vars
  BY <1>1 DEF Entry!vars, Entry!Kept
<1>2. ASSUME NEW p \in Linker, Entry!Request(p) PROVE Entry!AllAlive'
  BY <1>2 DEF Entry!Request, Entry!Goto, Entry!Kept
<1>3. ASSUME NEW p \in Linker, Entry!Open(p) PROVE Entry!AllAlive'
  <2>1. v1' = Entry!Made(p, FALSE) /\ v3' = v3 /\ v2' = [v2 EXCEPT ![p] = "write"]
    BY <1>3 DEF Entry!Open, Entry!Goto
  <2>2. ~v1.made
    BY <1>3 DEF Entry!Open, Entry!CanCreate
  <2>3. \A q \in Linker : v2[q] \notin {"write", "critical"}
    BY <2>2 DEF Entry!Kept, Entry!Made
  <2>4. Entry!Kept'
    BY <2>1, <2>3 DEF Entry!Kept
  <2> QED
    BY <2>1, <2>4
<1>4. ASSUME NEW p \in Linker, Entry!OpenFails(p) PROVE Entry!AllAlive'
  BY <1>4 DEF Entry!OpenFails, Entry!Goto, Entry!Kept
<1>5. ASSUME NEW p \in Linker, Entry!Write(p) PROVE Entry!AllAlive'
  <2>1. v2[p] = "write" /\ v2' = [v2 EXCEPT ![p] = "critical"] /\ v3' = v3
    BY <1>5 DEF Entry!Write, Entry!Goto
  <2>2. v1 = Entry!Made(p, FALSE) /\ v1' = Entry!Made(p, TRUE)
    BY <1>5, <2>1 DEF Entry!Write, Entry!Kept
  <2>3. \A q \in Linker : q # p => v2[q] \notin {"write", "critical"}
    BY <2>2 DEF Entry!Kept, Entry!Made
  <2>4. Entry!Kept'
    BY <2>1, <2>2, <2>3 DEF Entry!Kept
  <2> QED
    BY <2>1, <2>4
<1>6. ASSUME NEW p \in Linker, Entry!ReadNothing(p) PROVE Entry!AllAlive'
  BY <1>6 DEF Entry!ReadNothing, Entry!Goto, Entry!Kept
<1>7. ASSUME NEW p \in Linker, Entry!GiveUpOnHolder(p) PROVE Entry!AllAlive'
  \* Nobody who made a file is dead.
  <2>1. v1.made /\ v1.by \notin Linker
    BY <1>7 DEF Entry!GiveUpOnHolder, Entry!GraceOver
  <2>2. PICK q \in Linker, w \in BOOLEAN : v1 = Entry!Made(q, w)
    BY <2>1, LockFiles
  <2> QED
    BY <2>1, <2>2, LockFiles
<1>8. ASSUME NEW p \in Linker, Entry!ReadOwner(p) PROVE Entry!AllAlive'
  <2>1. v1.made /\ v2' = [v2 EXCEPT ![p] = IF Entry!OwnerAlive(v1.by) THEN "open" ELSE "delete"]
    BY <1>8 DEF Entry!ReadOwner, Entry!Goto, Entry!Unreadable
  <2>2. PICK q \in Linker, w \in BOOLEAN : v1 = Entry!Made(q, w)
    BY <2>1, LockFiles
  <2>3. Entry!OwnerAlive(v1.by)
    BY <2>2, LockFiles DEF Entry!OwnerAlive
  <2>4. v2' = [v2 EXCEPT ![p] = "open"] /\ v1' = v1 /\ v3' = v3
    BY <1>8, <2>1, <2>3 DEF Entry!ReadOwner
  <2> QED
    BY <2>4 DEF Entry!Kept
<1>9. ASSUME NEW p \in Linker, Entry!Delete(p) PROVE Entry!AllAlive'
  BY <1>9 DEF Entry!Delete, Entry!Goto
<1>10. ASSUME NEW p \in Linker, Entry!TimeOut(p) PROVE Entry!AllAlive'
  BY <1>10 DEF Entry!TimeOut, Entry!Goto, Entry!Kept
<1>11. ASSUME NEW p \in Linker, Entry!Unlock(p) PROVE Entry!AllAlive'
  <2>1. v2[p] = "critical" /\ v2' = [v2 EXCEPT ![p] = "idle"] /\ v1' = Entry!Absent /\ v3' = v3
    BY <1>11 DEF Entry!Unlock, Entry!Goto
  <2>2. \A q \in Linker : q # p => v2[q] \notin {"write", "critical"}
    BY <2>1 DEF Entry!Kept, Entry!Made
  <2>3. Entry!Kept'
    BY <2>1, <2>2 DEF Entry!Kept
  <2> QED
    BY <2>1, <2>3
<1>12. ASSUME NEW p \in Linker, Entry!Crash(p) PROVE Entry!AllAlive'
  <2>1. v3' # Linker
    BY <1>12 DEF Entry!Crash
  <2> QED
    BY <1>12, <2>1 DEF Entry!Crash, Entry!Kept
<1> QED
  BY <1>1, <1>2, <1>3, <1>4, <1>5, <1>6, <1>7, <1>8, <1>9, <1>10, <1>11, <1>12
  DEF Entry!Next, Entry!Locking

\* The dead stay dead, so what holds while all are alive was never interrupted.
LEMMA EntryKept ==
  ASSUME HolderMayStall = FALSE, Entry!IInv, [Entry!Next]_(Entry!vars)
  PROVE  Entry!IInv'
<1>1. Entry!TypeOK'
  BY EntryTyped DEF Entry!IInv
<1>2. v3' = Linker => v3 = Linker
  BY DEF Entry!IInv, Entry!TypeOK, Entry!Next, Entry!Locking, Entry!vars, Entry!Request,
         Entry!Open, Entry!OpenFails, Entry!Write, Entry!ReadNothing, Entry!GiveUpOnHolder,
         Entry!ReadOwner, Entry!Delete, Entry!TimeOut, Entry!Unlock, Entry!Crash
<1>3. v3' = Linker => Entry!AllAlive'
  BY <1>2, EntryKeptAlive DEF Entry!IInv
<1> QED
  BY <1>1, <1>3 DEF Entry!IInv

LEMMA EntryExcludes == Entry!IInv => Entry!OneAtATimeUntilADeath /\ Entry!HolderKeepsFile
BY DEF Entry!IInv, Entry!AllAlive, Entry!Kept, Entry!HolderKeepsFile,
       Entry!OneAtATimeUntilADeath, Entry!OneAtATime, Entry!Made

\* Until a process dies in withEntryLock(), if none is held up for half a second between
\* making the lock file and writing its pid, one registry entry is changed by one process
\* at a time, and nobody takes a holder's file away.
THEOREM EntryLockExcludes ==
  ASSUME HolderMayStall = FALSE
  PROVE  Locks => [](OneAtATimeUntilADeath /\ (plays = "entry" => Entry!HolderKeepsFile))
<1> DEFINE Inv == plays = "entry" => Entry!IInv
<1>1. LocksInit => Inv
  BY EntryInit DEF LocksInit
<1>2. Inv /\ [LocksNext]_all => Inv'
  <2> SUFFICES ASSUME Inv, [LocksNext]_all, plays' = "entry" PROVE Entry!IInv'
    OBVIOUS
  <2>1. plays = "entry" /\ (Entry!Next \/ UNCHANGED Entry!vars)
    BY DEF LocksNext, all, slots, Entry!vars
  <2>2. [Entry!Next]_(Entry!vars)
    BY <2>1
  <2> QED
    BY <2>1, <2>2, EntryKept
<1>3. Inv => OneAtATimeUntilADeath /\ (plays = "entry" => Entry!HolderKeepsFile)
  BY EntryExcludes DEF OneAtATimeUntilADeath
<1> QED
  BY <1>1, <1>2, <1>3, PTL DEF Locks
=============================================================================
