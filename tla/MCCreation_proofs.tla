-------------------------- MODULE MCCreation_proofs --------------------------
(***************************************************************************)
(* The creation of machines, for any processes, names, bases and digests.  *)
(*                                                                         *)
(* Nobody but the process that holds the allocation lock adds to what the  *)
(* names stand for, and what a name stands for stays what it is until it   *)
(* is given up (Settled).  So whatever the scans under that lock have      *)
(* still to read, or have read, covers every machine there is (MacsInv,    *)
(* BasesInv), and the claim adds nothing that another name has.            *)
(*                                                                         *)
(* A directory without a readable machine.json is some process's, alive    *)
(* (InFlight, TornInv) or dead: for that one has to know what each process *)
(* that waits for the lock has seen (SeenInv), and whose the directory is  *)
(* (MadeInv).                                                              *)
(*                                                                         *)
(* And the search for a free block, the saved logins, the settings, the    *)
(* channels and the forwards.                                              *)
(***************************************************************************)
EXTENDS MCCreation, SequenceTheorems, FiniteSetTheorems, WellFoundedInduction, TLAPS

----------------------------------------------------------------------------
(* The search for a block of ports: a recursive function over the subsets  *)
(* of the used bases.  That it has a value, and which, is shown by         *)
(* smallest counterexample.                                                *)

\* Induction over a finite set, by its smallest counterexample.
LEMMA Smallest ==
  ASSUME NEW S, IsFiniteSet(S), NEW T \in SUBSET SUBSET S, T # {}
  PROVE  \E s \in T : \A t \in T : t \subseteq s => t = s
<1>1. T \subseteq FiniteSubsetsOf(S)
  BY FS_FiniteSubsetsOfFinite
<1>2. PICK s \in T : \A t \in T : <<t, s>> \notin StrictSubsetOrdering(S)
  BY <1>1, FS_StrictSubsetOrderingWellFounded, WFMin
<1> QED
  BY <1>2 DEF StrictSubsetOrdering

\* Induction over the naturals, by the least counterexample.
LEMMA Least ==
  ASSUME NEW T \in SUBSET Nat, T # {}
  PROVE  \E n \in T : \A m \in T : n <= m
<1>1. PICK n \in T : \A m \in T : <<m, n>> \notin OpToRel(<, Nat)
  BY NatLessThanWellFounded, WFMin
<1> QED
  BY <1>1, \A i, j \in Nat : i < j <=> ~ j <= i DEF OpToRel

----------------------------------------------------------------------------
(* One pass over the used bases *)

UsedBases(S) == S \subseteq Nat /\ IsFiniteSet(S)

LEMMA FewerBases == ASSUME NEW S, UsedBases(S), NEW R, R \subseteq S PROVE UsedBases(R)
BY FS_Subset DEF UsedBases

\* The recursion of NextUnusedBase() over the subsets of S.
Passing(from, S, f) ==
  f = [s \in SUBSET S |->
         IF s = {} THEN from
         ELSE LET u == VisitedLast(s)
                  base == f[s \ {u}]
              IN  IF Overlap(base, u) THEN u + PortsPerBlock ELSE base]

\* A finite set of bases that is not empty has a highest one.
LEMMA VisitedLastIn ==
  ASSUME NEW S, UsedBases(S), S # {}
  PROVE  VisitedLast(S) \in S /\ \A v \in S : v <= VisitedLast(S)
<1> DEFINE Bad == {s \in SUBSET S : s # {} /\ ~ \E u \in s : \A v \in s : v <= u}
<1>1. Bad = {}
  <2> SUFFICES ASSUME Bad # {} PROVE FALSE
    OBVIOUS
  <2>1. PICK s \in Bad : \A t \in Bad : t \subseteq s => t = s
    <3>1. Bad \in SUBSET SUBSET S /\ Bad # {} /\ IsFiniteSet(S)
      BY DEF UsedBases
    <3> HIDE DEF Bad
    <3> QED
      BY ONLY <3>1, Smallest
  <2>2. PICK u \in s : TRUE
    OBVIOUS
  <2>3. s \ {u} \notin Bad
    BY <2>1, <2>2
  <2>4. CASE s \ {u} = {}
    <3>1. \A v \in s : v <= u
      BY <2>2, <2>4 DEF UsedBases
    <3> QED
      BY <2>2, <3>1
  <2>5. CASE s \ {u} # {}
    <3>1. PICK w \in s \ {u} : \A v \in s \ {u} : v <= w
      BY <2>3, <2>5
    <3>2. u \in Nat /\ w \in Nat /\ \A v \in s : v \in Nat
      BY <2>2, <3>1 DEF UsedBases
    <3>3. (u <= w => \A v \in s : v <= w) /\ (~ u <= w => \A v \in s : v <= u)
      BY <3>1, <3>2
    <3> QED
      BY <2>2, <3>1, <3>3
  <2> QED
    BY <2>4, <2>5
<1>2. S \notin Bad
  BY <1>1
<1>3. \E u \in S : \A v \in S : v <= u
  BY <1>2
<1> HIDE DEF Bad
<1> QED
  BY <1>3 DEF VisitedLast

\* The recursion determines the pass.
LEMMA PassingOnce ==
  ASSUME NEW from, NEW A, UsedBases(A), NEW B, UsedBases(B),
         NEW a, NEW b, Passing(from, A, a), Passing(from, B, b)
  PROVE  \A s \in SUBSET (A \intersect B) : a[s] = b[s]
<1> DEFINE Bad == {s \in SUBSET (A \intersect B) : a[s] # b[s]}
<1> SUFFICES ASSUME Bad # {} PROVE FALSE
  OBVIOUS
<1>1. PICK s \in Bad : \A t \in Bad : t \subseteq s => t = s
  <2>1. Bad \in SUBSET SUBSET A /\ Bad # {} /\ IsFiniteSet(A)
    BY DEF UsedBases
  <2> HIDE DEF Bad
  <2> QED
    BY ONLY <2>1, Smallest
<1>2. s \in SUBSET A /\ s \in SUBSET B /\ a[s] # b[s]
  OBVIOUS
<1>3. s # {}
  BY <1>2 DEF Passing
<1> DEFINE u == VisitedLast(s)
<1>4. u \in s
  BY <1>2, <1>3, VisitedLastIn, FewerBases
<1>5. a[s \ {u}] = b[s \ {u}]
  <2>1. s \ {u} \notin Bad
    BY <1>1, <1>4
  <2> HIDE DEF u
  <2> QED
    BY <2>1
<1>6. /\ a[s] = IF Overlap(a[s \ {u}], u) THEN u + PortsPerBlock ELSE a[s \ {u}]
      /\ b[s] = IF Overlap(b[s \ {u}], u) THEN u + PortsPerBlock ELSE b[s \ {u}]
  BY <1>2, <1>3 DEF Passing
<1> QED
  BY <1>2, <1>5, <1>6

\* So the pass over some of the bases is part of the pass over all of them.
LEMMA PassingPart ==
  ASSUME NEW from, NEW S, UsedBases(S), NEW R, R \subseteq S,
         NEW a, NEW b, Passing(from, S, a), Passing(from, R, b)
  PROVE  a[R] = b[R]
<1>1. UsedBases(R)
  BY FewerBases
<1>2. \A s \in SUBSET (S \intersect R) : a[s] = b[s]
  BY ONLY <1>1, UsedBases(S), Passing(from, S, a), Passing(from, R, b), PassingOnce
<1>3. R \in SUBSET (S \intersect R)
  OBVIOUS
<1> QED
  BY <1>2, <1>3

\* And it has a solution.
LEMMA PassingIs ==
  ASSUME NEW from, NEW S, UsedBases(S)
  PROVE  \E f : Passing(from, S, f)
<1> DEFINE Bad == {s \in SUBSET S : ~ \E f : Passing(from, s, f)}
<1> SUFFICES ASSUME Bad # {} PROVE FALSE
  OBVIOUS
<1>1. PICK s \in Bad : \A t \in Bad : t \subseteq s => t = s
  <2>1. Bad \in SUBSET SUBSET S /\ Bad # {} /\ IsFiniteSet(S)
    BY DEF UsedBases
  <2> HIDE DEF Bad
  <2> QED
    BY ONLY <2>1, Smallest
<1>2. \A t \in SUBSET s : t # s => \E f : Passing(from, t, f)
  BY <1>1
<1> DEFINE F(t) == CHOOSE f : Passing(from, t, f)
           Last(t) == VisitedLast(t)
           rest(t) == t \ {Last(t)}
           whole == [t \in SUBSET s |->
                     IF t = {} THEN from
                     ELSE IF Overlap(F(rest(t))[rest(t)], Last(t)) THEN Last(t) + PortsPerBlock
                          ELSE F(rest(t))[rest(t)]]
<1>3. \A t \in SUBSET s : t # s => Passing(from, t, F(t))
  BY <1>2
<1>4. \A t \in SUBSET s : t # {} => Last(t) \in t
  BY VisitedLastIn, FewerBases
<1> HIDE DEF F, Last
<1>5. ASSUME NEW t \in SUBSET s, t # s PROVE whole[t] = F(t)[t]
  <2>1. CASE t = {}
    BY <1>3, <1>5, <2>1 DEF Passing
  <2>2. CASE t # {}
    <3> DEFINE r == rest(t)
    <3>1. r \subseteq t /\ r # s /\ r \in SUBSET s
      BY <1>4, <2>2
    <3>2. UsedBases(t)
      BY FewerBases
    <3>3. Passing(from, t, F(t)) /\ Passing(from, r, F(r))
      BY <1>3, <1>5, <3>1
    <3>4. F(t)[r] = F(r)[r]
      <4> DEFINE a == F(t)
                 b == F(r)
      <4>1. Passing(from, t, a) /\ Passing(from, r, b)
        BY <3>3
      <4> HIDE DEF r, a, b
      <4>2. a[r] = b[r]
        BY <4>1, <3>1, <3>2, PassingPart
      <4> QED
        BY <4>2 DEF a, b
    <3>5. F(t)[t] = IF Overlap(F(t)[r], Last(t)) THEN Last(t) + PortsPerBlock ELSE F(t)[r]
      BY <2>2, <3>3 DEF Passing, Last
    <3> QED
      BY <2>2, <3>4, <3>5
  <2> QED
    BY <2>1, <2>2
<1>6. Passing(from, s, whole)
  <2>1. \A t \in SUBSET s : t # {} => rest(t) \in SUBSET s /\ rest(t) # s
    BY <1>4
  <2>2. \A t \in SUBSET s : t # {} => whole[rest(t)] = F(rest(t))[rest(t)]
    BY <1>5, <2>1
  <2>3. whole = [t \in SUBSET s |->
                 IF t = {} THEN from
                 ELSE IF Overlap(whole[rest(t)], Last(t)) THEN Last(t) + PortsPerBlock
                      ELSE whole[rest(t)]]
    BY <2>2
  <2> QED
    BY <2>3 DEF Passing, Last
<1> QED
  BY <1>6

\* The pass takes the highest base last.
LEMMA PassStep ==
  ASSUME NEW from, NEW S, UsedBases(S)
  PROVE  NextUnusedBase(from, S) =
           IF S = {} THEN from
           ELSE LET u == VisitedLast(S)
                    base == NextUnusedBase(from, S \ {u})
                IN  IF Overlap(base, u) THEN u + PortsPerBlock ELSE base
<1> DEFINE F(s) == CHOOSE f : Passing(from, s, f)
           u == VisitedLast(S)
           R == S \ {u}
<1>1. \A s : NextUnusedBase(from, s) = F(s)[s]
  BY DEF NextUnusedBase, Passing
<1>2. UsedBases(R) /\ R \subseteq S
  BY FewerBases
<1>3. Passing(from, S, F(S))
  BY PassingIs
<1>4. CASE S = {}
  <2> HIDE DEF F
  <2> QED
    BY <1>1, <1>3, <1>4 DEF Passing
<1>5. CASE S # {}
  <2>1. Passing(from, R, F(R))
    <3> HIDE DEF R
    <3> QED
      BY <1>2, PassingIs
  <2>2. F(S)[S] = IF Overlap(F(S)[R], u) THEN u + PortsPerBlock ELSE F(S)[R]
    <3> HIDE DEF F
    <3> QED
      BY <1>3, <1>5 DEF Passing
  <2>3. F(S)[R] = F(R)[R]
    <3> DEFINE a == F(S)
               b == F(R)
    <3>1. Passing(from, S, a) /\ Passing(from, R, b)
      BY <1>3, <2>1
    <3> HIDE DEF R, F, a, b
    <3>2. a[R] = b[R]
      BY <1>2, <3>1, PassingPart
    <3> QED
      BY <3>2 DEF a, b
  <2> HIDE DEF F, R
  <2>4. NextUnusedBase(from, S) = IF Overlap(NextUnusedBase(from, R), u) THEN u + PortsPerBlock
                                  ELSE NextUnusedBase(from, R)
    BY <1>1, <2>2, <2>3
  <2> QED
    BY <1>5, <2>4 DEF R
<1> QED
  BY <1>4, <1>5

\* Moving past a used base that is above the others keeps what the pass has reached lowest.
LEMMA StepKeepsLowest ==
  ASSUME NEW S, UsedBases(S), NEW u \in S, \A v \in S : v <= u,
         NEW from \in Nat, NEW base \in Nat, IsLowestUnused(base, from, S \ {u}),
         NEW new, new = IF Overlap(base, u) THEN u + PortsPerBlock ELSE base
  PROVE  new \in Nat /\ IsLowestUnused(new, from, S)
<1>1. /\ u \in Nat /\ S \subseteq Nat /\ PortsPerBlock \in Nat \ {0}
      /\ base >= from
  BY PortsAssumption DEF IsLowestUnused, UsedBases
<1>2. CASE ~ Overlap(base, u)
  <2>1. \A v \in S : ~ Overlap(base, v)
    BY <1>2 DEF IsLowestUnused
  <2>2. \A b \in from..(base - 1) : \E v \in S : Overlap(b, v)
    BY DEF IsLowestUnused
  <2> QED
    BY <1>1, <1>2, <2>1, <2>2 DEF IsLowestUnused
<1>3. CASE Overlap(base, u)
  <2>1. new = u + PortsPerBlock /\ base - u < PortsPerBlock /\ u - base < PortsPerBlock
    BY <1>3 DEF Overlap
  <2>2. new \in Nat /\ new >= from
    BY <1>1, <2>1
  <2>3. \A v \in S : ~ Overlap(new, v)
    <3> SUFFICES ASSUME NEW v \in S PROVE ~ Overlap(new, v)
      OBVIOUS
    <3> v \in Nat /\ v <= u
      BY <1>1
    <3> QED
      BY <1>1, <2>1 DEF Overlap
  <2>4. ASSUME NEW b \in from..(new - 1) PROVE \E v \in S : Overlap(b, v)
    <3>1. CASE b < base
      <4>1. b \in from..(base - 1)
        BY <1>1, <2>2, <3>1
      <4> QED
        BY <4>1 DEF IsLowestUnused
    <3>2. CASE ~ b < base
      <4>1. b - u < PortsPerBlock /\ u - b < PortsPerBlock
        BY <1>1, <2>1, <2>2, <3>2
      <4> QED
        BY <4>1 DEF Overlap
    <3> QED
      BY <3>1, <3>2
  <2> QED
    BY <2>2, <2>3, <2>4 DEF IsLowestUnused
<1> QED
  BY <1>2, <1>3

\* nextUnusedBase() returns what its comment promises: the lowest base at or above `from`
\* whose block overlaps no used block, for any used bases and any size of a block
\* (network.ts:44-51).
THEOREM NextIsLowest ==
  ASSUME NEW from \in Nat, NEW S, UsedBases(S)
  PROVE  /\ NextUnusedBase(from, S) \in Nat
         /\ IsLowestUnused(NextUnusedBase(from, S), from, S)
<1> DEFINE Right(s) == /\ NextUnusedBase(from, s) \in Nat
                       /\ IsLowestUnused(NextUnusedBase(from, s), from, s)
           Bad == {s \in SUBSET S : ~ Right(s)}
<1> SUFFICES ASSUME Bad # {} PROVE FALSE
  BY Zenon
<1>1. PICK s \in Bad : \A t \in Bad : t \subseteq s => t = s
  <2>1. Bad \in SUBSET SUBSET S /\ Bad # {} /\ IsFiniteSet(S)
    BY DEF UsedBases
  <2> HIDE DEF Bad
  <2> QED
    BY ONLY <2>1, Smallest
<1>2. UsedBases(s)
  BY FewerBases
<1> DEFINE u == VisitedLast(s)
           base == NextUnusedBase(from, s \ {u})
<1>3. s # {}
  <2> SUFFICES ASSUME s = {} PROVE Right(s)
    OBVIOUS
  <2>1. NextUnusedBase(from, s) = from
    BY <1>2, PassStep
  <2>2. IsLowestUnused(from, from, s)
    BY DEF IsLowestUnused
  <2> QED
    BY <2>1, <2>2
<1>4. u \in s /\ \A v \in s : v <= u
  BY <1>2, <1>3, VisitedLastIn
<1>5. Right(s \ {u})
  <2>1. s \ {u} \in SUBSET S /\ s \ {u} # s /\ s \ {u} \subseteq s
    BY <1>4
  <2> HIDE DEF u, Right
  <2> QED
    BY <1>1, <2>1
<1>6. NextUnusedBase(from, s) = IF Overlap(base, u) THEN u + PortsPerBlock ELSE base
  BY <1>2, <1>3, PassStep
<1>7. Right(s)
  <2> DEFINE new == NextUnusedBase(from, s)
  <2>1. base \in Nat /\ IsLowestUnused(base, from, s \ {u})
    BY <1>5
  <2>2. new = IF Overlap(base, u) THEN u + PortsPerBlock ELSE base
    BY <1>6
  <2> HIDE DEF u, base, new
  <2>3. new \in Nat /\ IsLowestUnused(new, from, s)
    BY <1>2, <1>4, <2>1, <2>2, StepKeepsLowest
  <2> QED
    BY <2>3 DEF new
<1> QED
  BY <1>7

----------------------------------------------------------------------------
(* The inductive invariant *)

Holding ==
  {"recheck", "claimed", "build", "saving", "cleanup", "release", "locked", "rewriting"}

Choosing ==
  {"machines", "reserved", "bases", "macs", "ensure", "claim", "recheck", "claimed", "abandon"}

\* Who holds a lock is where its holders are.
LocksInv ==
  /\ \A p \in Proc : pc[p] \in Holding => owner[Target[p]] = p
  /\ \A n \in Name : owner[n] # Nobody => pc[owner[n]] \in Holding /\ Target[owner[n]] = n
  /\ \A p \in Proc : pc[p] \in Choosing <=> allocator = p
  /\ \A n \in Name : owner[n] # Nobody \/ json[n] # NoJson => n \in dir

\* What the holder of a machine's lock has made of it, and that its record reserves what it
\* picked.
Held(p) ==
  LET n == Target[p]
      mine == Json(p, picked[p], TRUE)
  IN  /\ \/ pc[p] \in {"recheck", "claimed", "build", "saving", "cleanup"}
         \/ pc[p] = "release" /\ p \in Creator
         => reserve[n] = picked[p] /\ picked[p].mac # 0
      /\ pc[p] \in {"ensure", "claim"} => picked[p].mac # 0
      /\ pc[p] \in {"claimed", "build"} => json[n] = NoJson
      /\ pc[p] = "saving" => json[n] = mine
      /\ pc[p] = "cleanup" => json[n] \in {NoJson, mine}
      /\ pc[p] = "rewriting" => json[n] # NoJson /\ p \in Rewriter
      /\ p \in Rewriter /\ pc[p] \in {"lock", "locked", "rewriting"} => saw[p] # Nobody

HolderInv == \A p \in Proc : Held(p)

\* What the scans have gathered is finite, so there is an address that is not among it.
FiniteInv == \A p \in Proc : IsFiniteSet(bases[p]) /\ IsFiniteSet(macs[p])

\* What a scan has still to see of another machine, or has seen.
MacsCovered(p, m, r) ==
  /\ pc[p] = "reserved" => m \in todo[p] \/ Readable(m) \/ r.mac \in macs[p]
  /\ pc[p] = "bases" => Readable(m) \/ r.mac \in macs[p]
  /\ pc[p] = "macs" => (Readable(m) /\ m \in todo[p]) \/ r.mac \in macs[p]
  /\ pc[p] \in {"ensure", "claim"} => r.mac # picked[p].mac

BasesCovered(p, m, r) ==
  /\ pc[p] = "reserved" => m \in todo[p] \/ Readable(m) \/ r.base \in bases[p]
  /\ pc[p] = "bases" => (Readable(m) /\ m \in todo[p]) \/ r.base \in bases[p]
  /\ pc[p] \in {"macs", "ensure", "claim"} => ~ Overlap(r.base, picked[p].base)

MacsInv ==
  Unhidden =>
    \A p \in Creator : \A m \in Name \ {Target[p]} : \A r \in Resources(m) : MacsCovered(p, m, r)

BasesInv ==
  Automatic =>
    \A p \in Creator : \A m \in Name \ {Target[p]} : \A r \in Resources(m) : BasesCovered(p, m, r)

IInv ==
  /\ TypeOK /\ LocksInv /\ HolderInv /\ FiniteInv
  /\ MacsInv /\ DistinctMacs /\ BasesInv /\ DistinctAutomaticBlocks

----------------------------------------------------------------------------
(* The candidates for a block, and the address *)

Blocks(used, D, f) ==
  f = [k \in D |-> IF k = 0 THEN NextUnusedBase(DefaultPortBase, used)
                   ELSE NextUnusedBase(f[k - 1] + PortsPerBlock, used)]

\* The recursion of the candidates determines them, as far as it goes.
LEMMA BlocksOnce ==
  ASSUME NEW used, NEW j \in Nat, NEW k \in Nat, NEW f, NEW g,
         Blocks(used, 0..j, f), Blocks(used, 0..k, g)
  PROVE  \A i \in Nat : i <= j /\ i <= k => f[i] = g[i]
<1> DEFINE Bad == {i \in Nat : i <= j /\ i <= k /\ f[i] # g[i]}
<1> SUFFICES ASSUME Bad # {} PROVE FALSE
  OBVIOUS
<1>1. PICK i \in Bad : \A h \in Bad : i <= h
  <2>1. Bad \in SUBSET Nat
    OBVIOUS
  <2> HIDE DEF Bad
  <2> QED
    BY <2>1, Least
<1>2. i \in Nat /\ i <= j /\ i <= k /\ f[i] # g[i]
  BY <1>1
<1> DEFINE next(b) == NextUnusedBase(b + PortsPerBlock, used)
<1>3. /\ f[i] = IF i = 0 THEN NextUnusedBase(DefaultPortBase, used) ELSE next(f[i - 1])
      /\ g[i] = IF i = 0 THEN NextUnusedBase(DefaultPortBase, used) ELSE next(g[i - 1])
  <2>1. i \in 0..j /\ i \in 0..k
    BY <1>2
  <2> HIDE DEF Bad
  <2> QED
    BY <2>1 DEF Blocks
<1>4. i # 0
  BY <1>2, <1>3
<1>5. f[i - 1] = g[i - 1]
  BY <1>1, <1>2, <1>4
<1> HIDE DEF next
<1> QED
  BY <1>2, <1>3, <1>4, <1>5

\* And it goes as far as one likes.
LEMMA BlocksAre ==
  ASSUME NEW used, NEW k \in Nat
  PROVE  \E f : Blocks(used, 0..k, f)
<1> DEFINE Bad == {i \in Nat : ~ \E f : Blocks(used, 0..i, f)}
<1> SUFFICES ASSUME Bad # {} PROVE FALSE
  OBVIOUS
<1>1. PICK i \in Bad : \A h \in Bad : i <= h
  <2>1. Bad \in SUBSET Nat
    OBVIOUS
  <2> HIDE DEF Bad
  <2> QED
    BY <2>1, Least
<1>2. CASE i = 0
  <2>1. Blocks(used, 0..0, [h \in 0..0 |-> NextUnusedBase(DefaultPortBase, used)])
    BY DEF Blocks
  <2> QED
    BY <1>1, <1>2, <2>1
<1>3. CASE i # 0
  <2>1. i - 1 \in Nat /\ i - 1 \notin Bad
    BY <1>1, <1>3
  <2>2. PICK f : Blocks(used, 0..(i - 1), f)
    BY <2>1
  <2> DEFINE g == [h \in 0..i |-> IF h = i THEN NextUnusedBase(f[i - 1] + PortsPerBlock, used)
                                  ELSE f[h]]
  <2>3. \A h \in 0..(i - 1) : f[h] = IF h = 0 THEN NextUnusedBase(DefaultPortBase, used)
                                     ELSE NextUnusedBase(f[h - 1] + PortsPerBlock, used)
    <3> HIDE DEF Bad
    <3> QED
      BY <2>2 DEF Blocks
  <2>4. \A h \in 0..i : h # i => g[h] = IF h = 0 THEN NextUnusedBase(DefaultPortBase, used)
                                       ELSE NextUnusedBase(g[h - 1] + PortsPerBlock, used)
    <3> SUFFICES ASSUME NEW h \in 0..i, h # i
                 PROVE  g[h] = IF h = 0 THEN NextUnusedBase(DefaultPortBase, used)
                               ELSE NextUnusedBase(g[h - 1] + PortsPerBlock, used)
      OBVIOUS
    <3>1. h \in 0..(i - 1) /\ g[h] = f[h] /\ (h # 0 => g[h - 1] = f[h - 1])
      BY <1>1, <1>3
    <3> HIDE DEF g, Bad
    <3> QED
      BY <2>3, <3>1
  <2>5. g[i] = NextUnusedBase(g[i - 1] + PortsPerBlock, used)
    BY <1>1, <1>3
  <2>6. Blocks(used, 0..i, g)
    BY <1>3, <2>4, <2>5 DEF Blocks
  <2> QED
    BY <1>1, <2>6
<1> QED
  BY <1>2, <1>3

\* The candidates of a search, one after the other.
LEMMA CandidateSteps ==
  ASSUME NEW used
  PROVE  Blocks(used, Nat, Candidate(used))
<1> DEFINE F(k) == CHOOSE f : Blocks(used, 0..k, f)
           whole == [k \in Nat |-> F(k)[k]]
<1>1. \A k \in Nat : Blocks(used, 0..k, F(k))
  BY BlocksAre
<1> HIDE DEF F
<1>2. ASSUME NEW k \in Nat, k # 0
      PROVE  whole[k] = NextUnusedBase(whole[k - 1] + PortsPerBlock, used)
  <2>1. F(k)[k - 1] = F(k - 1)[k - 1]
    BY <1>1, <1>2, BlocksOnce
  <2>2. F(k)[k] = NextUnusedBase(F(k)[k - 1] + PortsPerBlock, used)
    BY <1>1, <1>2 DEF Blocks
  <2> QED
    BY <1>2, <2>1, <2>2
<1>3. whole[0] = NextUnusedBase(DefaultPortBase, used)
  BY <1>1 DEF Blocks
<1>4. Blocks(used, Nat, whole)
  BY <1>2, <1>3 DEF Blocks
<1> HIDE DEF whole
<1> QED
  BY <1>4 DEF Candidate, Blocks

\* Each block that a search tries overlaps none of the used ones.
LEMMA CandidatesFree ==
  ASSUME NEW used, UsedBases(used)
  PROVE  \A k \in Nat : /\ Candidate(used)[k] \in Nat
                        /\ \A u \in used : ~ Overlap(Candidate(used)[k], u)
<1> DEFINE block == Candidate(used)
           Right(k) == block[k] \in Nat /\ \A u \in used : ~ Overlap(block[k], u)
           Bad == {k \in Nat : ~ Right(k)}
<1> SUFFICES ASSUME Bad # {} PROVE FALSE
  BY Zenon
<1>1. PICK k \in Bad : \A h \in Bad : k <= h
  <2>1. Bad \in SUBSET Nat
    OBVIOUS
  <2> HIDE DEF Bad
  <2> QED
    BY <2>1, Least
<1>2. \A i \in Nat : block[i] = IF i = 0 THEN NextUnusedBase(DefaultPortBase, used)
                                ELSE NextUnusedBase(block[i - 1] + PortsPerBlock, used)
  <2>1. Blocks(used, Nat, block)
    BY CandidateSteps
  <2> HIDE DEF block
  <2> QED
    BY <2>1 DEF Blocks
<1>3. \A from \in Nat : /\ NextUnusedBase(from, used) \in Nat
                        /\ \A u \in used : ~ Overlap(NextUnusedBase(from, used), u)
  BY NextIsLowest DEF IsLowestUnused
<1> HIDE DEF block
<1>4. CASE k = 0
  BY <1>1, <1>2, <1>3, <1>4, PortsAssumption
<1>5. CASE k # 0
  <2>1. k - 1 \in Nat /\ block[k - 1] \in Nat
    BY <1>1, <1>5
  <2> QED
    BY <1>1, <1>2, <1>3, <1>5, <2>1, PortsAssumption
<1> QED
  BY <1>4, <1>5

\* A name has more addresses than are taken: the first free one is none of these.
LEMMA FirstFreeIs ==
  ASSUME NEW n \in Name, NEW taken, IsFiniteSet(taken)
  PROVE  FirstFree(n, taken) \in Nat \ {0} /\ FirstFree(n, taken) \notin taken
<1> DEFINE d == Digest[n]
           salted == d..(d + Cardinality(taken))
           Open == {m \in salted : m \notin taken}
<1>1. d \in Nat \ {0} /\ Cardinality(taken) \in Nat
  BY AllocationAssumption, FS_CardinalityType
<1>2. salted \subseteq Nat \ {0} /\ IsFiniteSet(salted)
      /\ Cardinality(salted) = Cardinality(taken) + 1
  <2> DEFINE c == Cardinality(taken)
  <2> HIDE DEF d, c
  <2>1. d \in Nat \ {0} /\ c \in Nat
    BY <1>1 DEF c
  <2>2. d..(d + c) \subseteq Nat \ {0} /\ IsFiniteSet(d..(d + c))
        /\ Cardinality(d..(d + c)) = c + 1
    BY <2>1, FS_Interval
  <2> QED
    BY <2>2 DEF c
<1>3. Open # {}
  <2> SUFFICES ASSUME salted \subseteq taken PROVE FALSE
    OBVIOUS
  <2>1. Cardinality(salted) <= Cardinality(taken)
    BY FS_Subset
  <2> QED
    BY <1>1, <1>2, <2>1
<1>4. PICK m \in Open : \A k \in Open : m <= k
  <2>1. Open \in SUBSET Nat
    BY <1>2
  <2> HIDE DEF Open
  <2> QED
    BY <1>3, <2>1, Least
<1>5. m \in salted /\ m \notin taken /\ \A k \in d..(m - 1) : k \in taken
  BY <1>1, <1>4
<1>6. \E a \in salted : a \notin taken /\ \A k \in d..(a - 1) : k \in taken
  BY <1>5
<1>7. FirstFree(n, taken) \in salted /\ FirstFree(n, taken) \notin taken
  BY <1>6 DEF FirstFree
<1> QED
  BY <1>2, <1>7

----------------------------------------------------------------------------
(* Types *)

LEMMA Roles ==
  /\ \A p \in Creator : p \in Proc /\ p \notin Changer /\ Target[p] \in Name /\ PortBase[p] \in Nat
  /\ \A p \in Changer : p \in Proc /\ p \notin Creator /\ Target[p] \in Name
  /\ \A p \in Proc : p # Nobody /\ Target[p] \in Name
  /\ \A p \in Proc : p \in Creator \/ p \in Changer
BY AllocationAssumption DEF Proc, Creator, Changer

PcType ==
  /\ pc \in [Proc -> CreatorSteps \union ChangerSteps]
  /\ \A p \in Proc : pc[p] \in IF p \in Creator THEN CreatorSteps ELSE ChangerSteps

DiskType ==
  /\ dir \subseteq Name
  /\ json \in [Name -> [by : Proc, base : Nat, mac : Nat, torn : BOOLEAN] \union {NoJson}]
  /\ owner \in [Name -> Proc \union {Nobody}]
  /\ reserve \in [Name -> [base : Nat, mac : Nat]]
  /\ allocator \in Creator \union {Nobody}

LocalType ==
  /\ todo \in [Proc -> SUBSET Name]
  /\ bases \in [Proc -> SUBSET Nat] /\ macs \in [Proc -> SUBSET Nat]
  /\ picked \in [Proc -> [base : Nat, mac : Nat]]
  /\ fresh \in [Proc -> BOOLEAN] /\ tries \in [Proc -> 0..MaxTries]
  /\ saw \in [Proc -> Proc \union {Nobody}]

LEMMA Types == TypeOK <=> PcType /\ DiskType /\ LocalType
BY DEF TypeOK, PcType, DiskType, LocalType

LEMMA PcMoves ==
  ASSUME PcType, NEW p \in Proc, NEW from, NEW to, Goto(p, from, to),
         to \in IF p \in Creator THEN CreatorSteps ELSE ChangerSteps
  PROVE  PcType'
BY DEF PcType, Goto

LEMMA PcStep == ASSUME PcType, Next PROVE PcType'
<1>1. ASSUME NEW p \in Creator, Look(p) PROVE PcType'
  BY <1>1, PcMoves, Roles DEF Look, CreatorSteps, ChangerSteps
<1>2. ASSUME NEW p \in Creator, MarkFresh(p) PROVE PcType'
  BY <1>2, PcMoves, Roles DEF MarkFresh, CreatorSteps, ChangerSteps
<1>3. ASSUME NEW p \in Creator, Allocate(p) PROVE PcType'
  BY <1>3, PcMoves, Roles DEF Allocate, CreatorSteps, ChangerSteps
<1>4. ASSUME NEW p \in Creator, AllocateTimesOut(p) PROVE PcType'
  BY <1>4, PcMoves, Roles DEF AllocateTimesOut, CreatorSteps, ChangerSteps
<1>5. ASSUME NEW p \in Creator, NEW n \in Name, ReadMachine(p, n) PROVE PcType'
  BY <1>5 DEF PcType, ReadMachine
<1>6. ASSUME NEW p \in Creator, NEW n \in Name, ReadReservation(p, n) PROVE PcType'
  BY <1>6 DEF PcType, ReadReservation
<1>7. ASSUME NEW p \in Creator, ListReservations(p) PROVE PcType'
  BY <1>7, PcMoves, Roles DEF ListReservations, NextScan, CreatorSteps, ChangerSteps
<1>8. ASSUME NEW p \in Creator, ListBases(p) PROVE PcType'
  BY <1>8, PcMoves, Roles DEF ListBases, NextScan, CreatorSteps, ChangerSteps
<1>9. ASSUME NEW p \in Creator, CheckExplicit(p) PROVE PcType'
  BY <1>9, PcMoves, Roles DEF CheckExplicit, NextScan, CreatorSteps, ChangerSteps
<1>10. ASSUME NEW p \in Creator, PickBase(p) PROVE PcType'
  BY <1>10, PcMoves, Roles DEF PickBase, NextScan, CreatorSteps, ChangerSteps
<1>11. ASSUME NEW p \in Creator, PickMac(p) PROVE PcType'
  BY <1>11, PcMoves, Roles DEF PickMac, CreatorSteps, ChangerSteps
<1>12. ASSUME NEW p \in Creator, EnsureDir(p) PROVE PcType'
  BY <1>12, PcMoves, Roles DEF EnsureDir, CreatorSteps, ChangerSteps
<1>13. ASSUME NEW p \in Creator, Claim(p) PROVE PcType'
  BY <1>13, PcMoves, Roles DEF Claim, CreatorSteps, ChangerSteps
<1>14. ASSUME NEW p \in Creator, Recheck(p) PROVE PcType'
  BY <1>14, PcMoves, Roles DEF Recheck, CreatorSteps, ChangerSteps
<1>15. ASSUME NEW p \in Creator, ReleaseAllocator(p) PROVE PcType'
  BY <1>15, PcMoves, Roles DEF ReleaseAllocator, CreatorSteps, ChangerSteps
<1>16. ASSUME NEW p \in Creator, Save(p) PROVE PcType'
  BY <1>16, PcMoves, Roles DEF Save, CreatorSteps, ChangerSteps
<1>17. ASSUME NEW p \in Creator, Saved(p) PROVE PcType'
  BY <1>17, PcMoves, Roles DEF Saved, CreatorSteps, ChangerSteps
<1>18. ASSUME NEW p \in Creator, Fail(p) PROVE PcType'
  BY <1>18, PcMoves, Roles DEF Fail, CreatorSteps, ChangerSteps
<1>19. ASSUME NEW p \in Creator, CleanUp(p) PROVE PcType'
  BY <1>19, PcMoves, Roles DEF CleanUp, CreatorSteps, ChangerSteps
<1>20. ASSUME NEW p \in Changer, LookUp(p) PROVE PcType'
  BY <1>20, PcMoves, Roles DEF LookUp, CreatorSteps, ChangerSteps
<1>21. ASSUME NEW p \in Changer, LockExisting(p) PROVE PcType'
  BY <1>21, PcMoves, Roles DEF LockExisting, CreatorSteps, ChangerSteps
<1>22. ASSUME NEW p \in Changer, Turned(p) PROVE PcType'
  BY <1>22, PcMoves, Roles DEF Turned, CreatorSteps, ChangerSteps
<1>23. ASSUME NEW p \in Changer, Rewrite(p) PROVE PcType'
  BY <1>23, PcMoves, Roles DEF Rewrite, CreatorSteps, ChangerSteps
<1>24. ASSUME NEW p \in Changer, Rewritten(p) PROVE PcType'
  BY <1>24, PcMoves, Roles DEF Rewritten, CreatorSteps, ChangerSteps
<1>25. ASSUME NEW p \in Changer, Remove(p) PROVE PcType'
  BY <1>25, PcMoves, Roles DEF Remove, CreatorSteps, ChangerSteps
<1>26. ASSUME NEW p \in Proc, Release(p) PROVE PcType'
  BY <1>26, PcMoves, Roles DEF Release, CreatorSteps, ChangerSteps
<1>27. ASSUME NEW p \in Proc, Crash(p) PROVE PcType'
  BY <1>27, Roles DEF PcType, Crash, CreatorSteps, ChangerSteps
<1> QED
  BY <1>1, <1>2, <1>3, <1>4, <1>5, <1>6, <1>7, <1>8, <1>9, <1>10, <1>11, <1>12, <1>13, <1>14,
     <1>15, <1>16, <1>17, <1>18, <1>19, <1>20, <1>21, <1>22, <1>23, <1>24, <1>25, <1>26, <1>27,
     Roles DEF Next, Creating, Changing

LEMMA LocksType ==
  ASSUME DiskType, NEW n \in Name, NEW p \in Proc \union {Nobody}, NEW r \in [base : Nat, mac : Nat],
         Lock(n, p, r)
  PROVE  /\ owner' \in [Name -> Proc \union {Nobody}]
         /\ reserve' \in [Name -> [base : Nat, mac : Nat]]
BY DEF DiskType, Lock

LEMMA NothingReserved == NoResources \in [base : Nat, mac : Nat]
BY DEF NoResources

\* A machine.json is told from a missing one by who wrote it.
LEMMA JsonIs ==
  ASSUME NEW p \in Proc, NEW r
  PROVE  /\ Json(p, r, TRUE) # NoJson /\ Json(p, r, TRUE).by = p /\ Json(p, r, TRUE).torn
         /\ Json(p, r, TRUE).base = r.base /\ Json(p, r, TRUE).mac = r.mac
         /\ NoJson.by = Nobody
<1>1. Json(p, r, TRUE).by = p /\ p # Nobody
  BY Roles DEF Json
<1>2. NoJson.by = Nobody
  BY DEF NoJson
<1>3. Json(p, r, TRUE) # NoJson
  BY <1>1, <1>2
<1> QED
  BY <1>2, <1>3, Roles DEF Json

\* What a machine.json says, where there is one.
LEMMA JsonHas ==
  ASSUME DiskType, NEW n \in Name, json[n] # NoJson
  PROVE  /\ json[n] \in [by : Proc, base : Nat, mac : Nat, torn : BOOLEAN]
         /\ json[n].by \in Proc /\ json[n].base \in Nat /\ json[n].mac \in Nat
         /\ json[n].torn \in BOOLEAN
BY DEF DiskType

LEMMA RemoveType == ASSUME DiskType, NEW n \in Name, RemoveDir(n), UNCHANGED allocator PROVE DiskType'
BY LocksType, NothingReserved DEF RemoveDir, Unlock, DiskType

LEMMA JsonType ==
  ASSUME DiskType, NEW n \in Name, json[n] # NoJson, NEW t \in BOOLEAN,
         json' = [json EXCEPT ![n].torn = t], UNCHANGED <<dir, owner, reserve, allocator>>
  PROVE  DiskType'
<1>1. json[n] \in [by : Proc, base : Nat, mac : Nat, torn : BOOLEAN]
  BY DEF DiskType
<1>2. [json[n] EXCEPT !.torn = t] \in [by : Proc, base : Nat, mac : Nat, torn : BOOLEAN]
  BY <1>1
<1>3. json' = [json EXCEPT ![n] = [json[n] EXCEPT !.torn = t]]
  OBVIOUS
<1>4. json' \in [Name -> [by : Proc, base : Nat, mac : Nat, torn : BOOLEAN] \union {NoJson}]
  BY <1>2, <1>3 DEF DiskType
<1> QED
  BY <1>4 DEF DiskType

LEMMA DiskStep == ASSUME DiskType, LocalType, HolderInv, Next PROVE DiskType'
<1>1. ASSUME NEW p \in Creator, Look(p) PROVE DiskType'
  BY <1>1 DEF DiskType, Look, disk
<1>2. ASSUME NEW p \in Creator, MarkFresh(p) PROVE DiskType'
  BY <1>2 DEF DiskType, MarkFresh, disk
<1>3. ASSUME NEW p \in Creator, Allocate(p) PROVE DiskType'
  BY <1>3 DEF DiskType, Allocate
<1>4. ASSUME NEW p \in Creator, AllocateTimesOut(p) PROVE DiskType'
  BY <1>4 DEF DiskType, AllocateTimesOut, disk
<1>5. ASSUME NEW p \in Creator, NEW n \in Name, ReadMachine(p, n) PROVE DiskType'
  BY <1>5 DEF DiskType, ReadMachine, disk
<1>6. ASSUME NEW p \in Creator, NEW n \in Name, ReadReservation(p, n) PROVE DiskType'
  BY <1>6 DEF DiskType, ReadReservation, disk
<1>7. ASSUME NEW p \in Creator, ListReservations(p) PROVE DiskType'
  BY <1>7 DEF DiskType, ListReservations, disk
<1>8. ASSUME NEW p \in Creator, ListBases(p) PROVE DiskType'
  BY <1>8 DEF DiskType, ListBases, disk
<1>9. ASSUME NEW p \in Creator, CheckExplicit(p) PROVE DiskType'
  BY <1>9 DEF DiskType, CheckExplicit, disk
<1>10. ASSUME NEW p \in Creator, PickBase(p) PROVE DiskType'
  BY <1>10 DEF DiskType, PickBase, disk
<1>11. ASSUME NEW p \in Creator, PickMac(p) PROVE DiskType'
  BY <1>11 DEF DiskType, PickMac, disk
<1>12. ASSUME NEW p \in Creator, EnsureDir(p) PROVE DiskType'
  BY <1>12, Roles DEF DiskType, EnsureDir
<1>13. ASSUME NEW p \in Creator, Claim(p) PROVE DiskType'
  BY <1>13, Roles, LocksType DEF DiskType, LocalType, Claim, disk
<1>14. ASSUME NEW p \in Creator, Recheck(p) PROVE DiskType'
  BY <1>14, Roles, LocksType, NothingReserved DEF DiskType, Recheck, Unlock, disk
<1>15. ASSUME NEW p \in Creator, ReleaseAllocator(p) PROVE DiskType'
  BY <1>15 DEF DiskType, ReleaseAllocator
<1>16. ASSUME NEW p \in Creator, Save(p) PROVE DiskType'
  BY <1>16, Roles DEF DiskType, LocalType, Save, Truncate, Json
<1>17. ASSUME NEW p \in Creator, Saved(p) PROVE DiskType'
  <2>0. p \in Proc /\ Target[p] \in Name /\ pc[p] = "saving"
    BY <1>17, Roles DEF Saved, Goto
  <2>1. json[Target[p]] = Json(p, picked[p], TRUE)
    BY <2>0 DEF HolderInv, Held
  <2>2. json[Target[p]] # NoJson
    BY <2>0, <2>1, JsonIs
  <2>3. /\ json' = [json EXCEPT ![Target[p]].torn = FALSE]
        /\ UNCHANGED <<dir, owner, reserve, allocator>>
    BY <1>17 DEF Saved, Fill
  <2> QED
    BY <2>0, <2>2, <2>3, JsonType
<1>18. ASSUME NEW p \in Creator, Fail(p) PROVE DiskType'
  BY <1>18 DEF DiskType, Fail, disk
<1>19. ASSUME NEW p \in Creator, CleanUp(p) PROVE DiskType'
  BY <1>19, Roles, RemoveType DEF DiskType, CleanUp, disk
<1>20. ASSUME NEW p \in Changer, LookUp(p) PROVE DiskType'
  BY <1>20 DEF DiskType, LookUp, disk
<1>21. ASSUME NEW p \in Changer, LockExisting(p) PROVE DiskType'
  BY <1>21, Roles, LocksType, NothingReserved DEF DiskType, LockExisting, disk
<1>22. ASSUME NEW p \in Changer, Turned(p) PROVE DiskType'
  BY <1>22 DEF DiskType, Turned, disk
<1>23. ASSUME NEW p \in Changer, Rewrite(p) PROVE DiskType'
  BY <1>23, Roles, JsonType DEF HolderInv, Held, Rewrite, Goto, SameMachine, Readable
<1>24. ASSUME NEW p \in Changer, Rewritten(p) PROVE DiskType'
  BY <1>24, Roles, JsonType DEF HolderInv, Held, Rewritten, Fill, Goto
<1>25. ASSUME NEW p \in Changer, Remove(p) PROVE DiskType'
  BY <1>25, Roles, RemoveType DEF Remove
<1>26. ASSUME NEW p \in Proc, Release(p) PROVE DiskType'
  BY <1>26, Roles, LocksType, NothingReserved DEF DiskType, Release, Unlock
<1>27. ASSUME NEW p \in Proc, Crash(p) PROVE DiskType'
  BY <1>27, NothingReserved DEF DiskType, Crash
<1> QED
  BY <1>1, <1>2, <1>3, <1>4, <1>5, <1>6, <1>7, <1>8, <1>9, <1>10, <1>11, <1>12, <1>13, <1>14,
     <1>15, <1>16, <1>17, <1>18, <1>19, <1>20, <1>21, <1>22, <1>23, <1>24, <1>25, <1>26, <1>27,
     Roles DEF Next, Creating, Changing

LEMMA LocalStep == ASSUME DiskType, LocalType, FiniteInv, Next PROVE LocalType'
<1>1. ASSUME NEW p \in Creator, Look(p) PROVE LocalType'
  BY <1>1 DEF DiskType, LocalType, Look, local
<1>2. ASSUME NEW p \in Creator, MarkFresh(p) PROVE LocalType'
  BY <1>2 DEF DiskType, LocalType, MarkFresh, local
<1>3. ASSUME NEW p \in Creator, Allocate(p) PROVE LocalType'
  BY <1>3 DEF DiskType, LocalType, Allocate, local
<1>4. ASSUME NEW p \in Creator, AllocateTimesOut(p) PROVE LocalType'
  BY <1>4 DEF DiskType, LocalType, AllocateTimesOut, local
<1>5. ASSUME NEW p \in Creator, NEW n \in Name, ReadMachine(p, n) PROVE LocalType'
  <2> DEFINE found == IF Readable(n) THEN {json[n]} ELSE {}
  <2>1. \A m \in found : m.base \in Nat /\ m.mac \in Nat
    BY JsonHas DEF Readable
  <2> HIDE DEF found
  <2>2. /\ {m.base : m \in {r \in found : n # Target[p]}} \subseteq Nat
        /\ {m.base : m \in found} \subseteq Nat /\ {m.mac : m \in found} \subseteq Nat
    BY <2>1
  <2>3. \/ bases' = [bases EXCEPT ![p] = bases[p] \union
                       {m.base : m \in {r \in found : n # Target[p]}}] /\ macs' = macs
        \/ bases' = [bases EXCEPT ![p] = bases[p] \union {m.base : m \in found}] /\ macs' = macs
        \/ macs' = [macs EXCEPT ![p] = macs[p] \union {m.mac : m \in found}] /\ bases' = bases
    BY <1>5 DEF ReadMachine, found
  <2>4. bases' \in [Proc -> SUBSET Nat] /\ macs' \in [Proc -> SUBSET Nat]
    BY <2>2, <2>3 DEF LocalType
  <2> QED
    BY <1>5, <2>4 DEF LocalType, ReadMachine
<1>6. ASSUME NEW p \in Creator, NEW n \in Name, ReadReservation(p, n) PROVE LocalType'
  <2>1. \A s \in Reservations(p, n) : s.base \in Nat /\ s.mac \in Nat
    BY DEF DiskType, Reservations
  <2>2. /\ {s.base : s \in Reservations(p, n)} \subseteq Nat
        /\ {s.mac : s \in Reservations(p, n)} \subseteq Nat
    BY <2>1
  <2>3. bases' \in [Proc -> SUBSET Nat] /\ macs' \in [Proc -> SUBSET Nat]
    BY <1>6, <2>2 DEF LocalType, ReadReservation
  <2> QED
    BY <1>6, <2>3 DEF LocalType, ReadReservation
<1>7. ASSUME NEW p \in Creator, ListReservations(p) PROVE LocalType'
  BY <1>7 DEF DiskType, LocalType, ListReservations, local, NextScan
<1>8. ASSUME NEW p \in Creator, ListBases(p) PROVE LocalType'
  BY <1>8 DEF DiskType, LocalType, ListBases, local, NextScan
<1>9. ASSUME NEW p \in Creator, CheckExplicit(p) PROVE LocalType'
  BY <1>9, Roles DEF DiskType, LocalType, CheckExplicit, NextScan
<1>10. ASSUME NEW p \in Creator, PickBase(p) PROVE LocalType'
  <2>1. \A i \in 0..MaxProbes : Candidate(bases[p])[i] \in Nat
    BY Roles, CandidatesFree, AllocationAssumption DEF FiniteInv, LocalType, UsedBases
  <2> QED
    BY <1>10, <2>1, Roles DEF DiskType, LocalType, PickBase, NextScan
<1>11. ASSUME NEW p \in Creator, PickMac(p) PROVE LocalType'
  <2>1. FirstFree(Target[p], macs[p]) \in Nat
    BY Roles, FirstFreeIs DEF FiniteInv
  <2> QED
    BY <1>11, <2>1 DEF LocalType, PickMac
<1>12. ASSUME NEW p \in Creator, EnsureDir(p) PROVE LocalType'
  BY <1>12 DEF DiskType, LocalType, EnsureDir, local
<1>13. ASSUME NEW p \in Creator, Claim(p) PROVE LocalType'
  BY <1>13, AllocationAssumption DEF LocalType, Claim, OnceMore, local
<1>14. ASSUME NEW p \in Creator, Recheck(p) PROVE LocalType'
  BY <1>14 DEF DiskType, LocalType, Recheck, local
<1>15. ASSUME NEW p \in Creator, ReleaseAllocator(p) PROVE LocalType'
  BY <1>15 DEF DiskType, LocalType, ReleaseAllocator, local
<1>16. ASSUME NEW p \in Creator, Save(p) PROVE LocalType'
  BY <1>16 DEF DiskType, LocalType, Save, local, Truncate
<1>17. ASSUME NEW p \in Creator, Saved(p) PROVE LocalType'
  BY <1>17 DEF DiskType, LocalType, Saved, local, Fill
<1>18. ASSUME NEW p \in Creator, Fail(p) PROVE LocalType'
  BY <1>18 DEF DiskType, LocalType, Fail, local
<1>19. ASSUME NEW p \in Creator, CleanUp(p) PROVE LocalType'
  BY <1>19 DEF DiskType, LocalType, CleanUp, local
<1>20. ASSUME NEW p \in Changer, LookUp(p) PROVE LocalType'
  BY <1>20, Roles DEF DiskType, LocalType, LookUp, Readable
<1>21. ASSUME NEW p \in Changer, LockExisting(p) PROVE LocalType'
  BY <1>21 DEF DiskType, LocalType, LockExisting, local
<1>22. ASSUME NEW p \in Changer, Turned(p) PROVE LocalType'
  BY <1>22 DEF DiskType, LocalType, Turned, local
<1>23. ASSUME NEW p \in Changer, Rewrite(p) PROVE LocalType'
  BY <1>23 DEF DiskType, LocalType, Rewrite, local
<1>24. ASSUME NEW p \in Changer, Rewritten(p) PROVE LocalType'
  BY <1>24 DEF DiskType, LocalType, Rewritten, local, Fill
<1>25. ASSUME NEW p \in Changer, Remove(p) PROVE LocalType'
  BY <1>25 DEF DiskType, LocalType, Remove, local
<1>26. ASSUME NEW p \in Proc, Release(p) PROVE LocalType'
  BY <1>26 DEF DiskType, LocalType, Release, local
<1>27. ASSUME NEW p \in Proc, Crash(p) PROVE LocalType'
  BY <1>27 DEF DiskType, LocalType, Crash, local
<1> QED
  BY <1>1, <1>2, <1>3, <1>4, <1>5, <1>6, <1>7, <1>8, <1>9, <1>10, <1>11, <1>12, <1>13, <1>14,
     <1>15, <1>16, <1>17, <1>18, <1>19, <1>20, <1>21, <1>22, <1>23, <1>24, <1>25, <1>26, <1>27,
     Roles DEF Next, Creating, Changing

----------------------------------------------------------------------------
(* Who holds what *)

\* A step of one process.
Acts(p) ==
  \/ p \in Creator /\ Creating(p)
  \/ p \in Changer /\ Changing(p)
  \/ Crash(p)

LEMMA NextActs == Next <=> \E p \in Proc : Acts(p)
BY Roles DEF Next, Acts

\* What it leaves to the others: what is theirs, what they hold, and every machine.json that
\* it does not hold the lock of.
Spares(p) ==
  /\ \A q \in Proc \ {p} :
       /\ pc'[q] = pc[q] /\ todo'[q] = todo[q] /\ bases'[q] = bases[q] /\ macs'[q] = macs[q]
       /\ picked'[q] = picked[q] /\ fresh'[q] = fresh[q] /\ saw'[q] = saw[q]
  /\ \A m \in Name : owner[m] # p => json'[m] = json[m] /\ (m \in dir => m \in dir')
  /\ \A m \in Name : owner[m] \notin {p, Nobody} =>
       owner'[m] = owner[m] /\ reserve'[m] = reserve[m]
  /\ \A m \in Name : owner'[m] \in {owner[m], p, Nobody}
  /\ allocator \notin {p, Nobody} => allocator' = allocator

LEMMA SparesOthers ==
  ASSUME PcType, DiskType, LocalType, LocksInv, NEW p \in Proc, Acts(p) PROVE Spares(p)
<1>1. ASSUME p \in Creator, Look(p) PROVE Spares(p)
  BY <1>1, Roles DEF PcType, DiskType, LocalType, LocksInv, Holding, Spares, Look, Goto, disk,
     local
<1>2. ASSUME p \in Creator, MarkFresh(p) PROVE Spares(p)
  BY <1>2, Roles DEF PcType, DiskType, LocalType, LocksInv, Holding, Spares, MarkFresh, Goto,
     disk, local
<1>3. ASSUME p \in Creator, Allocate(p) PROVE Spares(p)
  BY <1>3, Roles DEF PcType, DiskType, LocalType, LocksInv, Holding, Spares, Allocate, Goto,
     disk, local
<1>4. ASSUME p \in Creator, AllocateTimesOut(p) PROVE Spares(p)
  BY <1>4, Roles DEF PcType, DiskType, LocalType, LocksInv, Holding, Spares, AllocateTimesOut,
     Goto, disk, local
<1>5. ASSUME p \in Creator, NEW n \in Name, ReadMachine(p, n) PROVE Spares(p)
  BY <1>5, Roles DEF PcType, DiskType, LocalType, LocksInv, Holding, Spares, ReadMachine, Goto,
     disk, local
<1>6. ASSUME p \in Creator, NEW n \in Name, ReadReservation(p, n) PROVE Spares(p)
  BY <1>6, Roles DEF PcType, DiskType, LocalType, LocksInv, Holding, Spares, ReadReservation,
     Goto, disk, local
<1>7. ASSUME p \in Creator, ListReservations(p) PROVE Spares(p)
  BY <1>7, Roles DEF PcType, DiskType, LocalType, LocksInv, Holding, Spares, ListReservations,
     NextScan, Goto, disk, local
<1>8. ASSUME p \in Creator, ListBases(p) PROVE Spares(p)
  BY <1>8, Roles DEF PcType, DiskType, LocalType, LocksInv, Holding, Spares, ListBases,
     NextScan, Goto, disk, local
<1>9. ASSUME p \in Creator, CheckExplicit(p) PROVE Spares(p)
  BY <1>9, Roles DEF PcType, DiskType, LocalType, LocksInv, Holding, Spares, CheckExplicit,
     NextScan, Goto, disk, local
<1>10. ASSUME p \in Creator, PickBase(p) PROVE Spares(p)
  BY <1>10, Roles DEF PcType, DiskType, LocalType, LocksInv, Holding, Spares, PickBase,
     NextScan, Goto, disk, local
<1>11. ASSUME p \in Creator, PickMac(p) PROVE Spares(p)
  BY <1>11, Roles DEF PcType, DiskType, LocalType, LocksInv, Holding, Spares, PickMac, Goto,
     disk, local
<1>12. ASSUME p \in Creator, EnsureDir(p) PROVE Spares(p)
  BY <1>12, Roles DEF PcType, DiskType, LocalType, LocksInv, Holding, Spares, EnsureDir, Goto,
     disk, local
<1>13. ASSUME p \in Creator, Claim(p) PROVE Spares(p)
  BY <1>13, Roles DEF PcType, DiskType, LocalType, LocksInv, Holding, Spares, Claim, Lock,
     OnceMore, Goto, disk, local
<1>14. ASSUME p \in Creator, Recheck(p) PROVE Spares(p)
  BY <1>14, Roles DEF PcType, DiskType, LocalType, LocksInv, Holding, Spares, Recheck, Lock,
     Unlock, CreatedMeanwhile, Goto, disk, local
<1>15. ASSUME p \in Creator, ReleaseAllocator(p) PROVE Spares(p)
  BY <1>15, Roles DEF PcType, DiskType, LocalType, LocksInv, Holding, Choosing, Spares,
     ReleaseAllocator, Goto, disk, local
<1>16. ASSUME p \in Creator, Save(p) PROVE Spares(p)
  <2>1. dir' = dir \union {Target[p]} /\ \A m \in Name : m # Target[p] => json'[m] = json[m]
    BY <1>16 DEF DiskType, Save, Truncate
  <2>2. /\ pc[p] = "build" /\ pc' = [pc EXCEPT ![p] = "saving"]
        /\ UNCHANGED <<owner, reserve, allocator, todo, bases, macs, picked, fresh, saw>>
    BY <1>16 DEF Save, Truncate, Goto, local
  <2>3. owner[Target[p]] = p
    BY <2>2, Roles DEF LocksInv, Holding
  <2> QED
    BY <2>1, <2>2, <2>3, Roles DEF PcType, DiskType, LocalType, Spares
<1>17. ASSUME p \in Creator, Saved(p) PROVE Spares(p)
  BY <1>17, Roles DEF PcType, DiskType, LocalType, LocksInv, Holding, Spares, Saved, Fill,
     Goto, disk, local
<1>18. ASSUME p \in Creator, Fail(p) PROVE Spares(p)
  BY <1>18, Roles DEF PcType, DiskType, LocalType, LocksInv, Holding, Spares, Fail, Goto, disk,
     local
<1>19. ASSUME p \in Creator, CleanUp(p) PROVE Spares(p)
  BY <1>19, Roles DEF PcType, DiskType, LocalType, LocksInv, Holding, Spares, CleanUp,
     RemoveDir, Lock, Unlock, Goto, disk, local
<1>20. ASSUME p \in Changer, LookUp(p) PROVE Spares(p)
  BY <1>20, Roles DEF PcType, DiskType, LocalType, LocksInv, Holding, Spares, LookUp, Goto,
     disk, local
<1>21. ASSUME p \in Changer, LockExisting(p) PROVE Spares(p)
  BY <1>21, Roles DEF PcType, DiskType, LocalType, LocksInv, Holding, Spares, LockExisting,
     Lock, Goto, disk, local
<1>22. ASSUME p \in Changer, Turned(p) PROVE Spares(p)
  BY <1>22, Roles DEF PcType, DiskType, LocalType, LocksInv, Holding, Spares, Turned, Goto,
     disk, local
<1>23. ASSUME p \in Changer, Rewrite(p) PROVE Spares(p)
  BY <1>23, Roles DEF PcType, DiskType, LocalType, LocksInv, Holding, Spares, Rewrite, Goto,
     disk, local
<1>24. ASSUME p \in Changer, Rewritten(p) PROVE Spares(p)
  BY <1>24, Roles DEF PcType, DiskType, LocalType, LocksInv, Holding, Spares, Rewritten, Fill,
     Goto, disk, local
<1>25. ASSUME p \in Changer, Remove(p) PROVE Spares(p)
  BY <1>25, Roles DEF PcType, DiskType, LocalType, LocksInv, Holding, Spares, Remove,
     RemoveDir, Lock, Unlock, Goto, disk, local
<1>26. ASSUME Release(p) PROVE Spares(p)
  BY <1>26, Roles DEF PcType, DiskType, LocalType, LocksInv, Holding, Spares, Release, Lock,
     Unlock, Goto, disk, local
<1>27. ASSUME Crash(p) PROVE Spares(p)
  BY <1>27, Roles DEF PcType, DiskType, LocalType, LocksInv, Holding, Spares, Crash, Goto,
     disk, local
<1> QED
  BY <1>1, <1>2, <1>3, <1>4, <1>5, <1>6, <1>7, <1>8, <1>9, <1>10, <1>11, <1>12, <1>13, <1>14,
     <1>15, <1>16, <1>17, <1>18, <1>19, <1>20, <1>21, <1>22, <1>23, <1>24, <1>25, <1>26, <1>27
  DEF Acts, Creating, Changing

LEMMA LocksStep == ASSUME PcType, DiskType, HolderInv, LocksInv, Next PROVE LocksInv'
<1>1. ASSUME NEW p \in Creator, Look(p) PROVE LocksInv'
  BY <1>1, Roles DEF PcType, DiskType, LocksInv, Look, Goto, disk, Holding, Choosing,
     CreatorSteps, ChangerSteps
<1>2. ASSUME NEW p \in Creator, MarkFresh(p) PROVE LocksInv'
  BY <1>2, Roles DEF PcType, DiskType, LocksInv, MarkFresh, Goto, disk, Holding, Choosing,
     CreatorSteps, ChangerSteps
<1>3. ASSUME NEW p \in Creator, Allocate(p) PROVE LocksInv'
  BY <1>3, Roles DEF PcType, DiskType, LocksInv, Allocate, Goto, disk, Holding, Choosing,
     CreatorSteps, ChangerSteps
<1>4. ASSUME NEW p \in Creator, AllocateTimesOut(p) PROVE LocksInv'
  BY <1>4, Roles DEF PcType, DiskType, LocksInv, AllocateTimesOut, Goto, disk, Holding,
     Choosing, CreatorSteps, ChangerSteps
<1>5. ASSUME NEW p \in Creator, NEW n \in Name, ReadMachine(p, n) PROVE LocksInv'
  BY <1>5, Roles DEF PcType, DiskType, LocksInv, ReadMachine, Goto, disk, Holding, Choosing,
     CreatorSteps, ChangerSteps
<1>6. ASSUME NEW p \in Creator, NEW n \in Name, ReadReservation(p, n) PROVE LocksInv'
  BY <1>6, Roles DEF PcType, DiskType, LocksInv, ReadReservation, Goto, disk, Holding,
     Choosing, CreatorSteps, ChangerSteps
<1>7. ASSUME NEW p \in Creator, ListReservations(p) PROVE LocksInv'
  BY <1>7, Roles DEF PcType, DiskType, LocksInv, ListReservations, NextScan, Goto, disk,
     Holding, Choosing, CreatorSteps, ChangerSteps
<1>8. ASSUME NEW p \in Creator, ListBases(p) PROVE LocksInv'
  BY <1>8, Roles DEF PcType, DiskType, LocksInv, ListBases, NextScan, Goto, disk, Holding,
     Choosing, CreatorSteps, ChangerSteps
<1>9. ASSUME NEW p \in Creator, CheckExplicit(p) PROVE LocksInv'
  BY <1>9, Roles DEF PcType, DiskType, LocksInv, CheckExplicit, NextScan, Goto, disk, Holding,
     Choosing, CreatorSteps, ChangerSteps
<1>10. ASSUME NEW p \in Creator, PickBase(p) PROVE LocksInv'
  BY <1>10, Roles DEF PcType, DiskType, LocksInv, PickBase, NextScan, Goto, disk, Holding,
     Choosing, CreatorSteps, ChangerSteps
<1>11. ASSUME NEW p \in Creator, PickMac(p) PROVE LocksInv'
  BY <1>11, Roles DEF PcType, DiskType, LocksInv, PickMac, Goto, disk, Holding, Choosing,
     CreatorSteps, ChangerSteps
<1>12. ASSUME NEW p \in Creator, EnsureDir(p) PROVE LocksInv'
  BY <1>12, Roles DEF PcType, DiskType, LocksInv, EnsureDir, Goto, disk, Holding, Choosing,
     CreatorSteps, ChangerSteps
<1>13. ASSUME NEW p \in Creator, Claim(p) PROVE LocksInv'
  BY <1>13, Roles DEF PcType, DiskType, LocksInv, Claim, Lock, OnceMore, Goto, disk, Holding,
     Choosing, CreatorSteps, ChangerSteps
<1>14. ASSUME NEW p \in Creator, Recheck(p) PROVE LocksInv'
  BY <1>14, Roles DEF PcType, DiskType, LocksInv, Recheck, Lock, Unlock, CreatedMeanwhile,
     Goto, disk, Holding, Choosing, CreatorSteps, ChangerSteps
<1>15. ASSUME NEW p \in Creator, ReleaseAllocator(p) PROVE LocksInv'
  BY <1>15, Roles DEF PcType, DiskType, LocksInv, ReleaseAllocator, Goto, disk, Holding,
     Choosing, CreatorSteps, ChangerSteps
<1>16. ASSUME NEW p \in Creator, Save(p) PROVE LocksInv'
  <2>1. dir' = dir \union {Target[p]} /\ \A m \in Name : m # Target[p] => json'[m] = json[m]
    BY <1>16 DEF DiskType, Save, Truncate
  <2>2. /\ pc[p] = "build" /\ pc' = [pc EXCEPT ![p] = "saving"]
        /\ UNCHANGED <<owner, allocator>>
    BY <1>16 DEF Save, Truncate, Goto
  <2> QED
    BY <2>1, <2>2, Roles DEF PcType, DiskType, LocksInv, Holding, Choosing
<1>17. ASSUME NEW p \in Creator, Saved(p) PROVE LocksInv'
  BY <1>17, Roles DEF PcType, DiskType, LocksInv, Saved, Fill, Goto, disk, Holding, Choosing,
     CreatorSteps, ChangerSteps
<1>18. ASSUME NEW p \in Creator, Fail(p) PROVE LocksInv'
  BY <1>18, Roles DEF PcType, DiskType, LocksInv, Fail, Goto, disk, Holding, Choosing,
     CreatorSteps, ChangerSteps
<1>19. ASSUME NEW p \in Creator, CleanUp(p) PROVE LocksInv'
  BY <1>19, Roles, SMTT(20)
  DEF PcType, DiskType, LocksInv, CleanUp, RemoveDir, Lock, Unlock, Unfinished, Orphan, Readable, Goto, disk, Holding, Choosing, CreatorSteps, ChangerSteps
<1>20. ASSUME NEW p \in Changer, LookUp(p) PROVE LocksInv'
  BY <1>20, Roles DEF PcType, DiskType, LocksInv, LookUp, Goto, disk, Holding, Choosing,
     CreatorSteps, ChangerSteps
<1>21. ASSUME NEW p \in Changer, LockExisting(p) PROVE LocksInv'
  BY <1>21, Roles, SMTT(20)
  DEF PcType, DiskType, LocksInv, LockExisting, Lock, Goto, disk, Holding,
     Choosing, CreatorSteps, ChangerSteps
<1>22. ASSUME NEW p \in Changer, Turned(p) PROVE LocksInv'
  BY <1>22, Roles DEF PcType, DiskType, LocksInv, Turned, Goto, disk, Holding, Choosing,
     CreatorSteps, ChangerSteps
<1>23. ASSUME NEW p \in Changer, Rewrite(p) PROVE LocksInv'
  BY <1>23, Roles DEF PcType, DiskType, LocksInv, Rewrite, Goto, disk, Holding, Choosing,
     CreatorSteps, ChangerSteps
<1>24. ASSUME NEW p \in Changer, Rewritten(p) PROVE LocksInv'
  BY <1>24, Roles DEF PcType, DiskType, LocksInv, Rewritten, Fill, Goto, disk, Holding,
     Choosing, CreatorSteps, ChangerSteps
<1>25. ASSUME NEW p \in Changer, Remove(p) PROVE LocksInv'
  BY <1>25, Roles DEF PcType, DiskType, LocksInv, Remove, RemoveDir, Lock, Unlock, Goto, disk,
     Holding, Choosing, CreatorSteps, ChangerSteps
<1>26. ASSUME NEW p \in Proc, Release(p) PROVE LocksInv'
  BY <1>26, Roles DEF PcType, DiskType, LocksInv, Release, Lock, Unlock, Goto, disk, Holding,
     Choosing, CreatorSteps, ChangerSteps
<1>27. ASSUME NEW p \in Proc, Crash(p) PROVE LocksInv'
  BY <1>27, Roles DEF PcType, DiskType, LocksInv, Crash, Goto, disk, Holding, Choosing,
     CreatorSteps, ChangerSteps
<1> QED
  BY <1>1, <1>2, <1>3, <1>4, <1>5, <1>6, <1>7, <1>8, <1>9, <1>10, <1>11, <1>12, <1>13, <1>14,
     <1>15, <1>16, <1>17, <1>18, <1>19, <1>20, <1>21, <1>22, <1>23, <1>24, <1>25, <1>26, <1>27,
     Roles DEF Next, Creating, Changing

\* What a process has made of its machine stays, whatever the others do.
LEMMA HeldByOthers ==
  ASSUME PcType, LocksInv, HolderInv, NEW p \in Proc, Spares(p), NEW q \in Proc, q # p
  PROVE  Held(q)'
<1>1. /\ pc'[q] = pc[q] /\ picked'[q] = picked[q] /\ saw'[q] = saw[q]
      /\ Held(q)
  BY DEF Spares, HolderInv
<1>2. CASE pc[q] \in Holding
  <2>1. owner[Target[q]] = q
    BY <1>2 DEF LocksInv
  <2>2. reserve'[Target[q]] = reserve[Target[q]] /\ json'[Target[q]] = json[Target[q]]
    BY <2>1, Roles DEF Spares
  <2> QED
    BY <1>1, <2>2 DEF Held, Json
<1>3. CASE pc[q] \notin Holding
  BY <1>1, <1>3 DEF Held, Holding
<1> QED
  BY <1>2, <1>3

LEMMA HeldByOne ==
  ASSUME PcType, DiskType, LocalType, LocksInv, HolderInv, FiniteInv, NEW p \in Proc, Acts(p)
  PROVE  Held(p)'
<1>1. ASSUME p \in Creator, Look(p) PROVE Held(p)'
  BY <1>1, Roles DEF PcType, DiskType, LocalType, LocksInv, HolderInv, Held, Look, Goto, disk,
     local, Holding, Json
<1>2. ASSUME p \in Creator, MarkFresh(p) PROVE Held(p)'
  BY <1>2, Roles DEF PcType, DiskType, LocalType, LocksInv, HolderInv, Held, MarkFresh, Goto,
     disk, local, Holding, Json
<1>3. ASSUME p \in Creator, Allocate(p) PROVE Held(p)'
  BY <1>3, Roles DEF PcType, DiskType, LocalType, LocksInv, HolderInv, Held, Allocate, Goto,
     disk, local, Holding, Json
<1>4. ASSUME p \in Creator, AllocateTimesOut(p) PROVE Held(p)'
  BY <1>4, Roles DEF PcType, DiskType, LocalType, LocksInv, HolderInv, Held, AllocateTimesOut,
     Goto, disk, local, Holding, Json
<1>5. ASSUME p \in Creator, NEW n \in Name, ReadMachine(p, n) PROVE Held(p)'
  BY <1>5, Roles DEF PcType, DiskType, LocalType, LocksInv, HolderInv, Held, ReadMachine, Goto,
     disk, local, Holding, Json
<1>6. ASSUME p \in Creator, NEW n \in Name, ReadReservation(p, n) PROVE Held(p)'
  BY <1>6, Roles DEF PcType, DiskType, LocalType, LocksInv, HolderInv, Held, ReadReservation,
     Goto, disk, local, Holding, Json
<1>7. ASSUME p \in Creator, ListReservations(p) PROVE Held(p)'
  BY <1>7, Roles DEF PcType, DiskType, LocalType, LocksInv, HolderInv, Held, ListReservations,
     NextScan, Goto, disk, local, Holding, Json
<1>8. ASSUME p \in Creator, ListBases(p) PROVE Held(p)'
  BY <1>8, Roles DEF PcType, DiskType, LocalType, LocksInv, HolderInv, Held, ListBases,
     NextScan, Goto, disk, local, Holding, Json
<1>9. ASSUME p \in Creator, CheckExplicit(p) PROVE Held(p)'
  BY <1>9, Roles DEF PcType, DiskType, LocalType, LocksInv, HolderInv, Held, CheckExplicit,
     NextScan, Goto, disk, local, Holding, Json
<1>10. ASSUME p \in Creator, PickBase(p) PROVE Held(p)'
  BY <1>10, Roles DEF PcType, DiskType, LocalType, LocksInv, HolderInv, Held, PickBase,
     NextScan, Goto, disk, local, Holding, Json
<1>11. ASSUME p \in Creator, PickMac(p) PROVE Held(p)'
  <2>1. FirstFree(Target[p], macs[p]) # 0
    BY Roles, FirstFreeIs DEF FiniteInv
  <2> QED
    BY <1>11, <2>1, Roles DEF PcType, LocalType, PickMac, Goto, Held
<1>12. ASSUME p \in Creator, EnsureDir(p) PROVE Held(p)'
  <2>1. /\ pc[p] = "ensure" /\ pc'[p] = "claim" /\ p \notin Rewriter
        /\ picked' = picked /\ picked[p].mac # 0
    BY <1>12, Roles DEF PcType, HolderInv, Held, EnsureDir, Goto, local, Changer
  <2> QED
    BY <2>1 DEF Held
<1>13. ASSUME p \in Creator, Claim(p) PROVE Held(p)'
  BY <1>13, Roles DEF PcType, DiskType, LocalType, LocksInv, HolderInv, Held, Claim, Lock,
     OnceMore, Goto, disk, local, Holding, Json
<1>14. ASSUME p \in Creator, Recheck(p) PROVE Held(p)'
  <2>1. /\ pc[p] = "recheck" /\ p \notin Rewriter /\ picked' = picked
        /\ picked[p].mac # 0 /\ reserve[Target[p]] = picked[p]
    BY <1>14, Roles DEF PcType, HolderInv, Held, Recheck, Goto, local, Changer
  <2>2. CASE pc'[p] = "abandon"
    BY <2>2 DEF Held
  <2>3. CASE /\ pc'[p] = "claimed" /\ json' = json /\ reserve' = reserve
             /\ json[Target[p]] = NoJson
    BY <2>1, <2>3 DEF Held
  <2> QED
    BY <1>14, <2>2, <2>3 DEF PcType, Recheck, Goto, CreatedMeanwhile, disk
<1>15. ASSUME p \in Creator, ReleaseAllocator(p) PROVE Held(p)'
  BY <1>15, Roles DEF PcType, DiskType, LocalType, LocksInv, HolderInv, Held, ReleaseAllocator,
     Goto, disk, local, Holding, Json
<1>16. ASSUME p \in Creator, Save(p) PROVE Held(p)'
  BY <1>16, Roles DEF PcType, DiskType, LocalType, LocksInv, HolderInv, Held, Save, Truncate,
     Goto, disk, local, Holding, Json
<1>17. ASSUME p \in Creator, Saved(p) PROVE Held(p)'
  <2>1. /\ pc[p] = "saving" /\ pc'[p] = "release" /\ p \notin Rewriter
        /\ UNCHANGED <<picked, reserve>>
    BY <1>17, Roles DEF PcType, Saved, Fill, Goto, local, Changer
  <2>2. reserve[Target[p]] = picked[p] /\ picked[p].mac # 0
    BY <2>1 DEF HolderInv, Held
  <2> QED
    BY <2>1, <2>2 DEF Held
<1>18. ASSUME p \in Creator, Fail(p) PROVE Held(p)'
  BY <1>18, Roles DEF PcType, DiskType, LocalType, LocksInv, HolderInv, Held, Fail, Goto, disk,
     local, Holding, Json
<1>19. ASSUME p \in Creator, CleanUp(p) PROVE Held(p)'
  BY <1>19, Roles DEF PcType, DiskType, LocalType, LocksInv, HolderInv, Held, CleanUp,
     RemoveDir, Lock, Unlock, Unfinished, Orphan, Readable, Goto, disk, local, Holding, Json
<1>20. ASSUME p \in Changer, LookUp(p) PROVE Held(p)'
  <2>1. /\ pc[p] = "idle" /\ pc'[p] = "lock"
        /\ saw'[p] = IF Readable(Target[p]) THEN json[Target[p]].by ELSE Nobody
    BY <1>20, Roles DEF PcType, LocalType, LookUp, Goto
  <2>2. p \in Rewriter => Readable(Target[p])
    BY <1>20 DEF LookUp
  <2>3. Readable(Target[p]) => json[Target[p]].by # Nobody
    BY Roles, JsonHas DEF Readable
  <2> QED
    BY <2>1, <2>2, <2>3 DEF Held
<1>21. ASSUME p \in Changer, LockExisting(p) PROVE Held(p)'
  BY <1>21, Roles DEF PcType, DiskType, LocalType, LocksInv, HolderInv, Held, LockExisting,
     Lock, Goto, disk, local, Holding, Json
<1>22. ASSUME p \in Changer, Turned(p) PROVE Held(p)'
  BY <1>22, Roles DEF PcType, DiskType, LocalType, LocksInv, HolderInv, Held, Turned, Goto,
     disk, local, Holding, Json
<1>23. ASSUME p \in Changer, Rewrite(p) PROVE Held(p)'
  <2>1. /\ pc[p] = "locked" /\ pc'[p] = "rewriting" /\ p \in Rewriter
        /\ saw' = saw /\ saw[p] # Nobody
    BY <1>23 DEF PcType, HolderInv, Held, Rewrite, Goto, local
  <2>2. json[Target[p]] # NoJson
    BY <1>23, <2>1 DEF Rewrite, SameMachine, Readable
  <2>3. json'[Target[p]].by = json[Target[p]].by
    BY <1>23, <2>2, Roles, JsonHas DEF DiskType, Rewrite
  <2>4. json'[Target[p]] # NoJson
    BY <2>2, <2>3, Roles, JsonHas DEF NoJson
  <2> QED
    BY <2>1, <2>4 DEF Held
<1>24. ASSUME p \in Changer, Rewritten(p) PROVE Held(p)'
  BY <1>24, Roles DEF PcType, DiskType, LocalType, LocksInv, HolderInv, Held, Rewritten, Fill,
     Goto, disk, local, Holding, Json
<1>25. ASSUME p \in Changer, Remove(p) PROVE Held(p)'
  BY <1>25, Roles DEF PcType, DiskType, LocalType, LocksInv, HolderInv, Held, Remove,
     RemoveDir, Lock, Unlock, Goto, disk, local, Holding, Json
<1>26. ASSUME Release(p) PROVE Held(p)'
  BY <1>26, Roles DEF PcType, DiskType, LocalType, LocksInv, HolderInv, Held, Release, Lock,
     Unlock, Goto, disk, local, Holding, Json
<1>27. ASSUME Crash(p) PROVE Held(p)'
  BY <1>27, Roles DEF PcType, DiskType, LocalType, LocksInv, HolderInv, Held, Crash, Goto,
     disk, local, Holding, Json
<1> QED
  BY <1>1, <1>2, <1>3, <1>4, <1>5, <1>6, <1>7, <1>8, <1>9, <1>10, <1>11, <1>12, <1>13, <1>14,
     <1>15, <1>16, <1>17, <1>18, <1>19, <1>20, <1>21, <1>22, <1>23, <1>24, <1>25, <1>26, <1>27
  DEF Acts, Creating, Changing

LEMMA HolderStep ==
  ASSUME PcType, DiskType, LocalType, LocksInv, HolderInv, FiniteInv, Next
  PROVE  HolderInv'
<1>1. PICK p \in Proc : Acts(p)
  BY NextActs
<1>2. Held(p)' /\ Spares(p)
  BY <1>1, HeldByOne, SparesOthers
<1>3. ASSUME NEW q \in Proc, q # p PROVE Held(q)'
  BY <1>2, <1>3, HeldByOthers
<1> QED
  BY <1>2, <1>3 DEF HolderInv

\* Only the reads of a scan gather anything.
LEMMA Reads ==
  ASSUME NEW p \in Proc, Acts(p)
  PROVE  \/ UNCHANGED <<bases, macs>>
         \/ p \in Creator /\ \E n \in Name : ReadMachine(p, n) \/ ReadReservation(p, n)
<1>1. ASSUME Creating(p) PROVE \/ UNCHANGED <<bases, macs>>
                              \/ \E n \in Name : ReadMachine(p, n) \/ ReadReservation(p, n)
  BY <1>1 DEF Creating, Look, MarkFresh, Allocate, AllocateTimesOut, ListReservations,
     ListBases,
    CheckExplicit, PickBase, PickMac, EnsureDir, Claim, Recheck, ReleaseAllocator, Save, Truncate,
    Saved, Fill, Fail, CleanUp, Release, local
<1>2. ASSUME Changing(p) PROVE UNCHANGED <<bases, macs>>
  BY <1>2 DEF Changing, LookUp, LockExisting, Turned, Rewrite, Rewritten, Fill, Remove,
     Release, local
<1>3. ASSUME Crash(p) PROVE UNCHANGED <<bases, macs>>
  BY <1>3 DEF Crash, local
<1> QED
  BY <1>1, <1>2, <1>3 DEF Acts

LEMMA FiniteStep == ASSUME LocalType, FiniteInv, Next PROVE FiniteInv'
<1>1. PICK p \in Proc : Acts(p)
  BY NextActs
<1>2. CASE UNCHANGED <<bases, macs>>
  BY <1>2 DEF FiniteInv
<1>3. ASSUME NEW n \in Name, ReadMachine(p, n) PROVE FiniteInv'
  <2> DEFINE found == IF Readable(n) THEN {json[n]} ELSE {}
             others == {r \in found : n # Target[p]}
  <2>1. found \subseteq {json[n]} /\ others \subseteq {json[n]}
    OBVIOUS
  <2>2. \/ bases' = [bases EXCEPT ![p] = bases[p] \union {m.base : m \in others}] /\ macs' = macs
        \/ bases' = [bases EXCEPT ![p] = bases[p] \union {m.base : m \in found}] /\ macs' = macs
        \/ macs' = [macs EXCEPT ![p] = macs[p] \union {m.mac : m \in found}] /\ bases' = bases
    BY <1>3 DEF ReadMachine
  <2> HIDE DEF found, others
  <2>3. /\ IsFiniteSet({m.base : m \in others}) /\ IsFiniteSet({m.base : m \in found})
        /\ IsFiniteSet({m.mac : m \in found})
    <3>1. /\ {m.base : m \in others} \subseteq {json[n].base}
          /\ {m.base : m \in found} \subseteq {json[n].base}
          /\ {m.mac : m \in found} \subseteq {json[n].mac}
      BY <2>1
    <3> QED
      BY <3>1, FS_Singleton, FS_Subset
  <2>4. /\ IsFiniteSet(bases[p] \union {m.base : m \in others})
        /\ IsFiniteSet(bases[p] \union {m.base : m \in found})
        /\ IsFiniteSet(macs[p] \union {m.mac : m \in found})
    BY <2>3, FS_Union DEF FiniteInv
  <2> QED
    BY <2>2, <2>4 DEF LocalType, FiniteInv
<1>4. ASSUME NEW n \in Name, ReadReservation(p, n) PROVE FiniteInv'
  <2> DEFINE found == Reservations(p, n)
  <2>1. found \subseteq {reserve[n]}
    BY DEF Reservations
  <2>2. /\ bases' = [bases EXCEPT ![p] = bases[p] \union {r.base : r \in found}]
        /\ macs' = [macs EXCEPT ![p] = macs[p] \union {r.mac : r \in found}]
    BY <1>4 DEF ReadReservation
  <2> HIDE DEF found
  <2>3. IsFiniteSet({r.base : r \in found}) /\ IsFiniteSet({r.mac : r \in found})
    <3>1. /\ {r.base : r \in found} \subseteq {reserve[n].base}
          /\ {r.mac : r \in found} \subseteq {reserve[n].mac}
      BY <2>1
    <3> QED
      BY <3>1, FS_Singleton, FS_Subset
  <2>4. /\ IsFiniteSet(bases[p] \union {r.base : r \in found})
        /\ IsFiniteSet(macs[p] \union {r.mac : r \in found})
    BY <2>3, FS_Union DEF FiniteInv
  <2> QED
    BY <2>2, <2>4 DEF LocalType, FiniteInv
<1> QED
  BY <1>1, <1>2, <1>3, <1>4, Reads

\* A process that takes no part never does.
LEMMA PresentStays == ASSUME PcType, NEW p \in Proc, Acts(p) PROVE Present' = Present
<1>1. pc[p] # "absent" /\ pc'[p] # "absent" /\ \A q \in Proc \ {p} : pc'[q] = pc[q]
  <2>1. ASSUME Creating(p) PROVE pc[p] # "absent" /\ pc'[p] # "absent" /\ \A q \in Proc \ {p} : pc'[q] = pc[q]
    BY <2>1 DEF Creating, Look, MarkFresh, Allocate, AllocateTimesOut, ReadMachine,
       ReadReservation,
      ListReservations, ListBases, CheckExplicit, PickBase, PickMac, EnsureDir, Claim, Recheck,
      ReleaseAllocator, Save, Saved, Fail, CleanUp, Release, NextScan, Goto, PcType
  <2>2. ASSUME Changing(p) PROVE pc[p] # "absent" /\ pc'[p] # "absent" /\ \A q \in Proc \ {p} : pc'[q] = pc[q]
    BY <2>2 DEF Changing, LookUp, LockExisting, Turned, Rewrite, Rewritten, Remove, Release,
       Goto,
      PcType
  <2>3. ASSUME Crash(p) PROVE pc[p] # "absent" /\ pc'[p] # "absent" /\ \A q \in Proc \ {p} : pc'[q] = pc[q]
    BY <2>3 DEF Crash, PcType
  <2> QED
    BY <2>1, <2>2, <2>3 DEF Acts
<1> QED
  BY <1>1 DEF Present

----------------------------------------------------------------------------
(* What a name stands for *)

\* The steps that take or let go a machine, or write its file.
LEMMA Writes ==
  ASSUME NEW p \in Proc, Acts(p)
  PROVE  \/ UNCHANGED <<json, owner, reserve>>
         \/ p \in Creator /\ (Claim(p) \/ Recheck(p) \/ Save(p) \/ Saved(p) \/ CleanUp(p))
         \/ p \in Changer /\ (LockExisting(p) \/ Rewrite(p) \/ Rewritten(p) \/ Remove(p))
         \/ Release(p) \/ Crash(p)
<1>1. ASSUME Creating(p) PROVE \/ UNCHANGED <<json, owner, reserve>>
                              \/ Claim(p) \/ Recheck(p) \/ Save(p) \/ Saved(p) \/ CleanUp(p)
                              \/ Release(p)
  BY <1>1 DEF Creating, Look, MarkFresh, Allocate, AllocateTimesOut, ListReservations,
     ListBases,
    ReadMachine, ReadReservation, CheckExplicit, PickBase, PickMac, EnsureDir, ReleaseAllocator,
    Fail, disk
<1>2. ASSUME Changing(p) PROVE \/ UNCHANGED <<json, owner, reserve>>
                              \/ LockExisting(p) \/ Rewrite(p) \/ Rewritten(p) \/ Remove(p)
                              \/ Release(p)
  BY <1>2 DEF Changing, LookUp, Turned, disk
<1> QED
  BY <1>1, <1>2 DEF Acts

\* What s is a name for, its base and its address, is what r is a name for.
Same(r, s) == r.base = s.base /\ r.mac = s.mac

Kept(m, s) == \E r \in Resources(m) : Same(r, s) /\ (Readable(m) => Readable(m)')

Claimed(p, m, s) == p \in Creator /\ pc[p] = "claim" /\ m = Target[p] /\ s = picked[p]

LEMMA Stands ==
  ASSUME NEW m \in Name
  PROVE  /\ Readable(m) => Resources(m) = {json[m]}
         /\ ~ Readable(m) /\ owner[m] \in Creator => Resources(m) = {reserve[m]}
         /\ Readable(m)' => Resources(m)' = {json'[m]}
         /\ ~ Readable(m)' /\ owner'[m] \in Creator => Resources(m)' = {reserve'[m]}
<1>1. Readable(m) => Resources(m) = {json[m]}
  BY DEF Resources, Readable
<1>2. ASSUME ~ Readable(m), owner[m] \in Creator PROVE Resources(m) = {reserve[m]}
  BY <1>2, Roles DEF Resources, Changer
<1>3. Readable(m)' => Resources(m)' = {json'[m]}
  BY DEF Resources, Readable
<1>4. ASSUME ~ Readable(m)', owner'[m] \in Creator PROVE Resources(m)' = {reserve'[m]}
  BY <1>4, Roles DEF Resources, Changer
<1> QED
  BY <1>1, <1>2, <1>3, <1>4

\* A name that is not written, and whose lock does not change hands.
LEMMA KeptWhenStill ==
  ASSUME NEW m \in Name, NEW s \in Resources(m)', json'[m] = json[m], owner'[m] = owner[m],
         reserve'[m] = reserve[m]
  PROVE  Kept(m, s)
<1>1. Readable(m)' <=> Readable(m)
  BY DEF Readable
<1>2. s \in Resources(m)
  BY <1>1 DEF Resources
<1> QED
  BY <1>1, <1>2 DEF Kept, Same

\* A name that is readable before and after.
LEMMA KeptWhenRead ==
  ASSUME NEW m \in Name, NEW s \in Resources(m)', json'[m] = json[m], Readable(m)
  PROVE  Kept(m, s)
<1>1. Readable(m)' /\ Resources(m) = {json[m]} /\ Resources(m)' = {json'[m]}
  BY DEF Readable, Resources
<1> QED
  BY <1>1 DEF Kept, Same

\* A name whose lock was let go.
LEMMA KeptWhenFree ==
  ASSUME NEW m \in Name, NEW s \in Resources(m)', json'[m] = json[m] \/ json'[m] = NoJson,
         owner'[m] = Nobody
  PROVE  Kept(m, s)
<1>1. Nobody \notin Creator /\ Nobody \notin Rewriter
  BY Roles DEF Proc, Changer
<1>2. Readable(m)'
  BY <1>1 DEF Resources
<1>3. json'[m] = json[m] /\ Readable(m)
  BY <1>2 DEF Readable
<1> QED
  BY <1>3, KeptWhenRead

\* While nobody rewrites, what a name stands for stays as it is until it is given up; only a
\* creation's claim adds to it.
LEMMA Settled ==
  ASSUME PcType, DiskType, LocalType, LocksInv, HolderInv, Unhidden, NEW p \in Proc, Acts(p),
         NEW m \in Name, NEW s \in Resources(m)'
  PROVE  Kept(m, s) \/ Claimed(p, m, s)
<1> DEFINE n == Target[p]
<1>0. n \in Name
  BY Roles
<1>1. CASE UNCHANGED <<json, owner, reserve>>
  BY <1>1, KeptWhenStill
<1>2. ASSUME p \in Creator, Claim(p) PROVE Kept(m, s) \/ Claimed(p, m, s)
  <2>1. CASE UNCHANGED <<json, owner, reserve>>
    BY <2>1, KeptWhenStill
  <2>2. CASE /\ pc[p] = "claim" /\ Lock(n, p, picked[p]) /\ UNCHANGED json
    <3>1. CASE m # n
      BY <1>0, <2>2, <3>1, KeptWhenStill DEF Lock, DiskType
    <3>2. CASE m = n /\ Readable(m)
      BY <2>2, <3>2, KeptWhenRead
    <3>3. CASE m = n /\ ~ Readable(m)
      <4>1. owner'[n] = p /\ reserve'[n] = picked[p] /\ ~ Readable(m)'
        BY <1>0, <2>2, <3>3 DEF Lock, DiskType, Readable
      <4> QED
        BY <1>2, <2>2, <3>3, <4>1, Stands DEF Claimed
    <3> QED
      BY <3>1, <3>2, <3>3
  <2> QED
    BY <1>2, <2>1, <2>2 DEF Claim, Goto, disk
<1>3. ASSUME p \in Creator, Recheck(p) PROVE Kept(m, s)
  <2>1. CASE UNCHANGED <<json, owner, reserve>>
    BY <2>1, KeptWhenStill
  <2>2. CASE Unlock(n) /\ UNCHANGED json
    BY <1>0, <2>2, KeptWhenStill, KeptWhenFree DEF Unlock, Lock, DiskType
  <2> QED
    BY <1>3, <2>1, <2>2 DEF Recheck, disk
<1>4. ASSUME p \in Creator, Save(p) PROVE Kept(m, s)
  <2>1. /\ pc[p] = "build" /\ json' = [json EXCEPT ![n] = Json(p, picked[p], TRUE)]
        /\ UNCHANGED <<owner, reserve>>
    BY <1>4 DEF Save, Truncate, Goto
  <2>2. CASE m # n
    <3>1. json'[m] = json[m]
      BY <2>1, <2>2 DEF DiskType
    <3> QED
      BY <2>1, <3>1, KeptWhenStill
  <2>3. CASE m = n
    <3>0. json[m] = NoJson /\ owner[m] = p
      BY <2>1, <2>3 DEF HolderInv, Held, LocksInv, Holding
    <3>1. json'[m] = Json(p, picked[p], TRUE)
      BY <1>0, <2>1, <2>3 DEF DiskType
    <3>2. ~ Readable(m) /\ ~ Readable(m)'
      <4>1. Json(p, picked[p], TRUE).torn
        BY JsonIs
      <4> QED
        BY <3>0, <3>1, <4>1 DEF Readable
    <3>3. Resources(m) = {reserve[m]} /\ s = reserve[m]
      BY <1>4, <2>1, <3>0, <3>2, Stands
    <3> QED
      BY <3>2, <3>3 DEF Kept, Same
  <2> QED
    BY <2>2, <2>3
<1>5. ASSUME p \in Creator, Saved(p) PROVE Kept(m, s)
  <2>1. /\ pc[p] = "saving" /\ json' = [json EXCEPT ![n].torn = FALSE]
        /\ UNCHANGED <<owner, reserve>>
    BY <1>5 DEF Saved, Fill, Goto
  <2>2. CASE m # n
    <3>1. json'[m] = json[m]
      BY <2>1, <2>2 DEF DiskType
    <3> QED
      BY <2>1, <3>1, KeptWhenStill
  <2>3. CASE m = n
    <3>1. /\ json[m] = Json(p, picked[p], TRUE) /\ reserve[m] = picked[p] /\ owner[m] = p
      BY <1>0, <2>1, <2>3 DEF HolderInv, Held, LocksInv, Holding
    <3>2. /\ json'[m].base = picked[p].base /\ json'[m].mac = picked[p].mac
          /\ json'[m].by = p /\ ~ json'[m].torn
      BY <1>0, <2>1, <2>3, <3>1 DEF DiskType, Json
    <3>3. ~ Readable(m) /\ Readable(m)'
      <4>1. Json(p, picked[p], TRUE).torn
        BY JsonIs
      <4>2. json'[m] # NoJson
        BY <3>2, JsonIs, Roles
      <4> QED
        BY <3>1, <3>2, <4>1, <4>2 DEF Readable
    <3>4. Resources(m) = {reserve[m]} /\ s = json'[m]
      BY <1>5, <3>1, <3>3, Stands
    <3> QED
      BY <3>1, <3>2, <3>3, <3>4 DEF Kept, Same
  <2> QED
    BY <2>2, <2>3
<1>6. ASSUME UNCHANGED <<json, owner, reserve>> \/ RemoveDir(n) PROVE Kept(m, s)
  <2>1. CASE UNCHANGED <<json, owner, reserve>>
    BY <2>1, KeptWhenStill
  <2>2. CASE RemoveDir(n)
    <3>1. CASE m # n
      BY <1>0, <2>2, <3>1, KeptWhenStill DEF RemoveDir, Unlock, Lock, DiskType
    <3>2. CASE m = n
      BY <1>0, <2>2, <3>2, KeptWhenFree DEF RemoveDir, Unlock, Lock, DiskType
    <3> QED
      BY <3>1, <3>2
  <2> QED
    BY <1>6, <2>1, <2>2
<1>7. ASSUME p \in Changer, LockExisting(p) PROVE Kept(m, s)
  <2>1. CASE UNCHANGED <<json, owner, reserve>>
    BY <2>1, KeptWhenStill
  <2>2. CASE pc[p] = "lock" /\ Lock(n, p, NoResources) /\ UNCHANGED json
    <3>1. CASE m # n
      BY <1>0, <2>2, <3>1, KeptWhenStill DEF Lock, DiskType
    <3>2. CASE m = n /\ Readable(m)
      BY <2>2, <3>2, KeptWhenRead
    <3>3. CASE m = n /\ ~ Readable(m)
      <4>1. owner'[n] = p /\ ~ Readable(m)'
        BY <1>0, <2>2, <3>3 DEF Lock, DiskType, Readable
      <4>2. p \notin Creator /\ p \notin Rewriter
        BY <1>7, <2>2, Roles DEF Unhidden, Present
      <4> QED
        BY <3>3, <4>1, <4>2 DEF Resources
    <3> QED
      BY <3>1, <3>2, <3>3
  <2> QED
    BY <1>7, <2>1, <2>2 DEF LockExisting, Goto, disk
<1>8. ~ (Rewrite(p) \/ Rewritten(p))
  BY DEF Unhidden, Present, Rewrite, Rewritten, Goto, HolderInv, Held
<1>9. ASSUME Release(p) PROVE Kept(m, s)
  BY <1>0, <1>9, KeptWhenStill, KeptWhenFree DEF Release, Unlock, Lock, DiskType
<1>10. ASSUME Crash(p) PROVE Kept(m, s)
  <2>1. json' = json
    BY <1>10 DEF Crash
  <2>2. CASE owner[m] = p
    BY <1>10, <2>1, <2>2, KeptWhenFree DEF Crash, DiskType
  <2>3. CASE owner[m] # p
    BY <1>10, <2>1, <2>3, KeptWhenStill DEF Crash, DiskType
  <2> QED
    BY <2>2, <2>3
<1>11. ASSUME CleanUp(p) \/ Remove(p) PROVE Kept(m, s)
  BY <1>6, <1>11 DEF CleanUp, Remove, disk
<1> QED
  BY <1>1, <1>2, <1>3, <1>4, <1>5, <1>7, <1>8, <1>9, <1>10, <1>11, Writes

----------------------------------------------------------------------------
(* What a scan has still to see, or has seen *)

\* A name that stands for something has a directory.
LEMMA ThereIsADir ==
  ASSUME LocksInv, NEW m \in Name, NEW r \in Resources(m)
  PROVE  m \in dir
<1>1. json[m] # NoJson \/ owner[m] # Nobody
  BY Roles DEF Resources, Readable, Changer
<1> QED
  BY <1>1 DEF LocksInv

\* Nothing is reserved that could be taken for no reservation.
LEMMA ReservedIsSeen ==
  ASSUME PcType, LocksInv, HolderInv, Unhidden, NEW p \in Creator,
         NEW m \in Name \ {Target[p]}, NEW r \in Resources(m), ~ Readable(m)
  PROVE  r \in Reservations(p, m)
<1>1. owner[m] \in Creator \/ owner[m] \in Rewriter
  BY DEF Resources
<1>2. owner[m] \in Proc /\ owner[m] # Nobody
  BY <1>1, Roles DEF Changer
<1>3. pc[owner[m]] \in Holding /\ Target[owner[m]] = m
  BY <1>2 DEF LocksInv
<1>4. owner[m] \in Creator
  BY <1>1, <1>2, <1>3 DEF Unhidden, Present, Holding
<1>5. Resources(m) = {reserve[m]}
  BY <1>4, Stands
<1>6. CASE pc[owner[m]] \in {"recheck", "claimed", "build", "saving", "cleanup", "release"}
  <2>0. Held(owner[m])
    BY <1>2 DEF HolderInv
  <2>1. reserve[m].mac # 0
    BY <1>3, <1>4, <1>6, <2>0 DEF Held
  <2> QED
    BY <1>2, <1>5, <2>1 DEF Reservations, NoResources
<1>7. CASE pc[owner[m]] \notin {"recheck", "claimed", "build", "saving", "cleanup", "release"}
  <2>1. pc[owner[m]] \in CreatorSteps
    BY <1>2, <1>4 DEF PcType
  <2>2. FALSE
    BY <1>3, <1>7, <2>1 DEF Holding, CreatorSteps
  <2> QED
    BY <2>2
<1> QED
  BY <1>6, <1>7

Scanning == {"reserved", "bases", "macs", "ensure", "claim"}

\* The steps of a creation before its claim.
LEMMA Scans ==
  ASSUME PcType, NEW p \in Creator, Acts(p), pc'[p] \in Scanning
  PROVE  /\ UNCHANGED <<json, owner, reserve>>
         /\ \/ Allocate(p)
            \/ \E n \in Name : ReadMachine(p, n) \/ ReadReservation(p, n)
            \/ ListReservations(p) \/ ListBases(p) \/ CheckExplicit(p) \/ PickBase(p)
            \/ PickMac(p)
            \/ /\ pc[p] \in {"ensure", "claim"} /\ pc'[p] \in {"ensure", "claim"}
               /\ UNCHANGED <<bases, macs, picked>>
<1>1. Creating(p)
  BY Roles DEF Acts, Crash, Scanning, PcType
<1>2. CASE Look(p) \/ MarkFresh(p) \/ AllocateTimesOut(p)
  BY <1>2, Roles DEF Look, MarkFresh, AllocateTimesOut, Goto, PcType, Scanning
<1>3. CASE Recheck(p) \/ ReleaseAllocator(p) \/ Save(p) \/ Saved(p) \/ Fail(p) \/ CleanUp(p) \/ Release(p)
  BY <1>3, Roles DEF Recheck, ReleaseAllocator, Save, Saved, Fail, CleanUp, Release, Goto,
     PcType,
    Scanning
<1>4. CASE \/ Allocate(p)
           \/ \E n \in Name : ReadMachine(p, n) \/ ReadReservation(p, n)
           \/ ListReservations(p) \/ ListBases(p) \/ CheckExplicit(p) \/ PickBase(p)
           \/ PickMac(p)
  BY <1>4 DEF Allocate, ReadMachine, ReadReservation, ListReservations, ListBases,
     CheckExplicit,
    PickBase, PickMac, disk
<1>5. CASE EnsureDir(p)
  BY <1>5, Roles DEF EnsureDir, Goto, PcType, local
<1>6. CASE Claim(p)
  BY <1>6, Roles DEF Claim, Goto, PcType, local, disk, Scanning
<1> QED
  BY <1>1, <1>2, <1>3, <1>4, <1>5, <1>6 DEF Creating

\* One step of a scan covers what was covered.
LEMMA MacsScanned ==
  ASSUME PcType, DiskType, LocalType, LocksInv, HolderInv, FiniteInv, Unhidden,
         NEW p \in Creator, Acts(p), pc'[p] \in Scanning,
         NEW m \in Name \ {Target[p]}, NEW r \in Resources(m), MacsCovered(p, m, r)
  PROVE  MacsCovered(p, m, r)'
<1>1. UNCHANGED <<json, owner, reserve>> /\ p \in Proc /\ m \in dir
  BY Roles, Scans, ThereIsADir
<1>2. Readable(m)' <=> Readable(m)
  BY <1>1 DEF Readable
<1>3. CASE Allocate(p)
  BY <1>1, <1>3 DEF Allocate, Goto, PcType, LocalType, MacsCovered
<1>4. ASSUME NEW n \in Name, ReadMachine(p, n) PROVE MacsCovered(p, m, r)'
  <2>1. pc' = pc /\ pc[p] \in {"machines", "bases", "macs"}
    BY <1>4 DEF ReadMachine
  <2>2. CASE pc[p] # "macs"
    BY <1>2, <1>4, <2>1, <2>2 DEF ReadMachine, MacsCovered
  <2>3. CASE pc[p] = "macs"
    <3>1. /\ todo' = [todo EXCEPT ![p] = todo[p] \ {n}]
          /\ macs' = [macs EXCEPT ![p] = macs[p] \union
                        {x.mac : x \in IF Readable(n) THEN {json[n]} ELSE {}}]
      BY <1>4, <2>3 DEF ReadMachine
    <3>2. CASE n = m /\ Readable(m)
      <4>1. r = json[m]
        BY <3>2, Stands
      <4>2. r.mac \in macs'[p]
        BY <1>1, <3>1, <3>2, <4>1 DEF LocalType
      <4> QED
        BY <2>1, <2>3, <4>2 DEF MacsCovered
    <3>3. CASE n # m \/ ~ Readable(m)
      BY <1>1, <1>2, <2>1, <2>3, <3>1, <3>3 DEF LocalType, MacsCovered
    <3> QED
      BY <3>2, <3>3
  <2> QED
    BY <2>2, <2>3
<1>5. ASSUME NEW n \in Name, ReadReservation(p, n) PROVE MacsCovered(p, m, r)'
  <2>1. /\ pc' = pc /\ pc[p] = "reserved" /\ todo' = [todo EXCEPT ![p] = todo[p] \ {n}]
        /\ macs' = [macs EXCEPT ![p] = macs[p] \union {x.mac : x \in Reservations(p, n)}]
    BY <1>5 DEF ReadReservation
  <2>2. CASE n = m /\ ~ Readable(m)
    <3>1. r \in Reservations(p, m)
      BY <2>2, ReservedIsSeen
    <3>2. r.mac \in macs'[p]
      BY <1>1, <2>1, <2>2, <3>1 DEF LocalType
    <3> QED
      BY <2>1, <3>2 DEF MacsCovered
  <2>3. CASE n # m \/ Readable(m)
    BY <1>1, <1>2, <2>1, <2>3 DEF LocalType, MacsCovered
  <2> QED
    BY <2>2, <2>3
<1>6. CASE ListReservations(p)
  BY <1>1, <1>6 DEF ListReservations, NextScan, Goto, PcType, LocalType, MacsCovered
<1>7. CASE ListBases(p)
  BY <1>1, <1>2, <1>7 DEF ListBases, NextScan, Goto, PcType, LocalType, MacsCovered
<1>8. CASE CheckExplicit(p)
  BY <1>1, <1>2, <1>8 DEF CheckExplicit, NextScan, Goto, PcType, LocalType, MacsCovered,
     Scanning
<1>9. CASE PickBase(p)
  BY <1>1, <1>2, <1>9 DEF PickBase, NextScan, Goto, PcType, LocalType, MacsCovered, Scanning
<1>10. CASE PickMac(p)
  <2>1. FirstFree(Target[p], macs[p]) \notin macs[p]
    BY Roles, FirstFreeIs DEF FiniteInv
  <2>2. /\ pc[p] = "macs" /\ pc'[p] = "ensure" /\ todo[p] = {}
        /\ picked'[p].mac = FirstFree(Target[p], macs[p])
    BY <1>1, <1>10 DEF PickMac, Goto, PcType, LocalType
  <2> QED
    BY <2>1, <2>2 DEF MacsCovered
<1>11. CASE /\ pc[p] \in {"ensure", "claim"} /\ pc'[p] \in {"ensure", "claim"}
            /\ UNCHANGED <<bases, macs, picked>>
  BY <1>11 DEF MacsCovered
<1> QED
  BY <1>3, <1>4, <1>5, <1>6, <1>7, <1>8, <1>9, <1>10, <1>11, Scans

LEMMA BasesScanned ==
  ASSUME PcType, DiskType, LocalType, LocksInv, HolderInv, FiniteInv, Automatic,
         NEW p \in Creator, Acts(p), pc'[p] \in Scanning, p \in Present,
         NEW m \in Name \ {Target[p]}, NEW r \in Resources(m), BasesCovered(p, m, r)
  PROVE  BasesCovered(p, m, r)'
<1>1. UNCHANGED <<json, owner, reserve>> /\ p \in Proc /\ m \in dir /\ Unhidden
  BY Roles, Scans, ThereIsADir DEF Automatic
<1>2. Readable(m)' <=> Readable(m)
  BY <1>1 DEF Readable
<1>3. CASE Allocate(p)
  BY <1>1, <1>3 DEF Allocate, Goto, PcType, LocalType, BasesCovered
<1>4. ASSUME NEW n \in Name, ReadMachine(p, n) PROVE BasesCovered(p, m, r)'
  <2>1. pc' = pc /\ picked' = picked /\ pc[p] \in {"machines", "bases", "macs"}
    BY <1>4 DEF ReadMachine
  <2>2. CASE pc[p] # "bases"
    BY <1>2, <1>4, <2>1, <2>2 DEF ReadMachine, BasesCovered
  <2>3. CASE pc[p] = "bases"
    <3>1. /\ todo' = [todo EXCEPT ![p] = todo[p] \ {n}]
          /\ bases' = [bases EXCEPT ![p] = bases[p] \union
                         {x.base : x \in IF Readable(n) THEN {json[n]} ELSE {}}]
      BY <1>4, <2>3 DEF ReadMachine
    <3>2. CASE n = m /\ Readable(m)
      <4>1. r = json[m]
        BY <3>2, Stands
      <4>2. r.base \in bases'[p]
        BY <1>1, <3>1, <3>2, <4>1 DEF LocalType
      <4> QED
        BY <2>1, <2>3, <4>2 DEF BasesCovered
    <3>3. CASE n # m \/ ~ Readable(m)
      BY <1>1, <1>2, <2>1, <2>3, <3>1, <3>3 DEF LocalType, BasesCovered
    <3> QED
      BY <3>2, <3>3
  <2> QED
    BY <2>2, <2>3
<1>5. ASSUME NEW n \in Name, ReadReservation(p, n) PROVE BasesCovered(p, m, r)'
  <2>1. /\ pc' = pc /\ pc[p] = "reserved" /\ todo' = [todo EXCEPT ![p] = todo[p] \ {n}]
        /\ bases' = [bases EXCEPT ![p] = bases[p] \union {x.base : x \in Reservations(p, n)}]
    BY <1>5 DEF ReadReservation
  <2>2. CASE n = m /\ ~ Readable(m)
    <3>1. r \in Reservations(p, m)
      BY <1>1, <2>2, ReservedIsSeen
    <3>2. r.base \in bases'[p]
      BY <1>1, <2>1, <2>2, <3>1 DEF LocalType
    <3> QED
      BY <2>1, <3>2 DEF BasesCovered
  <2>3. CASE n # m \/ Readable(m)
    BY <1>1, <1>2, <2>1, <2>3 DEF LocalType, BasesCovered
  <2> QED
    BY <2>2, <2>3
<1>6. CASE ListReservations(p)
  BY <1>1, <1>6 DEF ListReservations, NextScan, Goto, PcType, LocalType, BasesCovered
<1>7. CASE ListBases(p)
  BY <1>1, <1>2, <1>7 DEF ListBases, NextScan, Goto, PcType, LocalType, BasesCovered
<1>8. ~ CheckExplicit(p)
  BY DEF CheckExplicit, Automatic
<1>9. CASE PickBase(p)
  <2>1. PICK k \in 0..MaxProbes : picked' = [picked EXCEPT ![p].base = Candidate(bases[p])[k]]
    BY <1>9 DEF PickBase
  <2>2. UsedBases(bases[p])
    BY <1>1 DEF UsedBases, LocalType, FiniteInv
  <2>3. \A u \in bases[p] : ~ Overlap(Candidate(bases[p])[k], u)
    BY <2>2, CandidatesFree, AllocationAssumption
  <2>4. picked'[p].base = Candidate(bases[p])[k]
    BY <1>1, <2>1 DEF LocalType
  <2>5. pc[p] = "bases" /\ todo[p] = {} /\ pc'[p] \in {"abandon", "macs"}
    BY <1>1, <1>9 DEF PickBase, NextScan, Goto, PcType
  <2>6. r.base \in bases[p]
    BY <2>5 DEF BasesCovered
  <2>7. ~ Overlap(r.base, picked'[p].base)
    BY <2>3, <2>4, <2>6 DEF Overlap
  <2> QED
    BY <2>5, <2>7 DEF BasesCovered
<1>10. CASE PickMac(p)
  <2>1. /\ pc[p] = "macs" /\ pc'[p] = "ensure"
        /\ picked'[p].base = picked[p].base
    BY <1>1, <1>10 DEF PickMac, Goto, PcType, LocalType
  <2> QED
    BY <2>1 DEF BasesCovered
<1>11. CASE /\ pc[p] \in {"ensure", "claim"} /\ pc'[p] \in {"ensure", "claim"}
            /\ UNCHANGED <<bases, macs, picked>>
  BY <1>11 DEF BasesCovered
<1> QED
  BY <1>3, <1>4, <1>5, <1>6, <1>7, <1>8, <1>9, <1>10, <1>11, Scans

\* The claim of one creation and the scan of another exclude each other.
LEMMA ClaimsAlone ==
  ASSUME LocksInv, NEW p \in Proc, Spares(p), pc[p] = "claim", NEW q \in Proc, q # p
  PROVE  pc'[q] \notin Choosing
BY DEF LocksInv, Choosing, Spares

LEMMA MacsStep ==
  ASSUME PcType, DiskType, LocalType, LocksInv, HolderInv, FiniteInv, MacsInv, Next
  PROVE  MacsInv'
<1>1. PICK p \in Proc : Acts(p)
  BY NextActs
<1>2. Spares(p) /\ (Unhidden' <=> Unhidden)
  BY <1>1, SparesOthers, PresentStays DEF Unhidden
<1>3. SUFFICES ASSUME Unhidden, NEW q \in Creator, NEW m \in Name \ {Target[q]},
                      NEW s \in Resources(m)'
               PROVE  MacsCovered(q, m, s)'
  BY <1>2 DEF MacsInv
<1>4. q \in Proc /\ \A r \in Resources(m) : MacsCovered(q, m, r)
  BY <1>3, Roles DEF MacsInv
<1>5. CASE q = p /\ pc'[p] \in Scanning
  <2>1. UNCHANGED <<json, owner, reserve>>
    BY <1>1, <1>5, Scans
  <2>2. s \in Resources(m)
    BY <2>1 DEF Resources, Readable
  <2> QED
    BY <1>1, <1>3, <1>4, <1>5, <2>2, MacsScanned
<1>6. CASE pc'[q] \notin Scanning
  BY <1>6 DEF MacsCovered, Scanning
<1>7. CASE q # p /\ Claimed(p, m, s)
  BY <1>2, <1>4, <1>7, ClaimsAlone DEF Claimed, MacsCovered, Choosing
<1>8. CASE q # p /\ Kept(m, s)
  <2>1. PICK r \in Resources(m) : Same(r, s) /\ (Readable(m) => Readable(m)')
    BY <1>8 DEF Kept
  <2>2. /\ pc'[q] = pc[q] /\ todo'[q] = todo[q] /\ macs'[q] = macs[q] /\ picked'[q] = picked[q]
    BY <1>2, <1>4, <1>8 DEF Spares
  <2>3. MacsCovered(q, m, r)
    BY <1>4
  <2> QED
    BY <2>1, <2>2, <2>3 DEF MacsCovered, Same
<1> QED
  BY <1>1, <1>3, <1>5, <1>6, <1>7, <1>8, Settled

LEMMA BasesStep ==
  ASSUME PcType, DiskType, LocalType, LocksInv, HolderInv, FiniteInv, BasesInv, Next
  PROVE  BasesInv'
<1>1. PICK p \in Proc : Acts(p)
  BY NextActs
<1>2. Spares(p) /\ (Automatic' <=> Automatic)
  BY <1>1, SparesOthers, PresentStays DEF Automatic, Unhidden
<1>3. SUFFICES ASSUME Automatic, NEW q \in Creator, NEW m \in Name \ {Target[q]},
                      NEW s \in Resources(m)'
               PROVE  BasesCovered(q, m, s)'
  BY <1>2 DEF BasesInv
<1>4. q \in Proc /\ Unhidden /\ \A r \in Resources(m) : BasesCovered(q, m, r)
  BY <1>3, Roles DEF BasesInv, Automatic
<1>5. CASE q = p /\ pc'[p] \in Scanning
  <2>1. UNCHANGED <<json, owner, reserve>>
    BY <1>1, <1>5, Scans
  <2>2. s \in Resources(m)
    BY <2>1 DEF Resources, Readable
  <2>3. p \in Present
    BY <1>1, <1>5, PresentStays DEF Present, Scanning
  <2> QED
    BY <1>1, <1>3, <1>4, <1>5, <2>2, <2>3, BasesScanned
<1>6. CASE pc'[q] \notin Scanning
  BY <1>6 DEF BasesCovered, Scanning
<1>7. CASE q # p /\ Claimed(p, m, s)
  BY <1>2, <1>4, <1>7, ClaimsAlone DEF Claimed, BasesCovered, Choosing
<1>8. CASE q # p /\ Kept(m, s)
  <2>1. PICK r \in Resources(m) : Same(r, s) /\ (Readable(m) => Readable(m)')
    BY <1>8 DEF Kept
  <2>2. /\ pc'[q] = pc[q] /\ todo'[q] = todo[q] /\ bases'[q] = bases[q] /\ picked'[q] = picked[q]
    BY <1>2, <1>4, <1>8 DEF Spares
  <2>3. BasesCovered(q, m, r)
    BY <1>4
  <2> QED
    BY <2>1, <2>2, <2>3 DEF BasesCovered, Same
<1> QED
  BY <1>1, <1>3, <1>4, <1>5, <1>6, <1>7, <1>8, Settled

\* A creation claims what no other name stands for.
LEMMA MacsApart ==
  ASSUME PcType, DiskType, LocalType, LocksInv, HolderInv, MacsInv, DistinctMacs, Next
  PROVE  DistinctMacs'
<1>1. PICK p \in Proc : Acts(p)
  BY NextActs
<1>2. Unhidden' <=> Unhidden
  BY <1>1, PresentStays DEF Unhidden
<1>3. SUFFICES ASSUME Unhidden, NEW m \in Name, NEW n \in Name, m # n,
                      NEW r \in Resources(m)', NEW s \in Resources(n)'
               PROVE  r.mac # s.mac
  BY <1>2 DEF DistinctMacs
<1>4. ASSUME NEW k \in Name, NEW l \in Name, k # l, NEW a, NEW b, Claimed(p, k, a), Kept(l, b)
      PROVE  a.mac # b.mac
  <2>1. PICK c \in Resources(l) : Same(c, b)
    BY <1>4 DEF Kept
  <2>2. p \in Creator /\ pc[p] = "claim" /\ l \in Name \ {Target[p]} /\ a = picked[p]
    BY <1>4 DEF Claimed
  <2>3. MacsCovered(p, l, c)
    BY <1>3, <2>2 DEF MacsInv
  <2> QED
    BY <2>1, <2>2, <2>3 DEF MacsCovered, Same
<1>5. CASE Kept(m, r) /\ Kept(n, s)
  <2>1. PICK c \in Resources(m), d \in Resources(n) : Same(c, r) /\ Same(d, s)
    BY <1>5 DEF Kept
  <2>2. c.mac # d.mac
    BY <1>3 DEF DistinctMacs
  <2> QED
    BY <2>1, <2>2 DEF Same
<1>6. ~ (Claimed(p, m, r) /\ Claimed(p, n, s))
  BY <1>3 DEF Claimed
<1>7. (Kept(m, r) \/ Claimed(p, m, r)) /\ (Kept(n, s) \/ Claimed(p, n, s))
  BY <1>1, <1>3, Settled
<1> QED
  BY <1>3, <1>4, <1>5, <1>6, <1>7

LEMMA BlocksApart ==
  ASSUME PcType, DiskType, LocalType, LocksInv, HolderInv, BasesInv, DistinctAutomaticBlocks, Next
  PROVE  DistinctAutomaticBlocks'
<1>1. PICK p \in Proc : Acts(p)
  BY NextActs
<1>2. Automatic' <=> Automatic
  BY <1>1, PresentStays DEF Automatic, Unhidden
<1>3. SUFFICES ASSUME Automatic, NEW m \in Name, NEW n \in Name, m # n,
                      NEW r \in Resources(m)', NEW s \in Resources(n)'
               PROVE  ~ Overlap(r.base, s.base)
  BY <1>2 DEF DistinctAutomaticBlocks, DistinctBlocks
<1>4. ASSUME NEW k \in Name, NEW l \in Name, k # l, NEW a, NEW b, Claimed(p, k, a), Kept(l, b)
      PROVE  ~ Overlap(a.base, b.base) /\ ~ Overlap(b.base, a.base)
  <2>1. PICK c \in Resources(l) : Same(c, b)
    BY <1>4 DEF Kept
  <2>2. p \in Creator /\ pc[p] = "claim" /\ l \in Name \ {Target[p]} /\ a = picked[p]
    BY <1>4 DEF Claimed
  <2>3. BasesCovered(p, l, c)
    BY <1>3, <2>2 DEF BasesInv
  <2>4. ~ Overlap(b.base, a.base)
    BY <2>1, <2>2, <2>3 DEF BasesCovered, Same
  <2> QED
    BY <2>4 DEF Overlap
<1>5. CASE Kept(m, r) /\ Kept(n, s)
  <2>1. PICK c \in Resources(m), d \in Resources(n) : Same(c, r) /\ Same(d, s)
    BY <1>5 DEF Kept
  <2>2. ~ Overlap(c.base, d.base)
    BY <1>3 DEF DistinctAutomaticBlocks, DistinctBlocks
  <2> QED
    BY <2>1, <2>2 DEF Same
<1>6. ~ (Claimed(p, m, r) /\ Claimed(p, n, s))
  BY <1>3 DEF Claimed
<1>7. (Kept(m, r) \/ Claimed(p, m, r)) /\ (Kept(n, s) \/ Claimed(p, n, s))
  BY <1>1, <1>3, Settled DEF Automatic
<1> QED
  BY <1>3, <1>4, <1>5, <1>6, <1>7

----------------------------------------------------------------------------
(* The invariant *)

LEMMA IInvStarts == Init => IInv
<1> SUFFICES ASSUME Init PROVE IInv
  OBVIOUS
<1> USE DEF Init
<1>1. PcType
  BY DEF PcType, CreatorSteps, ChangerSteps
<1>2. DiskType
  BY NothingReserved DEF DiskType
<1>3. LocalType
  BY NothingReserved, AllocationAssumption DEF LocalType
<1>4. \A p \in Proc : pc[p] \in {"idle", "absent"}
  OBVIOUS
<1>5. LocksInv
  BY <1>4, Roles DEF LocksInv, Holding, Choosing
<1>6. HolderInv
  BY <1>4 DEF HolderInv, Held
<1>7. FiniteInv
  BY FS_EmptySet DEF FiniteInv
<1>8. \A m \in Name : Resources(m) = {}
  <2>1. Nobody \notin Creator /\ Nobody \notin Rewriter
    BY Roles DEF Proc, Changer
  <2>2. \A m \in Name : ~ Readable(m) /\ owner[m] = Nobody
    BY DEF Readable
  <2> QED
    BY <2>1, <2>2 DEF Resources
<1> QED
  BY <1>1, <1>2, <1>3, <1>5, <1>6, <1>7, <1>8, Types
  DEF IInv, MacsInv, BasesInv, DistinctMacs, DistinctAutomaticBlocks, DistinctBlocks

LEMMA IInvStep == IInv /\ [Next]_vars => IInv'
<1> SUFFICES ASSUME IInv, [Next]_vars PROVE IInv'
  OBVIOUS
<1>1. /\ PcType /\ DiskType /\ LocalType /\ LocksInv /\ HolderInv /\ FiniteInv
      /\ MacsInv /\ DistinctMacs /\ BasesInv /\ DistinctAutomaticBlocks
  BY Types DEF IInv
<1>2. CASE Next
  <2>1. PcType' /\ DiskType' /\ LocalType' /\ LocksInv' /\ HolderInv' /\ FiniteInv'
    BY <1>1, <1>2, PcStep, DiskStep, LocalStep, LocksStep, HolderStep, FiniteStep
  <2>2. MacsInv' /\ BasesInv' /\ DistinctMacs' /\ DistinctAutomaticBlocks'
    BY <1>1, <1>2, MacsStep, BasesStep, MacsApart, BlocksApart
  <2>3. TypeOK'
    BY <2>1 DEF TypeOK, PcType, DiskType, LocalType
  <2> QED
    BY <2>1, <2>2, <2>3 DEF IInv
<1>3. CASE UNCHANGED vars
  <2>1. UNCHANGED <<dir, json, owner, reserve, allocator, pc, todo, bases, macs, picked, fresh,
                    tries, saw>>
    BY <1>3 DEF vars, disk, local
  <2>2. TypeOK' /\ LocksInv' /\ HolderInv' /\ FiniteInv'
    BY <1>1, <2>1 DEF IInv, TypeOK, LocksInv, HolderInv, Held, FiniteInv
  <2>3. \A m \in Name : Resources(m)' = Resources(m) /\ (Readable(m)' <=> Readable(m))
    BY <2>1 DEF Resources, Readable
  <2>4. (Unhidden' <=> Unhidden) /\ (Automatic' <=> Automatic)
    BY <2>1 DEF Automatic, Unhidden, Present
  <2>5. DistinctMacs' /\ DistinctAutomaticBlocks'
    BY <1>1, <2>3, <2>4 DEF DistinctMacs, DistinctAutomaticBlocks, DistinctBlocks
  <2>6. MacsInv' /\ BasesInv'
    BY <1>1, <2>1, <2>3, <2>4 DEF MacsInv, BasesInv, MacsCovered, BasesCovered
  <2> QED
    BY <2>2, <2>5, <2>6 DEF IInv
<1> QED
  BY <1>2, <1>3

\* Every creation, rewrite and removal keeps the state of the directories, files, locks and
\* of its own scan in their types, whoever meets (quickchr.ts: claimNewMachine()).
THEOREM Typed == Spec => []TypeOK
<1>1. IInv => TypeOK
  BY DEF IInv
<1> QED
  BY <1>1, IInvStarts, IInvStep, PTL DEF Spec

\* No two machines, finished or being created, have the same MAC, while no machine.json is
\* being written again: for any number of creations and removals, any digests, and any order
\* of their scans (network.ts:441-449; quickchr.ts:2190-2217).
THEOREM MacsDiffer == Spec => []DistinctMacs
<1>1. IInv => DistinctMacs
  BY DEF IInv
<1> QED
  BY <1>1, IInvStarts, IInvStep, PTL DEF Spec

\* Nor do the port blocks that the allocator gave them overlap (quickchr.ts:2190-2217).
THEOREM BlocksAreDistinct == Spec => []DistinctAutomaticBlocks
<1>1. IInv => DistinctAutomaticBlocks
  BY DEF IInv
<1> QED
  BY <1>1, IInvStarts, IInvStep, PTL DEF Spec

----------------------------------------------------------------------------
(* What a step may do to a machine *)

\* A directory is taken away by a failed creation or a removal.
LEMMA TakenAway ==
  ASSUME NEW p \in Proc, Acts(p)
  PROVE  dir \subseteq dir' \/ (p \in Creator /\ CleanUp(p)) \/ Remove(p)
<1>1. ASSUME Creating(p) PROVE dir \subseteq dir' \/ CleanUp(p)
  BY <1>1 DEF Creating, Look, MarkFresh, Allocate, AllocateTimesOut, ListReservations,
     ListBases,
    ReadMachine, ReadReservation, CheckExplicit, PickBase, PickMac, EnsureDir, Claim, Recheck,
    ReleaseAllocator, Save, Truncate, Saved, Fill, Fail, Release, disk
<1>2. ASSUME Changing(p) PROVE dir \subseteq dir' \/ Remove(p)
  BY <1>2 DEF Changing, LookUp, LockExisting, Turned, Rewrite, Rewritten, Fill, Release, disk
<1>3. ASSUME Crash(p) PROVE dir \subseteq dir'
  BY <1>3 DEF Crash
<1> QED
  BY <1>1, <1>2, <1>3 DEF Acts

LEMMA MachinesKept == ASSUME IInv, Next PROVE KeepsMachines
<1>1. PICK p \in Proc : Acts(p)
  BY NextActs
<1>2. PcType /\ DiskType /\ HolderInv
  BY Types DEF IInv
<1> DEFINE n == Target[p]
<1>3. SUFFICES ASSUME NEW m \in Name, json[m] # NoJson, json'[m] # NoJson
               PROVE  json'[m].by = json[m].by
  BY DEF KeepsMachines
<1>4. CASE json' = json
  BY <1>4
<1>5. ASSUME NEW t \in BOOLEAN, json' = [json EXCEPT ![n].torn = t]
      PROVE  json'[m].by = json[m].by
  BY <1>2, <1>3, <1>5, JsonHas DEF DiskType
<1>6. CASE Save(p)
  <2>1. /\ json[n] = NoJson
        /\ json' = [json EXCEPT ![n] = Json(p, picked[p], TRUE)]
    BY <1>2, <1>6 DEF Save, Truncate, Goto, HolderInv, Held
  <2>2. m # n
    BY <1>3, <2>1
  <2>3. json'[m] = json[m]
    BY <1>2, <2>1, <2>2 DEF DiskType
  <2> QED
    BY <2>3
<1>7. CASE RemoveDir(n)
  BY <1>2, <1>3, <1>7 DEF RemoveDir, DiskType
<1>8. CASE Claim(p) \/ Recheck(p) \/ LockExisting(p) \/ Release(p) \/ Crash(p)
  BY <1>4, <1>8 DEF Claim, Recheck, LockExisting, Release, Crash, disk
<1>9. CASE CleanUp(p) \/ Remove(p)
  BY <1>4, <1>7, <1>9 DEF CleanUp, Remove, disk
<1>10. CASE Saved(p) \/ Rewrite(p) \/ Rewritten(p)
  BY <1>5, <1>10 DEF Saved, Rewrite, Rewritten, Fill
<1> QED
  BY <1>1, <1>4, <1>6, <1>8, <1>9, <1>10, Writes

LEMMA FoundIsRemoved == ASSUME IInv, Next PROVE RemovesFound
<1>1. PICK p \in Proc : Acts(p)
  BY NextActs
<1>2. DiskType /\ LocksInv
  BY Types DEF IInv
<1>3. SUFFICES ASSUME NEW m \in Name, Readable(m), m \notin dir'
               PROVE  \E q \in Remover : pc[q] = "locked" /\ saw[q] = json[m].by
  BY DEF RemovesFound
<1>4. m \in dir /\ ~ Orphan(m)
  BY <1>2, <1>3 DEF LocksInv, Readable, Orphan
<1>5. ~ CleanUp(p)
  <2> SUFFICES ASSUME CleanUp(p) PROVE FALSE
    OBVIOUS
  <2>1. dir' = dir \/ (Orphan(Target[p]) /\ dir' = dir \ {Target[p]})
    BY DEF CleanUp, RemoveDir, Unfinished, disk
  <2> QED
    BY <1>3, <1>4, <2>1
<1>6. Remove(p)
  BY <1>1, <1>3, <1>4, <1>5, TakenAway
<1>7. p \in Remover /\ SameMachine(p) /\ pc[p] = "locked" /\ m = Target[p]
  BY <1>3, <1>4, <1>6 DEF Remove, RemoveDir, Goto
<1>8. saw[p] = json[m].by
  BY <1>4, <1>7 DEF SameMachine
<1> QED
  BY <1>7, <1>8

\* A machine.json is never taken over by another creation of the name, and a finished machine
\* is removed only by a caller that had found that very machine (quickchr.ts:2258-2263,
\* 3334-3345).
THEOREM OnlyItsOwnIsTouched == Spec => TouchesOnlyItsOwn
<1>1. IInv /\ [Next]_vars => [KeepsMachines /\ RemovesFound]_vars
  BY MachinesKept, FoundIsRemoved
<1> QED
  BY <1>1, IInvStarts, IInvStep, PTL DEF Spec, TouchesOnlyItsOwn

----------------------------------------------------------------------------
(* What a failed creation leaves *)

Ended == {"release", "done", "dead"}

Dead(n) == \E p \in Proc : Target[p] = n /\ pc[p] = "dead"

\* Every creation of the name has come to its end.
Over(n) == \A p \in Creator \intersect Present : Target[p] = n => pc[p] \in Ended

\* The name has no more than one creation.
Alone(n) == \A p, q \in Creator \intersect Present : Target[p] = n /\ Target[q] = n => p = q

\* A directory is there because of a creation; the only one of its name has made it itself.
MadeInv ==
  /\ \A n \in dir : \E p \in Creator : Target[p] = n /\ pc[p] \notin {"absent", "idle", "mark"}
  /\ \A p \in Starter :
       Alone(Target[p]) /\ pc[p] \notin {"absent", "idle", "mark"} \union Ended => fresh[p]

\* A file was written by a creation of the name, the last thing that it did.
WrittenInv ==
  \A n \in Name : json[n] # NoJson =>
    /\ json[n].by \in Creator /\ Target[json[n].by] = n
    /\ pc[json[n].by] \in {"saving", "cleanup"} \union Ended

\* A file that is not whole has a writer, or its writer died.
TornInv ==
  \A n \in Name : Undisputed(n) /\ json[n] # NoJson /\ json[n].torn =>
    Dead(n) \/ (owner[n] # Nobody /\ pc[owner[n]] \in {"saving", "rewriting", "cleanup"})

\* What a process means to change was made by a creation that has ended and, unless another
\* process changes it too, is still there.
Seen(p) ==
  LET n == Target[p]
  IN  /\ saw[p] \in Creator /\ Target[saw[p]] = n /\ pc[saw[p]] \in Ended
      /\ Undisputed(n) /\ ~ Alone(n) => json[n] # NoJson /\ json[n].by = saw[p]

SeenInv == \A p \in Changer : pc[p] \in {"lock", "locked"} /\ saw[p] # Nobody => Seen(p)

\* Who is about to let a machine go leaves a file, or nobody to make one.
ReleasedInv ==
  \A p \in Proc : pc[p] = "release" /\ Undisputed(Target[p]) =>
    json[Target[p]] # NoJson \/ Over(Target[p])

\* A directory without a file is a creation in flight, or about to be removed.
InFlight(n) ==
  \/ \E p \in Proc : Target[p] = n /\ pc[p] \in {"claim", "dead"}
  \/ /\ owner[n] # Nobody
     /\ \/ pc[owner[n]] \in {"recheck", "claimed", "build", "cleanup"}
        \/ pc[owner[n]] = "locked" /\ saw[owner[n]] = Nobody

EmptyInv == \A n \in dir : Undisputed(n) /\ json[n] = NoJson => InFlight(n)

LeftInv == MadeInv /\ WrittenInv /\ TornInv /\ SeenInv /\ ReleasedInv /\ EmptyInv

\* What a step can do to the place of the process that takes it.
LEMMA Moves ==
  ASSUME PcType, NEW p \in Proc, Acts(p)
  PROVE  /\ pc[p] \in Ended => pc'[p] \in Ended
         /\ pc[p] # "dead"
         /\ pc[p] \in {"saving", "cleanup"} => pc'[p] \in {"cleanup"} \union Ended
         /\ pc[p] \notin {"absent", "idle", "mark"} => pc'[p] \notin {"absent", "idle", "mark"}
<1> DEFINE Right == /\ pc[p] \in Ended => pc'[p] \in Ended
                    /\ pc[p] # "dead"
                    /\ pc[p] \in {"saving", "cleanup"} => pc'[p] \in {"cleanup"} \union Ended
                    /\ pc[p] \notin {"absent", "idle", "mark"} =>
                         pc'[p] \notin {"absent", "idle", "mark"}
<1>1. ASSUME NEW n \in Name, ReadMachine(p, n) \/ ReadReservation(p, n) PROVE Right
  BY <1>1 DEF ReadMachine, ReadReservation, Ended
<1>2. ASSUME NEW from, NEW to, Goto(p, from, to),
             from \notin Ended \union {"saving", "cleanup"}, to \notin {"absent", "idle", "mark"}
      PROVE  Right
  BY <1>2 DEF Goto, PcType, Ended
<1>3. CASE Look(p) \/ MarkFresh(p) \/ Allocate(p) \/ AllocateTimesOut(p)
  BY <1>3 DEF Look, MarkFresh, Allocate, AllocateTimesOut, Goto, PcType, Ended
<1>4. CASE ListReservations(p) \/ ListBases(p) \/ CheckExplicit(p) \/ PickBase(p) \/ PickMac(p)
  BY <1>4 DEF ListReservations, ListBases, CheckExplicit, PickBase, PickMac, NextScan, Goto,
    PcType, Ended
<1>5. CASE EnsureDir(p) \/ Claim(p) \/ Recheck(p) \/ ReleaseAllocator(p)
  BY <1>5 DEF EnsureDir, Claim, Recheck, ReleaseAllocator, Goto, PcType, Ended
<1>6. CASE Save(p) \/ Saved(p) \/ Fail(p) \/ CleanUp(p) \/ Release(p)
  BY <1>6 DEF Save, Saved, Fail, CleanUp, Release, Goto, PcType, Ended
<1>7. CASE LookUp(p) \/ LockExisting(p) \/ Turned(p) \/ Rewrite(p) \/ Rewritten(p) \/ Remove(p)
  BY <1>7 DEF LookUp, LockExisting, Turned, Rewrite, Rewritten, Remove, Goto, PcType, Ended
<1>8. CASE Crash(p)
  BY <1>8 DEF Crash, PcType, Ended
<1> QED
  BY <1>1, <1>3, <1>4, <1>5, <1>6, <1>7, <1>8 DEF Acts, Creating, Changing

\* And to those of all: what has ended, has died or has begun stays so.
LEMMA AllMove ==
  ASSUME PcType, NEW p \in Proc, Acts(p), Spares(p)
  PROVE  /\ \A q \in Proc : pc[q] \in Ended => pc'[q] \in Ended
         /\ \A q \in Proc : pc[q] = "dead" => pc'[q] = "dead"
         /\ \A q \in Proc : pc[q] \in {"saving", "cleanup"} \union Ended =>
              pc'[q] \in {"saving", "cleanup"} \union Ended
         /\ \A q \in Proc : pc[q] \notin {"absent", "idle", "mark"} =>
              pc'[q] \notin {"absent", "idle", "mark"}
BY Moves DEF Spares

LEMMA DeadStays ==
  ASSUME PcType, NEW p \in Proc, Acts(p), Spares(p), NEW n \in Name, Dead(n)
  PROVE  Dead(n)'
BY AllMove DEF Dead

\* Who creates and who changes a name does not change.
LEMMA CastStays ==
  ASSUME PcType, NEW p \in Proc, Acts(p), Spares(p), NEW n \in Name
  PROVE  /\ Undisputed(n)' <=> Undisputed(n)
         /\ Alone(n)' <=> Alone(n)
         /\ Over(n) => Over(n)'
<1>1. Present' = Present
  BY PresentStays
<1>2. Over(n) => Over(n)'
  BY <1>1, AllMove, Roles DEF Over
<1> QED
  BY <1>1, <1>2 DEF Undisputed, Alone

\* A starter that is not through is the only creator of an undisputed name.
LEMMA StarterAlone ==
  ASSUME NEW p \in Starter \intersect Present, Undisputed(Target[p])
  PROVE  Alone(Target[p])
BY DEF Undisputed, Alone, Creator

----------------------------------------------------------------------------
(* What a step can do to a file *)

Starts(p) == pc[p] = "build" /\ pc'[p] = "saving" /\ json[Target[p]] = NoJson
             /\ json'[Target[p]] = Json(p, picked[p], TRUE) /\ UNCHANGED owner

Completes(p) ==
  LET n == Target[p]
  IN  /\ pc[p] \in {"saving", "rewriting"} /\ pc'[p] = "release"
      /\ json[n] # NoJson /\ json'[n] # NoJson
      /\ json'[n].by = json[n].by /\ ~ json'[n].torn

Reopens(p) ==
  LET n == Target[p]
  IN  /\ pc[p] = "locked" /\ pc'[p] = "rewriting" /\ UNCHANGED owner
      /\ json[n] # NoJson /\ json'[n] # NoJson /\ json'[n].by = json[n].by

Drops(p) ==
  LET n == Target[p]
  IN  /\ pc'[p] = "done" /\ json'[n] = NoJson /\ n \notin dir'
      /\ \/ p \in Creator /\ pc[p] = "cleanup"
         \/ p \in Changer /\ pc[p] = "locked"

LEMMA FileMoves ==
  ASSUME IInv, NEW p \in Proc, Acts(p), NEW n \in Name
  PROVE  \/ json'[n] = json[n]
         \/ n = Target[p] /\ (Starts(p) \/ Completes(p) \/ Reopens(p) \/ Drops(p))
<1> DEFINE Right == \/ json'[n] = json[n]
                    \/ n = Target[p] /\ (Starts(p) \/ Completes(p) \/ Reopens(p) \/ Drops(p))
<1>1. PcType /\ DiskType /\ HolderInv /\ Target[p] \in Name
  BY Types, Roles DEF IInv
<1>2. CASE json' = json
  BY <1>2
<1>3. ASSUME p \in Creator, Save(p) PROVE Right
  <2>1. /\ pc[p] = "build" /\ pc' = [pc EXCEPT ![p] = "saving"]
        /\ json' = [json EXCEPT ![Target[p]] = Json(p, picked[p], TRUE)] /\ UNCHANGED owner
    BY <1>3 DEF Save, Truncate, Goto
  <2>2. json[Target[p]] = NoJson
    BY <1>1, <2>1 DEF HolderInv, Held
  <2>3. CASE n = Target[p]
    <3>1. json'[n] = Json(p, picked[p], TRUE) /\ pc'[p] = "saving"
      BY <1>1, <2>1, <2>3 DEF DiskType, PcType
    <3> QED
      BY <2>1, <2>2, <2>3, <3>1 DEF Starts
  <2>4. CASE n # Target[p]
    <3>1. json'[n] = json[n]
      BY <1>1, <2>1, <2>4 DEF DiskType
    <3> QED
      BY <3>1
  <2> QED
    BY <2>3, <2>4
<1>4. ASSUME json[Target[p]] # NoJson, NEW t \in BOOLEAN,
             json' = [json EXCEPT ![Target[p]].torn = t]
      PROVE  /\ n # Target[p] => json'[n] = json[n]
             /\ json'[Target[p]] # NoJson /\ json'[Target[p]].by = json[Target[p]].by
             /\ json'[Target[p]].torn = t
  <2>1. n # Target[p] => json'[n] = json[n]
    BY <1>1, <1>4 DEF DiskType
  <2>2. json'[Target[p]] = [json[Target[p]] EXCEPT !.torn = t]
    BY <1>1, <1>4 DEF DiskType
  <2>3. json[Target[p]] \in [by : Proc, base : Nat, mac : Nat, torn : BOOLEAN]
    BY <1>1, <1>4, JsonHas
  <2>4. json'[Target[p]].by = json[Target[p]].by /\ json'[Target[p]].torn = t
    BY <2>2, <2>3
  <2>5. json'[Target[p]].by # Nobody
    BY <2>3, <2>4, Roles
  <2> QED
    BY <2>1, <2>4, <2>5, Roles DEF NoJson
<1>5. ASSUME Saved(p) PROVE Right
  <2>1. /\ pc[p] = "saving" /\ pc'[p] = "release"
        /\ json' = [json EXCEPT ![Target[p]].torn = FALSE]
    BY <1>1, <1>5 DEF Saved, Fill, Goto, PcType
  <2>2. json[Target[p]] # NoJson
    <3>1. json[Target[p]] = Json(p, picked[p], TRUE)
      BY <1>1, <2>1 DEF HolderInv, Held
    <3>2. Json(p, picked[p], TRUE) # NoJson
      BY JsonIs
    <3> QED
      BY <3>1, <3>2
  <2> QED
    BY <1>4, <2>1, <2>2 DEF Completes
<1>6. ASSUME Rewritten(p) PROVE Right
  <2>1. /\ pc[p] = "rewriting" /\ pc'[p] = "release"
        /\ json' = [json EXCEPT ![Target[p]].torn = FALSE]
    BY <1>1, <1>6 DEF Rewritten, Fill, Goto, PcType
  <2>2. json[Target[p]] # NoJson
    BY <1>1, <2>1 DEF HolderInv, Held
  <2> QED
    BY <1>4, <2>1, <2>2 DEF Completes
<1>7. ASSUME Rewrite(p) PROVE Right
  <2>1. /\ pc[p] = "locked" /\ pc'[p] = "rewriting" /\ UNCHANGED owner
        /\ json' = [json EXCEPT ![Target[p]].torn = TRUE]
    BY <1>1, <1>7 DEF Rewrite, Goto, PcType
  <2>2. json[Target[p]] # NoJson
    BY <1>1, <1>7, <2>1 DEF HolderInv, Held, Rewrite, SameMachine, Readable
  <2> QED
    BY <1>4, <2>1, <2>2 DEF Reopens
<1>8. ASSUME RemoveDir(Target[p]), pc'[p] = "done",
             (p \in Creator /\ pc[p] = "cleanup") \/ (p \in Changer /\ pc[p] = "locked")
      PROVE  Right
  <2>1. /\ dir' = dir \ {Target[p]} /\ json' = [json EXCEPT ![Target[p]] = NoJson]
    BY <1>8 DEF RemoveDir
  <2>2. CASE n = Target[p]
    BY <1>1, <1>8, <2>1, <2>2 DEF Drops, DiskType
  <2>3. CASE n # Target[p]
    <3>1. json'[n] = json[n]
      BY <1>1, <2>1, <2>3 DEF DiskType
    <3> QED
      BY <3>1
  <2> QED
    BY <2>2, <2>3
<1>9. ASSUME p \in Creator, CleanUp(p) PROVE Right
  <2>1. CASE json' = json
    BY <1>2, <2>1
  <2>2. CASE RemoveDir(Target[p]) /\ Goto(p, "cleanup", "done")
    BY <1>1, <1>8, <1>9, <2>2 DEF Goto, PcType
  <2> QED
    BY <1>9, <2>1, <2>2 DEF CleanUp, disk
<1>10. ASSUME p \in Changer, Remove(p) PROVE Right
  BY <1>1, <1>8, <1>10 DEF Remove, Goto, PcType
<1>11. CASE Claim(p) \/ Recheck(p) \/ LockExisting(p) \/ Release(p) \/ Crash(p)
  BY <1>2, <1>11 DEF Claim, Recheck, LockExisting, Release, Crash, disk
<1> QED
  BY <1>2, <1>3, <1>5, <1>6, <1>7, <1>9, <1>10, <1>11, Writes

\* A failed creation of an undisputed name takes its directory away.
LEMMA CleanUpRemoves ==
  ASSUME IInv, MadeInv, NEW p \in Creator, pc[p] = "cleanup", Undisputed(Target[p]), Acts(p),
         CleanUp(p)
  PROVE  pc'[p] = "done" /\ Target[p] \notin dir'
<1> DEFINE n == Target[p]
<1>1. PcType /\ LocksInv /\ HolderInv /\ p \in Proc /\ n \in Name
  BY Types, Roles DEF IInv
<1>2. owner[n] = p /\ n \in dir
  BY <1>1, Roles DEF LocksInv, Holding
<1>3. json[n] = NoJson \/ json[n] = Json(p, picked[p], TRUE)
  BY <1>1 DEF HolderInv, Held
<1>4. ~ Readable(n)
  <2>1. Json(p, picked[p], TRUE).torn
    BY <1>1, JsonIs
  <2> QED
    BY <1>3, <2>1 DEF Readable
<1>5. p \in Adder \/ fresh[p]
  <2>1. CASE p \in Starter
    <3>1. Alone(n)
      BY <1>1, <2>1, StarterAlone DEF Present
    <3> QED
      BY <2>1, <3>1 DEF MadeInv, Ended
  <2> QED
    BY <2>1 DEF Creator
<1>6. RemoveDir(n) /\ Goto(p, "cleanup", "done")
  BY <1>2, <1>4, <1>5 DEF CleanUp, Unfinished, Orphan
<1> QED
  BY <1>1, <1>6 DEF RemoveDir, Goto, PcType

LEMMA MadeStep == ASSUME IInv, MadeInv, NEW p \in Proc, Acts(p) PROVE MadeInv'
<1>1. PcType /\ DiskType /\ LocalType /\ LocksInv
  BY Types DEF IInv
<1>2. Spares(p)
  BY <1>1, SparesOthers
<1>3. ASSUME NEW n \in dir' PROVE \E q \in Creator : Target[q] = n /\ pc'[q] \notin {"absent", "idle", "mark"}
  <2>1. CASE n \in dir
    <3>1. PICK q \in Creator : Target[q] = n /\ pc[q] \notin {"absent", "idle", "mark"}
      BY <2>1 DEF MadeInv
    <3> QED
      BY <1>1, <1>2, <3>1, AllMove, Roles
  <2>2. CASE n \notin dir
    <3>1. ASSUME Creating(p) PROVE EnsureDir(p) \/ Save(p)
      BY <1>3, <2>2, <3>1 DEF Creating, Look, MarkFresh, Allocate, AllocateTimesOut,
         ListReservations,
        ListBases, ReadMachine, ReadReservation, CheckExplicit, PickBase, PickMac, Claim, Recheck,
        ReleaseAllocator, Saved, Fill, Fail, CleanUp, RemoveDir, Release, disk
    <3>2. ~ Changing(p) /\ ~ Crash(p)
      BY <1>3, <2>2 DEF Changing, LookUp, LockExisting, Turned, Rewrite, Rewritten, Fill,
         Remove,
        RemoveDir, Release, disk, Crash
    <3>3. p \in Creator /\ (EnsureDir(p) \/ Save(p))
      BY <3>1, <3>2 DEF Acts
    <3>4. n = Target[p] /\ pc'[p] \in {"claim", "saving"}
      BY <1>1, <1>3, <2>2, <3>3 DEF EnsureDir, Save, Truncate, Goto, PcType
    <3> QED
      BY <3>3, <3>4
  <2> QED
    BY <2>1, <2>2
<1>4. ASSUME NEW q \in Starter, Alone(Target[q]), pc'[q] \notin {"absent", "idle", "mark"} \union Ended
      PROVE  fresh'[q]
  <2>1. q \in Proc /\ q \in Creator /\ q \notin Adder /\ q \notin Changer
    BY Roles, AllocationAssumption DEF Creator
  <2>2. CASE pc[q] \notin {"absent", "idle", "mark"} /\ (q # p \/ fresh' = fresh)
    <3>1. pc[q] \notin Ended
      BY <1>1, <1>2, <1>4, <2>1, AllMove
    <3>2. fresh[q]
      BY <1>4, <2>2, <3>1 DEF MadeInv
    <3> QED
      BY <1>2, <2>1, <2>2, <3>2 DEF Spares
  <2>3. CASE q # p /\ pc[q] \in {"absent", "idle", "mark"}
    BY <1>2, <1>4, <2>1, <2>3 DEF Spares
  <2>4. CASE q = p /\ MarkFresh(p)
    <3>1. pc[p] = "mark" /\ fresh'[p] = (Target[p] \notin dir)
      BY <1>1, <2>1, <2>4 DEF MarkFresh, Goto, LocalType
    <3>2. Target[p] \notin dir
      <4> SUFFICES ASSUME Target[p] \in dir PROVE FALSE
        OBVIOUS
      <4>1. PICK o \in Creator : Target[o] = Target[p] /\ pc[o] \notin {"absent", "idle", "mark"}
        BY DEF MadeInv
      <4>2. o = p
        BY <1>4, <2>1, <2>4, <3>1, <4>1, Roles DEF Alone, Present
      <4> QED
        BY <3>1, <4>1, <4>2
    <3> QED
      BY <2>4, <3>1, <3>2
  <2>5. CASE q = p /\ ~ MarkFresh(p)
    <3>1. fresh' = fresh
      <4>1. Creating(p) \/ Crash(p)
        BY <2>1, <2>5 DEF Acts
      <4> QED
        BY <2>5, <4>1 DEF Creating, Look, Allocate, AllocateTimesOut, ReadMachine,
           ReadReservation,
          ListReservations, ListBases, CheckExplicit, PickBase, PickMac, EnsureDir, Claim, Recheck,
          ReleaseAllocator, Save, Truncate, Saved, Fill, Fail, CleanUp, Release, Crash, local
    <3>2. pc[q] \notin {"absent", "idle", "mark"}
      <4>1. Creating(p) \/ Crash(p)
        BY <2>1, <2>5 DEF Acts
      <4>2. CASE Look(p)
        BY <1>1, <1>4, <2>1, <2>5, <4>2 DEF Look, Goto, PcType, Ended
      <4>3. CASE Crash(p)
        BY <1>1, <1>4, <2>1, <2>5, <4>3 DEF Crash, PcType, Ended
      <4>4. CASE Creating(p) /\ ~ Look(p)
        BY <1>1, <2>5, <4>4 DEF Creating, Allocate, AllocateTimesOut, ReadMachine,
           ReadReservation,
          ListReservations, ListBases, CheckExplicit, PickBase, PickMac, EnsureDir, Claim, Recheck,
          ReleaseAllocator, Save, Saved, Fail, CleanUp, Release, NextScan, Goto
      <4> QED
        BY <4>1, <4>2, <4>3, <4>4
    <3> QED
      BY <2>2, <2>5, <3>1, <3>2
  <2> QED
    BY <2>2, <2>3, <2>4, <2>5
<1>5. \A q \in Starter : Target[q] \in Name
  BY Roles DEF Creator
<1> QED
  BY <1>1, <1>2, <1>3, <1>4, <1>5, CastStays DEF MadeInv

LEMMA WrittenStep ==
  ASSUME IInv, WrittenInv, NEW p \in Proc, Acts(p) PROVE WrittenInv'
<1>1. PcType /\ DiskType /\ LocalType /\ LocksInv /\ Next
  BY Types, NextActs DEF IInv
<1>2. Spares(p)
  BY <1>1, SparesOthers
<1>3. SUFFICES ASSUME NEW n \in Name, json'[n] # NoJson
               PROVE  /\ json'[n].by \in Creator /\ Target[json'[n].by] = n
                      /\ pc'[json'[n].by] \in {"saving", "cleanup"} \union Ended
  BY DEF WrittenInv
<1>4. CASE json[n] # NoJson
  <2>1. json'[n].by = json[n].by
    BY <1>1, <1>3, <1>4, MachinesKept DEF KeepsMachines
  <2> QED
    BY <1>1, <1>2, <1>4, <2>1, AllMove, Roles DEF WrittenInv
<1>5. CASE json[n] = NoJson
  <2>1. n = Target[p] /\ Starts(p)
    BY <1>3, <1>5, FileMoves DEF Completes, Reopens, Drops
  <2>2. json'[n].by = p
    BY <1>1, <2>1, Roles DEF Starts, Json, DiskType
  <2>3. p \in Creator
    BY <1>1, <2>1, Roles DEF Starts, PcType, ChangerSteps
  <2> QED
    BY <2>1, <2>2, <2>3 DEF Starts
<1> QED
  BY <1>4, <1>5

LEMMA TornStep ==
  ASSUME IInv, MadeInv, TornInv, NEW p \in Proc, Acts(p) PROVE TornInv'
<1>1. PcType /\ DiskType /\ LocalType /\ LocksInv
  BY Types DEF IInv
<1>2. Spares(p)
  BY <1>1, SparesOthers
<1>3. SUFFICES ASSUME NEW n \in Name, Undisputed(n), json'[n] # NoJson, json'[n].torn
               PROVE  \/ Dead(n)'
                      \/ owner'[n] # Nobody /\ pc'[owner'[n]] \in {"saving", "rewriting", "cleanup"}
  BY <1>1, <1>2, CastStays DEF TornInv
<1>4. CASE json'[n] = json[n]
  <2>1. CASE Dead(n)
    BY <1>1, <1>2, <2>1, DeadStays
  <2>2. CASE owner[n] # Nobody /\ pc[owner[n]] \in {"saving", "rewriting", "cleanup"}
    <3> DEFINE q == owner[n]
    <3>1. q \in Proc /\ Target[q] = n /\ n \in dir
      BY <1>1, <2>2 DEF LocksInv, DiskType
    <3>2. CASE q # p
      BY <1>2, <2>2, <3>1, <3>2 DEF Spares
    <3>3. CASE q = p
      <4>1. CASE Crash(p)
        BY <1>1, <3>1, <3>3, <4>1 DEF Dead, Crash, PcType
      <4>2. CASE Saved(p) \/ Rewritten(p)
        <5>1. json'[n].torn = FALSE
          <6>1. json' = [json EXCEPT ![n].torn = FALSE]
            BY <3>1, <3>3, <4>2 DEF Saved, Rewritten, Fill
          <6>2. json[n] \in [by : Proc, base : Nat, mac : Nat, torn : BOOLEAN]
            BY <1>1, <1>3, <1>4, JsonHas
          <6>3. json'[n] = [json[n] EXCEPT !.torn = FALSE]
            BY <1>1, <6>1 DEF DiskType
          <6> QED
            BY <6>2, <6>3
        <5> QED
          BY <1>3, <5>1
      <4>3. CASE CleanUp(p) /\ p \in Creator
        <5>1. pc[p] = "cleanup"
          BY <4>3 DEF CleanUp, Goto
        <5>2. n \notin dir'
          BY <1>3, <3>1, <3>3, <4>3, <5>1, CleanUpRemoves
        <5>3. LocksInv'
          BY <1>1, LocksStep, NextActs DEF IInv
        <5> QED
          BY <1>3, <5>2, <5>3 DEF LocksInv
      <4>4. CASE Fail(p)
        BY <1>1, <2>2, <3>1, <3>3, <4>4 DEF Fail, Goto, PcType, disk
      <4>5. Crash(p) \/ Saved(p) \/ Rewritten(p) \/ (CleanUp(p) /\ p \in Creator) \/ Fail(p)
        BY <2>2, <3>3 DEF Acts, Creating, Changing, Look, MarkFresh, Allocate, AllocateTimesOut,
          ReadMachine, ReadReservation, ListReservations, ListBases, CheckExplicit, PickBase, PickMac,
          EnsureDir, Claim, Recheck, ReleaseAllocator, Save, LookUp, LockExisting, Turned, Rewrite,
          Remove, Release, NextScan, Goto
      <4> QED
        BY <4>1, <4>2, <4>3, <4>4, <4>5
    <3> QED
      BY <3>2, <3>3
  <2> QED
    BY <1>3, <1>4, <2>1, <2>2 DEF TornInv
<1>5. CASE n = Target[p] /\ (Starts(p) \/ Reopens(p))
  <2>1. owner[n] = p
    BY <1>1, <1>5 DEF Starts, Reopens, LocksInv, Holding
  <2> QED
    BY <1>5, <2>1, Roles DEF Starts, Reopens
<1>6. ~ (n = Target[p] /\ (Completes(p) \/ Drops(p)))
  BY <1>3 DEF Completes, Drops
<1> QED
  BY <1>4, <1>5, <1>6, FileMoves

\* What a process has found stays true of the machine it means to change.
LEMMA SeenStays ==
  ASSUME IInv, NEW p \in Proc, Acts(p), NEW q \in Changer, Seen(q), saw[q] # Nobody,
         saw'[q] = saw[q], pc[q] \in {"lock", "locked"}, pc'[q] \in {"lock", "locked"}
  PROVE  Seen(q)'
<1> DEFINE n == Target[q]
           o == saw[q]
<1>1. PcType /\ DiskType /\ LocalType /\ LocksInv /\ HolderInv /\ n \in Name /\ q \in Proc
  BY Types, Roles DEF IInv
<1>2. Spares(p)
  BY <1>1, SparesOthers
<1>3. /\ o \in Creator /\ Target[o] = n /\ pc'[o] \in Ended /\ pc[o] \in Ended
      /\ Undisputed(n) /\ ~ Alone(n) => json[n] # NoJson /\ json[n].by = o
  BY <1>1, <1>2, AllMove, Roles DEF Seen
<1>4. ASSUME Undisputed(n), ~ Alone(n) PROVE json'[n] # NoJson /\ json'[n].by = o
  <2>1. json[n] # NoJson /\ json[n].by = o
    BY <1>3, <1>4
  <2>2. ~ (n = Target[p] /\ Starts(p))
    BY <2>1 DEF Starts
  <2>3. ~ (n = Target[p] /\ Drops(p))
    <3> SUFFICES ASSUME n = Target[p], Drops(p) PROVE FALSE
      OBVIOUS
    <3>1. CASE p \in Creator /\ pc[p] = "cleanup"
      <4>1. json[n] = Json(p, picked[p], TRUE)
        BY <1>1, <2>1, <3>1 DEF HolderInv, Held
      <4>2. json[n].by = p
        BY <4>1 DEF Json
      <4> QED
        BY <1>3, <2>1, <3>1, <4>2 DEF Ended
    <3>2. CASE p \in Changer /\ pc[p] = "locked"
      <4>1. p \in Present /\ q \in Present
        BY <1>1, <3>2 DEF Present
      <4>2. p = q
        BY <1>1, <1>4, <3>2, <4>1 DEF Undisputed, Alone
      <4> QED
        BY <4>2 DEF Drops
    <3> QED
      BY <3>1, <3>2 DEF Drops
  <2> QED
    BY <1>1, <2>1, <2>2, <2>3, FileMoves DEF Completes, Reopens
<1> QED
  BY <1>1, <1>2, <1>3, <1>4, CastStays DEF Seen

LEMMA SeenStep ==
  ASSUME IInv, WrittenInv, SeenInv, NEW p \in Proc, Acts(p) PROVE SeenInv'
<1>1. PcType /\ DiskType /\ LocalType /\ LocksInv /\ HolderInv
  BY Types DEF IInv
<1>2. Spares(p)
  BY <1>1, SparesOthers
<1>3. SUFFICES ASSUME NEW q \in Changer, pc'[q] \in {"lock", "locked"}, saw'[q] # Nobody
               PROVE  Seen(q)'
  BY DEF SeenInv
<1>4. q \in Proc /\ q \notin Creator
  BY Roles
<1>5. CASE q # p
  BY <1>1, <1>2, <1>3, <1>4, <1>5, SeenStays DEF Spares, SeenInv
<1>6. CASE q = p /\ LookUp(p)
  <2> DEFINE n == Target[p]
             o == json[n].by
  <2>1. /\ pc'[p] = "lock" /\ \A r \in Proc \ {p} : pc'[r] = pc[r]
        /\ Readable(n) /\ saw'[p] = o /\ json' = json
    BY <1>1, <1>3, <1>4, <1>6 DEF LookUp, Goto, PcType, LocalType, disk
  <2>2. n \in Name /\ json[n] # NoJson /\ ~ json[n].torn
    BY <2>1, Roles DEF Readable
  <2>3. o \in Creator /\ Target[o] = n /\ pc[o] \in {"saving", "cleanup"} \union Ended
    BY <2>2 DEF WrittenInv
  <2>4. pc[o] \notin {"saving", "cleanup"}
    <3> SUFFICES ASSUME pc[o] \in {"saving", "cleanup"} PROVE FALSE
      OBVIOUS
    <3>1. json[n] = Json(o, picked[o], TRUE)
      BY <1>1, <2>2, <2>3, Roles DEF HolderInv, Held
    <3>2. Json(o, picked[o], TRUE).torn
      BY <2>3, Roles, JsonIs
    <3> QED
      BY <2>2, <3>1, <3>2
  <2>5. pc'[o] \in Ended
    BY <1>4, <1>6, <2>1, <2>3, <2>4, Roles
  <2> QED
    BY <1>6, <2>1, <2>2, <2>3, <2>5 DEF Seen
<1>7. CASE q = p /\ ~ LookUp(p)
  <2>1. Changing(p)
    BY <1>1, <1>3, <1>4, <1>7 DEF Acts, Crash, PcType
  <2>2. /\ pc[q] \in {"lock", "locked"} /\ saw' = saw
    BY <1>1, <1>3, <1>4, <1>7, <2>1 DEF Changing, LockExisting, Turned, Rewrite, Rewritten,
       Fill,
      Remove, Release, Goto, PcType, local
  <2> QED
    BY <1>3, <2>2, SeenStays DEF SeenInv
<1> QED
  BY <1>5, <1>6, <1>7

LEMMA ReleasedStep ==
  ASSUME IInv, MadeInv, SeenInv, ReleasedInv, NEW p \in Proc, Acts(p) PROVE ReleasedInv'
<1>1. PcType /\ DiskType /\ LocalType /\ LocksInv /\ HolderInv
  BY Types DEF IInv
<1>2. Spares(p)
  BY <1>1, SparesOthers
<1>3. SUFFICES ASSUME NEW q \in Proc, pc'[q] = "release", Undisputed(Target[q])
               PROVE  json'[Target[q]] # NoJson \/ Over(Target[q])'
  BY <1>1, <1>2, CastStays, Roles DEF ReleasedInv
<1> DEFINE n == Target[q]
<1>4. n \in Name
  BY Roles
<1>5. CASE q # p
  <2>1. pc[q] = "release"
    BY <1>2, <1>3, <1>5 DEF Spares
  <2>2. owner[n] = q
    BY <1>1, <2>1 DEF LocksInv, Holding
  <2>3. json'[n] = json[n]
    BY <1>2, <1>4, <1>5, <2>2 DEF Spares
  <2> QED
    BY <1>1, <1>2, <1>3, <1>4, <2>1, <2>3, CastStays DEF ReleasedInv
<1>6. CASE q = p
  <2>1. CASE Saved(p)
    <3>1. pc[p] = "saving" /\ json' = [json EXCEPT ![n].torn = FALSE]
      BY <1>6, <2>1 DEF Saved, Fill, Goto
    <3>2. json[n] = Json(p, picked[p], TRUE)
      BY <1>1, <1>6, <3>1 DEF HolderInv, Held
    <3>3. json[n] # NoJson
      BY <3>2, JsonIs
    <3> QED
      BY <1>3, <1>4, <1>6, <3>1, <3>3, FileMoves DEF Completes, Starts, Reopens, Drops
  <2>2. CASE Rewritten(p)
    <3>1. pc[p] = "rewriting"
      BY <2>2 DEF Rewritten, Goto
    <3>2. json[n] # NoJson
      BY <1>1, <1>6, <3>1 DEF HolderInv, Held
    <3> QED
      BY <1>3, <1>4, <1>6, <3>1, <3>2, FileMoves DEF Completes, Starts, Reopens, Drops
  <2>3. CASE p \in Creator /\ CleanUp(p)
    <3>1. pc[p] = "cleanup"
      BY <2>3 DEF CleanUp, Goto
    <3> QED
      BY <1>3, <1>6, <2>3, <3>1, CleanUpRemoves
  <2>4. CASE p \in Changer /\ Turned(p)
    <3>1. /\ pc[p] = "locked" /\ ~ SameMachine(p) /\ json' = json
          /\ \A r \in Proc \ {p} : pc'[r] = pc[r]
      BY <1>1, <2>4 DEF Turned, Goto, PcType, disk
    <3>2. n \in dir
      <4>1. owner[n] = q /\ q # Nobody
        BY <1>1, <1>6, <3>1, Roles DEF LocksInv, Holding
      <4> QED
        BY <1>1, <1>4, <4>1 DEF LocksInv
    <3>3. CASE saw[p] = Nobody
      BY <1>6, <3>1, <3>2, <3>3 DEF SameMachine, Orphan, Readable
    <3>4. CASE saw[p] # Nobody
      <4>1. Seen(p)
        BY <2>4, <3>1, <3>4 DEF SeenInv
      <4>2. CASE ~ Alone(n)
        BY <1>3, <1>6, <3>1, <4>1, <4>2 DEF Seen
      <4>3. CASE Alone(n)
        <5>1. Over(n)
          BY <1>6, <4>1, <4>3, Roles DEF Seen, Over, Alone, Present, Ended
        <5> QED
          BY <1>1, <1>2, <1>4, <5>1, CastStays
      <4> QED
        BY <4>2, <4>3
    <3> QED
      BY <3>3, <3>4
  <2>5. Saved(p) \/ Rewritten(p) \/ (p \in Creator /\ CleanUp(p)) \/ (p \in Changer /\ Turned(p))
    <3>1. ASSUME Creating(p), ~ Saved(p), ~ CleanUp(p) PROVE FALSE
      BY <1>1, <1>3, <1>6, <3>1 DEF Creating, Look, MarkFresh, Allocate, AllocateTimesOut,
        ReadMachine, ReadReservation, ListReservations, ListBases, CheckExplicit, PickBase, PickMac,
        EnsureDir, Claim, Recheck, ReleaseAllocator, Save, Fail, Release, NextScan, Goto, PcType
    <3>2. ASSUME Changing(p), ~ Rewritten(p), ~ Turned(p) PROVE FALSE
      BY <1>1, <1>3, <1>6, <3>2 DEF Changing, LookUp, LockExisting, Rewrite, Remove, Release,
         Goto,
        PcType
    <3>3. ~ Crash(p)
      BY <1>1, <1>3, <1>6 DEF Crash, PcType
    <3> QED
      BY <3>1, <3>2, <3>3 DEF Acts
  <2> QED
    BY <2>1, <2>2, <2>3, <2>4, <2>5
<1> QED
  BY <1>5, <1>6

\* Whoever holds the lock of a name that a creation has still to claim is among them.
LEMMA HolderInFlight ==
  ASSUME IInv, SeenInv, ReleasedInv, NEW n \in Name, n \in dir, Undisputed(n), json[n] = NoJson,
         owner[n] # Nobody, NEW p \in Creator, Target[p] = n, pc[p] = "claim"
  PROVE  \/ pc[owner[n]] \in {"recheck", "claimed", "build", "cleanup"}
         \/ pc[owner[n]] = "locked" /\ saw[owner[n]] = Nobody
<1> DEFINE q == owner[n]
<1>1. PcType /\ DiskType /\ LocksInv /\ HolderInv
  BY Types DEF IInv
<1>2. q \in Proc /\ pc[q] \in Holding /\ Target[q] = n
  BY <1>1 DEF LocksInv, DiskType
<1>3. pc[q] # "saving"
  <2> SUFFICES ASSUME pc[q] = "saving" PROVE FALSE
    OBVIOUS
  <2>1. json[n] = Json(q, picked[q], TRUE)
    BY <1>1, <1>2 DEF HolderInv, Held
  <2> QED
    BY <1>2, <2>1, JsonIs
<1>4. pc[q] # "rewriting"
  BY <1>1, <1>2 DEF HolderInv, Held
<1>5. pc[q] # "release"
  <2> SUFFICES ASSUME pc[q] = "release" PROVE FALSE
    OBVIOUS
  <2>1. Over(n)
    BY <1>2 DEF ReleasedInv
  <2> QED
    BY <2>1, Roles DEF Over, Present, Ended
<1>6. ASSUME pc[q] = "locked" PROVE saw[q] = Nobody
  <2> SUFFICES ASSUME saw[q] # Nobody PROVE FALSE
    OBVIOUS
  <2>1. q \in Changer
    BY <1>1, <1>2, <1>6, Roles DEF PcType, CreatorSteps
  <2>2. Seen(q)
    BY <1>6, <2>1 DEF SeenInv
  <2>3. Alone(n)
    BY <1>2, <2>2 DEF Seen
  <2>4. saw[q] = p
    BY <1>2, <2>2, <2>3, Roles DEF Seen, Alone, Present, Ended
  <2> QED
    BY <2>2, <2>4 DEF Seen, Ended
<1> QED
  BY <1>2, <1>3, <1>4, <1>5, <1>6 DEF Holding

LEMMA EmptyStep ==
  ASSUME IInv, MadeInv, SeenInv, ReleasedInv, EmptyInv, NEW p \in Proc, Acts(p) PROVE EmptyInv'
<1>1. PcType /\ DiskType /\ LocalType /\ LocksInv /\ HolderInv
  BY Types DEF IInv
<1>2. Spares(p) /\ Target[p] \in Name
  BY <1>1, SparesOthers, Roles
<1>3. SUFFICES ASSUME NEW n \in Name, n \in dir', Undisputed(n), json'[n] = NoJson
               PROVE  InFlight(n)'
  <2>1. dir' \subseteq Name
    <3>1. DiskType'
      BY <1>1, DiskStep, NextActs
    <3> QED
      BY <3>1 DEF DiskType
  <2> QED
    BY <1>1, <1>2, <1>3, <2>1, CastStays DEF EmptyInv, DiskType
<1>4. json[n] = NoJson
  <2>1. json'[n] = json[n]
    BY <1>3, FileMoves, JsonIs DEF Starts, Completes, Reopens, Drops
  <2> QED
    BY <1>3, <2>1
<1>5. CASE n \notin dir
  <2>1. ASSUME Creating(p) PROVE EnsureDir(p) \/ Save(p)
    BY <1>3, <1>5, <2>1 DEF Creating, Look, MarkFresh, Allocate, AllocateTimesOut,
       ListReservations,
      ListBases, ReadMachine, ReadReservation, CheckExplicit, PickBase, PickMac, Claim, Recheck,
      ReleaseAllocator, Saved, Fill, Fail, CleanUp, RemoveDir, Release, disk
  <2>2. ~ Changing(p) /\ ~ Crash(p)
    BY <1>3, <1>5 DEF Changing, LookUp, LockExisting, Turned, Rewrite, Rewritten, Fill, Remove,
      RemoveDir, Release, disk, Crash
  <2>3. EnsureDir(p) \/ Save(p)
    BY <2>1, <2>2 DEF Acts
  <2>4. ~ Save(p)
    <3> SUFFICES ASSUME Save(p) PROVE FALSE
      OBVIOUS
    <3>1. n = Target[p] /\ json' = [json EXCEPT ![n] = Json(p, picked[p], TRUE)]
      BY <1>3, <1>5 DEF Save, Truncate
    <3>2. json'[n] = Json(p, picked[p], TRUE)
      BY <1>1, <3>1 DEF DiskType
    <3> QED
      BY <1>3, <3>2, JsonIs
  <2>5. n = Target[p] /\ pc'[p] = "claim"
    BY <1>1, <1>3, <1>5, <2>3, <2>4 DEF EnsureDir, Goto, PcType
  <2> QED
    BY <2>5 DEF InFlight
<1>6. CASE n \in dir /\ \E q \in Proc : Target[q] = n /\ pc[q] \in {"claim", "dead"}
  <2>1. PICK q \in Proc : Target[q] = n /\ pc[q] \in {"claim", "dead"}
    BY <1>6
  <2>2. CASE pc'[q] \in {"claim", "dead"}
    BY <2>1, <2>2 DEF InFlight
  <2>3. CASE pc'[q] \notin {"claim", "dead"}
    <3>1. q = p /\ pc[p] = "claim"
      BY <1>1, <1>2, <2>1, <2>3, AllMove DEF Spares
    <3>2. p \in Creator
      BY <1>1, <3>1, Roles DEF PcType, ChangerSteps
    <3>3. Claim(p)
      <4>1. ~ Crash(p)
        BY <1>1, <2>3, <3>1 DEF Crash, PcType
      <4>2. Creating(p)
        BY <3>2, <4>1, Roles DEF Acts
      <4> QED
        BY <3>1, <4>2 DEF Creating, Look, MarkFresh, Allocate, AllocateTimesOut, ReadMachine,
          ReadReservation, ListReservations, ListBases, CheckExplicit, PickBase, PickMac, EnsureDir,
          Recheck, ReleaseAllocator, Save, Saved, Fail, CleanUp, Release, NextScan, Goto
    <3>4. CASE owner[n] = Nobody
      <4>1. pc'[p] = "recheck" /\ owner'[n] = p
        BY <1>1, <1>6, <2>1, <3>1, <3>3, <3>4 DEF Claim, Goto, Lock, PcType, DiskType
      <4> QED
        BY <4>1, Roles DEF InFlight
    <3>5. CASE owner[n] # Nobody
      <4> DEFINE o == owner[n]
      <4>1. \/ pc[o] \in {"recheck", "claimed", "build", "cleanup"}
            \/ pc[o] = "locked" /\ saw[o] = Nobody
        BY <1>3, <1>4, <1>6, <2>1, <3>1, <3>2, <3>5, HolderInFlight
      <4>2. o \in Proc /\ o # p
        BY <1>1, <3>1, <3>5, <4>1 DEF DiskType
      <4>3. owner'[n] = o /\ pc'[o] = pc[o] /\ saw'[o] = saw[o]
        BY <1>2, <3>5, <4>2 DEF Spares
      <4> QED
        BY <3>5, <4>1, <4>3 DEF InFlight
    <3> QED
      BY <3>4, <3>5
  <2> QED
    BY <2>2, <2>3
<1>7. CASE /\ n \in dir /\ owner[n] # Nobody
           /\ \/ pc[owner[n]] \in {"recheck", "claimed", "build", "cleanup"}
              \/ pc[owner[n]] = "locked" /\ saw[owner[n]] = Nobody
  <2> DEFINE q == owner[n]
  <2>1. q \in Proc /\ Target[q] = n
    BY <1>1, <1>7 DEF LocksInv, DiskType
  <2>2. CASE q # p
    <3>1. owner'[n] = q /\ pc'[q] = pc[q] /\ saw'[q] = saw[q]
      BY <1>2, <1>7, <2>1, <2>2 DEF Spares
    <3> QED
      BY <1>7, <3>1 DEF InFlight
  <2>3. CASE q = p
    <3>1. CASE Crash(p)
      BY <1>1, <2>1, <2>3, <3>1 DEF Crash, PcType, InFlight
    <3>2. CASE p \in Creator /\ CleanUp(p)
      BY <1>3, <2>1, <2>3, <3>2, CleanUpRemoves DEF CleanUp, Goto
    <3>3. CASE Recheck(p)
      BY <1>1, <1>4, <1>7, <2>1, <2>3, <3>3 DEF Recheck, CreatedMeanwhile, Goto, PcType, disk,
         InFlight
    <3>4. CASE ReleaseAllocator(p) \/ Fail(p)
      BY <1>1, <1>7, <2>1, <2>3, <3>4 DEF ReleaseAllocator, Fail, Goto, PcType, disk, InFlight
    <3>5. ~ Save(p)
      <4> SUFFICES ASSUME Save(p) PROVE FALSE
        OBVIOUS
      <4>1. json' = [json EXCEPT ![n] = Json(p, picked[p], TRUE)]
        BY <2>1, <2>3 DEF Save, Truncate
      <4>2. json'[n] = Json(p, picked[p], TRUE)
        BY <1>1, <4>1 DEF DiskType
      <4> QED
        BY <1>3, <4>2, JsonIs
    <3>6. ~ (Rewrite(p) \/ Turned(p) \/ Remove(p))
      <4> SUFFICES ASSUME Rewrite(p) \/ Turned(p) \/ Remove(p) PROVE FALSE
        OBVIOUS
      <4>1. pc[p] = "locked" /\ saw[p] = Nobody
        BY <1>7, <2>3 DEF Rewrite, Turned, Remove, Goto
      <4>2. SameMachine(p)
        BY <1>4, <1>7, <2>1, <2>3, <4>1 DEF SameMachine, Orphan, Readable
      <4>3. p \notin Rewriter
        BY <1>1, <4>1 DEF HolderInv, Held
      <4>4. Remove(p)
        BY <4>2, <4>3 DEF Rewrite, Turned
      <4> QED
        BY <1>3, <2>1, <2>3, <4>4 DEF Remove, RemoveDir
    <3>7. \/ Crash(p) \/ (p \in Creator /\ CleanUp(p)) \/ Recheck(p) \/ ReleaseAllocator(p)
          \/ Fail(p) \/ Save(p) \/ Rewrite(p) \/ Turned(p) \/ Remove(p)
      BY <1>7, <2>3 DEF Acts, Creating, Changing, Look, MarkFresh, Allocate, AllocateTimesOut,
        ReadMachine, ReadReservation, ListReservations, ListBases, CheckExplicit, PickBase, PickMac,
        EnsureDir, Claim, Saved, LookUp, LockExisting, Rewritten, Release, NextScan, Goto
    <3> QED
      BY <3>1, <3>2, <3>3, <3>4, <3>5, <3>6, <3>7
  <2> QED
    BY <2>2, <2>3
<1> QED
  BY <1>3, <1>4, <1>5, <1>6, <1>7 DEF EmptyInv, InFlight

LEMMA LeftStarts == Init => LeftInv
<1> SUFFICES ASSUME Init PROVE LeftInv
  OBVIOUS
<1>1. /\ dir = {} /\ \A n \in Name : json[n] = NoJson
      /\ \A p \in Proc : pc[p] \in {"idle", "absent"}
  BY DEF Init
<1> QED
  BY <1>1, Roles DEF LeftInv, MadeInv, WrittenInv, TornInv, SeenInv, ReleasedInv, EmptyInv,
     Creator

LEMMA LeftStep == IInv /\ LeftInv /\ [Next]_vars => LeftInv'
<1> SUFFICES ASSUME IInv, LeftInv, [Next]_vars PROVE LeftInv'
  OBVIOUS
<1>1. CASE Next
  <2>1. PICK p \in Proc : Acts(p)
    BY <1>1, NextActs
  <2> QED
    BY <2>1, MadeStep, WrittenStep, TornStep, SeenStep, ReleasedStep, EmptyStep DEF LeftInv
<1>2. CASE UNCHANGED vars
  <2>1. UNCHANGED <<dir, json, owner, pc, fresh, saw>>
    BY <1>2 DEF vars, disk, local
  <2>2. \A n \in Name : /\ Undisputed(n)' <=> Undisputed(n)
                        /\ Alone(n)' <=> Alone(n)
                        /\ Over(n)' <=> Over(n)
                        /\ Dead(n)' <=> Dead(n)
    BY <2>1 DEF Undisputed, Alone, Over, Dead, Present
  <2>3. MadeInv' /\ WrittenInv' /\ TornInv'
    BY <2>1, <2>2, Roles DEF LeftInv, MadeInv, WrittenInv, TornInv, Creator
  <2>4. SeenInv' /\ ReleasedInv'
    BY <2>1, <2>2, Roles DEF LeftInv, SeenInv, Seen, ReleasedInv
  <2>5. EmptyInv'
    <3>1. dir \subseteq Name
      BY DEF IInv, TypeOK
    <3> QED
      BY <2>1, <2>2, <3>1 DEF LeftInv, EmptyInv, InFlight
  <2> QED
    BY <2>3, <2>4, <2>5 DEF LeftInv
<1> QED
  BY <1>1, <1>2

LEMMA NothingLeft == LocksInv /\ LeftInv => NoLeftovers
<1> SUFFICES ASSUME LocksInv, LeftInv, NEW n \in Name, Undisputed(n), Orphan(n), owner[n] = Nobody
             PROVE  \E p \in Proc : Target[p] = n /\ pc[p] \in {"claim", "dead"}
  BY DEF NoLeftovers
<1>1. CASE json[n] = NoJson
  BY <1>1 DEF LeftInv, EmptyInv, InFlight, Orphan
<1>2. CASE json[n] # NoJson
  <2>1. json[n].torn
    BY <1>2 DEF Orphan, Readable
  <2>2. Dead(n)
    BY <1>2, <2>1 DEF LeftInv, TornInv
  <2> QED
    BY <2>2 DEF Dead
<1> QED
  BY <1>1, <1>2

\* No two machines, finished or being created, share a port or a MAC, and a creation that
\* fails leaves nothing behind: for any processes and names, whoever meets, in any order
\* (quickchr.ts:2190-2217, 2398-2407; network.ts:441-449).
THEOREM ResourcesAreOwn == Spec => []OwnResources
<1>1. Init => IInv /\ LeftInv
  BY IInvStarts, LeftStarts
<1>2. IInv /\ LeftInv /\ [Next]_vars => (IInv /\ LeftInv)'
  BY IInvStep, LeftStep
<1>3. IInv /\ LeftInv => OwnResources
  BY NothingLeft DEF IInv, OwnResources
<1> QED
  BY <1>1, <1>2, <1>3, PTL DEF Spec

----------------------------------------------------------------------------
(* The search for a free block *)

\* The search looks for its blocks as an allocation does.
LEMMA SearchUnused ==
  ASSUME NEW from \in Nat, NEW S, UsedBases(S)
  PROVE  /\ Search!NextUnusedBase(from, S) \in Nat
         /\ Search!IsLowestUnused(Search!NextUnusedBase(from, S), from, S)
<1>1. Search!NextUnusedBase(from, S) = NextUnusedBase(from, S)
  BY DEF Search!NextUnusedBase, NextUnusedBase, Search!VisitedLast, VisitedLast, Search!Overlap, Overlap
<1>2. \A b : Search!IsLowestUnused(b, from, S) <=> IsLowestUnused(b, from, S)
  BY DEF Search!IsLowestUnused, IsLowestUnused, Search!Overlap, Overlap
<1> QED
  BY <1>1, <1>2, NextIsLowest

LEMMA SearchBasesUsed == ASSUME NEW S, S \subseteq SearchBases PROVE UsedBases(S)
<1>1. SearchBases \subseteq Nat /\ IsFiniteSet(SearchBases)
  BY CreationAssumption DEF Search!PortSearchAssumption, Search!IsFiniteSet, IsFiniteSet
<1>2. IsFiniteSet(S)
  BY ONLY <1>1, S \subseteq SearchBases, FS_Subset
<1> QED
  BY <1>1, <1>2 DEF UsedBases

LEMMA SearchStarts == ASSUME Search!Init PROVE Search!IInv
<1>1. v1 \subseteq SearchBases
  BY DEF Search!Init
<1>2. PICK s : s = v1
  OBVIOUS
<1>3. Search!NextUnusedBase(DefaultPortBase, s) \in Nat
      /\ Search!IsLowestUnused(Search!NextUnusedBase(DefaultPortBase, s), DefaultPortBase, s)
  BY <1>1, <1>2, SearchBasesUsed, SearchUnused, PortsAssumption
<1>4. v3 \in Nat /\ \A u \in v1 : ~Search!Overlap(v3, u)
  BY <1>2, <1>3 DEF Search!Init, Search!IsLowestUnused
<1> QED
  BY <1>1, <1>4 DEF Search!Init, Search!IInv

LEMMA SearchGoesOn == ASSUME Search!IInv, [Search!Next]_(Search!vars) PROVE Search!IInv'
<1>1. CASE UNCHANGED Search!vars
  BY <1>1 DEF Search!vars, Search!IInv
<1>2. CASE Search!Probe
  <2>1. PICK port \in v5 : v5' = v5 \ {port} /\ v6' = (v6 \/ port \in v2)
    BY <1>2 DEF Search!Probe
  <2>2. v7' # "found" /\ UNCHANGED <<v1, v2, v3, v4, v7>>
    BY <1>2 DEF Search!Probe
  <2>3. ~v6' => ~v6 /\ port \notin v2
    BY <2>1
  <2>4. ~v6' => Search!HostPorts(v3) \intersect v2 \subseteq v5'
    BY <2>1, <2>3 DEF Search!IInv
  <2> QED
    BY <2>2, <2>4 DEF Search!IInv, Search!HostPorts
<1>3. CASE Search!Found
  BY <1>3 DEF Search!Found, Search!IInv, Search!HostPorts
<1>4. CASE Search!StepPast
  <2>1. PICK s, b : s = v1 /\ b = v3
    OBVIOUS
  <2>2. s \subseteq SearchBases /\ b \in Nat
    BY <2>1 DEF Search!IInv
  <2>3. b + PortsPerBlock \in Nat
    BY <2>2, PortsAssumption
  <2>4. /\ Search!NextUnusedBase(b + PortsPerBlock, s) \in Nat
        /\ Search!IsLowestUnused(Search!NextUnusedBase(b + PortsPerBlock, s), b + PortsPerBlock, s)
    BY <2>2, <2>3, SearchBasesUsed, SearchUnused
  <2>5. v3' = Search!NextUnusedBase(b + PortsPerBlock, s)
    BY <1>4, <2>1 DEF Search!StepPast, Search!NextCandidate
  <2>6. v1' = s /\ v2' = v2 /\ v5' = Search!HostPorts(v3') /\ v7' # "found"
    BY <1>4, <2>1 DEF Search!StepPast
  <2>7. v3' \in Nat /\ \A u \in v1' : ~Search!Overlap(v3', u)
    BY <2>4, <2>5, <2>6 DEF Search!IsLowestUnused
  <2> QED
    BY <2>2, <2>6, <2>7 DEF Search!IInv, Search!HostPorts
<1> QED
  BY <1>1, <1>2, <1>3, <1>4 DEF Search!Next

\* What the search makes of any machines and any ports that answer: a block it returns
\* overlaps no machine's and none of its ports answered; and every block it tries is the
\* lowest there is (network.ts:44-51, 222-224).
THEOREM SearchesAreExact == Creation => []SearchIsExact
<1> DEFINE Inv == plays = "search" => Search!IInv
<1>1. ASSUME CreationInit PROVE Inv
  BY <1>1, SearchStarts DEF CreationInit
<1>2. ASSUME Inv, [CreationNext]_all PROVE Inv'
  <2>1. ASSUME plays' = "search" PROVE plays = "search" /\ [Search!Next]_(Search!vars)
    BY <1>2, <2>1 DEF CreationNext, Plays, all, slots, Search!vars
  <2> QED
    BY <1>2, <2>1, SearchGoesOn
<1>3. Inv => SearchIsExact
  <2> SUFFICES ASSUME Search!IInv PROVE Search!FoundIsFree /\ Search!UnusedIsLowest
    BY DEF SearchIsExact
  <2>1. Search!FoundIsFree
    BY DEF Search!IInv, Search!FoundIsFree
  <2>2. PICK s, b : s = v1 /\ b = v3
    OBVIOUS
  <2>3. UsedBases(s) /\ b + PortsPerBlock \in Nat /\ DefaultPortBase \in Nat
    BY <2>2, SearchBasesUsed, PortsAssumption DEF Search!IInv
  <2>4. /\ Search!IsLowestUnused(Search!NextUnusedBase(DefaultPortBase, s), DefaultPortBase, s)
        /\ Search!IsLowestUnused(Search!NextUnusedBase(b + PortsPerBlock, s), b + PortsPerBlock, s)
    BY <2>3, SearchUnused
  <2> QED
    BY <2>1, <2>2, <2>4 DEF Search!UnusedIsLowest
<1> QED
  BY <1>1, <1>2, <1>3, PTL DEF Creation

----------------------------------------------------------------------------
(* The saved logins *)

\* Nobody changes the file when one may begin.
LEMMA LoginsTakeTurns ==
  ASSUME NEW S, S \subseteq LoginProc, Logins!Cardinality(S) < 1
  PROVE  S = {}
<1>1. IsFiniteSet(LoginProc)
  BY CreationAssumption DEF Logins!SecretsAssumption, Logins!IsFiniteSet, IsFiniteSet
<1>2. IsFiniteSet(S)
  BY ONLY <1>1, S \subseteq LoginProc, FS_Subset
<1>3. Logins!Cardinality(S) = Cardinality(S)
  BY DEF Logins!Cardinality, Cardinality
<1>4. Cardinality(S) \in Nat /\ (Cardinality(S) = 0 => S = {})
  BY ONLY <1>2, FS_CardinalityType, FS_EmptySet
<1> QED
  BY <1>3, <1>4

LEMMA LoginsStart == ASSUME Logins!Init PROVE Logins!IInv
<1>1. v1 \in Logins!Logins /\ v6 \in Logins!Logins /\ v4 \in [LoginProc -> Logins!Logins]
  BY DEF Logins!Init, Logins!Logins, Logins!Login, Logins!Empty
<1>2. Logins!TypeOK
  BY <1>1 DEF Logins!Init, Logins!TypeOK
<1>3. Logins!Busy = {}
  BY DEF Logins!Init, Logins!Busy
<1>4. Logins!TurnTaken
  BY <1>3 DEF Logins!Init, Logins!TurnTaken
<1> QED
  BY <1>2, <1>4 DEF Logins!IInv

LEMMA LoginBegins ==
  ASSUME Logins!IInv, NEW p \in LoginProc, Logins!Begin(p)
  PROVE  Logins!IInv'
<1>1. PICK B : B = Logins!Busy
  OBVIOUS
<1>2. B = {}
  <2>1. B \subseteq LoginProc /\ Logins!Cardinality(B) < 1
    BY <1>1 DEF Logins!Begin, Logins!Busy
  <2> QED
    BY <2>1, LoginsTakeTurns
<1>3. ~v2 /\ v1 = v6 /\ v1 \in Logins!Logins /\ Logins!readConfigStore = v1
  BY <1>1, <1>2 DEF Logins!IInv, Logins!TurnTaken, Logins!TypeOK, Logins!readConfigStore
<1>4. PICK m \in LoginMachine :
        \/ /\ v5' = [v5 EXCEPT ![m] = @ + 1]
           /\ v3' = [v3 EXCEPT ![p] = [do |-> "save", machine |-> m, login |-> v5[m] + 1]]
        \/ /\ v3' = [v3 EXCEPT ![p] = [do |-> "delete", machine |-> m, login |-> Nil]]
           /\ v5' = v5
  BY DEF Logins!Begin
<1>5. v4' = [v4 EXCEPT ![p] = v1] /\ UNCHANGED <<v1, v2, v6>>
  BY <1>3 DEF Logins!Begin
<1>6. PICK r \in [do : {"save", "delete"}, machine : LoginMachine, login : Logins!Login] :
        v3' = [v3 EXCEPT ![p] = r]
  BY <1>4 DEF Logins!IInv, Logins!TypeOK, Logins!Login
<1>7. Logins!TypeOK'
  <2>1. v5' \in [LoginMachine -> Nat]
    BY <1>4 DEF Logins!IInv, Logins!TypeOK
  <2> QED
    BY <1>3, <1>5, <1>6, <2>1 DEF Logins!IInv, Logins!TypeOK, Logins!Logins, Logins!Login, Logins!Idle
<1>8. \A q \in LoginProc : v3[q] = Logins!Idle
  BY <1>1, <1>2 DEF Logins!Busy
<1>9. \A q \in LoginProc : q # p => v3'[q] = Logins!Idle
  BY <1>6, <1>8 DEF Logins!IInv, Logins!TypeOK
<1>10. v3'[p] = r /\ v4'[p] = v1
  BY <1>5, <1>6 DEF Logins!IInv, Logins!TypeOK
<1>11. r # Logins!Idle /\ r.do # "writing"
  BY <1>6 DEF Logins!Idle
<1>12. Logins!Busy' = {p}
  BY <1>9, <1>10, <1>11 DEF Logins!Busy, Logins!Idle
<1>13. Logins!TurnTaken'
  BY <1>3, <1>5, <1>10, <1>12 DEF Logins!TurnTaken
<1> QED
  BY <1>7, <1>13 DEF Logins!IInv

LEMMA LoginTruncates ==
  ASSUME Logins!IInv, NEW p \in LoginProc, Logins!Truncate(p)
  PROVE  Logins!IInv'
<1>1. p \in Logins!Busy
  BY DEF Logins!Truncate, Logins!Busy, Logins!Idle
<1>2. v3[p] \in [do : {"save", "delete", "writing"}, machine : LoginMachine, login : Logins!Login]
  BY <1>1 DEF Logins!IInv, Logins!TypeOK, Logins!Busy
<1>3. v3' = [v3 EXCEPT ![p] = [@ EXCEPT !.do = "writing"]] /\ v2' = TRUE /\ UNCHANGED <<v1, v4, v5, v6>>
  BY DEF Logins!Truncate
<1>4. PICK r \in [do : {"writing"}, machine : LoginMachine, login : Logins!Login] : v3' = [v3 EXCEPT ![p] = r]
  <2>1. [v3[p] EXCEPT !.do = "writing"] \in [do : {"writing"}, machine : LoginMachine, login : Logins!Login]
    BY <1>2
  <2> QED
    BY <1>3, <2>1
<1>5. Logins!TypeOK'
  BY <1>3, <1>4 DEF Logins!IInv, Logins!TypeOK, Logins!Logins, Logins!Login, Logins!Idle
<1>6. \A q \in LoginProc : q # p => v3'[q] = v3[q] /\ v3[q] = Logins!Idle
  BY <1>1, <1>4 DEF Logins!IInv, Logins!TypeOK, Logins!TurnTaken, Logins!Busy
<1>7. v3'[p] = r /\ r # Logins!Idle
  BY <1>4 DEF Logins!IInv, Logins!TypeOK, Logins!Idle
<1>8. Logins!Busy' = {p}
  BY <1>6, <1>7 DEF Logins!Busy, Logins!Idle
<1>9. Logins!TurnTaken'
  BY <1>1, <1>3, <1>7, <1>8 DEF Logins!TurnTaken, Logins!IInv
<1> QED
  BY <1>5, <1>9 DEF Logins!IInv

LEMMA LoginWritten ==
  ASSUME Logins!IInv, NEW p \in LoginProc, Logins!Write(p)
  PROVE  Logins!IInv'
<1>1. p \in Logins!Busy
  BY DEF Logins!Write, Logins!Busy, Logins!Idle
<1>2. v3[p] \in [do : {"save", "delete", "writing"}, machine : LoginMachine, login : Logins!Login]
  BY <1>1 DEF Logins!IInv, Logins!TypeOK, Logins!Busy
<1>3. v4[p] = v6
  BY <1>1 DEF Logins!IInv, Logins!TurnTaken
<1>4. v1' = [v6 EXCEPT ![v3[p].machine] = v3[p].login] /\ v2' = FALSE /\ v6' = v1' /\ v5' = v5
  BY <1>3 DEF Logins!Write, Logins!Changed
<1>5. v3' = [v3 EXCEPT ![p] = Logins!Idle] /\ v4' = [v4 EXCEPT ![p] = Logins!Empty]
  BY DEF Logins!Write
<1>6. v1' \in Logins!Logins
  BY <1>2, <1>4 DEF Logins!IInv, Logins!TypeOK, Logins!Logins
<1>7. Logins!Empty \in Logins!Logins
  BY DEF Logins!Empty, Logins!Logins, Logins!Login
<1>8. Logins!TypeOK'
  BY <1>4, <1>5, <1>6, <1>7 DEF Logins!IInv, Logins!TypeOK, Logins!Logins, Logins!Login, Logins!Idle
<1>9. \A q \in LoginProc : v3'[q] = Logins!Idle
  BY <1>1, <1>5 DEF Logins!IInv, Logins!TypeOK, Logins!TurnTaken, Logins!Busy
<1>10. Logins!Busy' = {}
  BY <1>9 DEF Logins!Busy, Logins!Idle
<1>11. Logins!TurnTaken'
  BY <1>4, <1>10 DEF Logins!TurnTaken
<1> QED
  BY <1>8, <1>11 DEF Logins!IInv

LEMMA LoginsGoOn == ASSUME Logins!IInv, [Logins!Next]_(Logins!vars) PROVE Logins!IInv'
<1>1. CASE UNCHANGED Logins!vars
  BY <1>1 DEF Logins!vars, Logins!IInv, Logins!TypeOK, Logins!TurnTaken, Logins!Busy, Logins!Logins,
              Logins!Login, Logins!Idle
<1>2. CASE Logins!Next
  BY <1>2, LoginBegins, LoginTruncates, LoginWritten DEF Logins!Next
<1> QED
  BY <1>1, <1>2

LEMMA LoginsFound == ASSUME Logins!IInv PROVE Logins!SavedIsFound
<1> SUFFICES ASSUME \A p \in LoginProc : v3[p].do # "writing"
             PROVE  ~v2 /\ v1 = v6
  BY DEF Logins!SavedIsFound, Logins!readConfigStore
<1>1. CASE Logins!Busy = {}
  BY <1>1 DEF Logins!IInv, Logins!TurnTaken
<1>2. CASE Logins!Busy # {}
  BY <1>2 DEF Logins!IInv, Logins!TurnTaken, Logins!Busy
<1> QED
  BY <1>1, <1>2

----------------------------------------------------------------------------
(* The settings *)

\* The recursion of Without(): what is kept of the first places.
Keeping(lines, S, n, kept) ==
  kept = [i \in 0..n |->
            IF i = 0 THEN <<>>
            ELSE IF i \in S THEN kept[i - 1] ELSE Append(kept[i - 1], lines[i])]

LEMMA KeepingIs ==
  ASSUME NEW lines, NEW S, NEW n \in Nat
  PROVE  \E kept : Keeping(lines, S, n, kept)
<1> DEFINE Bad == {m \in Nat : ~ \E kept : Keeping(lines, S, m, kept)}
<1> SUFFICES ASSUME Bad # {} PROVE FALSE
  OBVIOUS
<1>1. PICK m \in Bad : \A k \in Bad : m <= k
  <2>1. Bad \in SUBSET Nat
    OBVIOUS
  <2> HIDE DEF Bad
  <2> QED
    BY <2>1, Least
<1>2. CASE m = 0
  <2> DEFINE none == [i \in 0..m |-> <<>>]
  <2>1. Keeping(lines, S, m, none)
    BY <1>2 DEF Keeping
  <2> QED
    BY <2>1
<1>3. CASE m # 0
  <2>1. m - 1 \in Nat /\ m - 1 \notin Bad
    BY <1>1, <1>3
  <2>2. PICK kept : Keeping(lines, S, m - 1, kept)
    BY <2>1
  <2> DEFINE more == [i \in 0..m |->
                        IF i = m THEN IF m \in S THEN kept[m - 1] ELSE Append(kept[m - 1], lines[m])
                        ELSE kept[i]]
  <2>3. \A i \in 0..m : i # m => i \in 0..(m - 1)
    BY <2>1
  <2>4. \A i \in 0..(m - 1) : i \in 0..m /\ i # m /\ more[i] = kept[i]
    BY <2>1
  <2>5. ASSUME NEW i \in 0..m
        PROVE  more[i] = IF i = 0 THEN <<>>
                         ELSE IF i \in S THEN more[i - 1] ELSE Append(more[i - 1], lines[i])
    <3>1. CASE i = m
      <4>1. more[m - 1] = kept[m - 1]
        BY <2>1, <2>4
      <4> QED
        BY <1>3, <3>1, <4>1
    <3>2. CASE i # m
      <4>1. i \in 0..(m - 1) /\ (i # 0 => i - 1 \in 0..(m - 1))
        BY <2>3, <3>2
      <4>2. more[i] = kept[i] /\ (i # 0 => more[i - 1] = kept[i - 1])
        BY <2>4, <4>1
      <4>3. kept[i] = IF i = 0 THEN <<>>
                      ELSE IF i \in S THEN kept[i - 1] ELSE Append(kept[i - 1], lines[i])
        BY <2>2, <4>1 DEF Keeping
      <4> HIDE DEF more
      <4> QED
        BY <4>2, <4>3
    <3> QED
      BY <3>1, <3>2
  <2>6. Keeping(lines, S, m, more)
    BY <2>5 DEF Keeping
  <2> QED
    BY <2>6
<1> QED
  BY <1>2, <1>3

\* What is kept of the first places are the lines at those that are not left out.
KeptOf(L, lines, S, i, w) ==
  /\ w \in Seq(L)
  /\ \A j \in DOMAIN w : \E k \in 1..i : k \notin S /\ w[j] = lines[k]
  /\ \A k \in 1..i : k \notin S => \E j \in DOMAIN w : w[j] = lines[k]

LEMMA AppendKeeps ==
  ASSUME NEW L, NEW lines \in Seq(L), NEW S, NEW i \in Nat, i + 1 <= Len(lines),
         NEW w, KeptOf(L, lines, S, i, w)
  PROVE  KeptOf(L, lines, S, i + 1, IF i + 1 \in S THEN w ELSE Append(w, lines[i + 1]))
<1>0. i + 1 \in 1..(i + 1) /\ \A k \in 1..(i + 1) : k = i + 1 \/ k \in 1..i
  OBVIOUS
<1>1. CASE i + 1 \in S
  <2>1. \A k \in 1..i : k \in 1..(i + 1)
    BY <1>0
  <2>2. \A j \in DOMAIN w : \E k \in 1..(i + 1) : k \notin S /\ w[j] = lines[k]
    BY <2>1 DEF KeptOf
  <2>3. \A k \in 1..(i + 1) : k \notin S => k \in 1..i
    BY <1>0, <1>1
  <2>4. \A k \in 1..(i + 1) : k \notin S => \E j \in DOMAIN w : w[j] = lines[k]
    BY <2>3 DEF KeptOf
  <2>5. KeptOf(L, lines, S, i + 1, w)
    BY <2>2, <2>4 DEF KeptOf
  <2> QED
    BY <1>1, <2>5
<1>2. CASE i + 1 \notin S
  <2> DEFINE v == Append(w, lines[i + 1])
  <2>1. lines[i + 1] \in L /\ w \in Seq(L)
    BY DEF KeptOf
  <2>2. /\ v \in Seq(L) /\ Len(v) = Len(w) + 1 /\ v[Len(w) + 1] = lines[i + 1]
        /\ DOMAIN v = 1..(Len(w) + 1) /\ DOMAIN w = 1..Len(w) /\ Len(w) \in Nat
        /\ \A j \in 1..Len(w) : v[j] = w[j]
    BY <2>1
  <2> HIDE DEF v
  <2>3. ASSUME NEW j \in DOMAIN v PROVE \E k \in 1..(i + 1) : k \notin S /\ v[j] = lines[k]
    <3>1. CASE j = Len(w) + 1
      BY <1>0, <1>2, <2>2, <3>1
    <3>2. CASE j # Len(w) + 1
      <4>1. j \in DOMAIN w /\ v[j] = w[j]
        BY <2>2, <3>2
      <4>2. PICK k \in 1..i : k \notin S /\ w[j] = lines[k]
        BY <4>1 DEF KeptOf
      <4> QED
        BY <4>1, <4>2
    <3> QED
      BY <3>1, <3>2
  <2>4. ASSUME NEW k \in 1..(i + 1), k \notin S PROVE \E j \in DOMAIN v : v[j] = lines[k]
    <3>1. CASE k = i + 1
      BY <2>2, <3>1
    <3>2. CASE k # i + 1
      <4>1. PICK j \in DOMAIN w : w[j] = lines[k]
        BY <2>4, <3>2 DEF KeptOf
      <4> QED
        BY <2>2, <4>1
    <3> QED
      BY <3>1, <3>2
  <2>5. KeptOf(L, lines, S, i + 1, v)
    BY <2>2, <2>3, <2>4 DEF KeptOf
  <2> QED
    BY <1>2, <2>5 DEF v
<1> QED
  BY <1>1, <1>2

\* The lines that are left are those that were not to be taken away.
LEMMA WithoutKeeps ==
  ASSUME NEW L, NEW lines \in Seq(L), NEW S
  PROVE  KeptOf(L, lines, S, Len(lines), File!Without(lines, S))
<1> DEFINE kept == CHOOSE f : Keeping(lines, S, Len(lines), f)
           Bad == {m \in Nat : m <= Len(lines) /\ ~ KeptOf(L, lines, S, m, kept[m])}
<1>1. File!Without(lines, S) = kept[Len(lines)]
  BY DEF File!Without, Keeping
<1>2. Keeping(lines, S, Len(lines), kept)
  BY KeepingIs
<1> HIDE DEF kept
<1>3. Bad = {}
  <2> SUFFICES ASSUME Bad # {} PROVE FALSE
    OBVIOUS
  <2>1. PICK m \in Bad : \A k \in Bad : m <= k
    <3>1. Bad \in SUBSET Nat
      OBVIOUS
    <3> HIDE DEF Bad
    <3> QED
      BY <3>1, Least
  <2>2. m \in 0..Len(lines) /\ Len(lines) \in Nat
    OBVIOUS
  <2>3. CASE m = 0
    <3>1. kept[m] = <<>>
      BY <1>2, <2>2, <2>3 DEF Keeping
    <3>2. KeptOf(L, lines, S, 0, <<>>)
      BY DEF KeptOf
    <3> QED
      BY <2>3, <3>1, <3>2
  <2>4. CASE m # 0
    <3>1. m - 1 \in Nat /\ m - 1 \notin Bad /\ m - 1 <= Len(lines) /\ (m - 1) + 1 = m
      BY <2>1, <2>2, <2>4
    <3>2. KeptOf(L, lines, S, m - 1, kept[m - 1])
      BY <3>1
    <3>3. kept[m] = IF m \in S THEN kept[m - 1] ELSE Append(kept[m - 1], lines[m])
      BY <1>2, <2>2, <2>4 DEF Keeping
    <3>4. PICK i, w : i = m - 1 /\ w = kept[m - 1]
      OBVIOUS
    <3>5. KeptOf(L, lines, S, i + 1, IF i + 1 \in S THEN w ELSE Append(w, lines[i + 1]))
      BY <2>2, <3>1, <3>2, <3>4, AppendKeeps
    <3> QED
      BY <3>1, <3>3, <3>4, <3>5
  <2> QED
    BY <2>3, <2>4
<1>4. KeptOf(L, lines, S, Len(lines), kept[Len(lines)])
  <2>1. Len(lines) \notin Bad /\ Len(lines) \in Nat
    BY <1>3
  <2> QED
    BY <2>1
<1> QED
  BY <1>1, <1>4

\* A line is one of the file's.
SettingLine == [key : OwnKeys \cup OtherKeys, val : SettingValues \cup {BadValue}]

\* The last of some places.
LEMMA LastIsIn ==
  ASSUME NEW n \in Nat, NEW S, S \subseteq 1..n, S # {}
  PROVE  File!LastOf(S) \in S /\ \A j \in S : j <= File!LastOf(S)
<1> DEFINE above == {m \in Nat : \A j \in S : j <= m}
<1>1. above \in SUBSET Nat /\ n \in above
  OBVIOUS
<1>2. PICK m \in above : \A k \in above : m <= k
  <2> HIDE DEF above
  <2> QED
    BY <1>1, Least
<1>3. m \in S
  <2> SUFFICES ASSUME m \notin S PROVE FALSE
    OBVIOUS
  <2>0. PICK i \in S : TRUE
    OBVIOUS
  <2>1. i \in 1..n /\ i <= m
    BY <1>2
  <2>2. \A j \in S : j <= m - 1
    BY <1>2
  <2>3. m - 1 \in Nat /\ ~ m <= m - 1
    BY <1>2, <2>0, <2>1
  <2> QED
    BY <1>2, <2>2, <2>3
<1>4. \E i \in S : \A j \in S : j <= i
  BY <1>2, <1>3
<1> QED
  BY <1>4 DEF File!LastOf

LEMMA PlacesOf ==
  ASSUME NEW lines \in File!Lines, NEW k
  PROVE  /\ lines \in Seq(SettingLine) /\ Len(lines) \in Nat /\ DOMAIN lines = 1..Len(lines)
         /\ File!IndicesOf(lines, k) \subseteq 1..Len(lines)
         /\ \A i \in 1..Len(lines) : lines[i] \in SettingLine
         /\ \A i : i \in File!IndicesOf(lines, k) <=> i \in 1..Len(lines) /\ lines[i].key = k
<1>1. lines \in Seq(SettingLine)
  BY DEF File!Lines, SettingLine
<1> QED
  BY <1>1 DEF File!IndicesOf

\* Lines of a key that all say the same are read as what they say.
LEMMA ReadAs ==
  ASSUME NEW lines \in File!Lines, NEW k, NEW v,
         \A i \in DOMAIN lines : lines[i].key = k => lines[i].val = v,
         \E i \in DOMAIN lines : lines[i].key = k
  PROVE  File!FileValue(lines, k) = v
<1> DEFINE S == File!IndicesOf(lines, k)
<1>1. S \subseteq 1..Len(lines) /\ S # {} /\ \A i \in S : i \in DOMAIN lines /\ lines[i].key = k
  BY PlacesOf
<1>2. File!LastOf(S) \in S
  <2>1. Len(lines) \in Nat
    BY PlacesOf
  <2> HIDE DEF S
  <2> QED
    BY <1>1, <2>1, LastIsIn
<1> QED
  BY <1>1, <1>2 DEF File!FileValue

LEMMA ReadAbsent ==
  ASSUME NEW lines \in File!Lines, NEW k, \A i \in DOMAIN lines : lines[i].key # k
  PROVE  File!FileValue(lines, k) = Nil
<1>1. File!IndicesOf(lines, k) = {}
  BY DEF File!IndicesOf
<1> QED
  BY <1>1 DEF File!FileValue

LEMMA WithoutIsLines ==
  ASSUME NEW lines \in File!Lines, NEW S
  PROVE  File!Without(lines, S) \in File!Lines
<1>1. KeptOf(SettingLine, lines, S, Len(lines), File!Without(lines, S))
  BY WithoutKeeps DEF File!Lines, SettingLine
<1> QED
  BY <1>1 DEF KeptOf, File!Lines, SettingLine

\* The lines of a key that is cleared are gone.
LEMMA ClearedIsGone ==
  ASSUME NEW lines \in File!Lines, NEW S, NEW k, File!IndicesOf(lines, k) \subseteq S
  PROVE  File!FileValue(File!Without(lines, S), k) = Nil
<1>1. PICK w : w = File!Without(lines, S)
  OBVIOUS
<1>2. w \in File!Lines
  BY <1>1, WithoutIsLines
<1>3. KeptOf(SettingLine, lines, S, Len(lines), w)
  BY <1>1, WithoutKeeps DEF File!Lines, SettingLine
<1>4. \A j \in DOMAIN w : w[j].key # k
  BY <1>3, PlacesOf DEF KeptOf
<1> QED
  BY <1>1, <1>2, <1>4, ReadAbsent

\* What a key is set to is what a reader finds, and the new lines are lines.
LEMMA SetIsRead ==
  ASSUME NEW lines \in File!Lines, NEW k \in OwnKeys, NEW v \in SettingValues
  PROVE  /\ File!WithSet(lines, k, v) \in File!Lines
         /\ File!FileValue(File!WithSet(lines, k, v), k) = v
<1> DEFINE S == File!IndicesOf(lines, k)
           line == File!Line(k, v)
<1>1. line \in SettingLine /\ line.key = k /\ line.val = v
  BY DEF File!Line, SettingLine
<1>2. /\ lines \in Seq(SettingLine) /\ Len(lines) \in Nat /\ S \subseteq 1..Len(lines)
      /\ \A i : i \in S <=> i \in 1..Len(lines) /\ lines[i].key = k
  BY PlacesOf
<1>3. File!Lines = Seq(SettingLine)
  BY DEF File!Lines, SettingLine
<1>4. CASE S = {}
  <2>1. PICK w : w = Append(lines, line)
    OBVIOUS
  <2>2. File!WithSet(lines, k, v) = w
    BY <1>4, <2>1 DEF File!WithSet
  <2> HIDE DEF S, line
  <2>3. /\ w \in Seq(SettingLine) /\ DOMAIN w = 1..(Len(lines) + 1) /\ w[Len(lines) + 1] = line
        /\ \A j \in 1..Len(lines) : w[j] = lines[j]
    BY <1>1, <1>2, <2>1
  <2>4. \A j \in DOMAIN w : j = Len(lines) + 1 \/ (j \in 1..Len(lines) /\ w[j].key # k)
    BY <1>2, <1>4, <2>3
  <2>5. Len(lines) + 1 \in DOMAIN w /\ w \in File!Lines
    BY <1>2, <1>3, <2>3
  <2>6. \A j \in DOMAIN w : w[j].key = k => w[j].val = v
    BY <1>1, <2>3, <2>4
  <2>7. \E j \in DOMAIN w : w[j].key = k
    BY <1>1, <2>3, <2>5
  <2>8. File!FileValue(w, k) = v
    BY <2>5, <2>6, <2>7, ReadAs
  <2> QED
    BY <2>2, <2>5, <2>8
<1>5. CASE S # {}
  <2> DEFINE l == File!LastOf(S)
  <2>1. l \in S
    <3> HIDE DEF S, line
    <3> QED
      BY <1>2, <1>5, LastIsIn
  <2>2. PICK new : new = [lines EXCEPT ![l] = line]
    OBVIOUS
  <2>3. PICK w : w = File!Without(new, S \ {l})
    OBVIOUS
  <2>4. File!WithSet(lines, k, v) = w
    BY <1>5, <2>2, <2>3 DEF File!WithSet
  <2> HIDE DEF S, line, l
  <2>5. /\ new \in Seq(SettingLine) /\ Len(new) = Len(lines) /\ new[l] = line
        /\ \A j \in 1..Len(lines) : j # l => new[j] = lines[j]
    BY <1>1, <1>2, <2>1, <2>2
  <2>6. w \in File!Lines
    BY <1>3, <2>3, <2>5, WithoutIsLines
  <2>7. KeptOf(SettingLine, new, S \ {l}, Len(new), w)
    BY <2>3, <2>5, WithoutKeeps
  <2>8. ASSUME NEW j \in DOMAIN w, w[j].key = k PROVE w[j].val = v
    <3>1. PICK i \in 1..Len(lines) : i \notin S \ {l} /\ w[j] = new[i]
      BY <2>5, <2>7 DEF KeptOf
    <3>2. i = l
      BY <1>2, <2>5, <2>8, <3>1
    <3> QED
      BY <1>1, <2>5, <3>1, <3>2
  <2>9. \E j \in DOMAIN w : w[j].key = k
    <3>1. PICK j \in DOMAIN w : w[j] = new[l]
      BY <1>2, <2>1, <2>5, <2>7 DEF KeptOf
    <3> QED
      BY <1>1, <2>5, <3>1
  <2>10. File!FileValue(w, k) = v
    BY <2>6, <2>8, <2>9, ReadAs
  <2> QED
    BY <2>4, <2>6, <2>10
<1> QED
  BY <1>4, <1>5

\* The changes there are.
LEMMA ChangesAre ==
  ASSUME NEW o \in File!Ops
  PROVE  \/ \E k \in OwnKeys, v \in SettingValues : o = File!Set(k, v)
         \/ \E k \in OwnKeys : o = File!Reset(k)
         \/ o = File!ResetAll
BY DEF File!Ops

LEMMA OutcomeIsLines ==
  ASSUME NEW lines \in File!Lines, NEW o \in File!Ops
  PROVE  File!Outcome(lines, o) \in File!Lines
<1>1. ASSUME NEW k \in OwnKeys, NEW v \in SettingValues, o = File!Set(k, v)
      PROVE  File!Outcome(lines, o) \in File!Lines
  <2>1. File!Outcome(lines, o) = File!WithSet(lines, k, v)
    BY <1>1 DEF File!Outcome, File!Set
  <2> QED
    BY <2>1, SetIsRead
<1>2. ASSUME NEW k \in OwnKeys, o = File!Reset(k) PROVE File!Outcome(lines, o) \in File!Lines
  <2>1. File!Outcome(lines, o) = File!Without(lines, File!IndicesOf(lines, k))
    BY <1>2 DEF File!Outcome, File!Reset
  <2> QED
    BY <2>1, WithoutIsLines
<1>3. ASSUME o = File!ResetAll PROVE File!Outcome(lines, o) \in File!Lines
  <2>1. File!Outcome(lines, o) = File!WithoutManaged(lines)
    BY <1>3 DEF File!Outcome, File!ResetAll
  <2> QED
    BY <2>1, WithoutIsLines DEF File!WithoutManaged
<1> QED
  BY <1>1, <1>2, <1>3, ChangesAre

\* What a reader finds in the file of a key that was changed.
LEMMA OutcomeIsRead ==
  ASSUME NEW lines \in File!Lines, NEW o \in File!Ops, NEW k \in File!Key(o)
  PROVE  /\ File!FileValue(File!Outcome(lines, o), k) = IF o.do = "set" THEN o.val ELSE Nil
         /\ o.do = "set" => o.val \in SettingValues
<1>1. ASSUME NEW h \in OwnKeys, NEW v \in SettingValues, o = File!Set(h, v)
      PROVE  /\ File!FileValue(File!Outcome(lines, o), k) = IF o.do = "set" THEN o.val ELSE Nil
             /\ o.do = "set" => o.val \in SettingValues
  <2>1. File!Outcome(lines, o) = File!WithSet(lines, h, v) /\ k = h /\ o.do = "set" /\ o.val = v
    BY <1>1 DEF File!Outcome, File!Set, File!Key
  <2> QED
    BY <2>1, SetIsRead
<1>2. ASSUME NEW h \in OwnKeys, o = File!Reset(h)
      PROVE  File!FileValue(File!Outcome(lines, o), k) = Nil /\ o.do # "set"
  <2>1. File!Outcome(lines, o) = File!Without(lines, File!IndicesOf(lines, h)) /\ k = h /\ o.do # "set"
    BY <1>2 DEF File!Outcome, File!Reset, File!Key
  <2> QED
    BY <2>1, ClearedIsGone
<1>3. ASSUME o = File!ResetAll
      PROVE  File!FileValue(File!Outcome(lines, o), k) = Nil /\ o.do # "set"
  <2>1. File!Outcome(lines, o) = File!WithoutManaged(lines) /\ k \in OwnKeys /\ o.do # "set"
    BY <1>3 DEF File!Outcome, File!ResetAll, File!Key
  <2>2. PICK S : S = UNION {File!IndicesOf(lines, h) : h \in OwnKeys}
    OBVIOUS
  <2>3. File!IndicesOf(lines, k) \subseteq S /\ File!Outcome(lines, o) = File!Without(lines, S)
    BY <2>1, <2>2 DEF File!WithoutManaged
  <2> QED
    BY <2>1, <2>3, ClearedIsGone
<1> QED
  BY <1>1, <1>2, <1>3, ChangesAre

LEMMA FileStarts == ASSUME File!Init PROVE File!IInv
<1>1. <<>> \in File!Lines
  BY DEF File!Lines
<1>2. File!TypeOK
  BY <1>1 DEF File!Init, File!TypeOK
<1> QED
  BY <1>2 DEF File!Init, File!IInv

\* An operation is told from doing nothing and from an edit by hand.
LEMMA ChangesTold == ASSUME NEW o \in File!Ops PROVE o # File!Idle /\ o # File!Hand /\ o.do # "hand"
BY ChangesAre DEF File!Idle, File!Hand, File!Set, File!Reset, File!ResetAll

LEMMA FileEdited == ASSUME File!IInv, File!Edit PROVE File!IInv'
<1>1. v7'.op = File!Hand /\ UNCHANGED <<v2, v3, v4>>
  BY DEF File!Edit
<1>2. v1' \in File!Lines
  <2>1. v1 \in Seq(SettingLine)
    BY DEF File!IInv, File!TypeOK, File!Lines, SettingLine
  <2>2. PICK k \in OwnKeys \cup OtherKeys, v \in SettingValues \cup {BadValue} :
          v1' = Append(v1, File!Line(k, v)) \/ \E i \in DOMAIN v1 : v1' = [v1 EXCEPT ![i] = File!Line(k, v)]
    BY DEF File!Edit
  <2>3. File!Line(k, v) \in SettingLine
    BY DEF File!Line, SettingLine
  <2>4. v1' \in Seq(SettingLine)
    BY <2>1, <2>2, <2>3
  <2> QED
    BY <2>4 DEF File!Lines, SettingLine
<1>3. File!TypeOK'
  BY <1>1, <1>2 DEF File!IInv, File!TypeOK
<1>4. \A p \in Setter : v2'[p] # Nil => v3'[p] # File!Idle /\ v2'[p] = File!Outcome(v4'[p], v3'[p])
  BY <1>1 DEF File!IInv
<1> QED
  BY <1>1, <1>3, <1>4 DEF File!IInv, File!Idle, File!Hand, File!Outcome, File!WithSet, File!Without

LEMMA ChangeBegins == ASSUME File!IInv, NEW p \in Setter, File!Begin(p) PROVE File!IInv'
<1>1. PICK o \in File!Ops : v3' = [v3 EXCEPT ![p] = o]
  BY DEF File!Begin
<1>2. v4' = [v4 EXCEPT ![p] = v1] /\ v3[p] = File!Idle /\ UNCHANGED <<v1, v2, v7>>
  BY DEF File!Begin
<1>3. File!TypeOK'
  BY <1>1, <1>2 DEF File!IInv, File!TypeOK
<1>4. ASSUME NEW q \in Setter, v2'[q] # Nil
      PROVE  v3'[q] # File!Idle /\ v2'[q] = File!Outcome(v4[q], v3[q]) /\ v3'[q] = v3[q] /\ v4'[q] = v4[q]
  <2>1. v3[q] # File!Idle /\ v2'[q] = File!Outcome(v4[q], v3[q])
    BY <1>2, <1>4 DEF File!IInv
  <2>2. q # p
    BY <1>2, <2>1
  <2> QED
    BY <1>1, <1>2, <2>1, <2>2 DEF File!IInv, File!TypeOK
<1>5. v7'.op # File!Hand => \E lines \in File!Lines : v1' = File!Outcome(lines, v7'.op)
  BY <1>2 DEF File!IInv
<1> QED
  BY <1>3, <1>4, <1>5 DEF File!IInv

LEMMA ChangeIsBuilt == ASSUME File!IInv, NEW p \in Setter, File!WriteTemp(p) PROVE File!IInv'
<1>1. v3[p] \in File!Ops /\ v4[p] \in File!Lines
  BY DEF File!WriteTemp, File!IInv, File!TypeOK
<1>2. PICK w : w = File!Outcome(v4[p], v3[p])
  OBVIOUS
<1>3. w \in File!Lines
  BY <1>1, <1>2, OutcomeIsLines
<1>4. v2' = [v2 EXCEPT ![p] = w] /\ v3[p] # File!Idle /\ UNCHANGED <<v1, v3, v4, v7>>
  BY <1>2 DEF File!WriteTemp
<1>5. File!TypeOK'
  BY <1>3, <1>4 DEF File!IInv, File!TypeOK
<1>6. ASSUME NEW q \in Setter, v2'[q] # Nil
      PROVE  v3'[q] # File!Idle /\ v2'[q] = File!Outcome(v4[q], v3[q]) /\ v3'[q] = v3[q] /\ v4'[q] = v4[q]
  <2>1. CASE q = p
    BY <1>2, <1>4, <2>1 DEF File!IInv, File!TypeOK
  <2>2. CASE q # p
    BY <1>4, <1>6, <2>2 DEF File!IInv, File!TypeOK
  <2> QED
    BY <2>1, <2>2
<1>7. v7'.op # File!Hand => \E lines \in File!Lines : v1' = File!Outcome(lines, v7'.op)
  BY <1>4 DEF File!IInv
<1> QED
  BY <1>5, <1>6, <1>7 DEF File!IInv

\* A process that ends its change, by the rename or without it.
LEMMA ChangeEnds ==
  ASSUME File!IInv, NEW p \in Setter, v2' = [v2 EXCEPT ![p] = Nil],
         v3' = [v3 EXCEPT ![p] = File!Idle], v4' = [v4 EXCEPT ![p] = <<>>]
  PROVE  /\ v2' \in [Setter -> File!Lines \cup {Nil}] /\ v3' \in [Setter -> File!Ops \cup {File!Idle}]
         /\ v4' \in [Setter -> File!Lines]
         /\ \A q \in Setter : v2'[q] # Nil =>
              v3'[q] # File!Idle /\ v2'[q] = File!Outcome(v4[q], v3[q]) /\ v3'[q] = v3[q] /\ v4'[q] = v4[q]
<1>1. <<>> \in File!Lines
  BY DEF File!Lines
<1>2. v4' \in [Setter -> File!Lines]
  BY <1>1 DEF File!IInv, File!TypeOK
<1>3. v2' \in [Setter -> File!Lines \cup {Nil}] /\ v3' \in [Setter -> File!Ops \cup {File!Idle}]
  BY DEF File!IInv, File!TypeOK
<1>4. ASSUME NEW q \in Setter, v2'[q] # Nil
      PROVE  v3'[q] # File!Idle /\ v2'[q] = File!Outcome(v4[q], v3[q]) /\ v3'[q] = v3[q] /\ v4'[q] = v4[q]
  <2>1. q # p
    BY <1>4 DEF File!IInv, File!TypeOK
  <2> QED
    BY <1>4, <2>1 DEF File!IInv, File!TypeOK
<1> QED
  BY <1>2, <1>3, <1>4

LEMMA ChangeIsRenamed == ASSUME File!IInv, NEW p \in Setter, File!Rename(p) PROVE File!IInv'
<1>1. PICK o, lines : o = v3[p] /\ lines = v4[p]
  OBVIOUS
<1>2. o \in File!Ops /\ lines \in File!Lines /\ v2[p] = File!Outcome(lines, o) /\ v2[p] # Nil
  BY <1>1 DEF File!Rename, File!IInv, File!TypeOK
<1>3. /\ v1' = File!Outcome(lines, o) /\ v7' = [by |-> p, op |-> o]
      /\ v2' = [v2 EXCEPT ![p] = Nil] /\ v3' = [v3 EXCEPT ![p] = File!Idle] /\ v4' = [v4 EXCEPT ![p] = <<>>]
  BY <1>1, <1>2 DEF File!Rename
<1>4. v1' \in File!Lines /\ v7'.op \in File!Ops
  BY <1>2, <1>3, OutcomeIsLines
<1>5. /\ v2' \in [Setter -> File!Lines \cup {Nil}] /\ v3' \in [Setter -> File!Ops \cup {File!Idle}]
      /\ v4' \in [Setter -> File!Lines]
      /\ \A q \in Setter : v2'[q] # Nil =>
           v3'[q] # File!Idle /\ v2'[q] = File!Outcome(v4[q], v3[q]) /\ v3'[q] = v3[q] /\ v4'[q] = v4[q]
  BY <1>3, ChangeEnds
<1>6. File!TypeOK'
  BY <1>4, <1>5 DEF File!TypeOK
<1>7. \E l \in File!Lines : v1' = File!Outcome(l, v7'.op)
  BY <1>2, <1>3
<1> QED
  BY <1>5, <1>6, <1>7 DEF File!IInv

LEMMA ChangeIsGivenUp == ASSUME File!IInv, NEW p \in Setter, File!GiveUp(p) PROVE File!IInv'
<1>1. /\ v2' = [v2 EXCEPT ![p] = Nil] /\ v3' = [v3 EXCEPT ![p] = File!Idle] /\ v4' = [v4 EXCEPT ![p] = <<>>]
      /\ UNCHANGED <<v1, v7>>
  BY DEF File!GiveUp
<1>2. /\ v2' \in [Setter -> File!Lines \cup {Nil}] /\ v3' \in [Setter -> File!Ops \cup {File!Idle}]
      /\ v4' \in [Setter -> File!Lines]
      /\ \A q \in Setter : v2'[q] # Nil =>
           v3'[q] # File!Idle /\ v2'[q] = File!Outcome(v4[q], v3[q]) /\ v3'[q] = v3[q] /\ v4'[q] = v4[q]
  BY <1>1, ChangeEnds
<1>3. File!TypeOK'
  BY <1>1, <1>2 DEF File!TypeOK, File!IInv
<1>4. v7'.op # File!Hand => \E lines \in File!Lines : v1' = File!Outcome(lines, v7'.op)
  BY <1>1 DEF File!IInv
<1> QED
  BY <1>2, <1>3, <1>4 DEF File!IInv

LEMMA FileGoesOn == ASSUME File!IInv, [File!Next]_(File!vars) PROVE File!IInv'
<1>1. CASE UNCHANGED File!vars
  <2>1. UNCHANGED <<v1, v2, v3, v4, v7>>
    BY <1>1 DEF File!vars
  <2>2. File!TypeOK'
    BY <2>1 DEF File!IInv, File!TypeOK
  <2> QED
    BY <2>1, <2>2 DEF File!IInv
<1>2. CASE File!Next
  BY <1>2, FileEdited, ChangeBegins, ChangeIsBuilt, ChangeIsRenamed, ChangeIsGivenUp DEF File!Next
<1> QED
  BY <1>1, <1>2

LEMMA ChangesResolved == ASSUME File!IInv PROVE File!ChangeIsResolved
<1> SUFFICES ASSUME NEW env \in [OwnKeys -> {Nil, BadValue} \cup SettingValues], NEW k \in OwnKeys,
                    v7.op.do # "hand", k \in File!Key(v7.op)
             PROVE  File!Resolved(v1, env, k) =
                      CASE env[k] = BadValue -> "refused"
                        [] env[k] \in SettingValues -> env[k]
                        [] OTHER -> IF v7.op.do = "set" THEN v7.op.val ELSE "default"
  BY DEF File!ChangeIsResolved
<1>1. PICK o, f : o = v7.op /\ f = v1
  OBVIOUS
<1>2. o \in File!Ops
  BY <1>1 DEF File!IInv, File!TypeOK, File!Hand
<1>3. PICK lines \in File!Lines : f = File!Outcome(lines, o)
  BY <1>1, <1>2, ChangesTold DEF File!IInv
<1>4. /\ File!FileValue(f, k) = IF o.do = "set" THEN o.val ELSE Nil
      /\ o.do = "set" => o.val \in SettingValues
  BY <1>1, <1>2, <1>3, OutcomeIsRead
<1>5. BadValue \notin SettingValues /\ Nil \notin SettingValues /\ Nil # BadValue
  BY CreationAssumption DEF File!SettingsAssumption
<1>6. env[k] = Nil \/ env[k] = BadValue \/ env[k] \in SettingValues
  OBVIOUS
<1> QED
  BY <1>1, <1>4, <1>5, <1>6 DEF File!Resolved

\* Where the lines that are kept of the first places stood: in their order, at every place
\* that is not left out.
Stood(L, lines, S, n, w, f) ==
  /\ w \in Seq(L) /\ f \in [DOMAIN w -> 1..n]
  /\ \A a, b \in DOMAIN w : a < b => f[a] < f[b]
  /\ \A j \in DOMAIN w : f[j] \notin S /\ w[j] = lines[f[j]]
  /\ \A k \in 1..n : k \notin S => \E j \in DOMAIN w : f[j] = k

LEMMA OneMoreStood ==
  ASSUME NEW L, NEW lines \in Seq(L), NEW S, NEW i \in Nat, i + 1 <= Len(lines),
         NEW w, NEW f, Stood(L, lines, S, i, w, f)
  PROVE  \E g : Stood(L, lines, S, i + 1, IF i + 1 \in S THEN w ELSE Append(w, lines[i + 1]), g)
<1>0. i + 1 \in 1..(i + 1) /\ \A k \in 1..(i + 1) : k = i + 1 \/ k \in 1..i
  OBVIOUS
<1>1. \A k \in 1..i : k \in 1..(i + 1) /\ k < i + 1
  OBVIOUS
<1>2. CASE i + 1 \in S
  <2>1. f \in [DOMAIN w -> 1..(i + 1)]
    BY <1>1 DEF Stood
  <2>2. \A k \in 1..(i + 1) : k \notin S => \E j \in DOMAIN w : f[j] = k
    BY <1>0, <1>2 DEF Stood
  <2>3. Stood(L, lines, S, i + 1, w, f)
    BY <2>1, <2>2 DEF Stood
  <2> QED
    BY <1>2, <2>3
<1>3. CASE i + 1 \notin S
  <2> DEFINE v == Append(w, lines[i + 1])
             g == [j \in DOMAIN v |-> IF j = Len(w) + 1 THEN i + 1 ELSE f[j]]
  <2>1. lines[i + 1] \in L /\ w \in Seq(L)
    BY DEF Stood
  <2>2. /\ v \in Seq(L) /\ Len(w) \in Nat /\ v[Len(w) + 1] = lines[i + 1]
        /\ DOMAIN v = 1..(Len(w) + 1) /\ DOMAIN w = 1..Len(w)
        /\ \A j \in 1..Len(w) : v[j] = w[j]
    BY <2>1
  <2> HIDE DEF v
  <2>3. /\ \A j \in DOMAIN v : j = Len(w) + 1 \/ j \in DOMAIN w
        /\ \A j \in DOMAIN w : j \in DOMAIN v /\ j < Len(w) + 1 /\ j # Len(w) + 1
    BY <2>2
  <2>4. /\ g[Len(w) + 1] = i + 1
        /\ \A j \in DOMAIN w : g[j] = f[j] /\ f[j] \in 1..i
    BY <2>2, <2>3 DEF Stood
  <2>5. g \in [DOMAIN v -> 1..(i + 1)]
    <3>1. \A j \in DOMAIN v : g[j] \in 1..(i + 1)
      BY <1>0, <1>1, <2>3, <2>4
    <3> QED
      BY <3>1
  <2> HIDE DEF g
  <2>6. ASSUME NEW a \in DOMAIN v, NEW b \in DOMAIN v, a < b PROVE g[a] < g[b]
    <3>1. a \in DOMAIN w
      BY <2>2, <2>6
    <3>2. CASE b \in DOMAIN w
      BY <2>4, <2>6, <3>1, <3>2 DEF Stood
    <3>3. CASE b = Len(w) + 1
      BY <1>1, <2>4, <3>1, <3>3
    <3> QED
      BY <2>3, <3>2, <3>3
  <2>7. ASSUME NEW j \in DOMAIN v PROVE g[j] \notin S /\ v[j] = lines[g[j]]
    <3>1. CASE j \in DOMAIN w
      BY <2>2, <2>4, <3>1 DEF Stood
    <3>2. CASE j = Len(w) + 1
      BY <1>3, <2>2, <2>4, <3>2
    <3> QED
      BY <2>3, <3>1, <3>2
  <2>8. ASSUME NEW k \in 1..(i + 1), k \notin S PROVE \E j \in DOMAIN v : g[j] = k
    <3>1. CASE k = i + 1
      BY <2>2, <2>4, <3>1
    <3>2. CASE k \in 1..i
      <4>1. PICK j \in DOMAIN w : f[j] = k
        BY <2>8, <3>2 DEF Stood
      <4> QED
        BY <2>3, <2>4, <4>1
    <3> QED
      BY <1>0, <3>1, <3>2
  <2>9. Stood(L, lines, S, i + 1, v, g)
    BY <2>2, <2>5, <2>6, <2>7, <2>8 DEF Stood
  <2> QED
    BY <1>3, <2>9 DEF v
<1> QED
  BY <1>2, <1>3

\* Taking lines away leaves the others in their order.
LEMMA WithoutKeepsOrder ==
  ASSUME NEW L, NEW lines \in Seq(L), NEW S
  PROVE  \E f : Stood(L, lines, S, Len(lines), File!Without(lines, S), f)
<1> DEFINE kept == CHOOSE f : Keeping(lines, S, Len(lines), f)
           Bad == {m \in Nat : m <= Len(lines) /\ ~ \E f : Stood(L, lines, S, m, kept[m], f)}
<1>1. File!Without(lines, S) = kept[Len(lines)]
  BY DEF File!Without, Keeping
<1>2. Keeping(lines, S, Len(lines), kept)
  BY KeepingIs
<1> HIDE DEF kept
<1>3. Bad = {}
  <2> SUFFICES ASSUME Bad # {} PROVE FALSE
    OBVIOUS
  <2>1. PICK m \in Bad : \A k \in Bad : m <= k
    <3>1. Bad \in SUBSET Nat
      OBVIOUS
    <3> HIDE DEF Bad
    <3> QED
      BY <3>1, Least
  <2>2. m \in 0..Len(lines) /\ Len(lines) \in Nat
    OBVIOUS
  <2>3. CASE m = 0
    <3>1. kept[m] = <<>>
      BY <1>2, <2>2, <2>3 DEF Keeping
    <3>2. Stood(L, lines, S, 0, <<>>, [j \in {} |-> 0])
      BY DEF Stood
    <3> QED
      BY <2>3, <3>1, <3>2
  <2>4. CASE m # 0
    <3>1. m - 1 \in Nat /\ m - 1 \notin Bad /\ m - 1 <= Len(lines) /\ (m - 1) + 1 = m
      BY <2>1, <2>2, <2>4
    <3>2. PICK f : Stood(L, lines, S, m - 1, kept[m - 1], f)
      BY <3>1
    <3>3. kept[m] = IF m \in S THEN kept[m - 1] ELSE Append(kept[m - 1], lines[m])
      BY <1>2, <2>2, <2>4 DEF Keeping
    <3>4. PICK i, w : i = m - 1 /\ w = kept[m - 1]
      OBVIOUS
    <3>5. Stood(L, lines, S, i, w, f) /\ i \in Nat /\ i + 1 <= Len(lines)
      BY <2>2, <3>1, <3>2, <3>4
    <3>6. \E g : Stood(L, lines, S, i + 1, IF i + 1 \in S THEN w ELSE Append(w, lines[i + 1]), g)
      BY <3>5, OneMoreStood
    <3> QED
      BY <3>1, <3>3, <3>4, <3>6
  <2> QED
    BY <2>3, <2>4
<1>4. \E f : Stood(L, lines, S, Len(lines), kept[Len(lines)], f)
  <2>1. Len(lines) \notin Bad /\ Len(lines) \in Nat
    BY <1>3
  <2> QED
    BY <2>1
<1> QED
  BY <1>1, <1>4

LEMMA PlaceIs ==
  ASSUME NEW lines, NEW o, NEW i, NEW T, T = {j \in File!Others(lines, o) : j <= i}
  PROVE  File!Place(lines, o, i) = Cardinality(T)
<1>1. File!Place(lines, o, i) = File!Cardinality(T)
  BY DEF File!Place
<1>2. File!Cardinality(T) = Cardinality(T)
  BY DEF File!Cardinality, Cardinality
<1> QED
  BY <1>1, <1>2

\* Lines that stood elsewhere, in the same order, have the same places among themselves.
LEMMA SamePlaces ==
  ASSUME NEW lines \in File!Lines, NEW w \in File!Lines, NEW o,
         NEW f \in [File!Others(w, o) -> File!Others(lines, o)],
         \A a, b \in File!Others(w, o) : a < b => f[a] < f[b],
         \A j \in File!Others(w, o) : w[j] = lines[f[j]],
         \A k \in File!Others(lines, o) : \E j \in File!Others(w, o) : f[j] = k
  PROVE  File!OtherLines(w, o) = File!OtherLines(lines, o)
<1> DEFINE A == File!Others(w, o)
           B == File!Others(lines, o)
           Up(S, i) == {x \in S : x <= i}
<1>1. A \subseteq Nat /\ B \subseteq Nat
  BY PlacesOf DEF File!Others
<1>2. IsFiniteSet(A)
  <2>1. A \subseteq 1..Len(w) /\ Len(w) \in Nat
    BY PlacesOf DEF File!Others
  <2>2. IsFiniteSet(1..Len(w))
    BY <2>1, FS_Interval
  <2> QED
    BY <2>1, <2>2, FS_Subset
<1> HIDE DEF A, B
<1>3. /\ f \in [A -> B] /\ \A a, b \in A : a < b => f[a] < f[b]
      /\ \A j \in A : w[j] = lines[f[j]] /\ \A k \in B : \E i \in A : f[i] = k
  BY DEF A, B
<1>4. ASSUME NEW i \in A PROVE Cardinality(Up(B, f[i])) = Cardinality(Up(A, i))
  <2> DEFINE S == Up(A, i)
             T == Up(B, f[i])
             g == [j \in S |-> f[j]]
  <2>0. \A a \in A : a \in Nat /\ f[a] \in B /\ f[a] \in Nat
    BY <1>1, <1>3
  <2>1. ASSUME NEW a \in A, NEW b \in A PROVE a <= b <=> f[a] <= f[b]
    <3>1. (a < b => f[a] < f[b]) /\ (b < a => f[b] < f[a]) /\ (a = b => f[a] = f[b])
      BY <1>3
    <3> QED
      BY <2>0, <3>1
  <2>2. IsFiniteSet(S)
    BY <1>2, FS_Subset
  <2>3. g \in [S -> T]
    BY <1>3, <2>1
  <2>4. \A a, b \in S : g[a] = g[b] => a = b
    <3>1. ASSUME NEW a \in S, NEW b \in S, f[a] = f[b] PROVE a = b
      <4>1. a \in Nat /\ b \in Nat /\ f[a] \in Nat /\ f[b] \in Nat
        BY <1>1, <1>3
      <4>2. a <= b /\ b <= a
        BY <2>1, <3>1, <4>1
      <4> QED
        BY <4>1, <4>2
    <3> QED
      BY <3>1
  <2>5. \A t \in T : \E s \in S : g[s] = t
    <3> SUFFICES ASSUME NEW t \in T PROVE \E s \in S : g[s] = t
      OBVIOUS
    <3>1. PICK j \in A : f[j] = t
      BY <1>3
    <3>2. j <= i
      BY <2>1, <3>1
    <3> QED
      BY <3>1, <3>2
  <2> HIDE DEF S, T, g
  <2>6. g \in Bijection(S, T)
    BY <2>3, <2>4, <2>5 DEF Bijection, Injection, Surjection, IsInjective
  <2>7. Cardinality(T) = Cardinality(S)
    BY <2>2, <2>6, FS_Bijection DEF ExistsBijection
  <2> QED
    BY <2>7 DEF S, T
<1>5. ASSUME NEW i \in A PROVE File!Place(w, o, i) = File!Place(lines, o, f[i])
  <2>1. File!Place(w, o, i) = Cardinality(Up(A, i))
    <3>1. Up(A, i) = {j \in File!Others(w, o) : j <= i}
      BY DEF A
    <3> QED
      BY <3>1, PlaceIs
  <2>2. File!Place(lines, o, f[i]) = Cardinality(Up(B, f[i]))
    <3>1. Up(B, f[i]) = {j \in File!Others(lines, o) : j <= f[i]}
      BY DEF B
    <3> QED
      BY <3>1, PlaceIs
  <2> QED
    BY <1>4, <2>1, <2>2
<1>6. \A k \in B : \E i \in A : f[i] = k
  BY DEF A, B
<1> DEFINE P(i) == <<File!Place(w, o, i), w[i]>>
           Q(k) == <<File!Place(lines, o, k), lines[k]>>
<1>7. \A i \in A : P(i) = Q(f[i]) /\ f[i] \in B
  BY <1>3, <1>5
<1>8. File!OtherLines(w, o) = {P(i) : i \in A} /\ File!OtherLines(lines, o) = {Q(k) : k \in B}
  BY DEF File!OtherLines, A, B
<1> HIDE DEF P, Q
<1>9. {P(i) : i \in A} = {Q(k) : k \in B}
  BY <1>6, <1>7
<1> QED
  BY <1>8, <1>9

\* Lines of the key may go and come, at the end too: the others stay where they are.
LEMMA TakenAwayKeeps ==
  ASSUME NEW lines \in File!Lines, NEW S, NEW o,
         \A i \in DOMAIN lines : i \in S => lines[i].key \in File!Key(o)
  PROVE  File!OtherLines(File!Without(lines, S), o) = File!OtherLines(lines, o)
<1> DEFINE w == File!Without(lines, S)
           A == File!Others(w, o)
           B == File!Others(lines, o)
<1>1. w \in File!Lines
  BY WithoutIsLines
<1>2. lines \in Seq(SettingLine) /\ DOMAIN lines = 1..Len(lines)
  BY PlacesOf
<1>3. PICK f : Stood(SettingLine, lines, S, Len(lines), w, f)
  BY <1>2, WithoutKeepsOrder
<1> HIDE DEF w
<1>4. /\ f \in [DOMAIN w -> 1..Len(lines)]
      /\ \A a, b \in DOMAIN w : a < b => f[a] < f[b]
      /\ \A j \in DOMAIN w : f[j] \notin S /\ w[j] = lines[f[j]]
      /\ \A k \in 1..Len(lines) : k \notin S => \E j \in DOMAIN w : f[j] = k
  BY <1>3 DEF Stood
<1> DEFINE g == [j \in A |-> f[j]]
<1>5. A \subseteq DOMAIN w /\ B \subseteq 1..Len(lines)
  BY <1>2 DEF File!Others
<1>6. \A j \in A : g[j] = f[j] /\ f[j] \in B
  BY <1>2, <1>4, <1>5 DEF File!Others
<1>7. ASSUME NEW k \in B PROVE \E j \in A : g[j] = k
  <2>1. k \in 1..Len(lines) /\ k \notin S
    BY <1>2 DEF File!Others
  <2>2. PICK j \in DOMAIN w : f[j] = k
    BY <1>4, <2>1
  <2>3. w[j] = lines[k]
    BY <1>4, <2>2
  <2>4. j \in A
    BY <2>3 DEF File!Others
  <2> QED
    BY <1>6, <2>2, <2>4
<1>8. g \in [A -> B]
  BY <1>6
<1>9. \A j \in A : w[j] = lines[g[j]]
  BY <1>4, <1>5, <1>6
<1>10. \A a, b \in A : a < b => g[a] < g[b]
  BY <1>4, <1>5, <1>6
<1> HIDE DEF g
<1>11. File!OtherLines(w, o) = File!OtherLines(lines, o)
  BY <1>1, <1>7, <1>8, <1>9, <1>10, SamePlaces
<1> QED
  BY <1>11 DEF w

\* So do they when a line of the key is changed, or one is added at the end.
LEMMA SameOthers ==
  ASSUME NEW lines \in File!Lines, NEW w \in File!Lines, NEW o,
         File!Others(w, o) = File!Others(lines, o),
         \A j \in File!Others(lines, o) : w[j] = lines[j]
  PROVE  File!OtherLines(w, o) = File!OtherLines(lines, o)
BY DEF File!OtherLines, File!Place

LEMMA SetKeepsOthers ==
  ASSUME NEW lines \in File!Lines, NEW o \in File!Ops, NEW k \in OwnKeys, NEW v \in SettingValues,
         o = File!Set(k, v)
  PROVE  File!OtherLines(File!WithSet(lines, k, v), o) = File!OtherLines(lines, o)
<1> DEFINE S == File!IndicesOf(lines, k)
           line == File!Line(k, v)
<1>1. line \in SettingLine /\ line.key = k
  BY DEF File!Line, SettingLine
<1>2. /\ lines \in Seq(SettingLine) /\ Len(lines) \in Nat /\ S \subseteq 1..Len(lines)
      /\ DOMAIN lines = 1..Len(lines)
      /\ \A i : i \in S <=> i \in 1..Len(lines) /\ lines[i].key = k
  BY PlacesOf
<1>3. File!Lines = Seq(SettingLine) /\ File!Key(o) = {k}
  BY DEF File!Lines, SettingLine, File!Key, File!Set
<1>4. CASE S = {}
  <2>1. PICK w : w = Append(lines, line)
    OBVIOUS
  <2>2. File!WithSet(lines, k, v) = w
    BY <1>4, <2>1 DEF File!WithSet
  <2> HIDE DEF S, line
  <2>3. /\ w \in Seq(SettingLine) /\ DOMAIN w = 1..(Len(lines) + 1) /\ w[Len(lines) + 1] = line
        /\ \A j \in 1..Len(lines) : w[j] = lines[j]
    BY <1>1, <1>2, <2>1
  <2>4. \A j \in DOMAIN w : j = Len(lines) + 1 \/ j \in 1..Len(lines)
    BY <1>2, <2>3
  <2>5. \A j \in 1..Len(lines) : j \in DOMAIN w
    BY <1>2, <2>3
  <2>6. File!Others(w, o) = File!Others(lines, o)
    BY <1>1, <1>2, <1>3, <2>3, <2>4, <2>5 DEF File!Others
  <2>7. \A j \in File!Others(lines, o) : w[j] = lines[j]
    BY <1>2, <2>3 DEF File!Others
  <2> QED
    BY <1>3, <2>2, <2>3, <2>6, <2>7, SameOthers
<1>5. CASE S # {}
  <2> DEFINE l == File!LastOf(S)
  <2>1. l \in S
    <3> HIDE DEF S, line
    <3> QED
      BY <1>2, <1>5, LastIsIn
  <2>2. PICK new : new = [lines EXCEPT ![l] = line]
    OBVIOUS
  <2>3. File!WithSet(lines, k, v) = File!Without(new, S \ {l})
    BY <1>5, <2>2 DEF File!WithSet
  <2> HIDE DEF S, line, l
  <2>4. /\ new \in Seq(SettingLine) /\ DOMAIN new = DOMAIN lines /\ new[l] = line
        /\ \A j \in 1..Len(lines) : j # l => new[j] = lines[j]
    BY <1>1, <1>2, <2>1, <2>2
  <2>5. \A j \in DOMAIN lines : j \in S => lines[j].key = k /\ new[j].key = k
    BY <1>1, <1>2, <2>4
  <2>6. \A j \in DOMAIN lines : j \notin S => new[j] = lines[j]
    BY <1>2, <2>1, <2>4
  <2>7. File!Others(new, o) = File!Others(lines, o)
    BY <1>3, <2>4, <2>5, <2>6 DEF File!Others
  <2>8. \A j \in File!Others(lines, o) : new[j] = lines[j]
    BY <1>3, <2>5, <2>6 DEF File!Others
  <2>9. File!OtherLines(new, o) = File!OtherLines(lines, o)
    BY <1>3, <2>4, <2>7, <2>8, SameOthers
  <2>10. File!OtherLines(File!Without(new, S \ {l}), o) = File!OtherLines(new, o)
    BY <1>3, <2>4, <2>5, TakenAwayKeeps
  <2> QED
    BY <2>3, <2>9, <2>10
<1> QED
  BY <1>4, <1>5

LEMMA OutcomeKeepsOthers ==
  ASSUME NEW lines \in File!Lines, NEW o \in File!Ops
  PROVE  File!OtherLines(File!Outcome(lines, o), o) = File!OtherLines(lines, o)
<1>1. ASSUME NEW k \in OwnKeys, NEW v \in SettingValues, o = File!Set(k, v)
      PROVE  File!OtherLines(File!Outcome(lines, o), o) = File!OtherLines(lines, o)
  <2>1. File!Outcome(lines, o) = File!WithSet(lines, k, v)
    BY <1>1 DEF File!Outcome, File!Set
  <2> QED
    BY <1>1, <2>1, SetKeepsOthers
<1>2. ASSUME NEW k \in OwnKeys, o = File!Reset(k)
      PROVE  File!OtherLines(File!Outcome(lines, o), o) = File!OtherLines(lines, o)
  <2>1. File!Outcome(lines, o) = File!Without(lines, File!IndicesOf(lines, k)) /\ k \in File!Key(o)
    BY <1>2 DEF File!Outcome, File!Reset, File!Key
  <2>2. \A i \in DOMAIN lines : i \in File!IndicesOf(lines, k) => lines[i].key \in File!Key(o)
    BY <2>1, PlacesOf
  <2> QED
    BY <2>1, <2>2, TakenAwayKeeps
<1>3. ASSUME o = File!ResetAll
      PROVE  File!OtherLines(File!Outcome(lines, o), o) = File!OtherLines(lines, o)
  <2>1. File!Outcome(lines, o) = File!WithoutManaged(lines) /\ File!Key(o) = OwnKeys
    BY <1>3 DEF File!Outcome, File!ResetAll, File!Key
  <2>2. PICK S : S = UNION {File!IndicesOf(lines, h) : h \in OwnKeys}
    OBVIOUS
  <2>3. \A i \in DOMAIN lines : i \in S => lines[i].key \in File!Key(o)
    BY <2>1, <2>2, PlacesOf
  <2>4. File!Outcome(lines, o) = File!Without(lines, S)
    BY <2>1, <2>2 DEF File!WithoutManaged
  <2> QED
    BY <2>3, <2>4, TakenAwayKeeps
<1> QED
  BY <1>1, <1>2, <1>3, ChangesAre

LEMMA ChangeKeepsOthers ==
  ASSUME File!IInv, File!Next, NEW p \in Setter,
         v1' # v1, v3[p] # File!Idle, v3'[p] = File!Idle, v7'.by = p
  PROVE  File!OtherLines(v1', v3[p]) = File!OtherLines(v4[p], v3[p])
<1>1. PICK q \in Setter : File!Rename(q)
  BY DEF File!Next, File!Edit, File!Begin, File!WriteTemp, File!GiveUp
<1>2. q = p
  BY <1>1 DEF File!Rename
<1>3. v3[p] \in File!Ops /\ v4[p] \in File!Lines /\ v1' = File!Outcome(v4[p], v3[p])
  BY <1>1, <1>2 DEF File!Rename, File!IInv, File!TypeOK
<1> QED
  BY <1>3, OutcomeKeepsOthers

----------------------------------------------------------------------------
(* The channels *)

Version7 == [major : Nat, minor : Nat, patch : Nat, stage : DOMAIN Latest!Stage, num : Nat]

\* compareRouterOsVersion() is the order of the releases, and that is an order.
LEMMA BeforeIsOlder ==
  ASSUME NEW a \in Version7, NEW b \in Version7
  PROVE  Latest!Before(a, b) <=> Latest!Older(a, b)
<1> DEFINE x == Latest!Parts(a)
           y == Latest!Parts(b)
           At(i) == x[i] < y[i] /\ \A j \in 1..(i - 1) : x[j] = y[j]
<1>1. Latest!Before(a, b) <=> At(1) \/ At(2) \/ At(3) \/ At(4) \/ At(5)
  BY \A i : i \in 1..5 <=> i \in {1, 2, 3, 4, 5} DEF Latest!Before
<1>2. /\ x[1] = a.major /\ x[2] = a.minor /\ x[3] = a.patch /\ x[4] = Latest!Stage[a.stage] /\ x[5] = a.num
      /\ y[1] = b.major /\ y[2] = b.minor /\ y[3] = b.patch /\ y[4] = Latest!Stage[b.stage] /\ y[5] = b.num
  BY DEF Latest!Parts
<1> HIDE DEF x, y
<1>3. At(1) <=> x[1] < y[1]
  OBVIOUS
<1>4. At(2) <=> x[2] < y[2] /\ x[1] = y[1]
  BY \A i : i \in 1..(2 - 1) <=> i = 1
<1>5. At(3) <=> x[3] < y[3] /\ x[1] = y[1] /\ x[2] = y[2]
  BY \A i : i \in 1..(3 - 1) <=> i \in {1, 2}
<1>6. At(4) <=> x[4] < y[4] /\ x[1] = y[1] /\ x[2] = y[2] /\ x[3] = y[3]
  BY \A i : i \in 1..(4 - 1) <=> i \in {1, 2, 3}
<1>7. At(5) <=> x[5] < y[5] /\ x[1] = y[1] /\ x[2] = y[2] /\ x[3] = y[3] /\ x[4] = y[4]
  BY \A i : i \in 1..(5 - 1) <=> i \in {1, 2, 3, 4}
<1>8. Latest!Stage[a.stage] = Latest!Stage[b.stage] <=> a.stage = b.stage
  BY DEF Version7, Latest!Stage
<1> HIDE DEF At
<1>9. Latest!Before(a, b) <=>
        \/ x[1] < y[1] \/ (x[2] < y[2] /\ x[1] = y[1]) \/ (x[3] < y[3] /\ x[1] = y[1] /\ x[2] = y[2])
        \/ (x[4] < y[4] /\ x[1] = y[1] /\ x[2] = y[2] /\ x[3] = y[3])
        \/ (x[5] < y[5] /\ x[1] = y[1] /\ x[2] = y[2] /\ x[3] = y[3] /\ x[4] = y[4])
  BY <1>1, <1>3, <1>4, <1>5, <1>6, <1>7
<1>10. Latest!Older(a, b) <=>
        \/ x[1] < y[1] \/ (x[2] < y[2] /\ x[1] = y[1]) \/ (x[3] < y[3] /\ x[1] = y[1] /\ x[2] = y[2])
        \/ (x[4] < y[4] /\ x[1] = y[1] /\ x[2] = y[2] /\ x[3] = y[3])
        \/ (x[5] < y[5] /\ x[1] = y[1] /\ x[2] = y[2] /\ x[3] = y[3] /\ x[4] = y[4])
  BY <1>2, <1>8 DEF Latest!Older
<1> QED
  BY <1>9, <1>10

LEMMA OlderIsOrder ==
  ASSUME NEW a \in Version7, NEW b \in Version7
  PROVE  /\ ~ Latest!Older(a, a) /\ (Latest!Older(a, b) => ~ Latest!Older(b, a))
         /\ Latest!Older(a, b) => a.major <= b.major
<1>1. /\ a.major \in Nat /\ a.minor \in Nat /\ a.patch \in Nat /\ a.num \in Nat
      /\ b.major \in Nat /\ b.minor \in Nat /\ b.patch \in Nat /\ b.num \in Nat
  BY DEF Version7
<1>2. Latest!Stage[a.stage] \in Nat /\ Latest!Stage[b.stage] \in Nat
  BY DEF Version7, Latest!Stage
<1> QED
  BY <1>1, <1>2 DEF Latest!Older

LEMMA LineIs ==
  /\ MinRelease \in DOMAIN ReleaseLine /\ DOMAIN ReleaseLine \subseteq Nat
  /\ \A i \in DOMAIN ReleaseLine : ReleaseLine[i] \in Version7
  /\ \A i, j \in DOMAIN ReleaseLine : i < j => Latest!Older(ReleaseLine[i], ReleaseLine[j])
  /\ ReleaseLine[MinRelease].major > 6
  /\ AskTries \in Nat \ {0} /\ "stable" \in Finished /\ Finished \subseteq Channels
BY CreationAssumption DEF Latest!VersionsAssumption, Version7

\* Along the line, a version is before another where it stands before it.
LEMMA LineIsOrdered ==
  ASSUME NEW i \in DOMAIN ReleaseLine, NEW j \in DOMAIN ReleaseLine
  PROVE  Latest!Before(ReleaseLine[i], ReleaseLine[j]) <=> i < j
<1>1. PICK a \in Version7, b \in Version7 : a = ReleaseLine[i] /\ b = ReleaseLine[j]
  BY LineIs
<1>2. i \in Nat /\ j \in Nat
  BY LineIs
<1>3. (i < j => Latest!Older(a, b)) /\ (j < i => Latest!Older(b, a)) /\ (i = j => a = b)
  BY <1>1, LineIs
<1>4. i < j <=> Latest!Older(a, b)
  BY <1>2, <1>3, OlderIsOrder
<1> QED
  BY <1>1, <1>4, BeforeIsOlder

LEMMA Provisioned ==
  ASSUME NEW i \in DOMAIN ReleaseLine, i >= MinRelease
  PROVE  ReleaseLine[i].major > 6
<1>1. PICK a \in Version7, b \in Version7 : a = ReleaseLine[MinRelease] /\ b = ReleaseLine[i]
  BY LineIs
<1>2. i \in Nat /\ MinRelease \in Nat /\ a.major > 6 /\ a.major \in Nat /\ b.major \in Nat
  BY <1>1, LineIs DEF Version7
<1>3. a = b \/ Latest!Older(a, b)
  BY <1>1, <1>2, LineIs
<1> QED
  BY <1>1, <1>2, <1>3, OlderIsOrder

\* A proxy's refusal, with or without the second try by address, is not tried again.
LEMMA ScannedOne == ASSUME NEW n PROVE Latest!Scanned(<<n>>) = {1}
BY DEF Latest!Scanned

LEMMA RefusedAlone ==
  ASSUME NEW e \in Latest!Noes
  PROVE  Latest!isProxyRefusal(e)
<1>1. PICK n : e = <<n>> /\ n.status \in {0, 403, 407} /\ (n.tunnel \/ n.denied)
  BY DEF Latest!Noes, Latest!Tunnel, Latest!Denied, Latest!Node, Latest!NoStatus
<1>2. Latest!Scanned(e) = {1} /\ e[1] = n
  BY <1>1, ScannedOne
<1>3. Latest!proxyTunnelStatus(e) \in {0, 403, 407}
  <2> DEFINE with == {i \in Latest!Scanned(e) : e[i].tunnel /\ e[i].status # Latest!NoStatus}
  <2>1. with = {} \/ with = {1}
    BY <1>2
  <2>2. Latest!proxyTunnelStatus(e) =
          IF with = {} THEN Latest!NoStatus ELSE e[CHOOSE i \in with : \A j \in with : i <= j].status
    BY DEF Latest!proxyTunnelStatus
  <2> HIDE DEF with
  <2>3. with = {1} => (CHOOSE i \in with : \A j \in with : i <= j) = 1
    BY <2>1
  <2> QED
    BY <1>1, <1>2, <2>1, <2>2, <2>3 DEF Latest!NoStatus
<1> QED
  BY <1>1, <1>2, <1>3 DEF Latest!isProxyRefusal

LEMMA TwoJoined ==
  ASSUME NEW k, NEW m, NEW r, r = <<k>> \o <<m>>
  PROVE  DOMAIN r = 1..2 /\ r[1] = k /\ r[2] = m
<1> DEFINE S == {k, m}
<1>1. <<k>> \in Seq(S) /\ <<m>> \in Seq(S)
  OBVIOUS
<1>2. Len(<<k>>) = 1 /\ Len(<<m>>) = 1
  OBVIOUS
<1> HIDE DEF S
<1>3. Len(r) = 2 /\ r \in Seq(S)
  BY <1>1, <1>2
<1>4. r[1] = <<k>>[1] /\ r[2] = <<m>>[1]
  BY <1>1, <1>2
<1> QED
  BY <1>3, <1>4

LEMMA RefusedTwice ==
  ASSUME NEW e \in Latest!Noes
  PROVE  Latest!isProxyRefusal(Latest!ResilientFetchError(Latest!Refused, e))
<1>1. PICK n : e = <<n>> /\ (n.tunnel \/ n.denied)
  BY DEF Latest!Noes, Latest!Tunnel, Latest!Denied, Latest!Node
<1>0. PICK m : m = Latest!Node(FALSE, Latest!NoStatus, FALSE, TRUE)
  OBVIOUS
<1>k. PICK k : k = Latest!Node(m.tunnel \/ n.tunnel, Latest!NoStatus, m.denied \/ n.denied, TRUE)
  OBVIOUS
<1>2. Latest!Refused = <<m>> /\ m.status = 0
  BY <1>0 DEF Latest!Refused, Latest!Node, Latest!NoStatus
<1>3. Latest!ResilientFetchError(Latest!Refused, e) = <<k>> \o <<m>>
  <2>1. Latest!Refused[1] = m /\ e[1] = n
    BY <1>1, <1>2
  <2> QED
    BY <1>2, <1>k, <2>1 DEF Latest!ResilientFetchError
<1>4. PICK r : r = <<k>> \o <<m>>
  OBVIOUS
<1>5. k.status = 0 /\ (k.tunnel \/ k.denied)
  BY <1>1, <1>k DEF Latest!Node, Latest!NoStatus
<1>6. Latest!Scanned(r) = {1, 2} /\ r[1] = k /\ r[2] = m
  <2>1. DOMAIN r = 1..2 /\ r[1] = k /\ r[2] = m
    BY <1>4, TwoJoined
  <2> QED
    BY <2>1 DEF Latest!Scanned
<1>7. Latest!proxyTunnelStatus(r) = 0
  <2>1. {i \in Latest!Scanned(r) : r[i].tunnel /\ r[i].status # Latest!NoStatus} = {}
    BY <1>2, <1>5, <1>6 DEF Latest!NoStatus
  <2> QED
    BY <2>1 DEF Latest!proxyTunnelStatus, Latest!NoStatus
<1>8. \E i \in Latest!Scanned(r) : r[i].tunnel \/ r[i].denied
  BY <1>5, <1>6
<1>9. Latest!isProxyRefusal(r)
  BY <1>7, <1>8 DEF Latest!isProxyRefusal
<1> QED
  BY <1>3, <1>4, <1>9

\* What a refusal makes of the call, whether the first try or the second met it.
LEMMA RefusalEnds ==
  ASSUME NEW e \in Latest!FetchErrors, NEW second \in Latest!FetchErrors \cup {<<>>},
         e # Latest!Refused => second = <<>>,
         Latest!LastError(e, second) \in Latest!Noes,
         NEW ch \in Channels, Latest!Thrown(ch, Latest!FinalError(e, second))
  PROVE  v3' = [v3 EXCEPT ![ch] = "failed"]
<1>1. Latest!isProxyRefusal(Latest!FinalError(e, second))
  BY RefusedAlone, RefusedTwice DEF Latest!FinalError, Latest!LastError, Latest!Noes
<1> QED
  BY <1>1 DEF Latest!Thrown, Latest!End

\* A channel that is asked still, or comes to an end.
LEMMA ChannelGoes ==
  ASSUME Latest!IInv, NEW ch \in Channels, v3[ch] = "asking",
         v1' = v1, v2' = v2, v8' = v8,
         NEW what \in {"asking", "resolved", "failed"}, v3' = [v3 EXCEPT ![ch] = what],
         v4' \in [Channels -> Nat], v5' \in [Channels -> DOMAIN ReleaseLine \cup {0}],
         v7' \in [Channels -> BOOLEAN],
         \A c \in Channels : c # ch => v5'[c] = v5[c] /\ (v7'[c] <=> v7[c]),
         what = "resolved" => v5'[ch] \in DOMAIN ReleaseLine,
         v7'[ch] => what = "failed",
         \A c \in Channels : v6'[c] \in {"none", "http", "refused", "garbled", "lost", "other"}
  PROVE  Latest!IInv'
<1>1. Latest!TypeOK'
  BY DEF Latest!IInv, Latest!TypeOK
<1>2. v8 = {}
  BY DEF Latest!IInv
<1>3. v3'[ch] = what /\ \A c \in Channels : c # ch => v3'[c] = v3[c]
  BY DEF Latest!IInv, Latest!TypeOK
<1>4. \A c \in Channels : v3'[c] = "resolved" => v5'[c] \in DOMAIN ReleaseLine
  BY <1>3 DEF Latest!IInv
<1>5. \A c \in Channels : v7'[c] => v3'[c] = "failed"
  BY <1>3 DEF Latest!IInv
<1> QED
  BY <1>1, <1>2, <1>4, <1>5 DEF Latest!IInv

\* The result of one try is kept.
LEMMA ChannelEnds ==
  ASSUME Latest!IInv, NEW ch \in Channels,
         NEW what \in {"http", "refused", "garbled", "other"}, Latest!End(ch, what)
  PROVE  /\ v3' = [v3 EXCEPT ![ch] = "failed"] /\ v4' \in [Channels -> Nat]
         /\ \A c \in Channels : v6'[c] \in {"none", "http", "refused", "garbled", "lost", "other"}
<1>1. v6' = [v6 EXCEPT ![ch] = what] /\ v3' = [v3 EXCEPT ![ch] = "failed"] /\ v4' = v4
  BY DEF Latest!End
<1>2. \A c \in Channels : v6'[c] = v6[c] \/ v6'[c] = what
  BY <1>1
<1> QED
  BY <1>1, <1>2 DEF Latest!IInv, Latest!TypeOK

LEMMA ChannelTriesAgain ==
  ASSUME Latest!IInv, NEW ch \in Channels, Latest!Again(ch)
  PROVE  /\ \E what \in {"asking", "failed"} : v3' = [v3 EXCEPT ![ch] = what]
         /\ v4' \in [Channels -> Nat]
         /\ \A c \in Channels : v6'[c] \in {"none", "http", "refused", "garbled", "lost", "other"}
<1>1. PICK n, v : /\ n = IF v4[ch] < AskTries THEN v4[ch] + 1 ELSE v4[ch]
                  /\ v = IF v4[ch] < AskTries THEN v6[ch] ELSE "lost"
  OBVIOUS
<1>2. v4' = [v4 EXCEPT ![ch] = n] /\ v6' = [v6 EXCEPT ![ch] = v]
  BY <1>1 DEF Latest!Again
<1>3. n \in Nat /\ v \in {"none", "http", "refused", "garbled", "lost", "other"}
  BY <1>1 DEF Latest!IInv, Latest!TypeOK
<1>4. \A c \in Channels : v6'[c] = v6[c] \/ v6'[c] = v
  BY <1>2
<1>5. v4' \in [Channels -> Nat]
  BY <1>2, <1>3 DEF Latest!IInv, Latest!TypeOK
<1>6. PICK what : what = IF v4[ch] < AskTries THEN "asking" ELSE "failed"
  OBVIOUS
<1>7. what \in {"asking", "failed"} /\ v3' = [v3 EXCEPT ![ch] = what]
  BY <1>6 DEF Latest!Again
<1>8. \A c \in Channels : v6'[c] \in {"none", "http", "refused", "garbled", "lost", "other"}
  BY <1>3, <1>4 DEF Latest!IInv, Latest!TypeOK
<1> QED
  BY <1>5, <1>7, <1>8

LEMMA ChannelThrows == ASSUME Latest!IInv, NEW ch \in Channels, Latest!Throws(ch) PROVE Latest!IInv'
<1>1. PICK e \in Latest!FetchErrors, second \in Latest!FetchErrors \cup {<<>>} :
        /\ e # Latest!Refused => second = <<>>
        /\ Latest!Thrown(ch, Latest!FinalError(e, second))
        /\ v7' = [v7 EXCEPT ![ch] = @ \/ Latest!LastError(e, second) \in Latest!Noes]
  BY Zenon DEF Latest!Throws
<1>2. PICK no \in BOOLEAN : no <=> Latest!LastError(e, second) \in Latest!Noes
  OBVIOUS
<1>3. PICK final : final = Latest!FinalError(e, second)
  OBVIOUS
<1>4. Latest!Thrown(ch, final) /\ v7' = [v7 EXCEPT ![ch] = @ \/ no]
  BY <1>1, <1>2, <1>3
<1>5. no => v3' = [v3 EXCEPT ![ch] = "failed"]
  BY <1>1, <1>2, RefusalEnds
<1>6. v3[ch] = "asking" /\ UNCHANGED <<v1, v2, v5, v8>>
  BY DEF Latest!Throws
<1>7. \/ \E what \in {"http", "refused", "garbled", "other"} : Latest!End(ch, what)
      \/ Latest!Again(ch)
  BY <1>4 DEF Latest!Thrown
<1>8. /\ v4' \in [Channels -> Nat]
      /\ \A c \in Channels : v6'[c] \in {"none", "http", "refused", "garbled", "lost", "other"}
      /\ \E what \in {"asking", "failed"} : v3' = [v3 EXCEPT ![ch] = what]
  BY <1>7, ChannelEnds, ChannelTriesAgain
<1>9. PICK what \in {"asking", "failed"} : v3' = [v3 EXCEPT ![ch] = what]
  BY <1>8
<1>10. v7' \in [Channels -> BOOLEAN] /\ \A c \in Channels : c # ch => (v7'[c] <=> v7[c])
  BY <1>4 DEF Latest!IInv, Latest!TypeOK
<1>11. v7'[ch] => what = "failed"
  <2>1. ~ v7[ch]
    BY <1>6 DEF Latest!IInv
  <2>2. v7'[ch] => no
    BY <1>4, <2>1 DEF Latest!IInv, Latest!TypeOK
  <2>3. no => what = "failed"
    BY <1>5, <1>9 DEF Latest!IInv, Latest!TypeOK
  <2> QED
    BY <2>2, <2>3
<1>12. v5' \in [Channels -> DOMAIN ReleaseLine \cup {0}]
  BY <1>6 DEF Latest!IInv, Latest!TypeOK
<1> QED
  BY <1>6, <1>8, <1>9, <1>10, <1>11, <1>12, ChannelGoes

LEMMA ChannelsStart == ASSUME Latest!Init PROVE Latest!IInv
BY LineIs DEF Latest!Init, Latest!IInv, Latest!TypeOK

LEMMA ChannelReleases == ASSUME Latest!IInv, NEW ch \in Channels, Latest!Release(ch) PROVE Latest!IInv'
<1>1. PICK i \in DOMAIN ReleaseLine : v1' = [v1 EXCEPT ![ch] = i]
  BY DEF Latest!Release, Latest!Of
<1>2. UNCHANGED <<v3, v4, v5, v6, v7, v8>>
  BY DEF Latest!Release
<1>3. Latest!TypeOK'
  BY <1>1, <1>2 DEF Latest!IInv, Latest!TypeOK
<1> QED
  BY <1>2, <1>3 DEF Latest!IInv, Latest!AheadOfStable, Latest!Before, Latest!Parts

LEMMA ChannelAnswers ==
  ASSUME Latest!IInv, NEW ch \in Channels, Latest!Status(ch) \/ Latest!BodyLost(ch) \/ Latest!Body(ch)
  PROVE  Latest!IInv'
<1>1. v3[ch] = "asking" /\ UNCHANGED <<v1, v2, v8>>
  BY DEF Latest!Status, Latest!BodyLost, Latest!Body
<1>2. CASE \/ \E what \in {"http", "garbled"} : Latest!End(ch, what) /\ v7' = [v7 EXCEPT ![ch] = TRUE] /\ v5' = v5
  <2>1. /\ v3' = [v3 EXCEPT ![ch] = "failed"] /\ v4' \in [Channels -> Nat]
        /\ \A c \in Channels : v6'[c] \in {"none", "http", "refused", "garbled", "lost", "other"}
    BY <1>2, ChannelEnds
  <2>2. /\ v7' \in [Channels -> BOOLEAN] /\ \A c \in Channels : c # ch => (v7'[c] <=> v7[c])
        /\ v5' \in [Channels -> DOMAIN ReleaseLine \cup {0}] /\ \A c \in Channels : v5'[c] = v5[c]
    BY <1>2 DEF Latest!IInv, Latest!TypeOK
  <2> QED
    BY <1>1, <2>1, <2>2, ChannelGoes
<1>3. CASE Latest!Again(ch) /\ v7' = v7 /\ v5' = v5
  <2>1. PICK what \in {"asking", "failed"} : v3' = [v3 EXCEPT ![ch] = what]
    BY <1>3, ChannelTriesAgain
  <2>2. /\ v4' \in [Channels -> Nat]
        /\ \A c \in Channels : v6'[c] \in {"none", "http", "refused", "garbled", "lost", "other"}
    BY <1>3, ChannelTriesAgain
  <2>3. /\ v7' \in [Channels -> BOOLEAN] /\ v5' \in [Channels -> DOMAIN ReleaseLine \cup {0}]
        /\ \A c \in Channels : v5'[c] = v5[c] /\ (v7'[c] <=> v7[c])
    BY <1>3 DEF Latest!IInv, Latest!TypeOK
  <2>4. ~ v7'[ch]
    BY <1>1, <1>3 DEF Latest!IInv
  <2> QED
    BY <1>1, <2>1, <2>2, <2>3, <2>4, ChannelGoes
<1>4. CASE /\ v3' = [v3 EXCEPT ![ch] = "resolved"] /\ v5' = [v5 EXCEPT ![ch] = v1[ch]]
           /\ UNCHANGED <<v4, v6, v7>>
  <2>1. v1[ch] \in DOMAIN ReleaseLine
    BY DEF Latest!IInv, Latest!TypeOK
  <2>2. /\ v5' \in [Channels -> DOMAIN ReleaseLine \cup {0}] /\ v5'[ch] \in DOMAIN ReleaseLine
        /\ \A c \in Channels : c # ch => v5'[c] = v5[c]
    BY <1>4, <2>1 DEF Latest!IInv, Latest!TypeOK
  <2>3. /\ v7' \in [Channels -> BOOLEAN] /\ v4' \in [Channels -> Nat] /\ ~ v7'[ch]
        /\ \A c \in Channels : v7'[c] <=> v7[c]
        /\ \A c \in Channels : v6'[c] \in {"none", "http", "refused", "garbled", "lost", "other"}
    BY <1>1, <1>4 DEF Latest!IInv, Latest!TypeOK
  <2> QED
    BY <1>1, <1>4, <2>2, <2>3, ChannelGoes
<1> QED
  BY <1>2, <1>3, <1>4 DEF Latest!Status, Latest!BodyLost, Latest!Body

LEMMA ChannelsSelected == ASSUME Latest!IInv, Latest!Select PROVE Latest!IInv'
<1>1. UNCHANGED <<v1, v2, v3, v4, v5, v6, v7>> /\ \A ch \in Channels : v3[ch] = "resolved"
  BY DEF Latest!Select
<1>2. Latest!TypeOK'
  BY <1>1 DEF Latest!IInv, Latest!TypeOK
<1>3. v8' = {ch \in Channels : ch \in Finished \/ Latest!AheadOfStable(ch)}
  BY DEF Latest!Select
<1>4. \A ch \in Channels : Latest!AheadOfStable(ch)' <=> Latest!AheadOfStable(ch)
  BY <1>1 DEF Latest!AheadOfStable, Latest!Before, Latest!Parts
<1> QED
  BY <1>1, <1>2, <1>3, <1>4 DEF Latest!IInv

LEMMA ChannelsGoOn == ASSUME Latest!IInv, [Latest!Next]_(Latest!vars) PROVE Latest!IInv'
<1>1. CASE UNCHANGED Latest!vars
  BY <1>1 DEF Latest!vars, Latest!IInv, Latest!TypeOK, Latest!AheadOfStable, Latest!Before, Latest!Parts
<1>2. CASE Latest!Next
  BY <1>2, ChannelReleases, ChannelThrows, ChannelAnswers, ChannelsSelected DEF Latest!Next
<1> QED
  BY <1>1, <1>2

LEMMA ChannelsJudged == ASSUME Latest!IInv PROVE Latest!FollowsTheLine /\ Latest!NoIsNo
<1>1. Latest!NoIsNo
  BY DEF Latest!IInv, Latest!NoIsNo
<1>2. ASSUME v8 # {}, NEW ch \in Channels
      PROVE  ch \in v8 <=> (ch \in Finished \/ v5[ch] >= v5["stable"])
  <2>1. PICK i, j : i = v5[ch] /\ j = v5["stable"]
    OBVIOUS
  <2>2. i \in DOMAIN ReleaseLine /\ j \in DOMAIN ReleaseLine
    BY <1>2, <2>1, LineIs DEF Latest!IInv
  <2>3. Latest!Before(ReleaseLine[i], ReleaseLine[j]) <=> i < j
    BY <2>2, LineIsOrdered
  <2>4. Latest!AheadOfStable(ch) <=> ~ i < j
    BY <2>1, <2>3 DEF Latest!AheadOfStable
  <2>5. i \in Nat /\ j \in Nat
    BY <2>2, LineIs
  <2>6. ch \in v8 <=> (ch \in Finished \/ Latest!AheadOfStable(ch))
    BY <1>2 DEF Latest!IInv
  <2> QED
    BY <2>1, <2>4, <2>5, <2>6
<1>3. ASSUME NEW ch \in Channels, NEW arch \in {"x86", "arm64"}, v3[ch] = "resolved"
      PROVE  LET may == Latest!Allowed(ReleaseLine[v5[ch]], arch)
             IN  /\ "provision" \in may <=> v5[ch] >= MinRelease
                 /\ "provision" \in may => {"boot", "rest"} \subseteq may
                 /\ may = {} => arch # "x86"
  <2>1. PICK i, v : i = v5[ch] /\ v = ReleaseLine[i]
    OBVIOUS
  <2>2. i \in DOMAIN ReleaseLine /\ i \in Nat /\ MinRelease \in Nat
    BY <1>3, <2>1, LineIs DEF Latest!IInv
  <2>3. Latest!isProvisioningSupportedVersion(v) <=> ~ i < MinRelease
    BY <2>1, <2>2, LineIs, LineIsOrdered DEF Latest!isProvisioningSupportedVersion
  <2>4. ~ i < MinRelease => v.major # 6
    BY <2>1, <2>2, Provisioned, LineIs DEF Version7
  <2>5. PICK may : may = Latest!Allowed(v, arch)
    OBVIOUS
  <2>6. \A o : o \in may <=> /\ o \in {"boot", "rest", "provision"}
                             /\ v.major = 6 => o = "boot" /\ arch = "x86"
                             /\ o = "provision" => ~ i < MinRelease
    BY <2>3, <2>5 DEF Latest!Allowed, Latest!isRouterOs6
  <2>7. /\ "provision" \in may <=> i >= MinRelease
        /\ "provision" \in may => {"boot", "rest"} \subseteq may
        /\ may = {} => arch # "x86"
    BY <2>2, <2>4, <2>6
  <2> QED
    BY <2>1, <2>5, <2>7
<1>4. Latest!FollowsTheLine
  BY <1>2, <1>3 DEF Latest!FollowsTheLine
<1> QED
  BY <1>1, <1>4

----------------------------------------------------------------------------
(* The forwards.  A forward stands for the pairs of ports that it asks     *)
(* for, one mapping each, and no two of its mappings share a label.        *)

\* The greatest of the positions of a sequence that have something in common.
LEMMA Greatest ==
  ASSUME NEW n \in Nat, NEW T \in SUBSET (1..n), T # {}
  PROVE  Fwd!Max(T) \in T
<1> DEFINE D == {n - i : i \in T}
<1>1. D \subseteq Nat /\ D # {}
  <2>1. \A i \in T : n - i \in Nat
    OBVIOUS
  <2> QED
    BY <2>1
<1>2. PICK d \in D : \A e \in D : d <= e
  BY <1>1, Least
<1>3. PICK m \in T : d = n - m
  OBVIOUS
<1>4. \A i \in T : m >= i
  <2> TAKE i \in T
  <2>1. n - m <= n - i
    BY <1>2, <1>3
  <2> QED
    BY <2>1
<1> QED
  BY <1>3, <1>4 DEF Fwd!Max

\* The guest port of a single forward.
GuestOf(f) == IF f.guest.kind = "one" THEN f.guest.lo ELSE WellKnown[f.name].guest

LEMMA AskedTyped ==
  ASSUME NEW f \in ForwardsAsked
  PROVE  /\ f.host \in Fwd!Segments /\ f.guest \in Fwd!Segments
         /\ f.name \in Seq(Fwd!ToSet(f.name))
BY CreationAssumption DEF Fwd!ForwardsAssumption

LEMMA SingleMeans ==
  ASSUME NEW f \in ForwardsAsked, ~Fwd!IsRange(f)
  PROVE  /\ Fwd!Labels(f) = {f.name}
         /\ Fwd!Wanted(f) = {<<f.host.lo, GuestOf(f)>>}
         /\ Fwd!Mappings(f) = {Fwd!Mapping(f.name, f.host.lo, GuestOf(f), Fwd!ProtoOf(f))}
         /\ Fwd!expandForwardSpec(f) \in Seq(Fwd!Mappings(f))
<1> DEFINE m == Fwd!Mapping(f.name, f.host.lo, GuestOf(f), Fwd!ProtoOf(f))
<1>1. Fwd!expandForwardSpec(f) = <<m>>
  BY DEF Fwd!expandForwardSpec, Fwd!parseForwardSpec, GuestOf
<1>2. Fwd!Mappings(f) = {m}
  BY <1>1 DEF Fwd!Mappings, Fwd!ToSet
<1> QED
  BY <1>1, <1>2 DEF Fwd!Labels, Fwd!Wanted, GuestOf

\* What a range stands for, position by position.
RangeMapping(f, d) ==
  Fwd!Mapping(Append(f.name, f.host.lo + d), f.host.lo + d, Fwd!GuestRange(f).lo + d,
              Fwd!ProtoOf(f))

LEMMA RangeMeans ==
  ASSUME NEW f \in ForwardsAsked, Fwd!IsRange(f), Fwd!Accepted(f)
  PROVE  /\ f.host.lo \in Nat \ {0} /\ f.host.hi \in Nat /\ Fwd!GuestRange(f).lo \in Nat
         /\ f.host.lo <= f.host.hi
         /\ Fwd!Mappings(f) = {RangeMapping(f, d) : d \in 0..(f.host.hi - f.host.lo)}
         /\ Fwd!expandForwardSpec(f) \in Seq(Fwd!Mappings(f))
<1> DEFINE g == Fwd!GuestRange(f)
           n == f.host.hi - f.host.lo + 1
           x == Fwd!expandForwardSpec(f)
<1>1. /\ f.host.lo \in Nat /\ f.host.hi \in Nat /\ f.host.lo >= 1 /\ f.host.lo <= f.host.hi
      /\ f.host.kind = "span"
  BY AskedTyped DEF Fwd!Accepted, Fwd!RangeAccepted, Fwd!PortsValid, Fwd!Segments
<1>2. g.lo \in Nat
  BY AskedTyped DEF Fwd!GuestRange, Fwd!Segments
<1>3. n \in Nat
  BY <1>1
<1>4. x = [i \in 1..n |->
             Fwd!Mapping(Append(f.name, f.host.lo + i - 1), f.host.lo + i - 1, g.lo + i - 1,
                         Fwd!ProtoOf(f))]
  BY DEF Fwd!expandForwardSpec, Fwd!Length
<1> HIDE DEF x, g
<1>5. \A i \in 1..n : x[i] = RangeMapping(f, i - 1)
  <2> TAKE i \in 1..n
  <2>1. f.host.lo + i - 1 = f.host.lo + (i - 1) /\ g.lo + i - 1 = g.lo + (i - 1)
    BY <1>1, <1>2, <1>3
  <2> QED
    BY <1>4, <2>1 DEF RangeMapping, g
<1>6. Fwd!Mappings(f) = {x[i] : i \in 1..n}
  BY <1>4 DEF Fwd!Mappings, Fwd!ToSet, x
<1>7. \A d \in 0..(f.host.hi - f.host.lo) : d + 1 \in 1..n /\ (d + 1) - 1 = d
  BY <1>1
<1>8. \A i \in 1..n : i - 1 \in 0..(f.host.hi - f.host.lo)
  BY <1>1
<1>9. Fwd!Mappings(f) = {RangeMapping(f, d) : d \in 0..(f.host.hi - f.host.lo)}
  <2>1. ASSUME NEW m \in Fwd!Mappings(f)
        PROVE  m \in {RangeMapping(f, d) : d \in 0..(f.host.hi - f.host.lo)}
    BY <1>5, <1>6, <1>8, <2>1
  <2>2. ASSUME NEW d \in 0..(f.host.hi - f.host.lo)
        PROVE  RangeMapping(f, d) \in Fwd!Mappings(f)
    <3>1. x[d + 1] = RangeMapping(f, d)
      BY <1>5, <1>7
    <3> QED
      BY <1>6, <1>7, <3>1
  <2> QED
    BY <2>1, <2>2
<1>10. x \in [1..n -> Fwd!Mappings(f)]
  BY <1>4, <1>6
<1>11. x \in Seq(Fwd!Mappings(f))
  BY <1>3, <1>10, SeqDef
<1> QED
  BY <1>1, <1>2, <1>9, <1>11 DEF x, g

\* The labels of a range differ.
LEMMA LabelsDiffer ==
  ASSUME NEW f \in ForwardsAsked, NEW p \in Nat, NEW q \in Nat,
         Append(f.name, p) = Append(f.name, q)
  PROVE  p = q
<1> DEFINE S == Fwd!ToSet(f.name) \union Nat
<1>1. f.name \in Seq(S)
  BY AskedTyped, SeqMonotonic
<1> QED
  BY <1>1, AppendProperties

\* A mapping of a forward has one of its labels, and is one of the pairs asked for.
LEMMA MappingsAreAsked ==
  ASSUME NEW f \in ForwardsAsked, Fwd!Accepted(f), NEW m \in Fwd!Mappings(f)
  PROVE  /\ m = Fwd!Mapping(m.name, m.host, m.guest, m.proto)
         /\ m.name \in Fwd!Labels(f) /\ m.name # <<>>
         /\ <<m.host, m.guest>> \in Fwd!Wanted(f)
         /\ m.host = 0 => m.name = f.name /\ f.host.lo = 0
<1>1. CASE ~Fwd!IsRange(f)
  BY <1>1, SingleMeans DEF Fwd!Mapping, Fwd!Accepted
<1>2. CASE Fwd!IsRange(f)
  <2>1. PICK d \in 0..(f.host.hi - f.host.lo) : m = RangeMapping(f, d)
    BY <1>2, RangeMeans
  <2>2. /\ m = Fwd!Mapping(m.name, m.host, m.guest, m.proto)
        /\ m.name = Append(f.name, f.host.lo + d) /\ m.host = f.host.lo + d
        /\ m.guest = Fwd!GuestRange(f).lo + d
    BY <2>1 DEF RangeMapping, Fwd!Mapping
  <2>3. f.host.lo + d \in f.host.lo..f.host.hi /\ f.host.lo + d # 0
    BY <1>2, RangeMeans
  <2>4. m.name # <<>>
    <3> DEFINE S == Fwd!ToSet(f.name) \union Nat
    <3>1. f.name \in Seq(S) /\ f.host.lo + d \in S
      BY <1>2, AskedTyped, SeqMonotonic, RangeMeans
    <3> QED
      BY <2>2, <3>1, AppendProperties
  <2> QED
    BY <1>2, <2>2, <2>3, <2>4 DEF Fwd!Labels, Fwd!Wanted
<1> QED
  BY <1>1, <1>2

\* And every pair that is asked for is a mapping of it, whose label no other mapping has.
LEMMA AskedAreMapped ==
  ASSUME NEW f \in ForwardsAsked, Fwd!Accepted(f), NEW w \in Fwd!Wanted(f)
  PROVE  \E m \in Fwd!Mappings(f) :
           /\ m.host = w[1] /\ m.guest = w[2]
           /\ \A o \in Fwd!Mappings(f) : o.name = m.name => o = m
<1>1. CASE ~Fwd!IsRange(f)
  <2> DEFINE m == Fwd!Mapping(f.name, f.host.lo, GuestOf(f), Fwd!ProtoOf(f))
  <2>1. Fwd!Mappings(f) = {m} /\ w = <<f.host.lo, GuestOf(f)>>
    BY <1>1, SingleMeans
  <2>2. m.host = w[1] /\ m.guest = w[2]
    BY <2>1 DEF Fwd!Mapping
  <2> QED
    BY <2>1, <2>2
<1>2. CASE Fwd!IsRange(f)
  <2>1. PICK d \in 0..(f.host.hi - f.host.lo) :
          w = <<f.host.lo + d, Fwd!GuestRange(f).lo + d>>
    BY <1>2 DEF Fwd!Wanted
  <2> DEFINE m == RangeMapping(f, d)
  <2>2. m \in Fwd!Mappings(f)
    BY <1>2, RangeMeans
  <2>3. ASSUME NEW o \in Fwd!Mappings(f), o.name = m.name PROVE o = m
    <3>1. PICK e \in 0..(f.host.hi - f.host.lo) : o = RangeMapping(f, e)
      BY <1>2, RangeMeans
    <3>2. Append(f.name, f.host.lo + e) = Append(f.name, f.host.lo + d)
      BY <2>3, <3>1 DEF RangeMapping, Fwd!Mapping
    <3>3. f.host.lo + e \in Nat /\ f.host.lo + d \in Nat
      BY <1>2, RangeMeans
    <3>4. f.host.lo + e = f.host.lo + d
      BY <3>2, <3>3, LabelsDiffer
    <3>5. e = d
      BY <1>2, <3>4, RangeMeans
    <3> QED
      BY <3>1, <3>5
  <2>4. m.host = w[1] /\ m.guest = w[2]
    BY <2>1 DEF RangeMapping, Fwd!Mapping
  <2> QED
    BY <2>2, <2>3, <2>4
<1> QED
  BY <1>1, <1>2

----------------------------------------------------------------------------
(* The map of a machine *)

LEMMA ExtrasOfForwards ==
  ASSUME Fwd!ExtrasInv
  PROVE  /\ \A n \in DOMAIN v1 : v1[n] \in ForwardsAsked /\ Fwd!Accepted(v1[n])
         /\ \A i \in DOMAIN v2 : \E n \in DOMAIN v1 : v2[i] \in Fwd!Mappings(v1[n])
         /\ \A n \in DOMAIN v1 : \A m \in Fwd!Mappings(v1[n]) : \E i \in DOMAIN v2 : v2[i] = m
         /\ \A i \in DOMAIN v2 : Fwd!Label(v2, i) = v2[i].name
<1>1. \A n \in DOMAIN v1 : v1[n] \in ForwardsAsked /\ Fwd!Accepted(v1[n])
  <2>1. v1 \in Seq({f \in ForwardsAsked : Fwd!Accepted(f)})
    BY DEF Fwd!ExtrasInv
  <2>2. \A n \in DOMAIN v1 : v1[n] \in {f \in ForwardsAsked : Fwd!Accepted(f)}
    BY <2>1, LenProperties
  <2> QED
    BY <2>2
<1>2. \A i \in DOMAIN v2 : \E n \in DOMAIN v1 : v2[i] \in Fwd!Mappings(v1[n])
  BY DEF Fwd!ExtrasInv, Fwd!ToSet
<1>3. \A n \in DOMAIN v1 : \A m \in Fwd!Mappings(v1[n]) : \E i \in DOMAIN v2 : v2[i] = m
  <2> SUFFICES ASSUME NEW n \in DOMAIN v1, NEW m \in Fwd!Mappings(v1[n])
               PROVE  \E i \in DOMAIN v2 : v2[i] = m
    OBVIOUS
  <2>1. m \in Fwd!ToSet(v2)
    BY DEF Fwd!ExtrasInv
  <2> QED
    BY <2>1 DEF Fwd!ToSet
<1>4. \A i \in DOMAIN v2 : Fwd!Label(v2, i) = v2[i].name
  <2> TAKE i \in DOMAIN v2
  <2>1. PICK n \in DOMAIN v1 : v2[i] \in Fwd!Mappings(v1[n])
    BY <1>2
  <2>2. v2[i].name # <<>>
    BY <1>1, <2>1, MappingsAreAsked
  <2> QED
    BY <2>2 DEF Fwd!Label
<1> QED
  BY <1>1, <1>2, <1>3, <1>4

\* What a label of the map stands for: the last extra of that label, or a service.
FromExtra(ports, base, l, i) ==
  /\ v2[i].name = l
  /\ ports[l].host = Fwd!HostOf(v2, i, base) /\ ports[l].guest = v2[i].guest

FromService(ports, base, excluded, l) ==
  /\ l \in DOMAIN Services \ excluded
  /\ ports[l].host = base + Services[l].offset

LEMMA MapMeans ==
  ASSUME Fwd!ExtrasInv, NEW base, NEW excluded,
         NEW ports, ports = Fwd!buildPortMappings(base, excluded, v2)
  PROVE  /\ \A i \in DOMAIN v2 :
              /\ v2[i].name \in DOMAIN ports
              /\ \E j \in DOMAIN v2 : FromExtra(ports, base, v2[i].name, j)
         /\ \A l \in DOMAIN ports :
              \/ \E i \in DOMAIN v2 : FromExtra(ports, base, l, i)
              \/ FromService(ports, base, excluded, l)
<1> DEFINE kept == DOMAIN Services \ excluded
           named(l) == {i \in DOMAIN v2 : Fwd!Label(v2, i) = l}
           D == kept \union {Fwd!Label(v2, i) : i \in DOMAIN v2}
<1>1. ports = [l \in D |->
         IF named(l) = {} THEN Fwd!Mapping(l, base + Services[l].offset, Services[l].guest, "tcp")
         ELSE LET i == Fwd!Max(named(l))
              IN  [v2[i] EXCEPT !.name = l, !.host = Fwd!HostOf(v2, i, base)]]
  BY DEF Fwd!buildPortMappings
<1>2. DOMAIN ports = D
  BY <1>1
<1>3. ASSUME NEW l \in D, named(l) # {}
      PROVE  \E j \in DOMAIN v2 : FromExtra(ports, base, l, j)
  <2> DEFINE j == Fwd!Max(named(l))
  <2>1. v2 \in Seq(Fwd!ToSet(v2))
    BY DEF Fwd!ExtrasInv
  <2>2. Len(v2) \in Nat /\ named(l) \in SUBSET (1..Len(v2))
    BY <2>1, LenProperties
  <2>3. j \in named(l)
    BY <1>3, <2>2, Greatest
  <2>4. ports[l] = [v2[j] EXCEPT !.name = l, !.host = Fwd!HostOf(v2, j, base)]
    BY <1>1, <1>3
  <2>5. PICK n \in DOMAIN v1 : v2[j] \in Fwd!Mappings(v1[n])
    BY <2>3, ExtrasOfForwards
  <2>6. v2[j] = Fwd!Mapping(v2[j].name, v2[j].host, v2[j].guest, v2[j].proto)
    BY <2>5, ExtrasOfForwards, MappingsAreAsked
  <2>7. j \in DOMAIN v2 /\ v2[j].name = l
    BY <2>3, ExtrasOfForwards
  <2> HIDE DEF j
  <2>8. ports[l].host = Fwd!HostOf(v2, j, base) /\ ports[l].guest = v2[j].guest
    BY <2>4, <2>6 DEF Fwd!Mapping
  <2> QED
    BY <2>7, <2>8 DEF FromExtra
<1>4. ASSUME NEW i \in DOMAIN v2
      PROVE  v2[i].name \in D /\ named(v2[i].name) # {}
  BY ExtrasOfForwards
<1>5. ASSUME NEW l \in D, named(l) = {}
      PROVE  FromService(ports, base, excluded, l)
  <2>1. l \in kept
    BY <1>5
  <2>2. ports[l] = Fwd!Mapping(l, base + Services[l].offset, Services[l].guest, "tcp")
    BY <1>1, <1>5
  <2> QED
    BY <2>1, <2>2 DEF FromService, Fwd!Mapping
<1> HIDE DEF D, named
<1> QED
  BY <1>2, <1>3, <1>4, <1>5

\* A host port that was asked for is a given port of an extra.
LEMMA GivenIsExplicit ==
  ASSUME Fwd!ExtrasInv, NEW h \in Fwd!Given(v1)
  PROVE  \E i \in Fwd!Explicit(v2) : v2[i].host = h
<1>1. PICK n \in DOMAIN v1 : \E w \in Fwd!Wanted(v1[n]) : w[1] = h
  BY DEF Fwd!Given
<1>2. h # 0
  BY DEF Fwd!Given
<1>3. PICK m \in Fwd!Mappings(v1[n]) : m.host = h
  BY <1>1, ExtrasOfForwards, AskedAreMapped
<1>4. PICK i \in DOMAIN v2 : v2[i] = m
  BY <1>3, ExtrasOfForwards
<1> QED
  BY <1>2, <1>3, <1>4 DEF Fwd!Explicit

LEMMA MapKeepsForwards ==
  ASSUME Fwd!ExtrasInv, NEW base, NEW excluded,
         NEW ports, ports = Fwd!buildPortMappings(base, excluded, v2)
  PROVE  Fwd!KeepsForwards(v1, ports)
<1> SUFFICES ASSUME NEW n \in DOMAIN v1,
                    \A o \in DOMAIN v1 \ {n} : Fwd!Labels(v1[o]) \cap Fwd!Labels(v1[n]) = {},
                    NEW w \in Fwd!Wanted(v1[n])
             PROVE  \E l \in DOMAIN ports :
                      ports[l].guest = w[2] /\ (w[1] # 0 => ports[l].host = w[1])
  BY DEF Fwd!KeepsForwards
<1>1. PICK m \in Fwd!Mappings(v1[n]) :
        /\ m.host = w[1] /\ m.guest = w[2]
        /\ \A o \in Fwd!Mappings(v1[n]) : o.name = m.name => o = m
  BY ExtrasOfForwards, AskedAreMapped
<1>2. PICK i \in DOMAIN v2 : v2[i] = m
  BY <1>1, ExtrasOfForwards
<1>3. PICK j \in DOMAIN v2 : FromExtra(ports, base, m.name, j)
  BY <1>2, MapMeans
<1>4. PICK o \in DOMAIN v1 : v2[j] \in Fwd!Mappings(v1[o])
  BY ExtrasOfForwards
<1>5. v2[j].name = m.name /\ m.name \in Fwd!Labels(v1[o]) /\ m.name \in Fwd!Labels(v1[n])
  BY <1>1, <1>3, <1>4, ExtrasOfForwards, MappingsAreAsked DEF FromExtra
<1>6. o = n
  BY <1>5
<1>7. v2[j] = m
  BY <1>1, <1>4, <1>5, <1>6
<1>8. ports[m.name].guest = w[2] /\ (w[1] # 0 => ports[m.name].host = w[1])
  BY <1>1, <1>3, <1>7 DEF FromExtra, Fwd!HostOf
<1> QED
  BY <1>2, <1>8, MapMeans

LEMMA MapHoldsOnce ==
  ASSUME Fwd!ExtrasInv, NEW base, NEW excluded,
         Fwd!validateExplicitExtraPorts(v2, base, excluded),
         NEW ports, ports = Fwd!buildPortMappings(base, excluded, v2)
  PROVE  Fwd!HeldOnce(v1, ports)
<1> SUFFICES ASSUME NEW l \in DOMAIN ports, NEW o \in DOMAIN ports,
                    ports[l].host \in Fwd!Given(v1), ports[o].host = ports[l].host
             PROVE  o = l \/ {l, o} \cap Fwd!Automatic(v1) # {}
  BY DEF Fwd!HeldOnce
<1>1. PICK e \in Fwd!Explicit(v2) : v2[e].host = ports[l].host
  BY GivenIsExplicit
<1>2. \A k \in {l, o} : ~FromService(ports, base, excluded, k)
  BY <1>1 DEF FromService, Fwd!validateExplicitExtraPorts
<1>3. PICK i \in DOMAIN v2 : FromExtra(ports, base, l, i)
  BY <1>2, MapMeans
<1>4. PICK j \in DOMAIN v2 : FromExtra(ports, base, o, j)
  BY <1>2, MapMeans
<1>5. ASSUME NEW k \in DOMAIN v2, v2[k].host = 0
      PROVE  v2[k].name \in Fwd!Automatic(v1)
  <2>1. PICK n \in DOMAIN v1 : v2[k] \in Fwd!Mappings(v1[n])
    BY ExtrasOfForwards
  <2>2. v2[k].name = v1[n].name /\ v1[n].host.lo = 0
    BY <1>5, <2>1, ExtrasOfForwards, MappingsAreAsked
  <2> QED
    BY <2>2 DEF Fwd!Automatic
<1>6. CASE v2[i].host = 0
  BY <1>3, <1>5, <1>6 DEF FromExtra
<1>7. CASE v2[j].host = 0
  BY <1>4, <1>5, <1>7 DEF FromExtra
<1>8. CASE v2[i].host # 0 /\ v2[j].host # 0
  <2>1. i \in Fwd!Explicit(v2) /\ j \in Fwd!Explicit(v2)
    BY <1>8 DEF Fwd!Explicit
  <2>2. v2[i].host = v2[j].host
    BY <1>3, <1>4, <1>8 DEF FromExtra, Fwd!HostOf
  <2>3. i = j
    BY <2>1, <2>2 DEF Fwd!validateExplicitExtraPorts
  <2> QED
    BY <1>3, <1>4, <2>3 DEF FromExtra
<1> QED
  BY <1>6, <1>7, <1>8

LEMMA MapIsNew ==
  ASSUME Fwd!ExtrasInv, NEW base, NEW excluded,
         Fwd!validateExplicitExtraPorts(v2, base, excluded)
  PROVE  Fwd!Given(v1) \cap Fwd!PortsOfAll(v3) = {}
<1> SUFFICES ASSUME NEW h \in Fwd!Given(v1) PROVE h \notin Fwd!PortsOfAll(v3)
  OBVIOUS
<1>1. PICK i \in Fwd!Explicit(v2) : v2[i].host = h
  BY GivenIsExplicit
<1> QED
  BY <1>1 DEF Fwd!validateExplicitExtraPorts

----------------------------------------------------------------------------
(* The machines *)

LEMMA OwnSeq == ASSUME NEW S, NEW s \in Seq(S) PROVE s \in Seq(Fwd!ToSet(s))
<1>1. PICK n \in Nat : s \in [1..n -> S]
  BY SeqDef
<1>2. s \in [1..n -> Fwd!ToSet(s)]
  BY <1>1 DEF Fwd!ToSet
<1> QED
  BY <1>2, SeqDef

\* The ports of the machines made before the one at k.
LEMMA EarlierPorts ==
  ASSUME NEW S, NEW ms \in Seq(S), NEW k \in 1..Len(ms)
  PROVE  Fwd!PortsOfAll(SubSeq(ms, 1, k - 1))
           = UNION {Fwd!HostPorts(ms[j].ports) : j \in 1..(k - 1)}
<1> DEFINE s == SubSeq(ms, 1, k - 1)
<1>1. Len(ms) \in Nat /\ 1 \in Int /\ k - 1 \in Int /\ k - 1 <= Len(ms) /\ k - 1 >= 0
  BY LenProperties
<1>2. \A i \in 1..(k - 1) : ms[i] \in S
  BY <1>1, ElementOfSeq
<1>3. /\ s \in Seq(S)
      /\ Len(s) = IF 1 <= k - 1 THEN k - 1 - 1 + 1 ELSE 0
      /\ \A i \in 1..(k - 1 - 1 + 1) : s[i] = ms[1 + i - 1]
  BY <1>1, <1>2, SubSeqProperties
<1>4. k - 1 - 1 + 1 = k - 1 /\ Len(s) = k - 1 /\ \A i \in 1..(k - 1) : 1 + i - 1 = i
  BY <1>1, <1>3
<1>5. DOMAIN s = 1..(k - 1) /\ \A i \in 1..(k - 1) : s[i] = ms[i]
  BY <1>3, <1>4, LenProperties
<1> HIDE DEF s
<1>6. Fwd!PortsOfAll(s) = UNION {Fwd!HostPorts(ms[j].ports) : j \in 1..(k - 1)}
  BY <1>5 DEF Fwd!PortsOfAll
<1> QED
  BY <1>6 DEF s

\* What the invariant says of a machine, given the machines before it.
MapKept(ms, k) ==
  /\ ms[k] = Fwd!Machine(ms[k].base, ms[k].excluded, ms[k].asked, ms[k].running, ms[k].ports)
  /\ Fwd!KeepsForwards(ms[k].asked, ms[k].ports)
  /\ Fwd!HeldOnce(ms[k].asked, ms[k].ports)
  /\ Fwd!Given(ms[k].asked) \cap Fwd!HostPorts(ms[k].ports)
       \cap UNION {Fwd!HostPorts(ms[j].ports) : j \in 1..(k - 1)} = {}

MapsKept(ms) == ms \in Seq(Fwd!ToSet(ms)) /\ \A k \in DOMAIN ms : MapKept(ms, k)

LEMMA KeptMeans ==
  Fwd!MachinesInv /\ Fwd!ForwardsAreMade /\ Fwd!GivenPortsAreOwn <=> MapsKept(v3)
<1> SUFFICES ASSUME v3 \in Seq(Fwd!ToSet(v3))
             PROVE  Fwd!MachinesInv /\ Fwd!ForwardsAreMade /\ Fwd!GivenPortsAreOwn
                      <=> MapsKept(v3)
  BY DEF Fwd!MachinesInv, MapsKept
<1>1. DOMAIN v3 = 1..Len(v3)
  BY LenProperties
<1>2. \A k \in DOMAIN v3 : Fwd!PortsOfAll(SubSeq(v3, 1, k - 1))
                             = UNION {Fwd!HostPorts(v3[j].ports) : j \in 1..(k - 1)}
  BY <1>1, EarlierPorts
<1>3. ASSUME MapsKept(v3)
      PROVE  Fwd!MachinesInv /\ Fwd!ForwardsAreMade /\ Fwd!GivenPortsAreOwn
  BY <1>2, <1>3 DEF MapsKept, MapKept, Fwd!MachinesInv, Fwd!ForwardsAreMade,
       Fwd!GivenPortsAreOwn
<1>4. ASSUME Fwd!MachinesInv, Fwd!ForwardsAreMade, Fwd!GivenPortsAreOwn
      PROVE  MapsKept(v3)
  BY <1>2, <1>4 DEF MapsKept, MapKept, Fwd!MachinesInv, Fwd!ForwardsAreMade,
       Fwd!GivenPortsAreOwn
<1> QED
  BY <1>3, <1>4

LEMMA KeptMeansNext ==
  (Fwd!MachinesInv /\ Fwd!ForwardsAreMade /\ Fwd!GivenPortsAreOwn)' <=> MapsKept(v3')
<1>1. (Fwd!MachinesInv /\ Fwd!ForwardsAreMade /\ Fwd!GivenPortsAreOwn <=> MapsKept(v3))'
  BY KeptMeans, PTL
<1> QED
  BY <1>1 DEF MapsKept, MapKept

LEMMA NothingAsked == v1 = <<>> /\ v2 = <<>> => Fwd!ExtrasInv
<1> SUFFICES ASSUME v1 = <<>>, v2 = <<>> PROVE Fwd!ExtrasInv
  OBVIOUS
<1>1. DOMAIN v1 = {} /\ DOMAIN v2 = {}
  OBVIOUS
<1>2. Fwd!ToSet(v2) = {}
  BY <1>1 DEF Fwd!ToSet
<1>3. UNION {Fwd!Mappings(v1[n]) : n \in DOMAIN v1} = {}
  BY <1>1
<1>4. \A S : v1 \in Seq(S) /\ v2 \in Seq(S)
  OBVIOUS
<1> QED
  BY <1>2, <1>3, <1>4 DEF Fwd!ExtrasInv

LEMMA NothingAskedNext == v1' = <<>> /\ v2' = <<>> => Fwd!ExtrasInv'
<1>1. (v1 = <<>> /\ v2 = <<>> => Fwd!ExtrasInv)'
  BY NothingAsked, PTL
<1> QED
  BY <1>1

LEMMA ForwardsStart == ASSUME Fwd!Init PROVE Fwd!IInv
<1>1. Fwd!ExtrasInv
  BY NothingAsked DEF Fwd!Init
<1>2. v3 \in Seq(Fwd!ToSet(v3)) /\ DOMAIN v3 = {}
  BY DEF Fwd!Init
<1>3. MapsKept(v3)
  BY <1>2 DEF MapsKept
<1> QED
  BY <1>1, <1>3, KeptMeans DEF Fwd!IInv

LEMMA ForwardKept ==
  ASSUME Fwd!IInv, NEW f \in ForwardsAsked, Fwd!Forward(f)
  PROVE  Fwd!IInv'
<1> DEFINE A == {g \in ForwardsAsked : Fwd!Accepted(g)}
           S == Fwd!ToSet(v2) \union Fwd!Mappings(f)
           x == Fwd!expandForwardSpec(f)
<1>1. /\ f \in A /\ v1' = Append(v1, f) /\ v2' = v2 \o x /\ v3' = v3
      /\ v1 \in Seq(A) /\ v2 \in Seq(Fwd!ToSet(v2))
      /\ Fwd!ToSet(v2) = UNION {Fwd!Mappings(v1[n]) : n \in DOMAIN v1}
  BY DEF Fwd!Forward, Fwd!IInv, Fwd!ExtrasInv
<1>2. v2 \in Seq(S)
  BY <1>1, SeqMonotonic
<1>3. x \in Seq(Fwd!Mappings(f))
  BY <1>1, SingleMeans, RangeMeans
<1>4. x \in Seq(S)
  BY <1>3, SeqMonotonic
<1> HIDE DEF x
<1>5. /\ Len(v1) \in Nat /\ DOMAIN v1 = 1..Len(v1)
      /\ Len(v2) \in Nat /\ DOMAIN v2 = 1..Len(v2)
      /\ Len(x) \in Nat /\ DOMAIN x = 1..Len(x)
  BY <1>1, <1>2, <1>4, LenProperties
<1>6. /\ v1' \in Seq(A) /\ DOMAIN v1' = 1..(Len(v1) + 1)
      /\ \A i \in 1..Len(v1) : v1'[i] = v1[i]
      /\ v1'[Len(v1) + 1] = f
  BY <1>1, <1>5, AppendProperties, LenProperties
<1>7. /\ v2' \in Seq(S) /\ DOMAIN v2' = 1..(Len(v2) + Len(x))
      /\ \A i \in 1..(Len(v2) + Len(x)) :
           v2'[i] = IF i <= Len(v2) THEN v2[i] ELSE x[i - Len(v2)]
  BY <1>1, <1>2, <1>4, ConcatProperties, LenProperties
<1>8. Fwd!ToSet(x) = Fwd!Mappings(f)
  BY DEF x, Fwd!Mappings
<1>9. Fwd!ToSet(v2') = S
  <2>1. \A i \in 1..(Len(v2) + Len(x)) : v2'[i] \in S
    BY <1>5, <1>7, ElementOfSeq
  <2>2. \A i \in DOMAIN v2 : v2'[i] = v2[i] /\ i \in DOMAIN v2'
    BY <1>5, <1>7
  <2>3. ASSUME NEW i \in DOMAIN x PROVE \E j \in DOMAIN v2' : v2'[j] = x[i]
    <3>1. /\ Len(v2) + i \in 1..(Len(v2) + Len(x)) /\ ~(Len(v2) + i <= Len(v2))
          /\ Len(v2) + i - Len(v2) = i
      BY <1>5
    <3> QED
      BY <1>7, <3>1
  <2>4. Fwd!ToSet(v2') \subseteq S
    BY <1>7, <2>1 DEF Fwd!ToSet
  <2>5. Fwd!ToSet(v2) \subseteq Fwd!ToSet(v2')
    BY <2>2 DEF Fwd!ToSet
  <2>6. Fwd!ToSet(x) \subseteq Fwd!ToSet(v2')
    BY <2>3 DEF Fwd!ToSet
  <2> QED
    BY <1>8, <2>4, <2>5, <2>6
<1>10. UNION {Fwd!Mappings(v1'[n]) : n \in DOMAIN v1'} = S
  <2>1. DOMAIN v1' = DOMAIN v1 \union {Len(v1) + 1}
    BY <1>5, <1>6
  <2>2. {Fwd!Mappings(v1'[n]) : n \in DOMAIN v1'}
          = {Fwd!Mappings(v1[n]) : n \in DOMAIN v1} \union {Fwd!Mappings(f)}
    BY <1>5, <1>6, <2>1
  <2> QED
    BY <1>1, <2>2
<1>11. Fwd!ExtrasInv'
  BY <1>6, <1>7, <1>9, <1>10 DEF Fwd!ExtrasInv, Fwd!ToSet
<1>12. MapsKept(v3)
  BY KeptMeans DEF Fwd!IInv
<1>13. (Fwd!MachinesInv /\ Fwd!ForwardsAreMade /\ Fwd!GivenPortsAreOwn)'
  BY <1>1 DEF Fwd!IInv, Fwd!MachinesInv, Fwd!ForwardsAreMade, Fwd!GivenPortsAreOwn
<1> QED
  BY <1>11, <1>13 DEF Fwd!IInv

LEMMA CreateKept ==
  ASSUME Fwd!IInv, NEW excluded, Fwd!Create(excluded)
  PROVE  Fwd!IInv'
<1> DEFINE base == Fwd!Candidates[Fwd!Min(Fwd!FreeCandidates(excluded, v2))]
           ports == Fwd!buildPortMappings(base, excluded, v2)
           m == Fwd!Machine(base, excluded, v1, FALSE, ports)
<1>1. /\ Fwd!validateExplicitExtraPorts(v2, base, excluded)
      /\ v3' = Append(v3, m) /\ v1' = <<>> /\ v2' = <<>>
  BY DEF Fwd!Create
<1> HIDE DEF base
<1>2. Fwd!ExtrasInv /\ MapsKept(v3)
  BY KeptMeans DEF Fwd!IInv
<1>3. /\ Fwd!KeepsForwards(v1, ports) /\ Fwd!HeldOnce(v1, ports)
      /\ Fwd!Given(v1) \cap Fwd!PortsOfAll(v3) = {}
  BY <1>1, <1>2, MapKeepsForwards, MapHoldsOnce, MapIsNew
<1> HIDE DEF ports
<1>4. /\ m.asked = v1 /\ m.ports = ports
      /\ m = Fwd!Machine(m.base, m.excluded, m.asked, m.running, m.ports)
  BY DEF Fwd!Machine
<1> HIDE DEF m
<1> DEFINE S == Fwd!ToSet(v3) \union {m}
<1>5. v3 \in Seq(Fwd!ToSet(v3)) /\ v3 \in Seq(S)
  BY <1>2, SeqMonotonic DEF MapsKept
<1>6. Len(v3) \in Nat /\ DOMAIN v3 = 1..Len(v3)
  BY <1>5, LenProperties
<1>7. /\ v3' \in Seq(S) /\ DOMAIN v3' = 1..(Len(v3) + 1)
      /\ \A i \in 1..Len(v3) : v3'[i] = v3[i]
      /\ v3'[Len(v3) + 1] = m
  BY <1>1, <1>5, <1>6, AppendProperties, LenProperties
<1>8. Fwd!ToSet(v3') = S
  BY <1>6, <1>7 DEF Fwd!ToSet
<1>9. ASSUME NEW k \in 1..Len(v3) PROVE MapKept(v3', k)
  <2>1. MapKept(v3, k)
    BY <1>2, <1>6 DEF MapsKept
  <2>2. \A j \in 1..(k - 1) : j \in 1..Len(v3)
    BY <1>6
  <2>3. {Fwd!HostPorts(v3'[j].ports) : j \in 1..(k - 1)}
          = {Fwd!HostPorts(v3[j].ports) : j \in 1..(k - 1)}
    BY <1>7, <2>2
  <2>4. v3'[k] = v3[k]
    BY <1>7
  <2> QED
    BY <2>1, <2>3, <2>4 DEF MapKept
<1>10. MapKept(v3', Len(v3) + 1)
  <2> DEFINE k == Len(v3) + 1
  <2>1. k - 1 = Len(v3)
    BY <1>6
  <2>2. UNION {Fwd!HostPorts(v3'[j].ports) : j \in 1..(k - 1)} = Fwd!PortsOfAll(v3)
    BY <1>6, <1>7, <2>1 DEF Fwd!PortsOfAll
  <2>3. v3'[k] = m
    BY <1>7
  <2> HIDE DEF k
  <2>4. Fwd!Given(m.asked) \cap Fwd!HostPorts(m.ports)
          \cap UNION {Fwd!HostPorts(v3'[j].ports) : j \in 1..(k - 1)} = {}
    BY <1>3, <1>4, <2>2
  <2>5. Fwd!KeepsForwards(m.asked, m.ports) /\ Fwd!HeldOnce(m.asked, m.ports)
    BY <1>3, <1>4
  <2>6. MapKept(v3', k)
    BY <1>4, <2>3, <2>4, <2>5, Zenon DEF MapKept
  <2> QED
    BY <2>6 DEF k
<1>11. DOMAIN v3' = (1..Len(v3)) \union {Len(v3) + 1}
  BY <1>6, <1>7
<1>12. MapsKept(v3')
  BY <1>7, <1>8, <1>9, <1>10, <1>11 DEF MapsKept
<1>13. (Fwd!MachinesInv /\ Fwd!ForwardsAreMade /\ Fwd!GivenPortsAreOwn)'
  BY <1>12, KeptMeansNext
<1>14. Fwd!ExtrasInv'
  BY <1>1, NothingAskedNext
<1> QED
  BY <1>13, <1>14 DEF Fwd!IInv

LEMMA RefusedKept ==
  ASSUME Fwd!IInv, Fwd!Refused
  PROVE  Fwd!IInv'
<1>1. v1' = <<>> /\ v2' = <<>> /\ v3' = v3
  BY DEF Fwd!Refused
<1>2. Fwd!ExtrasInv'
  BY <1>1, NothingAskedNext
<1>3. (Fwd!MachinesInv /\ Fwd!ForwardsAreMade /\ Fwd!GivenPortsAreOwn)'
  BY <1>1 DEF Fwd!IInv, Fwd!MachinesInv, Fwd!ForwardsAreMade, Fwd!GivenPortsAreOwn
<1> QED
  BY <1>2, <1>3 DEF Fwd!IInv

\* A machine that is started or stopped keeps its map.
LEMMA RunningKept ==
  ASSUME Fwd!IInv, NEW k \in DOMAIN v3, NEW r, v3' = [v3 EXCEPT ![k].running = r],
         UNCHANGED <<v1, v2>>
  PROVE  Fwd!IInv'
<1> DEFINE m == [v3[k] EXCEPT !.running = r]
           S == Fwd!ToSet(v3) \union {m}
<1>1. Fwd!ExtrasInv /\ MapsKept(v3)
  BY KeptMeans DEF Fwd!IInv
<1>2. v3 \in Seq(S) /\ v3 \in Seq(Fwd!ToSet(v3))
  BY <1>1, SeqMonotonic DEF MapsKept
<1>3. k \in 1..Len(v3) /\ Len(v3) \in Nat /\ DOMAIN v3 = 1..Len(v3)
  BY <1>2, LenProperties
<1>4. v3' = [v3 EXCEPT ![k] = m]
  OBVIOUS
<1>5. /\ v3' \in Seq(S) /\ Len(v3') = Len(v3)
      /\ \A j \in 1..Len(v3) : v3'[j] = IF j = k THEN m ELSE v3[j]
  BY <1>2, <1>3, <1>4, ExceptSeq
<1>6. DOMAIN v3' = DOMAIN v3
  BY <1>3, <1>5, LenProperties
<1>7. v3[k] = Fwd!Machine(v3[k].base, v3[k].excluded, v3[k].asked, v3[k].running, v3[k].ports)
  BY <1>1 DEF MapsKept, MapKept
<1>8. /\ m = Fwd!Machine(m.base, m.excluded, m.asked, m.running, m.ports)
      /\ m.asked = v3[k].asked /\ m.ports = v3[k].ports
  BY <1>7 DEF Fwd!Machine
<1> HIDE DEF m
<1>9. \A j \in DOMAIN v3 : v3'[j].asked = v3[j].asked /\ v3'[j].ports = v3[j].ports
  BY <1>3, <1>5, <1>8
<1>10. ASSUME NEW j \in DOMAIN v3 PROVE MapKept(v3', j)
  <2>1. MapKept(v3, j)
    BY <1>1 DEF MapsKept
  <2>2. \A i \in 1..(j - 1) : i \in DOMAIN v3
    BY <1>3
  <2>3. {Fwd!HostPorts(v3'[i].ports) : i \in 1..(j - 1)}
          = {Fwd!HostPorts(v3[i].ports) : i \in 1..(j - 1)}
    BY <1>9, <2>2
  <2>4. v3'[j].asked = v3[j].asked /\ v3'[j].ports = v3[j].ports
    BY <1>9
  <2>5. v3'[j] = Fwd!Machine(v3'[j].base, v3'[j].excluded, v3'[j].asked, v3'[j].running,
                             v3'[j].ports)
    <3>1. CASE j = k
      BY <1>3, <1>5, <1>8, <3>1
    <3>2. CASE j # k
      BY <1>3, <1>5, <2>1, <3>2 DEF MapKept
    <3> QED
      BY <3>1, <3>2
  <2> QED
    BY <2>1, <2>3, <2>4, <2>5 DEF MapKept
<1>11. v3' \in Seq(Fwd!ToSet(v3'))
  <2>1. PICK ms \in Seq(S) : ms = v3'
    BY <1>5
  <2>2. ms \in Seq(Fwd!ToSet(ms))
    BY OwnSeq
  <2> QED
    BY <2>1, <2>2 DEF Fwd!ToSet
<1>12. MapsKept(v3')
  BY <1>6, <1>10, <1>11 DEF MapsKept
<1>13. Fwd!ExtrasInv'
  BY <1>1 DEF Fwd!ExtrasInv
<1> QED
  BY <1>12, <1>13, KeptMeansNext DEF Fwd!IInv

LEMMA ForwardsStep == ASSUME Fwd!IInv, [Fwd!Next]_<<v1, v2, v3>> PROVE Fwd!IInv'
<1>1. CASE UNCHANGED <<v1, v2, v3>>
  BY <1>1 DEF Fwd!IInv, Fwd!ExtrasInv, Fwd!MachinesInv, Fwd!ForwardsAreMade,
       Fwd!GivenPortsAreOwn
<1>2. CASE \E f \in ForwardsAsked : Fwd!Forward(f)
  BY <1>2, ForwardKept
<1>3. CASE \E excluded \in SUBSET DOMAIN Services : Fwd!Create(excluded)
  BY <1>3, CreateKept
<1>4. CASE Fwd!Refused
  BY <1>4, RefusedKept
<1>5. CASE \E k \in DOMAIN v3 : Fwd!StartMachine(k)
  BY <1>5, RunningKept DEF Fwd!StartMachine
<1>6. CASE \E k \in DOMAIN v3 : Fwd!StopMachine(k)
  BY <1>6, RunningKept DEF Fwd!StopMachine
<1> QED
  BY <1>1, <1>2, <1>3, <1>4, <1>5, <1>6 DEF Fwd!Next

----------------------------------------------------------------------------
\* What was set is what a reader takes next and what was reset is unset, whatever lines the
\* file had, whoever edits it and however many processes change it (settings.ts:282-318,
\* 324-362); and a saved login is found until it is deleted, as long as processes take turns
\* (credentials.ts:10-12, 75-77).
THEOREM SavedIsKept == Creation => []SavedIsFound
<1> DEFINE FileInv == plays = "settings" => File!IInv
           LoginInv == plays = "logins" => Logins!IInv
<1>1. ASSUME CreationInit PROVE FileInv /\ LoginInv
  BY <1>1, FileStarts, LoginsStart DEF CreationInit
<1>2. ASSUME FileInv, LoginInv, [CreationNext]_all PROVE FileInv' /\ LoginInv'
  <2>1. ASSUME plays' = "settings" PROVE plays = "settings" /\ [File!Next]_(File!vars)
    BY <1>2, <2>1 DEF CreationNext, Plays, all, slots, File!vars
  <2>2. ASSUME plays' = "logins" PROVE plays = "logins" /\ [Logins!Next]_(Logins!vars)
    BY <1>2, <2>2 DEF CreationNext, Plays, all, slots, Logins!vars
  <2>3. FileInv'
    BY <1>2, <2>1, FileGoesOn
  <2>4. LoginInv'
    BY <1>2, <2>2, LoginsGoOn
  <2> QED
    BY <2>3, <2>4
<1>3. FileInv /\ LoginInv => SavedIsFound
  BY ChangesResolved, LoginsFound DEF SavedIsFound
<1> QED
  BY <1>1, <1>2, <1>3, PTL DEF Creation

\* A change of a setting keeps every line of another key, in its order, as its process read
\* it: comments, keys of other programs, another's unfinished change
\* (settings.ts:280-281, 324-325).
THEOREM OthersKept == Creation => KeepsOtherLines
<1> DEFINE Inv == plays = "settings" => File!IInv
<1>1. ASSUME CreationInit PROVE Inv
  BY <1>1, FileStarts DEF CreationInit
<1>2. ASSUME Inv, [CreationNext]_all PROVE Inv'
  <2>1. ASSUME plays' = "settings" PROVE plays = "settings" /\ [File!Next]_(File!vars)
    BY <1>2, <2>1 DEF CreationNext, Plays, all, slots, File!vars
  <2> QED
    BY <1>2, <2>1, FileGoesOn
<1>3. ASSUME Inv, [CreationNext]_all PROVE [plays = "settings" => File!KeepsOtherLines]_all
  <2> SUFFICES ASSUME CreationNext, plays = "settings" PROVE File!KeepsOtherLines
    BY <1>3
  <2>1. File!Next
    BY DEF CreationNext, Plays
  <2> QED
    BY <1>3, <2>1, ChangeKeepsOthers DEF File!KeepsOtherLines
<1> QED
  BY <1>1, <1>2, <1>3, PTL DEF Creation, KeepsOtherLines

\* Which channels are worth booting and what a version may be used for follow the order of
\* the releases, for any line of releases and whatever is published meanwhile; and a server
\* or a proxy that said no is not asked again (versions.ts:112-119, 186-200, 244-258,
\* 292-349, 411-421).
THEOREM JudgedByTheLine == Creation => []ChannelsAreJudged
<1> DEFINE Inv == plays = "versions" => Latest!IInv
<1>1. ASSUME CreationInit PROVE Inv
  BY <1>1, ChannelsStart DEF CreationInit
<1>2. ASSUME Inv, [CreationNext]_all PROVE Inv'
  <2>1. ASSUME plays' = "versions" PROVE plays = "versions" /\ [Latest!Next]_(Latest!vars)
    BY <1>2, <2>1 DEF CreationNext, Plays, all, slots, Latest!vars
  <2> QED
    BY <1>2, <2>1, ChannelsGoOn
<1>3. Inv => ChannelsAreJudged
  BY ChannelsJudged DEF ChannelsAreJudged
<1> QED
  BY <1>1, <1>2, <1>3, PTL DEF Creation

\* Every forward that shares its labels with no other is in the map of its machine, a range
\* with each of its ports, and a host port that was asked for is held once and by no machine
\* made before, for any forwards, services and well-known ports, however many machines
\* there are (forward-spec.ts:131-133, network.ts:75-98, 101-135).
THEOREM ForwardsKept == Creation => []ForwardsAreKept
<1> DEFINE Inv == plays = "forwards" => Fwd!IInv
<1>1. ASSUME CreationInit PROVE Inv
  BY <1>1, ForwardsStart DEF CreationInit
<1>2. ASSUME Inv, [CreationNext]_all PROVE Inv'
  <2>1. ASSUME plays' = "forwards" PROVE plays = "forwards" /\ [Fwd!Next]_<<v1, v2, v3>>
    BY <1>2, <2>1 DEF CreationNext, Plays, all, slots
  <2> QED
    BY <1>2, <2>1, ForwardsStep
<1>3. Inv => ForwardsAreKept
  BY DEF Fwd!IInv, ForwardsAreKept
<1> QED
  BY <1>1, <1>2, <1>3, PTL DEF Creation
=============================================================================
