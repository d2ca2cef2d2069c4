-------------------------- MODULE MCStorage_proofs --------------------------
(***************************************************************************)
(* Storage admission, for any operations, filesystems, cache and sizes.    *)
(*                                                                         *)
(* What an operation reserves is checked against what others reserved when *)
(* it took the lock.  Until it has its lease they only release leases and  *)
(* write what they reserved, so the room it measured is not spent twice.   *)
(* That takes the first part: what sums over a finite set are.             *)
(*                                                                         *)
(* And the download: the file of a call holds what its attempt received.   *)
(***************************************************************************)
EXTENDS MCStorage, Sequences, FiniteSetTheorems, WellFoundedInduction, TLAPS

----------------------------------------------------------------------------
(* Sums *)

\* The element MapThenSumSet takes first, and the sums of all subsets.
One(s) == CHOOSE x \in s : TRUE

Summing(h, S, g) ==
  g = [s \in SUBSET S |-> IF s = {} THEN 0 ELSE h[One(s)] + g[s \ {One(s)}]]

Total(h, S) == (CHOOSE g : Summing(h, S, g))[S]

\* An element of a set that has one.
LEMMA OneIsIn == ASSUME NEW s, s # {} PROVE One(s) \in s
BY DEF One

\* Induction over a finite set, by its smallest counterexample.
LEMMA Smallest ==
  ASSUME NEW S, IsFiniteSet(S), NEW T \in SUBSET SUBSET S, T # {}
  PROVE  \E s \in T : \A t \in T : t \subseteq s => t = s
<1>1. T \subseteq FiniteSubsetsOf(S)
  BY FS_FiniteSubsetsOfFinite
<1>2. PICK s \in T : \A t \in T : <<t, s>> \notin StrictSubsetOrdering(S)
  BY <1>1, FS_StrictSubsetOrderingWellFounded, WFMin
<1> QED
  BY <1>2 DEF StrictSubsetOrdering

\* The recursion determines the sums.
LEMMA SummingOnce ==
  ASSUME NEW h, NEW A, NEW B, IsFiniteSet(A), NEW a, NEW b, Summing(h, A, a), Summing(h, B, b)
  PROVE  \A s \in SUBSET (A \intersect B) : a[s] = b[s]
<1> DEFINE Bad == {s \in SUBSET (A \intersect B) : a[s] # b[s]}
<1> SUFFICES ASSUME Bad # {} PROVE FALSE
  OBVIOUS
<1>1. PICK s \in Bad : \A t \in Bad : t \subseteq s => t = s
  <2> Bad \in SUBSET SUBSET A
    OBVIOUS
  <2> HIDE DEF Bad
  <2> QED
    BY Smallest
<1>2. s # {}
  BY DEF Summing
<1>3. One(s) \in s
  BY <1>2, OneIsIn
<1>4. s \ {One(s)} \notin Bad
  BY <1>1, <1>3
<1>5. a[s \ {One(s)}] = b[s \ {One(s)}]
  BY <1>4
<1>6. a[s] = h[One(s)] + a[s \ {One(s)}] /\ b[s] = h[One(s)] + b[s \ {One(s)}]
  BY <1>2 DEF Summing
<1> QED
  BY <1>5, <1>6

\* And it has a solution.
LEMMA SummingIs ==
  ASSUME NEW h, NEW S, IsFiniteSet(S)
  PROVE  \E g : Summing(h, S, g)
<1> DEFINE Bad == {s \in SUBSET S : ~ \E g : Summing(h, s, g)}
<1> SUFFICES ASSUME Bad # {} PROVE FALSE
  OBVIOUS
<1>1. PICK s \in Bad : \A t \in Bad : t \subseteq s => t = s
  <2> Bad \in SUBSET SUBSET S
    OBVIOUS
  <2> HIDE DEF Bad
  <2> QED
    BY Smallest
<1>2. \A t \in SUBSET s : t # s => \E g : Summing(h, t, g)
  BY <1>1
<1> DEFINE G(t) == CHOOSE g : Summing(h, t, g)
           whole == [t \in SUBSET s |-> IF t = {} THEN 0 ELSE h[One(t)] + G(t \ {One(t)})[t \ {One(t)}]]
<1>3. \A t \in SUBSET s : t # s => Summing(h, t, G(t))
  BY <1>2
<1> HIDE DEF G
<1>4. ASSUME NEW t \in SUBSET s, t # s PROVE whole[t] = G(t)[t]
  <2>1. CASE t = {}
    BY <1>3, <1>4, <2>1 DEF Summing
  <2>2. CASE t # {}
    <3> DEFINE u == t \ {One(t)}
    <3>1. u \subseteq t /\ u # s /\ u \in SUBSET s
      BY <2>2, OneIsIn
    <3>2. IsFiniteSet(t) /\ IsFiniteSet(u)
      BY <3>1, FS_Subset
    <3>3. Summing(h, t, G(t)) /\ Summing(h, u, G(u))
      BY <1>3, <1>4, <3>1
    <3>4. G(t)[u] = G(u)[u]
      <4>1. u \in SUBSET (t \intersect u)
        BY <3>1
      <4> HIDE DEF u
      <4> QED
        BY <4>1, <3>2, <3>3, SummingOnce
    <3>5. G(t)[t] = h[One(t)] + G(t)[u]
      BY <2>2, <3>3 DEF Summing
    <3> QED
      BY <2>2, <3>4, <3>5
  <2> QED
    BY <2>1, <2>2
<1>5. Summing(h, s, whole)
  <2>1. \A t \in SUBSET s : t # {} => t \ {One(t)} \in SUBSET s /\ t \ {One(t)} # s
    BY OneIsIn
  <2> QED
    BY <1>4, <2>1 DEF Summing
<1> QED
  BY <1>5

\* Total() is that solution's value for the whole set.
LEMMA TotalIs ==
  ASSUME NEW h, NEW S, IsFiniteSet(S), NEW g, Summing(h, S, g)
  PROVE  Total(h, S) = g[S]
<1> DEFINE G == CHOOSE k : Summing(h, S, k)
<1>1. Summing(h, S, G)
  OBVIOUS
<1> HIDE DEF G
<1>2. G[S] = g[S]
  BY <1>1, SummingOnce
<1> QED
  BY <1>2 DEF Total, G

\* Total() takes one element after another.
LEMMA TotalStep ==
  ASSUME NEW h, NEW S, IsFiniteSet(S)
  PROVE  Total(h, S) = IF S = {} THEN 0 ELSE h[One(S)] + Total(h, S \ {One(S)})
<1>1. PICK g : Summing(h, S, g)
  BY SummingIs
<1>2. Total(h, S) = g[S]
  BY <1>1, TotalIs
<1>3. CASE S = {}
  BY <1>1, <1>2, <1>3 DEF Summing
<1>4. CASE S # {}
  <2> DEFINE R == S \ {One(S)}
  <2>1. IsFiniteSet(R) /\ R \in SUBSET S
    BY FS_Subset
  <2>2. PICK k : Summing(h, R, k)
    BY <2>1, SummingIs
  <2>3. Total(h, R) = k[R]
    BY <2>1, <2>2, TotalIs
  <2>4. g[R] = k[R]
    <3>1. R \in SUBSET (S \intersect R)
      BY <2>1
    <3> HIDE DEF R
    <3> QED
      BY <1>1, <2>2, <3>1, SummingOnce
  <2> QED
    BY <1>1, <1>2, <1>4, <2>3, <2>4 DEF Summing
<1> QED
  BY <1>3, <1>4

\* Naturals add up to a natural.
LEMMA TotalType ==
  ASSUME NEW h, NEW S, IsFiniteSet(S), \A x \in S : h[x] \in Nat
  PROVE  Total(h, S) \in Nat
<1> DEFINE Bad == {s \in SUBSET S : Total(h, s) \notin Nat}
<1> SUFFICES ASSUME Bad # {} PROVE FALSE
  OBVIOUS
<1>1. PICK s \in Bad : \A t \in Bad : t \subseteq s => t = s
  <2> Bad \in SUBSET SUBSET S
    OBVIOUS
  <2> HIDE DEF Bad
  <2> QED
    BY Smallest
<1>2. IsFiniteSet(s)
  BY FS_Subset
<1>3. s # {}
  <2>1. Total(h, s) \notin Nat
    OBVIOUS
  <2> HIDE DEF Bad
  <2>2. s = {} => Total(h, s) = 0
    BY <1>2, TotalStep
  <2> QED
    BY <2>1, <2>2
<1>4. Total(h, s \ {One(s)}) \in Nat
  BY <1>1, <1>3, OneIsIn
<1>5. h[One(s)] \in Nat
  BY <1>3, OneIsIn
<1>6. Total(h, s) = h[One(s)] + Total(h, s \ {One(s)})
  BY <1>2, <1>3, TotalStep
<1>7. Total(h, s) \notin Nat
  OBVIOUS
<1> HIDE DEF Bad
<1> QED
  BY <1>4, <1>5, <1>6, <1>7

\* A sum may take any element first.
LEMMA TotalAny ==
  ASSUME NEW h, NEW S, IsFiniteSet(S), \A x \in S : h[x] \in Nat
  PROVE  \A x \in S : Total(h, S) = h[x] + Total(h, S \ {x})
<1> DEFINE Bad == {s \in SUBSET S : \E x \in s : Total(h, s) # h[x] + Total(h, s \ {x})}
<1> SUFFICES ASSUME Bad # {} PROVE FALSE
  OBVIOUS
<1>1. PICK s \in Bad : \A t \in Bad : t \subseteq s => t = s
  <2> Bad \in SUBSET SUBSET S
    OBVIOUS
  <2> HIDE DEF Bad
  <2> QED
    BY Smallest
<1>2. PICK x \in s : Total(h, s) # h[x] + Total(h, s \ {x})
  OBVIOUS
<1> DEFINE y == One(s)
           r == s \ {x, y}
<1>3. y \in s
  BY <1>2, OneIsIn
<1>4. IsFiniteSet(s) /\ IsFiniteSet(r) /\ r \in SUBSET S
  BY FS_Subset
<1>5. Total(h, s) = h[y] + Total(h, s \ {y})
  BY <1>2, <1>4, TotalStep
<1>6. y # x
  BY <1>2, <1>5
<1>7. s \ {y} \notin Bad /\ s \ {x} \notin Bad
  BY <1>1, <1>3
<1>8. Total(h, s \ {y}) = h[x] + Total(h, r) /\ Total(h, s \ {x}) = h[y] + Total(h, r)
  <2>1. r = (s \ {y}) \ {x} /\ r = (s \ {x}) \ {y}
    <3> HIDE DEF y, Bad
    <3> QED
      BY Zenon
  <2>2. x \in s \ {y} /\ y \in s \ {x}
    BY <1>3, <1>6
  <2> HIDE DEF r, y
  <2> QED
    BY <1>7, <2>1, <2>2
<1>9. Total(h, r) \in Nat /\ h[x] \in Nat /\ h[y] \in Nat
  <2>1. \A z \in r : h[z] \in Nat
    OBVIOUS
  <2>2. h[x] \in Nat /\ h[y] \in Nat
    BY <1>3
  <2> HIDE DEF r
  <2> QED
    BY <1>4, <2>1, <2>2, TotalType
<1> HIDE DEF r, y
<1> QED
  BY <1>2, <1>5, <1>8, <1>9

\* Fewer terms, and smaller ones, make no larger sum.
LEMMA TotalLess ==
  ASSUME NEW h, NEW k, NEW S, IsFiniteSet(S), NEW R \in SUBSET S,
         \A x \in S : k[x] \in Nat, \A x \in R : h[x] \in Nat /\ h[x] <= k[x]
  PROVE  Total(h, R) <= Total(k, S)
<1> DEFINE Bad == {s \in SUBSET S : ~ Total(h, R \intersect s) <= Total(k, s)}
<1>1. ASSUME Bad # {} PROVE FALSE
  <2>1. PICK s \in Bad : \A t \in Bad : t \subseteq s => t = s
    <3> Bad \in SUBSET SUBSET S
      OBVIOUS
    <3> HIDE DEF Bad
    <3> QED
      BY <1>1, Smallest
  <2> DEFINE rs == R \intersect s
  <2>2. IsFiniteSet(s) /\ IsFiniteSet(rs)
    BY FS_Subset
  <2>3. s # {}
    <3>1. ASSUME s = {} PROVE rs = {}
      BY <3>1
    <3> HIDE DEF rs
    <3>2. s = {} => Total(h, rs) = 0 /\ Total(k, s) = 0
      BY <2>2, <3>1, TotalStep
    <3> QED
      BY <3>2 DEF rs
  <2>4. PICK x \in s : TRUE
    BY <2>3
  <2> DEFINE s1 == s \ {x}
             r1 == R \intersect s1
  <2>5. Total(k, s) = k[x] + Total(k, s1)
    BY <2>2, TotalAny
  <2>6. Total(h, r1) <= Total(k, s1)
    BY <2>1
  <2>7. IsFiniteSet(s1) /\ IsFiniteSet(r1)
    BY FS_Subset
  <2>8. Total(k, s1) \in Nat /\ Total(h, r1) \in Nat /\ k[x] \in Nat
    <3>1. (\A z \in s1 : k[z] \in Nat) /\ (\A z \in r1 : h[z] \in Nat) /\ k[x] \in Nat
      OBVIOUS
    <3> HIDE DEF s1, r1
    <3> QED
      BY <2>7, <3>1, TotalType
  <2>9. CASE x \notin R
    <3>1. r1 = rs
      BY <2>9
    <3> HIDE DEF s1, r1, rs
    <3> QED
      BY <2>5, <2>6, <2>8, <3>1 DEF rs
  <2>10. CASE x \in R
    <3>1. rs \ {x} = r1 /\ x \in rs /\ \A z \in rs : h[z] \in Nat
      BY <2>10
    <3>2. Total(h, rs) = h[x] + Total(h, r1)
      <4> HIDE DEF rs, r1
      <4> QED
        BY <2>2, <3>1, TotalAny
    <3>3. h[x] \in Nat /\ h[x] <= k[x]
      BY <2>10
    <3> HIDE DEF s1, r1
    <3> QED
      BY <2>5, <2>6, <2>8, <3>2, <3>3
  <2> QED
    BY <2>9, <2>10
<1>2. R = R \intersect S /\ S \in SUBSET S
  OBVIOUS
<1> QED
  BY <1>1, <1>2

----------------------------------------------------------------------------
(* What is promised and what is reserved *)

Amount(v, f) == [o \in Op |-> v[o][f]]

LEMMA MapIs ==
  ASSUME NEW v, NEW os \in SUBSET Op, NEW f
  PROVE  MapThenSumSet(LAMBDA o : v[o][f], os) = Total(Amount(v, f), os)
<1> DEFINE iter[s \in SUBSET os] == IF s = {} THEN 0 ELSE v[One(s)][f] + iter[s \ {One(s)}]
<1>1. IsFiniteSet(os)
  BY AdmissionAssumption, FS_Subset
<1>2. PICK g : Summing(Amount(v, f), os, g)
  BY <1>1, SummingIs
<1>3. \A s \in SUBSET os : s # {} => Amount(v, f)[One(s)] = v[One(s)][f]
  BY OneIsIn DEF Amount
<1>4. g = [s \in SUBSET os |-> IF s = {} THEN 0 ELSE v[One(s)][f] + g[s \ {One(s)}]]
  BY <1>2, <1>3 DEF Summing
<1>5. iter = [s \in SUBSET os |-> IF s = {} THEN 0 ELSE v[One(s)][f] + iter[s \ {One(s)}]]
  BY <1>4, Zenon
<1>6. MapThenSumSet(LAMBDA o : v[o][f], os) = iter[os]
  BY DEF MapThenSumSet, MapThenFoldSet, One
<1> HIDE DEF iter
<1>7. Summing(Amount(v, f), os, iter)
  BY <1>3, <1>5 DEF Summing
<1> QED
  BY <1>1, <1>6, <1>7, TotalIs

LEMMA BytesNat ==
  ASSUME NEW es \in SUBSET Entries
  PROVE  Bytes(es) \in Nat
<1> DEFINE iter[s \in SUBSET es] == IF s = {} THEN 0 ELSE Size[One(s)] + iter[s \ {One(s)}]
<1>1. IsFiniteSet(es)
  BY AdmissionAssumption, FS_Subset
<1>2. PICK g : Summing(Size, es, g)
  BY <1>1, SummingIs
<1>3. iter = [s \in SUBSET es |-> IF s = {} THEN 0 ELSE Size[One(s)] + iter[s \ {One(s)}]]
  BY <1>2, Zenon DEF Summing
<1>4. Bytes(es) = iter[es]
  BY DEF Bytes, MapThenSumSet, MapThenFoldSet, One
<1> HIDE DEF iter
<1>5. Bytes(es) = Total(Size, es)
  <2>1. Summing(Size, es, iter)
    BY <1>3 DEF Summing
  <2> QED
    BY <1>1, <1>4, <2>1, TotalIs
<1>6. \A e \in es : Size[e] \in Nat
  BY AdmissionAssumption
<1> QED
  BY <1>1, <1>5, <1>6, TotalType

LEMMA PromisedIs ==
  lease \subseteq Op => \A f \in Fs : Promised(f) = Total(Amount(left, f), lease)
BY MapIs DEF Promised

LEMMA ReservedIs ==
  lease \subseteq Op => \A f \in Fs : Reserved(f) = Total(Amount(Holds, f), lease)
BY MapIs DEF Reserved

\* The promises of lease' and left', of which PromisedIs says what they are once primed.
LEMMA PromisedNext ==
  lease' \subseteq Op => \A f \in Fs : Promised(f)' = Total(Amount(left', f), lease')
<1>1. (lease \subseteq Op => \A f \in Fs : Promised(f) = Total(Amount(left, f), lease))'
  BY PromisedIs, PTL
<1> QED
  BY <1>1

\* Whoever releases leases, and writes what it reserved, promises no more than before.
LEMMA PromisedLess ==
  ASSUME NEW v, NEW w, NEW os \in SUBSET Op, NEW some \in SUBSET os, NEW f,
         \A o \in os : w[o][f] \in Nat,
         \A o \in some : v[o][f] \in Nat /\ v[o][f] <= w[o][f]
  PROVE  /\ Total(Amount(v, f), some) <= Total(Amount(w, f), os)
         /\ Total(Amount(v, f), some) \in Nat /\ Total(Amount(w, f), os) \in Nat
<1>1. IsFiniteSet(os) /\ IsFiniteSet(some)
  BY AdmissionAssumption, FS_Subset
<1> DEFINE h == Amount(v, f)
           k == Amount(w, f)
<1>2. \A o \in os : k[o] \in Nat
  BY DEF Amount
<1>3. \A o \in some : h[o] \in Nat /\ h[o] <= k[o]
  BY DEF Amount
<1> HIDE DEF h, k
<1>4. Total(h, some) <= Total(k, os)
  BY <1>1, <1>2, <1>3, TotalLess
<1>5. Total(h, some) \in Nat /\ Total(k, os) \in Nat
  BY <1>1, <1>2, <1>3, TotalType
<1> QED
  BY <1>4, <1>5 DEF h, k

\* Sums of what all but one promise, which changes alone.
LEMMA PromisedSame ==
  ASSUME NEW v, NEW w, NEW os \in SUBSET Op, NEW f,
         \A o \in os : w[o][f] \in Nat /\ v[o][f] = w[o][f]
  PROVE  Total(Amount(v, f), os) = Total(Amount(w, f), os)
<1>1. Total(Amount(v, f), os) <= Total(Amount(w, f), os)
  BY PromisedLess
<1>2. Total(Amount(w, f), os) <= Total(Amount(v, f), os)
  BY PromisedLess
<1>3. Total(Amount(v, f), os) \in Nat /\ Total(Amount(w, f), os) \in Nat
  BY PromisedLess
<1> QED
  BY <1>1, <1>2, <1>3

----------------------------------------------------------------------------
(* The invariant *)

\* No operation has more to write than it reserved.
WithinHolds == \A o \in Op, f \in Fs : left[o][f] <= Holds[o][f]

Kept(f) == free[f] - Promised(f)

\* What the lock's holder read of the leases covers what they still promise, and where it
\* has found room there is room.
RoomInv ==
  lock # Nobody =>
    /\ \A f \in Fs : Promised(f) <= others[f]
    /\ \A f \in Checked(lock) \ todo : Kept(f) >= Required(lock, f)

\* A pass has at most the shortage to evict, and has tried all it may take if it took none.
PassInv ==
  \A o \in Op : pc[o] = "evict" =>
    /\ CacheFs \in todo
    /\ pass.bytes <= Short(o, CacheFs)
    /\ evicted = {} => pass.bytes > 0 /\ Eligible \subseteq pass.try \union failed

IInv == TypeOK /\ WithinHolds /\ ReserveKept /\ RoomInv /\ PassInv

LEMMA PromisedNat == TypeOK => \A f \in Fs : Promised(f) \in Nat
<1> SUFFICES ASSUME TypeOK, NEW f \in Fs PROVE Promised(f) \in Nat
  OBVIOUS
<1>1. lease \in SUBSET Op /\ \A o \in lease : left[o][f] \in Nat
  BY DEF TypeOK
<1>2. Total(Amount(left, f), lease) \in Nat
  BY <1>1, PromisedLess
<1> QED
  BY <1>1, <1>2, PromisedIs

\* A step that leaves the promises alone.
LEMMA PromisesStand ==
  ASSUME TypeOK, UNCHANGED <<lease, left>>
  PROVE  \A f \in Fs : Promised(f)' = Promised(f)
<1>1. lease \subseteq Op
  BY DEF TypeOK
<1> QED
  BY <1>1, PromisedIs, PromisedNext

\* A step that ends promises.
LEMMA PromisesEnd ==
  ASSUME TypeOK, lease' \subseteq lease,
         \A o \in lease', f \in Fs : left'[o][f] = left[o][f]
  PROVE  \A f \in Fs : Promised(f)' <= Promised(f) /\ Promised(f)' \in Nat
<1> SUFFICES ASSUME NEW f \in Fs PROVE Promised(f)' <= Promised(f) /\ Promised(f)' \in Nat
  OBVIOUS
<1>1. lease \in SUBSET Op /\ lease' \in SUBSET lease /\ lease' \in SUBSET Op
  BY DEF TypeOK
<1>2. /\ \A o \in lease : left[o][f] \in Nat
      /\ \A o \in lease' : left'[o][f] \in Nat /\ left'[o][f] <= left[o][f]
  BY <1>1 DEF TypeOK
<1>3. /\ Total(Amount(left', f), lease') <= Total(Amount(left, f), lease)
      /\ Total(Amount(left', f), lease') \in Nat
  BY <1>1, <1>2, PromisedLess
<1> QED
  BY <1>1, <1>3, PromisedIs, PromisedNext

\* A write keeps a promise, byte by byte, of what is there.
LEMMA PromiseWritten ==
  ASSUME IInv, NEW o \in Op, NEW f \in Fs, Write(o, f)
  PROVE  /\ Promised(f)' = Promised(f) - 1 /\ free[f] > 0
         /\ \A g \in Fs \ {f} : Promised(g)' = Promised(g)
<1>0. IsFiniteSet(lease)
  BY AdmissionAssumption, FS_Subset DEF IInv, TypeOK
<1>1. /\ lease \in SUBSET Op /\ o \in lease /\ lease' = lease
      /\ \A q \in Op, g \in Fs : left[q][g] \in Nat
  BY DEF IInv, TypeOK, Write
<1>2. /\ left'[o][f] = left[o][f] - 1 /\ left[o][f] > 0
      /\ \A q \in Op, g \in Fs : q # o \/ g # f => left'[q][g] = left[q][g]
  BY DEF IInv, TypeOK, Write
<1>3. \A q \in Op, g \in Fs : left'[q][g] \in Nat
  BY <1>1, <1>2
<1>4. \A g \in Fs \ {f} : Promised(g)' = Promised(g)
  BY <1>1, <1>2, PromisedSame, PromisedIs, PromisedNext
<1> DEFINE rest == Total(Amount(left, f), lease \ {o})
<1>5. Promised(f) = left[o][f] + rest
  <2> DEFINE h == Amount(left, f)
  <2>1. h[o] = left[o][f] /\ \A q \in lease : h[q] \in Nat
    BY <1>1 DEF Amount
  <2> HIDE DEF h
  <2>2. Total(h, lease) = h[o] + Total(h, lease \ {o})
    BY <1>1, <1>0, <2>1, TotalAny
  <2> QED
    BY <1>1, <2>1, <2>2, PromisedIs DEF h
<1>6. Promised(f)' = left'[o][f] + Total(Amount(left', f), lease \ {o})
  <2> DEFINE h == Amount(left', f)
  <2>1. h[o] = left'[o][f] /\ \A q \in lease : h[q] \in Nat
    BY <1>1, <1>3 DEF Amount
  <2> HIDE DEF h
  <2>2. Total(h, lease) = h[o] + Total(h, lease \ {o})
    BY <1>1, <1>0, <2>1, TotalAny
  <2> QED
    BY <1>1, <2>1, <2>2, PromisedNext DEF h
<1>7. Total(Amount(left', f), lease \ {o}) = rest
  BY <1>1, <1>2, PromisedSame
<1>8. rest \in Nat
  BY <1>1, PromisedLess
<1>9. Promised(f)' = Promised(f) - 1 /\ Promised(f) > 0
  BY <1>1, <1>2, <1>5, <1>6, <1>7, <1>8
<1>10. Holds[o][f] > 0
  BY <1>1, <1>2, AdmissionAssumption DEF IInv, WithinHolds
<1>11. free[f] > 0
  <2>1. free[f] - Promised(f) >= Reserve
    BY <1>1, <1>10 DEF IInv, ReserveKept
  <2> QED
    BY <1>9, <2>1, AdmissionAssumption, PromisedNat DEF IInv, TypeOK
<1> QED
  BY <1>4, <1>9, <1>11

\* An admission promises what it reserves.
LEMMA PromiseMade ==
  ASSUME TypeOK, NEW o \in Op, Admit(o)
  PROVE  \A f \in Fs : Promised(f)' = Promised(f) + Holds[o][f]
<1> SUFFICES ASSUME NEW f \in Fs PROVE Promised(f)' = Promised(f) + Holds[o][f]
  OBVIOUS
<1>1. /\ lease \in SUBSET Op /\ o \notin lease /\ lease' = lease \union {o}
      /\ \A q \in Op : left[q][f] \in Nat
  BY DEF TypeOK, Admit
<1>2. left'[o][f] = Holds[o][f] /\ \A q \in lease : left'[q][f] = left[q][f]
  BY <1>1 DEF TypeOK, Admit
<1>3. Holds[o][f] \in Nat
  BY AdmissionAssumption
<1> DEFINE ops == lease \union {o}
<1>4. ops \in SUBSET Op /\ o \in ops /\ ops \ {o} = lease /\ \A q \in ops : left'[q][f] \in Nat
  BY <1>1, <1>2, <1>3
<1>5. Total(Amount(left', f), ops) = left'[o][f] + Total(Amount(left', f), lease)
  <2> DEFINE h == Amount(left', f)
  <2>1. h[o] = left'[o][f] /\ \A q \in ops : h[q] \in Nat
    BY <1>4 DEF Amount
  <2>2. IsFiniteSet(ops)
    BY <1>4, AdmissionAssumption, FS_Subset
  <2> HIDE DEF h, ops
  <2>3. Total(h, ops) = h[o] + Total(h, ops \ {o})
    BY <1>4, <2>1, <2>2, TotalAny
  <2> QED
    BY <1>4, <2>1, <2>3 DEF h
<1>6. Total(Amount(left', f), lease) = Total(Amount(left, f), lease)
  BY <1>1, <1>2, PromisedSame
<1>7. Total(Amount(left, f), lease) \in Nat
  BY <1>1, PromisedLess
<1> QED
  <2>1. Promised(f)' = Total(Amount(left', f), ops)
    BY <1>1, PromisedNext
  <2>2. Promised(f) = Total(Amount(left, f), lease)
    BY <1>1, PromisedIs
  <2> HIDE DEF ops
  <2> QED
    BY <1>2, <1>3, <1>5, <1>6, <1>7, <2>1, <2>2

\* Leases promise no more than they reserve.
LEMMA ReservedCovers ==
  ASSUME TypeOK, WithinHolds
  PROVE  \A f \in Fs : Promised(f) <= Reserved(f) /\ Reserved(f) \in Nat
<1> SUFFICES ASSUME NEW f \in Fs PROVE Promised(f) <= Reserved(f) /\ Reserved(f) \in Nat
  OBVIOUS
<1>1. /\ lease \in SUBSET Op
      /\ \A q \in lease : left[q][f] \in Nat /\ left[q][f] <= Holds[q][f] /\ Holds[q][f] \in Nat
  BY AdmissionAssumption DEF TypeOK, WithinHolds
<1>2. /\ Total(Amount(left, f), lease) <= Total(Amount(Holds, f), lease)
      /\ Total(Amount(Holds, f), lease) \in Nat
  BY <1>1, PromisedLess
<1> QED
  BY <1>1, <1>2, PromisedIs, ReservedIs

----------------------------------------------------------------------------
(* Its steps *)

\* The entry evicted next is one of them.
LEMMA VictimIn ==
  ASSUME NEW es \in SUBSET Entries, es # {}
  PROVE  Victim(es) \in es
<1>1. es \subseteq Nat
  BY AdmissionAssumption
<1>2. PICK e \in es : \A d \in es : <<d, e>> \notin OpToRel(<, Nat)
  BY <1>1, NatLessThanWellFounded, WFMin
<1>3. \A d \in es : e <= d
  BY <1>1, <1>2, \A i, j \in Nat : i < j <=> ~ j <= i DEF OpToRel
<1> QED
  BY <1>3 DEF Victim

\* What an operation checks, and how much it needs there.
LEMMA Needs ==
  \A o \in Op :
    /\ Checked(o) \subseteq Fs
    /\ \A f \in Fs : Required(o, f) \in Nat
    /\ \A f \in Fs : Required(o, f) >= Holds[o][f] + Reserve
    /\ \A f \in Fs : Holds[o][f] > 0 => f \in Checked(o)
BY AdmissionAssumption DEF Checked, Required, Need

LEMMA InitInv == Init => IInv
<1> SUFFICES ASSUME Init PROVE IInv
  OBVIOUS
<1>1. TypeOK
  BY AdmissionAssumption DEF Init, TypeOK, None, NoPass
<1>2. WithinHolds
  BY AdmissionAssumption DEF Init, WithinHolds, None
<1>3. ReserveKept /\ RoomInv /\ PassInv
  BY DEF Init, ReserveKept, RoomInv, PassInv
<1> QED
  BY <1>1, <1>2, <1>3 DEF IInv

LEMMA BeginInv == ASSUME IInv, NEW o \in Op, Begin(o) PROVE IInv'
<1>1. UNCHANGED <<lease, left, free>> /\ \A f \in Fs : Promised(f)' = Promised(f)
  BY PromisesStand DEF IInv, Begin, disk
<1>2. \A f \in Fs : Promised(f) <= Reserved(f) /\ Reserved(f) \in Nat
  BY ReservedCovers DEF IInv
<1>3. others' = [f \in Fs |-> Reserved(f)] /\ todo' = Checked(o) /\ lock' = o
  BY DEF Begin
<1>4. TypeOK'
  <2>1. others' \in [Fs -> Nat]
    BY <1>2, <1>3
  <2>2. pinned' \subseteq Entries /\ todo' \subseteq Fs
    <3>1. Checked(o) \subseteq Fs
      BY Needs
    <3>2. pinned' \subseteq Entries
      <4>1. lease \subseteq Op /\ \A q \in Op : Pins[q] \subseteq Entries
        BY AdmissionAssumption DEF IInv, TypeOK
      <4> QED
        BY <4>1 DEF Begin
    <3> QED
      BY <1>3, <3>1, <3>2
  <2> QED
    BY <2>1, <2>2, AdmissionAssumption DEF Begin, Go, IInv, TypeOK, disk
<1>5. WithinHolds' /\ ReserveKept'
  BY <1>1 DEF IInv, WithinHolds, ReserveKept
<1>6. RoomInv'
  <2>1. \A f \in Fs : Promised(f)' <= others'[f]
    BY <1>1, <1>2, <1>3
  <2>2. Checked(lock') \ todo' = {}
    BY <1>3
  <2> QED
    BY <2>1, <2>2 DEF RoomInv
<1>7. PassInv'
  BY AdmissionAssumption DEF Begin, Go, IInv, TypeOK, PassInv
<1> QED
  BY <1>4, <1>5, <1>6, <1>7 DEF IInv

LEMMA HasRoomInv == ASSUME IInv, NEW o \in Op, NEW f \in Fs, HasRoom(o, f) PROVE IInv'
<1>1. UNCHANGED <<lease, left, free>> /\ \A g \in Fs : Promised(g)' = Promised(g)
  BY PromisesStand DEF IInv, HasRoom, disk
<1>2. TypeOK' /\ WithinHolds' /\ ReserveKept'
  BY <1>1 DEF HasRoom, IInv, TypeOK, WithinHolds, ReserveKept, disk
<1>3. RoomInv'
  <2>1. lock = o /\ lock' = o /\ o # Nobody /\ others' = others /\ todo' = todo \ {f}
    BY AdmissionAssumption DEF HasRoom
  <2>2. Kept(f) >= Required(o, f)
    <3>1. Required(o, f) - (free[f] - others[f]) <= 0 /\ Promised(f) <= others[f]
      BY <2>1 DEF HasRoom, Short, Measured, IInv, RoomInv
    <3>2. Required(o, f) \in Nat /\ Promised(f) \in Nat
      <4>1. Required(o, f) \in Nat
        BY Needs
      <4> QED
        BY <4>1, PromisedNat DEF IInv
    <3>3. free[f] \in Nat /\ others[f] \in Nat
      BY DEF IInv, TypeOK
    <3> QED
      BY <3>1, <3>2, <3>3 DEF Kept
  <2>3. \A g \in Fs : Kept(g)' = Kept(g)
    BY <1>1 DEF Kept
  <2> QED
    BY <1>1, <2>1, <2>2, <2>3, Needs DEF IInv, RoomInv
<1>4. PassInv'
  BY AdmissionAssumption DEF HasRoom, IInv, TypeOK, PassInv
<1> QED
  BY <1>2, <1>3, <1>4 DEF IInv

\* Leaving the lock, with the leases and promises as they were.
LEMMA LeaveInv ==
  ASSUME IInv, NEW o \in Op, NEW to \in {"refused", "done"}, Leave(o, to), lock = o,
         UNCHANGED <<disk, lease>>
  PROVE  IInv'
<1>1. UNCHANGED <<lease, left, free>> /\ \A f \in Fs : Promised(f)' = Promised(f)
  BY PromisesStand DEF IInv, disk
<1>2. TypeOK'
  <2> TypeOK
    BY DEF IInv
  <2>1. lock = o /\ pc[o] \in {"check", "evict"} /\ pc' = [pc EXCEPT ![o] = to] /\ lock' = Nobody
    BY DEF Leave, Go, TypeOK
  <2>2. /\ pc' \in [Op -> {"idle", "check", "evict", "writing", "refused", "done"}]
        /\ lease' = {q \in Op : pc'[q] = "writing"}
        /\ \A q \in Op : lock' = q <=> pc'[q] \in {"check", "evict"}
    BY <2>1, AdmissionAssumption DEF TypeOK
  <2>3. /\ others' \in [Fs -> Nat] /\ pinned' \subseteq Entries /\ todo' \subseteq Fs
        /\ pass' \in [try : SUBSET Entries, bytes : Int]
        /\ evicted' \subseteq Entries /\ failed' \subseteq Entries
    BY DEF Leave, None, NoPass
  <2> QED
    BY <2>1, <2>2, <2>3 DEF TypeOK, disk
<1>3. WithinHolds' /\ ReserveKept'
  BY <1>1 DEF IInv, WithinHolds, ReserveKept
<1>4. RoomInv' /\ PassInv'
  BY DEF Leave, Go, IInv, TypeOK, RoomInv, PassInv
<1> QED
  BY <1>2, <1>3, <1>4 DEF IInv

LEMMA PassStarts == ASSUME IInv, NEW o \in Op, NEW f \in Fs, StartPass(o, f) PROVE IInv'
<1>1. UNCHANGED <<lease, left, free>> /\ \A g \in Fs : Promised(g)' = Promised(g)
  BY PromisesStand DEF IInv, StartPass, disk
<1>2. f = CacheFs /\ Short(o, f) \in Int /\ Short(o, f) > 0
  <2>1. Required(o, f) \in Nat
    BY Needs
  <2> QED
    BY <2>1 DEF StartPass, Evictable, Short, Measured, IInv, TypeOK
<1>3. TypeOK'
  <2>1. pass' \in [try : SUBSET Entries, bytes : Int]
    BY <1>2 DEF StartPass, Eligible, IInv, TypeOK
  <2> QED
    BY <2>1 DEF StartPass, Go, IInv, TypeOK, disk
<1>4. WithinHolds' /\ ReserveKept'
  BY <1>1 DEF IInv, WithinHolds, ReserveKept
<1>5. RoomInv'
  <2>1. UNCHANGED <<lock, others, todo>> /\ \A g \in Fs : Kept(g)' = Kept(g)
    BY <1>1 DEF StartPass, Kept
  <2>2. lock \in Op \union {Nobody}
    BY DEF IInv, TypeOK
  <2> QED
    BY <1>1, <2>1, <2>2, Needs DEF IInv, RoomInv
<1>6. PassInv'
  <2>1. \A q \in Op : pc'[q] = "evict" => q = o
    BY DEF StartPass, Go, IInv, TypeOK
  <2>2. Short(o, CacheFs)' = Short(o, CacheFs) /\ Eligible' = Eligible
    BY DEF StartPass, Short, Measured, Eligible, disk
  <2> QED
    BY <1>2, <2>1, <2>2 DEF StartPass, PassInv
<1> QED
  BY <1>3, <1>4, <1>5, <1>6 DEF IInv

LEMMA EvictInv == ASSUME IInv, NEW o \in Op, Evict(o) PROVE IInv'
<1> TypeOK
  BY DEF IInv
<1>1. UNCHANGED <<lease, left, recent, lock, others, pinned, todo, pc>> /\ lock = o
  BY DEF Evict
<1>2. \A f \in Fs : Promised(f)' = Promised(f)
  BY <1>1, PromisesStand
<1> DEFINE e == Victim(pass.try)
<1>3. e \in pass.try /\ e \in Entries /\ pass.try \subseteq Entries
  <2>1. pass.try \in SUBSET Entries /\ pass.try # {}
    BY DEF Evict, TypeOK
  <2> QED
    BY <2>1, VictimIn
<1>4. Frees[e] \in Nat /\ Size[e] \in Nat /\ Frees[e] <= Size[e]
  BY <1>3, AdmissionAssumption
<1>5. CASE /\ entries' = entries \ {e}
           /\ free' = [free EXCEPT ![CacheFs] = @ + Frees[e]]
           /\ evicted' = evicted \union {e}
           /\ pass' = [try |-> pass.try \ {e}, bytes |-> pass.bytes - Counted(e)]
           /\ UNCHANGED failed
  <2> HIDE DEF e
  <2>1. \A f \in Fs : free'[f] \in Nat /\ free'[f] >= free[f] /\ free[f] \in Nat
    BY <1>4, <1>5 DEF TypeOK
  <2>2. CacheFs \in Fs /\ free'[CacheFs] = free[CacheFs] + Frees[e] /\ others[CacheFs] \in Nat
    BY <1>5, AdmissionAssumption DEF TypeOK
  <2>3. TypeOK'
    <3>1. free' \in [Fs -> Nat]
      BY <2>1, <1>5 DEF TypeOK
    <3>2. pass' \in [try : SUBSET Entries, bytes : Int]
      BY <1>3, <1>4, <1>5 DEF TypeOK, Counted
    <3> QED
      BY <1>1, <1>3, <1>5, <3>1, <3>2 DEF TypeOK
  <2>4. WithinHolds'
    BY <1>1 DEF IInv, WithinHolds
  <2>5. \A f \in Fs : Kept(f)' >= Kept(f) /\ Kept(f) \in Int /\ Kept(f)' \in Int
    BY <1>2, <2>1, PromisedNat DEF Kept
  <2>6. ReserveKept'
    BY <1>1, <2>5, AdmissionAssumption DEF IInv, ReserveKept, Kept
  <2>7. RoomInv'
    <3>1. \A f \in Checked(o) : Required(o, f) \in Nat /\ f \in Fs
      BY Needs
    <3> QED
      BY <1>1, <1>2, <2>5, <3>1 DEF IInv, RoomInv
  <2>8. PassInv'
    <3>1. pc[o] = "evict" /\ \A q \in Op : pc[q] = "evict" => q = o
      BY DEF Evict, TypeOK
    <3>2. CacheFs \in todo /\ pass.bytes <= Short(o, CacheFs)
      BY <3>1 DEF IInv, PassInv
    <3>3. pass'.bytes = pass.bytes - Size[e] /\ pass.bytes \in Int /\ evicted' # {}
      BY <1>5 DEF Counted, TypeOK
    <3>4. Required(o, CacheFs) \in Nat
      BY <2>2, Needs
    <3>5. Short(o, CacheFs)' = Required(o, CacheFs) - (free'[CacheFs] - others[CacheFs])
      BY <1>1 DEF Short, Measured, Required
    <3>6. Short(o, CacheFs) = Required(o, CacheFs) - (free[CacheFs] - others[CacheFs])
      BY DEF Short, Measured
    <3>7. pass'.bytes <= Short(o, CacheFs)'
      BY <1>4, <2>1, <2>2, <3>2, <3>3, <3>4, <3>5, <3>6
    <3> QED
      BY <1>1, <3>1, <3>2, <3>3, <3>7 DEF PassInv
  <2> QED
    BY <2>3, <2>4, <2>6, <2>7, <2>8 DEF IInv
<1>6. CASE /\ failed' = failed \union {e}
           /\ pass' = [pass EXCEPT !.try = @ \ {e}]
           /\ UNCHANGED <<free, entries, evicted>>
  <2> HIDE DEF e
  <2>1. TypeOK'
    BY <1>1, <1>3, <1>6 DEF TypeOK
  <2>2. WithinHolds' /\ ReserveKept'
    BY <1>1, <1>2, <1>6 DEF IInv, WithinHolds, ReserveKept
  <2>3. RoomInv'
    <3>1. \A f \in Checked(o) : f \in Fs
      BY Needs
    <3> QED
      BY <1>1, <1>2, <1>6, <3>1 DEF IInv, RoomInv, Kept
  <2>4. PassInv'
    <3>1. pass'.bytes = pass.bytes /\ pass'.try = pass.try \ {e}
      BY <1>6 DEF TypeOK
    <3>2. Short(o, CacheFs)' = Short(o, CacheFs) /\ Eligible' = Eligible
      BY <1>1, <1>6 DEF Short, Measured, Required, Eligible
    <3>3. \A q \in Op : pc[q] = "evict" => q = o
      BY DEF Evict, TypeOK
    <3> QED
      BY <1>1, <1>6, <3>1, <3>2, <3>3 DEF IInv, PassInv
  <2> QED
    BY <2>1, <2>2, <2>3, <2>4 DEF IInv
<1> QED
  BY <1>5, <1>6 DEF Evict

LEMMA EndPassInv == ASSUME IInv, NEW o \in Op, EndPass(o) PROVE IInv'
<1> TypeOK
  BY DEF IInv
<1> DEFINE short == Short(o, CacheFs)
<1>1. lock = o /\ pc[o] = "evict"
  BY DEF EndPass
<1>2. CacheFs \in todo /\ CacheFs \in Fs /\ Required(o, CacheFs) \in Nat
  BY <1>1, AdmissionAssumption, Needs DEF IInv, PassInv
<1>3. short \in Int
  BY <1>2 DEF Short, Measured, TypeOK
<1>4. CASE /\ short <= 0
           /\ todo' = todo \ {CacheFs} /\ failed' = {} /\ evicted' = {} /\ pass' = NoPass
           /\ Go(o, "evict", "check")
           /\ UNCHANGED <<lease, lock, others, pinned, disk>>
  <2>1. UNCHANGED <<lease, left, free>> /\ \A f \in Fs : Promised(f)' = Promised(f)
    BY <1>4, PromisesStand DEF disk
  <2>2. TypeOK'
    <3>1. /\ pc' \in [Op -> {"idle", "check", "evict", "writing", "refused", "done"}]
          /\ lease' = {q \in Op : pc'[q] = "writing"}
          /\ \A q \in Op : lock' = q <=> pc'[q] \in {"check", "evict"}
      BY <1>1, <1>4 DEF Go, TypeOK
    <3> QED
      BY <1>4, <3>1 DEF TypeOK, disk, NoPass
  <2>3. WithinHolds' /\ ReserveKept'
    BY <2>1 DEF IInv, WithinHolds, ReserveKept
  <2>4. RoomInv'
    <3>1. o # Nobody
      BY AdmissionAssumption
    <3>2. Promised(CacheFs) <= others[CacheFs] /\ Promised(CacheFs) \in Nat
      BY <1>1, <1>2, <3>1, PromisedNat DEF IInv, RoomInv
    <3>3. Required(o, CacheFs) - (free[CacheFs] - others[CacheFs]) <= 0
      BY <1>4 DEF Short, Measured
    <3>4. free[CacheFs] \in Nat /\ others[CacheFs] \in Nat
      BY <1>2 DEF TypeOK
    <3>5. Kept(CacheFs) >= Required(o, CacheFs)
      BY <1>2, <3>2, <3>3, <3>4 DEF Kept
    <3>6. \A f \in Fs : Kept(f)' = Kept(f)
      BY <2>1 DEF Kept
    <3>7. Checked(o) \subseteq Fs
      BY Needs
    <3> QED
      BY <1>1, <1>4, <2>1, <3>1, <3>5, <3>6, <3>7 DEF IInv, RoomInv
  <2>5. PassInv'
    BY <1>1, <1>4 DEF Go, TypeOK, PassInv
  <2> QED
    BY <2>2, <2>3, <2>4, <2>5 DEF IInv
<1>5. CASE Refuse(o)
  BY <1>1, <1>5, LeaveInv DEF Refuse
<1>6. CASE /\ short > 0
           /\ pass' = [try |-> Eligible \ failed, bytes |-> short] /\ evicted' = {}
           /\ UNCHANGED <<lease, lock, others, pinned, todo, failed, disk, pc>>
  <2>1. UNCHANGED <<lease, left, free>> /\ \A f \in Fs : Promised(f)' = Promised(f)
    BY <1>6, PromisesStand DEF disk
  <2>2. TypeOK'
    <3>1. pass' \in [try : SUBSET Entries, bytes : Int]
      BY <1>3, <1>6 DEF Eligible, TypeOK
    <3> QED
      BY <1>6, <3>1 DEF TypeOK, disk
  <2>3. WithinHolds' /\ ReserveKept'
    BY <2>1 DEF IInv, WithinHolds, ReserveKept
  <2>4. RoomInv'
    <3>1. Checked(o) \subseteq Fs
      BY Needs
    <3> QED
      BY <1>1, <1>6, <2>1, <3>1 DEF IInv, RoomInv, Kept
  <2>5. PassInv'
    <3>1. short' = short /\ Eligible' = Eligible
      BY <1>6 DEF Short, Measured, Required, Eligible, disk
    <3>2. \A q \in Op : pc[q] = "evict" => q = o
      BY <1>1 DEF TypeOK
    <3>3. pass'.bytes = short /\ pass'.try = Eligible \ failed
      BY <1>6
    <3> QED
      BY <1>2, <1>3, <1>6, <3>1, <3>2, <3>3 DEF PassInv
  <2> QED
    BY <2>2, <2>3, <2>4, <2>5 DEF IInv
<1> QED
  BY <1>4, <1>5, <1>6 DEF EndPass

LEMMA AdmitInv == ASSUME IInv, NEW o \in Op, Admit(o) PROVE IInv'
<1> TypeOK
  BY DEF IInv
<1>1. lock = o /\ o # Nobody /\ pc[o] = "check" /\ todo = {} /\ lease' = lease \union {o}
  BY AdmissionAssumption DEF Admit
<1>2. left' = [left EXCEPT ![o] = Holds[o]] /\ UNCHANGED <<free, entries, recent>>
  BY DEF Admit
<1>3. pc' = [pc EXCEPT ![o] = "writing"] /\ lock' = Nobody
  BY <1>1 DEF Admit, Leave, Go
<1>4. TypeOK'
  <2>1. /\ pc' \in [Op -> {"idle", "check", "evict", "writing", "refused", "done"}]
        /\ lease' = {q \in Op : pc'[q] = "writing"}
        /\ \A q \in Op : lock' = q <=> pc'[q] \in {"check", "evict"}
    BY <1>1, <1>3, AdmissionAssumption DEF TypeOK
  <2>2. left' \in [Op -> [Fs -> Nat]]
    BY <1>2, AdmissionAssumption DEF TypeOK
  <2>3. /\ others' \in [Fs -> Nat] /\ pinned' \subseteq Entries /\ todo' \subseteq Fs
        /\ pass' \in [try : SUBSET Entries, bytes : Int]
        /\ evicted' \subseteq Entries /\ failed' \subseteq Entries
    BY DEF Admit, Leave, None, NoPass
  <2> QED
    BY <1>2, <1>3, <2>1, <2>2, <2>3 DEF TypeOK
<1>5. WithinHolds'
  <2>1. left'[o] = Holds[o] /\ \A f \in Fs : Holds[o][f] \in Nat
    <3>1. Holds \in [Op -> [Fs -> Nat]]
      BY AdmissionAssumption
    <3>2. left'[o] = Holds[o]
      BY <1>2 DEF TypeOK
    <3> QED
      BY <3>1, <3>2
  <2>2. \A q \in Op : q # o => left'[q] = left[q]
    BY <1>2 DEF TypeOK
  <2> QED
    BY <2>1, <2>2 DEF IInv, WithinHolds
<1>6. ReserveKept'
  <2> SUFFICES ASSUME NEW f \in Fs, NEW q \in lease', Holds[q][f] > 0
               PROVE  free'[f] - Promised(f)' >= Reserve
    BY DEF ReserveKept
  <2>1. Promised(f)' = Promised(f) + Holds[o][f]
    BY PromiseMade
  <2>2. Promised(f) \in Nat /\ free[f] \in Nat /\ Reserve \in Nat /\ Holds[o][f] \in Nat
    BY PromisedNat, AdmissionAssumption DEF TypeOK
  <2>3. CASE Holds[o][f] > 0
    <3>1. f \in Checked(o)
      BY <2>3, Needs
    <3>2. free[f] - Promised(f) >= Required(o, f)
      BY <1>1, <3>1 DEF IInv, RoomInv, Kept
    <3>3. Required(o, f) >= Holds[o][f] + Reserve /\ Required(o, f) \in Nat
      BY Needs
    <3> QED
      BY <1>2, <2>1, <2>2, <3>2, <3>3
  <2>4. CASE Holds[o][f] = 0
    <3>1. q \in lease
      BY <1>1, <2>4
    <3>2. free[f] - Promised(f) >= Reserve
      BY <3>1 DEF IInv, ReserveKept
    <3> QED
      BY <1>2, <2>1, <2>2, <2>4, <3>2
  <2> QED
    BY <2>2, <2>3, <2>4
<1>7. RoomInv' /\ PassInv'
  BY <1>1, <1>3 DEF RoomInv, PassInv, TypeOK
<1> QED
  BY <1>4, <1>5, <1>6, <1>7 DEF IInv

LEMMA WriteInv == ASSUME IInv, NEW o \in Op, NEW f \in Fs, Write(o, f) PROVE IInv'
<1> TypeOK
  BY DEF IInv
<1>1. /\ Promised(f)' = Promised(f) - 1 /\ free[f] > 0
      /\ \A g \in Fs \ {f} : Promised(g)' = Promised(g)
  BY PromiseWritten
<1>2. /\ left' = [left EXCEPT ![o][f] = @ - 1] /\ left[o][f] > 0
      /\ free' = [free EXCEPT ![f] = @ - 1]
      /\ UNCHANGED <<entries, recent, lease, lock, check, pc>>
  BY DEF Write
<1>3. \A g \in Fs : free[g] \in Nat /\ Promised(g) \in Nat /\ others[g] \in Nat
  BY PromisedNat DEF TypeOK
<1>4. free'[f] = free[f] - 1 /\ \A g \in Fs \ {f} : free'[g] = free[g]
  BY <1>2 DEF TypeOK
<1>5. \A g \in Fs : Kept(g)' = Kept(g) /\ Promised(g)' <= Promised(g) /\ Promised(g)' \in Int
  BY <1>1, <1>3, <1>4 DEF Kept
<1>6. \A q \in Op, g \in Fs : left'[q][g] \in Nat /\ left'[q][g] <= left[q][g]
  BY <1>2 DEF TypeOK
<1>7. TypeOK'
  <2>1. left' \in [Op -> [Fs -> Nat]]
    BY <1>2, <1>6 DEF TypeOK
  <2>2. free' \in [Fs -> Nat]
    BY <1>1, <1>2, <1>3, <1>4 DEF TypeOK
  <2> QED
    BY <1>2, <2>1, <2>2 DEF TypeOK, check
<1>8. WithinHolds'
  <2>1. \A q \in Op, g \in Fs : left[q][g] \in Nat /\ Holds[q][g] \in Nat
    BY AdmissionAssumption DEF TypeOK
  <2> QED
    BY <1>6, <2>1 DEF IInv, WithinHolds
<1>9. ReserveKept'
  BY <1>2, <1>5 DEF IInv, ReserveKept, Kept
<1>10. RoomInv'
  <2>1. \A q \in Op : Checked(q) \subseteq Fs
    BY Needs
  <2> QED
    BY <1>2, <1>3, <1>5, <2>1 DEF IInv, RoomInv, TypeOK, check
<1>11. PassInv'
  <2> SUFFICES ASSUME NEW q \in Op, pc[q] = "evict"
               PROVE  /\ CacheFs \in todo
                      /\ pass.bytes <= Short(q, CacheFs)'
                      /\ evicted = {} => /\ pass.bytes > 0
                                        /\ Eligible' \subseteq pass.try \union failed
    BY <1>2 DEF PassInv, check
  <2>1. pass.bytes <= Short(q, CacheFs) /\ pass.bytes \in Int
    BY DEF IInv, PassInv, TypeOK
  <2>2. Eligible' = Eligible
    BY <1>2 DEF Eligible, check
  <2>3. Required(q, CacheFs) \in Nat /\ CacheFs \in Fs
    BY AdmissionAssumption, Needs
  <2>4. Short(q, CacheFs)' = Required(q, CacheFs) - (free'[CacheFs] - others[CacheFs])
    BY <1>2 DEF Short, Measured, Required, check
  <2>5. Short(q, CacheFs) = Required(q, CacheFs) - (free[CacheFs] - others[CacheFs])
    BY DEF Short, Measured
  <2>6. free'[CacheFs] <= free[CacheFs] /\ free'[CacheFs] \in Int
    BY <1>3, <1>4, <2>3
  <2>7. pass.bytes <= Short(q, CacheFs)'
    BY <1>3, <2>1, <2>3, <2>4, <2>5, <2>6
  <2> QED
    BY <2>2, <2>7 DEF IInv, PassInv
<1> QED
  BY <1>7, <1>8, <1>9, <1>10, <1>11 DEF IInv

\* A release, or a death outside the lock: promises end, and nothing else changes.
LEMMA ReleaseInv ==
  ASSUME IInv, NEW o \in Op, pc[o] = "writing", pc' = [pc EXCEPT ![o] = "done"],
         lease' = lease \ {o}, left' = [left EXCEPT ![o] = None],
         UNCHANGED <<free, entries, recent, lock, check>>
  PROVE  IInv'
<1> TypeOK
  BY DEF IInv
<1>1. \A f \in Fs : Promised(f)' <= Promised(f) /\ Promised(f)' \in Nat
  BY PromisesEnd DEF TypeOK
<1>2. TypeOK'
  <2>1. /\ pc' \in [Op -> {"idle", "check", "evict", "writing", "refused", "done"}]
        /\ lease' = {q \in Op : pc'[q] = "writing"}
        /\ \A q \in Op : lock' = q <=> pc'[q] \in {"check", "evict"}
    BY DEF TypeOK
  <2>2. left' \in [Op -> [Fs -> Nat]]
    BY DEF TypeOK, None
  <2> QED
    BY <2>1, <2>2 DEF TypeOK, check
<1>3. WithinHolds'
  <2>1. \A f \in Fs : Holds[o][f] \in Nat /\ left'[o][f] = 0
    BY AdmissionAssumption DEF TypeOK, None
  <2>2. \A q \in Op : q # o => left'[q] = left[q]
    BY DEF TypeOK
  <2> QED
    BY <2>1, <2>2 DEF IInv, WithinHolds
<1>4. \A f \in Fs : free[f] \in Nat /\ Promised(f) \in Nat /\ others[f] \in Nat
  BY PromisedNat DEF TypeOK
<1>5. ReserveKept'
  <2> SUFFICES ASSUME NEW f \in Fs, NEW q \in lease', Holds[q][f] > 0
               PROVE  free[f] - Promised(f)' >= Reserve
    BY DEF ReserveKept
  <2>1. free[f] - Promised(f) >= Reserve
    BY DEF IInv, ReserveKept
  <2> QED
    BY <1>1, <1>4, <2>1, AdmissionAssumption
<1>6. RoomInv'
  <2>1. \A q \in Op : Checked(q) \subseteq Fs /\ \A f \in Fs : Required(q, f) \in Nat
    BY Needs
  <2>2. \A f \in Fs : Kept(f)' >= Kept(f) /\ Kept(f)' \in Int /\ Kept(f) \in Int
    BY <1>1, <1>4 DEF Kept
  <2> QED
    BY <1>1, <1>4, <2>1, <2>2 DEF IInv, RoomInv, TypeOK, check
<1>7. PassInv'
  <2>1. \A q \in Op : Short(q, CacheFs)' = Short(q, CacheFs)
    BY DEF Short, Measured, Required, check
  <2>2. Eligible' = Eligible
    BY DEF Eligible, check
  <2>3. \A q \in Op : pc'[q] = "evict" => pc[q] = "evict"
    BY DEF TypeOK
  <2> QED
    BY <2>1, <2>2, <2>3 DEF IInv, PassInv, check
<1> QED
  BY <1>2, <1>3, <1>5, <1>6, <1>7 DEF IInv

\* A cache hit can only take entries away from what may be evicted.
LEMMA TouchInv == ASSUME IInv, NEW e \in Entries, Touch(e) PROVE IInv'
<1> TypeOK
  BY DEF IInv
<1>1. UNCHANGED <<free, entries, left, lease, lock, check, pc>> /\ recent' = recent \union {e}
  BY DEF Touch
<1>2. \A f \in Fs : Promised(f)' = Promised(f)
  BY <1>1, PromisesStand
<1>3. TypeOK' /\ WithinHolds' /\ ReserveKept'
  BY <1>1, <1>2 DEF IInv, TypeOK, WithinHolds, ReserveKept, check
<1>4. RoomInv'
  <2>1. \A q \in Op : Checked(q) \subseteq Fs
    BY Needs
  <2> QED
    BY <1>1, <1>2, <2>1 DEF IInv, RoomInv, Kept, TypeOK, check
<1>5. PassInv'
  <2>1. \A q \in Op : Short(q, CacheFs)' = Short(q, CacheFs)
    BY <1>1 DEF Short, Measured, Required, check
  <2>2. Eligible' \subseteq Eligible
    BY <1>1 DEF Eligible, check
  <2> QED
    BY <1>1, <2>1, <2>2 DEF IInv, PassInv, check
<1> QED
  BY <1>3, <1>4, <1>5 DEF IInv

LEMMA CrashInv == ASSUME IInv, NEW o \in Op, Crash(o) PROVE IInv'
<1> TypeOK
  BY DEF IInv
<1>1. CASE pc[o] = "writing"
  <2>1. lock # o
    BY <1>1 DEF TypeOK
  <2> QED
    BY <1>1, <2>1, ReleaseInv DEF Crash, Go, Live
<1>2. CASE pc[o] # "writing"
  <2>1. lock = o /\ Leave(o, "done") /\ o \notin lease
    BY <1>2 DEF Crash, TypeOK
  <2>2. \A q \in lease : left'[q] = left[q]
    BY <2>1 DEF Crash, TypeOK
  <2>3. lease' = lease /\ free' = free /\ UNCHANGED <<entries, recent>>
    BY <2>1 DEF Crash, Live
  <2>4. \A f \in Fs : Promised(f)' <= Promised(f) /\ Promised(f)' \in Nat
    BY <2>2, <2>3, PromisesEnd
  <2>5. TypeOK'
    <3>1. /\ pc' \in [Op -> {"idle", "check", "evict", "writing", "refused", "done"}]
          /\ lease' = {q \in Op : pc'[q] = "writing"}
          /\ \A q \in Op : lock' = q <=> pc'[q] \in {"check", "evict"}
      BY <1>2, <2>1, <2>3, AdmissionAssumption DEF Leave, Go, TypeOK
    <3>2. /\ others' \in [Fs -> Nat] /\ pinned' \subseteq Entries /\ todo' \subseteq Fs
          /\ pass' \in [try : SUBSET Entries, bytes : Int] /\ lock' = Nobody
          /\ evicted' \subseteq Entries /\ failed' \subseteq Entries
      BY <2>1 DEF Leave, None, NoPass
    <3>3. left' \in [Op -> [Fs -> Nat]]
      BY DEF Crash, TypeOK, None
    <3> QED
      BY <2>3, <3>1, <3>2, <3>3 DEF TypeOK
  <2>6. WithinHolds'
    <3>1. \A f \in Fs : Holds[o][f] \in Nat /\ left'[o][f] = 0
      BY AdmissionAssumption DEF TypeOK, None, Crash
    <3>2. \A q \in Op : q # o => left'[q] = left[q]
      BY DEF TypeOK, Crash
    <3> QED
      BY <3>1, <3>2 DEF IInv, WithinHolds
  <2>7. ReserveKept'
    <3> SUFFICES ASSUME NEW f \in Fs, NEW q \in lease, Holds[q][f] > 0
                 PROVE  free[f] - Promised(f)' >= Reserve
      BY <2>3 DEF ReserveKept
    <3>1. free[f] - Promised(f) >= Reserve
      BY DEF IInv, ReserveKept
    <3>2. free[f] \in Nat /\ Promised(f) \in Nat
      BY PromisedNat DEF TypeOK
    <3> QED
      BY <2>4, <3>1, <3>2, AdmissionAssumption
  <2>8. RoomInv' /\ PassInv'
    <3>1. lock' = Nobody /\ \A q \in Op : pc'[q] # "evict"
      BY <2>1 DEF Leave, Go, TypeOK
    <3> QED
      BY <3>1 DEF RoomInv, PassInv
  <2> QED
    BY <2>5, <2>6, <2>7, <2>8 DEF IInv
<1> QED
  BY <1>1, <1>2

LEMMA NextInv == IInv /\ [Next]_vars => IInv'
<1> SUFFICES ASSUME IInv, [Next]_vars PROVE IInv'
  OBVIOUS
<1>1. CASE UNCHANGED vars
  <2>1. \A f \in Fs : Promised(f)' = Promised(f)
    BY <1>1, PromisesStand DEF vars, disk, IInv
  <2>2. TypeOK' /\ WithinHolds' /\ ReserveKept'
    BY <1>1, <2>1 DEF IInv, TypeOK, WithinHolds, ReserveKept, vars, disk, check
  <2>3. RoomInv'
    <3>1. \A q \in Op : Checked(q) \subseteq Fs
      BY Needs
    <3> QED
      BY <1>1, <2>1, <3>1 DEF IInv, RoomInv, Kept, TypeOK, vars, disk, check
  <2>4. PassInv'
    BY <1>1 DEF IInv, PassInv, Short, Measured, Required, Eligible, vars, disk, check
  <2> QED
    BY <2>2, <2>3, <2>4 DEF IInv
<1>2. ASSUME NEW o \in Op, NEW f \in Fs, NoRoom(o, f) PROVE IInv'
  BY <1>2, LeaveInv DEF NoRoom, Refuse
<1>3. ASSUME NEW o \in Op, Release(o) PROVE IInv'
  BY <1>3, ReleaseInv DEF Release, Go
<1> QED
  BY <1>1, <1>2, <1>3, BeginInv, HasRoomInv, PassStarts, EvictInv, EndPassInv, AdmitInv, WriteInv,
     TouchInv, CrashInv DEF Next, Locked

----------------------------------------------------------------------------
(* Theorems *)

\* Types of the admission: what is free, reserved and still to write are sizes, also when
\* operations write while others are admitted; a lease is held exactly while writing.
THEOREM Typed == Spec => []TypeOK
<1>1. IInv => TypeOK
  BY DEF IInv
<1> QED
  BY <1>1, InitInv, NextInv, PTL DEF Spec

\* Operations admitted at the same time never spend the same bytes, nor the reserve, for
\* any operations, sizes and filesystems, whoever writes, fails or dies in between.
THEOREM RoomIsNotSpentTwice == Spec => []ReserveKept
<1>1. IInv => ReserveKept
  BY DEF IInv
<1> QED
  BY <1>1, InitInv, NextInv, PTL DEF Spec

\* An entry goes only while the measurement falls short, and an operation is refused only
\* when the cache could not have covered what is missing, or has nothing left to delete.
THEOREM EvictionIsNeeded == Spec => EvictsAndRefusesLast
<1> DEFINE Needed == EvictsWhenShort /\ RefusesWhenExhausted
<1>1. IInv /\ [Next]_vars => [Needed]_vars
  <2> SUFFICES ASSUME IInv, Next PROVE Needed
    OBVIOUS
  <2> TypeOK
    BY DEF IInv
  <2>1. EvictsWhenShort
    <3> SUFFICES ASSUME entries' # entries PROVE Short(lock, CacheFs) > 0
      BY DEF EvictsWhenShort
    <3>1. PICK o \in Op : Evict(o)
      BY DEF Next, Locked, Begin, HasRoom, NoRoom, Refuse, StartPass, EndPass, Admit, Release,
             Crash, Write, Touch, disk
    <3>2. pc[o] = "evict" /\ lock = o /\ pass.bytes > 0 /\ pass.bytes \in Int
      BY <3>1 DEF Evict, TypeOK
    <3>3. pass.bytes <= Short(o, CacheFs)
      BY <3>2 DEF IInv, PassInv
    <3>4. Short(o, CacheFs) \in Int
      <4>1. CacheFs \in Fs /\ Required(o, CacheFs) \in Nat
        BY AdmissionAssumption, Needs
      <4> QED
        BY <4>1 DEF Short, Measured, TypeOK
    <3> QED
      BY <3>2, <3>3, <3>4
  <2>2. RefusesWhenExhausted
    <3> SUFFICES ASSUME NEW o \in Op, pc'[o] = "refused", pc[o] # "refused"
                 PROVE  \E f \in todo :
                          /\ Short(o, f) > 0
                          /\ f = CacheFs => \/ Eligible \ failed = {}
                                            \/ /\ pc[o] = "check"
                                               /\ Bytes(Eligible) < Short(o, f)
      BY DEF RefusesWhenExhausted
    <3>1. (\E f \in Fs : NoRoom(o, f)) \/ EndPass(o)
      <4>1. pc' # pc
        OBVIOUS
      <4>2. PICK q \in Op : \/ Begin(q) \/ Locked(q) \/ Release(q) \/ Crash(q)
                           \/ \E f \in Fs : Write(q, f)
        BY <4>1 DEF Next, Touch
      <4>3. \/ \E f \in Fs : NoRoom(q, f)
            \/ EndPass(q) /\ pc'[q] = "refused"
            \/ \E to \in {"check", "evict", "writing", "done"} : pc' = [pc EXCEPT ![q] = to]
        BY <4>1, <4>2 DEF Locked, Begin, HasRoom, StartPass, Evict, EndPass, Refuse, Admit,
                          Release, Crash, Write, Touch, Leave, Go, TypeOK
      <4> QED
        BY <4>3 DEF NoRoom, EndPass, Refuse, Leave, Go, TypeOK
    <3>2. ASSUME NEW f \in Fs, NoRoom(o, f)
          PROVE  /\ f \in todo /\ Short(o, f) > 0 /\ pc[o] = "check"
                 /\ f = CacheFs => Bytes(Eligible) < Short(o, f)
      <4>1. f = CacheFs => ~ Bytes(Eligible) >= Short(o, f)
        BY <3>2 DEF NoRoom, Evictable
      <4>2. Bytes(Eligible) \in Nat
        BY BytesNat DEF Eligible, TypeOK
      <4>3. Required(o, f) \in Nat
        BY Needs
      <4>4. Short(o, f) \in Int
        BY <4>3 DEF Short, Measured, TypeOK
      <4> QED
        BY <3>2, <4>1, <4>2, <4>4 DEF NoRoom
    <3>3. ASSUME EndPass(o)
          PROVE  CacheFs \in todo /\ Short(o, CacheFs) > 0 /\ Eligible \ failed = {}
      <4>1. pc[o] = "evict" /\ Short(o, CacheFs) > 0 /\ evicted = {}
        BY <3>3 DEF EndPass, Exhausted, Go, TypeOK
      <4>2. CacheFs \in todo /\ pass.bytes > 0 /\ Eligible \subseteq pass.try \union failed
        BY <4>1 DEF IInv, PassInv
      <4>3. pass.bytes \in Int /\ (pass.bytes <= 0 \/ pass.try = {})
        BY <3>3 DEF EndPass, TypeOK
      <4> QED
        BY <4>1, <4>2, <4>3
    <3> QED
      BY <3>1, <3>2, <3>3
  <2> QED
    BY <2>1, <2>2
<1> QED
  BY <1>1, InitInv, NextInv, PTL DEF Spec, EvictsAndRefusesLast

----------------------------------------------------------------------------
(* The download *)

LEMMA DownloadInit == Transfer!Init => Transfer!IInv
<1> SUFFICES ASSUME Transfer!Init PROVE Transfer!IInv
  OBVIOUS
<1>1. /\ v1 = <<>> /\ v2 = [p \in Fetchers |-> <<>>] /\ v3 = [p \in Fetchers |-> "idle"]
      /\ v4 = [p \in Fetchers |-> 0] /\ v5 = [p \in Fetchers |-> 0] /\ v6 = [p \in Fetchers |-> FALSE]
  BY DEF Transfer!Init, Transfer!Nothing
<1>2. <<>> \in Transfer!Chunks
  BY DEF Transfer!Chunks
<1>3. 0 \in 0 .. FetchSize /\ "idle" \in Transfer!Steps
  BY StorageAssumption DEF Transfer!DownloadAssumption, Transfer!Steps
<1>4. Transfer!TypeOK
  <2>1. v5 \in [Fetchers -> 0 .. FetchSize] /\ v3 \in [Fetchers -> Transfer!Steps]
    BY <1>1, <1>3
  <2>2. v1 \in Transfer!Chunks /\ v2 \in [Fetchers -> Transfer!Chunks]
    BY <1>1, <1>2
  <2> QED
    BY <1>1, <2>1, <2>2 DEF Transfer!TypeOK
<1> QED
  BY <1>1, <1>4 DEF Transfer!IInv, Transfer!PublishedIsWhole, Transfer!Nothing, Transfer!Sound

LEMMA OtherFetchers ==
  ASSUME Transfer!IInv, NEW p \in Fetchers, Transfer!TypeOK', Transfer!PublishedIsWhole', Transfer!Sound(p)',
         \A q \in Fetchers : q # p =>
           v2'[q] = v2[q] /\ v3'[q] = v3[q] /\ v4'[q] = v4[q] /\ v5'[q] = v5[q] /\ v6'[q] = v6[q]
  PROVE  Transfer!IInv'
<1> SUFFICES ASSUME NEW q \in Fetchers, q # p PROVE Transfer!Sound(q)'
  BY DEF Transfer!IInv
<1>1. Transfer!Sound(q)
  BY DEF Transfer!IInv
<1> QED
  BY <1>1 DEF Transfer!Sound, Transfer!Received, Transfer!PartOf

\* A step of a call that neither writes nor publishes.
LEMMA FetcherGoes ==
  ASSUME Transfer!IInv, NEW p \in Fetchers, NEW s \in Transfer!Steps, v3' = [v3 EXCEPT ![p] = s],
         UNCHANGED <<v1, v2, v4, v5, v6>>,
         s \in {"fetch", "resolve", "fallback"} => v5[p] = 0,
         s \in {"body", "ending"} => Transfer!Received(p),
         s = "done" => v2[p] = <<>>
  PROVE  Transfer!IInv'
<1>1. v3'[p] = s /\ \A q \in Fetchers : q # p => v3'[q] = v3[q]
  BY DEF Transfer!IInv, Transfer!TypeOK
<1>2. Transfer!TypeOK'
  BY DEF Transfer!IInv, Transfer!TypeOK
<1>3. Transfer!PublishedIsWhole'
  BY DEF Transfer!IInv, Transfer!PublishedIsWhole
<1>4. Transfer!Received(p)' <=> Transfer!Received(p)
  BY DEF Transfer!Received
<1>5. Transfer!Sound(p)'
  BY <1>1, <1>4 DEF Transfer!Sound, Transfer!PartOf, Transfer!Nothing
<1> QED
  BY <1>1, <1>2, <1>3, <1>5, OtherFetchers

\* The end of an attempt leaves no partial file.
LEMMA FetcherLeaves ==
  ASSUME Transfer!IInv, NEW p \in Fetchers, NEW s \in {"backoff", "done"}, NEW r,
         Transfer!Leave(p, s, r), Transfer!RemoveIfPresent(p), Transfer!PublishedIsWhole', v1' \in Transfer!Chunks
  PROVE  Transfer!IInv'
<1>1. /\ v2' = [v2 EXCEPT ![p] = <<>>] /\ v3' = [v3 EXCEPT ![p] = s] /\ v5' = [v5 EXCEPT ![p] = 0]
      /\ v6' = [v6 EXCEPT ![p] = FALSE] /\ v4' = v4
  BY DEF Transfer!Leave, Transfer!RemoveIfPresent, Transfer!PartOf, Transfer!Nothing
<1>2. <<>> \in Transfer!Chunks /\ 0 \in 0 .. FetchSize /\ s \in Transfer!Steps
  BY StorageAssumption DEF Transfer!Chunks, Transfer!DownloadAssumption, Transfer!Steps
<1>3. Transfer!TypeOK'
  <2>1. v2' \in [Fetchers -> Transfer!Chunks] /\ v5' \in [Fetchers -> 0 .. FetchSize]
    BY <1>1, <1>2 DEF Transfer!IInv, Transfer!TypeOK
  <2> QED
    BY <1>1, <1>2, <2>1 DEF Transfer!IInv, Transfer!TypeOK
<1>4. /\ v3'[p] = s /\ v2'[p] = <<>>
      /\ \A q \in Fetchers : q # p =>
           v2'[q] = v2[q] /\ v3'[q] = v3[q] /\ v4'[q] = v4[q] /\ v5'[q] = v5[q] /\ v6'[q] = v6[q]
  BY <1>1 DEF Transfer!IInv, Transfer!TypeOK
<1>5. Transfer!Sound(p)'
  BY <1>4 DEF Transfer!Sound, Transfer!PartOf, Transfer!Nothing
<1> QED
  BY <1>3, <1>4, <1>5, OtherFetchers

LEMMA FetcherSettles ==
  ASSUME Transfer!IInv, NEW p \in Fetchers, NEW verdict, Transfer!Settle(p, verdict)
  PROVE  Transfer!IInv'
<1>1. PICK s \in {"backoff", "done"} : \E r : Transfer!Leave(p, s, r)
  BY DEF Transfer!Settle
<1>2. Transfer!RemoveIfPresent(p) /\ v1' = v1
  BY DEF Transfer!Settle
<1>3. Transfer!PublishedIsWhole' /\ v1' \in Transfer!Chunks
  BY <1>2 DEF Transfer!IInv, Transfer!TypeOK, Transfer!PublishedIsWhole
<1> QED
  BY <1>1, <1>2, <1>3, FetcherLeaves

LEMMA FetcherFails ==
  ASSUME Transfer!IInv, NEW p \in Fetchers, NEW what, Transfer!Fail(p, what)
  PROVE  Transfer!IInv'
  BY FetcherSettles DEF Transfer!Fail

LEMMA HeadersCome ==
  ASSUME Transfer!IInv, NEW p \in Fetchers, v3[p] \in {"fetch", "fallback"}, Transfer!Headers(p)
  PROVE  Transfer!IInv'
<1>1. CASE v3' = [v3 EXCEPT ![p] = "body"]
  <2>1. PICK known \in BOOLEAN : v6' = [v6 EXCEPT ![p] = known]
    <3>1. v3'[p] # "cancel"
      BY <1>1 DEF Transfer!IInv, Transfer!TypeOK
    <3>2. v3' # [v3 EXCEPT ![p] = "cancel"]
      BY <3>1 DEF Transfer!IInv, Transfer!TypeOK
    <3> QED
      BY <3>2 DEF Transfer!Headers
  <2>2. v2' = [v2 EXCEPT ![p] = <<>>] /\ UNCHANGED <<v1, v4, v5>>
    <3>1. v3'[p] # "cancel"
      BY <1>1 DEF Transfer!IInv, Transfer!TypeOK
    <3>2. v3' # [v3 EXCEPT ![p] = "cancel"]
      BY <3>1 DEF Transfer!IInv, Transfer!TypeOK
    <3> QED
      BY <3>2 DEF Transfer!Headers, Transfer!PartOf, Transfer!Nothing
  <2>3. <<>> \in Transfer!Chunks /\ "body" \in Transfer!Steps
    BY DEF Transfer!Chunks, Transfer!Steps
  <2>4. Transfer!TypeOK'
    BY <1>1, <2>1, <2>2, <2>3 DEF Transfer!IInv, Transfer!TypeOK
  <2>5. /\ v3'[p] = "body" /\ v2'[p] = <<>> /\ v5'[p] = 0
        /\ \A q \in Fetchers : q # p =>
             v2'[q] = v2[q] /\ v3'[q] = v3[q] /\ v4'[q] = v4[q] /\ v5'[q] = v5[q] /\ v6'[q] = v6[q]
    BY <1>1, <2>1, <2>2 DEF Transfer!IInv, Transfer!TypeOK, Transfer!Sound
  <2>6. Transfer!Sound(p)'
    <3>1. Len(<<>>) = 0 /\ DOMAIN <<>> = {}
      OBVIOUS
    <3> QED
      BY <2>5, <3>1 DEF Transfer!Sound, Transfer!Received, Transfer!PartOf
  <2>7. Transfer!PublishedIsWhole'
    BY <2>2 DEF Transfer!IInv, Transfer!PublishedIsWhole
  <2> QED
    BY <2>4, <2>5, <2>6, <2>7, OtherFetchers
<1>2. CASE v3' = [v3 EXCEPT ![p] = "cancel"] /\ UNCHANGED <<v1, v2, v4, v5, v6>>
  BY <1>2, FetcherGoes DEF Transfer!Steps
<1> QED
  BY <1>1, <1>2 DEF Transfer!Headers

LEMMA FetcherBegins ==
  ASSUME Transfer!IInv, NEW p \in Fetchers, NEW n \in Nat, Transfer!Begin(p, n)
  PROVE  Transfer!IInv'
<1>1. /\ v4' = [v4 EXCEPT ![p] = n] /\ v3' = [v3 EXCEPT ![p] = "fetch"] /\ v5' = [v5 EXCEPT ![p] = 0]
      /\ UNCHANGED <<v1, v2, v6>>
  BY DEF Transfer!Begin
<1>2. 0 \in 0 .. FetchSize /\ "fetch" \in Transfer!Steps
  BY StorageAssumption DEF Transfer!DownloadAssumption, Transfer!Steps
<1>3. Transfer!TypeOK'
  <2>1. v5' \in [Fetchers -> 0 .. FetchSize]
    BY <1>1, <1>2 DEF Transfer!IInv, Transfer!TypeOK
  <2> QED
    BY <1>1, <1>2, <2>1 DEF Transfer!IInv, Transfer!TypeOK
<1>4. /\ v3'[p] = "fetch" /\ v5'[p] = 0
      /\ \A q \in Fetchers : q # p => v3'[q] = v3[q] /\ v4'[q] = v4[q] /\ v5'[q] = v5[q]
  BY <1>1 DEF Transfer!IInv, Transfer!TypeOK
<1>5. Transfer!PublishedIsWhole'
  BY <1>1 DEF Transfer!IInv, Transfer!PublishedIsWhole
<1>6. Transfer!Sound(p)'
  BY <1>4 DEF Transfer!Sound
<1> QED
  BY <1>1, <1>3, <1>4, <1>5, <1>6, OtherFetchers

LEMMA FetcherReceives ==
  ASSUME Transfer!IInv, NEW p \in Fetchers, Transfer!Receive(p) PROVE Transfer!IInv'
<1> DEFINE c == <<p, v4[p], v6[p]>>
<1>1. /\ v3[p] = "body" /\ v5[p] < FetchSize /\ v5' = [v5 EXCEPT ![p] = @ + 1]
      /\ v2' = [v2 EXCEPT ![p] = Append(@, c)] /\ UNCHANGED <<v1, v3, v4, v6>>
  BY DEF Transfer!Receive, Transfer!PartOf
<1>2. c \in Fetchers \X Nat \X BOOLEAN /\ v2[p] \in Seq(Fetchers \X Nat \X BOOLEAN)
  BY DEF Transfer!IInv, Transfer!TypeOK, Transfer!Chunks
<1>3. /\ Len(v2[p]) = v5[p] /\ \A i \in DOMAIN v2[p] : v2[p][i] = c
  BY <1>1 DEF Transfer!IInv, Transfer!Sound, Transfer!Received, Transfer!PartOf
<1>4. v2'[p] = Append(v2[p], c) /\ v5'[p] = v5[p] + 1
      /\ \A q \in Fetchers : q # p => v2'[q] = v2[q] /\ v5'[q] = v5[q]
  BY <1>1 DEF Transfer!IInv, Transfer!TypeOK
<1> HIDE DEF c
<1>5. Append(v2[p], c) \in Transfer!Chunks /\ Len(Append(v2[p], c)) = Len(v2[p]) + 1
      /\ \A i \in DOMAIN Append(v2[p], c) : Append(v2[p], c)[i] = c
  <2> DEFINE S == Fetchers \X Nat \X BOOLEAN
  <2>1. PICK u \in Seq(S) : u = v2[p]
    BY <1>2
  <2>2. c \in S
    BY <1>2
  <2> HIDE DEF S
  <2>3. Append(u, c) \in Seq(S) /\ Len(Append(u, c)) = Len(u) + 1
    BY <2>2
  <2>4. \A i \in DOMAIN u : u[i] = c
    BY <1>3, <2>1
  <2>5. \A i \in DOMAIN Append(u, c) : Append(u, c)[i] = c
    BY <2>2, <2>4
  <2> QED
    BY <2>1, <2>3, <2>5 DEF S, Transfer!Chunks
<1>6. v5[p] \in 0 .. FetchSize /\ FetchSize \in Nat
  BY StorageAssumption DEF Transfer!IInv, Transfer!TypeOK, Transfer!DownloadAssumption
<1>7. Transfer!TypeOK'
  <2>1. v5' \in [Fetchers -> 0 .. FetchSize]
    <3>1. v5[p] + 1 \in 0 .. FetchSize
      BY <1>1, <1>6
    <3> QED
      BY <1>1, <3>1 DEF Transfer!IInv, Transfer!TypeOK
  <2>2. v2' \in [Fetchers -> Transfer!Chunks]
    BY <1>1, <1>5 DEF Transfer!IInv, Transfer!TypeOK
  <2> QED
    BY <1>1, <2>1, <2>2 DEF Transfer!IInv, Transfer!TypeOK
<1>8. Transfer!PublishedIsWhole'
  BY <1>1 DEF Transfer!IInv, Transfer!PublishedIsWhole
<1>9. Transfer!Sound(p)'
  <2>1. Len(v2'[p]) = v5'[p]
    BY <1>3, <1>4, <1>5
  <2>2. \A i \in DOMAIN v2'[p] : v2'[p][i] = <<p, v4'[p], v6'[p]>>
    BY <1>1, <1>4, <1>5 DEF c
  <2>3. v3'[p] = "body"
    BY <1>1
  <2> QED
    BY <2>1, <2>2, <2>3 DEF Transfer!Sound, Transfer!Received, Transfer!PartOf
<1> QED
  BY <1>1, <1>4, <1>7, <1>8, <1>9, OtherFetchers

\* What is renamed into place is what one attempt received.
LEMMA FetcherFinishes ==
  ASSUME Transfer!IInv, NEW p \in Fetchers, Transfer!Finish(p) PROVE Transfer!IInv'
<1>1. v3[p] = "ending"
  BY DEF Transfer!Finish
<1>2. CASE Transfer!LengthHolds(p) /\ v1' = v2[p] /\ v2' = [v2 EXCEPT ![p] = <<>>] /\ Transfer!Leave(p, "done", "saved")
  <2>1. /\ Len(v2[p]) = v5[p] /\ \A i \in DOMAIN v2[p] : v2[p][i] = <<p, v4[p], v6[p]>>
    BY <1>1 DEF Transfer!IInv, Transfer!Sound, Transfer!Received, Transfer!PartOf
  <2>2. v5[p] # 0 /\ (v6[p] => v5[p] = FetchSize)
    BY <1>2 DEF Transfer!LengthHolds
  <2>3. v2[p] \in Transfer!Chunks /\ v2[p] \in Seq(Fetchers \X Nat \X BOOLEAN)
    BY DEF Transfer!IInv, Transfer!TypeOK, Transfer!Chunks
  <2>4. 1 \in DOMAIN v2[p]
    BY <2>1, <2>2, <2>3
  <2>5. \A i, j \in DOMAIN v1' : v1'[i] = v1'[j]
    BY <1>2, <2>1
  <2>6. v1'[1] = <<p, v4[p], v6[p]>>
    BY <1>2, <2>1, <2>4
  <2>7. v1'[1][3] = v6[p]
    BY <2>6
  <2>8. v1'[1][3] => Len(v1') = FetchSize
    BY <1>2, <2>1, <2>2, <2>7
  <2>9. Transfer!PublishedIsWhole'
    BY <2>5, <2>8 DEF Transfer!PublishedIsWhole
  <2>10. Transfer!RemoveIfPresent(p)
    BY <1>2 DEF Transfer!RemoveIfPresent, Transfer!PartOf, Transfer!Nothing
  <2> QED
    BY <1>2, <2>3, <2>9, <2>10, FetcherLeaves
<1>3. CASE Transfer!Settle(p, "fault") \/ Transfer!Fail(p, "fault")
  BY <1>3, FetcherSettles, FetcherFails
<1> QED
  BY <1>2, <1>3 DEF Transfer!Finish, Transfer!PartOf, Transfer!Nothing

LEMMA FetcherSame ==
  ASSUME Transfer!IInv, UNCHANGED <<v1, v2, v3, v4, v5, v6>> PROVE Transfer!IInv'
  BY DEF Transfer!IInv, Transfer!TypeOK, Transfer!PublishedIsWhole, Transfer!Sound, Transfer!Received,
     Transfer!PartOf

LEMMA DownloadStep == ASSUME Transfer!IInv, [Transfer!Next]_(Transfer!vars) PROVE Transfer!IInv'
<1>1. CASE UNCHANGED Transfer!vars
  BY <1>1, FetcherSame DEF Transfer!vars
<1>2. ASSUME NEW p \in Fetchers, Transfer!Call(p) PROVE Transfer!IInv'
  BY <1>2, FetcherBegins DEF Transfer!Call
<1>3. ASSUME NEW p \in Fetchers, Transfer!Fetch(p) PROVE Transfer!IInv'
  <2>1. v3[p] = "fetch" /\ v5[p] = 0
    BY <1>3 DEF Transfer!Fetch, Transfer!IInv, Transfer!Sound
  <2>2. CASE Transfer!Headers(p)
    BY <2>1, <2>2, HeadersCome
  <2>3. CASE Transfer!Go(p, "resolve")
    BY <2>1, <2>3, FetcherGoes DEF Transfer!Go, Transfer!Steps
  <2>4. ASSUME NEW e, Transfer!Fail(p, Transfer!Class(e)) PROVE Transfer!IInv'
    BY <2>4, FetcherFails
  <2> QED
    BY <1>3, <2>2, <2>3, <2>4 DEF Transfer!Fetch
<1>4. ASSUME NEW p \in Fetchers, Transfer!Resolve(p) PROVE Transfer!IInv'
  <2>1. v3[p] = "resolve" /\ v5[p] = 0
    BY <1>4 DEF Transfer!Resolve, Transfer!IInv, Transfer!Sound
  <2>2. CASE Transfer!Go(p, "fallback")
    BY <2>1, <2>2, FetcherGoes DEF Transfer!Go, Transfer!Steps
  <2> QED
    BY <1>4, <2>2, FetcherFails DEF Transfer!Resolve
<1>5. ASSUME NEW p \in Fetchers, Transfer!Fallback(p) PROVE Transfer!IInv'
  <2>1. v3[p] = "fallback"
    BY <1>5 DEF Transfer!Fallback
  <2>2. CASE Transfer!Headers(p)
    BY <2>1, <2>2, HeadersCome
  <2> QED
    BY <1>5, <2>2, FetcherFails DEF Transfer!Fallback
<1>6. ASSUME NEW p \in Fetchers, Transfer!Trickle(p) \/ Transfer!Silence(p) PROVE Transfer!IInv'
  BY <1>6, FetcherSame DEF Transfer!Trickle, Transfer!Silence
<1>7. ASSUME NEW p \in Fetchers, Transfer!EndBody(p) PROVE Transfer!IInv'
  <2>1. Transfer!Received(p)
    BY <1>7 DEF Transfer!EndBody, Transfer!IInv, Transfer!Sound
  <2> QED
    BY <1>7, <2>1, FetcherGoes DEF Transfer!EndBody, Transfer!Go, Transfer!Steps
<1>8. ASSUME NEW p \in Fetchers, Transfer!Break(p) PROVE Transfer!IInv'
  BY <1>8, FetcherGoes DEF Transfer!Break, Transfer!Steps
<1>9. ASSUME NEW p \in Fetchers, NEW timer \in Transfer!BodyTimers, Transfer!Fire(p, timer) PROVE Transfer!IInv'
  <2>1. CASE v3[p] \in {"fetch", "fallback"}
    BY <1>9, <2>1, FetcherSettles DEF Transfer!Fire
  <2>2. CASE v3[p] \notin {"fetch", "fallback"}
    <3>1. v3' = [v3 EXCEPT ![p] = IF @ = "body" THEN "closing" ELSE @] /\ UNCHANGED <<v1, v2, v4, v5, v6>>
      BY <1>9, <2>2 DEF Transfer!Fire
    <3>2. CASE v3[p] = "body"
      <4>1. v3' = [v3 EXCEPT ![p] = "closing"]
        BY <3>1, <3>2
      <4> QED
        BY <3>1, <4>1, FetcherGoes DEF Transfer!Steps
    <3>3. CASE v3[p] # "body"
      <4>1. v3' = v3
        BY <3>1, <3>3 DEF Transfer!IInv, Transfer!TypeOK
      <4> QED
        BY <3>1, <4>1, FetcherSame
    <3> QED
      BY <3>2, <3>3
  <2> QED
    BY <2>1, <2>2
<1>10. ASSUME NEW p \in Fetchers, Transfer!Closed(p) PROVE Transfer!IInv'
  BY <1>10, FetcherFails DEF Transfer!Closed
<1>11. ASSUME NEW p \in Fetchers, Transfer!Retry(p) PROVE Transfer!IInv'
  <2>1. v4[p] + 1 \in Nat
    BY DEF Transfer!IInv, Transfer!TypeOK
  <2> QED
    BY <1>11, <2>1, FetcherBegins DEF Transfer!Retry
<1>12. ASSUME NEW p \in Fetchers, Transfer!Crash(p) PROVE Transfer!IInv'
  BY <1>12, FetcherGoes DEF Transfer!Crash, Transfer!Steps
<1> QED
  BY <1>1, <1>2, <1>3, <1>4, <1>5, <1>6, <1>7, <1>8, <1>9, <1>10, <1>11, <1>12, FetcherReceives,
     FetcherFinishes DEF Transfer!Next

\* Whatever processes fetch, retry and die, what is published is the work of one attempt, and
\* whole when the server gave a length; a call that ended left no partial file
\* (download.ts:248-275).
THEOREM DownloadsAreWhole == Storage => []PublishedIsWhole
<1> DEFINE Inv == plays = "download" => Transfer!IInv
<1>1. ASSUME StorageInit PROVE Inv
  BY <1>1, DownloadInit DEF StorageInit
<1>2. ASSUME Inv, [StorageNext]_all PROVE Inv'
  <2>1. ASSUME plays' = "download" PROVE plays = "download" /\ [Transfer!Next]_(Transfer!vars)
    BY <1>2, <2>1 DEF StorageNext, all, slots, Transfer!vars
  <2> QED
    BY <1>2, <2>1, DownloadStep
<1>3. Inv => PublishedIsWhole
  BY DEF PublishedIsWhole, Transfer!IInv, Transfer!Sound, Transfer!NothingLeftBehind
<1> QED
  <2>1. Storage => StorageInit /\ [][StorageNext]_all
    BY DEF Storage
  <2> QED
    BY <1>1, <1>2, <1>3, <2>1, PTL
=============================================================================
