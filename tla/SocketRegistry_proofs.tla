----------------------- MODULE SocketRegistry_proofs -----------------------
(***************************************************************************)
(* Named sockets, for any processes, machines, links and starts.           *)
(*                                                                         *)
(* What a machine has of a link follows from how far it is in joining or   *)
(* leaving its links (Place), and no other machine's step takes it or adds *)
(* to it (Keeps): it claims another end, leaves its own, and removes no    *)
(* entry with a member.  What QEMU is told comes from the process's copy:  *)
(* that agrees with the file on this machine's end, as the process does    *)
(* nothing else with links meanwhile (OneAtATime, CreateInv).              *)
(***************************************************************************)
EXTENDS SocketRegistry, WellFoundedInduction, TLAPS

----------------------------------------------------------------------------
(* Entries *)

\* An entry that is there: two ends, or a group without any.
Made ==
  [mode : Pair, port : Nat, auto : BOOLEAN, members : SUBSET Machine,
   ends : [{1, 2} -> Machine \union {Nobody}]]
    \union
  [mode : {"mcast"}, port : Nat, auto : BOOLEAN, members : SUBSET Machine, ends : {<<>>}]

\* The ends of an entry are of different machines.
Single(e) == e.mode \in Pair /\ e.ends[1] = e.ends[2] => e.ends[1] = Nobody

\* The machine is on the link, with an end if it has ends; or not at all.
Has(e, m) == e # NoLink /\ m \in e.members /\ (e.mode \in Pair => EndOf(e, m) # {})
HasNot(e, m) == e # NoLink => m \notin e.members /\ EndOf(e, m) = {}

\* Two copies of an entry agree on the machine's end.
Same(d, e, m) == d.mode = e.mode /\ (e.mode \in Pair => EndOf(d, m) = EndOf(e, m))

\* A change of the entry from e to f takes nothing from the machine and gives it nothing.
Keeps(e, f, m) ==
  /\ Has(e, m) => Has(f, m) /\ Same(e, f, m)
  /\ HasNot(e, m) => HasNot(f, m)

LEMMA MadeIs ==
  ASSUME NEW e \in Made
  PROVE  /\ e # NoLink /\ e.mode \in Mode /\ e.port \in Nat /\ e.auto \in BOOLEAN
         /\ e.members \subseteq Machine
         /\ e.mode \in Pair => /\ DOMAIN e.ends = {1, 2}
                               /\ \A i \in {1, 2} : e.ends[i] \in Machine \union {Nobody}
         /\ e.mode \notin Pair => e.mode = "mcast" /\ DOMAIN e.ends = {}
<1>1. NoLink.mode = "none" /\ "none" \notin Mode
  BY DEF NoLink, Mode, Pair
<1>2. e.mode \in Mode
  BY DEF Made, Mode
<1>3. DOMAIN <<>> = {}
  OBVIOUS
<1> QED
  BY <1>1, <1>2, <1>3 DEF Made, Mode, Pair

LEMMA MadeChanged ==
  ASSUME NEW e \in Made, NEW members \in SUBSET Machine, NEW ends,
         e.mode \in Pair => ends \in [{1, 2} -> Machine \union {Nobody}],
         e.mode \notin Pair => ends = <<>>,
         NEW f, f = [e EXCEPT !.members = members, !.ends = ends]
  PROVE  f \in Made
<1>1. CASE e.mode \in Pair
  BY <1>1 DEF Made, Pair
<1>2. CASE e.mode \notin Pair
  BY <1>2 DEF Made
<1> QED
  BY <1>1, <1>2

\* A new entry is nobody's, and has room.
LEMMA EntryIs ==
  ASSUME RegistryAssumption, NEW mode \in Mode, NEW port \in Nat, NEW auto \in BOOLEAN
  PROVE  LET e == Entry(mode, port, auto)
         IN  /\ e \in Made /\ Single(e) /\ e.mode = mode /\ e.port = port /\ e.auto = auto
             /\ e.members = {}
             /\ \A m \in Machine : EndOf(e, m) = {} /\ ~ Full(e, m)
<1> DEFINE e == Entry(mode, port, auto)
<1>1. e.mode = mode /\ e.port = port /\ e.auto = auto /\ e.members = {}
  BY DEF Entry
<1>2. CASE mode \in Pair
  <2>1. e.ends = <<Nobody, Nobody>> /\ DOMAIN e.ends = {1, 2}
        /\ e.ends[1] = Nobody /\ e.ends[2] = Nobody
    BY <1>2 DEF Entry
  <2>2. e.ends \in [{1, 2} -> Machine \union {Nobody}]
    BY <2>1, <1>2 DEF Entry
  <2>3. e \in Made
    BY <2>2, <1>2 DEF Entry, Made
  <2>4. 1 \in EndOf(e, Nobody) /\ \A m \in Machine : EndOf(e, m) = {}
    BY <2>1 DEF EndOf, RegistryAssumption
  <2> QED
    BY <1>1, <2>1, <2>3, <2>4 DEF Single, Full
<1>3. CASE mode \notin Pair
  <2>1. mode = "mcast"
    BY <1>3 DEF Mode
  <2>2. e.ends = <<>> /\ DOMAIN e.ends = {}
    BY <1>3 DEF Entry
  <2>3. e \in Made
    BY <1>3, <2>1 DEF Entry, Made
  <2> QED
    BY <1>1, <1>3, <2>2, <2>3 DEF Single, Full, EndOf
<1> QED
  BY <1>2, <1>3

\* A link of unix datagrams has no port.
LEMMA NewDgram ==
  ASSUME RegistryAssumption, NEW auto \in BOOLEAN
  PROVE  LET e == Entry("dgram", 0, auto)
         IN  /\ e \in Made /\ Single(e) /\ e.port = 0 /\ e.auto = auto /\ e.members = {}
             /\ \A m \in Machine : EndOf(e, m) = {} /\ ~ Full(e, m)
<1> DEFINE mode == "dgram"
<1>1. mode \in Mode /\ 0 \in Nat
  BY DEF Mode, Pair
<1> HIDE DEF mode
<1>2. LET e == Entry(mode, 0, auto)
      IN  /\ e \in Made /\ Single(e) /\ e.port = 0 /\ e.auto = auto /\ e.members = {}
          /\ \A m \in Machine : EndOf(e, m) = {} /\ ~ Full(e, m)
  BY <1>1, EntryIs
<1> QED
  BY <1>2 DEF mode

\* A claim gives the machine an end, and leaves the others theirs.
LEMMA ClaimedIs ==
  ASSUME RegistryAssumption, NEW e \in Made, NEW m \in Machine, ~ Full(e, m)
  PROVE  LET f == Claimed(e, m)
         IN  /\ f \in Made /\ f.mode = e.mode /\ f.port = e.port /\ f.auto = e.auto
             /\ f.members = e.members \union {m} /\ Has(f, m)
             /\ \A k \in Machine \ {m} : EndOf(f, k) = EndOf(e, k)
             /\ Single(e) => Single(f)
<1> DEFINE f == Claimed(e, m)
           Free(i) == e.ends[i] = Nobody /\ \A j \in 1..(i - 1) : e.ends[j] # Nobody
           free == CHOOSE i \in DOMAIN e.ends : Free(i)
           ends == IF EndOf(e, m) # {} \/ e.mode = "mcast" THEN e.ends
                   ELSE [e.ends EXCEPT ![free] = m]
<1>1. f = [e EXCEPT !.members = @ \union {m}, !.ends = ends]
  BY DEF Claimed
<1>2. /\ f.mode = e.mode /\ f.port = e.port /\ f.auto = e.auto
      /\ f.members = e.members \union {m} /\ f.ends = ends
  BY <1>1 DEF Made
<1>3. CASE EndOf(e, m) # {} \/ e.mode = "mcast"
  <2>1. ends = e.ends
    BY <1>3
  <2>2. f \in Made
    <3>1. /\ e.mode \in Pair => ends \in [{1, 2} -> Machine \union {Nobody}]
          /\ e.mode \notin Pair => ends = <<>>
      BY <2>1 DEF Made, Pair
    <3>2. e.members \union {m} \in SUBSET Machine
      BY MadeIs
    <3> HIDE DEF ends
    <3> QED
      BY <1>1, <3>1, <3>2, MadeChanged
  <2>3. \A k : EndOf(f, k) = EndOf(e, k)
    BY <1>2, <2>1 DEF EndOf
  <2>4. e.mode = "mcast" => e.mode \notin Pair
    BY DEF Pair
  <2> HIDE DEF f
  <2>5. Has(f, m)
    BY <1>2, <1>3, <2>2, <2>3, <2>4, MadeIs DEF Has
  <2>6. Single(e) => Single(f)
    BY <1>2, <2>1 DEF Single
  <2> QED
    BY <1>2, <2>2, <2>3, <2>5, <2>6 DEF f
<1>4. CASE EndOf(e, m) = {} /\ e.mode # "mcast"
  <2>1. e.mode \in Pair
    BY <1>4, MadeIs DEF Mode
  <2>2. DOMAIN e.ends = {1, 2} /\ e.ends \in [{1, 2} -> Machine \union {Nobody}]
    BY <2>1 DEF Made, Pair
  <2>3. \E i \in {1, 2} : e.ends[i] = Nobody
    BY <1>4, <2>1, <2>2 DEF Full, EndOf
  <2>4. \E i \in DOMAIN e.ends : Free(i)
    <3>1. CASE e.ends[1] = Nobody
      BY <3>1, <2>2
    <3>2. CASE e.ends[1] # Nobody
      <4>1. e.ends[2] = Nobody
        BY <3>2, <2>3
      <4>2. \A j \in 1..(2 - 1) : j = 1
        OBVIOUS
      <4> QED
        BY <4>1, <4>2, <3>2, <2>2
    <3> QED
      BY <3>1, <3>2
  <2>5. free \in {1, 2} /\ e.ends[free] = Nobody
    <3> HIDE DEF Free
    <3>1. free \in DOMAIN e.ends /\ Free(free)
      BY <2>4
    <3> QED
      BY <3>1, <2>2 DEF Free
  <2> HIDE DEF free
  <2>6. ends = [e.ends EXCEPT ![free] = m]
    BY <1>4
  <2> HIDE DEF ends
  <2>7. ends \in [{1, 2} -> Machine \union {Nobody}] /\ ends[free] = m
        /\ \A i \in {1, 2} : i # free => ends[i] = e.ends[i]
    BY <2>2, <2>5, <2>6
  <2>8. f \in Made
    <3>1. e.members \union {m} \in SUBSET Machine
      BY MadeIs
    <3> QED
      BY <1>1, <2>1, <2>7, <3>1, MadeChanged
  <2>9. DOMAIN f.ends = {1, 2}
    BY <1>2, <2>7
  <2> HIDE DEF f
  <2>10. \A k \in Machine \ {m} : EndOf(f, k) = EndOf(e, k)
    BY <1>2, <2>2, <2>5, <2>7, <2>9 DEF EndOf, RegistryAssumption
  <2>11. free \in EndOf(f, m)
    BY <1>2, <2>5, <2>7, <2>9 DEF EndOf
  <2>12. Has(f, m)
    BY <1>2, <2>8, <2>11, MadeIs DEF Has
  <2>13. Single(f)
    BY <1>2, <1>4, <2>2, <2>5, <2>7 DEF Single, EndOf, RegistryAssumption
  <2> QED
    BY <1>2, <2>8, <2>10, <2>12, <2>13 DEF f
<1> QED
  BY <1>3, <1>4

\* A machine that leaves gives up its end and nobody else's.
LEMMA LeftIs ==
  ASSUME RegistryAssumption, NEW e \in Made, NEW m \in Machine
  PROVE  LET f == Left(e, m)
         IN  /\ f \in Made /\ f.mode = e.mode /\ f.port = e.port /\ f.auto = e.auto
             /\ f.members = e.members \ {m} /\ HasNot(f, m)
             /\ \A k \in Machine \ {m} : EndOf(f, k) = EndOf(e, k)
             /\ Single(e) => Single(f)
<1> DEFINE f == Left(e, m)
           ends == [i \in DOMAIN e.ends |-> IF e.ends[i] = m THEN Nobody ELSE e.ends[i]]
<1>1. f = [e EXCEPT !.members = @ \ {m}, !.ends = ends]
  BY DEF Left
<1>2. /\ f.mode = e.mode /\ f.port = e.port /\ f.auto = e.auto
      /\ f.members = e.members \ {m} /\ f.ends = ends
  BY <1>1 DEF Made
<1>3. f \in Made
  <2>1. e.mode \in Pair => ends \in [{1, 2} -> Machine \union {Nobody}]
    BY MadeIs
  <2>2. e.mode \notin Pair => ends = <<>>
    BY MadeIs
  <2>3. e.members \ {m} \in SUBSET Machine
    BY MadeIs
  <2> HIDE DEF ends
  <2> QED
    BY <1>1, <2>1, <2>2, <2>3, MadeChanged
<1>4. DOMAIN f.ends = DOMAIN e.ends
  BY <1>2
<1>5. \A i \in DOMAIN e.ends : f.ends[i] = IF e.ends[i] = m THEN Nobody ELSE e.ends[i]
  BY <1>2
<1> HIDE DEF f
<1>6. \A k \in Machine \ {m} : EndOf(f, k) = EndOf(e, k)
  BY <1>4, <1>5 DEF EndOf, RegistryAssumption
<1>7. HasNot(f, m)
  BY <1>2, <1>4, <1>5 DEF HasNot, EndOf, RegistryAssumption
<1>8. Single(e) => Single(f)
  BY <1>2, <1>5, MadeIs DEF Single
<1> QED
  BY <1>2, <1>3, <1>6, <1>7, <1>8 DEF f

LEMMA KeepsChanged ==
  ASSUME NEW e \in Made, NEW f \in Made, NEW k, f.mode = e.mode,
         EndOf(f, k) = EndOf(e, k), k \in f.members <=> k \in e.members
  PROVE  Keeps(e, f, k)
BY MadeIs DEF Keeps, Has, HasNot, Same

LEMMA KeepsClaimed ==
  ASSUME RegistryAssumption, NEW e \in Made, NEW m \in Machine, ~ Full(e, m),
         NEW k \in Machine, k # m
  PROVE  Keeps(e, Claimed(e, m), k)
<1> DEFINE f == Claimed(e, m)
<1>1. /\ f \in Made /\ f.mode = e.mode /\ f.members = e.members \union {m}
      /\ EndOf(f, k) = EndOf(e, k)
  BY ClaimedIs
<1> HIDE DEF f
<1>2. Keeps(e, f, k)
  BY <1>1, KeepsChanged
<1> QED
  BY <1>2 DEF f

LEMMA KeepsLeft ==
  ASSUME RegistryAssumption, NEW e \in Made, NEW m \in Machine, NEW k \in Machine, k # m
  PROVE  Keeps(e, Left(e, m), k)
<1> DEFINE f == Left(e, m)
<1>1. /\ f \in Made /\ f.mode = e.mode /\ f.members = e.members \ {m}
      /\ EndOf(f, k) = EndOf(e, k)
  BY LeftIs
<1> HIDE DEF f
<1>2. Keeps(e, f, k)
  BY <1>1, KeepsChanged
<1> QED
  BY <1>2 DEF f

\* An entry made for a machine, or for none, has nothing of another.
LEMMA KeepsNew ==
  ASSUME NEW f, NEW k, HasNot(f, k)
  PROVE  Keeps(NoLink, f, k)
BY DEF Keeps, Has, HasNot

\* An entry that is removed had nothing of a machine, as it had no member.
LEMMA KeepsRemoved ==
  ASSUME NEW e, e.members = {}, NEW k
  PROVE  Keeps(e, NoLink, k)
BY DEF Keeps, Has, HasNot

LEMMA KeepsSame == ASSUME NEW e, NEW k PROVE Keeps(e, e, k)
BY DEF Keeps, Same

----------------------------------------------------------------------------
(* Types; a process does one thing at a time; ports                        *)

Elems(s) == {s[i] : i \in DOMAIN s}

LEMMA ElemsIs ==
  ASSUME NEW s \in Seq(Link), s # <<>>
  PROVE  /\ Head(s) \in Link /\ Tail(s) \in Seq(Link)
         /\ Elems(s) = {Head(s)} \union Elems(Tail(s))
<1>1. /\ Head(s) \in Link /\ Tail(s) \in Seq(Link)
      /\ Len(s) \in Nat /\ Len(s) > 0 /\ Len(Tail(s)) = Len(s) - 1
      /\ DOMAIN s = 1 .. Len(s) /\ DOMAIN Tail(s) = 1 .. Len(Tail(s))
      /\ s[1] = Head(s) /\ \A i \in 1 .. Len(Tail(s)) : Tail(s)[i] = s[i + 1]
  OBVIOUS
<1>2. Elems(s) \subseteq {Head(s)} \union Elems(Tail(s))
  <2> SUFFICES ASSUME NEW i \in DOMAIN s, i # 1
               PROVE  s[i] \in Elems(Tail(s))
    BY <1>1 DEF Elems
  <2>1. i - 1 \in 1 .. Len(Tail(s)) /\ (i - 1) + 1 = i
    BY <1>1
  <2>2. Tail(s)[i - 1] = s[i]
    BY <1>1, <2>1
  <2> QED
    BY <1>1, <2>1, <2>2 DEF Elems
<1>3. {Head(s)} \union Elems(Tail(s)) \subseteq Elems(s)
  <2>1. Head(s) \in Elems(s)
    BY <1>1 DEF Elems
  <2>2. ASSUME NEW i \in DOMAIN Tail(s) PROVE Tail(s)[i] \in Elems(s)
    <3>1. i + 1 \in DOMAIN s /\ Tail(s)[i] = s[i + 1]
      BY <1>1
    <3> QED
      BY <3>1 DEF Elems
  <2> QED
    BY <2>1, <2>2 DEF Elems
<1> QED
  BY <1>1, <1>2, <1>3

LEMMA ElemsNone == Elems(<<>>) = {}
BY DEF Elems

Typed ==
  /\ scene \in Scenes
  /\ reg \in [Link -> {NoLink} \union Made]
  /\ cache \in [Proc -> [Link -> {NoLink} \union Made]]
  /\ creating # NoCreate =>
       creating \in [by : Proc, link : Link, machine : Machine \union {Nobody}, entry : Made]
  /\ vm \in [Machine -> {"off", "joining", "spawning", "on", "leaving", "dead", "crashed"}]
  /\ by \in [Machine -> Proc \union {Nobody}]
  /\ todo \in [Machine -> Seq(Link)]
  /\ \A m \in Machine : Elems(todo[m]) \subseteq On(m)
  /\ net \in [Machine -> [Link -> {"none", "group", "1", "2"}]]
  /\ \A m \in Machine : by[m] # Nobody <=> vm[m] \in {"joining", "spawning", "leaving"}

AtLinks(m) == vm[m] \in {"joining", "leaving"}

OneAtATime == \A m, k \in Machine : AtLinks(m) /\ AtLinks(k) /\ by[m] = by[k] => m = k

\* While a port is being chosen the link is not there and no link has the port; the process
\* that chooses it does nothing else, and has the machine it is for, if any, wait for it.
CreateInv ==
  creating # NoCreate =>
    /\ reg[creating.link] = NoLink
    /\ creating.entry.port # 0
    /\ \E mode \in Mode, port \in Nat :
         creating.entry = Entry(mode, port, creating.machine # Nobody)
    /\ \A n \in Link : reg[n] # NoLink => reg[n].port # creating.entry.port
    /\ creating.machine # Nobody =>
         /\ by[creating.machine] = creating.by /\ vm[creating.machine] = "joining"
         /\ todo[creating.machine] # <<>>
         /\ Head(todo[creating.machine]) = creating.link
    /\ \A m \in Machine : by[m] = creating.by /\ AtLinks(m) => m = creating.machine

\* No port there is, or that a process remembers, is above top.
Below(top) ==
  /\ \A n \in Link : reg[n] # NoLink => reg[n].port <= top
  /\ \A p \in Proc : \A n \in Link : cache[p][n] # NoLink => cache[p][n].port <= top
  /\ creating # NoCreate => creating.entry.port <= top

PortsBounded == \E top \in Nat : Below(top)

Base == Typed /\ OneAtATime /\ CreateInv /\ PortsBounded

LEMMA SceneIs ==
  ASSUME RegistryAssumption, scene \in Scenes
  PROVE  /\ DefaultMode \in Pair
         /\ \A m \in Machine : Uses[m] \in Seq(Link) /\ On(m) = Elems(Uses[m]) /\ On(m) \subseteq Link
<1>1. scene.default \in Pair /\ scene.uses \in [Machine -> Seq(Link)]
  BY DEF RegistryAssumption, Scene
<1>2. \A m \in Machine : Uses[m] \in Seq(Link) /\ On(m) = Elems(Uses[m])
  BY <1>1 DEF Uses, On, Elems
<1>3. \A m \in Machine : On(m) \subseteq Link
  <2> SUFFICES ASSUME NEW m \in Machine, NEW i \in DOMAIN Uses[m]
               PROVE  Uses[m][i] \in Link
    BY DEF On
  <2> QED
    BY <1>2
<1> QED
  BY <1>1, <1>2, <1>3 DEF DefaultMode

\* Induction over the naturals, by the least counterexample.
LEMMA Least ==
  ASSUME NEW T \in SUBSET Nat, T # {}
  PROVE  \E n \in T : \A m \in T : n <= m
<1>1. PICK n \in T : \A m \in T : <<m, n>> \notin OpToRel(<, Nat)
  BY NatLessThanWellFounded, WFMin
<1> QED
  BY <1>1, \A i, j \in Nat : i < j <=> ~ j <= i DEF OpToRel

LEMMA Highest ==
  ASSUME NEW S \in SUBSET Nat, S # {}, NEW top \in Nat, \A x \in S : x <= top
  PROVE  \E x \in S : \A y \in S : y <= x
<1> DEFINE T == {t \in Nat : \A x \in S : x <= t}
<1>1. T \in SUBSET Nat /\ T # {}
  OBVIOUS
<1> HIDE DEF T
<1>2. PICK t \in T : \A u \in T : t <= u
  BY <1>1, Least
<1>3. t \in Nat /\ \A x \in S : x <= t
  BY <1>2 DEF T
<1>4. t \in S
  <2> SUFFICES ASSUME t \notin S PROVE FALSE
    OBVIOUS
  <2>1. \A x \in S : x \in Nat /\ x < t
    BY <1>3
  <2>2. t - 1 \in Nat
    <3>1. PICK x \in S : x \in Nat /\ x < t
      BY <2>1
    <3> QED
      BY <1>3, <3>1
  <2>3. \A x \in S : x <= t - 1
    BY <1>3, <2>1
  <2>4. t - 1 \in T
    BY <2>2, <2>3 DEF T
  <2> QED
    BY <1>2, <1>3, <2>4
<1> QED
  BY <1>3, <1>4

\* The next port is one that no link has.
LEMMA NextPortIs ==
  ASSUME Typed, PortsBounded, NEW p \in Proc
  PROVE  /\ NextPort(p) \in Nat \ {0}
         /\ \A n \in Link : reg[n] # NoLink => reg[n].port # NextPort(p)
<1> DEFINE used == PortsInUse(p)
<1>1. PICK top \in Nat : Below(top)
  BY DEF PortsBounded
<1>2. used \subseteq Nat /\ \A x \in used : x <= top
  BY <1>1, MadeIs DEF PortsInUse, CachedPorts, Below, Typed
<1>3. \A n \in Link : reg[n] # NoLink => reg[n].port \in Nat /\ reg[n].port \in used \union {0}
  BY MadeIs DEF PortsInUse, Typed
<1> HIDE DEF used
<1>4. CASE used = {}
  <2>1. NextPort(p) = 4000
    BY <1>4 DEF NextPort, used
  <2> QED
    BY <1>3, <1>4, <2>1
<1>5. CASE used # {}
  <2> DEFINE x == CHOOSE x \in used : \A y \in used : y <= x
  <2>1. \E x1 \in used : \A y \in used : y <= x1
    BY <1>2, <1>5, Highest
  <2>2. x \in used /\ \A y \in used : y <= x
    BY <2>1
  <2>3. NextPort(p) = 1 + x
    BY <1>5 DEF NextPort, used
  <2> HIDE DEF x
  <2>4. x \in Nat /\ \A y \in used : y # 1 + x
    BY <1>2, <2>2
  <2> QED
    BY <1>3, <2>3, <2>4
<1> QED
  BY <1>4, <1>5

LEMMA SameOn ==
  ASSUME scene' = scene
  PROVE  \A m \in Machine : Uses[m]' = Uses[m] /\ On(m)' = On(m)
BY DEF On, Uses

\* The types of a step that leaves the machines alone, and of one that does not.
LEMMA TypedEntries ==
  ASSUME Typed, UNCHANGED <<scene, vm, by, todo, net>>,
         reg' \in [Link -> {NoLink} \union Made],
         cache' \in [Proc -> [Link -> {NoLink} \union Made]],
         creating' # NoCreate =>
           creating' \in [by : Proc, link : Link, machine : Machine \union {Nobody}, entry : Made]
  PROVE  Typed'
<1>1. \A m \in Machine : Elems(todo[m])' \subseteq On(m)'
  BY SameOn DEF Typed, Elems
<1> QED
  BY <1>1 DEF Typed

LEMMA TypedMachines ==
  ASSUME Typed, UNCHANGED scene,
         reg' \in [Link -> {NoLink} \union Made],
         cache' \in [Proc -> [Link -> {NoLink} \union Made]],
         creating' # NoCreate =>
           creating' \in [by : Proc, link : Link, machine : Machine \union {Nobody}, entry : Made],
         vm' \in [Machine -> {"off", "joining", "spawning", "on", "leaving", "dead", "crashed"}],
         by' \in [Machine -> Proc \union {Nobody}],
         todo' \in [Machine -> Seq(Link)],
         \A m \in Machine : Elems(todo'[m]) \subseteq On(m),
         net' \in [Machine -> [Link -> {"none", "group", "1", "2"}]],
         \A m \in Machine : by'[m] # Nobody <=> vm'[m] \in {"joining", "spawning", "leaving"}
  PROVE  Typed'
<1>1. \A m \in Machine : Elems(todo[m])' \subseteq On(m)'
  BY SameOn DEF Elems
<1> QED
  BY <1>1 DEF Typed

----------------------------------------------------------------------------
(* What the writes of the entries do *)

LEMMA WriteIs ==
  ASSUME Typed, NEW p \in Proc, NEW n \in Link, NEW e \in {NoLink} \union Made, Write(p, n, e)
  PROVE  /\ reg' \in [Link -> {NoLink} \union Made] /\ reg'[n] = e
         /\ \A l \in Link : l # n => reg'[l] = reg[l]
         /\ cache' \in [Proc -> [Link -> {NoLink} \union Made]] /\ cache'[p][n] = e
         /\ \A q \in Proc : \A l \in Link : q # p \/ l # n => cache'[q][l] = cache[q][l]
BY DEF Typed, Write

LEMMA LookUpIs ==
  ASSUME Typed, NEW p \in Proc, NEW ns, LookUp(p, ns)
  PROVE  /\ cache' \in [Proc -> [Link -> {NoLink} \union Made]]
         /\ \A q \in Proc : \A l \in Link :
              /\ cache'[q][l] \in {cache[q][l], reg[l]}
              /\ cache[q][l] # NoLink => cache'[q][l] = cache[q][l]
BY DEF Typed, LookUp, Known

\* The ports that a step brings are bounded if its new entries have ports that were there,
\* no port, or the one that was chosen.
LEMMA PortsFollow ==
  ASSUME Typed, PortsBounded, creating' # NoCreate => creating'.entry.port \in Nat,
         \A n \in Link : reg'[n] # NoLink =>
           \/ reg'[n].port = 0
           \/ reg[n] # NoLink /\ reg'[n].port = reg[n].port
           \/ creating # NoCreate /\ reg'[n].port = creating.entry.port,
         \A q \in Proc : \A n \in Link : cache'[q][n] # NoLink =>
           cache'[q][n] \in {cache[q][n], reg[n], reg'[n]}
  PROVE  PortsBounded'
<1>1. PICK top \in Nat : Below(top)
  BY DEF PortsBounded
<1>2. PICK high \in Nat : top <= high /\ (creating' # NoCreate => creating'.entry.port <= high)
  <2>1. CASE creating' # NoCreate
    <3>1. /\ top + creating'.entry.port \in Nat /\ top <= top + creating'.entry.port
          /\ creating'.entry.port <= top + creating'.entry.port
      BY <1>1, <2>1
    <3> QED
      BY <3>1
  <2> QED
    BY <1>1, <2>1
<1>4. /\ \A n \in Link : reg[n] # NoLink => reg[n].port \in Nat
      /\ \A q \in Proc : \A n \in Link : cache[q][n] # NoLink => cache[q][n].port \in Nat
      /\ creating # NoCreate => creating.entry.port \in Nat
  BY MadeIs DEF Typed
<1>5. \A n \in Link : reg[n] # NoLink => reg[n].port <= high
  BY <1>1, <1>2, <1>4 DEF Below
<1>6. \A q \in Proc : \A n \in Link : cache[q][n] # NoLink => cache[q][n].port <= high
  BY <1>1, <1>2, <1>4 DEF Below
<1>7. creating # NoCreate => creating.entry.port <= high
  BY <1>1, <1>2, <1>4 DEF Below
<1>8. \A n \in Link : reg'[n] # NoLink => reg'[n].port <= high
  BY <1>2, <1>5, <1>7
<1>9. \A q \in Proc : \A n \in Link : cache'[q][n] # NoLink => cache'[q][n].port <= high
  BY <1>5, <1>6, <1>8
<1>10. Below(high)'
  BY <1>2, <1>8, <1>9 DEF Below
<1> QED
  BY <1>2, <1>10 DEF PortsBounded

\* While nothing is being chosen anew, what was being chosen stays so if its link is still
\* not there, no entry has got a port, and its machine and process have not moved.
LEMMA CreateKept ==
  ASSUME RegistryAssumption, Typed, CreateInv, creating' = creating,
         \A n \in Link : reg'[n] # NoLink =>
           \/ reg'[n].port = 0
           \/ reg[n] # NoLink /\ reg'[n].port = reg[n].port,
         creating # NoCreate => reg'[creating.link] = NoLink,
         creating # NoCreate /\ creating.machine # Nobody =>
           LET m == creating.machine IN by'[m] = by[m] /\ vm'[m] = vm[m] /\ todo'[m] = todo[m],
         \A m \in Machine : creating # NoCreate /\ by'[m] = creating.by /\ AtLinks(m)' =>
           by[m] = by'[m] /\ AtLinks(m)
  PROVE  CreateInv'
<1> SUFFICES ASSUME creating # NoCreate PROVE CreateInv'
  BY DEF CreateInv
<1>1. /\ creating.link \in Link /\ creating.by \in Proc
      /\ creating.machine \in Machine \union {Nobody}
  BY DEF Typed
<1>2. \A n \in Link : reg'[n] # NoLink => reg'[n].port # creating.entry.port
  BY DEF CreateInv
<1>3. creating.machine # Nobody =>
        /\ by'[creating.machine] = creating.by /\ vm'[creating.machine] = "joining"
        /\ todo'[creating.machine] # <<>>
        /\ Head(todo'[creating.machine]) = creating.link
  BY <1>1 DEF CreateInv
<1>4. \A m \in Machine : by'[m] = creating.by /\ AtLinks(m)' => m = creating.machine
  BY DEF CreateInv, AtLinks
<1> QED
  BY <1>2, <1>3, <1>4 DEF CreateInv

----------------------------------------------------------------------------
(* One lemma per action that writes an entry or reads one                  *)

\* Choosing a port, for a link that is not there.
LEMMA AllocateKeeps ==
  ASSUME RegistryAssumption, Base, NEW p \in Proc, NEW n \in Link, NEW mode \in Mode,
         NEW auto \in BOOLEAN, NEW m \in Machine \union {Nobody},
         Allocate(p, n, mode, auto, m), reg[n] = NoLink, auto <=> m # Nobody,
         m # Nobody => by[m] = p /\ vm[m] = "joining" /\ todo[m] # <<>> /\ Head(todo[m]) = n,
         \A k \in Machine : by[k] = p /\ AtLinks(k) => k = m,
         UNCHANGED <<reg, cache, vm, by, todo>>
  PROVE  /\ creating' \in [by : Proc, link : Link, machine : Machine \union {Nobody}, entry : Made]
         /\ CreateInv' /\ PortsBounded'
<1> DEFINE port == NextPort(p)
           entry == Entry(mode, port, auto)
<1>1. port \in Nat \ {0} /\ \A l \in Link : reg[l] # NoLink => reg[l].port # port
  BY NextPortIs DEF Base
<1>2. creating' = [by |-> p, link |-> n, machine |-> m, entry |-> entry]
  BY DEF Allocate
<1> HIDE DEF port
<1>3. entry \in Made /\ entry.port = port /\ entry = Entry(mode, port, m # Nobody)
  <2>1. entry \in Made /\ entry.port = port
    BY <1>1, EntryIs
  <2>2. auto = (m # Nobody)
    OBVIOUS
  <2> QED
    BY <2>1, <2>2
<1> HIDE DEF entry
<1>4. CreateInv'
  BY <1>1, <1>2, <1>3 DEF CreateInv, AtLinks
<1>5. PortsBounded'
  BY <1>1, <1>2, <1>3, PortsFollow DEF Base
<1> QED
  BY <1>2, <1>3, <1>4, <1>5

LEMMA CreateStep ==
  ASSUME RegistryAssumption, Base, NEW p \in Proc, NEW n \in Link, Create(p, n)
  PROVE  Base'
<1>1. reg[n] = NoLink /\ ~ Busy(p) /\ EntryFree(n)
      /\ UNCHANGED <<scene, vm, by, todo, net, starts>>
  BY DEF Create, Reload, machines
<1>2. \A k \in Machine : ~ (by[k] = p /\ AtLinks(k))
  BY <1>1 DEF Busy, AtLinks
<1>3. OneAtATime'
  BY <1>1 DEF Base, OneAtATime, AtLinks
<1>4. CASE Write(p, n, Entry("dgram", 0, FALSE)) /\ UNCHANGED creating
  <2> DEFINE e == Entry("dgram", 0, FALSE)
  <2>1. e \in Made /\ e.port = 0
    <3> DEFINE auto == FALSE
    <3>1. auto \in BOOLEAN
      OBVIOUS
    <3> HIDE DEF auto
    <3>2. Entry("dgram", 0, auto) \in Made /\ Entry("dgram", 0, auto).port = 0
      BY <3>1, NewDgram
    <3> QED
      BY <3>2 DEF auto
  <2> HIDE DEF e
  <2>2. /\ reg' \in [Link -> {NoLink} \union Made] /\ reg'[n] = e
        /\ \A l \in Link : l # n => reg'[l] = reg[l]
        /\ cache' \in [Proc -> [Link -> {NoLink} \union Made]] /\ cache'[p][n] = e
        /\ \A q \in Proc : \A l \in Link : q # p \/ l # n => cache'[q][l] = cache[q][l]
    BY <1>4, <2>1, WriteIs DEF Base, e
  <2>3. Typed'
    BY <1>1, <1>4, <2>2, TypedEntries DEF Base, Typed
  <2>4. creating # NoCreate => creating.link # n /\ creating.link \in Link
    BY <1>1 DEF EntryFree, Base, Typed
  <2>5. \A l \in Link : reg'[l] # NoLink =>
           reg'[l].port = 0 \/ (reg[l] # NoLink /\ reg'[l].port = reg[l].port)
    BY <2>1, <2>2
  <2>6. creating # NoCreate => reg'[creating.link] = NoLink
    BY <2>2, <2>4 DEF Base, CreateInv
  <2>7. \A q \in Proc : \A l \in Link : cache'[q][l] \in {cache[q][l], reg[l], reg'[l]}
    BY <2>2
  <2>8. creating' = creating
    BY <1>4
  <2>9. CreateInv'
    BY <1>1, <2>5, <2>6, <2>8, CreateKept DEF Base, AtLinks
  <2>10. creating' # NoCreate => creating'.entry.port \in Nat
    BY <2>8, MadeIs DEF Base, Typed
  <2>11. PortsBounded'
    BY <2>5, <2>7, <2>10, PortsFollow DEF Base
  <2> QED
    BY <1>3, <2>3, <2>9, <2>11 DEF Base
<1>5. ASSUME NEW mode \in {"mcast", "listen-connect"},
             Allocate(p, n, mode, FALSE, Nobody), UNCHANGED <<reg, cache>>
      PROVE  Base'
  <2>1. mode \in Mode
    BY DEF Mode, Pair
  <2>2. UNCHANGED <<reg, cache, vm, by, todo>>
    BY <1>1, <1>5
  <2>3. /\ creating' \in [by : Proc, link : Link, machine : Machine \union {Nobody}, entry : Made]
        /\ CreateInv' /\ PortsBounded'
    BY <1>1, <1>2, <1>5, <2>1, <2>2, AllocateKeeps
  <2>4. Typed'
    BY <1>1, <2>2, <2>3, TypedEntries DEF Base, Typed
  <2> QED
    BY <1>3, <2>3, <2>4 DEF Base
<1> QED
  BY <1>4, <1>5 DEF Create

LEMMA RemoveStep ==
  ASSUME RegistryAssumption, Base, NEW p \in Proc, NEW n \in Link, Remove(p, n)
  PROVE  Base'
<1>1. ~ Busy(p) /\ EntryFree(n) /\ Write(p, n, NoLink)
      /\ UNCHANGED <<scene, creating, vm, by, todo, net, starts>>
  BY DEF Remove, machines
<1>2. OneAtATime'
  BY <1>1 DEF Base, OneAtATime, AtLinks
<1>3. /\ reg' \in [Link -> {NoLink} \union Made] /\ reg'[n] = NoLink
      /\ \A l \in Link : l # n => reg'[l] = reg[l]
      /\ cache' \in [Proc -> [Link -> {NoLink} \union Made]] /\ cache'[p][n] = NoLink
      /\ \A q \in Proc : \A l \in Link : q # p \/ l # n => cache'[q][l] = cache[q][l]
  BY <1>1, WriteIs DEF Base
<1>4. Typed'
  BY <1>1, <1>3, TypedEntries DEF Base, Typed
<1>5. creating # NoCreate => reg'[creating.link] = NoLink
  BY <1>3 DEF Base, CreateInv, Typed
<1>6. CreateInv'
  BY <1>1, <1>3, <1>5, CreateKept DEF Base, AtLinks
<1>7. creating' # NoCreate => creating'.entry.port \in Nat
  BY <1>1, MadeIs DEF Base, Typed
<1>8. PortsBounded'
  BY <1>3, <1>7, PortsFollow DEF Base
<1> QED
  BY <1>2, <1>4, <1>6, <1>8 DEF Base

\* The entry with the chosen port, with the machine on it that it was chosen for.
LEMMA SavedIs ==
  ASSUME RegistryAssumption, Base, creating # NoCreate
  PROVE  LET m == creating.machine
             e == IF m = Nobody THEN creating.entry ELSE Claimed(creating.entry, m)
         IN  /\ e \in Made /\ Single(e) /\ e.port = creating.entry.port
             /\ (e.auto <=> m # Nobody) /\ (m # Nobody => m \in Machine /\ Has(e, m))
             /\ m # Nobody => e.members = {m}
             /\ \A k \in Machine \ {m} : HasNot(e, k)
<1> DEFINE m == creating.machine
           new == creating.entry
           e == IF m = Nobody THEN new ELSE Claimed(new, m)
<1>1. PICK mode \in Mode, port \in Nat : new = Entry(mode, port, m # Nobody)
  BY DEF Base, CreateInv
<1>2. new \in Made /\ m \in Machine \union {Nobody}
  BY DEF Base, Typed
<1>3. /\ Single(new) /\ new.mode = mode /\ new.auto = (m # Nobody) /\ new.members = {}
      /\ \A k \in Machine : EndOf(new, k) = {} /\ ~ Full(new, k)
  <2> DEFINE auto == m # Nobody
  <2>1. auto \in BOOLEAN
    OBVIOUS
  <2>2. new = Entry(mode, port, auto)
    BY <1>1
  <2> HIDE DEF auto, m, new
  <2>3. /\ Single(new) /\ new.mode = mode /\ new.auto = auto /\ new.members = {}
        /\ \A k \in Machine : EndOf(new, k) = {} /\ ~ Full(new, k)
    BY <2>1, <2>2, EntryIs
  <2> QED
    BY <2>3 DEF auto
<1> HIDE DEF m, new
<1>4. \A k \in Machine : HasNot(new, k)
  BY <1>3 DEF HasNot
<1>5. CASE m = Nobody
  BY <1>2, <1>3, <1>4, <1>5 DEF m, new
<1>6. CASE m # Nobody
  <2>1. m \in Machine
    BY <1>2, <1>6
  <2>2. /\ e \in Made /\ e.port = new.port /\ e.auto = new.auto /\ e.members = {m} /\ Has(e, m)
        /\ \A k \in Machine \ {m} : EndOf(e, k) = EndOf(new, k)
        /\ Single(e)
    BY <1>2, <1>3, <1>6, <2>1, ClaimedIs
  <2> HIDE DEF e
  <2>3. \A k \in Machine \ {m} : HasNot(e, k)
    BY <1>3, <2>2 DEF HasNot
  <2> QED
    BY <1>3, <1>6, <2>1, <2>2, <2>3 DEF m, new, e
<1> QED
  BY <1>5, <1>6

LEMMA SaveCreatedStep ==
  ASSUME RegistryAssumption, Base, SaveCreated
  PROVE  Base'
<1> DEFINE m == creating.machine
           p == creating.by
           n == creating.link
           e == IF m = Nobody THEN creating.entry ELSE Claimed(creating.entry, m)
<1>1. /\ creating # NoCreate /\ creating' = NoCreate /\ Write(p, n, e)
      /\ todo' = IF m = Nobody THEN todo ELSE [todo EXCEPT ![m] = Tail(@)]
      /\ UNCHANGED <<scene, vm, by, net, starts>>
  BY DEF SaveCreated
<1>2. p \in Proc /\ n \in Link /\ m \in Machine \union {Nobody}
  BY <1>1 DEF Base, Typed
<1>3. e \in Made /\ e.port = creating.entry.port
  BY <1>1, SavedIs
<1> HIDE DEF e
<1>4. /\ reg' \in [Link -> {NoLink} \union Made] /\ reg'[n] = e
      /\ \A l \in Link : l # n => reg'[l] = reg[l]
      /\ cache' \in [Proc -> [Link -> {NoLink} \union Made]] /\ cache'[p][n] = e
      /\ \A q \in Proc : \A l \in Link : q # p \/ l # n => cache'[q][l] = cache[q][l]
  BY <1>1, <1>2, <1>3, WriteIs DEF Base
<1>5. todo' \in [Machine -> Seq(Link)] /\ \A k \in Machine : Elems(todo'[k]) \subseteq Elems(todo[k])
  <2>1. CASE m = Nobody
    BY <1>1, <2>1 DEF Base, Typed
  <2>2. CASE m # Nobody
    <3>1. m \in Machine /\ todo[m] \in Seq(Link) /\ todo[m] # <<>>
      BY <1>1, <1>2, <2>2 DEF Base, Typed, CreateInv
    <3>2. Tail(todo[m]) \in Seq(Link) /\ Elems(Tail(todo[m])) \subseteq Elems(todo[m])
      BY <3>1, ElemsIs
    <3>3. todo' = [todo EXCEPT ![m] = Tail(todo[m])]
      BY <1>1, <2>2
    <3> QED
      BY <3>1, <3>2, <3>3 DEF Base, Typed
  <2> QED
    BY <2>1, <2>2
<1>6. Typed'
  <2>1. Typed
    BY DEF Base
  <2>2. \A k \in Machine : Elems(todo'[k]) \subseteq On(k)
    BY <1>5, <2>1 DEF Typed
  <2> QED
    BY <1>1, <1>4, <1>5, <2>1, <2>2, TypedMachines DEF Typed
<1>7. OneAtATime'
  BY <1>1 DEF Base, OneAtATime, AtLinks
<1>8. CreateInv'
  BY <1>1 DEF CreateInv
<1>9. PortsBounded'
  BY <1>1, <1>3, <1>4, PortsFollow DEF Base
<1> QED
  BY <1>6, <1>7, <1>8, <1>9 DEF Base

\* A step of one machine, not the one a port is being chosen for, that gives no entry a port:
\* a machine begins with its links only when its process is not busy with others.
LEMMA MachineStep ==
  ASSUME RegistryAssumption, Base, NEW m \in Machine, UNCHANGED <<scene, creating>>,
         reg' \in [Link -> {NoLink} \union Made],
         \A n \in Link : reg'[n] # NoLink =>
           reg'[n].port = 0 \/ (reg[n] # NoLink /\ reg'[n].port = reg[n].port),
         creating # NoCreate => creating.machine # m /\ reg'[creating.link] = NoLink,
         cache' \in [Proc -> [Link -> {NoLink} \union Made]],
         \A q \in Proc : \A n \in Link : cache'[q][n] # NoLink =>
           cache'[q][n] \in {cache[q][n], reg[n], reg'[n]},
         vm' \in [Machine -> {"off", "joining", "spawning", "on", "leaving", "dead", "crashed"}],
         by' \in [Machine -> Proc \union {Nobody}],
         todo' \in [Machine -> Seq(Link)], Elems(todo'[m]) \subseteq On(m),
         net' \in [Machine -> [Link -> {"none", "group", "1", "2"}]],
         \A k \in Machine \ {m} : vm'[k] = vm[k] /\ by'[k] = by[k] /\ todo'[k] = todo[k],
         by'[m] # Nobody <=> vm'[m] \in {"joining", "spawning", "leaving"},
         AtLinks(m)' => (AtLinks(m) /\ by'[m] = by[m]) \/ ~ Busy(by'[m])
  PROVE  Base'
<1>1. Typed /\ OneAtATime /\ CreateInv /\ PortsBounded
  BY DEF Base
<1>2. Typed'
  <2>1. \A k \in Machine : Elems(todo'[k]) \subseteq On(k)
    BY <1>1 DEF Typed
  <2>2. \A k \in Machine : by'[k] # Nobody <=> vm'[k] \in {"joining", "spawning", "leaving"}
    BY <1>1 DEF Typed
  <2> QED
    BY <1>1, <2>1, <2>2, TypedMachines DEF Typed
<1>3. \A k \in Machine \ {m} : AtLinks(k)' <=> AtLinks(k)
  BY DEF AtLinks
<1>4. ~ Busy(by'[m]) =>
        /\ creating.by # by'[m]
        /\ \A k \in Machine : ~ (AtLinks(k) /\ by[k] = by'[m])
  BY DEF Busy, AtLinks
<1>5. OneAtATime'
  <2>1. ASSUME NEW k \in Machine, k # m, AtLinks(k)', AtLinks(m)', by'[k] = by'[m]
        PROVE  FALSE
    <3>1. AtLinks(k) /\ by[k] = by'[m]
      BY <1>3, <2>1
    <3>2. AtLinks(m) /\ by'[m] = by[m]
      BY <1>4, <2>1, <3>1
    <3> QED
      BY <1>1, <2>1, <3>1, <3>2 DEF OneAtATime
  <2>2. ASSUME NEW k \in Machine, NEW l \in Machine, k # m, l # m,
               AtLinks(k)', AtLinks(l)', by'[k] = by'[l]
        PROVE  k = l
    <3>1. AtLinks(k) /\ AtLinks(l) /\ by[k] = by[l]
      BY <1>3, <2>2
    <3> QED
      BY <1>1, <3>1 DEF OneAtATime
  <2> QED
    BY <2>1, <2>2 DEF OneAtATime
<1>6. CreateInv'
  <2>1. creating # NoCreate /\ creating.machine # Nobody =>
          LET k == creating.machine IN by'[k] = by[k] /\ vm'[k] = vm[k] /\ todo'[k] = todo[k]
    BY <1>1 DEF Typed
  <2>2. \A k \in Machine : creating # NoCreate /\ by'[k] = creating.by /\ AtLinks(k)' =>
          by[k] = by'[k] /\ AtLinks(k)
    BY <1>3, <1>4
  <2> QED
    BY <1>1, <2>1, <2>2, CreateKept
<1>7. PortsBounded'
  <2>1. creating' # NoCreate => creating'.entry.port \in Nat
    BY <1>1, MadeIs DEF Typed
  <2> QED
    BY <1>1, <2>1, PortsFollow
<1> QED
  BY <1>2, <1>5, <1>6, <1>7 DEF Base

\* A step of one machine that reads and writes no entry.
LEMMA QuietStep ==
  ASSUME RegistryAssumption, Base, NEW m \in Machine, UNCHANGED shared,
         creating # NoCreate => creating.machine # m,
         NEW to \in {"off", "joining", "spawning", "on", "leaving", "dead", "crashed"},
         NEW who \in Proc \union {Nobody}, NEW list \in Seq(Link), Elems(list) \subseteq On(m),
         vm' = [vm EXCEPT ![m] = to], by' = [by EXCEPT ![m] = who],
         todo' = [todo EXCEPT ![m] = list], net' = net \/ net' = [net EXCEPT ![m] = NoNet],
         who # Nobody <=> to \in {"joining", "spawning", "leaving"},
         to \in {"joining", "leaving"} => (AtLinks(m) /\ who = by[m]) \/ ~ Busy(who)
  PROVE  Base'
<1>1. Typed /\ CreateInv
  BY DEF Base
<1>2. UNCHANGED <<scene, reg, cache, creating>>
  BY DEF shared
<1>3. /\ vm' \in [Machine -> {"off", "joining", "spawning", "on", "leaving", "dead", "crashed"}]
      /\ by' \in [Machine -> Proc \union {Nobody}] /\ todo' \in [Machine -> Seq(Link)]
      /\ vm'[m] = to /\ by'[m] = who /\ todo'[m] = list
      /\ \A k \in Machine \ {m} : vm'[k] = vm[k] /\ by'[k] = by[k] /\ todo'[k] = todo[k]
  BY <1>1 DEF Typed
<1>4. net' \in [Machine -> [Link -> {"none", "group", "1", "2"}]]
  <2>1. NoNet \in [Link -> {"none", "group", "1", "2"}]
    BY DEF NoNet
  <2>2. net \in [Machine -> [Link -> {"none", "group", "1", "2"}]]
    BY <1>1 DEF Typed
  <2> QED
    BY <2>1, <2>2
<1>5. /\ reg' \in [Link -> {NoLink} \union Made]
      /\ cache' \in [Proc -> [Link -> {NoLink} \union Made]]
      /\ \A n \in Link : reg'[n] = reg[n]
      /\ \A q \in Proc : \A n \in Link : cache'[q][n] = cache[q][n]
  BY <1>1, <1>2 DEF Typed
<1>6. creating # NoCreate => reg'[creating.link] = NoLink
  BY <1>1, <1>2 DEF CreateInv
<1>7. AtLinks(m)' => (AtLinks(m) /\ by'[m] = by[m]) \/ ~ Busy(by'[m])
  BY <1>3 DEF AtLinks
<1>8. by'[m] # Nobody <=> vm'[m] \in {"joining", "spawning", "leaving"}
  BY <1>3
<1>9. Elems(todo'[m]) \subseteq On(m)
  BY <1>3
<1> QED
  BY <1>2, <1>3, <1>4, <1>5, <1>6, <1>7, <1>8, <1>9, MachineStep

\* The machine a port is being chosen for joins its links, and its process waits.
LEMMA ChosenFor ==
  ASSUME RegistryAssumption, Base, NEW m \in Machine, creating # NoCreate, creating.machine = m
  PROVE  vm[m] = "joining" /\ todo[m] # <<>> /\ by[m] = creating.by /\ creating.by \in Proc
BY DEF Base, CreateInv, Typed, RegistryAssumption

LEMMA TimeOutStep ==
  ASSUME RegistryAssumption, Base, NEW p \in Proc, NEW m \in Machine, TimeOut(p, m)
  PROVE  Base'
<1>1. /\ by[m] = p /\ vm[m] \in {"joining", "leaving"} /\ todo[m] # <<>> /\ creating.by # p
      /\ todo' = [todo EXCEPT ![m] = Tail(todo[m])] /\ UNCHANGED <<shared, vm, by, net>>
  BY DEF TimeOut, Holding
<1>2. Typed
  BY DEF Base
<1>3. todo[m] \in Seq(Link) /\ Elems(todo[m]) \subseteq On(m)
  BY <1>2 DEF Typed
<1>4. Tail(todo[m]) \in Seq(Link) /\ Elems(Tail(todo[m])) \subseteq On(m)
  BY <1>1, <1>3, ElemsIs
<1>5. vm' = [vm EXCEPT ![m] = vm[m]] /\ by' = [by EXCEPT ![m] = by[m]]
  BY <1>1, <1>2 DEF Typed
<1>6. creating # NoCreate => creating.machine # m
  BY <1>1, ChosenFor
<1>7. by[m] # Nobody /\ AtLinks(m)
  BY <1>1 DEF RegistryAssumption, AtLinks
<1> QED
  BY <1>1, <1>4, <1>5, <1>6, <1>7, QuietStep DEF Typed

LEMMA SpawnStep ==
  ASSUME RegistryAssumption, Base, NEW p \in Proc, NEW m \in Machine, Spawn(p, m)
  PROVE  Base'
<1>1. /\ vm[m] = "spawning" /\ vm' = [vm EXCEPT ![m] = "on"] /\ by' = [by EXCEPT ![m] = Nobody]
      /\ UNCHANGED <<shared, todo, net>>
  BY DEF Spawn, Goes
<1>2. Typed
  BY DEF Base
<1>3. todo[m] \in Seq(Link) /\ Elems(todo[m]) \subseteq On(m) /\ todo' = [todo EXCEPT ![m] = todo[m]]
  BY <1>1, <1>2 DEF Typed
<1>4. creating # NoCreate => creating.machine # m
  BY <1>1, ChosenFor
<1> QED
  BY <1>1, <1>3, <1>4, QuietStep

LEMMA GoneStep ==
  ASSUME RegistryAssumption, Base, NEW p \in Proc, NEW m \in Machine, Gone(p, m)
  PROVE  Base'
<1>1. /\ vm[m] = "leaving" /\ vm' = [vm EXCEPT ![m] = "off"] /\ by' = [by EXCEPT ![m] = Nobody]
      /\ UNCHANGED <<shared, todo, net>>
  BY DEF Gone, Goes
<1>2. Typed
  BY DEF Base
<1>3. todo[m] \in Seq(Link) /\ Elems(todo[m]) \subseteq On(m) /\ todo' = [todo EXCEPT ![m] = todo[m]]
  BY <1>1, <1>2 DEF Typed
<1>4. creating # NoCreate => creating.machine # m
  BY <1>1, ChosenFor
<1> QED
  BY <1>1, <1>3, <1>4, QuietStep

\* What a machine goes through with its links when it leaves them.
LEMMA AllLinks ==
  ASSUME RegistryAssumption, Base, NEW m \in Machine
  PROVE  Uses[m] \in Seq(Link) /\ Elems(Uses[m]) \subseteq On(m) /\ On(m) \subseteq Link
BY SceneIs DEF Base, Typed

LEMMA SpawnFailsStep ==
  ASSUME RegistryAssumption, Base, NEW p \in Proc, NEW m \in Machine, SpawnFails(p, m)
  PROVE  Base'
<1>1. /\ by[m] = p /\ vm[m] = "spawning" /\ ~ Busy(p) /\ vm' = [vm EXCEPT ![m] = "leaving"]
      /\ todo' = [todo EXCEPT ![m] = Uses[m]] /\ net' = [net EXCEPT ![m] = NoNet]
      /\ UNCHANGED <<shared, by>>
  BY DEF SpawnFails, Goes, Fail, Release, Holding
<1>2. by' = [by EXCEPT ![m] = p] /\ p # Nobody
  BY <1>1 DEF Base, Typed, RegistryAssumption
<1>3. creating # NoCreate => creating.machine # m
  BY <1>1, ChosenFor
<1> QED
  BY <1>1, <1>2, <1>3, AllLinks, QuietStep

LEMMA StopStep ==
  ASSUME RegistryAssumption, Base, NEW p \in Proc, NEW m \in Machine, Stop(p, m)
  PROVE  Base'
<1>1. /\ vm[m] \in {"on", "dead", "crashed", "off"} /\ ~ Busy(p)
      /\ vm' = [vm EXCEPT ![m] = "leaving"] /\ by' = [by EXCEPT ![m] = p]
      /\ todo' = [todo EXCEPT ![m] = Uses[m]] /\ net' = [net EXCEPT ![m] = NoNet]
      /\ UNCHANGED shared
  BY DEF Stop, Goes
<1>2. p # Nobody
  BY DEF RegistryAssumption
<1>3. creating # NoCreate => creating.machine # m
  BY <1>1, ChosenFor
<1> QED
  BY <1>1, <1>2, <1>3, AllLinks, QuietStep

LEMMA DieStep ==
  ASSUME RegistryAssumption, Base, NEW m \in Machine, Die(m) \/ Refresh(m)
  PROVE  Base'
<1>1. /\ vm[m] \in {"on", "dead"} /\ UNCHANGED <<shared, by, todo>>
      /\ net' = net \/ net' = [net EXCEPT ![m] = NoNet]
  BY DEF Die, Refresh, Goes
<1>2. PICK to \in {"off", "dead"} : vm' = [vm EXCEPT ![m] = to]
  BY DEF Die, Refresh, Goes
<1>3. Typed
  BY DEF Base
<1>4. /\ todo[m] \in Seq(Link) /\ Elems(todo[m]) \subseteq On(m)
      /\ todo' = [todo EXCEPT ![m] = todo[m]]
      /\ by[m] = Nobody /\ by' = [by EXCEPT ![m] = Nobody]
  BY <1>1, <1>3 DEF Typed
<1>5. creating # NoCreate => creating.machine # m
  BY <1>1, ChosenFor
<1> QED
  BY <1>1, <1>2, <1>4, <1>5, QuietStep

LEMMA StartStep ==
  ASSUME RegistryAssumption, Base, NEW p \in Proc, NEW m \in Machine, Start(p, m)
  PROVE  Base'
<1>1. /\ vm[m] \in {"off", "dead", "crashed"} /\ ~ Busy(p)
      /\ vm' = [vm EXCEPT ![m] = "joining"] /\ by' = [by EXCEPT ![m] = p]
      /\ todo' = [todo EXCEPT ![m] = Uses[m]]
      /\ LookUp(p, On(m)) \/ UNCHANGED cache
      /\ UNCHANGED <<scene, reg, creating, net>>
  BY DEF Start, Goes
<1>2. Typed /\ CreateInv
  BY DEF Base
<1>3. /\ cache' \in [Proc -> [Link -> {NoLink} \union Made]]
      /\ \A q \in Proc : \A n \in Link : cache'[q][n] \in {cache[q][n], reg[n]}
  <2>1. CASE LookUp(p, On(m))
    BY <1>2, <2>1, LookUpIs
  <2>2. CASE UNCHANGED cache
    BY <1>2, <2>2 DEF Typed
  <2> QED
    BY <1>1, <2>1, <2>2
<1>4. creating # NoCreate => creating.machine # m
  BY <1>1, ChosenFor
<1>5. /\ vm' \in [Machine -> {"off", "joining", "spawning", "on", "leaving", "dead", "crashed"}]
      /\ by' \in [Machine -> Proc \union {Nobody}] /\ todo' \in [Machine -> Seq(Link)]
      /\ Elems(todo'[m]) \subseteq On(m)
      /\ \A k \in Machine \ {m} : vm'[k] = vm[k] /\ by'[k] = by[k] /\ todo'[k] = todo[k]
      /\ vm'[m] = "joining" /\ by'[m] = p /\ p # Nobody
  BY <1>1, <1>2, AllLinks DEF Typed, RegistryAssumption
<1>6. creating # NoCreate => reg'[creating.link] = NoLink
  BY <1>1, <1>2 DEF CreateInv
<1>7. /\ reg' \in [Link -> {NoLink} \union Made]
      /\ net' \in [Machine -> [Link -> {"none", "group", "1", "2"}]]
  BY <1>1, <1>2 DEF Typed
<1>8. ~ Busy(by'[m])
  BY <1>1, <1>5
<1> QED
  BY <1>1, <1>3, <1>4, <1>5, <1>6, <1>7, <1>8, MachineStep

LEMMA RefusedStep ==
  ASSUME RegistryAssumption, Base, NEW p \in Proc, NEW m \in Machine, RefusedForRoom(p, m)
  PROVE  Base'
<1>1. LookUp(p, On(m)) /\ UNCHANGED <<scene, reg, creating, vm, by, todo, net>>
  BY DEF RefusedForRoom
<1>2. Typed /\ CreateInv /\ OneAtATime /\ PortsBounded
  BY DEF Base
<1>3. /\ cache' \in [Proc -> [Link -> {NoLink} \union Made]]
      /\ \A q \in Proc : \A n \in Link : cache'[q][n] \in {cache[q][n], reg[n]}
  BY <1>1, <1>2, LookUpIs
<1>4. Typed'
  BY <1>1, <1>2, <1>3, TypedEntries DEF Typed
<1>5. OneAtATime' /\ CreateInv'
  BY <1>1, <1>2 DEF OneAtATime, CreateInv, AtLinks
<1>6. creating' # NoCreate => creating'.entry.port \in Nat
  BY <1>1, <1>2, MadeIs DEF Typed
<1>7. PortsBounded'
  BY <1>1, <1>2, <1>3, <1>6, PortsFollow
<1> QED
  BY <1>4, <1>5, <1>7 DEF Base

LEMMA CrashStep ==
  ASSUME RegistryAssumption, Base, NEW p \in Proc, Crash(p)
  PROVE  Base'
<1>1. /\ vm' = [m \in Machine |-> IF by[m] = p THEN "crashed" ELSE vm[m]]
      /\ net' = [m \in Machine |-> IF by[m] = p THEN NoNet ELSE net[m]]
      /\ by' = [m \in Machine |-> IF by[m] = p THEN Nobody ELSE by[m]]
      /\ todo' = [m \in Machine |-> IF by[m] = p THEN <<>> ELSE todo[m]]
      /\ cache' = [cache EXCEPT ![p] = [n \in Link |-> NoLink]]
      /\ creating' = IF creating.by = p THEN NoCreate ELSE creating
      /\ UNCHANGED <<scene, reg>>
  BY DEF Crash
<1>2. Typed /\ CreateInv /\ OneAtATime /\ PortsBounded
  BY DEF Base
<1>3. /\ cache' \in [Proc -> [Link -> {NoLink} \union Made]]
      /\ \A q \in Proc : \A n \in Link : cache'[q][n] \in {NoLink, cache[q][n]}
      /\ creating' # NoCreate => creating' = creating /\ creating.by # p
  BY <1>1, <1>2 DEF Typed
<1>4. Typed'
  <2>1. <<>> \in Seq(Link) /\ NoNet \in [Link -> {"none", "group", "1", "2"}]
    BY DEF NoNet
  <2>2. /\ vm' \in [Machine -> {"off", "joining", "spawning", "on", "leaving", "dead", "crashed"}]
        /\ by' \in [Machine -> Proc \union {Nobody}]
    BY <1>1, <1>2 DEF Typed
  <2>3. todo' \in [Machine -> Seq(Link)]
    BY <1>1, <1>2, <2>1 DEF Typed
  <2>4. net' \in [Machine -> [Link -> {"none", "group", "1", "2"}]]
    BY <1>1, <1>2, <2>1 DEF Typed
  <2>5. \A m \in Machine : Elems(todo'[m]) \subseteq On(m)
    BY <1>1, <1>2, ElemsNone DEF Typed
  <2>6. \A m \in Machine : by'[m] # Nobody <=> vm'[m] \in {"joining", "spawning", "leaving"}
    BY <1>1, <1>2 DEF Typed
  <2> QED
    BY <1>1, <1>2, <1>3, <2>2, <2>3, <2>4, <2>5, <2>6, TypedMachines DEF Typed
<1>5. \A m \in Machine : AtLinks(m)' => AtLinks(m) /\ by'[m] = by[m] /\ by[m] # p
  BY <1>1 DEF AtLinks
<1>6. OneAtATime'
  <2> SUFFICES ASSUME NEW k \in Machine, NEW l \in Machine, AtLinks(k)', AtLinks(l)', by'[k] = by'[l]
               PROVE  k = l
    BY DEF OneAtATime
  <2>1. AtLinks(k) /\ AtLinks(l) /\ by[k] = by[l]
    BY <1>5
  <2> QED
    BY <1>2, <2>1 DEF OneAtATime
<1>7. CreateInv'
  <2> SUFFICES ASSUME creating' # NoCreate PROVE CreateInv'
    BY DEF CreateInv
  <2>1. creating' = creating /\ creating # NoCreate /\ creating.by # p
    BY <1>3
  <2>2. \A n \in Link : reg'[n] # NoLink => reg[n] # NoLink /\ reg'[n].port = reg[n].port
    BY <1>1
  <2>3. reg'[creating.link] = NoLink
    BY <1>1, <1>2, <2>1 DEF CreateInv
  <2>4. creating.machine # Nobody =>
          LET m == creating.machine IN by'[m] = by[m] /\ vm'[m] = vm[m] /\ todo'[m] = todo[m]
    BY <1>1, <1>2, <2>1 DEF CreateInv, Typed
  <2> QED
    BY <1>2, <1>5, <2>1, <2>2, <2>3, <2>4, CreateKept
<1>8. PortsBounded'
  <2>1. creating' # NoCreate => creating'.entry.port \in Nat
    BY <1>2, <1>3, MadeIs DEF Typed
  <2>2. \A q \in Proc : \A n \in Link : cache'[q][n] # NoLink => cache'[q][n] = cache[q][n]
    BY <1>3
  <2> QED
    BY <1>1, <1>2, <2>1, <2>2, PortsFollow
<1> QED
  BY <1>4, <1>6, <1>7, <1>8 DEF Base

\* joinNamedSocket(), one of four ways: it takes an end, of a link there is or of a new one;
\* there is none left; or a port has to be chosen first.
Claims(p, m, n) ==
  /\ \/ reg[n] # NoLink /\ ~ Full(reg[n], m) /\ Write(p, n, Claimed(reg[n], m))
     \/ reg[n] = NoLink /\ Write(p, n, Claimed(Entry("dgram", 0, TRUE), m))
  /\ todo' = [todo EXCEPT ![m] = Tail(todo[m])] /\ UNCHANGED <<creating, vm>>

Refused(p, m, n) ==
  /\ reg[n] # NoLink /\ vm' = [vm EXCEPT ![m] = "leaving"]
  /\ todo' = [todo EXCEPT ![m] = Uses[m]]
  /\ cache' = [cache EXCEPT ![p][n] = reg[n]] /\ UNCHANGED <<reg, creating>>

LEMMA JoinIs ==
  ASSUME RegistryAssumption, Base, NEW p \in Proc, NEW m \in Machine, Join(p, m)
  PROVE  LET n == Head(todo[m])
         IN  /\ by[m] = p /\ vm[m] = "joining" /\ todo[m] # <<>> /\ creating.by # p
             /\ EntryFree(n) /\ n \in Link /\ n \in Elems(todo[m])
             /\ Tail(todo[m]) \in Seq(Link) /\ Elems(todo[m]) = {n} \union Elems(Tail(todo[m]))
             /\ creating # NoCreate => creating.machine # m
             /\ UNCHANGED <<scene, by, net>>
             /\ \/ Claims(p, m, n) \/ Refused(p, m, n)
                \/ /\ reg[n] = NoLink /\ Allocate(p, n, "listen-connect", TRUE, m)
                   /\ UNCHANGED <<reg, cache, vm, todo>>
<1> DEFINE n == Head(todo[m])
<1>1. /\ by[m] = p /\ vm[m] = "joining" /\ todo[m] # <<>> /\ creating.by # p /\ EntryFree(n)
      /\ UNCHANGED <<scene, by, net>>
  BY DEF Join, Holding
<1>2. todo[m] \in Seq(Link)
  BY DEF Base, Typed
<1>3. /\ n \in Link /\ Tail(todo[m]) \in Seq(Link)
      /\ Elems(todo[m]) = {n} \union Elems(Tail(todo[m]))
  BY <1>1, <1>2, ElemsIs
<1>4. creating # NoCreate => creating.machine # m
  BY <1>1, ChosenFor
<1>5. \/ Claims(p, m, n) \/ Refused(p, m, n)
      \/ /\ reg[n] = NoLink /\ Allocate(p, n, "listen-connect", TRUE, m)
         /\ UNCHANGED <<reg, cache, vm, todo>>
  BY DEF Join, Reload, Claims, Refused, Fail, Goes, Release
<1> QED
  BY <1>1, <1>3, <1>4, <1>5

\* The entry after a claim, and what it is to the machine and the others.
LEMMA ClaimsIs ==
  ASSUME RegistryAssumption, Typed, NEW p \in Proc, NEW m \in Machine, NEW n \in Link,
         Claims(p, m, n)
  PROVE  /\ reg' \in [Link -> {NoLink} \union Made] /\ reg'[n] \in Made
         /\ cache' \in [Proc -> [Link -> {NoLink} \union Made]] /\ cache'[p][n] = reg'[n]
         /\ \A l \in Link : l # n => reg'[l] = reg[l]
         /\ \A q \in Proc : \A l \in Link : q # p \/ l # n => cache'[q][l] = cache[q][l]
         /\ reg'[n].port = 0 \/ (reg[n] # NoLink /\ reg'[n].port = reg[n].port)
         /\ Has(reg'[n], m) /\ \A k \in Machine \ {m} : Keeps(reg[n], reg'[n], k)
         /\ (reg[n] # NoLink => Single(reg[n])) => Single(reg'[n])
         /\ reg'[n].members # {}
<1>1. CASE reg[n] # NoLink /\ ~ Full(reg[n], m) /\ Write(p, n, Claimed(reg[n], m))
  <2> DEFINE e == reg[n]
             f == Claimed(e, m)
  <2>1. e \in Made /\ ~ Full(e, m)
    BY <1>1 DEF Typed
  <2> HIDE DEF e
  <2>2. /\ f \in Made /\ f.port = e.port /\ f.members = e.members \union {m} /\ Has(f, m)
        /\ Single(e) => Single(f)
    BY <2>1, ClaimedIs
  <2>3. \A k \in Machine \ {m} : Keeps(e, f, k)
    BY <2>1, KeepsClaimed
  <2>4. Write(p, n, f)
    BY <1>1 DEF e
  <2> HIDE DEF f
  <2>5. /\ reg' \in [Link -> {NoLink} \union Made] /\ reg'[n] = f
        /\ \A l \in Link : l # n => reg'[l] = reg[l]
        /\ cache' \in [Proc -> [Link -> {NoLink} \union Made]] /\ cache'[p][n] = f
        /\ \A q \in Proc : \A l \in Link : q # p \/ l # n => cache'[q][l] = cache[q][l]
    BY <2>2, <2>4, WriteIs
  <2> QED
    BY <1>1, <2>2, <2>3, <2>5 DEF e
<1>2. CASE reg[n] = NoLink /\ Write(p, n, Claimed(Entry("dgram", 0, TRUE), m))
  <2> DEFINE auto == TRUE
             e == Entry("dgram", 0, auto)
             f == Claimed(e, m)
  <2>1. auto \in BOOLEAN /\ Write(p, n, f)
    BY <1>2
  <2> HIDE DEF auto
  <2>2. /\ e \in Made /\ Single(e) /\ e.port = 0 /\ e.members = {}
        /\ \A k \in Machine : EndOf(e, k) = {} /\ ~ Full(e, k)
    BY <2>1, NewDgram
  <2> HIDE DEF e
  <2>3. /\ f \in Made /\ f.port = e.port /\ f.members = e.members \union {m} /\ Has(f, m)
        /\ \A k \in Machine \ {m} : EndOf(f, k) = EndOf(e, k)
        /\ Single(e) => Single(f)
    BY <2>2, ClaimedIs
  <2> HIDE DEF f
  <2>4. \A k \in Machine \ {m} : HasNot(f, k)
    BY <2>2, <2>3 DEF HasNot
  <2>5. \A k \in Machine \ {m} : Keeps(NoLink, f, k)
    BY <2>4, KeepsNew
  <2>6. /\ reg' \in [Link -> {NoLink} \union Made] /\ reg'[n] = f
        /\ \A l \in Link : l # n => reg'[l] = reg[l]
        /\ cache' \in [Proc -> [Link -> {NoLink} \union Made]] /\ cache'[p][n] = f
        /\ \A q \in Proc : \A l \in Link : q # p \/ l # n => cache'[q][l] = cache[q][l]
    BY <2>1, <2>3, WriteIs
  <2> QED
    BY <1>2, <2>2, <2>3, <2>5, <2>6
<1> QED
  BY <1>1, <1>2 DEF Claims

LEMMA JoinStep ==
  ASSUME RegistryAssumption, Base, NEW p \in Proc, NEW m \in Machine, Join(p, m)
  PROVE  Base'
<1> DEFINE n == Head(todo[m])
<1>1. /\ by[m] = p /\ vm[m] = "joining" /\ todo[m] # <<>> /\ creating.by # p
      /\ EntryFree(n) /\ n \in Link /\ n \in Elems(todo[m])
      /\ Tail(todo[m]) \in Seq(Link) /\ Elems(todo[m]) = {n} \union Elems(Tail(todo[m]))
      /\ creating # NoCreate => creating.machine # m
      /\ UNCHANGED <<scene, by, net>>
      /\ \/ Claims(p, m, n) \/ Refused(p, m, n)
         \/ /\ reg[n] = NoLink /\ Allocate(p, n, "listen-connect", TRUE, m)
            /\ UNCHANGED <<reg, cache, vm, todo>>
  BY JoinIs
<1> HIDE DEF n
<1>2. Typed /\ CreateInv /\ OneAtATime /\ PortsBounded
  BY DEF Base
<1>3. p # Nobody /\ AtLinks(m) /\ m # Nobody /\ Elems(todo[m]) \subseteq On(m)
  BY <1>1, <1>2 DEF RegistryAssumption, AtLinks, Typed
<1>4. CASE Claims(p, m, n)
  <2>1. /\ reg' \in [Link -> {NoLink} \union Made]
        /\ cache' \in [Proc -> [Link -> {NoLink} \union Made]] /\ cache'[p][n] = reg'[n]
        /\ \A l \in Link : l # n => reg'[l] = reg[l]
        /\ \A q \in Proc : \A l \in Link : q # p \/ l # n => cache'[q][l] = cache[q][l]
        /\ reg'[n].port = 0 \/ (reg[n] # NoLink /\ reg'[n].port = reg[n].port)
    BY <1>1, <1>2, <1>4, ClaimsIs
  <2>2. UNCHANGED <<creating, vm>> /\ todo' = [todo EXCEPT ![m] = Tail(todo[m])]
    BY <1>4 DEF Claims
  <2>3. creating # NoCreate => reg'[creating.link] = NoLink
    BY <1>1, <1>2, <2>1 DEF CreateInv, EntryFree, Typed
  <2>4. /\ vm' \in [Machine -> {"off", "joining", "spawning", "on", "leaving", "dead", "crashed"}]
        /\ by' \in [Machine -> Proc \union {Nobody}] /\ todo' \in [Machine -> Seq(Link)]
        /\ net' \in [Machine -> [Link -> {"none", "group", "1", "2"}]]
        /\ Elems(todo'[m]) \subseteq On(m)
        /\ \A k \in Machine \ {m} : vm'[k] = vm[k] /\ by'[k] = by[k] /\ todo'[k] = todo[k]
        /\ vm'[m] = vm[m] /\ by'[m] = p
    BY <1>1, <1>2, <1>3, <2>2 DEF Typed
  <2>5. /\ \A l \in Link : reg'[l] # NoLink =>
             reg'[l].port = 0 \/ (reg[l] # NoLink /\ reg'[l].port = reg[l].port)
        /\ \A q \in Proc : \A l \in Link : cache'[q][l] \in {cache[q][l], reg[l], reg'[l]}
    BY <2>1
  <2> QED
    BY <1>1, <1>3, <2>1, <2>2, <2>3, <2>4, <2>5, MachineStep
<1>5. CASE Refused(p, m, n)
  <2>1. /\ vm' = [vm EXCEPT ![m] = "leaving"] /\ todo' = [todo EXCEPT ![m] = Uses[m]]
        /\ cache' = [cache EXCEPT ![p][n] = reg[n]] /\ UNCHANGED <<reg, creating>>
    BY <1>5 DEF Refused
  <2>2. /\ reg' \in [Link -> {NoLink} \union Made]
        /\ cache' \in [Proc -> [Link -> {NoLink} \union Made]]
        /\ \A q \in Proc : \A l \in Link : cache'[q][l] \in {cache[q][l], reg[l]}
        /\ \A l \in Link : reg'[l] = reg[l]
    BY <1>1, <1>2, <2>1 DEF Typed
  <2>3. creating # NoCreate => reg'[creating.link] = NoLink
    BY <1>2, <2>1 DEF CreateInv
  <2>4. /\ vm' \in [Machine -> {"off", "joining", "spawning", "on", "leaving", "dead", "crashed"}]
        /\ by' \in [Machine -> Proc \union {Nobody}] /\ todo' \in [Machine -> Seq(Link)]
        /\ net' \in [Machine -> [Link -> {"none", "group", "1", "2"}]]
        /\ Elems(todo'[m]) \subseteq On(m)
        /\ \A k \in Machine \ {m} : vm'[k] = vm[k] /\ by'[k] = by[k] /\ todo'[k] = todo[k]
        /\ vm'[m] = "leaving" /\ by'[m] = p
    BY <1>1, <1>2, <2>1, AllLinks DEF Typed
  <2>5. /\ \A l \in Link : reg'[l] # NoLink =>
             reg'[l].port = 0 \/ (reg[l] # NoLink /\ reg'[l].port = reg[l].port)
        /\ \A q \in Proc : \A l \in Link : cache'[q][l] # NoLink =>
             cache'[q][l] \in {cache[q][l], reg[l], reg'[l]}
    BY <2>2
  <2>6. (by'[m] # Nobody <=> vm'[m] \in {"joining", "spawning", "leaving"}) /\ by'[m] = by[m]
    BY <1>1, <1>3, <2>4
  <2> QED
    BY <1>1, <1>3, <2>1, <2>2, <2>3, <2>4, <2>5, <2>6, MachineStep
<1>6. CASE /\ reg[n] = NoLink /\ Allocate(p, n, "listen-connect", TRUE, m)
           /\ UNCHANGED <<reg, cache, vm, todo>>
  <2> DEFINE mode == "listen-connect"
             auto == TRUE
  <2>1. mode \in Mode /\ auto \in BOOLEAN /\ (auto <=> m # Nobody)
    BY <1>3 DEF Mode, Pair
  <2>2. Allocate(p, n, mode, auto, m)
    BY <1>6
  <2> HIDE DEF mode, auto
  <2>3. \A k \in Machine : by[k] = p /\ AtLinks(k) => k = m
    BY <1>1, <1>2, <1>3 DEF OneAtATime
  <2>4. Head(todo[m]) = n
    BY DEF n
  <2>5. /\ creating' \in [by : Proc, link : Link, machine : Machine \union {Nobody}, entry : Made]
        /\ CreateInv' /\ PortsBounded'
    BY <1>1, <1>6, <2>1, <2>2, <2>3, <2>4, AllocateKeeps
  <2>6. Typed'
    BY <1>1, <1>2, <1>6, <2>5, TypedEntries DEF Typed
  <2>7. OneAtATime'
    BY <1>1, <1>2, <1>6 DEF OneAtATime, AtLinks
  <2> QED
    BY <2>5, <2>6, <2>7 DEF Base
<1> QED
  BY <1>1, <1>4, <1>5, <1>6

LEMMA LeaveIs ==
  ASSUME RegistryAssumption, Typed, NEW p \in Proc, NEW m \in Machine, Leave(p, m),
         NEW n, n = Head(todo[m])
  PROVE  /\ by[m] = p /\ vm[m] = "leaving" /\ EntryFree(n) /\ n \in Link
         /\ todo' = [todo EXCEPT ![m] = Tail(todo[m])]
         /\ Tail(todo[m]) \in Seq(Link) /\ Elems(todo[m]) = {n} \union Elems(Tail(todo[m]))
         /\ UNCHANGED <<scene, creating, vm, by, net>>
         /\ reg' \in [Link -> {NoLink} \union Made]
         /\ cache' \in [Proc -> [Link -> {NoLink} \union Made]] /\ cache'[p][n] = reg'[n]
         /\ \A l \in Link : l # n => reg'[l] = reg[l]
         /\ \A q \in Proc : \A l \in Link : q # p \/ l # n => cache'[q][l] = cache[q][l]
         /\ reg[n] = NoLink => reg'[n] = NoLink
         /\ reg'[n] # NoLink => reg'[n].port = reg[n].port
         /\ reg'[n] # NoLink => (Single(reg[n]) => Single(reg'[n]))
                                /\ (reg'[n].auto => reg'[n].members # {})
         /\ HasNot(reg'[n], m) /\ \A k \in Machine \ {m} : Keeps(reg[n], reg'[n], k)
<1> DEFINE e == reg[n]
           f == Left(e, m)
           g == IF Exhausted(f) THEN NoLink ELSE f
<1>1. /\ by[m] = p /\ vm[m] = "leaving" /\ todo[m] # <<>> /\ EntryFree(n)
      /\ todo' = [todo EXCEPT ![m] = Tail(todo[m])]
      /\ UNCHANGED <<scene, creating, vm, by, net>>
      /\ IF e = NoLink THEN reg' = reg /\ cache' = [cache EXCEPT ![p][n] = NoLink]
         ELSE Write(p, n, g)
  BY DEF Leave, Holding, Reload
<1>2. todo[m] \in Seq(Link)
  BY DEF Typed
<1>3. /\ n \in Link /\ Tail(todo[m]) \in Seq(Link)
      /\ Elems(todo[m]) = {n} \union Elems(Tail(todo[m]))
  BY <1>1, <1>2, ElemsIs
<1>4. CASE e = NoLink
  <2>1. reg' = reg /\ cache' = [cache EXCEPT ![p][n] = NoLink]
    BY <1>1, <1>4
  <2>2. HasNot(reg'[n], m) /\ \A k \in Machine : Keeps(reg[n], reg'[n], k)
    BY <1>4, <2>1, KeepsSame DEF HasNot
  <2>3. /\ reg' \in [Link -> {NoLink} \union Made] /\ reg'[n] = NoLink
        /\ cache' \in [Proc -> [Link -> {NoLink} \union Made]] /\ cache'[p][n] = NoLink
        /\ \A q \in Proc : \A l \in Link : q # p \/ l # n => cache'[q][l] = cache[q][l]
    BY <1>3, <1>4, <2>1 DEF Typed
  <2> QED
    BY <1>1, <1>3, <1>4, <2>1, <2>2, <2>3
<1>5. CASE e # NoLink
  <2>1. e \in Made
    BY <1>3, <1>5 DEF Typed
  <2> HIDE DEF e
  <2>2. /\ f \in Made /\ f.port = e.port /\ HasNot(f, m) /\ (Single(e) => Single(f))
    BY <2>1, LeftIs
  <2>3. \A k \in Machine \ {m} : Keeps(e, f, k)
    BY <2>1, KeepsLeft
  <2> HIDE DEF f
  <2>4. f # NoLink
    BY <2>2, MadeIs
  <2>5. g \in {NoLink} \union Made /\ HasNot(g, m) /\ (g # NoLink => g = f /\ ~ Exhausted(f))
    BY <2>2 DEF HasNot
  <2>6. \A k \in Machine \ {m} : Keeps(e, g, k)
    <3>1. CASE Exhausted(f)
      <4>1. f.members = {} /\ g = NoLink
        BY <3>1 DEF Exhausted
      <4>2. \A k \in Machine \ {m} : Keeps(f, g, k)
        BY <4>1, KeepsRemoved
      <4> QED
        BY <2>3, <4>1, <4>2, <2>4 DEF Keeps, Has, HasNot
    <3>2. CASE ~ Exhausted(f)
      BY <2>3, <3>2
    <3> QED
      BY <3>1, <3>2
  <2>7. Write(p, n, g)
    BY <1>1, <1>5
  <2>8. g # NoLink => g.port = e.port /\ (Single(e) => Single(g)) /\ (g.auto => g.members # {})
    BY <2>2, <2>5 DEF Exhausted
  <2> HIDE DEF g
  <2>9. /\ reg' \in [Link -> {NoLink} \union Made] /\ reg'[n] = g
        /\ \A l \in Link : l # n => reg'[l] = reg[l]
        /\ cache' \in [Proc -> [Link -> {NoLink} \union Made]] /\ cache'[p][n] = g
        /\ \A q \in Proc : \A l \in Link : q # p \/ l # n => cache'[q][l] = cache[q][l]
    BY <1>3, <2>5, <2>7, WriteIs
  <2> QED
    BY <1>1, <1>3, <1>5, <2>5, <2>6, <2>8, <2>9 DEF e
<1> QED
  BY <1>4, <1>5

LEMMA LeaveStep ==
  ASSUME RegistryAssumption, Base, NEW p \in Proc, NEW m \in Machine, Leave(p, m)
  PROVE  Base'
<1> SUFFICES ASSUME NEW n, n = Head(todo[m]) PROVE Base'
  OBVIOUS
<1>1. Typed /\ CreateInv
  BY DEF Base
<1>2. /\ by[m] = p /\ vm[m] = "leaving" /\ EntryFree(n) /\ n \in Link
      /\ todo' = [todo EXCEPT ![m] = Tail(todo[m])]
      /\ Tail(todo[m]) \in Seq(Link) /\ Elems(todo[m]) = {n} \union Elems(Tail(todo[m]))
      /\ UNCHANGED <<scene, creating, vm, by, net>>
      /\ reg' \in [Link -> {NoLink} \union Made]
      /\ cache' \in [Proc -> [Link -> {NoLink} \union Made]] /\ cache'[p][n] = reg'[n]
      /\ \A l \in Link : l # n => reg'[l] = reg[l]
      /\ \A q \in Proc : \A l \in Link : q # p \/ l # n => cache'[q][l] = cache[q][l]
      /\ reg[n] = NoLink => reg'[n] = NoLink
      /\ reg'[n] # NoLink => reg'[n].port = reg[n].port
  <2>1. Typed
    BY <1>1
  <2>2. by[m] = p /\ vm[m] = "leaving" /\ EntryFree(n) /\ n \in Link
    BY <2>1, LeaveIs
  <2>3. todo' = [todo EXCEPT ![m] = Tail(todo[m])] /\ Tail(todo[m]) \in Seq(Link)
    BY <2>1, LeaveIs
  <2>4. Elems(todo[m]) = {n} \union Elems(Tail(todo[m]))
    BY <2>1, LeaveIs
  <2>5. UNCHANGED <<scene, creating, vm, by, net>>
    BY <2>1, LeaveIs
  <2>6. reg' \in [Link -> {NoLink} \union Made]
    BY <2>1, LeaveIs
  <2>7. cache' \in [Proc -> [Link -> {NoLink} \union Made]] /\ cache'[p][n] = reg'[n]
    BY <2>1, LeaveIs
  <2>8. \A l \in Link : l # n => reg'[l] = reg[l]
    BY <2>1, LeaveIs
  <2>9. \A q \in Proc : \A l \in Link : q # p \/ l # n => cache'[q][l] = cache[q][l]
    BY <2>1, LeaveIs
  <2>10. /\ reg[n] = NoLink => reg'[n] = NoLink
         /\ reg'[n] # NoLink => reg'[n].port = reg[n].port
    BY <2>1, LeaveIs
  <2> QED
    BY <2>2, <2>3, <2>4, <2>5, <2>6, <2>7, <2>8, <2>9, <2>10
<1>3. creating # NoCreate => creating.machine # m /\ reg'[creating.link] = NoLink
  BY <1>1, <1>2, ChosenFor DEF CreateInv, EntryFree, Typed
<1>4. /\ vm' \in [Machine -> {"off", "joining", "spawning", "on", "leaving", "dead", "crashed"}]
      /\ by' \in [Machine -> Proc \union {Nobody}] /\ todo' \in [Machine -> Seq(Link)]
      /\ net' \in [Machine -> [Link -> {"none", "group", "1", "2"}]]
      /\ Elems(todo'[m]) \subseteq On(m)
      /\ \A k \in Machine \ {m} : vm'[k] = vm[k] /\ by'[k] = by[k] /\ todo'[k] = todo[k]
      /\ by'[m] # Nobody <=> vm'[m] \in {"joining", "spawning", "leaving"}
      /\ AtLinks(m) /\ by'[m] = by[m]
  BY <1>1, <1>2 DEF Typed, AtLinks
<1>5. \A l \in Link : reg'[l] # NoLink =>
        reg'[l].port = 0 \/ (reg[l] # NoLink /\ reg'[l].port = reg[l].port)
  BY <1>2
<1>6. \A q \in Proc : \A l \in Link : cache'[q][l] # NoLink =>
        cache'[q][l] \in {cache[q][l], reg[l], reg'[l]}
  BY <1>2
<1> QED
  BY <1>2, <1>3, <1>4, <1>5, <1>6, MachineStep

\* resolveSocketNamed(), and what it depends on.
LEMMA ResolveStep ==
  ASSUME RegistryAssumption, Base, NEW p \in Proc, NEW m \in Machine, Resolve(p, m),
         net' \in [Machine -> [Link -> {"none", "group", "1", "2"}]]
  PROVE  Base'
<1>1. /\ by[m] = p /\ vm[m] = "joining" /\ todo[m] = <<>> /\ LookUp(p, On(m))
      /\ UNCHANGED <<scene, reg, creating, by>>
      /\ \/ vm' = [vm EXCEPT ![m] = "spawning"] /\ UNCHANGED todo
         \/ vm' = [vm EXCEPT ![m] = "leaving"] /\ todo' = [todo EXCEPT ![m] = Uses[m]]
  BY DEF Resolve, Holding, Goes, Fail, Release
<1>2. Typed /\ CreateInv
  BY DEF Base
<1>3. /\ cache' \in [Proc -> [Link -> {NoLink} \union Made]]
      /\ \A q \in Proc : \A n \in Link : cache'[q][n] \in {cache[q][n], reg[n]}
  BY <1>1, <1>2, LookUpIs
<1>4. creating # NoCreate => creating.machine # m
  BY <1>1, ChosenFor
<1>5. creating # NoCreate => reg'[creating.link] = NoLink
  BY <1>1, <1>2 DEF CreateInv
<1>6. /\ vm' \in [Machine -> {"off", "joining", "spawning", "on", "leaving", "dead", "crashed"}]
      /\ by' \in [Machine -> Proc \union {Nobody}] /\ todo' \in [Machine -> Seq(Link)]
      /\ reg' \in [Link -> {NoLink} \union Made] /\ \A n \in Link : reg'[n] = reg[n]
      /\ Elems(todo'[m]) \subseteq On(m)
      /\ \A k \in Machine \ {m} : vm'[k] = vm[k] /\ by'[k] = by[k] /\ todo'[k] = todo[k]
      /\ by'[m] # Nobody <=> vm'[m] \in {"joining", "spawning", "leaving"}
      /\ by'[m] = by[m]
  <2>1. Elems(todo[m]) \subseteq On(m) /\ Uses[m] \in Seq(Link) /\ Elems(Uses[m]) \subseteq On(m)
    BY <1>2, AllLinks DEF Typed
  <2> QED
    BY <1>1, <1>2, <2>1 DEF Typed
<1>7. \A n \in Link : reg'[n] # NoLink =>
        reg'[n].port = 0 \/ (reg[n] # NoLink /\ reg'[n].port = reg[n].port)
  BY <1>6
<1>8. \A q \in Proc : \A n \in Link : cache'[q][n] # NoLink =>
        cache'[q][n] \in {cache[q][n], reg[n], reg'[n]}
  BY <1>3
<1>9. AtLinks(m)
  BY <1>1 DEF AtLinks
<1> QED
  BY <1>1, <1>3, <1>4, <1>5, <1>6, <1>7, <1>8, <1>9, MachineStep

\* What QEMU is told of each link: an end of the machine's, as the process knows it.
LEMMA ResolveIs ==
  ASSUME RegistryAssumption, Base, NEW p \in Proc, NEW m \in Machine, Resolve(p, m)
  PROVE  /\ net' \in [Machine -> [Link -> {"none", "group", "1", "2"}]]
         /\ \A k \in Machine \ {m} : net'[k] = net[k]
         /\ \/ vm' = [vm EXCEPT ![m] = "leaving"] /\ todo' = [todo EXCEPT ![m] = Uses[m]] /\ net' = net
            \/ /\ vm' = [vm EXCEPT ![m] = "spawning"]
               /\ \A n \in Link \ On(m) : net'[m][n] = "none"
               /\ \A n \in On(m) :
                    /\ Known(p, n) \in Made
                    /\ Known(p, n).mode = "mcast" => net'[m][n] = "group"
                    /\ Known(p, n).mode \in Pair =>
                         \E i \in EndOf(Known(p, n), m) : net'[m][n] = EndName[i]
<1>1. Typed /\ On(m) \subseteq Link
  BY AllLinks DEF Base
<1>2. CASE vm' = [vm EXCEPT ![m] = "leaving"] /\ todo' = [todo EXCEPT ![m] = Uses[m]] /\ net' = net
  BY <1>1, <1>2 DEF Typed
<1>3. CASE ~ (vm' = [vm EXCEPT ![m] = "leaving"] /\ todo' = [todo EXCEPT ![m] = Uses[m]] /\ net' = net)
  <2> DEFINE told(n) == IF n \notin On(m) THEN "none"
                        ELSE IF Known(p, n).mode = "mcast" THEN "group"
                        ELSE EndName[CHOOSE i \in EndOf(Known(p, n), m) : TRUE]
  <2>1. /\ vm' = [vm EXCEPT ![m] = "spawning"]
        /\ \A n \in On(m) :
             Known(p, n) # NoLink /\ (Known(p, n).mode \in Pair => EndOf(Known(p, n), m) # {})
        /\ net' = [net EXCEPT ![m] = [n \in Link |-> told(n)]]
    BY <1>3 DEF Resolve, Fail, Goes, Release
  <2>2. \A n \in Link \ On(m) : told(n) = "none"
    OBVIOUS
  <2>3. ASSUME NEW n \in On(m)
        PROVE  /\ Known(p, n) \in Made
               /\ Known(p, n).mode = "mcast" => told(n) = "group"
               /\ Known(p, n).mode \in Pair =>
                    told(n) \in {"1", "2"} /\ \E i \in EndOf(Known(p, n), m) : told(n) = EndName[i]
    <3> DEFINE e == Known(p, n)
               i == CHOOSE i \in EndOf(e, m) : TRUE
    <3>1. e \in Made
      BY <1>1, <2>1 DEF Known, Typed
    <3>2. e.mode = "mcast" => told(n) = "group"
      OBVIOUS
    <3>3. e.mode \in Pair => e.mode # "mcast"
      BY DEF Pair
    <3>4. ASSUME e.mode \in Pair
          PROVE  told(n) = EndName[i] /\ i \in EndOf(e, m)
      BY <2>1, <3>3, <3>4
    <3> HIDE DEF told, e, i
    <3>5. ASSUME e.mode \in Pair PROVE EndName[i] \in {"1", "2"}
      <4>1. i \in {1, 2}
        BY <3>1, <3>4, <3>5, MadeIs DEF EndOf
      <4> QED
        BY <4>1 DEF EndName
    <3> QED
      BY <3>1, <3>2, <3>4, <3>5 DEF e
  <2>4. \A n \in Link : told(n) \in {"none", "group", "1", "2"}
    <3> SUFFICES ASSUME NEW n \in Link, n \in On(m) PROVE told(n) \in {"none", "group", "1", "2"}
      BY <2>2
    <3>1. Known(p, n).mode \in Pair \union {"mcast"}
      BY <2>3, MadeIs DEF Mode
    <3> HIDE DEF told
    <3> QED
      BY <2>3, <3>1
  <2> HIDE DEF told
  <2>5. /\ net' \in [Machine -> [Link -> {"none", "group", "1", "2"}]]
        /\ \A k \in Machine \ {m} : net'[k] = net[k]
        /\ \A n \in Link : net'[m][n] = told(n)
    BY <1>1, <2>1, <2>4 DEF Typed
  <2> QED
    BY <1>1, <2>1, <2>2, <2>3, <2>5
<1> QED
  BY <1>2, <1>3

LEMMA BaseInit == ASSUME RegistryAssumption, Init PROVE Base
<1>1. Typed
  <2>1. NoNet \in [Link -> {"none", "group", "1", "2"}] /\ <<>> \in Seq(Link)
    BY DEF NoNet
  <2>2. \A m \in Machine : Elems(todo[m]) \subseteq On(m)
    BY ElemsNone DEF Init
  <2> QED
    BY <2>1, <2>2 DEF Init, Typed
<1>2. OneAtATime /\ CreateInv
  BY DEF Init, OneAtATime, AtLinks, CreateInv
<1>3. Below(0)
  BY DEF Init, Below
<1> QED
  BY <1>1, <1>2, <1>3 DEF Base, PortsBounded

LEMMA BaseNext == ASSUME RegistryAssumption, Base, [Next]_vars PROVE Base'
<1>1. CASE UNCHANGED vars
  <2>1. UNCHANGED <<scene, reg, cache, creating, vm, by, todo, net>>
    BY <1>1 DEF vars, shared, machines
  <2>2. Typed' /\ OneAtATime' /\ CreateInv'
    BY <2>1, TypedEntries DEF Base, Typed, OneAtATime, CreateInv, AtLinks
  <2>3. PortsBounded'
    BY <2>1 DEF Base, PortsBounded, Below
  <2> QED
    BY <2>2, <2>3 DEF Base
<1>2. ASSUME NEW p \in Proc, NEW n \in Link, Create(p, n) \/ Remove(p, n) PROVE Base'
  BY <1>2, CreateStep, RemoveStep
<1>3. CASE SaveCreated
  BY <1>3, SaveCreatedStep
<1>4. ASSUME NEW p \in Proc, NEW m \in Machine, Launch(p, m) PROVE Base'
  <2>1. Resolve(p, m) => Base'
    BY ResolveIs, ResolveStep
  <2> QED
    BY <1>4, <2>1, StartStep, RefusedStep, JoinStep, TimeOutStep, SpawnStep, SpawnFailsStep,
       StopStep, LeaveStep, GoneStep DEF Launch
<1>5. ASSUME NEW m \in Machine, Die(m) \/ Refresh(m) PROVE Base'
  BY <1>5, DieStep
<1>6. ASSUME NEW p \in Proc, Crash(p) PROVE Base'
  BY <1>6, CrashStep
<1> QED
  BY <1>1, <1>2, <1>3, <1>4, <1>5, <1>6 DEF Next

LEMMA BaseInv == ASSUME RegistryAssumption PROVE Spec => []Base
<1> QED
  BY BaseInit, BaseNext, PTL DEF Spec

\* Every value of the state keeps its kind: an entry has two ends or is a group, and who
\* starts or stops a machine is known exactly while somebody does.
THEOREM TypesKept == ASSUME RegistryAssumption PROVE Spec => []TypeOK
<1>1. Typed => TypeOK
  <2>1. {NoLink} \union Made \subseteq Entries
    BY DEF Made, Entries, Mode
  <2>2. ASSUME Typed PROVE TypeOK
    <3>1. reg \in [Link -> Entries] /\ cache \in [Proc -> [Link -> Entries]]
      BY <2>1, <2>2 DEF Typed
    <3> QED
      BY <2>2, <3>1 DEF Typed, TypeOK
  <2> QED
    BY <2>2
<1>2. Base => TypeOK
  BY <1>1 DEF Base
<1> QED
  BY <1>2, BaseInv, PTL

----------------------------------------------------------------------------
(* Entries and ports *)

SafeEntries ==
  \A n \in Link : reg[n] # NoLink => Single(reg[n]) /\ (reg[n].auto => reg[n].members # {})

\* A port is new only on the link it was chosen for.
LEMMA PortsKept ==
  ASSUME Typed, PortsDiffer,
         \A n \in Link : reg'[n] # NoLink =>
           reg'[n].port = 0 \/ (reg[n] # NoLink /\ reg'[n].port = reg[n].port)
  PROVE  PortsDiffer'
<1> SUFFICES ASSUME NEW n \in Link, NEW l \in Link, n # l, reg'[n] # NoLink, reg'[l] # NoLink,
                    reg'[n].port # 0
             PROVE  reg'[n].port # reg'[l].port
  BY DEF PortsDiffer
<1>1. reg[n] # NoLink /\ reg'[n].port = reg[n].port
  OBVIOUS
<1>2. reg'[l].port = 0 \/ (reg[l] # NoLink /\ reg'[l].port = reg[l].port)
  OBVIOUS
<1> QED
  BY <1>1, <1>2 DEF PortsDiffer

LEMMA CreateIs ==
  ASSUME RegistryAssumption, Typed, NEW p \in Proc, NEW n \in Link, Create(p, n)
  PROVE  /\ ~ Busy(p) /\ EntryFree(n) /\ reg[n] = NoLink /\ UNCHANGED <<scene, vm, by, todo, net>>
         /\ \A l \in Link : l # n => reg'[l] = reg[l]
         /\ \A q \in Proc : \A l \in Link : q # p \/ l # n => cache'[q][l] = cache[q][l]
         /\ \/ UNCHANGED <<reg, cache>>
            \/ /\ reg'[n] \in Made /\ reg'[n].port = 0 /\ Single(reg'[n]) /\ ~ reg'[n].auto
               /\ \A k \in Machine : HasNot(reg'[n], k)
<1>1. ~ Busy(p) /\ EntryFree(n) /\ reg[n] = NoLink /\ UNCHANGED <<scene, vm, by, todo, net>>
  BY DEF Create, Reload, machines
<1>2. CASE UNCHANGED <<reg, cache>>
  BY <1>1, <1>2
<1>3. CASE ~ UNCHANGED <<reg, cache>>
  <2> DEFINE auto == FALSE
             e == Entry("dgram", 0, auto)
  <2>1. auto \in BOOLEAN /\ ~ auto /\ Write(p, n, e)
    BY <1>3 DEF Create
  <2> HIDE DEF auto
  <2>2. /\ e \in Made /\ Single(e) /\ e.port = 0 /\ ~ e.auto /\ e.members = {}
        /\ \A k \in Machine : EndOf(e, k) = {}
    BY <2>1, NewDgram
  <2> HIDE DEF e
  <2>3. /\ reg'[n] = e
        /\ \A l \in Link : l # n => reg'[l] = reg[l]
        /\ \A q \in Proc : \A l \in Link : q # p \/ l # n => cache'[q][l] = cache[q][l]
    BY <2>1, <2>2, WriteIs
  <2>4. \A k \in Machine : HasNot(e, k)
    BY <2>2 DEF HasNot
  <2> QED
    BY <1>1, <2>2, <2>3, <2>4
<1> QED
  BY <1>2, <1>3

\* A step that leaves every file as it is, or makes, changes or removes one.
LEMMA EntriesKept ==
  ASSUME RegistryAssumption, Base, SafeEntries, PortsDiffer, Next
  PROVE  SafeEntries' /\ PortsDiffer'
<1>1. Typed /\ CreateInv
  BY DEF Base
<1>2. ASSUME reg' = reg PROVE SafeEntries' /\ PortsDiffer'
  BY <1>2 DEF SafeEntries, PortsDiffer
<1>3. ASSUME NEW p \in Proc, NEW n \in Link, Create(p, n) PROVE SafeEntries' /\ PortsDiffer'
  <2>1. /\ \A l \in Link : l # n => reg'[l] = reg[l]
        /\ reg' = reg \/ (reg'[n].port = 0 /\ Single(reg'[n]) /\ ~ reg'[n].auto)
    BY <1>1, <1>3, CreateIs
  <2> QED
    BY <1>1, <1>2, <2>1, PortsKept DEF SafeEntries
<1>4. ASSUME NEW p \in Proc, NEW n \in Link, Remove(p, n) PROVE SafeEntries' /\ PortsDiffer'
  <2>1. \A l \in Link : reg'[l] = NoLink \/ reg'[l] = reg[l]
    BY <1>1, <1>4 DEF Remove, Write, Typed
  <2> QED
    BY <1>1, <2>1, PortsKept DEF SafeEntries
<1>5. ASSUME SaveCreated PROVE SafeEntries' /\ PortsDiffer'
  <2> SUFFICES ASSUME NEW m, m = creating.machine, NEW n, n = creating.link, NEW e,
                      e = IF m = Nobody THEN creating.entry ELSE Claimed(creating.entry, m)
               PROVE  SafeEntries' /\ PortsDiffer'
    OBVIOUS
  <2>1. creating # NoCreate /\ Write(creating.by, n, e) /\ creating.by \in Proc /\ n \in Link
    BY <1>1, <1>5 DEF SaveCreated, Typed
  <2>2. /\ e \in Made /\ Single(e) /\ e.port = creating.entry.port
        /\ (e.auto <=> m # Nobody) /\ (m # Nobody => e.members = {m})
    BY <2>1, SavedIs
  <2>3. /\ reg'[n] = e /\ \A l \in Link : l # n => reg'[l] = reg[l]
    BY <1>1, <2>1, <2>2, WriteIs
  <2>4. /\ reg[n] = NoLink /\ e.port # 0
        /\ \A l \in Link : reg[l] # NoLink => reg[l].port # e.port
    BY <1>1, <2>1, <2>2 DEF CreateInv
  <2>5. SafeEntries'
    BY <2>2, <2>3 DEF SafeEntries
  <2>6. PortsDiffer'
    BY <2>3, <2>4 DEF PortsDiffer
  <2> QED
    BY <2>5, <2>6
<1>6. ASSUME NEW p \in Proc, NEW m \in Machine, Join(p, m) PROVE SafeEntries' /\ PortsDiffer'
  <2> SUFFICES ASSUME NEW n, n = Head(todo[m]) PROVE SafeEntries' /\ PortsDiffer'
    OBVIOUS
  <2>1. n \in Link /\ (Claims(p, m, n) \/ reg' = reg)
    BY <1>6, JoinIs DEF Refused
  <2>2. CASE Claims(p, m, n)
    <3>1. /\ \A l \in Link : l # n => reg'[l] = reg[l]
          /\ reg'[n].port = 0 \/ (reg[n] # NoLink /\ reg'[n].port = reg[n].port)
          /\ (reg[n] # NoLink => Single(reg[n])) => Single(reg'[n])
          /\ reg'[n].members # {}
      BY <1>1, <2>1, <2>2, ClaimsIs
    <3>2. SafeEntries'
      BY <2>1, <3>1 DEF SafeEntries
    <3>3. PortsDiffer'
      BY <1>1, <3>1, PortsKept
    <3> QED
      BY <3>2, <3>3
  <2> QED
    BY <1>2, <2>1, <2>2
<1>7. ASSUME NEW p \in Proc, NEW m \in Machine, Leave(p, m) PROVE SafeEntries' /\ PortsDiffer'
  <2> SUFFICES ASSUME NEW n, n = Head(todo[m]) PROVE SafeEntries' /\ PortsDiffer'
    OBVIOUS
  <2>1. \A l \in Link : l # n => reg'[l] = reg[l]
    BY <1>1, <1>7, LeaveIs
  <2>2. n \in Link
    BY <1>1, <1>7, LeaveIs
  <2>3. /\ reg[n] = NoLink => reg'[n] = NoLink
        /\ reg'[n] # NoLink => reg'[n].port = reg[n].port
    BY <1>1, <1>7, LeaveIs
  <2>4. reg'[n] # NoLink => (Single(reg[n]) => Single(reg'[n]))
                            /\ (reg'[n].auto => reg'[n].members # {})
    BY <1>1, <1>7, LeaveIs
  <2>5. SafeEntries'
    BY <2>1, <2>2, <2>3, <2>4 DEF SafeEntries
  <2>6. PortsDiffer'
    <3>1. \A l \in Link : reg'[l] # NoLink =>
            reg'[l].port = 0 \/ (reg[l] # NoLink /\ reg'[l].port = reg[l].port)
      BY <2>1, <2>3
    <3> QED
      BY <1>1, <3>1, PortsKept
  <2> QED
    BY <2>5, <2>6
<1>8. ASSUME NEW p \in Proc, NEW m \in Machine, Launch(p, m), ~ Join(p, m), ~ Leave(p, m)
      PROVE  reg' = reg
  BY <1>8 DEF Launch, Start, RefusedForRoom, TimeOut, Resolve, Spawn, SpawnFails, Stop, Gone, shared
<1>9. ASSUME NEW m \in Machine, Die(m) \/ Refresh(m) PROVE reg' = reg
  BY <1>9 DEF Die, Refresh, shared
<1>10. ASSUME NEW p \in Proc, Crash(p) PROVE reg' = reg
  BY <1>10 DEF Crash
<1> QED
  BY <1>2, <1>3, <1>4, <1>5, <1>6, <1>7, <1>8, <1>9, <1>10 DEF Next

EntriesInv == Base /\ SafeEntries /\ PortsDiffer

LEMMA EntriesInit == ASSUME RegistryAssumption, Init PROVE EntriesInv
BY BaseInit DEF Init, EntriesInv, SafeEntries, PortsDiffer

LEMMA EntriesNext == ASSUME RegistryAssumption, EntriesInv, [Next]_vars PROVE EntriesInv'
<1>1. Base'
  BY BaseNext DEF EntriesInv
<1>2. CASE Next
  BY <1>1, <1>2, EntriesKept DEF EntriesInv
<1>3. CASE UNCHANGED vars
  BY <1>1, <1>3 DEF EntriesInv, SafeEntries, PortsDiffer, vars, shared
<1> QED
  BY <1>2, <1>3

LEMMA EntriesAlways == ASSUME RegistryAssumption PROVE Spec => []EntriesInv
BY EntriesInit, EntriesNext, PTL DEF Spec

LEMMA EntriesMean == EntriesInv => PortsDiffer /\ NoEmptyAutoLink
BY DEF EntriesInv, SafeEntries, NoEmptyAutoLink

\* Two links never have one port: automatic ports are the highest and one more, chosen and
\* written under the registry's lock (socket-registry.ts:227-237), whatever times out.
THEOREM PortsAlwaysDiffer == ASSUME RegistryAssumption PROVE Spec => []PortsDiffer
BY EntriesMean, EntriesAlways, PTL

\* A link made on demand does not outlive its members (socket-registry.ts:526-528), whatever
\* times out and whoever dies.
THEOREM NoneLeftEmpty == ASSUME RegistryAssumption PROVE Spec => []NoEmptyAutoLink
BY EntriesMean, EntriesAlways, PTL

----------------------------------------------------------------------------
(* What a machine has of a link                                            *)

\* What QEMU was told agrees with the file.
Told(m, n) ==
  /\ reg[n].mode = "mcast" => net[m][n] = "group"
  /\ reg[n].mode \in Pair => \E i \in {1, 2} : EndOf(reg[n], m) = {i} /\ net[m][n] = EndName[i]

Place(m, n) ==
  /\ n \notin On(m) => HasNot(reg[n], m)
  /\ vm[m] = "off" /\ ~ May("refresh") => HasNot(reg[n], m)
  /\ vm[m] = "leaving" /\ n \notin Elems(todo[m]) => HasNot(reg[n], m)
  /\ vm[m] = "joining" /\ n \in On(m) /\ n \notin Elems(todo[m]) =>
       Has(reg[n], m) /\ Same(cache[by[m]][n], reg[n], m)
  /\ vm[m] \in {"spawning", "on"} /\ n \in On(m) => Has(reg[n], m) /\ Told(m, n)
  /\ n \notin On(m) \/ vm[m] \notin {"spawning", "on"} => net[m][n] = "none"

Places == ~ May("time out") => \A m \in Machine : \A n \in Link : Place(m, n)

\* A machine keeps its place on a link while others move, as long as its own process, if it
\* joins, remembers the link as it did.
LEMMA PlaceKept ==
  ASSUME Typed, NEW m \in Machine, NEW n \in Link, Place(m, n), scene' = scene,
         vm'[m] = vm[m], by'[m] = by[m], todo'[m] = todo[m], net'[m] = net[m],
         Keeps(reg[n], reg'[n], m),
         vm[m] = "joining" /\ n \in On(m) /\ n \notin Elems(todo[m]) /\ cache[by[m]][n] # NoLink =>
           cache'[by[m]][n] = cache[by[m]][n]
  PROVE  Place(m, n)'
<1>1. On(m)' = On(m) /\ Elems(todo[m])' = Elems(todo[m])
  BY SameOn DEF Elems
<1>2. May("refresh")' = May("refresh")
  BY DEF May
<1>3. HasNot(reg[n], m) => HasNot(reg[n], m)'
  BY DEF Keeps, HasNot, EndOf
<1>4. Has(reg[n], m) => Has(reg[n], m)' /\ Same(reg[n], reg'[n], m)
  BY DEF Keeps, Has, EndOf
<1>5. ASSUME vm[m] = "joining", n \in On(m), n \notin Elems(todo[m])
      PROVE  Has(reg[n], m)' /\ Same(cache[by[m]][n], reg[n], m)'
  <2>1. Has(reg[n], m) /\ Same(cache[by[m]][n], reg[n], m)
    BY <1>5 DEF Place
  <2>2. reg[n] \in Made
    BY <2>1 DEF Has, Typed
  <2>3. cache[by[m]][n] # NoLink
    BY <2>1, <2>2, MadeIs DEF Same, NoLink, Mode, Pair
  <2>4. cache'[by'[m]][n] = cache[by[m]][n]
    BY <1>5, <2>3
  <2>5. Same(cache'[by'[m]][n], reg'[n], m)
    BY <1>4, <2>1, <2>4 DEF Same
  <2> QED
    BY <1>4, <2>1, <2>5 DEF Same, EndOf
<1>6. ASSUME vm[m] \in {"spawning", "on"}, n \in On(m)
      PROVE  Has(reg[n], m)' /\ Told(m, n)'
  <2>1. Has(reg[n], m) /\ Told(m, n)
    BY <1>6 DEF Place
  <2>2. Same(reg[n], reg'[n], m)
    BY <1>4, <2>1
  <2>3. Told(m, n)'
    BY <2>1, <2>2 DEF Told, Same, EndOf
  <2> QED
    BY <1>4, <2>1, <2>3
<1> QED
  BY <1>1, <1>2, <1>3, <1>5, <1>6 DEF Place

LEMMA AloneAtLinks ==
  ASSUME RegistryAssumption, Base, NEW p \in Proc, NEW m \in Machine, by[m] = p, AtLinks(m),
         NEW k \in Machine \ {m}
  PROVE  AtLinks(k) => by[k] # p
BY DEF Base, OneAtATime

LEMMA IdleAtLinks ==
  ASSUME NEW p \in Proc, ~ Busy(p), NEW k \in Machine
  PROVE  AtLinks(k) => by[k] # p
BY DEF Busy, AtLinks

\* `networks sockets create` and `remove`
LEMMA PlacesCreate ==
  ASSUME RegistryAssumption, Base, NEW p \in Proc, NEW l \in Link, Create(p, l) \/ Remove(p, l),
         NEW m \in Machine, NEW n \in Link, Place(m, n)
  PROVE  Place(m, n)'
<1>1. Typed
  BY DEF Base
<1>2. vm[m] = "joining" => by[m] # p /\ by[m] \in Proc
  <2>1. ~ Busy(p)
    BY DEF Create, Remove
  <2> QED
    BY <1>1, <2>1, IdleAtLinks DEF AtLinks, Typed
<1>3. CASE Create(p, l)
  <2>1. /\ reg[l] = NoLink /\ UNCHANGED <<scene, vm, by, todo, net>>
        /\ \A i \in Link : i # l => reg'[i] = reg[i]
        /\ \A q \in Proc : \A i \in Link : q # p \/ i # l => cache'[q][i] = cache[q][i]
        /\ UNCHANGED reg \/ HasNot(reg'[l], m)
    BY <1>1, <1>3, CreateIs
  <2>2. Keeps(reg[n], reg'[n], m)
    <3>1. CASE reg'[n] = reg[n]
      BY <3>1, KeepsSame
    <3>2. CASE reg'[n] # reg[n]
      BY <2>1, <3>2, KeepsNew
    <3> QED
      BY <3>1, <3>2
  <2> QED
    BY <1>1, <1>2, <2>1, <2>2, PlaceKept
<1>4. CASE Remove(p, l)
  <2>1. /\ reg[l].members = {} /\ Write(p, l, NoLink) /\ UNCHANGED <<scene, vm, by, todo, net>>
    BY <1>4 DEF Remove, Removable, Reload, machines
  <2>2. /\ reg'[l] = NoLink /\ \A i \in Link : i # l => reg'[i] = reg[i]
        /\ \A q \in Proc : \A i \in Link : q # p \/ i # l => cache'[q][i] = cache[q][i]
    BY <1>1, <2>1, WriteIs
  <2>3. Keeps(reg[n], reg'[n], m)
    BY <2>1, <2>2, KeepsRemoved, KeepsSame
  <2> QED
    BY <1>1, <1>2, <2>1, <2>2, <2>3, PlaceKept
<1> QED
  BY <1>3, <1>4

\* A machine that joins has an end of the link it has just got through, and what it has of
\* the others stays.
LEMMA PlaceClaimed ==
  ASSUME RegistryAssumption, Typed, NEW m \in Machine, NEW l \in Link, NEW n \in Link, Place(m, n),
         vm[m] = "joining", vm'[m] = "joining", scene' = scene, by'[m] = by[m], by[m] \in Proc,
         net'[m] = net[m], Elems(todo[m]) = {l} \union Elems(todo'[m]),
         \A i \in Link : i # l => reg'[i] = reg[i] /\ cache'[by[m]][i] = cache[by[m]][i],
         Has(reg'[l], m), cache'[by[m]][l] = reg'[l]
  PROVE  Place(m, n)'
<1>1. On(m)' = On(m) /\ Elems(todo[m])' = Elems(todo'[m])
  BY SameOn DEF Elems
<1>2. l \in On(m)
  BY DEF Typed
<1>3. Same(reg'[l], reg'[l], m)
  BY DEF Same
<1>4. n \notin On(m) => HasNot(reg[n], m)'
  <2>1. n \notin On(m) => n # l /\ HasNot(reg[n], m)
    BY <1>2 DEF Place
  <2> QED
    BY <2>1 DEF HasNot, EndOf
<1>5. ASSUME n \in On(m), n \notin Elems(todo'[m])
      PROVE  Has(reg[n], m)' /\ Same(cache[by[m]][n], reg[n], m)'
  <2>1. CASE n = l
    BY <1>3, <2>1 DEF Has, Same, EndOf
  <2>2. CASE n # l
    <3>1. Has(reg[n], m) /\ Same(cache[by[m]][n], reg[n], m)
      BY <1>5, <2>2 DEF Place
    <3>2. reg'[n] = reg[n] /\ cache'[by'[m]][n] = cache[by[m]][n]
      BY <2>2
    <3> QED
      BY <3>1, <3>2 DEF Has, Same, EndOf
  <2> QED
    BY <2>1, <2>2
<1>6. net[m][n] = "none"
  BY DEF Place
<1> QED
  BY <1>1, <1>4, <1>5, <1>6 DEF Place

LEMMA PlacesSave ==
  ASSUME RegistryAssumption, Base, SaveCreated, NEW k \in Machine, NEW n \in Link, Place(k, n)
  PROVE  Place(k, n)'
<1> SUFFICES ASSUME NEW m, m = creating.machine, NEW l, l = creating.link,
                    NEW p, p = creating.by, NEW e,
                    e = IF m = Nobody THEN creating.entry ELSE Claimed(creating.entry, m)
             PROVE  Place(k, n)'
  OBVIOUS
<1>1. /\ creating # NoCreate /\ Write(p, l, e) /\ UNCHANGED <<scene, vm, by, net>>
      /\ todo' = IF m = Nobody THEN todo ELSE [todo EXCEPT ![m] = Tail(todo[m])]
  BY DEF SaveCreated
<1>2. Typed /\ CreateInv
  BY DEF Base
<1>3. p \in Proc /\ l \in Link /\ m \in Machine \union {Nobody}
  BY <1>1, <1>2 DEF Typed
<1>4. /\ e \in Made /\ (m # Nobody => Has(e, m)) /\ \A i \in Machine \ {m} : HasNot(e, i)
  BY <1>1, SavedIs
<1>5. /\ reg'[l] = e /\ \A i \in Link : i # l => reg'[i] = reg[i]
      /\ cache'[p][l] = e
      /\ \A q \in Proc : \A i \in Link : q # p \/ i # l => cache'[q][i] = cache[q][i]
  BY <1>1, <1>2, <1>3, <1>4, WriteIs
<1>6. reg[l] = NoLink
  BY <1>1, <1>2 DEF CreateInv
<1>7. CASE k = m
  <2>1. /\ vm[m] = "joining" /\ by[m] = p /\ todo[m] # <<>> /\ Head(todo[m]) = l
    BY <1>1, <1>2, <1>3, <1>7 DEF CreateInv, RegistryAssumption
  <2>2. /\ m # Nobody /\ todo[m] \in Seq(Link)
    BY <1>2, <1>7 DEF RegistryAssumption, Typed
  <2>3. todo'[m] = Tail(todo[m])
    BY <1>1, <1>2, <1>7, <2>2 DEF Typed
  <2>4. Elems(todo[m]) = {l} \union Elems(todo'[m])
    BY <2>1, <2>2, <2>3, ElemsIs
  <2>5. /\ m \in Machine /\ by[m] \in Proc /\ by'[m] = by[m] /\ net'[m] = net[m]
        /\ vm[m] = "joining" /\ vm'[m] = "joining" /\ scene' = scene
    BY <1>1, <1>3, <2>1, <2>2
  <2>6. /\ \A i \in Link : i # l => reg'[i] = reg[i] /\ cache'[by[m]][i] = cache[by[m]][i]
        /\ Has(reg'[l], m) /\ cache'[by[m]][l] = reg'[l]
    BY <1>3, <1>4, <1>5, <2>1, <2>2
  <2> QED
    BY <1>2, <1>3, <1>7, <2>4, <2>5, <2>6, PlaceClaimed
<1>8. CASE k # m
  <2>1. Keeps(reg[n], reg'[n], k)
    BY <1>4, <1>5, <1>6, <1>8, KeepsNew, KeepsSame
  <2>2. vm[k] = "joining" => by[k] # p /\ by[k] \in Proc
    BY <1>1, <1>2, <1>8 DEF CreateInv, AtLinks, Typed
  <2>3. vm'[k] = vm[k] /\ by'[k] = by[k] /\ todo'[k] = todo[k] /\ net'[k] = net[k]
    BY <1>1, <1>2, <1>8 DEF Typed
  <2> QED
    BY <1>1, <1>2, <1>5, <2>1, <2>2, <2>3, PlaceKept
<1> QED
  BY <1>7, <1>8

\* A machine that begins to leave has all its links before it, and its QEMU is not there.
LEMMA PlaceLeaving ==
  ASSUME RegistryAssumption, Base, NEW m \in Machine, NEW n \in Link, Place(m, n), scene' = scene,
         reg' = reg, vm'[m] = "leaving", todo'[m] = Uses[m], net'[m][n] = "none"
  PROVE  Place(m, n)'
<1>1. On(m)' = On(m) /\ Elems(todo[m])' = On(m)
  BY SameOn, SceneIs DEF Elems, Base, Typed
<1>2. n \notin On(m) => HasNot(reg[n], m)'
  BY DEF Place, HasNot, EndOf
<1> QED
  BY <1>1, <1>2 DEF Place

LEMMA PlacesJoin ==
  ASSUME RegistryAssumption, Base, NEW p \in Proc, NEW m \in Machine, Join(p, m),
         NEW k \in Machine, NEW n \in Link, Place(k, n)
  PROVE  Place(k, n)'
<1> SUFFICES ASSUME NEW l, l = Head(todo[m]) PROVE Place(k, n)'
  OBVIOUS
<1>1. /\ by[m] = p /\ vm[m] = "joining" /\ todo[m] # <<>> /\ l \in Link
      /\ UNCHANGED <<scene, by, net>>
      /\ Claims(p, m, l) \/ Refused(p, m, l) \/ UNCHANGED <<reg, cache, vm, todo>>
  BY JoinIs
<1>2. Elems(todo[m]) = {l} \union Elems(Tail(todo[m]))
  BY JoinIs
<1>3. Typed
  BY DEF Base
<1>4. k # m => (vm[k] = "joining" => by[k] # p /\ by[k] \in Proc)
  BY <1>1, <1>3, AloneAtLinks DEF AtLinks, Typed
<1>5. CASE Claims(p, m, l)
  <2>1. /\ \A i \in Link : i # l => reg'[i] = reg[i]
        /\ cache'[p][l] = reg'[l]
        /\ \A q \in Proc : \A i \in Link : q # p \/ i # l => cache'[q][i] = cache[q][i]
        /\ Has(reg'[l], m) /\ \A i \in Machine \ {m} : Keeps(reg[l], reg'[l], i)
    BY <1>1, <1>3, <1>5, ClaimsIs
  <2>2. vm' = vm /\ todo' = [todo EXCEPT ![m] = Tail(todo[m])]
    BY <1>5 DEF Claims
  <2>3. CASE k = m
    <3>1. todo'[m] = Tail(todo[m])
      BY <1>3, <2>2 DEF Typed
    <3> QED
      BY <1>1, <1>2, <1>3, <2>1, <2>2, <2>3, <3>1, PlaceClaimed
  <2>4. CASE k # m
    <3>1. Keeps(reg[n], reg'[n], k)
      BY <2>1, <2>4, KeepsSame
    <3>2. todo'[k] = todo[k]
      BY <1>3, <2>2, <2>4 DEF Typed
    <3> QED
      BY <1>1, <1>3, <1>4, <2>1, <2>2, <2>4, <3>1, <3>2, PlaceKept
  <2> QED
    BY <2>3, <2>4
<1>6. CASE Refused(p, m, l)
  <2>1. /\ vm' = [vm EXCEPT ![m] = "leaving"] /\ todo' = [todo EXCEPT ![m] = Uses[m]]
        /\ cache' = [cache EXCEPT ![p][l] = reg[l]] /\ reg' = reg
    BY <1>6 DEF Refused
  <2>2. CASE k = m
    <3>1. vm'[m] = "leaving" /\ todo'[m] = Uses[m] /\ net'[m][n] = "none"
      BY <1>1, <1>3, <2>1, <2>2 DEF Typed, Place
    <3> QED
      BY <1>1, <2>1, <2>2, <3>1, PlaceLeaving
  <2>3. CASE k # m
    <3>1. vm'[k] = vm[k] /\ todo'[k] = todo[k]
      BY <1>3, <2>1, <2>3 DEF Typed
    <3>2. vm[k] = "joining" => cache'[by[k]] = cache[by[k]]
      BY <1>3, <1>4, <2>1, <2>3 DEF Typed
    <3>3. Keeps(reg[n], reg'[n], k)
      BY <2>1, KeepsSame
    <3> QED
      BY <1>1, <1>3, <3>1, <3>2, <3>3, PlaceKept
  <2> QED
    BY <2>2, <2>3
<1>7. CASE UNCHANGED <<reg, cache, vm, todo>>
  <2>1. Keeps(reg[n], reg'[n], k)
    BY <1>7, KeepsSame
  <2> QED
    BY <1>1, <1>3, <1>7, <2>1, PlaceKept
<1> QED
  BY <1>1, <1>5, <1>6, <1>7

LEMMA PlacesLeave ==
  ASSUME RegistryAssumption, Base, NEW p \in Proc, NEW m \in Machine, Leave(p, m),
         NEW k \in Machine, NEW n \in Link, Place(k, n)
  PROVE  Place(k, n)'
<1> SUFFICES ASSUME NEW l, l = Head(todo[m]) PROVE Place(k, n)'
  OBVIOUS
<1>1. Typed
  BY DEF Base
<1>2. by[m] = p /\ vm[m] = "leaving" /\ l \in Link
  BY <1>1, LeaveIs
<1>3. todo' = [todo EXCEPT ![m] = Tail(todo[m])] /\ UNCHANGED <<scene, creating, vm, by, net>>
  BY <1>1, LeaveIs
<1>4. Elems(todo[m]) = {l} \union Elems(Tail(todo[m]))
  BY <1>1, LeaveIs
<1>5. \A i \in Link : i # l => reg'[i] = reg[i]
  BY <1>1, LeaveIs
<1>6. \A q \in Proc : \A i \in Link : q # p \/ i # l => cache'[q][i] = cache[q][i]
  BY <1>1, LeaveIs
<1>7. HasNot(reg'[l], m) /\ \A i \in Machine \ {m} : Keeps(reg[l], reg'[l], i)
  BY <1>1, LeaveIs
<1>8. CASE k = m
  <2>1. On(m)' = On(m) /\ Elems(todo[m])' = Elems(Tail(todo[m]))
    BY <1>1, <1>3, SameOn DEF Typed, Elems
  <2>2. (n = l => HasNot(reg[n], m)') /\ (n # l /\ HasNot(reg[n], m) => HasNot(reg[n], m)')
    BY <1>5, <1>7 DEF HasNot, EndOf
  <2>3. n \notin On(m) => HasNot(reg[n], m)'
    BY <1>8, <2>2 DEF Place
  <2>4. n \notin Elems(Tail(todo[m])) => HasNot(reg[n], m)'
    BY <1>2, <1>4, <1>8, <2>2 DEF Place
  <2>5. net'[m][n] = "none" /\ vm'[m] = "leaving"
    BY <1>2, <1>3, <1>8 DEF Place
  <2> QED
    BY <1>8, <2>1, <2>3, <2>4, <2>5 DEF Place
<1>9. CASE k # m
  <2>1. vm[k] = "joining" => by[k] # p /\ by[k] \in Proc
    BY <1>1, <1>2, <1>9, AloneAtLinks DEF AtLinks, Typed
  <2>2. Keeps(reg[n], reg'[n], k)
    BY <1>5, <1>7, <1>9, KeepsSame
  <2>3. todo'[k] = todo[k]
    BY <1>1, <1>3, <1>9 DEF Typed
  <2> QED
    BY <1>1, <1>3, <1>6, <2>1, <2>2, <2>3, PlaceKept
<1> QED
  BY <1>8, <1>9

\* resolveSocketNamed() tells QEMU of the end that the file says is the machine's.
LEMMA PlacesResolve ==
  ASSUME RegistryAssumption, Base, SafeEntries, NEW p \in Proc, NEW m \in Machine, Resolve(p, m),
         NEW k \in Machine, NEW n \in Link, Place(k, n)
  PROVE  Place(k, n)'
<1>1. /\ by[m] = p /\ vm[m] = "joining" /\ todo[m] = <<>> /\ LookUp(p, On(m))
      /\ UNCHANGED <<scene, reg, creating, by>>
      /\ \/ vm' = [vm EXCEPT ![m] = "spawning"] /\ UNCHANGED todo
         \/ vm' = [vm EXCEPT ![m] = "leaving"] /\ todo' = [todo EXCEPT ![m] = Uses[m]]
  BY DEF Resolve, Holding, Goes, Fail, Release
<1>2. Typed
  BY DEF Base
<1>3. \A i \in Machine \ {m} : net'[i] = net[i]
  BY ResolveIs
<1>4. CASE k # m
  <2>1. vm'[k] = vm[k] /\ todo'[k] = todo[k] /\ net'[k] = net[k] /\ by'[k] = by[k]
    BY <1>1, <1>2, <1>3, <1>4 DEF Typed
  <2>2. Keeps(reg[n], reg'[n], k)
    BY <1>1, KeepsSame
  <2>3. vm[k] = "joining" => by[k] \in Proc
    BY <1>2 DEF Typed
  <2>4. vm[k] = "joining" /\ cache[by[k]][n] # NoLink => cache'[by[k]][n] = cache[by[k]][n]
    BY <1>1, <1>2, <2>3, LookUpIs
  <2> QED
    BY <1>1, <1>2, <2>1, <2>2, <2>4, PlaceKept
<1>5. CASE k = m
  <2>1. n \notin On(m) => HasNot(reg[n], m)'
    BY <1>1, <1>5 DEF Place, HasNot, EndOf
  <2>2. CASE vm' = [vm EXCEPT ![m] = "leaving"] /\ todo' = [todo EXCEPT ![m] = Uses[m]] /\ net' = net
    <3>1. vm'[m] = "leaving" /\ todo'[m] = Uses[m] /\ net'[m][n] = "none"
      BY <1>1, <1>2, <1>5, <2>2 DEF Typed, Place
    <3> QED
      BY <1>1, <1>5, <3>1, PlaceLeaving
  <2>3. CASE /\ vm' = [vm EXCEPT ![m] = "spawning"]
             /\ \A i \in Link \ On(m) : net'[m][i] = "none"
             /\ \A i \in On(m) :
                  /\ Known(p, i) \in Made
                  /\ Known(p, i).mode = "mcast" => net'[m][i] = "group"
                  /\ Known(p, i).mode \in Pair =>
                       \E j \in EndOf(Known(p, i), m) : net'[m][i] = EndName[j]
    <3>1. vm'[m] = "spawning" /\ On(m)' = On(m)
      BY <1>1, <1>2, <2>3, SameOn DEF Typed
    <3>2. ASSUME n \in On(m) PROVE Has(reg[n], m)' /\ Told(m, n)'
      <4>1. Has(reg[n], m) /\ Same(cache[p][n], reg[n], m)
        BY <1>1, <1>5, <3>2, ElemsNone DEF Place
      <4>2. reg[n] \in Made
        BY <1>2, <4>1 DEF Has, Typed
      <4>3. Known(p, n) = cache[p][n]
        <5>1. cache[p][n] # NoLink
          BY <4>1, <4>2, MadeIs DEF Same, NoLink, Mode, Pair
        <5> QED
          BY <5>1 DEF Known
      <4>4. reg[n].mode = "mcast" => net'[m][n] = "group"
        BY <2>3, <3>2, <4>1, <4>3 DEF Same
      <4>5. ASSUME reg[n].mode \in Pair
            PROVE  \E j \in {1, 2} : EndOf(reg[n], m) = {j} /\ net'[m][n] = EndName[j]
        <5>1. PICK j \in EndOf(reg[n], m) : net'[m][n] = EndName[j]
          BY <2>3, <3>2, <4>1, <4>3, <4>5 DEF Same
        <5>2. DOMAIN reg[n].ends = {1, 2}
          BY <4>2, <4>5, MadeIs
        <5>3. Single(reg[n]) /\ m # Nobody
          BY <4>2, MadeIs DEF SafeEntries, RegistryAssumption
        <5>4. EndOf(reg[n], m) = {j} /\ j \in {1, 2}
          BY <4>5, <5>1, <5>2, <5>3 DEF EndOf, Single
        <5> QED
          BY <5>1, <5>4
      <4>6. Told(m, n)'
        BY <1>1, <4>4, <4>5 DEF Told, EndOf
      <4> QED
        BY <1>1, <4>1, <4>6 DEF Has, EndOf
    <3>3. n \notin On(m) => net'[m][n] = "none"
      BY <2>3
    <3> QED
      BY <1>5, <2>1, <3>1, <3>2, <3>3 DEF Place
  <2> QED
    BY <2>2, <2>3, ResolveIs
<1> QED
  BY <1>4, <1>5

\* A machine that does not move keeps its place while the files stay as they are.
LEMMA PlaceStill ==
  ASSUME Typed, NEW m \in Machine, NEW n \in Link, Place(m, n), UNCHANGED <<scene, reg>>,
         vm'[m] = vm[m], by'[m] = by[m], todo'[m] = todo[m], net'[m] = net[m],
         vm[m] = "joining" /\ cache[by[m]][n] # NoLink => cache'[by[m]][n] = cache[by[m]][n]
  PROVE  Place(m, n)'
<1>1. Keeps(reg[n], reg'[n], m)
  BY KeepsSame
<1> QED
  BY <1>1, PlaceKept

\* One that does, with no link to think of: it has not begun, or its QEMU has gone.
LEMMA PlaceAway ==
  ASSUME NEW m \in Machine, NEW n \in Link, Place(m, n), UNCHANGED <<scene, reg>>,
         \/ vm'[m] \in {"dead", "crashed"}
         \/ vm'[m] = "off" /\ (May("refresh") \/ (vm[m] = "leaving" /\ todo[m] = <<>>))
         \/ vm'[m] = "joining" /\ On(m) \subseteq Elems(todo'[m]),
         net'[m][n] = "none"
  PROVE  Place(m, n)'
<1>1. On(m)' = On(m) /\ Elems(todo[m])' = Elems(todo'[m]) /\ May("refresh")' = May("refresh")
  BY SameOn DEF Elems, May
<1>2. HasNot(reg[n], m) => HasNot(reg[n], m)'
  BY DEF HasNot, EndOf
<1>3. vm[m] = "leaving" /\ todo[m] = <<>> => HasNot(reg[n], m)
  BY ElemsNone DEF Place
<1>4. n \notin On(m) => HasNot(reg[n], m)
  BY DEF Place
<1> QED
  BY <1>1, <1>2, <1>3, <1>4 DEF Place

LEMMA PlacesStart ==
  ASSUME RegistryAssumption, Base, NEW p \in Proc, NEW m \in Machine,
         Start(p, m) \/ RefusedForRoom(p, m), NEW k \in Machine, NEW n \in Link, Place(k, n)
  PROVE  Place(k, n)'
<1>1. Typed
  BY DEF Base
<1>2. UNCHANGED <<scene, reg, creating, net>> /\ (LookUp(p, On(m)) \/ UNCHANGED cache)
  BY DEF Start, RefusedForRoom
<1>3. \/ UNCHANGED <<vm, by, todo>>
      \/ /\ vm[m] \in {"off", "dead", "crashed"} /\ vm' = [vm EXCEPT ![m] = "joining"]
         /\ by' = [by EXCEPT ![m] = p] /\ todo' = [todo EXCEPT ![m] = Uses[m]]
  BY DEF Start, RefusedForRoom, Goes
<1>4. vm[k] = "joining" /\ cache[by[k]][n] # NoLink => cache'[by[k]][n] = cache[by[k]][n]
  <2>1. vm[k] = "joining" => by[k] \in Proc
    BY <1>1 DEF Typed
  <2> QED
    BY <1>1, <1>2, <2>1, LookUpIs
<1>5. CASE vm'[k] = vm[k] /\ by'[k] = by[k] /\ todo'[k] = todo[k]
  BY <1>1, <1>2, <1>4, <1>5, PlaceStill
<1>6. CASE ~ (vm'[k] = vm[k] /\ by'[k] = by[k] /\ todo'[k] = todo[k])
  <2>1. k = m /\ vm[m] \in {"off", "dead", "crashed"} /\ vm'[m] = "joining" /\ todo'[m] = Uses[m]
    BY <1>1, <1>3, <1>6 DEF Typed
  <2>2. On(m) \subseteq Elems(todo'[m])
    BY <1>1, <2>1, SceneIs DEF Typed
  <2>3. net'[m][n] = "none"
    BY <1>2, <2>1 DEF Place
  <2> QED
    BY <1>2, <2>1, <2>2, <2>3, PlaceAway
<1> QED
  BY <1>5, <1>6

\* The steps of a machine that neither read nor write a link's file.
LEMMA PlacesQuiet ==
  ASSUME RegistryAssumption, Base, NEW p, NEW m \in Machine,
         \/ Spawn(p, m) \/ SpawnFails(p, m) \/ Stop(p, m) \/ Gone(p, m) \/ Die(m) \/ Refresh(m),
         NEW k \in Machine, NEW n \in Link, Place(k, n)
  PROVE  Place(k, n)'
<1>1. Typed
  BY DEF Base
<1>2. UNCHANGED <<scene, reg, cache>>
  BY DEF Spawn, SpawnFails, Stop, Gone, Die, Refresh, shared
<1>3. CASE k # m
  <2>1. vm'[k] = vm[k] /\ by'[k] = by[k] /\ todo'[k] = todo[k] /\ net'[k] = net[k]
    BY <1>1, <1>3 DEF Spawn, SpawnFails, Stop, Gone, Die, Refresh, Goes, Fail, Typed
  <2> QED
    BY <1>1, <1>2, <2>1, PlaceStill
<1>4. CASE k = m /\ Spawn(p, m)
  <2>1. vm[m] = "spawning" /\ vm'[m] = "on" /\ net' = net /\ On(m)' = On(m)
    BY <1>1, <1>2, <1>4, SameOn DEF Spawn, Goes, Typed
  <2>2. n \notin On(m) => HasNot(reg[n], m)' /\ net'[m][n] = "none"
    BY <1>2, <1>4, <2>1 DEF Place, HasNot, EndOf
  <2>3. n \in On(m) => Has(reg[n], m)' /\ Told(m, n)'
    BY <1>2, <1>4, <2>1 DEF Place, Has, Told, EndOf
  <2> QED
    BY <1>4, <2>1, <2>2, <2>3 DEF Place
<1>5. CASE k = m /\ (SpawnFails(p, m) \/ Stop(p, m))
  <2>1. vm'[m] = "leaving" /\ todo'[m] = Uses[m] /\ net'[m][n] = "none"
    BY <1>1, <1>5 DEF SpawnFails, Stop, Goes, Fail, Release, Typed, NoNet
  <2> QED
    BY <1>2, <1>5, <2>1, PlaceLeaving
<1>6. CASE k = m /\ Gone(p, m)
  <2>1. vm[m] = "leaving" /\ todo[m] = <<>> /\ vm'[m] = "off" /\ net' = net
    BY <1>1, <1>6 DEF Gone, Goes, Typed
  <2>2. net'[m][n] = "none"
    BY <1>6, <2>1 DEF Place
  <2> QED
    BY <1>2, <1>6, <2>1, <2>2, PlaceAway
<1>7. CASE k = m /\ Die(m)
  <2>1. vm'[m] = "dead" /\ net'[m][n] = "none"
    BY <1>1, <1>7 DEF Die, Goes, Typed, NoNet
  <2> QED
    BY <1>2, <1>7, <2>1, PlaceAway
<1>8. CASE k = m /\ Refresh(m)
  <2>1. vm[m] = "dead" /\ vm'[m] = "off" /\ net' = net /\ May("refresh")
    BY <1>1, <1>8 DEF Refresh, Goes, Typed
  <2>2. net'[m][n] = "none"
    BY <1>8, <2>1 DEF Place
  <2>3. vm'[m] = "off" /\ (May("refresh") \/ (vm[m] = "leaving" /\ todo[m] = <<>>))
    BY <2>1
  <2>4. Place(m, n)'
    BY <1>2, <1>8, <2>2, <2>3, PlaceAway
  <2> QED
    BY <1>8, <2>4
<1> QED
  BY <1>3, <1>4, <1>5, <1>6, <1>7, <1>8

LEMMA PlacesCrash ==
  ASSUME RegistryAssumption, Base, NEW p \in Proc, Crash(p),
         NEW k \in Machine, NEW n \in Link, Place(k, n)
  PROVE  Place(k, n)'
<1>1. Typed
  BY DEF Base
<1>2. /\ vm' = [m \in Machine |-> IF by[m] = p THEN "crashed" ELSE vm[m]]
      /\ net' = [m \in Machine |-> IF by[m] = p THEN NoNet ELSE net[m]]
      /\ by' = [m \in Machine |-> IF by[m] = p THEN Nobody ELSE by[m]]
      /\ todo' = [m \in Machine |-> IF by[m] = p THEN <<>> ELSE todo[m]]
      /\ cache' = [cache EXCEPT ![p] = [l \in Link |-> NoLink]]
      /\ UNCHANGED <<scene, reg>>
  BY DEF Crash
<1>3. CASE by[k] = p
  <2>1. vm'[k] = "crashed" /\ net'[k][n] = "none"
    BY <1>2, <1>3 DEF NoNet
  <2> QED
    BY <1>2, <2>1, PlaceAway
<1>4. CASE by[k] # p
  <2>1. vm'[k] = vm[k] /\ by'[k] = by[k] /\ todo'[k] = todo[k] /\ net'[k] = net[k]
    BY <1>2, <1>4
  <2>2. vm[k] = "joining" => cache'[by[k]] = cache[by[k]]
    BY <1>1, <1>2, <1>4 DEF Typed
  <2> QED
    BY <1>1, <1>2, <2>1, <2>2, PlaceStill
<1> QED
  BY <1>3, <1>4

LEMMA PlacesNext ==
  ASSUME RegistryAssumption, EntriesInv, Places, [Next]_vars
  PROVE  Places'
<1>1. Base /\ SafeEntries /\ Typed
  BY DEF EntriesInv, Base
<1>2. scene' = scene
  <2>1. ASSUME NEW p \in Proc, NEW m \in Machine, Launch(p, m) PROVE scene' = scene
    <3>1. Start(p, m) \/ RefusedForRoom(p, m) \/ Join(p, m) \/ Resolve(p, m) \/ Leave(p, m) => scene' = scene
      BY DEF Start, RefusedForRoom, Join, Resolve, Leave
    <3>2. TimeOut(p, m) \/ Spawn(p, m) \/ SpawnFails(p, m) \/ Stop(p, m) \/ Gone(p, m) => scene' = scene
      BY DEF TimeOut, Spawn, SpawnFails, Stop, Gone, shared
    <3> QED
      BY <2>1, <3>1, <3>2 DEF Launch
  <2>2. ASSUME NEW p \in Proc, NEW n \in Link, Create(p, n) \/ Remove(p, n) PROVE scene' = scene
    BY <2>2 DEF Create, Remove
  <2>3. SaveCreated => scene' = scene
    BY DEF SaveCreated
  <2>4. ASSUME NEW m \in Machine, Die(m) \/ Refresh(m) PROVE scene' = scene
    BY <2>4 DEF Die, Refresh, shared
  <2>5. ASSUME NEW p \in Proc, Crash(p) PROVE scene' = scene
    BY <2>5 DEF Crash
  <2>6. UNCHANGED vars => scene' = scene
    BY DEF vars, shared
  <2> QED
    BY <2>1, <2>2, <2>3, <2>4, <2>5, <2>6 DEF Next
<1> SUFFICES ASSUME ~ May("time out"), NEW k \in Machine, NEW n \in Link, Place(k, n)
             PROVE  Place(k, n)'
  BY <1>2 DEF Places, May
<1>3. CASE UNCHANGED vars
  <2>1. UNCHANGED <<scene, reg, cache, vm, by, todo, net>>
    BY <1>3 DEF vars, shared, machines
  <2> QED
    BY <1>1, <2>1, PlaceStill
<1>4. ASSUME NEW p \in Proc, NEW l \in Link, Create(p, l) \/ Remove(p, l) PROVE Place(k, n)'
  BY <1>1, <1>4, PlacesCreate
<1>5. CASE SaveCreated
  BY <1>1, <1>5, PlacesSave
<1>6. ASSUME NEW p \in Proc, NEW m \in Machine, Launch(p, m) PROVE Place(k, n)'
  <2>1. ~ TimeOut(p, m)
    BY DEF TimeOut
  <2>2. CASE Spawn(p, m) \/ SpawnFails(p, m) \/ Stop(p, m) \/ Gone(p, m)
    BY <1>1, <2>2, PlacesQuiet
  <2>3. CASE Start(p, m) \/ RefusedForRoom(p, m)
    BY <1>1, <2>3, PlacesStart
  <2> QED
    BY <1>1, <1>6, <2>1, <2>2, <2>3, PlacesJoin, PlacesResolve, PlacesLeave DEF Launch
<1>7. ASSUME NEW m \in Machine, Die(m) \/ Refresh(m) PROVE Place(k, n)'
  BY <1>1, <1>7, PlacesQuiet
<1>8. ASSUME NEW p \in Proc, Crash(p) PROVE Place(k, n)'
  BY <1>1, <1>8, PlacesCrash
<1> QED
  BY <1>3, <1>4, <1>5, <1>6, <1>7, <1>8 DEF Next

PlacesInv == EntriesInv /\ Places

LEMMA PlacesInit == ASSUME RegistryAssumption, Init PROVE PlacesInv
<1>1. ASSUME NEW m \in Machine, NEW n \in Link PROVE Place(m, n)
  <2>1. reg[n] = NoLink /\ vm[m] = "off" /\ net[m][n] = "none"
    BY DEF Init, NoNet
  <2>2. HasNot(reg[n], m)
    BY <2>1 DEF HasNot
  <2> QED
    BY <2>1, <2>2 DEF Place
<1> QED
  BY <1>1, EntriesInit DEF Places, PlacesInv

LEMMA PlacesStep == ASSUME RegistryAssumption, PlacesInv, [Next]_vars PROVE PlacesInv'
BY EntriesNext, PlacesNext DEF PlacesInv

LEMMA PlacesAlways == ASSUME RegistryAssumption PROVE Spec => []PlacesInv
BY PlacesInit, PlacesStep, PTL DEF Spec

LEMMA PlacesExclude == PlacesInv => EndsAreExclusive
<1>1. ASSUME PlacesInv, ~ May("time out"), NEW m \in Machine, NEW k \in Machine, NEW n \in Link,
             m # k, net[m][n] \in {"1", "2"}, net[k][n] = net[m][n]
      PROVE  FALSE
  <2>1. Place(m, n) /\ Place(k, n) /\ Typed
    BY <1>1 DEF PlacesInv, EntriesInv, Base, Places
  <2>2. Has(reg[n], m) /\ Told(m, n) /\ Told(k, n)
    BY <1>1, <2>1 DEF Place
  <2>3. reg[n] \in Made
    BY <2>1, <2>2 DEF Has, Typed
  <2>4. reg[n].mode \in Pair
    BY <1>1, <2>2, <2>3, MadeIs DEF Told, Mode
  <2>5. PICK i \in {1, 2} : EndOf(reg[n], m) = {i} /\ net[m][n] = EndName[i]
    BY <2>2, <2>4 DEF Told
  <2>6. PICK j \in {1, 2} : EndOf(reg[n], k) = {j} /\ net[k][n] = EndName[j]
    BY <2>2, <2>4 DEF Told
  <2>7. i = j
    <3>1. EndName[1] # EndName[2]
      BY DEF EndName
    <3>2. EndName[i] = EndName[j]
      BY <1>1, <2>5, <2>6
    <3> HIDE DEF EndName
    <3>3. i \in {1, 2} /\ j \in {1, 2}
      OBVIOUS
    <3> QED
      BY <3>1, <3>2, <3>3
  <2>8. i \in EndOf(reg[n], m) /\ i \in EndOf(reg[n], k)
    BY <2>5, <2>6, <2>7
  <2> QED
    BY <1>1, <2>8 DEF EndOf
<1> QED
  BY <1>1 DEF EndsAreExclusive

LEMMA PlacesOutlast == PlacesInv => LinkOutlastsItsUsers
<1>1. ASSUME PlacesInv, ~ May("time out"), NEW m \in Machine, NEW n \in Link,
             vm[m] = "on", net[m][n] # "none"
      PROVE  /\ reg[n] # NoLink /\ m \in reg[n].members
             /\ net[m][n] # "group" => {EndName[i] : i \in EndOf(reg[n], m)} = {net[m][n]}
  <2>1. Place(m, n) /\ Typed
    BY <1>1 DEF PlacesInv, EntriesInv, Base, Places
  <2>2. Has(reg[n], m) /\ Told(m, n)
    BY <1>1, <2>1 DEF Place
  <2>3. reg[n] \in Made
    BY <2>1, <2>2 DEF Has, Typed
  <2>4. reg[n].mode \in Pair \union {"mcast"}
    BY <2>3, MadeIs DEF Mode
  <2> QED
    BY <2>2, <2>4 DEF Has, Told
<1> QED
  BY <1>1 DEF LinkOutlastsItsUsers

LEMMA PlacesStopped == PlacesInv => StoppedHoldsNoEnd
BY DEF PlacesInv, Places, Place, HasNot, StoppedHoldsNoEnd

\* Two machines never bind the same end of a link, for any number of machines, links, starts
\* and crashes, as long as no wait for a link's lock runs out (quickchr.ts:308-311,
\* socket-registry.ts:138-142).
THEOREM EndsStayExclusive == ASSUME RegistryAssumption PROVE Spec => []EndsAreExclusive
BY PlacesExclude, PlacesAlways, PTL

\* A link is there, with the end QEMU was told of, for as long as a machine runs on it
\* (socket-registry.ts:395-409).
THEOREM LinksOutlast == ASSUME RegistryAssumption PROVE Spec => []LinkOutlastsItsUsers
BY PlacesOutlast, PlacesAlways, PTL

\* A machine that is off holds no end: a start that fails gives back what it claimed, on every
\* link (quickchr.ts:338-357).
THEOREM StoppedHoldsNone == ASSUME RegistryAssumption PROVE Spec => []StoppedHoldsNoEnd
BY PlacesStopped, PlacesAlways, PTL
=============================================================================
