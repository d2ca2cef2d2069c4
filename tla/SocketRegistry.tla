--------------------------- MODULE SocketRegistry ---------------------------
(***************************************************************************)
(* Named sockets: the links that several machines' NICs share, one file    *)
(* each under networks/ (src/lib/socket-registry.ts), and how machines     *)
(* join and leave them as they start and stop (registerSocketMembers() and *)
(* around it in src/lib/quickchr.ts, resolveSocketNamed() in network.ts).  *)
(*                                                                         *)
(* A change made under an entry's lock is one step: EntryLock says when    *)
(* that lock excludes.  Choosing a port is two, under the registry's lock. *)
(* Every process keeps a copy of the entries it has seen.                  *)
(***************************************************************************)
EXTENDS Integers, Sequences

CONSTANTS
  Proc,          \* processes; a library may run several machines from one
  Machine,
  Link,          \* names of links
  Scenes,        \* see Scene
  MaxStarts      \* starts per machine

Nobody == "nobody"
Pair == {"dgram", "listen-connect"}
Mode == Pair \union {"mcast"}

\* The links each machine's NICs are on, in order; the mode of a link made on demand
\* ("listen-connect" where there are no unix datagrams); and what may happen: QEMU exits by
\* itself, a process dies, the wait for an entry's lock runs out, list() and get() look at
\* machines whose QEMU has gone, start() is given its networks and looks for room first.
\* creates bounds the links created by name.
Scene ==
  [uses : [Machine -> Seq(Link)], default : Pair, creates : Nat,
   may : SUBSET {"die", "crash", "time out", "refresh", "check"}]

RegistryAssumption ==
  /\ Nobody \notin Machine \union Proc
  /\ Scenes \subseteq Scene
  /\ MaxStarts \in Nat

VARIABLES
  scene,      \* the one of Scenes that plays
  reg,        \* networks/<link>.json
  cache,      \* each process's copy
  creating,   \* the create that holds the registry's lock, its port chosen
  vm,         \* each machine: "off", "joining", "spawning", "on", "leaving", "dead", "crashed"
  by,         \* the process that starts or stops it
  todo,       \* the links it has still to join or leave
  net,        \* what its QEMU was told: an end of a pair, or "group"
  starts, creates

shared == <<scene, reg, cache, creating>>
machines == <<vm, by, todo, net, starts>>
vars == <<shared, machines, creates>>

NoLink == [mode |-> "none"]
NoCreate == [by |-> Nobody]
NoNet == [n \in Link |-> "none"]

\* A port of 0 is none.
Entry(mode, port, auto) ==
  [mode |-> mode, port |-> port, auto |-> auto, members |-> {},
   ends |-> IF mode \in Pair THEN <<Nobody, Nobody>> ELSE <<>>]

Uses == scene.uses
DefaultMode == scene.default
May(what) == what \in scene.may

Init ==
  /\ scene \in Scenes
  /\ reg = [n \in Link |-> NoLink]
  /\ cache = [p \in Proc |-> [n \in Link |-> NoLink]]
  /\ creating = NoCreate
  /\ vm = [m \in Machine |-> "off"]
  /\ by = [m \in Machine |-> Nobody]
  /\ todo = [m \in Machine |-> <<>>]
  /\ net = [m \in Machine |-> NoNet]
  /\ starts = [m \in Machine |-> 0] /\ creates = 0

----------------------------------------------------------------------------
(* Entries *)

EndOf(e, m) == {i \in DOMAIN e.ends : e.ends[i] = m}

\* What QEMU is told of an end: the path or the side that goes with its slot.
EndName == <<"1", "2">>

\* An entry with no end left has no room for another machine.
Full(e, m) == e.mode \in Pair /\ EndOf(e, Nobody) \union EndOf(e, m) = {}

\* claimEndpoint(): the first free end, unless the machine has one already.
Claimed(e, m) ==
  LET free == CHOOSE i \in DOMAIN e.ends :
                e.ends[i] = Nobody /\ \A j \in 1..(i - 1) : e.ends[j] # Nobody
  IN  [e EXCEPT !.members = @ \union {m},
                !.ends = IF EndOf(e, m) # {} \/ e.mode = "mcast" THEN @ ELSE [@ EXCEPT ![free] = m]]

Left(e, m) ==
  [e EXCEPT !.members = @ \ {m},
            !.ends = [i \in DOMAIN @ |-> IF @[i] = m THEN Nobody ELSE @[i]]]

\* Seeded fault: the entry is taken from the process's own copy.
Remembered(p, n) == IF cache[p][n] # NoLink THEN cache[p][n] ELSE reg[n]

\* reloadEntry()
Reload(p, n) == reg[n]

\* getNamedSocket()
Known(p, n) == IF cache[p][n] # NoLink THEN cache[p][n] ELSE reg[n]

\* saveEntry() and removeEntry(): both change the file and the process's copy.
Write(p, n, e) ==
  /\ reg' = [reg EXCEPT ![n] = e]
  /\ cache' = [cache EXCEPT ![p][n] = e]

\* The ports of the links in the process's own copies.
CachedPorts(p) == {cache[p][n].port : n \in {l \in Link : cache[p][l] # NoLink}} \ {0}

PortsInUse(p) ==
  CachedPorts(p) \union ({reg[n].port : n \in {l \in Link : reg[l] # NoLink}} \ {0})

\* allocatePort()
NextPort(p) ==
  LET used == PortsInUse(p)
  IN  IF used = {} THEN 4000 ELSE 1 + (CHOOSE x \in used : \A y \in used : y <= x)

\* Joining and leaving links never awaits, so a process does one of them at a time.
Busy(p) ==
  \/ creating.by = p
  \/ \E m \in Machine : by[m] = p /\ vm[m] \in {"joining", "leaving"}

EntryFree(n) == creating # NoCreate => creating.link # n

\* The read of an allocation, under the registry's lock; SaveCreated() is its write.
Allocate(p, n, mode, auto, m) ==
  /\ creating = NoCreate
  /\ creating' = [by |-> p, link |-> n, machine |-> m, entry |-> Entry(mode, NextPort(p), auto)]

SaveCreated ==
  LET new == creating
      m == new.machine
  IN  /\ new # NoCreate
      /\ creating' = NoCreate
      /\ Write(new.by, new.link, IF m = Nobody THEN new.entry ELSE Claimed(new.entry, m))
      /\ todo' = IF m = Nobody THEN todo ELSE [todo EXCEPT ![m] = Tail(@)]
      /\ UNCHANGED <<scene, vm, by, net, starts, creates>>

----------------------------------------------------------------------------
(* `networks sockets create` and `remove` *)

On(m) == {Uses[m][i] : i \in DOMAIN Uses[m]}

\* Links that no machine uses, and machines that use none, do not matter here.
Create(p, n) ==
  /\ \E m \in Machine : n \in On(m)
  /\ creates < scene.creates /\ creates' = creates + 1
  /\ ~Busy(p) /\ EntryFree(n) /\ Reload(p, n) = NoLink
  /\ \/ Write(p, n, Entry("dgram", 0, FALSE)) /\ UNCHANGED creating
     \/ /\ \E mode \in {"mcast", "listen-connect"} : Allocate(p, n, mode, FALSE, Nobody)
        /\ UNCHANGED <<reg, cache>>
  /\ UNCHANGED <<scene, machines>>

\* Seeded fault: a link is removed from under the machines on it.
Disposable(e) == TRUE

Removable(e) == e.members = {}

Remove(p, n) ==
  /\ ~Busy(p) /\ EntryFree(n) /\ Reload(p, n) # NoLink /\ Removable(Reload(p, n))
  /\ Write(p, n, NoLink)
  /\ UNCHANGED <<scene, creating, machines, creates>>

----------------------------------------------------------------------------
(* Machines join the links they use as they start, and leave them as they stop *)

Goes(m, from, to) == vm[m] \in from /\ vm' = [vm EXCEPT ![m] = to]

Holding(p, m) == by[m] = p

\* What the process knows of the links it looks up.
LookUp(p, ns) ==
  cache' = [cache EXCEPT ![p] = [n \in Link |-> IF n \in ns THEN Known(p, n) ELSE @[n]]]

Start(p, m) ==
  /\ ~Busy(p) /\ On(m) # {}
  /\ starts[m] < MaxStarts /\ starts' = [starts EXCEPT ![m] = @ + 1]
  /\ IF May("check") THEN LookUp(p, On(m)) ELSE UNCHANGED cache
  /\ May("check") => \A n \in On(m) : Known(p, n) # NoLink => ~Full(Known(p, n), m)
  /\ Goes(m, {"off", "dead", "crashed"}, "joining")
  /\ by' = [by EXCEPT ![m] = p] /\ todo' = [todo EXCEPT ![m] = Uses[m]]
  /\ UNCHANGED <<scene, reg, creating, net, creates>>

\* assertNamedSocketsHaveRoom(): NETWORK_UNAVAILABLE before anything is done.
RefusedForRoom(p, m) ==
  /\ May("check") /\ ~Busy(p) /\ vm[m] \in {"off", "dead", "crashed"}
  /\ starts[m] < MaxStarts /\ starts' = [starts EXCEPT ![m] = @ + 1]
  /\ \E n \in On(m) : Known(p, n) # NoLink /\ Full(Known(p, n), m)
  /\ LookUp(p, On(m))
  /\ UNCHANGED <<scene, reg, creating, vm, by, todo, net, creates>>

Release(m) == Uses[m]

\* unregisterSocketMembers() follows.
Fail(m, from) ==
  /\ Goes(m, {from}, "leaving")
  /\ todo' = [todo EXCEPT ![m] = Release(m)]

\* joinNamedSocket(): makes the link when it is not there, and takes an end.
Join(p, m) ==
  LET n == Head(todo[m])
      e == Reload(p, n)
  IN  /\ Holding(p, m) /\ vm[m] = "joining" /\ todo[m] # <<>> /\ creating.by # p
      /\ EntryFree(n)
      /\ \/ /\ e # NoLink /\ ~Full(e, m)
            /\ Write(p, n, Claimed(e, m))
            /\ todo' = [todo EXCEPT ![m] = Tail(@)]
            /\ UNCHANGED <<creating, vm>>
         \/ /\ e # NoLink /\ Full(e, m)
            /\ Fail(m, "joining")
            /\ cache' = [cache EXCEPT ![p][n] = e]
            /\ UNCHANGED <<reg, creating>>
         \/ /\ e = NoLink /\ DefaultMode = "dgram"
            /\ Write(p, n, Claimed(Entry("dgram", 0, TRUE), m))
            /\ todo' = [todo EXCEPT ![m] = Tail(@)]
            /\ UNCHANGED <<creating, vm>>
         \/ /\ e = NoLink /\ DefaultMode = "listen-connect"
            /\ Allocate(p, n, DefaultMode, TRUE, m)
            /\ UNCHANGED <<reg, cache, vm, todo>>
      /\ UNCHANGED <<scene, by, net, starts, creates>>

\* The wait for the entry's lock runs out: a warning, and on to the next link.
TimeOut(p, m) ==
  /\ May("time out") /\ Holding(p, m) /\ vm[m] \in {"joining", "leaving"} /\ todo[m] # <<>>
  /\ creating.by # p
  /\ todo' = [todo EXCEPT ![m] = Tail(@)]
  /\ UNCHANGED <<shared, vm, by, net, starts, creates>>

\* resolveSocketNamed() for every link: a pair's end comes from the entry; QEMU may be too
\* old, or the entry not there.
Resolve(p, m) ==
  LET known(n) == Known(p, n)
      resolved == \A n \in On(m) :
        known(n) # NoLink /\ (known(n).mode \in Pair => EndOf(known(n), m) # {})
      told(n) == IF n \notin On(m) THEN "none"
                 ELSE IF known(n).mode = "mcast" THEN "group"
                 ELSE EndName[CHOOSE i \in EndOf(known(n), m) : TRUE]
  IN  /\ Holding(p, m) /\ vm[m] = "joining" /\ todo[m] = <<>>
      /\ LookUp(p, On(m))
      /\ \/ /\ resolved
            /\ Goes(m, {"joining"}, "spawning")
            /\ net' = [net EXCEPT ![m] = [n \in Link |-> told(n)]]
            /\ UNCHANGED todo
         \/ Fail(m, "joining") /\ UNCHANGED net
      /\ UNCHANGED <<scene, reg, creating, by, starts, creates>>

\* QEMU is up and machine.json says so.
Spawn(p, m) ==
  /\ Holding(p, m)
  /\ Goes(m, {"spawning"}, "on")
  /\ by' = [by EXCEPT ![m] = Nobody]
  /\ UNCHANGED <<shared, todo, net, starts, creates>>

SpawnFails(p, m) ==
  /\ Holding(p, m) /\ ~Busy(p)
  /\ Fail(m, "spawning")
  /\ net' = [net EXCEPT ![m] = NoNet]
  /\ UNCHANGED <<shared, by, starts, creates>>

\* stop(), shutdown(), clean() and remove(): QEMU first, then its ends.
Stop(p, m) ==
  /\ ~Busy(p) /\ On(m) # {}
  /\ Goes(m, {"on", "dead", "crashed", "off"}, "leaving")
  /\ by' = [by EXCEPT ![m] = p] /\ todo' = [todo EXCEPT ![m] = Uses[m]]
  /\ net' = [net EXCEPT ![m] = NoNet]
  /\ UNCHANGED <<shared, starts, creates>>

Exhausted(e) == e.members = {} /\ e.auto

\* removeSocketMember()
Leave(p, m) ==
  LET n == Head(todo[m])
      e == Left(Reload(p, n), m)
  IN  /\ Holding(p, m) /\ vm[m] = "leaving" /\ todo[m] # <<>>
      /\ EntryFree(n)
      /\ IF Reload(p, n) = NoLink THEN reg' = reg /\ cache' = [cache EXCEPT ![p][n] = NoLink]
         ELSE Write(p, n, IF Exhausted(e) THEN NoLink ELSE e)
      /\ todo' = [todo EXCEPT ![m] = Tail(@)]
      /\ UNCHANGED <<scene, creating, vm, by, net, starts, creates>>

Gone(p, m) ==
  /\ Holding(p, m) /\ todo[m] = <<>>
  /\ Goes(m, {"leaving"}, "off")
  /\ by' = [by EXCEPT ![m] = Nobody]
  /\ UNCHANGED <<shared, todo, net, starts, creates>>

\* QEMU exits by itself.
Die(m) ==
  /\ May("die") /\ Goes(m, {"on"}, "dead")
  /\ net' = [net EXCEPT ![m] = NoNet]
  /\ UNCHANGED <<shared, by, todo, starts, creates>>

\* refreshAllStatuses(): machine.json says stopped; the links are not looked at.
Refresh(m) ==
  /\ May("refresh") /\ Goes(m, {"dead"}, "off")
  /\ UNCHANGED <<shared, by, todo, net, starts, creates>>

\* A process dies with what it was doing; another takes its place, and knows nothing.
Crash(p) ==
  /\ May("crash")
  /\ \E m \in Machine : by[m] = p
  /\ vm' = [m \in Machine |-> IF by[m] = p THEN "crashed" ELSE vm[m]]
  /\ net' = [m \in Machine |-> IF by[m] = p THEN NoNet ELSE net[m]]
  /\ by' = [m \in Machine |-> IF by[m] = p THEN Nobody ELSE by[m]]
  /\ todo' = [m \in Machine |-> IF by[m] = p THEN <<>> ELSE todo[m]]
  /\ cache' = [cache EXCEPT ![p] = [n \in Link |-> NoLink]]
  /\ creating' = IF creating.by = p THEN NoCreate ELSE creating
  /\ UNCHANGED <<scene, reg, starts, creates>>

Launch(p, m) ==
  \/ Start(p, m) \/ RefusedForRoom(p, m) \/ Join(p, m) \/ TimeOut(p, m) \/ Resolve(p, m)
  \/ Spawn(p, m) \/ SpawnFails(p, m) \/ Stop(p, m) \/ Leave(p, m) \/ Gone(p, m)

Next ==
  \/ \E p \in Proc : \E n \in Link : Create(p, n) \/ Remove(p, n)
  \/ SaveCreated
  \/ \E p \in Proc : \E m \in Machine : Launch(p, m)
  \/ \E m \in Machine : Die(m) \/ Refresh(m)
  \/ \E p \in Proc : Crash(p)

Spec == Init /\ [][Next]_vars

----------------------------------------------------------------------------
(* Properties *)

Entries ==
  {NoLink} \union
  [mode : Mode, port : Nat, auto : BOOLEAN, members : SUBSET Machine,
   ends : {<<>>} \union [{1, 2} -> Machine \union {Nobody}]]

TypeOK ==
  /\ reg \in [Link -> Entries] /\ cache \in [Proc -> [Link -> Entries]]
  /\ vm \in [Machine -> {"off", "joining", "spawning", "on", "leaving", "dead", "crashed"}]
  /\ by \in [Machine -> Proc \union {Nobody}]
  /\ net \in [Machine -> [Link -> {"none", "group", "1", "2"}]]
  /\ \A m \in Machine : by[m] # Nobody <=> vm[m] \in {"joining", "spawning", "leaving"}

\* Two machines never bind the same end of a link: the second would unlink the first's
\* socket and take its traffic, with nothing logged (quickchr.ts:308-311,
\* socket-registry.ts:138-142); unless the wait for a link's lock ran out: the start goes
\* on with a warning, and by what its process remembers of the link (quickchr.ts:312).
EndsAreExclusive ==
  ~May("time out") => \A m, k \in Machine : \A n \in Link :
    m # k /\ net[m][n] \in {"1", "2"} => net[k][n] # net[m][n]

\* A link stays, with the same end, for as long as a machine runs on it
\* (socket-registry.ts:395-409), unless the wait for the link's lock ran out.
LinkOutlastsItsUsers ==
  ~May("time out") => \A m \in Machine : \A n \in Link :
    vm[m] = "on" /\ net[m][n] # "none" =>
      /\ reg[n] # NoLink /\ m \in reg[n].members
      /\ net[m][n] # "group" => {EndName[i] : i \in EndOf(reg[n], m)} = {net[m][n]}

\* Links whose ports were allocated never share one: two segments would become one
\* (socket-registry.ts:227-237).
PortsDiffer ==
  \A n, l \in Link :
    n # l /\ reg[n] # NoLink /\ reg[l] # NoLink /\ reg[n].port # 0 => reg[n].port # reg[l].port

\* A machine that is not running holds no end: a failed start gives back what it claimed
\* (quickchr.ts:338-357), on every link it got through; unless list() noticed that its
\* QEMU had gone, or the wait for a link's lock ran out.
StoppedHoldsNoEnd ==
  ~May("refresh") /\ ~May("time out") => \A m \in Machine : vm[m] = "off" =>
    \A n \in Link : reg[n] # NoLink => m \notin reg[n].members /\ EndOf(reg[n], m) = {}

\* A link nobody asked for by name goes with its last member (socket-registry.ts:526-528).
NoEmptyAutoLink ==
  \A n \in Link : reg[n] # NoLink /\ reg[n].auto => reg[n].members # {}
=============================================================================
