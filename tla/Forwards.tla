------------------------------ MODULE Forwards ------------------------------
(***************************************************************************)
(* Port forwards (forward-spec.ts, guest-ports.ts, network.ts): what a     *)
(* --forward asks for, the host port each forward gets when its machine is *)
(* created, and the map of the machine's ports, which is keyed by label.   *)
(* A label is the sequence of its parts: <<"smb">>, <<"btest", 9200>>.     *)
(***************************************************************************)
EXTENDS Ports, Sequences, SequencesExt, FiniteSetsExt

CONSTANTS
  Service,       \* label of a service -> its offset and guest port
  Registry,      \* label of a well-known guest port -> its guest port and protocol
  FirstExtra,    \* the offset of the first automatic extra (6)
  MaxPort, RangeMax,          \* 65535, 64
  Asked,         \* the forwards a user may ask for
  MaxForwards, MaxMachines, MaxAttempts  \* bounds (the code's last is 20)

\* A segment of the text.
Segments == [kind : {"omitted", "one", "span"}, lo : Nat, hi : Nat]

ForwardsAssumption ==
  /\ \A s \in DOMAIN Service : Service[s].offset < FirstExtra
  /\ FirstExtra < PortsPerBlock
  /\ \A f \in Asked :
       f.host \in Segments /\ f.guest \in Segments /\ f.name \in Seq(ToSet(f.name))

VARIABLES
  asked,     \* the forwards asked for so far for the machine to come
  extras,    \* the mappings they stand for
  machines   \* the machines, in the order of their creation

vars == <<asked, extras, machines>>

Mapping(label, host, guest, proto) ==
  [name |-> label, host |-> host, guest |-> guest, proto |-> proto]

lookupGuestPort(label) == label \in DOMAIN Registry

PortsValid(seg, min) == seg.kind = "omitted" \/ (seg.lo >= min /\ seg.hi <= MaxPort /\ seg.lo <= seg.hi)

ProtoOf(f) ==
  IF f.proto # "unset" THEN f.proto
  ELSE IF lookupGuestPort(f.name) THEN Registry[f.name].proto ELSE "tcp"

SingleAccepted(f) ==
  /\ PortsValid(f.host, 0) /\ PortsValid(f.guest, 1)
  /\ f.guest.kind = "one" \/ lookupGuestPort(f.name)

\* The single forward: a missing guest port is the well-known one of its name.
parseForwardSpec(f) ==
  <<Mapping(f.name, f.host.lo,
            IF f.guest.kind = "one" THEN f.guest.lo ELSE Registry[f.name].guest, ProtoOf(f))>>

Length(seg) == seg.hi - seg.lo + 1

\* The range of guest ports defaults to the host's, and is as long.
GuestRange(f) == IF f.guest.kind = "omitted" THEN f.host ELSE f.guest

RangeAccepted(f) ==
  /\ f.host.kind = "span" /\ GuestRange(f).kind = "span"
  /\ PortsValid(f.host, 1) /\ PortsValid(GuestRange(f), 1)
  /\ Length(f.host) = Length(GuestRange(f)) /\ Length(f.host) <= RangeMax

IsRange(f) == f.host.kind = "span" \/ f.guest.kind = "span"

Accepted(f) == f.name # <<>> /\ IF IsRange(f) THEN RangeAccepted(f) ELSE SingleAccepted(f)

\* Seeded fault: the mappings of a range share its label.
OneLabel(f) ==
  IF ~IsRange(f) THEN parseForwardSpec(f)
  ELSE [i \in 1..Length(f.host) |->
          Mapping(f.name, f.host.lo + i - 1, GuestRange(f).lo + i - 1, ProtoOf(f))]

\* A range is one mapping for each of its ports.
expandForwardSpec(f) ==
  IF ~IsRange(f) THEN parseForwardSpec(f)
  ELSE [i \in 1..Length(f.host) |->
          Mapping(Append(f.name, f.host.lo + i - 1), f.host.lo + i - 1,
                  GuestRange(f).lo + i - 1, ProtoOf(f))]

----------------------------------------------------------------------------
Label(ex, i) == IF ex[i].name = <<>> THEN <<"custom", i - 1>> ELSE ex[i].name

HostOf(ex, i, base) == IF ex[i].host # 0 THEN ex[i].host ELSE base + FirstExtra + i - 1

\* The map: the services that are not excluded, then the extras in their order; a
\* label that is there already gets the new mapping.
buildPortMappings(base, excluded, ex) ==
  LET kept == DOMAIN Service \ excluded
      named(l) == {i \in DOMAIN ex : Label(ex, i) = l}
  IN  [l \in kept \union {Label(ex, i) : i \in DOMAIN ex} |->
         IF named(l) = {} THEN Mapping(l, base + Service[l].offset, Service[l].guest, "tcp")
         ELSE LET i == Max(named(l)) IN [ex[i] EXCEPT !.name = l, !.host = HostOf(ex, i, base)]]

HostPorts(ports) == {ports[l].host : l \in DOMAIN ports}

PortsOfAll(ms) == UNION {HostPorts(ms[k].ports) : k \in DOMAIN ms}

Explicit(ex) == {i \in DOMAIN ex : ex[i].host # 0}

\* What a given host port may not be: a service's, another extra's, another machine's.
validateExplicitExtraPorts(ex, base, excluded) ==
  \A i \in Explicit(ex) :
    /\ \A s \in DOMAIN Service \ excluded : ex[i].host # base + Service[s].offset
    /\ \A j \in Explicit(ex) : ex[j].host = ex[i].host => j = i
    /\ ex[i].host \notin PortsOfAll(machines)

\* The ports that answer a connect: those of the machines that run.
Answering == PortsOfAll(SelectSeq(machines, LAMBDA m : m.running))

\* The blocks the search probes, and the first of which nothing answers.
Candidates ==
  LET used == {machines[k].base : k \in DOMAIN machines}
      at[k \in 1..MaxAttempts] ==
        IF k = 1 THEN NextUnusedBase(DefaultPortBase, used)
        ELSE NextUnusedBase(at[k - 1] + PortsPerBlock, used)
  IN  at

FreeCandidates(excluded, ex) ==
  {k \in 1..MaxAttempts :
     HostPorts(buildPortMappings(Candidates[k], excluded, ex)) \cap Answering = {}}

Machine(base, excluded, of, running, ports) ==
  [base |-> base, excluded |-> excluded, asked |-> of, running |-> running, ports |-> ports]

Init == asked = <<>> /\ extras = <<>> /\ machines = <<>>

\* One more --forward on the command line of the next machine.
Forward(f) ==
  /\ Accepted(f) /\ Len(asked) < MaxForwards /\ Len(machines) < MaxMachines
  /\ asked' = Append(asked, f) /\ extras' = extras \o expandForwardSpec(f)
  /\ UNCHANGED machines

\* Its creation, which records the map.
Create(excluded) ==
  /\ Len(machines) < MaxMachines
  /\ FreeCandidates(excluded, extras) # {}
  /\ LET base == Candidates[Min(FreeCandidates(excluded, extras))]
     IN  /\ validateExplicitExtraPorts(extras, base, excluded)
         /\ machines' = Append(machines,
              Machine(base, excluded, asked, FALSE, buildPortMappings(base, excluded, extras)))
  /\ asked' = <<>> /\ extras' = <<>>

\* A forward that is refused, no block, a port that is taken: nothing is created.
Refused ==
  /\ Len(asked) > 0
  /\ \/ \E f \in Asked : ~Accepted(f)
     \/ \E excluded \in SUBSET DOMAIN Service :
          LET free == FreeCandidates(excluded, extras)
          IN  free # {} => ~validateExplicitExtraPorts(extras, Candidates[Min(free)], excluded)
  /\ asked' = <<>> /\ extras' = <<>> /\ UNCHANGED machines

\* A machine's qemu binds every port of the map, or does not start.
StartMachine(k) ==
  /\ ~machines[k].running /\ HostPorts(machines[k].ports) \cap Answering = {}
  /\ \A l, n \in DOMAIN machines[k].ports :
       machines[k].ports[l].host = machines[k].ports[n].host => l = n
  /\ machines' = [machines EXCEPT ![k].running = TRUE] /\ UNCHANGED <<asked, extras>>

StopMachine(k) ==
  /\ machines[k].running
  /\ machines' = [machines EXCEPT ![k].running = FALSE] /\ UNCHANGED <<asked, extras>>

Next ==
  \/ \E f \in Asked : Forward(f)
  \/ \E excluded \in SUBSET DOMAIN Service : Create(excluded)
  \/ Refused
  \/ \E k \in DOMAIN machines : StartMachine(k)
  \/ \E k \in DOMAIN machines : StopMachine(k)

Spec == Init /\ [][Next]_vars

----------------------------------------------------------------------------
\* What one forward asks for: pairs of a guest port and the host port, 0 for any.
Wanted(f) ==
  IF IsRange(f)
  THEN {<<f.host.lo + d, GuestRange(f).lo + d>> : d \in 0..(f.host.hi - f.host.lo)}
  ELSE {<<f.host.lo, IF f.guest.kind = "one" THEN f.guest.lo ELSE Registry[f.name].guest>>}

\* The labels of a forward in the map.
Labels(f) == IF IsRange(f) THEN {Append(f.name, p) : p \in f.host.lo..f.host.hi} ELSE {f.name}

KeepsForwards(of, ports) ==
  \A n \in DOMAIN of :
    (\A o \in DOMAIN of \ {n} : Labels(of[o]) \cap Labels(of[n]) = {})
    => \A w \in Wanted(of[n]) : \E l \in DOMAIN ports :
         ports[l].guest = w[2] /\ (w[1] # 0 => ports[l].host = w[1])

\* Every forward that was asked for under labels of its own is in the machine's map, a
\* range with each of its ports (forward-spec.ts:131-133): none is lost to another.
ForwardsAreMade == \A k \in DOMAIN machines : KeepsForwards(machines[k].asked, machines[k].ports)

Given(of) == {w[1] : w \in UNION {Wanted(of[n]) : n \in DOMAIN of}} \ {0}

\* The labels of the extras whose host port is the block's.
Automatic(of) == {of[n].name : n \in {i \in DOMAIN of : of[i].host.lo = 0}}

HeldOnce(of, ports) ==
  \A l, o \in DOMAIN ports :
    /\ ports[l].host \in Given(of) /\ ports[o].host = ports[l].host
    => o = l \/ {l, o} \cap Automatic(of) # {}

\* A host port that was asked for is held once in its machine, an automatic extra aside,
\* and by no machine made before (network.ts:87-92).
GivenPortsAreOwn ==
  \A k \in DOMAIN machines :
    /\ HeldOnce(machines[k].asked, machines[k].ports)
    /\ Given(machines[k].asked) \cap HostPorts(machines[k].ports)
         \cap PortsOfAll(SubSeq(machines, 1, k - 1)) = {}

\* Why it is so: the extras are what the forwards stand for, and a machine keeps its map.
Mappings(f) == ToSet(expandForwardSpec(f))

ExtrasInv ==
  /\ asked \in Seq({f \in Asked : Accepted(f)})
  /\ extras \in Seq(ToSet(extras))
  /\ ToSet(extras) = UNION {Mappings(asked[n]) : n \in DOMAIN asked}

MachinesInv ==
  /\ machines \in Seq(ToSet(machines))
  /\ \A k \in DOMAIN machines :
       LET mk == machines[k] IN mk = Machine(mk.base, mk.excluded, mk.asked, mk.running, mk.ports)

IInv == ExtrasInv /\ MachinesInv /\ ForwardsAreMade /\ GivenPortsAreOwn
=============================================================================
