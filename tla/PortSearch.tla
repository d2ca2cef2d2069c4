----------------------------- MODULE PortSearch -----------------------------
(***************************************************************************)
(* findAvailablePortBlock(): the search for a block that no machine uses   *)
(* and whose ports nothing answers on, one connect probe per port.         *)
(***************************************************************************)
EXTENDS Ports, FiniteSets

CONSTANTS
  Offsets,       \* the offsets of the block the new machine maps
  ExplicitHosts, \* the host ports its extra mappings ask for by number
  Bases,         \* the bases machines may have
  Listening,     \* the ports something else may be listening on
  MaxAttempts    \* blocks probed before the search gives up (20)

PortSearchAssumption == Bases \subseteq Nat /\ IsFiniteSet(Bases)

VARIABLES
  used,          \* the bases of the machines and of creations in flight
  busy,          \* the ports that answer a connect
  base, attempt, \* the block being probed
  unprobed,      \* its mappings that are still to be probed
  conflict,      \* one of them answered
  result         \* "searching", "found" or "PORT_CONFLICT"

vars == <<used, busy, base, attempt, unprobed, conflict, result>>

\* buildPortMappings(): the host ports of a machine at this base.
HostPorts(b) == {b + k : k \in Offsets} \union ExplicitHosts

Init ==
  /\ used \in SUBSET Bases /\ busy \in SUBSET Listening
  /\ base = NextUnusedBase(DefaultPortBase, used)
  /\ attempt = 1 /\ unprobed = HostPorts(base) /\ conflict = FALSE
  /\ result = "searching"

\* checkPortConflicts() probes every mapping, whether or not one has answered.
Probe ==
  /\ result = "searching"
  /\ \E port \in unprobed :
       /\ unprobed' = unprobed \ {port}
       /\ conflict' = (conflict \/ port \in busy)
  /\ UNCHANGED <<used, busy, base, attempt, result>>

Found ==
  /\ result = "searching" /\ unprobed = {} /\ ~conflict
  /\ result' = "found"
  /\ UNCHANGED <<used, busy, base, attempt, unprobed, conflict>>

\* Seeded fault: the next block is the one right above, used or not.
StepOverNothing == base + PortsPerBlock

\* Past the conflict, and past every used block above it.
NextCandidate == NextUnusedBase(base + PortsPerBlock, used)

StepPast ==
  /\ result = "searching" /\ unprobed = {} /\ conflict
  /\ base' = NextCandidate
  /\ attempt' = attempt + 1 /\ unprobed' = HostPorts(base') /\ conflict' = FALSE
  /\ result' = IF attempt = MaxAttempts THEN "PORT_CONFLICT" ELSE result
  /\ UNCHANGED <<used, busy>>

Next == Probe \/ Found \/ StepPast

Spec == Init /\ [][Next]_vars

----------------------------------------------------------------------------
\* Why it is so: the block is the lowest that no machine uses, and of its ports those that
\* are not to be probed any more did not answer.
IInv ==
  /\ used \subseteq Bases /\ base \in Nat
  /\ \A u \in used : ~Overlap(base, u)
  /\ ~conflict => HostPorts(base) \intersect busy \subseteq unprobed
  /\ result = "found" => unprobed = {} /\ ~conflict

\* A block the search returns belongs to no machine and no creation in flight, and none of
\* its ports answered: the wire alone does not decide (network.ts:222-224).
FoundIsFree ==
  result = "found" => (\A u \in used : ~Overlap(base, u)) /\ HostPorts(base) \intersect busy = {}

\* nextUnusedBase() returns the lowest base at or above `from` whose block overlaps no
\* used block, though it looks at each used base once (network.ts:44-51).
UnusedIsLowest ==
  /\ IsLowestUnused(NextUnusedBase(DefaultPortBase, used), DefaultPortBase, used)
  /\ IsLowestUnused(NextUnusedBase(base + PortsPerBlock, used), base + PortsPerBlock, used)
=============================================================================
