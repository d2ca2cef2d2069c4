------------------------------- MODULE Ports -------------------------------
(***************************************************************************)
(* Port blocks (src/lib/network.ts): a machine takes PortsPerBlock         *)
(* consecutive host ports from its base.                                   *)
(***************************************************************************)
EXTENDS Integers

CONSTANTS
  PortsPerBlock,
  DefaultPortBase

ASSUME PortsAssumption ==
  PortsPerBlock \in Nat \ {0} /\ DefaultPortBase \in Nat

Overlap(a, b) == a - b < PortsPerBlock /\ b - a < PortsPerBlock

\* The used bases are visited in ascending order.
VisitedLast(S) == CHOOSE u \in S : \A v \in S : v <= u

\* One pass over the used bases, moving past each one that overlaps.
NextUnusedBase(from, used) ==
  LET past[S \in SUBSET used] ==
        IF S = {} THEN from
        ELSE LET u == VisitedLast(S)
                 base == past[S \ {u}]
             IN  IF Overlap(base, u) THEN u + PortsPerBlock ELSE base
  IN  past[used]

\* What the comment promises: the lowest base at or above `from` that overlaps none.
IsLowestUnused(base, from, used) ==
  /\ base >= from /\ \A u \in used : ~Overlap(base, u)
  /\ \A b \in from..(base - 1) : \E u \in used : Overlap(b, u)
=============================================================================
