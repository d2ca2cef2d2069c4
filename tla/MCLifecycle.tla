---------------------------- MODULE MCLifecycle ----------------------------
(* Instances of Lifecycle. *)
EXTENDS Lifecycle

CONSTANTS a, b, c

Want(f, z, w, v) == [fg |-> f, frozen |-> z, wait |-> w, prov |-> v]
Plain == Want(FALSE, FALSE, TRUE, FALSE)
Provision == Want(FALSE, FALSE, TRUE, TRUE)
Freeze == Want(FALSE, TRUE, TRUE, FALSE)
Background == {Plain, Provision, Freeze}
InForeground == {Want(TRUE, FALSE, TRUE, FALSE), Want(TRUE, FALSE, TRUE, TRUE)}

\* Two processes in each other's way, and one alone that does everything there is.
MCCasts == {{a, b}, {c}}
MCOps == [p \in Proc |-> CASE p = a -> Locked
                          [] p = b -> {"start", "stop", "clean", "remove"}
                          [] p = c -> Locked \union Unlocked]
MCWants == [p \in Proc |-> CASE p = a -> Background
                            [] p = b -> {Plain, Provision}
                            [] p = c -> Background \union InForeground]
MCMaxOps == [p \in Proc |-> IF p = a THEN 2 ELSE IF p = b THEN 1 ELSE 3]

\* A machine that is started again while list() has it in hand.
RefreshCasts == {{a, b}}
RefreshOps == [p \in Proc |-> IF p = a THEN {"start"} ELSE {"refresh"}]
JustPlain == [p \in Proc |-> {Plain}]
=============================================================================
