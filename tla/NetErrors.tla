----------------------------- MODULE NetErrors -----------------------------
(***************************************************************************)
(* How net.ts judges an error of fetch().  An error is a sequence: the     *)
(* error itself, then its causes.  Of each the rules look at whether its   *)
(* code or text names a proxy tunnel, the proxy's status, whether the text *)
(* says that a proxy denied the request, and whether it is a failure to    *)
(* connect.                                                                *)
(***************************************************************************)
EXTENDS Integers, Sequences, SequencesExt

NoStatus == 0

Node(tunnel, status, denied, connection) ==
  [tunnel |-> tunnel, status |-> status, denied |-> denied, connection |-> connection]

\* What the first fetch can fail with: no connection, a proxy that answers
\* CONNECT with a status (403 an allow list, 407 credentials, 502 its own
\* failure), a proxy's refusal known by its text only, anything else.
Refused == <<Node(FALSE, NoStatus, FALSE, TRUE)>>
Tunnel(status) == <<Node(TRUE, status, FALSE, FALSE)>>
Denied == <<Node(FALSE, NoStatus, TRUE, FALSE)>>
Other == <<Node(FALSE, NoStatus, FALSE, FALSE)>>

FetchErrors == {Refused, Denied, Other} \cup {Tunnel(s) : s \in {NoStatus, 403, 407, 502}}

\* The nodes the rules look at.
Scanned(e) == {i \in DOMAIN e : i <= 3}

proxyTunnelStatus(e) ==
  LET with == {i \in Scanned(e) : e[i].tunnel /\ e[i].status # NoStatus}
  IN  IF with = {} THEN NoStatus ELSE e[CHOOSE i \in with : \A j \in with : i <= j].status

isProxyRefusal(e) ==
  /\ proxyTunnelStatus(e) \notin 500..599
  /\ \E i \in Scanned(e) : e[i].tunnel \/ e[i].denied

isConnectionFailure(e) == e[1].connection

\* The error of both attempts: its text holds the texts of the two, its cause
\* is the first; the second is kept aside, where no rule looks.
ResilientFetchError(direct, fallback) ==
  <<Node(direct[1].tunnel \/ fallback[1].tunnel, NoStatus,
         direct[1].denied \/ fallback[1].denied, TRUE)>> \o direct
=============================================================================
