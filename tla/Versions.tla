------------------------------ MODULE Versions ------------------------------
(***************************************************************************)
(* versions.ts: the channels are asked for their newest versions all at    *)
(* once, each with retries, while MikroTik goes on publishing; what came   *)
(* back is compared to tell which channels are worth booting.              *)
(***************************************************************************)
EXTENDS NetErrors, FiniteSets

CONSTANTS
  Channel, Released,  \* the channels, those of finished releases
  Line,         \* versions, from the oldest to the newest
  MinAt,        \* where MIN_PROVISION_VERSION stands in it
  MaxAttempts,
  MaxReleases   \* bound

VARIABLES
  published,   \* Channel -> index in Line
  releases,
  pc, attempt, got,
  verdict,     \* of each channel: "none", "http", "refused", "garbled", "lost", "other"
  decided,     \* ghost: the network has said no for good
  active       \* the channels selected

vars == <<published, releases, pc, attempt, got, verdict, decided, active>>

Stage == [beta |-> 0, rc |-> 1, release |-> 2]

\* Seeded fault: the stage and its number are left out.
NumericParts(v) == <<v.major, v.minor, v.patch, 0, 0>>

Parts(v) == <<v.major, v.minor, v.patch, Stage[v.stage], v.num>>

\* compareRouterOsVersion(a, b) < 0
Before(a, b) ==
  \E i \in 1..5 : Parts(a)[i] < Parts(b)[i] /\ \A j \in 1..(i - 1) : Parts(a)[j] = Parts(b)[j]

\* The order of releases: by their numbers, then beta before rc before the release.
Older(a, b) ==
  \/ a.major < b.major
  \/ a.major = b.major /\ a.minor < b.minor
  \/ a.major = b.major /\ a.minor = b.minor /\ a.patch < b.patch
  \/ /\ a.major = b.major /\ a.minor = b.minor /\ a.patch = b.patch
     /\ Stage[a.stage] < Stage[b.stage] \/ (a.stage = b.stage /\ a.num < b.num)

\* The line is in that order, and REST is older than the oldest that is provisioned.
VersionsAssumption ==
  /\ MaxAttempts \in Nat \ {0} /\ MaxReleases \in Nat
  /\ "stable" \in Released /\ Released \subseteq Channel /\ MinAt \in DOMAIN Line
  /\ DOMAIN Line \subseteq Nat
  /\ \A i \in DOMAIN Line :
       Line[i] \in [major : Nat, minor : Nat, patch : Nat, stage : DOMAIN Stage, num : Nat]
  /\ \A i, j \in DOMAIN Line : i < j => Older(Line[i], Line[j])
  /\ Line[MinAt].major > 6

isProvisioningSupportedVersion(v) == ~Before(v, Line[MinAt])
isRouterOs6(v) == v.major = 6

\* What assertRouterOs6Arch(), assertRestAvailable() and
\* assertProvisioningSupportedVersion() let one do with a machine.
Allowed(v, arch) ==
  {o \in {"boot", "rest", "provision"} :
     /\ isRouterOs6(v) => o = "boot" /\ arch = "x86"
     /\ o = "provision" => isProvisioningSupportedVersion(v)}

Of(ch) == {i \in DOMAIN Line : ch \in Released => Line[i].stage = "release"}

Init ==
  /\ published \in {f \in [Channel -> DOMAIN Line] : \A ch \in Channel : f[ch] \in Of(ch)}
  /\ releases = 0
  /\ pc = [ch \in Channel |-> "asking"]
  /\ attempt = [ch \in Channel |-> 1]
  /\ got = [ch \in Channel |-> 0]
  /\ verdict = [ch \in Channel |-> "none"]
  /\ decided = [ch \in Channel |-> FALSE]
  /\ active = {}

Release(ch) ==
  /\ releases < MaxReleases
  /\ releases' = releases + 1
  /\ \E i \in Of(ch) : i > published[ch] /\ published' = [published EXCEPT ![ch] = i]
  /\ UNCHANGED <<pc, attempt, got, verdict, decided, active>>

End(ch, what) ==
  /\ pc' = [pc EXCEPT ![ch] = "failed"]
  /\ verdict' = [verdict EXCEPT ![ch] = what]
  /\ UNCHANGED attempt

Again(ch) ==
  /\ pc' = [pc EXCEPT ![ch] = IF attempt[ch] < MaxAttempts THEN "asking" ELSE "failed"]
  /\ attempt' = [attempt EXCEPT ![ch] = IF attempt[ch] < MaxAttempts THEN @ + 1 ELSE @]
  /\ verdict' = [verdict EXCEPT ![ch] = IF attempt[ch] < MaxAttempts THEN @ ELSE "lost"]

\* The catch of resolveVersion(): a refusal ends it, a failure to connect is retried.
Thrown(ch, e) ==
  CASE isProxyRefusal(e) -> End(ch, "refused")
    [] ~isProxyRefusal(e) /\ isConnectionFailure(e) -> Again(ch)
    [] OTHER -> End(ch, "other")

\* The error of a fetch that is tried again by address when there is no connection, and
\* what came last.
FinalError(e, second) == IF second = <<>> THEN e ELSE ResilientFetchError(e, second)
LastError(e, second) == IF second = <<>> THEN e ELSE second

Noes == {Tunnel(NoStatus), Tunnel(403), Tunnel(407), Denied}

\* A fetch that throws, at once or after its second try by address.
Throws(ch) ==
  /\ pc[ch] = "asking"
  /\ \E e \in FetchErrors, second \in FetchErrors \cup {<<>>} :
       /\ e # Refused => second = <<>>
       /\ Thrown(ch, FinalError(e, second))
       /\ decided' = [decided EXCEPT ![ch] = @ \/ LastError(e, second) \in Noes]
  /\ UNCHANGED <<published, releases, got, active>>

\* An HTTP status is final, a 403 with or without a proxy.
Status(ch) ==
  /\ pc[ch] = "asking"
  /\ End(ch, "http")
  /\ decided' = [decided EXCEPT ![ch] = TRUE]
  /\ UNCHANGED <<published, releases, got, active>>

\* The connection breaks after the headers.
BodyLost(ch) ==
  /\ pc[ch] = "asking"
  /\ Again(ch)
  /\ UNCHANGED <<published, releases, got, decided, active>>

\* A text that is no version is final.
Body(ch) ==
  /\ pc[ch] = "asking"
  /\ \/ /\ pc' = [pc EXCEPT ![ch] = "resolved"] /\ got' = [got EXCEPT ![ch] = published[ch]]
        /\ UNCHANGED <<attempt, verdict, decided>>
     \/ End(ch, "garbled") /\ decided' = [decided EXCEPT ![ch] = TRUE] /\ UNCHANGED got
  /\ UNCHANGED <<published, releases, active>>

AheadOfStable(ch) == ~Before(Line[got[ch]], Line[got["stable"]])

\* selectActiveChannels(): every released channel, and what is not behind the stable one.
Select ==
  /\ \A ch \in Channel : pc[ch] = "resolved"
  /\ active = {}
  /\ active' = {ch \in Channel : ch \in Released \/ AheadOfStable(ch)}
  /\ UNCHANGED <<published, releases, pc, attempt, got, verdict, decided>>

Next ==
  \/ \E ch \in Channel : Release(ch) \/ Throws(ch) \/ Status(ch) \/ BodyLost(ch) \/ Body(ch)
  \/ Select

Spec == Init /\ [][Next]_vars

----------------------------------------------------------------------------
\* Why it is so: a channel that answered has a version of the line, and the channels are
\* selected when all have answered.
TypeOK ==
  /\ published \in [Channel -> DOMAIN Line] /\ got \in [Channel -> DOMAIN Line \cup {0}]
  /\ pc \in [Channel -> {"asking", "resolved", "failed"}]
  /\ attempt \in [Channel -> Nat] /\ decided \in [Channel -> BOOLEAN]
  /\ \A ch \in Channel : verdict[ch] \in {"none", "http", "refused", "garbled", "lost", "other"}

IInv ==
  /\ TypeOK
  /\ \A ch \in Channel : pc[ch] = "resolved" => got[ch] \in DOMAIN Line
  /\ active # {} =>
       /\ \A ch \in Channel : pc[ch] = "resolved"
       /\ active = {ch \in Channel : ch \in Released \/ AheadOfStable(ch)}
  /\ \A ch \in Channel : decided[ch] => pc[ch] = "failed"

----------------------------------------------------------------------------
(* Properties                                                              *)

\* What a version may be used for, and which channels are worth booting, follows the
\* order of RouterOS releases, whatever is published while the channels are asked:
\* beta before rc before the release, the second beta before the tenth; what is
\* provisioned is never without REST (versions.ts:244-258, 292-349, 411-421).
FollowsTheLine ==
  /\ active # {} => \A ch \in Channel : ch \in active <=> (ch \in Released \/ got[ch] >= got["stable"])
  /\ \A ch \in Channel, arch \in {"x86", "arm64"} : pc[ch] = "resolved" =>
       LET may == Allowed(Line[got[ch]], arch)
       IN  /\ "provision" \in may <=> got[ch] >= MinAt
           /\ "provision" \in may => {"boot", "rest"} \subseteq may
           /\ may = {} => arch # "x86"

\* An answer of the server, or a proxy's refusal, ends the call: no further attempt
\* follows (versions.ts:112-119, 186-200).
NoIsNo == \A ch \in Channel : decided[ch] => pc[ch] = "failed"
=============================================================================
