----------------------------- MODULE GuestSteps -----------------------------
(***************************************************************************)
(* The calls that change a guest over REST: creating a user, disabling     *)
(* admin, updating the device mode, rebooting into installed packages,     *)
(* renewing the license and installing the managed SSH key.  RouterOS      *)
(* acknowledges before it has done, answers with another resource's data   *)
(* while it starts, drops connections, and may refuse; each call asks, and *)
(* then polls until what it asked for can be seen.                         *)
(*                                                                         *)
(* A deadline is a number of polls.  One call at a time, as the caller     *)
(* holds the machine lock.                                                 *)
(***************************************************************************)
EXTENDS Naturals, FiniteSets

CONSTANTS
    Kinds,        \* the calls to make
    MaxPolls,     \* polls before a deadline passes
    MaxUpdates,   \* maxAttempts of applyDeviceMode()
    MaxRenews,    \* MAX_RENEW_ATTEMPTS
    Misses        \* failed probes in a row that mean the guest went down

GuestStepsAssumption ==
    /\ {MaxPolls, MaxUpdates, MaxRenews, Misses} \subseteq Nat \ {0} /\ Misses > 1
    /\ Kinds \subseteq {"user", "admin", "mode", "packages", "license", "renewal", "key"}

VARIABLES
    guest,   \* RouterOS
    kind,    \* the call under way
    at,      \* where it stands
    polls,   \* polls left before its deadline
    misses,  \* probes in a row that failed
    tries,   \* requests of an update or a renewal made so far
    dropped, \* the last request was dropped by a guest that is up
    outcome  \* "none", "ok" or "failed"

vars == <<guest, kind, at, polls, misses, tries, dropped, outcome>>

Init ==
    /\ guest = [up |-> TRUE, settled |-> FALSE, user |-> "absent", adminOff |-> FALSE,
                mode |-> "old", wants |-> "none", packages |-> "uploaded",
                level |-> "free", key |-> "absent"]
    /\ kind \in Kinds
    /\ at = "begin"
    /\ polls = MaxPolls
    /\ misses = 0
    /\ tries = 0
    /\ dropped = FALSE
    /\ outcome = "none"

-----------------------------------------------------------------------------
(* RouterOS.                                                                *)

Settle ==
    /\ guest.up /\ ~guest.settled
    /\ guest' = [guest EXCEPT !.settled = TRUE]
    /\ UNCHANGED <<kind, at, polls, misses, tries, dropped, outcome>>

\* A user that was added is listed, and only then may log in; a license and
\* a key that were accepted appear some time later, and what the license
\* server was asked for it grants or turns down.
Matures ==
    /\ guest.up
    /\ \/ guest.user = "added" /\ guest' = [guest EXCEPT !.user = "listed"]
       \/ guest.user = "listed" /\ guest' = [guest EXCEPT !.user = "works"]
       \/ guest.level = "asked" /\ \E answer \in {"granted", "refused"} : guest' = [guest EXCEPT !.level = answer]
       \/ guest.level = "granted" /\ guest' = [guest EXCEPT !.level = "p1"]
       \/ guest.key = "added" /\ guest' = [guest EXCEPT !.key = "listed"]
    /\ UNCHANGED <<kind, at, polls, misses, tries, dropped, outcome>>

GoDown ==
    /\ guest.up /\ guest.wants \in {"reboot", "ownReboot"}
    /\ guest' = [guest EXCEPT !.up = FALSE, !.settled = FALSE]
    /\ UNCHANGED <<kind, at, polls, misses, tries, dropped, outcome>>

\* A reboot activates what waited for it; a confirmed update may still be
\* turned down.
ComeUp ==
    /\ ~guest.up
    /\ \E mode \in IF guest.wants \in {"confirmed", "ownReboot"} THEN {guest.mode, "new"} ELSE {guest.mode} :
         guest' = [guest EXCEPT !.up = TRUE, !.mode = mode, !.wants = "none",
                                !.packages = IF guest.wants = "reboot" THEN "active" ELSE @]
    /\ UNCHANGED <<kind, at, polls, misses, tries, dropped, outcome>>

\* What a request may be answered with: the endpoint's own data, the data of
\* /system/resource, a server error, or a connection that fails.  A guest
\* that is up fails no two requests in a row.
Answers(own) ==
    IF ~guest.up THEN {"dropped"}
    ELSE (IF dropped THEN {} ELSE {"dropped"}) \cup {"500"}
           \cup (IF guest.settled THEN {own} ELSE {"resource"})

-----------------------------------------------------------------------------
(* Requests and polls.                                                      *)

Return(how) == outcome' = how /\ at' = "end"

\* Seeded fault: a dropped connection does not bring the deadline nearer.
Patient(p, a) == IF a = "dropped" THEN p ELSE p - 1

\* Every poll takes time, whatever it is answered with.
Later(p, a) == p - 1

\* A poll: the answer looked for ends the wait, the deadline fails the call.
Poll(from, own, good, next) ==
    /\ at = from
    /\ \E a \in Answers(own) :
         /\ dropped' = (guest.up /\ a = "dropped")
         /\ IF a = own /\ good
            THEN /\ IF next = "ok" THEN Return("ok") ELSE at' = next /\ UNCHANGED outcome
                 /\ polls' = MaxPolls
            ELSE IF polls > 1 THEN polls' = Later(polls, a) /\ UNCHANGED <<at, outcome>>
            ELSE Return("failed") /\ UNCHANGED polls
    /\ UNCHANGED <<guest, kind, misses, tries>>

\* A request that changes the guest: an answer of another kind fails the call.
Post(from, own, changed, next) ==
    /\ at = from
    /\ \E a \in (Answers(own) \cup {own}) :
         /\ dropped' = (guest.up /\ a = "dropped")
         /\ IF a = own /\ guest.up THEN guest' = changed /\ at' = next /\ UNCHANGED outcome
            ELSE Return("failed") /\ UNCHANGED guest
    /\ UNCHANGED <<kind, polls, misses, tries>>

\* waitForBoot() before the first request of a call.
Ready(k, next) == kind = k /\ Poll("begin", "own", TRUE, next)

-----------------------------------------------------------------------------
(* createUser(): add, wait until listed, wait until the login is accepted.  *)

AddUser == kind = "user" /\ Post("add", "own", [guest EXCEPT !.user = "added"], "listed")

SeeUser == kind = "user" /\ Poll("listed", "own", guest.user \in {"listed", "works"}, "login")

\* Seeded fault: a user that is listed is taken for one that may log in.
AnyListed == guest.user \in {"listed", "works"}

\* Only a 2xx with the new credentials ends the wait: a 401 is waited out.
LoginAccepted == guest.user = "works"

TryLogin == kind = "user" /\ Poll("login", "own", LoginAccepted, "ok")

-----------------------------------------------------------------------------
(* disableAdmin(): find the record, patch it, and see it disabled.          *)

FindAdmin == kind = "admin" /\ Poll("find", "own", TRUE, "patch")

\* RouterOS answers a user that disables itself without doing it; the answer
\* may or may not carry the record as it is now.
Patch ==
    /\ kind = "admin" /\ at = "patch"
    /\ \E done \in BOOLEAN, shown \in BOOLEAN, a \in {"own", "other"} :
         IF a = "other" THEN Return("failed") /\ UNCHANGED guest
         ELSE /\ guest' = [guest EXCEPT !.adminOff = done]
              /\ IF done /\ shown THEN Return("ok") ELSE at' = "verify" /\ UNCHANGED outcome
    /\ UNCHANGED <<kind, polls, misses, tries, dropped>>

\* A probe as admin that is refused: admin may not log in any more.
AdminRefused ==
    /\ at = "verify" /\ guest.up /\ guest.adminOff
    /\ Return("ok") /\ dropped' = FALSE
    /\ UNCHANGED <<guest, kind, polls, misses, tries>>

SeeDisabled ==
    /\ kind = "admin"
    /\ Poll("verify", "own", guest.adminOff, "ok") \/ AdminRefused

-----------------------------------------------------------------------------
(* applyDeviceMode(): update, power-cycle to confirm, verify.               *)

\* verifyDeviceMode(): every setting asked for is as asked for.
Activated == guest.mode = "new"

\* readDeviceMode() accepts nothing but the endpoint's own record.
Read(a) == a = "own"

ReadMode ==
    /\ kind = "mode" /\ at = "read"
    /\ \E a \in Answers("own") :
         /\ dropped' = (guest.up /\ a = "dropped")
         /\ IF Read(a) /\ Activated THEN Return("ok")
            ELSE at' = "update" /\ UNCHANGED outcome
    /\ UNCHANGED <<guest, kind, polls, misses, tries>>

\* The update blocks until the power is cycled, is refused, or comes back
\* early: not committed, or about to reboot by itself.
UpdateLeaves == {"none", "confirm", "ownReboot"}

Update ==
    /\ kind = "mode" /\ at = "update"
    /\ tries' = tries + 1
    /\ \/ Return("failed") /\ UNCHANGED guest
       \/ \E w \in UpdateLeaves :
             /\ guest' = [guest EXCEPT !.wants = w]
             /\ at' = IF w = "confirm" THEN "cycle" ELSE "settle"
             /\ UNCHANGED outcome
    /\ UNCHANGED <<kind, polls, misses, dropped>>

\* After an early answer: a guest that is offline is waited for.
Probe ==
    /\ kind = "mode" /\ at = "settle"
    /\ \E a \in Answers("own") :
         /\ dropped' = (guest.up /\ a = "dropped")
         /\ at' = IF a = "dropped" THEN "reboots" ELSE "early"
    /\ UNCHANGED <<guest, kind, polls, misses, tries, outcome>>

OwnReboot == kind = "mode" /\ Poll("reboots", "own", TRUE, "early")

CheckEarly ==
    /\ kind = "mode" /\ at = "early"
    /\ \E a \in Answers("own") :
         /\ dropped' = (guest.up /\ a = "dropped")
         /\ IF ~Read(a) THEN Return("failed")
            ELSE IF Activated THEN Return("ok")
            ELSE IF tries = MaxUpdates THEN Return("failed")
            ELSE at' = "update" /\ UNCHANGED outcome
    /\ UNCHANGED <<guest, kind, polls, misses, tries>>

\* hardRebootMachine(): QEMU ends and another is spawned on the same disk.
PowerCycle ==
    /\ kind = "mode" /\ at = "cycle"
    /\ guest' = [guest EXCEPT !.up = FALSE, !.settled = FALSE,
                              !.wants = IF @ = "confirm" THEN "confirmed" ELSE @]
    /\ at' = "back"
    /\ UNCHANGED <<kind, polls, misses, tries, dropped, outcome>>

Back == kind = "mode" /\ Poll("back", "own", TRUE, "check")

Verify ==
    /\ kind = "mode" /\ at = "check"
    /\ \E a \in Answers("own") :
         /\ dropped' = (guest.up /\ a = "dropped")
         /\ Return(IF Read(a) /\ Activated THEN "ok" ELSE "failed")
    /\ UNCHANGED <<guest, kind, polls, misses, tries>>

-----------------------------------------------------------------------------
(* rebootForPackageActivation(): reboot, see the guest go, see it back.     *)

\* Only a refusal is an error: a connection that breaks may be the reboot.
Reboot ==
    /\ kind = "packages" /\ at = "reboot"
    /\ \/ Return("failed") /\ UNCHANGED guest
       \/ \E accepted \in BOOLEAN :
             /\ guest' = [guest EXCEPT !.wants = IF accepted THEN "reboot" ELSE @]
             /\ at' = "down" /\ UNCHANGED outcome
    /\ misses' = 0
    /\ UNCHANGED <<kind, polls, tries, dropped>>

\* Any answer starts the count again: a slow guest drops single requests.
WentDown(n) == n >= Misses

WatchDown ==
    /\ kind = "packages" /\ at = "down"
    /\ \E a \in Answers("own") :
         /\ dropped' = (guest.up /\ a = "dropped")
         /\ misses' = IF a = "dropped" THEN misses + 1 ELSE 0
         /\ IF WentDown(misses') THEN at' = "up" /\ polls' = MaxPolls /\ UNCHANGED outcome
            ELSE IF polls > 1 THEN polls' = polls - 1 /\ UNCHANGED <<at, outcome>>
            ELSE Return("failed") /\ UNCHANGED polls
    /\ UNCHANGED <<guest, kind, tries>>

WatchUp == kind = "packages" /\ Poll("up", "own", TRUE, "ok")

-----------------------------------------------------------------------------
(* renewLicense(): ask, tell the answers apart, see the level.  A renewal   *)
(* that names no level returns with the answer.                             *)

OfLicense == kind \in {"license", "renewal"}

\* waitForLicenseApi() does not fail: its deadline lets the request go on.
LicenseApi ==
    /\ OfLicense /\ at = "begin"
    /\ \E a \in Answers("own") :
         /\ dropped' = (guest.up /\ a = "dropped")
         /\ IF a = "own" \/ polls = 1
            THEN at' = "renew" /\ polls' = MaxPolls
            ELSE polls' = polls - 1 /\ UNCHANGED at
    /\ UNCHANGED <<guest, kind, misses, tries, outcome>>

\* classifyRenewResponse(): the last section of the answer decides.
Classified(a) == IF a = "resource" THEN "not-ready" ELSE a

\* The server may turn the request down, grant it, or still be busy.
Renew ==
    /\ OfLicense /\ at = "renew"
    /\ tries' = tries + 1
    /\ \E a \in IF guest.settled THEN {"done", "pending", "error", "500", "dropped"}
                                 ELSE {"resource", "500", "dropped"} :
         LET c == Classified(a) IN
         /\ guest' = IF a = "done" THEN [guest EXCEPT !.level = "granted"]
                     ELSE IF a = "pending" THEN [guest EXCEPT !.level = "asked"] ELSE guest
         /\ IF c \in {"error", "500", "dropped"} THEN Return("failed")
            ELSE IF c = "not-ready"
                 THEN IF tries' < MaxRenews THEN UNCHANGED <<at, outcome>> ELSE Return("failed")
            ELSE IF kind = "renewal" THEN Return("ok")
            ELSE at' = "level" /\ UNCHANGED outcome
    /\ UNCHANGED <<kind, polls, misses, dropped>>

SeeLevel == kind = "license" /\ Poll("level", "own", guest.level = "p1", "ok")

-----------------------------------------------------------------------------
(* installSshKey(): over the console, then seen in the listing and tried.   *)

AddKey ==
    /\ kind = "key" /\ at = "begin"
    /\ \/ Return("failed") /\ UNCHANGED guest
       \/ guest' = [guest EXCEPT !.key = "added"] /\ at' = "listing" /\ UNCHANGED outcome
    /\ UNCHANGED <<kind, polls, misses, tries, dropped>>

SeeKey == kind = "key" /\ Poll("listing", "own", guest.key = "listed", "batch")

\* verifyBatchLogin() only decides what the record says of the key.
BatchLogin ==
    /\ kind = "key" /\ at = "batch"
    /\ Return("ok")
    /\ UNCHANGED <<guest, kind, polls, misses, tries, dropped>>

-----------------------------------------------------------------------------
Begin ==
    \/ Ready("user", "add")
    \/ Ready("admin", "find")
    \/ Ready("mode", "read")
    \/ Ready("packages", "reboot")

Caller ==
    \/ Begin
    \/ AddUser \/ SeeUser \/ TryLogin
    \/ FindAdmin \/ Patch \/ SeeDisabled
    \/ ReadMode \/ Update \/ Probe \/ OwnReboot \/ CheckEarly \/ PowerCycle \/ Back \/ Verify
    \/ Reboot \/ WatchDown \/ WatchUp
    \/ LicenseApi \/ Renew \/ SeeLevel
    \/ AddKey \/ SeeKey \/ BatchLogin

RouterOS == Settle \/ Matures \/ GoDown \/ ComeUp

Next == Caller \/ RouterOS

Spec == Init /\ [][Next]_vars

-----------------------------------------------------------------------------
Effect ==
    CASE kind = "user"     -> guest.user = "works"
      [] kind = "admin"    -> guest.adminOff
      [] kind = "mode"     -> guest.mode = "new"
      [] kind = "packages" -> guest.packages = "active"
      [] kind = "license"  -> guest.level = "p1"
      [] kind = "renewal"  -> guest.level # "free"
      [] kind = "key"      -> guest.key = "listed"

(***************************************************************************)
(* A call that returns has had its effect: no acknowledgement, no early    *)
(* answer, no dropped connection and no data of another resource is taken  *)
(* for the change, as the step is recorded in machine.json next.  Of a     *)
(* renewal without a level no more is promised than that the license       *)
(* server has been asked (license.ts:153): it may still turn it down.      *)
(***************************************************************************)
ReturnedIsDone == outcome = "ok" => Effect

\* The call is over (MCGuest: every call ends).
Returned == outcome # "none"

\* Why it is so: what was asked for and seen stays; and a guest that missed two probes in a
\* row was down, which a guest that installs packages is only for its reboot.
Guests ==
    [up : BOOLEAN, settled : BOOLEAN, user : {"absent", "added", "listed", "works"},
     adminOff : BOOLEAN, mode : {"old", "new"},
     wants : {"none", "confirm", "confirmed", "reboot", "ownReboot"},
     packages : {"uploaded", "active"}, level : {"free", "asked", "granted", "refused", "p1"},
     key : {"absent", "added", "listed"}]

TypeOK ==
    /\ guest \in Guests /\ kind \in Kinds
    /\ outcome \in {"none", "ok", "failed"} /\ (outcome # "none" <=> at = "end")
    /\ misses \in Nat /\ dropped \in BOOLEAN

Rebooted == ~guest.up \/ guest.packages = "active"

Restarts ==
    kind = "packages" =>
      /\ guest.wants \in {"none", "reboot"} /\ (~guest.up => guest.wants = "reboot")
      /\ at = "down" /\ misses > 0 /\ (misses > 1 \/ ~dropped) => Rebooted
      /\ at = "up" => Rebooted

\* The batch login is tried when the key is listed, and ends the call either way.
EffectSeen == outcome = "ok" \/ at = "batch" => Effect

IInv == TypeOK /\ EffectSeen /\ Restarts
=============================================================================
