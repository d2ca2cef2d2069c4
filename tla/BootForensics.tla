--------------------------- MODULE BootForensics ---------------------------
(***************************************************************************)
(* What is captured of a guest that failed: diagnostics.ts,                *)
(* guest-snapshot.ts and the console executor of quickchr.ts.  Three       *)
(* instruments run in turn: the forwards as QEMU's network table shows     *)
(* them, seven queries over the console within one budget, and, when asked *)
(* for, a rule in the guest that counts what arrives.  The report is kept  *)
(* with the newest ones.  Time is counted in fractions of a login's.       *)
(***************************************************************************)
EXTENDS Integers, Sequences, FiniteSets

CONSTANTS
  Forwards,       \* [name |-> [host, guest]]
  Candidates,     \* logins to try: stored, factory admin, the recorded user
  Queries,        \* the length of GUEST_SNAPSHOT_QUERIES
  QueryTimeout, LoginAllowance, LoginCost, Budget,
  Subjects,       \* the guests that fail, of Guests
  Keep,           \* MAX_BOOT_FAILURE_REPORTS
  MaxCaptures,    \* bound
  MaxHiccups      \* bound: console calls of a capture that time out

\* The budget is two queries' that log in, and such a query's is two logins'
\* (guest-snapshot.ts:157-191).
BootForensicsAssumption ==
  /\ \A f \in DOMAIN Forwards : Forwards[f].host \in Nat \ {0} /\ Forwards[f].guest \in Nat
  /\ \A f, g \in DOMAIN Forwards : f # g => Forwards[f].host # Forwards[g].host
  /\ Candidates \in Nat \ {0} /\ Queries \in Nat /\ Queries >= 2 /\ Keep \in Nat \ {0}
  /\ QueryTimeout \in Nat /\ LoginAllowance \in Nat /\ LoginCost \in Nat \ {0}
  /\ QueryTimeout + LoginAllowance >= 2 * LoginCost
  /\ Budget \in Nat /\ Budget >= 2 * (QueryTimeout + LoginAllowance)
  /\ MaxCaptures \in Nat /\ MaxHiccups \in Nat

Unknown == -1     \* a counter that could not be read
NoLogin == 0
NoHiccups == [login |-> 0, reply |-> 0]   \* calls that hung before and after their login

VARIABLES
  guest,     \* login it accepts, or NoLogin; conditions of its ports; whether it gets SYNs
  session,   \* the login whose console session is open
  counters,  \* its counting rules, the oldest first
  kind,      \* of the running capture: "boot" or "running"
  pc,
  outcome,   \* whether the network table was read, and what each forward came to
  q, elapsed, tried, given, left, working, reachable, hiccups,
  before, after, verdict, leftover,
  files,     \* the reports there are, as [stamp, kind]
  captures

vars == <<guest, session, counters, kind, pc, outcome, q, elapsed, tried, given, left,
          working, reachable, hiccups, before, after, verdict, leftover, files, captures>>
snapshot == <<q, elapsed, tried, given, left, working, reachable, hiccups, session>>
rule == <<counters, before, after, verdict, leftover>>

Name == DOMAIN Forwards
GuestPorts == {Forwards[f].guest : f \in Name}
Conditions == {"serves", "closed", "drops"}

Guests == [login : 0..Candidates, port : [GuestPorts -> Conditions], bound : SUBSET Name,
           received : BOOLEAN, outbound : BOOLEAN, hostPorts : BOOLEAN]

Unprobed == [usernet |-> "unread", ports |-> [f \in Name |-> "unknown"]]

Init ==
  /\ guest \in Guests \cap Subjects
  /\ session = NoLogin /\ counters = <<>> /\ kind \in {"boot", "running"}
  /\ pc = "ports" /\ outcome = Unprobed
  /\ q = 1 /\ elapsed = 0 /\ tried = <<>> /\ given = 0 /\ left = 0 /\ working = NoLogin
  /\ reachable = FALSE /\ hiccups = NoHiccups
  /\ before = Unknown /\ after = Unknown /\ verdict = "none" /\ leftover = FALSE
  /\ files = {} /\ captures = 1

----------------------------------------------------------------------------
(* The forwards                                                            *)

Row(state, src, dst) == [state |-> state, src |-> src, dst |-> dst]
Ephemeral == 0

\* A probe of a bound forward leaves a row while the guest answers or is silent;
\* one it refuses leaves none.  The guest's own connection to a port is a row too.
Rows ==
  LET src(f) == IF guest.hostPorts THEN Forwards[f].host ELSE Ephemeral
      probed(s, cond) == {Row(s, src(f), Forwards[f].guest) :
                            f \in {g \in guest.bound : guest.port[Forwards[g].guest] = cond}}
  IN {Row("HOST_FORWARD", Forwards[f].host, Forwards[f].guest) : f \in guest.bound}
       \cup probed("TIME_WAIT", "serves") \cup probed("SYN_SENT", "drops")
       \cup (IF guest.outbound THEN {Row("ESTABLISHED", Ephemeral, p) : p \in GuestPorts} ELSE {})

LiveRows == {r \in Rows : r.state # "HOST_FORWARD"}
RowsCarryHostPort == \E r \in LiveRows, f \in Name : r.src = Forwards[f].host

RowsOf(f) ==
  {r \in LiveRows : /\ r.dst = Forwards[f].guest
                    /\ RowsCarryHostPort => r.src = Forwards[f].host}

ServedStates == {"ESTABLISHED", "TIME_WAIT"}

Classified(f) ==
  LET states == {r.state : r \in RowsOf(f)} IN
  IF Row("HOST_FORWARD", Forwards[f].host, Forwards[f].guest) \notin Rows THEN "not-forwarded"
  ELSE IF "SYN_SENT" \in states THEN "dropped"
  ELSE IF states = {} THEN "refused"
  ELSE IF states \cap ServedStates # {} THEN "served" ELSE "unknown"

\* A query of the table that failed leaves no rows: no forward has its own.
ProbeForwards ==
  /\ pc = "ports"
  /\ \E usernet \in {"table", "failed"} :
       outcome' = [usernet |-> usernet,
                   ports |-> [f \in Name |-> IF usernet = "table" THEN Classified(f) ELSE "not-forwarded"]]
  /\ pc' = "snapshot"
  /\ UNCHANGED <<guest, kind, snapshot, rule, files, captures>>

----------------------------------------------------------------------------
(* The snapshot                                                            *)

Allowance == IF reachable THEN 0 ELSE LoginAllowance

Smaller(a, b) == IF a < b THEN a ELSE b

TimeForQuery == Smaller(QueryTimeout + Allowance, Budget - elapsed)

\* The logins from the k-th on.
Untried(k) == [i \in 1..(Candidates + 1 - k) |-> i + k - 1]

\* The login that worked comes first, the others after it.
Order ==
  IF working = NoLogin THEN Untried(1)
  ELSE [i \in 1..Candidates |->
          CASE i = 1 -> working [] i # 1 /\ i <= working -> i - 1 [] OTHER -> i]

EvenShare(time) ==
  LET even == time \div Candidates IN IF even > LoginCost THEN even ELSE LoginCost

Share(time) == IF working # NoLogin THEN time ELSE EvenShare(time)

\* A query begins while there is budget; the rest is skipped.
Ask ==
  /\ pc = "snapshot" /\ left = 0 /\ tried = <<>> /\ q <= Queries
  /\ IF elapsed >= Budget
     THEN q' = Queries + 1 /\ UNCHANGED <<tried, given, left>>
     ELSE tried' = Order /\ given' = TimeForQuery /\ left' = given' /\ UNCHANGED q
  /\ UNCHANGED <<guest, session, counters, kind, pc, outcome, elapsed, working, reachable,
                 hiccups, before, after, verdict, leftover, files, captures>>

Spend(t) == elapsed' = elapsed + t

\* What consoleExec() is given: it waits so long for the login, 15 s at the most, and then
\* as long again for the reply.
CallTime == Smaller(Share(given), left)
LoginLimit == Smaller(CallTime, LoginCost)

\* The login that fits is answered, early or late.
Answered ==
  /\ pc = "snapshot" /\ tried # <<>> /\ left > 0
  /\ LET c == Head(tried)
     IN /\ c = guest.login
        /\ session' = c /\ working' = c
        /\ \E cost \in 0..(LoginLimit + CallTime) : Spend(cost)
  /\ reachable' = TRUE
  /\ q' = q + 1 /\ tried' = <<>> /\ given' = 0 /\ left' = 0
  /\ UNCHANGED <<guest, kind, pc, outcome, hiccups, rule, files, captures>>

\* The next login is tried with what is left of the call's time.
TryNext(cost) ==
  /\ Spend(cost)
  /\ IF Len(tried) = 1 \/ cost >= left
     THEN tried' = <<>> /\ given' = 0 /\ left' = 0 /\ q' = q + 1
     ELSE tried' = Tail(tried) /\ left' = left - cost /\ UNCHANGED <<given, q>>

Hangs == hiccups.login + hiccups.reply
Hang(phase) == Hangs < MaxHiccups /\ hiccups' = [hiccups EXCEPT ![phase] = @ + 1]

\* No prompt comes.  A login of another user ends the session that stands; one that fits,
\* and has the time, hung, and the guest may take it all the same.
LoginFails ==
  /\ pc = "snapshot" /\ tried # <<>> /\ left > 0
  /\ LET c == Head(tried)
         able == c = guest.login /\ (session = c \/ CallTime >= LoginCost)
     IN /\ IF able THEN Hang("login") ELSE UNCHANGED hiccups
        /\ session' \in {session, IF c = guest.login THEN c ELSE NoLogin}
        /\ \E cost \in 0..LoginLimit : TryNext(cost)
  /\ UNCHANGED <<guest, kind, pc, outcome, working, reachable, rule, files, captures>>

\* The prompt came and the reply does not: the call's time runs a second time.
ReplyHangs ==
  /\ pc = "snapshot" /\ tried # <<>> /\ left > 0
  /\ LET c == Head(tried)
     IN /\ c = guest.login /\ Hang("reply")
        /\ session' = c
        /\ \E login \in 0..LoginLimit : TryNext(login + CallTime)
  /\ UNCHANGED <<guest, kind, pc, outcome, working, reachable, rule, files, captures>>

\* The counting rule needs a console that answered, to be asked for, and a guest
\* that need not be left as it is.
SnapshotDone ==
  /\ pc = "snapshot" /\ q > Queries
  /\ \E asked, preserve \in BOOLEAN :
       pc' = IF reachable /\ asked /\ ~preserve THEN "install" ELSE "report"
  /\ UNCHANGED <<guest, kind, outcome, snapshot, rule, files, captures>>

----------------------------------------------------------------------------
(* The counting rule                                                       *)

\* The answer to the addition may be lost, with the rule in place.
Install ==
  /\ pc = "install"
  /\ leftover' = (counters # <<>>)
  /\ \/ counters' = Append(counters, 0) /\ pc' \in {"before", "report"}
     \/ counters' = counters /\ pc' = "report"
  /\ UNCHANGED <<guest, kind, outcome, snapshot, before, after, verdict, files, captures>>

\* Only the first row is read.
ReadBefore ==
  /\ pc = "before"
  /\ before' \in {Unknown, counters[1]}
  /\ pc' = "probe"
  /\ UNCHANGED <<guest, kind, outcome, snapshot, counters, after, verdict, leftover, files, captures>>

\* Every rule counts what arrives.
Probe ==
  /\ pc = "probe"
  /\ counters' = IF guest.received THEN [i \in DOMAIN counters |-> counters[i] + 1] ELSE counters
  /\ pc' = "after"
  /\ UNCHANGED <<guest, kind, outcome, snapshot, before, after, verdict, leftover, files, captures>>

ReadAfter ==
  /\ pc = "after"
  /\ after' \in {Unknown, counters[1]}
  /\ pc' = "judge"
  /\ UNCHANGED <<guest, kind, outcome, snapshot, counters, before, verdict, leftover, files, captures>>

\* Seeded fault: a counter that could not be read is flat.
FlatVerdict == IF after > before THEN "guest-received" ELSE "not-delivered"

Verdict ==
  LET baseline == IF before = Unknown THEN 0 ELSE before IN
  IF after = Unknown \/ after < baseline THEN "inconclusive"
  ELSE IF after > baseline THEN "guest-received" ELSE "not-delivered"

\* The rules are removed by their comment, if the guest hears it.
Judge ==
  /\ pc = "judge"
  /\ verdict' = Verdict
  /\ counters' \in {<<>>, counters}
  /\ pc' = "report"
  /\ UNCHANGED <<guest, kind, outcome, snapshot, before, after, leftover, files, captures>>

----------------------------------------------------------------------------
(* The report                                                              *)

ByStamp(a, b) == a.stamp < b.stamp

Report ==
  /\ pc = "report"
  /\ LET all == files \cup {[stamp |-> captures, kind |-> kind]}
     IN files' = {f \in all : Cardinality({g \in all : ByStamp(f, g)}) < Keep}
  /\ pc' = "done"
  /\ UNCHANGED <<guest, kind, outcome, snapshot, rule, captures>>

\* A guest that failed to boot is stopped; one that runs may fail once more, as it is.
Again ==
  /\ pc = "done" /\ captures < MaxCaptures
  /\ kind' \in {"boot", "running"}
  /\ IF kind = "boot" THEN session' = NoLogin /\ counters' = <<>>
     ELSE UNCHANGED <<session, counters>>
  /\ captures' = captures + 1
  /\ pc' = "ports"
  /\ q' = 1 /\ elapsed' = 0 /\ working' = NoLogin /\ reachable' = FALSE /\ hiccups' = NoHiccups
  /\ before' = Unknown /\ after' = Unknown /\ verdict' = "none" /\ leftover' = FALSE
  /\ outcome' = Unprobed
  /\ UNCHANGED <<guest, tried, given, left, files>>

Next ==
  \/ ProbeForwards \/ Ask \/ Answered \/ LoginFails \/ ReplyHangs \/ SnapshotDone
  \/ Install \/ ReadBefore \/ Probe \/ ReadAfter \/ Judge \/ Report \/ Again

Spec == Init /\ [][Next]_vars

----------------------------------------------------------------------------
(* Properties                                                              *)

FewHangs == Hangs <= 1 /\ (guest.login = 2 => hiccups.reply = 0)

\* A guest that answers one of the two likely logins is not reported unreachable because of
\* one call that hung: none of either kind when the first one fits, none before its prompt
\* when the second does.  And the snapshot overruns its budget by one login at most
\* (guest-snapshot.ts:155-215, quickchr.ts:1419-1445).
HealthyIsReachable ==
  /\ elapsed <= Budget + LoginCost
  /\ (pc = "report" /\ guest.login \in {1, 2} /\ FewHangs) => reachable

\* A forward is called dropped only when the guest is silent behind it, and refused only when
\* nothing listens there, whichever port the rows carry; and when the table was read, one is
\* called dropped and not forwarded whenever it is (diagnostics.ts:273-316, 371-378).
ForwardsAreJudged ==
  pc \notin {"ports"} =>
    \A f \in Name :
      LET here == guest.port[Forwards[f].guest]
          said == outcome.ports[f]
      IN  /\ said = "dropped" => f \in guest.bound /\ here = "drops"
          /\ said = "refused" => here = "closed"
          /\ outcome.usernet = "table" =>
               /\ said = "not-forwarded" <=> f \notin guest.bound
               /\ f \in guest.bound /\ here = "drops" => said = "dropped"

\* A verdict says what the guest received, also next to a rule an earlier
\* capture left, provided the counter was read before (guest-snapshot.ts:428-450).
VerdictIsTrue ==
  (verdict \in {"guest-received", "not-delivered"} /\ (before # Unknown \/ ~leftover))
    => (verdict = "guest-received" <=> guest.received)

\* The newest reports are there, of both kinds together, and no more
\* (diagnostics.ts:427-466).
NewestReportsStay ==
  pc = "done" => {f.stamp : f \in files} = {i \in 1..captures : i > captures - Keep}

----------------------------------------------------------------------------
(* Why it is so                                                            *)

\* A query's time when it logs in, and what one hung reply of the first login takes of the
\* next query's.
FullTime == QueryTimeout + LoginAllowance
Slack == IF guest.login = 1 THEN LoginCost ELSE 0

\* While no login was answered and few calls hung, each query that is over came to the login
\* that fits with time enough, and hung there: so there was one at most, and the next comes
\* there with time enough again.
Hung ==
  /\ q - 1 <= Hangs
  /\ tried = <<>> => elapsed <= IF q = 1 THEN 0 ELSE FullTime + Slack
  /\ tried # <<>> =>
       /\ given <= FullTime /\ given >= FullTime - (IF q = 1 THEN 0 ELSE Slack)
       /\ q = 1 => elapsed + left <= FullTime
       /\ tried[1] = 1 => left = given
       /\ tried[1] = 2 /\ guest.login = 2 => left >= given - LoginCost
       /\ tried[1] > guest.login => Hangs >= q

Queried ==
  /\ elapsed \in Nat /\ given \in Nat /\ left \in Nat
  /\ IF tried = <<>> THEN left = 0 /\ elapsed <= Budget + LoginCost ELSE elapsed + left <= Budget
  /\ q \in Nat \ {0} /\ hiccups \in [login : Nat, reply : Nat] /\ session \in {NoLogin, guest.login}
  /\ working \in Nat /\ tried \in Seq(Nat)
  /\ tried # <<>> => pc = "snapshot" /\ q <= Queries
  /\ pc \notin {"ports", "snapshot"} => q > Queries
  /\ pc = "ports" => q = 1 /\ elapsed = 0
  /\ ~reachable => /\ working = NoLogin
                   /\ tried # <<>> => \E k \in 1..Candidates : tried = Untried(k)
                   /\ guest.login \in {1, 2} /\ FewHangs => Hung

\* A capture's own rule counts from zero where no other was left, and the first counter says
\* after the probe what it said before, and what arrived.
Counting ==
  LET arrived == IF guest.received THEN 1 ELSE 0 IN
  /\ counters \in Seq(Nat) /\ leftover \in BOOLEAN
  /\ before \in Nat \cup {Unknown} /\ after \in Nat \cup {Unknown}
  /\ pc \in {"before", "probe", "after", "judge"} => counters # <<>>
  /\ pc \in {"ports", "snapshot", "install", "before"} => before = Unknown
  /\ verdict # "none" => pc \in {"report", "done"}
  /\ pc \in {"before", "probe"} => /\ ~leftover => counters[1] = 0
                                   /\ before # Unknown => counters[1] = before
  /\ pc = "after" => /\ ~leftover => counters[1] = arrived
                     /\ before # Unknown => counters[1] = before + arrived
  /\ pc = "judge" /\ after # Unknown => /\ ~leftover => after = arrived
                                        /\ before # Unknown => after = before + arrived

Newest(n) == {i \in 1..n : i > n - Keep}

Filed ==
  /\ captures \in Nat \ {0}
  /\ \A f, g \in files : f.stamp = g.stamp => f = g
  /\ {f.stamp : f \in files} = Newest(IF pc = "done" THEN captures ELSE captures - 1)

IInv == guest \in Guests /\ Queried /\ Counting /\ Filed /\ ForwardsAreJudged /\ VerdictIsTrue
=============================================================================
