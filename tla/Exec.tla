-------------------------------- MODULE Exec --------------------------------
(***************************************************************************)
(* exec.ts, rest.ts and the exec() and rest() of a running machine: one    *)
(* script sent to a guest over HTTP, sent again or over the console when   *)
(* that failed.  A request whose timer fired, or whose connection was      *)
(* reset, may have been run, may still be run, or never arrived.           *)
(***************************************************************************)
EXTENDS Naturals

CONSTANTS
  MaxRetries     \* of the retries of exec() and of rest()

ExecAssumption == MaxRetries \in Nat

VARIABLES
  via,        \* "auto", "rest", "console": exec(); "request": rest()
  at,         \* the call: connecting, waiting, on the console, or how it ended
  attempt,
  sent,       \* the request waited for is on its way
  stray,      \* requests given up that the guest may still run
  reply,      \* what the guest has answered to the request waited for
  error,      \* of the last attempt
  ran         \* ghost: how often the guest ran the script

vars == <<via, at, attempt, sent, stray, reply, error, ran>>

None == "none"

Init ==
  /\ via \in {"auto", "rest", "console", "request"}
  /\ at = IF via = "console" THEN "console" ELSE "connecting"
  /\ attempt = 0 /\ sent = FALSE /\ stray = 0 /\ reply = None /\ error = None /\ ran = 0

\* Nothing listens, or there is no way there: the script was not sent.
Refused ==
  /\ at = "connecting"
  /\ error' \in {"refused", "unreachable"} /\ at' = "failed"
  /\ UNCHANGED <<via, attempt, sent, stray, reply, ran>>

Connected ==
  /\ at = "connecting"
  /\ sent' = TRUE /\ at' = "waiting" /\ reply' = None
  /\ UNCHANGED <<via, attempt, stray, error, ran>>

\* The guest runs what it got, or answers an error.
GuestRuns ==
  /\ sent /\ sent' = FALSE
  /\ \/ ran' = ran + 1 /\ reply' = "ret"
     \/ ran' = ran /\ reply' = "http-error"
  /\ UNCHANGED <<via, at, attempt, stray, error>>

\* So it does for a request nobody waits for any more.
GuestRunsStray ==
  /\ stray > 0 /\ stray' = stray - 1
  /\ ran' \in {ran, ran + 1}
  /\ UNCHANGED <<via, at, attempt, sent, reply, error>>

\* The first of the answer, the timer and the socket's error settles the request.
Response ==
  /\ at = "waiting" /\ reply # None
  /\ IF reply = "ret" THEN at' = "ok" /\ UNCHANGED error ELSE at' = "failed" /\ error' = "http"
  /\ UNCHANGED <<via, attempt, sent, stray, reply, ran>>

Abandon == sent' = FALSE /\ stray' = IF sent THEN stray + 1 ELSE stray

\* A reset may take the request with it.
SocketError ==
  /\ at = "waiting"
  /\ error' = "reset" /\ at' = "failed"
  /\ Abandon \/ (sent' = FALSE /\ stray' = stray)
  /\ UNCHANGED <<via, attempt, reply, ran>>

Timer ==
  /\ at = "waiting"
  /\ error' = "timeout" /\ at' = "failed"
  /\ Abandon
  /\ UNCHANGED <<via, attempt, reply, ran>>

\* Seeded fault: any failure without an HTTP status counts as one of the connection.
NoStatus == error # "http"

isExecTransportFailure == error \in {"refused", "unreachable"}

\* rest() sends again what was reset, whatever its method.
MayRetry ==
  /\ attempt < MaxRetries
  /\ \/ via = "auto" /\ isExecTransportFailure
     \/ via = "request" /\ error = "reset"

MayFallBack == via = "auto" /\ attempt = MaxRetries /\ isExecTransportFailure

Retry ==
  /\ at = "failed" /\ MayRetry
  /\ attempt' = attempt + 1 /\ at' = "connecting"
  /\ UNCHANGED <<via, sent, stray, reply, error, ran>>

Fallback ==
  /\ at = "failed" /\ MayFallBack
  /\ at' = "console"
  /\ UNCHANGED <<via, attempt, sent, stray, reply, error, ran>>

Throw ==
  /\ at = "failed" /\ ~MayRetry /\ ~MayFallBack
  /\ at' = "thrown"
  /\ UNCHANGED <<via, attempt, sent, stray, reply, error, ran>>

\* The console runs it and answers, runs it and is not heard, or does not come to it.
ConsoleRuns ==
  /\ at = "console"
  /\ \/ ran' = ran + 1 /\ at' = "ok" /\ UNCHANGED error
     \/ ran' = ran + 1 /\ at' = "thrown" /\ error' = "console"
     \/ ran' = ran /\ at' = "thrown" /\ error' = "console"
  /\ UNCHANGED <<via, attempt, sent, stray, reply>>

Next ==
  \/ Refused \/ Connected \/ GuestRuns \/ GuestRunsStray \/ Response \/ SocketError \/ Timer
  \/ Retry \/ Fallback \/ Throw \/ ConsoleRuns

Spec == Init /\ [][Next]_vars

----------------------------------------------------------------------------
(* Properties                                                              *)

\* exec() runs a script once at most, once when it returns, and not at all when it
\* reports that no connection was made, now and later (exec.ts:95-125).
ScriptRunsOnce ==
  LET runs == ran + stray + (IF sent THEN 1 ELSE 0) IN   \* by now or later
  /\ via # "request" => runs <= 1
  /\ at = "ok" => IF via = "request" THEN ran > 0 ELSE ran = 1
  /\ (at = "thrown" /\ isExecTransportFailure /\ via # "request") => runs = 0

\* Why it is so: a request is made only while none can be run any more, but for one that
\* repeats what was reset.
Attempt == at \in {"connecting", "console"} \/ (at \in {"failed", "thrown"} /\ isExecTransportFailure)

IInv ==
  /\ via \in {"auto", "rest", "console", "request"}
  /\ at \in {"connecting", "waiting", "console", "failed", "ok", "thrown"}
  /\ sent \in BOOLEAN /\ stray \in Nat /\ ran \in Nat
  /\ reply \in {None, "ret", "http-error"}
  /\ sent => at = "waiting" /\ reply = None
  /\ at = "waiting" /\ reply = "ret" => ran > 0
  /\ at = "ok" => ran > 0
  /\ via # "request" => /\ ran + stray <= 1
                        /\ sent \/ Attempt => ran = 0 /\ stray = 0
=============================================================================
