------------------------------ MODULE Download ------------------------------
(***************************************************************************)
(* downloadToFile(): processes that fetch one artifact into one place.     *)
(* Each attempt writes a file of its own, is bounded by two timers (silence*)
(* and a budget for the whole body), and ends in a rename, a retry or an   *)
(* error.  The server, the proxy and the disk may fail at any moment, and  *)
(* the timers may fire wherever the code awaits.                           *)
(***************************************************************************)
EXTENDS NetErrors, FiniteSets

CONSTANTS
  Proc,
  Size,        \* the chunks of the whole artifact
  MaxAttempts  \* of each call

DownloadAssumption == Size \in Nat \ {0} /\ MaxAttempts \in [Proc -> Nat \ {0}]

VARIABLES
  dest,      \* the published file: its chunks, each tagged with its attempt
  part,      \* the chunks of each path written to
  step, attempt,
  got,       \* the chunks received in this attempt
  declared,  \* the reply has a valid content-length
  armed,     \* the timers set
  heard,     \* something arrived since the stall timer was set or last due
  fired,     \* the timer that fired last
  fault,     \* what the attempt failed with, had no timer fired
  result

vars == <<dest, part, step, attempt, got, declared, armed, heard, fired, fault, result>>

Nothing == <<>>
None == "none"
Terminal == {"client", "refusal", "transfer-budget"}

\* Seeded fault: one name for all.
PartOfAll(p) == CHOOSE q \in Proc : TRUE

\* The file of a call: named for the process and a random part.
PartOf(p) == p

Init ==
  /\ dest = Nothing
  /\ part = [p \in Proc |-> Nothing]
  /\ step = [p \in Proc |-> "idle"]
  /\ attempt = [p \in Proc |-> 0]
  /\ got = [p \in Proc |-> 0]
  /\ declared = [p \in Proc |-> FALSE]
  /\ armed = [p \in Proc |-> {}]
  /\ heard = [p \in Proc |-> TRUE]
  /\ fired = [p \in Proc |-> None]
  /\ fault = [p \in Proc |-> None]
  /\ result = [p \in Proc |-> None]

Begin(p, n) ==
  /\ attempt' = [attempt EXCEPT ![p] = n]
  /\ step' = [step EXCEPT ![p] = "fetch"]
  /\ got' = [got EXCEPT ![p] = 0]
  /\ armed' = [armed EXCEPT ![p] = {"stall"}]
  /\ heard' = [heard EXCEPT ![p] = TRUE]
  /\ fired' = [fired EXCEPT ![p] = None]
  /\ fault' = [fault EXCEPT ![p] = None]
  /\ UNCHANGED <<dest, part, declared, result>>

\* The callers look for the file and fetch it only when there is none.
Call(p) ==
  /\ step[p] = "idle"
  /\ dest = Nothing
  /\ Begin(p, 1)

\* The partial file goes, whatever happened.
RemoveIfPresent(p) == part' = [part EXCEPT ![PartOf(p)] = Nothing]

Outcome(verdict) ==
  CASE verdict = "transfer-budget" -> "DOWNLOAD_TOO_SLOW"
    [] verdict = "stall" -> "DOWNLOAD_STALLED"
    [] OTHER -> "DOWNLOAD_FAILED"

\* The end of an attempt: its timers are off.
Leave(p, s, r) ==
  /\ armed' = [armed EXCEPT ![p] = {}]
  /\ step' = [step EXCEPT ![p] = s]
  /\ result' = [result EXCEPT ![p] = r]
  /\ fired' = [fired EXCEPT ![p] = None]
  /\ fault' = [fault EXCEPT ![p] = None]
  /\ got' = [got EXCEPT ![p] = 0]
  /\ declared' = [declared EXCEPT ![p] = FALSE]
  /\ heard' = [heard EXCEPT ![p] = TRUE]
  /\ UNCHANGED attempt

\* The attempt failed: timers off, file gone, and another attempt unless the
\* verdict is final.
Settle(p, verdict) ==
  LET retried == verdict \notin Terminal /\ attempt[p] < MaxAttempts[p]
  IN  /\ RemoveIfPresent(p)
      /\ Leave(p, IF retried THEN "backoff" ELSE "done",
                  IF retried THEN None ELSE Outcome(verdict))
      /\ UNCHANGED dest

\* A timer that fired gives the verdict, whatever else went wrong.
Fail(p, what) == Settle(p, IF fired[p] # None THEN fired[p] ELSE what)

Class(e) == IF isProxyRefusal(e) THEN "refusal" ELSE "fault"

\* Seeded fault: silence is bounded, the whole transfer is not.
SilenceOnly == {"stall"}

BodyTimers == {"stall", "transfer-budget"}

\* The headers are there: a body to read, or a status that ends the attempt
\* once the body has been let go of.
Headers(p) ==
  /\ \/ /\ step' = [step EXCEPT ![p] = "body"]
        /\ \E known \in BOOLEAN : declared' = [declared EXCEPT ![p] = known]
        /\ armed' = [armed EXCEPT ![p] = @ \cup (BodyTimers \ {"stall"})]
        /\ part' = [part EXCEPT ![PartOf(p)] = Nothing]
        /\ UNCHANGED fault
     \/ /\ step' = [step EXCEPT ![p] = "cancel"]
        /\ \E what \in {"client", "fault"} : fault' = [fault EXCEPT ![p] = what]
        /\ UNCHANGED <<declared, armed, part>>
  /\ UNCHANGED <<dest, attempt, got, heard, fired, result>>

Go(p, s) ==
  /\ step' = [step EXCEPT ![p] = s]
  /\ UNCHANGED <<dest, part, attempt, got, declared, armed, heard, fired, fault, result>>

\* fetchResilient(): a failure to connect is tried again by an address from
\* public DNS; every other failure is the attempt's.
Fetch(p) ==
  /\ step[p] = "fetch"
  /\ \/ Headers(p)
     \/ \E e \in FetchErrors :
          IF isConnectionFailure(e) /\ ~isProxyRefusal(e)
          THEN Go(p, "resolve") ELSE Fail(p, Class(e))

\* An abort meanwhile is noticed by the second fetch.
Resolve(p) ==
  /\ step[p] = "resolve"
  /\ \/ fired[p] = None /\ Go(p, "fallback")
     \/ Fail(p, Class(Refused))

Fallback(p) ==
  /\ step[p] = "fallback"
  /\ \/ Headers(p)
     \/ \E e \in FetchErrors : Fail(p, Class(ResilientFetchError(Refused, e)))

Receive(p) ==
  /\ step[p] = "body" /\ got[p] < Size
  /\ got' = [got EXCEPT ![p] = @ + 1]
  /\ part' = [part EXCEPT ![PartOf(p)] = Append(@, <<p, attempt[p], declared[p]>>)]
  /\ armed' = [armed EXCEPT ![p] = @ \cup {"stall"}]
  /\ heard' = [heard EXCEPT ![p] = TRUE]
  /\ UNCHANGED <<dest, step, attempt, declared, fired, fault, result>>

\* A few bytes, less than a chunk.
Trickle(p) ==
  /\ step[p] = "body" /\ got[p] < Size
  /\ armed' = [armed EXCEPT ![p] = @ \cup {"stall"}]
  /\ heard' = [heard EXCEPT ![p] = TRUE]
  /\ UNCHANGED <<dest, part, step, attempt, got, declared, fired, fault, result>>

\* The body ends, or the connection breaks; the sink is still to be closed.
EndBody(p) == step[p] = "body" /\ Go(p, "ending")

Break(p) ==
  /\ step[p] \in {"body", "ending"}
  /\ step' = [step EXCEPT ![p] = "closing"]
  /\ fault' = [fault EXCEPT ![p] = "fault"]
  /\ UNCHANGED <<dest, part, attempt, got, declared, armed, heard, fired, result>>

\* Nothing has come for the time of the stall timer.
Silence(p) ==
  /\ "stall" \in armed[p] /\ heard[p]
  /\ heard' = [heard EXCEPT ![p] = FALSE]
  /\ UNCHANGED <<dest, part, step, attempt, got, declared, armed, fired, fault, result>>

\* A timer aborts the transfer: a fetch under way fails at once, a body goes on
\* to close its sink, and where the code awaits something else the verdict
\* waits.
Fire(p, timer) ==
  /\ timer \in armed[p]
  /\ timer = "stall" => ~heard[p]
  /\ IF step[p] \in {"fetch", "fallback"} THEN Settle(p, timer)
     ELSE /\ fired' = [fired EXCEPT ![p] = timer]
          /\ armed' = [armed EXCEPT ![p] = @ \ {timer}]
          /\ step' = [step EXCEPT ![p] = IF @ = "body" THEN "closing" ELSE @]
          /\ UNCHANGED <<dest, part, attempt, got, declared, heard, fault, result>>

Closed(p) == step[p] \in {"cancel", "closing"} /\ Fail(p, fault[p])

LengthHolds(p) == got[p] # 0 /\ (declared[p] => got[p] = Size)

\* The sink is closed: the length is checked and the file renamed, which
\* another program's open handle can prevent.
Finish(p) ==
  /\ step[p] = "ending"
  /\ IF LengthHolds(p)
     THEN \/ /\ dest' = part[PartOf(p)]
             /\ part' = [part EXCEPT ![PartOf(p)] = Nothing]
             /\ Leave(p, "done", "saved")
          \/ Settle(p, "fault")
     ELSE Fail(p, "fault")

Retry(p) == step[p] = "backoff" /\ Begin(p, attempt[p] + 1)

Crash(p) ==
  /\ step[p] \notin {"idle", "done", "dead"}
  /\ step' = [step EXCEPT ![p] = "dead"]
  /\ armed' = [armed EXCEPT ![p] = {}]
  /\ UNCHANGED <<dest, part, attempt, got, declared, heard, fired, fault, result>>

Next ==
  \E p \in Proc :
    \/ Call(p) \/ Fetch(p) \/ Resolve(p) \/ Fallback(p)
    \/ Receive(p) \/ Trickle(p) \/ EndBody(p) \/ Break(p) \/ Silence(p)
    \/ \E timer \in BodyTimers : Fire(p, timer)
    \/ Closed(p) \/ Finish(p) \/ Retry(p) \/ Crash(p)

\* What waits for nothing outside.
Goes(p) == Resolve(p) \/ Closed(p) \/ Finish(p) \/ Retry(p)

Spec == Init /\ [][Next]_vars
-----------------------------------------------------------------------------
\* download.ts:248-260, 353-358: whatever processes fetch, retry and die, the
\* file in the cache is the work of one attempt, and the whole of it whenever
\* the server gave a length.
PublishedIsWhole ==
  dest # Nothing =>
    /\ \A i, j \in DOMAIN dest : dest[i] = dest[j]
    /\ dest[1][3] => Len(dest) = Size

\* download.ts:273-275: a call that returned or threw left no partial file.
NothingLeftBehind == \A p \in Proc : step[p] = "done" => part[PartOf(p)] = Nothing

\* A call under way, and one that is over; every one ends (MCStorage).
Fetching(p) == step[p] = "fetch"
Ended(p) == step[p] \in {"done", "dead"}

\* Why it is so: the file of a call holds what this attempt received, in its order, and is
\* empty when the call returns.
Chunks == Seq(Proc \X Nat \X BOOLEAN)
Steps == {"idle", "fetch", "resolve", "fallback", "body", "cancel", "ending", "closing",
          "backoff", "done", "dead"}

TypeOK ==
  /\ dest \in Chunks /\ part \in [Proc -> Chunks]
  /\ step \in [Proc -> Steps] /\ attempt \in [Proc -> Nat] /\ got \in [Proc -> 0..Size]
  /\ declared \in [Proc -> BOOLEAN]

Received(p) ==
  /\ Len(part[PartOf(p)]) = got[p]
  /\ \A i \in DOMAIN part[PartOf(p)] : part[PartOf(p)][i] = <<p, attempt[p], declared[p]>>

Sound(p) ==
  /\ step[p] \in {"fetch", "resolve", "fallback"} => got[p] = 0
  /\ step[p] \in {"body", "ending"} => Received(p)
  /\ step[p] = "done" => part[PartOf(p)] = Nothing

IInv == TypeOK /\ PublishedIsWhole /\ \A p \in Proc : Sound(p)
=============================================================================
