----------------------------- MODULE Readiness -----------------------------
(***************************************************************************)
(* Waiting for a guest (qemu.ts waitForBoot, waitForApiReady;              *)
(* api-login.ts): one probe after another, REST where there is REST and a  *)
(* login of the native API on RouterOS 6, until two in a row are answered. *)
(* A login's answer is a stream of bytes that arrives in pieces.           *)
(***************************************************************************)
EXTENDS Integers, Sequences, FiniteSets

CONSTANTS
  Service,       \* "rest" or "api"
  WordLength,    \* of each word of an answer, in bytes
  LongWord,      \* from this length on the prefix takes two bytes (128)
  MaxProbes, MaxReboots  \* bounds

ReadinessAssumption ==
  /\ {"!done", "!trap", "!fatal", "message"} \subseteq DOMAIN WordLength
  /\ \A w \in DOMAIN WordLength : WordLength[w] \in Nat \ {0}
  /\ MaxProbes \in Nat /\ MaxReboots \in Nat

VARIABLES
  guest,     \* "down", "starting" or "up"
  reboots,
  fits,      \* the probes' credentials are the guest's
  probe,     \* the login on its way: the answer's bytes, and how many have come; or NoProbe
  probes,    \* probes made
  ready,     \* answered in a row
  upRow,     \* in a row, probes that were answered in whole by a service that was up
  result     \* "waiting", "ready" or "timeout"

vars == <<guest, reboots, fits, probe, probes, ready, upRow, result>>

End == "end"   \* the word of length zero that ends a sentence
PrefixSize(w) == IF w # End /\ WordLength[w] >= LongWord THEN 2 ELSE 1
SizeOf(w) == IF w = End THEN 0 ELSE WordLength[w]

\* encodeApiSentence(): each word's length and bytes; a byte is a word and its place.
Encode(words) ==
  LET upTo[i \in 0..Len(words)] ==
        IF i = 0 THEN <<>>
        ELSE upTo[i - 1] \o [k \in 1..(PrefixSize(words[i]) + SizeOf(words[i])) |-> [word |-> words[i], at |-> k]]
  IN  upTo[Len(words)]

\* What the service sends: a login, a refusal, a session it closes.
Answers == {<<"!done", End>>, <<"!trap", "message", End, "!done", End>>, <<"!fatal", "message", End>>}

NoProbe == [words |-> <<>>, got |-> 0]

\* The place after the word at o, or 0 when the bytes end inside it.
After(bytes, o) ==
  LET w == bytes[o].word
      next == o + PrefixSize(w) + SizeOf(w)
  IN  IF next > Len(bytes) + 1 THEN 0 ELSE next

\* Seeded fault: the words of the sentence that is still coming count.
WithPartial(bytes) ==
  LET from[o \in 1..(Len(bytes) + 1)] ==
        IF o > Len(bytes) \/ After(bytes, o) = 0 THEN {} ELSE {bytes[o].word} \cup from[After(bytes, o)]
  IN  from[1]

\* parseApiSentences(): the words of the complete sentences among the bytes.
parseApiSentences(bytes) ==
  LET from[o \in 1..(Len(bytes) + 1)] ==
        IF o > Len(bytes) \/ After(bytes, o) = 0 THEN {}
        ELSE {o} \cup from[After(bytes, o)]
      lastEnd == {o \in from[1] : bytes[o].word = End}
  IN  {bytes[o].word : o \in {x \in from[1] : \E e \in lastEnd : x <= e}}

classifyLoginReply(words) ==
  IF "!fatal" \in words THEN "fatal"
  ELSE IF "!done" \notin words THEN "none"
  ELSE IF "!trap" \in words THEN "trap" ELSE "done"

Init ==
  /\ guest = "down" /\ reboots = 0 /\ fits \in BOOLEAN /\ probe = NoProbe
  /\ probes = 0 /\ ready = 0 /\ upRow = 0 /\ result = "waiting"

Count(outcome) ==
  ready' = IF outcome \in {"ready", "unauthorized", "done", "trap"} THEN ready + 1 ELSE 0

\* A probe is over: two answers in a row end the wait, the deadline ends it too.
Outcome(outcome, wasUp) ==
  /\ Count(outcome)
  /\ upRow' = IF wasUp THEN upRow + 1 ELSE 0
  /\ probes' = probes + 1 /\ probe' = NoProbe
  /\ result' = IF ready' >= 2 THEN "ready" ELSE IF probes' = MaxProbes THEN "timeout" ELSE result
  /\ UNCHANGED <<guest, reboots, fits>>

\* A guest that is not up yet refuses, resets, or answers with an error or another body; but
\* wrong credentials it refuses as soon as its authentication is up, before its handlers are.
\* Credentials that fit are not refused (qemu.ts:561-568).
OutcomesOf(g) ==
  CASE g = "down" -> {"error"}
    [] g = "starting" -> {"error", "http-error", "wrong-body"} \cup (IF fits THEN {} ELSE {"unauthorized"})
    [] OTHER -> {"error", IF fits THEN "ready" ELSE "unauthorized"}

\* The service that gave this answer was up: for a refusal that is authentication.
Served(g, o) == IF o = "unauthorized" THEN g \in {"starting", "up"} ELSE g = "up" /\ o # "error"

waitForBoot ==
  /\ Service = "rest" /\ result = "waiting"
  /\ \E o \in OutcomesOf(guest) : Outcome(o, Served(guest, o))

\* What the service answers; one that starts closes the session, or refuses wrong
\* credentials.
AnswersOf(g) ==
  {a \in Answers : CASE a[1] = "!fatal" -> TRUE
                      [] a[1] = "!trap" -> ~fits
                      [] OTHER -> fits /\ g = "up"}

\* A login is sent, and fails or is answered.
waitForApiReady ==
  /\ Service = "api" /\ result = "waiting" /\ probe = NoProbe
  /\ \/ Outcome("error", FALSE)
     \/ /\ guest # "down"
        /\ \E a \in AnswersOf(guest) : probe' = [words |-> a, got |-> 0]
        /\ UNCHANGED <<guest, reboots, fits, probes, ready, upRow, result>>

Received(p) == SubSeq(Encode(p.words), 1, p.got)

\* More bytes arrive, and what has arrived so far is parsed again.
Data ==
  /\ probe # NoProbe /\ result = "waiting"
  /\ \E n \in (probe.got + 1)..Len(Encode(probe.words)) :
       LET more == [probe EXCEPT !.got = n]
           verdict == classifyLoginReply(parseApiSentences(Received(more)))
       IN  IF verdict = "none"
           THEN probe' = more /\ UNCHANGED <<guest, reboots, fits, probes, ready, upRow, result>>
           ELSE Outcome(verdict, n = Len(Encode(probe.words)) /\ verdict # "fatal")

\* The socket closes before the answer is whole, or three seconds have passed.
Unanswered == probe # NoProbe /\ result = "waiting" /\ Outcome("error", FALSE)

GuestChanges ==
  /\ result = "waiting"
  /\ \/ guest = "down" /\ guest' = "starting" /\ UNCHANGED reboots
     \/ guest = "starting" /\ guest' = "up" /\ UNCHANGED reboots
     \/ guest = "up" /\ reboots < MaxReboots /\ guest' = "down" /\ reboots' = reboots + 1
  /\ UNCHANGED <<fits, probe, probes, ready, upRow, result>>

Next == waitForBoot \/ waitForApiReady \/ Data \/ Unanswered \/ GuestChanges

Spec == Init /\ [][Next]_vars

----------------------------------------------------------------------------
\* Why it is so: an answer counts only when all of it has come.
IInv ==
  /\ guest \in {"down", "starting", "up"} /\ fits \in BOOLEAN
  /\ probe # NoProbe => /\ Service = "api" /\ probe \in [words : Answers, got : Nat]
                        /\ probe.got <= Len(Encode(probe.words))
  /\ ready \in Nat /\ upRow \in Nat /\ ready <= upRow
  /\ result = "ready" => upRow >= 2

\* A guest is reported ready only after two probes in a row that its service answered when it
\* was up, and with whole answers.  Credentials that fit are answered by nothing less than
\* the service itself: not by a body of another resource, nor by the first part of a login's
\* answer.  Wrong ones may be refused by a guest that still initializes, which counts as
\* ready (qemu.ts:561-571, 596-611, 642-645).
ReadyIsAnsweredTwice == result = "ready" => upRow >= 2
=============================================================================
