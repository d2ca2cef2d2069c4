-------------------------------- MODULE Qga --------------------------------
(***************************************************************************)
(* qga.ts: calls to the guest agent over one serial channel.  QEMU serves  *)
(* one connection at a time; the agent answers in order, slowly or not at  *)
(* all, and knows nothing of connections: what it still had to say to a    *)
(* call that gave up is read by the next one.  Every call synchronises     *)
(* first, takes the first message of a chunk for its answer, drops the     *)
(* rest, and gives up after a time.                                        *)
(***************************************************************************)
EXTENDS Integers, Sequences, SequencesExt

CONSTANTS
  Calls,
  Op,          \* of each call: "run", "exec", "write" or "shutdown"
  MaxPolls,    \* EXEC_MAX_POLLS
  MaxPipe      \* bound: answers on their way

QgaAssumption ==
  /\ Op \in [Calls -> {"run", "exec", "write", "shutdown"}]
  /\ MaxPolls \in Nat /\ MaxPipe \in Nat

VARIABLES
  up,        \* the machine runs
  queue,     \* the connections, the served one first
  outbox,    \* of each connection: requests not yet read by QEMU
  toGuest, fromGuest,
  awaits,    \* of each call: the request whose answer it waits for, or its state
  polls,
  done,      \* of each call: how it ended
  ran,       \* ghost: how often the guest ran a call's script
  foreign    \* ghost: the calls that took another's answer for theirs

vars == <<up, queue, outbox, toGuest, fromGuest, awaits, polls, done, ran, foreign>>

None == "none"
Idle == "idle"
Asleep == "asleep"     \* between two polls
Closing == "closing"
Request(c, cmd) == [call |-> c, cmd |-> cmd]
Waiting(c) == awaits[c] \notin {Idle, Asleep, Closing, None}

Init ==
  /\ up = TRUE
  /\ queue = <<>> /\ toGuest = <<>> /\ fromGuest = <<>>
  /\ outbox = [c \in Calls |-> <<>>]
  /\ awaits = [c \in Calls |-> Idle]
  /\ polls = [c \in Calls |-> 0]
  /\ done = [c \in Calls |-> None]
  /\ ran = [c \in Calls |-> 0]
  /\ foreign = {}

Send(c, cmd) ==
  /\ outbox' = [outbox EXCEPT ![c] = Append(@, Request(c, cmd))]
  /\ awaits' = [awaits EXCEPT ![c] = cmd]

End(c, how) ==
  /\ awaits' = [awaits EXCEPT ![c] = Closing]
  /\ done' = [done EXCEPT ![c] = how]

\* A stopped machine has no socket.
Call(c) ==
  /\ awaits[c] = Idle
  /\ IF up
     THEN /\ queue' = Append(queue, c)
          /\ Send(c, "sync")
          /\ UNCHANGED done
     ELSE /\ awaits' = [awaits EXCEPT ![c] = None]
          /\ done' = [done EXCEPT ![c] = "failed"]
          /\ UNCHANGED <<queue, outbox>>
  /\ UNCHANGED <<up, toGuest, fromGuest, polls, ran, foreign>>

First == [op \in {"run", "exec", "write", "shutdown"} |->
            IF op = "write" THEN "file-open" ELSE op]

\* Seeded fault: any answer will do.
AnyAnswer(c, msg) == msg.cmd # "error"

\* The sync answer is recognised by the number asked for.
Synced(c, msg) == msg = Request(c, awaits[c])

\* qgaSync(): a wrong first answer is taken for an old one, and the second try
\* is the last.
OnSync(c, msg) ==
  /\ CASE Synced(c, msg) -> Send(c, First[Op[c]]) /\ UNCHANGED done
       [] ~Synced(c, msg) /\ awaits[c] = "sync" /\ msg.cmd # "error" ->
            Send(c, "resync") /\ UNCHANGED done
       [] OTHER -> End(c, "failed") /\ UNCHANGED outbox
  /\ UNCHANGED <<polls, foreign>>

\* What the answer to each request leads to; an error ends the call, except
\* that a shutdown and the closing of a file take any end for success.
OnAnswer(c, msg) ==
  /\ foreign' = IF msg.call = c /\ msg.cmd \in {awaits[c], "error", "running"}
                THEN foreign ELSE foreign \cup {c}
  /\ CASE msg.cmd = "error" /\ awaits[c] \notin {"shutdown", "file-close"} ->
            End(c, "failed") /\ UNCHANGED <<outbox, polls>>
       [] msg.cmd # "error" /\ awaits[c] = "exec" ->
            /\ IF msg.cmd = "exec" THEN Send(c, "exec-status") /\ UNCHANGED done
               ELSE End(c, "failed") /\ UNCHANGED outbox
            /\ UNCHANGED polls
       [] msg.cmd = "running" /\ awaits[c] = "exec-status" ->
            /\ awaits' = [awaits EXCEPT ![c] = Asleep]
            /\ polls' = [polls EXCEPT ![c] = @ + 1]
            /\ UNCHANGED <<outbox, done>>
       [] msg.cmd # "error" /\ awaits[c] = "file-open" ->
            Send(c, "file-write") /\ UNCHANGED <<done, polls>>
       [] msg.cmd # "error" /\ awaits[c] = "file-write" ->
            Send(c, "file-close") /\ UNCHANGED <<done, polls>>
       [] OTHER -> End(c, "ok") /\ UNCHANGED <<outbox, polls>>

\* A chunk arrives: the first message is the answer, the rest is lost; a chunk
\* nobody waits for is lost whole.
Chunk(c) ==
  /\ queue # <<>> /\ c = Head(queue) /\ fromGuest # <<>>
  /\ \E n \in 1..Len(fromGuest) : fromGuest' = SubSeq(fromGuest, n + 1, Len(fromGuest))
  /\ IF Waiting(c)
     THEN LET msg == Head(fromGuest)
          IN  IF awaits[c] \in {"sync", "resync"} THEN OnSync(c, msg) ELSE OnAnswer(c, msg)
     ELSE UNCHANGED <<outbox, awaits, polls, done, foreign>>
  /\ UNCHANGED <<up, queue, toGuest, ran>>

\* The time of one answer is up, whatever the guest does later.
TimeOut(c) ==
  /\ Waiting(c)
  /\ End(c, IF awaits[c] \in {"shutdown", "file-close"} THEN "ok" ELSE "failed")
  /\ UNCHANGED <<up, queue, outbox, toGuest, fromGuest, polls, ran, foreign>>

Poll(c) ==
  /\ awaits[c] = Asleep
  /\ IF polls[c] < MaxPolls
     THEN Send(c, "exec-status") /\ UNCHANGED done
     ELSE End(c, "failed") /\ UNCHANGED outbox
  /\ UNCHANGED <<up, queue, toGuest, fromGuest, polls, ran, foreign>>

Leave(c) == \E i \in DOMAIN queue : queue[i] = c /\ queue' = RemoveAt(queue, i)

\* The socket is closed; QEMU still reads what was written to it.
Close(c) ==
  /\ awaits[c] = Closing /\ outbox[c] = <<>>
  /\ awaits' = [awaits EXCEPT ![c] = None]
  /\ Leave(c)
  /\ UNCHANGED <<up, outbox, toGuest, fromGuest, polls, done, ran, foreign>>

\* A connection behind another is closed before QEMU ever served it.
Withdraw(c) ==
  /\ awaits[c] = Closing /\ queue # <<>> /\ Head(queue) # c
  /\ awaits' = [awaits EXCEPT ![c] = None]
  /\ Leave(c)
  /\ outbox' = [outbox EXCEPT ![c] = <<>>]
  /\ UNCHANGED <<up, toGuest, fromGuest, polls, done, ran, foreign>>

Carry ==
  /\ queue # <<>> /\ outbox[Head(queue)] # <<>>
  /\ toGuest' = Append(toGuest, Head(outbox[Head(queue)]))
  /\ outbox' = [outbox EXCEPT ![Head(queue)] = Tail(@)]
  /\ UNCHANGED <<up, queue, fromGuest, awaits, polls, done, ran, foreign>>

\* The agent's answers to a request: what it asked for, an error, or that the
\* script still runs.
Answers(req) ==
  CASE req.cmd \in {"sync", "resync"} -> {req}
    [] req.cmd = "exec-status" -> {req, [req EXCEPT !.cmd = "running"]}
    [] OTHER -> {req, [req EXCEPT !.cmd = "error"]}

\* The agent handles one request.  Its answer is lost when no connection is
\* there to take it, and it may owe one to the closing of a file.
Serve ==
  /\ up /\ toGuest # <<>> /\ Len(fromGuest) < MaxPipe
  /\ LET req == Head(toGuest) IN
     /\ toGuest' = Tail(toGuest)
     /\ \E a \in Answers(req) :
          /\ \/ fromGuest' = Append(fromGuest, a)
             \/ (queue = <<>> \/ req.cmd = "file-close") /\ fromGuest' = fromGuest
          /\ ran' = IF req.cmd = "exec" /\ a.cmd = "exec"
                    THEN [ran EXCEPT ![req.call] = @ + 1] ELSE ran
     /\ req.cmd # "shutdown"
  /\ UNCHANGED <<up, queue, outbox, awaits, polls, done, foreign>>

\* The guest shuts down when asked to: the sockets close before an answer.
Shutdown ==
  /\ up /\ toGuest # <<>> /\ Head(toGuest).cmd = "shutdown"
  /\ up' = FALSE
  /\ queue' = <<>> /\ toGuest' = <<>> /\ fromGuest' = <<>>
  /\ outbox' = [c \in Calls |-> <<>>]
  /\ awaits' = [c \in Calls |-> IF awaits[c] = Idle THEN Idle ELSE None]
  /\ done' = [c \in Calls |->
       CASE Waiting(c) -> IF awaits[c] \in {"shutdown", "file-close"} THEN "ok" ELSE "failed"
         [] awaits[c] = Asleep -> "failed"
         [] OTHER -> done[c]]
  /\ UNCHANGED <<polls, ran, foreign>>

Next ==
  \/ \E c \in Calls : Call(c) \/ Chunk(c) \/ TimeOut(c) \/ Poll(c) \/ Close(c) \/ Withdraw(c)
  \/ Carry \/ Serve \/ Shutdown

Spec == Init /\ [][Next]_vars
-----------------------------------------------------------------------------
\* qga.ts:234-240: whatever earlier calls left unread, an answer taken after
\* the synchronisation is the answer to this call's own request.
AnswersAreOwn == foreign = {}

\* qga.ts:277-283: a call that reports its script's end had the guest run it,
\* once; no call runs it twice.
RanOnce ==
  \A c \in Calls :
    /\ ran[c] <= 1
    /\ Op[c] = "exec" /\ done[c] = "ok" => ran[c] = 1

\* qga.ts:55, 341-343: a call that ended holds no place among the connections.
EndedLetGo == \A c \in Calls : awaits[c] \in {Idle, None} => c \notin ToSet(queue)

\* Why it is so: what a call is told before it has its own synchronisation back may be
\* anybody's, and after that nothing is on its way but its one request or the answer.
Requests == {"sync", "resync", "run", "exec", "exec-status", "shutdown", "file-open",
             "file-write", "file-close"}
Message == [call : Calls, cmd : Requests \cup {"error", "running"}]

TypeOK ==
  /\ up \in BOOLEAN /\ queue \in Seq(Calls)
  /\ outbox \in [Calls -> Seq([call : Calls, cmd : Requests])]
  /\ toGuest \in Seq([call : Calls, cmd : Requests]) /\ fromGuest \in Seq(Message)
  /\ awaits \in [Calls -> Requests \cup {Idle, Asleep, Closing, None}]
  /\ polls \in [Calls -> Nat]
  /\ done \in [Calls -> {None, "ok", "failed"}] /\ ran \in [Calls -> Nat]

Queued ==
  /\ \A i, j \in DOMAIN queue : queue[i] = queue[j] => i = j
  /\ \A c \in Calls : awaits[c] \notin {Idle, None} <=> \E i \in DOMAIN queue : queue[i] = c

Served(c) == queue # <<>> /\ queue[1] = c

Holds(s, m) == \E i \in DOMAIN s : s[i] = m
EndsWith(s, m) == \A i \in DOMAIN s : s[i] = m => i = Len(s)
Once(s, m) == \A i, j \in DOMAIN s : s[i] = m /\ s[j] = m => i = j

\* The agent has not heard of the call, or nothing but one command of it.
HeardOnly(c, cmd) ==
  \A m \in Message : m.call = c /\ (Holds(toGuest, m) \/ Holds(fromGuest, m)) => m.cmd = cmd

\* Its connection is not served yet: it has asked for its synchronisation at most.
Unserved(c) ==
  ~Served(c) =>
    /\ awaits[c] \in {Idle, "sync", Closing, None}
    /\ awaits[c] \in {Idle, "sync"} => HeardOnly(c, None)
    /\ awaits[c] = Idle => outbox[c] = <<>>
    /\ awaits[c] = "sync" => outbox[c] = <<Request(c, "sync")>>

\* Nothing follows the synchronisation that it waits for.
Synchronises(c) ==
  Served(c) /\ awaits[c] \in {"sync", "resync"} =>
    LET r == Request(c, awaits[c]) IN
    /\ Holds(fromGuest, r) => toGuest = <<>> /\ outbox[c] = <<>> /\ EndsWith(fromGuest, r)
    /\ Holds(toGuest, r) => outbox[c] = <<>> /\ EndsWith(toGuest, r)
    /\ EndsWith(outbox[c], r)
    /\ awaits[c] = "sync" => HeardOnly(c, "sync")
                             /\ \A i \in DOMAIN outbox[c] : outbox[c][i].cmd = "sync"

Exchanges(c) ==
  Served(c) /\ awaits[c] \notin {"sync", "resync", Closing} =>
    /\ Len(fromGuest) + Len(toGuest) + Len(outbox[c]) <= IF awaits[c] = Asleep THEN 0 ELSE 1
    /\ \A i \in DOMAIN outbox[c] : outbox[c][i] = Request(c, awaits[c])
    /\ \A i \in DOMAIN toGuest : toGuest[i] = Request(c, awaits[c])
    /\ \A i \in DOMAIN fromGuest :
         /\ fromGuest[i].call = c /\ fromGuest[i].cmd \in {awaits[c], "error", "running"}
         /\ fromGuest[i].cmd = "running" => awaits[c] = "exec-status"

\* One script is sent at most, and the answer to it comes after it ran.
RunsScript(c) ==
  LET r == Request(c, "exec") IN
  /\ \A i \in DOMAIN outbox[c] : outbox[c][i].call = c
  /\ Once(outbox[c], r) /\ Once(toGuest, r)
  /\ ~(Holds(outbox[c], r) /\ Holds(toGuest, r))
  /\ Holds(outbox[c], r) \/ Holds(toGuest, r) \/ awaits[c] \in {Idle, "sync", "resync"} => ran[c] = 0
  /\ awaits[c] \in {Idle, "sync", "resync"} => ~Holds(outbox[c], r) /\ ~Holds(toGuest, r)
  /\ Holds(fromGuest, r) \/ awaits[c] \in {"exec-status", Asleep} => ran[c] = 1
  /\ ran[c] <= 1
  /\ Op[c] = "exec" => awaits[c] \notin {"run", "shutdown", "file-open", "file-write", "file-close"}
  /\ Op[c] = "exec" /\ done[c] = "ok" => ran[c] = 1

Sound(c) == Unserved(c) /\ Synchronises(c) /\ Exchanges(c) /\ RunsScript(c)

IInv == TypeOK /\ Queued /\ foreign = {} /\ \A c \in Calls : Sound(c)
=============================================================================
