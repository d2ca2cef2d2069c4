------------------------------ MODULE Console ------------------------------
(***************************************************************************)
(* console.ts: commands over the serial console.  The guest has one        *)
(* terminal, whose login and whose typed-ahead input outlive connections;  *)
(* QEMU serves one connection at a time and drops what the guest prints    *)
(* while there is none.  A call logs in, types its command and then an     *)
(* expression that prints a marker, and takes what came before the marker. *)
(* Text is a sequence of tokens: a prompt with its user, the questions of  *)
(* the login, the echo of a line, the output of a command, a marker.       *)
(***************************************************************************)
EXTENDS Integers, Sequences, SequencesExt

CONSTANTS
  Calls,
  User,       \* of each call: the user it must run as
  MaxPokes,   \* bound: carriage returns a call types to wake the terminal
  FirstAsks   \* what the first login asks before the prompt: a sequence

Asks == {"license", "newpassword"}

ConsoleAssumption == MaxPokes \in Nat \ {0} /\ FirstAsks \in Seq(Asks)

VARIABLES
  queue,    \* the connections, the served one first
  keys,     \* what was typed and the guest has not read
  tty,      \* the terminal: who is logged in, what it waits for, what it asks next
  buf,      \* of each call: what it has read and not yet matched
  at, pokes, quit, result,
  ranAs     \* ghost: of each call, the users its command ran as

vars == <<queue, keys, tty, buf, at, pokes, quit, result, ranAs>>

None == "none"
Token(kind, of) == [kind |-> kind, of |-> of]
Prompt(u) == Token("prompt", u)
LoginText == Token("login", None)
PasswordText == Token("password", None)

Init ==
  /\ queue = <<>> /\ keys = <<>>
  /\ \E u \in {None} \cup {User[c] : c \in Calls} :
       tty = [user |-> u, reads |-> IF u = None THEN "name" ELSE "line",
              next |-> IF u = None THEN FirstAsks ELSE <<>>]
  /\ buf = [c \in Calls |-> <<>>]
  /\ at = [c \in Calls |-> "idle"]
  /\ pokes = [c \in Calls |-> 0]
  /\ quit = [c \in Calls |-> FALSE]
  /\ result = [c \in Calls |-> <<>>]
  /\ ranAs = [c \in Calls |-> <<>>]

Type(line) == keys' = keys \o line
Poke == <<Token("cr", None)>>

\* Where the first token of a kind is, 0 when there is none.
Where(c, kind) == SelectInSeq(buf[c], LAMBDA t : t.kind = kind)
After(c, i) == SubSeq(buf[c], i + 1, Len(buf[c]))

Open(c) ==
  /\ at[c] = "idle"
  /\ queue' = Append(queue, c)
  /\ at' = [at EXCEPT ![c] = "connected"]
  /\ UNCHANGED <<keys, tty, buf, pokes, quit, result, ranAs>>

\* The first carriage return, or one more when nothing has come for a while.
\* What a connection not yet served writes arrives when it is served.
Wake(c) ==
  /\ at[c] \in {"connected", "login"} /\ queue # <<>> /\ c = Head(queue)
  /\ pokes[c] < MaxPokes
  /\ Type(Poke)
  /\ pokes' = [pokes EXCEPT ![c] = @ + 1]
  /\ at' = [at EXCEPT ![c] = "login"]
  /\ UNCHANGED <<queue, tty, buf, quit, result, ranAs>>

Submission(c) == <<Token("cmd", c), Token("put", c)>>

\* At a prompt: the command and the marker's expression in one write.
Submit(c) ==
  /\ Type(Submission(c))
  /\ buf' = [buf EXCEPT ![c] = <<>>]
  /\ at' = [at EXCEPT ![c] = "reply"]

\* Whether a prompt may be used as it stands.
Mine(c, u) == u = User[c]

\* ensureLoggedIn(): a prompt is looked for before a login text.  A prompt of
\* another user is left, once.
LogIn(c) ==
  /\ at[c] = "login"
  /\ \/ LET i == Where(c, "prompt") IN
        /\ i > 0
        /\ IF Mine(c, buf[c][i].of) THEN Submit(c) /\ UNCHANGED quit
           ELSE /\ buf' = [buf EXCEPT ![c] = After(c, i)]
                /\ quit' = [quit EXCEPT ![c] = TRUE]
                /\ Type(IF quit[c] THEN <<>> ELSE <<Token("quit", None)>>)
                /\ UNCHANGED at
     \/ LET i == Where(c, "login") IN
        /\ i > 0 /\ Where(c, "prompt") = 0
        /\ buf' = [buf EXCEPT ![c] = After(c, i)]
        /\ Type(<<Token("name", User[c])>>)
        /\ at' = [at EXCEPT ![c] = "password"]
        /\ UNCHANGED quit
  /\ UNCHANGED <<queue, tty, pokes, result, ranAs>>

Password(c) ==
  /\ at[c] = "password"
  /\ LET i == Where(c, "password") IN
     /\ i > 0
     /\ buf' = [buf EXCEPT ![c] = After(c, i)]
  /\ Type(<<Token("secret", User[c])>>)
  /\ at' = [at EXCEPT ![c] = "post"]
  /\ UNCHANGED <<queue, tty, pokes, quit, result, ranAs>>

Reply == [license |-> Token("no", None), newpassword |-> Token("skip", None)]

\* handlePostLogin(): a prompt first, whoever's; then the questions of a first
\* login.
PostLogin(c) ==
  /\ at[c] = "post"
  /\ \/ Where(c, "prompt") > 0 /\ Submit(c)
     \/ \E ask \in Asks :
          /\ Where(c, "prompt") = 0 /\ Where(c, ask) > 0
          /\ ask = "newpassword" => Where(c, "license") = 0
          /\ buf' = [buf EXCEPT ![c] = After(c, Where(c, ask))]
          /\ Type(<<Reply[ask]>>)
          /\ UNCHANGED at
  /\ UNCHANGED <<queue, tty, pokes, quit, result, ranAs>>

Finish(c, how, text) ==
  /\ at' = [at EXCEPT ![c] = how]
  /\ result' = [result EXCEPT ![c] = text]
  /\ \E i \in DOMAIN queue : queue[i] = c /\ queue' = RemoveAt(queue, i)
  /\ buf' = [buf EXCEPT ![c] = <<>>]
  /\ UNCHANGED <<keys, tty, pokes, quit, ranAs>>

MarkerAt(c) == SelectInSeq(buf[c], LAMBDA t : t = Token("marker", c))

\* waitForReplyEnd(): the marker ends the reply; without one, a prompt at the
\* end of the buffer after a quiet time does.
Framed(c) ==
  /\ at[c] = "reply" /\ MarkerAt(c) > 0
  /\ Finish(c, "framed", SubSeq(buf[c], 1, MarkerAt(c) - 1))

Unframed(c) ==
  /\ at[c] = "reply" /\ MarkerAt(c) = 0
  /\ buf[c] # <<>> /\ Last(buf[c]).kind = "prompt"
  /\ Finish(c, "unframed", Front(buf[c]))

GiveUp(c) ==
  /\ at[c] \in {"connected", "login", "password", "post", "reply"}
  /\ Finish(c, "failed", <<>>)

\* The guest prints to the served connection, or to nobody.
Show(text) ==
  buf' = IF queue = <<>> \/ at[Head(queue)] = "connected" THEN buf
         ELSE [buf EXCEPT ![Head(queue)] = @ \o text]

\* After a password the questions still due, then the prompt.
Greet(u, asks) ==
  IF asks = <<>>
  THEN tty' = [user |-> u, reads |-> "line", next |-> <<>>] /\ Show(<<Prompt(u)>>)
  ELSE tty' = [user |-> u, reads |-> "answer", next |-> asks] /\ Show(<<Token(Head(asks), None)>>)

\* Seeded fault: the marker is typed as one word.
PutVerbatim(c) == <<Token("marker", c)>>

\* The echo of the marker's expression does not hold the marker.
PutEcho(c) == <<Token("echo", c)>>

\* A line read at the prompt.
Line(key) ==
  CASE key.kind = "cmd" ->
         /\ Show(<<Token("echo", key.of)>>)
         /\ tty' = [tty EXCEPT !.reads = "nothing", !.next = <<key.of>>]
         /\ ranAs' = [ranAs EXCEPT ![key.of] = Append(@, tty.user)]
    [] key.kind = "put" ->
         /\ Show(PutEcho(key.of) \o <<Token("marker", key.of), Prompt(tty.user)>>)
         /\ UNCHANGED <<tty, ranAs>>
    [] key.kind = "quit" ->
         /\ tty' = [tty EXCEPT !.user = None, !.reads = "name"]
         /\ Show(<<LoginText>>)
         /\ UNCHANGED ranAs
    [] OTHER -> Show(<<Prompt(tty.user)>>) /\ UNCHANGED <<tty, ranAs>>

\* The guest reads what was typed, one line at a time and in its own time.
Read ==
  /\ keys # <<>> /\ tty.reads # "nothing"
  /\ keys' = Tail(keys)
  /\ LET key == Head(keys) IN
     \/ tty.reads = "line" /\ Line(key)
     \/ /\ tty.reads = "name"
        /\ IF key.kind = "cr" THEN Show(<<LoginText>>) /\ UNCHANGED tty
           ELSE /\ Show(<<PasswordText>>)
                /\ tty' = [tty EXCEPT !.reads = "secret",
                                      !.user = IF key.kind = "name" THEN key.of ELSE None]
        /\ UNCHANGED ranAs
     \/ /\ tty.reads = "secret"
        /\ IF key.kind = "secret" /\ key.of = tty.user THEN Greet(tty.user, tty.next)
           ELSE tty' = [tty EXCEPT !.user = None, !.reads = "name"] /\ Show(<<LoginText>>)
        /\ UNCHANGED ranAs
     \/ /\ tty.reads = "answer"
        /\ IF key = Reply[Head(tty.next)] THEN Greet(tty.user, Tail(tty.next))
           ELSE Show(<<Token(Head(tty.next), None)>>) /\ UNCHANGED tty
        /\ UNCHANGED ranAs
  /\ UNCHANGED <<queue, at, pokes, quit, result>>

\* Before its output a command may redraw the prompt and its echo, and the
\* terminal may echo a line typed ahead.
Redraw ==
  /\ tty.reads = "nothing"
  /\ queue # <<>> /\ Len(buf[Head(queue)]) < 2
  /\ \/ Show(<<Prompt(tty.user), Token("echo", tty.next[1])>>)
     \/ keys # <<>> /\ Head(keys).kind = "put" /\ Show(PutEcho(Head(keys).of))
  /\ UNCHANGED <<queue, keys, tty, at, pokes, quit, result, ranAs>>

Output ==
  /\ tty.reads = "nothing"
  /\ Show(<<Token("out", tty.next[1]), Prompt(tty.user)>>)
  /\ tty' = [tty EXCEPT !.reads = "line", !.next = <<>>]
  /\ UNCHANGED <<queue, keys, at, pokes, quit, result, ranAs>>

Next ==
  \/ \E c \in Calls :
       \/ Open(c) \/ Wake(c) \/ LogIn(c) \/ Password(c) \/ PostLogin(c)
       \/ Framed(c) \/ Unframed(c) \/ GiveUp(c)
  \/ Read \/ Redraw \/ Output

Spec == Init /\ [][Next]_vars
-----------------------------------------------------------------------------
\* console.ts:191-208, 472-481: a reply said to be framed holds the command's
\* output, whatever earlier calls left behind.
FramedIsWhole ==
  \A c \in Calls : at[c] = "framed" => Contains(result[c], Token("out", c))

\* console.ts:472-481: a command runs once at most.
RanOnce == \A c \in Calls : Len(ranAs[c]) <= 1

\* At most one call gave up, and left lines that the guest may yet read.
OneGaveUp == \A c, d \in Calls : at[c] = "failed" /\ at[d] = "failed" => c = d

\* console.ts:307-318: a command runs as the user asked for, unless the lines that two calls
\* left behind log another in.
RunsAsAsked == OneGaveUp => \A c \in Calls : ToSet(ranAs[c]) \subseteq {User[c]}

\* Why replies are whole: the marker's expression comes right behind its command, and is
\* read at a prompt only when that was; while it runs, it is its call that is served.
IsToken(t) == t = Token(t.kind, t.of)
Text(s) == s \in Seq(ToSet(s)) /\ \A t \in ToSet(s) : IsToken(t)

TypeOK ==
  /\ queue \in Seq(Calls)
  /\ at \in [Calls -> {"idle", "connected", "login", "password", "post", "reply",
                       "framed", "unframed", "failed"}]
  /\ DOMAIN buf = Calls /\ DOMAIN result = Calls
  /\ Text(keys) /\ \A c \in Calls : Text(buf[c])
  /\ tty = [user |-> tty.user, reads |-> tty.reads, next |-> tty.next]
  /\ tty.reads # "nothing" => tty.next \in Seq(Asks)
  /\ tty.reads = "answer" => tty.next # <<>>

Served(c) == at[c] \in {"login", "password", "post", "reply"}

Waits(c) == tty.reads = "nothing" /\ tty.next = <<c>>

\* The expression is read to no effect, or after the output.
Harmless(c) ==
  \/ Waits(c) \/ tty.reads \in {"name", "secret", "answer"}
  \/ \E i \in DOMAIN buf[c] : buf[c][i] = Token("out", c)

PutsFollow(c) ==
  \A i \in DOMAIN keys : keys[i] = Token("put", c) =>
    IF i = 1 THEN Harmless(c) ELSE keys[i - 1] = Token("cmd", c)

OutputFirst(c) ==
  \A i \in DOMAIN buf[c] : buf[c][i] = Token("marker", c) =>
    \E j \in 1..(i - 1) : buf[c][j] = Token("out", c)

Sound(c) ==
  /\ Served(c) => queue # <<>> /\ c = queue[1]
  /\ at[c] \in {"idle", "connected", "login", "password", "post"} =>
       \A i \in DOMAIN keys : keys[i] # Token("put", c)
  /\ at[c] = "reply" => PutsFollow(c) /\ OutputFirst(c)

\* A command is typed by its call, and no more after it ran.
Typed(c) == \E i \in DOMAIN keys : keys[i] = Token("cmd", c)

Once(c) ==
  /\ ranAs[c] = <<>> \/ ranAs[c] = <<ranAs[c][1]>>
  /\ \A i, j \in DOMAIN keys : keys[i] = Token("cmd", c) /\ keys[j] = Token("cmd", c) => i = j
  /\ Typed(c) => ranAs[c] = <<>>
  /\ at[c] \in {"idle", "connected", "login", "password", "post"} => ~Typed(c) /\ ranAs[c] = <<>>

IInv == TypeOK /\ FramedIsWhole /\ \A c \in Calls : Sound(c)
OnceInv == DOMAIN ranAs = Calls /\ \A c \in Calls : Once(c)
=============================================================================
