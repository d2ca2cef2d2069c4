--------------------------- MODULE MCGuest_proofs ---------------------------
(***************************************************************************)
(* What quickchr learns from a guest is so, for any number of calls,       *)
(* retries, polls and reboots.                                             *)
(*                                                                         *)
(* Each part that plays has its own inductive invariant, and all have the  *)
(* same reason: an answer that comes late, in pieces, or to somebody       *)
(* else's question is told from the one that was waited for, and what was  *)
(* asked for and may have been done is not asked for again.                *)
(***************************************************************************)
EXTENDS MCGuest, SequenceTheorems, FiniteSetTheorems, WellFoundedInduction,
        TLAPS

-----------------------------------------------------------------------------
(* The script of exec() *)

LEMMA ScriptInit == Script!Init => Script!IInv
<1> SUFFICES ASSUME Script!Init PROVE Script!IInv
  OBVIOUS
<1>1. ~v4 /\ v4 \in BOOLEAN /\ v5 = 0 /\ v8 = 0 /\ v6 = "none" /\ v7 = "none"
  BY DEF Script!Init, Script!None
<1>2. v1 \in {"auto", "rest", "console", "request"} /\ v2 \in {"connecting", "console"}
  BY DEF Script!Init
<1> QED
  BY <1>1, <1>2 DEF Script!IInv, Script!None

LEMMA ScriptStep == ASSUME Script!IInv, [Script!Next]_(Script!vars) PROVE Script!IInv'
<1> USE DEF Script!IInv, Script!None, Script!Attempt, Script!isExecTransportFailure
<1>1. CASE UNCHANGED Script!vars
  BY <1>1 DEF Script!vars
<1>2. CASE Script!Refused
  BY <1>2 DEF Script!Refused
<1>3. CASE Script!Connected
  BY <1>3 DEF Script!Connected
<1>4. CASE Script!GuestRuns
  <2>1. /\ v2 = "waiting" /\ v6 = "none" /\ ~v4' /\ v4' \in BOOLEAN /\ UNCHANGED <<v1, v2, v3, v5, v7>>
        /\ (v8' = v8 + 1 /\ v6' = "ret") \/ (v8' = v8 /\ v6' = "http-error")
    BY <1>4 DEF Script!GuestRuns
  <2>2. v1 # "request" => v8 = 0 /\ v5 = 0
    BY <1>4 DEF Script!GuestRuns
  <2> QED
    BY <2>1, <2>2
<1>5. CASE Script!GuestRunsStray
  <2>1. /\ v5 > 0 /\ v5' = v5 - 1 /\ v8' \in {v8, v8 + 1}
        /\ UNCHANGED <<v1, v2, v3, v6, v7>> /\ (v4' <=> v4) /\ v4' \in BOOLEAN
    BY <1>5 DEF Script!GuestRunsStray
  <2>2. v1 # "request" => ~v4 /\ ~Script!Attempt
    BY <2>1
  <2>3. v4' => v2' = "waiting" /\ v6' = "none"
    BY <2>1
  <2>4. v5' \in Nat /\ v8' \in Nat /\ v8' >= v8 /\ (v8 + v5 <= 1 => v8' + v5' <= 1)
    <3> HIDE DEF Script!IInv
    <3>1. v5 \in Nat /\ v8 \in Nat
      BY DEF Script!IInv
    <3>2. v5 > 0 /\ v5' = v5 - 1 /\ (v8' = v8 \/ v8' = v8 + 1)
      BY <2>1
    <3>3. v5' \in Nat
      BY <3>1, <3>2
    <3>4. v8' \in Nat /\ v8' >= v8
      BY <3>1, <3>2
    <3>5. v8 + v5 <= 1 => v8' + v5' <= 1
      BY <3>1, <3>2
    <3> QED
      BY <3>3, <3>4, <3>5
  <2>5. v1' # "request" => v8' + v5' <= 1
    BY <2>1, <2>4
  <2>6. v1' # "request" => ~v4' /\ ~Script!Attempt'
    BY <2>1, <2>2
  <2>7. /\ v2' = "waiting" /\ v6' = "ret" => v8' > 0
        /\ v2' = "ok" => v8' > 0
    BY <2>1, <2>4
  <2> QED
    BY <2>1, <2>3, <2>4, <2>5, <2>6, <2>7
<1>6. CASE Script!Response
  BY <1>6 DEF Script!Response
<1>7. CASE Script!SocketError
  <2>1. /\ v2 = "waiting" /\ v2' = "failed" /\ v7' \in {"reset", "timeout"} /\ ~v4' /\ v4' \in BOOLEAN
        /\ UNCHANGED <<v1, v3, v6, v8>>
    BY <1>7 DEF Script!SocketError, Script!Abandon
  <2>2. v5' = v5 \/ (v4 /\ v5' = v5 + 1)
    BY <1>7 DEF Script!SocketError, Script!Abandon
  <2> QED
    BY <2>1, <2>2
<1>8. CASE Script!Timer
  <2>1. /\ v2 = "waiting" /\ v2' = "failed" /\ v7' \in {"reset", "timeout"} /\ ~v4' /\ v4' \in BOOLEAN
        /\ UNCHANGED <<v1, v3, v6, v8>>
    BY <1>8 DEF Script!Timer, Script!Abandon
  <2>2. v5' = v5 \/ (v4 /\ v5' = v5 + 1)
    BY <1>8 DEF Script!Timer, Script!Abandon
  <2> QED
    BY <2>1, <2>2
<1>9. CASE Script!Retry
  BY <1>9 DEF Script!Retry, Script!MayRetry
<1>10. CASE Script!Fallback
  BY <1>10 DEF Script!Fallback, Script!MayFallBack
<1>11. CASE Script!Throw
  BY <1>11 DEF Script!Throw
<1>12. CASE Script!ConsoleRuns
  BY <1>12 DEF Script!ConsoleRuns
<1> QED
  BY <1>1, <1>2, <1>3, <1>4, <1>5, <1>6, <1>7, <1>8, <1>9, <1>10, <1>11, <1>12 DEF Script!Next

\* exec() runs a script once at most, once when it returns, and not at all when it reports
\* that there was no connection, by either route and after any number of retries
\* (exec.ts:95-125): a request is made again only when none was sent.
THEOREM ScriptsRunOnce == Guest => []ScriptRunsOnce
<1> DEFINE Inv == plays = "exec" => Script!IInv
<1>1. ASSUME GuestInit PROVE Inv
  BY <1>1, ScriptInit DEF GuestInit
<1>2. ASSUME Inv, [GuestNext]_all PROVE Inv'
  <2>1. ASSUME plays' = "exec" PROVE plays = "exec" /\ [Script!Next]_(Script!vars)
    BY <1>2, <2>1 DEF GuestNext, Plays, all, slots, Script!vars
  <2> QED
    BY <1>2, <2>1, ScriptStep
<1>3. Inv => ScriptRunsOnce
  BY DEF ScriptRunsOnce, Script!ScriptRunsOnce, Script!IInv, Script!Attempt
<1> QED
  BY <1>1, <1>2, <1>3, PTL DEF Guest
-----------------------------------------------------------------------------
(* The monitor *)

LEMMA SnapshotsInit == Snapshots!Init => Snapshots!IInv
<1> SUFFICES ASSUME Snapshots!Init PROVE Snapshots!IInv
  OBVIOUS
<1>1. Snapshots!TypeOK
  BY DEF Snapshots!Init, Snapshots!TypeOK
<1>2. ~v3 /\ \A c \in Snapper : c \notin v5 /\ v6[c] = "idle" /\ v10[c] = "none" /\ v7[c] = "none"
  BY DEF Snapshots!Init
<1>3. \A c \in Snapper : Snapshots!Sound(c)
  BY <1>2 DEF Snapshots!Sound, Snapshots!IsDone
<1> QED
  BY <1>1, <1>2, <1>3 DEF Snapshots!IInv, Snapshots!Resumed

\* A call that QEMU does not serve leaves the others as they are.
LEMMA OthersStaySound ==
  ASSUME Snapshots!IInv, NEW c \in Snapper, v1' => v1, v1' \in BOOLEAN, Snapshots!Sound(c)',
         \A d \in Snapper : d # c => /\ v6'[d] = v6[d] /\ v7'[d] = v7[d] /\ v9'[d] = v9[d]
                                     /\ v10'[d] = v10[d] /\ v11'[d] = v11[d]
                                     /\ d \in v5' => v1' /\ d \in v5
                                     /\ v1' /\ v6[d] = "sent" => d \in v5'
  PROVE  \A d \in Snapper : Snapshots!Sound(d)'
<1> TAKE d \in Snapper
<1>1. CASE d = c
  BY <1>1
<1>2. CASE d # c
  <2>1. Snapshots!Sound(d)
    BY DEF Snapshots!IInv
  <2>2. Snapshots!IsDone(d)' => Snapshots!IsDone(d)
    BY <1>2 DEF Snapshots!IsDone
  <2>3. v1' /\ Snapshots!IsDone(d)' => v11'[d]
    BY <1>2, <2>1, <2>2 DEF Snapshots!Sound
  <2> QED
    BY <1>2, <2>1, <2>3 DEF Snapshots!Sound
<1> QED
  BY <1>1, <1>2

\* What QEMU prints is read by the call that waits for it.
LEMMA AnswersRead ==
  ASSUME Snapshots!IInv, v1, NEW c \in v5, NEW text \in {"", "error", "listed"},
         Snapshots!Answers(c, text), v11' \in [Snapper -> BOOLEAN],
         \A d \in Snapper : d # c => v11'[d] = v11[d],
         v11[c] => v11'[c],
         v7[c] \in Snapshots!Op /\ text # "error" => v11'[c],
         v3' \in BOOLEAN, v12' \in BOOLEAN
  PROVE  /\ Snapshots!TypeOK' /\ \A d \in Snapper : Snapshots!Sound(d)'
         /\ \A d \in Snapper : d # c => v6'[d] = v6[d] /\ v7'[d] = v7[d] /\ v9'[d] = v9[d]
         /\ v6[c] = "sent" => v6'[c] = "answered" /\ v9'[c] = text /\ v7'[c] = v7[c]
         /\ v6[c] \in {"sent", "done"}
         /\ v1'
<1> USE DEF Snapshots!TypeOK
<1>1. Snapshots!TypeOK /\ Snapshots!Sound(c) /\ c \in Snapper
  BY DEF Snapshots!IInv
<1>2. v6[c] \in {"sent", "done"} /\ \A d \in Snapper : d # c => d \notin v5 /\ v6[d] # "sent"
  <2>1. v6[c] \in {"sent", "done"}
    BY <1>1 DEF Snapshots!Sound
  <2>2. ASSUME NEW d \in Snapper, d # c PROVE d \notin v5
    BY <1>1, <2>2
  <2>3. ASSUME NEW d \in Snapper, d # c PROVE v6[d] # "sent"
    BY <2>2, <2>3 DEF Snapshots!IInv, Snapshots!Sound
  <2> QED
    BY <2>1, <2>2, <2>3
<1>3. v5' = {} /\ v1' = v1 /\ v7' = v7 /\ v10' = v10
  BY DEF Snapshots!Answers
<1>4. CASE v6[c] = "sent"
  <2>1. v6' = [v6 EXCEPT ![c] = "answered"] /\ v9' = [v9 EXCEPT ![c] = text]
    BY <1>4 DEF Snapshots!Answers, Snapshots!Go
  <2>2. v6'[c] = "answered" /\ v9'[c] = text /\ \A d \in Snapper : d # c => v6'[d] = v6[d] /\ v9'[d] = v9[d]
    BY <1>1, <2>1
  <2>3. Snapshots!TypeOK'
    BY <1>1, <1>3, <2>1
  <2>4. v10'[c] = "none"
    BY <1>1, <1>3, <1>4 DEF Snapshots!Sound
  <2>5. v7[c] = "list" => v11'[c]
    BY <1>1 DEF Snapshots!Sound, Snapshots!IsDone
  <2>6. Snapshots!IsDone(c)' => v11'[c]
    BY <1>3, <2>2, <2>4, <2>5 DEF Snapshots!IsDone
  <2>7. Snapshots!Sound(c)'
    BY <1>1, <1>3, <1>4, <2>2, <2>4, <2>6 DEF Snapshots!Sound
  <2>8. \A d \in Snapper : Snapshots!Sound(d)'
    BY <1>1, <1>2, <1>3, <2>2, <2>7, OthersStaySound
  <2> QED
    BY <1>2, <1>3, <1>4, <2>2, <2>3, <2>8
<1>5. CASE v6[c] = "done"
  <2>1. v6' = v6 /\ v9' = v9
    BY <1>5 DEF Snapshots!Answers
  <2>2. Snapshots!TypeOK'
    BY <1>1, <1>3, <2>1
  <2>3. Snapshots!IsDone(c)' => v11'[c]
    BY <1>1, <1>3, <1>5, <2>1 DEF Snapshots!IsDone, Snapshots!Sound
  <2>4. Snapshots!Sound(c)'
    BY <1>1, <1>3, <1>5, <2>1, <2>3 DEF Snapshots!Sound
  <2>5. \A d \in Snapper : Snapshots!Sound(d)'
    BY <1>1, <1>2, <1>3, <2>1, <2>4, OthersStaySound
  <2> QED
    BY <1>2, <1>3, <1>5, <2>1, <2>2, <2>5
<1> QED
  BY <1>2, <1>4, <1>5

LEMMA PausedIsResumed ==
  ASSUME Snapshots!Resumed, v3' => v3, v12 => v12', v1' => v1,
         \A c \in Snapper : Snapshots!Pauses(c) \/ Snapshots!Resumes(c) =>
           v12' \/ Snapshots!Pauses(c)' \/ Snapshots!Resumes(c)'
  PROVE  Snapshots!Resumed'
  BY DEF Snapshots!Resumed

\* A call that QEMU did not hear of, or that has its answer, takes a step of its own.
LEMMA CallerSteps ==
  ASSUME Snapshots!IInv, NEW c \in Snapper, UNCHANGED <<v1, v3, v11>>, v12' \in BOOLEAN, v12 => v12',
         NEW l \in {"waiting", "sent", "answered", "done"}, NEW o \in Snapshots!Op \cup {"list", "cont"},
         NEW r \in {"none", "ok", "error"}, NEW a \in {"none", "", "error", "listed"},
         v6' = [v6 EXCEPT ![c] = l], v7' = [v7 EXCEPT ![c] = o], v10' = [v10 EXCEPT ![c] = r],
         v9' = [v9 EXCEPT ![c] = a],
         v5' = IF l = "sent" THEN {c} ELSE v5, l = "sent" => v5 = {} /\ v1,
         c \in v5 => l = "done",
         l # "done" => r = "none",
         v1 /\ (o = "list" \/ r = "ok" \/ (l = "answered" /\ o \in Snapshots!Op /\ a # "error")) => v11[c],
         v1 => \/ ~Snapshots!Pauses(c) /\ ~Snapshots!Resumes(c)
               \/ v12' \/ (l \in {"waiting", "sent"} /\ o = "cont")
  PROVE  Snapshots!IInv'
<1>1. Snapshots!TypeOK /\ (\A d \in Snapper : Snapshots!Sound(d)) /\ Snapshots!Resumed
  BY DEF Snapshots!IInv
<1>2. Snapshots!TypeOK'
  BY <1>1 DEF Snapshots!TypeOK
<1>3. v6'[c] = l /\ v7'[c] = o /\ v10'[c] = r /\ v9'[c] = a
  BY <1>1 DEF Snapshots!TypeOK
<1>4. \A d \in Snapper : d # c => v6'[d] = v6[d] /\ v7'[d] = v7[d] /\ v9'[d] = v9[d] /\ v10'[d] = v10[d]
  BY <1>1 DEF Snapshots!TypeOK
<1>5. v1' /\ Snapshots!IsDone(c)' => v11'[c]
  BY <1>3 DEF Snapshots!IsDone
<1>6. c \in v5' => v1' /\ v6'[c] \in {"sent", "done"}
  <2>1. CASE l = "sent"
    BY <1>3, <2>1
  <2>2. CASE l # "sent"
    BY <1>1, <1>3, <2>2 DEF Snapshots!Sound
  <2> QED
    BY <2>1, <2>2
<1>7. Snapshots!Sound(c)'
  BY <1>3, <1>5, <1>6 DEF Snapshots!Sound, Snapshots!Op
<1>8. ASSUME NEW d \in Snapper, d # c
      PROVE  /\ d \in v5' => v1' /\ d \in v5
             /\ v1' /\ v6[d] = "sent" => d \in v5'
  BY <1>1, <1>8 DEF Snapshots!Sound
<1>9. \A d \in Snapper : Snapshots!Sound(d)'
  <2>1. v1' => v1
    OBVIOUS
  <2>2. v1' \in BOOLEAN
    BY <1>2 DEF Snapshots!TypeOK
  <2> QED
    BY <1>4, <1>7, <1>8, <2>1, <2>2, OthersStaySound
<1>10. Snapshots!Resumed'
  <2>1. CASE ~v1
    BY <2>1 DEF Snapshots!Resumed
  <2>2. CASE v1
    <3>1. ASSUME NEW d \in Snapper, Snapshots!Pauses(d) \/ Snapshots!Resumes(d)
          PROVE  v12' \/ Snapshots!Pauses(d)' \/ Snapshots!Resumes(d)'
      <4>1. CASE d = c
        BY <1>3, <2>2, <3>1, <4>1 DEF Snapshots!Resumes
      <4>2. CASE d # c
        BY <1>4, <3>1, <4>2 DEF Snapshots!Resumes, Snapshots!Pauses
      <4> QED
        BY <4>1, <4>2
    <3> QED
      BY <1>1, <3>1, PausedIsResumed
  <2> QED
    BY <2>1, <2>2
<1> QED
  BY <1>2, <1>9, <1>10 DEF Snapshots!IInv

\* Nothing but a failed load pauses the guest, and the answer that resumes it is its own.
LEMMA ServedStep ==
  ASSUME Snapshots!IInv, v1, NEW c \in v5, NEW text \in {"", "error", "listed"},
         Snapshots!Answers(c, text), v7[c] # "cont", UNCHANGED <<v3, v12>>,
         v11' = v11 \/ v11' = [v11 EXCEPT ![c] = TRUE],
         v7[c] \in Snapshots!Op /\ text # "error" => v11' = [v11 EXCEPT ![c] = TRUE]
  PROVE  Snapshots!IInv'
<1>0. Snapshots!TypeOK /\ (\A d \in Snapper : Snapshots!Sound(d)) /\ Snapshots!Resumed /\ c \in Snapper
  BY DEF Snapshots!IInv, Snapshots!TypeOK
<1>1. /\ v11' \in [Snapper -> BOOLEAN] /\ v3' \in BOOLEAN /\ v12' \in BOOLEAN
      /\ \A d \in Snapper : d # c => v11'[d] = v11[d]
      /\ v11[c] => v11'[c]
      /\ v7[c] \in Snapshots!Op /\ text # "error" => v11'[c]
  BY <1>0 DEF Snapshots!TypeOK
<1>2. /\ Snapshots!TypeOK' /\ \A d \in Snapper : Snapshots!Sound(d)'
      /\ \A d \in Snapper : d # c => v6'[d] = v6[d] /\ v7'[d] = v7[d] /\ v9'[d] = v9[d]
      /\ v6[c] \in {"sent", "done"} /\ v1'
  BY <1>1, AnswersRead
<1>3. ~Snapshots!Pauses(c) /\ ~Snapshots!Resumes(c)
  BY <1>2 DEF Snapshots!Pauses, Snapshots!Resumes
<1>4. ASSUME NEW d \in Snapper, Snapshots!Pauses(d) \/ Snapshots!Resumes(d)
      PROVE  Snapshots!Pauses(d)' \/ Snapshots!Resumes(d)'
  <2>1. d # c
    BY <1>3, <1>4
  <2> QED
    BY <1>2, <1>4, <2>1 DEF Snapshots!Pauses, Snapshots!Resumes
<1>5. Snapshots!Resumed'
  BY <1>0, <1>4, PausedIsResumed
<1> QED
  BY <1>2, <1>5 DEF Snapshots!IInv

LEMMA RejectedStep ==
  ASSUME Snapshots!IInv, NEW c \in Snapper, v6[c] \in {"waiting", "sent"},
         UNCHANGED <<v1, v3, v5, v7, v9, v11>>, Snapshots!Rejected(c)
  PROVE  Snapshots!IInv'
<1>0. Snapshots!TypeOK /\ Snapshots!Sound(c)
  BY DEF Snapshots!IInv
<1>1. PICK r \in {"ok", "error"} :
        /\ v6' = [v6 EXCEPT ![c] = "done"] /\ v10' = [v10 EXCEPT ![c] = r]
        /\ r = "ok" => v7[c] = "list"
  BY DEF Snapshots!Rejected, Snapshots!FromDisk, Snapshots!Return, Snapshots!Go
<1>2. /\ v9' = [v9 EXCEPT ![c] = v9[c]] /\ v9[c] \in {"none", "", "error", "listed"}
      /\ v7[c] \in Snapshots!Op \cup {"list", "cont"} /\ v7' = [v7 EXCEPT ![c] = v7[c]]
  BY <1>0 DEF Snapshots!TypeOK, Snapshots!Sound
<1>3. v1 /\ v7[c] = "list" => v11[c]
  BY <1>0 DEF Snapshots!Sound, Snapshots!IsDone
<1>4. v12' = (v12 \/ v7[c] = "cont") /\ v12 \in BOOLEAN
  BY <1>0 DEF Snapshots!Rejected, Snapshots!TypeOK
<1>5. v12' \in BOOLEAN /\ (v12 => v12') /\ (v7[c] = "cont" => v12')
  BY <1>4
<1>6. ~Snapshots!Pauses(c) /\ (Snapshots!Resumes(c) => v12')
  BY <1>5 DEF Snapshots!Pauses, Snapshots!Resumes
<1>7. v1 /\ (v7[c] = "list" \/ r = "ok") => v11[c]
  BY <1>1, <1>3
<1>8. PICK l \in {"waiting", "sent", "answered", "done"}, o \in Snapshots!Op \cup {"list", "cont"},
            a \in {"none", "", "error", "listed"} :
         /\ l = "done" /\ o = v7[c] /\ a = v9[c]
  BY <1>2
<1>9. /\ v6' = [v6 EXCEPT ![c] = l] /\ v7' = [v7 EXCEPT ![c] = o] /\ v9' = [v9 EXCEPT ![c] = a]
       /\ v10' = [v10 EXCEPT ![c] = r] /\ r \in {"none", "ok", "error"}
       /\ v5' = (IF l = "sent" THEN {c} ELSE v5) /\ (l = "sent" => v5 = {} /\ v1)
  BY <1>1, <1>2, <1>8
<1>10. v1 /\ (o = "list" \/ r = "ok" \/ (l = "answered" /\ o \in Snapshots!Op /\ a # "error")) => v11[c]
  BY <1>7, <1>8
<1>11. v1 => (~Snapshots!Pauses(c) /\ ~Snapshots!Resumes(c)) \/ v12' \/ (l \in {"waiting", "sent"} /\ o = "cont")
  BY <1>6
<1> QED
  BY <1>5, <1>8, <1>9, <1>10, <1>11, CallerSteps

LEMMA SnapshotsStep == ASSUME Snapshots!IInv, [Snapshots!Next]_(Snapshots!vars) PROVE Snapshots!IInv'
<1>0. Snapshots!TypeOK /\ (\A d \in Snapper : Snapshots!Sound(d)) /\ Snapshots!Resumed
  BY DEF Snapshots!IInv
<1>1. CASE UNCHANGED Snapshots!vars
  BY <1>1 DEF Snapshots!vars, Snapshots!IInv, Snapshots!TypeOK, Snapshots!Sound, Snapshots!IsDone,
     Snapshots!Resumed, Snapshots!Pauses, Snapshots!Resumes
<1>2. ASSUME NEW c \in Snapper, Snapshots!Begin(c) PROVE Snapshots!IInv'
  <2>1. PICK o \in Snapshots!Op : v7' = [v7 EXCEPT ![c] = o]
    BY <1>2 DEF Snapshots!Begin
  <2>2. /\ v6[c] = "idle" /\ v6' = [v6 EXCEPT ![c] = "waiting"] /\ UNCHANGED <<v1, v3, v5, v9, v10, v11, v12>>
    BY <1>2 DEF Snapshots!Begin, Snapshots!Go
  <2>3. c \notin v5 /\ v10[c] = "none"
    BY <1>0, <2>2 DEF Snapshots!Sound
  <2>4. v9' = [v9 EXCEPT ![c] = v9[c]] /\ v10' = [v10 EXCEPT ![c] = v10[c]] /\ v9[c] \in {"none", "", "error", "listed"}
    BY <1>0, <2>2 DEF Snapshots!TypeOK
  <2>5. ~Snapshots!Pauses(c) /\ ~Snapshots!Resumes(c)
    BY <2>2 DEF Snapshots!Pauses, Snapshots!Resumes
  <2>6. o # "list" /\ v12' \in BOOLEAN
    BY <1>0, <2>2 DEF Snapshots!Op, Snapshots!TypeOK
  <2> QED
    BY <2>1, <2>2, <2>3, <2>4, <2>5, <2>6, CallerSteps
<1>3. ASSUME NEW c \in Snapper, Snapshots!Prompt(c) PROVE Snapshots!IInv'
  <2>1. /\ v6[c] = "waiting" /\ v1 /\ v5 = {} /\ v5' = {c} /\ v6' = [v6 EXCEPT ![c] = "sent"]
        /\ UNCHANGED <<v1, v3, v7, v9, v10, v11, v12>>
    BY <1>3 DEF Snapshots!Prompt, Snapshots!Go
  <2>2. /\ v9' = [v9 EXCEPT ![c] = v9[c]] /\ v10' = [v10 EXCEPT ![c] = v10[c]]
        /\ v7' = [v7 EXCEPT ![c] = v7[c]] /\ v9[c] \in {"none", "", "error", "listed"}
        /\ v7[c] \in Snapshots!Op \cup {"list", "cont"} /\ v12' \in BOOLEAN
    BY <1>0, <2>1 DEF Snapshots!TypeOK, Snapshots!Sound
  <2>3. v10[c] = "none" /\ (v7[c] = "list" => v11[c])
    BY <1>0, <2>1 DEF Snapshots!Sound, Snapshots!IsDone
  <2>4. ~Snapshots!Pauses(c) /\ (Snapshots!Resumes(c) => v7[c] = "cont")
    BY <2>1 DEF Snapshots!Pauses, Snapshots!Resumes
  <2> QED
    <3> DEFINE l == "sent"
    <3>1. l = "sent" /\ v6' = [v6 EXCEPT ![c] = l] /\ v5' = IF l = "sent" THEN {c} ELSE v5
      BY <2>1
    <3>2. c \notin v5 /\ v5 = {} /\ v1 /\ UNCHANGED <<v1, v3, v11>> /\ (v12 => v12')
      BY <2>1
    <3>3. v7[c] = "list" => v11[c]
      BY <2>1, <2>3
    <3>4. (~Snapshots!Pauses(c) /\ ~Snapshots!Resumes(c)) \/ v7[c] = "cont"
      BY <2>4
    <3> QED
      BY <2>2, <2>3, <3>1, <3>2, <3>3, <3>4, CallerSteps
<1>4. ASSUME NEW c \in Snapper, Snapshots!Take(c) PROVE Snapshots!IInv'
  <2>1. v6[c] = "answered" /\ UNCHANGED <<v1, v3, v5, v8, v9, v11, v12>>
    BY <1>4 DEF Snapshots!Take
  <2>2. /\ v9' = [v9 EXCEPT ![c] = v9[c]] /\ v9[c] \in {"none", "", "error", "listed"}
        /\ v7[c] \in Snapshots!Op \cup {"list", "cont"} /\ v12' \in BOOLEAN
        /\ v7 = [v7 EXCEPT ![c] = v7[c]] /\ v10 = [v10 EXCEPT ![c] = v10[c]]
    BY <1>0, <2>1 DEF Snapshots!TypeOK, Snapshots!Sound
  <2>3. v10[c] = "none" /\ c \notin v5
    BY <1>0, <2>1 DEF Snapshots!Sound
  <2>4. v1 /\ (v7[c] = "list" \/ (v7[c] \in Snapshots!Op /\ v9[c] # "error")) => v11[c]
    BY <1>0, <2>1 DEF Snapshots!Sound, Snapshots!IsDone
  <2>5. ~Snapshots!Resumes(c) /\ (Snapshots!Pauses(c) => v7[c] = "load" /\ v9[c] = "error")
    BY <2>1 DEF Snapshots!Pauses, Snapshots!Resumes
  <2>6. CASE v7[c] = "save" /\ v9[c] # "error"
    <3>1. v6' = [v6 EXCEPT ![c] = "waiting"] /\ v7' = [v7 EXCEPT ![c] = "list"] /\ v10' = v10
      BY <1>4, <2>6 DEF Snapshots!Take, Snapshots!Send, Snapshots!Go, Snapshots!IsError
    <3> QED
      BY <2>1, <2>2, <2>3, <2>4, <2>5, <2>6, <3>1, CallerSteps DEF Snapshots!Op
  <2>7. CASE v7[c] = "load" /\ v9[c] = "error"
    <3>1. v6' = [v6 EXCEPT ![c] = "waiting"] /\ v7' = [v7 EXCEPT ![c] = "cont"] /\ v10' = v10
      BY <1>4, <2>7 DEF Snapshots!Take, Snapshots!LoadFailed, Snapshots!Send, Snapshots!Go, Snapshots!IsError
    <3> QED
      BY <2>1, <2>2, <2>3, <2>4, <2>5, <2>7, <3>1, CallerSteps DEF Snapshots!Op
  <2>8. CASE ~(v7[c] = "save" /\ v9[c] # "error") /\ ~(v7[c] = "load" /\ v9[c] = "error")
    <3>1. PICK r \in {"ok", "error"} : /\ v6' = [v6 EXCEPT ![c] = "done"] /\ v7' = v7
                                       /\ v10' = [v10 EXCEPT ![c] = r]
                                       /\ r = "ok" => v7[c] # "cont" /\ (v7[c] # "list" => v9[c] # "error")
      BY <1>4, <2>8 DEF Snapshots!Take, Snapshots!Return, Snapshots!Go, Snapshots!IsError
    <3>2. v1 /\ r = "ok" => v11[c]
      BY <2>2, <2>4, <3>1
    <3>3. ~Snapshots!Pauses(c)
      BY <2>5, <2>8
    <3> QED
      <4>1. v7' = [v7 EXCEPT ![c] = v7[c]] /\ v9' = [v9 EXCEPT ![c] = v9[c]]
            /\ v9[c] \in {"none", "", "error", "listed"} /\ v7[c] \in Snapshots!Op \cup {"list", "cont"}
            /\ v12' \in BOOLEAN
        BY <2>2, <3>1
      <4>2. UNCHANGED <<v1, v3, v5, v11>> /\ (v12 => v12') /\ c \notin v5
        BY <2>1, <2>3
      <4>3. ~Snapshots!Resumes(c) /\ ~Snapshots!Pauses(c)
        BY <2>5, <3>3
      <4>4. v1 /\ v7[c] = "list" => v11[c]
        BY <2>4
      <4> QED
        BY <3>1, <3>2, <4>1, <4>2, <4>3, <4>4, CallerSteps
  <2> QED
    BY <2>6, <2>7, <2>8
<1>5. ASSUME NEW c \in Snapper, Snapshots!Timeout(c) PROVE Snapshots!IInv'
  <2>1. v6[c] \in {"waiting", "sent"} /\ UNCHANGED <<v1, v3, v5, v7, v9, v11>> /\ Snapshots!Rejected(c)
    BY <1>5 DEF Snapshots!Timeout
  <2> QED
    BY <2>1, RejectedStep
<1>6. ASSUME NEW c \in Snapper, Snapshots!Closed(c) PROVE Snapshots!IInv'
  <2>1. v6[c] \in {"waiting", "sent"} /\ UNCHANGED <<v1, v3, v5, v7, v11>> /\ ~v1
    BY <1>6 DEF Snapshots!Closed
  <2>2. CASE v6[c] # "sent"
    BY <1>6, <2>1, <2>2, RejectedStep DEF Snapshots!Closed
  <2>3. CASE v6[c] = "sent"
    <3>1. /\ v6' = [v6 EXCEPT ![c] = "answered"] /\ v9' = [v9 EXCEPT ![c] = ""] /\ UNCHANGED <<v10, v12>>
      BY <1>6, <2>3 DEF Snapshots!Closed, Snapshots!Go
    <3>2. /\ v7[c] \in Snapshots!Op \cup {"list", "cont"} /\ v12' \in BOOLEAN
          /\ v7 = [v7 EXCEPT ![c] = v7[c]] /\ v10 = [v10 EXCEPT ![c] = v10[c]]
      BY <1>0, <2>3, <3>1 DEF Snapshots!TypeOK, Snapshots!Sound
    <3>3. v10[c] = "none" /\ c \notin v5
      BY <1>0, <2>1, <2>3 DEF Snapshots!Sound
    <3> QED
      BY <2>1, <2>3, <3>1, <3>2, <3>3, CallerSteps
  <2> QED
    BY <2>2, <2>3
<1>12. CASE Snapshots!QemuEnds
  <2>1. ~v1' /\ v1' \in BOOLEAN /\ v5' = {} /\ UNCHANGED <<v3, v6, v7, v9, v10, v11, v12>>
    BY <1>12 DEF Snapshots!QemuEnds
  <2>2. Snapshots!TypeOK' /\ Snapshots!Resumed'
    BY <1>0, <2>1 DEF Snapshots!TypeOK, Snapshots!Resumed
  <2>3. \A d \in Snapper : Snapshots!Sound(d)'
    BY <1>0, <2>1 DEF Snapshots!Sound
  <2> QED
    BY <2>2, <2>3 DEF Snapshots!IInv
<1>13. CASE Snapshots!GuestRuns
  BY <1>13 DEF Snapshots!GuestRuns, Snapshots!IInv, Snapshots!TypeOK, Snapshots!Sound, Snapshots!IsDone,
     Snapshots!Resumed, Snapshots!Pauses, Snapshots!Resumes
<1>7. ASSUME NEW c \in Snapper, Snapshots!Savevm(c) PROVE Snapshots!IInv'
  <2>1. PICK text \in {"", "error"} :
          Snapshots!Answers(c, text) /\ (text # "error" => v11' = [v11 EXCEPT ![c] = TRUE])
          /\ (text = "error" => v11' = v11)
    BY <1>7 DEF Snapshots!Savevm, Snapshots!Did
  <2>2. v1 /\ c \in v5 /\ v7[c] = "save" /\ UNCHANGED <<v3, v12>>
    BY <1>7 DEF Snapshots!Savevm
  <2> QED
    BY <2>1, <2>2, ServedStep
<1>8. ASSUME NEW c \in Snapper, Snapshots!Delvm(c) PROVE Snapshots!IInv'
  <2>1. PICK text \in {"", "error"} :
          Snapshots!Answers(c, text) /\ (text # "error" => v11' = [v11 EXCEPT ![c] = TRUE])
          /\ (text = "error" => v11' = v11)
    BY <1>8 DEF Snapshots!Delvm, Snapshots!Did
  <2>2. v1 /\ c \in v5 /\ v7[c] = "delete" /\ UNCHANGED <<v3, v12>>
    BY <1>8 DEF Snapshots!Delvm
  <2> QED
    BY <2>1, <2>2, ServedStep
<1>9. ASSUME NEW c \in Snapper, Snapshots!Info(c) PROVE Snapshots!IInv'
  <2>1. PICK text \in {"", "listed"} : Snapshots!Answers(c, text)
    BY <1>9 DEF Snapshots!Info
  <2>2. v1 /\ c \in v5 /\ v7[c] = "list" /\ UNCHANGED <<v3, v11, v12>>
    BY <1>9 DEF Snapshots!Info
  <2> QED
    BY <2>1, <2>2, ServedStep DEF Snapshots!Op
<1>10. ASSUME NEW c \in Snapper, Snapshots!Cont(c) PROVE Snapshots!IInv'
  <2>1. /\ v1 /\ c \in v5 /\ v7[c] = "cont" /\ UNCHANGED <<v11, v12>> /\ v3' = FALSE
        /\ Snapshots!Answers(c, "")
    BY <1>10 DEF Snapshots!Cont
  <2>2. v11' \in [Snapper -> BOOLEAN] /\ v12' \in BOOLEAN /\ v3' \in BOOLEAN /\ ~v3'
    BY <1>0, <2>1 DEF Snapshots!TypeOK
  <2>3. /\ \A d \in Snapper : d # c => v11'[d] = v11[d]
        /\ v11[c] => v11'[c]
        /\ v7[c] \notin Snapshots!Op
    BY <2>1 DEF Snapshots!Op
  <2>4. Snapshots!TypeOK' /\ \A d \in Snapper : Snapshots!Sound(d)'
    BY <2>1, <2>2, <2>3, AnswersRead
  <2> QED
    BY <2>2, <2>4 DEF Snapshots!IInv, Snapshots!Resumed
<1>11. ASSUME NEW c \in Snapper, Snapshots!Loadvm(c) PROVE Snapshots!IInv'
  <2>1. v1 /\ c \in v5 /\ v7[c] = "load"
    BY <1>11 DEF Snapshots!Loadvm
  <2>2. CASE /\ v11' = [v11 EXCEPT ![c] = TRUE] /\ Snapshots!Answers(c, "") /\ UNCHANGED <<v3, v12>>
    BY <2>1, <2>2, ServedStep
  <2>3. CASE /\ v3' = TRUE /\ Snapshots!Answers(c, "error") /\ v11' = v11
             /\ v12' = (v12 \/ v6[c] # "sent")
    <3>1. v11' \in [Snapper -> BOOLEAN] /\ v12' \in BOOLEAN /\ v3' \in BOOLEAN
      BY <1>0, <2>3 DEF Snapshots!TypeOK
    <3>2. /\ \A d \in Snapper : d # c => v11'[d] = v11[d]
          /\ v11[c] => v11'[c]
      BY <2>3
    <3>3. /\ Snapshots!TypeOK' /\ \A d \in Snapper : Snapshots!Sound(d)'
          /\ v6[c] = "sent" => v6'[c] = "answered" /\ v9'[c] = "error" /\ v7'[c] = v7[c]
      BY <2>1, <2>3, <3>1, <3>2, AnswersRead
    <3>4. v6[c] # "sent" => v12'
      BY <1>0, <2>3 DEF Snapshots!TypeOK
    <3>5. v6[c] = "sent" => Snapshots!Pauses(c)'
      BY <2>1, <3>3 DEF Snapshots!Pauses
    <3> QED
      BY <3>3, <3>4, <3>5 DEF Snapshots!IInv, Snapshots!Resumed
  <2> QED
    BY <1>11, <2>2, <2>3 DEF Snapshots!Loadvm, Snapshots!Did
<1> QED
  BY <1>1, <1>2, <1>3, <1>4, <1>5, <1>6, <1>7, <1>8, <1>9, <1>10, <1>11, <1>12, <1>13
     DEF Snapshots!Next

\* As long as QEMU lives, an operation that returned was carried out, and a failed load
\* leaves the guest running unless the caller gave up on it (channels.ts:77-81;
\* quickchr.ts:1326-1328, 1360-1370): the monitor serves the one call that waits for it.
THEOREM MonitorIsTrue == Guest => []MonitorTellsTheTruth
<1> DEFINE Inv == plays = "monitor" => Snapshots!IInv
<1>1. ASSUME GuestInit PROVE Inv
  BY <1>1, SnapshotsInit DEF GuestInit
<1>2. ASSUME Inv, [GuestNext]_all PROVE Inv'
  <2>1. ASSUME plays' = "monitor" PROVE plays = "monitor" /\ [Snapshots!Next]_(Snapshots!vars)
    BY <1>2, <2>1 DEF GuestNext, Plays, all, slots, Snapshots!vars
  <2> QED
    BY <1>2, <2>1, SnapshotsStep
<1>3. Inv => MonitorTellsTheTruth
  <2> SUFFICES ASSUME Snapshots!IInv PROVE Snapshots!ReturnedWasDone /\ Snapshots!NoGuestIsLeftPaused
    BY DEF MonitorTellsTheTruth
  <2>1. Snapshots!ReturnedWasDone
    BY DEF Snapshots!ReturnedWasDone, Snapshots!IInv, Snapshots!Sound, Snapshots!IsDone
  <2>2. Snapshots!NoGuestIsLeftPaused
    BY DEF Snapshots!NoGuestIsLeftPaused, Snapshots!IInv, Snapshots!Resumed, Snapshots!Pauses,
       Snapshots!Resumes
  <2> QED
    BY <2>1, <2>2
<1> QED
  BY <1>1, <1>2, <1>3, PTL DEF Guest
-----------------------------------------------------------------------------
(* The steps of provisioning *)

LEMMA StepsInit == Steps!Init => Steps!IInv
<1> SUFFICES ASSUME Steps!Init PROVE Steps!IInv
  OBVIOUS
<1>1. Steps!TypeOK
  BY DEF Steps!Init, Steps!TypeOK, Steps!Guests
<1>2. v8 = "none" /\ v3 = "begin" /\ v1.up /\ v1.wants = "none"
  BY DEF Steps!Init
<1> QED
  BY <1>1, <1>2 DEF Steps!IInv, Steps!EffectSeen, Steps!Restarts

\* A step of the caller goes on, fails, or returns with its effect in the guest.
LEMMA CallerMoves ==
  ASSUME v1' \in Steps!Guests, v2' \in StepKinds, v5' \in Nat, v7' \in BOOLEAN,
         \/ v8' = "none" /\ v3' # "end" /\ (v3' = "batch" => Steps!Effect')
         \/ v8' = "failed" /\ v3' = "end"
         \/ v8' = "ok" /\ v3' = "end" /\ Steps!Effect',
         Steps!Restarts'
  PROVE  Steps!IInv'
<1>1. Steps!TypeOK'
  BY DEF Steps!TypeOK
<1>2. Steps!EffectSeen'
  BY DEF Steps!EffectSeen
<1> QED
  BY <1>1, <1>2 DEF Steps!IInv

LEMMA AnswersDrop ==
  ASSUME Steps!IInv, NEW answer, answer # "dropped", NEW a \in Steps!Answers(answer)
  PROVE  a = "dropped" => ~v1.up \/ ~v7
  BY DEF Steps!Answers

\* A poll that ends the wait saw what it waits for.
LEMMA PollEnds ==
  ASSUME Steps!IInv, NEW from, from # "end", NEW good \in BOOLEAN, NEW next, next # "end",
         Steps!Poll(from, "own", good, next)
  PROVE  /\ UNCHANGED <<v1, v2, v5, v6>> /\ v3 = from /\ v7' \in BOOLEAN
         /\ v1 \in Steps!Guests /\ v2 \in StepKinds /\ v5 \in Nat
         /\ \/ v8' = "none" /\ v3' = next /\ good /\ next # "ok" /\ v1.up
            \/ v8' = "none" /\ v3' = v3
            \/ v8' = "failed" /\ v3' = "end"
            \/ v8' = "ok" /\ v3' = "end" /\ good /\ next = "ok" /\ v1.up
<1>1. Steps!TypeOK
  BY DEF Steps!IInv
<1>2. PICK a \in Steps!Answers("own") :
        /\ v7' = (v1.up /\ a = "dropped")
        /\ IF a = "own" /\ good
           THEN IF next = "ok" THEN Steps!Return("ok") ELSE v3' = next /\ UNCHANGED v8
           ELSE IF v4 > 1 THEN UNCHANGED <<v3, v8>> ELSE Steps!Return("failed")
  BY DEF Steps!Poll
<1>3. v3 = from /\ UNCHANGED <<v1, v2, v5, v6>>
  BY DEF Steps!Poll
<1>4. v7' \in BOOLEAN
  BY <1>2
<1>5. v8 = "none" /\ v1 \in Steps!Guests /\ v2 \in StepKinds /\ v5 \in Nat
  BY <1>1, <1>3 DEF Steps!TypeOK
<1>6. a = "own" => v1.up
  BY DEF Steps!Answers
<1>7. CASE a = "own" /\ good
  BY <1>2, <1>3, <1>4, <1>5, <1>6, <1>7 DEF Steps!Return
<1>8. CASE ~(a = "own" /\ good)
  BY <1>2, <1>3, <1>4, <1>5, <1>6, <1>8 DEF Steps!Return
<1> QED
  BY <1>7, <1>8

LEMMA OtherPolls ==
  ASSUME Steps!IInv, NEW from, from # "end", NEW good \in BOOLEAN, NEW next, next # "end",
         Steps!Poll(from, "own", good, next), v2 # "packages",
         from # "batch", good /\ next \in {"ok", "batch"} => Steps!Effect
  PROVE  Steps!IInv'
<1>1. Steps!Restarts'
  BY PollEnds DEF Steps!Restarts
<1>2. v1' \in Steps!Guests /\ v2' \in StepKinds /\ v5' \in Nat /\ v7' \in BOOLEAN
  BY PollEnds
<1>3. good /\ next \in {"ok", "batch"} => Steps!Effect'
  BY PollEnds DEF Steps!Effect
<1>4. \/ v8' = "none" /\ v3' # "end" /\ (v3' = "batch" => Steps!Effect')
      \/ v8' = "failed" /\ v3' = "end"
      \/ v8' = "ok" /\ v3' = "end" /\ Steps!Effect'
  BY <1>3, PollEnds
<1> QED
  BY <1>1, <1>2, <1>4, CallerMoves

\* A step of a call that installs no packages.
LEMMA OtherMoves ==
  ASSUME Steps!IInv, v2 # "packages", v2' = v2, v1' \in Steps!Guests, v5' = v5, v7' \in BOOLEAN,
         \/ v8' = "none" /\ v3' # "end" /\ (v3' = "batch" => Steps!Effect')
         \/ v8' = "failed" /\ v3' = "end"
         \/ v8' = "ok" /\ v3' = "end" /\ Steps!Effect'
  PROVE  Steps!IInv'
  BY CallerMoves DEF Steps!IInv, Steps!TypeOK, Steps!Restarts

LEMMA RouterStep == ASSUME Steps!IInv, Steps!RouterOS PROVE Steps!IInv'
<1> USE DEF Steps!Guests
<1>1. Steps!TypeOK /\ Steps!EffectSeen /\ Steps!Restarts
  BY DEF Steps!IInv
<1>2. UNCHANGED <<v2, v3, v5, v7, v8>>
  BY DEF Steps!RouterOS, Steps!Settle, Steps!Matures, Steps!GoDown, Steps!ComeUp
<1>3. /\ v1' \in Steps!Guests
      /\ v1'.user = "works" \/ v1.user # "works"
      /\ v1'.adminOff = v1.adminOff
      /\ v1'.mode = "new" \/ v1.mode # "new"
      /\ v1'.packages = "active" \/ v1.packages # "active"
      /\ v1'.level = "p1" \/ v1.level # "p1"
      /\ v1'.level # "free" \/ v1.level = "free"
      /\ v1'.key = "listed" \/ v1.key # "listed"
  <2>0. v1 \in Steps!Guests
    BY <1>1 DEF Steps!TypeOK
  <2>1. CASE Steps!Settle
    BY <2>0, <2>1 DEF Steps!Settle
  <2>2. CASE Steps!Matures
    BY <2>0, <2>2 DEF Steps!Matures
  <2>3. CASE Steps!GoDown
    BY <2>0, <2>3 DEF Steps!GoDown
  <2>4. CASE Steps!ComeUp
    <3>1. PICK m \in {v1.mode, "new"} :
            v1' = [v1 EXCEPT !.up = TRUE, !.mode = m, !.wants = "none",
                             !.packages = IF v1.wants = "reboot" THEN "active" ELSE v1.packages]
      BY <2>4 DEF Steps!ComeUp
    <3>2. m \in {"old", "new"} /\ (v1.mode = "new" => m = "new")
      BY <2>0, <3>1
    <3>3. CASE v1.wants = "reboot"
      BY <2>0, <3>1, <3>2, <3>3
    <3>4. CASE v1.wants # "reboot"
      BY <2>0, <3>1, <3>2, <3>4
    <3> QED
      BY <3>3, <3>4
  <2> QED
    BY <2>1, <2>2, <2>3, <2>4 DEF Steps!RouterOS
<1>4. Steps!TypeOK'
  BY <1>1, <1>2, <1>3 DEF Steps!TypeOK
<1>5. Steps!EffectSeen'
  <2> SUFFICES ASSUME v8 = "ok" \/ v3 = "batch" PROVE Steps!Effect'
    BY <1>2 DEF Steps!EffectSeen
  <2>1. Steps!Effect /\ v2 \in {"user", "admin", "mode", "packages", "license", "renewal", "key"}
    BY <1>1, GuestAssumption DEF Steps!EffectSeen, Steps!TypeOK, Steps!GuestStepsAssumption
  <2>2. CASE v2 = "admin"
    BY <1>2, <1>3, <2>1, <2>2 DEF Steps!Effect
  <2>3. CASE v2 # "admin"
    BY <1>2, <1>3, <2>1, <2>3 DEF Steps!Effect
  <2> QED
    BY <2>2, <2>3
<1>6. Steps!Restarts'
  <2>1. CASE v2 # "packages"
    BY <1>2, <2>1 DEF Steps!Restarts
  <2>2. CASE v2 = "packages"
    <3>0. v1 \in Steps!Guests
      BY <1>1 DEF Steps!TypeOK
    <3>1. CASE Steps!Settle
      BY <1>1, <1>2, <2>2, <3>0, <3>1 DEF Steps!Settle, Steps!Restarts, Steps!Rebooted
    <3>2. CASE Steps!Matures
      BY <1>1, <1>2, <2>2, <3>0, <3>2 DEF Steps!Matures, Steps!Restarts, Steps!Rebooted
    <3>3. CASE Steps!GoDown
      BY <1>1, <1>2, <2>2, <3>0, <3>3 DEF Steps!GoDown, Steps!Restarts, Steps!Rebooted
    <3>4. CASE Steps!ComeUp
      <4>1. v1.wants = "reboot"
        BY <1>1, <2>2, <3>4 DEF Steps!ComeUp, Steps!Restarts
      <4>2. v1'.packages = "active" /\ v1'.wants = "none" /\ v1'.up
        BY <3>0, <3>4, <4>1 DEF Steps!ComeUp
      <4> QED
        BY <1>2, <4>2 DEF Steps!Restarts, Steps!Rebooted
    <3> QED
      BY <3>1, <3>2, <3>3, <3>4 DEF Steps!RouterOS
  <2> QED
    BY <2>1, <2>2
<1> QED
  BY <1>4, <1>5, <1>6 DEF Steps!IInv

LEMMA PackagesStep ==
  ASSUME Steps!IInv, Steps!Ready("packages", "reboot") \/ Steps!Reboot \/ Steps!WatchDown \/ Steps!WatchUp
  PROVE  Steps!IInv'
<1>0. Steps!TypeOK /\ Steps!EffectSeen /\ Steps!Restarts /\ v1 \in Steps!Guests /\ v2 \in StepKinds
      /\ v5 \in Nat /\ v7 \in BOOLEAN
  BY DEF Steps!IInv, Steps!TypeOK
<1>1. CASE Steps!Ready("packages", "reboot")
  <2>1. Steps!Poll("begin", "own", TRUE, "reboot") /\ v2 = "packages"
    BY <1>1 DEF Steps!Ready
  <2>2. /\ UNCHANGED <<v1, v2, v5, v6>> /\ v3 = "begin" /\ v7' \in BOOLEAN
        /\ \/ v8' = "none" /\ v3' = "reboot"
           \/ v8' = "none" /\ v3' = v3
           \/ v8' = "failed" /\ v3' = "end"
    <3> DEFINE good == TRUE
               next == "reboot"
               from == "begin"
    <3>1. Steps!Poll(from, "own", good, next) /\ good \in BOOLEAN /\ from = "begin" /\ next = "reboot"
      BY <2>1
    <3> HIDE DEF good, next, from
    <3> QED
      BY <3>1, PollEnds
  <2> QED
    BY <1>0, <2>1, <2>2, CallerMoves DEF Steps!Restarts
<1>2. CASE Steps!Reboot
  <2>1. /\ v2 = "packages" /\ v3 = "reboot" /\ v5' = 0 /\ UNCHANGED <<v2, v4, v6, v7>>
        /\ \/ v8' = "failed" /\ v3' = "end" /\ v1' = v1
           \/ v3' = "down" /\ v8' = v8 /\ v1' \in {v1, [v1 EXCEPT !.wants = "reboot"]}
    <3>1. v2 = "packages" /\ v3 = "reboot" /\ v5' = 0 /\ UNCHANGED <<v2, v4, v6, v7>>
      BY <1>2 DEF Steps!Reboot
    <3>2. CASE Steps!Return("failed") /\ v1' = v1
      BY <3>1, <3>2 DEF Steps!Return
    <3>3. ASSUME NEW x \in BOOLEAN, v1' = [v1 EXCEPT !.wants = IF x THEN "reboot" ELSE @],
                 v3' = "down" /\ UNCHANGED v8
          PROVE  v3' = "down" /\ v8' = v8 /\ v1' \in {v1, [v1 EXCEPT !.wants = "reboot"]}
      <4>1. CASE x
        BY <3>3, <4>1
      <4>2. CASE ~x
        BY <1>0, <3>3, <4>2 DEF Steps!Guests
      <4> QED
        BY <3>3, <4>1, <4>2
    <3> QED
      BY <1>2, <3>1, <3>2, <3>3 DEF Steps!Reboot
  <2>2. v8 = "none"
    BY <1>0, <2>1 DEF Steps!TypeOK
  <2>3. v1' \in Steps!Guests
    BY <1>0, <2>1 DEF Steps!Guests
  <2>4. v1'.wants \in {v1.wants, "reboot"} /\ v1'.up = v1.up /\ (v1'.wants = v1.wants \/ v1'.wants = "reboot")
    BY <1>0, <2>1 DEF Steps!Guests
  <2>5. Steps!Restarts'
    BY <1>0, <2>1, <2>4 DEF Steps!Restarts
  <2> QED
    BY <1>0, <2>1, <2>2, <2>3, <2>5, CallerMoves
<1>3. CASE Steps!WatchDown
  <2>1. PICK a \in Steps!Answers("own") :
          /\ v7' = (v1.up /\ a = "dropped")
          /\ v5' = IF a = "dropped" THEN v5 + 1 ELSE 0
          /\ IF Steps!WentDown(v5') THEN v3' = "up" /\ UNCHANGED v8
             ELSE \/ UNCHANGED <<v3, v8>>
                  \/ Steps!Return("failed")
    BY <1>3 DEF Steps!WatchDown
  <2>2. v2 = "packages" /\ v3 = "down" /\ UNCHANGED <<v1, v2, v6>>
    BY <1>3 DEF Steps!WatchDown
  <2>3. v8 = "none" /\ v5' \in Nat /\ v7' \in BOOLEAN
    BY <1>0, <2>1, <2>2 DEF Steps!TypeOK
  <2>4. v5' > 0 /\ (v5' > 1 \/ ~v7') => Steps!Rebooted
    <3> SUFFICES ASSUME v5' > 0, v5' > 1 \/ ~v7' PROVE Steps!Rebooted
      OBVIOUS
    <3>1. a = "dropped" /\ v5' = v5 + 1
      BY <1>0, <2>1
    <3>2. ~v1.up \/ ~v7
      BY <3>1, AnswersDrop
    <3>3. CASE ~v1.up
      BY <3>3 DEF Steps!Rebooted
    <3>4. CASE v1.up
      <4>1. v7' /\ ~v7
        BY <2>1, <3>1, <3>2, <3>4
      <4>2. v5 > 0
        BY <1>0, <3>1, <4>1
      <4> QED
        BY <1>0, <2>2, <4>1, <4>2 DEF Steps!Restarts
    <3> QED
      BY <3>3, <3>4
  <2>5. Steps!WentDown(v5') => v5' > 1
    BY <2>3, GuestAssumption DEF Steps!GuestStepsAssumption, Steps!WentDown
  <2>6. Steps!Rebooted' = Steps!Rebooted
    BY <2>2 DEF Steps!Rebooted
  <2>7. v3' \in {"up", "down", "end"} /\ (v3' = "up" => Steps!Rebooted)
        /\ ((v8' = "none" /\ v3' # "end") \/ (v8' = "failed" /\ v3' = "end"))
    BY <2>1, <2>2, <2>3, <2>4, <2>5 DEF Steps!Return
  <2>8. Steps!Restarts'
    BY <1>0, <2>2, <2>4, <2>6, <2>7 DEF Steps!Restarts
  <2> QED
    BY <1>0, <2>2, <2>3, <2>7, <2>8, CallerMoves
<1>4. CASE Steps!WatchUp
  <2>1. Steps!Poll("up", "own", TRUE, "ok") /\ v2 = "packages"
    BY <1>4 DEF Steps!WatchUp
  <2>2. /\ UNCHANGED <<v1, v2, v5, v6>> /\ v3 = "up" /\ v7' \in BOOLEAN
        /\ \/ v8' = "none" /\ v3' = v3
           \/ v8' = "failed" /\ v3' = "end"
           \/ v8' = "ok" /\ v3' = "end" /\ v1.up
    BY <2>1, PollEnds
  <2>3. v1.up => Steps!Effect'
    BY <1>0, <2>1, <2>2 DEF Steps!Restarts, Steps!Rebooted, Steps!Effect
  <2>4. Steps!Restarts'
    BY <1>0, <2>2 DEF Steps!Restarts, Steps!Rebooted
  <2> QED
    BY <1>0, <2>2, <2>3, <2>4, CallerMoves
<1> QED
  BY <1>1, <1>2, <1>3, <1>4

\* Waiting for the guest to answer, and seeing what was asked for.
LEMMA PollsStep ==
  ASSUME Steps!IInv,
         \/ Steps!Ready("user", "add")
         \/ Steps!Ready("admin", "find")
         \/ Steps!Ready("mode", "read")
         \/ Steps!SeeUser
         \/ Steps!TryLogin
         \/ Steps!FindAdmin
         \/ Steps!SeeDisabled
         \/ Steps!OwnReboot
         \/ Steps!Back
         \/ Steps!SeeLevel
         \/ Steps!SeeKey
  PROVE  Steps!IInv'
<1>1. CASE Steps!Ready("user", "add")
  <2>1. Steps!Poll("begin", "own", TRUE, "add") /\ v2 = "user"
    BY <1>1 DEF Steps!Ready
  <2> DEFINE good == TRUE
             next == "add"
             from == "begin"
  <2>2. /\ Steps!Poll(from, "own", good, next) /\ good \in BOOLEAN /\ from # "end" /\ from # "batch"
        /\ next # "end" /\ v2 # "packages"
    BY <2>1
  <2>3. good /\ next \in {"ok", "batch"} => Steps!Effect
    BY <2>1 DEF Steps!Effect
  <2> HIDE DEF good, next, from
  <2> QED
    BY <2>2, <2>3, OtherPolls
<1>2. CASE Steps!Ready("admin", "find")
  <2>1. Steps!Poll("begin", "own", TRUE, "find") /\ v2 = "admin"
    BY <1>2 DEF Steps!Ready
  <2> DEFINE good == TRUE
             next == "find"
             from == "begin"
  <2>2. /\ Steps!Poll(from, "own", good, next) /\ good \in BOOLEAN /\ from # "end" /\ from # "batch"
        /\ next # "end" /\ v2 # "packages"
    BY <2>1
  <2>3. good /\ next \in {"ok", "batch"} => Steps!Effect
    BY <2>1 DEF Steps!Effect
  <2> HIDE DEF good, next, from
  <2> QED
    BY <2>2, <2>3, OtherPolls
<1>3. CASE Steps!Ready("mode", "read")
  <2>1. Steps!Poll("begin", "own", TRUE, "read") /\ v2 = "mode"
    BY <1>3 DEF Steps!Ready
  <2> DEFINE good == TRUE
             next == "read"
             from == "begin"
  <2>2. /\ Steps!Poll(from, "own", good, next) /\ good \in BOOLEAN /\ from # "end" /\ from # "batch"
        /\ next # "end" /\ v2 # "packages"
    BY <2>1
  <2>3. good /\ next \in {"ok", "batch"} => Steps!Effect
    BY <2>1 DEF Steps!Effect
  <2> HIDE DEF good, next, from
  <2> QED
    BY <2>2, <2>3, OtherPolls
<1>4. CASE Steps!SeeUser
  <2>1. Steps!Poll("listed", "own", (v1.user \in {"listed", "works"}), "login") /\ v2 = "user"
    BY <1>4 DEF Steps!SeeUser
  <2> DEFINE good == (v1.user \in {"listed", "works"})
             next == "login"
             from == "listed"
  <2>2. /\ Steps!Poll(from, "own", good, next) /\ good \in BOOLEAN /\ from # "end" /\ from # "batch"
        /\ next # "end" /\ v2 # "packages"
    BY <2>1
  <2>3. good /\ next \in {"ok", "batch"} => Steps!Effect
    BY <2>1 DEF Steps!Effect
  <2> HIDE DEF good, next, from
  <2> QED
    BY <2>2, <2>3, OtherPolls
<1>5. CASE Steps!TryLogin
  <2>1. Steps!Poll("login", "own", Steps!LoginAccepted, "ok") /\ v2 = "user"
    BY <1>5 DEF Steps!TryLogin
  <2> DEFINE good == Steps!LoginAccepted
             next == "ok"
             from == "login"
  <2>2. /\ Steps!Poll(from, "own", good, next) /\ good \in BOOLEAN /\ from # "end" /\ from # "batch"
        /\ next # "end" /\ v2 # "packages"
    BY <2>1 DEF Steps!LoginAccepted
  <2>3. good /\ next \in {"ok", "batch"} => Steps!Effect
    BY <2>1 DEF Steps!Effect, Steps!LoginAccepted
  <2> HIDE DEF good, next, from
  <2> QED
    BY <2>2, <2>3, OtherPolls
<1>6. CASE Steps!FindAdmin
  <2>1. Steps!Poll("find", "own", TRUE, "patch") /\ v2 = "admin"
    BY <1>6 DEF Steps!FindAdmin
  <2> DEFINE good == TRUE
             next == "patch"
             from == "find"
  <2>2. /\ Steps!Poll(from, "own", good, next) /\ good \in BOOLEAN /\ from # "end" /\ from # "batch"
        /\ next # "end" /\ v2 # "packages"
    BY <2>1
  <2>3. good /\ next \in {"ok", "batch"} => Steps!Effect
    BY <2>1 DEF Steps!Effect
  <2> HIDE DEF good, next, from
  <2> QED
    BY <2>2, <2>3, OtherPolls
<1>7. CASE Steps!SeeDisabled
  <2>1. v2 = "admin" /\ (Steps!Poll("verify", "own", v1.adminOff, "ok") \/ Steps!AdminRefused)
    BY <1>7 DEF Steps!SeeDisabled
  <2>2. CASE Steps!Poll("verify", "own", v1.adminOff, "ok")
    <3> DEFINE good == v1.adminOff
               next == "ok"
               from == "verify"
    <3>2. /\ Steps!Poll(from, "own", good, next) /\ good \in BOOLEAN /\ from # "end" /\ from # "batch"
          /\ next # "end" /\ v2 # "packages"
      BY <2>1, <2>2 DEF Steps!IInv, Steps!TypeOK, Steps!Guests
    <3>3. good /\ next \in {"ok", "batch"} => Steps!Effect
      BY <2>1 DEF Steps!Effect
    <3> HIDE DEF good, next, from
    <3> QED
      BY <3>2, <3>3, OtherPolls
  <2>3. CASE Steps!AdminRefused
    <3>1. /\ v1.adminOff /\ UNCHANGED <<v1, v2, v5>> /\ v7' = FALSE /\ v8' = "ok" /\ v3' = "end"
      BY <2>3 DEF Steps!AdminRefused, Steps!Return
    <3>2. Steps!Effect' /\ v1' \in Steps!Guests
      BY <2>1, <3>1 DEF Steps!Effect, Steps!IInv, Steps!TypeOK
    <3> QED
      BY <2>1, <3>1, <3>2, OtherMoves
  <2> QED
    BY <2>1, <2>2, <2>3
<1>8. CASE Steps!OwnReboot
  <2>1. Steps!Poll("reboots", "own", TRUE, "early") /\ v2 = "mode"
    BY <1>8 DEF Steps!OwnReboot
  <2> DEFINE good == TRUE
             next == "early"
             from == "reboots"
  <2>2. /\ Steps!Poll(from, "own", good, next) /\ good \in BOOLEAN /\ from # "end" /\ from # "batch"
        /\ next # "end" /\ v2 # "packages"
    BY <2>1
  <2>3. good /\ next \in {"ok", "batch"} => Steps!Effect
    BY <2>1 DEF Steps!Effect
  <2> HIDE DEF good, next, from
  <2> QED
    BY <2>2, <2>3, OtherPolls
<1>9. CASE Steps!Back
  <2>1. Steps!Poll("back", "own", TRUE, "check") /\ v2 = "mode"
    BY <1>9 DEF Steps!Back
  <2> DEFINE good == TRUE
             next == "check"
             from == "back"
  <2>2. /\ Steps!Poll(from, "own", good, next) /\ good \in BOOLEAN /\ from # "end" /\ from # "batch"
        /\ next # "end" /\ v2 # "packages"
    BY <2>1
  <2>3. good /\ next \in {"ok", "batch"} => Steps!Effect
    BY <2>1 DEF Steps!Effect
  <2> HIDE DEF good, next, from
  <2> QED
    BY <2>2, <2>3, OtherPolls
<1>10. CASE Steps!SeeLevel
  <2>1. Steps!Poll("level", "own", (v1.level = "p1"), "ok") /\ v2 = "license"
    BY <1>10 DEF Steps!SeeLevel
  <2> DEFINE good == (v1.level = "p1")
             next == "ok"
             from == "level"
  <2>2. /\ Steps!Poll(from, "own", good, next) /\ good \in BOOLEAN /\ from # "end" /\ from # "batch"
        /\ next # "end" /\ v2 # "packages"
    BY <2>1
  <2>3. good /\ next \in {"ok", "batch"} => Steps!Effect
    BY <2>1 DEF Steps!Effect
  <2> HIDE DEF good, next, from
  <2> QED
    BY <2>2, <2>3, OtherPolls
<1>11. CASE Steps!SeeKey
  <2>1. Steps!Poll("listing", "own", (v1.key = "listed"), "batch") /\ v2 = "key"
    BY <1>11 DEF Steps!SeeKey
  <2> DEFINE good == (v1.key = "listed")
             next == "batch"
             from == "listing"
  <2>2. /\ Steps!Poll(from, "own", good, next) /\ good \in BOOLEAN /\ from # "end" /\ from # "batch"
        /\ next # "end" /\ v2 # "packages"
    BY <2>1
  <2>3. good /\ next \in {"ok", "batch"} => Steps!Effect
    BY <2>1 DEF Steps!Effect
  <2> HIDE DEF good, next, from
  <2> QED
    BY <2>2, <2>3, OtherPolls
<1> QED
  BY <1>1, <1>2, <1>3, <1>4, <1>5, <1>6, <1>7, <1>8, <1>9, <1>10, <1>11

\* The requests that change the guest, and what their answers lead to.
LEMMA RequestsStep ==
  ASSUME Steps!IInv,
         \/ Steps!AddUser \/ Steps!Patch
         \/ Steps!ReadMode \/ Steps!Update \/ Steps!Probe \/ Steps!CheckEarly
         \/ Steps!PowerCycle \/ Steps!Verify
         \/ Steps!LicenseApi \/ Steps!Renew \/ Steps!AddKey \/ Steps!BatchLogin
  PROVE  Steps!IInv'
<1>0. /\ Steps!TypeOK /\ v1 \in Steps!Guests /\ v7 \in BOOLEAN
      /\ v3 # "end" => v8 = "none"
  BY DEF Steps!IInv, Steps!TypeOK
<1>1. CASE Steps!AddUser
  <2>1. /\ v2 = "user" /\ v3 = "add" /\ v2' = v2 /\ v5' = v5 /\ v7' \in BOOLEAN
        /\ \/ v1' = [v1 EXCEPT !.user = "added"] /\ v3' = "listed" /\ v8' = v8
           \/ v1' = v1 /\ v8' = "failed" /\ v3' = "end"
    BY <1>1 DEF Steps!AddUser, Steps!Post, Steps!Return
  <2>2. v1' \in Steps!Guests
    BY <1>0, <2>1 DEF Steps!Guests
  <2> QED
    BY <1>0, <2>1, <2>2, OtherMoves
<1>2. CASE Steps!Patch
  <2>1. v2 = "admin" /\ v3 = "patch" /\ UNCHANGED <<v2, v5, v7>>
    BY <1>2 DEF Steps!Patch
  <2>2. \/ v8' = "failed" /\ v3' = "end" /\ v1' = v1
        \/ \E done \in BOOLEAN : /\ v1' = [v1 EXCEPT !.adminOff = done]
                                 /\ \/ v8' = "ok" /\ v3' = "end" /\ done
                                    \/ v8' = v8 /\ v3' = "verify"
    BY <1>2 DEF Steps!Patch, Steps!Return
  <2>3. CASE v8' = "failed" /\ v3' = "end" /\ v1' = v1
    BY <1>0, <2>1, <2>3, OtherMoves
  <2>4. ASSUME NEW done \in BOOLEAN, v1' = [v1 EXCEPT !.adminOff = done],
               (v8' = "ok" /\ v3' = "end" /\ done) \/ (v8' = v8 /\ v3' = "verify")
        PROVE  Steps!IInv'
    <3>1. v1' \in Steps!Guests /\ v1'.adminOff = done
      BY <1>0, <2>4 DEF Steps!Guests
    <3>2. done => Steps!Effect'
      BY <2>1, <3>1 DEF Steps!Effect
    <3> QED
      BY <1>0, <2>1, <2>4, <3>1, <3>2, OtherMoves
  <2> QED
    BY <2>2, <2>3, <2>4
<1>3. CASE Steps!ReadMode
  <2>1. /\ v2 = "mode" /\ v3 = "read" /\ UNCHANGED <<v1, v2, v5>> /\ v7' \in BOOLEAN
        /\ \/ v8' = "ok" /\ v3' = "end" /\ Steps!Activated
           \/ v8' = v8 /\ v3' = "update"
    BY <1>3 DEF Steps!ReadMode, Steps!Return
  <2>2. Steps!Activated => Steps!Effect'
    BY <2>1 DEF Steps!Activated, Steps!Effect
  <2> QED
    BY <1>0, <2>1, <2>2, OtherMoves
<1>4. CASE Steps!Update
  <2>1. v2 = "mode" /\ v3 = "update" /\ UNCHANGED <<v2, v5, v7>>
    BY <1>4 DEF Steps!Update
  <2>2. \/ v8' = "failed" /\ v3' = "end" /\ v1' = v1
        \/ \E w \in {"none", "confirm", "ownReboot"} :
             v1' = [v1 EXCEPT !.wants = w] /\ v3' \in {"cycle", "settle"} /\ v8' = v8
    BY <1>4 DEF Steps!Update, Steps!UpdateLeaves, Steps!Return
  <2>3. v1' \in Steps!Guests
    BY <1>0, <2>2 DEF Steps!Guests
  <2> QED
    BY <1>0, <2>1, <2>2, <2>3, OtherMoves
<1>5. CASE Steps!Probe
  <2>1. /\ v2 = "mode" /\ v3 = "settle" /\ UNCHANGED <<v1, v2, v5, v8>> /\ v7' \in BOOLEAN
        /\ v3' \in {"reboots", "early"}
    BY <1>5 DEF Steps!Probe
  <2> QED
    BY <1>0, <2>1, OtherMoves
<1>6. CASE Steps!CheckEarly
  <2>1. /\ v2 = "mode" /\ v3 = "early" /\ UNCHANGED <<v1, v2, v5>> /\ v7' \in BOOLEAN
        /\ \/ v8' = "ok" /\ v3' = "end" /\ Steps!Activated
           \/ v8' = "failed" /\ v3' = "end"
           \/ v8' = v8 /\ v3' = "update"
    BY <1>6 DEF Steps!CheckEarly, Steps!Return
  <2>2. Steps!Activated => Steps!Effect'
    BY <2>1 DEF Steps!Activated, Steps!Effect
  <2> QED
    BY <1>0, <2>1, <2>2, OtherMoves
<1>7. CASE Steps!PowerCycle
  <2>1. /\ v2 = "mode" /\ v3 = "cycle" /\ UNCHANGED <<v2, v5, v7, v8>> /\ v3' = "back"
        /\ v1' = [v1 EXCEPT !.up = FALSE, !.settled = FALSE,
                            !.wants = IF v1.wants = "confirm" THEN "confirmed" ELSE v1.wants]
    BY <1>7 DEF Steps!PowerCycle
  <2>2. v1' \in Steps!Guests
    <3>1. CASE v1.wants = "confirm"
      BY <1>0, <2>1, <3>1 DEF Steps!Guests
    <3>2. CASE v1.wants # "confirm"
      BY <1>0, <2>1, <3>2 DEF Steps!Guests
    <3> QED
      BY <3>1, <3>2
  <2> QED
    BY <1>0, <2>1, <2>2, OtherMoves
<1>8. CASE Steps!Verify
  <2>1. /\ v2 = "mode" /\ v3 = "check" /\ UNCHANGED <<v1, v2, v5>> /\ v7' \in BOOLEAN
        /\ \/ v8' = "ok" /\ v3' = "end" /\ Steps!Activated
           \/ v8' = "failed" /\ v3' = "end"
    BY <1>8 DEF Steps!Verify, Steps!Return
  <2>2. Steps!Activated => Steps!Effect'
    BY <2>1 DEF Steps!Activated, Steps!Effect
  <2> QED
    BY <1>0, <2>1, <2>2, OtherMoves
<1>9. CASE Steps!LicenseApi
  <2>1. /\ v2 \in {"license", "renewal"} /\ v3 = "begin" /\ UNCHANGED <<v1, v2, v5, v8>>
        /\ v7' \in BOOLEAN /\ v3' \in {"begin", "renew"}
    BY <1>9 DEF Steps!LicenseApi, Steps!OfLicense
  <2> QED
    BY <1>0, <2>1, OtherMoves
<1>10. CASE Steps!Renew
  <2>1. v2 \in {"license", "renewal"} /\ v3 = "renew" /\ UNCHANGED <<v2, v5, v7>>
    BY <1>10 DEF Steps!Renew, Steps!OfLicense
  <2>2. \/ v1' = v1 /\ v8' = "failed" /\ v3' = "end"
        \/ v1' = v1 /\ v8' = v8 /\ v3' = "renew"
        \/ \E level \in {"granted", "asked"} :
             /\ v1' = [v1 EXCEPT !.level = level]
             /\ \/ v2 = "renewal" /\ v8' = "ok" /\ v3' = "end"
                \/ v8' = v8 /\ v3' = "level"
    BY <1>10 DEF Steps!Renew, Steps!Classified, Steps!Return
  <2>3. CASE v1' = v1 /\ v8' = "failed" /\ v3' = "end"
    BY <1>0, <2>1, <2>3, OtherMoves
  <2>4. CASE v1' = v1 /\ v8' = v8 /\ v3' = "renew"
    BY <1>0, <2>1, <2>4, OtherMoves
  <2>5. ASSUME NEW level \in {"granted", "asked"}, v1' = [v1 EXCEPT !.level = level],
               (v2 = "renewal" /\ v8' = "ok" /\ v3' = "end") \/ (v8' = v8 /\ v3' = "level")
        PROVE  Steps!IInv'
    <3>1. v1' \in Steps!Guests /\ v1'.level # "free"
      BY <1>0, <2>5 DEF Steps!Guests
    <3>2. v2 = "renewal" => Steps!Effect'
      BY <2>1, <3>1 DEF Steps!Effect
    <3> QED
      BY <1>0, <2>1, <2>5, <3>1, <3>2, OtherMoves
  <2> QED
    BY <2>2, <2>3, <2>4, <2>5
<1>11. CASE Steps!AddKey
  <2>1. /\ v2 = "key" /\ v3 = "begin" /\ UNCHANGED <<v2, v5, v7>>
        /\ \/ v8' = "failed" /\ v3' = "end" /\ v1' = v1
           \/ v1' = [v1 EXCEPT !.key = "added"] /\ v3' = "listing" /\ v8' = v8
    BY <1>11 DEF Steps!AddKey, Steps!Return
  <2>2. v1' \in Steps!Guests
    BY <1>0, <2>1 DEF Steps!Guests
  <2> QED
    BY <1>0, <2>1, <2>2, OtherMoves
<1>12. CASE Steps!BatchLogin
  <2>1. /\ v2 = "key" /\ v3 = "batch" /\ UNCHANGED <<v1, v2, v5, v7>> /\ v8' = "ok" /\ v3' = "end"
    BY <1>12 DEF Steps!BatchLogin, Steps!Return
  <2>2. Steps!Effect'
    BY <2>1 DEF Steps!IInv, Steps!EffectSeen, Steps!Effect
  <2> QED
    BY <1>0, <2>1, <2>2, OtherMoves
<1> QED
  BY <1>1, <1>2, <1>3, <1>4, <1>5, <1>6, <1>7, <1>8, <1>9, <1>10, <1>11, <1>12

LEMMA StepsStep == ASSUME Steps!IInv, [Steps!Next]_(Steps!vars) PROVE Steps!IInv'
<1>1. CASE UNCHANGED Steps!vars
  BY <1>1 DEF Steps!vars, Steps!IInv, Steps!TypeOK, Steps!EffectSeen, Steps!Effect, Steps!Restarts,
     Steps!Rebooted
<1>2. CASE Steps!RouterOS
  BY <1>2, RouterStep
<1>3. CASE Steps!Caller
  BY <1>3, PackagesStep, PollsStep, RequestsStep DEF Steps!Caller, Steps!Begin
<1> QED
  BY <1>1, <1>2, <1>3 DEF Steps!Next
(* The device mode *)

LEMMA ModeInit == Mode!Init => Mode!IInv
<1> SUFFICES ASSUME Mode!Init PROVE Mode!IInv
  OBVIOUS
<1> USE GuestAssumption DEF Mode!DeviceModeAssumption
<1>1. /\ v1 = [mode |-> "rose", on |-> {}] /\ v2 \in Mode!Request \cup {Mode!Nothing} /\ v3 = "open"
      /\ v4 = Mode!Nothing /\ v5 = "idle" /\ v6 = [f \in Features |-> "unset"] /\ v7 = {} /\ v8 = 0
  BY DEF Mode!Init, Mode!FactoryGuest, Mode!Untold
<1>2. Mode!TypeOK
  BY <1>1 DEF Mode!TypeOK, Mode!Nothing, Mode!Records, Mode!Request
<1>3. Mode!RecordKept /\ Mode!CallKept /\ Mode!WindowKept
  BY <1>1 DEF Mode!RecordKept, Mode!CallKept, Mode!Open, Mode!WindowKept
<1> QED
  BY <1>2, <1>3 DEF Mode!IInv

LEMMA ModeResolved ==
  ASSUME NEW r \in Mode!Request \cup Mode!Records, ~Mode!Skipped(r)
  PROVE  /\ Mode!Resolved(r) \in Mode!Records
         /\ Mode!Resolved(r).mode \in Modes
         /\ Mode!Resolved(r).enable \cap Mode!Resolved(r).disable = {}
<1> USE GuestAssumption DEF Mode!DeviceModeAssumption, Mode!Skipped, Mode!Request, Mode!Records
<1> DEFINE m == IF r.mode = "auto" THEN "rose" ELSE r.mode
<1>1. m \in Modes
  OBVIOUS
<1>2. r.enable \in SUBSET Features /\ r.disable \in SUBSET Features
  OBVIOUS
<1>3. Mode!Resolved(r) = [mode |-> m, enable |-> r.enable \ r.disable, disable |-> r.disable]
  BY DEF Mode!Resolved
<1> HIDE DEF m
<1> QED
  BY <1>1, <1>2, <1>3

LEMMA ModeMerged ==
  ASSUME NEW old \in Mode!Records, NEW new \in Mode!Records, new.enable \cap new.disable = {}
  PROVE  /\ Mode!Merged(old, new) \in Mode!Records
         /\ Mode!Merged(old, new).mode = new.mode
         /\ \A f \in Features :
              /\ f \in Mode!Merged(old, new).enable <=> f \in new.enable \/ (f \in old.enable /\ f \notin new.disable)
              /\ f \in Mode!Merged(old, new).disable <=> f \in new.disable \/ (f \in old.disable /\ f \notin new.enable)
  BY DEF Mode!Merged, Mode!Records

\* How the code reads a record of the machine's.
LEMMA ModeSelection ==
  ASSUME NEW r \in Mode!Records
  PROVE  /\ Mode!Skipped(r) => Mode!Selection(r).enable = {} /\ Mode!Selection(r).disable = {}
         /\ ~Mode!Skipped(r) => /\ Mode!Selection(r) = Mode!Resolved(r)
                                /\ Mode!Selection(r).enable = r.enable \ r.disable
                                /\ Mode!Selection(r).disable = r.disable
         /\ r.mode \in Modes => ~Mode!Skipped(r) /\ Mode!Selection(r).mode = r.mode
<1> USE GuestAssumption DEF Mode!DeviceModeAssumption, Mode!Records
<1>1. /\ Mode!Resolved(r).enable = r.enable \ r.disable /\ Mode!Resolved(r).disable = r.disable
      /\ r.mode \in Modes => Mode!Resolved(r).mode = r.mode
  BY DEF Mode!Resolved
<1>2. r.mode \in Modes => ~Mode!Skipped(r)
  BY DEF Mode!Skipped
<1>3. Mode!Nothing.enable = {} /\ Mode!Nothing.disable = {}
  BY DEF Mode!Nothing
<1> QED
  BY <1>1, <1>2, <1>3 DEF Mode!Selection

\* A call begins with a request that asks for something, and nothing is told yet.
LEMMA ModeBegins ==
  ASSUME Mode!IInv, v5 = "idle", UNCHANGED <<v1, v2, v6, v7>>,
         NEW r \in Mode!Request \cup Mode!Records, ~Mode!Skipped(r), Mode!Tell(r),
         v3' \in {"first", "shut", "ran"}, v3' = "ran" <=> v3 = "ran", v3' = "first" => v7 = {}
  PROVE  Mode!IInv'
<1>0. Mode!TypeOK /\ Mode!RecordKept /\ Mode!CallKept
  BY DEF Mode!IInv
<1>1. v4' = Mode!Resolved(r) /\ v5' = "telling"
  BY DEF Mode!Tell
<1>2. v4' \in Mode!Records /\ v4'.mode \in Modes /\ v4'.enable \cap v4'.disable = {}
  BY <1>1, ModeResolved
<1>3. Mode!TypeOK'
  BY <1>0, <1>1, <1>2 DEF Mode!TypeOK
<1>4. Mode!Open' = Mode!Open
  BY <1>1 DEF Mode!Open
<1>5. Mode!RecordKept'
  BY <1>0, <1>4 DEF Mode!RecordKept, Mode!SaysOf
<1>6. Mode!CallKept' /\ Mode!WindowKept'
  BY <1>1 DEF Mode!CallKept, Mode!WindowKept
<1> QED
  BY <1>3, <1>5, <1>6 DEF Mode!IInv

LEMMA ModeFirstBoot == ASSUME Mode!IInv, Mode!FirstBoot PROVE Mode!IInv'
<1>0. Mode!TypeOK /\ Mode!RecordKept /\ Mode!CallKept /\ Mode!WindowKept
  BY DEF Mode!IInv
<1>1. v5 = "idle" /\ v3 = "open" /\ UNCHANGED <<v1, v2, v6, v7>>
  BY DEF Mode!FirstBoot
<1>2. PICK r \in Mode!Request \cup {Mode!Nothing} :
        LET pending == IF r = Mode!Nothing THEN v2 ELSE r IN
        \/ ~Mode!Skipped(pending) /\ v3' = "first" /\ Mode!Tell(pending)
        \/ Mode!Skipped(pending) /\ v3' = "shut" /\ UNCHANGED <<v4, v5>>
  BY DEF Mode!FirstBoot
<1> DEFINE pending == IF r = Mode!Nothing THEN v2 ELSE r
<1>3. pending \in Mode!Request \cup Mode!Records
  BY <1>0, <1>2 DEF Mode!TypeOK
<1>4. CASE ~Mode!Skipped(pending) /\ v3' = "first" /\ Mode!Tell(pending)
  <2>1. v7 = {}
    BY <1>0, <1>1 DEF Mode!WindowKept
  <2> HIDE DEF pending
  <2> QED
    BY <1>1, <1>3, <1>4, <2>1, ModeBegins
<1>5. CASE v3' = "shut" /\ UNCHANGED <<v4, v5>>
  <2>1. Mode!TypeOK'
    BY <1>0, <1>1, <1>5 DEF Mode!TypeOK
  <2>2. Mode!RecordKept' /\ Mode!CallKept' /\ Mode!WindowKept'
    BY <1>0, <1>1, <1>5 DEF Mode!RecordKept, Mode!CallKept, Mode!WindowKept, Mode!Open
  <2> QED
    BY <2>1, <2>2 DEF Mode!IInv
<1> QED
  BY <1>2, <1>4, <1>5

LEMMA ModeConfirm == ASSUME Mode!IInv, Mode!Confirm PROVE Mode!IInv'
<1>0. Mode!TypeOK /\ Mode!RecordKept /\ Mode!CallKept /\ Mode!WindowKept
  BY DEF Mode!IInv
<1>1. /\ v5 = "telling" /\ v5' = "told" /\ UNCHANGED <<v2, v3, v4, v7>>
  BY DEF Mode!Confirm
<1>2. PICK taken \in {v4, [v4 EXCEPT !.enable = {}]} :
        /\ v1' = [mode |-> v4.mode, on |-> (v1.on \ taken.disable) \cup taken.enable]
        /\ v6' = [f \in Features |-> IF f \in taken.enable THEN "yes"
                                     ELSE IF f \in taken.disable THEN "no" ELSE v6[f]]
  BY DEF Mode!Confirm
<1>3. v4 \in Mode!Records /\ v4.mode \in Modes /\ v4.enable \cap v4.disable = {}
  BY <1>0, <1>1 DEF Mode!TypeOK
<1>4. taken.disable = v4.disable /\ taken.enable \subseteq v4.enable
  BY <1>3 DEF Mode!Records
<1>5. v4.enable \in SUBSET Features /\ v4.disable \in SUBSET Features
  BY <1>3 DEF Mode!Records
<1>6. v1'.mode = v4.mode /\ v1'.on = (v1.on \ taken.disable) \cup taken.enable
  BY <1>2
<1>7. v1' \in [mode : Modes, on : SUBSET Features] /\ v6' \in [Features -> {"unset", "yes", "no"}]
  BY <1>0, <1>2, <1>3, <1>4, <1>5 DEF Mode!TypeOK
<1>8. v1'.on = {f \in Features : v6'[f] = "yes"}
  BY <1>0, <1>2, <1>3, <1>4, <1>5, <1>6 DEF Mode!TypeOK
<1>9. Mode!TypeOK'
  BY <1>0, <1>1, <1>7, <1>8 DEF Mode!TypeOK
<1>10. \A f \in Features : f \notin Mode!Named => v6'[f] = v6[f]
  BY <1>2, <1>4, <1>5 DEF Mode!Named
<1>11. Mode!RecordKept'
  <2>1. Mode!Open' = v7 \cup Mode!Named /\ Mode!Open = v7 /\ "mode" \in Mode!Named
    BY <1>1 DEF Mode!Open, Mode!Named
  <2>2. \A f \in Features \ Mode!Open' : v6'[f] = v6[f] /\ f \notin Mode!Open
    BY <1>10, <2>1
  <2> QED
    BY <1>0, <1>1, <2>1, <2>2 DEF Mode!RecordKept, Mode!SaysOf
<1>12. \A f \in v4.disable : v6'[f] = "no"
  BY <1>2, <1>3, <1>4, <1>5
<1>13. Mode!CallKept' /\ Mode!WindowKept'
  BY <1>0, <1>1, <1>6, <1>12 DEF Mode!CallKept, Mode!WindowKept
<1> QED
  BY <1>9, <1>11, <1>13 DEF Mode!IInv

LEMMA ModeCheck == ASSUME Mode!IInv, Mode!Check PROVE Mode!IInv'
<1>0. Mode!TypeOK /\ Mode!RecordKept /\ Mode!CallKept /\ Mode!WindowKept
  BY DEF Mode!IInv
<1>1. v5 = "told" /\ UNCHANGED <<v1, v2, v3, v4, v6, v7>> /\ v5' = "checked" /\ Mode!Verified
  BY DEF Mode!Check
<1>2. Mode!TypeOK'
  BY <1>0, <1>1 DEF Mode!TypeOK
<1>3. Mode!Open' = Mode!Open
  BY <1>1 DEF Mode!Open, Mode!Named
<1>4. Mode!RecordKept'
  BY <1>0, <1>1, <1>3 DEF Mode!RecordKept, Mode!SaysOf
<1>5. \A f \in v4.enable : v6[f] = "yes"
  BY <1>0, <1>1 DEF Mode!TypeOK, Mode!Verified
<1>6. Mode!CallKept' /\ Mode!WindowKept'
  BY <1>0, <1>1, <1>5 DEF Mode!CallKept, Mode!WindowKept
<1> QED
  BY <1>2, <1>4, <1>6 DEF Mode!IInv

\* What the guest was told of the features a checked request names.
LEMMA ModeChecked ==
  ASSUME Mode!IInv, v5 = "checked", NEW f \in Features, f \in v4.enable \cup v4.disable
  PROVE  (f \in v4.enable <=> v6[f] = "yes") /\ (f \in v4.disable <=> v6[f] = "no")
  BY DEF Mode!IInv, Mode!CallKept

LEMMA ModeSaveRecord == ASSUME Mode!IInv, Mode!SaveRecord PROVE Mode!IInv'
<1>0. Mode!TypeOK /\ Mode!RecordKept /\ Mode!CallKept /\ Mode!WindowKept
  BY DEF Mode!IInv
<1>1. /\ v5 = "checked" /\ v5' = "saved" /\ UNCHANGED <<v1, v3, v4, v6, v7>> /\ v3 # "first"
      /\ v2' = Mode!Merged(Mode!Confirmed, v4)
  BY DEF Mode!SaveRecord
<1>2. /\ Mode!Confirmed \in Mode!Records /\ v2 \in Mode!Records
      /\ v4 \in Mode!Records /\ v4.mode \in Modes /\ v4.enable \cap v4.disable = {}
  BY <1>0, <1>1 DEF Mode!TypeOK, Mode!Confirmed, Mode!Nothing, Mode!Records
<1>3. /\ v2' \in Mode!Records /\ v2'.mode = v4.mode
      /\ \A f \in Features :
            /\ f \in v2'.enable <=> f \in v4.enable \/ (f \in Mode!Confirmed.enable /\ f \notin v4.disable)
            /\ f \in v2'.disable <=> f \in v4.disable \/ (f \in Mode!Confirmed.disable /\ f \notin v4.enable)
  BY <1>1, <1>2, ModeMerged
<1>4. Mode!TypeOK'
  BY <1>0, <1>1, <1>3 DEF Mode!TypeOK
<1>5. /\ ~Mode!Skipped(v2') /\ Mode!Selection(v2').mode = v4.mode
      /\ Mode!Selection(v2').enable = v2'.enable \ v2'.disable /\ Mode!Selection(v2').disable = v2'.disable
  BY <1>2, <1>3, ModeSelection
<1>6. v1.mode = v4.mode /\ v4.enable \cup v4.disable \subseteq Features
  BY <1>0, <1>1, <1>2 DEF Mode!CallKept, Mode!Records
<1>7. ASSUME NEW f \in Features, f \in v4.enable \cup v4.disable \/ f \notin v7
      PROVE  (f \in Mode!Selection(v2').enable <=> v6[f] = "yes") /\ (f \in Mode!Selection(v2').disable <=> v6[f] = "no")
  <2>1. CASE f \in v4.enable \cup v4.disable
    BY <1>1, <1>2, <1>3, <1>5, <2>1, ModeChecked
  <2>2. CASE f \notin v4.enable /\ f \notin v4.disable
    <3>1. /\ f \in Mode!Selection(v2').enable <=> f \in Mode!Confirmed.enable \ Mode!Confirmed.disable
          /\ f \in Mode!Selection(v2').disable <=> f \in Mode!Confirmed.disable
      BY <1>3, <1>5, <2>2
    <3>2. f \notin Mode!Open
      BY <1>1, <1>7, <2>2, GuestAssumption DEF Mode!Open, Mode!Named, Mode!DeviceModeAssumption
    <3>3. CASE v3 = "ran" /\ ~Mode!Skipped(v2)
      <4>1. Mode!SaysOf(f)
        BY <1>0, <3>2, <3>3 DEF Mode!RecordKept
      <4>2. Mode!Selection(v2).enable = v2.enable \ v2.disable /\ Mode!Selection(v2).disable = v2.disable
        BY <1>2, <3>3, ModeSelection
      <4>3. Mode!Confirmed = v2
        BY <3>3 DEF Mode!Confirmed
      <4> QED
        BY <3>1, <4>1, <4>2, <4>3 DEF Mode!SaysOf
    <3>4. CASE v3 = "ran" /\ Mode!Skipped(v2)
      <4>1. f \notin v2.enable /\ f \notin v2.disable /\ Mode!SaysOf(f)
        BY <1>0, <3>2, <3>4 DEF Mode!RecordKept
      <4>2. Mode!Selection(v2).enable = {} /\ Mode!Selection(v2).disable = {}
        BY <1>2, <3>4, ModeSelection
      <4>3. Mode!Confirmed = v2
        BY <3>4 DEF Mode!Confirmed
      <4> QED
        BY <3>1, <4>1, <4>2, <4>3 DEF Mode!SaysOf
    <3>5. CASE v3 # "ran"
      <4>1. v6[f] = "unset"
        BY <1>0, <3>2, <3>5 DEF Mode!RecordKept
      <4>2. Mode!Confirmed.enable = {} /\ Mode!Confirmed.disable = {}
        BY <3>5 DEF Mode!Confirmed, Mode!Nothing
      <4> QED
        BY <3>1, <4>1, <4>2
    <3> QED
      BY <3>3, <3>4, <3>5
  <2> QED
    BY <2>1, <2>2
<1>8. ASSUME NEW f \in Features, f \in v4.enable \cup v4.disable \/ f \notin v7
      PROVE  Mode!SaysOf(f)'
  BY <1>1, <1>7, <1>8 DEF Mode!SaysOf
<1>9. Mode!CallKept'
  <2>1. \A f \in Features : f \in Mode!Named' \/ f \notin v7' => Mode!SaysOf(f)'
    BY <1>1, <1>8, GuestAssumption DEF Mode!Named, Mode!DeviceModeAssumption
  <2> QED
    BY <1>0, <1>1, <1>3, <2>1 DEF Mode!CallKept
<1>10. Mode!RecordKept'
  <2>1. \A f \in Features \ Mode!Open' : v3' = "ran" => Mode!SaysOf(f)'
    BY <1>1, <1>8 DEF Mode!Open
  <2>2. \A f \in Features \ Mode!Open' : v3' # "ran" => v6'[f] = "unset"
    BY <1>0, <1>1 DEF Mode!RecordKept, Mode!Open, Mode!Named
  <2> QED
    BY <1>1, <1>5, <1>6, <2>1, <2>2 DEF Mode!RecordKept
<1>11. Mode!WindowKept'
  BY <1>0, <1>1 DEF Mode!WindowKept
<1> QED
  BY <1>4, <1>9, <1>10, <1>11 DEF Mode!IInv

LEMMA ModeSaveStep == ASSUME Mode!IInv, Mode!SaveStep PROVE Mode!IInv'
<1>0. Mode!TypeOK /\ Mode!RecordKept /\ Mode!CallKept /\ Mode!WindowKept
  BY DEF Mode!IInv
<1>1. v5 = "saved" /\ v5' = "idle" /\ v3' = "ran" /\ v7' = v7 \ Mode!Named /\ UNCHANGED <<v1, v2, v4, v6>>
  BY DEF Mode!SaveStep
<1>2. Mode!TypeOK'
  BY <1>0, <1>1 DEF Mode!TypeOK
<1>3. Mode!CallKept' /\ Mode!WindowKept'
  BY <1>1 DEF Mode!CallKept, Mode!WindowKept
<1>4. ~Mode!Skipped(v2') /\ Mode!Selection(v2').mode = v1'.mode
  <2>1. v2 \in Mode!Records /\ v2.mode = v4.mode /\ v4.mode \in Modes /\ v1.mode = v4.mode
    BY <1>0, <1>1 DEF Mode!CallKept, Mode!TypeOK
  <2> QED
    BY <1>1, <2>1, ModeSelection
<1>5. \A f \in Features \ v7' : Mode!SaysOf(f)'
  BY <1>0, <1>1 DEF Mode!CallKept, Mode!SaysOf
<1>6. v3' = "ran" /\ Mode!Open' = v7'
  BY <1>1 DEF Mode!Open
<1> QED
  BY <1>2, <1>3, <1>4, <1>5, <1>6 DEF Mode!IInv, Mode!RecordKept

LEMMA ModeRecordProvisioning == ASSUME Mode!IInv, Mode!RecordProvisioning PROVE Mode!IInv'
<1>0. Mode!TypeOK /\ Mode!RecordKept /\ Mode!CallKept /\ Mode!WindowKept
  BY DEF Mode!IInv
<1>1. /\ v5 = "checked" /\ v5' = "idle" /\ v3 = "first" /\ v3' = "ran" /\ UNCHANGED <<v1, v2, v4, v6>>
      /\ v7' = IF Mode!Overridden THEN v7 \cup Mode!Named \cup v2.enable \cup v2.disable ELSE v7 \ Mode!Named
  BY DEF Mode!RecordProvisioning
<1>2. /\ v7 = {} /\ v2 \in Mode!Records /\ v4 \in Mode!Records /\ v4.mode \in Modes /\ v1.mode = v4.mode
      /\ v4.enable \cap v4.disable = {}
  BY <1>0, <1>1 DEF Mode!WindowKept, Mode!TypeOK, Mode!CallKept
<1>3. \A f \in Features : f \notin Mode!Named => v6[f] = "unset"
  BY <1>0, <1>1, <1>2 DEF Mode!RecordKept, Mode!Open
<1>4. Mode!CallKept' /\ Mode!WindowKept' /\ Mode!Open' = v7'
  BY <1>1 DEF Mode!CallKept, Mode!WindowKept, Mode!Open
<1>5. Mode!TypeOK'
  BY <1>0, <1>1, <1>2 DEF Mode!TypeOK, Mode!Named, Mode!Records
<1>6. CASE Mode!Overridden
  <2>1. "mode" \in v7' /\ v2.enable \cup v2.disable \cup Mode!Named \subseteq v7'
    BY <1>1, <1>6 DEF Mode!Named
  <2>2. \A f \in Features \ v7' : f \notin Mode!Selection(v2).enable /\ f \notin Mode!Selection(v2).disable
    BY <1>2, <2>1, ModeSelection
  <2>3. \A f \in Features \ v7' : Mode!SaysOf(f)'
    BY <1>1, <1>3, <2>1, <2>2 DEF Mode!SaysOf
  <2>4. Mode!RecordKept'
    BY <1>1, <1>4, <2>1, <2>3 DEF Mode!RecordKept
  <2> QED
    BY <1>4, <1>5, <2>4 DEF Mode!IInv
<1>7. CASE ~Mode!Overridden
  <2>1. v4 = Mode!Resolved(v2)
    BY <1>7 DEF Mode!Overridden
  <2>2. v2.mode \in Modes \/ v2.mode = "auto"
    <3>1. Mode!Resolved(v2).mode = IF v2.mode = "auto" THEN "rose" ELSE v2.mode
      BY DEF Mode!Resolved
    <3> QED
      BY <1>2, <2>1, <3>1
  <2>3. ~Mode!Skipped(v2)
    BY <2>2, GuestAssumption DEF Mode!Skipped, Mode!DeviceModeAssumption
  <2>4. Mode!Selection(v2) = v4
    BY <1>2, <2>1, <2>3, ModeSelection
  <2>5. ASSUME NEW f \in Features PROVE (f \in v4.enable <=> v6[f] = "yes") /\ (f \in v4.disable <=> v6[f] = "no")
    <3>1. CASE f \in v4.enable \cup v4.disable
      BY <1>1, <3>1, ModeChecked
    <3>2. CASE f \notin v4.enable \cup v4.disable
      <4>1. f \notin Mode!Named
        BY <3>2, GuestAssumption DEF Mode!Named, Mode!DeviceModeAssumption
      <4> QED
        BY <1>3, <3>2, <4>1
    <3> QED
      BY <3>1, <3>2
  <2>6. \A f \in Features : Mode!SaysOf(f)'
    BY <1>1, <2>4, <2>5 DEF Mode!SaysOf
  <2>7. Mode!RecordKept'
    BY <1>1, <1>2, <2>3, <2>4, <2>6 DEF Mode!RecordKept
  <2> QED
    BY <1>4, <1>5, <2>7 DEF Mode!IInv
<1> QED
  BY <1>6, <1>7

\* A guest on a factory disk was told nothing.
LEMMA ModeReset ==
  ASSUME Mode!IInv, Mode!Reset, v5' = "idle", UNCHANGED <<v2, v4>>
  PROVE  Mode!IInv'
<1>1. /\ v1' = [mode |-> "rose", on |-> {}] /\ v3' = "open"
      /\ v6' = [f \in Features |-> "unset"] /\ v7' = {}
  BY DEF Mode!Reset, Mode!FactoryGuest, Mode!Untold
<1>2. Mode!TypeOK'
  BY <1>1, GuestAssumption DEF Mode!IInv, Mode!TypeOK, Mode!DeviceModeAssumption
<1>3. Mode!RecordKept' /\ Mode!CallKept' /\ Mode!WindowKept'
  BY <1>1 DEF Mode!RecordKept, Mode!CallKept, Mode!WindowKept
<1> QED
  BY <1>2, <1>3 DEF Mode!IInv

LEMMA ModeFails == ASSUME Mode!IInv, Mode!Fails PROVE Mode!IInv'
<1>0. Mode!TypeOK /\ Mode!RecordKept /\ Mode!CallKept /\ Mode!WindowKept
  BY DEF Mode!IInv
<1>1. CASE Mode!Reset
  BY <1>1, ModeReset DEF Mode!Fails
<1>2. CASE /\ v3' = IF v3 = "first" THEN "shut" ELSE v3
           /\ v7' = IF v5 = "telling" THEN v7 ELSE v7 \cup Mode!Named
           /\ UNCHANGED <<v1, v6>>
  <2>1. /\ v5 # "idle" /\ v5' = "idle" /\ UNCHANGED <<v1, v2, v4, v6>> /\ v7' = Mode!Open
        /\ v3 # "open" /\ v3' \in {"shut", "ran"} /\ (v3' = "ran" <=> v3 = "ran")
    BY <1>0, <1>2 DEF Mode!Fails, Mode!Open, Mode!TypeOK, Mode!WindowKept
  <2>2. Mode!Open \subseteq Features \cup {"mode"}
    BY <1>0 DEF Mode!TypeOK, Mode!Records, Mode!Open, Mode!Named
  <2>3. Mode!TypeOK'
    BY <1>0, <2>1, <2>2 DEF Mode!TypeOK
  <2>4. Mode!CallKept' /\ Mode!WindowKept'
    BY <2>1 DEF Mode!CallKept, Mode!WindowKept
  <2>5. Mode!Open' = Mode!Open
    BY <2>1 DEF Mode!Open
  <2>6. Mode!RecordKept'
    BY <1>0, <2>1, <2>5 DEF Mode!RecordKept, Mode!SaysOf
  <2> QED
    BY <2>3, <2>4, <2>6 DEF Mode!IInv
<1> QED
  BY <1>1, <1>2 DEF Mode!Fails

LEMMA ModeStep == ASSUME Mode!IInv, [Mode!Next]_(Mode!vars) PROVE Mode!IInv'
<1>0. Mode!TypeOK /\ Mode!RecordKept /\ Mode!CallKept /\ Mode!WindowKept
  BY DEF Mode!IInv
<1>1. CASE UNCHANGED Mode!vars
  BY <1>1 DEF Mode!vars, Mode!IInv, Mode!TypeOK, Mode!RecordKept, Mode!CallKept, Mode!WindowKept,
     Mode!Open, Mode!SaysOf, Mode!Named
<1>2. CASE Mode!Set
  <2>1. v5 = "idle" /\ v3 # "open" /\ UNCHANGED <<v1, v2, v3, v6, v7>>
    BY <1>2 DEF Mode!Set
  <2>2. PICK r \in Mode!Request : ~Mode!Skipped(r) /\ Mode!Tell(r)
    BY <1>2 DEF Mode!Set
  <2>3. v3 \in {"shut", "ran"}
    BY <1>0, <2>1 DEF Mode!TypeOK, Mode!WindowKept
  <2> QED
    BY <2>1, <2>2, <2>3, ModeBegins
<1>3. CASE Mode!Clean
  BY <1>3, ModeReset DEF Mode!Clean
<1> QED
  BY <1>1, <1>2, <1>3, ModeFirstBoot, ModeConfirm, ModeCheck, ModeSaveRecord, ModeSaveStep,
     ModeRecordProvisioning, ModeFails DEF Mode!Next

LEMMA ModeDescribes == ASSUME Mode!IInv PROVE Mode!RecordDescribesGuest
  BY DEF Mode!IInv, Mode!RecordKept, Mode!Open, Mode!SaysOf, Mode!RecordDescribesGuest

\* A step of provisioning that returned had its effect in the guest, and the device mode on
\* record is the guest's, whatever answers came early, late or from another resource
\* (quickchr.ts:1700-1760, device-mode.ts:390-397); what is excepted is named: a renewal
\* without a level had been asked for and no more (license.ts:153), and a first boot that was
\* given another device mode leaves the record as add() wrote it (quickchr.ts:2976-2981).
THEOREM ReturnedStepsAreDone == Guest => []ReturnedIsDone
<1> DEFINE Inv == (plays = "steps" => Steps!IInv) /\ (plays = "mode" => Mode!IInv)
<1>1. ASSUME GuestInit PROVE Inv
  BY <1>1, StepsInit, ModeInit DEF GuestInit
<1>2. ASSUME Inv, [GuestNext]_all PROVE Inv'
  <2>1. ASSUME plays' = "steps" PROVE plays = "steps" /\ [Steps!Next]_(Steps!vars)
    BY <1>2, <2>1 DEF GuestNext, Plays, all, slots, Steps!vars
  <2>2. ASSUME plays' = "mode" PROVE plays = "mode" /\ [Mode!Next]_(Mode!vars)
    BY <1>2, <2>2 DEF GuestNext, Plays, all, slots, Mode!vars
  <2>3. plays' = "steps" => Steps!IInv'
    BY <1>2, <2>1, StepsStep
  <2>4. plays' = "mode" => Mode!IInv'
    BY <1>2, <2>2, ModeStep
  <2> QED
    BY <2>3, <2>4
<1>3. Inv => ReturnedIsDone
  <2>1. Steps!IInv => Steps!ReturnedIsDone
    BY DEF Steps!IInv, Steps!EffectSeen, Steps!ReturnedIsDone
  <2> QED
    BY <2>1, ModeDescribes DEF ReturnedIsDone
<1> QED
  BY <1>1, <1>2, <1>3, PTL DEF Guest
-----------------------------------------------------------------------------
(* The guest agent *)

LEMMA HoldsAppend ==
  ASSUME NEW S, NEW s \in Seq(S), NEW x \in S, NEW m
  PROVE  /\ Append(s, x) \in Seq(S) /\ Len(Append(s, x)) = Len(s) + 1
         /\ Agent!Holds(Append(s, x), m) <=> Agent!Holds(s, m) \/ x = m
         /\ ~Agent!Holds(s, m) => Agent!EndsWith(Append(s, x), m) /\ Agent!Once(Append(s, x), m)
         /\ x # m /\ Agent!Once(s, m) => Agent!Once(Append(s, x), m)
<1> DEFINE t == Append(s, x)
<1>1. /\ t \in Seq(S) /\ Len(t) = Len(s) + 1 /\ DOMAIN t = 1 .. Len(s) + 1 /\ DOMAIN s = 1 .. Len(s)
      /\ Len(s) \in Nat /\ (\A i \in 1 .. Len(s) : t[i] = s[i]) /\ t[Len(s) + 1] = x
  OBVIOUS
<1> HIDE DEF t
<1>2. Agent!Holds(t, m) <=> Agent!Holds(s, m) \/ x = m
  BY <1>1 DEF Agent!Holds
<1>3. ~Agent!Holds(s, m) => Agent!EndsWith(t, m) /\ Agent!Once(t, m)
  BY <1>1 DEF Agent!Holds, Agent!EndsWith, Agent!Once
<1>4. x # m /\ Agent!Once(s, m) => Agent!Once(t, m)
  BY <1>1 DEF Agent!Once
<1> QED
  BY <1>1, <1>2, <1>3, <1>4 DEF t

LEMMA HoldsDrop ==
  ASSUME NEW S, NEW s \in Seq(S), NEW n \in 1 .. Len(s)
  PROVE  LET t == SubSeq(s, n + 1, Len(s)) IN
         /\ t \in Seq(S) /\ Len(t) = Len(s) - n
         /\ \A i \in DOMAIN t : n + i \in DOMAIN s /\ t[i] = s[n + i]
         /\ \A m : Agent!Holds(t, m) => Agent!Holds(s, m)
         /\ \A m : Agent!EndsWith(s, m) => Agent!EndsWith(t, m)
<1> DEFINE t == SubSeq(s, n + 1, Len(s))
<1>1. Len(s) \in Nat /\ DOMAIN s = 1..Len(s) /\ n \in Nat /\ n <= Len(s)
  BY LenProperties
<1>2. \A i \in (n + 1)..Len(s) : s[i] \in S
  BY <1>1, ElementOfSeq
<1>3. /\ t \in Seq(S)
      /\ Len(t) = IF n + 1 <= Len(s) THEN Len(s) - (n + 1) + 1 ELSE 0
      /\ \A i \in 1..(Len(s) - (n + 1) + 1) : t[i] = s[(n + 1) + i - 1]
  BY <1>1, <1>2, SubSeqProperties
<1> HIDE DEF t
<1>4. Len(t) = Len(s) - n /\ DOMAIN t = 1..(Len(s) - n)
  <2>1. PICK k \in Nat : k = Len(s)
    BY <1>1
  <2>2. (IF n + 1 <= k THEN k - (n + 1) + 1 ELSE 0) = k - n
    <3>1. n \in Nat /\ n <= k
      BY <1>1, <2>1
    <3>2. CASE n = k
      BY <3>1, <3>2
    <3>3. CASE n # k
      BY <3>1, <3>3
    <3> QED
      BY <3>2, <3>3
  <2>3. Len(t) = Len(s) - n
    BY <1>3, <2>1, <2>2
  <2>4. DOMAIN t = 1..Len(t)
    BY <1>3, LenProperties
  <2> QED
    BY <2>3, <2>4
<1>5. \A i \in DOMAIN t : n + i \in DOMAIN s /\ t[i] = s[n + i]
  <2> TAKE i \in DOMAIN t
  <2>1. n + i \in DOMAIN s /\ (n + 1) + i - 1 = n + i /\ i \in 1..(Len(s) - (n + 1) + 1)
    BY <1>1, <1>4
  <2> QED
    BY <1>3, <2>1
<1>6. ASSUME NEW m, Agent!Holds(t, m) PROVE Agent!Holds(s, m)
  BY <1>5, <1>6 DEF Agent!Holds
<1>7. ASSUME NEW m, Agent!EndsWith(s, m) PROVE Agent!EndsWith(t, m)
  <2> SUFFICES ASSUME NEW i \in DOMAIN t, t[i] = m PROVE i = Len(t)
    BY DEF Agent!EndsWith
  <2>1. n + i = Len(s)
    BY <1>5, <1>7 DEF Agent!EndsWith
  <2> QED
    BY <1>1, <1>4, <2>1
<1> QED
  BY <1>3, <1>4, <1>5, <1>6, <1>7 DEF t

LEMMA HoldsTail ==
  ASSUME NEW S, NEW s \in Seq(S), s # <<>>
  PROVE  /\ Tail(s) \in Seq(S) /\ Len(Tail(s)) = Len(s) - 1 /\ Len(s) >= 1
         /\ Head(s) = s[1] /\ s[1] \in S /\ 1 \in DOMAIN s
         /\ \A i \in DOMAIN Tail(s) : i + 1 \in DOMAIN s /\ Tail(s)[i] = s[i + 1]
         /\ \A m : Agent!Holds(s, m) <=> s[1] = m \/ Agent!Holds(Tail(s), m)
         /\ \A m : Agent!EndsWith(s, m) => Agent!EndsWith(Tail(s), m)
         /\ \A m : Agent!Once(s, m) => Agent!Once(Tail(s), m)
         /\ \A m : Agent!Once(s, m) /\ s[1] = m => ~Agent!Holds(Tail(s), m)
         /\ \A m : Agent!EndsWith(s, m) /\ s[1] = m => Tail(s) = <<>> /\ Len(s) = 1
<1> DEFINE t == Tail(s)
<1>1. /\ t \in Seq(S) /\ Len(t) = Len(s) - 1 /\ DOMAIN t = 1 .. Len(s) - 1 /\ DOMAIN s = 1 .. Len(s)
      /\ Len(s) \in Nat /\ Len(s) >= 1 /\ Head(s) = s[1] /\ s[1] \in S
  OBVIOUS
<1>2. \A i \in DOMAIN t : i + 1 \in DOMAIN s /\ t[i] = s[i + 1]
  BY <1>1
<1> HIDE DEF t
<1>3. Len(t) = 0 => t = <<>>
  BY <1>1
<1>4. ASSUME NEW m PROVE Agent!Holds(s, m) <=> s[1] = m \/ Agent!Holds(t, m)
  <2>1. Agent!Holds(t, m) => Agent!Holds(s, m)
    BY <1>2 DEF Agent!Holds
  <2>2. s[1] = m => Agent!Holds(s, m)
    BY <1>1 DEF Agent!Holds
  <2>3. ASSUME NEW i \in DOMAIN s, s[i] = m, i # 1 PROVE Agent!Holds(t, m)
    <3>1. i - 1 \in DOMAIN t /\ t[i - 1] = m
      BY <1>1, <1>2, <2>3
    <3> QED
      BY <3>1 DEF Agent!Holds
  <2> QED
    BY <2>1, <2>2, <2>3 DEF Agent!Holds
<1>5. ASSUME NEW m, Agent!EndsWith(s, m) PROVE Agent!EndsWith(t, m)
  BY <1>1, <1>2, <1>5 DEF Agent!EndsWith
<1>6. ASSUME NEW m, Agent!Once(s, m) PROVE Agent!Once(t, m)
  BY <1>1, <1>2, <1>6 DEF Agent!Once
<1>7. ASSUME NEW m, Agent!Once(s, m), s[1] = m PROVE ~Agent!Holds(t, m)
  BY <1>1, <1>2, <1>7 DEF Agent!Once, Agent!Holds
<1>8. ASSUME NEW m, Agent!EndsWith(s, m), s[1] = m PROVE t = <<>> /\ Len(s) = 1
  BY <1>1, <1>3, <1>8 DEF Agent!EndsWith
<1> QED
  BY <1>1, <1>2, <1>4, <1>5, <1>6, <1>7, <1>8 DEF t

LEMMA HoldsNothing ==
  ASSUME NEW m PROVE /\ ~Agent!Holds(<<>>, m) /\ Agent!EndsWith(<<>>, m) /\ Agent!Once(<<>>, m)
                     /\ DOMAIN <<>> = {}
  BY DEF Agent!Holds, Agent!EndsWith, Agent!Once

LEMMA HoldsOne ==
  ASSUME NEW x, NEW m
  PROVE  /\ DOMAIN <<x>> = {1} /\ <<x>>[1] = x /\ Len(<<x>>) = 1
         /\ Agent!Holds(<<x>>, m) <=> x = m
         /\ Agent!EndsWith(<<x>>, m) /\ Agent!Once(<<x>>, m)
<1>1. DOMAIN <<x>> = {1} /\ <<x>>[1] = x /\ Len(<<x>>) = 1
  OBVIOUS
<1> QED
  BY <1>1 DEF Agent!Holds, Agent!EndsWith, Agent!Once

LEMMA AgentInit == Agent!Init => Agent!IInv
<1> SUFFICES ASSUME Agent!Init PROVE Agent!IInv
  OBVIOUS
<1>1. /\ v1 = TRUE /\ v2 = <<>> /\ v4 = <<>> /\ v5 = <<>> /\ v3 = [c \in Asker |-> <<>>]
      /\ v6 = [c \in Asker |-> Agent!Idle] /\ v7 = [c \in Asker |-> 0] /\ v8 = [c \in Asker |-> Agent!None]
      /\ v9 = [c \in Asker |-> 0] /\ v10 = {}
  BY DEF Agent!Init
<1>2. Agent!TypeOK
  BY <1>1 DEF Agent!TypeOK
<1>3. Agent!Queued
  BY <1>1, HoldsNothing DEF Agent!Queued
<1>4. ASSUME NEW c \in Asker PROVE Agent!Sound(c)
  <2>1. v6[c] = "idle" /\ v3[c] = <<>> /\ v8[c] = "none" /\ v9[c] = 0 /\ ~Agent!Served(c)
    BY <1>1 DEF Agent!Idle, Agent!None, Agent!Served
  <2>2. Agent!HeardOnly(c, Agent!None)
    BY <1>1, HoldsNothing DEF Agent!HeardOnly
  <2>3. Agent!Unserved(c)
    BY <2>1, <2>2 DEF Agent!Unserved, Agent!Idle
  <2>4. Agent!RunsScript(c)
    BY <1>1, <2>1, HoldsNothing DEF Agent!RunsScript, Agent!Idle, Agent!Asleep
  <2> QED
    BY <2>1, <2>3, <2>4 DEF Agent!Sound, Agent!Synchronises, Agent!Exchanges
<1> QED
  BY <1>1, <1>2, <1>3, <1>4 DEF Agent!IInv

\* A call whose connection is not served is as it was when others exchange messages; one
\* that is, when nothing moved.
LEMMA OtherAskers ==
  ASSUME Agent!IInv, NEW d \in Asker,
         v3'[d] = v3[d], v6'[d] = v6[d], v8'[d] = v8[d], v9'[d] = v9[d],
         Agent!Served(d)' <=> Agent!Served(d),
         \/ v4' = v4 /\ v5' = v5
         \/ /\ ~Agent!Served(d)
            /\ \A m \in Agent!Message : m.call = d =>
                 /\ Agent!Holds(v4', m) => Agent!Holds(v4, m)
                 /\ Agent!Holds(v5', m) => Agent!Holds(v5, m)
                 /\ Agent!Once(v4, m) => Agent!Once(v4', m)
  PROVE  Agent!Sound(d)'
<1>1. /\ Agent!Unserved(d) /\ Agent!Synchronises(d) /\ Agent!Exchanges(d) /\ Agent!RunsScript(d)
  BY DEF Agent!IInv, Agent!Sound
<1>2. CASE v4' = v4 /\ v5' = v5
  <2>1. Agent!HeardOnly(d, Agent!None)' <=> Agent!HeardOnly(d, Agent!None)
    BY <1>2 DEF Agent!HeardOnly
  <2>2. Agent!HeardOnly(d, "sync")' <=> Agent!HeardOnly(d, "sync")
    BY <1>2 DEF Agent!HeardOnly
  <2>3. Agent!Unserved(d)'
    BY <1>1, <1>2, <2>1 DEF Agent!Unserved
  <2>4. Agent!Synchronises(d)'
    BY <1>1, <1>2, <2>2 DEF Agent!Synchronises
  <2>5. Agent!Exchanges(d)'
    BY <1>1, <1>2 DEF Agent!Exchanges
  <2>6. Agent!RunsScript(d)'
    BY <1>1, <1>2 DEF Agent!RunsScript
  <2> QED
    BY <2>3, <2>4, <2>5, <2>6 DEF Agent!Sound
<1>3. CASE /\ ~Agent!Served(d)
           /\ \A m \in Agent!Message : m.call = d =>
                 /\ Agent!Holds(v4', m) => Agent!Holds(v4, m)
                 /\ Agent!Holds(v5', m) => Agent!Holds(v5, m)
                 /\ Agent!Once(v4, m) => Agent!Once(v4', m)
  <2>1. Agent!HeardOnly(d, Agent!None) => Agent!HeardOnly(d, Agent!None)'
    BY <1>3 DEF Agent!HeardOnly
  <2>2. Agent!Unserved(d)'
    BY <1>1, <1>3, <2>1 DEF Agent!Unserved
  <2>3. Agent!Request(d, "exec") \in Agent!Message /\ Agent!Request(d, "exec").call = d
    BY DEF Agent!Request, Agent!Message, Agent!Requests
  <2>4. /\ Agent!Holds(v4', Agent!Request(d, "exec")) => Agent!Holds(v4, Agent!Request(d, "exec"))
        /\ Agent!Holds(v5', Agent!Request(d, "exec")) => Agent!Holds(v5, Agent!Request(d, "exec"))
        /\ Agent!Once(v4, Agent!Request(d, "exec")) => Agent!Once(v4', Agent!Request(d, "exec"))
    BY <1>3, <2>3
  <2>5. Agent!RunsScript(d)'
    BY <1>1, <2>4 DEF Agent!RunsScript
  <2> QED
    BY <1>3, <2>2, <2>5 DEF Agent!Sound, Agent!Synchronises, Agent!Exchanges
<1> QED
  BY <1>2, <1>3

\* A call that is over waits for nothing.
LEMMA AskerEnds ==
  ASSUME Agent!IInv, NEW c \in Asker, v3'[c] = v3[c], v6'[c] = Agent!Closing, v9'[c] = v9[c],
         v4' = v4, \A m : Agent!Holds(v5', m) => Agent!Holds(v5, m),
         v8'[c] = "ok" /\ AgentOp[c] = "exec" => v9[c] = 1
  PROVE  Agent!Sound(c)'
<1>1. Agent!RunsScript(c)
  BY DEF Agent!IInv, Agent!Sound
<1>2. Agent!RunsScript(c)'
  BY <1>1 DEF Agent!RunsScript, Agent!Closing, Agent!Idle, Agent!Asleep
<1> QED
  BY <1>2 DEF Agent!Sound, Agent!Unserved, Agent!Synchronises, Agent!Exchanges, Agent!Closing,
     Agent!Idle, Agent!None

\* A served call that sends a request with nothing else on its way waits for the answer to it.
LEMMA AskerSends ==
  ASSUME Agent!IInv, NEW c \in Asker, Agent!Served(c)', v4' = <<>>, v5' = <<>>,
         NEW cmd \in Agent!Requests, cmd \notin {"sync", "resync"},
         v3'[c] = <<Agent!Request(c, cmd)>>, v6'[c] = cmd, v8'[c] = v8[c], v9'[c] = v9[c],
         cmd = "exec" => v9[c] = 0, cmd = "exec-status" => v9[c] = 1,
         AgentOp[c] = "exec" => cmd \in {"exec", "exec-status"},
         AgentOp[c] = "exec" /\ v8[c] = "ok" => v9[c] = 1
  PROVE  Agent!Sound(c)'
<1>1. v9[c] <= 1 /\ v9[c] \in Nat
  BY DEF Agent!IInv, Agent!Sound, Agent!RunsScript, Agent!TypeOK
<1>2. cmd \notin {"idle", "asleep", "closing", "none"}
  BY DEF Agent!Requests
<1>3. Agent!Unserved(c)' /\ Agent!Synchronises(c)'
  BY DEF Agent!Unserved, Agent!Synchronises
<1>4. /\ Len(v3'[c]) = 1 /\ DOMAIN v3'[c] = {1} /\ v3'[c][1] = Agent!Request(c, cmd)
      /\ Len(v4') = 0 /\ DOMAIN v4' = {} /\ Len(v5') = 0 /\ DOMAIN v5' = {}
  BY HoldsOne, HoldsNothing
<1>5. Agent!Exchanges(c)'
  BY <1>2, <1>4 DEF Agent!Exchanges, Agent!Asleep
<1>6. Agent!Request(c, cmd).call = c /\ (Agent!Request(c, cmd) = Agent!Request(c, "exec") <=> cmd = "exec")
  BY DEF Agent!Request
<1>7. /\ Agent!Once(v3'[c], Agent!Request(c, "exec")) /\ Agent!Once(v4', Agent!Request(c, "exec"))
      /\ ~Agent!Holds(v4', Agent!Request(c, "exec")) /\ ~Agent!Holds(v5', Agent!Request(c, "exec"))
      /\ Agent!Holds(v3'[c], Agent!Request(c, "exec")) <=> cmd = "exec"
  BY <1>6, HoldsOne, HoldsNothing
<1>8. Agent!RunsScript(c)'
  BY <1>1, <1>2, <1>4, <1>6, <1>7 DEF Agent!RunsScript, Agent!Idle, Agent!Asleep
<1> QED
  BY <1>3, <1>5, <1>8 DEF Agent!Sound

\* A connection that is served from now on finds nothing on its way to its call.
LEMMA AskerServed ==
  ASSUME NEW c \in Asker, Agent!TypeOK', v6'[c] \in {"sync", Agent!Closing},
         v6'[c] = "sync" => /\ Agent!HeardOnly(c, Agent!None)'
                            /\ v3'[c] = <<Agent!Request(c, "sync")>>
  PROVE  Agent!Synchronises(c)' /\ Agent!Exchanges(c)'
<1>1. Agent!Exchanges(c)'
  BY DEF Agent!Exchanges
<1>2. CASE v6'[c] = "sync"
  <2>1. Agent!Request(c, "sync") \in Agent!Message /\ Agent!Request(c, "sync").call = c
        /\ Agent!Request(c, "sync").cmd = "sync"
    BY DEF Agent!Request, Agent!Message, Agent!Requests
  <2>2. ASSUME NEW m \in Agent!Message, m.call = c PROVE ~Agent!Holds(v4', m) /\ ~Agent!Holds(v5', m)
    <3>1. m.cmd # "none"
      BY DEF Agent!Message, Agent!Requests
    <3> QED
      BY <1>2, <2>2, <3>1 DEF Agent!HeardOnly, Agent!None
  <2>3. Agent!EndsWith(v3'[c], Agent!Request(c, "sync")) /\ \A i \in DOMAIN v3'[c] : v3'[c][i].cmd = "sync"
    BY <1>2, <2>1, HoldsOne
  <2>4. Agent!HeardOnly(c, "sync")'
    BY <2>2 DEF Agent!HeardOnly
  <2> QED
    BY <1>1, <1>2, <2>1, <2>2, <2>3, <2>4 DEF Agent!Synchronises
<1>3. CASE v6'[c] = Agent!Closing
  BY <1>1, <1>3 DEF Agent!Synchronises, Agent!Closing
<1> QED
  BY <1>2, <1>3

LEMMA SumIsSmall ==
  ASSUME NEW a \in Nat, NEW b \in Nat, NEW c \in Nat
  PROVE  /\ a + (b + 1) + (c - 1) = a + b + c
         /\ a + b + c <= 0 => a = 0 /\ b = 0 /\ c = 0
         /\ a + b + c <= 1 /\ a >= 1 => a = 1 /\ b = 0 /\ c = 0
         /\ a + b + c <= 1 /\ b >= 1 => a = 0 /\ b = 1 /\ c = 0
         /\ a + b + c <= 1 /\ c >= 1 => a = 0 /\ b = 0 /\ c = 1
  OBVIOUS

LEMMA SumStays ==
  ASSUME NEW a \in Nat, NEW b \in Nat, NEW c \in Nat, NEW x \in Nat, x <= a + 1, NEW n \in {0, 1},
         NEW y, y = b - 1, a + b + c <= n
  PROVE  x + y + c <= n
  OBVIOUS

\* Sending a request types.
LEMMA AgentTyped ==
  ASSUME Agent!TypeOK, NEW c \in Asker, NEW cmd \in Agent!Requests
  PROVE  /\ Agent!Request(c, cmd) \in [call : Asker, cmd : Agent!Requests]
         /\ [v3 EXCEPT ![c] = Append(@, Agent!Request(c, cmd))]
              \in [Asker -> Seq([call : Asker, cmd : Agent!Requests])]
         /\ [v6 EXCEPT ![c] = cmd]
              \in [Asker -> Agent!Requests \cup {Agent!Idle, Agent!Asleep, Agent!Closing, Agent!None}]
<1>1. Agent!Request(c, cmd) \in [call : Asker, cmd : Agent!Requests]
  BY DEF Agent!Request
<1>2. v3[c] \in Seq([call : Asker, cmd : Agent!Requests])
  BY DEF Agent!TypeOK
<1>3. Append(v3[c], Agent!Request(c, cmd)) \in Seq([call : Asker, cmd : Agent!Requests])
  BY <1>1, <1>2
<1> QED
  BY <1>1, <1>3 DEF Agent!TypeOK

LEMMA AgentCall ==
  ASSUME Agent!IInv, NEW c \in Asker, Agent!Call(c) PROVE Agent!IInv'
<1>0. Agent!TypeOK /\ Agent!Queued /\ v10 = {} /\ (\A d \in Asker : Agent!Sound(d))
  BY DEF Agent!IInv
<1>1. v6[c] = "idle" /\ UNCHANGED <<v1, v4, v5, v7, v9, v10>>
  BY DEF Agent!Call, Agent!Idle
<1>2. v2 \in Seq(Asker) /\ \A i \in DOMAIN v2 : v2[i] # c
  BY <1>0, <1>1 DEF Agent!TypeOK, Agent!Queued, Agent!Idle, Agent!None
<1>3. CASE v1
  <2>1. /\ v2' = Append(v2, c) /\ v3' = [v3 EXCEPT ![c] = Append(@, Agent!Request(c, "sync"))]
        /\ v6' = [v6 EXCEPT ![c] = "sync"] /\ v8' = v8
    BY <1>3 DEF Agent!Call, Agent!Send
  <2>2. "sync" \in Agent!Requests
    BY DEF Agent!Requests
  <2>3. Agent!TypeOK'
    <3>1. v2' \in Seq(Asker)
      BY <1>2, <2>1
    <3>2. /\ v3' \in [Asker -> Seq([call : Asker, cmd : Agent!Requests])]
          /\ v6' \in [Asker -> Agent!Requests \cup {Agent!Idle, Agent!Asleep, Agent!Closing, Agent!None}]
      BY <1>0, <2>1, <2>2, AgentTyped
    <3> QED
      BY <1>0, <1>1, <2>1, <3>1, <3>2 DEF Agent!TypeOK
  <2>4. /\ v2' \in Seq(Asker) /\ Len(v2') = Len(v2) + 1 /\ v2'[Len(v2) + 1] = c /\ Len(v2) \in Nat
        /\ DOMAIN v2 = 1 .. Len(v2) /\ DOMAIN v2' = 1 .. Len(v2) + 1
        /\ \A i \in DOMAIN v2 : v2'[i] = v2[i]
    BY <1>2, <2>1
  <2>5. Agent!Queued'
    <3>1. \A i, j \in DOMAIN v2' : v2'[i] = v2'[j] => i = j
      BY <1>0, <1>2, <2>4 DEF Agent!Queued
    <3>2. ASSUME NEW d \in Asker
          PROVE  v6'[d] \notin {Agent!Idle, Agent!None} <=> \E i \in DOMAIN v2' : v2'[i] = d
      <4>1. CASE d = c
        <5>1. v6'[d] = "sync"
          BY <1>0, <2>1, <4>1 DEF Agent!TypeOK
        <5>2. Len(v2) + 1 \in DOMAIN v2' /\ v2'[Len(v2) + 1] = d
          BY <2>4, <4>1
        <5> QED
          BY <5>1, <5>2 DEF Agent!Idle, Agent!None
      <4>2. CASE d # c
        <5>1. v6'[d] = v6[d]
          BY <1>0, <2>1, <4>2 DEF Agent!TypeOK
        <5>2. (\E i \in DOMAIN v2' : v2'[i] = d) <=> \E i \in DOMAIN v2 : v2[i] = d
          BY <2>4, <4>2
        <5> QED
          BY <1>0, <5>1, <5>2 DEF Agent!Queued
      <4> QED
        BY <4>1, <4>2
    <3> QED
      BY <3>1, <3>2 DEF Agent!Queued
  <2>6. \A d \in Asker : d # c => (Agent!Served(d)' <=> Agent!Served(d))
    <3>1. CASE v2 = <<>>
      <4>1. v2'[1] = c
        BY <2>4, <3>1
      <4> QED
        BY <3>1, <4>1 DEF Agent!Served
    <3>2. CASE v2 # <<>>
      <4>1. v2'[1] = v2[1] /\ v2' # <<>>
        BY <1>2, <2>4, <3>2
      <4> QED
        BY <3>2, <4>1 DEF Agent!Served
    <3> QED
      BY <3>1, <3>2
  <2>7. ASSUME NEW d \in Asker, d # c PROVE Agent!Sound(d)'
    <3>1. v3'[d] = v3[d] /\ v6'[d] = v6[d] /\ v8'[d] = v8[d] /\ v9'[d] = v9[d]
      BY <1>0, <1>1, <2>1, <2>7 DEF Agent!TypeOK
    <3> QED
      BY <1>1, <2>6, <2>7, <3>1, OtherAskers
  <2>8. Agent!Sound(c)'
    <3>1. /\ ~Agent!Served(c)
      BY <1>2 DEF Agent!Served
    <3>2. v3[c] = <<>> /\ Agent!HeardOnly(c, Agent!None)
      BY <1>0, <1>1, <3>1 DEF Agent!Sound, Agent!Unserved, Agent!Idle
    <3>3. v3'[c] = <<Agent!Request(c, "sync")>> /\ v6'[c] = "sync"
      BY <1>0, <2>1, <3>2 DEF Agent!TypeOK
    <3>4. Agent!HeardOnly(c, Agent!None)'
      BY <1>1, <3>2 DEF Agent!HeardOnly
    <3>5. Agent!Synchronises(c)' /\ Agent!Exchanges(c)'
      BY <2>3, <3>3, <3>4, AskerServed
    <3>6. Agent!Unserved(c)'
      BY <3>3, <3>4 DEF Agent!Unserved, Agent!Idle
    <3>7. /\ Agent!Request(c, "sync").call = c /\ Agent!Request(c, "exec") # Agent!Request(c, "sync")
      BY DEF Agent!Request
    <3>8. /\ \A i \in DOMAIN v3'[c] : v3'[c][i].call = c
          /\ Agent!Once(v3'[c], Agent!Request(c, "exec")) /\ ~Agent!Holds(v3'[c], Agent!Request(c, "exec"))
      BY <3>3, <3>7, HoldsOne
    <3>9. Agent!RunsScript(c)
      BY <1>0 DEF Agent!Sound
    <3>10. Agent!RunsScript(c)'
      BY <1>1, <2>1, <3>3, <3>8, <3>9 DEF Agent!RunsScript, Agent!Idle, Agent!Asleep
    <3> QED
      BY <3>5, <3>6, <3>10 DEF Agent!Sound
  <2> QED
    BY <1>0, <1>1, <2>3, <2>5, <2>7, <2>8 DEF Agent!IInv
<1>4. CASE ~v1
  <2>1. v6' = [v6 EXCEPT ![c] = "none"] /\ v8' = [v8 EXCEPT ![c] = "failed"] /\ UNCHANGED <<v2, v3>>
    BY <1>4 DEF Agent!Call, Agent!None
  <2>2. Agent!TypeOK'
    BY <1>0, <1>1, <2>1 DEF Agent!TypeOK, Agent!None
  <2>3. Agent!Queued'
    BY <1>0, <1>1, <2>1 DEF Agent!Queued, Agent!TypeOK, Agent!Idle, Agent!None
  <2>4. \A d \in Asker : Agent!Served(d)' <=> Agent!Served(d)
    BY <2>1 DEF Agent!Served
  <2>5. ASSUME NEW d \in Asker, d # c PROVE Agent!Sound(d)'
    <3>1. v3'[d] = v3[d] /\ v6'[d] = v6[d] /\ v8'[d] = v8[d] /\ v9'[d] = v9[d]
      BY <1>0, <1>1, <2>1, <2>5 DEF Agent!TypeOK
    <3> QED
      BY <1>1, <2>4, <2>5, <3>1, OtherAskers
  <2>6. Agent!Sound(c)'
    <3>1. v6'[c] = "none" /\ v8'[c] = "failed" /\ ~Agent!Served(c)'
      BY <1>0, <1>2, <2>1, <2>4 DEF Agent!TypeOK, Agent!Served
    <3>2. Agent!RunsScript(c)
      BY <1>0 DEF Agent!Sound
    <3>3. Agent!RunsScript(c)'
      BY <1>1, <2>1, <3>1, <3>2 DEF Agent!RunsScript, Agent!Idle, Agent!Asleep
    <3> QED
      BY <3>1, <3>3 DEF Agent!Sound, Agent!Unserved, Agent!Synchronises, Agent!Exchanges, Agent!Idle, Agent!None
  <2> QED
    BY <1>0, <1>1, <2>2, <2>3, <2>5, <2>6 DEF Agent!IInv
<1> QED
  BY <1>3, <1>4

\* What leaves the others where they are.
LEMMA OneMoves ==
  ASSUME Agent!IInv, NEW c \in Asker, Agent!TypeOK', Agent!Sound(c)', UNCHANGED <<v2, v4, v10>>,
         v5' = v5 \/ (Agent!Served(c) /\ \A m : Agent!Holds(v5', m) => Agent!Holds(v5, m)),
         v6[c] \notin {Agent!Idle, Agent!None}, v6'[c] \notin {Agent!Idle, Agent!None},
         \A d \in Asker : d # c => v3'[d] = v3[d] /\ v6'[d] = v6[d] /\ v8'[d] = v8[d] /\ v9'[d] = v9[d]
  PROVE  Agent!IInv'
<1>1. Agent!Queued'
  BY DEF Agent!IInv, Agent!Queued
<1>2. ASSUME NEW d \in Asker, d # c PROVE Agent!Sound(d)'
  <2>1. Agent!Served(d)' <=> Agent!Served(d)
    BY DEF Agent!Served
  <2>2. Agent!Served(c) => ~Agent!Served(d)
    BY <1>2 DEF Agent!Served
  <2> QED
    BY <1>2, <2>1, <2>2, OtherAskers
<1> QED
  BY <1>1, <1>2 DEF Agent!IInv

\* A served call ends.
LEMMA OneEnds ==
  ASSUME Agent!IInv, NEW c \in Asker, NEW how \in {"ok", "failed"}, Agent!End(c, how),
         UNCHANGED <<v1, v2, v3, v4, v9, v10>>, v7' \in [Asker -> Nat], v5' \in Seq(Agent!Message),
         v5' = v5 \/ (Agent!Served(c) /\ \A m : Agent!Holds(v5', m) => Agent!Holds(v5, m)),
         v6[c] \notin {Agent!Idle, Agent!None},
         how = "ok" /\ AgentOp[c] = "exec" => v9[c] = 1
  PROVE  Agent!IInv'
<1>1. v6' = [v6 EXCEPT ![c] = "closing"] /\ v8' = [v8 EXCEPT ![c] = how]
  BY DEF Agent!End, Agent!Closing
<1>2. Agent!TypeOK'
  BY <1>1 DEF Agent!IInv, Agent!TypeOK, Agent!Closing
<1>3. v6'[c] = "closing" /\ v8'[c] = how
      /\ \A d \in Asker : d # c => v6'[d] = v6[d] /\ v8'[d] = v8[d]
  BY <1>1 DEF Agent!IInv, Agent!TypeOK
<1>4. Agent!Sound(c)'
  BY <1>3, AskerEnds DEF Agent!Closing
<1> QED
  BY <1>2, <1>3, <1>4, OneMoves DEF Agent!Idle, Agent!None

LEMMA AgentTimeOut == ASSUME Agent!IInv, NEW c \in Asker, Agent!TimeOut(c) PROVE Agent!IInv'
<1>1. Agent!TypeOK /\ Agent!RunsScript(c)
  BY DEF Agent!IInv, Agent!Sound
<1>2. /\ v6[c] \notin {"idle", "asleep", "closing", "none"}
      /\ UNCHANGED <<v1, v2, v3, v4, v5, v7, v9, v10>>
  BY DEF Agent!TimeOut, Agent!Waiting, Agent!Idle, Agent!Asleep, Agent!Closing, Agent!None
<1>3. CASE v6[c] \in {"shutdown", "file-close"}
  <2>1. Agent!End(c, "ok") /\ AgentOp[c] # "exec"
    BY <1>1, <1>3 DEF Agent!TimeOut, Agent!RunsScript
  <2> QED
    BY <1>1, <1>2, <2>1, OneEnds DEF Agent!TypeOK, Agent!Idle, Agent!None
<1>4. CASE v6[c] \notin {"shutdown", "file-close"}
  <2>1. Agent!End(c, "failed")
    BY <1>4 DEF Agent!TimeOut
  <2> QED
    BY <1>1, <1>2, <2>1, OneEnds DEF Agent!TypeOK, Agent!Idle, Agent!None
<1> QED
  BY <1>3, <1>4

\* A served call with nothing on its way sends its next request.
LEMMA OneSends ==
  ASSUME Agent!IInv, NEW c \in Asker, Agent!Served(c), v3[c] = <<>>, v4 = <<>>, v5' = <<>>,
         v6[c] \notin {Agent!Idle, Agent!None},
         NEW cmd \in Agent!Requests, cmd \notin {"sync", "resync"}, Agent!Send(c, cmd),
         UNCHANGED <<v1, v2, v4, v7, v8, v9, v10>>,
         cmd = "exec" => v9[c] = 0, cmd = "exec-status" => v9[c] = 1,
         AgentOp[c] = "exec" => cmd \in {"exec", "exec-status"}
  PROVE  Agent!IInv'
<1>1. Agent!TypeOK /\ Agent!RunsScript(c)
  BY DEF Agent!IInv, Agent!Sound
<1>2. /\ v3' = [v3 EXCEPT ![c] = Append(v3[c], Agent!Request(c, cmd))] /\ v6' = [v6 EXCEPT ![c] = cmd]
  BY DEF Agent!Send
<1>3. Agent!TypeOK'
  <2>1. v5' \in Seq(Agent!Message)
    OBVIOUS
  <2> QED
    BY <1>1, <1>2, <2>1, AgentTyped DEF Agent!TypeOK
<1>4. /\ v3'[c] = <<Agent!Request(c, cmd)>> /\ v6'[c] = cmd
      /\ \A d \in Asker : d # c => v3'[d] = v3[d] /\ v6'[d] = v6[d]
  BY <1>1, <1>2 DEF Agent!TypeOK
<1>5. Agent!Served(c)'
  BY DEF Agent!Served
<1>6. AgentOp[c] = "exec" /\ v8[c] = "ok" => v9[c] = 1
  BY <1>1 DEF Agent!RunsScript
<1>7. Agent!Sound(c)'
  BY <1>4, <1>5, <1>6, AskerSends
<1>8. cmd \notin {Agent!Idle, Agent!None}
  BY DEF Agent!Requests, Agent!Idle, Agent!None
<1>9. \A m : Agent!Holds(v5', m) => Agent!Holds(v5, m)
  BY HoldsNothing
<1> QED
  BY <1>3, <1>4, <1>7, <1>8, <1>9, OneMoves

LEMMA AgentPoll == ASSUME Agent!IInv, NEW c \in Asker, Agent!Poll(c) PROVE Agent!IInv'
<1>1. /\ Agent!TypeOK /\ Agent!Unserved(c) /\ Agent!Exchanges(c) /\ Agent!RunsScript(c)
  BY DEF Agent!IInv, Agent!Sound
<1>2. v6[c] = "asleep" /\ UNCHANGED <<v1, v2, v4, v5, v7, v9, v10>>
  BY DEF Agent!Poll, Agent!Asleep
<1>3. Agent!Served(c)
  BY <1>1, <1>2 DEF Agent!Unserved, Agent!Idle, Agent!Closing, Agent!None
<1>4. Len(v5) + Len(v4) + Len(v3[c]) <= 0
  BY <1>1, <1>2, <1>3 DEF Agent!Exchanges, Agent!Asleep, Agent!Closing
<1>5. v5 = <<>> /\ v4 = <<>> /\ v3[c] = <<>>
  <2>1. /\ v5 \in Seq(Agent!Message) /\ v4 \in Seq([call : Asker, cmd : Agent!Requests])
        /\ v3[c] \in Seq([call : Asker, cmd : Agent!Requests])
    BY <1>1 DEF Agent!TypeOK
  <2>2. Len(v5) \in Nat /\ Len(v4) \in Nat /\ Len(v3[c]) \in Nat
    BY <2>1
  <2>3. Len(v5) = 0 /\ Len(v4) = 0 /\ Len(v3[c]) = 0
    <3>1. PICK i \in Nat, j \in Nat, k \in Nat : i = Len(v5) /\ j = Len(v4) /\ k = Len(v3[c])
      BY <2>2
    <3>2. i + j + k <= 0
      BY <1>4, <3>1
    <3>3. i = 0 /\ j = 0 /\ k = 0
      BY <3>2
    <3> QED
      BY <3>1, <3>3
  <2> QED
    BY <2>1, <2>3
<1>6. v9[c] = 1 /\ (AgentOp[c] = "exec" => v6[c] \notin {"run", "shutdown", "file-open", "file-write", "file-close"})
  BY <1>1, <1>2 DEF Agent!RunsScript, Agent!Asleep
<1>7. CASE v7[c] < AgentPolls
  <2>1. Agent!Send(c, "exec-status") /\ v8' = v8
    BY <1>7 DEF Agent!Poll
  <2>2. "exec-status" \in Agent!Requests /\ v6[c] \notin {Agent!Idle, Agent!None}
    BY <1>2 DEF Agent!Requests, Agent!Idle, Agent!None
  <2> QED
    BY <1>2, <1>3, <1>5, <1>6, <2>1, <2>2, OneSends
<1>8. CASE ~(v7[c] < AgentPolls)
  <2>1. Agent!End(c, "failed") /\ v3' = v3
    BY <1>8 DEF Agent!Poll
  <2> QED
    BY <1>1, <1>2, <2>1, OneEnds DEF Agent!TypeOK, Agent!Idle, Agent!None
<1> QED
  BY <1>7, <1>8

LEMMA Removed ==
  ASSUME NEW S, NEW s \in Seq(S), NEW i \in DOMAIN s, \A j, k \in DOMAIN s : s[j] = s[k] => j = k
  PROVE  LET t == Agent!RemoveAt(s, i) IN
         /\ t \in Seq(S)
         /\ \A j, k \in DOMAIN t : t[j] = t[k] => j = k
         /\ \A d \in S : (\E j \in DOMAIN t : t[j] = d) <=> d # s[i] /\ \E j \in DOMAIN s : s[j] = d
         /\ i # 1 => t # <<>> /\ t[1] = s[1]
<1> DEFINE t == Agent!RemoveAt(s, i)
<1>1. Len(s) \in Nat /\ DOMAIN s = 1 .. Len(s) /\ i \in 1 .. Len(s)
  OBVIOUS
<1>2. t = SubSeq(s, 1, i - 1) \o SubSeq(s, i + 1, Len(s))
  BY DEF Agent!RemoveAt
<1> DEFINE u == SubSeq(s, 1, i - 1)  w == SubSeq(s, i + 1, Len(s))
<1>3. u \in Seq(S) /\ Len(u) = i - 1 /\ \A j \in 1 .. i - 1 : u[j] = s[j]
  BY <1>1
<1>4. w \in Seq(S) /\ Len(w) = Len(s) - i /\ \A j \in 1 .. Len(s) - i : w[j] = s[j + i]
  BY <1>1
<1>5. t = u \o w
  BY <1>2
<1> HIDE DEF t, u, w
<1>6. /\ t \in Seq(S) /\ Len(t) = Len(s) - 1 /\ DOMAIN t = 1 .. Len(s) - 1
      /\ \A j \in 1 .. Len(s) - 1 : t[j] = IF j < i THEN s[j] ELSE s[j + 1]
  <2>1. /\ t \in Seq(S) /\ Len(t) = Len(u) + Len(w)
        /\ \A j \in 1 .. Len(u) + Len(w) : t[j] = IF j <= Len(u) THEN u[j] ELSE w[j - Len(u)]
    BY <1>3, <1>4, <1>5
  <2>2. Len(u) + Len(w) = Len(s) - 1
    BY <1>1, <1>3, <1>4
  <2>3. \A j \in 1 .. Len(s) - 1 : t[j] = IF j < i THEN s[j] ELSE s[j + 1]
    <3> TAKE j \in 1 .. Len(s) - 1
    <3>1. CASE j < i
      BY <1>1, <1>3, <2>1, <2>2, <3>1
    <3>2. CASE ~(j < i)
      <4>1. t[j] = w[j - (i - 1)] /\ j - (i - 1) \in 1 .. Len(s) - i
        <5>1. j \in Nat /\ j <= Len(s) - 1 /\ i \in Nat /\ j >= i /\ Len(s) \in Nat
          BY <1>1, <3>2
        <5>2. ~(j <= Len(u)) /\ j - Len(u) = j - (i - 1)
          BY <1>3, <5>1
        <5>3. t[j] = w[j - Len(u)]
          BY <2>1, <2>2, <5>2
        <5>4. j - (i - 1) \in 1 .. Len(s) - i
          BY <5>1
        <5> QED
          BY <5>2, <5>3, <5>4
      <4>2. w[j - (i - 1)] = s[(j - (i - 1)) + i]
        BY <1>4, <4>1
      <4>3. (j - (i - 1)) + i = j + 1
        BY <1>1
      <4> QED
        BY <3>2, <4>1, <4>2, <4>3
    <3> QED
      BY <3>1, <3>2
  <2> QED
    BY <2>1, <2>2, <2>3
<1>7. ASSUME NEW j \in DOMAIN t, NEW k \in DOMAIN t, t[j] = t[k] PROVE j = k
  <2>1. /\ t[j] = s[IF j < i THEN j ELSE j + 1] /\ (IF j < i THEN j ELSE j + 1) \in DOMAIN s
        /\ t[k] = s[IF k < i THEN k ELSE k + 1] /\ (IF k < i THEN k ELSE k + 1) \in DOMAIN s
    BY <1>1, <1>6
  <2>2. (IF j < i THEN j ELSE j + 1) = (IF k < i THEN k ELSE k + 1)
    BY <1>7, <2>1
  <2> QED
    BY <1>1, <1>6, <2>2
<1>8. ASSUME NEW d \in S PROVE (\E j \in DOMAIN t : t[j] = d) <=> d # s[i] /\ \E j \in DOMAIN s : s[j] = d
  <2>1. ASSUME NEW j \in DOMAIN t, t[j] = d PROVE d # s[i] /\ \E k \in DOMAIN s : s[k] = d
    BY <1>1, <1>6, <2>1
  <2>2. ASSUME NEW j \in DOMAIN s, s[j] = d, d # s[i] PROVE \E k \in DOMAIN t : t[k] = d
    <3>1. CASE j < i
      <4>1. j \in DOMAIN t /\ t[j] = d
        BY <1>1, <1>6, <2>2, <3>1
      <4> QED
        BY <4>1
    <3>2. CASE j > i
      <4>1. j - 1 \in DOMAIN t /\ t[j - 1] = d
        BY <1>1, <1>6, <2>2, <3>2
      <4> QED
        BY <4>1
    <3> QED
      BY <1>1, <2>2, <3>1, <3>2
  <2> QED
    BY <2>1, <2>2
<1>9. i # 1 => t # <<>> /\ t[1] = s[1]
  BY <1>1, <1>6
<1> QED
  BY <1>6, <1>7, <1>8, <1>9 DEF t

\* A call leaves; the one that is served next had not begun.
LEMMA AgentLeaves ==
  ASSUME Agent!IInv, NEW c \in Asker, v6[c] = Agent!Closing, v6' = [v6 EXCEPT ![c] = Agent!None],
         Agent!Leave(c), v3' = v3 \/ v3' = [v3 EXCEPT ![c] = <<>>],
         UNCHANGED <<v1, v4, v5, v7, v8, v9, v10>>
  PROVE  Agent!IInv'
<1>0. Agent!TypeOK /\ Agent!Queued /\ v10 = {} /\ (\A d \in Asker : Agent!Sound(d))
  BY DEF Agent!IInv
<1>1. PICK i \in DOMAIN v2 : v2[i] = c /\ v2' = Agent!RemoveAt(v2, i)
  BY DEF Agent!Leave
<1>2. v2 \in Seq(Asker) /\ \A j, k \in DOMAIN v2 : v2[j] = v2[k] => j = k
  BY <1>0 DEF Agent!TypeOK, Agent!Queued
<1>3. /\ v2' \in Seq(Asker) /\ \A j, k \in DOMAIN v2' : v2'[j] = v2'[k] => j = k
      /\ \A d \in Asker : (\E j \in DOMAIN v2' : v2'[j] = d) <=> d # c /\ \E j \in DOMAIN v2 : v2[j] = d
      /\ i # 1 => v2' # <<>> /\ v2'[1] = v2[1]
  BY <1>1, <1>2, Removed
<1>4. v6'[c] = "none" /\ \A d \in Asker : d # c => v6'[d] = v6[d] /\ v3'[d] = v3[d]
  BY <1>0 DEF Agent!TypeOK, Agent!None
<1>5. v3'[c] = v3[c] \/ v3'[c] = <<>>
  BY <1>0 DEF Agent!TypeOK
<1>6. Agent!TypeOK'
  <2>1. v3' \in [Asker -> Seq([call : Asker, cmd : Agent!Requests])]
    <3>1. <<>> \in Seq([call : Asker, cmd : Agent!Requests])
      OBVIOUS
    <3> QED
      BY <1>0, <3>1 DEF Agent!TypeOK
  <2> QED
    BY <1>0, <1>3, <2>1 DEF Agent!TypeOK
<1>7. Agent!Queued'
  BY <1>0, <1>3, <1>4 DEF Agent!Queued, Agent!Idle, Agent!None
<1>8. Agent!Sound(c)'
  <2>1. ~Agent!Served(c)'
    <3>1. ASSUME v2' # <<>>, v2'[1] = c PROVE FALSE
      <4>1. 1 \in DOMAIN v2'
        BY <1>3, <3>1
      <4> QED
        BY <1>3, <3>1, <4>1
    <3> QED
      BY <3>1 DEF Agent!Served
  <2>2. Agent!RunsScript(c)
    BY <1>0 DEF Agent!Sound
  <2>3. Agent!RunsScript(c)'
    <3>1. CASE v3'[c] = v3[c]
      BY <1>4, <2>2, <3>1 DEF Agent!RunsScript, Agent!Idle, Agent!Asleep
    <3>2. CASE v3'[c] = <<>>
      <4>1. /\ ~Agent!Holds(v3'[c], Agent!Request(c, "exec")) /\ Agent!Once(v3'[c], Agent!Request(c, "exec"))
            /\ DOMAIN v3'[c] = {}
        BY <3>2, HoldsNothing
      <4> QED
        BY <1>4, <2>2, <4>1 DEF Agent!RunsScript, Agent!Idle, Agent!Asleep
    <3> QED
      BY <1>5, <3>1, <3>2
  <2> QED
    BY <1>4, <2>1, <2>3 DEF Agent!Sound, Agent!Unserved, Agent!Synchronises, Agent!Exchanges, Agent!Idle, Agent!None
<1>9. ASSUME NEW d \in Asker, d # c PROVE Agent!Sound(d)'
  <2>1. CASE Agent!Served(d)' <=> Agent!Served(d)
    BY <1>4, <1>9, <2>1, OtherAskers
  <2>2. CASE Agent!Served(d) /\ ~Agent!Served(d)'
    <3>1. i = 1
      BY <1>3, <2>2 DEF Agent!Served
    <3> QED
      BY <1>1, <1>9, <2>2, <3>1 DEF Agent!Served
  <2>3. CASE ~Agent!Served(d) /\ Agent!Served(d)'
    <3>1. 1 \in DOMAIN v2' /\ v2'[1] = d
      BY <1>3, <2>3 DEF Agent!Served
    <3>2. \E j \in DOMAIN v2 : v2[j] = d
      BY <1>3, <3>1
    <3>3. v6[d] \in {"sync", Agent!Closing} /\ v6'[d] = v6[d]
      BY <1>0, <1>4, <1>9, <2>3, <3>2 DEF Agent!Queued, Agent!Sound, Agent!Unserved, Agent!Idle, Agent!None
    <3>4. v6[d] = "sync" => /\ Agent!HeardOnly(d, Agent!None)
                            /\ v3[d] = <<Agent!Request(d, "sync")>>
      BY <1>0, <2>3 DEF Agent!Sound, Agent!Unserved
    <3>5. Agent!HeardOnly(d, Agent!None)' <=> Agent!HeardOnly(d, Agent!None)
      BY DEF Agent!HeardOnly
    <3>6. Agent!Synchronises(d)' /\ Agent!Exchanges(d)'
      BY <1>4, <1>6, <1>9, <3>3, <3>4, <3>5, AskerServed
    <3>7. Agent!RunsScript(d)
      BY <1>0 DEF Agent!Sound
    <3>8. Agent!RunsScript(d)'
      BY <1>4, <1>9, <3>7 DEF Agent!RunsScript
    <3> QED
      BY <2>3, <3>6, <3>8 DEF Agent!Sound, Agent!Unserved
  <2> QED
    BY <2>1, <2>2, <2>3
<1> QED
  BY <1>0, <1>6, <1>7, <1>8, <1>9 DEF Agent!IInv

LEMMA AgentCarry == ASSUME Agent!IInv, Agent!Carry PROVE Agent!IInv'
<1>0. Agent!TypeOK /\ Agent!Queued /\ v10 = {} /\ (\A d \in Asker : Agent!Sound(d))
  BY DEF Agent!IInv
<1>a. v2 # <<>> /\ v2 \in Seq(Asker)
  BY <1>0 DEF Agent!Carry, Agent!TypeOK
<1>b. PICK head \in Asker : head = Head(v2)
  BY <1>a
<1>c. PICK x : x = Head(v3[head])
  OBVIOUS
<1>1. /\ v2 # <<>> /\ v3[head] # <<>> /\ v4' = Append(v4, x) /\ v3' = [v3 EXCEPT ![head] = Tail(@)]
      /\ UNCHANGED <<v1, v2, v5, v6, v7, v8, v9, v10>>
  BY <1>b, <1>c DEF Agent!Carry
<1>2. head = v2[1] /\ Agent!Served(head)
  BY <1>a, <1>b DEF Agent!TypeOK, Agent!Served
<1>3. v3[head] \in Seq([call : Asker, cmd : Agent!Requests]) /\ v4 \in Seq([call : Asker, cmd : Agent!Requests])
  BY <1>0, <1>2 DEF Agent!TypeOK
<1>d. PICK s \in Seq([call : Asker, cmd : Agent!Requests]) : s = v3[head]
  BY <1>3
<1>e. /\ s # <<>> /\ Tail(s) \in Seq([call : Asker, cmd : Agent!Requests])
      /\ Len(Tail(s)) = Len(s) - 1 /\ x = s[1] /\ s[1] \in [call : Asker, cmd : Agent!Requests]
      /\ 1 \in DOMAIN s /\ \A i \in DOMAIN Tail(s) : i + 1 \in DOMAIN s /\ Tail(s)[i] = s[i + 1]
  <2>1. s # <<>> /\ x = Head(s)
    BY <1>1, <1>c, <1>d
  <2> QED
    BY <2>1, HoldsTail
<1>4. x = v3[head][1] /\ x \in [call : Asker, cmd : Agent!Requests] /\ 1 \in DOMAIN v3[head]
  BY <1>d, <1>e
<1>5. v3'[head] = Tail(v3[head]) /\ \A d \in Asker : d # head => v3'[d] = v3[d]
  BY <1>0, <1>1, <1>2 DEF Agent!TypeOK
<1>6. Agent!Unserved(head) /\ Agent!Synchronises(head) /\ Agent!Exchanges(head) /\ Agent!RunsScript(head)
  BY <1>0, <1>2 DEF Agent!Sound
<1>7. x.call = head
  BY <1>4, <1>6 DEF Agent!RunsScript
<1>8. Agent!TypeOK'
  <2>1. Tail(v3[head]) \in Seq([call : Asker, cmd : Agent!Requests])
    BY <1>1, <1>3, HoldsTail
  <2>2. v4' \in Seq([call : Asker, cmd : Agent!Requests])
    BY <1>1, <1>3, <1>4
  <2>3. v3' \in [Asker -> Seq([call : Asker, cmd : Agent!Requests])]
    BY <1>0, <1>1, <2>1 DEF Agent!TypeOK
  <2> QED
    BY <1>0, <1>1, <2>2, <2>3 DEF Agent!TypeOK
<1>9. Agent!Queued'
  BY <1>0, <1>1 DEF Agent!Queued
<1>10. ASSUME NEW d \in Asker, d # head PROVE Agent!Sound(d)'
  <2>1. ~Agent!Served(d) /\ ~Agent!Served(d)'
    BY <1>1, <1>2, <1>10 DEF Agent!Served
  <2>2. ASSUME NEW m \in Agent!Message, m.call = d
        PROVE  /\ Agent!Holds(v4', m) => Agent!Holds(v4, m)
               /\ Agent!Once(v4, m) => Agent!Once(v4', m)
    <3>1. x # m
      BY <1>7, <1>10, <2>2
    <3> QED
      BY <1>1, <1>3, <1>4, <3>1, HoldsAppend
  <2> QED
    BY <1>1, <1>5, <1>10, <2>1, <2>2, OtherAskers
<1>11. Agent!Sound(head)'
  <2>1. Agent!Served(head)'
    BY <1>1, <1>2 DEF Agent!Served
  <2>2. /\ v3'[head] \in Seq([call : Asker, cmd : Agent!Requests]) /\ Len(v3'[head]) = Len(v3[head]) - 1
        /\ Len(v4') = Len(v4) + 1 /\ Len(v3[head]) \in Nat /\ Len(v4) \in Nat /\ Len(v5) \in Nat
        /\ \A i \in DOMAIN v3'[head] : i + 1 \in DOMAIN v3[head] /\ v3'[head][i] = v3[head][i + 1]
    <3>1. v5 \in Seq(Agent!Message)
      BY <1>0 DEF Agent!TypeOK
    <3>2. Len(s) \in Nat /\ Len(v4) \in Nat /\ Len(v5) \in Nat
      BY <1>3, <3>1
    <3>3. Len(v4') = Len(v4) + 1
      BY <1>1, <1>3, <1>4, HoldsAppend
    <3>4. v3'[head] = Tail(s) /\ v3[head] = s
      BY <1>5, <1>d
    <3> QED
      BY <1>e, <3>2, <3>3, <3>4
  <2>3. ASSUME NEW m
        PROVE  /\ Agent!Holds(v3[head], m) <=> x = m \/ Agent!Holds(v3'[head], m)
               /\ Agent!EndsWith(v3[head], m) => Agent!EndsWith(v3'[head], m)
               /\ Agent!Once(v3[head], m) => Agent!Once(v3'[head], m)
               /\ Agent!Once(v3[head], m) /\ x = m => ~Agent!Holds(v3'[head], m)
               /\ Agent!EndsWith(v3[head], m) /\ x = m => v3'[head] = <<>>
    <3>1. /\ Agent!Holds(s, m) <=> s[1] = m \/ Agent!Holds(Tail(s), m)
          /\ Agent!EndsWith(s, m) => Agent!EndsWith(Tail(s), m)
          /\ Agent!Once(s, m) => Agent!Once(Tail(s), m)
          /\ Agent!Once(s, m) /\ s[1] = m => ~Agent!Holds(Tail(s), m)
          /\ Agent!EndsWith(s, m) /\ s[1] = m => Tail(s) = <<>>
      BY <1>e, HoldsTail
    <3> QED
      BY <1>5, <1>d, <1>e, <3>1
  <2>4. ASSUME NEW m
        PROVE  /\ Agent!Holds(v4', m) <=> Agent!Holds(v4, m) \/ x = m
               /\ ~Agent!Holds(v4, m) => Agent!EndsWith(v4', m) /\ Agent!Once(v4', m)
               /\ x # m /\ Agent!Once(v4, m) => Agent!Once(v4', m)
    BY <1>1, <1>3, <1>4, HoldsAppend
  <2>5. Agent!Synchronises(head)'
    <3> SUFFICES ASSUME v6[head] \in {"sync", "resync"} PROVE Agent!Synchronises(head)'
      BY <1>1 DEF Agent!Synchronises
    <3> DEFINE r == Agent!Request(head, v6[head])
    <3>1. /\ ~Agent!Holds(v5, r) /\ ~Agent!Holds(v4, r) /\ Agent!EndsWith(v3[head], r)
          /\ v6[head] = "sync" => /\ Agent!HeardOnly(head, "sync")
                                  /\ \A i \in DOMAIN v3[head] : v3[head][i].cmd = "sync"
      BY <1>1, <1>2, <1>6 DEF Agent!Synchronises
    <3>2. Agent!Holds(v4', r) => v3'[head] = <<>> /\ Agent!EndsWith(v4', r)
      BY <2>3, <2>4, <3>1
    <3>3. Agent!EndsWith(v3'[head], r)
      BY <2>3, <3>1
    <3>4. v6[head] = "sync" => \A i \in DOMAIN v3'[head] : v3'[head][i].cmd = "sync"
      BY <2>2, <3>1
    <3>5. v6[head] = "sync" => Agent!HeardOnly(head, "sync")'
      BY <1>1, <1>4, <2>4, <3>1 DEF Agent!HeardOnly
    <3> QED
      BY <1>1, <3>1, <3>2, <3>3, <3>4, <3>5 DEF Agent!Synchronises
  <2>6. Agent!Exchanges(head)'
    <3> SUFFICES ASSUME v6[head] \notin {"sync", "resync", Agent!Closing} PROVE Agent!Exchanges(head)'
      BY <1>1 DEF Agent!Exchanges
    <3>1. /\ Len(v5) + Len(v4) + Len(v3[head]) <= IF v6[head] = Agent!Asleep THEN 0 ELSE 1
          /\ \A i \in DOMAIN v3[head] : v3[head][i] = Agent!Request(head, v6[head])
          /\ \A i \in DOMAIN v4 : v4[i] = Agent!Request(head, v6[head])
          /\ \A i \in DOMAIN v5 :
               /\ v5[i].call = head /\ v5[i].cmd \in {v6[head], "error", "running"}
               /\ v5[i].cmd = "running" => v6[head] = "exec-status"
      BY <1>2, <1>6 DEF Agent!Exchanges
    <3>2. Len(v5) + Len(v4') + Len(v3'[head]) <= IF v6[head] = Agent!Asleep THEN 0 ELSE 1
      <4>1. Len(v5) + (Len(v4) + 1) + (Len(v3[head]) - 1) = Len(v5) + Len(v4) + Len(v3[head])
        <5>1. PICK i \in Nat, j \in Nat, k \in Nat : i = Len(v5) /\ j = Len(v4) /\ k = Len(v3[head])
          BY <2>2
        <5>2. i + (j + 1) + (k - 1) = i + j + k
          OBVIOUS
        <5> QED
          BY <5>1, <5>2
      <4> QED
        BY <2>2, <3>1, <4>1
    <3>3. \A i \in DOMAIN v3'[head] : v3'[head][i] = Agent!Request(head, v6[head])
      BY <2>2, <3>1
    <3>4. \A i \in DOMAIN v4' : v4'[i] = Agent!Request(head, v6[head])
      <4>1. x = Agent!Request(head, v6[head])
        BY <1>4, <3>1
      <4> QED
        BY <1>1, <1>3, <1>4, <3>1, <4>1
    <3> QED
      BY <1>1, <3>1, <3>2, <3>3, <3>4 DEF Agent!Exchanges
  <2>7. Agent!RunsScript(head)'
    <3>1. \A i \in DOMAIN v3'[head] : v3'[head][i].call = head
      BY <1>6, <2>2 DEF Agent!RunsScript
    <3> DEFINE r == Agent!Request(head, "exec")
    <3>2. /\ Agent!Once(v3'[head], r) /\ Agent!Once(v4', r)
          /\ ~(Agent!Holds(v3'[head], r) /\ Agent!Holds(v4', r))
          /\ Agent!Holds(v3'[head], r) \/ Agent!Holds(v4', r) => Agent!Holds(v3[head], r) \/ Agent!Holds(v4, r)
      BY <1>6, <2>3, <2>4 DEF Agent!RunsScript
    <3> HIDE DEF r
    <3> QED
      BY <1>1, <1>6, <3>1, <3>2 DEF Agent!RunsScript, r
  <2> QED
    BY <2>1, <2>5, <2>6, <2>7 DEF Agent!Sound, Agent!Unserved
<1> QED
  BY <1>0, <1>1, <1>8, <1>9, <1>10, <1>11 DEF Agent!IInv

\* An answer names the call and the command it answers, but for an error and for the news
\* that the script runs.
LEMMA Answered ==
  ASSUME NEW req \in [call : Asker, cmd : Agent!Requests], NEW a \in Agent!Answers(req)
  PROVE  /\ a \in Agent!Message /\ req \in Agent!Message /\ a.call = req.call
         /\ a.cmd \in Agent!Requests => a = req
         /\ a.cmd \in {req.cmd, "error", "running"}
         /\ a.cmd = "running" => req.cmd = "exec-status"
         /\ req.cmd \in {"sync", "resync"} => a = req
<1>1. a \in {req, [req EXCEPT !.cmd = "running"], [req EXCEPT !.cmd = "error"]}
      /\ (a = [req EXCEPT !.cmd = "running"] => req.cmd = "exec-status")
      /\ (req.cmd \in {"sync", "resync"} => a = req)
  <2>1. CASE req.cmd \in {"sync", "resync"}
    BY <2>1 DEF Agent!Answers, Agent!Requests
  <2>2. CASE req.cmd = "exec-status"
    BY <2>2 DEF Agent!Answers
  <2>3. CASE req.cmd \notin {"sync", "resync", "exec-status"}
    <3>1. a \in {req, [req EXCEPT !.cmd = "error"]}
      BY <2>3 DEF Agent!Answers
    <3>2. [req EXCEPT !.cmd = "error"] # [req EXCEPT !.cmd = "running"] /\ req # [req EXCEPT !.cmd = "running"]
      BY DEF Agent!Requests
    <3> QED
      BY <2>3, <3>1, <3>2
  <2> QED
    BY <2>1, <2>2, <2>3
<1>2. {"error", "running"} \cap Agent!Requests = {}
  BY DEF Agent!Requests
<1>3. /\ [req EXCEPT !.cmd = "running"] = [call |-> req.call, cmd |-> "running"]
      /\ [req EXCEPT !.cmd = "error"] = [call |-> req.call, cmd |-> "error"]
      /\ req = [call |-> req.call, cmd |-> req.cmd]
  OBVIOUS
<1>4. CASE a = req
  BY <1>2, <1>3, <1>4, <1>1 DEF Agent!Message, Agent!Requests
<1>5. CASE a = [call |-> req.call, cmd |-> "running"]
  BY <1>1, <1>2, <1>3, <1>5 DEF Agent!Message
<1>6. CASE a = [call |-> req.call, cmd |-> "error"]
  BY <1>1, <1>2, <1>3, <1>6 DEF Agent!Message
<1> QED
  BY <1>1, <1>3, <1>4, <1>5, <1>6

LEMMA AgentServe == ASSUME Agent!IInv, Agent!Serve PROVE Agent!IInv'
<1>0. Agent!TypeOK /\ Agent!Queued /\ v10 = {} /\ (\A d \in Asker : Agent!Sound(d))
  BY DEF Agent!IInv
<1> DEFINE Req == [call : Asker, cmd : Agent!Requests]
<1>1. v4 # <<>> /\ v4 \in Seq(Req) /\ v5 \in Seq(Agent!Message)
  BY <1>0 DEF Agent!Serve, Agent!TypeOK
<1>2. PICK req \in Req : req = Head(v4)
  <2> HIDE DEF Req
  <2> QED
    BY <1>1, HoldsTail
<1>3. /\ v4' = Tail(v4) /\ UNCHANGED <<v1, v2, v3, v6, v7, v8, v10>>
  BY DEF Agent!Serve
<1>4. PICK a \in Agent!Answers(req) :
        /\ v5' = Append(v5, a) \/ v5' = v5
        /\ v9' = IF req.cmd = "exec" /\ a.cmd = "exec" THEN [v9 EXCEPT ![req.call] = @ + 1] ELSE v9
  BY <1>2 DEF Agent!Serve
<1>5. /\ a \in Agent!Message /\ req \in Agent!Message /\ a.call = req.call
      /\ a.cmd \in Agent!Requests => a = req
      /\ a.cmd \in {req.cmd, "error", "running"}
      /\ a.cmd = "running" => req.cmd = "exec-status"
      /\ req.cmd \in {"sync", "resync"} => a = req
  BY Answered
<1>6. /\ v4' \in Seq(Req) /\ Len(v4') = Len(v4) - 1 /\ Len(v4) >= 1 /\ Len(v4) \in Nat
      /\ v4[1] = req /\ 1 \in DOMAIN v4
      /\ \A i \in DOMAIN v4' : i + 1 \in DOMAIN v4 /\ v4'[i] = v4[i + 1]
  <2> HIDE DEF Req
  <2> QED
    BY <1>1, <1>2, <1>3, HoldsTail
<1>7. ASSUME NEW m
      PROVE  /\ Agent!Holds(v4, m) <=> req = m \/ Agent!Holds(v4', m)
             /\ Agent!EndsWith(v4, m) => Agent!EndsWith(v4', m)
             /\ Agent!Once(v4, m) => Agent!Once(v4', m)
             /\ Agent!Once(v4, m) /\ req = m => ~Agent!Holds(v4', m)
             /\ Agent!EndsWith(v4, m) /\ req = m => v4' = <<>>
  <2> HIDE DEF Req
  <2> QED
    BY <1>1, <1>3, <1>6, HoldsTail
<1>8. ASSUME NEW m
      PROVE  /\ Agent!Holds(v5, m) => Agent!Holds(v5', m)
             /\ Agent!Holds(v5', m) => Agent!Holds(v5, m) \/ a = m
             /\ ~Agent!Holds(v5, m) => Agent!EndsWith(v5', m)
  <2>1. CASE v5' = v5
    BY <2>1 DEF Agent!Holds, Agent!EndsWith
  <2>2. CASE v5' = Append(v5, a)
    BY <1>1, <1>5, <2>2, HoldsAppend
  <2> QED
    BY <1>4, <2>1, <2>2
<1>9. /\ v5' \in Seq(Agent!Message) /\ Len(v5') \in Nat /\ Len(v5') <= Len(v5) + 1 /\ Len(v5) \in Nat
      /\ \A i \in DOMAIN v5' : (i \in DOMAIN v5 /\ v5'[i] = v5[i]) \/ v5'[i] = a
  <2>1. CASE v5' = v5
    BY <1>1, <2>1
  <2>2. CASE v5' = Append(v5, a)
    BY <1>1, <1>5, <2>2
  <2> QED
    BY <1>4, <2>1, <2>2
<1>10. Agent!TypeOK'
  <2>1. v9' \in [Asker -> Nat]
    BY <1>0, <1>4 DEF Agent!TypeOK
  <2> QED
    BY <1>0, <1>3, <1>6, <1>9, <2>1 DEF Agent!TypeOK
<1>11. Agent!Queued'
  BY <1>0, <1>3 DEF Agent!Queued
<1>12. ASSUME NEW d \in Asker PROVE Agent!Sound(d)'
  <2>1. Agent!Unserved(d) /\ Agent!Synchronises(d) /\ Agent!Exchanges(d) /\ Agent!RunsScript(d)
    BY <1>0 DEF Agent!Sound
  <2>2. Agent!Served(d)' <=> Agent!Served(d)
    BY <1>3 DEF Agent!Served
  <2>3. ASSUME NEW cmd, Agent!HeardOnly(d, cmd), cmd \in {"none", "sync"} PROVE Agent!HeardOnly(d, cmd)'
    <3> SUFFICES ASSUME NEW m \in Agent!Message, m.call = d,
                        Agent!Holds(v4', m) \/ Agent!Holds(v5', m)
                 PROVE  m.cmd = cmd
      BY DEF Agent!HeardOnly
    <3>1. CASE Agent!Holds(v4, m) \/ Agent!Holds(v5, m)
      BY <2>3, <3>1 DEF Agent!HeardOnly
    <3>2. CASE ~Agent!Holds(v4, m) /\ ~Agent!Holds(v5, m)
      <4>1. a = m /\ req.call = d /\ Agent!Holds(v4, req)
        BY <1>5, <1>7, <1>8, <3>2
      <4>2. req.cmd = cmd
        BY <1>5, <2>3, <4>1 DEF Agent!HeardOnly
      <4>3. req.cmd # "none"
        BY <1>2 DEF Agent!Requests
      <4> QED
        BY <1>5, <2>3, <4>1, <4>2, <4>3
    <3> QED
      BY <3>1, <3>2
  <2>4. Agent!Unserved(d)'
    BY <1>3, <2>1, <2>2, <2>3 DEF Agent!Unserved, Agent!None
  <2>5. Agent!Synchronises(d)'
    <3> SUFFICES ASSUME Agent!Served(d), v6[d] \in {"sync", "resync"} PROVE Agent!Synchronises(d)'
      BY <1>3, <2>2 DEF Agent!Synchronises
    <3> DEFINE r == Agent!Request(d, v6[d])
    <3>1. /\ Agent!Holds(v5, r) => v4 = <<>>
          /\ Agent!Holds(v4, r) => v3[d] = <<>> /\ Agent!EndsWith(v4, r)
          /\ Agent!EndsWith(v3[d], r)
          /\ v6[d] = "sync" => /\ Agent!HeardOnly(d, "sync")
                               /\ \A i \in DOMAIN v3[d] : v3[d][i].cmd = "sync"
      BY <2>1 DEF Agent!Synchronises
    <3>2. ~Agent!Holds(v5, r)
      BY <1>1, <3>1
    <3>3. r.cmd \in Agent!Requests
      BY DEF Agent!Request, Agent!Requests
    <3>4. Agent!Holds(v5', r) => v4' = <<>> /\ v3[d] = <<>> /\ Agent!EndsWith(v5', r)
      <4> SUFFICES ASSUME Agent!Holds(v5', r) PROVE v4' = <<>> /\ v3[d] = <<>> /\ Agent!EndsWith(v5', r)
        OBVIOUS
      <4>1. a = r
        BY <1>8, <3>2
      <4>2. req = r
        BY <1>5, <3>3, <4>1
      <4>3. Agent!Holds(v4, r)
        BY <1>7, <4>2
      <4>4. v4' = <<>>
        BY <1>7, <3>1, <4>2, <4>3
      <4> QED
        BY <1>8, <3>1, <3>2, <4>3, <4>4
    <3>5. Agent!Holds(v4', r) => v3[d] = <<>> /\ Agent!EndsWith(v4', r)
      BY <1>7, <3>1
    <3>6. v6[d] = "sync" => Agent!HeardOnly(d, "sync")'
      BY <2>3, <3>1
    <3> QED
      BY <1>3, <3>1, <3>4, <3>5, <3>6 DEF Agent!Synchronises
  <2>6. Agent!Exchanges(d)'
    <3> SUFFICES ASSUME Agent!Served(d), v6[d] \notin {"sync", "resync", Agent!Closing}
                 PROVE  Agent!Exchanges(d)'
      BY <1>3, <2>2 DEF Agent!Exchanges
    <3>1. /\ Len(v5) + Len(v4) + Len(v3[d]) <= IF v6[d] = Agent!Asleep THEN 0 ELSE 1
          /\ \A i \in DOMAIN v3[d] : v3[d][i] = Agent!Request(d, v6[d])
          /\ \A i \in DOMAIN v4 : v4[i] = Agent!Request(d, v6[d])
          /\ \A i \in DOMAIN v5 :
               /\ v5[i].call = d /\ v5[i].cmd \in {v6[d], "error", "running"}
               /\ v5[i].cmd = "running" => v6[d] = "exec-status"
      BY <2>1 DEF Agent!Exchanges
    <3>2. Len(v5') + Len(v4') + Len(v3[d]) <= IF v6[d] = Agent!Asleep THEN 0 ELSE 1
      <4>1. v3[d] \in Seq(Req)
        BY <1>0 DEF Agent!TypeOK
      <4>2. Len(v3[d]) \in Nat
        BY <4>1
      <4>3. (IF v6[d] = Agent!Asleep THEN 0 ELSE 1) \in {0, 1}
        OBVIOUS
      <4> QED
        BY <1>6, <1>9, <3>1, <4>2, <4>3, SumStays
    <3>3. \A i \in DOMAIN v4' : v4'[i] = Agent!Request(d, v6[d])
      BY <1>6, <3>1
    <3>4. req.call = d /\ req.cmd = v6[d]
      BY <1>6, <3>1 DEF Agent!Request
    <3>5. \A i \in DOMAIN v5' :
               /\ v5'[i].call = d /\ v5'[i].cmd \in {v6[d], "error", "running"}
               /\ v5'[i].cmd = "running" => v6[d] = "exec-status"
      BY <1>5, <1>9, <3>1, <3>4
    <3> QED
      BY <1>3, <3>1, <3>2, <3>3, <3>5 DEF Agent!Exchanges
  <2>7. Agent!RunsScript(d)'
    <3> DEFINE r == Agent!Request(d, "exec")
    <3>1. r.cmd = "exec" /\ r.call = d /\ "exec" \in Agent!Requests
      BY DEF Agent!Request, Agent!Requests
    <3>2. a = r => req = r
      BY <1>5, <3>1
    <3>3. req.cmd = "exec" /\ a.cmd = "exec" <=> a = req /\ req.cmd = "exec"
      BY <1>5, <3>1
    <3>4. req.call = d /\ req.cmd = "exec" <=> req = r
      BY <1>2 DEF Agent!Request
    <3>5. v9[d] \in Nat
      BY <1>0 DEF Agent!TypeOK
    <3>6. v9'[d] = IF a = r THEN v9[d] + 1 ELSE v9[d]
      <4>1. CASE a = r
        BY <1>0, <1>4, <3>1, <3>2, <4>1 DEF Agent!TypeOK
      <4>2. CASE a # r
        <5>1. req.cmd = "exec" /\ a.cmd = "exec" => req.call # d
          BY <3>3, <3>4, <4>2
        <5> QED
          BY <1>0, <1>4, <4>2, <5>1 DEF Agent!TypeOK
      <4> QED
        BY <4>1, <4>2
    <3>7. /\ Agent!Once(v3[d], r) /\ Agent!Once(v4, r) /\ ~(Agent!Holds(v3[d], r) /\ Agent!Holds(v4, r))
          /\ Agent!Holds(v3[d], r) \/ Agent!Holds(v4, r) \/ v6[d] \in {Agent!Idle, "sync", "resync"} => v9[d] = 0
          /\ v6[d] \in {Agent!Idle, "sync", "resync"} => ~Agent!Holds(v3[d], r) /\ ~Agent!Holds(v4, r)
          /\ Agent!Holds(v5, r) \/ v6[d] \in {"exec-status", Agent!Asleep} => v9[d] = 1
          /\ v9[d] <= 1
          /\ AgentOp[d] = "exec" /\ v8[d] = "ok" => v9[d] = 1
      BY <2>1 DEF Agent!RunsScript
    <3>8. /\ Agent!Holds(v4, r) <=> req = r \/ Agent!Holds(v4', r)
          /\ Agent!Once(v4', r)
          /\ req = r => ~Agent!Holds(v4', r)
          /\ Agent!Holds(v5', r) => Agent!Holds(v5, r) \/ a = r
      BY <1>7, <1>8, <3>7
    <3> HIDE DEF r
    <3>9. CASE a = r
      <4>1. v9[d] = 0 /\ v9'[d] = 1 /\ ~Agent!Holds(v4', r) /\ ~Agent!Holds(v3[d], r)
            /\ v6[d] \notin {Agent!Idle, "sync", "resync"} /\ v6[d] \notin {"exec-status", Agent!Asleep}
            /\ ~(AgentOp[d] = "exec" /\ v8[d] = "ok")
        BY <3>2, <3>6, <3>7, <3>8, <3>9
      <4> QED
        BY <1>3, <2>1, <3>7, <3>8, <4>1 DEF Agent!RunsScript, r
    <3>10. CASE a # r
      <4>1. v9'[d] = v9[d] /\ (Agent!Holds(v5', r) => Agent!Holds(v5, r))
            /\ (Agent!Holds(v4', r) => Agent!Holds(v4, r))
        BY <3>6, <3>8, <3>10
      <4> QED
        BY <1>3, <2>1, <3>7, <3>8, <4>1 DEF Agent!RunsScript, r
    <3> QED
      BY <3>9, <3>10
  <2> QED
    BY <2>4, <2>5, <2>6, <2>7 DEF Agent!Sound
<1> QED
  BY <1>0, <1>3, <1>10, <1>11, <1>12 DEF Agent!IInv

\* A chunk that a served call reads.
LEMMA ChunkRead ==
  ASSUME Agent!IInv, NEW c \in Asker, Agent!Chunk(c)
  PROVE  /\ Agent!Served(c) /\ Len(v5) >= 1 /\ v5[1] \in Agent!Message /\ Head(v5) = v5[1] /\ 1 \in DOMAIN v5
         /\ v5' \in Seq(Agent!Message) /\ (Len(v5) = 1 => v5' = <<>>)
         /\ \A m : Agent!Holds(v5', m) => Agent!Holds(v5, m)
         /\ v6[c] \notin {Agent!Idle, Agent!None}
         /\ v3[c] \in Seq([call : Asker, cmd : Agent!Requests])
         /\ v4 \in Seq([call : Asker, cmd : Agent!Requests])
         /\ UNCHANGED <<v1, v2, v4, v9>>
<1>1. v2 # <<>> /\ c = Head(v2) /\ v5 # <<>> /\ UNCHANGED <<v1, v2, v4, v9>>
  BY DEF Agent!Chunk
<1>2. v2 \in Seq(Asker) /\ v5 \in Seq(Agent!Message) /\ v3[c] \in Seq([call : Asker, cmd : Agent!Requests])
      /\ v4 \in Seq([call : Asker, cmd : Agent!Requests])
  BY DEF Agent!IInv, Agent!TypeOK
<1>3. PICK n \in 1 .. Len(v5) : v5' = SubSeq(v5, n + 1, Len(v5))
  BY DEF Agent!Chunk
<1>4. /\ v5' \in Seq(Agent!Message) /\ Len(v5') = Len(v5) - n
      /\ \A m : Agent!Holds(v5', m) => Agent!Holds(v5, m)
  BY <1>2, <1>3, HoldsDrop
<1>5. c = v2[1] /\ 1 \in DOMAIN v2 /\ Len(v5) >= 1 /\ v5[1] \in Agent!Message /\ Head(v5) = v5[1] /\ 1 \in DOMAIN v5
  BY <1>1, <1>2
<1>6. Len(v5) = 1 => v5' = <<>>
  <2>1. Len(v5) = 1 => Len(v5') = 0
    BY <1>3, <1>4
  <2> QED
    BY <1>4, <2>1
<1>7. v6[c] \notin {Agent!Idle, Agent!None}
  BY <1>5 DEF Agent!IInv, Agent!Queued
<1> QED
  BY <1>1, <1>2, <1>4, <1>5, <1>6, <1>7 DEF Agent!Served

LEMMA AgentSyncs ==
  ASSUME Agent!IInv, NEW c \in Asker, Agent!Chunk(c), v6[c] \in {"sync", "resync"}
  PROVE  Agent!IInv'
<1>0. Agent!TypeOK /\ v10 = {} /\ Agent!Synchronises(c) /\ Agent!RunsScript(c)
  BY DEF Agent!IInv, Agent!Sound
<1>1. /\ Agent!Served(c) /\ Len(v5) >= 1 /\ v5[1] \in Agent!Message /\ Head(v5) = v5[1] /\ 1 \in DOMAIN v5
      /\ v5' \in Seq(Agent!Message) /\ (Len(v5) = 1 => v5' = <<>>)
      /\ \A m : Agent!Holds(v5', m) => Agent!Holds(v5, m)
      /\ v6[c] \notin {Agent!Idle, Agent!None}
      /\ v3[c] \in Seq([call : Asker, cmd : Agent!Requests])
      /\ v4 \in Seq([call : Asker, cmd : Agent!Requests])
      /\ UNCHANGED <<v1, v2, v4, v9>>
  BY ChunkRead
<1> DEFINE r == Agent!Request(c, v6[c])
<1>2. Agent!OnSync(c, v5[1]) /\ UNCHANGED <<v7, v10>>
  BY <1>1 DEF Agent!Chunk, Agent!Waiting, Agent!OnSync, Agent!Idle, Agent!Asleep, Agent!Closing, Agent!None
<1>3. CASE v5[1] = r
  <2>1. Agent!Send(c, Agent!First[AgentOp[c]]) /\ v8' = v8
    BY <1>2, <1>3 DEF Agent!OnSync, Agent!Synced
  <2>2. Agent!Holds(v5, r)
    BY <1>1, <1>3 DEF Agent!Holds
  <2>3. v4 = <<>> /\ v3[c] = <<>> /\ Agent!EndsWith(v5, r)
    BY <1>0, <1>1, <2>2 DEF Agent!Synchronises
  <2>4. v5' = <<>>
    BY <1>1, <1>3, <2>3 DEF Agent!EndsWith
  <2>5. PICK cmd \in {"run", "exec", "file-open", "shutdown"} :
          cmd = Agent!First[AgentOp[c]] /\ (AgentOp[c] = "exec" => cmd = "exec")
    <3>1. AgentOp[c] \in {"run", "exec", "write", "shutdown"}
      BY GuestAssumption DEF Agent!QgaAssumption
    <3> QED
      BY <3>1 DEF Agent!First
  <2>6. v9[c] = 0
    BY <1>0 DEF Agent!RunsScript
  <2>7. cmd \in Agent!Requests
    BY <2>5 DEF Agent!Requests
  <2>8. Agent!Send(c, cmd) /\ cmd \notin {"sync", "resync"} /\ cmd # "exec-status"
    BY <2>1, <2>5
  <2> QED
    BY <1>1, <1>2, <2>1, <2>3, <2>4, <2>5, <2>6, <2>7, <2>8, OneSends
<1>4. CASE v5[1] # r /\ v6[c] = "sync" /\ v5[1].cmd # "error"
  <2>1. /\ v3' = [v3 EXCEPT ![c] = Append(@, Agent!Request(c, "resync"))] /\ v6' = [v6 EXCEPT ![c] = "resync"]
        /\ v8' = v8
    BY <1>2, <1>4 DEF Agent!OnSync, Agent!Synced, Agent!Send
  <2>2. "resync" \in Agent!Requests
    BY DEF Agent!Requests
  <2> DEFINE q == Agent!Request(c, "resync")  x == Agent!Request(c, "exec")
  <2>3. /\ q \in [call : Asker, cmd : Agent!Requests] /\ q \in Agent!Message /\ q.call = c /\ q.cmd = "resync"
        /\ x.cmd = "exec" /\ q # x
    BY DEF Agent!Request, Agent!Message, Agent!Requests
  <2>4. Agent!TypeOK'
    BY <1>0, <1>1, <1>2, <2>1, <2>2, AgentTyped DEF Agent!TypeOK
  <2>5. /\ v3'[c] = Append(v3[c], q) /\ v6'[c] = "resync"
        /\ \A d \in Asker : d # c => v3'[d] = v3[d] /\ v6'[d] = v6[d]
    BY <1>0, <2>1 DEF Agent!TypeOK
  <2>6. Agent!HeardOnly(c, "sync") /\ \A i \in DOMAIN v3[c] : v3[c][i].cmd = "sync"
    BY <1>0, <1>1, <1>4 DEF Agent!Synchronises
  <2>7. ~Agent!Holds(v4, q) /\ ~Agent!Holds(v5, q) /\ ~Agent!Holds(v3[c], q)
    BY <2>3, <2>6 DEF Agent!HeardOnly, Agent!Holds
  <2>8. /\ Agent!EndsWith(v3'[c], q)
        /\ Agent!Holds(v3'[c], x) <=> Agent!Holds(v3[c], x)
        /\ Agent!Once(v3[c], x) => Agent!Once(v3'[c], x)
    <3> PICK u \in Seq([call : Asker, cmd : Agent!Requests]) : u = v3[c]
      BY <1>1
    <3> HIDE DEF q, x
    <3>1. /\ ~Agent!Holds(u, q) => Agent!EndsWith(Append(u, q), q)
          /\ Agent!Holds(Append(u, q), x) <=> Agent!Holds(u, x) \/ q = x
          /\ q # x /\ Agent!Once(u, x) => Agent!Once(Append(u, q), x)
      BY <2>3, HoldsAppend
    <3> QED
      BY <2>3, <2>5, <2>7, <3>1
  <2>9. \A i \in DOMAIN v3'[c] : v3'[c][i].call = c
    <3>1. \A i \in DOMAIN v3[c] : v3[c][i].call = c
      BY <1>0 DEF Agent!RunsScript
    <3> QED
      BY <1>1, <2>3, <2>5, <3>1
  <2>10. Agent!Served(c)'
    BY <1>1 DEF Agent!Served
  <2>11. Agent!Synchronises(c)'
    BY <1>1, <2>5, <2>7, <2>8 DEF Agent!Synchronises
  <2>12. Agent!RunsScript(c)'
    BY <1>0, <1>1, <1>4, <2>1, <2>5, <2>8, <2>9 DEF Agent!RunsScript, Agent!Idle, Agent!Asleep
  <2>13. Agent!Sound(c)'
    BY <2>5, <2>10, <2>11, <2>12 DEF Agent!Sound, Agent!Unserved, Agent!Exchanges
  <2> QED
    BY <1>1, <1>2, <2>1, <2>4, <2>5, <2>13, OneMoves DEF Agent!Idle, Agent!None
<1>5. CASE v5[1] # r /\ ~(v6[c] = "sync" /\ v5[1].cmd # "error")
  <2>1. Agent!End(c, "failed") /\ v3' = v3
    BY <1>2, <1>5 DEF Agent!OnSync, Agent!Synced
  <2> QED
    BY <1>0, <1>1, <1>2, <2>1, OneEnds DEF Agent!TypeOK
<1> QED
  BY <1>3, <1>4, <1>5

LEMMA AgentHears ==
  ASSUME Agent!IInv, NEW c \in Asker, Agent!Chunk(c), v6[c] \notin {"sync", "resync", Agent!Closing}
  PROVE  Agent!IInv'
<1>0. Agent!TypeOK /\ v10 = {} /\ Agent!Exchanges(c) /\ Agent!RunsScript(c)
  BY DEF Agent!IInv, Agent!Sound
<1>1. /\ Agent!Served(c) /\ Len(v5) >= 1 /\ v5[1] \in Agent!Message /\ Head(v5) = v5[1] /\ 1 \in DOMAIN v5
      /\ v5' \in Seq(Agent!Message) /\ (Len(v5) = 1 => v5' = <<>>)
      /\ \A m : Agent!Holds(v5', m) => Agent!Holds(v5, m)
      /\ v6[c] \notin {Agent!Idle, Agent!None}
      /\ v3[c] \in Seq([call : Asker, cmd : Agent!Requests])
      /\ v4 \in Seq([call : Asker, cmd : Agent!Requests])
      /\ UNCHANGED <<v1, v2, v4, v9>>
  BY ChunkRead
<1>2. /\ Len(v5) + Len(v4) + Len(v3[c]) <= IF v6[c] = Agent!Asleep THEN 0 ELSE 1
      /\ v5[1].call = c /\ v5[1].cmd \in {v6[c], "error", "running"}
      /\ v5[1].cmd = "running" => v6[c] = "exec-status"
  BY <1>0, <1>1 DEF Agent!Exchanges
<1>3. Len(v5) \in Nat /\ Len(v4) \in Nat /\ Len(v3[c]) \in Nat
  <2>1. v5 \in Seq(Agent!Message)
    BY <1>0 DEF Agent!TypeOK
  <2> QED
    BY <1>1, <2>1
<1>4. v6[c] # Agent!Asleep
  <2>1. CASE v6[c] = Agent!Asleep
    <3>1. Len(v5) + Len(v4) + Len(v3[c]) <= 0
      BY <1>2, <2>1
    <3>2. Len(v5) = 0
      BY <1>3, <3>1, SumIsSmall
    <3> QED
      BY <1>1, <3>2
  <2> QED
    BY <2>1
<1>5. v4 = <<>> /\ v3[c] = <<>> /\ v5' = <<>>
  <2>1. Len(v5) = 1 /\ Len(v4) = 0 /\ Len(v3[c]) = 0
    BY <1>1, <1>2, <1>3, <1>4, SumIsSmall
  <2> QED
    BY <1>1, <2>1
<1>6. v6[c] \in Agent!Requests \ {"sync", "resync"}
  BY <1>0, <1>1, <1>4 DEF Agent!TypeOK
<1>7. Agent!OnAnswer(c, v5[1])
  BY <1>1, <1>4 DEF Agent!Chunk, Agent!Waiting
<1>8. v10' = v10
  BY <1>0, <1>2, <1>7 DEF Agent!OnAnswer
<1>9. {"error", "running", "idle", "none"} \cap Agent!Requests = {}
  BY DEF Agent!Requests
<1>10. AgentOp[c] = "exec" => v6[c] \in {"exec", "exec-status"}
  BY <1>0, <1>6 DEF Agent!RunsScript, Agent!Requests
<1>11. CASE v5[1].cmd = "error" /\ v6[c] \notin {"shutdown", "file-close"}
  <2>1. Agent!End(c, "failed") /\ UNCHANGED <<v3, v7>>
    BY <1>7, <1>11 DEF Agent!OnAnswer
  <2> QED
    BY <1>0, <1>1, <1>8, <2>1, OneEnds DEF Agent!TypeOK
<1>12. CASE v5[1].cmd # "error" /\ v6[c] = "exec"
  <2>1. v5[1].cmd = "exec"
    BY <1>2, <1>12
  <2>2. Agent!Send(c, "exec-status") /\ UNCHANGED <<v7, v8>>
    BY <1>7, <1>12, <2>1 DEF Agent!OnAnswer
  <2>3. v5[1] = Agent!Request(c, "exec")
    BY <1>1, <1>2, <2>1 DEF Agent!Request, Agent!Message
  <2>4. v9[c] = 1
    BY <1>0, <1>1, <2>3 DEF Agent!RunsScript, Agent!Holds
  <2>5. "exec-status" \in Agent!Requests
    BY DEF Agent!Requests
  <2> QED
    BY <1>1, <1>5, <1>8, <2>2, <2>4, <2>5, OneSends
<1>13. CASE v5[1].cmd = "running"
  <2>1. v6[c] = "exec-status"
    BY <1>2, <1>13
  <2>2. v6' = [v6 EXCEPT ![c] = "asleep"] /\ v7' = [v7 EXCEPT ![c] = @ + 1] /\ UNCHANGED <<v3, v8>>
    BY <1>7, <1>13, <2>1 DEF Agent!OnAnswer, Agent!Asleep
  <2>3. Agent!TypeOK'
    <3>1. v7' \in [Asker -> Nat]
      BY <1>0, <2>2 DEF Agent!TypeOK
    <3>2. v6' \in [Asker -> Agent!Requests \cup {Agent!Idle, Agent!Asleep, Agent!Closing, Agent!None}]
      BY <1>0, <2>2 DEF Agent!TypeOK, Agent!Asleep
    <3> QED
      BY <1>0, <1>1, <2>2, <3>1, <3>2 DEF Agent!TypeOK
  <2>4. v6'[c] = "asleep" /\ \A d \in Asker : d # c => v6'[d] = v6[d]
    BY <1>0, <2>2 DEF Agent!TypeOK
  <2>5. Len(v5') + Len(v4') + Len(v3'[c]) = 0 /\ DOMAIN v5' = {} /\ DOMAIN v4' = {} /\ DOMAIN v3'[c] = {}
    <3>1. v3'[c] = <<>> /\ v4' = <<>> /\ v5' = <<>>
      BY <1>1, <1>5, <2>2
    <3>2. Len(<<>>) + Len(<<>>) + Len(<<>>) = 0 /\ DOMAIN <<>> = {}
      OBVIOUS
    <3> QED
      BY <3>1, <3>2
  <2>6. Agent!Exchanges(c)'
    BY <2>4, <2>5 DEF Agent!Exchanges, Agent!Asleep
  <2>7. Agent!RunsScript(c)'
    BY <1>0, <1>1, <2>1, <2>2, <2>4 DEF Agent!RunsScript, Agent!Idle, Agent!Asleep
  <2>8. Agent!Served(c)'
    BY <1>1 DEF Agent!Served
  <2>9. Agent!Sound(c)'
    BY <2>4, <2>6, <2>7, <2>8 DEF Agent!Sound, Agent!Unserved, Agent!Synchronises
  <2> QED
    BY <1>1, <1>8, <2>2, <2>3, <2>4, <2>9, OneMoves DEF Agent!Idle, Agent!None
<1>14. CASE v5[1].cmd \notin {"error", "running"} /\ v6[c] \in {"file-open", "file-write"}
  <2>1. PICK cmd \in {"file-write", "file-close"} : Agent!Send(c, cmd) /\ UNCHANGED <<v7, v8>>
    BY <1>7, <1>14 DEF Agent!OnAnswer
  <2>2. cmd \in Agent!Requests
    BY <2>1 DEF Agent!Requests
  <2>3. AgentOp[c] # "exec"
    BY <1>10, <1>14
  <2> QED
    BY <1>1, <1>5, <1>8, <2>1, <2>2, <2>3, OneSends
<1>15. CASE /\ ~(v5[1].cmd = "error" /\ v6[c] \notin {"shutdown", "file-close"})
            /\ v6[c] # "exec" \/ v5[1].cmd = "error"
            /\ v5[1].cmd # "running"
            /\ ~(v5[1].cmd # "error" /\ v6[c] \in {"file-open", "file-write"})
  <2>1. Agent!End(c, "ok") /\ UNCHANGED <<v3, v7>>
    BY <1>7, <1>15 DEF Agent!OnAnswer
  <2>2. AgentOp[c] = "exec" => v9[c] = 1
    <3>1. AgentOp[c] = "exec" => v6[c] = "exec-status"
      BY <1>10, <1>15
    <3> QED
      BY <1>0, <3>1 DEF Agent!RunsScript
  <2> QED
    BY <1>0, <1>1, <1>8, <2>1, <2>2, OneEnds DEF Agent!TypeOK
<1> QED
  BY <1>2, <1>11, <1>12, <1>13, <1>14, <1>15

LEMMA AgentChunk == ASSUME Agent!IInv, NEW c \in Asker, Agent!Chunk(c) PROVE Agent!IInv'
<1>1. CASE v6[c] # Agent!Closing
  BY <1>1, AgentSyncs, AgentHears
<1>2. CASE v6[c] = Agent!Closing
  <2>1. /\ Agent!Served(c) /\ v5' \in Seq(Agent!Message) /\ UNCHANGED <<v1, v2, v4, v9>>
        /\ \A m : Agent!Holds(v5', m) => Agent!Holds(v5, m)
    BY ChunkRead
  <2>2. UNCHANGED <<v3, v6, v7, v8, v10>>
    BY <1>2 DEF Agent!Chunk, Agent!Waiting
  <2>3. Agent!TypeOK'
    BY <2>1, <2>2 DEF Agent!IInv, Agent!TypeOK
  <2>4. Agent!RunsScript(c)
    BY DEF Agent!IInv, Agent!Sound
  <2>5. v8[c] = "ok" /\ AgentOp[c] = "exec" => v9[c] = 1
    BY <2>4 DEF Agent!RunsScript
  <2>6. Agent!Sound(c)'
    BY <1>2, <2>1, <2>2, <2>5, AskerEnds
  <2> QED
    BY <1>2, <2>1, <2>2, <2>3, <2>6, OneMoves DEF Agent!Closing, Agent!Idle, Agent!None
<1> QED
  BY <1>1, <1>2

LEMMA AgentShutdown == ASSUME Agent!IInv, Agent!Shutdown PROVE Agent!IInv'
<1>0. Agent!TypeOK /\ Agent!Queued /\ v10 = {} /\ (\A d \in Asker : Agent!Sound(d))
  BY DEF Agent!IInv
<1>1. /\ v1' = FALSE /\ v2' = <<>> /\ v4' = <<>> /\ v5' = <<>> /\ v3' = [c \in Asker |-> <<>>]
      /\ v6' = [c \in Asker |-> IF v6[c] = Agent!Idle THEN Agent!Idle ELSE Agent!None]
      /\ UNCHANGED <<v7, v9, v10>>
  BY DEF Agent!Shutdown
<1>2. v8' = [c \in Asker |->
        CASE Agent!Waiting(c) -> IF v6[c] \in {"shutdown", "file-close"} THEN "ok" ELSE "failed"
          [] v6[c] = Agent!Asleep -> "failed"
          [] OTHER -> v8[c]]
  BY DEF Agent!Shutdown
<1>3. ASSUME NEW c \in Asker
      PROVE  /\ v8'[c] \in {v8[c], "failed", "ok"}
             /\ v8'[c] = "ok" => v8[c] = "ok" \/ v6[c] \in {"shutdown", "file-close"}
  <2>1. CASE Agent!Waiting(c)
    BY <1>2, <2>1
  <2>2. CASE ~Agent!Waiting(c) /\ v6[c] = Agent!Asleep
    BY <1>2, <2>2
  <2>3. CASE ~Agent!Waiting(c) /\ v6[c] # Agent!Asleep
    BY <1>2, <2>3
  <2> QED
    BY <2>1, <2>2, <2>3
<1>4. Agent!TypeOK'
  <2>1. v8' \in [Asker -> {Agent!None, "ok", "failed"}]
    <3>1. v8' = [c \in Asker |-> v8'[c]]
      BY <1>2
    <3>2. \A c \in Asker : v8'[c] \in {Agent!None, "ok", "failed"}
      BY <1>0, <1>3 DEF Agent!TypeOK
    <3> HIDE DEF Agent!None
    <3> QED
      BY <3>1, <3>2
  <2>2. v3' \in [Asker -> Seq([call : Asker, cmd : Agent!Requests])] /\ v2' \in Seq(Asker)
        /\ v4' \in Seq([call : Asker, cmd : Agent!Requests]) /\ v5' \in Seq(Agent!Message)
    BY <1>1
  <2>3. v6' \in [Asker -> Agent!Requests \cup {Agent!Idle, Agent!Asleep, Agent!Closing, Agent!None}]
    BY <1>1
  <2> QED
    BY <1>0, <1>1, <2>1, <2>2, <2>3 DEF Agent!TypeOK
<1>5. Agent!Queued'
  BY <1>1, HoldsNothing DEF Agent!Queued, Agent!Idle, Agent!None
<1>6. ASSUME NEW c \in Asker PROVE Agent!Sound(c)'
  <2>1. v3'[c] = <<>> /\ (v6'[c] = "idle" \/ v6'[c] = "none") /\ (v6'[c] = "idle" <=> v6[c] = "idle")
    BY <1>1 DEF Agent!Idle, Agent!None
  <2>2. ~Agent!Served(c)'
    BY <1>1 DEF Agent!Served
  <2>3. Agent!HeardOnly(c, Agent!None)'
    BY <1>1, HoldsNothing DEF Agent!HeardOnly
  <2>4. Agent!Unserved(c)'
    BY <2>1, <2>3 DEF Agent!Unserved, Agent!Idle, Agent!None
  <2>5. Agent!RunsScript(c)
    BY <1>0 DEF Agent!Sound
  <2>6. v8'[c] = "ok" /\ AgentOp[c] = "exec" => v9[c] = 1
    BY <1>3, <2>5 DEF Agent!RunsScript
  <2>7. /\ \A m : ~Agent!Holds(v3'[c], m) /\ ~Agent!Holds(v4', m) /\ ~Agent!Holds(v5', m)
        /\ \A m : Agent!Once(v3'[c], m) /\ Agent!Once(v4', m)
        /\ DOMAIN v3'[c] = {}
    BY <1>1, <2>1, HoldsNothing
  <2>8. Agent!RunsScript(c)'
    BY <1>1, <2>1, <2>5, <2>6, <2>7 DEF Agent!RunsScript, Agent!Idle, Agent!Asleep
  <2> QED
    BY <2>2, <2>4, <2>8 DEF Agent!Sound, Agent!Synchronises, Agent!Exchanges
<1> QED
  BY <1>0, <1>1, <1>4, <1>5, <1>6 DEF Agent!IInv

LEMMA AgentStep == ASSUME Agent!IInv, [Agent!Next]_(Agent!vars) PROVE Agent!IInv'
<1>1. CASE UNCHANGED Agent!vars
  <2>1. UNCHANGED <<v1, v2, v3, v4, v5, v6, v7, v8, v9, v10>>
    BY <1>1 DEF Agent!vars
  <2>2. Agent!TypeOK' /\ Agent!Queued' /\ v10' = {}
    BY <2>1 DEF Agent!IInv, Agent!TypeOK, Agent!Queued
  <2>3. ASSUME NEW d \in Asker PROVE Agent!Sound(d)'
    BY <2>1, OtherAskers DEF Agent!Served
  <2> QED
    BY <2>2, <2>3 DEF Agent!IInv
<1>2. ASSUME NEW c \in Asker, Agent!Close(c) PROVE Agent!IInv'
  BY <1>2, AgentLeaves DEF Agent!Close
<1>3. ASSUME NEW c \in Asker, Agent!Withdraw(c) PROVE Agent!IInv'
  BY <1>3, AgentLeaves DEF Agent!Withdraw
<1> QED
  BY <1>1, <1>2, <1>3, AgentCall, AgentChunk, AgentTimeOut, AgentPoll, AgentCarry, AgentServe,
     AgentShutdown DEF Agent!Next

\* An answer taken after the synchronisation is to the call's own request, a script runs once,
\* and a call that ended is out of the queue, whatever earlier calls left on the channel
\* (qga.ts:55, 234-240, 277-283, 341-343).
THEOREM AgentIsHeard == Guest => []AgentAnswersItsCaller
<1> DEFINE Inv == plays = "agent" => Agent!IInv
<1>1. ASSUME GuestInit PROVE Inv
  BY <1>1, AgentInit DEF GuestInit
<1>2. ASSUME Inv, [GuestNext]_all PROVE Inv'
  <2>1. ASSUME plays' = "agent" PROVE plays = "agent" /\ [Agent!Next]_(Agent!vars)
    BY <1>2, <2>1 DEF GuestNext, Plays, all, slots, Agent!vars
  <2> QED
    BY <1>2, <2>1, AgentStep
<1>3. Inv => AgentAnswersItsCaller
  <2> SUFFICES ASSUME Agent!IInv
               PROVE  Agent!AnswersAreOwn /\ Agent!RanOnce /\ Agent!EndedLetGo
    BY DEF AgentAnswersItsCaller
  <2>1. Agent!AnswersAreOwn
    BY DEF Agent!IInv, Agent!AnswersAreOwn
  <2>2. Agent!RanOnce
    BY DEF Agent!IInv, Agent!Sound, Agent!RunsScript, Agent!RanOnce
  <2>3. Agent!EndedLetGo
    <3> SUFFICES ASSUME NEW c \in Asker, v6[c] \in {Agent!Idle, Agent!None} PROVE c \notin Agent!ToSet(v2)
      BY DEF Agent!EndedLetGo
    <3>1. ~\E i \in DOMAIN v2 : v2[i] = c
      BY DEF Agent!IInv, Agent!Queued
    <3> QED
      BY <3>1 DEF Agent!ToSet
  <2> QED
    BY <2>1, <2>2, <2>3
<1> QED
  BY <1>1, <1>2, <1>3, PTL DEF Guest

----------------------------------------------------------------------------
(* Readiness: the parts of an answer *)

\* Induction over the naturals, by the least counterexample.
LEMMA Least ==
  ASSUME NEW T \in SUBSET Nat, T # {}
  PROVE  \E n \in T : \A m \in T : n <= m
<1>1. PICK n \in T : \A m \in T : <<m, n>> \notin OpToRel(<, Nat)
  BY NatLessThanWellFounded, WFMin
<1> QED
  BY <1>1, \A i, j \in Nat : i < j <=> ~ j <= i DEF OpToRel

Words == {"!done", "!trap", "!fatal", "message", "end"}
Bytes == [word : Words, at : Nat]

\* The bytes of a word.
ByteCount(w) == Api!PrefixSize(w) + Api!SizeOf(w)
WordBytes(w) == [k \in 1..ByteCount(w) |-> [word |-> w, at |-> k]]

LEMMA ByteCountIs == ASSUME NEW w \in Words PROVE ByteCount(w) \in Nat \ {0} /\ ByteCount("end") = 1
<1>1. \A x \in {"!done", "!trap", "!fatal", "message"} : WordLength[x] \in Nat
  BY GuestAssumption DEF Api!ReadinessAssumption
<1> QED
  BY <1>1 DEF ByteCount, Api!PrefixSize, Api!SizeOf, Api!End, Words

\* F is E and then a word.
Joins(E, w, F) == F = E \o WordBytes(w)

LEMMA Concatenated ==
  ASSUME NEW S, NEW x \in Seq(S), NEW y \in Seq(S)
  PROVE  x \o y \in Seq(S) /\ Len(x \o y) = Len(x) + Len(y)
OBVIOUS

LEMMA WordJoins ==
  ASSUME NEW E, NEW w, NEW F, E \in Seq(Bytes), w \in Words, Joins(E, w, F)
  PROVE  /\ F \in Seq(Bytes) /\ Len(F) = Len(E) + ByteCount(w)
         /\ \A i \in 1..Len(E) : F[i] = E[i]
         /\ \A i \in 1..Len(F) : i > Len(E) => F[i].word = w
<1>1. ByteCount(w) \in Nat
  BY ByteCountIs
<1>2. PICK n \in Nat : n = ByteCount(w)
  BY <1>1
<1>3. PICK W : W = WordBytes(w)
  OBVIOUS
<1>4. W = [k \in 1..n |-> [word |-> w, at |-> k]]
  BY <1>2, <1>3 DEF WordBytes
<1>5. W \in Seq(Bytes) /\ Len(W) = n
  BY <1>4 DEF Bytes
<1>6. \A k \in 1..n : W[k].word = w
  BY <1>4
<1>7. Len(F) = Len(E) + n /\ F \in Seq(Bytes) /\ \A i \in 1..Len(E) : F[i] = E[i]
  <2>1. F = E \o W /\ E \in Seq(Bytes)
    BY <1>3 DEF Joins
  <2>2. Len(F) = Len(E) + n /\ F \in Seq(Bytes)
    <3>1. E \o W \in Seq(Bytes) /\ Len(E \o W) = Len(E) + Len(W)
      BY <1>5, <2>1, Concatenated
    <3> QED
      BY <1>5, <2>1, <3>1
  <2>3. \A i \in 1..Len(E) : F[i] = E[i]
    BY <1>5, <2>1
  <2> QED
    BY <2>2, <2>3
<1>8. ASSUME NEW i \in 1..Len(F), i > Len(E) PROVE F[i].word = w
  <2>1. F[i] = W[i - Len(E)] /\ i - Len(E) \in 1..n
    <3>1. F = E \o W
      BY <1>3 DEF Joins
    <3> QED
      BY <1>5, <1>7, <1>8, <3>1
  <2> QED
    BY <1>6, <2>1
<1> QED
  BY <1>2, <1>7, <1>8

\* The recursion of Encode().
Joining(words, upTo) ==
  upTo = [i \in 0..Len(words) |-> IF i = 0 THEN <<>> ELSE upTo[i - 1] \o WordBytes(words[i])]

JoinedTo(words, n, upTo) ==
  upTo = [i \in 0..n |-> IF i = 0 THEN <<>> ELSE upTo[i - 1] \o WordBytes(words[i])]

LEMMA JoiningIs ==
  ASSUME NEW words, NEW n \in Nat
  PROVE  \E upTo : JoinedTo(words, n, upTo)
<1> DEFINE Bad == {m \in Nat : ~ \E upTo : JoinedTo(words, m, upTo)}
<1> SUFFICES ASSUME Bad # {} PROVE FALSE
  OBVIOUS
<1>1. PICK m \in Bad : \A k \in Bad : m <= k
  <2>1. Bad \in SUBSET Nat
    OBVIOUS
  <2> HIDE DEF Bad
  <2> QED
    BY <2>1, Least
<1>2. CASE m = 0
  <2> DEFINE none == [i \in 0..m |-> <<>>]
  <2>1. JoinedTo(words, m, none)
    BY <1>2 DEF JoinedTo
  <2> QED
    BY <2>1
<1>3. CASE m # 0
  <2>1. m - 1 \in Nat /\ m - 1 \notin Bad
    BY <1>1, <1>3
  <2>2. PICK less : JoinedTo(words, m - 1, less)
    BY <2>1
  <2> DEFINE more == [i \in 0..m |-> IF i = m THEN less[m - 1] \o WordBytes(words[m]) ELSE less[i]]
  <2>3. \A i \in 0..m : i # m => i \in 0..(m - 1)
    BY <2>1
  <2>4. \A i \in 0..(m - 1) : i \in 0..m /\ i # m /\ more[i] = less[i]
    BY <2>1
  <2>5. ASSUME NEW i \in 0..m
        PROVE  more[i] = IF i = 0 THEN <<>> ELSE more[i - 1] \o WordBytes(words[i])
    <3>1. CASE i = m
      <4>1. more[m - 1] = less[m - 1]
        BY <2>1, <2>4
      <4> QED
        BY <1>3, <3>1, <4>1
    <3>2. CASE i # m
      <4>1. i \in 0..(m - 1) /\ (i # 0 => i - 1 \in 0..(m - 1))
        BY <2>3, <3>2
      <4>2. more[i] = less[i] /\ (i # 0 => more[i - 1] = less[i - 1])
        BY <2>4, <4>1
      <4>3. less[i] = IF i = 0 THEN <<>> ELSE less[i - 1] \o WordBytes(words[i])
        BY <2>2, <4>1 DEF JoinedTo
      <4> HIDE DEF more
      <4> QED
        BY <4>2, <4>3
    <3> QED
      BY <3>1, <3>2
  <2>6. JoinedTo(words, m, more)
    BY <2>5 DEF JoinedTo
  <2> QED
    BY <2>6
<1> QED
  BY <1>2, <1>3

\* Encode() joins one word after another.
LEMMA EncodeJoins ==
  ASSUME NEW words \in Seq(Words)
  PROVE  \E upTo : /\ Api!Encode(words) = upTo[Len(words)] /\ upTo[0] = <<>>
                   /\ \A i \in 1..Len(words), j \in 0..Len(words) :
                        i = j + 1 => Joins(upTo[j], words[i], upTo[i])
<1> DEFINE upTo == CHOOSE f : Joining(words, f)
<1>1. Api!Encode(words) = upTo[Len(words)]
  BY DEF Api!Encode, Joining, WordBytes, ByteCount
<1>2. Joining(words, upTo)
  <2>1. Len(words) \in Nat
    OBVIOUS
  <2>2. PICK f : JoinedTo(words, Len(words), f)
    BY <2>1, JoiningIs
  <2>3. Joining(words, f)
    BY <2>2 DEF Joining, JoinedTo
  <2> QED
    BY <2>3
<1> HIDE DEF upTo
<1>3. /\ upTo[0] = <<>>
      /\ \A i \in 1..Len(words), j \in 0..Len(words) :
           i = j + 1 => Joins(upTo[j], words[i], upTo[i])
  <2>1. Len(words) \in Nat
    OBVIOUS
  <2>2. /\ 0 \in 0..Len(words)
        /\ \A i \in 1..Len(words), j \in 0..Len(words) :
             i = j + 1 => i \in 0..Len(words) /\ i # 0 /\ i - 1 = j
    BY <2>1
  <2>3. \A i \in 1..Len(words) : i \in 0..Len(words) /\ i # 0 /\ upTo[i] = upTo[i - 1] \o WordBytes(words[i])
    BY <1>2, <2>1, <2>2 DEF Joining
  <2>4. upTo[0] = <<>>
    BY <1>2, <2>2 DEF Joining
  <2> QED
    BY <2>2, <2>3, <2>4 DEF Joins
<1> QED
  BY <1>1, <1>3

\* The recursion of parseApiSentences(), from a place on.
ParsedFrom(bytes, b, from) ==
  from = [o \in b..(Len(bytes) + 1) |->
            IF o > Len(bytes) \/ Api!After(bytes, o) = 0 THEN {}
            ELSE {o} \cup from[Api!After(bytes, o)]]

LEMMA AfterIs ==
  ASSUME NEW bytes \in Seq(Bytes), NEW o \in 1..Len(bytes), Api!After(bytes, o) # 0
  PROVE  Api!After(bytes, o) \in (o + 1)..(Len(bytes) + 1)
<1>1. PICK w \in Words : w = bytes[o].word
  <2>1. bytes[o] \in Bytes
    OBVIOUS
  <2> QED
    BY <2>1 DEF Bytes
<1>2. PICK n \in Nat \ {0} : n = ByteCount(w)
  BY ByteCountIs
<1>3. Api!After(bytes, o) = IF o + n > Len(bytes) + 1 THEN 0 ELSE o + n
  <2>1. PICK a, s : a = Api!PrefixSize(w) /\ s = Api!SizeOf(w) /\ a \in Nat /\ s \in Nat
    <3>1. \A x \in {"!done", "!trap", "!fatal", "message"} : WordLength[x] \in Nat
      BY GuestAssumption DEF Api!ReadinessAssumption
    <3> QED
      BY <3>1 DEF Api!PrefixSize, Api!SizeOf, Api!End, Words
  <2>2. n = a + s /\ o + a + s = o + n
    BY <1>2, <2>1 DEF ByteCount
  <2> QED
    BY <1>1, <2>1, <2>2 DEF Api!After
<1> QED
  BY <1>2, <1>3

LEMMA ParsingIs ==
  ASSUME NEW bytes \in Seq(Bytes)
  PROVE  \E from : ParsedFrom(bytes, 1, from)
<1> DEFINE L == Len(bytes)
           Bad == {m \in Nat : m <= L /\ ~ \E from : ParsedFrom(bytes, L + 1 - m, from)}
<1>0. L \in Nat
  OBVIOUS
<1>1. Bad = {}
  <2> SUFFICES ASSUME Bad # {} PROVE FALSE
    OBVIOUS
  <2>1. PICK m \in Bad : \A k \in Bad : m <= k
    <3>1. Bad \in SUBSET Nat
      OBVIOUS
    <3> HIDE DEF Bad
    <3> QED
      BY <3>1, Least
  <2> DEFINE b == L + 1 - m
  <2>2. m \in Nat /\ m <= L /\ b \in 1..(L + 1)
    BY <1>0
  <2>3. CASE m = 0
    <3> DEFINE none == [o \in b..(L + 1) |-> {}]
    <3>1. \A o \in b..(L + 1) : o > L
      BY <1>0, <2>3
    <3>2. ParsedFrom(bytes, b, none)
      BY <3>1 DEF ParsedFrom
    <3> QED
      BY <3>2
  <2>4. CASE m # 0
    <3>0. m - 1 \in Nat /\ m - 1 <= L /\ ~ m <= m - 1
      BY <1>0, <2>2, <2>4
    <3>1. m - 1 \in Nat /\ m - 1 <= L /\ m - 1 \notin Bad /\ L + 1 - (m - 1) = b + 1 /\ b \in 1..L
      <4>1. m - 1 \notin Bad
        BY <2>1, <3>0
      <4>2. L + 1 - (m - 1) = b + 1 /\ b \in 1..L
        BY <1>0, <2>2, <2>4
      <4> QED
        BY <3>0, <4>1, <4>2
    <3>2. PICK less : ParsedFrom(bytes, b + 1, less)
      BY <3>1
    <3> DEFINE next == Api!After(bytes, b)
               more == [o \in b..(L + 1) |-> IF o = b THEN IF next = 0 THEN {} ELSE {b} \cup less[next]
                                             ELSE less[o]]
    <3>3. next # 0 => next \in (b + 1)..(L + 1)
      BY <3>1, AfterIs
    <3> HIDE DEF next, b
    <3>4. /\ \A o \in b..(L + 1) : o # b => o \in (b + 1)..(L + 1)
          /\ \A o \in (b + 1)..(L + 1) : o \in b..(L + 1) /\ o # b
          /\ b \in b..(L + 1) /\ ~ b > L
      BY <1>0, <2>2, <3>1
    <3>5. /\ \A o \in (b + 1)..(L + 1) : more[o] = less[o]
          /\ more[b] = IF next = 0 THEN {} ELSE {b} \cup less[next]
      BY <3>4
    <3>6. ASSUME NEW o \in b..(L + 1)
          PROVE  more[o] = IF o > L \/ Api!After(bytes, o) = 0 THEN {}
                           ELSE {o} \cup more[Api!After(bytes, o)]
      <4>1. CASE o = b
        <5>1. next # 0 => more[next] = less[next]
          BY <3>3, <3>5
        <5> HIDE DEF more
        <5> QED
          BY <3>4, <3>5, <4>1, <5>1 DEF next
      <4>2. CASE o # b
        <5>1. o \in (b + 1)..(L + 1) /\ more[o] = less[o]
          BY <3>4, <3>5, <4>2
        <5>2. less[o] = IF o > L \/ Api!After(bytes, o) = 0 THEN {} ELSE {o} \cup less[Api!After(bytes, o)]
          BY <3>2, <5>1 DEF ParsedFrom
        <5>3. o > L \/ o \in 1..L
          BY <1>0, <2>2, <3>1, <5>1
        <5>4. ASSUME o \in 1..L, Api!After(bytes, o) # 0
              PROVE  more[Api!After(bytes, o)] = less[Api!After(bytes, o)]
          <6>1. Api!After(bytes, o) \in (o + 1)..(L + 1)
            BY <5>4, AfterIs
          <6>2. Api!After(bytes, o) \in (b + 1)..(L + 1)
            BY <1>0, <2>2, <5>1, <6>1
          <6> HIDE DEF more
          <6> QED
            BY <3>5, <6>2
        <5> HIDE DEF more
        <5> QED
          BY <5>1, <5>2, <5>3, <5>4
      <4> QED
        BY <4>1, <4>2
    <3>7. ParsedFrom(bytes, b, more)
      BY <3>6 DEF ParsedFrom
    <3> QED
      BY <3>7 DEF b
  <2> QED
    BY <2>3, <2>4
<1>2. L \notin Bad /\ L + 1 - L = 1
  BY <1>0, <1>1
<1> QED
  BY <1>0, <1>2

\* What is parsed are places of the bytes.
LEMMA ParsedAreBytes ==
  ASSUME NEW bytes \in Seq(Bytes), NEW from, ParsedFrom(bytes, 1, from)
  PROVE  from[1] \subseteq 1..Len(bytes)
<1> DEFINE L == Len(bytes)
           Bad == {m \in Nat : m <= L /\ ~ from[L + 1 - m] \subseteq 1..L}
<1>0. L \in Nat
  OBVIOUS
<1>1. Bad = {}
  <2> SUFFICES ASSUME Bad # {} PROVE FALSE
    OBVIOUS
  <2>1. PICK m \in Bad : \A k \in Bad : m <= k
    <3>1. Bad \in SUBSET Nat
      OBVIOUS
    <3> HIDE DEF Bad
    <3> QED
      BY <3>1, Least
  <2>2. PICK o \in 1..(L + 1) : o = L + 1 - m
    BY <1>0
  <2>3. from[o] = IF o > L \/ Api!After(bytes, o) = 0 THEN {} ELSE {o} \cup from[Api!After(bytes, o)]
    BY <2>2 DEF ParsedFrom
  <2>4. o \in 1..L /\ Api!After(bytes, o) # 0
    BY <1>0, <2>1, <2>2, <2>3
  <2>5. PICK next \in (o + 1)..(L + 1) : next = Api!After(bytes, o)
    BY <2>4, AfterIs
  <2>6. PICK k \in Nat : k = L + 1 - next /\ k < m /\ k <= L /\ L + 1 - k = next
    BY <1>0, <2>1, <2>2, <2>5
  <2>7. k \notin Bad
    BY <1>0, <2>1, <2>6
  <2>8. from[next] \subseteq 1..L
    BY <2>6, <2>7
  <2> QED
    BY <2>1, <2>2, <2>3, <2>4, <2>5, <2>8
<1>2. L \notin Bad /\ L + 1 - L = 1
  BY <1>0, <1>1
<1> QED
  BY <1>0, <1>2

\* A word that is parsed is one of the bytes', and a byte that ends a sentence comes after it.
LEMMA ParsedIsEnded ==
  ASSUME NEW bytes \in Seq(Bytes), NEW w \in Api!parseApiSentences(bytes)
  PROVE  \E o, e \in 1..Len(bytes) : o <= e /\ bytes[o].word = w /\ bytes[e].word = "end"
<1> DEFINE from == CHOOSE f : ParsedFrom(bytes, 1, f)
           lastEnd == {o \in from[1] : bytes[o].word = Api!End}
<1>1. Api!parseApiSentences(bytes) =
        {bytes[o].word : o \in {x \in from[1] : \E e \in lastEnd : x <= e}}
  BY DEF Api!parseApiSentences, ParsedFrom
<1>2. ParsedFrom(bytes, 1, from)
  BY ParsingIs
<1> HIDE DEF from
<1>3. from[1] \subseteq 1..Len(bytes)
  BY <1>2, ParsedAreBytes
<1>4. PICK o \in from[1] : bytes[o].word = w /\ \E e \in lastEnd : o <= e
  BY <1>1
<1>5. PICK e \in from[1] : bytes[e].word = "end" /\ o <= e
  BY <1>4 DEF Api!End
<1> QED
  BY <1>3, <1>4, <1>5

\* A login is known to be answered when all of the answer has come.
LEMMA DoneAnswer ==
  ASSUME NEW a, a = <<"!done", "end">>, NEW n \in Nat, n <= Len(Api!Encode(a)),
         NEW o \in 1..n, NEW e \in 1..n, o <= e,
         Api!Encode(a)[e].word = "end"
  PROVE  n = Len(Api!Encode(a))
<1>1. a \in Seq(Words) /\ Len(a) = 2 /\ a[1] = "!done" /\ a[2] = "end"
  BY DEF Words
<1>2. PICK u : /\ Api!Encode(a) = u[Len(a)] /\ u[0] = <<>>
               /\ \A i \in 1..Len(a), j \in 0..Len(a) : i = j + 1 => Joins(u[j], a[i], u[i])
  BY <1>1, EncodeJoins
<1>3. PICK E0, E1, E2 : E0 = u[0] /\ E1 = u[1] /\ E2 = u[2]
  OBVIOUS
<1>4. /\ E0 = <<>> /\ Joins(E0, "!done", E1) /\ Joins(E1, "end", E2)
      /\ Api!Encode(a) = E2
  BY <1>1, <1>2, <1>3
<1>5. E0 \in Seq(Bytes) /\ Len(E0) = 0 /\ "!done" \in Words /\ "end" \in Words /\ ByteCount("end") = 1
  BY <1>4, ByteCountIs DEF Words
<1>6. E1 \in Seq(Bytes) /\ \A i \in 1..Len(E1) : E1[i].word = "!done"
  <2>1. Joins(E0, "!done", E1) /\ E0 \in Seq(Bytes) /\ "!done" \in Words
    BY <1>4, <1>5
  <2>2. E1 \in Seq(Bytes) /\ \A i \in 1..Len(E1) : i > Len(E0) => E1[i].word = "!done"
    BY ONLY <2>1, WordJoins
  <2>3. Len(E0) = 0 /\ Len(E1) \in Nat
    BY <1>5, <2>2
  <2> QED
    BY <2>2, <2>3
<1>7. Len(E2) = Len(E1) + 1 /\ \A i \in 1..Len(E1) : E2[i] = E1[i]
  BY <1>4, <1>5, <1>6, WordJoins
<1>8. Len(E1) \in Nat
  BY <1>6
<1>9. e \notin 1..Len(E1)
  BY <1>4, <1>6, <1>7
<1> QED
  BY <1>4, <1>7, <1>8, <1>9

LEMMA TrapAnswer ==
  ASSUME NEW a, a = <<"!trap", "message", "end", "!done", "end">>, NEW n \in Nat, n <= Len(Api!Encode(a)),
         NEW o \in 1..n, NEW e \in 1..n, o <= e,
         Api!Encode(a)[o].word = "!done", Api!Encode(a)[e].word = "end"
  PROVE  n = Len(Api!Encode(a))
<1>1. /\ a \in Seq(Words) /\ Len(a) = 5
      /\ a[1] = "!trap" /\ a[2] = "message" /\ a[3] = "end" /\ a[4] = "!done" /\ a[5] = "end"
  BY DEF Words
<1>2. PICK u : /\ Api!Encode(a) = u[Len(a)] /\ u[0] = <<>>
               /\ \A i \in 1..Len(a), j \in 0..Len(a) : i = j + 1 => Joins(u[j], a[i], u[i])
  BY <1>1, EncodeJoins
<1>3. PICK E0, E1, E2, E3, E4, E5 :
        E0 = u[0] /\ E1 = u[1] /\ E2 = u[2] /\ E3 = u[3] /\ E4 = u[4] /\ E5 = u[5]
  OBVIOUS
<1>4. /\ E0 = <<>> /\ Joins(E0, "!trap", E1) /\ Joins(E1, "message", E2)
      /\ Joins(E2, "end", E3)
  BY <1>1, <1>2, <1>3
<1>5. /\ Joins(E3, "!done", E4) /\ Joins(E4, "end", E5) /\ Api!Encode(a) = E5
  BY <1>1, <1>2, <1>3
<1>6. /\ E0 \in Seq(Bytes) /\ Len(E0) = 0 /\ ByteCount("end") = 1
      /\ "!done" \in Words /\ "end" \in Words /\ "!trap" \in Words /\ "message" \in Words
  BY <1>4, ByteCountIs DEF Words
<1>7. E1 \in Seq(Bytes) /\ \A i \in 1..Len(E1) : E1[i].word = "!trap"
  <2>1. Joins(E0, "!trap", E1) /\ E0 \in Seq(Bytes) /\ "!trap" \in Words
    BY <1>4, <1>6
  <2>2. E1 \in Seq(Bytes) /\ \A i \in 1..Len(E1) : i > Len(E0) => E1[i].word = "!trap"
    BY ONLY <2>1, WordJoins
  <2>3. Len(E0) = 0 /\ Len(E1) \in Nat
    BY <1>6, <2>2
  <2> QED
    BY <2>2, <2>3
<1>8. /\ E2 \in Seq(Bytes) /\ Len(E1) \in Nat /\ Len(E2) \in Nat
      /\ \A i \in 1..Len(E2) : E2[i].word \in {"!trap", "message"}
  <2>1. /\ E2 \in Seq(Bytes) /\ \A i \in 1..Len(E1) : E2[i] = E1[i]
        /\ \A i \in 1..Len(E2) : i > Len(E1) => E2[i].word = "message"
    BY <1>4, <1>6, <1>7, WordJoins
  <2>2. Len(E1) \in Nat /\ Len(E2) \in Nat
    BY <1>7, <2>1
  <2>3. ASSUME NEW i \in 1..Len(E2) PROVE E2[i].word \in {"!trap", "message"}
    <3>1. CASE i > Len(E1)
      BY <2>1, <3>1
    <3>2. CASE ~(i > Len(E1))
      <4>1. i \in 1..Len(E1)
        BY <2>2, <3>2
      <4> QED
        BY <1>7, <2>1, <4>1
    <3> QED
      BY <3>1, <3>2
  <2> QED
    BY <2>1, <2>2, <2>3
<1>9. /\ E3 \in Seq(Bytes) /\ Len(E3) \in Nat /\ \A i \in 1..Len(E3) : E3[i].word # "!done"
  <2>1. /\ E3 \in Seq(Bytes) /\ \A i \in 1..Len(E2) : E3[i] = E2[i]
        /\ \A i \in 1..Len(E3) : i > Len(E2) => E3[i].word = "end"
    BY <1>4, <1>6, <1>8, WordJoins
  <2>2. Len(E3) \in Nat
    BY <2>1
  <2>3. ASSUME NEW i \in 1..Len(E3) PROVE E3[i].word # "!done"
    <3>1. CASE i > Len(E2)
      BY <2>1, <3>1
    <3>2. CASE ~(i > Len(E2))
      <4>1. i \in 1..Len(E2)
        BY <1>8, <2>2, <3>2
      <4> QED
        BY <1>8, <2>1, <4>1
    <3> QED
      BY <3>1, <3>2
  <2> QED
    BY <2>1, <2>2, <2>3
<1>10. /\ E4 \in Seq(Bytes) /\ \A i \in 1..Len(E3) : E4[i] = E3[i]
       /\ \A i \in 1..Len(E4) : i > Len(E3) => E4[i].word = "!done"
  BY <1>5, <1>6, <1>9, WordJoins
<1>11. Len(E4) \in Nat
  BY <1>10
<1>12. Len(E5) = Len(E4) + 1 /\ \A i \in 1..Len(E4) : E5[i] = E4[i]
  <2>1. E4 \in Seq(Bytes) /\ "end" \in Words /\ Joins(E4, "end", E5) /\ ByteCount("end") = 1
    BY <1>5, <1>6, <1>10
  <2>2. Len(E5) = Len(E4) + ByteCount("end") /\ \A i \in 1..Len(E4) : E5[i] = E4[i]
    BY ONLY <2>1, WordJoins
  <2> QED
    BY <2>1, <2>2
<1>13. Len(E3) <= Len(E4)
  BY <1>5, <1>6, <1>9, WordJoins, ByteCountIs
<1>14. e \in 1..Len(E4) => o > Len(E3) /\ FALSE
  <2> SUFFICES ASSUME e \in 1..Len(E4) PROVE FALSE
    OBVIOUS
  <2>1. o \in 1..Len(E4) /\ E4[o].word = "!done" /\ E4[e].word = "end"
    BY <1>5, <1>11, <1>12
  <2>2. o > Len(E3)
    BY <1>9, <1>10, <1>11, <2>1
  <2>3. e > Len(E3)
    BY <1>9, <1>11, <2>2
  <2> QED
    BY <1>10, <2>1, <2>3
<1> QED
  BY <1>5, <1>11, <1>12, <1>14

LEMMA FatalAnswer ==
  ASSUME NEW a, a = <<"!fatal", "message", "end">>, NEW o \in 1..Len(Api!Encode(a))
  PROVE  Api!Encode(a)[o].word # "!done"
<1>1. a \in Seq(Words) /\ Len(a) = 3 /\ a[1] = "!fatal" /\ a[2] = "message" /\ a[3] = "end"
  BY DEF Words
<1>2. PICK u : /\ Api!Encode(a) = u[Len(a)] /\ u[0] = <<>>
               /\ \A i \in 1..Len(a), j \in 0..Len(a) : i = j + 1 => Joins(u[j], a[i], u[i])
  BY <1>1, EncodeJoins
<1>3. PICK E0, E1, E2, E3 : E0 = u[0] /\ E1 = u[1] /\ E2 = u[2] /\ E3 = u[3]
  OBVIOUS
<1>4. /\ E0 = <<>> /\ Joins(E0, "!fatal", E1) /\ Joins(E1, "message", E2)
      /\ Joins(E2, "end", E3) /\ Api!Encode(a) = E3
  BY <1>1, <1>2, <1>3
<1>5. /\ E0 \in Seq(Bytes) /\ Len(E0) = 0
      /\ "end" \in Words /\ "!fatal" \in Words /\ "message" \in Words
  BY <1>4 DEF Words
<1>6. E1 \in Seq(Bytes) /\ \A i \in 1..Len(E1) : E1[i].word = "!fatal"
  <2>1. Joins(E0, "!fatal", E1) /\ E0 \in Seq(Bytes) /\ "!fatal" \in Words
    BY <1>4, <1>5
  <2>2. E1 \in Seq(Bytes) /\ \A i \in 1..Len(E1) : i > Len(E0) => E1[i].word = "!fatal"
    BY ONLY <2>1, WordJoins
  <2>3. Len(E0) = 0 /\ Len(E1) \in Nat
    BY <1>5, <2>2
  <2> QED
    BY <2>2, <2>3
<1>7. /\ E2 \in Seq(Bytes) /\ \A i \in 1..Len(E1) : E2[i] = E1[i]
      /\ \A i \in 1..Len(E2) : i > Len(E1) => E2[i].word = "message"
  BY <1>4, <1>5, <1>6, WordJoins
<1>8. /\ E3 \in Seq(Bytes) /\ \A i \in 1..Len(E2) : E3[i] = E2[i]
      /\ \A i \in 1..Len(E3) : i > Len(E2) => E3[i].word = "end"
  BY <1>4, <1>5, <1>7, WordJoins
<1>9. Len(E1) \in Nat /\ Len(E2) \in Nat /\ Len(E3) \in Nat
  BY <1>6, <1>7, <1>8
<1>10. o \in 1..Len(E3) /\ E3[o] = Api!Encode(a)[o]
  BY <1>4
<1>11. CASE o > Len(E2)
  BY <1>8, <1>10, <1>11
<1>12. CASE ~ o > Len(E2)
  <2>1. o \in 1..Len(E2) /\ E3[o] = E2[o]
    BY <1>8, <1>9, <1>10, <1>12
  <2>2. E2[o].word = "message" \/ (o \in 1..Len(E1) /\ E2[o] = E1[o])
    BY <1>7, <1>9, <2>1
  <2> QED
    BY <1>6, <1>10, <2>1, <2>2
<1> QED
  BY <1>11, <1>12

\* An answer is bytes.
LEMMA EncodeIsBytes ==
  ASSUME NEW a \in Seq(Words)
  PROVE  Api!Encode(a) \in Seq(Bytes)
<1>1. PICK u : /\ Api!Encode(a) = u[Len(a)] /\ u[0] = <<>>
               /\ \A i \in 1..Len(a), j \in 0..Len(a) : i = j + 1 => Joins(u[j], a[i], u[i])
  BY EncodeJoins
<1> DEFINE Bad == {m \in Nat : m <= Len(a) /\ u[m] \notin Seq(Bytes)}
<1>2. Bad = {}
  <2> SUFFICES ASSUME Bad # {} PROVE FALSE
    OBVIOUS
  <2>1. PICK m \in Bad : \A k \in Bad : m <= k
    <3>1. Bad \in SUBSET Nat
      OBVIOUS
    <3> HIDE DEF Bad
    <3> QED
      BY <3>1, Least
  <2>2. m # 0
    <3>1. PICK none : none = u[0] /\ none \in Seq(Bytes)
      <4>1. <<>> \in Seq(Bytes)
        OBVIOUS
      <4> QED
        BY <1>1, <4>1
    <3> QED
      BY <2>1, <3>1
  <2>3. m - 1 \in Nat /\ m - 1 <= Len(a) /\ ~ m <= m - 1 /\ m \in 1..Len(a)
    BY <2>2
  <2>4. m - 1 \notin Bad
    BY <2>1, <2>3
  <2>5. PICK E, w : E = u[m - 1] /\ w = a[m]
    OBVIOUS
  <2>6. E \in Seq(Bytes) /\ w \in Words /\ Joins(E, w, u[m])
    BY <1>1, <2>3, <2>4, <2>5
  <2>7. u[m] \in Seq(Bytes)
    BY <2>6, WordJoins
  <2> QED
    BY <2>7
<1>3. Len(a) \notin Bad /\ Len(a) \in Nat
  BY <1>2
<1> QED
  BY <1>1, <1>3

LEMMA AnswersAreWords == ASSUME NEW a \in Api!Answers PROVE a \in Seq(Words)
<1>1. CASE a = <<"!done", "end">>
  BY <1>1 DEF Words
<1>2. CASE a = <<"!trap", "message", "end", "!done", "end">>
  BY <1>2 DEF Words
<1>3. CASE a = <<"!fatal", "message", "end">>
  BY <1>3 DEF Words
<1> QED
  BY <1>1, <1>2, <1>3 DEF Api!Answers, Api!End

LEMMA AnsweredWhole ==
  ASSUME NEW a \in Api!Answers, NEW n \in Nat, n <= Len(Api!Encode(a)),
         "!done" \in Api!parseApiSentences(SubSeq(Api!Encode(a), 1, n))
  PROVE  n = Len(Api!Encode(a))
<1>1. a \in Seq(Words)
  BY AnswersAreWords
<1>2. PICK E : E = Api!Encode(a) /\ E \in Seq(Bytes)
  BY <1>1, EncodeIsBytes
<1>3. PICK bytes : bytes = SubSeq(E, 1, n)
  OBVIOUS
<1>4. bytes \in Seq(Bytes) /\ Len(bytes) = n /\ \A i \in 1..n : bytes[i] = E[i]
  BY <1>2, <1>3
<1>5. PICK o \in 1..n, e \in 1..n : o <= e /\ E[o].word = "!done" /\ E[e].word = "end"
  <2>1. "!done" \in Api!parseApiSentences(bytes)
    BY <1>2, <1>3
  <2>2. PICK o, e \in 1..Len(bytes) : o <= e /\ bytes[o].word = "!done" /\ bytes[e].word = "end"
    BY <1>4, <2>1, ParsedIsEnded
  <2> QED
    BY <1>4, <2>2
<1>6. o \in 1..Len(E)
  BY <1>2
<1>7. \/ a = <<"!done", "end">> \/ a = <<"!trap", "message", "end", "!done", "end">>
      \/ a = <<"!fatal", "message", "end">>
  BY DEF Api!Answers, Api!End
<1> QED
  BY <1>2, <1>5, <1>6, <1>7, DoneAnswer, TrapAnswer, FatalAnswer

LEMMA AnswerIsLong == ASSUME NEW a \in Api!Answers PROVE Len(Api!Encode(a)) \in Nat
<1>1. a \in Seq(Words)
  BY AnswersAreWords
<1>2. Api!Encode(a) \in Seq(Bytes)
  BY <1>1, EncodeIsBytes
<1> QED
  BY <1>2

----------------------------------------------------------------------------
(* Readiness: guest, reboots, probe, probes, ready, upRow and result are v1 *)
(* to v7.                                                                   *)

\* What counts is the answer of a guest that was up.
LEMMA Counted ==
  ASSUME NEW outcome, NEW wasUp \in BOOLEAN, v5 \in Nat, v6 \in Nat, v5 <= v6, v7 = "waiting",
         v5' = IF outcome \in {"ready", "unauthorized", "done", "trap"} THEN v5 + 1 ELSE 0,
         v6' = IF wasUp THEN v6 + 1 ELSE 0,
         v7' = "ready" => v5' >= 2,
         outcome \in {"ready", "unauthorized", "done", "trap"} => wasUp
  PROVE  v5' \in Nat /\ v6' \in Nat /\ v5' <= v6' /\ (v7' = "ready" => v6' >= 2)
<1>1. CASE outcome \in {"ready", "unauthorized", "done", "trap"}
  <2>1. v5' = v5 + 1 /\ v6' = v6 + 1
    BY <1>1
  <2> QED
    BY <2>1
<1>2. CASE outcome \notin {"ready", "unauthorized", "done", "trap"}
  <2>1. v5' = 0 /\ (v6' = v6 + 1 \/ v6' = 0)
    BY <1>2
  <2> QED
    BY <2>1
<1> QED
  BY <1>1, <1>2

LEMMA RestInit == Rest!Init => Rest!IInv
BY DEF Rest!Init, Rest!IInv

LEMMA RestStep == ASSUME Rest!IInv, [Rest!Next]_(Rest!vars) PROVE Rest!IInv'
<1>0. v1 \in {"down", "starting", "up"} /\ v8 \in BOOLEAN /\ v3 = Rest!NoProbe /\ v5 \in Nat /\ v6 \in Nat /\ v5 <= v6 /\ (v7 = "ready" => v6 >= 2)
  BY DEF Rest!IInv
<1>1. CASE UNCHANGED Rest!vars
  BY <1>0, <1>1 DEF Rest!vars, Rest!IInv, Rest!NoProbe
<1>2. CASE Rest!waitForBoot
  <2>1. PICK o \in Rest!OutcomesOf(v1) : Rest!Outcome(o, Rest!Served(v1, o))
    BY <1>2 DEF Rest!waitForBoot
  <2>2. PICK wasUp \in BOOLEAN : wasUp <=> Rest!Served(v1, o)
    <3>1. CASE Rest!Served(v1, o)
      <4>1. TRUE <=> Rest!Served(v1, o)
        BY <3>1
      <4> QED
        BY <4>1
    <3>2. CASE ~Rest!Served(v1, o)
      <4>1. FALSE <=> Rest!Served(v1, o)
        BY <3>2
      <4> QED
        BY <4>1
    <3> QED
      BY <3>1, <3>2
  <2>3. o \in {"ready", "unauthorized", "done", "trap"} => wasUp
    BY <1>0, <2>1, <2>2 DEF Rest!OutcomesOf, Rest!Served
  <2>4. /\ v7 = "waiting" /\ v3' = Rest!NoProbe /\ v1' = v1 /\ v8' = v8
        /\ v5' = IF o \in {"ready", "unauthorized", "done", "trap"} THEN v5 + 1 ELSE 0
        /\ v6' = IF wasUp THEN v6 + 1 ELSE 0
        /\ v7' = "ready" => v5' >= 2
    BY <1>2, <2>1, <2>2 DEF Rest!waitForBoot, Rest!Outcome, Rest!Count
  <2>5. v5' \in Nat /\ v6' \in Nat /\ v5' <= v6' /\ (v7' = "ready" => v6' >= 2)
    BY <1>0, <2>3, <2>4, Counted
  <2> QED
    BY <1>0, <2>4, <2>5 DEF Rest!IInv, Rest!NoProbe
<1>3. CASE Rest!waitForApiReady \/ Rest!Data \/ Rest!Unanswered
  BY <1>0, <1>3 DEF Rest!waitForApiReady, Rest!Data, Rest!Unanswered
<1>4. CASE Rest!GuestChanges
  BY <1>0, <1>4 DEF Rest!GuestChanges, Rest!IInv, Rest!NoProbe
<1> QED
  BY <1>1, <1>2, <1>3, <1>4 DEF Rest!Next

LEMMA ApiInit == Api!Init => Api!IInv
BY DEF Api!Init, Api!IInv

\* Nothing of a login is left when its probe is over.
LEMMA ProbeIsOver ==
  ASSUME Api!IInv, v7 = "waiting", NEW outcome, NEW wasUp \in BOOLEAN, Api!Outcome(outcome, wasUp),
         outcome \in {"ready", "unauthorized", "done", "trap"} => wasUp
  PROVE  Api!IInv'
<1>1. v1 \in {"down", "starting", "up"} /\ v8 \in BOOLEAN /\ v5 \in Nat /\ v6 \in Nat /\ v5 <= v6
  BY DEF Api!IInv
<1>2. /\ v3' = Api!NoProbe /\ v1' = v1 /\ v8' = v8
      /\ v5' = IF outcome \in {"ready", "unauthorized", "done", "trap"} THEN v5 + 1 ELSE 0
      /\ v6' = IF wasUp THEN v6 + 1 ELSE 0
      /\ v7' = "ready" => v5' >= 2
  BY DEF Api!Outcome, Api!Count
<1>3. v5' \in Nat /\ v6' \in Nat /\ v5' <= v6' /\ (v7' = "ready" => v6' >= 2)
  BY <1>1, <1>2, Counted
<1> QED
  BY <1>1, <1>2, <1>3 DEF Api!IInv, Api!NoProbe

\* Answers, their bytes and NoProbe do not change.
LEMMA AnswersStay ==
  ASSUME NEW a, NEW g \in Nat, v3' = [words |-> a, got |-> g], a \in Api!Answers, g <= Len(Api!Encode(a)),
         v1 \in {"down", "starting", "up"}, v8 \in BOOLEAN, v5 \in Nat, v6 \in Nat, v5 <= v6,
         v7 = "waiting", UNCHANGED <<v1, v5, v6, v7, v8>>
  PROVE  Api!IInv'
<1>1. PICK A, L : A = Api!Answers /\ L = Len(Api!Encode(a))
  OBVIOUS
<1>2. v3'.words = a /\ v3'.got = g
  OBVIOUS
<1>3. Api!Answers' = A /\ Api!Encode(v3'.words) = Api!Encode(a)
  BY <1>1, <1>2 DEF Api!Answers, Api!End
<1> QED
  BY <1>1, <1>2, <1>3 DEF Api!IInv

LEMMA ApiStep == ASSUME Api!IInv, [Api!Next]_(Api!vars) PROVE Api!IInv'
<1>0. /\ v1 \in {"down", "starting", "up"} /\ v8 \in BOOLEAN
      /\ v5 \in Nat /\ v6 \in Nat /\ v5 <= v6 /\ (v7 = "ready" => v6 >= 2)
  BY DEF Api!IInv
<1>1. CASE v1' \in {"down", "starting", "up"} /\ UNCHANGED <<v3, v5, v6, v7, v8>>
  BY <1>1 DEF Api!IInv, Api!NoProbe
<1>2. CASE Api!waitForApiReady
  <2>1. CASE Api!Outcome("error", FALSE)
    BY <1>2, <2>1, ProbeIsOver DEF Api!waitForApiReady
  <2>2. CASE /\ \E a \in Api!Answers : v3' = [words |-> a, got |-> 0]
             /\ UNCHANGED <<v1, v5, v6, v7, v8>>
    <3>1. PICK a \in Api!Answers : v3' = [words |-> a, got |-> 0]
      BY <2>2
    <3>2. 0 <= Len(Api!Encode(a)) /\ 0 \in Nat
      BY AnswerIsLong
    <3>3. v7 = "waiting"
      BY <1>2 DEF Api!waitForApiReady
    <3> QED
      BY <1>0, <2>2, <3>1, <3>2, <3>3, AnswersStay
  <2> QED
    BY <1>2, <2>1, <2>2 DEF Api!waitForApiReady, Api!AnswersOf
<1>3. CASE Api!Data
  <2>1. PICK a, g : /\ a = v3.words /\ g = v3.got /\ a \in Api!Answers /\ g \in Nat
                     /\ v3 = [words |-> a, got |-> g] /\ v7 = "waiting"
    BY <1>3 DEF Api!Data, Api!IInv
  <2>2. PICK L \in Nat : L = Len(Api!Encode(a))
    BY <2>1, AnswerIsLong
  <2> DEFINE Heard(n) == Api!parseApiSentences(SubSeq(Api!Encode(a), 1, n))
             Verdict(n) == Api!classifyLoginReply(Heard(n))
  <2>3. PICK n \in (g + 1)..L :
          IF Verdict(n) = "none" THEN v3' = [v3 EXCEPT !.got = n] /\ UNCHANGED <<v1, v5, v6, v7, v8>>
          ELSE Api!Outcome(Verdict(n), n = L /\ Verdict(n) # "fatal")
    BY <1>3, <2>1, <2>2 DEF Api!Data, Api!Received
  <2>4. CASE Verdict(n) = "none"
    <3>1. v3' = [words |-> a, got |-> n] /\ UNCHANGED <<v1, v5, v6, v7, v8>>
      <4> HIDE DEF Verdict
      <4> QED
        BY <2>1, <2>3, <2>4
    <3>2. n \in Nat /\ n <= Len(Api!Encode(a))
      BY <2>1, <2>2
    <3> QED
      BY <1>0, <2>1, <3>1, <3>2, AnswersStay
  <2>5. CASE Verdict(n) # "none"
    <3>1. PICK outcome, wasUp : outcome = Verdict(n) /\ wasUp = (n = L /\ Verdict(n) # "fatal")
      OBVIOUS
    <3>2. wasUp \in BOOLEAN /\ Api!Outcome(outcome, wasUp)
      <4> HIDE DEF Verdict
      <4> QED
        BY <2>3, <2>5, <3>1
    <3>3. ASSUME outcome \in {"ready", "unauthorized", "done", "trap"} PROVE wasUp
      <4>1. outcome # "fatal" /\ outcome # "none"
        BY <3>3
      <4>2. "!done" \in Heard(n)
        <5>1. PICK H : H = Heard(n)
          OBVIOUS
        <5>2. outcome = Api!classifyLoginReply(H)
          BY <3>1, <5>1
        <5>3. "!done" \in H
          BY ONLY <4>1, <5>2 DEF Api!classifyLoginReply
        <5> QED
          BY <5>1, <5>3
      <4>3. n \in Nat /\ n <= Len(Api!Encode(a))
        BY <2>1, <2>2
      <4>4. n = L
        BY <2>1, <2>2, <4>2, <4>3, AnsweredWhole
      <4> HIDE DEF Verdict
      <4> QED
        BY <3>1, <4>1, <4>4
    <3> QED
      BY <2>1, <3>2, <3>3, ProbeIsOver
  <2> HIDE DEF Verdict
  <2> QED
    BY <2>4, <2>5
<1>4. CASE Api!Unanswered
  BY <1>4, ProbeIsOver DEF Api!Unanswered
<1>5. CASE Api!GuestChanges
  BY <1>1, <1>5 DEF Api!GuestChanges
<1>6. CASE Api!waitForBoot
  BY <1>6 DEF Api!waitForBoot
<1> QED
  BY <1>0, <1>1, <1>2, <1>3, <1>4, <1>5, <1>6 DEF Api!Next, Api!vars

\* Ready is what answered two probes in a row when it was up, in whole answers, or refused
\* wrong credentials with its authentication up (qemu.ts:561-571, 602-611, 642-645;
\* api-login.ts:84-135).
THEOREM ReadyTwice == Guest => []ReadyIsAnsweredTwice
<1> DEFINE Inv == (plays = "rest" => Rest!IInv) /\ (plays = "api" => Api!IInv)
<1>1. ASSUME GuestInit PROVE Inv
  BY <1>1, RestInit, ApiInit DEF GuestInit
<1>2. ASSUME Inv, [GuestNext]_all PROVE Inv'
  <2>1. ASSUME plays' = "rest" PROVE plays = "rest" /\ [Rest!Next]_(Rest!vars)
    BY <1>2, <2>1 DEF GuestNext, Plays, all, slots, Rest!vars
  <2>2. ASSUME plays' = "api" PROVE plays = "api" /\ [Api!Next]_(Api!vars)
    BY <1>2, <2>2 DEF GuestNext, Plays, all, slots, Api!vars
  <2> QED
    BY <1>2, <2>1, <2>2, RestStep, ApiStep
<1>3. Inv => ReadyIsAnsweredTwice
  BY DEF ReadyIsAnsweredTwice, Rest!IInv, Api!IInv, Rest!ReadyIsAnsweredTwice, Api!ReadyIsAnsweredTwice
<1> QED
  BY <1>1, <1>2, <1>3, PTL DEF Guest

----------------------------------------------------------------------------
(* The serial console *)

LEMMA TextOf ==
  ASSUME NEW S, NEW s \in Seq(S), \A t \in S : Serial!IsToken(t)
  PROVE  Serial!Text(s)
<1>1. Len(s) \in Nat /\ s \in [1..Len(s) -> S] /\ DOMAIN s = 1..Len(s)
  BY LenProperties
<1>2. s \in [1..Len(s) -> Serial!ToSet(s)]
  BY <1>1 DEF Serial!ToSet
<1>3. Serial!ToSet(s) \subseteq S
  BY <1>1 DEF Serial!ToSet
<1> QED
  BY <1>1, <1>2, <1>3, SeqDef DEF Serial!Text

LEMMA TextIs ==
  ASSUME NEW s, Serial!Text(s)
  PROVE  Len(s) \in Nat /\ DOMAIN s = 1..Len(s)
BY LenProperties DEF Serial!Text

LEMMA TextsJoin ==
  ASSUME NEW s, NEW t, Serial!Text(s), Serial!Text(t)
  PROVE  /\ Serial!Text(s \o t) /\ Len(s \o t) = Len(s) + Len(t)
         /\ \A i \in DOMAIN s : i \in DOMAIN (s \o t) /\ (s \o t)[i] = s[i]
         /\ \A i \in DOMAIN (s \o t) :
              \/ i \in DOMAIN s /\ (s \o t)[i] = s[i]
              \/ i - Len(s) \in DOMAIN t /\ (s \o t)[i] = t[i - Len(s)]
         /\ \A k \in DOMAIN t : Len(s) + k \in DOMAIN (s \o t) /\ (s \o t)[Len(s) + k] = t[k]
<1> DEFINE S == Serial!ToSet(s) \cup Serial!ToSet(t)
           m == Len(s)
           n == Len(t)
<1>0. s \in Seq(S) /\ t \in Seq(S) /\ \A x \in S : Serial!IsToken(x)
  <2>1. Serial!ToSet(s) \subseteq S /\ Serial!ToSet(t) \subseteq S
    OBVIOUS
  <2>2. s \in Seq(Serial!ToSet(s)) /\ t \in Seq(Serial!ToSet(t))
    BY DEF Serial!Text
  <2>3. \A x \in S : Serial!IsToken(x)
    BY DEF Serial!Text
  <2> HIDE DEF S
  <2> QED
    BY <2>1, <2>2, <2>3, SeqMonotonic
<1> HIDE DEF S
<1>1. m \in Nat /\ n \in Nat /\ DOMAIN s = 1..m /\ DOMAIN t = 1..n
  BY TextIs
<1>2. s \o t \in Seq(S) /\ Len(s \o t) = m + n
      /\ \A i \in 1..(m + n) : (s \o t)[i] = IF i <= m THEN s[i] ELSE t[i - m]
  BY <1>0, ConcatProperties
<1>3. DOMAIN (s \o t) = 1..(m + n)
  BY <1>2, LenProperties
<1>4. Serial!Text(s \o t)
  BY <1>0, <1>2, TextOf
<1> HIDE DEF m, n
<1>5. ASSUME NEW i \in DOMAIN s PROVE i \in DOMAIN (s \o t) /\ (s \o t)[i] = s[i]
  <2>1. i \in 1..(m + n) /\ i <= m
    BY <1>1, <1>5
  <2> QED
    BY <1>2, <1>3, <2>1
<1>6. ASSUME NEW i \in DOMAIN (s \o t)
      PROVE  \/ i \in DOMAIN s /\ (s \o t)[i] = s[i]
             \/ i - m \in DOMAIN t /\ (s \o t)[i] = t[i - m]
  <2>1. i \in 1..(m + n)
    BY <1>3
  <2>2. CASE i <= m
    BY <1>1, <1>2, <2>1, <2>2
  <2>3. CASE ~ i <= m
    <3>1. i - m \in 1..n
      BY <1>1, <2>1, <2>3
    <3> QED
      BY <1>1, <1>2, <2>1, <2>3, <3>1
  <2> QED
    BY <2>2, <2>3
<1>7. ASSUME NEW k \in DOMAIN t PROVE m + k \in DOMAIN (s \o t) /\ (s \o t)[m + k] = t[k]
  <2>1. m + k \in 1..(m + n) /\ ~ m + k <= m /\ (m + k) - m = k
    BY <1>1, <1>7
  <2> QED
    BY <1>2, <1>3, <2>1
<1> QED
  BY <1>2, <1>4, <1>5, <1>6, <1>7 DEF m, n

LEMMA JoinedIs ==
  ASSUME NEW s, NEW t, NEW u, Serial!Text(s), Serial!Text(t), u = s \o t
  PROVE  /\ \A i \in DOMAIN s : i \in DOMAIN u /\ u[i] = s[i]
         /\ \A i \in DOMAIN u : \/ i \in DOMAIN s /\ u[i] = s[i]
                                \/ i - Len(s) \in DOMAIN t /\ u[i] = t[i - Len(s)]
         /\ \A k \in DOMAIN t : Len(s) + k \in DOMAIN u /\ u[Len(s) + k] = t[k]
<1>1. \A i \in DOMAIN s : i \in DOMAIN u /\ u[i] = s[i]
  BY TextsJoin
<1>2. \A i \in DOMAIN u : \/ i \in DOMAIN s /\ u[i] = s[i]
                          \/ i - Len(s) \in DOMAIN t /\ u[i] = t[i - Len(s)]
  BY TextsJoin
<1>3. \A k \in DOMAIN t : Len(s) + k \in DOMAIN u /\ u[Len(s) + k] = t[k]
  BY TextsJoin
<1> QED
  BY <1>1, <1>2, <1>3

LEMMA TextsPart ==
  ASSUME NEW s, Serial!Text(s), NEW a \in Nat \ {0}, NEW b \in Nat, b <= Len(s)
  PROVE  /\ Serial!Text(SubSeq(s, a, b))
         /\ a <= b => /\ Len(SubSeq(s, a, b)) = b - a + 1
                      /\ DOMAIN SubSeq(s, a, b) = 1..(b - a + 1)
                      /\ \A i \in 1..(b - a + 1) : SubSeq(s, a, b)[i] = s[a + i - 1]
<1> DEFINE S == Serial!ToSet(s)
<1>1. s \in Seq(S) /\ \A t \in S : Serial!IsToken(t)
  BY DEF Serial!Text
<1> HIDE DEF S
<1>2. \A i \in a..b : s[i] \in S
  <2>1. Len(s) \in Nat
    BY <1>1, LenProperties
  <2>2. \A i \in a..b : i \in 1..Len(s)
    BY <2>1
  <2> QED
    BY <1>1, <2>2, ElementOfSeq
<1>3. /\ SubSeq(s, a, b) \in Seq(S)
      /\ Len(SubSeq(s, a, b)) = IF a <= b THEN b - a + 1 ELSE 0
      /\ \A i \in 1..(b - a + 1) : SubSeq(s, a, b)[i] = s[a + i - 1]
  BY <1>2, SubSeqProperties
<1>4. DOMAIN SubSeq(s, a, b) = 1..Len(SubSeq(s, a, b))
  BY <1>3, LenProperties
<1> QED
  BY <1>1, <1>3, <1>4, TextOf

LEMMA TextsTail ==
  ASSUME NEW s, Serial!Text(s), s # <<>>
  PROVE  /\ Serial!Text(Tail(s)) /\ 1 \in DOMAIN s /\ Head(s) = s[1]
         /\ \A i \in DOMAIN Tail(s) : i \in Nat \ {0} /\ i \in DOMAIN s /\ i + 1 \in DOMAIN s /\ Tail(s)[i] = s[i + 1]
<1> DEFINE S == Serial!ToSet(s)
<1>1. s \in Seq(S) /\ \A t \in S : Serial!IsToken(t)
  BY DEF Serial!Text
<1> HIDE DEF S
<1>2. /\ Tail(s) \in Seq(S) /\ Len(Tail(s)) = Len(s) - 1
      /\ \A i \in 1..Len(Tail(s)) : Tail(s)[i] = s[i + 1]
  BY <1>1, HeadTailProperties
<1>3. /\ Len(s) \in Nat \ {0} /\ DOMAIN s = 1..Len(s) /\ DOMAIN Tail(s) = 1..Len(Tail(s))
  BY <1>1, <1>2, LenProperties, EmptySeq
<1>4. \A i \in 1..(Len(s) - 1) : i \in Nat \ {0} /\ i \in 1..Len(s) /\ i + 1 \in 1..Len(s)
  BY <1>3
<1>5. Head(s) = s[1]
  BY <1>1
<1>6. 1 \in DOMAIN s
  BY <1>3
<1> QED
  BY <1>1, <1>2, <1>3, <1>4, <1>5, <1>6, TextOf

LEMMA NoToken == Serial!Text(<<>>) /\ \A k \in DOMAIN <<>> : FALSE
<1>1. DOMAIN <<>> = 1..0
  BY EmptySeq, LenProperties
<1>2. 1..0 = {}
  OBVIOUS
<1>3. <<>> \in Seq({})
  BY EmptySeq
<1> QED
  BY <1>1, <1>2, <1>3, TextOf

LEMMA TokenIs ==
  ASSUME NEW kind, NEW of
  PROVE  /\ Serial!Token(kind, of).kind = kind /\ Serial!Token(kind, of).of = of
         /\ Serial!IsToken(Serial!Token(kind, of))
BY DEF Serial!Token, Serial!IsToken

\* What the guest prints reaches the call that is served.
LEMMA ShowIs ==
  ASSUME Serial!TypeOK, NEW text, Serial!Text(text), Serial!Show(text)
  PROVE  /\ DOMAIN v4' = Typist
         /\ \A c \in Typist : /\ Serial!Text(v4'[c])
                              /\ v4'[c] = v4[c] \/ v4'[c] = v4[c] \o text
                              /\ Serial!Served(c) /\ Serial!Sound(c) => v4'[c] = v4[c] \o text
<1>1. DOMAIN v4 = Typist /\ v1 \in Seq(Typist) /\ \A c \in Typist : Serial!Text(v4[c])
  BY DEF Serial!TypeOK
<1>2. CASE v4' = v4 /\ (v1 = <<>> \/ v5[Head(v1)] = "connected")
  <2>1. ASSUME NEW c \in Typist, Serial!Served(c), Serial!Sound(c) PROVE FALSE
    <3>1. v1 # <<>> /\ c = v1[1] /\ v5[c] # "connected"
      BY <2>1 DEF Serial!Served, Serial!Sound
    <3>2. Head(v1) = v1[1]
      BY <1>1, <3>1
    <3> QED
      BY <1>2, <3>1, <3>2
  <2> QED
    BY <1>1, <1>2, <2>1
<1>3. CASE v1 # <<>> /\ v4' = [v4 EXCEPT ![Head(v1)] = @ \o text]
  <2>1. Head(v1) = v1[1] /\ Head(v1) \in Typist
    BY <1>1, <1>3
  <2>2. \A c \in Typist : v4'[c] = IF c = Head(v1) THEN v4[c] \o text ELSE v4[c]
    BY <1>1, <1>3
  <2>3. \A c \in Typist : Serial!Text(v4[c] \o text)
    BY <1>1, TextsJoin
  <2>4. \A c \in Typist : Serial!Served(c) /\ Serial!Sound(c) => c = Head(v1)
    BY <2>1 DEF Serial!Sound
  <2>5. DOMAIN v4' = Typist
    BY <1>1, <1>3
  <2> QED
    BY <1>1, <2>2, <2>3, <2>4, <2>5
<1> QED
  BY <1>2, <1>3 DEF Serial!Show

LEMMA OutputStaysFirst ==
  ASSUME NEW c \in Typist, NEW text, Serial!Text(v4[c]), Serial!Text(text), v4'[c] = v4[c] \o text
  PROVE  /\ (\E i \in DOMAIN v4[c] : v4[c][i] = Serial!Token("out", c))
              => \E i \in DOMAIN v4'[c] : v4'[c][i] = Serial!Token("out", c)
         /\ (\E k \in DOMAIN text : text[k] = Serial!Token("out", c))
              => \E i \in DOMAIN v4'[c] : v4'[c][i] = Serial!Token("out", c)
         /\ /\ Serial!OutputFirst(c)
            /\ \/ \A k \in DOMAIN text : text[k] # Serial!Token("marker", c)
               \/ \E i \in DOMAIN v4[c] : v4[c][i] = Serial!Token("out", c)
            => Serial!OutputFirst(c)'
<1> DEFINE s == v4[c]
           n == Len(v4[c])
<1>1. /\ \A i \in DOMAIN s : i \in DOMAIN v4'[c] /\ v4'[c][i] = s[i]
      /\ \A i \in DOMAIN v4'[c] : \/ i \in DOMAIN s /\ v4'[c][i] = s[i]
                                  \/ i - n \in DOMAIN text /\ v4'[c][i] = text[i - n]
      /\ \A k \in DOMAIN text : n + k \in DOMAIN v4'[c] /\ v4'[c][n + k] = text[k]
  BY JoinedIs, SMTT(30)
<1>2. /\ n \in Nat /\ DOMAIN s = 1..n /\ DOMAIN text = 1..Len(text) /\ Len(text) \in Nat
      /\ DOMAIN v4'[c] = 1..Len(v4'[c]) /\ Len(v4'[c]) \in Nat
  BY TextsJoin, TextIs
<1> HIDE DEF n
<1>3. ASSUME Serial!OutputFirst(c),
             \/ \A k \in DOMAIN text : text[k] # Serial!Token("marker", c)
             \/ \E i \in DOMAIN s : s[i] = Serial!Token("out", c)
      PROVE  Serial!OutputFirst(c)'
  <2> SUFFICES ASSUME NEW i \in DOMAIN v4'[c], v4'[c][i] = Serial!Token("marker", c)
               PROVE  \E j \in 1..(i - 1) : v4'[c][j] = Serial!Token("out", c)
    BY DEF Serial!OutputFirst
  <2>1. CASE i \in DOMAIN s /\ v4'[c][i] = s[i]
    <3>1. PICK j \in 1..(i - 1) : s[j] = Serial!Token("out", c)
      BY <1>3, <2>1 DEF Serial!OutputFirst
    <3>2. j \in DOMAIN s
      BY <1>2, <2>1
    <3> QED
      BY <1>1, <3>1, <3>2
  <2>2. CASE i - n \in DOMAIN text /\ v4'[c][i] = text[i - n]
    <3>1. PICK j \in DOMAIN s : s[j] = Serial!Token("out", c)
      BY <1>3, <2>2
    <3>2. j \in 1..(i - 1)
      BY <1>2, <2>2
    <3> QED
      BY <1>1, <3>1, <3>2
  <2> QED
    BY <1>1, <2>1, <2>2
<1> QED
  BY <1>1, <1>3

LEMMA PutsStayBehind ==
  ASSUME NEW c \in Typist, NEW line, Serial!Text(v2), Serial!Text(line), v2' = v2 \o line,
         \A k \in DOMAIN line : line[k] # Serial!Token("put", c)
  PROVE  /\ (\A i \in DOMAIN v2 : v2[i] # Serial!Token("put", c))
              => \A i \in DOMAIN v2' : v2'[i] # Serial!Token("put", c)
         /\ Serial!PutsFollow(c) /\ (Serial!Harmless(c) => Serial!Harmless(c)') => Serial!PutsFollow(c)'
<1> DEFINE n == Len(v2)
<1>1. /\ \A i \in DOMAIN v2 : i \in DOMAIN v2' /\ v2'[i] = v2[i]
      /\ \A i \in DOMAIN v2' : \/ i \in DOMAIN v2 /\ v2'[i] = v2[i]
                               \/ i - n \in DOMAIN line /\ v2'[i] = line[i - n]
  BY TextsJoin
<1>2. DOMAIN v2 = 1..n /\ n \in Nat
  BY TextIs
<1> HIDE DEF n
<1>3. ASSUME Serial!PutsFollow(c), Serial!Harmless(c) => Serial!Harmless(c)' PROVE Serial!PutsFollow(c)'
  <2> SUFFICES ASSUME NEW i \in DOMAIN v2', v2'[i] = Serial!Token("put", c)
               PROVE  IF i = 1 THEN Serial!Harmless(c)' ELSE v2'[i - 1] = Serial!Token("cmd", c)
    BY DEF Serial!PutsFollow, Serial!Harmless, Serial!Waits
  <2>1. i \in DOMAIN v2 /\ v2[i] = Serial!Token("put", c)
    BY <1>1
  <2>2. CASE i = 1
    BY <1>3, <2>1, <2>2 DEF Serial!PutsFollow
  <2>3. CASE i # 1
    <3>1. i - 1 \in DOMAIN v2
      BY <1>2, <2>1, <2>3
    <3>2. v2[i - 1] = Serial!Token("cmd", c)
      BY <1>3, <2>1, <2>3 DEF Serial!PutsFollow
    <3> QED
      BY <1>1, <2>3, <3>1, <3>2
  <2> QED
    BY <2>2, <2>3
<1> QED
  BY <1>1, <1>3

\* What a call types, and forgets of its buffer, disturbs no other.
LEMMA OthersKeepSound ==
  ASSUME Serial!IInv, NEW d \in Typist, NEW line, Serial!Text(line), v2' = v2 \o line,
         \A k \in DOMAIN line : line[k].kind = "put" => line[k].of = d,
         UNCHANGED <<v1, v3>>, NEW c \in Typist, c # d, v4'[c] = v4[c], v5'[c] = v5[c]
  PROVE  Serial!Sound(c)'
<1>1. Serial!Sound(c) /\ Serial!Text(v2)
  BY DEF Serial!IInv, Serial!TypeOK
<1>2. \A k \in DOMAIN line : line[k] # Serial!Token("put", c)
  BY TokenIs
<1>3. Serial!Harmless(c) => Serial!Harmless(c)'
  BY DEF Serial!Harmless, Serial!Waits
<1>4. Serial!OutputFirst(c) => Serial!OutputFirst(c)'
  BY DEF Serial!OutputFirst
<1>5. /\ (\A i \in DOMAIN v2 : v2[i] # Serial!Token("put", c))
           => \A i \in DOMAIN v2' : v2'[i] # Serial!Token("put", c)
      /\ Serial!PutsFollow(c) => Serial!PutsFollow(c)'
  BY <1>1, <1>2, <1>3, PutsStayBehind
<1> QED
  BY <1>1, <1>4, <1>5 DEF Serial!Sound, Serial!Served

\* So far the call has typed no command.
LEMMA CallTypes ==
  ASSUME Serial!IInv, NEW d \in Typist, v1 # <<>>, v1[1] = d,
         v5[d] \in {"connected", "login", "password", "post"},
         NEW a \in {"login", "password", "post"}, v5' = [v5 EXCEPT ![d] = a],
         NEW line, Serial!Text(line), v2' = v2 \o line, \A k \in DOMAIN line : line[k].kind # "put",
         DOMAIN v4' = Typist, Serial!Text(v4'[d]), \A c \in Typist : c # d => v4'[c] = v4[c],
         UNCHANGED <<v1, v3, v8>>
  PROVE  Serial!IInv'
<1>1. Serial!TypeOK /\ Serial!FramedIsWhole /\ Serial!Sound(d) /\ Serial!Text(v2)
  BY DEF Serial!IInv, Serial!TypeOK
<1>2. /\ DOMAIN v4 = Typist /\ DOMAIN v5 = Typist /\ v5'[d] = a
      /\ \A c \in Typist : c # d => v4'[c] = v4[c] /\ v5'[c] = v5[c]
  BY <1>1 DEF Serial!TypeOK
<1>3. Serial!TypeOK'
  <2>1. Serial!Text(v2')
    BY <1>1, TextsJoin
  <2>2. \A c \in Typist : Serial!Text(v4'[c])
    BY <1>1, <1>2 DEF Serial!TypeOK
  <2>3. v5' \in [Typist -> {"idle", "connected", "login", "password", "post", "reply",
                            "framed", "unframed", "failed"}]
    BY <1>1 DEF Serial!TypeOK
  <2> QED
    BY <1>1, <2>1, <2>2, <2>3 DEF Serial!TypeOK
<1>4. Serial!FramedIsWhole'
  <2> SUFFICES ASSUME NEW c \in Typist, v5'[c] = "framed" PROVE Serial!Contains(v8[c], Serial!Token("out", c))
    BY DEF Serial!FramedIsWhole, Serial!Contains
  <2> QED
    BY <1>1, <1>2 DEF Serial!FramedIsWhole
<1>5. Serial!Sound(d)'
  <2>1. \A i \in DOMAIN v2 : v2[i] # Serial!Token("put", d)
    BY <1>1 DEF Serial!Sound
  <2>2. \A k \in DOMAIN line : line[k] # Serial!Token("put", d)
    BY TokenIs
  <2>3. \A i \in DOMAIN v2' : v2'[i] # Serial!Token("put", d)
    BY <1>1, <2>1, <2>2, PutsStayBehind
  <2> QED
    BY <1>2, <2>3 DEF Serial!Sound
<1>6. ASSUME NEW c \in Typist, c # d PROVE Serial!Sound(c)'
  <2>1. \A k \in DOMAIN line : line[k].kind = "put" => line[k].of = d
    OBVIOUS
  <2> QED
    BY <1>2, <1>6, <2>1, OthersKeepSound
<1> QED
  BY <1>3, <1>4, <1>5, <1>6 DEF Serial!IInv

LEMMA CallSubmits ==
  ASSUME Serial!IInv, NEW d \in Typist, v5[d] \in {"login", "password", "post"}, Serial!Submit(d),
         UNCHANGED <<v1, v3, v8>>
  PROVE  Serial!IInv'
<1> DEFINE line == <<Serial!Token("cmd", d), Serial!Token("put", d)>>
           n == Len(v2)
<1>1. Serial!TypeOK /\ Serial!FramedIsWhole /\ Serial!Sound(d) /\ Serial!Text(v2)
  BY DEF Serial!IInv, Serial!TypeOK
<1>2. v2' = v2 \o line /\ v4' = [v4 EXCEPT ![d] = <<>>] /\ v5' = [v5 EXCEPT ![d] = "reply"]
  BY DEF Serial!Submit, Serial!Submission, Serial!Type
<1>3. /\ DOMAIN v4 = Typist /\ DOMAIN v5 = Typist /\ v4'[d] = <<>> /\ v5'[d] = "reply"
      /\ \A c \in Typist : c # d => v4'[c] = v4[c] /\ v5'[c] = v5[c]
  BY <1>1, <1>2 DEF Serial!TypeOK
<1>4. Serial!Text(line) /\ DOMAIN line = {1, 2} /\ line[1] = Serial!Token("cmd", d) /\ line[2] = Serial!Token("put", d)
  <2>1. line \in Seq({Serial!Token("cmd", d), Serial!Token("put", d)})
    OBVIOUS
  <2>2. Len(line) = 2 /\ line[1] = Serial!Token("cmd", d) /\ line[2] = Serial!Token("put", d)
    OBVIOUS
  <2>3. DOMAIN line = 1..2
    BY <2>1, <2>2, LenProperties
  <2>4. 1..2 = {1, 2}
    OBVIOUS
  <2>5. \A t \in {Serial!Token("cmd", d), Serial!Token("put", d)} : Serial!IsToken(t)
    BY TokenIs
  <2> HIDE DEF line
  <2> QED
    BY <2>1, <2>2, <2>3, <2>4, <2>5, TextOf
<1> HIDE DEF line
<1>5. Serial!TypeOK'
  <2>1. Serial!Text(v2')
    BY <1>1, <1>2, <1>4, TextsJoin
  <2>2. Serial!Text(<<>>)
    BY NoToken
  <2>3. \A c \in Typist : Serial!Text(v4'[c])
    BY <1>1, <1>3, <2>2 DEF Serial!TypeOK
  <2>4. v5' \in [Typist -> {"idle", "connected", "login", "password", "post", "reply",
                            "framed", "unframed", "failed"}] /\ DOMAIN v4' = Typist
    BY <1>1, <1>2 DEF Serial!TypeOK
  <2> QED
    BY <1>1, <2>1, <2>3, <2>4 DEF Serial!TypeOK
<1>6. Serial!FramedIsWhole'
  <2> SUFFICES ASSUME NEW c \in Typist, v5'[c] = "framed" PROVE Serial!Contains(v8[c], Serial!Token("out", c))
    BY DEF Serial!FramedIsWhole, Serial!Contains
  <2> QED
    BY <1>1, <1>3 DEF Serial!FramedIsWhole
<1>7. Serial!PutsFollow(d)'
  <2> SUFFICES ASSUME NEW i \in DOMAIN v2', v2'[i] = Serial!Token("put", d)
               PROVE  i # 1 /\ v2'[i - 1] = Serial!Token("cmd", d)
    BY DEF Serial!PutsFollow
  <2>1. \A k \in DOMAIN v2 : v2[k] # Serial!Token("put", d)
    BY <1>1 DEF Serial!Sound
  <2>2. /\ \A k \in DOMAIN v2' : \/ k \in DOMAIN v2 /\ v2'[k] = v2[k]
                                 \/ k - n \in DOMAIN line /\ v2'[k] = line[k - n]
        /\ \A k \in DOMAIN line : n + k \in DOMAIN v2' /\ v2'[n + k] = line[k]
        /\ n \in Nat /\ DOMAIN v2' = 1..Len(v2') /\ Len(v2') \in Nat
    <3>1. Serial!Text(v2 \o line)
          /\ \A k \in DOMAIN (v2 \o line) :
               \/ k \in DOMAIN v2 /\ (v2 \o line)[k] = v2[k]
               \/ k - Len(v2) \in DOMAIN line /\ (v2 \o line)[k] = line[k - Len(v2)]
      BY <1>1, <1>4, TextsJoin
    <3>2. \A k \in DOMAIN line : Len(v2) + k \in DOMAIN (v2 \o line)
                                 /\ (v2 \o line)[Len(v2) + k] = line[k]
      BY <1>1, <1>4, TextsJoin
    <3>3. Len(v2 \o line) \in Nat /\ DOMAIN (v2 \o line) = 1..Len(v2 \o line) /\ Len(v2) \in Nat
      BY <1>1, <3>1, TextIs
    <3> QED
      BY <1>2, <3>1, <3>2, <3>3
  <2> HIDE DEF n
  <2>3. i - n \in {1, 2} /\ v2'[i] = line[i - n]
    BY <1>4, <2>1, <2>2
  <2>4. i - n # 1
    BY <1>4, <2>3, TokenIs
  <2>5. i \in Nat /\ n \in Nat
    BY <2>2
  <2>6. i = n + 2
    BY <2>3, <2>4, <2>5
  <2>7. i # 1 /\ i - 1 = n + 1
    BY <2>5, <2>6
  <2> QED
    BY <1>4, <2>2, <2>7
<1>8. Serial!Sound(d)'
  <2>1. v1 # <<>> /\ d = v1[1]
    BY <1>1 DEF Serial!Sound, Serial!Served
  <2>2. Serial!OutputFirst(d)'
    BY <1>3 DEF Serial!OutputFirst
  <2> QED
    BY <1>3, <1>7, <2>1, <2>2 DEF Serial!Sound
<1>9. ASSUME NEW c \in Typist, c # d PROVE Serial!Sound(c)'
  <2>1. \A k \in DOMAIN line : line[k].kind = "put" => line[k].of = d
    BY <1>4, TokenIs
  <2> QED
    BY <1>2, <1>3, <1>4, <1>9, <2>1, OthersKeepSound
<1> QED
  BY <1>5, <1>6, <1>8, <1>9 DEF Serial!IInv

\* The first place of a marker.
LEMMA MarkerIs ==
  ASSUME NEW c \in Typist, Serial!Text(v4[c]), Serial!MarkerAt(c) > 0
  PROVE  /\ Serial!MarkerAt(c) \in DOMAIN v4[c]
         /\ v4[c][Serial!MarkerAt(c)] = Serial!Token("marker", c)
<1> DEFINE I == {i \in 1..Len(v4[c]) : v4[c][i] = Serial!Token("marker", c)}
<1>1. Serial!MarkerAt(c) = IF I # {} THEN Serial!Min(I) ELSE 0
  BY DEF Serial!MarkerAt, Serial!SelectInSeq
<1>2. DOMAIN v4[c] = 1..Len(v4[c]) /\ Len(v4[c]) \in Nat
  BY TextIs
<1>3. I # {} /\ I \in SUBSET Nat
  BY <1>1, <1>2
<1>4. PICK n \in I : \A m \in I : n <= m
  BY <1>3, Least
<1>5. Serial!Min(I) \in I
  BY <1>4 DEF Serial!Min
<1>6. Serial!MarkerAt(c) \in I
  BY <1>1, <1>3, <1>5
<1> QED
  BY <1>2, <1>6

\* A call that ends leaves the others where they were.
LEMMA CallEnds ==
  ASSUME Serial!IInv, NEW d \in Typist, NEW how \in {"framed", "unframed", "failed"}, NEW text,
         Serial!Finish(d, how, text), v3' = v3,
         how = "framed" => Serial!Contains(text, Serial!Token("out", d))
  PROVE  Serial!IInv'
<1>1. /\ Serial!TypeOK /\ Serial!FramedIsWhole
      /\ v2' = v2 /\ v4' = [v4 EXCEPT ![d] = <<>>] /\ v5' = [v5 EXCEPT ![d] = how]
      /\ v8' = [v8 EXCEPT ![d] = text]
  BY DEF Serial!IInv, Serial!Finish
<1>2. /\ DOMAIN v4' = Typist /\ DOMAIN v8' = Typist /\ v4'[d] = <<>> /\ v5'[d] = how /\ v8'[d] = text
      /\ \A c \in Typist : c # d => v4'[c] = v4[c] /\ v5'[c] = v5[c] /\ v8'[c] = v8[c]
      /\ v5' \in [Typist -> {"idle", "connected", "login", "password", "post", "reply",
                             "framed", "unframed", "failed"}]
  BY <1>1 DEF Serial!TypeOK
<1>3. PICK i \in DOMAIN v1 : v1[i] = d /\ v1' = SubSeq(v1, 1, i - 1) \o SubSeq(v1, i + 1, Len(v1))
  BY DEF Serial!Finish, Serial!RemoveAt
<1>4. /\ Len(v1) \in Nat /\ DOMAIN v1 = 1..Len(v1) /\ v1 \in Seq(Typist)
      /\ \A k \in DOMAIN v1 : v1[k] \in Typist
  <2>1. v1 \in Seq(Typist)
    BY <1>1 DEF Serial!TypeOK
  <2> QED
    BY <2>1, LenProperties, ElementOfSeq
<1> DEFINE a == SubSeq(v1, 1, i - 1)
           b == SubSeq(v1, i + 1, Len(v1))
<1>5. a \in Seq(Typist) /\ b \in Seq(Typist)
  <2>1. i \in 1..Len(v1) /\ i - 1 \in Int /\ i + 1 \in Int
    BY <1>4
  <2>2. \A k \in 1..(i - 1) : k \in DOMAIN v1
    BY <1>4, <2>1
  <2>3. \A k \in (i + 1)..Len(v1) : k \in DOMAIN v1
    BY <1>4, <2>1
  <2>4. a \in Seq(Typist)
    BY <1>4, <2>1, <2>2, SubSeqProperties
  <2>5. b \in Seq(Typist)
    BY <1>4, <2>1, <2>3, SubSeqProperties
  <2> QED
    BY <2>4, <2>5
<1>6. v1' \in Seq(Typist)
  BY <1>3, <1>5, ConcatProperties
<1>7. ASSUME NEW c \in Typist, c # d, v1 # <<>>, c = v1[1] PROVE v1' # <<>> /\ c = v1'[1]
  <2>1. i # 1 /\ i \in 1..Len(v1) /\ i \in Nat /\ Len(v1) \in Nat
    BY <1>3, <1>4, <1>7
  <2>2. \A k \in 1..(i - 1) : v1[k] \in Typist
    BY <1>4, <2>1
  <2>3. Len(a) = (IF 1 <= i - 1 THEN (i - 1) - 1 + 1 ELSE 0) /\ \A k \in 1..((i - 1) - 1 + 1) : a[k] = v1[1 + k - 1]
    BY <2>1, <2>2, SubSeqProperties
  <2> HIDE DEF a, b
  <2>4. Len(a) = i - 1 /\ 1 \in 1..((i - 1) - 1 + 1) /\ 1 + 1 - 1 = 1
    BY <2>1, <2>3
  <2>5. a[1] = v1[1] /\ 1 <= Len(a)
    BY <2>1, <2>3, <2>4
  <2>6. Len(b) \in Nat /\ Len(a) \in Nat
    BY <1>5, LenProperties
  <2>7. 1 \in 1..(Len(a) + Len(b))
    BY <2>5, <2>6
  <2>8. (a \o b)[1] = a[1] /\ Len(a \o b) = Len(a) + Len(b)
    BY <1>5, <2>5, <2>7, ConcatProperties
  <2>9. v1' = a \o b
    BY <1>3 DEF a, b
  <2>10. v1' # <<>>
    BY <1>6, <2>5, <2>6, <2>8, <2>9, EmptySeq
  <2> QED
    BY <1>7, <2>5, <2>8, <2>9, <2>10
<1> HIDE DEF a, b
<1>8. Serial!TypeOK'
  <2>1. Serial!Text(<<>>)
    BY NoToken
  <2>2. \A c \in Typist : Serial!Text(v4'[c])
    BY <1>1, <1>2, <2>1 DEF Serial!TypeOK
  <2>3. Serial!Text(v2')
    BY <1>1 DEF Serial!TypeOK
  <2> QED
    BY <1>1, <1>2, <1>6, <2>2, <2>3 DEF Serial!TypeOK
<1>9. Serial!FramedIsWhole'
  <2> SUFFICES ASSUME NEW c \in Typist, v5'[c] = "framed" PROVE Serial!Contains(v8'[c], Serial!Token("out", c))
    BY DEF Serial!FramedIsWhole, Serial!Contains
  <2>1. CASE c = d
    BY <1>2, <2>1
  <2>2. CASE c # d
    BY <1>1, <1>2, <2>2 DEF Serial!FramedIsWhole
  <2> QED
    BY <2>1, <2>2
<1>10. ASSUME NEW c \in Typist PROVE Serial!Sound(c)'
  <2>1. CASE c = d
    BY <1>2, <2>1 DEF Serial!Sound, Serial!Served
  <2>2. CASE c # d
    <3>1. Serial!Sound(c) /\ v4'[c] = v4[c] /\ v5'[c] = v5[c]
      BY <1>2, <2>2 DEF Serial!IInv
    <3>2. Serial!Served(c) => v1' # <<>> /\ c = v1'[1]
      BY <1>7, <2>2, <3>1 DEF Serial!Sound
    <3>3. Serial!PutsFollow(c) => Serial!PutsFollow(c)'
      BY <1>1, <3>1 DEF Serial!PutsFollow, Serial!Harmless, Serial!Waits
    <3>4. Serial!OutputFirst(c) => Serial!OutputFirst(c)'
      BY <3>1 DEF Serial!OutputFirst
    <3> QED
      BY <1>1, <3>1, <3>2, <3>3, <3>4 DEF Serial!Sound, Serial!Served
  <2> QED
    BY <2>1, <2>2
<1> QED
  BY <1>8, <1>9, <1>10 DEF Serial!IInv

LEMMA FramedReply ==
  ASSUME Serial!IInv, NEW d \in Typist, v5[d] = "reply", Serial!MarkerAt(d) > 0
  PROVE  Serial!Contains(SubSeq(v4[d], 1, Serial!MarkerAt(d) - 1), Serial!Token("out", d))
<1> DEFINE n == Serial!MarkerAt(d)
<1>1. Serial!Text(v4[d]) /\ Serial!OutputFirst(d)
  BY DEF Serial!IInv, Serial!TypeOK, Serial!Sound
<1>2. n \in DOMAIN v4[d] /\ v4[d][n] = Serial!Token("marker", d)
  BY <1>1, MarkerIs
<1>3. DOMAIN v4[d] = 1..Len(v4[d]) /\ Len(v4[d]) \in Nat
  BY <1>1, TextIs
<1>4. PICK j \in 1..(n - 1) : v4[d][j] = Serial!Token("out", d)
  BY <1>1, <1>2 DEF Serial!OutputFirst
<1> HIDE DEF n
<1>5. 1 <= n - 1 /\ n - 1 \in Nat /\ n - 1 <= Len(v4[d]) /\ 1 \in Nat \ {0}
  BY <1>2, <1>3, <1>4
<1>6. /\ Len(SubSeq(v4[d], 1, n - 1)) = (n - 1) - 1 + 1
      /\ \A k \in 1..((n - 1) - 1 + 1) : SubSeq(v4[d], 1, n - 1)[k] = v4[d][1 + k - 1]
  BY <1>1, <1>5, TextsPart
<1>7. (n - 1) - 1 + 1 = n - 1 /\ 1 + j - 1 = j
  BY <1>4, <1>5
<1>8. SubSeq(v4[d], 1, n - 1)[j] = Serial!Token("out", d) /\ j \in 1..Len(SubSeq(v4[d], 1, n - 1))
  BY <1>4, <1>6, <1>7
<1> QED
  BY <1>8 DEF Serial!Contains, n

LEMMA ConsoleOpen == ASSUME Serial!IInv, NEW d \in Typist, Serial!Open(d) PROVE Serial!IInv'
<1>1. /\ Serial!TypeOK /\ Serial!FramedIsWhole /\ v5[d] = "idle"
      /\ v1' = Append(v1, d) /\ v5' = [v5 EXCEPT ![d] = "connected"]
      /\ UNCHANGED <<v2, v3, v4, v8>>
  BY DEF Serial!IInv, Serial!Open
<1>2. v5'[d] = "connected" /\ \A c \in Typist : c # d => v5'[c] = v5[c]
  BY <1>1 DEF Serial!TypeOK
<1>3. v1 \in Seq(Typist) /\ v1' \in Seq(Typist)
  BY <1>1 DEF Serial!TypeOK
<1>4. ASSUME v1 # <<>> PROVE v1' # <<>> /\ v1'[1] = v1[1]
  BY <1>1, <1>3, <1>4
<1>5. Serial!TypeOK'
  BY <1>1, <1>3 DEF Serial!TypeOK, Serial!Text, Serial!ToSet
<1>6. Serial!FramedIsWhole'
  BY <1>1, <1>2 DEF Serial!FramedIsWhole, Serial!Contains
<1>7. ASSUME NEW c \in Typist PROVE Serial!Sound(c)'
  <2>1. Serial!Sound(c)
    BY DEF Serial!IInv
  <2>2. Serial!PutsFollow(c) => Serial!PutsFollow(c)'
    BY <1>1 DEF Serial!PutsFollow, Serial!Harmless, Serial!Waits
  <2>3. Serial!OutputFirst(c) => Serial!OutputFirst(c)'
    BY <1>1 DEF Serial!OutputFirst
  <2>4. CASE c = d
    BY <1>1, <1>2, <2>1, <2>4 DEF Serial!Sound, Serial!Served
  <2>5. CASE c # d
    BY <1>1, <1>2, <1>4, <2>1, <2>2, <2>3, <2>5 DEF Serial!Sound, Serial!Served
  <2> QED
    BY <2>4, <2>5
<1> QED
  BY <1>5, <1>6, <1>7 DEF Serial!IInv

LEMMA OneToken ==
  ASSUME NEW t, Serial!IsToken(t)
  PROVE  /\ Serial!Text(<<t>>) /\ \A k \in DOMAIN <<t>> : <<t>>[k] = t
         /\ 1 \in DOMAIN <<t>> /\ <<t>>[1] = t
<1>1. <<t>> \in Seq({t}) /\ Len(<<t>>) = 1 /\ <<t>>[1] = t
  OBVIOUS
<1>2. DOMAIN <<t>> = 1..1
  BY <1>1, LenProperties
<1>3. 1..1 = {1}
  OBVIOUS
<1>4. Serial!Text(<<t>>)
  <2> DEFINE S == {t}
  <2>1. <<t>> \in Seq(S) /\ \A x \in S : Serial!IsToken(x)
    BY <1>1
  <2> HIDE DEF S
  <2> QED
    BY <2>1, TextOf
<1> HIDE DEF Serial!Text
<1> QED
  BY <1>1, <1>2, <1>3, <1>4

\* What comes after a token that was found.
LEMMA AfterIsText ==
  ASSUME NEW c \in Typist, Serial!Text(v4[c]), NEW kind, Serial!Where(c, kind) > 0
  PROVE  Serial!Text(Serial!After(c, Serial!Where(c, kind)))
<1> DEFINE I == {i \in 1..Len(v4[c]) : v4[c][i].kind = kind}
<1>1. Serial!Where(c, kind) = IF I # {} THEN Serial!Min(I) ELSE 0
  BY DEF Serial!Where, Serial!SelectInSeq
<1>2. Len(v4[c]) \in Nat
  BY TextIs
<1>3. I # {} /\ I \in SUBSET Nat
  BY <1>1, <1>2
<1>4. PICK n \in I : \A m \in I : n <= m
  BY <1>3, Least
<1>5. Serial!Min(I) \in I
  BY <1>4 DEF Serial!Min
<1>6. Serial!Where(c, kind) \in Nat \ {0}
  BY <1>1, <1>2, <1>3, <1>5
<1> HIDE DEF I
<1>7. Serial!Where(c, kind) + 1 \in Nat \ {0}
  BY <1>6
<1> QED
  BY <1>2, <1>7, TextsPart DEF Serial!After

LEMMA CallWrites ==
  ASSUME Serial!IInv, NEW d \in Typist, v1 # <<>>, v1[1] = d,
         v5[d] \in {"connected", "login", "password", "post"}, UNCHANGED <<v1, v3, v8>>,
         \E a \in {"login", "password", "post"} : v5' = [v5 EXCEPT ![d] = a],
         v4' = v4 \/ \E b : Serial!Text(b) /\ v4' = [v4 EXCEPT ![d] = b],
         v2' = v2 \/ \E t : Serial!IsToken(t) /\ t.kind # "put" /\ v2' = v2 \o <<t>>
  PROVE  Serial!IInv'
<1>1. PICK a \in {"login", "password", "post"} : v5' = [v5 EXCEPT ![d] = a]
  OBVIOUS
<1>2. DOMAIN v4' = Typist /\ Serial!Text(v4'[d]) /\ \A c \in Typist : c # d => v4'[c] = v4[c]
  BY DEF Serial!IInv, Serial!TypeOK
<1>3. ASSUME NEW line, Serial!Text(line), v2' = v2 \o line, \A k \in DOMAIN line : line[k].kind # "put"
      PROVE  Serial!IInv'
  BY <1>1, <1>2, <1>3, CallTypes
<1>4. CASE v2' = v2
  <2>1. v2 \in Seq(Serial!ToSet(v2))
    BY DEF Serial!IInv, Serial!TypeOK, Serial!Text
  <2>2. v2' = v2 \o <<>>
    BY <1>4, <2>1, ConcatEmptySeq
  <2> QED
    BY <1>3, <2>2, NoToken
<1>5. ASSUME NEW t, Serial!IsToken(t), t.kind # "put", v2' = v2 \o <<t>> PROVE Serial!IInv'
  <2>1. \A k \in DOMAIN <<t>> : <<t>>[k].kind # "put"
    BY <1>5, OneToken
  <2>2. Serial!Text(<<t>>)
    BY <1>5, OneToken
  <2> QED
    BY <1>3, <1>5, <2>1, <2>2
<1> QED
  BY <1>4, <1>5

LEMMA ConsoleTypes ==
  ASSUME Serial!IInv, NEW d \in Typist,
         Serial!Wake(d) \/ Serial!LogIn(d) \/ Serial!Password(d) \/ Serial!PostLogin(d)
  PROVE  Serial!IInv'
<1>0. /\ DOMAIN v4 = Typist /\ DOMAIN v5 = Typist /\ Serial!Text(v4[d]) /\ Serial!Sound(d)
      /\ v5 = [v5 EXCEPT ![d] = v5[d]] /\ v1 \in Seq(Typist) /\ Serial!Text(v2)
  BY DEF Serial!IInv, Serial!TypeOK
<1>2. v5[d] \in {"login", "password", "post"} => v1 # <<>> /\ v1[1] = d
  BY <1>0 DEF Serial!Sound, Serial!Served
<1>3. CASE Serial!Wake(d)
  <2>1. /\ v5[d] \in {"connected", "login"} /\ v1 # <<>> /\ d = Head(v1)
        /\ v2' = v2 \o <<Serial!Token("cr", Serial!None)>> /\ v5' = [v5 EXCEPT ![d] = "login"]
        /\ UNCHANGED <<v1, v3, v4, v8>>
    BY <1>3 DEF Serial!Wake, Serial!Type, Serial!Poke
  <2>2. v1[1] = d
    BY <1>0, <2>1
  <2>3. Serial!Token("cr", Serial!None).kind # "put" /\ Serial!IsToken(Serial!Token("cr", Serial!None))
    BY TokenIs
  <2> QED
    BY <2>1, <2>2, <2>3, CallWrites
<1>4. CASE Serial!LogIn(d)
  <2>1. v5[d] = "login" /\ UNCHANGED <<v1, v3, v8>>
    BY <1>4 DEF Serial!LogIn
  <2>2. CASE Serial!Submit(d)
    BY <2>1, <2>2, CallSubmits
  <2>3. CASE /\ Serial!Where(d, "prompt") > 0
             /\ v4' = [v4 EXCEPT ![d] = Serial!After(d, Serial!Where(d, "prompt"))]
             /\ Serial!Type(IF v7[d] THEN <<>> ELSE <<Serial!Token("quit", Serial!None)>>)
             /\ v5' = v5
    <3>1. v5' = [v5 EXCEPT ![d] = "login"]
      BY <1>0, <2>1, <2>3
    <3>2. Serial!Text(Serial!After(d, Serial!Where(d, "prompt")))
      BY <1>0, <2>3, AfterIsText
    <3>3. v2' = v2 \/ v2' = v2 \o <<Serial!Token("quit", Serial!None)>>
      <4>1. v2 \in Seq(Serial!ToSet(v2))
        BY <1>0 DEF Serial!Text
      <4> QED
        BY <2>3, <4>1, ConcatEmptySeq DEF Serial!Type
    <3>4. v2' = v2 \/ \E t : Serial!IsToken(t) /\ t.kind # "put" /\ v2' = v2 \o <<t>>
      <4>1. Serial!Token("quit", Serial!None).kind # "put" /\ Serial!IsToken(Serial!Token("quit", Serial!None))
        BY TokenIs
      <4> QED
        BY <3>3, <4>1
    <3>5. \E b : Serial!Text(b) /\ v4' = [v4 EXCEPT ![d] = b]
      BY <2>3, <3>2
    <3> QED
      BY <1>2, <2>1, <3>1, <3>4, <3>5, CallWrites
  <2>4. CASE /\ Serial!Where(d, "login") > 0
             /\ v4' = [v4 EXCEPT ![d] = Serial!After(d, Serial!Where(d, "login"))]
             /\ Serial!Type(<<Serial!Token("name", TypesAs[d])>>)
             /\ v5' = [v5 EXCEPT ![d] = "password"]
    <3>1. Serial!Text(Serial!After(d, Serial!Where(d, "login")))
      BY <1>0, <2>4, AfterIsText
    <3>2. \E t : Serial!IsToken(t) /\ t.kind # "put" /\ v2' = v2 \o <<t>>
      <4>1. Serial!Token("name", TypesAs[d]).kind # "put" /\ Serial!IsToken(Serial!Token("name", TypesAs[d]))
        BY TokenIs
      <4> QED
        BY <2>4, <4>1 DEF Serial!Type
    <3>3. \E b : Serial!Text(b) /\ v4' = [v4 EXCEPT ![d] = b]
      BY <2>4, <3>1
    <3> QED
      BY <1>2, <2>1, <2>4, <3>2, <3>3, CallWrites
  <2> QED
    BY <1>4, <2>2, <2>3, <2>4 DEF Serial!LogIn
<1>5. CASE Serial!Password(d)
  <2>1. /\ v5[d] = "password" /\ UNCHANGED <<v1, v3, v8>> /\ Serial!Where(d, "password") > 0
        /\ v4' = [v4 EXCEPT ![d] = Serial!After(d, Serial!Where(d, "password"))]
        /\ v2' = v2 \o <<Serial!Token("secret", TypesAs[d])>>
        /\ v5' = [v5 EXCEPT ![d] = "post"]
    BY <1>5 DEF Serial!Password, Serial!Type
  <2>2. Serial!Text(Serial!After(d, Serial!Where(d, "password")))
    BY <1>0, <2>1, AfterIsText
  <2>3. \E t : Serial!IsToken(t) /\ t.kind # "put" /\ v2' = v2 \o <<t>>
    <3>1. Serial!Token("secret", TypesAs[d]).kind # "put" /\ Serial!IsToken(Serial!Token("secret", TypesAs[d]))
      BY TokenIs
    <3> QED
      BY <2>1, <3>1
  <2>4. \E b : Serial!Text(b) /\ v4' = [v4 EXCEPT ![d] = b]
    BY <2>1, <2>2
  <2> QED
    BY <1>2, <2>1, <2>3, <2>4, CallWrites
<1>6. CASE Serial!PostLogin(d)
  <2>1. v5[d] = "post" /\ UNCHANGED <<v1, v3, v8>>
    BY <1>6 DEF Serial!PostLogin
  <2>2. CASE Serial!Submit(d)
    BY <2>1, <2>2, CallSubmits
  <2>3. ASSUME NEW ask \in Serial!Asks, Serial!Where(d, ask) > 0,
               v4' = [v4 EXCEPT ![d] = Serial!After(d, Serial!Where(d, ask))],
               Serial!Type(<<Serial!Reply[ask]>>), v5' = v5
        PROVE  Serial!IInv'
    <3>1. Serial!Text(Serial!After(d, Serial!Where(d, ask)))
      BY <1>0, <2>3, AfterIsText
    <3>2. Serial!Reply[ask].kind # "put" /\ Serial!IsToken(Serial!Reply[ask])
      BY <2>3, TokenIs DEF Serial!Asks, Serial!Reply
    <3>3. v2' = v2 \o <<Serial!Reply[ask]>> /\ v5' = [v5 EXCEPT ![d] = "post"]
      BY <1>0, <2>1, <2>3 DEF Serial!Type
    <3>4. \E b : Serial!Text(b) /\ v4' = [v4 EXCEPT ![d] = b]
      BY <2>3, <3>1
    <3> QED
      BY <1>2, <2>1, <3>2, <3>3, <3>4, CallWrites
  <2> QED
    BY <1>6, <2>2, <2>3 DEF Serial!PostLogin
<1> QED
  BY <1>3, <1>4, <1>5, <1>6

LEMMA ConsoleEnds ==
  ASSUME Serial!IInv, NEW d \in Typist, Serial!Framed(d) \/ Serial!Unframed(d) \/ Serial!GiveUp(d)
  PROVE  Serial!IInv'
<1>1. CASE Serial!Framed(d)
  <2>1. /\ v5[d] = "reply" /\ Serial!MarkerAt(d) > 0 /\ v3' = v3
        /\ Serial!Finish(d, "framed", SubSeq(v4[d], 1, Serial!MarkerAt(d) - 1))
    BY <1>1 DEF Serial!Framed, Serial!Finish
  <2>2. Serial!Contains(SubSeq(v4[d], 1, Serial!MarkerAt(d) - 1), Serial!Token("out", d))
    BY <2>1, FramedReply
  <2> QED
    BY <2>1, <2>2, CallEnds
<1>2. CASE Serial!Unframed(d)
  <2>1. v3' = v3 /\ Serial!Finish(d, "unframed", Serial!Front(v4[d]))
    BY <1>2 DEF Serial!Unframed, Serial!Finish
  <2> QED
    BY <2>1, CallEnds
<1>3. CASE Serial!GiveUp(d)
  <2>1. v3' = v3 /\ Serial!Finish(d, "failed", <<>>)
    BY <1>3 DEF Serial!GiveUp, Serial!Finish
  <2> QED
    BY <2>1, CallEnds
<1> QED
  BY <1>1, <1>2, <1>3

\* What the guest prints, and what it waits for next.
Terminal(t) ==
  /\ t = [user |-> t.user, reads |-> t.reads, next |-> t.next]
  /\ t.reads # "nothing" => t.next \in Seq(Serial!Asks)
  /\ t.reads = "answer" => t.next # <<>>

LEMMA GuestPrints ==
  ASSUME Serial!IInv, UNCHANGED <<v1, v5, v8>>, NEW text, Serial!Text(text), Serial!Show(text),
         Terminal(v3'), Serial!Text(v2'),
         \A c \in Typist : \A i \in DOMAIN v2' : v2'[i] = Serial!Token("put", c) =>
           /\ \E k \in DOMAIN v2 : v2[k] = Serial!Token("put", c)
           /\ /\ Serial!Served(c) /\ Serial!PutsFollow(c) /\ v4'[c] = v4[c] \o text
              => IF i = 1 THEN Serial!Harmless(c)' ELSE v2'[i - 1] = Serial!Token("cmd", c),
         \A c \in Typist : \A k \in DOMAIN text : text[k] = Serial!Token("marker", c) =>
           ((Serial!Served(c) /\ Serial!PutsFollow(c)) =>
             \E i \in DOMAIN v4[c] : v4[c][i] = Serial!Token("out", c))
  PROVE  Serial!IInv'
<1>0. Serial!TypeOK /\ Serial!FramedIsWhole /\ \A c \in Typist : Serial!Sound(c)
  BY DEF Serial!IInv
<1>1. /\ DOMAIN v4' = Typist
      /\ \A c \in Typist : /\ Serial!Text(v4'[c])
                           /\ v4'[c] = v4[c] \/ v4'[c] = v4[c] \o text
                           /\ Serial!Served(c) /\ Serial!Sound(c) => v4'[c] = v4[c] \o text
  BY <1>0, ShowIs
<1>2. Serial!TypeOK'
  BY <1>0, <1>1 DEF Serial!TypeOK, Terminal
<1>3. Serial!FramedIsWhole'
  BY <1>0 DEF Serial!FramedIsWhole, Serial!Contains
<1>4. ASSUME NEW c \in Typist PROVE Serial!Sound(c)'
  <2>1. Serial!Sound(c) /\ Serial!Text(v4[c])
    BY <1>0 DEF Serial!TypeOK
  <2>2. CASE v5[c] # "reply"
    <3>1. \A i \in DOMAIN v2' : v2'[i] = Serial!Token("put", c) => \E k \in DOMAIN v2 : v2[k] = Serial!Token("put", c)
      OBVIOUS
    <3> QED
      BY <2>1, <2>2, <3>1 DEF Serial!Sound, Serial!Served
  <2>3. CASE v5[c] = "reply"
    <3>1. Serial!Served(c) /\ Serial!PutsFollow(c) /\ Serial!OutputFirst(c)
      BY <2>1, <2>3 DEF Serial!Sound, Serial!Served
    <3>2. v4'[c] = v4[c] \o text
      BY <1>1, <2>1, <3>1
    <3>3. \/ \A k \in DOMAIN text : text[k] # Serial!Token("marker", c)
          \/ \E i \in DOMAIN v4[c] : v4[c][i] = Serial!Token("out", c)
      BY <3>1
    <3>4. Serial!OutputFirst(c)'
      BY <2>1, <3>1, <3>2, <3>3, OutputStaysFirst
    <3>5. \A i \in DOMAIN v2' : v2'[i] = Serial!Token("put", c) =>
            IF i = 1 THEN Serial!Harmless(c)' ELSE v2'[i - 1] = Serial!Token("cmd", c)
      BY <3>1, <3>2
    <3>6. Serial!PutsFollow(c)'
      BY <3>5 DEF Serial!PutsFollow, Serial!Harmless, Serial!Waits
    <3> QED
      BY <2>1, <2>3, <3>4, <3>6 DEF Serial!Sound, Serial!Served
  <2> QED
    BY <2>2, <2>3
<1> QED
  BY <1>2, <1>3, <1>4 DEF Serial!IInv

\* A line is read: a command is waited for, or missed.
LEMMA GuestReads ==
  ASSUME Serial!IInv, UNCHANGED <<v1, v5, v8>>, v2 # <<>>, v2' = Tail(v2), v3.reads # "nothing",
         NEW text, Serial!Text(text), Serial!Show(text), Terminal(v3'),
         \A c \in Typist : v2[1] = Serial!Token("cmd", c) =>
           Serial!Waits(c)' \/ v3'.reads \in {"name", "secret", "answer"},
         \A c \in Typist : \A k \in DOMAIN text : text[k] = Serial!Token("marker", c) =>
           v2[1] = Serial!Token("put", c) /\ v3.reads = "line"
  PROVE  Serial!IInv'
<1>1. Serial!Text(v2)
  BY DEF Serial!IInv, Serial!TypeOK
<1>2. /\ Serial!Text(v2') /\ 1 \in DOMAIN v2
      /\ \A i \in DOMAIN v2' : i \in Nat \ {0} /\ i \in DOMAIN v2 /\ i + 1 \in DOMAIN v2 /\ v2'[i] = v2[i + 1]
  BY <1>1, TextsTail
<1>3. ASSUME NEW c \in Typist, NEW i \in DOMAIN v2', v2'[i] = Serial!Token("put", c), Serial!PutsFollow(c)
      PROVE  IF i = 1 THEN Serial!Harmless(c)' ELSE v2'[i - 1] = Serial!Token("cmd", c)
  <2>1. i + 1 \in DOMAIN v2 /\ v2[i + 1] = Serial!Token("put", c) /\ i + 1 # 1 /\ (i + 1) - 1 = i
    BY <1>2, <1>3
  <2>2. v2[i] = Serial!Token("cmd", c)
    BY <1>3, <2>1 DEF Serial!PutsFollow
  <2>3. CASE i = 1
    BY <2>2, <2>3 DEF Serial!Harmless, Serial!Waits
  <2>4. CASE i # 1
    <3>1. i - 1 \in DOMAIN v2' /\ (i - 1) + 1 = i
      <4>1. DOMAIN v2' = 1..Len(v2') /\ Len(v2') \in Nat
        BY <1>2, TextIs
      <4> QED
        BY <2>4, <4>1
    <3>2. v2'[i - 1] = v2[i]
      BY <1>2, <3>1
    <3> QED
      BY <2>2, <2>4, <3>2
  <2> QED
    BY <2>3, <2>4
<1>4. ASSUME NEW c \in Typist, v2[1] = Serial!Token("put", c), v3.reads = "line", Serial!PutsFollow(c)
      PROVE  \E i \in DOMAIN v4[c] : v4[c][i] = Serial!Token("out", c)
  <2>1. Serial!Harmless(c)
    BY <1>2, <1>4 DEF Serial!PutsFollow
  <2> QED
    BY <1>4, <2>1 DEF Serial!Harmless, Serial!Waits
<1>5. \A c \in Typist : \A i \in DOMAIN v2' : v2'[i] = Serial!Token("put", c) =>
        \E k \in DOMAIN v2 : v2[k] = Serial!Token("put", c)
  BY <1>2
<1>6. \A c \in Typist : \A k \in DOMAIN text : text[k] = Serial!Token("marker", c) =>
        ((Serial!Served(c) /\ Serial!PutsFollow(c)) =>
          \E i \in DOMAIN v4[c] : v4[c][i] = Serial!Token("out", c))
  BY <1>4
<1> QED
  BY <1>2, <1>3, <1>5, <1>6, GuestPrints

LEMMA TwoTokens ==
  ASSUME NEW t, NEW u, Serial!IsToken(t), Serial!IsToken(u)
  PROVE  /\ Serial!Text(<<t, u>>) /\ \A k \in DOMAIN <<t, u>> : <<t, u>>[k] = t \/ <<t, u>>[k] = u
         /\ 1 \in DOMAIN <<t, u>> /\ <<t, u>>[1] = t
<1>1. <<t, u>> \in Seq({t, u}) /\ Len(<<t, u>>) = 2 /\ <<t, u>>[1] = t /\ <<t, u>>[2] = u
  OBVIOUS
<1>2. DOMAIN <<t, u>> = 1..2
  BY <1>1, LenProperties
<1>3. 1..2 = {1, 2}
  OBVIOUS
<1>4. Serial!Text(<<t, u>>)
  <2> DEFINE S == {t, u}
  <2>1. <<t, u>> \in Seq(S) /\ \A x \in S : Serial!IsToken(x)
    BY <1>1
  <2> HIDE DEF S
  <2> QED
    BY <2>1, TextOf
<1> HIDE DEF Serial!Text
<1> QED
  BY <1>1, <1>2, <1>3, <1>4

LEMMA ThreeTokens ==
  ASSUME NEW s, NEW t, NEW u, Serial!IsToken(s), Serial!IsToken(t), Serial!IsToken(u)
  PROVE  /\ Serial!Text(<<s>> \o <<t, u>>)
         /\ \A k \in DOMAIN (<<s>> \o <<t, u>>) : (<<s>> \o <<t, u>>)[k] \in {s, t, u}
<1>1. Serial!Text(<<s>>) /\ Serial!Text(<<t, u>>)
  BY OneToken, TwoTokens
<1>2. /\ Serial!Text(<<s>> \o <<t, u>>)
      /\ \A k \in DOMAIN (<<s>> \o <<t, u>>) :
           \/ k \in DOMAIN <<s>> /\ (<<s>> \o <<t, u>>)[k] = <<s>>[k]
           \/ k - Len(<<s>>) \in DOMAIN <<t, u>> /\ (<<s>> \o <<t, u>>)[k] = <<t, u>>[k - Len(<<s>>)]
  BY <1>1, TextsJoin
<1>3. /\ \A k \in DOMAIN <<s>> : <<s>>[k] = s
      /\ \A k \in DOMAIN <<t, u>> : <<t, u>>[k] = t \/ <<t, u>>[k] = u
  BY OneToken, TwoTokens
<1> QED
  BY <1>2, <1>3

\* Most that the guest prints is one token, and no marker.
LEMMA GuestSays ==
  ASSUME Serial!IInv, UNCHANGED <<v1, v5, v8>>, v2 # <<>>, v2' = Tail(v2), v3.reads # "nothing",
         NEW t, Serial!IsToken(t), t.kind # "marker", Serial!Show(<<t>>), Terminal(v3'),
         \A c \in Typist : v2[1] = Serial!Token("cmd", c) =>
           Serial!Waits(c)' \/ v3'.reads \in {"name", "secret", "answer"}
  PROVE  Serial!IInv'
<1>1. \A c \in Typist : t # Serial!Token("marker", c)
  BY TokenIs
<1>2. Serial!Text(<<t>>) /\ \A k \in DOMAIN <<t>> : <<t>>[k] = t
  BY OneToken
<1>3. \A c \in Typist : \A k \in DOMAIN <<t>> : <<t>>[k] = Serial!Token("marker", c) =>
        v2[1] = Serial!Token("put", c) /\ v3.reads = "line"
  BY <1>1, <1>2
<1> QED
  BY <1>2, <1>3, GuestReads

LEMMA Greeted ==
  ASSUME NEW u, NEW asks \in Seq(Serial!Asks), Serial!Greet(u, asks)
  PROVE  /\ Terminal(v3') /\ v3'.reads \in {"line", "answer"}
         /\ \E t : Serial!IsToken(t) /\ t.kind # "marker" /\ Serial!Show(<<t>>)
<1>1. CASE asks = <<>>
  <2>1. v3' = [user |-> u, reads |-> "line", next |-> <<>>] /\ Serial!Show(<<Serial!Prompt(u)>>)
    BY <1>1 DEF Serial!Greet
  <2>2. Serial!Prompt(u).kind # "marker" /\ Serial!IsToken(Serial!Prompt(u))
    BY TokenIs DEF Serial!Prompt
  <2>3. <<>> \in Seq(Serial!Asks)
    BY EmptySeq
  <2> QED
    BY <2>1, <2>2, <2>3 DEF Terminal
<1>2. CASE asks # <<>>
  <2>1. v3' = [user |-> u, reads |-> "answer", next |-> asks]
        /\ Serial!Show(<<Serial!Token(Head(asks), Serial!None)>>)
    BY <1>2 DEF Serial!Greet
  <2>2. Head(asks) \in Serial!Asks
    BY <1>2, HeadTailProperties
  <2>3. Serial!Token(Head(asks), Serial!None).kind # "marker" /\ Serial!IsToken(Serial!Token(Head(asks), Serial!None))
    BY <2>2, TokenIs DEF Serial!Asks
  <2> QED
    BY <1>2, <2>1, <2>3 DEF Terminal
<1> QED
  BY <1>1, <1>2

LEMMA LineIsRead ==
  ASSUME Serial!IInv, UNCHANGED <<v1, v5, v8>>, v2 # <<>>, v2' = Tail(v2), v3.reads = "line",
         Serial!Line(Head(v2))
  PROVE  Serial!IInv'
<1> DEFINE key == v2[1]
<1>1. Head(v2) = key /\ Terminal(v3) /\ Serial!IsToken(v2[1])
  BY TextsTail DEF Serial!IInv, Serial!TypeOK, Serial!Text, Serial!ToSet, Terminal
<1> HIDE DEF key
<1>2. CASE key.kind = "cmd"
  <2>1. /\ Serial!Show(<<Serial!Token("echo", key.of)>>)
        /\ v3' = [v3 EXCEPT !.reads = "nothing", !.next = <<key.of>>]
    BY <1>1, <1>2 DEF Serial!Line
  <2>2. v3'.reads = "nothing" /\ v3'.next = <<key.of>> /\ Terminal(v3')
    BY <1>1, <2>1 DEF Terminal
  <2>3. ASSUME NEW c \in Typist, v2[1] = Serial!Token("cmd", c) PROVE Serial!Waits(c)'
    BY <2>2, <2>3, TokenIs DEF Serial!Waits, key
  <2>4. Serial!Token("echo", key.of).kind # "marker" /\ Serial!IsToken(Serial!Token("echo", key.of))
    BY TokenIs
  <2> QED
    BY <2>1, <2>2, <2>3, <2>4, GuestSays
<1>3. CASE key.kind # "cmd"
  <2>1. \A c \in Typist : v2[1] = Serial!Token("cmd", c) =>
          Serial!Waits(c)' \/ v3'.reads \in {"name", "secret", "answer"}
    BY <1>3, TokenIs DEF key
  <2>2. CASE key.kind = "put"
    <3> DEFINE e == Serial!Token("echo", key.of)
               m == Serial!Token("marker", key.of)
               p == Serial!Prompt(v3.user)
    <3>1. Serial!Show(<<e>> \o <<m, p>>) /\ v3' = v3
      BY <1>1, <2>2 DEF Serial!Line, Serial!PutEcho
    <3>2. /\ Serial!Text(<<e>> \o <<m, p>>)
          /\ \A k \in DOMAIN (<<e>> \o <<m, p>>) : (<<e>> \o <<m, p>>)[k] \in {e, m, p}
      <4>1. Serial!IsToken(e) /\ Serial!IsToken(m) /\ Serial!IsToken(p)
        BY TokenIs DEF Serial!Prompt
      <4> HIDE DEF e, m, p
      <4> QED
        BY <4>1, ThreeTokens
    <3>3. ASSUME NEW c \in Typist, Serial!Token("marker", c) \in {e, m, p}
          PROVE  v2[1] = Serial!Token("put", c)
      <4>1. Serial!Token("marker", c) = m
        BY <3>3, TokenIs DEF Serial!Prompt
      <4>2. key.of = c
        BY <4>1, TokenIs
      <4> QED
        BY <1>1, <2>2, <4>2 DEF key, Serial!IsToken
    <3> QED
      BY <1>1, <2>1, <3>1, <3>2, <3>3, GuestReads
  <2>3. CASE key.kind = "quit"
    <3>1. /\ Serial!Show(<<Serial!LoginText>>) /\ Terminal(v3')
      BY <1>1, <2>3 DEF Serial!Line, Terminal
    <3>2. Serial!LoginText.kind # "marker" /\ Serial!IsToken(Serial!LoginText)
      BY TokenIs DEF Serial!LoginText
    <3> QED
      BY <2>1, <3>1, <3>2, GuestSays
  <2>4. CASE key.kind \notin {"put", "quit"}
    <3>1. Serial!Show(<<Serial!Prompt(v3.user)>>) /\ v3' = v3
      BY <1>1, <1>3, <2>4 DEF Serial!Line
    <3>2. Serial!Prompt(v3.user).kind # "marker" /\ Serial!IsToken(Serial!Prompt(v3.user))
      BY TokenIs DEF Serial!Prompt
    <3> QED
      BY <1>1, <2>1, <3>1, <3>2, GuestSays
  <2> QED
    BY <2>2, <2>3, <2>4
<1> QED
  BY <1>2, <1>3

LEMMA ConsoleRead == ASSUME Serial!IInv, Serial!Read PROVE Serial!IInv'
<1>0. /\ v2 # <<>> /\ v3.reads # "nothing" /\ v2' = Tail(v2) /\ UNCHANGED <<v1, v5, v8>>
      /\ Terminal(v3) /\ v3.next \in Seq(Serial!Asks)
  BY DEF Serial!Read, Serial!IInv, Serial!TypeOK, Terminal
<1> DEFINE key == v2[1]
<1>1. Head(v2) = key
  BY <1>0, TextsTail DEF Serial!IInv, Serial!TypeOK
<1> HIDE DEF key
<1>2. CASE v3.reads = "line" /\ Serial!Line(Head(v2))
  BY <1>0, <1>2, LineIsRead
<1>3. CASE /\ v3.reads = "name"
           /\ \/ Serial!Show(<<Serial!LoginText>>) /\ v3' = v3
              \/ /\ Serial!Show(<<Serial!PasswordText>>)
                 /\ \E u : v3' = [v3 EXCEPT !.reads = "secret", !.user = u]
  <2>1. /\ Serial!LoginText.kind # "marker" /\ Serial!IsToken(Serial!LoginText)
        /\ Serial!PasswordText.kind # "marker" /\ Serial!IsToken(Serial!PasswordText)
    BY TokenIs DEF Serial!LoginText, Serial!PasswordText
  <2>2. Terminal(v3') /\ v3'.reads \in {"name", "secret", "answer"}
    BY <1>0, <1>3 DEF Terminal
  <2>3. \E t : Serial!IsToken(t) /\ t.kind # "marker" /\ Serial!Show(<<t>>)
    BY <1>3, <2>1
  <2> QED
    BY <1>0, <2>2, <2>3, GuestSays
<1>4. CASE v3.reads = "secret" /\ key.kind = "secret" /\ Serial!Greet(v3.user, v3.next)
  <2>1. Terminal(v3') /\ \E t : Serial!IsToken(t) /\ t.kind # "marker" /\ Serial!Show(<<t>>)
    BY <1>0, <1>4, Greeted
  <2>2. \A c \in Typist : v2[1] # Serial!Token("cmd", c)
    BY <1>4, TokenIs DEF key
  <2> QED
    BY <1>0, <2>1, <2>2, GuestSays
<1>5. CASE /\ v3.reads = "secret" /\ v3' = [v3 EXCEPT !.user = Serial!None, !.reads = "name"]
           /\ Serial!Show(<<Serial!LoginText>>)
  <2>1. Serial!LoginText.kind # "marker" /\ Serial!IsToken(Serial!LoginText)
    BY TokenIs DEF Serial!LoginText
  <2>2. Terminal(v3') /\ v3'.reads = "name"
    BY <1>0, <1>5 DEF Terminal
  <2> QED
    BY <1>0, <1>5, <2>1, <2>2, GuestSays
<1>6. CASE /\ v3.reads = "answer" /\ key = Serial!Reply[Head(v3.next)]
           /\ Serial!Greet(v3.user, Tail(v3.next))
  <2>1. Head(v3.next) \in Serial!Asks /\ Tail(v3.next) \in Seq(Serial!Asks)
    BY <1>0, <1>6, HeadTailProperties DEF Terminal
  <2>2. Terminal(v3') /\ \E t : Serial!IsToken(t) /\ t.kind # "marker" /\ Serial!Show(<<t>>)
    BY <1>6, <2>1, Greeted
  <2>3. key.kind # "cmd"
    BY <1>6, <2>1, TokenIs DEF Serial!Asks, Serial!Reply
  <2>4. \A c \in Typist : v2[1] # Serial!Token("cmd", c)
    BY <2>3, TokenIs DEF key
  <2> QED
    BY <1>0, <2>2, <2>4, GuestSays
<1>7. CASE /\ v3.reads = "answer" /\ Serial!Show(<<Serial!Token(Head(v3.next), Serial!None)>>) /\ v3' = v3
  <2>1. Head(v3.next) \in Serial!Asks
    BY <1>0, <1>7, HeadTailProperties DEF Terminal
  <2> DEFINE t == Serial!Token(Head(v3.next), Serial!None)
  <2>2. t.kind # "marker" /\ Serial!IsToken(t)
    BY <2>1, TokenIs DEF Serial!Asks
  <2> HIDE DEF t
  <2>3. Serial!Show(<<t>>)
    BY <1>7 DEF t
  <2>4. Terminal(v3') /\ v3'.reads = "answer"
    BY <1>0, <1>7
  <2> QED
    BY <1>0, <2>2, <2>3, <2>4, GuestSays
<1> QED
  BY <1>1, <1>2, <1>3, <1>4, <1>5, <1>6, <1>7 DEF Serial!Read

\* While a command runs nothing is read.
LEMMA ConsoleRedraw == ASSUME Serial!IInv, Serial!Redraw PROVE Serial!IInv'
<1>0. v3.reads = "nothing" /\ UNCHANGED <<v1, v2, v3, v5, v8>> /\ Terminal(v3) /\ Serial!Text(v2)
  BY DEF Serial!Redraw, Serial!IInv, Serial!TypeOK, Terminal
<1>1. PICK text : /\ Serial!Text(text) /\ Serial!Show(text)
                  /\ \A k \in DOMAIN text : text[k].kind # "marker"
  <2>1. CASE Serial!Show(<<Serial!Prompt(v3.user), Serial!Token("echo", v3.next[1])>>)
    <3> DEFINE p == Serial!Prompt(v3.user)
               e == Serial!Token("echo", v3.next[1])
    <3>1. p.kind # "marker" /\ e.kind # "marker" /\ Serial!IsToken(p) /\ Serial!IsToken(e)
      BY TokenIs DEF Serial!Prompt
    <3> HIDE DEF p, e
    <3>2. Serial!Text(<<p, e>>) /\ \A k \in DOMAIN <<p, e>> : <<p, e>>[k].kind # "marker"
      BY <3>1, TwoTokens
    <3>3. Serial!Show(<<p, e>>)
      BY <2>1 DEF p, e
    <3> QED
      BY <3>2, <3>3
  <2>2. CASE Serial!Show(Serial!PutEcho(Head(v2).of))
    <3> DEFINE e == Serial!Token("echo", Head(v2).of)
    <3>1. e.kind # "marker" /\ Serial!IsToken(e)
      BY TokenIs
    <3> HIDE DEF e
    <3>2. Serial!Text(<<e>>) /\ \A k \in DOMAIN <<e>> : <<e>>[k].kind # "marker"
      BY <3>1, OneToken
    <3>3. Serial!Show(<<e>>)
      BY <2>2 DEF e, Serial!PutEcho
    <3> QED
      BY <3>2, <3>3
  <2> QED
    BY <2>1, <2>2 DEF Serial!Redraw
<1>2. ASSUME NEW c \in Typist, NEW i \in DOMAIN v2', v2'[i] = Serial!Token("put", c), Serial!PutsFollow(c),
             v4'[c] = v4[c] \o text
      PROVE  IF i = 1 THEN Serial!Harmless(c)' ELSE v2'[i - 1] = Serial!Token("cmd", c)
  <2>1. Serial!Harmless(c) => Serial!Harmless(c)'
    <3>1. Serial!Text(v4[c])
      BY DEF Serial!IInv, Serial!TypeOK
    <3>2. (\E j \in DOMAIN v4[c] : v4[c][j] = Serial!Token("out", c))
            => \E j \in DOMAIN v4'[c] : v4'[c][j] = Serial!Token("out", c)
      BY <1>1, <1>2, <3>1, OutputStaysFirst
    <3> QED
      BY <1>0, <3>2 DEF Serial!Harmless, Serial!Waits
  <2> QED
    BY <1>0, <1>2, <2>1 DEF Serial!PutsFollow
<1>3. \A c \in Typist : \A k \in DOMAIN text : text[k] # Serial!Token("marker", c)
  BY <1>1, TokenIs
<1> QED
  BY <1>0, <1>1, <1>2, <1>3, GuestPrints

LEMMA ConsoleOutput == ASSUME Serial!IInv, Serial!Output PROVE Serial!IInv'
<1> DEFINE o == Serial!Token("out", v3.next[1])
           p == Serial!Prompt(v3.user)
           text == <<o, p>>
<1>0. /\ v3.reads = "nothing" /\ UNCHANGED <<v1, v2, v5, v8>> /\ Serial!Text(v2) /\ Serial!Show(text)
      /\ v3' = [v3 EXCEPT !.reads = "line", !.next = <<>>] /\ Terminal(v3)
  BY DEF Serial!Output, Serial!IInv, Serial!TypeOK, Terminal
<1>1. Terminal(v3')
  BY <1>0, EmptySeq DEF Terminal
<1>2. o.kind # "marker" /\ p.kind # "marker" /\ Serial!IsToken(o) /\ Serial!IsToken(p)
  BY TokenIs DEF Serial!Prompt
<1>3. ASSUME NEW c, v3.next = <<c>> PROVE o = Serial!Token("out", c)
  BY <1>3
<1> HIDE DEF o, p
<1>4. Serial!Text(text) /\ (\A k \in DOMAIN text : text[k].kind # "marker") /\ 1 \in DOMAIN text /\ text[1] = o
  BY <1>2, TwoTokens
<1> HIDE DEF text
<1>5. ASSUME NEW c \in Typist, NEW i \in DOMAIN v2', v2'[i] = Serial!Token("put", c), Serial!PutsFollow(c),
             v4'[c] = v4[c] \o text
      PROVE  IF i = 1 THEN Serial!Harmless(c)' ELSE v2'[i - 1] = Serial!Token("cmd", c)
  <2>1. Serial!Harmless(c) => Serial!Harmless(c)'
    <3>1. Serial!Text(v4[c])
      BY DEF Serial!IInv, Serial!TypeOK
    <3>2. /\ (\E j \in DOMAIN v4[c] : v4[c][j] = Serial!Token("out", c))
               => \E j \in DOMAIN v4'[c] : v4'[c][j] = Serial!Token("out", c)
          /\ (\E k \in DOMAIN text : text[k] = Serial!Token("out", c))
               => \E j \in DOMAIN v4'[c] : v4'[c][j] = Serial!Token("out", c)
      BY <1>4, <1>5, <3>1, OutputStaysFirst
    <3>3. Serial!Waits(c) => \E k \in DOMAIN text : text[k] = Serial!Token("out", c)
      BY <1>3, <1>4 DEF Serial!Waits
    <3> QED
      BY <1>0, <3>2, <3>3 DEF Serial!Harmless, Serial!Waits
  <2> QED
    BY <1>0, <1>5, <2>1 DEF Serial!PutsFollow
<1>6. \A c \in Typist : \A k \in DOMAIN text : text[k] # Serial!Token("marker", c)
  BY <1>4, TokenIs
<1> QED
  BY <1>0, <1>1, <1>4, <1>5, <1>6, GuestPrints

LEMMA ConsoleInit == Serial!Init => Serial!IInv
<1> SUFFICES ASSUME Serial!Init PROVE Serial!IInv
  OBVIOUS
<1>1. /\ v1 = <<>> /\ v2 = <<>> /\ v4 = [c \in Typist |-> <<>>] /\ v5 = [c \in Typist |-> "idle"]
      /\ v8 = [c \in Typist |-> <<>>]
  BY DEF Serial!Init
<1>2. Terminal(v3)
  <2>1. FirstAsks \in Seq(Serial!Asks) /\ <<>> \in Seq(Serial!Asks)
    BY GuestAssumption, EmptySeq DEF Serial!ConsoleAssumption
  <2> QED
    BY <2>1 DEF Serial!Init, Terminal
<1>3. Serial!TypeOK
  <2>1. <<>> \in Seq(Typist)
    BY EmptySeq
  <2> QED
    BY <1>1, <1>2, <2>1, NoToken DEF Serial!TypeOK, Terminal
<1>4. Serial!FramedIsWhole
  BY <1>1 DEF Serial!FramedIsWhole
<1>5. ASSUME NEW c \in Typist PROVE Serial!Sound(c)
  BY <1>1, NoToken DEF Serial!Sound, Serial!Served
<1> QED
  BY <1>3, <1>4, <1>5 DEF Serial!IInv

LEMMA ConsoleStep == ASSUME Serial!IInv, [Serial!Next]_(Serial!vars) PROVE Serial!IInv'
<1>1. CASE UNCHANGED Serial!vars
  <2>1. UNCHANGED <<v1, v2, v3, v4, v5, v8>>
    BY <1>1 DEF Serial!vars
  <2>2. Serial!TypeOK'
    BY <2>1 DEF Serial!IInv, Serial!TypeOK, Serial!Text, Serial!ToSet
  <2>3. Serial!FramedIsWhole'
    BY <2>1 DEF Serial!IInv, Serial!FramedIsWhole, Serial!Contains
  <2>4. ASSUME NEW c \in Typist PROVE Serial!Sound(c)'
    <3>1. Serial!PutsFollow(c) => Serial!PutsFollow(c)'
      BY <2>1 DEF Serial!PutsFollow, Serial!Harmless, Serial!Waits
    <3>2. Serial!OutputFirst(c) => Serial!OutputFirst(c)'
      BY <2>1 DEF Serial!OutputFirst
    <3>3. Serial!Sound(c)
      BY DEF Serial!IInv
    <3> QED
      BY <2>1, <3>1, <3>2, <3>3 DEF Serial!Sound, Serial!Served
  <2> QED
    BY <2>2, <2>3, <2>4 DEF Serial!IInv
<1> QED
  BY <1>1, ConsoleOpen, ConsoleTypes, ConsoleEnds, ConsoleRead, ConsoleRedraw, ConsoleOutput
  DEF Serial!Next

\* No command is typed twice, or again once it ran.
LEMMA OnceStays ==
  ASSUME NEW c \in Typist, Serial!Once(c), v9'[c] = v9[c],
         v5'[c] \in {"idle", "connected", "login", "password", "post"}
           => v5[c] \in {"idle", "connected", "login", "password", "post"},
         \A i \in DOMAIN v2' : v2'[i] = Serial!Token("cmd", c) =>
           i \in DOMAIN v2 /\ v2[i] = Serial!Token("cmd", c)
  PROVE  Serial!Once(c)'
<1>1. Serial!Typed(c)' => Serial!Typed(c)
  BY DEF Serial!Typed
<1>2. \A i, j \in DOMAIN v2' : v2'[i] = Serial!Token("cmd", c) /\ v2'[j] = Serial!Token("cmd", c) => i = j
  BY DEF Serial!Once
<1> QED
  BY <1>1, <1>2 DEF Serial!Once

LEMMA OnceTypes ==
  ASSUME NEW c \in Typist, Serial!Once(c), v9'[c] = v9[c], Serial!Text(v2),
         v5'[c] \in {"idle", "connected", "login", "password", "post"}
           => v5[c] \in {"idle", "connected", "login", "password", "post"},
         NEW line, Serial!Text(line), v2' = v2 \o line,
         \A k \in DOMAIN line : line[k] # Serial!Token("cmd", c)
  PROVE  Serial!Once(c)'
<1>1. \A i \in DOMAIN v2' : \/ i \in DOMAIN v2 /\ v2'[i] = v2[i]
                            \/ i - Len(v2) \in DOMAIN line /\ v2'[i] = line[i - Len(v2)]
  BY JoinedIs
<1>2. \A i \in DOMAIN v2' : v2'[i] = Serial!Token("cmd", c) =>
           i \in DOMAIN v2 /\ v2[i] = Serial!Token("cmd", c)
  BY <1>1
<1> QED
  BY <1>2, OnceStays

LEMMA OnceSubmits ==
  ASSUME Serial!IInv, Serial!OnceInv, NEW d \in Typist, v5[d] \in {"login", "password", "post"},
         Serial!Submit(d), v9' = v9
  PROVE  Serial!OnceInv'
<1> DEFINE a == Serial!Token("cmd", d)
           b == Serial!Token("put", d)
           n == Len(v2)
<1>1. v2' = v2 \o <<a, b>> /\ v5' = [v5 EXCEPT ![d] = "reply"]
  BY DEF Serial!Submit, Serial!Submission, Serial!Type
<1>2. /\ v5'[d] = "reply" /\ (\A c \in Typist : c # d => v5'[c] = v5[c]) /\ Serial!Text(v2)
      /\ DOMAIN v9 = Typist /\ \A c \in Typist : Serial!Once(c)
  BY <1>1 DEF Serial!IInv, Serial!TypeOK, Serial!OnceInv
<1>3. Serial!IsToken(a) /\ Serial!IsToken(b) /\ a # b /\ b.kind = "put" /\ a.of = d
  BY TokenIs
<1> HIDE DEF a, b
<1>4. /\ Serial!Text(<<a, b>>) /\ DOMAIN <<a, b>> = {1, 2} /\ <<a, b>>[1] = a /\ <<a, b>>[2] = b
  <2>1. Serial!Text(<<a, b>>)
    BY <1>3, TwoTokens
  <2>2. DOMAIN <<a, b>> = 1..2 /\ 1..2 = {1, 2} /\ <<a, b>>[1] = a /\ <<a, b>>[2] = b
    OBVIOUS
  <2> QED
    BY <2>1, <2>2
<1>5. ASSUME NEW c \in Typist, c # d PROVE Serial!Once(c)'
  <2>1. a # Serial!Token("cmd", c) /\ b # Serial!Token("cmd", c)
    BY <1>3, <1>5, TokenIs
  <2>2. \A k \in DOMAIN <<a, b>> : <<a, b>>[k] # Serial!Token("cmd", c)
    BY <1>4, <2>1
  <2>3. Serial!Once(c) /\ v5'[c] = v5[c] /\ v9'[c] = v9[c]
    BY <1>2, <1>5
  <2> QED
    BY <1>1, <1>2, <1>4, <2>2, <2>3, OnceTypes
<1>6. Serial!Once(d)'
  <2>1. ~Serial!Typed(d) /\ v9[d] = <<>>
    BY <1>2 DEF Serial!Once
  <2>2. \A i \in DOMAIN v2 : v2[i] # a
    BY <2>1 DEF Serial!Typed, a
  <2>3. \A i \in DOMAIN v2' : \/ i \in DOMAIN v2 /\ v2'[i] = v2[i]
                              \/ i - n \in DOMAIN <<a, b>> /\ v2'[i] = <<a, b>>[i - n]
    <3>1. PICK u : u = <<a, b>>
      OBVIOUS
    <3>2. Serial!Text(u) /\ v2' = v2 \o u
      BY <1>1, <1>4, <3>1
    <3>3. \A i \in DOMAIN v2' : \/ i \in DOMAIN v2 /\ v2'[i] = v2[i]
                                \/ i - n \in DOMAIN u /\ v2'[i] = u[i - n]
      BY <1>2, <3>2, JoinedIs
    <3> QED
      BY <3>1, <3>3
  <2>4. /\ Serial!Text(v2') /\ n \in Nat
    BY <1>1, <1>2, <1>4, TextsJoin, TextIs
  <2> HIDE DEF n
  <2>5. DOMAIN v2' = 1..Len(v2') /\ Len(v2') \in Nat
    BY <2>4, TextIs
  <2>6. ASSUME NEW i \in DOMAIN v2', v2'[i] = a PROVE i = n + 1
    <3>1. i - n \in {1, 2} /\ v2'[i] = <<a, b>>[i - n]
      BY <1>4, <2>2, <2>3, <2>6
    <3>2. i - n # 2
      BY <1>3, <1>4, <2>6, <3>1
    <3> QED
      BY <2>4, <2>5, <3>1, <3>2
  <2>7. \A i, j \in DOMAIN v2' : v2'[i] = a /\ v2'[j] = a => i = j
    BY <2>6
  <2>8. v9'[d] = <<>> /\ v5'[d] = "reply"
    BY <1>2, <2>1
  <2> QED
    BY <2>7, <2>8 DEF Serial!Once, a
<1> QED
  BY <1>2, <1>5, <1>6 DEF Serial!OnceInv

LEMMA OnceWrites ==
  ASSUME Serial!IInv, Serial!OnceInv, NEW d \in Typist, v9' = v9,
         v5[d] \in {"connected", "login", "password", "post"},
         \A c \in Typist : c # d => v5'[c] = v5[c],
         v2' = v2 \/ \E t : Serial!IsToken(t) /\ t.kind # "cmd" /\ v2' = v2 \o <<t>>
  PROVE  Serial!OnceInv'
<1>1. /\ DOMAIN v9 = Typist /\ (\A c \in Typist : Serial!Once(c)) /\ Serial!Text(v2)
      /\ \A c \in Typist : v5'[c] \in {"idle", "connected", "login", "password", "post"}
           => v5[c] \in {"idle", "connected", "login", "password", "post"}
  BY DEF Serial!OnceInv, Serial!IInv, Serial!TypeOK
<1>2. CASE v2' = v2
  <2>1. ASSUME NEW c \in Typist PROVE Serial!Once(c)'
    BY <1>1, <1>2, OnceStays
  <2> QED
    BY <1>1, <2>1 DEF Serial!OnceInv
<1>3. ASSUME NEW t, Serial!IsToken(t), t.kind # "cmd", v2' = v2 \o <<t>> PROVE Serial!OnceInv'
  <2>1. ASSUME NEW c \in Typist PROVE Serial!Once(c)'
    <3>1. t # Serial!Token("cmd", c)
      BY <1>3, TokenIs
    <3>2. Serial!Text(<<t>>) /\ \A k \in DOMAIN <<t>> : <<t>>[k] # Serial!Token("cmd", c)
      BY <1>3, <3>1, OneToken
    <3>3. /\ Serial!Once(c) /\ v9'[c] = v9[c]
          /\ v5'[c] \in {"idle", "connected", "login", "password", "post"}
               => v5[c] \in {"idle", "connected", "login", "password", "post"}
      BY <1>1
    <3> QED
      BY <1>1, <1>3, <3>2, <3>3, OnceTypes
  <2> QED
    BY <1>1, <2>1 DEF Serial!OnceInv
<1> QED
  BY <1>2, <1>3

LEMMA OnceReads ==
  ASSUME Serial!IInv, Serial!OnceInv, v2 # <<>>, v2' = Tail(v2), v5' = v5,
         \/ v9' = v9
         \/ v9' = [v9 EXCEPT ![v2[1].of] = Append(@, v3.user)] /\ v2[1].kind = "cmd"
  PROVE  Serial!OnceInv'
<1>1. DOMAIN v9 = Typist /\ Serial!Text(v2) /\ \A c \in Typist : Serial!Once(c)
  BY DEF Serial!OnceInv, Serial!IInv, Serial!TypeOK
<1>2. /\ 1 \in DOMAIN v2 /\ Serial!IsToken(v2[1])
      /\ \A i \in DOMAIN v2' : i \in Nat \ {0} /\ i + 1 \in DOMAIN v2 /\ v2'[i] = v2[i + 1]
  BY <1>1, TextsTail DEF Serial!Text, Serial!ToSet
<1>3. DOMAIN v9' = Typist
  BY <1>1
<1>4. ASSUME NEW c \in Typist PROVE Serial!Once(c)'
  <2>1. Serial!Once(c)
    BY <1>1
  <2>2. \A i, j \in DOMAIN v2' : v2'[i] = Serial!Token("cmd", c) /\ v2'[j] = Serial!Token("cmd", c) => i = j
    <3> SUFFICES ASSUME NEW i \in DOMAIN v2', NEW j \in DOMAIN v2',
                        v2'[i] = Serial!Token("cmd", c), v2'[j] = Serial!Token("cmd", c)
                 PROVE  i = j
      OBVIOUS
    <3>1. i + 1 = j + 1
      BY <1>2, <2>1 DEF Serial!Once
    <3> QED
      BY <1>2, <3>1
  <2>3. Serial!Typed(c)' => Serial!Typed(c)
    BY <1>2 DEF Serial!Typed
  <2>4. CASE v9'[c] = v9[c]
    BY <2>1, <2>2, <2>3, <2>4 DEF Serial!Once
  <2>5. CASE v9'[c] # v9[c]
    <3>1. c = v2[1].of /\ v9'[c] = Append(v9[c], v3.user) /\ v2[1].kind = "cmd"
      BY <1>1, <2>5
    <3>2. v2[1] = Serial!Token("cmd", c)
      BY <1>2, <3>1 DEF Serial!IsToken
    <3>3. Serial!Typed(c)
      BY <1>2, <3>2 DEF Serial!Typed
    <3>4. v9[c] = <<>> /\ v5[c] \notin {"idle", "connected", "login", "password", "post"}
      BY <2>1, <3>3 DEF Serial!Once
    <3>5. v9'[c] = <<v3.user>>
      BY <3>1, <3>4
    <3>6. ASSUME NEW i \in DOMAIN v2', v2'[i] = Serial!Token("cmd", c) PROVE FALSE
      <4>1. i + 1 = 1 /\ i \in Nat \ {0}
        BY <1>2, <2>1, <3>2, <3>6 DEF Serial!Once
      <4> QED
        BY <4>1
    <3>7. ~Serial!Typed(c)'
      BY <3>6 DEF Serial!Typed
    <3> QED
      BY <2>2, <3>4, <3>5, <3>7 DEF Serial!Once
  <2> QED
    BY <2>4, <2>5
<1> QED
  BY <1>3, <1>4 DEF Serial!OnceInv

LEMMA ConsoleOnce == ASSUME Serial!IInv, Serial!OnceInv, [Serial!Next]_(Serial!vars) PROVE Serial!OnceInv'
<1>0. /\ DOMAIN v9 = Typist /\ (\A c \in Typist : Serial!Once(c)) /\ Serial!Text(v2)
      /\ v5 \in [Typist -> {"idle", "connected", "login", "password", "post", "reply",
                            "framed", "unframed", "failed"}]
  BY DEF Serial!OnceInv, Serial!IInv, Serial!TypeOK
<1>1. ASSUME v2' = v2, v9' = v9,
             \A c \in Typist : v5'[c] \in {"idle", "connected", "login", "password", "post"}
               => v5[c] \in {"idle", "connected", "login", "password", "post"}
      PROVE  Serial!OnceInv'
  <2>1. ASSUME NEW c \in Typist PROVE Serial!Once(c)'
    BY <1>0, <1>1, OnceStays
  <2> QED
    BY <1>0, <1>1, <2>1 DEF Serial!OnceInv
<1>2. CASE UNCHANGED Serial!vars
  BY <1>1, <1>2 DEF Serial!vars
<1>3. ASSUME NEW d \in Typist, Serial!Open(d) PROVE Serial!OnceInv'
  <2>1. v5[d] = "idle" /\ v5' = [v5 EXCEPT ![d] = "connected"] /\ v2' = v2 /\ v9' = v9
    BY <1>3 DEF Serial!Open
  <2>2. \A c \in Typist : v5'[c] \in {"idle", "connected", "login", "password", "post"}
          => v5[c] \in {"idle", "connected", "login", "password", "post"}
    BY <1>0, <2>1
  <2> QED
    BY <1>1, <2>1, <2>2
<1>4. ASSUME NEW d \in Typist, Serial!Framed(d) \/ Serial!Unframed(d) \/ Serial!GiveUp(d) PROVE Serial!OnceInv'
  <2>1. PICK how \in {"framed", "unframed", "failed"} :
          v5' = [v5 EXCEPT ![d] = how] /\ v2' = v2 /\ v9' = v9
    BY <1>4 DEF Serial!Framed, Serial!Unframed, Serial!GiveUp, Serial!Finish
  <2>2. \A c \in Typist : v5'[c] \in {"idle", "connected", "login", "password", "post"}
          => v5[c] \in {"idle", "connected", "login", "password", "post"}
    BY <1>0, <2>1
  <2> QED
    BY <1>1, <2>1, <2>2
<1>5. CASE Serial!Redraw \/ Serial!Output
  <2>1. v2' = v2 /\ v5' = v5 /\ v9' = v9
    BY <1>5 DEF Serial!Redraw, Serial!Output
  <2> QED
    BY <1>1, <2>1
<1>6. CASE Serial!Read
  <2>1. v2 # <<>> /\ v2' = Tail(v2) /\ v5' = v5
    BY <1>6 DEF Serial!Read
  <2>2. Head(v2) = v2[1]
    BY <1>0, <2>1, TextsTail
  <2>3. \/ v9' = v9
        \/ v9' = [v9 EXCEPT ![v2[1].of] = Append(@, v3.user)] /\ v2[1].kind = "cmd"
    <3>1. CASE v3.reads = "line" /\ Serial!Line(Head(v2))
      <4> DEFINE key == v2[1]
      <4>1. Serial!Line(key)
        BY <2>2, <3>1
      <4> HIDE DEF key
      <4>2. v9' = v9 \/ (v9' = [v9 EXCEPT ![key.of] = Append(@, v3.user)] /\ key.kind = "cmd")
        BY <4>1 DEF Serial!Line
      <4> QED
        BY <4>2 DEF key
    <3>2. CASE v9' = v9
      BY <3>2
    <3> QED
      BY <1>6, <3>1, <3>2 DEF Serial!Read
  <2> QED
    BY <2>1, <2>3, OnceReads
<1>7. ASSUME NEW d \in Typist,
             Serial!Wake(d) \/ Serial!LogIn(d) \/ Serial!Password(d) \/ Serial!PostLogin(d)
      PROVE  Serial!OnceInv'
  <2>1. v9' = v9 /\ v5[d] \in {"connected", "login", "password", "post"}
    BY <1>7 DEF Serial!Wake, Serial!LogIn, Serial!Password, Serial!PostLogin
  <2>2. CASE v5[d] \in {"login", "post"} /\ Serial!Submit(d)
    BY <2>1, <2>2, OnceSubmits
  <2>3. CASE /\ v5' = v5 \/ \E a : v5' = [v5 EXCEPT ![d] = a]
             /\ \E t : /\ Serial!IsToken(t) /\ t.kind \in {"cr", "quit", "name", "secret", "no", "skip"}
                       /\ v2' = v2 \/ v2' = v2 \o <<t>>
    <3>1. \A c \in Typist : c # d => v5'[c] = v5[c]
      BY <1>0, <2>3
    <3>2. v2' = v2 \/ \E t : Serial!IsToken(t) /\ t.kind # "cmd" /\ v2' = v2 \o <<t>>
      BY <2>3
    <3> QED
      BY <2>1, <3>1, <3>2, OnceWrites
  <2>4. CASE Serial!Wake(d)
    <3>1. LET t == Serial!Token("cr", Serial!None) IN Serial!IsToken(t) /\ t.kind = "cr"
      BY TokenIs
    <3>2. v2' = v2 \o <<Serial!Token("cr", Serial!None)>> /\ v5' = [v5 EXCEPT ![d] = "login"]
      BY <2>4 DEF Serial!Wake, Serial!Type, Serial!Poke
    <3> QED
      BY <2>3, <3>1, <3>2
  <2>5. CASE Serial!LogIn(d)
    <3>1. LET t == Serial!Token("quit", Serial!None) IN Serial!IsToken(t) /\ t.kind = "quit"
      BY TokenIs
    <3>2. LET t == Serial!Token("name", TypesAs[d]) IN Serial!IsToken(t) /\ t.kind = "name"
      BY TokenIs
    <3>3. CASE v5[d] = "login" /\ Serial!Submit(d)
      BY <2>2, <3>3
    <3>4. CASE /\ v5' = v5
               /\ Serial!Type(IF v7[d] THEN <<>> ELSE <<Serial!Token("quit", Serial!None)>>)
      <4>1. v2' = v2 \/ v2' = v2 \o <<Serial!Token("quit", Serial!None)>>
        <5>1. v2 \in Seq(Serial!ToSet(v2))
          BY <1>0 DEF Serial!Text
        <5> QED
          BY <3>4, <5>1, ConcatEmptySeq DEF Serial!Type
      <4> QED
        BY <2>3, <3>1, <3>4, <4>1
    <3>5. CASE v5' = [v5 EXCEPT ![d] = "password"] /\ Serial!Type(<<Serial!Token("name", TypesAs[d])>>)
      <4>1. v2' = v2 \o <<Serial!Token("name", TypesAs[d])>>
        BY <3>5 DEF Serial!Type
      <4> QED
        BY <2>3, <3>2, <3>5, <4>1
    <3> QED
      BY <2>5, <3>3, <3>4, <3>5 DEF Serial!LogIn
  <2>6. CASE Serial!Password(d)
    <3>1. LET t == Serial!Token("secret", TypesAs[d]) IN Serial!IsToken(t) /\ t.kind = "secret"
      BY TokenIs
    <3>2. v2' = v2 \o <<Serial!Token("secret", TypesAs[d])>> /\ v5' = [v5 EXCEPT ![d] = "post"]
      BY <2>6 DEF Serial!Password, Serial!Type
    <3> QED
      BY <2>3, <3>1, <3>2
  <2>7. CASE Serial!PostLogin(d)
    <3>1. CASE v5[d] = "post" /\ Serial!Submit(d)
      BY <2>2, <3>1
    <3>2. ASSUME NEW ask \in Serial!Asks, Serial!Type(<<Serial!Reply[ask]>>), v5' = v5 PROVE Serial!OnceInv'
      <4>1. Serial!IsToken(Serial!Reply[ask]) /\ Serial!Reply[ask].kind \in {"no", "skip"}
        BY <3>2, TokenIs DEF Serial!Asks, Serial!Reply
      <4>2. v2' = v2 \o <<Serial!Reply[ask]>>
        BY <3>2 DEF Serial!Type
      <4> QED
        BY <2>3, <3>2, <4>1, <4>2
    <3> QED
      BY <2>7, <3>1, <3>2 DEF Serial!PostLogin
  <2> QED
    BY <1>7, <2>4, <2>5, <2>6, <2>7
<1> QED
  BY <1>2, <1>3, <1>4, <1>5, <1>6, <1>7 DEF Serial!Next

\* A reply that the console says is framed holds the output of its own command, and a command
\* runs once at most, whatever earlier calls typed and left unread (console.ts:191-208,
\* 472-481).
THEOREM RepliesAreWhole == Guest => [](plays = "console" => Serial!FramedIsWhole /\ Serial!RanOnce)
<1> DEFINE Inv == plays = "console" => Serial!IInv /\ Serial!OnceInv
<1>1. ASSUME GuestInit PROVE Inv
  <2> SUFFICES ASSUME Serial!Init PROVE Serial!IInv /\ Serial!OnceInv
    BY <1>1 DEF GuestInit
  <2>1. v9 = [c \in Typist |-> <<>>] /\ v2 = <<>>
    BY DEF Serial!Init
  <2> QED
    BY <2>1, ConsoleInit, NoToken DEF Serial!OnceInv, Serial!Once, Serial!Typed
<1>2. ASSUME Inv, [GuestNext]_all PROVE Inv'
  <2>1. ASSUME plays' = "console" PROVE plays = "console" /\ [Serial!Next]_(Serial!vars)
    BY <1>2, <2>1 DEF GuestNext, Plays, all, slots, Serial!vars
  <2> QED
    BY <1>2, <2>1, ConsoleStep, ConsoleOnce
<1>3. Inv => (plays = "console" => Serial!FramedIsWhole /\ Serial!RanOnce)
  <2>1. ASSUME Serial!OnceInv, NEW c \in Typist PROVE Len(v9[c]) <= 1
    <3>1. PICK x : v9[c] = <<>> \/ v9[c] = <<x>>
      BY <2>1 DEF Serial!OnceInv, Serial!Once
    <3>2. Len(<<>>) <= 1 /\ Len(<<x>>) <= 1
      OBVIOUS
    <3>3. CASE v9[c] = <<>>
      BY <3>2, <3>3
    <3>4. CASE v9[c] = <<x>>
      BY <3>2, <3>4
    <3> QED
      BY <3>1, <3>3, <3>4
  <2> QED
    BY <2>1 DEF Serial!IInv, Serial!RanOnce
<1> QED
  BY <1>1, <1>2, <1>3, PTL DEF Guest

----------------------------------------------------------------------------
(* The boot forensics: guest, session, counters, kind, pc, outcome, q,      *)
(* elapsed, tried, given, left, working, reachable, hiccups, before, after, *)
(* verdict, leftover, files and captures are v1 to v20.                     *)

LEMMA ForensicsBounds ==
  /\ \A f \in DOMAIN BootForwards : BootForwards[f].host \in Nat \ {0} /\ BootForwards[f].guest \in Nat
  /\ \A f, g \in DOMAIN BootForwards : f # g => BootForwards[f].host # BootForwards[g].host
  /\ BootLogins \in Nat \ {0} /\ BootQueries \in Nat /\ BootQueries >= 2 /\ BootReports \in Nat \ {0}
  /\ QueryTime \in Nat /\ LoginTime \in Nat /\ LoginCost \in Nat \ {0}
  /\ QueryTime + LoginTime >= 2 * LoginCost
  /\ BootBudget \in Nat /\ BootBudget >= 2 * (QueryTime + LoginTime)
BY GuestAssumption DEF Forensics!BootForensicsAssumption

----------------------------------------------------------------------------
(* The forwards *)

\* The row QEMU keeps of a forward itself.
ForwardRow(f) == Forensics!Row("HOST_FORWARD", BootForwards[f].host, BootForwards[f].guest)

LEMMA ForwardRowIs ==
  ASSUME NEW f \in DOMAIN BootForwards, v1.bound \subseteq DOMAIN BootForwards
  PROVE  ForwardRow(f) \in Forensics!Rows <=> f \in v1.bound
<1>1. ASSUME f \in v1.bound PROVE ForwardRow(f) \in Forensics!Rows
  BY <1>1 DEF ForwardRow, Forensics!Rows
<1>2. ASSUME ForwardRow(f) \in Forensics!Rows PROVE f \in v1.bound
  <2>1. ForwardRow(f).state = "HOST_FORWARD" /\ ForwardRow(f).src = BootForwards[f].host
    BY DEF ForwardRow, Forensics!Row
  <2>2. PICK g \in v1.bound : ForwardRow(f) = ForwardRow(g)
    <3> DEFINE src(g) == IF v1.hostPorts THEN BootForwards[g].host ELSE 0
               probed(s, cond) == {Forensics!Row(s, src(g), BootForwards[g].guest) :
                                     g \in {e \in v1.bound : v1.port[BootForwards[e].guest] = cond}}
    <3>1. Forensics!Rows = {ForwardRow(g) : g \in v1.bound}
                           \cup probed("TIME_WAIT", "serves") \cup probed("SYN_SENT", "drops")
                           \cup (IF v1.outbound
                                 THEN {Forensics!Row("ESTABLISHED", 0, p) : p \in Forensics!GuestPorts} ELSE {})
      BY DEF ForwardRow, Forensics!Rows, Forensics!Ephemeral
    <3>2. \A r \in probed("TIME_WAIT", "serves") : r.state = "TIME_WAIT"
      BY DEF Forensics!Row
    <3>3. \A r \in probed("SYN_SENT", "drops") : r.state = "SYN_SENT"
      BY DEF Forensics!Row
    <3>4. \A r \in (IF v1.outbound
                    THEN {Forensics!Row("ESTABLISHED", 0, p) : p \in Forensics!GuestPorts} ELSE {}) :
            r.state = "ESTABLISHED"
      BY DEF Forensics!Row
    <3> HIDE DEF probed
    <3>5. ForwardRow(f) \in {ForwardRow(g) : g \in v1.bound}
      BY <1>2, <2>1, <3>1, <3>2, <3>3, <3>4
    <3> QED
      BY <3>5
  <2>3. ForwardRow(g).src = BootForwards[g].host
    BY DEF ForwardRow, Forensics!Row
  <2> QED
    BY <2>1, <2>2, <2>3, ForensicsBounds
<1> QED
  BY <1>1, <1>2

\* The other rows are of probes and of the guest's own connections.
LEMMA LiveRowsAre ==
  ASSUME v1.bound \subseteq DOMAIN BootForwards
  PROVE  /\ \A r \in Forensics!LiveRows :
              \/ /\ r.state \in {"TIME_WAIT", "SYN_SENT"}
                 /\ \E g \in v1.bound :
                      /\ r.src = (IF v1.hostPorts THEN BootForwards[g].host ELSE 0)
                      /\ r.dst = BootForwards[g].guest
                      /\ v1.port[BootForwards[g].guest] =
                           (IF r.state = "TIME_WAIT" THEN "serves" ELSE "drops")
              \/ r.state = "ESTABLISHED" /\ r.src = 0
         /\ \A g \in v1.bound :
              /\ v1.port[BootForwards[g].guest] = "serves" =>
                   Forensics!Row("TIME_WAIT", IF v1.hostPorts THEN BootForwards[g].host ELSE 0,
                                 BootForwards[g].guest) \in Forensics!LiveRows
              /\ v1.port[BootForwards[g].guest] = "drops" =>
                   Forensics!Row("SYN_SENT", IF v1.hostPorts THEN BootForwards[g].host ELSE 0,
                                 BootForwards[g].guest) \in Forensics!LiveRows
<1> DEFINE src(g) == IF v1.hostPorts THEN BootForwards[g].host ELSE 0
           Row(s, a, b) == Forensics!Row(s, a, b)
           Heads == {ForwardRow(g) : g \in v1.bound}
           Served == {Row("TIME_WAIT", src(g), BootForwards[g].guest) :
                        g \in {e \in v1.bound : v1.port[BootForwards[e].guest] = "serves"}}
           Dropped == {Row("SYN_SENT", src(g), BootForwards[g].guest) :
                         g \in {e \in v1.bound : v1.port[BootForwards[e].guest] = "drops"}}
           Own == IF v1.outbound THEN {Row("ESTABLISHED", 0, p) : p \in Forensics!GuestPorts} ELSE {}
<1>1. Forensics!Rows = Heads \cup Served \cup Dropped \cup Own
  BY DEF ForwardRow, Forensics!Rows, Forensics!Ephemeral
<1>2. \A s, a, b : Row(s, a, b).state = s /\ Row(s, a, b).src = a /\ Row(s, a, b).dst = b
  BY DEF Forensics!Row
<1>3. \A r \in Heads : r.state = "HOST_FORWARD"
  BY DEF ForwardRow, Forensics!Row
<1> HIDE DEF Row, src
<1>4. \A r \in Served : /\ r.state = "TIME_WAIT"
                        /\ \E g \in v1.bound : r.src = src(g) /\ r.dst = BootForwards[g].guest
                                               /\ v1.port[BootForwards[g].guest] = "serves"
  BY <1>2
<1>5. \A r \in Dropped : /\ r.state = "SYN_SENT"
                         /\ \E g \in v1.bound : r.src = src(g) /\ r.dst = BootForwards[g].guest
                                                /\ v1.port[BootForwards[g].guest] = "drops"
  BY <1>2
<1>6. \A r \in Own : r.state = "ESTABLISHED" /\ r.src = 0
  BY <1>2
<1>7. \A g \in v1.bound :
        /\ v1.port[BootForwards[g].guest] = "serves" => Row("TIME_WAIT", src(g), BootForwards[g].guest) \in Served
        /\ v1.port[BootForwards[g].guest] = "drops" => Row("SYN_SENT", src(g), BootForwards[g].guest) \in Dropped
  OBVIOUS
<1> HIDE DEF Heads, Served, Dropped, Own
<1>8. Forensics!LiveRows = Served \cup Dropped \cup Own
  BY <1>1, <1>3, <1>4, <1>5, <1>6 DEF Forensics!LiveRows
<1>9. ASSUME NEW r \in Forensics!LiveRows
      PROVE  \/ /\ r.state \in {"TIME_WAIT", "SYN_SENT"}
                /\ \E g \in v1.bound :
                     /\ r.src = src(g) /\ r.dst = BootForwards[g].guest
                     /\ v1.port[BootForwards[g].guest] = (IF r.state = "TIME_WAIT" THEN "serves" ELSE "drops")
             \/ r.state = "ESTABLISHED" /\ r.src = 0
  <2>1. CASE r \in Served
    BY <1>4, <2>1
  <2>2. CASE r \in Dropped
    BY <1>5, <2>2
  <2>3. CASE r \in Own
    BY <1>6, <2>3
  <2> QED
    BY <1>8, <2>1, <2>2, <2>3
<1>10. \A g \in v1.bound :
        /\ v1.port[BootForwards[g].guest] = "serves" =>
             Row("TIME_WAIT", src(g), BootForwards[g].guest) \in Forensics!LiveRows
        /\ v1.port[BootForwards[g].guest] = "drops" =>
             Row("SYN_SENT", src(g), BootForwards[g].guest) \in Forensics!LiveRows
  BY <1>7, <1>8
<1> QED
  BY <1>9, <1>10 DEF src, Row

\* What is said of a forward is so.
LEMMA ForwardIsJudged ==
  ASSUME NEW f \in DOMAIN BootForwards, v1.bound \subseteq DOMAIN BootForwards,
         v1.port[BootForwards[f].guest] \in {"serves", "closed", "drops"},
         NEW said, said = Forensics!Classified(f)
  PROVE  /\ said = "not-forwarded" <=> f \notin v1.bound
         /\ said = "dropped" <=> f \in v1.bound /\ v1.port[BootForwards[f].guest] = "drops"
         /\ said = "refused" => v1.port[BootForwards[f].guest] = "closed"
<1> DEFINE here == v1.port[BootForwards[f].guest]
           ours == Forensics!RowsOf(f)
           states == {r.state : r \in ours}
           from(g) == IF v1.hostPorts THEN BootForwards[g].host ELSE 0
<1>1. said = IF f \notin v1.bound THEN "not-forwarded"
             ELSE IF "SYN_SENT" \in states THEN "dropped"
             ELSE IF states = {} THEN "refused"
             ELSE IF states \cap {"ESTABLISHED", "TIME_WAIT"} # {} THEN "served" ELSE "unknown"
  BY ForwardRowIs DEF Forensics!Classified, Forensics!ServedStates, ForwardRow
<1>2. \A r : r \in ours <=> /\ r \in Forensics!LiveRows /\ r.dst = BootForwards[f].guest
                            /\ Forensics!RowsCarryHostPort => r.src = BootForwards[f].host
  BY DEF Forensics!RowsOf
<1>3. ASSUME f \in v1.bound, NEW s, NEW r, r = Forensics!Row(s, from(f), BootForwards[f].guest),
             r \in Forensics!LiveRows
      PROVE  s \in states
  <2>1. r.state = s /\ r.src = from(f) /\ r.dst = BootForwards[f].guest
    BY <1>3 DEF Forensics!Row
  <2>2. ASSUME Forensics!RowsCarryHostPort PROVE r.src = BootForwards[f].host
    <3>1. PICK other \in Forensics!LiveRows, g \in DOMAIN BootForwards : other.src = BootForwards[g].host
      BY <2>2 DEF Forensics!RowsCarryHostPort, Forensics!Name
    <3>2. other.src # 0
      BY <3>1, ForensicsBounds
    <3>3. v1.hostPorts
      BY <3>1, <3>2, LiveRowsAre
    <3> QED
      BY <2>1, <3>3
  <2>3. r \in ours
    BY <1>2, <1>3, <2>1, <2>2
  <2> QED
    BY <2>1, <2>3
<1>4. ASSUME f \in v1.bound, "SYN_SENT" \in states PROVE here = "drops"
  <2>1. PICK r \in ours : r.state = "SYN_SENT"
    BY <1>4
  <2>2. r \in Forensics!LiveRows /\ r.dst = BootForwards[f].guest
    BY <1>2
  <2>3. PICK g \in v1.bound : r.dst = BootForwards[g].guest /\ v1.port[BootForwards[g].guest] = "drops"
    BY <2>1, <2>2, LiveRowsAre
  <2> QED
    BY <2>2, <2>3
<1>5. ASSUME f \in v1.bound, here = "drops" PROVE "SYN_SENT" \in states
  <2>1. Forensics!Row("SYN_SENT", from(f), BootForwards[f].guest) \in Forensics!LiveRows
    BY <1>5, LiveRowsAre
  <2> QED
    BY <1>3, <1>5, <2>1
<1>6. ASSUME f \in v1.bound, here = "serves" PROVE "TIME_WAIT" \in states
  <2>1. Forensics!Row("TIME_WAIT", from(f), BootForwards[f].guest) \in Forensics!LiveRows
    BY <1>6, LiveRowsAre
  <2> QED
    BY <1>3, <1>6, <2>1
<1> HIDE DEF states
<1> QED
  BY <1>1, <1>4, <1>5, <1>6

\* A step changes nothing of what a part speaks of, but for the parts named.
LEMMA ForwardsStep ==
  ASSUME v1 \in Forensics!Guests, Forensics!ForwardsAreJudged, [Forensics!Next]_(Forensics!vars)
  PROVE  v1' = v1 /\ Forensics!ForwardsAreJudged'
<1>1. v1' = v1
  BY DEF Forensics!Next, Forensics!vars, Forensics!ProbeForwards, Forensics!Ask, Forensics!Answered,
         Forensics!LoginFails, Forensics!ReplyHangs, Forensics!SnapshotDone, Forensics!Install, Forensics!ReadBefore,
         Forensics!Probe, Forensics!ReadAfter, Forensics!Judge, Forensics!Report, Forensics!Again
<1>2. CASE Forensics!ProbeForwards
  <2>0. PICK usernet \in {"table", "failed"} :
          v6' = [usernet |-> usernet,
                 ports |-> [f \in DOMAIN BootForwards |->
                              IF usernet = "table" THEN Forensics!Classified(f) ELSE "not-forwarded"]]
    BY <1>2 DEF Forensics!ProbeForwards, Forensics!Name
  <2>1. /\ v6'.usernet = usernet
        /\ \A f \in DOMAIN BootForwards :
             v6'.ports[f] = IF usernet = "table" THEN Forensics!Classified(f) ELSE "not-forwarded"
    BY <2>0
  <2>2. v1.bound \subseteq DOMAIN BootForwards
        /\ v1.port \in [Forensics!GuestPorts -> {"serves", "closed", "drops"}]
    BY DEF Forensics!Guests, Forensics!Name, Forensics!Conditions
  <2>3. ASSUME NEW f \in DOMAIN BootForwards
        PROVE  LET here == v1.port[BootForwards[f].guest] IN
               /\ v6'.ports[f] = "dropped" => f \in v1.bound /\ here = "drops"
               /\ v6'.ports[f] = "refused" => here = "closed"
               /\ v6'.usernet = "table" =>
                    /\ v6'.ports[f] = "not-forwarded" <=> f \notin v1.bound
                    /\ f \in v1.bound /\ here = "drops" => v6'.ports[f] = "dropped"
    <3>1. PICK said : said = Forensics!Classified(f)
      OBVIOUS
    <3>2. BootForwards[f].guest \in Forensics!GuestPorts
      BY DEF Forensics!GuestPorts, Forensics!Name
    <3>3. v1.port[BootForwards[f].guest] \in {"serves", "closed", "drops"}
      BY <2>2, <3>2
    <3>4. /\ said = "not-forwarded" <=> f \notin v1.bound
          /\ said = "dropped" <=> f \in v1.bound /\ v1.port[BootForwards[f].guest] = "drops"
          /\ said = "refused" => v1.port[BootForwards[f].guest] = "closed"
      BY <2>2, <3>1, <3>3, ForwardIsJudged
    <3>5. v6'.ports[f] = IF usernet = "table" THEN said ELSE "not-forwarded"
      BY <2>1, <3>1
    <3> QED
      BY <2>1, <3>4, <3>5
  <2> QED
    BY <1>1, <2>3 DEF Forensics!ForwardsAreJudged, Forensics!Name
<1>3. CASE v5' = "ports"
  <2>1. ~(v5' \notin {"ports"})
    BY <1>3
  <2> QED
    BY <1>1, <2>1, Zenon DEF Forensics!ForwardsAreJudged
<1>4. CASE ~Forensics!ProbeForwards /\ v5' # "ports"
  <2>1. v5 # "ports" /\ v6' = v6
    BY <1>4
    DEF Forensics!Next, Forensics!vars, Forensics!Ask, Forensics!Answered,
        Forensics!LoginFails, Forensics!ReplyHangs, Forensics!SnapshotDone, Forensics!Install, Forensics!ReadBefore,
        Forensics!Probe, Forensics!ReadAfter, Forensics!Judge, Forensics!Report, Forensics!Again
  <2> QED
    BY <1>1, <2>1 DEF Forensics!ForwardsAreJudged
<1> QED
  BY <1>2, <1>3, <1>4

----------------------------------------------------------------------------
(* The reports *)

Newer(files, f) == Cardinality({g \in files : f.stamp < g.stamp})

\* Of consecutive stamps, those after one are as many as the last is ahead of it.
LEMMA NewerReports ==
  ASSUME NEW files, NEW n \in Nat, NEW below \in Nat,
         \A f, g \in files : f.stamp = g.stamp => f = g,
         \A f \in files : f.stamp \in 1..n /\ f.stamp > below,
         \A i \in 1..n : i > below => \E f \in files : f.stamp = i,
         NEW f \in files
  PROVE  /\ f.stamp \in 1..n
         /\ Newer(files, f) = n - f.stamp
<1> DEFINE newer == {g \in files : f.stamp < g.stamp}
           stamps == (f.stamp + 1)..n
           At(i) == CHOOSE g \in files : g.stamp = i
           toReport == [i \in stamps |-> At(i)]
<1>1. f.stamp \in 1..n /\ f.stamp > below
  OBVIOUS
<1>2. \A g \in files : g.stamp \in 1..n
  OBVIOUS
<1>3. \A i \in stamps : At(i) \in files /\ At(i).stamp = i
  <2> SUFFICES ASSUME NEW i \in stamps PROVE At(i) \in files /\ At(i).stamp = i
    OBVIOUS
  <2>1. i \in 1..n /\ i > below
    BY <1>1
  <2>2. \E g \in files : g.stamp = i
    BY <2>1
  <2> QED
    BY <2>2
<1> HIDE DEF At
<1>4. toReport \in [stamps -> newer]
  BY <1>1, <1>3
<1>5. \A i, j \in stamps : toReport[i] = toReport[j] => i = j
  BY <1>3
<1>6. \A g \in newer : \E i \in stamps : toReport[i] = g
  <2> SUFFICES ASSUME NEW g \in newer PROVE \E i \in stamps : toReport[i] = g
    OBVIOUS
  <2>1. g.stamp \in stamps
    BY <1>1, <1>2
  <2>2. At(g.stamp) = g
    BY <1>3, <2>1
  <2> QED
    BY <2>1, <2>2
<1>7. toReport \in Bijection(stamps, newer)
  BY <1>4, <1>5, <1>6 DEF Bijection, Injection, Surjection, IsInjective
<1>8. ExistsBijection(stamps, newer)
  BY <1>7 DEF ExistsBijection
<1>9. IsFiniteSet(stamps) /\ Cardinality(stamps) = n - f.stamp
  <2>1. PICK a \in Int : a = f.stamp + 1
    BY <1>1
  <2>2. IsFiniteSet(a..n) /\ Cardinality(a..n) = IF a > n THEN 0 ELSE n - a + 1
    BY FS_Interval
  <2>3. stamps = a..n /\ (IF a > n THEN 0 ELSE n - a + 1) = n - f.stamp
    BY <1>1, <2>1
  <2> QED
    BY <2>2, <2>3
<1> HIDE DEF newer, stamps
<1>10. Cardinality(newer) = Cardinality(stamps)
  BY <1>8, <1>9, FS_Bijection
<1> QED
  BY <1>1, <1>9, <1>10 DEF newer, Newer

\* The oldest report goes when the new one is there.
LEMMA Refiled ==
  ASSUME Forensics!Filed, v5 # "done", NEW whole, whole = v19 \cup {[stamp |-> v20, kind |-> v4]},
         NEW kept, kept \subseteq whole, \A f \in whole : f \in kept <=> Newer(whole, f) < BootReports
  PROVE  /\ \A f, g \in kept : f.stamp = g.stamp => f = g
         /\ {f.stamp : f \in kept} = Forensics!Newest(v20)
<1> DEFINE below == IF v20 - 1 - BootReports >= 0 THEN v20 - 1 - BootReports ELSE 0
           new == [stamp |-> v20, kind |-> v4]
<1>0. v20 \in Nat \ {0} /\ BootReports \in Nat \ {0} /\ below \in Nat
  BY ForensicsBounds DEF Forensics!Filed
<1>1. {f.stamp : f \in v19} = {i \in 1..(v20 - 1) : i > v20 - 1 - BootReports}
  BY DEF Forensics!Filed, Forensics!Newest
<1>2. \A f \in v19 : f.stamp \in 1..(v20 - 1) /\ f.stamp > v20 - 1 - BootReports
  BY <1>1
<1>3. \A i \in 1..(v20 - 1) : i > v20 - 1 - BootReports => \E f \in v19 : f.stamp = i
  BY <1>1
<1>4. \A f, g \in v19 : f.stamp = g.stamp => f = g
  BY DEF Forensics!Filed
<1>5. new \in whole /\ new.stamp = v20 /\ \A f \in whole : f = new \/ f \in v19
  OBVIOUS
<1>6. \A f, g \in whole : f.stamp = g.stamp => f = g
  BY <1>0, <1>2, <1>4, <1>5
<1>7. \A f \in whole : f.stamp \in 1..v20 /\ f.stamp > below
  BY <1>0, <1>2, <1>5
<1>8. \A i \in 1..v20 : i > below => \E f \in whole : f.stamp = i
  <2> SUFFICES ASSUME NEW i \in 1..v20, i > below PROVE \E f \in whole : f.stamp = i
    OBVIOUS
  <2>1. i = v20 \/ (i \in 1..(v20 - 1) /\ i > v20 - 1 - BootReports)
    BY <1>0
  <2>2. \A f \in v19 : f \in whole
    OBVIOUS
  <2> HIDE DEF new
  <2> QED
    BY <1>3, <1>5, <2>1, <2>2
<1>10. \A f \in whole : Newer(whole, f) = v20 - f.stamp
  <2>1. PICK n, least \in Nat : n = v20 /\ least = below
    BY <1>0
  <2>2. /\ \A f \in whole : f.stamp \in 1..n /\ f.stamp > least
        /\ \A i \in 1..n : i > least => \E f \in whole : f.stamp = i
    BY <1>7, <1>8, <2>1
  <2>3. \A f \in whole : Newer(whole, f) = n - f.stamp
    BY ONLY <1>6, <2>2, n \in Nat, least \in Nat, NewerReports
  <2> QED
    BY <2>1, <2>3
<1>11. \A f \in whole : f \in kept <=> f.stamp > v20 - BootReports
  <2> SUFFICES ASSUME NEW f \in whole PROVE f \in kept <=> f.stamp > v20 - BootReports
    OBVIOUS
  <2>1. f \in kept <=> v20 - f.stamp < BootReports
    BY <1>10
  <2>2. f.stamp \in Nat
    BY <1>0, <1>7
  <2> QED
    BY <1>0, <2>1, <2>2
<1>12. \A i \in 1..v20 : i > v20 - BootReports => i > below
  BY <1>0
<1>13. {f.stamp : f \in kept} = {i \in 1..v20 : i > v20 - BootReports}
  <2>1. kept \subseteq whole
    OBVIOUS
  <2>2. ASSUME NEW i \in 1..v20, i > v20 - BootReports PROVE \E f \in kept : f.stamp = i
    BY <1>8, <1>11, <1>12, <2>2
  <2>3. ASSUME NEW f \in kept PROVE f.stamp \in {i \in 1..v20 : i > v20 - BootReports}
    <3>1. f \in whole
      BY <2>1
    <3> HIDE DEF below, new
    <3> QED
      BY <1>7, <1>11, <3>1
  <2> QED
    BY <2>2, <2>3
<1> QED
  BY <1>6, <1>13 DEF Forensics!Newest

LEMMA FilesStep == ASSUME Forensics!Filed, [Forensics!Next]_(Forensics!vars) PROVE Forensics!Filed'
<1>1. CASE Forensics!Report
  <2>1. v5 = "report" /\ v5' = "done" /\ v20' = v20
    BY <1>1 DEF Forensics!Report
  <2>2. PICK whole : whole = v19 \cup {[stamp |-> v20, kind |-> v4]}
    OBVIOUS
  <2>3. v19' = {f \in whole : Cardinality({g \in whole : f.stamp < g.stamp}) < BootReports}
    BY <1>1, <2>2 DEF Forensics!Report, Forensics!ByStamp, Forensics!Cardinality, Cardinality
  <2>4. PICK kept : kept = v19'
    OBVIOUS
  <2>5. /\ \A f, g \in kept : f.stamp = g.stamp => f = g
        /\ {f.stamp : f \in kept} = Forensics!Newest(v20)
    <3>1. kept \subseteq whole /\ \A f \in whole : f \in kept <=> Newer(whole, f) < BootReports
      BY <2>3, <2>4 DEF Newer
    <3>2. v5 # "done"
      BY <2>1
    <3> QED
      BY ONLY Forensics!Filed, <2>2, <3>1, <3>2, Refiled
  <2>6. Forensics!Newest(v20') = Forensics!Newest(v20)
    BY <2>1 DEF Forensics!Newest
  <2> QED
    BY <2>1, <2>4, <2>5, <2>6 DEF Forensics!Filed, Forensics!Newest
<1>2. CASE Forensics!Again
  <2>1. v5 = "done" /\ v5' = "ports" /\ v20' = v20 + 1 /\ v19' = v19 /\ v20 \in Nat \ {0}
    BY <1>2 DEF Forensics!Again, Forensics!Filed
  <2>2. v20' - 1 = v20 /\ v20' \in Nat \ {0}
    BY <2>1
  <2> QED
    BY <2>1, <2>2 DEF Forensics!Filed, Forensics!Newest
<1>3. CASE ~Forensics!Report /\ ~Forensics!Again
  <2>1. v19' = v19 /\ v20' = v20 /\ (v5' = "done" <=> v5 = "done")
    BY <1>3
    DEF Forensics!Next, Forensics!vars, Forensics!ProbeForwards, Forensics!Ask, Forensics!Answered,
        Forensics!LoginFails, Forensics!ReplyHangs, Forensics!SnapshotDone, Forensics!Install, Forensics!ReadBefore,
        Forensics!Probe, Forensics!ReadAfter, Forensics!Judge
  <2> QED
    BY <2>1 DEF Forensics!Filed, Forensics!Newest
<1> QED
  BY <1>1, <1>2, <1>3

----------------------------------------------------------------------------
(* The counting rule *)

LEMMA RuleStep ==
  ASSUME v1 \in Forensics!Guests, v1' = v1, Forensics!Counting, Forensics!VerdictIsTrue,
         [Forensics!Next]_(Forensics!vars)
  PROVE  Forensics!Counting' /\ Forensics!VerdictIsTrue'
<1> DEFINE R == IF v1.received THEN 1 ELSE 0
<1>0. R \in {0, 1} /\ R' = R /\ (v1.received <=> R = 1)
  BY DEF Forensics!Guests
<1>t. /\ v3 \in Seq(Nat) /\ v18 \in BOOLEAN /\ v15 \in Nat \cup {-1} /\ v16 \in Nat \cup {-1}
  BY DEF Forensics!Counting, Forensics!Unknown
<1> USE DEF Forensics!Unknown
<1>1. CASE UNCHANGED <<v3, v15, v16, v17, v18>> /\ v5' \in {"ports", "snapshot", "install", "report", "done"}
           /\ (v5' \in {"ports", "snapshot", "install"} => v5 \in {"ports", "snapshot", "install"})
           /\ (v17 # "none" => v5' \in {"report", "done"})
  BY <1>1 DEF Forensics!Counting, Forensics!VerdictIsTrue
<1>2. CASE Forensics!Install
  <2>1. /\ v5 = "install" /\ v18' = (v3 # <<>>) /\ UNCHANGED <<v15, v16, v17>>
        /\ \/ v3' = Append(v3, 0) /\ v5' \in {"before", "report"}
           \/ v3' = v3 /\ v5' = "report"
    BY <1>2 DEF Forensics!Install
  <2>2. v15 = -1 /\ v17 = "none"
    BY <2>1 DEF Forensics!Counting
  <2>3. v3' \in Seq(Nat)
    BY <1>t, <2>1
  <2>4. CASE v5' = "report"
    BY <1>t, <2>1, <2>2, <2>3, <2>4 DEF Forensics!Counting, Forensics!VerdictIsTrue
  <2>5. CASE v5' = "before"
    <3>1. v3' = Append(v3, 0) /\ v3' # <<>>
      BY <1>t, <2>1, <2>5
    <3>2. ~v18' => v3'[1] = 0
      <4>1. <<>> \in Seq(Nat) /\ Len(<<>>) = 0 /\ 0 \in Nat
        OBVIOUS
      <4>2. Append(<<>>, 0)[1] = 0
        BY <4>1
      <4>3. ~v18' => v3 = <<>>
        BY <2>1
      <4> QED
        BY <3>1, <4>2, <4>3
    <3> QED
      BY <1>t, <2>1, <2>2, <2>3, <2>5, <3>1, <3>2 DEF Forensics!Counting, Forensics!VerdictIsTrue
  <2> QED
    BY <2>1, <2>4, <2>5
<1>3. CASE Forensics!ReadBefore
  <2>1. /\ v5 = "before" /\ v15' \in {-1, v3[1]} /\ v5' = "probe" /\ UNCHANGED <<v3, v16, v17, v18>>
    BY <1>3 DEF Forensics!ReadBefore
  <2>2. v3 # <<>> /\ v3[1] \in Nat /\ v17 = "none" /\ (~v18 => v3[1] = 0)
    BY <1>t, <2>1 DEF Forensics!Counting
  <2> QED
    BY <1>t, <2>1, <2>2 DEF Forensics!Counting, Forensics!VerdictIsTrue
<1>4. CASE Forensics!Probe
  <2>1. /\ v5 = "probe" /\ v5' = "after" /\ UNCHANGED <<v15, v16, v17, v18>>
        /\ v3' = IF v1.received THEN [i \in DOMAIN v3 |-> v3[i] + 1] ELSE v3
    BY <1>4 DEF Forensics!Probe
  <2>2. v3 # <<>> /\ v3[1] \in Nat /\ v17 = "none" /\ (~v18 => v3[1] = 0) /\ (v15 # -1 => v3[1] = v15)
    BY <1>t, <2>1 DEF Forensics!Counting
  <2>3. v3' \in Seq(Nat) /\ v3' # <<>> /\ v3'[1] = v3[1] + R
    <3>1. CASE v1.received
      <4>1. v3' = [i \in 1..Len(v3) |-> v3[i] + 1] /\ Len(v3) \in Nat \ {0}
        BY <1>t, <2>1, <2>2, <3>1
      <4>2. PICK n \in Nat \ {0} : n = Len(v3)
        BY <4>1
      <4>3. v3' \in [1..n -> Nat] /\ v3'[1] = v3[1] + 1
        BY <1>t, <4>1, <4>2
      <4>4. v3' \in Seq(Nat) /\ Len(v3') = n
        BY <4>1, <4>2, <4>3
      <4> QED
        BY <3>1, <4>2, <4>3, <4>4
    <3>2. CASE ~v1.received
      BY <1>t, <2>1, <2>2, <3>2
    <3> QED
      BY <3>1, <3>2
  <2> QED
    BY <1>0, <1>t, <2>1, <2>2, <2>3 DEF Forensics!Counting, Forensics!VerdictIsTrue
<1>5. CASE Forensics!ReadAfter
  <2>1. /\ v5 = "after" /\ v16' \in {-1, v3[1]} /\ v5' = "judge" /\ UNCHANGED <<v3, v15, v17, v18>>
    BY <1>5 DEF Forensics!ReadAfter
  <2>2. /\ v3 # <<>> /\ v3[1] \in Nat /\ v17 = "none"
        /\ ~v18 => v3[1] = R
        /\ v15 # -1 => v3[1] = v15 + R
    BY <1>t, <2>1 DEF Forensics!Counting
  <2> QED
    BY <1>0, <1>t, <2>1, <2>2 DEF Forensics!Counting, Forensics!VerdictIsTrue
<1>6. CASE Forensics!Judge
  <2>1. /\ v5 = "judge" /\ v17' = Forensics!Verdict /\ v3' \in {<<>>, v3} /\ v5' = "report"
        /\ UNCHANGED <<v15, v16, v18>>
    BY <1>6 DEF Forensics!Judge
  <2>2. /\ v16 # -1 /\ ~v18 => v16 = R
        /\ v16 # -1 /\ v15 # -1 => v16 = v15 + R
    BY <2>1 DEF Forensics!Counting
  <2>3. /\ v17' = "guest-received" => v16 # -1 /\ v16 > (IF v15 = -1 THEN 0 ELSE v15)
        /\ v17' = "not-delivered" => v16 # -1 /\ v16 <= (IF v15 = -1 THEN 0 ELSE v15)
    BY <1>t, <2>1 DEF Forensics!Verdict
  <2>4. Forensics!VerdictIsTrue'
    <3> SUFFICES ASSUME v17' \in {"guest-received", "not-delivered"}, v15' # -1 \/ ~v18'
                 PROVE  v17' = "guest-received" <=> v1'.received
      BY DEF Forensics!VerdictIsTrue
    <3>1. v16 \in Nat /\ (v15 # -1 \/ ~v18)
      BY <1>t, <2>1, <2>3
    <3>2. v16 = (IF v15 = -1 THEN 0 ELSE v15) + R
      BY <1>t, <1>0, <2>2, <3>1
    <3> HIDE DEF R
    <3> QED
      BY <1>t, <1>0, <2>3, <3>1, <3>2
  <2>5. v3' \in Seq(Nat)
    <3>1. <<>> \in Seq(Nat)
      OBVIOUS
    <3> QED
      BY <1>t, <2>1, <3>1
  <2> QED
    BY <1>t, <2>1, <2>4, <2>5 DEF Forensics!Counting
<1>7. CASE Forensics!Again
  <2>1. v3' \in {<<>>, v3} /\ v5' = "ports" /\ v15' = -1 /\ v16' = -1 /\ v17' = "none" /\ v18' = FALSE
    BY <1>7 DEF Forensics!Again
  <2>2. v3' \in Seq(Nat)
    <3>1. <<>> \in Seq(Nat)
      OBVIOUS
    <3> QED
      BY <1>t, <2>1, <3>1
  <2> QED
    BY <1>t, <2>1, <2>2 DEF Forensics!Counting, Forensics!VerdictIsTrue
<1>8. CASE Forensics!ProbeForwards \/ Forensics!Ask \/ Forensics!Answered
           \/ Forensics!LoginFails \/ Forensics!ReplyHangs \/ Forensics!SnapshotDone \/ Forensics!Report
  <2>1. /\ UNCHANGED <<v3, v15, v16, v17, v18>> /\ v5' \in {"snapshot", "install", "report", "done"}
        /\ v5 \in {"ports", "snapshot"} \/ (v5 = "report" /\ v5' = "done")
    BY <1>8
    DEF Forensics!ProbeForwards, Forensics!Ask, Forensics!Answered, Forensics!LoginFails, Forensics!ReplyHangs,
        Forensics!SnapshotDone, Forensics!Report, Forensics!rule
  <2>2. v17 # "none" => v5 \in {"report", "done"}
    BY DEF Forensics!Counting
  <2> QED
    BY <1>1, <2>1, <2>2
<1>9. CASE UNCHANGED Forensics!vars
  BY <1>9 DEF Forensics!vars, Forensics!Counting, Forensics!VerdictIsTrue
<1> QED
  BY <1>2, <1>3, <1>4, <1>5, <1>6, <1>7, <1>8, <1>9 DEF Forensics!Next

----------------------------------------------------------------------------
(* The snapshot *)

\* An even share is a login's time at the least.
LEMMA EvenShareIsTime ==
  ASSUME NEW time \in Nat
  PROVE  Forensics!EvenShare(time) \in Nat /\ Forensics!EvenShare(time) >= LoginCost
<1>1. PICK C, c, e : C = BootLogins /\ c = LoginCost /\ e = time \div C
  OBVIOUS
<1>2. C \in Nat \ {0} /\ c \in Nat
  BY <1>1, ForensicsBounds
<1>3. e \in Nat
  BY <1>1, <1>2
<1>4. Forensics!EvenShare(time) = IF e > c THEN e ELSE c
  BY <1>1 DEF Forensics!EvenShare
<1> QED
  BY <1>1, <1>2, <1>3, <1>4

\* What a call is given.
LEMMA CallTimes ==
  ASSUME Forensics!Queried
  PROVE  /\ Forensics!CallTime \in Nat /\ Forensics!CallTime <= v11
         /\ Forensics!LoginLimit \in Nat /\ Forensics!LoginLimit <= Forensics!CallTime
         /\ Forensics!LoginLimit <= LoginCost
         /\ v12 = 0 /\ v11 >= LoginCost => Forensics!CallTime >= LoginCost
<1>1. v10 \in Nat /\ v11 \in Nat /\ LoginCost \in Nat
  BY ForensicsBounds DEF Forensics!Queried
<1>2. PICK share \in Nat : share = Forensics!Share(v10) /\ (v12 = 0 => share >= LoginCost)
  BY <1>1, EvenShareIsTime DEF Forensics!Share, Forensics!NoLogin
<1>3. PICK time \in Nat : time = Forensics!CallTime /\ time = IF share < v11 THEN share ELSE v11
  BY <1>1, <1>2 DEF Forensics!CallTime, Forensics!Smaller
<1>4. Forensics!LoginLimit = IF time < LoginCost THEN time ELSE LoginCost
  BY <1>3 DEF Forensics!LoginLimit, Forensics!Smaller
<1> QED
  BY <1>1, <1>2, <1>3, <1>4

\* The logins from the k-th on.
LEMMA UntriedIs ==
  ASSUME NEW k \in 1..BootLogins
  PROVE  /\ Forensics!Untried(k) \in Seq(Nat) /\ Len(Forensics!Untried(k)) = BootLogins + 1 - k
         /\ Forensics!Untried(k)[1] = k
         /\ k # BootLogins => Tail(Forensics!Untried(k)) = Forensics!Untried(k + 1)
<1>1. PICK n \in Nat \ {0} : n = BootLogins + 1 - k
  BY ForensicsBounds
<1>2. PICK s : s = Forensics!Untried(k)
  OBVIOUS
<1>3. s = [i \in 1..n |-> i + k - 1]
  BY <1>1, <1>2 DEF Forensics!Untried
<1>4. s \in Seq(Nat) /\ Len(s) = n /\ s[1] = k
  BY <1>3
<1>5. ASSUME k # BootLogins PROVE Tail(s) = Forensics!Untried(k + 1)
  <2>1. n - 1 \in Nat /\ BootLogins + 1 - (k + 1) = n - 1
    BY <1>1, <1>5, ForensicsBounds
  <2>2. Forensics!Untried(k + 1) = [i \in 1..(n - 1) |-> i + (k + 1) - 1]
    BY <2>1 DEF Forensics!Untried
  <2>3. Tail(s) = [i \in 1..(n - 1) |-> s[i + 1]]
    <3>1. s # <<>>
      BY <1>4
    <3>2. /\ Tail(s) \in Seq(Nat) /\ Len(Tail(s)) = n - 1
          /\ \A i \in 1..(n - 1) : Tail(s)[i] = s[i + 1]
      BY <1>4, <2>1, <3>1
    <3>3. PICK rest : rest = Tail(s)
      OBVIOUS
    <3>4. rest = [i \in 1..(n - 1) |-> rest[i]]
      <4>1. rest \in [1..Len(rest) -> Nat] /\ Len(rest) = n - 1
        BY <3>2, <3>3, LenProperties
      <4> QED
        BY <4>1
    <3> QED
      BY <3>2, <3>3, <3>4
  <2>4. \A i \in 1..(n - 1) : s[i + 1] = i + (k + 1) - 1
    BY <1>1, <1>3, <2>1
  <2> QED
    BY <2>2, <2>3, <2>4
<1> QED
  BY <1>1, <1>2, <1>4, <1>5

\* Calls that hung, and what few of them may cost.
LEMMA HangsAre ==
  ASSUME Forensics!Queried
  PROVE  /\ Forensics!Hangs \in Nat /\ Forensics!Hangs = v14.login + v14.reply
         /\ Forensics!FullTime \in Nat /\ Forensics!FullTime = QueryTime + LoginTime
         /\ Forensics!FullTime >= 2 * LoginCost
         /\ Forensics!Slack = IF v1.login = 1 THEN LoginCost ELSE 0
BY ForensicsBounds DEF Forensics!Queried, Forensics!Hangs, Forensics!FullTime, Forensics!Slack

\* Nothing of the snapshot moves.
LEMMA QueriedStays ==
  ASSUME Forensics!Queried, UNCHANGED <<v1, v2, v7, v8, v9, v10, v11, v12, v13, v14>>,
         v9 # <<>> => v5' = "snapshot",
         v5' \notin {"ports", "snapshot"} => v7 > BootQueries,
         v5' = "ports" => v5 = "ports"
  PROVE  Forensics!Queried'
<1>1. Forensics!Hung => Forensics!Hung'
  BY DEF Forensics!Hung, Forensics!Hangs, Forensics!FullTime, Forensics!Slack
<1>2. Forensics!FewHangs' => Forensics!FewHangs
  BY DEF Forensics!FewHangs, Forensics!Hangs
<1> QED
  BY <1>1, <1>2 DEF Forensics!Queried, Forensics!Untried, Forensics!NoLogin

\* A query begins.
LEMMA QueryBegins ==
  ASSUME v1' = v1, Forensics!Queried, Forensics!Ask
  PROVE  Forensics!Queried'
<1> USE DEF Forensics!NoLogin
<1>1. /\ v5 = "snapshot" /\ v11 = 0 /\ v9 = <<>> /\ v7 <= BootQueries
      /\ UNCHANGED <<v2, v5, v8, v12, v13, v14>>
  BY DEF Forensics!Ask
<1>2. /\ v8 \in Nat /\ v10 \in Nat /\ v8 <= BootBudget + LoginCost /\ v7 \in Nat \ {0}
      /\ v14 \in [login : Nat, reply : Nat] /\ v2 \in {0, v1.login}
  BY <1>1 DEF Forensics!Queried
<1>3. PICK T : T = QueryTime + LoginTime /\ T \in Nat /\ T >= 2 * LoginCost /\ BootBudget >= 2 * T
  BY ForensicsBounds
<1>h. PICK H, S : /\ H = Forensics!Hangs /\ S = Forensics!Slack /\ H \in Nat /\ S \in {0, LoginCost}
                  /\ Forensics!Hangs' = H /\ Forensics!Slack' = S
                  /\ Forensics!FullTime = T /\ Forensics!FullTime' = T
  BY <1>1, <1>3, HangsAre DEF Forensics!Hangs, Forensics!Slack, Forensics!FullTime
<1>e. ASSUME ~v13, v1.login \in {1, 2}, Forensics!FewHangs
      PROVE  v7 <= 2 /\ v7 - 1 <= H /\ v8 <= (IF v7 = 1 THEN 0 ELSE T + S) /\ v8 < BootBudget
  <2>1. Forensics!Hung /\ H <= 1
    BY <1>e, <1>h DEF Forensics!Queried, Forensics!FewHangs
  <2>2. v7 - 1 <= H /\ v8 <= (IF v7 = 1 THEN 0 ELSE T + S)
    BY <1>1, <1>h, <2>1 DEF Forensics!Hung
  <2>3. S < T /\ 0 < T
    BY <1>3, <1>h, ForensicsBounds
  <2> QED
    BY <1>2, <1>3, <1>h, <2>1, <2>2, <2>3, ForensicsBounds
<1>f. Forensics!FewHangs' = Forensics!FewHangs
  BY <1>1 DEF Forensics!FewHangs, Forensics!Hangs
<1>4. CASE v8 >= BootBudget
  <2>1. v7' = BootQueries + 1 /\ UNCHANGED <<v9, v10, v11>>
    BY <1>4 DEF Forensics!Ask
  <2>2. ASSUME ~v13, v1.login \in {1, 2}, Forensics!FewHangs PROVE FALSE
    BY <1>2, <1>4, <1>e, <2>2, ForensicsBounds
  <2> QED
    BY <1>1, <1>2, <1>4, <1>f, <2>1, <2>2, ForensicsBounds DEF Forensics!Queried
<1>5. CASE v8 < BootBudget
  <2>1. v9' = Forensics!Order /\ v10' = Forensics!TimeForQuery /\ v11' = v10' /\ v7' = v7
    BY <1>2, <1>5, ForensicsBounds DEF Forensics!Ask
  <2>2. /\ v10' \in Nat /\ v8 + v10' <= BootBudget
        /\ ~v13 => v10' = IF T < BootBudget - v8 THEN T ELSE BootBudget - v8
    BY <1>2, <1>3, <1>5, <2>1, ForensicsBounds
    DEF Forensics!TimeForQuery, Forensics!Smaller, Forensics!Allowance
  <2>3. ASSUME ~v13 PROVE v12 = 0 /\ v9' = Forensics!Untried(1)
    BY <2>1, <2>3 DEF Forensics!Queried, Forensics!Order
  <2>4. 1 \in 1..BootLogins
    BY ForensicsBounds
  <2>5. ASSUME ~v13 PROVE v9' # <<>> /\ v9'[1] = 1
    <3>1. Forensics!Untried(1)[1] = 1 /\ Len(Forensics!Untried(1)) > 0
      BY <2>4, UntriedIs, ForensicsBounds
    <3> QED
      BY <2>3, <2>5, <3>1
  <2>6. ASSUME ~v13, v1.login \in {1, 2}, Forensics!FewHangs PROVE Forensics!Hung'
    <3>1. v7 - 1 <= H /\ v8 <= (IF v7 = 1 THEN 0 ELSE T + S)
      BY <1>e, <2>6
    <3>2. v10' = IF T < BootBudget - v8 THEN T ELSE BootBudget - v8
      BY <2>2, <2>6
    <3>3. v10' <= T /\ v10' >= T - (IF v7 = 1 THEN 0 ELSE S)
      BY <1>2, <1>3, <1>h, <3>1, <3>2, ForensicsBounds
    <3>4. v7' = 1 => v8' + v11' <= T
      BY <1>1, <1>2, <1>3, <2>1, <2>2, <3>1, <3>3
    <3>5. v9' # <<>> /\ v9'[1] = 1
      BY <2>5, <2>6
    <3> QED
      BY <1>h, <2>1, <2>6, <3>1, <3>3, <3>4, <3>5 DEF Forensics!Hung
  <2>7. /\ v8' \in Nat /\ v10' \in Nat /\ v11' \in Nat /\ v8' + v11' <= BootBudget
        /\ v7' \in Nat \ {0} /\ v7' <= BootQueries /\ v14' \in [login : Nat, reply : Nat]
        /\ v2' \in {0, v1'.login} /\ v5' = "snapshot"
    BY <1>1, <1>2, <2>1, <2>2
  <2>8. v9' # <<>>
    <3>1. CASE v12 = 0
      <4>1. Forensics!Untried(1)[1] = 1 /\ Len(Forensics!Untried(1)) > 0
        BY <2>4, UntriedIs, ForensicsBounds
      <4> QED
        BY <2>1, <3>1, <4>1 DEF Forensics!Order
    <3>2. CASE v12 # 0
      <4>1. 1 \in DOMAIN v9'
        BY <2>1, <2>4, <3>2 DEF Forensics!Order
      <4> QED
        BY <4>1
    <3> QED
      BY <3>1, <3>2
  <2>11. v9' \in Seq(Nat) /\ v12' \in Nat
    <3>1. PICK w \in Nat : w = v12
      BY DEF Forensics!Queried
    <3>2. CASE w = 0
      BY <1>1, <2>1, <2>4, <3>1, <3>2, UntriedIs DEF Forensics!Order
    <3>3. CASE w # 0
      <4>1. PICK n \in Nat : n = BootLogins
        BY ForensicsBounds
      <4>2. v9' = [i \in 1..n |-> CASE i = 1 -> w [] i # 1 /\ i <= w -> i - 1 [] OTHER -> i]
        BY <2>1, <3>1, <3>3, <4>1 DEF Forensics!Order
      <4>3. \A i \in 1..n : (CASE i = 1 -> w [] i # 1 /\ i <= w -> i - 1 [] OTHER -> i) \in Nat
        <5> SUFFICES ASSUME NEW i \in 1..n
                     PROVE  (CASE i = 1 -> w [] i # 1 /\ i <= w -> i - 1 [] OTHER -> i) \in Nat
          OBVIOUS
        <5>1. CASE i = 1
          BY <5>1
        <5>2. CASE i # 1 /\ i <= w
          BY <5>2
        <5>3. CASE i # 1 /\ ~(i <= w)
          BY <5>3
        <5> QED
          BY <5>1, <5>2, <5>3
      <4> QED
        BY <1>1, <3>1, <4>2, <4>3
    <3> QED
      BY <3>2, <3>3
  <2>9. ~v13' => v12' = 0 /\ \E k \in 1..BootLogins : v9' = Forensics!Untried(k)
    BY <1>1, <2>3, <2>4
  <2>10. \A k \in 1..BootLogins : Forensics!Untried(k)' = Forensics!Untried(k)
    BY DEF Forensics!Untried
  <2> QED
    BY <1>1, <1>f, <2>6, <2>7, <2>8, <2>9, <2>10, <2>11 DEF Forensics!Queried
<1> QED
  BY <1>2, <1>4, <1>5, ForensicsBounds

\* A login is answered.
LEMMA LoginAnswered ==
  ASSUME v1' = v1, Forensics!Queried, Forensics!Answered
  PROVE  Forensics!Queried'
<1>1. /\ v8 \in Nat /\ v10 \in Nat /\ v11 \in Nat /\ v7 \in Nat \ {0} /\ v14 \in [login : Nat, reply : Nat]
      /\ v8 + v11 <= BootBudget /\ v9 # <<>> /\ v9 \in Seq(Nat)
  BY DEF Forensics!Queried, Forensics!Answered
<1>2. /\ v5 = "snapshot" /\ v13' = TRUE /\ v7' = v7 + 1 /\ v9' = <<>> /\ v10' = 0 /\ v11' = 0
      /\ v2' = v1.login /\ v12' = Head(v9) /\ UNCHANGED <<v5, v14>>
  BY DEF Forensics!Answered
<1>3. PICK cost \in 0..(Forensics!LoginLimit + Forensics!CallTime) : v8' = v8 + cost
  BY DEF Forensics!Answered, Forensics!Spend
<1>4. cost \in Nat /\ cost <= LoginCost + v11
  BY <1>1, <1>3, CallTimes, ForensicsBounds
<1>5. v8' \in Nat /\ v8' <= BootBudget + LoginCost /\ v7' \in Nat \ {0}
  BY <1>1, <1>2, <1>3, <1>4, ForensicsBounds
<1>6. v12' \in Nat /\ v9' \in Seq(Nat)
  <2>1. <<>> \in Seq(Nat)
    OBVIOUS
  <2> QED
    BY <1>1, <1>2, <2>1
<1> QED
  BY <1>1, <1>2, <1>5, <1>6 DEF Forensics!Queried

\* The query is over, or goes on with the next login.
LEMMA TriesNext ==
  ASSUME Forensics!Queried, v9 # <<>>, NEW cost \in Nat, cost <= LoginCost + v11, Forensics!TryNext(cost)
  PROVE  /\ v8' = v8 + cost /\ v8' \in Nat
         /\ v9' \in Seq(Nat) /\ (v9' = <<>> <=> Len(v9) = 1 \/ cost >= v11)
         /\ v9' = <<>> => v10' = 0 /\ v11' = 0 /\ v7' = v7 + 1 /\ v8' <= BootBudget + LoginCost
         /\ v9' # <<>> => /\ v9' = Tail(v9) /\ Len(v9) > 1 /\ cost < v11
                          /\ v11' = v11 - cost /\ v11' \in Nat /\ UNCHANGED <<v10, v7>>
                          /\ v8' + v11' = v8 + v11
<1>1. /\ v8 \in Nat /\ v10 \in Nat /\ v11 \in Nat /\ v7 \in Nat \ {0}
      /\ v8 + v11 <= BootBudget /\ v9 \in Seq(Nat)
  BY DEF Forensics!Queried
<1>2. v8' = v8 + cost /\ v8' \in Nat
  BY <1>1 DEF Forensics!TryNext, Forensics!Spend
<1>3. CASE Len(v9) = 1 \/ cost >= v11
  <2>1. v9' = <<>> /\ v10' = 0 /\ v11' = 0 /\ v7' = v7 + 1
    BY <1>3 DEF Forensics!TryNext
  <2>2. v8' <= BootBudget + LoginCost
    BY <1>1, <1>2, ForensicsBounds
  <2>3. <<>> \in Seq(Nat)
    OBVIOUS
  <2> QED
    BY <1>2, <1>3, <2>1, <2>2, <2>3
<1>4. CASE ~(Len(v9) = 1 \/ cost >= v11)
  <2>1. v9' = Tail(v9) /\ v11' = v11 - cost /\ UNCHANGED <<v10, v7>>
    BY <1>4 DEF Forensics!TryNext
  <2>2. cost < v11 /\ v11' \in Nat /\ v8' + v11' = v8 + v11
    BY <1>1, <1>2, <1>4, <2>1
  <2>3. Len(v9) > 1
    <3>0. Len(v9) \in Nat /\ Len(v9) # 0 /\ Len(v9) # 1
      BY <1>1, <1>4
    <3>1. PICK n \in Nat : n = Len(v9) /\ n # 0 /\ n # 1
      BY <3>0, Zenon
    <3>2. n > 1
      BY <3>1
    <3> QED
      BY <3>1, <3>2
  <2>4. Tail(v9) \in Seq(Nat) /\ Len(Tail(v9)) = Len(v9) - 1
    BY <1>1, <2>3
  <2>5. v9' # <<>>
    <3>1. PICK rest : rest = Tail(v9)
      OBVIOUS
    <3>2. rest \in Seq(Nat) /\ Len(rest) # 0
      <4>1. PICK n \in Nat : n = Len(v9) /\ n > 1
        BY <1>1, <2>3
      <4>2. n - 1 # 0
        BY <4>1
      <4> QED
        BY <2>4, <3>1, <4>1, <4>2
    <3>3. rest # <<>>
      BY <3>2
    <3> QED
      BY <2>1, <3>1, <3>3
  <2> QED
    BY <1>2, <1>4, <2>1, <2>2, <2>3, <2>4, <2>5
<1> QED
  BY <1>3, <1>4

\* A call that hung at the login that fits was the first, and the query's, as few hang; and
\* what comes before that login takes a login's time at most.
LEMMA HungGoesOn ==
  ASSUME v1 \in Forensics!Guests, v1' = v1, Forensics!Queried, v9 # <<>>, ~v13, v1.login \in {1, 2},
         Forensics!FewHangs, Forensics!FewHangs', Forensics!Hangs' \in Nat, Forensics!Hangs' >= Forensics!Hangs,
         NEW cost \in Nat, cost <= v11 + Forensics!Slack, cost <= LoginCost + v11, Forensics!TryNext(cost),
         Head(v9) >= v1.login => Forensics!Hangs' >= v7,
         Head(v9) < v1.login => cost <= LoginCost
  PROVE  Forensics!Hung'
<1>1. /\ v8 \in Nat /\ v10 \in Nat /\ v11 \in Nat /\ v7 \in Nat \ {0} /\ v9 \in Seq(Nat)
      /\ v1.login \in 1..BootLogins /\ Forensics!Hung
  BY DEF Forensics!Queried, Forensics!Guests
<1>2. PICK T, S, H, G : /\ T = Forensics!FullTime /\ S = Forensics!Slack /\ H = Forensics!Hangs
                        /\ G = Forensics!Hangs'
                        /\ Forensics!FullTime' = T /\ Forensics!Slack' = S
                        /\ T \in Nat /\ T >= 2 * LoginCost /\ H \in Nat /\ G \in Nat /\ H <= G /\ G <= 1
                        /\ S = IF v1.login = 1 THEN LoginCost ELSE 0
  BY HangsAre DEF Forensics!FullTime, Forensics!Slack, Forensics!FewHangs
<1>3. PICK k \in 1..BootLogins : v9 = Forensics!Untried(k)
  BY DEF Forensics!Queried
<1>4. /\ Head(v9) = k /\ v9[1] = k /\ Len(v9) = BootLogins + 1 - k
  BY <1>1, <1>3, UntriedIs
<1>5. /\ v7 - 1 <= H /\ v10 <= T /\ v10 >= T - (IF v7 = 1 THEN 0 ELSE S)
      /\ v7 = 1 => v8 + v11 <= T
      /\ k = 1 => v11 = v10
  BY <1>1, <1>2, <1>4 DEF Forensics!Hung
<1>6. ASSUME v9' # <<>> PROVE v9'[1] = k + 1
  <2>1. v9' = Tail(v9) /\ Len(v9) > 1
    BY <1>6, TriesNext
  <2>2. k # BootLogins /\ k + 1 \in 1..BootLogins
    BY <1>4, <2>1, ForensicsBounds
  <2> QED
    BY <1>3, <2>1, <2>2, UntriedIs
<1>7. CASE k >= v1.login
  <2>1. v7 = 1 /\ G >= v7
    BY <1>1, <1>2, <1>4, <1>7
  <2>2. CASE v9' = <<>>
    <3>1. v7' = 2 /\ v8' = v8 + cost
      BY <2>1, <2>2, TriesNext
    <3>2. v8' <= T + S
      BY <1>1, <1>2, <1>5, <2>1, <3>1, ForensicsBounds
    <3> QED
      BY <1>2, <2>1, <2>2, <3>1, <3>2 DEF Forensics!Hung
  <2>3. CASE v9' # <<>>
    <3>1. v7' = v7 /\ v10' = v10 /\ v8' + v11' = v8 + v11
      BY <2>3, TriesNext
    <3>2. v9'[1] = k + 1 /\ k + 1 # 1 /\ ~(k + 1 = 2 /\ v1.login = 2)
      BY <1>1, <1>6, <1>7, <2>3, ForensicsBounds
    <3> QED
      BY <1>2, <1>5, <2>1, <2>3, <3>1, <3>2 DEF Forensics!Hung
  <2> QED
    BY <2>2, <2>3
<1>8. CASE k < v1.login
  <2>0. k = 1 /\ v1.login = 2 /\ cost <= LoginCost
    <3>1. k \in Nat \ {0}
      BY ForensicsBounds
    <3> QED
      BY <1>4, <1>8, <3>1
  <2>1. k = 1 /\ v1.login = 2 /\ S = 0 /\ BootLogins >= 2 /\ cost <= LoginCost
    BY <1>1, <1>2, <2>0, ForensicsBounds
  <2>2. v11 = v10 /\ v10 = T /\ cost < v11 /\ Len(v9) # 1
    BY <1>1, <1>2, <1>4, <1>5, <2>1, ForensicsBounds
  <2>3. v9' # <<>>
    BY <1>1, <2>2, TriesNext
  <2>4. v7' = v7 /\ v10' = v10 /\ v8' + v11' = v8 + v11 /\ v11' = v11 - cost
    BY <2>3, TriesNext
  <2>5. v9'[1] = 2 /\ v11' >= v10' - LoginCost
    BY <1>1, <1>6, <2>1, <2>2, <2>3, <2>4, ForensicsBounds
  <2> QED
    BY <1>1, <1>2, <1>5, <2>1, <2>3, <2>4, <2>5 DEF Forensics!Hung
<1> QED
  BY <1>1, <1>7, <1>8

\* A call that is over leaves the rest of the snapshot in order.
LEMMA CallIsOver ==
  ASSUME v1 \in Forensics!Guests, v1' = v1, Forensics!Queried, v9 # <<>>, UNCHANGED <<v5, v12, v13>>,
         NEW cost \in Nat, cost <= LoginCost + v11, Forensics!TryNext(cost),
         v2' \in {0, v1.login}, v14' \in [login : Nat, reply : Nat],
         ~v13 /\ v1.login \in {1, 2} /\ Forensics!FewHangs' => Forensics!Hung'
  PROVE  Forensics!Queried'
<1> USE DEF Forensics!NoLogin
<1>1. /\ v8 \in Nat /\ v10 \in Nat /\ v11 \in Nat /\ v7 \in Nat \ {0} /\ v9 \in Seq(Nat)
      /\ v5 = "snapshot" /\ v7 <= BootQueries /\ v12 \in Nat
      /\ v8 + v11 <= BootBudget
      /\ ~v13 => v12 = 0 /\ \E k \in 1..BootLogins : v9 = Forensics!Untried(k)
  BY DEF Forensics!Queried
<1>2. ASSUME ~v13, v9' # <<>> PROVE \E k \in 1..BootLogins : v9' = Forensics!Untried(k)
  <2>1. PICK k \in 1..BootLogins : v9 = Forensics!Untried(k)
    BY <1>1, <1>2
  <2>2. v9' = Tail(v9) /\ Len(v9) > 1
    BY <1>2, TriesNext
  <2>3. k # BootLogins
    BY <2>1, <2>2, UntriedIs, ForensicsBounds
  <2>4. k + 1 \in 1..BootLogins
    BY <2>3, ForensicsBounds
  <2> QED
    BY <2>1, <2>2, <2>3, <2>4, UntriedIs
<1>3. \A k \in 1..BootLogins : Forensics!Untried(k)' = Forensics!Untried(k)
  BY DEF Forensics!Untried
<1>4. v7' \in Nat \ {0} /\ v10' \in Nat /\ v11' \in Nat /\ v8' \in Nat /\ v9' \in Seq(Nat)
  <2>1. CASE v9' = <<>>
    <3>1. v10' = 0 /\ v11' = 0 /\ v7' = v7 + 1
      BY <2>1, TriesNext
    <3> QED
      BY <1>1, <3>1, TriesNext
  <2>2. CASE v9' # <<>>
    <3>1. v10' = v10 /\ v7' = v7 /\ v11' \in Nat
      BY <2>2, TriesNext
    <3> QED
      BY <1>1, <3>1, TriesNext
  <2> QED
    BY <2>1, <2>2
<1>5. /\ v9' = <<>> => v11' = 0 /\ v8' <= BootBudget + LoginCost
      /\ v9' # <<>> => v7' <= BootQueries /\ v8' + v11' <= BootBudget
  BY <1>1, TriesNext
<1> QED
  BY <1>1, <1>2, <1>3, <1>4, <1>5 DEF Forensics!Queried

LEMMA LoginIsRefused ==
  ASSUME v1 \in Forensics!Guests, v1' = v1, Forensics!Queried, Forensics!LoginFails
  PROVE  Forensics!Queried'
<1> USE DEF Forensics!NoLogin
<1> DEFINE able == Head(v9) = v1.login /\ (v2 = Head(v9) \/ Forensics!CallTime >= LoginCost)
<1>1. /\ v5 = "snapshot" /\ v9 # <<>> /\ UNCHANGED <<v5, v12, v13>>
      /\ IF able THEN \E phase \in {"login"} : v14' = [v14 EXCEPT ![phase] = v14[phase] + 1] ELSE UNCHANGED v14
      /\ v2' \in {v2, IF Head(v9) = v1.login THEN Head(v9) ELSE 0}
  BY DEF Forensics!LoginFails, Forensics!Hang
<1>2. PICK cost \in 0..Forensics!LoginLimit : Forensics!TryNext(cost)
  BY DEF Forensics!LoginFails
<1>3. /\ v8 \in Nat /\ v10 \in Nat /\ v11 \in Nat /\ v7 \in Nat \ {0} /\ v2 \in {0, v1.login}
      /\ v14 \in [login : Nat, reply : Nat] /\ v9 \in Seq(Nat)
  BY DEF Forensics!Queried
<1>4. cost \in Nat /\ cost <= LoginCost /\ cost <= v11 /\ cost <= LoginCost + v11
  BY <1>2, <1>3, CallTimes, ForensicsBounds
<1>5. v14' \in [login : Nat, reply : Nat] /\ v14'.reply = v14.reply
      /\ v14'.login = (IF able THEN v14.login + 1 ELSE v14.login)
  <2>1. CASE able
    BY <1>1, <1>3, <2>1
  <2>2. CASE ~able
    BY <1>1, <1>3, <2>2
  <2> QED
    BY <2>1, <2>2
<1> HIDE DEF able
<1>6. v2' \in {0, v1.login}
  BY <1>1, <1>3
<1>7. ASSUME ~v13, v1.login \in {1, 2}, Forensics!FewHangs' PROVE Forensics!Hung'
  <2>1. PICK H, G \in Nat : H = Forensics!Hangs /\ G = Forensics!Hangs' /\ G = IF able THEN H + 1 ELSE H
    BY <1>3, <1>5 DEF Forensics!Hangs
  <2>2. G <= 1 /\ Forensics!FewHangs
    BY <1>5, <1>7, <2>1 DEF Forensics!FewHangs
  <2>3. Forensics!Hung /\ v12 = 0
    BY <1>1, <1>7, <2>2 DEF Forensics!Queried
  <2>4. PICK k \in 1..BootLogins : v9 = Forensics!Untried(k) /\ Head(v9) = k /\ v9[1] = k
    <3>1. PICK k \in 1..BootLogins : v9 = Forensics!Untried(k)
      BY <1>1, <1>7 DEF Forensics!Queried
    <3> QED
      BY <1>1, <1>3, <3>1, UntriedIs
  <2>5. PICK T, S : /\ T = Forensics!FullTime /\ S = Forensics!Slack /\ T \in Nat /\ T >= 2 * LoginCost
                    /\ S = IF v1.login = 1 THEN LoginCost ELSE 0
    BY HangsAre
  <2>6. /\ v7 - 1 <= H /\ v10 >= T - (IF v7 = 1 THEN 0 ELSE S)
        /\ k = 1 => v11 = v10
        /\ k = 2 /\ v1.login = 2 => v11 >= v10 - LoginCost
        /\ k > v1.login => H >= v7
    BY <1>1, <2>1, <2>3, <2>4, <2>5 DEF Forensics!Hung
  <2>7. ASSUME k = v1.login PROVE G >= v7
    <3>1. v11 >= LoginCost
      BY <1>3, <1>7, <2>5, <2>6, <2>7, ForensicsBounds
    <3>2. able
      BY <2>3, <2>4, <2>7, <3>1, CallTimes DEF able
    <3> QED
      BY <1>3, <2>1, <2>6, <3>2
  <2>8. k >= v1.login => G >= v7
    BY <1>3, <1>7, <2>1, <2>6, <2>7
  <2>9. cost <= v11 + S
    BY <1>3, <1>4, <2>5, ForensicsBounds
  <2> QED
    BY <1>1, <1>2, <1>4, <1>7, <2>1, <2>2, <2>4, <2>5, <2>8, <2>9, HungGoesOn
<1> QED
  BY <1>1, <1>2, <1>4, <1>5, <1>6, <1>7, CallIsOver

LEMMA ReplyIsLost ==
  ASSUME v1 \in Forensics!Guests, v1' = v1, Forensics!Queried, Forensics!ReplyHangs
  PROVE  Forensics!Queried'
<1> USE DEF Forensics!NoLogin
<1>1. /\ v5 = "snapshot" /\ v9 # <<>> /\ UNCHANGED <<v5, v12, v13>> /\ Head(v9) = v1.login
      /\ \E phase \in {"reply"} : v14' = [v14 EXCEPT ![phase] = v14[phase] + 1]
      /\ v2' = Head(v9)
  BY DEF Forensics!ReplyHangs, Forensics!Hang
<1>2. PICK login \in 0..Forensics!LoginLimit : Forensics!TryNext(login + Forensics!CallTime)
  BY DEF Forensics!ReplyHangs
<1>3. /\ v8 \in Nat /\ v10 \in Nat /\ v11 \in Nat /\ v7 \in Nat \ {0}
      /\ v14 \in [login : Nat, reply : Nat] /\ v9 \in Seq(Nat)
  BY DEF Forensics!Queried
<1>4. PICK cost \in Nat : cost = login + Forensics!CallTime /\ cost <= LoginCost + v11 /\ Forensics!TryNext(cost)
  BY <1>2, <1>3, CallTimes, ForensicsBounds
<1>5. v14' \in [login : Nat, reply : Nat] /\ v14'.reply = v14.reply + 1 /\ v14'.login = v14.login
  BY <1>1, <1>3
<1>6. ASSUME ~v13, v1.login \in {1, 2}, Forensics!FewHangs' PROVE Forensics!Hung'
  <2>1. PICK H, G \in Nat : H = Forensics!Hangs /\ G = Forensics!Hangs' /\ G = H + 1
    <3>1. Forensics!Hangs = v14.login + v14.reply /\ Forensics!Hangs' = v14'.login + v14'.reply
      BY DEF Forensics!Hangs
    <3>2. PICK l, r \in Nat : l = v14.login /\ r = v14.reply
      BY <1>3
    <3>3. Forensics!Hangs = l + r /\ Forensics!Hangs' = l + (r + 1)
      BY <1>5, <3>1, <3>2
    <3>4. l + r \in Nat /\ l + (r + 1) \in Nat /\ l + (r + 1) = (l + r) + 1
      BY <3>2
    <3> QED
      BY <3>3, <3>4
  <2>2. G <= 1 /\ v1.login = 1 /\ v14'.reply >= 1
    BY <1>3, <1>5, <1>6, <2>1 DEF Forensics!FewHangs
  <2>3. Forensics!FewHangs
    BY <1>3, <2>1, <2>2 DEF Forensics!FewHangs
  <2>4. v7 - 1 <= H
    BY <1>6, <2>1, <2>3 DEF Forensics!Queried, Forensics!Hung
  <2>5. Forensics!Slack = LoginCost /\ G >= v7 /\ Head(v9) = 1
    BY <1>1, <1>3, <2>1, <2>2, <2>4 DEF Forensics!Slack
  <2>6. cost <= v11 + Forensics!Slack
    BY <1>3, <1>4, <2>5, ForensicsBounds
  <2> QED
    BY <1>1, <1>4, <1>6, <2>1, <2>2, <2>3, <2>5, <2>6, HungGoesOn
<1> QED
  BY <1>1, <1>4, <1>5, <1>6, CallIsOver

LEMMA SnapshotStep ==
  ASSUME v1 \in Forensics!Guests, v1' = v1, Forensics!Queried, [Forensics!Next]_(Forensics!vars)
  PROVE  Forensics!Queried'
<1>1. CASE Forensics!Ask
  BY <1>1, QueryBegins
<1>2. CASE Forensics!Answered
  BY <1>2, LoginAnswered
<1>3. CASE Forensics!LoginFails \/ Forensics!ReplyHangs
  BY <1>3, LoginIsRefused, ReplyIsLost
<1>4. CASE Forensics!Again
  <2>1. /\ v5 = "done" /\ v5' = "ports" /\ v7' = 1 /\ v8' = 0 /\ v12' = 0 /\ v13' = FALSE
        /\ v14' = [login |-> 0, reply |-> 0]
        /\ v2' \in {0, v2} /\ UNCHANGED <<v9, v10, v11>>
    BY <1>4 DEF Forensics!Again, Forensics!NoLogin, Forensics!NoHiccups
  <2>2. /\ v9 = <<>> /\ v11 = 0 /\ v10 \in Nat /\ v9 \in Seq(Nat) /\ v2 \in {0, v1.login}
    BY <2>1 DEF Forensics!Queried, Forensics!NoLogin
  <2>3. Forensics!Hung'
    BY <2>1, <2>2 DEF Forensics!Hung, Forensics!Hangs
  <2> QED
    BY <2>1, <2>2, <2>3, ForensicsBounds DEF Forensics!Queried, Forensics!NoLogin
<1>5. CASE Forensics!SnapshotDone
  <2>1. /\ v7 > BootQueries /\ v5' \notin {"ports", "snapshot"}
        /\ UNCHANGED <<v2, v7, v8, v9, v10, v11, v12, v13, v14>>
    BY <1>5 DEF Forensics!SnapshotDone, Forensics!snapshot
  <2>2. v9 = <<>>
    <3>1. v7 \in Nat /\ ~(v7 <= BootQueries)
      BY <2>1, ForensicsBounds DEF Forensics!Queried
    <3> QED
      BY <3>1 DEF Forensics!Queried
  <2> QED
    BY <2>1, <2>2, QueriedStays
<1>6. CASE Forensics!ProbeForwards
  <2>1. /\ v5 = "ports" /\ v5' = "snapshot" /\ UNCHANGED <<v2, v7, v8, v9, v10, v11, v12, v13, v14>>
    BY <1>6 DEF Forensics!ProbeForwards, Forensics!snapshot
  <2> QED
    BY <2>1, QueriedStays
<1>7. CASE Forensics!Install \/ Forensics!ReadBefore \/ Forensics!Probe \/ Forensics!ReadAfter
           \/ Forensics!Judge \/ Forensics!Report
  <2>1. /\ v5 \notin {"ports", "snapshot"} /\ v5' \notin {"ports", "snapshot"}
        /\ UNCHANGED <<v2, v7, v8, v9, v10, v11, v12, v13, v14>>
    BY <1>7
    DEF Forensics!Install, Forensics!ReadBefore, Forensics!Probe, Forensics!ReadAfter,
        Forensics!Judge, Forensics!Report, Forensics!snapshot
  <2>2. v9 = <<>> /\ v7 > BootQueries
    BY <2>1 DEF Forensics!Queried
  <2> QED
    BY <2>1, <2>2, QueriedStays
<1>8. CASE UNCHANGED Forensics!vars
  <2>1. UNCHANGED <<v2, v5, v7, v8, v9, v10, v11, v12, v13, v14>>
    BY <1>8 DEF Forensics!vars
  <2>2. /\ v9 # <<>> => v5 = "snapshot"
        /\ v5 \notin {"ports", "snapshot"} => v7 > BootQueries
    BY DEF Forensics!Queried
  <2> QED
    BY <2>1, <2>2, QueriedStays
<1> QED
  BY <1>1, <1>2, <1>3, <1>4, <1>5, <1>6, <1>7, <1>8 DEF Forensics!Next

LEMMA ForensicsInit == Forensics!Init => Forensics!IInv
<1> SUFFICES ASSUME Forensics!Init PROVE Forensics!IInv
  OBVIOUS
<1>1. /\ v1 \in Forensics!Guests /\ v2 = 0 /\ v3 = <<>> /\ v5 = "ports" /\ v7 = 1 /\ v8 = 0 /\ v9 = <<>>
      /\ v10 = 0 /\ v11 = 0 /\ v12 = 0 /\ v13 = FALSE /\ v14 = [login |-> 0, reply |-> 0] /\ v15 = -1 /\ v16 = -1
      /\ v17 = "none" /\ v18 = FALSE /\ v19 = {} /\ v20 = 1
  BY DEF Forensics!Init, Forensics!NoLogin, Forensics!Unknown, Forensics!NoHiccups
<1>2. <<>> \in Seq(Nat)
  OBVIOUS
<1>3. Forensics!Hung
  BY <1>1 DEF Forensics!Hung, Forensics!Hangs
<1>4. Forensics!Queried
  BY <1>1, <1>2, <1>3, ForensicsBounds DEF Forensics!Queried, Forensics!NoLogin
<1>5. Forensics!Counting /\ Forensics!VerdictIsTrue
  BY <1>1, <1>2 DEF Forensics!Counting, Forensics!VerdictIsTrue, Forensics!Unknown
<1>6. Forensics!Filed
  BY <1>1 DEF Forensics!Filed, Forensics!Newest
<1>7. Forensics!ForwardsAreJudged
  BY <1>1 DEF Forensics!ForwardsAreJudged
<1> QED
  BY <1>1, <1>4, <1>5, <1>6, <1>7 DEF Forensics!IInv

LEMMA ForensicsStep ==
  ASSUME Forensics!IInv, [Forensics!Next]_(Forensics!vars)
  PROVE  Forensics!IInv'
<1>1. v1 \in Forensics!Guests /\ Forensics!Queried /\ Forensics!Counting /\ Forensics!Filed
      /\ Forensics!ForwardsAreJudged /\ Forensics!VerdictIsTrue
  BY DEF Forensics!IInv
<1>2. v1' = v1 /\ Forensics!ForwardsAreJudged'
  BY <1>1, ForwardsStep
<1>3. Forensics!Queried'
  BY <1>1, <1>2, SnapshotStep
<1>4. Forensics!Counting' /\ Forensics!VerdictIsTrue'
  BY <1>1, <1>2, RuleStep
<1>5. Forensics!Filed'
  BY <1>1, FilesStep
<1>6. v1' \in Forensics!Guests'
  BY <1>1, <1>2 DEF Forensics!Guests, Forensics!GuestPorts, Forensics!Name, Forensics!Conditions
<1> QED
  BY <1>2, <1>3, <1>4, <1>5, <1>6 DEF Forensics!IInv

\* What a capture finds out of a guest that does not boot is so, whichever ports drop and
\* rules earlier captures left: one hung call, before the prompt of either login or before the
\* first one's reply, costs no healthy guest its report, the snapshot overruns by one login
\* at most, and a table that was not read is no evidence (guest-snapshot.ts:155-215, 428-450;
\* console.ts:518-545; diagnostics.ts:273-316, 371-378, 427-466).
THEOREM DiagnosesAreTrue == Guest => []DiagnosisIsTrue
<1> DEFINE Inv == plays = "forensics" => Forensics!IInv
<1>1. ASSUME GuestInit PROVE Inv
  BY <1>1, ForensicsInit DEF GuestInit
<1>2. ASSUME Inv, [GuestNext]_all PROVE Inv'
  <2>1. ASSUME plays' = "forensics" PROVE plays = "forensics" /\ [Forensics!Next]_(Forensics!vars)
    BY <1>2, <2>1 DEF GuestNext, Plays, all, slots, high, Forensics!vars
  <2> QED
    BY <1>2, <2>1, ForensicsStep
<1>3. Inv => DiagnosisIsTrue
  <2> SUFFICES ASSUME Forensics!IInv
               PROVE  /\ Forensics!HealthyIsReachable /\ Forensics!ForwardsAreJudged
                      /\ Forensics!VerdictIsTrue /\ Forensics!NewestReportsStay
    BY DEF DiagnosisIsTrue
  <2>1. Forensics!ForwardsAreJudged /\ Forensics!VerdictIsTrue /\ Forensics!Queried /\ Forensics!Filed
    BY DEF Forensics!IInv
  <2>2. v8 <= BootBudget + LoginCost
    <3>1. v8 \in Nat /\ v11 \in Nat /\ (v8 + v11 <= BootBudget \/ v8 <= BootBudget + LoginCost)
      BY <2>1 DEF Forensics!Queried
    <3> QED
      BY <3>1, ForensicsBounds
  <2>3. ASSUME v5 = "report", v1.login \in {1, 2}, Forensics!FewHangs, ~v13 PROVE FALSE
    <3>1. Forensics!Hung /\ v7 > BootQueries /\ v7 \in Nat /\ Forensics!Hangs \in Nat
      BY <2>1, <2>3, HangsAre DEF Forensics!Queried
    <3>2. v7 - 1 <= Forensics!Hangs /\ Forensics!Hangs <= 1
      BY <2>3, <3>1 DEF Forensics!Hung, Forensics!FewHangs
    <3> QED
      BY <3>1, <3>2, ForensicsBounds
  <2>4. Forensics!HealthyIsReachable
    BY <2>2, <2>3 DEF Forensics!HealthyIsReachable
  <2>5. Forensics!NewestReportsStay
    BY <2>1 DEF Forensics!NewestReportsStay, Forensics!Filed, Forensics!Newest
  <2> QED
    BY <2>1, <2>4, <2>5
<1> QED
  BY <1>1, <1>2, <1>3, PTL DEF Guest
=============================================================================
