------------------------------ MODULE Monitor ------------------------------
(***************************************************************************)
(* channels.ts monitorCommand() and the snapshot operations of             *)
(* quickchr.ts that are built on it.  QEMU's monitor serves one client at  *)
(* a time; a client that gives up waiting does not take its command back.  *)
(* The process may end at any moment, which closes every socket.           *)
(***************************************************************************)
EXTENDS Naturals

CONSTANTS
  Calls,
  Name,       \* of snapshots
  Absent,
  MaxGuest    \* bound: the states the guest goes through

MonitorAssumption == Absent \notin 0..MaxGuest /\ MaxGuest \in Nat

Op == {"save", "load", "delete"}

VARIABLES
  alive,      \* the QEMU process
  guest, paused,
  snaps,      \* the disk's snapshots: Name -> guest state or Absent
  serving,    \* the calls the monitor has taken a command from and not finished
  pc, cmd, name, answer,  \* of each call its place, its command, its snapshot, what was read
  result,     \* "none", "ok" or "error"
  did,        \* ghost: QEMU did what the call was for
  unresumed   \* ghost: a failed load was given up on, or cont failed

vars == <<alive, guest, paused, snaps, serving, pc, cmd, name, answer, result, did, unresumed>>

Init ==
  /\ alive = TRUE /\ guest = 0 /\ paused = FALSE
  /\ snaps = [n \in Name |-> Absent]
  /\ serving = {}
  /\ pc = [c \in Calls |-> "idle"] /\ cmd = [c \in Calls |-> "none"]
  /\ name \in [Calls -> Name]
  /\ answer = [c \in Calls |-> "none"] /\ result = [c \in Calls |-> "none"]
  /\ did = [c \in Calls |-> FALSE] /\ unresumed = FALSE

Go(c, l) == pc' = [pc EXCEPT ![c] = l]
Return(c, r) == Go(c, "done") /\ result' = [result EXCEPT ![c] = r]

Begin(c) ==
  /\ pc[c] = "idle" /\ alive
  /\ \E o \in Op : cmd' = [cmd EXCEPT ![c] = o]
  /\ Go(c, "waiting")
  /\ UNCHANGED <<alive, guest, paused, snaps, serving, name, answer, result, did, unresumed>>

\* The prompt comes when the monitor is free; the command is written at once.
Prompt(c) ==
  /\ pc[c] = "waiting" /\ alive /\ serving = {}
  /\ Go(c, "sent") /\ serving' = {c}
  /\ UNCHANGED <<alive, guest, paused, snaps, cmd, name, answer, result, did, unresumed>>

\* What QEMU does with a command, and what it prints.  It works on a command whose
\* caller has left just the same.
Answers(c, text) ==
  /\ serving' = {}
  /\ IF pc[c] = "sent" THEN Go(c, "answered") /\ answer' = [answer EXCEPT ![c] = text]
     ELSE UNCHANGED <<pc, answer>>
  /\ UNCHANGED <<alive, cmd, name, result>>

Did(c) == did' = [did EXCEPT ![c] = TRUE]

Savevm(c) ==
  /\ alive /\ c \in serving /\ cmd[c] = "save"
  /\ \/ snaps' = [snaps EXCEPT ![name[c]] = guest] /\ Did(c) /\ Answers(c, "")
     \/ Answers(c, "error") /\ UNCHANGED <<snaps, did>>
  /\ UNCHANGED <<guest, paused, unresumed>>

\* A load that fails leaves the guest paused, the caller to resume it.
Loadvm(c) ==
  /\ alive /\ c \in serving /\ cmd[c] = "load"
  /\ \/ /\ snaps[name[c]] # Absent
        /\ guest' = snaps[name[c]] /\ Did(c) /\ Answers(c, "")
        /\ UNCHANGED <<paused, unresumed>>
     \/ /\ paused' = TRUE /\ Answers(c, "error")
        /\ unresumed' = (unresumed \/ pc[c] # "sent")
        /\ UNCHANGED <<guest, did>>
  /\ UNCHANGED snaps

Delvm(c) ==
  /\ alive /\ c \in serving /\ cmd[c] = "delete"
  /\ \/ snaps[name[c]] # Absent /\ snaps' = [snaps EXCEPT ![name[c]] = Absent] /\ Did(c) /\ Answers(c, "")
     \/ Answers(c, "error") /\ UNCHANGED <<snaps, did>>
  /\ UNCHANGED <<guest, paused, unresumed>>

Cont(c) ==
  /\ alive /\ c \in serving /\ cmd[c] = "cont"
  /\ paused' = FALSE /\ Answers(c, "")
  /\ UNCHANGED <<guest, snaps, did, unresumed>>

Info(c) ==
  /\ alive /\ c \in serving /\ cmd[c] = "list"
  /\ Answers(c, IF snaps[name[c]] # Absent THEN "listed" ELSE "")
  /\ UNCHANGED <<guest, paused, snaps, did, unresumed>>

\* Seeded fault: QEMU's echo of the command hides an error (#31).
HiddenByEcho(c) == FALSE

\* cleanMonitorResponse(): the echo is taken off, so an error stands first.
IsError(c) == answer[c] = "error"

Send(c, o) == Go(c, "waiting") /\ cmd' = [cmd EXCEPT ![c] = o]

\* A failed load resumes the guest before it throws.
LoadFailed(c) == Send(c, "cont") /\ UNCHANGED result

Take(c) ==
  /\ pc[c] = "answered"
  /\ CASE cmd[c] = "cont" -> Return(c, "error") /\ UNCHANGED cmd
       [] cmd[c] = "list" -> Return(c, IF answer[c] = "listed" THEN "ok" ELSE "error") /\ UNCHANGED cmd
       [] cmd[c] = "save" /\ ~IsError(c) -> Send(c, "list") /\ UNCHANGED result
       [] cmd[c] = "load" /\ IsError(c) -> LoadFailed(c)
       [] OTHER -> Return(c, IF IsError(c) THEN "error" ELSE "ok") /\ UNCHANGED cmd
  /\ UNCHANGED <<alive, guest, paused, snaps, serving, name, answer, did, unresumed>>

\* The disk itself is asked when the monitor does not answer `info snapshots'.
FromDisk(c) == Return(c, IF snaps[name[c]] # Absent THEN "ok" ELSE "error")

Rejected(c) ==
  /\ IF cmd[c] = "list" THEN FromDisk(c) ELSE Return(c, "error")
  /\ unresumed' = (unresumed \/ cmd[c] = "cont")

Timeout(c) ==
  /\ pc[c] \in {"waiting", "sent"} /\ Rejected(c)
  /\ UNCHANGED <<alive, guest, paused, snaps, serving, cmd, name, answer, did>>

\* A socket that closes after the command was sent reads as an empty answer.
Closed(c) ==
  /\ ~alive /\ pc[c] \in {"waiting", "sent"}
  /\ IF pc[c] = "sent"
     THEN /\ Go(c, "answered") /\ answer' = [answer EXCEPT ![c] = ""]
          /\ UNCHANGED <<result, unresumed>>
     ELSE Rejected(c) /\ UNCHANGED answer
  /\ UNCHANGED <<alive, guest, paused, snaps, serving, cmd, name, did>>

QemuEnds ==
  /\ alive /\ alive' = FALSE /\ serving' = {}
  /\ UNCHANGED <<guest, paused, snaps, pc, cmd, name, answer, result, did, unresumed>>

GuestRuns ==
  /\ alive /\ ~paused /\ guest < MaxGuest /\ guest' = guest + 1
  /\ UNCHANGED <<alive, paused, snaps, serving, pc, cmd, name, answer, result, did, unresumed>>

Next ==
  \/ \E c \in Calls :
       \/ Begin(c) \/ Prompt(c) \/ Take(c) \/ Timeout(c) \/ Closed(c)
       \/ Savevm(c) \/ Loadvm(c) \/ Delvm(c) \/ Cont(c) \/ Info(c)
  \/ QemuEnds \/ GuestRuns

Spec == Init /\ [][Next]_vars

----------------------------------------------------------------------------
(* Properties                                                              *)

\* As long as QEMU lives, an operation that returned was carried out: no failure reads
\* as a snapshot made, loaded or deleted, whoever else used the monitor in between
\* (quickchr.ts:1326-1328, channels.ts:77-81).
ReturnedWasDone == \A c \in Calls : alive /\ result[c] = "ok" => did[c]

\* A failed load leaves the guest running, unless the caller gave up before QEMU had
\* failed or the resume itself did not come through (quickchr.ts:1360-1370).
NoGuestIsLeftPaused ==
  paused => \/ unresumed \/ ~alive
            \/ \E c \in Calls : pc[c] \in {"waiting", "sent", "answered"} /\ cmd[c] \in {"load", "cont"}

\* Why it is so: the monitor works on the command of the call whose answer is waited for,
\* and a command that follows another is sent by the call whose first one succeeded.
Resumes(c) == pc[c] \in {"waiting", "sent"} /\ cmd[c] = "cont"

Pauses(c) == pc[c] = "answered" /\ cmd[c] = "load" /\ answer[c] = "error"

TypeOK ==
  /\ alive \in BOOLEAN /\ paused \in BOOLEAN /\ unresumed \in BOOLEAN
  /\ serving \in SUBSET Calls /\ \A c, d \in serving : c = d
  /\ pc \in [Calls -> {"idle", "waiting", "sent", "answered", "done"}]
  /\ cmd \in [Calls -> Op \cup {"none", "list", "cont"}]
  /\ answer \in [Calls -> {"none", "", "error", "listed"}]
  /\ result \in [Calls -> {"none", "ok", "error"}]
  /\ did \in [Calls -> BOOLEAN]

\* Its command is done when its place in the protocol says so.
IsDone(c) ==
  \/ cmd[c] = "list" \/ result[c] = "ok"
  \/ pc[c] = "answered" /\ cmd[c] \in Op /\ answer[c] # "error"

Sound(c) ==
  /\ c \in serving => alive /\ pc[c] \in {"sent", "done"}
  /\ alive /\ pc[c] = "sent" => c \in serving
  /\ pc[c] # "done" => result[c] = "none"
  /\ pc[c] # "idle" => cmd[c] # "none"
  /\ alive /\ IsDone(c) => did[c]

Resumed == paused => unresumed \/ ~alive \/ \E c \in Calls : Pauses(c) \/ Resumes(c)

IInv == TypeOK /\ (\A c \in Calls : Sound(c)) /\ Resumed
=============================================================================
