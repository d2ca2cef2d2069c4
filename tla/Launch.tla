------------------------------- MODULE Launch -------------------------------
(***************************************************************************)
(* The accelerator of a machine and the time its boot is given             *)
(* (platform.ts, qemu.ts, quickchr.ts).  The accelerator follows from the  *)
(* process's own override, its environment, the settings file and the      *)
(* host, all of which differ between processes or change between two       *)
(* looks.  Operations on the machine hold its lock.                        *)
(***************************************************************************)
EXTENDS Integers

CONSTANTS
  Proc,          \* processes that use the machine
  Host,          \* [os |-> ..., arch |-> ..., translated |-> ...] of the host
  Guest,         \* "x86" or "arm64"
  Flag, Env,     \* of each process: the tiers of the override, Unset or Bad
  FileMode,      \* what the settings file may hold
  Unset, Bad,    \* no value, and a value that is refused
  MaxChanges     \* bound: changes of the file and of the host

Accel == {"kvm", "hvf", "tcg"}
Named == Accel \union {"auto"} \union FileMode \union {Flag[p] : p \in Proc} \union {Env[p] : p \in Proc}
Launched == [accel : Named, paused : BOOLEAN, booted : BOOLEAN]

LaunchAssumption ==
  /\ Unset \notin Accel \union {"auto", Bad} \union Launched
  /\ MaxChanges \in Nat

VARIABLES
  file,      \* QUICKCHR_ACCEL in the settings file
  kvm,       \* the host offers acceleration: /dev/kvm is writable, hv_support is set
  changes,
  qemu,      \* [accel, paused, booted] of the machine's qemu, or Unset
  frozen, lastAccel,  \* of the machine's record
  at         \* of each process: the operation it is in

vars == <<file, kvm, changes, qemu, frozen, lastAccel, at>>

Idle == [do |-> "idle", accel |-> Unset, how |-> "wait"]
\* An operation, the accelerator it goes by and whether it waits for the boot.
At(do, accel, how) == [do |-> do, accel |-> accel, how |-> how]

Init ==
  /\ file = Unset /\ kvm \in BOOLEAN /\ changes = 0
  /\ qemu = Unset /\ frozen = FALSE /\ lastAccel = Unset
  /\ at = [p \in Proc |-> Idle]

isAppleSiliconHost == Host.os = "darwin" /\ (Host.arch = "arm64" \/ Host.translated)

isCrossArchEmulation ==
  LET arm == isAppleSiliconHost \/ (Host.os # "darwin" /\ Host.arch = "arm64")
  IN  (Guest = "arm64") # arm

resolveAccelOverride(p) ==
  CASE Flag[p] # Unset -> Flag[p] [] Env[p] # Unset -> Env[p]
    [] file # Unset -> file [] OTHER -> "auto"

ArchMatches ==
  \/ Guest = "x86" /\ Host.arch = "x64"
  \/ Guest = "arm64" /\ Host.arch = "arm64"

Detected ==
  CASE Host.os = "linux" /\ ArchMatches /\ kvm -> "kvm"
    [] Host.os = "darwin" /\ kvm /\ Guest = "x86" /\ ~isAppleSiliconHost -> "hvf"
    [] OTHER -> "tcg"

detectAccel(p) == IF resolveAccelOverride(p) = "auto" THEN Detected ELSE resolveAccelOverride(p)

Fails(p) == resolveAccelOverride(p) = Bad

\* Twice the factor, and the boot timeout in minutes.
accelTimeoutFactor(accel) ==
  IF accel \in {"kvm", "hvf"} THEN 3 ELSE IF isCrossArchEmulation THEN 30 ELSE 8

defaultBootTimeout(accel, packages) ==
  accelTimeoutFactor(IF accel = Unset THEN "tcg" ELSE accel) * IF packages THEN 2 ELSE 1

LockFree == \A p \in Proc : at[p] = Idle
Go(p, do, accel, how) == at' = [at EXCEPT ![p] = At(do, accel, how)]
End(p) == at' = [at EXCEPT ![p] = Idle]

\* A start looks for the accelerator, and for the machine's disks and networks.
Start(p, how) ==
  /\ LockFree /\ qemu = Unset /\ ~Fails(p)
  /\ Go(p, "starting", detectAccel(p), how)
  /\ UNCHANGED <<file, kvm, changes, qemu, frozen, lastAccel>>

\* Seeded fault: the arguments are built with an accelerator of their own.
LookedUpAgain(p, named) == detectAccel(p)

\* The accelerator of the arguments: the one the configuration names, or one more look.
buildQemuArgs(p, named) == IF named # Unset THEN named ELSE detectAccel(p)

\* The configuration made from the record names none.
buildLaunchConfigFromState == Unset

Spawn(p) ==
  /\ at[p].do = "starting"
  /\ qemu' = [accel |-> buildQemuArgs(p, at[p].accel), paused |-> at[p].how = "frozen", booted |-> FALSE]
  /\ frozen' = (at[p].how = "frozen")
  /\ lastAccel' = IF at[p].how = "frozen" THEN at[p].accel ELSE lastAccel
  /\ IF at[p].how = "wait" THEN Go(p, "booting", at[p].accel, "wait") ELSE End(p)
  /\ UNCHANGED <<file, kvm, changes>>

\* The first boot did not come up: one more qemu with the same arguments, hardware only.
Respawn(p) ==
  /\ at[p].do = "booting" /\ at[p].how = "wait" /\ at[p].accel \in {"kvm", "hvf"}
  /\ qemu' = [qemu EXCEPT !.booted = FALSE] /\ Go(p, "booting", at[p].accel, "last")
  /\ UNCHANGED <<file, kvm, changes, frozen, lastAccel>>

\* The guest answers in time, or it does not and the launch is undone or left.
Booted(p) ==
  /\ at[p].do \in {"booting", "resuming", "cycled"}
  /\ \/ /\ qemu' = [qemu EXCEPT !.booted = TRUE]
        /\ lastAccel' = IF at[p].do = "booting" THEN at[p].accel ELSE lastAccel
     \/ qemu' \in {qemu, Unset} /\ UNCHANGED lastAccel
  /\ End(p) /\ UNCHANGED <<file, kvm, changes, frozen>>

\* The recorded accelerator, when there is one.
ResumeAccel(p) == IF lastAccel # Unset THEN lastAccel ELSE detectAccel(p)

Continue(p, wait) ==
  /\ LockFree /\ qemu # Unset
  /\ qemu' = [qemu EXCEPT !.paused = FALSE] /\ frozen' = FALSE
  /\ IF wait /\ (lastAccel # Unset \/ ~Fails(p))
     THEN Go(p, "resuming", ResumeAccel(p), IF frozen THEN "frozen" ELSE "wait")
     ELSE UNCHANGED at
  /\ UNCHANGED <<file, kvm, changes, lastAccel>>

\* A change of device mode looks for the accelerator for its waits, and builds the
\* arguments of the new qemu without naming one.
BeginCycle(p) ==
  /\ LockFree /\ qemu # Unset /\ ~Fails(p)
  /\ Go(p, "cycling", detectAccel(p), "wait")
  /\ UNCHANGED <<file, kvm, changes, qemu, frozen, lastAccel>>

hardRebootMachine(p) ==
  /\ at[p].do = "cycling"
  /\ IF Fails(p) THEN qemu' = Unset /\ End(p) /\ UNCHANGED frozen
     ELSE /\ qemu' = [accel |-> buildQemuArgs(p, buildLaunchConfigFromState),
                    paused |-> FALSE, booted |-> FALSE]
          /\ frozen' = FALSE /\ Go(p, "cycled", at[p].accel, "wait")
  /\ UNCHANGED <<file, kvm, changes, lastAccel>>

\* By the user: gdb or the monitor pauses the guest, a stop ends it.
Pause ==
  /\ LockFree /\ qemu # Unset /\ qemu' = [qemu EXCEPT !.paused = TRUE]
  /\ UNCHANGED <<file, kvm, changes, frozen, lastAccel, at>>

Stop ==
  /\ LockFree /\ qemu # Unset /\ qemu' = Unset /\ frozen' = FALSE
  /\ UNCHANGED <<file, kvm, changes, lastAccel, at>>

\* The settings file or the host changes.
Change ==
  /\ changes < MaxChanges /\ changes' = changes + 1
  /\ \/ file' \in FileMode /\ UNCHANGED kvm
     \/ kvm' = ~kvm /\ UNCHANGED file
  /\ UNCHANGED <<qemu, frozen, lastAccel, at>>

Next ==
  \/ \E p \in Proc :
       \/ \E how \in {"wait", "nowait", "frozen"} : Start(p, how)
       \/ Spawn(p) \/ Respawn(p) \/ Booted(p)
       \/ \E wait \in BOOLEAN : Continue(p, wait)
       \/ BeginCycle(p) \/ hardRebootMachine(p)
  \/ Pause \/ Stop \/ Change

Spec == Init /\ [][Next]_vars

----------------------------------------------------------------------------
Budget(p) == defaultBootTimeout(at[p].accel, FALSE)

\* A process that waits for a boot it started, or for one it released from reset, waits as
\* long as the accelerator of the qemu that runs needs, whatever its own override, the
\* settings or the host say by now (qemu.ts:36-39, quickchr.ts:566-567).
WaitFitsTheLaunch ==
  \A p \in Proc :
    (at[p].do = "booting" \/ (at[p].do = "resuming" /\ at[p].how = "frozen"))
    => qemu # Unset /\ Budget(p) = defaultBootTimeout(qemu.accel, FALSE)

Operation ==
  [do : {"starting", "booting", "resuming", "cycling", "cycled"}, accel : Named \ {Unset},
   how : {"wait", "nowait", "frozen", "last"}]

\* What an operation waits by is what it launched with, or what a launch that was left
\* paused put on record.
Fits(o) ==
  /\ o.do = "starting" => qemu = Unset
  /\ o.do \in {"booting", "resuming", "cycling", "cycled"} => qemu # Unset
  /\ o.do \in {"booting", "resuming"} => ~frozen
  /\ o.do = "booting" \/ (o.do = "resuming" /\ o.how = "frozen") => qemu.accel = o.accel

RecordFits ==
  /\ file \in FileMode \union {Unset} /\ frozen \in BOOLEAN
  /\ qemu \in Launched \union {Unset} /\ lastAccel \in Named \union {Unset}
  /\ frozen /\ qemu # Unset => lastAccel = qemu.accel /\ lastAccel # Unset

IInv ==
  /\ RecordFits
  /\ at \in [Proc -> Operation \union {Idle}]
  /\ \A p, q \in Proc : at[p] # Idle /\ at[q] # Idle => p = q
  /\ \A p \in Proc : at[p] # Idle => Fits(at[p])
=============================================================================
