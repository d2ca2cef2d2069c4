------------------------------ MODULE EfiVars ------------------------------
(***************************************************************************)
(* The EFI variables of an arm64 machine (qemu.ts, prepareEfiVars): a      *)
(* qcow2 file made at the first launch from the raw file of an older       *)
(* machine, or else from the firmware's template, and then written by the  *)
(* guest.  A content is the number of the write that made it, 0 for the    *)
(* template's.                                                             *)
(***************************************************************************)
EXTENDS Integers

CONSTANTS
  None,
  MaxWrites, MaxCrashes  \* bounds

EfiVarsAssumption == MaxWrites \in Nat /\ MaxCrashes \in Nat /\ None \notin Int

VARIABLES
  dest,    \* efi-vars.qcow2: None, a content, or Stub
  legacy,  \* efi-vars.fd of an older machine: None or a content
  stage,   \* the raw copy that is being converted: None or a content
  at,      \* what the launch is at
  last,    \* the last content the machine's guest wrote, or the template's
  crashes

vars == <<dest, legacy, stage, at, last, crashes>>

Stub == -1   \* an unfinished conversion

Init ==
  /\ dest = None /\ stage = None /\ at = "idle" /\ crashes = 0
  /\ \/ legacy = None /\ last = 0
     \/ legacy = 1 /\ last = 1

\* Seeded fault: the template is staged whether or not the machine has a raw file.
TemplateFirst == 0

Source == IF legacy # None THEN legacy ELSE 0

\* buildQemuArgs(): the variables are prepared only when there is no such file.
Launch ==
  /\ at = "idle"
  /\ at' = IF dest = None THEN "staging" ELSE "running"
  /\ UNCHANGED <<dest, legacy, stage, last, crashes>>

Stage ==
  /\ at = "staging" /\ stage' = Source /\ at' = "sizing"
  /\ UNCHANGED <<dest, legacy, last, crashes>>

\* The copy is brought to the size of the code ROM; when that fails it is removed.
SizeMatch ==
  /\ at = "sizing"
  /\ \/ at' = "converting" /\ dest' = Stub /\ UNCHANGED stage
     \/ at' = "idle" /\ stage' = None /\ UNCHANGED dest
  /\ UNCHANGED <<legacy, last, crashes>>

Converted ==
  /\ at = "converting"
  /\ dest' = stage /\ stage' = None /\ at' = "converted"
  /\ UNCHANGED <<legacy, last, crashes>>

RemovesStub == dest' = None

ConversionFailed ==
  /\ at = "converting"
  /\ RemovesStub /\ stage' = None /\ at' = "idle"
  /\ UNCHANGED <<legacy, last, crashes>>

DropLegacy ==
  /\ at = "converted" /\ legacy' = None /\ at' = "running"
  /\ UNCHANGED <<dest, stage, last, crashes>>

GuestWrites ==
  /\ at = "running" /\ dest # Stub /\ last < MaxWrites
  /\ last' = last + 1 /\ dest' = last'
  /\ UNCHANGED <<legacy, stage, at, crashes>>

Stop == at = "running" /\ at' = "idle" /\ UNCHANGED <<dest, legacy, stage, last, crashes>>

\* quickchr dies; the conversion it had started dies with it or finishes.
Crash ==
  /\ at \notin {"idle", "running"} /\ crashes < MaxCrashes
  /\ at' = "idle" /\ crashes' = crashes + 1
  /\ dest' \in IF at = "converting" THEN {Stub, stage} ELSE {dest}
  /\ UNCHANGED <<legacy, stage, last>>

Next ==
  \/ Launch \/ Stage \/ SizeMatch \/ Converted \/ ConversionFailed \/ DropLegacy
  \/ GuestWrites \/ Stop \/ Crash

Spec == Init /\ [][Next]_vars

----------------------------------------------------------------------------
\* The variables a guest is given are the last it wrote, those of the raw file of an older
\* machine included, whatever failed or was interrupted on the way (qemu.ts:95-97).
VariablesAreKept == at = "running" /\ dest # Stub => dest = last

\* Only a crash leaves an unfinished conversion for a launch to boot: a failed one is made
\* anew (qemu.ts:325-327).
FailedIsMadeAnew == at = "running" /\ dest = Stub => crashes > 0

\* The file, when it is whole, is what the guest last wrote; until there is one, its source
\* is.  Only the conversion under way or a crash leaves it unfinished.
IInv ==
  /\ last \in Nat /\ crashes \in Nat /\ legacy \in Nat \union {None}
  /\ at \in {"idle", "staging", "sizing", "converting", "converted", "running"}
  /\ dest \in {None, Stub, last}
  /\ dest = None => last = Source /\ at \in {"idle", "staging", "sizing"}
  /\ at \in {"staging", "sizing"} => dest = None
  /\ at \in {"sizing", "converting"} => stage = last
  /\ at = "converting" => last = Source
  /\ dest = Stub => at = "converting" \/ crashes > 0
  /\ at = "converted" => dest # Stub
=============================================================================
