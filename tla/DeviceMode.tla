----------------------------- MODULE DeviceMode -----------------------------
(***************************************************************************)
(* device-mode.ts: what a machine's record says of its device mode, and    *)
(* what its guest was told.  A request names a mode and features to turn   *)
(* on and off; the guest keeps what a request does not name.  add() writes *)
(* down what is wanted, the first boot applies that, or what its own call  *)
(* gives, and records the step alone; set writes down what it applied.  A  *)
(* call may fail, and the process may die, between any two of these.       *)
(***************************************************************************)
EXTENDS Naturals

CONSTANTS
  Feature,
  Mode,         \* the modes RouterOS knows
  MaxRequests   \* bound

DeviceModeAssumption ==
  /\ MaxRequests \in Nat /\ "mode" \notin Feature
  /\ "rose" \in Mode /\ Mode \cap {"unset", "auto", "skip"} = {}

\* A request: the mode as given, the features named.
Request == [mode : {"auto", "skip"} \cup Mode, enable : SUBSET Feature, disable : SUBSET Feature]
Nothing == [mode |-> "unset", enable |-> {}, disable |-> {}]

VARIABLES
  guest,      \* mode and the features that are on
  record,     \* MachineState.deviceMode: wanted, or applied
  window,     \* "open", "first": its first boot is under way, "shut", or "ran": shut, and
              \* the step record lists deviceMode
  want,       \* the request under way
  pc,         \* "idle", "telling", "told", "checked", "saved"
  told,       \* ghost: the last value of each feature the guest took
  unsure,     \* ghost: what the record is not held to
  requests

vars == <<guest, record, window, want, pc, told, unsure, requests>>

FactoryGuest == [mode |-> "rose", on |-> {}]
Untold == [f \in Feature |-> "unset"]

\* add() wrote down the options as they were given, if any were.
Init ==
  /\ guest = FactoryGuest
  /\ record \in Request \cup {Nothing} /\ window = "open"
  /\ want = Nothing /\ pc = "idle"
  /\ told = Untold
  /\ unsure = {} /\ requests = 0

Skipped(r) == r.mode \in {"skip", "unset"}

\* resolveDeviceModeOptions(): the mode's name, and disable over enable.
Resolved(r) ==
  [mode |-> IF r.mode = "auto" THEN "rose" ELSE r.mode,
   enable |-> r.enable \ r.disable, disable |-> r.disable]

\* deviceModeSelection(): a request or a record as the code reads it.
Selection(r) == IF Skipped(r) THEN Nothing ELSE Resolved(r)

\* mergeDeviceModeOptions(): the newest word on each feature.
Merged(old, new) ==
  [mode |-> new.mode,
   enable |-> (old.enable \ new.disable) \cup new.enable,
   disable |-> (old.disable \ new.enable) \cup new.disable]

\* appliedDeviceModeRecord(): an intent no step confirmed is not folded in.
Confirmed == IF window = "ran" THEN record ELSE Nothing

Tell(r) == want' = Resolved(r) /\ pc' = "telling"

\* The first boot applies what its own call gives, and else what add() wrote down; with
\* nothing to apply the window shuts without the step.
FirstBoot ==
  /\ pc = "idle" /\ window = "open" /\ requests < MaxRequests
  /\ requests' = requests + 1
  /\ \E r \in Request \cup {Nothing} :
       LET pending == IF r = Nothing THEN record ELSE r IN
       \/ ~Skipped(pending) /\ window' = "first" /\ Tell(pending)
       \/ Skipped(pending) /\ window' = "shut" /\ UNCHANGED <<want, pc>>
  /\ UNCHANGED <<guest, record, told, unsure>>

\* setDeviceMode(), of a machine that has booted.
Set ==
  /\ pc = "idle" /\ window # "open" /\ requests < MaxRequests
  /\ requests' = requests + 1
  /\ \E r \in Request : ~Skipped(r) /\ Tell(r)
  /\ UNCHANGED <<guest, record, window, told, unsure>>

\* The guest takes the update with the power cycle that confirms it.  RouterOS may
\* refuse some of it without a word.
Confirm ==
  /\ pc = "telling"
  /\ \E taken \in {want, [want EXCEPT !.enable = {}]} :
       /\ guest' = [mode |-> want.mode, on |-> (guest.on \ taken.disable) \cup taken.enable]
       /\ told' = [f \in Feature |-> IF f \in taken.enable THEN "yes"
                                     ELSE IF f \in taken.disable THEN "no" ELSE told[f]]
  /\ pc' = "told"
  /\ UNCHANGED <<record, window, want, unsure, requests>>

\* verifyDeviceMode(): every setting asked for is read back.
Verified ==
  /\ guest.mode = want.mode
  /\ want.enable \subseteq guest.on /\ want.disable \cap guest.on = {}

Named == want.enable \cup want.disable \cup {"mode"}

\* A mismatch is an error of the call.
Check ==
  /\ pc = "told" /\ Verified
  /\ pc' = "checked"
  /\ UNCHANGED <<guest, record, window, want, told, unsure, requests>>

\* set writes the record and then the step that vouches for it.
SaveRecord ==
  /\ pc = "checked" /\ window # "first"
  /\ record' = Merged(Confirmed, want)
  /\ pc' = "saved"
  /\ UNCHANGED <<guest, window, want, told, unsure, requests>>

SaveStep ==
  /\ pc = "saved"
  /\ window' = "ran" /\ unsure' = unsure \ Named
  /\ pc' = "idle"
  /\ UNCHANGED <<guest, record, want, told, requests>>

\* recordProvisioning(): the first boot records its steps, and leaves the device mode as
\* add() wrote it, also when its call gave another.
Overridden == want # Resolved(record)

RecordProvisioning ==
  /\ pc = "checked" /\ window = "first"
  /\ window' = "ran" /\ pc' = "idle"
  /\ unsure' = IF Overridden THEN unsure \cup Named \cup record.enable \cup record.disable
               ELSE unsure \ Named
  /\ UNCHANGED <<guest, record, want, told, requests>>

\* The request is lost, the guest does not come back or does not have what was asked for,
\* or the process dies.  A first boot that throws is rolled back to a factory disk.
Reset ==
  /\ guest' = FactoryGuest /\ window' = "open"
  /\ told' = Untold /\ unsure' = {}

Fails ==
  /\ pc # "idle" /\ pc' = "idle"
  /\ \/ /\ window' = IF window = "first" THEN "shut" ELSE window
        /\ unsure' = IF pc = "telling" THEN unsure ELSE unsure \cup Named
        /\ UNCHANGED <<guest, told>>
     \/ window = "first" /\ Reset
  /\ UNCHANGED <<record, want, requests>>

\* clean() resets the guest; the record stays, as what is wanted.
Clean ==
  /\ pc = "idle" /\ Reset
  /\ UNCHANGED <<record, want, pc, requests>>

Next ==
  FirstBoot \/ Set \/ Confirm \/ Check \/ SaveRecord \/ SaveStep \/ RecordProvisioning \/ Fails
  \/ Clean

Spec == Init /\ [][Next]_vars

----------------------------------------------------------------------------
(* Properties                                                              *)

\* A record that counts as applied, read as the code reads it, describes the guest: the
\* mode and every feature the guest took since its last reset, and nothing it was never told
\* (device-mode.ts:390-397, provisioning-window.ts:215-226).  It is not held to what a call
\* that failed after the guest was told has changed, nor, when a first boot was given another
\* device mode than add() wrote down, to what either of them names (quickchr.ts:2976-2981).
SaysOf(f) ==
  /\ f \in Selection(record).enable <=> told[f] = "yes"
  /\ f \in Selection(record).disable <=> told[f] = "no"

RecordDescribesGuest ==
  pc = "idle" /\ window = "ran" =>
    /\ "mode" \notin unsure => Selection(record).mode = guest.mode
    /\ \A f \in Feature \ unsure : SaysOf(f)

\* Why it is so: the guest has the features that it was last told to turn on; what no step
\* vouches for was not told since the reset, or is unsure; and a call that goes on leaves
\* alone what it does not name.
Records == [mode : {"unset", "auto", "skip"} \cup Mode, enable : SUBSET Feature, disable : SUBSET Feature]

Open == IF pc \in {"told", "checked", "saved"} THEN unsure \cup Named ELSE unsure

TypeOK ==
  /\ guest \in [mode : Mode, on : SUBSET Feature]
  /\ record \in Records /\ window \in {"open", "first", "shut", "ran"}
  /\ want \in Records /\ want.enable \cap want.disable = {}
  /\ pc \in {"idle", "telling", "told", "checked", "saved"}
  /\ pc # "idle" => want.mode \in Mode
  /\ told \in [Feature -> {"unset", "yes", "no"}]
  /\ unsure \in SUBSET (Feature \cup {"mode"})
  /\ guest.on = {f \in Feature : told[f] = "yes"}

WindowKept ==
  /\ window \in {"open", "first"} => unsure = {}
  /\ window = "open" => pc = "idle"
  /\ window = "first" => pc \in {"telling", "told", "checked"}

RecordKept ==
  /\ \A f \in Feature \ Open : IF window = "ran" THEN SaysOf(f) ELSE told[f] = "unset"
  /\ window = "ran" /\ "mode" \notin Open => Selection(record).mode = guest.mode
  /\ window = "ran" /\ Skipped(record) => record.enable \cup record.disable \subseteq Open

CallKept ==
  /\ pc \in {"told", "checked", "saved"} =>
       guest.mode = want.mode /\ \A f \in want.disable : told[f] = "no"
  /\ pc \in {"checked", "saved"} => \A f \in want.enable : told[f] = "yes"
  /\ pc = "saved" =>
       record.mode = want.mode /\ \A f \in Feature : f \in Named \/ f \notin unsure => SaysOf(f)

IInv == TypeOK /\ WindowKept /\ RecordKept /\ CallKept
=============================================================================
