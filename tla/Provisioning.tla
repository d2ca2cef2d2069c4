---------------------------- MODULE Provisioning ----------------------------
(***************************************************************************)
(* What quickchr applies to the guest of one machine, and what            *)
(* machine.json says of it: the first boot that provisions, the refusal   *)
(* of options once the window is closed, the rollback of a failed first   *)
(* boot, and the operations that change a booted guest (set device-mode,  *)
(* install packages, license, clean).                                     *)
(*                                                                         *)
(* The machine was made by add(): machine.json holds the options asked    *)
(* for.  A call of start() reads machine.json before it takes the machine *)
(* lock; the other operations read it under the lock, license() takes no  *)
(* lock at all.  An option that was not given is the empty set, one that   *)
(* was given a set of one value; a device mode is a set of pairs          *)
(* <<setting, value>>.                                                     *)
(***************************************************************************)
EXTENDS Naturals, FiniteSets

CONSTANTS
    Proc,          \* calls of the library or of the CLI, in their processes
    Calls,         \* Calls[p]: how many operations p performs
    Ops,           \* Ops[p]: the operations p may perform, as records
    Intents,       \* the options add() may have recorded
    Available,     \* the packages of this version
    Kept,          \* the values QUICKCHR_PRESERVE_ON_FAILURE may have
    LateFailures,  \* kinds of operations that may fail after they took effect
    Mortal         \* kinds of operations whose process may die

None == "none"
Managed == "quickchr"

\* Every request that may be made of the machine.
Requests == {op.q : op \in UNION {Ops[p] : p \in Proc}}

\* The values asked for, option by option, and the options a record may hold.
Values(f) == UNION {q[f] : q \in Intents \cup Requests}
Options ==
    [all : SUBSET BOOLEAN, pkgs : SUBSET (Values("pkgs") \cup Available),
     dm : SUBSET Values("dm"), user : SUBSET (Values("user") \cup {Managed}),
     noAdmin : SUBSET BOOLEAN, level : SUBSET Values("level"), login : SUBSET BOOLEAN]

ASSUME ProvisioningAssumption ==
    /\ Calls \in [Proc -> Nat]
    /\ \A p \in Proc : Ops[p] \subseteq [kind : STRING, q : Options]
    /\ Intents \subseteq Options
    /\ Kept \subseteq BOOLEAN /\ Kept # {}
    /\ None \notin Proc

NoOptions == [all |-> {}, pkgs |-> {}, dm |-> {}, user |-> {},
              noAdmin |-> {}, level |-> {}, login |-> {}]

VARIABLES rec,      \* machine.json; "on": the QEMU it records is alive
          guest,    \* what the disk and the running RouterOS hold
          secret,   \* the machine's entry in the credential store
          lock,     \* the holder of the machine lock
          pc, call, \* where each process is, and in which operation
          h,        \* its MachineState object
          plan,     \* the provisioning it will run: {} or one request
          restore,  \* the record a failed first boot goes back to
          did,      \* the steps applied in this first boot
          left,     \* how many operations it may still begin
          result    \* how its last operation ended

vars == <<rec, guest, secret, lock, pc, call, h, plan, restore, did, left, result>>
own  == <<call, left>>
mine == <<h, plan, restore, did>>

Factory == [pkgs |-> {}, dm |-> {}, level |-> {}, users |-> {},
            adminOff |-> FALSE, boots |-> 0, disk |-> 0]

\* What add() writes.
NewRecord(want) ==
    [opts |-> want, prov |-> {}, started |-> FALSE, on |-> FALSE, hidden |-> FALSE]

Init ==
    /\ \E want \in Intents : rec = NewRecord(want)
    /\ guest = Factory
    /\ secret = {}
    /\ lock = None
    /\ pc = [p \in Proc |-> "idle"]
    /\ call = [p \in Proc |-> [kind |-> "none"]]
    /\ h = [p \in Proc |-> NewRecord(NoOptions)]
    /\ plan = [p \in Proc |-> {}]
    /\ restore = [p \in Proc |-> {}]
    /\ did = [p \in Proc |-> {}]
    /\ left = Calls
    /\ result = [p \in Proc |-> None]

-----------------------------------------------------------------------------
(* The rules of provisioning-window.ts.                                     *)

Given(flag) == TRUE \in flag

Open(r) == r.prov = {} /\ ~r.started

Applied(r) == UNION r.prov

\* The steps a request asks for.
Asks(q) ==
    {s \in {"packages", "deviceMode", "license", "user", "disableAdmin", "secureLogin"} :
       \/ s = "packages" /\ (Given(q.all) \/ q.pkgs # {})
       \/ s = "deviceMode" /\ q.dm # {}
       \/ s = "license" /\ q.level # {}
       \/ s = "user" /\ q.user # {}
       \/ s = "disableAdmin" /\ Given(q.noAdmin)
       \/ s = "secureLogin" /\ Given(q.login)}

\* The record says that this step landed with the value asked for.
Satisfied(r, q, s) ==
    /\ s \in Applied(r)
    /\ \/ s = "packages" /\ IF Given(q.all) THEN Given(r.opts.all)
                                            ELSE q.pkgs \subseteq r.opts.pkgs
       \/ s = "deviceMode" /\ q.dm \subseteq r.opts.dm
       \/ s = "license" /\ q.level = r.opts.level
       \/ s = "user" /\ q.user = r.opts.user /\ secret = q.user
       \/ s = "disableAdmin" /\ Given(r.opts.noAdmin)
       \/ s = "secureLogin" /\ Given(r.opts.login)

Refused(r, q) == ~Open(r) /\ \E s \in Asks(q) : ~Satisfied(r, q, s)

\* Seeded fault: the options add() recorded are left out.
RequestOnly(r, q) == q

\* The caller's options where given, what add() recorded where not.
Pending(r, q) ==
    [f \in DOMAIN q |->
       IF q[f] # {} \/ f = "level" THEN q[f] ELSE r.opts[f]]

\* An update moves only the settings it names.
Merged(current, applied) ==
    applied \cup {x \in current : \A y \in applied : y[1] # x[1]}

AppliedDeviceMode(r, applied) ==
    Merged(IF "deviceMode" \in Applied(r) THEN r.opts.dm ELSE {}, applied)

\* The account REST calls authenticate as.
Login(r) ==
    IF r.opts.user # {}
    THEN IF r.hidden THEN IF secret # {} THEN secret ELSE {"(stored in secrets)"}
                     ELSE r.opts.user
    ELSE IF secret # {} THEN secret ELSE {"admin"}

Accepted(account) ==
    account \subseteq guest.users \cup (IF guest.adminOff THEN {} ELSE {"admin"})

-----------------------------------------------------------------------------
(* start(): the unlocked reading.                                           *)

Go(p, where) == pc' = [pc EXCEPT ![p] = where]

End(p, how) ==
    /\ pc' = [pc EXCEPT ![p] = "idle"]
    /\ h' = [h EXCEPT ![p] = NewRecord(NoOptions)]
    /\ plan' = [plan EXCEPT ![p] = {}]
    /\ restore' = [restore EXCEPT ![p] = {}]
    /\ did' = [did EXCEPT ![p] = {}]
    /\ result' = [result EXCEPT ![p] = how]
    /\ lock' = IF lock = p THEN None ELSE lock

Begin(p, kind) ==
    /\ pc[p] = "idle"
    /\ left[p] > 0
    /\ \E op \in Ops[p] :
          op.kind = kind /\ call' = [call EXCEPT ![p] = [op |-> op, disk |-> guest.disk]]
    /\ left' = [left EXCEPT ![p] = @ - 1]

Asked(p) == call[p].op.q
Kind(p) == call[p].op.kind

\* start() of an existing machine: the window is judged on what was just
\* read; a running machine is handed back; otherwise the pending options of
\* a first boot are worked out, and the machine lock comes next.
LookStart(p) ==
    /\ Begin(p, "start")
    /\ LET q == call'[p].op.q IN
       \/ Refused(rec, q) /\ End(p, "refused")
       \/ ~Refused(rec, q) /\ rec.on /\ End(p, "running")
       \/ /\ ~Refused(rec, q) /\ ~rec.on
          /\ plan' = [plan EXCEPT ![p] =
                        IF Open(rec) /\ Asks(Pending(rec, q)) # {}
                        THEN {Pending(rec, q)} ELSE {}]
          /\ Go(p, "lock")
          /\ UNCHANGED <<lock, result, h, restore, did>>
    /\ UNCHANGED <<rec, guest, secret>>

\* _launchExisting() checks the plan again on the record read under the lock.
Recheck(p) ==
    [options |-> IF Open(rec) THEN plan[p] ELSE {},
     refused |-> \E q \in plan[p] : Refused(rec, q)]

LockStart(p) ==
    /\ pc[p] = "lock"
    /\ \/ lock # None /\ End(p, "locked")
       \/ lock = None /\ rec.on /\ End(p, "running")
       \/ lock = None /\ ~rec.on /\ Recheck(p).refused /\ End(p, "refused")
       \/ /\ lock = None /\ ~rec.on /\ ~Recheck(p).refused
          /\ lock' = p
          /\ h' = [h EXCEPT ![p] = rec]
          /\ plan' = [plan EXCEPT ![p] = Recheck(p).options]
          /\ Go(p, "launch")
          /\ UNCHANGED <<result, restore, did>>
    /\ UNCHANGED <<rec, guest, secret, own>>

-----------------------------------------------------------------------------
(* start(): the launch, the wait for the boot, and its failure.             *)

\* The record a failed first boot goes back to, taken before the launch.
BeforeLaunch(r) == IF Open(r) THEN {r} ELSE {}

Launch(p) ==
    /\ pc[p] = "launch"
    /\ h' = [h EXCEPT ![p].on = TRUE, ![p].started = TRUE]
    /\ rec' = h'[p]
    /\ restore' = [restore EXCEPT ![p] = BeforeLaunch(h[p])]
    /\ guest' = [guest EXCEPT !.boots = @ + 1]
    /\ Go(p, "boot")
    /\ UNCHANGED <<secret, lock, plan, did, own, result>>

\* The guest answers: the boot time is recorded with the whole record.
Boots(p) ==
    /\ pc[p] = "boot"
    /\ rec' = h[p]
    /\ IF plan[p] = {} THEN End(p, "started")
                       ELSE Go(p, "packages") /\ UNCHANGED <<lock, result, mine>>
    /\ UNCHANGED <<guest, secret, own>>

\* A boot that times out, or a provisioning step that throws: QEMU is
\* stopped and its stop is recorded; what comes next depends on
\* QUICKCHR_PRESERVE_ON_FAILURE and on whether this was a first boot.
Provisions == {"packages", "mode", "license", "user", "admin", "login", "record"}

Undo(p) ==
    /\ pc[p] \in {"boot"} \cup Provisions
    /\ rec' = [rec EXCEPT !.on = FALSE]
    /\ \E keep \in Kept :
         IF keep \/ restore[p] = {} THEN End(p, "failed")
         ELSE Go(p, "reset") /\ UNCHANGED <<lock, result, mine>>
    /\ UNCHANGED <<guest, secret, own>>

\* The disks go back to the factory image and the credentials with them.
FactoryReset ==
    /\ guest' = [Factory EXCEPT !.disk = guest.disk + 1]
    /\ secret' = {}

Reset(p) ==
    /\ pc[p] = "reset"
    /\ FactoryReset
    /\ Go(p, "restore")
    /\ UNCHANGED <<rec, lock, mine, own, result>>

SaveRestored(p) ==
    /\ pc[p] = "restore"
    /\ \E r \in restore[p] : rec' = [r EXCEPT !.on = FALSE]
    /\ End(p, "failed")
    /\ UNCHANGED <<guest, secret, own>>

-----------------------------------------------------------------------------
(* _provisionInstance(), one action for each step, in its order.            *)

Step(p, at, next) ==
    /\ pc[p] = at
    /\ Go(p, next)
    /\ UNCHANGED <<lock, plan, restore, own, result>>

Skip == UNCHANGED <<rec, guest, secret, h, did>>

Do(p, s) == did' = [did EXCEPT ![p] = @ \cup {s}]

InstallPackages(p) ==
    /\ Step(p, "packages", "mode")
    /\ \E q \in plan[p] :
         IF "packages" \notin Asks(q) THEN Skip
         ELSE LET installed == IF Given(q.all) THEN Available ELSE q.pkgs \cap Available IN
              /\ guest' = [guest EXCEPT !.pkgs = @ \cup installed]
              /\ rec' = [rec EXCEPT !.opts.pkgs = installed]
              /\ h' = [h EXCEPT ![p].opts.pkgs = installed]
              /\ Do(p, "packages")
              /\ UNCHANGED secret

\* The guest is power-cycled when the mode is not active yet, and the whole
\* record is saved with the new pid.
ApplyMode(p) ==
    /\ Step(p, "mode", "license")
    /\ \E q \in plan[p] :
         IF q.dm = {} THEN Skip
         ELSE /\ guest' = [guest EXCEPT !.dm = Merged(@, q.dm)]
              /\ rec' = IF q.dm \subseteq guest.dm THEN rec ELSE h[p]
              /\ Do(p, "deviceMode")
              /\ UNCHANGED <<secret, h>>

ApplyLicense(p) ==
    /\ Step(p, "license", "user")
    /\ \E q \in plan[p] :
         IF q.level = {} THEN Skip
         ELSE /\ guest' = [guest EXCEPT !.level = q.level]
              /\ rec' = [rec EXCEPT !.opts.level = q.level]
              /\ h' = [h EXCEPT ![p].opts.level = q.level]
              /\ Do(p, "license")
              /\ UNCHANGED secret

\* The account provision() creates: the one asked for, or the managed one.
Account(q) == IF q.user # {} THEN q.user ELSE IF Given(q.login) THEN {Managed} ELSE {}

\* The credentials are stored as soon as the account exists.
Stored(account) == IF account = {} THEN secret ELSE account

CreateUser(p) ==
    /\ Step(p, "user", "admin")
    /\ \E q \in plan[p] :
         /\ guest' = [guest EXCEPT !.users = @ \cup Account(q)]
         /\ secret' = Stored(Account(q))
         /\ did' = [did EXCEPT ![p] = @ \cup (Asks(q) \cap {"user", "disableAdmin", "secureLogin"})]
    /\ UNCHANGED <<rec, h>>

DisableAdmin(p) ==
    /\ Step(p, "admin", "login")
    /\ \E q \in plan[p] : guest' = [guest EXCEPT !.adminOff = @ \/ Given(q.noAdmin)]
    /\ UNCHANGED <<rec, secret, h, did>>

RecordLogin(p) ==
    /\ Step(p, "login", "record")
    /\ \E q \in plan[p] :
         rec' = IF Account(q) = {} THEN rec
                ELSE [rec EXCEPT !.opts.user = Account(q), !.hidden = TRUE]
    /\ UNCHANGED <<guest, secret, h, did>>

\* Only after every step returned is the run recorded.
Record(p) ==
    /\ pc[p] = "record"
    /\ rec' = [rec EXCEPT !.prov = {did[p]}]
    /\ End(p, "started")
    /\ UNCHANGED <<guest, secret, own>>

-----------------------------------------------------------------------------
(* Operations on a machine that has booted.                                 *)

\* The machine lock, then machine.json: a lock that is held ends the call,
\* and so does a machine that is not in the state the operation needs.
Enter(p, kind, ready, next) ==
    /\ Begin(p, kind)
    /\ \/ lock # None /\ End(p, "locked")
       \/ lock = None /\ ~ready /\ End(p, "failed")
       \/ /\ lock = None /\ ready
          /\ lock' = p
          /\ h' = [h EXCEPT ![p] = rec]
          /\ Go(p, next)
          /\ UNCHANGED <<result, plan, restore, did>>
    /\ UNCHANGED <<rec, guest, secret>>

EnterSet(p)     == Enter(p, "set", rec.on, "set")
EnterInstall(p) == Enter(p, "install", rec.on /\ Accepted(Login(rec)), "install")
EnterClean(p)   == Enter(p, "clean", TRUE, "erase")

Fails(p) ==
    /\ \/ pc[p] \in {"set", "install"}
       \/ pc[p] \in {"setRecord", "installRecord"} /\ Kind(p) \in LateFailures
    /\ End(p, "failed")
    /\ UNCHANGED <<rec, guest, secret, own>>

\* setDeviceMode(): the guest first, then the record of what was applied.
SetMode(p) ==
    /\ pc[p] = "set"
    /\ guest' = [guest EXCEPT !.dm = Merged(@, Asked(p).dm)]
    /\ rec' = IF Asked(p).dm \subseteq guest.dm THEN rec ELSE h[p]
    /\ Go(p, "setRecord")
    /\ UNCHANGED <<secret, lock, mine, own, result>>

RecordMode(p) ==
    /\ pc[p] = "setRecord"
    /\ rec' = [rec EXCEPT !.opts.dm = AppliedDeviceMode(h[p], Asked(p).dm),
                          !.prov = {Applied(h[p]) \cup {"deviceMode"}}]
    /\ End(p, "done")
    /\ UNCHANGED <<guest, secret, own>>

\* installPackage(): upload, reboot, and the record.
Install(p) ==
    /\ pc[p] = "install"
    /\ IF Asked(p).pkgs \cap Available = {}
       THEN End(p, "done") /\ UNCHANGED guest
       ELSE /\ guest' = [guest EXCEPT !.pkgs = @ \cup (Asked(p).pkgs \cap Available)]
            /\ Go(p, "installRecord")
            /\ UNCHANGED <<lock, result, mine>>
    /\ UNCHANGED <<rec, secret, own>>

\* Seeded fault: the step is recorded whatever add() had asked for.
AnyInstall(r, installed) == TRUE

\* The step counts as applied when it was, or when nothing more was desired.
CoversDesired(r, installed) ==
    \/ "packages" \in Applied(r)
    \/ ~Given(r.opts.all) /\ r.opts.pkgs \subseteq installed

RecordInstall(p) ==
    /\ pc[p] = "installRecord"
    /\ LET installed == Asked(p).pkgs \cap Available IN
       rec' = [rec EXCEPT !.opts.pkgs = @ \cup installed,
                          !.prov = IF CoversDesired(rec, installed)
                                   THEN {Applied(h[p]) \cup {"packages"}} ELSE @]
    /\ End(p, "done")
    /\ UNCHANGED <<guest, secret, own>>

\* license() takes no lock and records no step.
License(p) ==
    /\ Begin(p, "license")
    /\ IF rec.on /\ Accepted(Login(rec))
       THEN /\ guest' = [guest EXCEPT !.level = call'[p].op.q.level]
            /\ rec' = [rec EXCEPT !.opts.level = call'[p].op.q.level]
            /\ End(p, "done")
       ELSE End(p, "failed") /\ UNCHANGED <<rec, guest>>
    /\ UNCHANGED <<secret>>

\* stop() under the machine lock.
Stop(p) ==
    /\ Begin(p, "stop")
    /\ IF lock # None
       THEN End(p, "locked") /\ UNCHANGED rec
       ELSE rec' = [rec EXCEPT !.on = FALSE] /\ End(p, "done")
    /\ UNCHANGED <<guest, secret>>

\* clean(): QEMU is stopped, the disks and the credentials go, then what
\* machine.json said of them; the packages, the device mode and the login
\* wished for stay.
Erase(p) ==
    /\ pc[p] = "erase"
    /\ FactoryReset
    /\ rec' = [rec EXCEPT !.on = FALSE]
    /\ Go(p, "cleaned")
    /\ UNCHANGED <<lock, mine, own, result>>

CleanRecord(r) ==
    [r EXCEPT !.on = FALSE, !.started = FALSE, !.prov = {}, !.opts.user = {},
              !.opts.noAdmin = {}, !.opts.level = {}, !.hidden = FALSE]

SaveCleaned(p) ==
    /\ pc[p] = "cleaned"
    /\ rec' = CleanRecord(rec)
    /\ End(p, "done")
    /\ UNCHANGED <<guest, secret, own>>

\* A process dies: its lock is taken for dead, the guest stays up.
Crash(p) ==
    /\ pc[p] # "idle"
    /\ Kind(p) \in Mortal
    /\ left' = [left EXCEPT ![p] = 0]
    /\ End(p, "died")
    /\ UNCHANGED <<rec, guest, secret, call>>

Next ==
    \E p \in Proc :
       \/ LookStart(p) \/ LockStart(p) \/ Launch(p) \/ Boots(p) \/ Undo(p)
       \/ Reset(p) \/ SaveRestored(p)
       \/ InstallPackages(p) \/ ApplyMode(p) \/ ApplyLicense(p) \/ CreateUser(p)
       \/ DisableAdmin(p) \/ RecordLogin(p) \/ Record(p)
       \/ EnterSet(p) \/ EnterInstall(p) \/ EnterClean(p) \/ Fails(p)
       \/ SetMode(p) \/ RecordMode(p) \/ Install(p) \/ RecordInstall(p)
       \/ License(p) \/ Stop(p) \/ Erase(p) \/ SaveCleaned(p) \/ Crash(p)

Spec == Init /\ [][Next]_vars

-----------------------------------------------------------------------------
(* What the guest holds of a request.                                       *)

Holds(q, s) ==
    \/ s = "packages" /\ (IF Given(q.all) THEN Available ELSE q.pkgs) \subseteq guest.pkgs
    \/ s = "deviceMode" /\ q.dm \subseteq guest.dm
    \/ s = "license" /\ q.level = guest.level
    \/ s = "user" /\ q.user \subseteq guest.users
    \/ s = "disableAdmin" /\ guest.adminOff
    \/ s = "secureLogin" /\ guest.users # {}

(***************************************************************************)
(* An option that start() would answer with "is already applied" is in     *)
(* the guest: classifyProvisioningRequest() never takes a wish for a fact, *)
(* whatever failed, was rolled back, cleaned or added after the boot.      *)
(***************************************************************************)
SatisfiedIsTrue ==
    lock = None =>
       \A q \in Requests : \A s \in Asks(q) : Satisfied(rec, q, s) => Holds(q, s)

\* A start() returns in this step, with the disk it had looked at in place.
Returns(p, from, results) ==
    /\ pc[p] = from /\ pc'[p] = "idle" /\ Kind(p) = "start"
    /\ result'[p] \in results
    /\ call[p].disk = guest.disk

(***************************************************************************)
(* A start() that launched the machine and returned left no option of its  *)
(* request behind, and a first boot none that machine.json records,        *)
(* whatever other calls did between its unlocked reading and its lock,     *)
(* unless one of them replaced the disk.                                   *)
(***************************************************************************)
DropsNothing ==
    \A p \in Proc :
      /\ (Returns(p, "boot", {"started"}) \/ Returns(p, "record", {"started"}))
         => \A s \in Asks(Asked(p)) : Holds(Asked(p), s)'
      /\ Returns(p, "record", {"started"})
         => \A s \in Asks(rec.opts) : Holds(rec.opts, s)'

(***************************************************************************)
(* The same for a start() that finds under the lock that another call got  *)
(* the machine running: options are never accepted and dropped.            *)
(***************************************************************************)
AcceptedIsApplied ==
    [][\A p \in Proc : Returns(p, "lock", {"running"})
         => \A s \in Asks(Asked(p)) : Holds(Asked(p), s)']_vars

(***************************************************************************)
(* An open window means a factory guest, whatever failed, was rolled back  *)
(* or cleaned: no trace on the disk and no credentials stored.  And a      *)
(* provisioning step only ever meets a guest on its first boot from that   *)
(* disk, also when its plan was made before the lock was taken and other   *)
(* calls started, failed or cleaned the machine in between.                *)
(***************************************************************************)
OpenIsFactory ==
    (lock = None /\ Open(rec)) =>
       guest = [Factory EXCEPT !.disk = guest.disk] /\ secret = {}

MeetsFirstBoot == \A p \in Proc : pc[p] \in Provisions => guest.boots = 1

WindowIsFactory == OpenIsFactory /\ MeetsFirstBoot

(***************************************************************************)
(* Where a login was provisioned, the account that resolveAuth() names is  *)
(* one the guest accepts: exec(), the package installation and the license *)
(* renewal do not lock themselves out.                                     *)
(***************************************************************************)
LoginWorks ==
    (lock = None /\ Applied(rec) \cap {"user", "secureLogin"} # {}) => Accepted(Login(rec))

(***************************************************************************)
(* machine.json and the credential store tell the truth about the guest.   *)
(***************************************************************************)
RecordIsTrue == SatisfiedIsTrue /\ WindowIsFactory /\ LoginWorks

(***************************************************************************)
(* A start() that launched the machine dropped no option                   *)
(* (provisioning-window.ts:9-14).                                          *)
(***************************************************************************)
NothingDropped == [][DropsNothing]_vars
=============================================================================
