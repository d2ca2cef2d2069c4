------------------------- MODULE Provisioning_proofs -------------------------
(***************************************************************************)
(* What machine.json says of a provisioned guest is true, for any number   *)
(* of processes, calls, options and packages.                              *)
(*                                                                         *)
(* An open window promises a factory disk.  It stays true because a        *)
(* machine that runs has started, because a rollback and a clean put the   *)
(* disk back before the record, and because the process that holds the     *)
(* lock knows the record, but for the license level, which license()       *)
(* writes without a lock.                                                  *)
(*                                                                         *)
(* That an applied step is in the guest needs more: the hypotheses         *)
(* CleansEnd and Undisturbed name what must not happen.                    *)
(***************************************************************************)
EXTENDS Provisioning, TLAPS

----------------------------------------------------------------------------
(* Types *)

StepNames == {"packages", "deviceMode", "license", "user", "disableAdmin", "secureLogin"}

AtMostOne(S) == {{}} \cup {{x} : x \in S}

Packages == Values("pkgs") \cup Available
Accounts == Values("user") \cup {Managed}

Records ==
  [opts : Options, prov : AtMostOne(SUBSET StepNames),
   started : BOOLEAN, on : BOOLEAN, hidden : BOOLEAN]

Guests ==
  [pkgs : SUBSET Packages, dm : SUBSET Values("dm"), level : SUBSET Values("level"),
   users : SUBSET Accounts, adminOff : BOOLEAN, boots : Nat, disk : Nat]

Results == {None, "refused", "locked", "running", "started", "done", "failed", "died"}

\* Where a first boot or a later start is, and where a process holds the lock.
Starting == {"boot"} \cup Provisions
Changing == {"set", "setRecord", "install", "installRecord"}
Holding == {"launch", "reset", "restore", "erase", "cleaned"} \cup Starting \cup Changing

TypeOK ==
  /\ rec \in Records
  /\ guest \in Guests
  /\ secret \in SUBSET Accounts
  /\ lock \in Proc \cup {None}
  /\ pc \in [Proc -> {"idle", "lock"} \cup Holding]
  /\ call \in [Proc -> {[kind |-> "none"]} \cup [op : [kind : STRING, q : Options], disk : Nat]]
  /\ h \in [Proc -> Records]
  /\ plan \in [Proc -> SUBSET Options]
  /\ restore \in [Proc -> SUBSET Records]
  /\ did \in [Proc -> SUBSET StepNames]
  /\ left \in [Proc -> Nat]
  /\ result \in [Proc -> Results]

----------------------------------------------------------------------------
(* The window *)

IsFactory == guest = [Factory EXCEPT !.disk = guest.disk] /\ secret = {}

\* The handle and machine.json differ in the level at most, which license() writes.
Agrees(p) ==
  /\ rec.prov = h[p].prov /\ rec.started = h[p].started
  /\ rec.on = h[p].on /\ rec.hidden = h[p].hidden
  /\ rec.opts.all = h[p].opts.all /\ rec.opts.pkgs = h[p].opts.pkgs
  /\ rec.opts.dm = h[p].opts.dm

\* At most one request is pending, one record kept.
OneEach ==
  \A p \in Proc :
    /\ \A x, y \in plan[p] : x = y
    /\ \A x, y \in restore[p] : x = y

LockInv == \A p \in Proc : lock = p <=> pc[p] \in Holding

CallInv ==
  \A p \in Proc :
    /\ pc[p] # "idle" => call[p].op \in Ops[p]
    /\ pc[p] \in {"lock", "launch", "reset", "restore"} \cup Starting => Kind(p) = "start"
    /\ pc[p] \in {"set", "setRecord"} => Kind(p) = "set"
    /\ pc[p] \in {"erase", "cleaned"} => Kind(p) = "clean"

\* What the holder of the lock knows.
Held(p) ==
  /\ pc[p] \in {"launch"} \cup (Starting \ {"record"}) \cup Changing => Agrees(p)
  /\ pc[p] = "launch" => ~rec.on /\ (plan[p] # {} => Open(rec))
  /\ pc[p] \in Starting \cup Changing => rec.on
  /\ pc[p] \in Starting /\ plan[p] # {} => guest.boots = 1 /\ rec.prov = {}
  /\ pc[p] \in Provisions => plan[p] # {}
  /\ pc[p] \in {"reset", "restore"} => restore[p] # {} /\ rec.started
  /\ pc[p] \in {"reset", "restore", "cleaned"} => ~rec.on
  /\ pc[p] \in {"restore", "cleaned"} => IsFactory
  /\ restore[p] # {} => pc[p] \in {"reset", "restore"} \cup Starting /\ rec.prov = {}
  /\ \A r \in restore[p] : Open(r)
  /\ pc[p] \notin Provisions \cup {"reset", "restore"} => did[p] = {}

WindowInv ==
  /\ rec.on => rec.started
  /\ Open(rec) => IsFactory
  /\ \A p \in Proc : Held(p)

----------------------------------------------------------------------------
(* The login *)

CleansEnd == "clean" \notin Mortal

Logins == {"user", "secureLogin"}

NoneAt(point) == \A p \in Proc : pc[p] # point

LoginInv ==
  /\ secret \subseteq guest.users
  /\ NoneAt("cleaned") /\ Applied(rec) \cap Logins # {} => secret # {} /\ rec.hidden
  /\ \A p \in Proc : pc[p] \in Provisions =>
       /\ \A q \in plan[p] : did[p] \subseteq Asks(q)
       /\ did[p] \cap Logins # {} => secret # {}
       /\ pc[p] = "record" /\ did[p] \cap Logins # {} => rec.hidden

----------------------------------------------------------------------------
(* The truth of the record *)

May(p, kind) == \E op \in Ops[p] : op.kind = kind

NoOtherMay(p, kind) == \A x \in Proc \ {p} : ~May(x, kind)

\* A change of the mode that reached the guest is recorded.
SetsEnd == "set" \notin LateFailures \cup Mortal

\* All calls name one license level, and license() names one.
OneLevel ==
  /\ \A q, r \in Requests : q.level # {} /\ r.level # {} => q.level = r.level
  /\ \A p \in Proc : \A op \in Ops[p] : op.kind = "license" => op.q.level # {}

\* No start takes back the wish for all packages, or names a device mode.
StartsAddOnly ==
  \A p \in Proc : \A op \in Ops[p] :
    op.kind = "start" => /\ op.q.all # {} => Given(op.q.all)
                         /\ op.q.dm = {}

\* No start is overtaken by another call that sets the mode and one that cleans.
NotBothOvertake ==
  \A p \in Proc : May(p, "start") => NoOtherMay(p, "set") \/ NoOtherMay(p, "clean")

Undisturbed == CleansEnd /\ SetsEnd /\ OneLevel /\ StartsAddOnly /\ NotBothOvertake

\* The window is open, or a rollback may open it again.
Reopens == Open(rec) \/ \E x \in Proc : restore[x] # {}

\* What these steps left in the guest.
There(S) ==
  /\ "packages" \in S => /\ rec.opts.pkgs \subseteq guest.pkgs
                         /\ Given(rec.opts.all) => Available \subseteq guest.pkgs
  /\ "license" \in S => \E q \in Requests : q.level # {} /\ guest.level = q.level

AppliedInv ==
  NoneAt("cleaned") =>
    /\ There(Applied(rec))
    /\ "disableAdmin" \in Applied(rec) => guest.adminOff
    /\ "deviceMode" \in Applied(rec) /\ NoneAt("setRecord") => rec.opts.dm \subseteq guest.dm

\* What a change put into the guest and has yet to record.
ChangeAt(p) ==
  /\ pc[p] = "setRecord" => AppliedDeviceMode(h[p], Asked(p).dm) \subseteq guest.dm
  /\ pc[p] = "installRecord" => Asked(p).pkgs \cap Available \subseteq guest.pkgs

DidAt(p) ==
  pc[p] \in Provisions =>
    /\ There(did[p])
    /\ "deviceMode" \in did[p] => rec.opts.dm \subseteq guest.dm
    /\ pc[p] \in {"login", "record"} /\ "disableAdmin" \in did[p] => guest.adminOff

\* A request that waits names the mode that a first boot would find recorded.
PlanAt(p) ==
  \A q \in plan[p] :
    /\ Given(rec.opts.all) => Given(q.all)
    /\ q.level = {} \/ \E r \in Requests : q.level = r.level
    /\ pc[p] \in {"launch"} \cup Starting => q.dm = rec.opts.dm
    /\ pc[p] = "lock" /\ (NoOtherMay(p, "set") \/ Reopens) => q.dm = rec.opts.dm

RestoreAt(p) ==
  \A r \in restore[p] : r.opts.dm = rec.opts.dm /\ r.opts.all = rec.opts.all

TrueAt(p) == ChangeAt(p) /\ DidAt(p) /\ PlanAt(p) /\ RestoreAt(p)

TruthInv == AppliedInv /\ \A p \in Proc : TrueAt(p)

----------------------------------------------------------------------------
(* What the operators return *)

LEMMA NoOptionsTyped == NoOptions \in Options
BY DEF NoOptions, Options

LEMMA NewRecordTyped ==
  ASSUME NEW want \in Options PROVE NewRecord(want) \in Records /\ Open(NewRecord(want))
BY DEF NewRecord, Records, AtMostOne, Open

LEMMA OpTyped ==
  ASSUME NEW p \in Proc, NEW op \in Ops[p]
  PROVE  op \in [kind : STRING, q : Options] /\ op.q \in Requests
BY ProvisioningAssumption DEF Requests

LEMMA PendingFields ==
  ASSUME NEW r \in Records, NEW q \in Options
  PROVE  /\ Pending(r, q) \in Options
         /\ Pending(r, q).all = IF q.all # {} THEN q.all ELSE r.opts.all
         /\ Pending(r, q).dm = IF q.dm # {} THEN q.dm ELSE r.opts.dm
         /\ Pending(r, q).level = q.level
<1>1. r.opts \in Options
  BY DEF Records
<1>2. DOMAIN q = {"all", "pkgs", "dm", "user", "noAdmin", "level", "login"}
  BY DEF Options
<1> DEFINE v(f) == IF q[f] # {} \/ f = "level" THEN q[f] ELSE r.opts[f]
<1>3. Pending(r, q) = [all |-> v("all"), pkgs |-> v("pkgs"), dm |-> v("dm"), user |-> v("user"),
                       noAdmin |-> v("noAdmin"), level |-> v("level"), login |-> v("login")]
  BY <1>2 DEF Pending
<1>4. /\ v("all") \in SUBSET BOOLEAN
      /\ v("pkgs") \in SUBSET (Values("pkgs") \cup Available)
      /\ v("dm") \in SUBSET Values("dm")
      /\ v("user") \in SUBSET (Values("user") \cup {Managed})
      /\ v("noAdmin") \in SUBSET BOOLEAN
      /\ v("level") \in SUBSET Values("level")
      /\ v("login") \in SUBSET BOOLEAN
  BY <1>1 DEF Options
<1>5. Pending(r, q) \in Options
  <2> HIDE DEF v
  <2> QED
    BY <1>3, <1>4 DEF Options
<1> QED
  BY <1>3, <1>5

LEMMA MergedIn ==
  ASSUME NEW A, NEW B
  PROVE  /\ Merged(A, B) \subseteq A \cup B
         /\ B \subseteq Merged(A, B)
         /\ \A C : A \subseteq C => Merged(A, B) \subseteq Merged(C, B)
BY DEF Merged

LEMMA SwitchTyped ==
  ASSUME NEW r \in Records, NEW b \in BOOLEAN
  PROVE  /\ [r EXCEPT !.on = b] \in Records
         /\ [r EXCEPT !.on = b].opts = r.opts
         /\ [r EXCEPT !.on = b].prov = r.prov
         /\ [r EXCEPT !.on = b].started = r.started
         /\ [r EXCEPT !.on = b].hidden = r.hidden
         /\ [r EXCEPT !.on = b].on = b
BY DEF Records

LEMMA ProvTyped ==
  ASSUME NEW r \in Records, NEW S \in SUBSET StepNames
  PROVE  /\ [r EXCEPT !.prov = {S}] \in Records
         /\ [r EXCEPT !.prov = {S}].prov = {S}
         /\ [r EXCEPT !.prov = {S}].opts = r.opts
         /\ [r EXCEPT !.prov = {S}].hidden = r.hidden
         /\ [r EXCEPT !.prov = {S}].started = r.started
         /\ [r EXCEPT !.prov = {S}].on = r.on
BY DEF Records, AtMostOne

LEMMA PkgsTyped ==
  ASSUME NEW r \in Records, NEW v \in SUBSET Packages
  PROVE  /\ [r EXCEPT !.opts.pkgs = v] = [r EXCEPT !.opts = [r.opts EXCEPT !.pkgs = v]]
         /\ [r.opts EXCEPT !.pkgs = v] \in Options
         /\ [r EXCEPT !.opts.pkgs = v] \in Records
BY DEF Records, Options, Packages

LEMMA LevelTyped ==
  ASSUME NEW r \in Records, NEW v \in SUBSET Values("level")
  PROVE  /\ [r EXCEPT !.opts.level = v] = [r EXCEPT !.opts = [r.opts EXCEPT !.level = v]]
         /\ [r.opts EXCEPT !.level = v] \in Options
         /\ [r EXCEPT !.opts.level = v] \in Records
BY DEF Records, Options

LEMMA LoginTyped ==
  ASSUME NEW r \in Records, NEW v \in SUBSET Accounts
  PROVE  /\ [r EXCEPT !.opts.user = v, !.hidden = TRUE]
              = [r EXCEPT !.opts = [r.opts EXCEPT !.user = v], !.hidden = TRUE]
         /\ [r.opts EXCEPT !.user = v] \in Options
         /\ [r EXCEPT !.opts.user = v, !.hidden = TRUE] \in Records
BY DEF Records, Options, Accounts

LEMMA ModeTyped ==
  ASSUME NEW r \in Records, NEW v \in SUBSET Values("dm"), NEW S \in SUBSET StepNames
  PROVE  /\ [r EXCEPT !.opts.dm = v, !.prov = {S}]
              = [r EXCEPT !.opts = [r.opts EXCEPT !.dm = v], !.prov = {S}]
         /\ [r.opts EXCEPT !.dm = v] \in Options
         /\ [r EXCEPT !.opts.dm = v, !.prov = {S}] \in Records
BY DEF Records, Options, AtMostOne

LEMMA InstalledTyped ==
  ASSUME NEW r \in Records, NEW v \in SUBSET Packages, NEW P \in AtMostOne(SUBSET StepNames)
  PROVE  /\ [r EXCEPT !.opts.pkgs = v, !.prov = P]
              = [r EXCEPT !.opts = [r.opts EXCEPT !.pkgs = v], !.prov = P]
         /\ [r.opts EXCEPT !.pkgs = v] \in Options
         /\ [r EXCEPT !.opts.pkgs = v, !.prov = P] \in Records
BY DEF Records, Options, Packages

LEMMA CleanTyped ==
  ASSUME NEW r \in Records
  PROVE  /\ CleanRecord(r) \in Records
         /\ CleanRecord(r).prov = {} /\ ~CleanRecord(r).on /\ ~CleanRecord(r).started
         /\ CleanRecord(r).opts.dm = r.opts.dm /\ CleanRecord(r).opts.all = r.opts.all
<1> DEFINE o == [r.opts EXCEPT !.user = {}, !.noAdmin = {}, !.level = {}]
<1>1. r.opts \in Options
  BY DEF Records
<1>2. o \in Options /\ o.dm = r.opts.dm /\ o.all = r.opts.all
  BY <1>1 DEF Options
<1>3. CleanRecord(r) = [r EXCEPT !.on = FALSE, !.started = FALSE, !.prov = {}, !.opts = o,
                                 !.hidden = FALSE]
  BY <1>1 DEF CleanRecord, Records, Options
<1> HIDE DEF o
<1> QED
  BY <1>2, <1>3 DEF Records, AtMostOne

LEMMA AppliedTyped ==
  ASSUME NEW r \in Records
  PROVE  /\ Applied(r) \in SUBSET StepNames
         /\ r.prov = {} => Applied(r) = {}
         /\ \A S : r.prov = {S} => Applied(r) = S
BY DEF Applied, Records, AtMostOne

----------------------------------------------------------------------------
(* Typing *)

LEMMA FactoryTyped == Factory \in Guests
BY DEF Factory, Guests

LEMMA EndTyped ==
  ASSUME TypeOK, NEW p \in Proc, NEW how \in Results, End(p, how)
  PROVE  /\ lock' \in Proc \cup {None}
         /\ pc' \in [Proc -> {"idle", "lock"} \cup Holding]
         /\ h' \in [Proc -> Records]
         /\ plan' \in [Proc -> SUBSET Options]
         /\ restore' \in [Proc -> SUBSET Records]
         /\ did' \in [Proc -> SUBSET StepNames]
         /\ result' \in [Proc -> Results]
<1>1. h' \in [Proc -> Records]
  BY NewRecordTyped, NoOptionsTyped DEF TypeOK, End
<1> QED
  BY <1>1 DEF TypeOK, End

LEMMA BeginTyped ==
  ASSUME TypeOK, NEW p \in Proc, NEW kind, Begin(p, kind)
  PROVE  /\ call' \in [Proc -> {[kind |-> "none"]} \cup [op : [kind : STRING, q : Options], disk : Nat]]
         /\ left' \in [Proc -> Nat]
         /\ pc[p] = "idle"
         /\ call'[p].op \in Ops[p]
         /\ call'[p].op.kind = kind
         /\ call' = [call EXCEPT ![p] = [op |-> call'[p].op, disk |-> guest.disk]]
<1>1. PICK op \in Ops[p] : op.kind = kind /\ call' = [call EXCEPT ![p] = [op |-> op, disk |-> guest.disk]]
  BY DEF Begin
<1>2. op \in [kind : STRING, q : Options] /\ guest.disk \in Nat
  BY OpTyped DEF TypeOK, Guests
<1>3. left' \in [Proc -> Nat]
  BY DEF TypeOK, Begin
<1>4. pc[p] = "idle"
  BY DEF Begin
<1>5. call'[p] = [op |-> op, disk |-> guest.disk]
  BY <1>1 DEF TypeOK
<1>6. call'[p].op = op
  BY <1>5
<1>7. call' = [call EXCEPT ![p] = [op |-> call'[p].op, disk |-> guest.disk]]
  BY <1>1, <1>6
<1>8. call' \in [Proc -> {[kind |-> "none"]} \cup [op : [kind : STRING, q : Options], disk : Nat]]
  BY <1>1, <1>2 DEF TypeOK
<1> QED
  BY <1>1, <1>3, <1>4, <1>6, <1>7, <1>8

\* A process that acts has an operation.
LEMMA AskedTyped ==
  ASSUME CallInv, NEW p \in Proc, pc[p] # "idle"
  PROVE  /\ call[p].op \in [kind : STRING, q : Options]
         /\ Asked(p) \in Options
         /\ Asked(p) \in Requests
BY OpTyped DEF CallInv, Asked

LEMMA InitTyped == Init => TypeOK
<1> SUFFICES ASSUME Init PROVE TypeOK
  OBVIOUS
<1>1. rec \in Records
  BY NewRecordTyped, ProvisioningAssumption DEF Init
<1>2. NewRecord(NoOptions) \in Records
  BY NewRecordTyped, NoOptionsTyped
<1>3. guest \in Guests
  BY FactoryTyped DEF Init
<1>4. left \in [Proc -> Nat]
  BY ProvisioningAssumption DEF Init
<1>5. call \in [Proc -> {[kind |-> "none"]} \cup [op : [kind : STRING, q : Options], disk : Nat]]
  BY DEF Init
<1>6. h \in [Proc -> Records]
  BY <1>2 DEF Init
<1>7. plan \in [Proc -> SUBSET Options] /\ restore \in [Proc -> SUBSET Records]
      /\ did \in [Proc -> SUBSET StepNames]
  BY DEF Init
<1>8. pc \in [Proc -> {"idle", "lock"} \cup Holding]
  BY DEF Init
<1>11. result \in [Proc -> Results]
  BY DEF Init, Results
<1>9. secret \in SUBSET Accounts /\ lock \in Proc \cup {None}
  BY DEF Init
<1> QED
  BY <1>1, <1>3, <1>4, <1>5, <1>6, <1>7, <1>8, <1>9, <1>11 DEF TypeOK


\* A call that begins and ends at once, and one that only moves on.
LEMMA EnterTyped ==
  ASSUME TypeOK, NEW p \in Proc, NEW kind, NEW ready \in BOOLEAN,
         NEW next \in {"set", "install", "erase"}, Enter(p, kind, ready, next)
  PROVE  TypeOK'
<1>1. /\ call' \in [Proc -> {[kind |-> "none"]} \cup [op : [kind : STRING, q : Options], disk : Nat]]
      /\ left' \in [Proc -> Nat]
  BY BeginTyped DEF Enter
<1>2. rec' = rec /\ guest' = guest /\ secret' = secret
  BY DEF Enter
<1>3. CASE \E how \in Results : End(p, how)
  BY <1>1, <1>2, <1>3, EndTyped DEF TypeOK
<1>4. CASE /\ lock' = p
           /\ h' = [h EXCEPT ![p] = rec]
           /\ Go(p, next)
           /\ UNCHANGED <<result, plan, restore, did>>
  BY <1>1, <1>2, <1>4 DEF TypeOK, Go, Holding, Changing
<1> QED
  BY <1>3, <1>4 DEF Enter, Results

LEMMA StartTyped ==
  ASSUME TypeOK, CallInv, NEW p \in Proc, LookStart(p) \/ LockStart(p)
  PROVE  TypeOK'
<1>1. CASE LookStart(p)
  <2>0. Begin(p, "start")
    BY <1>1 DEF LookStart
  <2> DEFINE op == call'[p].op
  <2>1. op \in Ops[p]
    BY <2>0, BeginTyped
  <2>2. /\ call' \in [Proc -> {[kind |-> "none"]} \cup [op : [kind : STRING, q : Options], disk : Nat]]
        /\ left' \in [Proc -> Nat]
    BY <2>0, BeginTyped
  <2>3. Pending(rec, op.q) \in Options
    BY <2>1, OpTyped, PendingFields DEF TypeOK
  <2>4. rec' = rec /\ guest' = guest /\ secret' = secret
    BY <1>1 DEF LookStart
  <2>5. CASE \E how \in Results : End(p, how)
    BY <2>2, <2>4, <2>5, EndTyped DEF TypeOK
  <2>6. CASE /\ plan' = [plan EXCEPT ![p] =
                          IF Open(rec) /\ Asks(Pending(rec, op.q)) # {}
                          THEN {Pending(rec, op.q)} ELSE {}]
             /\ Go(p, "lock")
             /\ UNCHANGED <<lock, result, h, restore, did>>
    <3>1. plan' \in [Proc -> SUBSET Options]
      BY <2>3, <2>6 DEF TypeOK
    <3> QED
      BY <2>2, <2>4, <2>6, <3>1 DEF TypeOK, Go
  <2> QED
    BY <1>1, <2>5, <2>6 DEF LookStart, Results
<1>2. CASE LockStart(p)
  <2>1. rec' = rec /\ guest' = guest /\ secret' = secret /\ call' = call /\ left' = left
    BY <1>2 DEF LockStart, own
  <2>2. CASE \E how \in Results : End(p, how)
    BY <2>1, <2>2, EndTyped DEF TypeOK
  <2>3. CASE /\ lock' = p
             /\ h' = [h EXCEPT ![p] = rec]
             /\ plan' = [plan EXCEPT ![p] = Recheck(p).options]
             /\ Go(p, "launch")
             /\ UNCHANGED <<result, restore, did>>
    <3>1. plan' \in [Proc -> SUBSET Options]
      BY <2>3 DEF TypeOK, Recheck
    <3> QED
      BY <2>1, <2>3, <3>1 DEF TypeOK, Go, Holding
  <2> QED
    BY <1>2, <2>2, <2>3 DEF LockStart, Results
<1> QED
  BY <1>1, <1>2

LEMMA LaunchTyped ==
  ASSUME TypeOK, CallInv, NEW p \in Proc, Launch(p)
  PROVE  TypeOK'
<1> DEFINE r == [h[p] EXCEPT !.on = TRUE, !.started = TRUE]
<1>1. r \in Records
  BY DEF TypeOK, Records
<1>2. h' = [h EXCEPT ![p] = r] /\ rec' = r
  BY DEF Launch, TypeOK
<1> HIDE DEF r
<1>3. rec' \in Records /\ h' \in [Proc -> Records]
  BY <1>1, <1>2 DEF TypeOK
<1>4. restore' \in [Proc -> SUBSET Records]
  BY DEF Launch, TypeOK, BeforeLaunch
<1>5. guest' \in Guests
  BY DEF Launch, TypeOK, Guests
<1>6. pc' \in [Proc -> {"idle", "lock"} \cup Holding]
  BY DEF Launch, TypeOK, Go, Holding, Starting
<1> QED
  BY <1>3, <1>4, <1>5, <1>6 DEF Launch, TypeOK, own

LEMMA EndsTyped ==
  ASSUME TypeOK, CallInv, NEW p \in Proc,
         Boots(p) \/ Undo(p) \/ Reset(p) \/ SaveRestored(p) \/ Record(p)
  PROVE  TypeOK'
<1>1. /\ [rec EXCEPT !.on = FALSE] \in Records
      /\ \A r \in restore[p] : [r EXCEPT !.on = FALSE] \in Records
      /\ [rec EXCEPT !.prov = {did[p]}] \in Records
      /\ h[p] \in Records
  BY SwitchTyped, ProvTyped DEF TypeOK
<1>2. rec' \in Records
  BY <1>1 DEF Boots, Undo, Reset, SaveRestored, Record, TypeOK
<1>3. guest' \in Guests /\ secret' \in SUBSET Accounts
  <2>1. CASE Reset(p)
    <3>1. guest.disk + 1 \in Nat
      BY DEF TypeOK, Guests
    <3>2. [Factory EXCEPT !.disk = guest.disk + 1] \in Guests
      BY <3>1, FactoryTyped DEF Guests
    <3> QED
      BY <2>1, <3>2 DEF Reset, FactoryReset
  <2> QED
    BY <2>1 DEF Boots, Undo, SaveRestored, Record, TypeOK
<1>4. call' = call /\ left' = left
  BY DEF Boots, Undo, Reset, SaveRestored, Record, own
<1>5. CASE \E how \in Results : End(p, how)
  BY <1>2, <1>3, <1>4, <1>5, EndTyped DEF TypeOK
<1>6. CASE (Go(p, "packages") \/ Go(p, "reset") \/ Go(p, "restore")) /\ UNCHANGED <<lock, result, mine>>
  BY <1>2, <1>3, <1>4, <1>6 DEF TypeOK, Go, mine, Holding, Starting, Provisions
<1>7. \/ \E how \in Results : End(p, how)
      \/ (Go(p, "packages") \/ Go(p, "reset") \/ Go(p, "restore")) /\ UNCHANGED <<lock, result, mine>>
  BY DEF Boots, Undo, Reset, SaveRestored, Record, Results
<1> QED
  BY <1>5, <1>6, <1>7


\* A step of the first boot, from what it does to record, guest and handle.
LEMMA StepTyped ==
  ASSUME TypeOK, NEW p \in Proc, NEW at, NEW next \in Provisions, Step(p, at, next),
         rec' \in Records, guest' \in Guests, secret' \in SUBSET Accounts,
         h' \in [Proc -> Records], did' \in [Proc -> SUBSET StepNames]
  PROVE  TypeOK'
BY DEF TypeOK, Step, Go, own, Holding, Starting

LEMMA SkipTyped ==
  ASSUME TypeOK, Skip
  PROVE  /\ rec' \in Records /\ guest' \in Guests /\ secret' \in SUBSET Accounts
         /\ h' \in [Proc -> Records] /\ did' \in [Proc -> SUBSET StepNames]
BY DEF TypeOK, Skip

LEMMA DoTyped ==
  ASSUME TypeOK, NEW p \in Proc, NEW s \in StepNames, Do(p, s)
  PROVE  did' \in [Proc -> SUBSET StepNames]
BY DEF TypeOK, Do

LEMMA AccountTyped ==
  ASSUME TypeOK, NEW q \in Options
  PROVE  Account(q) \in SUBSET Accounts /\ Stored(Account(q)) \in SUBSET Accounts
BY DEF TypeOK, Options, Account, Stored, Accounts

LEMMA InstallPackagesTyped ==
  ASSUME TypeOK, NEW p \in Proc, InstallPackages(p)
  PROVE  TypeOK'
<1>1. PICK q \in plan[p] :
        IF "packages" \notin Asks(q) THEN Skip
        ELSE LET installed == IF Given(q.all) THEN Available ELSE q.pkgs \cap Available IN
             /\ guest' = [guest EXCEPT !.pkgs = @ \cup installed]
             /\ rec' = [rec EXCEPT !.opts.pkgs = installed]
             /\ h' = [h EXCEPT ![p].opts.pkgs = installed]
             /\ Do(p, "packages")
             /\ UNCHANGED secret
  BY DEF InstallPackages
<1> DEFINE installed == IF Given(q.all) THEN Available ELSE q.pkgs \cap Available
<1>2. installed \in SUBSET Packages
  BY DEF Packages
<1> HIDE DEF installed
<1>3. CASE "packages" \notin Asks(q)
  BY <1>1, <1>3, SkipTyped, StepTyped DEF InstallPackages, Provisions
<1>4. CASE "packages" \in Asks(q)
  <2>1. /\ guest' = [guest EXCEPT !.pkgs = @ \cup installed]
        /\ rec' = [rec EXCEPT !.opts.pkgs = installed]
        /\ h' = [h EXCEPT ![p].opts.pkgs = installed]
        /\ Do(p, "packages")
        /\ UNCHANGED secret
    BY <1>1, <1>4 DEF installed
  <2>2. guest' \in Guests
    BY <2>1, <1>2 DEF TypeOK, Guests
  <2>3. rec' \in Records
    BY <2>1, <1>2, PkgsTyped DEF TypeOK
  <2>4. h' = [h EXCEPT ![p] = [h[p] EXCEPT !.opts.pkgs = installed]]
    BY <2>1
  <2>5. h' \in [Proc -> Records]
    BY <2>4, <1>2, PkgsTyped DEF TypeOK
  <2>6. did' \in [Proc -> SUBSET StepNames] /\ secret' \in SUBSET Accounts
    BY <2>1, DoTyped DEF TypeOK, StepNames
  <2> QED
    BY <2>2, <2>3, <2>5, <2>6, StepTyped DEF InstallPackages, Provisions
<1> QED
  BY <1>3, <1>4

LEMMA ModeIsTyped ==
  ASSUME NEW A \in SUBSET Values("dm"), NEW B \in SUBSET Values("dm")
  PROVE  Merged(A, B) \in SUBSET Values("dm")
BY DEF Merged

LEMMA GuestTyped ==
  ASSUME NEW g \in Guests
  PROVE  /\ \A v \in SUBSET Packages : [g EXCEPT !.pkgs = g.pkgs \cup v] \in Guests
         /\ \A v \in SUBSET Values("dm") : [g EXCEPT !.dm = Merged(g.dm, v)] \in Guests
         /\ \A v \in SUBSET Values("level") : [g EXCEPT !.level = v] \in Guests
         /\ \A v \in SUBSET Accounts : [g EXCEPT !.users = g.users \cup v] \in Guests
         /\ \A b \in BOOLEAN : [g EXCEPT !.adminOff = g.adminOff \/ b] \in Guests
<1>1. \A v \in SUBSET Values("dm") : Merged(g.dm, v) \in SUBSET Values("dm")
  BY ModeIsTyped DEF Guests
<1>2. \A v \in SUBSET Values("dm") : [g EXCEPT !.dm = Merged(g.dm, v)] \in Guests
  BY <1>1 DEF Guests
<1>3. \A b \in BOOLEAN : (g.adminOff \/ b) \in BOOLEAN
  BY DEF Guests
<1>4. \A b \in BOOLEAN : [g EXCEPT !.adminOff = g.adminOff \/ b] \in Guests
  BY <1>3 DEF Guests
<1>5. \A v \in SUBSET Packages : [g EXCEPT !.pkgs = g.pkgs \cup v] \in Guests
  BY DEF Guests
<1>6. \A v \in SUBSET Accounts : [g EXCEPT !.users = g.users \cup v] \in Guests
  BY DEF Guests
<1>7. \A v \in SUBSET Values("level") : [g EXCEPT !.level = v] \in Guests
  BY DEF Guests
<1> QED
  BY <1>2, <1>4, <1>5, <1>6, <1>7

LEMMA ApplyTyped ==
  ASSUME TypeOK, NEW p \in Proc, ApplyMode(p) \/ ApplyLicense(p)
  PROVE  TypeOK'
<1>1. CASE ApplyMode(p)
  <2>1. PICK q \in plan[p] :
          IF q.dm = {} THEN Skip
          ELSE /\ guest' = [guest EXCEPT !.dm = Merged(@, q.dm)]
               /\ rec' = IF q.dm \subseteq guest.dm THEN rec ELSE h[p]
               /\ Do(p, "deviceMode")
               /\ UNCHANGED <<secret, h>>
    BY <1>1 DEF ApplyMode
  <2>2. q.dm \in SUBSET Values("dm")
    BY DEF TypeOK, Options
  <2>3. CASE q.dm = {}
    BY <1>1, <2>1, <2>3, SkipTyped, StepTyped DEF ApplyMode, Provisions
  <2>4. CASE q.dm # {}
    <3>4. guest' = [guest EXCEPT !.dm = Merged(guest.dm, q.dm)]
      BY <2>1, <2>4
    <3>5. guest \in Guests
      BY DEF TypeOK
    <3>1. guest' \in Guests
      BY <2>2, <3>4, <3>5, GuestTyped
    <3>2. rec' \in Records /\ h' \in [Proc -> Records] /\ secret' \in SUBSET Accounts
      BY <2>1, <2>4 DEF TypeOK
    <3>3. did' \in [Proc -> SUBSET StepNames]
      BY <2>1, <2>4, DoTyped DEF StepNames
    <3> QED
      BY <1>1, <3>1, <3>2, <3>3, StepTyped DEF ApplyMode, Provisions
  <2> QED
    BY <2>3, <2>4
<1>2. CASE ApplyLicense(p)
  <2>1. PICK q \in plan[p] :
          IF q.level = {} THEN Skip
          ELSE /\ guest' = [guest EXCEPT !.level = q.level]
               /\ rec' = [rec EXCEPT !.opts.level = q.level]
               /\ h' = [h EXCEPT ![p].opts.level = q.level]
               /\ Do(p, "license")
               /\ UNCHANGED secret
    BY <1>2 DEF ApplyLicense
  <2>2. q.level \in SUBSET Values("level")
    BY DEF TypeOK, Options
  <2>3. CASE q.level = {}
    BY <1>2, <2>1, <2>3, SkipTyped, StepTyped DEF ApplyLicense, Provisions
  <2>4. CASE q.level # {}
    <3>6. guest' = [guest EXCEPT !.level = q.level]
      BY <2>1, <2>4
    <3>7. guest \in Guests
      BY DEF TypeOK
    <3>1. guest' \in Guests
      BY <2>2, <3>6, <3>7, GuestTyped
    <3>2. rec' \in Records /\ secret' \in SUBSET Accounts
      BY <2>1, <2>2, <2>4, LevelTyped DEF TypeOK
    <3>3. h' = [h EXCEPT ![p] = [h[p] EXCEPT !.opts.level = q.level]]
      BY <2>1, <2>4
    <3>4. h' \in [Proc -> Records]
      BY <2>2, <3>3, LevelTyped DEF TypeOK
    <3>5. did' \in [Proc -> SUBSET StepNames]
      BY <2>1, <2>4, DoTyped DEF StepNames
    <3> QED
      BY <1>2, <3>1, <3>2, <3>4, <3>5, StepTyped DEF ApplyLicense, Provisions
  <2> QED
    BY <2>3, <2>4
<1> QED
  BY <1>1, <1>2


LEMMA LoginStepsTyped ==
  ASSUME TypeOK, NEW p \in Proc, CreateUser(p) \/ DisableAdmin(p) \/ RecordLogin(p)
  PROVE  TypeOK'
<1>0. guest \in Guests
  BY DEF TypeOK
<1>1. CASE CreateUser(p)
  <2>1. PICK q \in plan[p] :
          /\ guest' = [guest EXCEPT !.users = @ \cup Account(q)]
          /\ secret' = Stored(Account(q))
          /\ did' = [did EXCEPT ![p] = @ \cup (Asks(q) \cap {"user", "disableAdmin", "secureLogin"})]
    BY <1>1 DEF CreateUser
  <2>2. Account(q) \in SUBSET Accounts /\ Stored(Account(q)) \in SUBSET Accounts
    BY AccountTyped DEF TypeOK
  <2>3. guest' = [guest EXCEPT !.users = guest.users \cup Account(q)]
    BY <2>1
  <2>4. guest' \in Guests
    BY <1>0, <2>2, <2>3, GuestTyped
  <2>5. did' \in [Proc -> SUBSET StepNames]
    BY <2>1 DEF TypeOK, StepNames
  <2> QED
    BY <1>1, <2>1, <2>2, <2>4, <2>5, StepTyped DEF CreateUser, Provisions, TypeOK
<1>2. CASE DisableAdmin(p)
  <2>1. PICK q \in plan[p] : guest' = [guest EXCEPT !.adminOff = guest.adminOff \/ Given(q.noAdmin)]
    BY <1>2 DEF DisableAdmin
  <2>2. Given(q.noAdmin) \in BOOLEAN
    BY DEF Given
  <2>3. guest' \in Guests
    BY <1>0, <2>1, <2>2, GuestTyped
  <2> QED
    BY <1>2, <2>3, StepTyped DEF DisableAdmin, Provisions, TypeOK
<1>3. CASE RecordLogin(p)
  <2>1. PICK q \in plan[p] :
          rec' = IF Account(q) = {} THEN rec
                 ELSE [rec EXCEPT !.opts.user = Account(q), !.hidden = TRUE]
    BY <1>3 DEF RecordLogin
  <2>2. Account(q) \in SUBSET Accounts
    BY AccountTyped DEF TypeOK
  <2>3. rec' \in Records
    BY <2>1, <2>2, LoginTyped DEF TypeOK
  <2> QED
    BY <1>3, <2>3, StepTyped DEF RecordLogin, Provisions, TypeOK
<1> QED
  BY <1>1, <1>2, <1>3

LEMMA ModeRecordTyped ==
  ASSUME NEW r \in Records, NEW v \in SUBSET Values("dm")
  PROVE  AppliedDeviceMode(r, v) \in SUBSET Values("dm")
<1>1. r.opts.dm \in SUBSET Values("dm")
  BY DEF Records, Options
<1> QED
  BY <1>1, ModeIsTyped DEF AppliedDeviceMode

LEMMA ChangeTyped ==
  ASSUME TypeOK, CallInv, NEW p \in Proc,
         Fails(p) \/ SetMode(p) \/ RecordMode(p) \/ Install(p) \/ RecordInstall(p)
  PROVE  TypeOK'
<1>0. guest \in Guests /\ rec \in Records /\ h[p] \in Records
  BY DEF TypeOK
<1>1. Asked(p) \in Options
  BY AskedTyped DEF Fails, SetMode, RecordMode, Install, RecordInstall
<1>2. CASE Fails(p)
  BY <1>2, EndTyped DEF Fails, TypeOK, own, Results
<1>3. CASE SetMode(p)
  <2>1. Asked(p).dm \in SUBSET Values("dm")
    BY <1>1 DEF Options
  <2>2. guest' = [guest EXCEPT !.dm = Merged(guest.dm, Asked(p).dm)]
    BY <1>3 DEF SetMode
  <2>3. guest' \in Guests
    BY <1>0, <2>1, <2>2, GuestTyped
  <2>4. rec' \in Records
    BY <1>0, <1>3 DEF SetMode
  <2> QED
    BY <1>3, <2>3, <2>4 DEF SetMode, Go, TypeOK, own, mine, Holding, Changing
<1>4. CASE RecordMode(p)
  <2> DEFINE v == AppliedDeviceMode(h[p], Asked(p).dm)
             S == Applied(h[p]) \cup {"deviceMode"}
  <2>1. Asked(p).dm \in SUBSET Values("dm")
    BY <1>1 DEF Options
  <2>2. v \in SUBSET Values("dm") /\ S \in SUBSET StepNames
    BY <1>0, <2>1, ModeRecordTyped, AppliedTyped DEF StepNames
  <2>3. rec' = [rec EXCEPT !.opts.dm = v, !.prov = {S}]
    BY <1>4 DEF RecordMode
  <2> HIDE DEF v, S
  <2>4. rec' \in Records
    BY <1>0, <2>2, <2>3, ModeTyped
  <2> QED
    BY <1>4, <2>4, EndTyped DEF RecordMode, TypeOK, own, Results
<1>5. CASE Install(p)
  <2>1. CASE End(p, "done") /\ UNCHANGED guest
    BY <1>5, <2>1, EndTyped DEF Install, TypeOK, own, Results
  <2>2. CASE /\ guest' = [guest EXCEPT !.pkgs = @ \cup (Asked(p).pkgs \cap Available)]
             /\ Go(p, "installRecord")
             /\ UNCHANGED <<lock, result, mine>>
    <3>1. guest' = [guest EXCEPT !.pkgs = guest.pkgs \cup (Asked(p).pkgs \cap Available)]
      BY <2>2
    <3>2. (Asked(p).pkgs \cap Available) \in SUBSET Packages
      BY DEF Packages
    <3>3. guest' \in Guests
      BY <1>0, <3>1, <3>2, GuestTyped
    <3> QED
      BY <1>5, <2>2, <3>3 DEF Install, Go, TypeOK, own, mine, Holding, Changing
  <2> QED
    BY <1>5, <2>1, <2>2 DEF Install
<1>6. CASE RecordInstall(p)
  <2> DEFINE installed == Asked(p).pkgs \cap Available
             v == rec.opts.pkgs \cup installed
             P == IF CoversDesired(rec, installed) THEN {Applied(h[p]) \cup {"packages"}} ELSE rec.prov
  <2>1. rec' = [rec EXCEPT !.opts.pkgs = v, !.prov = P]
    BY <1>6 DEF RecordInstall
  <2>2. v \in SUBSET Packages
    BY <1>0 DEF Records, Options, Packages
  <2>3. P \in AtMostOne(SUBSET StepNames)
    BY <1>0, AppliedTyped DEF Records, AtMostOne, StepNames
  <2> HIDE DEF v, P
  <2>4. rec' \in Records
    BY <1>0, <2>1, <2>2, <2>3, InstalledTyped
  <2> QED
    BY <1>6, <2>4, EndTyped DEF RecordInstall, TypeOK, own, Results
<1> QED
  BY <1>2, <1>3, <1>4, <1>5, <1>6

LEMMA UnlockedTyped ==
  ASSUME TypeOK, NEW p \in Proc, License(p) \/ Stop(p)
  PROVE  TypeOK'
<1>0. guest \in Guests /\ rec \in Records
  BY DEF TypeOK
<1>1. CASE License(p)
  <2>1. Begin(p, "license")
    BY <1>1 DEF License
  <2> DEFINE q == call'[p].op.q
  <2>2. call'[p].op \in Ops[p]
    BY <2>1, BeginTyped
  <2>3. q.level \in SUBSET Values("level")
    BY <2>2, OpTyped DEF Options
  <2>4. /\ call' \in [Proc -> {[kind |-> "none"]} \cup [op : [kind : STRING, q : Options], disk : Nat]]
        /\ left' \in [Proc -> Nat]
    BY <2>1, BeginTyped
  <2>5. \/ guest' = [guest EXCEPT !.level = q.level] /\ rec' = [rec EXCEPT !.opts.level = q.level]
        \/ guest' = guest /\ rec' = rec
    BY <1>1 DEF License
  <2> HIDE DEF q
  <2>6. guest' \in Guests /\ rec' \in Records
    BY <1>0, <2>3, <2>5, LevelTyped, GuestTyped
  <2>7. End(p, "done") \/ End(p, "failed")
    BY <1>1 DEF License
  <2> QED
    BY <1>1, <2>4, <2>6, <2>7, EndTyped DEF License, TypeOK, Results
<1>2. CASE Stop(p)
  <2>1. Begin(p, "stop")
    BY <1>2 DEF Stop
  <2>2. /\ call' \in [Proc -> {[kind |-> "none"]} \cup [op : [kind : STRING, q : Options], disk : Nat]]
        /\ left' \in [Proc -> Nat]
    BY <2>1, BeginTyped
  <2>3. rec' \in Records
    BY <1>0, <1>2, SwitchTyped DEF Stop
  <2>4. End(p, "done") \/ End(p, "locked")
    BY <1>2 DEF Stop
  <2> QED
    BY <1>2, <2>2, <2>3, <2>4, EndTyped DEF Stop, TypeOK, Results
<1> QED
  BY <1>1, <1>2

LEMMA ErasedTyped ==
  ASSUME TypeOK, NEW p \in Proc, Erase(p) \/ SaveCleaned(p) \/ Crash(p)
  PROVE  TypeOK'
<1>0. guest \in Guests /\ rec \in Records
  BY DEF TypeOK
<1>1. CASE Erase(p)
  <2>1. guest.disk + 1 \in Nat
    BY <1>0 DEF Guests
  <2>2. [Factory EXCEPT !.disk = guest.disk + 1] \in Guests
    BY <2>1, FactoryTyped DEF Guests
  <2>3. rec' \in Records
    BY <1>0, <1>1, SwitchTyped DEF Erase
  <2> QED
    BY <1>1, <2>2, <2>3 DEF Erase, FactoryReset, Go, TypeOK, own, mine, Holding
<1>2. CASE SaveCleaned(p)
  BY <1>0, <1>2, EndTyped, CleanTyped DEF SaveCleaned, TypeOK, own, Results
<1>3. CASE Crash(p)
  <2>1. left' \in [Proc -> Nat]
    BY <1>3 DEF Crash, TypeOK
  <2> QED
    BY <1>3, <2>1, EndTyped DEF Crash, TypeOK, Results
<1> QED
  BY <1>1, <1>2, <1>3

LEMMA NextTyped == TypeOK /\ CallInv /\ [Next]_vars => TypeOK'
<1> SUFFICES ASSUME TypeOK, CallInv, [Next]_vars PROVE TypeOK'
  OBVIOUS
<1>1. CASE UNCHANGED vars
  BY <1>1 DEF vars, TypeOK
<1>2. ASSUME NEW p \in Proc, EnterSet(p) \/ EnterInstall(p) \/ EnterClean(p)
      PROVE  TypeOK'
  <2>1. rec.on \in BOOLEAN /\ (rec.on /\ Accepted(Login(rec))) \in BOOLEAN
    BY DEF TypeOK, Records
  <2> QED
    BY <1>2, <2>1, EnterTyped DEF EnterSet, EnterInstall, EnterClean
<1>3. CASE Next
  BY <1>2, <1>3, StartTyped, LaunchTyped, EndsTyped, InstallPackagesTyped, ApplyTyped,
     LoginStepsTyped, ChangeTyped, UnlockedTyped, ErasedTyped
     DEF Next
<1> QED
  BY <1>1, <1>3


----------------------------------------------------------------------------
(* The lock and the calls *)

Act(p) ==
  \/ LookStart(p) \/ LockStart(p) \/ Launch(p) \/ Boots(p) \/ Undo(p)
  \/ Reset(p) \/ SaveRestored(p)
  \/ InstallPackages(p) \/ ApplyMode(p) \/ ApplyLicense(p) \/ CreateUser(p)
  \/ DisableAdmin(p) \/ RecordLogin(p) \/ Record(p)
  \/ EnterSet(p) \/ EnterInstall(p) \/ EnterClean(p) \/ Fails(p)
  \/ SetMode(p) \/ RecordMode(p) \/ Install(p) \/ RecordInstall(p)
  \/ License(p) \/ Stop(p) \/ Erase(p) \/ SaveCleaned(p) \/ Crash(p)

LEMMA NextActs == Next <=> \E p \in Proc : Act(p)
BY DEF Next, Act

Stepping(p) ==
  \/ InstallPackages(p) \/ ApplyMode(p) \/ ApplyLicense(p) \/ CreateUser(p)
  \/ DisableAdmin(p) \/ RecordLogin(p)

\* A step goes to the next one and leaves the lock and the plan alone.
LEMMA StepsGoOn ==
  ASSUME NEW p \in Proc, Stepping(p)
  PROVE  \E at, next \in Provisions : Step(p, at, next)
BY DEF Stepping, Provisions, InstallPackages, ApplyMode, ApplyLicense, CreateUser, DisableAdmin,
       RecordLogin

\* Where a call goes when it does not end: to wait for the lock, to hold it, or on.
Enters(p, x) == lock = None /\ lock' = p /\ pc' = [pc EXCEPT ![p] = x]

GoesOn(p, x) == lock' = lock /\ pc' = [pc EXCEPT ![p] = x]

LEMMA Moves ==
  ASSUME TypeOK, NEW p \in Proc, Act(p)
  PROVE  \/ \E how \in Results : End(p, how)
         \/ pc[p] = "idle" /\ GoesOn(p, "lock") /\ Begin(p, "start")
         \/ pc[p] = "lock" /\ Enters(p, "launch") /\ call' = call
         \/ pc[p] = "idle" /\ Enters(p, "set") /\ Begin(p, "set")
         \/ pc[p] = "idle" /\ Enters(p, "install") /\ Begin(p, "install")
         \/ pc[p] = "idle" /\ Enters(p, "erase") /\ Begin(p, "clean")
         \/ /\ \E x \in {"reset", "restore"} \cup Starting : GoesOn(p, x)
            /\ pc[p] \in {"launch", "reset", "restore"} \cup Starting /\ call' = call
         \/ pc[p] = "set" /\ GoesOn(p, "setRecord") /\ call' = call
         \/ pc[p] = "install" /\ GoesOn(p, "installRecord") /\ call' = call
         \/ pc[p] = "erase" /\ GoesOn(p, "cleaned") /\ call' = call
<1>1. CASE LookStart(p)
  BY <1>1 DEF LookStart, Begin, Go, GoesOn, Results
<1>2. CASE LockStart(p)
  BY <1>2 DEF LockStart, Go, Enters, Results, own
<1>3. CASE Launch(p) \/ Boots(p) \/ Undo(p) \/ Reset(p) \/ SaveRestored(p) \/ Record(p)
  BY <1>3 DEF Launch, Boots, Undo, Reset, SaveRestored, Record, Go, GoesOn, Results, own,
     Starting,
     Provisions
<1>4. CASE Stepping(p)
  BY <1>4, StepsGoOn DEF Step, Go, GoesOn, own, Starting
<1>5. CASE EnterSet(p) \/ EnterInstall(p) \/ EnterClean(p)
  BY <1>5 DEF EnterSet, EnterInstall, EnterClean, Enter, Begin, Go, Enters, Results
<1>6. CASE Fails(p) \/ RecordMode(p) \/ RecordInstall(p) \/ License(p) \/ Stop(p) \/ SaveCleaned(p) \/ Crash(p)
  BY <1>6 DEF Fails, RecordMode, RecordInstall, License, Stop, SaveCleaned, Crash, Results
<1>7. CASE SetMode(p) \/ Install(p) \/ Erase(p)
  BY <1>7 DEF SetMode, Install, Erase, Go, GoesOn, own, Results
<1> QED
  BY <1>1, <1>2, <1>3, <1>4, <1>5, <1>6, <1>7 DEF Act, Stepping

LEMMA LockStep ==
  ASSUME TypeOK, LockInv, NEW p \in Proc, Act(p)
  PROVE  LockInv'
<1>0. None \notin Proc
  BY ProvisioningAssumption
<1>1. CASE \E how \in Results : End(p, how)
  BY <1>0, <1>1 DEF LockInv, TypeOK, End, Holding, Starting, Provisions, Changing
<1>2. CASE pc[p] = "idle" /\ GoesOn(p, "lock")
  BY <1>0, <1>2 DEF LockInv, TypeOK, GoesOn, Holding, Starting, Provisions, Changing
<1>3. CASE \E x \in Holding : Enters(p, x)
  BY <1>0, <1>3 DEF LockInv, TypeOK, Enters
<1>4. CASE \E x \in Holding : GoesOn(p, x) /\ pc[p] \in Holding
  BY <1>4 DEF LockInv, TypeOK, GoesOn
<1> QED
  BY <1>1, <1>2, <1>3, <1>4, Moves DEF Holding, Changing

LEMMA CallStep ==
  ASSUME TypeOK, CallInv, NEW p \in Proc, Act(p)
  PROVE  CallInv'
<1> DEFINE Points(x) ==
      /\ pc'[x] # "idle" => call'[x].op \in Ops[x]
      /\ pc'[x] \in {"lock", "launch", "reset", "restore"} \cup Starting => call'[x].op.kind = "start"
      /\ pc'[x] \in {"set", "setRecord"} => call'[x].op.kind = "set"
      /\ pc'[x] \in {"erase", "cleaned"} => call'[x].op.kind = "clean"
<1>1. ASSUME NEW x \in Proc, x # p PROVE Points(x)
  <2>1. pc'[x] = pc[x]
    BY <1>1, Moves DEF End, Enters, GoesOn, TypeOK
  <2>2. call'[x] = call[x]
    BY <1>1 DEF Act, LookStart, LockStart, Launch, Boots, Undo, Reset, SaveRestored,
       InstallPackages, ApplyMode, ApplyLicense, CreateUser, DisableAdmin, RecordLogin, Record,
       EnterSet, EnterInstall, EnterClean, Enter, Fails, SetMode, RecordMode, Install,
       RecordInstall, License, Stop, Erase, SaveCleaned, Crash, Begin, Step, own, TypeOK
  <2> QED
    BY <2>1, <2>2 DEF CallInv, Kind
<1>2. Points(p)
  <2>1. CASE \E how \in Results : End(p, how)
    BY <2>1 DEF End, TypeOK, Starting, Provisions
  <2>2. ASSUME NEW kind, Begin(p, kind),
               NEW x, GoesOn(p, x) \/ Enters(p, x),
               <<kind, x>> \in {<<"start", "lock">>, <<"set", "set">>, <<"install", "install">>, <<"clean", "erase">>}
        PROVE  Points(p)
    <3>1. call'[p].op \in Ops[p] /\ call'[p].op.kind = kind
      BY <2>2, BeginTyped
    <3>2. pc'[p] = x
      BY <2>2 DEF GoesOn, Enters, TypeOK
    <3> QED
      BY <2>2, <3>1, <3>2 DEF Starting, Provisions
  <2>3. ASSUME call' = call, NEW x, GoesOn(p, x) \/ Enters(p, x),
               \/ pc[p] \in {"lock", "launch", "reset", "restore"} \cup Starting /\ x \in {"launch", "reset", "restore"} \cup Starting
               \/ <<pc[p], x>> \in {<<"set", "setRecord">>, <<"install", "installRecord">>, <<"erase", "cleaned">>}
        PROVE  Points(p)
    <3>1. pc'[p] = x
      BY <2>3 DEF GoesOn, Enters, TypeOK
    <3> QED
      BY <2>3, <3>1 DEF CallInv, Kind, Starting, Provisions
  <2> HIDE DEF Points
  <2> QED
    BY <2>1, <2>2, <2>3, Moves
<1> QED
  BY <1>1, <1>2 DEF CallInv, Kind


LEMMA OneStep ==
  ASSUME TypeOK, OneEach, NEW p \in Proc, Act(p)
  PROVE  OneEach'
<1>1. \A x \in Proc : x # p => plan'[x] = plan[x] /\ restore'[x] = restore[x]
  BY DEF Act, LookStart, LockStart, Launch, Boots, Undo, Reset, SaveRestored,
     InstallPackages, ApplyMode, ApplyLicense, CreateUser, DisableAdmin, RecordLogin, Record,
     EnterSet, EnterInstall, EnterClean, Enter, Fails, SetMode, RecordMode, Install,
     RecordInstall, License, Stop, Erase, SaveCleaned, Crash, End, Begin, Step, mine, TypeOK
<1>2. (\A x, y \in plan'[p] : x = y) /\ (\A x, y \in restore'[p] : x = y)
  <2>1. CASE \E how \in Results : End(p, how)
    BY <2>1 DEF End, TypeOK
  <2>2. CASE plan'[p] \subseteq plan[p] /\ restore'[p] \subseteq restore[p]
    BY <2>2 DEF OneEach
  <2>3. CASE LookStart(p)
    <3> DEFINE q == Pending(rec, call'[p].op.q)
    <3>1. \/ \E how \in Results : End(p, how)
          \/ /\ plan' = [plan EXCEPT ![p] = IF Open(rec) /\ Asks(q) # {} THEN {q} ELSE {}]
             /\ restore' = restore
      BY <2>3 DEF LookStart, Results
    <3> HIDE DEF q
    <3> QED
      BY <2>1, <3>1 DEF TypeOK, OneEach
  <2>4. CASE Launch(p)
    BY <2>4 DEF Launch, BeforeLaunch, TypeOK, OneEach
  <2>5. \/ \E how \in Results : End(p, how)
        \/ plan'[p] \subseteq plan[p] /\ restore'[p] \subseteq restore[p]
        \/ LookStart(p) \/ Launch(p)
    <3>1. CASE LockStart(p)
      BY <3>1 DEF LockStart, Recheck, Results, TypeOK
    <3>2. CASE Stepping(p)
      BY <3>2, StepsGoOn DEF Step
    <3>3. CASE Boots(p) \/ Undo(p) \/ Reset(p) \/ SaveRestored(p) \/ Record(p)
      BY <3>3 DEF Boots, Undo, Reset, SaveRestored, Record, mine, Results
    <3>4. CASE EnterSet(p) \/ EnterInstall(p) \/ EnterClean(p)
      BY <3>4 DEF EnterSet, EnterInstall, EnterClean, Enter, Results
    <3>5. CASE \/ Fails(p) \/ SetMode(p) \/ RecordMode(p) \/ Install(p) \/ RecordInstall(p)
               \/ License(p) \/ Stop(p) \/ Erase(p) \/ SaveCleaned(p) \/ Crash(p)
      BY <3>5 DEF Fails, SetMode, RecordMode, Install, RecordInstall, License, Stop, Erase,
         SaveCleaned, Crash, mine, Results
    <3> QED
      BY <3>1, <3>2, <3>3, <3>4, <3>5 DEF Act, Stepping
  <2> QED
    BY <2>1, <2>2, <2>3, <2>4, <2>5
<1> QED
  BY <1>1, <1>2 DEF OneEach

ShapeInv == TypeOK /\ OneEach /\ LockInv /\ CallInv

LEMMA ShapeInit == Init => ShapeInv
<1> SUFFICES ASSUME Init PROVE ShapeInv
  OBVIOUS
<1>1. None \notin Proc
  BY ProvisioningAssumption
<1>2. OneEach /\ LockInv
  BY <1>1 DEF Init, OneEach, LockInv, Holding, Starting, Provisions, Changing
<1>3. CallInv
  BY DEF Init, CallInv, Starting, Provisions
<1> QED
  BY <1>2, <1>3, InitTyped DEF ShapeInv

LEMMA ShapeStep == ShapeInv /\ [Next]_vars => ShapeInv'
<1> SUFFICES ASSUME ShapeInv, [Next]_vars PROVE ShapeInv'
  OBVIOUS
<1>1. TypeOK'
  BY NextTyped DEF ShapeInv
<1>2. CASE UNCHANGED vars
  BY <1>1, <1>2 DEF ShapeInv, OneEach, LockInv, CallInv, Kind, vars
<1>3. CASE Next
  <2>1. PICK p \in Proc : Act(p)
    BY <1>3, NextActs
  <2> QED
    BY <1>1, <2>1, OneStep, LockStep, CallStep DEF ShapeInv
<1> QED
  BY <1>2, <1>3

\* Every variable of the provisioning of a machine keeps its type, whatever its
\* calls, the steps of a first boot and their failures write over one another.
THEOREM Typed == Spec => []TypeOK
<1>1. Init => ShapeInv
  BY ShapeInit
<1>2. ShapeInv /\ [Next]_vars => ShapeInv'
  BY ShapeStep
<1>3. ShapeInv => TypeOK
  BY DEF ShapeInv
<1> QED
  BY <1>1, <1>2, <1>3, PTL DEF Spec

----------------------------------------------------------------------------
(* What an update keeps *)

Alike(r, s) ==
  /\ r.prov = s.prov /\ r.started = s.started /\ r.on = s.on /\ r.hidden = s.hidden
  /\ r.opts.all = s.opts.all /\ r.opts.dm = s.opts.dm

LEMMA PkgsKeeps ==
  ASSUME NEW r \in Records, NEW v
  PROVE  Alike(r, [r EXCEPT !.opts.pkgs = v]) /\ [r EXCEPT !.opts.pkgs = v].opts.pkgs = v
BY DEF Alike, Records, Options

LEMMA LevelKeeps ==
  ASSUME NEW r \in Records, NEW v
  PROVE  /\ Alike(r, [r EXCEPT !.opts.level = v])
         /\ [r EXCEPT !.opts.level = v].opts.pkgs = r.opts.pkgs
         /\ [r EXCEPT !.opts.level = v].opts.level = v
BY DEF Alike, Records, Options

LEMMA LoginKeeps ==
  ASSUME NEW r \in Records, NEW v
  PROVE  LET s == [r EXCEPT !.opts.user = v, !.hidden = TRUE] IN
         /\ s.prov = r.prov /\ s.started = r.started /\ s.on = r.on /\ s.hidden = TRUE
         /\ s.opts.all = r.opts.all /\ s.opts.dm = r.opts.dm /\ s.opts.pkgs = r.opts.pkgs
         /\ s.opts.user = v
BY DEF Records, Options

LEMMA ModeKeeps ==
  ASSUME NEW r \in Records, NEW v, NEW P
  PROVE  LET s == [r EXCEPT !.opts.dm = v, !.prov = P] IN
         /\ s.prov = P /\ s.started = r.started /\ s.on = r.on /\ s.hidden = r.hidden
         /\ s.opts.all = r.opts.all /\ s.opts.dm = v /\ s.opts.pkgs = r.opts.pkgs
BY DEF Records, Options

LEMMA InstalledKeeps ==
  ASSUME NEW r \in Records, NEW v, NEW P
  PROVE  LET s == [r EXCEPT !.opts.pkgs = v, !.prov = P] IN
         /\ s.prov = P /\ s.started = r.started /\ s.on = r.on /\ s.hidden = r.hidden
         /\ s.opts.all = r.opts.all /\ s.opts.dm = r.opts.dm /\ s.opts.pkgs = v
BY DEF Records, Options

LEMMA GuestKeeps ==
  ASSUME NEW g \in Guests, NEW v
  PROVE  /\ LET k == [g EXCEPT !.level = v] IN
              /\ k.level = v /\ k.pkgs = g.pkgs /\ k.dm = g.dm /\ k.users = g.users
              /\ k.adminOff = g.adminOff /\ k.boots = g.boots /\ k.disk = g.disk
         /\ LET k == [g EXCEPT !.pkgs = v] IN
              /\ k.level = g.level /\ k.pkgs = v /\ k.dm = g.dm /\ k.users = g.users
              /\ k.adminOff = g.adminOff /\ k.boots = g.boots /\ k.disk = g.disk
         /\ LET k == [g EXCEPT !.dm = v] IN
              /\ k.level = g.level /\ k.pkgs = g.pkgs /\ k.dm = v /\ k.users = g.users
              /\ k.adminOff = g.adminOff /\ k.boots = g.boots /\ k.disk = g.disk
         /\ LET k == [g EXCEPT !.users = v] IN
              /\ k.level = g.level /\ k.pkgs = g.pkgs /\ k.dm = g.dm /\ k.users = v
              /\ k.adminOff = g.adminOff /\ k.boots = g.boots /\ k.disk = g.disk
         /\ LET k == [g EXCEPT !.adminOff = v] IN
              /\ k.level = g.level /\ k.pkgs = g.pkgs /\ k.dm = g.dm /\ k.users = g.users
              /\ k.adminOff = v /\ k.boots = g.boots /\ k.disk = g.disk
         /\ LET k == [g EXCEPT !.boots = v] IN
              /\ k.level = g.level /\ k.pkgs = g.pkgs /\ k.dm = g.dm /\ k.users = g.users
              /\ k.adminOff = g.adminOff /\ k.boots = v /\ k.disk = g.disk
BY DEF Guests


----------------------------------------------------------------------------
(* Who writes what *)

\* Each call keeps to its own handle, plan, kept record and steps.
LEMMA OnlyOwn ==
  ASSUME TypeOK, NEW p \in Proc, Act(p), NEW x \in Proc, x # p
  PROVE  /\ pc'[x] = pc[x] /\ h'[x] = h[x] /\ plan'[x] = plan[x]
         /\ restore'[x] = restore[x] /\ did'[x] = did[x] /\ call'[x] = call[x]
BY DEF Act, LookStart, LockStart, Launch, Boots, Undo, Reset, SaveRestored,
     InstallPackages, ApplyMode, ApplyLicense, CreateUser, DisableAdmin, RecordLogin, Record,
     EnterSet, EnterInstall, EnterClean, Enter, Fails, SetMode, RecordMode, Install,
     RecordInstall, License, Stop, Erase, SaveCleaned, Crash, End, Begin, Step, Skip, Do, Go, mine,
     own, TypeOK

\* What license() writes.
Renews(p) ==
  /\ rec.on
  /\ \E v \in SUBSET Values("level") :
       /\ guest' = [guest EXCEPT !.level = v]
       /\ rec' = [rec EXCEPT !.opts.level = v]
  /\ secret' = secret

\* Only the holder of the lock writes, but for license(), and for stop(),
\* which takes the lock and gives it back in one step.
LEMMA Writers ==
  ASSUME ShapeInv, NEW p \in Proc, Act(p)
  PROVE  \/ UNCHANGED <<rec, guest, secret>>
         \/ lock = p
         \/ License(p) /\ Renews(p)
         \/ lock = None /\ rec' = [rec EXCEPT !.on = FALSE] /\ UNCHANGED <<guest, secret>>
<1>1. pc[p] \in Holding => lock = p
  BY DEF ShapeInv, LockInv
<1>2. CASE License(p)
  <2>1. Begin(p, "license")
    BY <1>2 DEF License
  <2>2. call'[p].op \in Ops[p]
    BY <2>1, BeginTyped DEF ShapeInv
  <2>3. call'[p].op.q.level \in SUBSET Values("level")
    BY <2>2, OpTyped DEF Options
  <2> QED
    BY <1>2, <2>3 DEF License, Renews
<1>3. CASE Stop(p)
  BY <1>3 DEF Stop
<1>4. CASE LookStart(p) \/ LockStart(p) \/ EnterSet(p) \/ EnterInstall(p) \/ EnterClean(p) \/ Fails(p) \/ Crash(p)
  BY <1>4 DEF LookStart, LockStart, EnterSet, EnterInstall, EnterClean, Enter, Fails, Crash
<1>5. CASE Stepping(p)
  <2>1. pc[p] \in Provisions
    BY <1>5, StepsGoOn DEF Step
  <2> QED
    BY <1>1, <2>1 DEF Holding, Starting
<1>6. CASE \/ Launch(p) \/ Boots(p) \/ Undo(p) \/ Reset(p) \/ SaveRestored(p) \/ Record(p)
           \/ SetMode(p) \/ RecordMode(p) \/ Install(p) \/ RecordInstall(p) \/ Erase(p) \/ SaveCleaned(p)
  BY <1>1, <1>6 DEF Launch, Boots, Undo, Reset, SaveRestored, Record, SetMode, RecordMode,
     Install,
     RecordInstall, Erase, SaveCleaned, Holding, Starting, Changing, Provisions
<1> QED
  BY <1>2, <1>3, <1>4, <1>5, <1>6 DEF Act, Stepping

----------------------------------------------------------------------------
(* The window *)

WindowSoFar == ShapeInv /\ WindowInv

LEMMA NotHolding ==
  ASSUME ShapeInv, NEW p \in Proc, lock # p
  PROVE  pc[p] \in {"idle", "lock"}
BY DEF ShapeInv, LockInv, TypeOK

\* Whoever waits or rests keeps nothing.
LEMMA RestsEmpty ==
  ASSUME NEW p \in Proc, Held(p), pc[p] \in {"idle", "lock"}
  PROVE  restore[p] = {} /\ did[p] = {}
BY DEF Held, Starting, Provisions

\* license() changes nothing that the holder of the lock knows.
LEMMA RenewsLevel ==
  ASSUME ShapeInv, NEW p \in Proc, Renews(p)
  PROVE  /\ Alike(rec, rec') /\ rec'.opts.pkgs = rec.opts.pkgs
         /\ guest'.pkgs = guest.pkgs /\ guest'.dm = guest.dm /\ guest'.users = guest.users
         /\ guest'.adminOff = guest.adminOff /\ guest'.boots = guest.boots
         /\ rec.on /\ secret' = secret
<1>1. rec \in Records /\ guest \in Guests
  BY DEF ShapeInv, TypeOK
<1>2. PICK v \in SUBSET Values("level") :
        guest' = [guest EXCEPT !.level = v] /\ rec' = [rec EXCEPT !.opts.level = v]
  BY DEF Renews
<1> QED
  BY <1>1, <1>2, LevelKeeps, GuestKeeps DEF Renews

LEMMA OthersHeld ==
  ASSUME WindowSoFar, NEW p \in Proc, Act(p), NEW x \in Proc, x # p
  PROVE  Held(x)'
<1>1. Held(x)
  BY DEF WindowSoFar, WindowInv
<1>2. /\ pc'[x] = pc[x] /\ h'[x] = h[x] /\ plan'[x] = plan[x]
      /\ restore'[x] = restore[x] /\ did'[x] = did[x]
  BY OnlyOwn DEF WindowSoFar, ShapeInv
<1>3. CASE lock # x
  <2>1. pc[x] \in {"idle", "lock"}
    BY <1>3, NotHolding DEF WindowSoFar
  <2>2. restore[x] = {} /\ did[x] = {}
    BY <1>1, <2>1, RestsEmpty
  <2> QED
    BY <1>2, <2>1, <2>2 DEF Held, Starting, Changing, Provisions
<1>4. CASE lock = x
  <2>1. lock # p /\ lock # None
    BY <1>4, ProvisioningAssumption
  <2>2. UNCHANGED <<rec, guest, secret>> \/ Renews(p)
    BY <2>1, Writers DEF WindowSoFar
  <2>3. CASE UNCHANGED <<rec, guest, secret>>
    BY <1>1, <1>2, <2>3 DEF Held, Agrees, IsFactory, Open
  <2>4. CASE Renews(p)
    <3>1. /\ Alike(rec, rec') /\ rec'.opts.pkgs = rec.opts.pkgs /\ guest'.boots = guest.boots /\ rec.on
      BY <2>4, RenewsLevel DEF WindowSoFar
    <3>2. pc[x] \notin {"launch", "reset", "restore", "cleaned"}
      BY <1>1, <3>1 DEF Held
    <3>3. Agrees(x) => Agrees(x)'
      BY <1>2, <3>1 DEF Agrees, Alike
    <3> QED
      BY <1>1, <1>2, <3>1, <3>2, <3>3 DEF Held, Alike, Open
  <2> QED
    BY <2>2, <2>3, <2>4
<1> QED
  BY <1>3, <1>4

LEMMA EndedHeld ==
  ASSUME TypeOK, NEW p \in Proc, \E how \in Results : End(p, how)
  PROVE  Held(p)'
<1>1. pc'[p] = "idle" /\ restore'[p] = {} /\ did'[p] = {}
  BY DEF End, TypeOK
<1> QED
  BY <1>1 DEF Held, Starting, Changing, Provisions

\* An open window is one of a record that has not started.
LEMMA FactoryKept ==
  ASSUME IsFactory, UNCHANGED <<guest, secret>> PROVE IsFactory'
BY DEF IsFactory


Window(p) ==
  /\ rec.on => rec.started
  /\ Open(rec) => IsFactory
  /\ Held(p)

LEMMA WindowEntered ==
  ASSUME WindowSoFar, NEW p \in Proc,
         LookStart(p) \/ LockStart(p) \/ EnterSet(p) \/ EnterInstall(p) \/ EnterClean(p)
  PROVE  Window(p)'
<1>0. TypeOK /\ rec \in Records
  BY DEF WindowSoFar, ShapeInv, TypeOK
<1>1. UNCHANGED <<rec, guest, secret>>
  BY DEF LookStart, LockStart, EnterSet, EnterInstall, EnterClean, Enter
<1>2. (rec.on => rec.started)' /\ (Open(rec) => IsFactory)'
  BY <1>1 DEF WindowSoFar, WindowInv, Open, IsFactory
<1>3. pc[p] \in {"idle", "lock"}
  BY DEF LookStart, LockStart, EnterSet, EnterInstall, EnterClean, Enter, Begin
<1>4. restore[p] = {} /\ did[p] = {}
  BY <1>3, RestsEmpty DEF WindowSoFar, WindowInv
<1>5. CASE \E how \in Results : End(p, how)
  BY <1>0, <1>2, <1>5, EndedHeld DEF Window
<1>6. CASE LookStart(p) /\ Go(p, "lock") /\ UNCHANGED <<lock, result, h, restore, did>>
  <2>1. pc'[p] = "lock" /\ restore'[p] = {} /\ did'[p] = {}
    BY <1>0, <1>4, <1>6 DEF Go, TypeOK
  <2>2. Held(p)'
    BY <2>1 DEF Held, Starting, Changing, Provisions
  <2> QED
    BY <1>2, <2>2 DEF Window
<1>7. CASE /\ LockStart(p) /\ ~rec.on
           /\ h' = [h EXCEPT ![p] = rec]
           /\ plan' = [plan EXCEPT ![p] = Recheck(p).options]
           /\ Go(p, "launch")
           /\ UNCHANGED <<result, restore, did>>
  <2>1. pc'[p] = "launch" /\ h'[p] = rec /\ restore'[p] = {} /\ did'[p] = {}
    BY <1>0, <1>4, <1>7 DEF Go, TypeOK
  <2>2. Agrees(p)'
    BY <1>1, <2>1 DEF Agrees
  <2>3. plan'[p] # {} => Open(rec)
    BY <1>0, <1>7 DEF Recheck, TypeOK
  <2>4. (plan[p] # {} => Open(rec))'
    BY <1>1, <2>3 DEF Open
  <2>5. Held(p)'
    BY <1>1, <1>7, <2>1, <2>2, <2>4 DEF Held, Starting, Changing, Provisions
  <2> QED
    BY <1>2, <2>5 DEF Window
<1>8. CASE \E x \in {"set", "install", "erase"} :
             /\ h' = [h EXCEPT ![p] = rec] /\ Go(p, x)
             /\ UNCHANGED <<result, plan, restore, did>>
             /\ x # "erase" => rec.on
  <2>1. PICK x \in {"set", "install", "erase"} : Go(p, x) /\ (x # "erase" => rec.on)
    BY <1>8
  <2>2. pc'[p] = x /\ h'[p] = rec /\ restore'[p] = {} /\ did'[p] = {}
    BY <1>0, <1>4, <1>8, <2>1 DEF Go, TypeOK
  <2>3. Agrees(p)'
    BY <1>1, <2>2 DEF Agrees
  <2>4. Held(p)'
    BY <1>1, <2>1, <2>2, <2>3 DEF Held, Starting, Changing, Provisions
  <2> QED
    BY <1>2, <2>4 DEF Window
<1>9. CASE LookStart(p)
  BY <1>5, <1>6, <1>9 DEF LookStart, Results
<1>10. CASE LockStart(p)
  BY <1>5, <1>7, <1>10 DEF LockStart, Results
<1>11. CASE EnterSet(p) \/ EnterInstall(p) \/ EnterClean(p)
  BY <1>5, <1>8, <1>11 DEF EnterSet, EnterInstall, EnterClean, Enter, Results
<1> QED
  BY <1>9, <1>10, <1>11

LEMMA WindowLaunched ==
  ASSUME WindowSoFar, NEW p \in Proc, Launch(p)
  PROVE  Window(p)'
<1>0. rec \in Records /\ h[p] \in Records /\ guest \in Guests /\ TypeOK
  BY DEF WindowSoFar, ShapeInv, TypeOK
<1>1. Held(p) /\ pc[p] = "launch"
  BY DEF WindowSoFar, WindowInv, Launch
<1>2. Agrees(p) /\ ~rec.on /\ (plan[p] # {} => Open(rec))
  BY <1>1 DEF Held
<1> DEFINE r == [h[p] EXCEPT !.on = TRUE, !.started = TRUE]
<1>3. h'[p] = r /\ rec' = r /\ plan' = plan /\ did' = did
  BY <1>0 DEF Launch, TypeOK
<1>4. r.on /\ r.started /\ r.prov = h[p].prov
  BY <1>0 DEF Records
<1> HIDE DEF r
<1>5. pc'[p] = "boot" /\ restore'[p] = BeforeLaunch(h[p])
  BY <1>0 DEF Launch, TypeOK, Go
<1>6. Open(h[p]) <=> Open(rec)
  BY <1>2 DEF Agrees, Open
<1>7. plan'[p] # {} => guest'.boots = 1 /\ rec'.prov = {}
  <2>1. plan[p] # {} => guest.boots = 0 /\ h[p].prov = {}
    BY <1>0, <1>2, <1>6 DEF WindowSoFar, WindowInv, IsFactory, Factory, Open
  <2>2. guest'.boots = guest.boots + 1
    BY <1>0 DEF Launch, Guests
  <2> QED
    BY <1>3, <1>4, <2>1, <2>2
<1>8. /\ restore'[p] # {} => rec'.prov = {}
      /\ \A b \in restore'[p] : Open(b)
  BY <1>3, <1>4, <1>5 DEF BeforeLaunch, Open
<1>9. Agrees(p)'
  BY <1>3 DEF Agrees
<1>10. did'[p] = {}
  BY <1>1, <1>3 DEF Held, Provisions
<1>11. Held(p)'
  BY <1>3, <1>4, <1>5, <1>7, <1>8, <1>9, <1>10 DEF Held, Starting, Changing, Provisions
<1> QED
  BY <1>3, <1>4, <1>11 DEF Window, Open

LEMMA WindowBooted ==
  ASSUME WindowSoFar, NEW p \in Proc, Boots(p)
  PROVE  Window(p)'
<1>0. TypeOK /\ h[p] \in Records
  BY DEF WindowSoFar, ShapeInv, TypeOK
<1>1. Held(p) /\ pc[p] = "boot" /\ rec' = h[p] /\ UNCHANGED <<guest, secret>>
  BY DEF WindowSoFar, WindowInv, Boots
<1>2. Agrees(p) /\ rec.on /\ rec.started
  BY <1>1 DEF Held, Starting, WindowSoFar, WindowInv
<1>3. rec'.on /\ rec'.started /\ rec'.prov = rec.prov
  BY <1>1, <1>2 DEF Agrees
<1>4. CASE End(p, "started")
  BY <1>0, <1>3, <1>4, EndedHeld DEF Window, Open, Results
<1>5. CASE plan[p] # {} /\ Go(p, "packages") /\ UNCHANGED <<lock, result, mine>>
  <2>1. /\ pc'[p] = "packages" /\ h'[p] = h[p] /\ plan'[p] = plan[p]
        /\ restore'[p] = restore[p] /\ did'[p] = did[p]
    BY <1>0, <1>5 DEF Go, mine, TypeOK
  <2>2. Agrees(p)'
    BY <1>1, <2>1 DEF Agrees
  <2>3. Held(p)'
    BY <1>1, <1>3, <1>5, <2>1, <2>2 DEF Held, Starting, Changing, Provisions
  <2> QED
    BY <1>3, <2>3 DEF Window, Open
<1> QED
  BY <1>4, <1>5 DEF Boots

LEMMA WindowUndone ==
  ASSUME WindowSoFar, NEW p \in Proc, Undo(p) \/ Reset(p) \/ SaveRestored(p)
  PROVE  Window(p)'
<1>0. TypeOK /\ rec \in Records /\ guest \in Guests
  BY DEF WindowSoFar, ShapeInv, TypeOK
<1>1. Held(p) /\ (rec.on => rec.started) /\ (Open(rec) => IsFactory)
  BY DEF WindowSoFar, WindowInv
<1>2. CASE Undo(p)
  <2>1. pc[p] \in Starting /\ rec.on /\ rec.started
    BY <1>1, <1>2 DEF Undo, Held, Starting
  <2>2. rec' = [rec EXCEPT !.on = FALSE]
    BY <1>2 DEF Undo
  <2>3. ~rec'.on /\ rec'.started /\ rec'.prov = rec.prov
    BY <1>0, <2>1, <2>2, SwitchTyped
  <2>4. CASE End(p, "failed")
    BY <1>0, <2>3, <2>4, EndedHeld DEF Window, Open, Results
  <2>5. CASE restore[p] # {} /\ Go(p, "reset") /\ UNCHANGED <<lock, result, mine>>
    <3>1. pc'[p] = "reset" /\ restore'[p] = restore[p]
      BY <1>0, <2>5 DEF Go, mine, TypeOK
    <3>2. rec'.prov = {} /\ \A r \in restore[p] : Open(r)
      BY <1>1, <2>3, <2>5 DEF Held
    <3>3. Held(p)'
      BY <2>3, <2>5, <3>1, <3>2 DEF Held, Starting, Changing, Provisions
    <3> QED
      BY <2>3, <3>3 DEF Window, Open
  <2> QED
    BY <1>2, <2>4, <2>5 DEF Undo
<1>3. CASE Reset(p)
  <2>1. pc[p] = "reset" /\ rec' = rec /\ FactoryReset
    BY <1>3 DEF Reset
  <2>2. IsFactory'
    BY <2>1 DEF FactoryReset, IsFactory, Factory
  <2>3. pc'[p] = "restore" /\ restore'[p] = restore[p] /\ did'[p] = did[p]
    BY <1>0, <1>3 DEF Reset, Go, mine, TypeOK
  <2>4. Held(p)'
    BY <1>1, <2>1, <2>2, <2>3 DEF Held, Starting, Changing, Provisions
  <2> QED
    BY <1>1, <2>1, <2>2, <2>4 DEF Window
<1>4. CASE SaveRestored(p)
  <2>1. pc[p] = "restore" /\ IsFactory
    BY <1>1, <1>4 DEF SaveRestored, Held
  <2>2. PICK r \in restore[p] : rec' = [r EXCEPT !.on = FALSE]
    BY <1>4 DEF SaveRestored
  <2>3. r \in Records
    BY <1>0 DEF TypeOK
  <2>4. ~rec'.on
    BY <2>2, <2>3, SwitchTyped
  <2>5. IsFactory'
    BY <1>4, <2>1, FactoryKept DEF SaveRestored
  <2> QED
    BY <1>0, <1>4, <2>4, <2>5, EndedHeld DEF Window, SaveRestored, Results
<1> QED
  BY <1>2, <1>3, <1>4


\* The steps of a first boot change neither the window nor the plan.
LEMMA StepsKeep ==
  ASSUME WindowSoFar, NEW p \in Proc, Stepping(p)
  PROVE  /\ pc[p] \in Provisions \ {"record"} /\ pc'[p] \in Provisions
         /\ plan'[p] = plan[p] /\ restore'[p] = restore[p] /\ lock' = lock
         /\ rec'.prov = rec.prov /\ rec'.started = rec.started /\ rec'.on = rec.on
         /\ rec'.opts.dm = rec.opts.dm /\ rec'.opts.all = rec.opts.all
         /\ guest'.boots = guest.boots
         /\ pc'[p] # "record" => Agrees(p)'
<1>0. TypeOK /\ rec \in Records /\ h[p] \in Records /\ guest \in Guests
  BY DEF WindowSoFar, ShapeInv, TypeOK
<1>1. Held(p)
  BY DEF WindowSoFar, WindowInv
<1>2. PICK at, next \in Provisions : Step(p, at, next)
  BY StepsGoOn
<1>3. /\ pc[p] = at /\ pc'[p] = next
      /\ plan'[p] = plan[p] /\ restore'[p] = restore[p] /\ lock' = lock
  BY <1>0, <1>2 DEF Step, Go, TypeOK
<1>4. pc[p] # "record"
  BY DEF Stepping, Step, InstallPackages, ApplyMode, ApplyLicense, CreateUser, DisableAdmin,
     RecordLogin
<1>5. Agrees(p)
  BY <1>1, <1>3, <1>4 DEF Held, Starting
<1>6. CASE Skip
  BY <1>2, <1>3, <1>4, <1>5, <1>6 DEF Skip, Agrees
<1>7. CASE InstallPackages(p) /\ ~Skip
  <2>1. PICK v : /\ guest' = [guest EXCEPT !.pkgs = @ \cup v]
                 /\ rec' = [rec EXCEPT !.opts.pkgs = v]
                 /\ h' = [h EXCEPT ![p].opts.pkgs = v]
    BY <1>7 DEF InstallPackages
  <2>2. h'[p] = [h[p] EXCEPT !.opts.pkgs = v]
    BY <1>0, <2>1 DEF TypeOK
  <2>3. Alike(rec, rec') /\ Alike(h[p], h'[p]) /\ rec'.opts.pkgs = v /\ h'[p].opts.pkgs = v
    BY <1>0, <2>1, <2>2, PkgsKeeps
  <2>4. guest'.boots = guest.boots
    BY <1>0, <2>1, GuestKeeps
  <2>5. Agrees(p)'
    BY <1>5, <2>3 DEF Agrees, Alike
  <2> QED
    BY <1>2, <1>3, <1>4, <2>3, <2>4, <2>5 DEF Alike
<1>8. CASE ApplyMode(p) /\ ~Skip
  <2>1. PICK v : /\ guest' = [guest EXCEPT !.dm = v]
                 /\ rec' = rec \/ rec' = h[p]
                 /\ h' = h
    BY <1>8 DEF ApplyMode
  <2>2. guest'.boots = guest.boots
    BY <1>0, <2>1, GuestKeeps
  <2> QED
    BY <1>2, <1>3, <1>4, <1>5, <2>1, <2>2 DEF Agrees
<1>9. CASE ApplyLicense(p) /\ ~Skip
  <2>1. PICK v : /\ guest' = [guest EXCEPT !.level = v]
                 /\ rec' = [rec EXCEPT !.opts.level = v]
                 /\ h' = [h EXCEPT ![p].opts.level = v]
    BY <1>9 DEF ApplyLicense
  <2>2. h'[p] = [h[p] EXCEPT !.opts.level = v]
    BY <1>0, <2>1 DEF TypeOK
  <2>6. Alike(rec, rec') /\ rec'.opts.pkgs = rec.opts.pkgs
    BY <1>0, <2>1, LevelKeeps
  <2>7. Alike(h[p], h'[p]) /\ h'[p].opts.pkgs = h[p].opts.pkgs
    BY <1>0, <2>2, LevelKeeps
  <2>3. /\ Alike(rec, rec') /\ Alike(h[p], h'[p])
        /\ rec'.opts.pkgs = rec.opts.pkgs /\ h'[p].opts.pkgs = h[p].opts.pkgs
    BY <2>6, <2>7
  <2>4. guest'.boots = guest.boots
    BY <1>0, <2>1, GuestKeeps
  <2>5. Agrees(p)'
    BY <1>5, <2>3 DEF Agrees, Alike
  <2> QED
    BY <1>2, <1>3, <1>4, <2>3, <2>4, <2>5 DEF Alike
<1>10. CASE CreateUser(p) \/ DisableAdmin(p)
  <2>1. rec' = rec /\ h' = h
    BY <1>10 DEF CreateUser, DisableAdmin
  <2>2. PICK v : guest' = [guest EXCEPT !.users = v] \/ guest' = [guest EXCEPT !.adminOff = v]
    BY <1>10 DEF CreateUser, DisableAdmin
  <2>4. /\ [guest EXCEPT !.users = v].boots = guest.boots
        /\ [guest EXCEPT !.adminOff = v].boots = guest.boots
    BY <1>0 DEF Guests
  <2>3. guest'.boots = guest.boots
    BY <2>2, <2>4
  <2> QED
    BY <1>2, <1>3, <1>4, <1>5, <2>1, <2>3 DEF Agrees
<1>11. CASE RecordLogin(p)
  <2>1. pc'[p] = "record"
    BY <1>0, <1>11 DEF RecordLogin, Step, Go, TypeOK
  <2>2. PICK v : rec' = rec \/ rec' = [rec EXCEPT !.opts.user = v, !.hidden = TRUE]
    BY <1>11 DEF RecordLogin
  <2>4. guest' = guest
    BY <1>11 DEF RecordLogin
  <2>3. /\ rec'.prov = rec.prov /\ rec'.started = rec.started /\ rec'.on = rec.on
        /\ rec'.opts.dm = rec.opts.dm /\ rec'.opts.all = rec.opts.all
    <3>1. CASE rec' = [rec EXCEPT !.opts.user = v, !.hidden = TRUE]
      BY <1>0, <3>1, LoginKeeps
    <3> QED
      BY <2>2, <3>1
  <2> QED
    BY <1>2, <1>3, <1>4, <2>1, <2>3, <2>4
<1> QED
  BY <1>6, <1>7, <1>8, <1>9, <1>10, <1>11 DEF Stepping

LEMMA WindowStepped ==
  ASSUME WindowSoFar, NEW p \in Proc, Stepping(p)
  PROVE  Window(p)'
<1>1. Held(p)
  BY DEF WindowSoFar, WindowInv
<1>2. /\ pc[p] \in Provisions /\ pc'[p] \in Provisions
      /\ plan'[p] = plan[p] /\ restore'[p] = restore[p]
      /\ rec'.prov = rec.prov /\ rec'.started = rec.started /\ rec'.on = rec.on
      /\ guest'.boots = guest.boots
      /\ pc'[p] # "record" => Agrees(p)'
  BY StepsKeep
<1>3. rec.on /\ rec.started
  BY <1>1, <1>2 DEF Held, Starting, WindowSoFar, WindowInv
<1>4. Held(p)'
  BY <1>1, <1>2, <1>3 DEF Held, Starting, Changing, Provisions
<1> QED
  BY <1>2, <1>3, <1>4 DEF Window, Open

LEMMA WindowChanged ==
  ASSUME WindowSoFar, NEW p \in Proc,
         \/ Record(p) \/ Fails(p) \/ SetMode(p) \/ RecordMode(p) \/ Install(p) \/ RecordInstall(p)
  PROVE  Window(p)'
<1>0. TypeOK /\ rec \in Records /\ h[p] \in Records /\ guest \in Guests
  BY DEF WindowSoFar, ShapeInv, TypeOK
<1>1. Held(p) /\ (rec.on => rec.started)
  BY DEF WindowSoFar, WindowInv
<1>2. pc[p] \in {"record"} \cup Changing
  BY DEF Record, Fails, SetMode, RecordMode, Install, RecordInstall, Changing
<1>3. rec.on /\ rec.started
  BY <1>1, <1>2 DEF Held, Starting, Provisions
<1>4. rec'.on /\ rec'.started
  <2>1. CASE Record(p)
    BY <1>0, <1>3, <2>1 DEF Record, Records
  <2>2. CASE SetMode(p)
    <3>1. Agrees(p)
      BY <1>1, <2>2 DEF SetMode, Held, Changing
    <3> QED
      BY <1>3, <2>2, <3>1 DEF SetMode, Agrees
  <2>3. CASE RecordMode(p)
    BY <1>0, <1>3, <2>3, ModeKeeps DEF RecordMode
  <2>4. CASE RecordInstall(p)
    <3>1. \E v, P : rec' = [rec EXCEPT !.opts.pkgs = v, !.prov = P]
      BY <2>4 DEF RecordInstall
    <3> QED
      BY <1>0, <1>3, <3>1, InstalledKeeps
  <2>5. CASE Fails(p) \/ Install(p)
    BY <1>3, <2>5 DEF Fails, Install
  <2> QED
    BY <2>1, <2>2, <2>3, <2>4, <2>5
<1>5. CASE \E how \in Results : End(p, how)
  BY <1>0, <1>4, <1>5, EndedHeld DEF Window, Open
<1>6. CASE SetMode(p)
  <2>1. Agrees(p) /\ pc[p] = "set"
    BY <1>1, <1>6 DEF SetMode, Held, Changing
  <2>2. pc'[p] = "setRecord" /\ h'[p] = h[p] /\ restore'[p] = restore[p] /\ did'[p] = did[p]
    BY <1>0, <1>6 DEF SetMode, Go, mine, TypeOK
  <2>3. Agrees(p)'
    BY <1>6, <2>1, <2>2 DEF SetMode, Agrees
  <2>4. restore[p] = {} /\ did[p] = {}
    BY <1>1, <2>1 DEF Held, Starting, Provisions
  <2>5. Held(p)'
    BY <1>4, <2>2, <2>3, <2>4 DEF Held, Starting, Changing, Provisions
  <2> QED
    BY <1>4, <2>5 DEF Window, Open
<1>7. CASE Install(p) /\ Go(p, "installRecord") /\ UNCHANGED <<lock, result, mine>>
  <2>1. Agrees(p) /\ pc[p] = "install" /\ rec' = rec
    BY <1>1, <1>7 DEF Install, Held, Changing
  <2>2. pc'[p] = "installRecord" /\ h'[p] = h[p] /\ restore'[p] = restore[p] /\ did'[p] = did[p]
    BY <1>0, <1>7 DEF Go, mine, TypeOK
  <2>3. Agrees(p)'
    BY <2>1, <2>2 DEF Agrees
  <2>4. restore[p] = {} /\ did[p] = {}
    BY <1>1, <2>1 DEF Held, Starting, Provisions
  <2>5. Held(p)'
    BY <1>4, <2>2, <2>3, <2>4 DEF Held, Starting, Changing, Provisions
  <2> QED
    BY <1>4, <2>5 DEF Window, Open
<1> QED
  BY <1>5, <1>6, <1>7 DEF Record, Fails, RecordMode, Install, RecordInstall, Results

LEMMA WindowUnlocked ==
  ASSUME WindowSoFar, NEW p \in Proc, License(p) \/ Stop(p) \/ Crash(p)
  PROVE  Window(p)'
<1>0. TypeOK /\ rec \in Records
  BY DEF WindowSoFar, ShapeInv, TypeOK
<1>1. (rec.on => rec.started) /\ (Open(rec) => IsFactory)
  BY DEF WindowSoFar, WindowInv
<1>2. Held(p)'
  BY <1>0, EndedHeld DEF License, Stop, Crash, Results
<1>3. CASE UNCHANGED <<rec, guest, secret>>
  BY <1>1, <1>2, <1>3 DEF Window, Open, IsFactory
<1>4. CASE Renews(p)
  <2>1. Alike(rec, rec') /\ rec.on
    BY <1>4, RenewsLevel DEF WindowSoFar
  <2> QED
    BY <1>1, <1>2, <2>1 DEF Window, Open, Alike
<1>5. CASE rec' = [rec EXCEPT !.on = FALSE] /\ UNCHANGED <<guest, secret>>
  <2>1. ~rec'.on /\ rec'.started = rec.started /\ rec'.prov = rec.prov
    BY <1>0, <1>5, SwitchTyped
  <2>2. Open(rec') => IsFactory'
    BY <1>1, <1>5, <2>1, FactoryKept DEF Open
  <2> QED
    BY <1>2, <2>1, <2>2 DEF Window, Open
<1>6. lock # p \/ UNCHANGED <<rec, guest, secret>>
  <2>1. CASE License(p) \/ Stop(p)
    BY <2>1 DEF License, Stop, Begin, WindowSoFar, ShapeInv, LockInv, Holding, Starting,
       Changing,
       Provisions
  <2>2. CASE Crash(p)
    BY <2>2 DEF Crash
  <2> QED
    BY <2>1, <2>2
<1>7. Act(p)
  BY DEF Act
<1> QED
  BY <1>3, <1>4, <1>5, <1>6, <1>7, Writers DEF WindowSoFar

LEMMA WindowCleaned ==
  ASSUME WindowSoFar, NEW p \in Proc, Erase(p) \/ SaveCleaned(p)
  PROVE  Window(p)'
<1>0. TypeOK /\ rec \in Records
  BY DEF WindowSoFar, ShapeInv, TypeOK
<1>1. Held(p)
  BY DEF WindowSoFar, WindowInv
<1>2. CASE Erase(p)
  <2>1. IsFactory'
    BY <1>2 DEF Erase, FactoryReset, IsFactory, Factory
  <2>2. ~rec'.on
    BY <1>0, <1>2, SwitchTyped DEF Erase
  <2>3. pc'[p] = "cleaned" /\ restore'[p] = restore[p] /\ did'[p] = did[p] /\ pc[p] = "erase"
    BY <1>0, <1>2 DEF Erase, Go, mine, TypeOK
  <2>4. restore[p] = {} /\ did[p] = {}
    BY <1>1, <2>3 DEF Held, Starting, Provisions
  <2>5. Held(p)'
    BY <2>1, <2>2, <2>3, <2>4 DEF Held, Starting, Changing, Provisions
  <2> QED
    BY <2>1, <2>2, <2>5 DEF Window
<1>3. CASE SaveCleaned(p)
  <2>1. IsFactory /\ pc[p] = "cleaned"
    BY <1>1, <1>3 DEF SaveCleaned, Held
  <2>2. IsFactory'
    BY <1>3, <2>1, FactoryKept DEF SaveCleaned
  <2>3. ~rec'.on
    BY <1>0, <1>3, CleanTyped DEF SaveCleaned
  <2> QED
    BY <1>0, <1>3, <2>2, <2>3, EndedHeld DEF Window, SaveCleaned, Results
<1> QED
  BY <1>2, <1>3

LEMMA WindowStep == WindowSoFar /\ [Next]_vars => WindowSoFar'
<1> SUFFICES ASSUME WindowSoFar, [Next]_vars PROVE WindowSoFar'
  OBVIOUS
<1>1. ShapeInv'
  BY ShapeStep DEF WindowSoFar
<1>2. CASE UNCHANGED vars
  BY <1>1, <1>2 DEF WindowSoFar, WindowInv, Held, Agrees, IsFactory, Open, vars
<1>3. CASE Next
  <2>1. PICK p \in Proc : Act(p)
    BY <1>3, NextActs
  <2>2. Window(p)'
    BY <2>1, WindowEntered, WindowLaunched, WindowBooted, WindowUndone, WindowStepped,
       WindowChanged, WindowUnlocked, WindowCleaned
       DEF Act, Stepping
  <2>3. \A x \in Proc : Held(x)'
    BY <2>1, <2>2, OthersHeld DEF Window
  <2>4. WindowInv'
    BY <2>2, <2>3 DEF WindowInv, Window
  <2> QED
    BY <1>1, <2>4 DEF WindowSoFar
<1> QED
  BY <1>2, <1>3

LEMMA WindowInit == Init => WindowSoFar
<1> SUFFICES ASSUME Init PROVE WindowSoFar
  OBVIOUS
<1>1. ~rec.on /\ IsFactory
  BY DEF Init, NewRecord, IsFactory, Factory
<1>2. \A p \in Proc : pc[p] = "idle" /\ restore[p] = {} /\ did[p] = {}
  BY DEF Init
<1>3. \A p \in Proc : Held(p)
  BY <1>2 DEF Held, Starting, Changing, Provisions
<1> QED
  BY <1>1, <1>3, ShapeInit DEF WindowSoFar, WindowInv

\* An open window is a factory disk with no credentials stored, and a step of a first
\* boot only meets a guest on its first boot, whatever was rolled back, cleaned,
\* overtaken or killed before: isProvisioningWindowOpen() and the rollback.
THEOREM WindowKept == Spec => []WindowIsFactory
<1>1. Init => WindowSoFar
  BY WindowInit
<1>2. WindowSoFar /\ [Next]_vars => WindowSoFar'
  BY WindowStep
<1>3. WindowSoFar => WindowIsFactory
  BY DEF WindowSoFar, WindowInv, Held, WindowIsFactory, OpenIsFactory, MeetsFirstBoot,
     IsFactory,
     Starting
<1> QED
  BY <1>1, <1>2, <1>3, PTL DEF Spec


----------------------------------------------------------------------------
(* The login *)

LoginSoFar == WindowSoFar /\ LoginInv

StoredInv == secret \subseteq guest.users

LoginApplied ==
  NoneAt("cleaned") /\ Applied(rec) \cap Logins # {} => secret # {} /\ rec.hidden

LoginDid(p) ==
  pc[p] \in Provisions =>
    /\ \A q \in plan[p] : did[p] \subseteq Asks(q)
    /\ did[p] \cap Logins # {} => secret # {}
    /\ pc[p] = "record" /\ did[p] \cap Logins # {} => rec.hidden

LEMMA LoginParts == LoginInv <=> StoredInv /\ LoginApplied /\ \A p \in Proc : LoginDid(p)
BY DEF LoginInv, StoredInv, LoginApplied, LoginDid

Login3(p) == StoredInv /\ LoginApplied /\ LoginDid(p)

\* Whoever provisions holds the lock: others renew the license at most.
LEMMA OthersLogin ==
  ASSUME LoginSoFar, NEW p \in Proc, Act(p), NEW x \in Proc, x # p
  PROVE  LoginDid(x)'
<1>1. LoginDid(x)
  BY LoginParts DEF LoginSoFar
<1>2. pc'[x] = pc[x] /\ plan'[x] = plan[x] /\ did'[x] = did[x]
  BY OnlyOwn DEF LoginSoFar, WindowSoFar, ShapeInv
<1>3. CASE pc[x] \notin Provisions
  BY <1>2, <1>3 DEF LoginDid
<1>4. CASE pc[x] \in Provisions
  <2>1. lock = x
    BY <1>4 DEF LoginSoFar, WindowSoFar, ShapeInv, LockInv, Holding, Starting
  <2>2. lock # p /\ lock # None
    BY <2>1, ProvisioningAssumption
  <2>3. UNCHANGED <<rec, guest, secret>> \/ Renews(p)
    BY <2>2, Writers DEF LoginSoFar, WindowSoFar
  <2>4. secret' = secret /\ rec'.hidden = rec.hidden
    BY <2>3, RenewsLevel DEF LoginSoFar, WindowSoFar, Alike
  <2> QED
    BY <1>1, <1>2, <2>4 DEF LoginDid, Asks, Given
<1> QED
  BY <1>3, <1>4

\* The record's steps and the store go on saying the same of the login.
LEMMA LoginAlike ==
  ASSUME TypeOK, NEW p \in Proc, Act(p), pc[p] # "cleaned", LoginApplied,
         Applied(rec') \cap Logins \subseteq Applied(rec),
         rec'.hidden = rec.hidden, secret' = secret
  PROVE  LoginApplied'
<1>1. NoneAt("cleaned")' => NoneAt("cleaned")
  BY OnlyOwn DEF NoneAt
<1>2. Applied(rec)' = Applied(rec')
  BY DEF Applied
<1> QED
  BY <1>1, <1>2 DEF LoginApplied

LEMMA NoneApplied ==
  ASSUME rec'.prov = {} PROVE LoginApplied'
BY DEF LoginApplied, Applied

LEMMA LoginUnwritten ==
  ASSUME CleansEnd, LoginSoFar, NEW p \in Proc,
         \/ LookStart(p) \/ LockStart(p) \/ EnterSet(p) \/ EnterInstall(p) \/ EnterClean(p)
         \/ Fails(p) \/ Crash(p) \/ License(p) \/ Stop(p)
  PROVE  Login3(p)'
<1>0. TypeOK /\ rec \in Records /\ Act(p) /\ StoredInv /\ LoginApplied
  BY LoginParts DEF LoginSoFar, WindowSoFar, ShapeInv, TypeOK, Act
<1>1. pc[p] # "cleaned"
  BY DEF LookStart, LockStart, EnterSet, EnterInstall, EnterClean, Enter, Fails, Crash,
     License, Stop,
     Begin, CleansEnd, LoginSoFar, WindowSoFar, ShapeInv, CallInv
<1>2. \/ UNCHANGED <<rec, guest, secret>> \/ Renews(p)
      \/ rec' = [rec EXCEPT !.on = FALSE] /\ UNCHANGED <<guest, secret>>
  <2>1. lock # p \/ UNCHANGED <<rec, guest, secret>>
    <3>1. CASE License(p) \/ Stop(p)
      BY <3>1 DEF License, Stop, Begin, LoginSoFar, WindowSoFar, ShapeInv, LockInv, Holding,
         Starting, Changing, Provisions
    <3> QED
      BY <3>1 DEF LookStart, LockStart, EnterSet, EnterInstall, EnterClean, Enter, Fails, Crash
  <2> QED
    BY <1>0, <2>1, Writers DEF LoginSoFar, WindowSoFar
<1>3. /\ rec'.prov = rec.prov /\ rec'.hidden = rec.hidden
      /\ secret' = secret /\ guest'.users = guest.users
  <2>1. CASE Renews(p)
    BY <2>1, RenewsLevel DEF LoginSoFar, WindowSoFar, Alike
  <2> QED
    BY <1>0, <1>2, <2>1, SwitchTyped
<1>4. LoginApplied'
  <2>1. Applied(rec') = Applied(rec)
    BY <1>3 DEF Applied
  <2> QED
    BY <1>0, <1>1, <1>3, <2>1, LoginAlike
<1>5. pc'[p] \notin Provisions
  BY <1>0 DEF LookStart, LockStart, EnterSet, EnterInstall, EnterClean, Enter, Fails, Crash,
     License,
     Stop, End, Go, TypeOK, Provisions
<1> QED
  BY <1>0, <1>3, <1>4, <1>5 DEF Login3, StoredInv, LoginDid

LEMMA LoginStarted ==
  ASSUME LoginSoFar, NEW p \in Proc,
         Launch(p) \/ Boots(p) \/ Undo(p) \/ Reset(p) \/ SaveRestored(p) \/ Record(p)
  PROVE  Login3(p)'
<1>0. TypeOK /\ rec \in Records /\ h[p] \in Records /\ Act(p)
  BY DEF LoginSoFar, WindowSoFar, ShapeInv, TypeOK, Act
<1>1. StoredInv /\ LoginApplied /\ LoginDid(p) /\ Held(p)
  BY LoginParts DEF LoginSoFar, WindowSoFar, WindowInv
<1>2. CASE Launch(p) \/ Boots(p)
  <2>1. Agrees(p) /\ pc[p] \in {"launch", "boot"} /\ did[p] = {}
    BY <1>1, <1>2 DEF Launch, Boots, Held, Starting, Provisions
  <2>2. rec'.prov = h[p].prov /\ rec'.hidden = h[p].hidden
    <3>1. rec' = h[p] \/ rec' = [h[p] EXCEPT !.on = TRUE, !.started = TRUE]
      BY <1>0, <1>2 DEF Launch, Boots, TypeOK
    <3> QED
      BY <1>0, <3>1 DEF Records
  <2>3. rec'.prov = rec.prov /\ rec'.hidden = rec.hidden
    BY <2>1, <2>2 DEF Agrees
  <2>4. secret' = secret /\ guest'.users = guest.users
    BY <1>0, <1>2 DEF Launch, Boots, TypeOK, Guests
  <2>5. LoginApplied'
    <3>1. Applied(rec') = Applied(rec)
      BY <2>3 DEF Applied
    <3> QED
      BY <1>0, <1>1, <2>1, <2>3, <2>4, <3>1, LoginAlike
  <2>6. pc'[p] \in {"boot", "packages", "idle"} /\ (pc'[p] = "packages" => did'[p] = {})
    BY <1>0, <1>2, <2>1 DEF Launch, Boots, Go, End, mine, TypeOK
  <2> QED
    BY <1>1, <2>4, <2>5, <2>6 DEF Login3, StoredInv, LoginDid, Provisions
<1>3. CASE Undo(p)
  <2>1. pc[p] # "cleaned" /\ rec' = [rec EXCEPT !.on = FALSE] /\ UNCHANGED <<guest, secret>>
    BY <1>3 DEF Undo, Provisions
  <2>2. LoginApplied'
    <3>1. Applied(rec') = Applied(rec) /\ rec'.hidden = rec.hidden
      BY <1>0, <2>1, SwitchTyped DEF Applied
    <3> QED
      BY <1>0, <1>1, <2>1, <3>1, LoginAlike
  <2>3. pc'[p] \notin Provisions
    BY <1>0, <1>3 DEF Undo, Go, End, TypeOK, Provisions
  <2> QED
    BY <1>1, <2>1, <2>2, <2>3 DEF Login3, StoredInv, LoginDid
<1>4. CASE Reset(p) \/ SaveRestored(p)
  <2>1. rec'.prov = {}
    <3>1. CASE Reset(p)
      BY <1>1, <3>1 DEF Reset, Held
    <3>2. CASE SaveRestored(p)
      <4>1. PICK r \in restore[p] : rec' = [r EXCEPT !.on = FALSE]
        BY <3>2 DEF SaveRestored
      <4>2. r \in Records /\ r.prov = {}
        BY <1>0, <1>1 DEF TypeOK, Held, Open
      <4> QED
        BY <4>1, <4>2, SwitchTyped
    <3> QED
      BY <1>4, <3>1, <3>2
  <2>2. StoredInv'
    BY <1>1, <1>4 DEF Reset, SaveRestored, FactoryReset, Factory, StoredInv
  <2>3. pc'[p] \notin Provisions
    BY <1>0, <1>4 DEF Reset, SaveRestored, Go, End, TypeOK, Provisions
  <2> QED
    BY <2>1, <2>2, <2>3, NoneApplied DEF Login3, LoginDid
<1>5. CASE Record(p)
  <2>1. rec' = [rec EXCEPT !.prov = {did[p]}] /\ UNCHANGED <<guest, secret>> /\ pc[p] = "record"
    BY <1>5 DEF Record
  <2>2. did[p] \in SUBSET StepNames
    BY <1>0 DEF TypeOK
  <2>3. rec'.prov = {did[p]} /\ rec'.hidden = rec.hidden
    BY <1>0, <2>1, <2>2, ProvTyped
  <2>4. Applied(rec)' = did[p]
    BY <2>3 DEF Applied
  <2>5. LoginApplied'
    BY <1>1, <2>1, <2>3, <2>4 DEF LoginApplied, LoginDid, Provisions
  <2>6. pc'[p] = "idle"
    BY <1>0, <1>5 DEF Record, End, TypeOK
  <2> QED
    BY <1>1, <2>1, <2>5, <2>6 DEF Login3, StoredInv, LoginDid, Provisions
<1> QED
  BY <1>2, <1>3, <1>4, <1>5


LEMMA LoginStepped ==
  ASSUME LoginSoFar, NEW p \in Proc, Stepping(p)
  PROVE  Login3(p)'
<1>0. TypeOK /\ rec \in Records /\ guest \in Guests /\ Act(p) /\ OneEach
  BY DEF LoginSoFar, WindowSoFar, ShapeInv, TypeOK, Act, Stepping
<1>1. StoredInv /\ LoginDid(p) /\ Held(p)
  BY LoginParts DEF LoginSoFar, WindowSoFar, WindowInv
<1>2. /\ pc[p] \in Provisions /\ pc'[p] \in Provisions /\ plan'[p] = plan[p]
      /\ rec'.prov = rec.prov
  BY StepsKeep DEF LoginSoFar
<1>3. LoginApplied'
  <2>1. rec.prov = {}
    BY <1>1, <1>2 DEF Held, Starting
  <2> QED
    BY <1>2, <2>1, NoneApplied
<1>4. PICK q \in plan[p] : \A y \in plan[p] : y = q
  BY <1>0, <1>1, <1>2 DEF Held, OneEach
<1>5. did[p] \subseteq Asks(q) /\ (did[p] \cap Logins # {} => secret # {})
  BY <1>1, <1>2, <1>4 DEF LoginDid
<1>6. did[p] \cap Logins # {} => Account(q) # {}
  BY <1>5 DEF Account, Asks, Logins, Given
<1>7. CASE InstallPackages(p) \/ ApplyMode(p) \/ ApplyLicense(p)
  <2>1. secret' = secret
    BY <1>7 DEF InstallPackages, ApplyMode, ApplyLicense, Skip
  <2>2. guest'.users = guest.users
    <3>1. PICK v : \/ guest' = guest \/ guest' = [guest EXCEPT !.pkgs = v]
                   \/ guest' = [guest EXCEPT !.dm = v] \/ guest' = [guest EXCEPT !.level = v]
      BY <1>7 DEF InstallPackages, ApplyMode, ApplyLicense, Skip
    <3>2. /\ [guest EXCEPT !.pkgs = v].users = guest.users
          /\ [guest EXCEPT !.dm = v].users = guest.users
          /\ [guest EXCEPT !.level = v].users = guest.users
      BY <1>0 DEF Guests
    <3> QED
      BY <3>1, <3>2
  <2>3. PICK s \in {"packages", "deviceMode", "license"} :
          did'[p] = did[p] \/ (s \in Asks(q) /\ did'[p] = did[p] \cup {s})
    <3>1. CASE InstallPackages(p)
      BY <1>0, <1>4, <3>1 DEF InstallPackages, Skip, Do, TypeOK
    <3>2. CASE ApplyMode(p)
      BY <1>0, <1>4, <3>2 DEF ApplyMode, Skip, Do, TypeOK, Asks
    <3>3. CASE ApplyLicense(p)
      BY <1>0, <1>4, <3>3 DEF ApplyLicense, Skip, Do, TypeOK, Asks
    <3> QED
      BY <1>7, <3>1, <3>2, <3>3
  <2>4. pc'[p] # "record"
    BY <1>0, <1>7 DEF InstallPackages, ApplyMode, ApplyLicense, Step, Go, TypeOK
  <2>5. did'[p] \subseteq Asks(q) /\ (did'[p] \cap Logins # {} => secret' # {})
    BY <1>5, <2>1, <2>3 DEF Logins
  <2>6. LoginDid(p)'
    BY <1>2, <1>4, <2>4, <2>5 DEF LoginDid, Asks, Given
  <2> QED
    BY <1>1, <1>3, <2>1, <2>2, <2>6 DEF Login3, StoredInv
<1>8. CASE CreateUser(p)
  <2>1. /\ guest' = [guest EXCEPT !.users = guest.users \cup Account(q)]
        /\ secret' = Stored(Account(q))
        /\ did' = [did EXCEPT ![p] = did[p] \cup (Asks(q) \cap {"user", "disableAdmin", "secureLogin"})]
    BY <1>4, <1>8 DEF CreateUser
  <2>2. guest'.users = guest.users \cup Account(q)
    BY <1>0, <2>1, GuestKeeps
  <2>3. StoredInv'
    BY <1>1, <2>1, <2>2 DEF StoredInv, Stored
  <2>4. did'[p] = did[p] \cup (Asks(q) \cap {"user", "disableAdmin", "secureLogin"})
    BY <1>0, <2>1 DEF TypeOK
  <2>5. did'[p] \subseteq Asks(q)
    BY <1>5, <2>4
  <2>6. did'[p] \cap Logins # {} => Account(q) # {}
    BY <2>5 DEF Account, Asks, Logins, Given
  <2>7. did'[p] \cap Logins # {} => secret' # {}
    BY <2>1, <2>6 DEF Stored
  <2>8. pc'[p] # "record"
    BY <1>0, <1>8 DEF CreateUser, Step, Go, TypeOK
  <2>9. LoginDid(p)'
    BY <1>2, <1>4, <2>5, <2>7, <2>8 DEF LoginDid, Asks, Given
  <2> QED
    BY <1>3, <2>3, <2>9 DEF Login3
<1>9. CASE DisableAdmin(p) \/ RecordLogin(p)
  <2>1. secret' = secret /\ did' = did
    BY <1>9 DEF DisableAdmin, RecordLogin
  <2>2. guest'.users = guest.users
    <3>1. PICK v : guest' = guest \/ guest' = [guest EXCEPT !.adminOff = v]
      BY <1>9 DEF DisableAdmin, RecordLogin
    <3>2. [guest EXCEPT !.adminOff = v].users = guest.users
      BY <1>0 DEF Guests
    <3> QED
      BY <3>1, <3>2
  <2>3. pc'[p] = "record" /\ did[p] \cap Logins # {} => rec'.hidden
    <3>1. CASE DisableAdmin(p)
      BY <1>0, <3>1 DEF DisableAdmin, Step, Go, TypeOK
    <3>2. CASE RecordLogin(p)
      <4>1. Account(q) # {} => rec' = [rec EXCEPT !.opts.user = Account(q), !.hidden = TRUE]
        BY <1>4, <3>2 DEF RecordLogin
      <4>2. [rec EXCEPT !.opts.user = Account(q), !.hidden = TRUE].hidden = TRUE
        BY <1>0 DEF Records
      <4> QED
        BY <1>6, <4>1, <4>2
    <3> QED
      BY <1>9, <3>1, <3>2
  <2>4. LoginDid(p)'
    BY <1>2, <1>4, <1>5, <2>1, <2>3 DEF LoginDid
  <2> QED
    BY <1>1, <1>3, <2>1, <2>2, <2>4 DEF Login3, StoredInv
<1> QED
  BY <1>7, <1>8, <1>9 DEF Stepping

LEMMA LoginChanged ==
  ASSUME LoginSoFar, NEW p \in Proc,
         SetMode(p) \/ RecordMode(p) \/ Install(p) \/ RecordInstall(p)
  PROVE  Login3(p)'
<1>0. TypeOK /\ rec \in Records /\ h[p] \in Records /\ guest \in Guests /\ Act(p)
  BY DEF LoginSoFar, WindowSoFar, ShapeInv, TypeOK, Act
<1>1. StoredInv /\ LoginApplied /\ Held(p)
  BY LoginParts DEF LoginSoFar, WindowSoFar, WindowInv
<1>2. pc[p] \in Changing /\ Agrees(p)
  BY <1>1 DEF SetMode, RecordMode, Install, RecordInstall, Changing, Held
<1>3. secret' = secret /\ guest'.users = guest.users
  <2>1. PICK v : guest' = guest \/ guest' = [guest EXCEPT !.dm = v] \/ guest' = [guest EXCEPT !.pkgs = v]
    BY DEF SetMode, RecordMode, Install, RecordInstall
  <2>2. [guest EXCEPT !.dm = v].users = guest.users /\ [guest EXCEPT !.pkgs = v].users = guest.users
    BY <1>0 DEF Guests
  <2> QED
    BY <2>1, <2>2 DEF SetMode, RecordMode, Install, RecordInstall
<1>4. Applied(h[p]) = Applied(rec)
  BY <1>2 DEF Agrees, Applied
<1>5. rec'.hidden = rec.hidden /\ Applied(rec') \cap Logins \subseteq Applied(rec)
  <2>1. CASE SetMode(p) \/ Install(p)
    BY <1>2, <1>4, <2>1 DEF SetMode, Install, Agrees, Applied
  <2>2. CASE RecordMode(p)
    <3>1. PICK v : rec' = [rec EXCEPT !.opts.dm = v, !.prov = {Applied(rec) \cup {"deviceMode"}}]
      BY <1>4, <2>2 DEF RecordMode
    <3>2. rec'.hidden = rec.hidden /\ rec'.prov = {Applied(rec) \cup {"deviceMode"}}
      BY <1>0, <3>1, ModeKeeps
    <3> QED
      BY <3>2 DEF Applied, Logins
  <2>3. CASE RecordInstall(p)
    <3>1. PICK v, P : /\ rec' = [rec EXCEPT !.opts.pkgs = v, !.prov = P]
                      /\ P = rec.prov \/ P = {Applied(rec) \cup {"packages"}}
      BY <1>4, <2>3 DEF RecordInstall
    <3>2. rec'.hidden = rec.hidden /\ rec'.prov = P
      BY <1>0, <3>1, InstalledKeeps
    <3> QED
      BY <3>1, <3>2 DEF Applied, Logins
  <2> QED
    BY <2>1, <2>2, <2>3
<1>6. LoginApplied'
  BY <1>0, <1>1, <1>2, <1>3, <1>5, LoginAlike DEF Changing
<1>7. pc'[p] \notin Provisions
  BY <1>0 DEF SetMode, RecordMode, Install, RecordInstall, Go, End, TypeOK, Provisions
<1> QED
  BY <1>1, <1>3, <1>6, <1>7 DEF Login3, StoredInv, LoginDid

LEMMA LoginCleaned ==
  ASSUME LoginSoFar, NEW p \in Proc, Erase(p) \/ SaveCleaned(p)
  PROVE  Login3(p)'
<1>0. TypeOK /\ rec \in Records /\ StoredInv
  BY LoginParts DEF LoginSoFar, WindowSoFar, ShapeInv, TypeOK
<1>1. CASE Erase(p)
  <2>1. pc'[p] = "cleaned"
    BY <1>0, <1>1 DEF Erase, Go, TypeOK
  <2>2. secret' = {}
    BY <1>1 DEF Erase, FactoryReset
  <2> QED
    BY <2>1, <2>2 DEF Login3, StoredInv, LoginApplied, NoneAt, LoginDid, Provisions
<1>2. CASE SaveCleaned(p)
  <2>1. rec'.prov = {}
    BY <1>0, <1>2, CleanTyped DEF SaveCleaned
  <2>2. pc'[p] = "idle"
    BY <1>0, <1>2 DEF SaveCleaned, End, TypeOK
  <2>3. StoredInv'
    BY <1>0, <1>2 DEF SaveCleaned, StoredInv
  <2> QED
    BY <2>1, <2>2, <2>3, NoneApplied DEF Login3, LoginDid, Provisions
<1> QED
  BY <1>1, <1>2

LEMMA LoginStep == CleansEnd /\ LoginSoFar /\ [Next]_vars => LoginSoFar'
<1> SUFFICES ASSUME CleansEnd, LoginSoFar, [Next]_vars PROVE LoginSoFar'
  OBVIOUS
<1>1. WindowSoFar'
  BY WindowStep DEF LoginSoFar
<1>2. CASE UNCHANGED vars
  BY <1>1, <1>2 DEF LoginSoFar, LoginInv, NoneAt, Applied, Asks, Given, vars
<1>3. CASE Next
  <2>1. PICK p \in Proc : Act(p)
    BY <1>3, NextActs
  <2>2. Login3(p)'
    BY <2>1, LoginUnwritten, LoginStarted, LoginStepped, LoginChanged, LoginCleaned
       DEF Act, Stepping
  <2>3. \A x \in Proc : LoginDid(x)'
    BY <2>1, <2>2, OthersLogin DEF Login3
  <2>4. (StoredInv /\ LoginApplied /\ \A x \in Proc : LoginDid(x))'
    BY <2>2, <2>3 DEF Login3
  <2>5. LoginInv'
    BY <2>4 DEF LoginInv, StoredInv, LoginApplied, LoginDid
  <2> QED
    BY <1>1, <2>5 DEF LoginSoFar
<1> QED
  BY <1>2, <1>3

LEMMA LoginInit == Init => LoginSoFar
<1> SUFFICES ASSUME Init PROVE LoginSoFar
  OBVIOUS
<1>1. rec.prov = {} /\ secret = {}
  BY DEF Init, NewRecord
<1>2. \A p \in Proc : pc[p] = "idle"
  BY DEF Init
<1> QED
  BY <1>1, <1>2, WindowInit DEF LoginSoFar, LoginInv, Applied, Provisions

\* Where the record says a login was provisioned, the credentials stored are of an
\* account of the guest, so resolveAuth() names one that is accepted, provided that
\* no clean() dies: between its erasing and its saving the record names a lost login.
THEOREM LoginKept == CleansEnd => (Spec => []LoginWorks)
<1> SUFFICES ASSUME CleansEnd PROVE Spec => []LoginWorks
  OBVIOUS
<1>1. Init => LoginSoFar
  BY LoginInit
<1>2. LoginSoFar /\ [Next]_vars => LoginSoFar'
  BY LoginStep
<1>3. LoginSoFar => LoginWorks
  <2> SUFFICES ASSUME LoginSoFar, lock = None, Applied(rec) \cap Logins # {}
               PROVE  Accepted(Login(rec))
    BY DEF LoginWorks, Logins
  <2>1. NoneAt("cleaned")
    BY ProvisioningAssumption DEF NoneAt, LoginSoFar, WindowSoFar, ShapeInv, LockInv, Holding
  <2>2. secret # {} /\ rec.hidden /\ secret \subseteq guest.users
    BY <2>1 DEF LoginSoFar, LoginInv
  <2> QED
    BY <2>2 DEF Accepted, Login
<1> QED
  BY <1>1, <1>2, <1>3, PTL DEF Spec


----------------------------------------------------------------------------
(* The truth of the record *)

TruthSoFar == LoginSoFar /\ TruthInv

LEMMA SoFar ==
  ASSUME TruthSoFar
  PROVE  /\ ShapeInv /\ TypeOK /\ OneEach /\ WindowSoFar /\ LoginSoFar
         /\ rec \in Records /\ guest \in Guests
         /\ \A p \in Proc : h[p] \in Records /\ Held(p) /\ TrueAt(p)
BY DEF TruthSoFar, LoginSoFar, WindowSoFar, ShapeInv, WindowInv, TypeOK, TruthInv

\* A first boot goes by the record, and gives back what it found.
LEMMA RecordKeeps ==
  ASSUME TruthSoFar, NEW p \in Proc, Act(p)
  PROVE  rec'.opts.all = rec.opts.all /\ (RecordMode(p) \/ rec'.opts.dm = rec.opts.dm)
<1>0. /\ rec \in Records /\ h[p] \in Records /\ Held(p) /\ TrueAt(p)
      /\ TypeOK /\ WindowSoFar /\ ShapeInv
  BY SoFar
<1>1. CASE Launch(p) \/ Boots(p) \/ SetMode(p)
  <2>1. Agrees(p)
    BY <1>0, <1>1 DEF Launch, Boots, SetMode, Held, Starting, Changing, Provisions
  <2>2. rec' = rec \/ rec' = h[p] \/ rec' = [h[p] EXCEPT !.on = TRUE, !.started = TRUE]
    BY <1>0, <1>1 DEF Launch, Boots, SetMode, TypeOK
  <2>3. [h[p] EXCEPT !.on = TRUE, !.started = TRUE].opts = h[p].opts
    BY <1>0 DEF Records
  <2> QED
    BY <2>1, <2>2, <2>3 DEF Agrees
<1>2. CASE Stepping(p)
  BY <1>0, <1>2, StepsKeep
<1>3. CASE Undo(p) \/ Erase(p) \/ Reset(p) \/ Record(p)
  <2>1. \/ rec' = rec \/ rec' = [rec EXCEPT !.on = FALSE]
        \/ did[p] \in SUBSET StepNames /\ rec' = [rec EXCEPT !.prov = {did[p]}]
    BY <1>0, <1>3 DEF Undo, Erase, Reset, Record, TypeOK
  <2>2. /\ [rec EXCEPT !.on = FALSE].opts = rec.opts
        /\ [rec EXCEPT !.prov = {did[p]}].opts = rec.opts
    BY <1>0 DEF Records
  <2> QED
    BY <2>1, <2>2
<1>4. CASE SaveRestored(p)
  <2>1. PICK r \in restore[p] : rec' = [r EXCEPT !.on = FALSE]
    BY <1>4 DEF SaveRestored
  <2>2. r \in Records /\ r.opts.dm = rec.opts.dm /\ r.opts.all = rec.opts.all
    BY <1>0 DEF TypeOK, TrueAt, RestoreAt
  <2> QED
    BY <2>1, <2>2, SwitchTyped
<1>5. CASE SaveCleaned(p)
  BY <1>0, <1>5, CleanTyped DEF SaveCleaned
<1>6. CASE RecordMode(p)
  <2>1. PICK v, P : rec' = [rec EXCEPT !.opts.dm = v, !.prov = P]
    BY <1>6 DEF RecordMode
  <2> QED
    BY <1>0, <1>6, <2>1, ModeKeeps
<1>7. CASE RecordInstall(p) \/ Install(p)
  <2>1. PICK v, P : rec' = rec \/ rec' = [rec EXCEPT !.opts.pkgs = v, !.prov = P]
    BY <1>7 DEF RecordInstall, Install
  <2>2. /\ [rec EXCEPT !.opts.pkgs = v, !.prov = P].opts.all = rec.opts.all
        /\ [rec EXCEPT !.opts.pkgs = v, !.prov = P].opts.dm = rec.opts.dm
    BY <1>0 DEF Records, Options
  <2> QED
    BY <2>1, <2>2
<1>8. CASE License(p) \/ Stop(p)
  <2>1. PICK v : rec' = rec \/ rec' = [rec EXCEPT !.on = FALSE] \/ rec' = [rec EXCEPT !.opts.level = v]
    BY <1>8 DEF License, Stop
  <2>2. Alike(rec, [rec EXCEPT !.opts.level = v])
    BY <1>0, LevelKeeps
  <2> QED
    BY <1>0, <2>1, <2>2, SwitchTyped DEF Alike
<1>9. CASE LookStart(p) \/ LockStart(p) \/ EnterSet(p) \/ EnterInstall(p) \/ EnterClean(p) \/ Fails(p) \/ Crash(p)
  BY <1>9 DEF LookStart, LockStart, EnterSet, EnterInstall, EnterClean, Enter, Fails, Crash
<1> QED
  BY <1>1, <1>2, <1>3, <1>4, <1>5, <1>6, <1>7, <1>8, <1>9 DEF Act, Stepping

\* Only clean() opens a window that no rollback would open.
LEMMA ReopensKept ==
  ASSUME TruthSoFar, NEW p \in Proc, Act(p), Reopens'
  PROVE  ~RecordMode(p) /\ (Reopens \/ SaveCleaned(p))
<1>0. /\ rec \in Records /\ h[p] \in Records /\ Held(p) /\ TypeOK /\ ShapeInv
      /\ LoginSoFar /\ WindowSoFar
  BY SoFar
<1>1. \A x \in Proc : x # p => restore'[x] = restore[x]
  BY <1>0, OnlyOwn
<1>2. \A x \in Proc : x # p /\ restore[x] # {} => lock = x
  <2> SUFFICES ASSUME NEW x \in Proc, restore[x] # {} PROVE lock = x
    OBVIOUS
  <2>1. pc[x] \in {"reset", "restore"} \cup Starting
    BY SoFar DEF Held
  <2> QED
    BY <1>0, <2>1 DEF ShapeInv, LockInv, Holding
<1>3. CASE Launch(p)
  <2>1. Agrees(p) /\ ~rec.on /\ pc[p] = "launch"
    BY <1>0, <1>3 DEF Launch, Held
  <2>2. restore'[p] = BeforeLaunch(h[p]) /\ rec'.started
    BY <1>0, <1>3 DEF Launch, TypeOK, Records
  <2>3. Open(h[p]) <=> Open(rec)
    BY <2>1 DEF Agrees, Open
  <2> QED
    BY <1>1, <1>3, <2>2, <2>3 DEF Reopens, Open, BeforeLaunch, Launch, RecordMode
<1>4. CASE RecordMode(p)
  <2>1. lock = p /\ pc'[p] = "idle" /\ restore'[p] = {}
    BY <1>0, <1>4 DEF RecordMode, End, TypeOK, ShapeInv, LockInv, Holding, Changing
  <2>2. \A x \in Proc : restore'[x] = {}
    BY <1>1, <1>2, <2>1
  <2>3. PICK v, S : rec' = [rec EXCEPT !.opts.dm = v, !.prov = {S}]
    BY <1>4 DEF RecordMode
  <2>4. rec'.prov = {S}
    BY <1>0, <2>3, ModeKeeps
  <2> QED
    BY <2>2, <2>4 DEF Reopens, Open
<1>5. CASE SaveRestored(p)
  BY <1>5 DEF Reopens, SaveRestored, RecordMode
<1>6. CASE /\ ~Launch(p) /\ ~RecordMode(p) /\ ~SaveRestored(p) /\ ~SaveCleaned(p)
  <2>1. restore'[p] = restore[p] \/ restore'[p] = {}
    BY <1>0, <1>6 DEF Act, LookStart, LockStart, Boots, Undo, Reset, InstallPackages, ApplyMode,
       ApplyLicense, CreateUser, DisableAdmin, RecordLogin, Record, EnterSet, EnterInstall,
       EnterClean, Enter, Fails, SetMode, Install, RecordInstall, License, Stop, Erase, Crash, End,
       Step, mine, TypeOK
  <2>2. rec'.started = rec.started /\ (rec'.prov = {} => rec.prov = {})
    <3>1. CASE Boots(p) \/ SetMode(p)
      <4>1. Agrees(p)
        BY <1>0, <3>1 DEF Boots, SetMode, Held, Starting, Changing, Provisions
      <4> QED
        BY <3>1, <4>1 DEF Boots, SetMode, Agrees
    <3>2. CASE Stepping(p)
      BY <1>0, <3>2, StepsKeep
    <3>3. CASE Undo(p) \/ Erase(p) \/ Reset(p) \/ Record(p) \/ Stop(p)
      <4>1. \/ rec' = rec \/ rec' = [rec EXCEPT !.on = FALSE]
            \/ did[p] \in SUBSET StepNames /\ rec' = [rec EXCEPT !.prov = {did[p]}]
        BY <1>0, <3>3 DEF Undo, Erase, Reset, Record, Stop, TypeOK
      <4>2. /\ [rec EXCEPT !.on = FALSE].prov = rec.prov
            /\ [rec EXCEPT !.prov = {did[p]}].prov = {did[p]}
            /\ [rec EXCEPT !.on = FALSE].started = rec.started
            /\ [rec EXCEPT !.prov = {did[p]}].started = rec.started
        BY <1>0 DEF Records
      <4> QED
        BY <4>1, <4>2
    <3>4. CASE RecordInstall(p) \/ Install(p)
      <4>1. PICK v, S : rec' = rec \/ rec' = [rec EXCEPT !.opts.pkgs = v, !.prov = rec.prov]
                        \/ rec' = [rec EXCEPT !.opts.pkgs = v, !.prov = {S}]
        BY <3>4 DEF RecordInstall, Install
      <4>2. /\ [rec EXCEPT !.opts.pkgs = v, !.prov = rec.prov].prov = rec.prov
            /\ [rec EXCEPT !.opts.pkgs = v, !.prov = {S}].prov = {S}
            /\ [rec EXCEPT !.opts.pkgs = v, !.prov = rec.prov].started = rec.started
            /\ [rec EXCEPT !.opts.pkgs = v, !.prov = {S}].started = rec.started
        BY <1>0 DEF Records, Options
      <4> QED
        BY <4>1, <4>2
    <3>5. CASE License(p)
      <4>1. PICK v : rec' = rec \/ rec' = [rec EXCEPT !.opts.level = v]
        BY <3>5 DEF License
      <4>2. Alike(rec, [rec EXCEPT !.opts.level = v])
        BY <1>0, LevelKeeps
      <4> QED
        BY <4>1, <4>2 DEF Alike
    <3>6. CASE LookStart(p) \/ LockStart(p) \/ EnterSet(p) \/ EnterInstall(p) \/ EnterClean(p) \/ Fails(p) \/ Crash(p)
      BY <3>6 DEF LookStart, LockStart, EnterSet, EnterInstall, EnterClean, Enter, Fails, Crash
    <3> QED
      BY <1>6, <3>1, <3>2, <3>3, <3>4, <3>5, <3>6 DEF Act, Stepping
  <2> QED
    BY <1>1, <1>6, <2>1, <2>2 DEF Reopens, Open
<1>7. CASE SaveCleaned(p)
  BY <1>7 DEF SaveCleaned, RecordMode
<1> QED
  BY <1>3, <1>4, <1>5, <1>6, <1>7


\* A renewal leaves a level that was asked for.
LEMMA LevelAsked ==
  ASSUME OneLevel, ShapeInv, NEW p \in Proc, License(p), ~UNCHANGED <<rec, guest, secret>>
  PROVE  Renews(p) /\ \E q \in Requests : q.level # {} /\ guest'.level = q.level
<1>0. guest \in Guests /\ rec \in Records
  BY DEF ShapeInv, TypeOK
<1> DEFINE op == call'[p].op
<1>1. Begin(p, "license")
  BY DEF License
<1>2. op \in Ops[p] /\ op.kind = "license"
  BY <1>1, BeginTyped DEF ShapeInv
<1>3. op.q \in Requests /\ op.q.level # {} /\ op.q.level \in SUBSET Values("level")
  BY <1>2, OpTyped DEF OneLevel, Options
<1>4. /\ rec.on /\ secret' = secret
      /\ guest' = [guest EXCEPT !.level = op.q.level]
      /\ rec' = [rec EXCEPT !.opts.level = op.q.level]
  BY DEF License
<1>5. guest'.level = op.q.level
  BY <1>0, <1>4, GuestKeeps
<1> HIDE DEF op
<1> QED
  BY <1>3, <1>4, <1>5 DEF Renews

\* A holder's work is not undone by the others.
LEMMA OthersChange ==
  ASSUME Undisturbed, TruthSoFar, NEW p \in Proc, Act(p), NEW x \in Proc, x # p
  PROVE  ChangeAt(x)' /\ DidAt(x)' /\ RestoreAt(x)'
<1>0. ShapeInv /\ TypeOK /\ Held(x) /\ TrueAt(x)
  BY SoFar
<1>1. /\ pc'[x] = pc[x] /\ h'[x] = h[x] /\ plan'[x] = plan[x]
      /\ restore'[x] = restore[x] /\ did'[x] = did[x] /\ call'[x] = call[x]
  BY <1>0, OnlyOwn
<1>2. CASE lock # x
  <2>1. pc[x] \in {"idle", "lock"} /\ restore[x] = {}
    BY <1>0, <1>2, NotHolding, RestsEmpty
  <2> QED
    BY <1>1, <2>1 DEF ChangeAt, DidAt, RestoreAt, Provisions
<1>3. CASE lock = x
  <2>1. lock # p /\ lock # None
    BY <1>3, ProvisioningAssumption
  <2>2. UNCHANGED <<rec, guest, secret>> \/ License(p)
    BY <1>0, <2>1, Writers
  <2>3. CASE UNCHANGED <<rec, guest, secret>>
    <3>1. There(did[x]) => There(did[x])'
      BY <1>1, <2>3 DEF There
    <3> QED
      BY <1>0, <1>1, <2>3, <3>1
         DEF TrueAt, ChangeAt, DidAt, RestoreAt, AppliedDeviceMode, Merged, Applied, Asked,
             There
  <2>4. CASE ~UNCHANGED <<rec, guest, secret>>
    <3>1. Renews(p) /\ \E q \in Requests : q.level # {} /\ guest'.level = q.level
      BY <1>0, <2>2, <2>4, LevelAsked DEF Undisturbed
    <3>2. /\ rec'.opts.dm = rec.opts.dm /\ rec'.opts.all = rec.opts.all
          /\ rec'.opts.pkgs = rec.opts.pkgs
          /\ guest'.pkgs = guest.pkgs /\ guest'.dm = guest.dm /\ guest'.adminOff = guest.adminOff
      BY <1>0, <3>1, RenewsLevel DEF Alike
    <3>3. There(did[x]) => There(did[x])'
      BY <1>1, <3>1, <3>2 DEF There
    <3>4. ChangeAt(x)'
      BY <1>0, <1>1, <3>2 DEF TrueAt, ChangeAt, AppliedDeviceMode, Merged, Applied, Asked
    <3>5. DidAt(x)'
      BY <1>0, <1>1, <3>2, <3>3 DEF TrueAt, DidAt
    <3>6. RestoreAt(x)'
      BY <1>0, <1>1, <3>2 DEF TrueAt, RestoreAt
    <3> QED
      BY <3>4, <3>5, <3>6
  <2> QED
    BY <2>3, <2>4
<1> QED
  BY <1>2, <1>3

\* A waiting request is overtaken by a change of the mode or by a clean, not by both.
LEMMA OthersPlan ==
  ASSUME Undisturbed, TruthSoFar, NEW p \in Proc, Act(p), NEW x \in Proc, x # p
  PROVE  PlanAt(x)'
<1>0. ShapeInv /\ TypeOK /\ Held(x) /\ PlanAt(x)
  BY SoFar DEF TrueAt
<1>1. pc'[x] = pc[x] /\ plan'[x] = plan[x]
  BY <1>0, OnlyOwn
<1>2. rec'.opts.all = rec.opts.all /\ (RecordMode(p) \/ rec'.opts.dm = rec.opts.dm)
  BY RecordKeeps
<1> SUFFICES ASSUME NEW q \in plan[x]
             PROVE  /\ pc[x] \in {"launch"} \cup Starting => q.dm = rec'.opts.dm
                    /\ pc[x] = "lock" /\ (NoOtherMay(x, "set") \/ Reopens') => q.dm = rec'.opts.dm
  BY <1>0, <1>1, <1>2 DEF PlanAt
<1>3. ASSUME pc[x] \in {"launch"} \cup Starting PROVE q.dm = rec'.opts.dm
  <2>1. lock = x
    BY <1>0, <1>3 DEF ShapeInv, LockInv, Holding
  <2>2. ~RecordMode(p)
    BY <1>0, <2>1 DEF RecordMode, ShapeInv, LockInv, Holding, Changing
  <2> QED
    BY <1>0, <1>2, <1>3, <2>2 DEF PlanAt
<1>4. ASSUME pc[x] = "lock", NoOtherMay(x, "set") \/ Reopens' PROVE q.dm = rec'.opts.dm
  <2>1. call[x].op \in Ops[x] /\ Kind(x) = "start"
    BY <1>0, <1>4 DEF ShapeInv, CallInv
  <2>2. May(x, "start")
    BY <2>1 DEF May, Kind
  <2>3. CASE RecordMode(p)
    <3>1. pc[p] = "setRecord"
      BY <2>3 DEF RecordMode
    <3>2. call[p].op \in Ops[p] /\ Kind(p) = "set"
      BY <1>0, <3>1 DEF ShapeInv, CallInv
    <3>3. May(p, "set")
      BY <3>2 DEF May, Kind
    <3> QED
      BY <1>4, <2>3, <3>3, ReopensKept DEF NoOtherMay
  <2>4. CASE SaveCleaned(p)
    <3>1. pc[p] = "cleaned"
      BY <2>4 DEF SaveCleaned
    <3>2. call[p].op \in Ops[p] /\ Kind(p) = "clean"
      BY <1>0, <3>1 DEF ShapeInv, CallInv
    <3>3. May(p, "clean")
      BY <3>2 DEF May, Kind
    <3>4. NoOtherMay(x, "set")
      BY <2>2, <3>3 DEF Undisturbed, NotBothOvertake, NoOtherMay
    <3>5. ~RecordMode(p)
      BY <3>1 DEF RecordMode
    <3> QED
      BY <1>0, <1>2, <1>4, <3>4, <3>5 DEF PlanAt
  <2>5. CASE ~RecordMode(p) /\ ~SaveCleaned(p)
    BY <1>0, <1>2, <1>4, <2>5, ReopensKept DEF PlanAt
  <2> QED
    BY <2>3, <2>4, <2>5
<1> QED
  BY <1>3, <1>4


LEMMA OwnPlan ==
  ASSUME Undisturbed, TruthSoFar, NEW p \in Proc, Act(p)
  PROVE  PlanAt(p)'
<1>0. ShapeInv /\ TypeOK /\ Held(p) /\ PlanAt(p) /\ rec \in Records
  BY SoFar DEF TrueAt
<1>2. rec'.opts.all = rec.opts.all /\ (RecordMode(p) \/ rec'.opts.dm = rec.opts.dm)
  BY RecordKeeps
<1>3. CASE \E how \in Results : End(p, how)
  BY <1>0, <1>3 DEF End, TypeOK, PlanAt
<1>4. CASE LookStart(p) /\ rec' = rec /\ UNCHANGED restore
           /\ plan' = [plan EXCEPT ![p] =
                        IF Open(rec) /\ Asks(Pending(rec, call'[p].op.q)) # {}
                        THEN {Pending(rec, call'[p].op.q)} ELSE {}]
           /\ Go(p, "lock")
  <2> DEFINE op == call'[p].op
             P == Pending(rec, op.q)
  <2>1. Begin(p, "start")
    BY <1>4 DEF LookStart
  <2>2. op \in Ops[p] /\ op.kind = "start"
    BY <1>0, <2>1, BeginTyped
  <2>3. op.q \in Requests /\ op.q \in Options
    BY <2>2, OpTyped
  <2>4. op.q.dm = {} /\ (op.q.all # {} => Given(op.q.all))
    BY <2>2 DEF Undisturbed, StartsAddOnly
  <2>5. /\ P.all = IF op.q.all # {} THEN op.q.all ELSE rec.opts.all
        /\ P.dm = IF op.q.dm # {} THEN op.q.dm ELSE rec.opts.dm
        /\ P.level = op.q.level
    BY <1>0, <2>3, PendingFields
  <2>6. plan'[p] \subseteq {P} /\ pc'[p] = "lock"
    BY <1>0, <1>4 DEF TypeOK, Go
  <2> HIDE DEF P
  <2>7. (Given(rec'.opts.all) => Given(P.all)) /\ P.dm = rec'.opts.dm
    BY <1>4, <2>4, <2>5
  <2>8. P.level = {} \/ \E r \in Requests : P.level = r.level
    BY <2>3, <2>5
  <2> QED
    BY <2>6, <2>7, <2>8 DEF PlanAt
<1>5. CASE LockStart(p) /\ rec' = rec /\ pc[p] = "lock"
           /\ plan' = [plan EXCEPT ![p] = Recheck(p).options] /\ Go(p, "launch")
  <2>1. plan'[p] \subseteq plan[p] /\ (plan'[p] # {} => Open(rec)) /\ pc'[p] = "launch"
    BY <1>0, <1>5 DEF TypeOK, Go, Recheck
  <2>2. plan'[p] # {} => Reopens
    BY <2>1 DEF Reopens
  <2> QED
    BY <1>0, <1>5, <2>1, <2>2 DEF PlanAt
<1>6. CASE plan'[p] = plan[p] /\ pc'[p] # "lock"
           /\ (pc'[p] \in {"launch"} \cup Starting => pc[p] \in {"launch"} \cup Starting /\ ~RecordMode(p))
  BY <1>0, <1>2, <1>6 DEF PlanAt
<1>7. CASE Launch(p) \/ Boots(p) \/ Undo(p) \/ Reset(p)
  <2>1. \/ \E how \in Results : End(p, how)
        \/ plan' = plan /\ \E x \in {"boot", "packages", "reset", "restore"} : Go(p, x)
    BY <1>7 DEF Launch, Boots, Undo, Reset, mine, Results
  <2>2. pc[p] \in {"launch"} \cup Starting \/ pc[p] = "reset"
    BY <1>7 DEF Launch, Boots, Undo, Reset, Starting
  <2>3. pc[p] = "reset" => pc'[p] = "restore"
    BY <1>0, <1>7 DEF Launch, Boots, Undo, Reset, Go, TypeOK, Provisions
  <2>4. ~RecordMode(p)
    BY <2>2 DEF RecordMode, Starting, Provisions
  <2>5. CASE plan' = plan /\ \E x \in {"boot", "packages", "reset", "restore"} : Go(p, x)
    <3>1. pc'[p] \in {"boot", "packages", "reset", "restore"} /\ plan'[p] = plan[p]
      BY <1>0, <2>5 DEF Go, TypeOK
    <3> QED
      BY <1>6, <2>2, <2>3, <2>4, <3>1 DEF Starting, Provisions
  <2> QED
    BY <1>3, <2>1, <2>5
<1>8. CASE Stepping(p)
  <2>1. pc[p] \in Provisions /\ pc'[p] \in Provisions /\ plan'[p] = plan[p]
    BY <1>8, StepsKeep, SoFar
  <2>2. ~RecordMode(p)
    BY <2>1 DEF RecordMode, Provisions
  <2> QED
    BY <1>6, <2>1, <2>2 DEF Starting, Provisions
<1>9. CASE EnterSet(p) \/ EnterInstall(p) \/ EnterClean(p) \/ SetMode(p) \/ Install(p) \/ Erase(p)
  <2>1. \/ \E how \in Results : End(p, how)
        \/ plan' = plan /\ \E x \in {"set", "install", "erase", "setRecord", "installRecord", "cleaned"} : Go(p, x)
    BY <1>9 DEF EnterSet, EnterInstall, EnterClean, Enter, SetMode, Install, Erase, mine,
       Results
  <2>2. CASE plan' = plan /\ \E x \in {"set", "install", "erase", "setRecord", "installRecord", "cleaned"} : Go(p, x)
    <3>1. pc'[p] \in {"set", "install", "erase", "setRecord", "installRecord", "cleaned"} /\ plan'[p] = plan[p]
      BY <1>0, <2>2 DEF Go, TypeOK
    <3> QED
      BY <1>6, <3>1 DEF Starting, Provisions
  <2> QED
    BY <1>3, <2>1, <2>2
<1>10. CASE \/ SaveRestored(p) \/ Record(p) \/ Fails(p) \/ RecordMode(p) \/ RecordInstall(p)
            \/ License(p) \/ Stop(p) \/ SaveCleaned(p) \/ Crash(p)
  BY <1>3, <1>10 DEF SaveRestored, Record, Fails, RecordMode, RecordInstall, License, Stop,
     SaveCleaned, Crash, Results
<1>11. CASE LookStart(p)
  BY <1>3, <1>4, <1>11 DEF LookStart, Results
<1>12. CASE LockStart(p)
  BY <1>3, <1>5, <1>12 DEF LockStart, Results
<1> QED
  BY <1>7, <1>8, <1>9, <1>10, <1>11, <1>12 DEF Act, Stepping

LEMMA OwnRestore ==
  ASSUME TruthSoFar, NEW p \in Proc, Act(p)
  PROVE  RestoreAt(p)'
<1>0. ShapeInv /\ TypeOK /\ Held(p) /\ RestoreAt(p) /\ rec \in Records /\ h[p] \in Records
  BY SoFar DEF TrueAt
<1>2. rec'.opts.all = rec.opts.all /\ (RecordMode(p) \/ rec'.opts.dm = rec.opts.dm)
  BY RecordKeeps
<1>3. CASE Launch(p)
  <2>1. Agrees(p) /\ restore'[p] \subseteq {h[p]} /\ ~RecordMode(p)
    BY <1>0, <1>3 DEF Launch, BeforeLaunch, Held, TypeOK, RecordMode
  <2> QED
    BY <1>2, <2>1 DEF Agrees, RestoreAt
<1>4. CASE \E how \in Results : End(p, how)
  BY <1>0, <1>4 DEF End, TypeOK, RestoreAt
<1>5. CASE ~Launch(p) /\ ~\E how \in Results : End(p, how)
  <2>1. restore'[p] = restore[p]
    BY <1>0, <1>5 DEF Act, LookStart, LockStart, Boots, Undo, Reset, SaveRestored,
       InstallPackages,
       ApplyMode, ApplyLicense, CreateUser, DisableAdmin, RecordLogin, Record, EnterSet,
       EnterInstall, EnterClean, Enter, Fails, SetMode, RecordMode, Install, RecordInstall,
       License, Stop, Erase, SaveCleaned, Crash, Step, mine, TypeOK, Results
  <2>2. ~RecordMode(p)
    BY <1>5 DEF RecordMode, Results
  <2> QED
    BY <1>0, <1>2, <2>1, <2>2 DEF RestoreAt
<1> QED
  BY <1>3, <1>4, <1>5

LEMMA OwnChange ==
  ASSUME TruthSoFar, NEW p \in Proc, Act(p)
  PROVE  ChangeAt(p)'
<1>0. /\ ShapeInv /\ TypeOK /\ Held(p) /\ rec \in Records /\ guest \in Guests
      /\ h[p] \in Records /\ AppliedInv
  BY SoFar DEF TruthSoFar, TruthInv
<1>1. CASE SetMode(p)
  <2>1. pc[p] = "set" /\ Agrees(p) /\ lock = p
    BY <1>0, <1>1 DEF SetMode, Held, Changing, ShapeInv, LockInv, Holding
  <2>2. NoneAt("cleaned") /\ NoneAt("setRecord")
    BY <1>0, <2>1 DEF NoneAt, ShapeInv, LockInv, Holding, Changing
  <2>3. "deviceMode" \in Applied(h[p]) => h[p].opts.dm \subseteq guest.dm
    BY <1>0, <2>1, <2>2 DEF AppliedInv, Agrees, Applied
  <2>4. pc'[p] = "setRecord" /\ h'[p] = h[p] /\ Asked(p)' = Asked(p)
    BY <1>0, <1>1 DEF SetMode, Go, mine, own, TypeOK, Asked
  <2>5. guest' = [guest EXCEPT !.dm = Merged(guest.dm, Asked(p).dm)]
    BY <1>1 DEF SetMode
  <2>6. guest'.dm = Merged(guest.dm, Asked(p).dm)
    BY <1>0, <2>5, GuestKeeps
  <2>7. AppliedDeviceMode(h[p], Asked(p).dm) \subseteq Merged(guest.dm, Asked(p).dm)
    BY <2>3, MergedIn DEF AppliedDeviceMode
  <2>8. AppliedDeviceMode(h[p], Asked(p).dm)' = AppliedDeviceMode(h[p], Asked(p).dm)
    BY <2>4 DEF AppliedDeviceMode, Merged, Applied
  <2> QED
    BY <2>4, <2>6, <2>7, <2>8 DEF ChangeAt
<1>2. CASE Install(p) /\ ~End(p, "done")
  <2>1. guest' = [guest EXCEPT !.pkgs = guest.pkgs \cup (Asked(p).pkgs \cap Available)] /\ Go(p, "installRecord")
    BY <1>2 DEF Install
  <2>2. pc'[p] = "installRecord" /\ Asked(p)' = Asked(p)
    BY <1>0, <1>2, <2>1 DEF Install, Go, own, TypeOK, Asked
  <2>3. guest'.pkgs = guest.pkgs \cup (Asked(p).pkgs \cap Available)
    BY <1>0, <2>1, GuestKeeps
  <2> QED
    BY <2>2, <2>3 DEF ChangeAt
<1>3. CASE ~SetMode(p) /\ (~Install(p) \/ End(p, "done"))
  <2>1. pc'[p] \notin {"setRecord", "installRecord"}
    BY <1>0, <1>3, Moves DEF Act, SetMode, Install, LookStart, LockStart, Launch, Boots, Undo,
       Reset,
       SaveRestored, InstallPackages, ApplyMode, ApplyLicense, CreateUser, DisableAdmin,
       RecordLogin, Record, EnterSet, EnterInstall, EnterClean, Enter, Fails, RecordMode,
       RecordInstall, License, Stop, Erase, SaveCleaned, Crash, Step, Go, End, TypeOK
  <2> QED
    BY <2>1 DEF ChangeAt
<1> QED
  BY <1>1, <1>2, <1>3


LEMMA OwnDid ==
  ASSUME Undisturbed, TruthSoFar, NEW p \in Proc, Act(p)
  PROVE  DidAt(p)'
<1>0. /\ ShapeInv /\ TypeOK /\ OneEach /\ Held(p) /\ TrueAt(p)
      /\ rec \in Records /\ guest \in Guests /\ h[p] \in Records /\ LoginInv
  BY SoFar DEF LoginSoFar
<1>1. CASE ~Stepping(p)
  <2>1. pc'[p] \notin Provisions \/ (pc'[p] = "packages" /\ Boots(p) /\ did' = did)
    <3>1. CASE Boots(p)
      BY <1>0, <3>1 DEF Boots, End, Go, mine, TypeOK, Provisions
    <3> QED
      BY <1>0, <1>1, <3>1 DEF Act, Stepping, LookStart, LockStart, Launch, Undo, Reset,
         SaveRestored,
         Record, EnterSet, EnterInstall, EnterClean, Enter, Fails, SetMode, RecordMode, Install,
         RecordInstall, License, Stop, Erase, SaveCleaned, Crash, Go, End, TypeOK, Provisions
  <2>2. Boots(p) => did[p] = {}
    BY <1>0 DEF Held, Boots, Provisions
  <2> QED
    BY <2>1, <2>2 DEF DidAt, There
<1>2. CASE Stepping(p)
  <2>1. /\ pc[p] \in Provisions \ {"record"} /\ pc'[p] \in Provisions /\ plan'[p] = plan[p]
        /\ rec'.opts.dm = rec.opts.dm /\ rec'.opts.all = rec.opts.all
    BY <1>2, StepsKeep, SoFar
  <2>2. PICK q \in plan[p] : \A y \in plan[p] : y = q
    BY <1>0, <2>1 DEF Held, OneEach
  <2>3. /\ There(did[p])
        /\ "deviceMode" \in did[p] => rec.opts.dm \subseteq guest.dm
        /\ pc[p] \in {"login", "record"} /\ "disableAdmin" \in did[p] => guest.adminOff
        /\ Given(rec.opts.all) => Given(q.all)
        /\ q.level = {} \/ \E r \in Requests : q.level = r.level
        /\ q.dm = rec.opts.dm
        /\ did[p] \subseteq Asks(q)
        /\ Agrees(p)
    BY <1>0, <2>1, <2>2 DEF TrueAt, DidAt, PlanAt, LoginInv, Held, Starting
  <2>4. CASE InstallPackages(p)
    <3> DEFINE installed == IF Given(q.all) THEN Available ELSE q.pkgs \cap Available
    <3>1. pc'[p] = "mode"
      BY <1>0, <2>4 DEF InstallPackages, Step, Go, TypeOK
    <3>2. CASE "packages" \notin Asks(q)
      <4>1. UNCHANGED <<rec, guest, did>>
        BY <2>2, <2>4, <3>2 DEF InstallPackages, Skip
      <4> QED
        BY <2>3, <3>1, <4>1 DEF DidAt, There
    <3>3. CASE "packages" \in Asks(q)
      <4>1. /\ guest' = [guest EXCEPT !.pkgs = guest.pkgs \cup installed]
            /\ rec' = [rec EXCEPT !.opts.pkgs = installed]
            /\ did' = [did EXCEPT ![p] = did[p] \cup {"packages"}]
        BY <2>2, <2>4, <3>3 DEF InstallPackages, Do
      <4>2. Given(rec.opts.all) => installed = Available
        BY <2>3
      <4> HIDE DEF installed
      <4>3. guest'.pkgs = guest.pkgs \cup installed /\ guest'.dm = guest.dm /\ guest'.level = guest.level
        BY <1>0, <4>1, GuestKeeps
      <4>4. rec'.opts.pkgs = installed
        BY <1>0, <4>1, PkgsKeeps
      <4>5. did'[p] = did[p] \cup {"packages"}
        BY <1>0, <4>1 DEF TypeOK
      <4>6. There(did[p] \cup {"packages"})'
        BY <2>1, <2>3, <4>2, <4>3, <4>4, <4>5 DEF There
      <4>7. "deviceMode" \in did'[p] => rec'.opts.dm \subseteq guest'.dm
        BY <2>1, <2>3, <4>3, <4>5
      <4>8. There(did[p])'
        BY <4>5, <4>6 DEF There
      <4> QED
        BY <3>1, <4>7, <4>8 DEF DidAt
    <3> QED
      BY <3>2, <3>3
  <2>5. CASE ApplyMode(p)
    <3>1. pc'[p] = "license"
      BY <1>0, <2>5 DEF ApplyMode, Step, Go, TypeOK
    <3>2. CASE q.dm = {}
      <4>1. UNCHANGED <<rec, guest, did>>
        BY <2>2, <2>5, <3>2 DEF ApplyMode, Skip
      <4> QED
        BY <2>3, <3>1, <4>1 DEF DidAt, There
    <3>3. CASE q.dm # {}
      <4>1. /\ guest' = [guest EXCEPT !.dm = Merged(guest.dm, q.dm)]
            /\ rec' = rec \/ rec' = h[p]
            /\ did' = [did EXCEPT ![p] = did[p] \cup {"deviceMode"}]
        BY <2>2, <2>5, <3>3 DEF ApplyMode, Do
      <4>2. guest'.pkgs = guest.pkgs /\ guest'.dm = Merged(guest.dm, q.dm) /\ guest'.level = guest.level
        BY <1>0, <4>1, GuestKeeps
      <4>3. rec'.opts.pkgs = rec.opts.pkgs
        BY <2>3, <4>1 DEF Agrees
      <4>4. rec'.opts.dm \subseteq guest'.dm
        BY <2>1, <2>3, <4>2, MergedIn
      <4>5. did'[p] = did[p] \cup {"deviceMode"}
        BY <1>0, <4>1 DEF TypeOK
      <4>6. There(did[p])'
        BY <2>1, <2>3, <4>2, <4>3, <4>5 DEF There
      <4> QED
        BY <3>1, <4>4, <4>6 DEF DidAt
    <3> QED
      BY <3>2, <3>3
  <2>6. CASE ApplyLicense(p)
    <3>1. pc'[p] = "user"
      BY <1>0, <2>6 DEF ApplyLicense, Step, Go, TypeOK
    <3>2. CASE q.level = {}
      <4>1. UNCHANGED <<rec, guest, did>>
        BY <2>2, <2>6, <3>2 DEF ApplyLicense, Skip
      <4> QED
        BY <2>3, <3>1, <4>1 DEF DidAt, There
    <3>3. CASE q.level # {}
      <4>1. /\ guest' = [guest EXCEPT !.level = q.level]
            /\ rec' = [rec EXCEPT !.opts.level = q.level]
            /\ did' = [did EXCEPT ![p] = did[p] \cup {"license"}]
        BY <2>2, <2>6, <3>3 DEF ApplyLicense, Do
      <4>2. guest'.pkgs = guest.pkgs /\ guest'.dm = guest.dm /\ guest'.level = q.level
        BY <1>0, <4>1, GuestKeeps
      <4>3. rec'.opts.pkgs = rec.opts.pkgs
        BY <1>0, <4>1, LevelKeeps
      <4>4. did'[p] = did[p] \cup {"license"}
        BY <1>0, <4>1 DEF TypeOK
      <4>5. \E r \in Requests : r.level # {} /\ guest'.level = r.level
        BY <2>3, <3>3, <4>2
      <4>6. There(did[p])'
        BY <2>1, <2>3, <4>2, <4>3, <4>4, <4>5 DEF There
      <4> QED
        BY <2>1, <2>3, <3>1, <4>2, <4>4, <4>6 DEF DidAt
    <3> QED
      BY <3>2, <3>3
  <2>7. CASE CreateUser(p)
    <3>1. pc'[p] = "admin"
      BY <1>0, <2>7 DEF CreateUser, Step, Go, TypeOK
    <3>2. /\ guest' = [guest EXCEPT !.users = guest.users \cup Account(q)]
          /\ did' = [did EXCEPT ![p] = did[p] \cup (Asks(q) \cap {"user", "disableAdmin", "secureLogin"})]
          /\ rec' = rec
      BY <2>2, <2>7 DEF CreateUser
    <3>3. guest'.pkgs = guest.pkgs /\ guest'.dm = guest.dm /\ guest'.level = guest.level
      BY <1>0, <3>2, GuestKeeps
    <3>4. did'[p] \subseteq did[p] \cup {"user", "disableAdmin", "secureLogin"}
      BY <1>0, <3>2 DEF TypeOK
    <3>5. There(did[p])'
      BY <2>3, <3>2, <3>3, <3>4 DEF There
    <3> QED
      BY <2>3, <3>1, <3>2, <3>3, <3>4, <3>5 DEF DidAt
  <2>8. CASE DisableAdmin(p)
    <3>1. /\ guest' = [guest EXCEPT !.adminOff = guest.adminOff \/ Given(q.noAdmin)]
          /\ did' = did /\ rec' = rec
      BY <2>2, <2>8 DEF DisableAdmin
    <3>2. /\ guest'.pkgs = guest.pkgs /\ guest'.dm = guest.dm /\ guest'.level = guest.level
          /\ guest'.adminOff = (guest.adminOff \/ Given(q.noAdmin))
      BY <1>0, <3>1, GuestKeeps
    <3>3. "disableAdmin" \in did[p] => Given(q.noAdmin)
      BY <2>3 DEF Asks
    <3>4. There(did[p])'
      BY <2>3, <3>1, <3>2 DEF There
    <3> QED
      BY <2>3, <3>1, <3>2, <3>3, <3>4 DEF DidAt
  <2>9. CASE RecordLogin(p)
    <3>1. pc[p] = "login" /\ guest' = guest /\ did' = did
      BY <2>9 DEF RecordLogin, Step
    <3>2. rec'.opts.pkgs = rec.opts.pkgs
      <4>1. rec' = rec \/ rec' = [rec EXCEPT !.opts.user = Account(q), !.hidden = TRUE]
        BY <2>2, <2>9 DEF RecordLogin
      <4>2. [rec EXCEPT !.opts.user = Account(q), !.hidden = TRUE].opts.pkgs = rec.opts.pkgs
        BY <1>0 DEF Records, Options
      <4> QED
        BY <4>1, <4>2
    <3>3. There(did[p])'
      BY <2>1, <2>3, <3>1, <3>2 DEF There
    <3> QED
      BY <2>1, <2>3, <3>1, <3>3 DEF DidAt
  <2> QED
    BY <1>2, <2>4, <2>5, <2>6, <2>7, <2>8, <2>9 DEF Stepping
<1> QED
  BY <1>1, <1>2

\* The record goes on naming steps that are in the guest.
LEMMA AppliedAlike ==
  ASSUME TypeOK, AppliedInv, NEW p \in Proc, Act(p), pc[p] # "cleaned", pc[p] # "setRecord",
         rec'.prov = rec.prov, rec'.opts.all = rec.opts.all, rec'.opts.dm = rec.opts.dm,
         rec'.opts.pkgs = rec.opts.pkgs,
         guest.pkgs \subseteq guest'.pkgs, guest'.adminOff = guest.adminOff,
         guest'.dm = guest.dm \/ pc'[p] = "setRecord",
         guest'.level = guest.level \/ \E q \in Requests : q.level # {} /\ guest'.level = q.level
  PROVE  AppliedInv'
<1>1. /\ NoneAt("cleaned")' => NoneAt("cleaned")
      /\ NoneAt("setRecord")' => NoneAt("setRecord") /\ pc'[p] # "setRecord"
  BY OnlyOwn DEF NoneAt
<1>2. Applied(rec)' = Applied(rec)
  BY DEF Applied
<1>3. There(Applied(rec)) => There(Applied(rec))'
  BY <1>2 DEF There
<1> QED
  BY <1>1, <1>2, <1>3 DEF AppliedInv

LEMMA NothingApplied ==
  ASSUME rec'.prov = {} PROVE AppliedInv'
BY DEF AppliedInv, Applied, There


\* Each own step keeps the recorded steps true.
LEMMA OwnApplied ==
  ASSUME Undisturbed, TruthSoFar, NEW p \in Proc, Act(p)
  PROVE  AppliedInv'
<1>0. /\ ShapeInv /\ TypeOK /\ OneEach /\ WindowSoFar /\ Held(p) /\ TrueAt(p) /\ AppliedInv
      /\ rec \in Records /\ guest \in Guests /\ h[p] \in Records
  BY SoFar DEF TruthSoFar, TruthInv
<1> DEFINE Written == /\ rec'.prov = rec.prov /\ rec'.opts.all = rec.opts.all
                      /\ rec'.opts.dm = rec.opts.dm /\ rec'.opts.pkgs = rec.opts.pkgs
<1>1. pc[p] \in {"setRecord", "installRecord"} => NoneAt("cleaned")
  BY <1>0 DEF NoneAt, ShapeInv, LockInv, Holding, Changing
<1>2. CASE UNCHANGED <<rec, guest>> /\ pc[p] # "cleaned" /\ pc[p] # "setRecord"
  BY <1>0, <1>2, AppliedAlike
<1>3. CASE License(p) /\ ~UNCHANGED <<rec, guest, secret>>
  <2>1. Renews(p) /\ \E q \in Requests : q.level # {} /\ guest'.level = q.level
    BY <1>0, <1>3, LevelAsked DEF Undisturbed
  <2>2. pc[p] = "idle"
    BY <1>3 DEF License, Begin
  <2> QED
    BY <1>0, <2>1, <2>2, RenewsLevel, AppliedAlike DEF Alike
<1>4. CASE Stop(p) \/ Undo(p)
  <2>1. pc[p] \notin {"cleaned", "setRecord"} /\ guest' = guest
    BY <1>4 DEF Stop, Undo, Begin, Provisions
  <2>2. rec' = rec \/ rec' = [rec EXCEPT !.on = FALSE]
    BY <1>4 DEF Stop, Undo
  <2>3. Written
    <3>1. [rec EXCEPT !.on = FALSE].opts = rec.opts /\ [rec EXCEPT !.on = FALSE].prov = rec.prov
      BY <1>0, SwitchTyped
    <3> QED
      BY <2>2, <3>1
  <2> QED
    BY <1>0, <2>1, <2>3, AppliedAlike
<1>5. CASE Launch(p) \/ Boots(p)
  <2>1. Agrees(p) /\ pc[p] \notin {"cleaned", "setRecord"}
    BY <1>0, <1>5 DEF Launch, Boots, Held, Starting
  <2>2. rec' = h[p] \/ rec' = [h[p] EXCEPT !.on = TRUE, !.started = TRUE]
    BY <1>0, <1>5 DEF Launch, Boots, TypeOK
  <2>3. /\ [h[p] EXCEPT !.on = TRUE, !.started = TRUE].opts = h[p].opts
        /\ [h[p] EXCEPT !.on = TRUE, !.started = TRUE].prov = h[p].prov
    BY <1>0 DEF Records
  <2>4. Written
    BY <2>1, <2>2, <2>3 DEF Agrees
  <2>5. guest' = guest \/ guest' = [guest EXCEPT !.boots = guest.boots + 1]
    BY <1>5 DEF Launch, Boots
  <2>6. LET k == [guest EXCEPT !.boots = guest.boots + 1] IN
           /\ k.pkgs = guest.pkgs /\ k.dm = guest.dm
           /\ k.adminOff = guest.adminOff /\ k.level = guest.level
    BY <1>0 DEF Guests
  <2>7. /\ guest'.pkgs = guest.pkgs /\ guest'.dm = guest.dm
        /\ guest'.adminOff = guest.adminOff /\ guest'.level = guest.level
    BY <2>5, <2>6
  <2> QED
    BY <1>0, <2>1, <2>4, <2>7, AppliedAlike
<1>6. CASE Reset(p)
  BY <1>0, <1>6, NothingApplied DEF Reset, Held
<1>7. CASE SaveRestored(p)
  <2>1. PICK r \in restore[p] : rec' = [r EXCEPT !.on = FALSE]
    BY <1>7 DEF SaveRestored
  <2>2. r \in Records /\ r.prov = {}
    BY <1>0 DEF TypeOK, Held, Open
  <2> QED
    BY <2>1, <2>2, SwitchTyped, NothingApplied
<1>8. CASE Stepping(p)
  <2>1. rec'.prov = rec.prov /\ pc[p] \in Provisions \ {"record"}
    BY <1>0, <1>8, StepsKeep
  <2>2. rec.prov = {}
    BY <1>0, <2>1 DEF Held, Starting
  <2> QED
    BY <2>1, <2>2, NothingApplied
<1>9. CASE Record(p)
  <2>1. /\ pc[p] = "record" /\ guest' = guest /\ rec' = [rec EXCEPT !.prov = {did[p]}]
        /\ did[p] \in SUBSET StepNames
    BY <1>0, <1>9 DEF Record, TypeOK
  <2>2. rec'.prov = {did[p]} /\ rec'.opts = rec.opts
    BY <1>0, <2>1, ProvTyped
  <2>3. /\ There(did[p])
        /\ "deviceMode" \in did[p] => rec.opts.dm \subseteq guest.dm
        /\ "disableAdmin" \in did[p] => guest.adminOff
    BY <1>0, <2>1 DEF TrueAt, DidAt, Provisions
  <2>4. Applied(rec)' = did[p]
    BY <2>2 DEF Applied
  <2>5. There(Applied(rec))'
    BY <2>1, <2>2, <2>3, <2>4 DEF There
  <2> QED
    BY <2>1, <2>2, <2>3, <2>4, <2>5 DEF AppliedInv
<1>10. CASE SetMode(p)
  <2>1. Agrees(p) /\ pc[p] = "set" /\ pc'[p] = "setRecord"
    BY <1>0, <1>10 DEF SetMode, Held, Changing, Go, TypeOK
  <2>2. Written
    BY <1>10, <2>1 DEF SetMode, Agrees
  <2>3. PICK v : guest' = [guest EXCEPT !.dm = v]
    BY <1>10 DEF SetMode
  <2>4. guest'.pkgs = guest.pkgs /\ guest'.adminOff = guest.adminOff /\ guest'.level = guest.level
    BY <1>0, <2>3, GuestKeeps
  <2> QED
    BY <1>0, <2>1, <2>2, <2>4, AppliedAlike
<1>11. CASE RecordMode(p)
  <2>1. PICK v, S : /\ rec' = [rec EXCEPT !.opts.dm = v, !.prov = {S}]
                    /\ S = Applied(h[p]) \cup {"deviceMode"}
                    /\ v = AppliedDeviceMode(h[p], Asked(p).dm)
    BY <1>11 DEF RecordMode
  <2>2. rec'.prov = {S} /\ rec'.opts.dm = v /\ rec'.opts.all = rec.opts.all /\ rec'.opts.pkgs = rec.opts.pkgs
    BY <1>0, <2>1, ModeKeeps
  <2>3. pc[p] = "setRecord" /\ guest' = guest
    BY <1>11 DEF RecordMode
  <2>4. v \subseteq guest.dm /\ Agrees(p)
    BY <1>0, <2>1, <2>3 DEF TrueAt, ChangeAt, Held, Changing
  <2>5. NoneAt("cleaned") /\ Applied(rec)' = Applied(rec) \cup {"deviceMode"}
    BY <1>1, <2>1, <2>2, <2>3, <2>4 DEF Applied, Agrees
  <2>6. There(Applied(rec))'
    BY <1>0, <2>2, <2>3, <2>5 DEF AppliedInv, There
  <2> QED
    BY <1>0, <2>2, <2>3, <2>4, <2>5, <2>6 DEF AppliedInv
<1>12. CASE Install(p) /\ ~UNCHANGED <<rec, guest>>
  <2>1. PICK v : guest' = [guest EXCEPT !.pkgs = guest.pkgs \cup v]
    BY <1>12 DEF Install
  <2>2. pc[p] = "install" /\ rec' = rec
    BY <1>12 DEF Install
  <2>3. /\ guest'.pkgs = guest.pkgs \cup v /\ guest'.dm = guest.dm
        /\ guest'.adminOff = guest.adminOff /\ guest'.level = guest.level
    BY <1>0, <2>1, GuestKeeps
  <2> QED
    BY <1>0, <2>2, <2>3, AppliedAlike
<1>13. CASE RecordInstall(p)
  <2> DEFINE installed == Asked(p).pkgs \cap Available
             covers == CoversDesired(rec, installed)
             P == IF covers THEN {Applied(h[p]) \cup {"packages"}} ELSE rec.prov
  <2>1. rec' = [rec EXCEPT !.opts.pkgs = rec.opts.pkgs \cup installed, !.prov = P]
    BY <1>13 DEF RecordInstall
  <2>2. pc[p] = "installRecord" /\ guest' = guest /\ pc'[p] = "idle"
    BY <1>0, <1>13 DEF RecordInstall, End, TypeOK
  <2>3. installed \subseteq guest.pkgs /\ Agrees(p)
    BY <1>0, <2>2 DEF TrueAt, ChangeAt, Held, Changing
  <2>4. NoneAt("cleaned") /\ NoneAt("setRecord")
    BY <1>0, <2>2 DEF NoneAt, ShapeInv, LockInv, Holding, Changing
  <2>5. /\ "packages" \in Applied(rec) => covers
        /\ covers => "packages" \in Applied(rec)
                     \/ (~Given(rec.opts.all) /\ rec.opts.pkgs \subseteq installed)
    BY DEF CoversDesired
  <2>6. P = IF covers THEN {Applied(rec) \cup {"packages"}} ELSE rec.prov
    BY <2>3 DEF Agrees, Applied
  <2> HIDE DEF installed, covers, P
  <2> DEFINE v == rec.opts.pkgs \cup installed
  <2>10. rec' = [rec EXCEPT !.opts.pkgs = v, !.prov = P]
    BY <2>1
  <2>7. /\ rec'.prov = P /\ rec'.opts.all = rec.opts.all /\ rec'.opts.dm = rec.opts.dm
        /\ rec'.opts.pkgs = v
    <3> HIDE DEF v
    <3> QED
      BY <1>0, <2>10, InstalledKeeps
  <2>8. Applied(rec)' = IF covers THEN Applied(rec) \cup {"packages"} ELSE Applied(rec)
    BY <2>6, <2>7 DEF Applied
  <2>9. There(Applied(rec))'
    BY <1>0, <2>2, <2>3, <2>4, <2>5, <2>7, <2>8 DEF AppliedInv, There
  <2> QED
    BY <1>0, <2>2, <2>4, <2>7, <2>8, <2>9 DEF AppliedInv
<1>14. CASE Erase(p)
  BY <1>0, <1>14 DEF Erase, Go, TypeOK, AppliedInv, NoneAt
<1>15. CASE SaveCleaned(p)
  BY <1>0, <1>15, CleanTyped, NothingApplied DEF SaveCleaned
<1>16. CASE Fails(p) \/ Crash(p)
  <2>1. pc[p] # "cleaned" /\ pc[p] # "setRecord"
    BY <1>0, <1>16 DEF Fails, Crash, ShapeInv, CallInv, Undisturbed, CleansEnd, SetsEnd
  <2> QED
    BY <1>2, <1>16, <2>1 DEF Fails, Crash
<1>17. CASE \/ LookStart(p) \/ LockStart(p) \/ EnterSet(p) \/ EnterInstall(p) \/ EnterClean(p)
            \/ ((License(p) \/ Install(p)) /\ UNCHANGED <<rec, guest>>)
  BY <1>2, <1>17 DEF LookStart, LockStart, EnterSet, EnterInstall, EnterClean, Enter, Begin,
     License, Install
<1> QED
  BY <1>2, <1>3, <1>4, <1>5, <1>6, <1>7, <1>8, <1>9, <1>10, <1>11, <1>12, <1>13, <1>14, <1>15,
     <1>16, <1>17
     DEF Act, Stepping, License


LEMMA TruthStep == Undisturbed /\ TruthSoFar /\ [Next]_vars => TruthSoFar'
<1> SUFFICES ASSUME Undisturbed, TruthSoFar, [Next]_vars PROVE TruthSoFar'
  OBVIOUS
<1>1. LoginSoFar'
  BY LoginStep DEF TruthSoFar, Undisturbed
<1>2. CASE UNCHANGED vars
  <2>1. AppliedInv'
    BY <1>2 DEF TruthSoFar, TruthInv, AppliedInv, NoneAt, There, Applied, vars
  <2>2. ASSUME NEW p \in Proc PROVE TrueAt(p)'
    <3>1. TrueAt(p)
      BY SoFar
    <3>2. ChangeAt(p)' /\ DidAt(p)'
      BY <1>2, <3>1 DEF TrueAt, ChangeAt, DidAt, There, AppliedDeviceMode, Merged, Applied,
         Asked, vars
    <3>3. PlanAt(p)' /\ RestoreAt(p)'
      BY <1>2, <3>1 DEF TrueAt, PlanAt, RestoreAt, Reopens, Open, vars
    <3> QED
      BY <3>2, <3>3 DEF TrueAt
  <2> QED
    BY <1>1, <2>1, <2>2 DEF TruthSoFar, TruthInv
<1>3. CASE Next
  <2>1. PICK p \in Proc : Act(p)
    BY <1>3, NextActs
  <2>2. AppliedInv'
    BY <2>1, OwnApplied
  <2>3. TrueAt(p)'
    BY <2>1, OwnChange, OwnDid, OwnPlan, OwnRestore DEF TrueAt
  <2>4. \A x \in Proc : x # p => TrueAt(x)'
    BY <2>1, OthersChange, OthersPlan DEF TrueAt
  <2> QED
    BY <1>1, <2>2, <2>3, <2>4 DEF TruthSoFar, TruthInv
<1> QED
  BY <1>2, <1>3

LEMMA TruthInit == Init => TruthSoFar
<1> SUFFICES ASSUME Init PROVE TruthSoFar
  OBVIOUS
<1>1. rec.prov = {}
  BY DEF Init, NewRecord
<1>2. AppliedInv
  BY <1>1 DEF AppliedInv, Applied, There
<1>3. ASSUME NEW p \in Proc PROVE TrueAt(p)
  <2>1. pc[p] = "idle" /\ plan[p] = {} /\ restore[p] = {}
    BY DEF Init
  <2> QED
    BY <2>1 DEF TrueAt, ChangeAt, DidAt, PlanAt, RestoreAt, Provisions
<1> QED
  BY <1>2, <1>3, LoginInit DEF TruthSoFar, TruthInv

\* An option that classifyProvisioningRequest() calls applied is in the guest, an
\* open window promises a factory disk, and resolveAuth() names an account that is
\* accepted, whatever failed, was rolled back, cleaned or added in between: as long
\* as no change of the guest dies before its record, all calls name one license
\* level, and no start that waits for its lock is overtaken by two other calls.
THEOREM TruthKept == Undisturbed => (Spec => []RecordIsTrue)
<1> SUFFICES ASSUME Undisturbed PROVE Spec => []RecordIsTrue
  OBVIOUS
<1>1. Init => TruthSoFar
  BY TruthInit
<1>2. TruthSoFar /\ [Next]_vars => TruthSoFar'
  BY TruthStep
<1>3. TruthSoFar => SatisfiedIsTrue
  <2> SUFFICES ASSUME TruthSoFar, lock = None, NEW q \in Requests, NEW s \in Asks(q),
                      Satisfied(rec, q, s)
               PROVE  Holds(q, s)
    BY DEF SatisfiedIsTrue
  <2>1. NoneAt("cleaned") /\ NoneAt("setRecord")
    BY SoFar, ProvisioningAssumption DEF NoneAt, ShapeInv, LockInv, Holding, Changing
  <2>2. LoginInv /\ AppliedInv
    BY DEF TruthSoFar, LoginSoFar, TruthInv
  <2>3. CASE s = "packages"
    BY <2>1, <2>2, <2>3 DEF AppliedInv, There, Satisfied, Holds
  <2>4. CASE s = "deviceMode"
    BY <2>1, <2>2, <2>4 DEF AppliedInv, Satisfied, Holds
  <2>5. CASE s = "license"
    <3>1. q.level # {} /\ "license" \in Applied(rec)
      BY <2>5 DEF Asks, Satisfied
    <3>2. PICK r \in Requests : r.level # {} /\ guest.level = r.level
      BY <2>1, <2>2, <3>1 DEF AppliedInv, There
    <3> QED
      BY <2>5, <3>1, <3>2 DEF Holds, Undisturbed, OneLevel
  <2>6. CASE s = "user"
    BY <2>2, <2>6 DEF LoginInv, Satisfied, Holds
  <2>7. CASE s = "disableAdmin"
    BY <2>1, <2>2, <2>7 DEF AppliedInv, Satisfied, Holds
  <2>8. CASE s = "secureLogin"
    BY <2>1, <2>2, <2>8 DEF LoginInv, Logins, Satisfied, Holds
  <2> QED
    BY <2>3, <2>4, <2>5, <2>6, <2>7, <2>8 DEF Asks
<1>4. Spec => []WindowIsFactory
  BY WindowKept
<1>5. Spec => []LoginWorks
  BY LoginKept DEF Undisturbed
<1>6. SatisfiedIsTrue /\ WindowIsFactory /\ LoginWorks => RecordIsTrue
  BY DEF RecordIsTrue
<1> QED
  BY <1>1, <1>2, <1>3, <1>4, <1>5, <1>6, PTL DEF Spec
=============================================================================
