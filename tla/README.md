# quickchr, verified

quickchr makes, boots, provisions and removes MikroTik CHR machines in QEMU. It
is a library and a command line and has **no daemon**: every operation is a
process of its own, several may run at once, any may be killed, and all they
share is a data directory and the QEMU processes they leave running. What is
hard in it is what those processes do to one another through files, and what a
guest that is slow, restarts or answers late makes them believe. This directory
models that, checks it with TLC and proves part of it with TLAPS.

Conventions: `src/...` is the repository; a definition's comment names the
function it is translated from, `PROJECT.json` the exact lines. Definitions
marked *Seeded fault* are plausible bugs: each replaces one definition of the
model and makes one property fail, which shows that the property looks at the
code it claims to look at.

## The system

| component | state it keeps | operations | what makes it correct |
|---|---|---|---|
| machine and allocation locks (`lock.ts`) | a directory of numbered records per lock: claims, release markers, an incarnation id | `acquireLock`, `acquireLockNow`, `release`, `listReservations` | one live holder; a holder's record stays on top; a dead holder is replaced; numbers never go back |
| port blocks and MACs (`network.ts`, `quickchr.ts`) | the base and MACs in each `machine.json`, the reservations in the locks of creators | `claimNewMachine`, `pickNewMachineResources`, `removeMachine`, `removeOrphan` | no two machines share a block or a MAC; a failed create leaves nothing; a removal takes only what it found |
| forwards (`forward-spec.ts`, `guest-ports.ts`, `network.ts`) | a machine's port map, keyed by label | `parseForwardSpec`, `buildPortMappings`, `validateExplicitExtraPorts` | no forward is lost to another; a port that was given is held once |
| machine lifecycle (`quickchr.ts`, `qemu.ts`, `shutdown.ts`) | `machine.json` (status, pid, frozen, window), the disk, the QEMU process | start, relaunch, stop, shutdown, continue, clean, remove, setDeviceMode, list, get | a live QEMU is recorded; never two on a disk; an open provisioning window means a factory disk; only the recorded QEMU is ended |
| accelerator and boot time (`platform.ts`, `qemu.ts`) | `lastAccel`, the frozen mark; overrides in flags, environment and settings | start, respawn, continue, power cycle | the wait is as long as the accelerator that runs needs |
| provisioning record (`provisioning-window.ts`, `quickchr.ts`, `auth.ts`) | intent, steps done, what the guest has | add, first boot, later starts, setDeviceMode, installPackage, license, clean | an option applies, is satisfied, or is refused: never dropped; the recorded login works |
| steps of provisioning (`provision.ts`, `device-mode.ts`, `license.ts`) | none: a conversation with the guest | create user, disable admin, install key, update mode, activate packages, renew license | a step that returns had its effect; every step ends |
| guest channels (`qga.ts`, `console.ts`, `exec.ts`, `rest.ts`, `channels.ts`, `api-login.ts`) | a connection, its queue, its buffer | agent calls, console commands, scripts, monitor commands, probes | an answer belongs to its question; a retry does not repeat an effect; ready means ready |
| boot diagnosis (`diagnostics.ts`, `guest-snapshot.ts`) | reports, a counting rule in the guest | capture, prune | a verdict says what happened in the guest |
| named sockets (`socket-registry.ts`) | one file per link with its two ends, a registry lock and a lock per link, a copy per process | create, remove, join, leave | an end has one machine; a link outlasts its users; a stopped machine holds no end; ports differ |
| image and package cache (`images.ts`, `packages.ts`, `cache.ts`) | images, archives, extractions | fetch, read, evict | nothing read or referenced is evicted |
| storage admission (`storage.ts`, `storage-lease.ts`) | leases: pins and reserved bytes; one lock | `admitStorage`, release | the same bytes are not promised twice; a refusal is the last resort |
| downloads (`download.ts`, `net.ts`) | one `.part` file per call, two timers per attempt | `downloadToFile` | a file at its destination is complete; every call ends |
| disks, EFI variables (`disk.ts`, `qemu.ts`) | boot and extra disk files, the variables' file and its staging | build, convert, clean | a disk is whole or absent; the guest finds what it wrote |
| versions and channels (`versions.ts`) | none; the server's | resolve, classify | channels are judged by the order of releases |
| settings, secrets (`settings.ts`, `secrets.ts`, `credentials.ts`) | one file each | set, reset, save, delete | what was set is what is read next; nobody else's line is lost |
| the command line, completions, wizard, network names | none | parsing, formatting, lookup | pure functions |

How they interact: an operation first takes its machine's lock (`lock.ts`), or,
to create a machine, claims the directory, then the allocation lock; inside it
loads `machine.json`, admits storage (storage lock, lease), fetches the image,
claims ends of links (per-link lock), spawns QEMU, waits for the boot,
provisions over the guest's channels, saves `machine.json`, and gives back what
it holds. `list`, `get` and `license` take no lock at all. The storage lock and
the link locks are never held across an `await`; the machine's lock is.

## The modules

| module | models | uses |
|---|---|---|
| `Mutex` | the abstract lock that survives its holder's death | |
| `FileLock` | `lock.ts` call by call; `Implements` says it implements `Mutex` | `Mutex` |
| `Ports`, `PortSearch` | the port block arithmetic; the search with its probes | `Ports` |
| `Forwards` | `--forward`, its expansion over a block, the map of a machine's ports | `Ports` |
| `Allocation` | creating and removing machines: `claimNewMachine()` and callers, over any number of names and processes | `Ports` |
| `Lifecycle`, `Lifecycle_proofs` | one machine's life under its lock, with handles, crashes and the unlocked writers; its proofs | |
| `Launch` | the accelerator of every launch and the wait that follows from it | |
| `Provisioning`, `Provisioning_proofs` | what is asked of a machine, what is applied, what `machine.json` says of it; its proofs | |
| `GuestSteps` | the calls behind each step, against a guest that is late or wrong | |
| `DeviceMode` | the device mode that is asked for, told to the guest and recorded, by a first boot and by later calls | |
| `Qga`, `Console`, `Exec`, `Monitor`, `Readiness` | one guest channel each | |
| `BootForensics` | the capture of a guest that failed | |
| `EntryLock` | `withEntryLock()` file by file | |
| `SocketRegistry`, `SocketRegistry_proofs` | links and the launches that use them; its proofs | |
| `ImageCache` | one image, its ZIP, its readers and evictions | |
| `PackageCache` | one package archive and its extraction | |
| `Admission` | `admitStorage()` with its rounds of eviction | |
| `NetErrors` | how an error of `fetch()` is judged | |
| `Download` | `downloadToFile()` | `NetErrors` |
| `Versions` | channels and the order of versions | `NetErrors` |
| `Disks`, `EfiVars` | the files a QEMU is launched on | |
| `Settings`, `Secrets` | the two files of the user | |
| `MCCreation`, `MCLaunch`, `MCStorage`, `MCLocks`, `MCGuest` | the five stages of a machine's life, composed | the modules of the stage |
| `MC..._proofs` | of each of the five: the proofs of its parts, each for every value of the constants | |

`MC*` modules give the constants their values and compose. Each of `MCCreation`,
`MCLaunch`, `MCStorage`, `MCLocks` and `MCGuest` is one stage of a machine's
life. The modules on it share no state in the code either, so a rigid variable
`plays` picks one of them in the initial state and the slots `v1`, `v2`, … are
its variables; a product would only multiply their states. Where a run's first
component is extended rather than instantiated (`Allocation`, the caches,
`Admission`, `FileLock`, `Provisioning`), it rests in an initial state of its
own while another plays, so its invariants are asked as they stand, under the
names the proofs use. The others begin with `plays = "..." =>` and are the
conjunction of what their module states. `MCCaches`, inside `MCLaunch`, is a real product: the
image and the packages are fetched and evicted side by side.

Modules meet where the code does: `Allocation`, `Lifecycle` and `Provisioning`
take the machine's lock in one step and treat a dead holder's lock as free. That
is what `Mutex` promises, and `MCLocks_proofs!Refinement` proves that `lock.ts`
keeps it. `SocketRegistry` takes a link's lock in one step, which is `EntryLock`
until a death; `Provisioning` takes a step in one, with its effect or without,
which is `ReturnedIsDone` of `GuestSteps`; `ImageCache` and `PackageCache`
publish in one, which is `PublishedIsWhole` of `Download`.

### How state and actions correspond to the code

* **FileLock.** `dir` and `made` number the machine's directories, `log` holds
  the record files of `.lock/`, `legacy` the file older versions lock with. A
  process's `pc` stands between two file system calls of `attempt()`,
  `linkNew()`, `claim()`, `collect()` or `release()`; `myId`, `judged`, `gen` and
  `doomed` are its locals. One action is one call: `ListTop` is the `readdir`,
  `LinkClaim` the `link` that decides a race. A crash is possible between any two.
* **Lifecycle.** `rec` is `machine.json`, `qemu` the state of each pid, `disk`
  what the disk holds, `h` what a `ChrInstance` remembers. An operation is a
  sequence of the steps at which another process can see something.
* **Provisioning.** `rec` is `machine.json` with what was asked for and the steps
  done, `guest` what the disk and RouterOS hold, `h` a process's copy. A start
  reads before it locks (`LookStart`, `LockStart`); each step is applied and then
  recorded in two actions; a failure runs `Undo`, `Reset`, `SaveRestored`.
* **GuestSteps.** `guest` is RouterOS as one step meets it, `at` the line the
  step waits at. What the guest does by itself (`Settle`, `Matures`, `GoDown`,
  `ComeUp`) is interleaved with the caller's requests; a deadline is a number of
  polls. A renewal that names no level is a kind of its own (`"renewal"`): it
  returns with the answer.
* **DeviceMode.** `record` is `deviceMode` of `machine.json`, `window` the
  provisioning window and whether its steps list the device mode. `FirstBoot`
  applies its own call's mode or the one `add` wrote, and records the step alone;
  `Set` saves the merged mode (`SaveRecord`) and then the step (`SaveStep`). Any
  call may fail on the way, and a first boot that does is rolled back or not.
* **Readiness.** `guest` is down, starting or up; `fits` says whether the probes'
  credentials are the guest's. `OutcomesOf` and `AnswersOf` are what a guest may
  answer in each state: the comment on `waitForBoot()` in `qemu.ts` is the source
  of both. A login's answer is a sequence of bytes.
* **BootForensics.** One console call of a query is one action: answered, without a
  prompt (`LoginFails`), or without a reply (`ReplyHangs`), which costs the login's
  time and the call's once more. `given` and `left` are the executor's budget
  and what remains of it for the logins not yet tried.
* **Qga, Monitor, Console.** `queue` or `serving` is the socket QEMU serves one
  client of, the other variables what is in flight. The channel drops nothing of
  what an earlier client asked for: that is what the code has to cope with.
* **Download.** `part[f]` is a temporary file, a sequence of the chunks written
  and by which attempt; a timer that fires takes effect at the next `await`.
* **SocketRegistry.** `reg[l]` is an entry on disk, `cache[p][l]` what process
  `p` remembers of it; each read or write under the link's lock is one step.
* **ImageCache, PackageCache.** Every `await` ends a step, so a file that is
  judged in one step and removed in the next may be another by then.
* **Admission.** One filesystem check, one deletion or one written block is a
  step; check and lease are under the lock, writing is not.
* **Disks, EfiVars.** Every file operation is a step, with a crash between any
  two; contents are numbered by the write that made them.
* **Settings, Secrets.** Reading and writing are two steps: `settings.ts` renames
  a temporary file into place, `secrets.ts` writes in place, and a reader may
  meet the file torn.

## Runs

| run | module, cfg | bounds | shows |
|---|---|---|---|
| `creation` | `MCCreation`, `Creation` | two casts of four processes on two names, three that may die; all sets of used bases out of 7 with 4 listeners, in the block size and from the base the creations use; 2 machines with up to 2 of 8 forwards; 2 processes and a person at the settings; 2 channels over 8 versions; 2 machines' logins | machines share nothing and touch only their own; the search is exact; no forward is lost; a change is what is read next; channels are judged in order |
| `launch` | `MCLaunch`, `Launch` | one fetcher of the image, one installer of packages, three processes that evict, crashes; 2 processes, 3 machines, 2 links in 4 scenes; 3 disks, a crash, a lost file; 3 writes of EFI variables, 2 crashes; 2 overrides, 3 changes of the settings or the host | what a launch uses is whole, its own and kept while it runs |
| `storage` | `MCStorage`, `Storage` | 3 operations, 2 filesystems, 3 entries of which 2 free too little, failed deletes, deaths; 2 downloads of 2 chunks, one with a retry | no byte promised twice, no needless eviction or refusal, only whole files; rounds and calls end |
| `file_lock` | `MCFileLock`, `FileLock` | 3 operations, 2 incarnations, one claim each, crashes, an older quickchr's lock file | exclusion, no live record deleted, refinement of `Mutex` |
| `locks` | `MCLocks`, `Locks` | 3 contenders for a link, 2 of which may die; 2 for the machine with 2 claims each, one in the foreground | a dead holder wedges nobody; attempts end |
| `lifecycle` | `MCLifecycle`, `Lifecycle` | two casts: 2 processes with 2 and 1 operations; one process with 3 of any kind, foreground starts and unlocked writers among them; 3 pids, one reused and slow to die; failed writes, crashes | what `machine.json`, the disk and the lock say of QEMU stays true |
| `guest` | `MCGuest`, `Guest` | 2 processes with 3 and 2 operations on two machines' intents; each kind of step with 3 polls, updates or renewals; 3 requests for 2 features and 2 modes; 4 agent calls; 3 console calls, a first login before them and 2 pokes; 3 retries of a script; 4 probes with credentials that fit or not, 2 reboots; 2 snapshot operations; 2 captures, each of up to 2 hung calls | the record is true of the guest, nothing is dropped, an answer is to its question, every step ends |
| `refresh_hides_relaunch` | `MCLifecycle`, `LifecycleRefresh` | a `start` beside a `list` | **violated** |
| `image_cache_two_fetch` | `MCCaches`, `ImageCacheTwoFetch` | 2 fetchers | **violated** |
| `entry_lock_reclaim` | `EntryLock`, `EntryLockReclaim` | 3 contenders, exclusion asked for after a death too | **violated** |
| `start_override` | `MCProvisioning`, `ProvisioningOverride` | one start with another mode than `add` recorded | **violated** |
| `start_overtaken` | `MCProvisioning`, `ProvisioningOvertaken` | two starts, one with an option | **violated** |

*Casts* and *scenes* are sets of processes (or configurations) of which the
initial state picks one: they keep what can meet in one behaviour small while
one run asks the question of all of them.

Two contenders are enough to race, a third to race with what the race left; two
incarnations are enough for a number of the first to be mistaken for one of the
second; three pids let one be reused while one is live and one dead; two
processes and one operation more than one each are enough for a record to be
read, changed by another and written back; one retry is enough for the remains
of an attempt to meet the next. Each bound is a constant of the module or of its
`MC` module.

Deadlock is not checked by the passing runs: operations are finite in number,
and when all are done the system rests. That nobody waits for ever on the way
there is what the liveness properties say.

Type invariants are proved of every module whose properties are proved: of the
locks, `Lifecycle`, `Allocation`, `Admission`, `Provisioning` and
`SocketRegistry` as theorems, of the others as a part of their inductive
invariant. They are not among the runs' properties: a value of a wrong type would
make one of the relations above fail or stop TLC.

### What each property of the passing runs leaves out

A condition that keeps a known failure of the code out of a property is named in
the module, and listed here with the failure in the next section. Apart from
those: `SavedIsFound` is of processes that take turns (`Together`); of `LaunchedAsLeft`,
`VariablesAreKept` excludes a launch on an unfinished conversion that a crash left, `FailedIsMadeAnew`
says that only a crash leaves one; `MonitorTellsTheTruth` is of a QEMU that lives;
`DiagnosisIsTrue` trusts a counter only if it was read before, where an earlier
capture's rule is left; `RecordDescribesGuest` excepts what a failed call changed;
`ReadyIsAnsweredTwice` asks the service itself of credentials that fit, and of others that
its authentication was up, and says nothing of which boot answered: two answers of
two boots count where no probe falls between them (`qemu.ts:578-631`).

### What the code does not keep

Five runs expect a violation of what a comment or a document of the repository
states; `PROJECT.json` quotes them:

* `entry_lock_reclaim`: two waiters judge one dead holder's file and delete by
  path, the second the first's live lock (`socket-registry.ts:207`);
* `image_cache_two_fetch`: the image is judged before an `await` and unlinked
  after it, when it may be another fetch's, in use (`images.ts:106`);
* `refresh_hides_relaunch`: `list` saves what it read before a start saved its
  pid (`state.ts:390`);
* `start_override`: a first boot applies the device mode of its own call and
  marks the step applied beside the mode `add` recorded (`quickchr.ts:2977`);
* `start_overtaken`: a start that finds the machine launched by another one in
  between returns its handle before it looks at the window again, its options
  neither applied nor refused (`quickchr.ts:3107`).

The same modules show more of them, on instances that are not listed runs. A
passing property leaves the case out by what the middle column names:

| the code | left out by | to see it |
|---|---|---|
| an explicit base is checked against machines, then reservations; a creation moves from one to the other in between (`quickchr.ts:2198`) | `Automatic` in `DistinctAutomaticBlocks` | `DistinctBlocks` on the cast `{e3, a1}` |
| `machine.json` is truncated, then filled; a listing skips it in between (`state.ts:92`, `207`) | `Unhidden` | `DistinctBlocks`, `DistinctMacs` on `{s1, w1, e3}` |
| `start` looks for the directory before it claims the machine; an `add` that fails in between removes it (`quickchr.ts:2636`) | `Undisputed` in `NoLeftovers` | without it, on `{a1, s1}` |
| a second `add` is turned away because a writer that was itself turned away has the lock; the directory it had found empty stays (`quickchr.ts:2244-2248`) | `Undisputed` | without it, on `{a1, a2, w1, r1}` |
| a start whose plan waits for the lock while one process sets the mode and another cleans: the first boot applies the old mode and records the step beside the new one (`quickchr.ts:2977`) | `NotBothOvertake`: of the two processes, the one that sets does not clean | `RecordIsTrue` with three processes |
| a first boot told `installAllPackages: false` where `add` recorded `true` is recorded as one of all packages (`quickchr.ts:2966`) | `StartsAddOnly`: no such request | with one in `Ops` |
| `license` writes the level without the lock between a start's launch and its record of another level (`quickchr.ts:1057`) | `OneLevel`: all name one level | `NothingDropped` with two |
| a start that looks between the erasing and the record of a `clean` takes its packages for applied and boots the factory disk without them (`quickchr.ts:3107`) | every request of the other process has an account too | `NothingDropped` with packages alone |
| two forwards with a label in common, of one name or one named as a port of the other's range (`r-9108`): the second replaces the first in the map without a word (`network.ts:101`) | `ForwardsAreMade` asks of forwards whose `Labels` no other has | without that condition |
| an automatic extra may lie on a port that was given to another forward of the machine | `Automatic` in `GivenPortsAreOwn` | without it |
| of two fetchers, the first to finish unlinks the ZIP the second is to unzip (`images.ts:29`) | one fetcher | `UnzipFindsArchive` with two `Fetchers` |
| an eviction passes over a machine whose `machine.json` is being rewritten (`cache.ts:140`) | `TornSaves = FALSE` | `EvictsOnlyUnused` with `TRUE` |
| an extraction another process uploads from is removed to make room for an equal one (`packages.ts:124`) | one installer | `ReadersSeeEveryPackage` with two `Installers` |
| an extra disk is created in place: a crash leaves a partial one that is launched (`disk.ts:225-276`) | only `held` disks in `LaunchedAsLeft` | asking it of every disk |
| `list` writes a removed machine back (`state.ts:390`) | no `refresh` beside another process | `RemovedStaysRemoved` with `refresh` beside `remove` |
| a foreground relaunch keeps the dead QEMU's pid and frozen marker (`quickchr.ts:3187`) | `lost` in `StoppedHoldsNothing` | without that disjunct |
| a respawn does not wait for the QEMU it killed (`quickchr.ts:2803`) | `dying` is not `Ours` | with `qemu[m] # "dying"` added |
| a write fails after the spawn: the QEMU runs on unrecorded (`quickchr.ts:3203`) | `lost` | without it, `WriteMayFail = TRUE` |
| a foreground first boot ends with an error: the window stays open on a used disk (`qemu.ts:494`) | disk `"unrecorded"` | counting it as used |
| a crash during the conversion of the EFI variables leaves the stub it is to write over, and the next launch boots it (`qemu.ts:95-97`, `324-326`) | `dest # Stub` | without it |
| two processes save logins at once: the second's file is the first's copy, or empty where the first was being written (`secrets.ts:63`) | `Together = 1` | `SavedIsFound` with 2 |
| a first boot given another device mode than `add` wrote records the step beside the mode it did not apply (`quickchr.ts:2977`, `3055`) | `unsure` in `RecordDescribesGuest` holds what either names | without `Overridden`; `start_override` |
| a renewal that names no level returns with the answer, also a pending one (`license.ts:153`) | `Effect` of `"renewal"` is that the server was asked | asking for the level `p1` of both kinds |
| wrong credentials are refused by a guest that still initializes, and that is ready (`qemu.ts:561`, `566-568`) | `Served` takes a refusal for an answer of a service whose authentication is up | with `g = "up"` in it |
| a console call may take its time once for the login and again for the reply, so that the budget of which `guest-snapshot.ts:222-225` says that it "cannot overrun" is overrun by a login (`console.ts:518`, `539`) | `elapsed <= Budget + LoginCost` in `HealthyIsReachable` | with `elapsed <= Budget` |
| one reply of the second login that hangs leaves no query time for both logins, and a healthy guest is called unreachable (`console.ts:539`, `quickchr.ts:1443`) | `FewHangs` in `HealthyIsReachable` | with `Hangs <= 1` alone |
| a failed `info usernet` makes every forward `not-forwarded` (`diagnostics.ts:371-378`) | `outcome.usernet = "table"` in `ForwardsAreJudged` | without it |
| a capture before left its counting rule, whose count is taken for this capture's (`guest-snapshot.ts:444-448`) | `before # Unknown` in `VerdictIsTrue` | without it |
| a `load` times out in the client and fails in QEMU later: the guest stays paused (`quickchr.ts:1360`) | `unresumed` in `NoGuestIsLeftPaused` | without it |
| the lines two abandoned console calls left are read by the guest's login, which then is another user's; the next call takes whoever's prompt for its own, and its command runs as that user (`console.ts:307-318`) | `OneGaveUp` in `RunsAsAsked` | without it, with three calls |
| `rest()` repeats a request, a POST too, whose connection was reset (`quickchr.ts:965`, against the rule of `exec.ts:87-95`) | `via # "request"` in `ScriptRunsOnce` | without it |
| a start refused for room from a copy another process's leave has made stale (`quickchr.ts:276`) | no property asks | a refused start while the link has room |
| `list` marks a machine stopped and leaves its end taken (`state.ts:387`) | `May("refresh")` in `StoppedHoldsNoEnd` | without it |
| a start whose wait for a link's lock ran out goes by the copy its process kept, and may take an end it no longer holds (`quickchr.ts:312`, `socket-registry.ts:372`) | `May("time out")` in `EndsAreExclusive` | without it, with two starts of a machine |
| an mcast member whose lock wait ran out is not listed, and its link removed (`quickchr.ts:311`) | `May("time out")` in `LinkOutlastsItsUsers` | without it |

Smaller ones, met while translating and not stated as properties: the stall
timer of a download may fire while the file of a spent or refused attempt
closes, and replaces the verdict by one that is retried (`download.ts:36-43`,
`341-343`); an unframed console reply may hold the output of an earlier call
(`console.ts:486-487`); a power cycle, a package activation and a provisioning
launch look the accelerator up again, and `start --no-wait` leaves `lastAccel`
as it was; `clean` loses an option that another start added between its reading
and the lock; `license` takes no lock and records no step; a device-mode change
that fails after its activation leaves the old mode recorded; a proxy that is
itself ill is judged a refusal and not retried (`net.ts:213-215`).

### Fairness

* `Locks`, entry lock: weak fairness of the waiters' loop, strong fairness of
  giving up on a file without a pid: the loop never awaits anything but the next
  poll, and the half second of grace does pass. Machine lock: weak fairness of
  each live process's acquisition, of its release and of the end of its
  operation: the code between two file system calls runs on, and operations have
  time-outs. A dead process takes no step. A process that polls beside a live
  holder is not promised the lock, only that its attempts end; one alone behind
  the dead is.
* `Storage`: weak fairness of the storage lock's holder, who is synchronous code;
  of a download's timers, which the event loop fires, and of its steps that wait
  for nothing outside. The server and the network owe nothing: bytes may trickle
  for ever.
* `Guest`: weak fairness of the caller of a provisioning step, who polls with
  deadlines of its own. The guest owes nothing: it may never come back.

Every other module is checked for safety only; their operations are finite and
what they wait for is promised by nobody.

## Proofs

Each theorem rests on the named assumption of its module (`FileLockAssumption`,
`LifecycleAssumption`, ...: what the constants are, no more, and TLC evaluates it
on the runs), and on the hypotheses it states. The properties of the five composed
runs say that while a part plays, what the part promises holds; their proofs take
each part by itself, with the inductive invariant that the part's module states
(`IInv`), and put it under `plays` in the last step.

`MCLocks_proofs`, the file lock, for any number of processes, incarnations and claims, from
`FileLockAssumption` alone:

* `Inductive`: `IInv` is inductive. Mutual exclusion alone is not: a contender
  may hold numbers it read before the holder claimed, so the invariant says for
  every control point what a local copy can still mean (`LocalInv`), that the
  log of records has no gap above a claim that counts (`LogInv`), that an
  incarnation's id does not change once linked (`IdInv`), and that a process
  past the three checks of `claim()` is on top of the current incarnation
  (`ClaimInv`).
* `HoldersStand`, `Exclusion` (`MutualExclusion`) and `TopIsMonotone`
  (`TopNeverRegresses`) follow from it, and `Refinement` (`Implements`) maps each
  step of the files to a step or a stutter of `Mutex`. `file_lock` checks the
  three on its instance.
* `ComparisonRedundant`: the byte comparison in `claim()` (lock.ts:338-340)
  never refuses what its two neighbours accept. It is a belt beside braces, and
  the theorem says which of the two is the braces.

`MCLocks_proofs!EntryLockExcludes`, the entry lock, for any number of processes of which any
may die: as long as none has, and if none stalls for half a second between
making its file and writing its pid, the entry lock excludes
(`OneAtATimeUntilADeath`, checked by `locks`) and nobody deletes a holder's file.
`IInv` says why: nobody is about to delete, and whoever is past the open has the
file. Both conditions are needed: `entry_lock_reclaim` shows it of the first,
`HolderMayStall = TRUE` of the second.

`Lifecycle_proofs`, for any number of processes, operations and QEMUs:
`QemuIsRecorded`, `OpenWindowIsFactory`, `EndsOnlyRecorded`, `EndedHoldsNothing`,
the action property `NeverSpawnsBeside`, and typing. None of them is inductive:
each is about the moments when the lock is free, or about one step, and rests on
what the holder has in hand in the middle of an operation. `HolderInv` states
that, step by step: where the handle is the record (`InHand`), where no QEMU runs
(`Bare`), where exactly the one just spawned does (`Launching`). Everybody else
keeps it, because only the holder writes. `list`, `get`, `license` and `set
--qemu-arg` write without the lock, so the theorems assume that a process that
runs one of these is alone (`WritersAlone`); `refresh_hides_relaunch` is what
happens otherwise. The casts of the run `lifecycle` satisfy it.

`Provisioning_proofs`, for any processes, calls, requests and packages:

* `WindowKept` (`WindowIsFactory`), without hypotheses. `Held` says what the
  holder of the lock knows: but for the license level, which `license` writes
  without it, its handle is the record (`Agrees`); a first boot met an open
  window; a rollback and a clean have put the disk back before they say so.
* `LoginKept` (`LoginWorks`), if no `clean` dies (`CleansEnd`): between its
  erasing and its record the file names a login that is gone.
* `TruthKept` (`RecordIsTrue`, the whole of it), under `Undisturbed`: each part
  of it names one way in which the code loses the truth. `CleansEnd` as above;
  `SetsEnd`: a device mode is set and not recorded; `OneLevel`: a level
  overtakes the record of another; `StartsAddOnly` and `NotBothOvertake`: the two
  cases of a first boot in the table above. `DidAt` says what the steps applied
  so far left in the guest, `ChangeAt` what a change has yet to record, and
  `PlanAt` what a waiting plan can still rely on: the device mode it took from
  the record, unless somebody may change it. The run `guest` satisfies all five.

`MCCreation_proofs`, the allocation, for any processes, names, bases and digests:

* `OwnResources` in full (`ResourcesAreOwn`), its parts `MacsDiffer` and
  `BlocksAreDistinct`, the action property `TouchesOnlyItsOwn`, and typing. A
  creation looks at names one at a time while others finish, are removed and
  begin, so that two machines differ says too little: `MacsInv` and `BasesInv`
  say of a scan under the allocation lock that every other machine is still to
  be read, or read and readable, or covered by what was gathered. A name's
  resources do not change until it is given up (`Settled`), and only the holder
  adds any.
* That a failed creation leaves nothing (`NoLeftovers`) takes a second invariant
  (`LeftInv`): who made the directory that is there (`MadeInv`), what a process
  that waits for the lock saw before it (`SeenInv`), and that a file that is not
  whole has its writer, alive or dead (`TornInv`). It is of names that are not
  disputed (`Undisputed`); the table above shows two disputes that do leave one.

Also `NextIsLowest`: the ascending pass of `nextUnusedBase()` over any
finite set of used bases ends at the lowest base that overlaps none. The pass is
a recursive function over subsets; that it has a value, and which, is shown by a
smallest counterexample, over subsets and over numbers, from the library's
well-foundedness of both. The same argument shows that the
list of candidates reaches as far as it must and that the first free one is found
(`BlocksOnce`, `BlocksAre`).

In the same module, the other parts of `creation`:

* `SearchesAreExact`, for any finite set of bases: each candidate is the lowest, from
  where the search goes on, that overlaps no machine's block (`NextIsLowest`), and
  of its ports those that are not to be probed any more did not answer, so the one
  returned overlaps none and is silent.
* `ForwardsKept`, for any requests and any number of machines. The extra ports of
  a machine are exactly what its forwards stand for, and of each label the last
  one comes from one forward only if nobody else uses that label (`ExtrasInv`),
  which is the condition `ForwardsAreMade` states; an explicit host port is
  checked against services, extras and the earlier machines (`MachinesInv`).
* `OthersKept` and the half of `SavedIsKept` about settings, for any file, with
  duplicates. `setSetting` takes lines of the key away, by a recursion over the
  lines. The places of those that stay are an increasing map into the old file
  (`Stood`), so each other line has the same rank among the others on both sides; and
  the key is resolved to the line that was set (`Outcome`). Both by a smallest
  counterexample over the number of lines.
* The other half, about logins (`Secrets`): `TurnTaken`: the copy of the one whose
  turn it is says what the machines have, and so does the file until it is emptied.
  That processes take turns (`Together` = 1) is how `MCCreation` composes the file;
  two at a time lose a login, as the table above says.
* `JudgedByTheLine`, for any line of releases that its order sorts
  (`Older`): comparing numbers and stages decides as the place in the line does,
  and the lowest supported release is past 6, which is where the code looks at the
  major number only (`Line[MinAt].major > 6`).

`MCStorage_proofs`, the admission, for any operations, filesystems, entries and sizes:
`ReserveKept`, the action property `EvictsAndRefusesLast`, and typing. What is
promised is a sum over the leases; sums over a finite set are taken apart once,
again by smallest counterexample (`SummingOnce`, `TotalAny`). `RoomInv`: what the
lock's holder read of the leases covers what they still promise, since the others
only write or release until it has its own, so the room it has measured is there
when it leases. `PassInv`: a round of eviction wants no more than is missing, and
one that took nothing has tried everything it may.

Also `DownloadsAreWhole` (`PublishedIsWhole`), for any sizes, attempts and
processes: the partial file of a call holds what this attempt received, no more and
in its order (`Received`), and is gone when the call returns.

`MCLaunch_proofs`, the image cache, for any processes and machines, with crashes: no eviction
takes an image in use (`EvictsOnlyUnused`), and what a reader was given stays
until it has read it (`ImageServesItsUsers`). A lease is only added while nobody
has the storage lock, so what an eviction read is still so when it deletes
(`EvictionInv`), and a create has its lease until its `machine.json` stands
(`LeaseInv`). Both assume that a `machine.json` is seen whole (`TornSaves =
FALSE`), the second that one process alone adds to the cache, without which it is
false: `image_cache_two_fetch`, and the rows of the table above.

`SocketRegistry_proofs`, for any machines, links, processes and scenes:

* `PortsAlwaysDiffer` and `NoneLeftEmpty`, whatever times out, and typing. Ports
  are chosen above the highest, so the invariant bounds them (`PortsBounded`): of
  infinitely many there need be no highest. `CreateInv` says what the one who
  chooses a port under the registry's lock may still rely on when it saves the link.
* `EndsStayExclusive` and `LinksOutlast`, as long as no wait for a link's lock
  runs out, and `StoppedHoldsNone`, which needs also that no listing marks a
  machine stopped. What a QEMU is told comes from its process's copy and not
  from the file, so that the ends in the file differ is not enough. `Place` says
  of each machine and link what the file has of the machine by how far it is:
  the links it has left to join or to leave, the ones it is done with, what it
  was told. `Keeps`: no step of another machine gives it any or takes any away.
  That the copy says what the file says while a process resolves rests on its
  doing one thing at a time (`OneAtATime`).

`MCLaunch_proofs!EndsExclude` and `LinksFollow` carry them over to the run
`launch`, where the links are one of the parts that play. The other parts of it:

* `NothingIsReset` (`LaunchedAsLeft`), for any number of disks, crashes and
  writes. Of the disks: a disk is made only where there was none, what a guest
  wrote stays written, or is lost, until clean takes it, and a start has looked at
  every disk before it runs. Of the EFI variables: the file, when it is whole, is
  what the guest last wrote; until there is one, its source is; only the
  conversion under way or a crash leaves it unfinished.
* `PackagesServed`, if one process adds to the cache (`OneInstaller`): two
  replace an extraction under its reader, as the table above says. `LeaseInv` is
  as for images.
* `WaitsFit`: whoever waits for a boot has in hand the accelerator that the QEMU was
  launched with, or, of a launch that was left paused, the one it put on record
  (`RecordFits`). One operation works on a machine at a time, as the machine's lock
  has it (`Lifecycle_proofs`).

`MCGuest_proofs`, the parts of `guest`, each for any number of calls:

* `ReturnedStepsAreDone`: of the steps in a guest that polls, restarts and drops
  connections. What was asked for and seen stays (`EffectSeen`), and a guest
  that installs packages is down for nothing but its reboot (`Restarts`): a guest
  counts as down after more than one missed probe (`Misses > 1`), as in the code,
  since one miss may be a dropped answer. Of the device mode: what the guest and
  the record have at each point of a call (`CallKept`), and the record of every
  feature that is not open (`RecordKept`): that no earlier failure, first boot given
  another mode or call under way may have changed. The window decides what a
  record is evidence of: before its step is listed the guest was told nothing that is
  not open, and a first boot meets a factory guest (`WindowKept`). No feature is
  named `mode`, which is the field's own name.
* `AgentIsHeard`: no call takes another's answer for its own, a script
  runs once at most, and ran if its call says so. Before its connection is served, the agent has heard of a
  call its synchronisation at most (`Unserved`); nothing follows the
  synchronisation that it waits for (`Synchronises`), so what an abandoned call left
  is read before it; and behind it one exchange is under way at a time (`Exchanges`).
* `RepliesAreWhole`: of the console, that a framed reply holds the whole output and that
  a command runs once at most. Framing is sound because the marker's expression
  comes right behind its command and is read at a prompt only when that was; while it
  runs, its call is the one that is served (`Sound`). A command is typed once and
  never after it ran (`Once`).
* `ScriptsRunOnce`, `ReadyTwice` and `MonitorIsTrue`: of `exec()`, the readiness probes
  and the monitor. For the API's probe this takes the lemma that no prefix of an answer
  parses as another one; for both, that a guest which starts answers credentials that fit
  with nothing that counts; for the monitor, that each call knows whether the
  command it sent has been carried out, and who paused the guest resumes it.
* `DiagnosesAreTrue`: of the report of a boot that failed. Its hypotheses are the
  arithmetic of `guest-snapshot.ts:157-191`: host ports are positive and differ, and the
  budget leaves room for two queries and their logins: the second login candidate
  is tried with what the first has left. The guest is reached because few calls hang:
  each query that is over came to the login that fits with time enough and hung there,
  so there was one of them at most (`Hung`), and it took from the next query no more than
  one login's time, and that only when its reply hung (`Slack`).

Out of the prover's reach and left to TLC: everything under fairness (the
liveness of `locks`, `storage` and `guest`), and ENABLED.

Model-checked only, of what is within its reach in principle:

* `RunsAsAsked`, the third part of `ConsoleRunsTheCommand`: a command runs as the
  user asked for, unless two calls gave up before. What decides it is what the guest
  will do once it has read every line typed so far, a recursion over data. TLC checks
  it for three calls with two pokes, and did for four with one.
* `NothingDropped` of `Provisioning`: it needs premises on what else may run beside a
  start, of device modes, levels and accounts, in which the statement would be no
  shorter than the cases of its proof. The run `guest` satisfies them by its cast.

## Not modelled, and why

* The command line, the wizard, completions, formatting, RouterOS's wording and
  the layout of reports: text, with no state of their own. The order in which the
  command line calls the library is in `Allocation` and `Lifecycle`.
* Network specifiers, their resolution to NICs and host interfaces, and the QEMU
  arguments made of them: text from a record. The links they name are in
  `SocketRegistry`.
* The console fallback of provisioning (`consoleProvision`, `provision.ts:348-387`,
  `710-727`): where REST does not come up, the user is added and admin disabled by
  two console commands whose replies nobody reads. What `ReturnedIsDone` says of these
  two steps is of the route over REST; of the fallback it would not hold.
* Copying files into a guest, ZIP reading, the retried rename of Windows, random
  names and passwords, paths: wrappers and pure functions.
* The search for QEMU and firmware binaries, the resolvers behind the IPv4
  fallback, the operating system's key chain: answers of the machine quickchr
  runs on, a free choice in the modules that ask.
* The policies that choose what to evict: any choice is allowed, so the policies
  are among them.
* Reuse of a pid by another program in `FileLock` (it appears in `Lifecycle`,
  where signals are sent), and a directory listing that is not atomic.
* Records that cannot be read or that a later quickchr wrote.
* A full disk while a release marker is written (the code tries again).
* Two actions on one machine by threads of one process: the code has none.
* A guest that boots faster than an eviction pass ends (`PackageCache` assumes
  it does not).

## Plan

What the runs check is proved but for the liveness and the two properties named
at the end of the proofs. Left to prove, in the order of what it would say:

1. The truth of `Lifecycle` without `WritersAlone`, for writers that only note
   and never mark a machine stopped.
2. `NothingDropped`, first for the starts that ask no device mode.
3. `RunsAsAsked` for two calls, where what was typed is short enough to say in full.

To model, should the code grow there: the report of storage and operations that
write more than they declared (`storage.ts`), key files and the upload of
packages (`provision.ts`), the completion of registry entries that lack fields.
