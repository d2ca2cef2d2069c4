------------------------------ MODULE MCLaunch ------------------------------
(***************************************************************************)
(* What the launch of a machine takes from the data directory: the cache,  *)
(* the registry of named sockets, its disks, its EFI variables and the     *)
(* accelerator.  They share no state but the storage lock of the caches,   *)
(* so one of them plays at a time: the caches, or, ImageCache at rest, one *)
(* whose variables are the slots.                                          *)
(***************************************************************************)
EXTENDS MCCaches

CONSTANTS
  m1, m2, m3, l1, l2,
  Nil,                             \* in what is not used, and "absent"
  Machine, Link, Joiners, Scenes, MaxStarts,   \* of the sockets
  Extras, DiskCrashes, DiskLosses,             \* of the disks
  EfiWrites, EfiCrashes,                       \* of the EFI variables
  Users, Host, Guest, Flag, Env, FileMode, Bad, MaxChanges   \* of the accelerator

VARIABLES plays, v1, v2, v3, v4, v5, v6, v7, v8, v9, v10

slots == <<v1, v2, v3, v4, v5, v6, v7, v8, v9, v10>>
caches == <<vars, packages>>
all == <<caches, plays, slots>>

RestingCaches ==
  /\ Init /\ img = "none" /\ ~zip
  /\ archive = Nil /\ extracted = Nil /\ wants = Nil /\ unseen = Nil /\ pins = Nil
  /\ pruner = Nil /\ kept = Nil /\ at = Nil

-----------------------------------------------------------------------------
(* Named sockets: three machines, two links, two processes.                *)
Wired(u, v, w) == [m \in {m1, m2, m3} |-> CASE m = m1 -> u [] m = m2 -> v [] m = m3 -> w]

MCScenes ==
  { \* m1 spans two links, the second of which m2 and m3 may fill
    [uses |-> Wired(<<l1, l2>>, <<l2>>, <<l2>>), default |-> "dgram", creates |-> 0,
     may |-> {"die"}],
    \* m1 and m2 join two links in opposite orders, their ports to be chosen
    [uses |-> Wired(<<l1, l2>>, <<l2, l1>>, <<>>), default |-> "listen-connect", creates |-> 1,
     may |-> {"die", "refresh"}],
    \* three on one link, some of them refused, some of them abandoned
    [uses |-> Wired(<<l1>>, <<l1>>, <<l1>>), default |-> "listen-connect", creates |-> 0,
     may |-> {"crash", "check"}],
    \* a wait for the lock of a link runs out
    [uses |-> Wired(<<l1>>, <<l1>>, <<>>), default |-> "listen-connect", creates |-> 0,
     may |-> {"time out"}] }

Sockets == INSTANCE SocketRegistry WITH
  Proc <- Joiners,
  scene <- v1, reg <- v2, cache <- v3, creating <- v4, vm <- v5, by <- v6, todo <- v7,
  net <- v8, starts <- v9, creates <- v10

(* A boot disk and two extra ones, one process that dies, one file lost.   *)
Drives == INSTANCE Disks WITH
  MaxCrashes <- DiskCrashes, MaxLosses <- DiskLosses,
  format <- v1, disk <- v2, tmp <- v3, booted <- v4, running <- v5, op <- v6, at <- v7,
  held <- v8, crashes <- v9, losses <- v10

(* Three writes of the guest, two crashes.                                 *)
Efi == INSTANCE EfiVars WITH
  None <- Nil, MaxWrites <- EfiWrites, MaxCrashes <- EfiCrashes,
  dest <- v1, legacy <- v2, stage <- v3, at <- v4, last <- v5, crashes <- v6

(* Two processes with different overrides, beside a file that changes.     *)
MCHost == [os |-> "linux", arch |-> "x64", translated |-> FALSE]
MCFlag == [u \in Users |-> IF u = "u" THEN "tcg" ELSE Nil]
MCEnv == [u \in Users |-> IF u = "u" THEN "kvm" ELSE Nil]
MCFileMode == {Nil, Bad, "tcg"}
Qemu == INSTANCE Launch WITH
  Proc <- Users, Unset <- Nil,
  file <- v1, kvm <- v2, changes <- v3, qemu <- v4, frozen <- v5, lastAccel <- v6, at <- v7

ASSUME LaunchesAssumption ==
  /\ Sockets!RegistryAssumption /\ Drives!DisksAssumption
  /\ Efi!EfiVarsAssumption /\ Qemu!LaunchAssumption

-----------------------------------------------------------------------------
LaunchInit ==
  \/ plays = "caches" /\ BothInit
     /\ v1 = Nil /\ v2 = Nil /\ v3 = Nil /\ v4 = Nil /\ v5 = Nil /\ v6 = Nil /\ v7 = Nil
     /\ v8 = Nil /\ v9 = Nil /\ v10 = Nil
  \/ /\ RestingCaches
     /\ \/ plays = "sockets" /\ Sockets!Init
        \/ plays = "disks" /\ Drives!Init
        \/ plays = "efi" /\ Efi!Init /\ v7 = Nil /\ v8 = Nil /\ v9 = Nil /\ v10 = Nil
        \/ plays = "qemu" /\ Qemu!Init /\ v8 = Nil /\ v9 = Nil /\ v10 = Nil

\* Nothing else of the rest moves.
Plays(who, idle) == plays = who /\ UNCHANGED <<plays, idle>>

LaunchNext ==
  \/ Plays("caches", slots) /\ BothNext
  \/ Plays("sockets", caches) /\ Sockets!Next
  \/ Plays("disks", caches) /\ Drives!Next
  \/ Plays("efi", <<caches, v7, v8, v9, v10>>) /\ Efi!Next
  \/ Plays("qemu", <<caches, v8, v9, v10>>) /\ Qemu!Next

Launches == LaunchInit /\ [][LaunchNext]_all

-----------------------------------------------------------------------------
(* Properties                                                              *)

\* What a process downloads, extracts and uploads of the packages is not taken before it is
\* done (storage-lease.ts:7-12).
PackagesServeTheirUsers ==
  plays = "caches" => Packages!ReadersSeeEveryPackage /\ Packages!NothingTakenWhileMade

\* No two machines bind one end of a link, and no two links one port; a machine that does
\* not run holds no end (quickchr.ts:308-311, 338-357; socket-registry.ts:138-142, 227-237).
EndsAreExclusive ==
  plays = "sockets" =>
    Sockets!EndsAreExclusive /\ Sockets!PortsDiffer /\ Sockets!StoppedHoldsNoEnd

\* A link stays, with the same end, for as long as a machine runs on it, and no longer if
\* nobody asked for it (socket-registry.ts:395-409, 526-528).
LinksFollowTheirUsers ==
  plays = "sockets" => Sockets!LinkOutlastsItsUsers /\ Sockets!NoEmptyAutoLink

\* A guest runs on a whole boot disk and finds its data on every disk that clean has not
\* taken, whatever file was lost or operation interrupted (disk.ts:160-199, 225-276); it is
\* given the EFI variables it last wrote, and only a crash leaves an unfinished conversion
\* for a launch (qemu.ts:95-97, 325-327).
LaunchedAsLeft ==
  /\ plays = "disks" => Drives!LaunchedAsLeft
  /\ plays = "efi" => Efi!VariablesAreKept /\ Efi!FailedIsMadeAnew

\* What a wait for the boot allows is for the accelerator the QEMU runs with.
WaitFitsTheLaunch == plays = "qemu" => Qemu!WaitFitsTheLaunch
=============================================================================
