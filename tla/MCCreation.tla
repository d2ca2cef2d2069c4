----------------------------- MODULE MCCreation -----------------------------
(***************************************************************************)
(* What the creation of a machine rests on: the allocation of its name and *)
(* ports, the search for a free block, its forwards, the settings, the     *)
(* version of a channel and the saved login.  They share no state, so one  *)
(* of them plays at a time: the allocation, or, while that rests, one      *)
(* whose variables are the slots v1, v2, ...                               *)
(***************************************************************************)
EXTENDS Allocation

CONSTANTS
  n1, n2, a1, a2, a3, e3, s1, w1, r1,
  Nil,   \* in what is not used, and the components' own "absent"
  SearchOffsets, SearchHosts, SearchBases, SearchListening, SearchTries,
  ForwardBlock, ForwardBase, Services, WellKnown, ExtraOffset, HighestPort, LongestRange,
  ForwardsAsked, ForwardsEach, ForwardMachines, ForwardTries,
  Setter, OwnKeys, OtherKeys, SettingValues, BadValue,       \* of the settings
  FileLines, FileEdits, FileChanges,
  Channels, Finished, ReleaseLine, MinRelease, AskTries, NewReleases,
  LoginProc, LoginMachine, LoginsGiven

VARIABLES plays, v1, v2, v3, v4, v5, v6, v7, v8, v9

slots == <<v1, v2, v3, v4, v5, v6, v7, v8, v9>>
all == <<vars, plays, slots>>

-----------------------------------------------------------------------------
(* Allocation: two creations of one name, a third beside them, and a       *)
(* removal; or a machine that is started the first time, saved again and   *)
(* removed, beside one that asks for its base.                             *)
MCCasts == {{a1, a2, a3, r1}, {s1, w1, r1, e3}}
MCTarget == [p \in Proc |-> IF p \in {a3, e3} THEN n2 ELSE n1]
MCPortBase == [p \in Creator |-> IF p = e3 THEN DefaultPortBase ELSE 0]
\* The digests of the names are equal, so one salts past the other.
MCDigest == [n \in Name |-> 1]

RestingAllocation == Init /\ pc[a1] = "idle"

(* A search over every set of machines with one of these bases, while some *)
(* ports answer.                                                           *)
Search == INSTANCE PortSearch WITH
  Offsets <- SearchOffsets, ExplicitHosts <- SearchHosts, Bases <- SearchBases,
  Listening <- SearchListening, MaxAttempts <- SearchTries,
  used <- v1, busy <- v2, base <- v3, attempt <- v4, unprobed <- v5, conflict <- v6,
  result <- v7

(* Two machines with up to two forwards each: a well-known name, given     *)
(* ports in the default block, a range over the automatic extras, a second *)
(* ssh.                                                                    *)
Any == [kind |-> "omitted", lo |-> 0, hi |-> 0]
Port(n) == [kind |-> "one", lo |-> n, hi |-> n]
Span(lo, hi) == [kind |-> "span", lo |-> lo, hi |-> hi]
Forward(name, host, guest) == [name |-> <<name>>, host |-> host, guest |-> guest, proto |-> "unset"]

MCService == [l \in {<<"http">>, <<"ssh">>} |->
                IF l = <<"http">> THEN [offset |-> 0, guest |-> 80] ELSE [offset |-> 2, guest |-> 22]]
MCRegistry == [l \in {<<"smb">>, <<"ssh">>} |->
                 [guest |-> IF l = <<"smb">> THEN 445 ELSE 22, proto |-> "tcp"]]
MCAsked ==
  {Forward("smb", Any, Any), Forward("a", Port(9112), Port(7)), Forward("b", Port(9112), Port(8)),
   Forward("r", Span(9108, 9109), Any), Forward("r", Span(9108, 9109), Span(5, 5)),
   Forward("r", Span(9110, 9110), Span(5, 5)), Forward("ssh", Port(9101), Any),
   Forward("x", Any, Any)}

Fwd == INSTANCE Forwards WITH
  PortsPerBlock <- ForwardBlock, DefaultPortBase <- ForwardBase, Service <- Services,
  Registry <- WellKnown, FirstExtra <- ExtraOffset, MaxPort <- HighestPort,
  RangeMax <- LongestRange, Asked <- ForwardsAsked, MaxForwards <- ForwardsEach,
  MaxMachines <- ForwardMachines, MaxAttempts <- ForwardTries,
  asked <- v1, extras <- v2, machines <- v3

(* Two processes change two keys of one file that a person edits too.      *)
File == INSTANCE Settings WITH
  Proc <- Setter, Managed <- OwnKeys, Foreign <- OtherKeys, Value <- SettingValues,
  Bad <- BadValue, Absent <- Nil, MaxLines <- FileLines, MaxEdits <- FileEdits,
  MaxChanges <- FileChanges,
  file <- v1, temp <- v2, op <- v3, read <- v4, edits <- v5, changes <- v6, last <- v7

(* Two channels, one of them of finished releases, along a line with every *)
(* kind of version on either side of the oldest that can be provisioned.   *)
Version(major, minor, patch, stage, num) ==
  [major |-> major, minor |-> minor, patch |-> patch, stage |-> stage, num |-> num]
MCLine ==
  <<Version(6, 49, 23, "release", 0), Version(7, 9, 0, "release", 0),
    Version(7, 20, 8, "rc", 1), Version(7, 20, 8, "release", 0),
    Version(7, 24, 0, "beta", 2), Version(7, 24, 0, "beta", 10), Version(7, 24, 0, "rc", 1),
    Version(7, 24, 0, "release", 0)>>

Latest == INSTANCE Versions WITH
  Channel <- Channels, Released <- Finished, Line <- ReleaseLine, MinAt <- MinRelease,
  MaxAttempts <- AskTries, MaxReleases <- NewReleases,
  published <- v1, releases <- v2, pc <- v3, attempt <- v4, got <- v5, verdict <- v6,
  decided <- v7, active <- v8

(* Two processes that take turns at the logins of two machines.            *)
Logins == INSTANCE Secrets WITH
  Proc <- LoginProc, Machine <- LoginMachine, Absent <- Nil, MaxLogins <- LoginsGiven,
  Together <- 1,
  store <- v1, torn <- v2, at <- v3, copy <- v4, issued <- v5, owes <- v6

ASSUME CreationAssumption ==
  /\ Search!PortSearchAssumption
  /\ Fwd!ForwardsAssumption /\ File!SettingsAssumption
  /\ Latest!VersionsAssumption /\ Logins!SecretsAssumption

-----------------------------------------------------------------------------
CreationInit ==
  \/ plays = "allocation" /\ Init
     /\ v1 = Nil /\ v2 = Nil /\ v3 = Nil /\ v4 = Nil /\ v5 = Nil /\ v6 = Nil /\ v7 = Nil
     /\ v8 = Nil /\ v9 = Nil
  \/ /\ RestingAllocation
     /\ \/ plays = "search" /\ Search!Init /\ v8 = Nil /\ v9 = Nil
        \/ plays = "forwards" /\ Fwd!Init /\ v4 = Nil /\ v5 = Nil /\ v6 = Nil /\ v7 = Nil
           /\ v8 = Nil /\ v9 = Nil
        \/ plays = "settings" /\ File!Init /\ v8 = Nil /\ v9 = Nil
        \/ plays = "versions" /\ Latest!Init /\ v9 = Nil
        \/ plays = "logins" /\ Logins!Init /\ v7 = Nil /\ v8 = Nil /\ v9 = Nil

\* Nothing else of the rest moves.
Plays(who, idle) == plays = who /\ UNCHANGED <<plays, idle>>

CreationNext ==
  \/ Plays("allocation", slots) /\ Next
  \/ Plays("search", <<vars, v8, v9>>) /\ Search!Next
  \/ Plays("forwards", <<vars, v4, v5, v6, v7, v8, v9>>) /\ Fwd!Next
  \/ Plays("settings", <<vars, v8, v9>>) /\ File!Next
  \/ Plays("versions", <<vars, v9>>) /\ Latest!Next
  \/ Plays("logins", <<vars, v7, v8, v9>>) /\ Logins!Next

Creation == CreationInit /\ [][CreationNext]_all

-----------------------------------------------------------------------------
(* Properties                                                              *)

\* A change of a setting keeps every other line of the file (settings.ts:280-281).
KeepsOtherLines == [][plays = "settings" => File!KeepsOtherLines]_all

\* The search finds the lowest block that overlaps no machine and whose ports are all
\* silent (network.ts:44-51, 222-224).
SearchIsExact == plays = "search" => Search!FoundIsFree /\ Search!UnusedIsLowest

\* Every forward is in the machine's map, and a host port that was asked for is held
\* once (forward-spec.ts:131-133, network.ts:87-92).
ForwardsAreKept == plays = "forwards" => Fwd!ForwardsAreMade /\ Fwd!GivenPortsAreOwn

\* What a version may be used for and which channels are worth booting follows the order
\* of releases, and an answer of the server is final (versions.ts:112-119, 292-349).
ChannelsAreJudged == plays = "versions" => Latest!FollowsTheLine /\ Latest!NoIsNo

\* A setting is what it was last set to, whatever lines the key had before
\* (settings.ts:282-318, 324-362); a saved login is found until it is deleted, as long as
\* processes take turns (credentials.ts:10-12, 75-77).
SavedIsFound ==
  /\ plays = "settings" => File!ChangeIsResolved
  /\ plays = "logins" => Logins!SavedIsFound
=============================================================================
