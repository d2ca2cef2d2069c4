------------------------------ MODULE MCCaches ------------------------------
(***************************************************************************)
(* The image and the packages of one version in one cache, fetched and     *)
(* evicted side by side.  They share no file and no lease; each takes the  *)
(* storage lock for itself, which is more than the code allows.            *)
(***************************************************************************)
EXTENDS ImageCache

CONSTANTS
  p1, p2, p3,
  Installers    \* the processes that may install packages

VARIABLES archive, extracted, wants, unseen, pins, pruner, kept, at

packages == <<archive, extracted, wants, unseen, pins, pruner, kept, at>>

Packages == INSTANCE PackageCache
  WITH Fetchers <- Installers, zip <- archive, dir <- extracted, leases <- pins,
       lock <- pruner, pc <- at

ASSUME CachesAssumption == Packages!PackagesAssumption

BothInit == Init /\ Packages!Init

BothNext == (Next /\ UNCHANGED packages) \/ (Packages!Next /\ UNCHANGED vars)

Both == BothInit /\ [][BothNext]_<<vars, packages>>
=============================================================================
