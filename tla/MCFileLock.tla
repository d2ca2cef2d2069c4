----------------------------- MODULE MCFileLock -----------------------------
(* Small instances of FileLock. *)
EXTENDS FileLock, TLC

Contenders == Permutations(Proc)
=============================================================================
