------------------------------- MODULE OwnershipMC -------------------------------
(***************************************************************************)
(* Small instances of queue ownership for TLC.                             *)
(***************************************************************************)
EXTENDS QueueOwnership, TLC

CONSTANTS c1, c2,         \* candidates
          k1,             \* callers
          o1              \* operations at the daemon's host

Symmetry == Permutations(Candidates)
===============================================================================
