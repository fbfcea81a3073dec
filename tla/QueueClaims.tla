----------------------------- MODULE QueueClaims -----------------------------
(***************************************************************************)
(* What a comment of the repository says of the job queue and the code     *)
(* does not do: refuted by a run of QueueMC.                               *)
(***************************************************************************)
EXTENDS QueueEngine

\* QueueEngine.swift, handleWorkerFinished: slots are released "exactly once per
\* dispatch, on every path".  So with nothing running and no worker alive no
\* slot is taken.
SlotsComeBack ==
  lifecycle = "running" /\ Running(rows, Lanes) = {} /\ (\A l \in Leases : worker[l].pc \notin Live)
    => \A p \in Providers : providerActiveCounts[p] = 0
===============================================================================
