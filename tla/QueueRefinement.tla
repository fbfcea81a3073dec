---------------------------- MODULE QueueRefinement ----------------------------
(***************************************************************************)
(* The scheduler implements the promise: the jobs are what the rows say.   *)
(***************************************************************************)
EXTENDS QueueEngine

\* What the rows r say of the jobs.
JobOf(row) == [state |-> row.state, provider |-> row.provider, attempt |-> row.attempt]
Mapped(r) == [i \in Items |-> JobOf(r[i])]

Jobs == INSTANCE JobQueue WITH job <- Mapped(rows)

\* Whatever scans, halts, cancels, late settlements, hand-offs and relaunches
\* interleave, each step of the engine does to the rows what the promise allows:
\* a claim respects the limits, which the engine only counts in memory, the end
\* of a job is final, and history is not forgotten below its bound.
ImplementsJobQueue == Jobs!JobSpec
===============================================================================
