------------------------------- MODULE JobQueue -------------------------------
(***************************************************************************)
(* What the job queue promises its clients, with nothing of how it is done:*)
(* no scans, slots, leases, workers or processes.  A job is in one state,  *)
(* it is claimed only when the limits allow it, it is retried only after a *)
(* failure or a cancel, and its end is final until then.  QueueEngine      *)
(* implements this (QueueRefinement).                                      *)
(***************************************************************************)
EXTENDS QueueStore

CONSTANTS WikiOf, Limit, HistoryLimit

VARIABLE job     \* item -> [state, provider, attempt]

NoJob == [state |-> "absent", provider |-> NoProvider, attempt |-> 0]

Claimed(lane) == {i \in Items : LaneOf[i] = lane /\ job[i].state = "running"}

\* A step that leaves the jobs `new` may also forget some of the finished ones.
Settles(new) == \E S \in Prunable(new, HistoryLimit) \cup {{}} :
  job' = [i \in Items |-> IF i \in S THEN [NoJob EXCEPT !.state = "pruned"] ELSE new[i]]

Moved(i, from, to) ==
  job[i].state \in from /\ Settles([job EXCEPT ![i].state = to])

Submit(i) == Moved(i, {"absent"}, "queued")

\* At most one ingestion per wiki, at most Limit jobs of a lane per provider.
Claim(i, p) ==
  /\ job[i].state = "queued"
  /\ LaneOf[i] = "ingestion" => \A j \in Claimed("ingestion") : WikiOf[j] # WikiOf[i]
  /\ Cardinality({j \in Claimed(LaneOf[i]) : job[j].provider = p}) < Limit[LaneOf[i]][p]
  /\ Settles([job EXCEPT ![i] = [state |-> "running", provider |-> p, attempt |-> @.attempt]])

\* A claim that the store could not confirm is taken back at once; the job waits
\* for any provider again, also where a retry had kept the last one.
Unclaim(i) ==
  /\ job[i].state = "queued"
  /\ Settles([job EXCEPT ![i].provider = NoProvider])

Finish(i) == \E end \in {"completed", "failed"} : Moved(i, {"running"}, end)

\* A halt, a hand-off, a relaunch, or a worker that was told to stop.
GiveBack(S) ==
  /\ \A i \in S : job[i].state = "running"
  /\ Settles([i \in Items |->
                IF i \in S
                THEN [state |-> "queued", provider |-> NoProvider, attempt |-> job[i].attempt]
                ELSE job[i]])

CancelJobs(S) ==
  /\ \A i \in S : job[i].state \in Active
  /\ Settles([i \in Items |-> IF i \in S THEN [job[i] EXCEPT !.state = "cancelled"]
                              ELSE job[i]])

Again(i) ==
  /\ job[i].state \in {"failed", "cancelled"}
  /\ Settles([job EXCEPT ![i] = [state |-> "queued", provider |-> @.provider,
                                 attempt |-> @.attempt + 1]])

JobInit == job = [i \in Items |-> NoJob]

JobNext ==
  \/ \E i \in Items : Submit(i) \/ Unclaim(i) \/ Finish(i) \/ Again(i)
  \/ \E i \in Items, p \in Providers : Claim(i, p)
  \/ \E S \in SUBSET Items : GiveBack(S) \/ CancelJobs(S)

JobSpec == JobInit /\ [][JobNext]_job
===============================================================================
