------------------------------ MODULE QueueStore ------------------------------
(***************************************************************************)
(* The durable half of the job queue: what each statement of QueueStore    *)
(* (Sources/WikiFSCore/Core/QueueStore.swift) does to the rows of          *)
(* queue.sqlite and to the attempt reports.  Every operation is one SQLite *)
(* transaction, so it is an operator from rows to rows (or from reports to *)
(* reports), and the engine composes them into its actions.                *)
(*                                                                         *)
(* A transition is a compare-and-set: on a row that is not in one of its   *)
(* source states it throws and changes nothing, here it returns its        *)
(* argument.  Payloads, timestamps, error texts, transcripts and usage are *)
(* not modelled.  Of a report only the identity of the dispatch that owns  *)
(* it and the state of its targets are kept: the target inventory is       *)
(* "absent" (no header row), "empty" (header reset by a lease activation), *)
(* "live" (some target is planned or being worked on) or "settled" (every  *)
(* target has an observed outcome or is marked interrupted).               *)
(***************************************************************************)
EXTENDS Naturals, FiniteSetsExt

CONSTANTS Items,         \* job identities (QueueItem.ID)
          Providers,     \* provider identities
          NoProvider,    \* provider_id IS NULL
          LaneOf,        \* item -> "extraction" | "ingestion"
          Gap            \* distance of a new ordering key from the largest one

Lanes == {"extraction", "ingestion"}
NoLease == 0

ASSUME StoreAssumption ==
  /\ IsFiniteSet(Items)
  /\ NoProvider \notin Providers
  /\ LaneOf \in [Items -> Lanes]
  /\ Gap \in Nat \ {0}

Terminal == {"completed", "failed", "cancelled"}
Active == {"queued", "running"}
ItemState == {"absent", "pruned"} \cup Active \cup Terminal

Row == [state : ItemState, provider : Providers \cup {NoProvider},
        attempt : Nat, key : Nat, blocked : BOOLEAN]
NoRow == [state |-> "absent", provider |-> NoProvider,
          attempt |-> 0, key |-> 0, blocked |-> FALSE]

Report(Leases) == [exec : Leases \cup {NoLease},
                   targets : {"absent", "empty", "live", "settled"}]
NoReport == [exec |-> NoLease, targets |-> "absent"]
-------------------------------------------------------------------------------
(* Reads. *)

\* loadActive, filtered to the running rows of a set of lanes.
Running(r, lanes) == {i \in Items : LaneOf[i] \in lanes /\ r[i].state = "running"}

\* loadActive of one lane, filtered to the rows in a state: the ordering key
\* each was read with, and 0 for the items that are not among them.
ByKey(r, lane, state) ==
  [i \in Items |-> IF LaneOf[i] = lane /\ r[i].state = state THEN r[i].key ELSE 0]

Stored(r, lane) ==
  {i \in Items : LaneOf[i] = lane /\ r[i].state \notin {"absent", "pruned"}}

\* COALESCE(MAX(ordering_key), 0) of a lane, over active and terminal rows.
MaxOrderingKey(r, lane) == Max({0} \cup {r[i].key : i \in Stored(r, lane)})

NextOrderingKey(r, lane) == MaxOrderingKey(r, lane) + Gap
-------------------------------------------------------------------------------
(* Transitions of one row. *)

Cas(r, i, from, new) == IF r[i].state \in from THEN [r EXCEPT ![i] = new] ELSE r

Insert(r, i, k) == [r EXCEPT ![i] = [NoRow EXCEPT !.state = "queued", !.key = k]]

MarkRunning(r, i, p) ==
  Cas(r, i, {"queued"}, [r[i] EXCEPT !.state = "running", !.provider = p])

\* Mutant: the write is not a compare-and-set.
MarkCompletedBlind(r, i) == [r EXCEPT ![i].state = "completed"]
MarkCompleted(r, i) == Cas(r, i, {"running"}, [r[i] EXCEPT !.state = "completed"])

MarkFailed(r, i) == Cas(r, i, {"running"}, [r[i] EXCEPT !.state = "failed"])

MarkCancelled(r, i) == Cas(r, i, Active, [r[i] EXCEPT !.state = "cancelled"])

\* Mutant: the compare-and-set tests the state it goes to.
RequeueQueued(r, i) ==
  Cas(r, i, {"queued"}, [r[i] EXCEPT !.state = "queued", !.provider = NoProvider])
Requeue(r, i) ==
  Cas(r, i, {"running"}, [r[i] EXCEPT !.state = "queued", !.provider = NoProvider])

NextAttempt(row, k) ==
  [state |-> "queued", provider |-> row.provider, attempt |-> row.attempt + 1,
   key |-> k, blocked |-> FALSE]

\* Mutant: a retry keeps its place.
RetryItemInPlace(r, i, k) ==
  Cas(r, i, {"failed", "cancelled"}, [r[i] EXCEPT !.state = "queued", !.attempt = @ + 1])
RetryItem(r, i, k) == Cas(r, i, {"failed", "cancelled"}, NextAttempt(r[i], k))

RecordAdmissionWait(r, i) == Cas(r, i, {"queued"}, [r[i] EXCEPT !.blocked = TRUE])

UpdateOrderingKey(r, i, k) == [r EXCEPT ![i].key = k]
-------------------------------------------------------------------------------
(* Transitions of several rows. *)

RequeueAll(r, S) == [i \in Items |-> IF i \in S THEN Requeue(r, i)[i] ELSE r[i]]

CancelAll(r, S) == [i \in Items |-> IF i \in S THEN MarkCancelled(r, i)[i] ELSE r[i]]

ResetRunningToQueued(r) == RequeueAll(r, Running(r, Lanes))

ClearAdmissionWait(r, lane) ==
  [i \in Items |-> IF LaneOf[i] = lane /\ r[i].state = "queued"
                   THEN [r[i] EXCEPT !.blocked = FALSE] ELSE r[i]]

\* The rows of S are deleted.  A deleted job's id is never used again.
Delete(r, S) ==
  [i \in Items |-> IF i \in S THEN [NoRow EXCEPT !.state = "pruned"] ELSE r[i]]

\* The sets pruneHistory may delete: in each lane it leaves the `keep` terminal
\* rows that finished last.  Finish times are not modelled, so any may be last.
Prunable(r, keep) ==
  {S \in SUBSET {i \in Items : r[i].state \in Terminal} :
     \A lane \in Lanes :
        LET all == {i \in Items : LaneOf[i] = lane /\ r[i].state \in Terminal}
        IN  Cardinality(all \ S) = IF Cardinality(all) > keep THEN keep ELSE Cardinality(all)}
-------------------------------------------------------------------------------
(* Attempt reports.  rep[i] is the report of i's current attempt. *)

\* validateReportAttempt: the row still exists and is at the worker's attempt.
CurrentAttempt(r, i, attempt) ==
  r[i].state \notin {"absent", "pruned"} /\ r[i].attempt = attempt

\* Mutant: a new dispatch leaves the report it finds as it is.
ActivateReportKept(rep, i, lease) == rep

\* activateReportExecution: a new dispatch resets an existing report.
ActivateReport(rep, i, lease) ==
  IF rep[i].targets = "absent" \/ rep[i].exec = lease THEN rep
  ELSE [rep EXCEPT ![i] = [exec |-> lease, targets |-> "empty"]]

\* beginReport: create, take over, or fill the emptied inventory.
BeginReport(rep, i, lease) ==
  IF rep[i].exec = lease /\ rep[i].targets \in {"live", "settled"} THEN rep
  ELSE [rep EXCEPT ![i] = [exec |-> lease, targets |-> "live"]]

\* commitReportMutation: only the owning dispatch may change the report.
CommitReport(rep, i, lease, targets) ==
  IF rep[i].targets = "absent" \/ rep[i].exec # lease THEN rep
  ELSE [rep EXCEPT ![i].targets = targets]

\* projectInterruptedReport: unfinished targets become interrupted.
ProjectInterrupted(rep, S) ==
  [i \in Items |-> IF i \in S /\ rep[i].targets = "live"
                   THEN [rep[i] EXCEPT !.targets = "settled"] ELSE rep[i]]

\* A retry starts a new attempt, which has no report; a deleted row has none.
DropReports(rep, S) == [i \in Items |-> IF i \in S THEN NoReport ELSE rep[i]]
===============================================================================
