------------------------------ MODULE QueueEngine ------------------------------
(***************************************************************************)
(* The job queue's scheduler: the actor QueueEngine                        *)
(* (Sources/WikiFSEngine/QueueEngine.swift) with the worker output leases  *)
(* (QueueWorkerOutputChannel.swift) and the store it writes through to.    *)
(*                                                                         *)
(* Actor isolation makes everything between two suspension points one      *)
(* step, so an action is the code from one `await` that really waits to    *)
(* the next.  What can be suspended is kept as a process:                  *)
(*   worker[l]  the dispatch with output lease l, from its claim until its *)
(*              task has settled;                                          *)
(*   scan[s]    a dispatchScan suspended in workerFactory.providerID, with *)
(*              the snapshot of the lane it is walking;                    *)
(*   client[c]  a cancelItem, cancelAllInFlight or halt suspended in       *)
(*              drainOutput, with what it has still to do;                 *)
(*   waiter[w]  a waitForCompletion call.                                  *)
(* Errors thrown by SQLite (every one is logged and skipped) are left out. *)
(***************************************************************************)
EXTENDS QueueStore

CONSTANTS WikiOf,        \* item -> wiki
          Routes,        \* item -> answers providerID(for:) may give
          Limit,         \* lane -> provider -> how many may run at once
          EmitKinds,     \* report emissions a worker makes: "begin", "update"
          DetachedEmits, \* may an update outlive its worker's execute?
          EmptyDrainYields,   \* may others run while nothing has to be drained?
          Movable,       \* items that reorderItem is called for
          Calls,         \* the other calls this instance's environment makes
          Scans, Clients, Waiters,   \* slots for suspended calls
          MaxDispatch, MaxAttempt, MaxKey, MaxCrash,   \* bounds
          HistoryLimit   \* config.recentLimit

Leases == 1..MaxDispatch

ASSUME EngineAssumption ==
  /\ Routes \in [Items -> SUBSET (Providers \cup {NoProvider})]
  /\ Limit \in [Lanes -> [Providers -> Nat]]
  /\ EmitKinds \subseteq {"begin", "update"}
  /\ {DetachedEmits, EmptyDrainYields} \subseteq BOOLEAN /\ Movable \subseteq Items
  /\ DOMAIN WikiOf = Items
  /\ MaxDispatch \in Nat /\ MaxAttempt \in Nat /\ MaxKey \in Nat
  /\ MaxCrash \in Nat /\ HistoryLimit \in Nat

VARIABLES
  rows, savedRunStates, report,            \* durable: queue.sqlite
  lifecycle, runStates,                    \* the rest dies with the process
  providerActiveCounts, activeIngestionWikis, runningTasks, releaseDeferredByRebuild,
  active, inFlight,                        \* QueueWorkerLeaseRegistry
  awaitedWorkers, awaitedDrains,           \* what shutdownSettlementTask awaits
  worker, scan, client, waiter,
  dispatched, crashes                      \* leases issued, crashes so far

storeVars == <<rows, savedRunStates, report>>
slotVars == <<providerActiveCounts, activeIngestionWikis, releaseDeferredByRebuild>>
outputVars == <<active, inFlight>>
shutdownVars == <<awaitedWorkers, awaitedDrains>>
counterVars == <<dispatched, crashes>>
vars == <<storeVars, lifecycle, runStates, slotVars, runningTasks, outputVars,
          shutdownVars, worker, scan, client, waiter, counterVars>>

Lifecycle == {"created", "running", "shuttingDown", "shutdownBlocked", "shutDown"}
Outcome == {"success", "failed", "cancelled"}
Live == {"running", "draining"}

\* The items a loop has left, with the keys it read (0: not among them), and
\* the one it takes next.
Snapshot == [Items -> Nat]
NoItems == [i \in Items |-> 0]
Without(todo, i) == [todo EXCEPT ![i] = 0]
First(todo, i) == todo[i] # 0 /\ \A j \in Items : todo[j] # 0 => todo[i] <= todo[j]

NoWorker == [pc |-> "none"]
RetiredWorker == [pc |-> "done"]
IdleScan == [lane |-> "ingestion", todo |-> NoItems, noted |-> {}, prune |-> FALSE]
IdleClient == [op |-> "idle"]
IdleWaiter == [pc |-> "idle"]
-------------------------------------------------------------------------------
(* Scanning. *)

\* dispatchScan from `lane` on, up to its first suspension: the snapshot of the
\* first lane with something queued, and the items noted in it as blocked.
ScanFrom(r, rs, lane, prune) ==
  LET view(l) == IF rs[l] = "running" THEN ByKey(r, l, "queued") ELSE NoItems
      at == IF lane = "extraction" /\ view("extraction") # NoItems
            THEN "extraction" ELSE "ingestion"
  IN  IF view(at) = NoItems THEN IdleScan
      ELSE [lane |-> at, todo |-> view(at), prune |-> prune,
            noted |-> {i \in Items : view(at)[i] # 0 /\ r[i].blocked}]

\* The rows and reports a step leaves behind.  pruneHistory follows the scan of
\* a settlement.
Save(r, rep, prune) ==
  IF prune THEN \E S \in Prunable(r, HistoryLimit) :
                  rows' = Delete(r, S) /\ report' = DropReports(rep, S)
  ELSE rows' = r /\ report' = rep

\* Mutant: a settlement frees its slot and looks for nothing to put in it.
DispatchScanNotAfterSettling(r, rep, rs, lc, prune) ==
  /\ Save(r, rep, prune)
  /\ LET new == IF lc = "running" /\ ~prune THEN ScanFrom(r, rs, "extraction", FALSE)
                ELSE IdleScan
     IN  IF new = IdleScan THEN scan' = scan
         ELSE \E s \in Scans : scan[s] = IdleScan /\ scan' = [scan EXCEPT ![s] = new]

\* await dispatchScan(), at the end of a call that leaves r and rep.
DispatchScan(r, rep, rs, lc, prune) ==
  LET new == IF lc = "running" THEN ScanFrom(r, rs, "extraction", prune) ELSE IdleScan
  IN  /\ Save(r, rep, prune /\ new = IdleScan)
      /\ IF new = IdleScan THEN scan' = scan
         ELSE \E s \in Scans : scan[s] = IdleScan /\ scan' = [scan EXCEPT ![s] = new]

\* The suspended scan s goes on as `next`.
Proceed(s, next, r, rep) ==
  /\ scan' = [scan EXCEPT ![s] = next]
  /\ Save(r, rep, scan[s].prune /\ next = IdleScan)

\* ... when it leaves its lane, and when it is done with i.
NextLane(s, r) ==
  IF scan[s].lane = "extraction" THEN ScanFrom(r, runStates, "ingestion", scan[s].prune)
  ELSE IdleScan

NextItem(s, i, r, rep) ==
  LET left == Without(scan[s].todo, i)
  IN  Proceed(s, IF left # NoItems THEN [scan[s] EXCEPT !.todo = left] ELSE NextLane(s, r), r, rep)
-------------------------------------------------------------------------------
(* Slots, leases and waiters. *)

\* rebuildInMemoryState, from the rows r.
Rebuild(r) ==
  /\ providerActiveCounts' =
       [p \in Providers |-> Cardinality({i \in Running(r, Lanes) : r[i].provider = p})]
  /\ activeIngestionWikis' = {WikiOf[i] : i \in Running(r, {"ingestion"})}
  /\ releaseDeferredByRebuild' = releaseDeferredByRebuild
       \cup {runningTasks[i] : i \in {j \in Items : runningTasks[j] # NoLease
                                                    /\ r[j].state # "running"}}

\* Mutants: a release that ignores the rebuild, and one that is not clamped either.
ReleaseSlotsAlways(l) ==
  LET p == worker[l].provider IN
  /\ providerActiveCounts' = [providerActiveCounts EXCEPT ![p] = IF @ = 0 THEN 0 ELSE @ - 1]
  /\ activeIngestionWikis' = activeIngestionWikis \ {WikiOf[worker[l].item]}
  /\ UNCHANGED releaseDeferredByRebuild

ReleaseSlotsUnclamped(l) ==
  /\ providerActiveCounts' = [providerActiveCounts EXCEPT ![worker[l].provider] = @ - 1]
  /\ activeIngestionWikis' = activeIngestionWikis \ {WikiOf[worker[l].item]}
  /\ UNCHANGED releaseDeferredByRebuild

\* releaseDispatchSlots, unless a rebuild has already released them.
ReleaseSlots(l) ==
  LET i == worker[l].item
      p == worker[l].provider
  IN  IF l \in releaseDeferredByRebuild
      THEN /\ releaseDeferredByRebuild' = releaseDeferredByRebuild \ {l}
           /\ UNCHANGED <<providerActiveCounts, activeIngestionWikis>>
      ELSE /\ providerActiveCounts' = [providerActiveCounts EXCEPT
                                         ![p] = IF @ = 0 THEN 0 ELSE @ - 1]
           /\ activeIngestionWikis' = IF LaneOf[i] = "ingestion"
                                      THEN activeIngestionWikis \ {WikiOf[i]}
                                      ELSE activeIngestionWikis
           /\ UNCHANGED releaseDeferredByRebuild

\* outputChannel.invalidate: the lease admits no further emission.
Invalidated(i, l) ==
  IF l # NoLease /\ active[i] = l THEN [active EXCEPT ![i] = NoLease] ELSE active

\* drainOutput gives up the actor: only the first invalidation of a lease waits
\* for the emissions in flight, a later one is handed a finished stream.  Whether
\* awaiting the stream of a lease without emissions does is the library's affair.
MustDrain(i, l) ==
  l # NoLease /\ active[i] = l /\ (EmptyDrainYields \/ inFlight[l] # {})

\* resumeWaiters, for the waiters parked on the items of S.
Resumed(S, result) ==
  [w \in Waiters |-> IF waiter[w].pc = "parked" /\ waiter[w].item \in S
                     THEN [waiter[w] EXCEPT !.pc = "done", !.result = result]
                     ELSE waiter[w]]
-------------------------------------------------------------------------------
(* Requests. *)

Enqueue(i) ==
  /\ lifecycle \in {"created", "running"}
  /\ rows[i].state = "absent"
  /\ LET k == NextOrderingKey(rows, LaneOf[i])
     IN  k \in 1..MaxKey /\ DispatchScan(Insert(rows, i, k), report, runStates, lifecycle, FALSE)
  /\ UNCHANGED <<savedRunStates, lifecycle, runStates, slotVars, runningTasks, outputVars,
                 shutdownVars, worker, client, waiter, counterVars>>

\* A second request with the dedupe key of a stored item: the row wins, and
\* the scan still runs.
EnqueueDuplicate(i) ==
  /\ lifecycle \in {"created", "running"}
  /\ rows[i].state \notin {"absent", "pruned"}
  /\ DispatchScan(rows, report, runStates, lifecycle, FALSE)
  /\ UNCHANGED <<savedRunStates, lifecycle, runStates, slotVars, runningTasks, outputVars,
                 shutdownVars, worker, client, waiter, counterVars>>

Pause(lane) ==
  /\ runStates' = [runStates EXCEPT ![lane] = "paused"]
  /\ savedRunStates' = [savedRunStates EXCEPT ![lane] = "paused"]
  /\ UNCHANGED <<rows, report, lifecycle, slotVars, runningTasks, outputVars,
                 shutdownVars, worker, scan, client, waiter, counterVars>>

Resume(lane) ==
  /\ lifecycle = "running"
  /\ runStates' = [runStates EXCEPT ![lane] = "running"]
  /\ savedRunStates' = [savedRunStates EXCEPT ![lane] = "running"]
  /\ DispatchScan(ClearAdmissionWait(rows, lane), report, runStates', lifecycle, FALSE)
  /\ UNCHANGED <<lifecycle, slotVars, runningTasks, outputVars, shutdownVars, worker,
                 client, waiter, counterVars>>

Retry(i) ==
  /\ lifecycle = "running"
  /\ rows[i].state \in {"failed", "cancelled"}
  /\ rows[i].attempt < MaxAttempt
  /\ LET k == NextOrderingKey(rows, LaneOf[i]) IN
     /\ k \in 1..MaxKey
     /\ DispatchScan(RetryItem(rows, i, k), DropReports(report, {i}), runStates, lifecycle, FALSE)
  /\ UNCHANGED <<savedRunStates, lifecycle, runStates, slotVars, runningTasks, outputVars,
                 shutdownVars, worker, client, waiter, counterVars>>

\* Mutant: the midpoint even when no key is left.
ReorderedKeyNoFallback(i, before) ==
  LET bound == rows[before].key
      pred == Max({0} \cup {rows[j].key : j \in {x \in Items :
                LaneOf[x] = LaneOf[i] /\ rows[x].state \in Active /\ rows[x].key < bound}})
  IN  pred + (bound - pred) \div 2

\* reorderItem: the midpoint between `before` and the active item that
\* precedes it, or the end of the queue when no key is left between them.
ReorderedKey(i, before) ==
  LET lane == LaneOf[i]
      keys == {rows[j].key : j \in {x \in Items : LaneOf[x] = lane
                                                  /\ rows[x].state \in Active}}
      bound == rows[before].key
      pred == Max({0} \cup {m \in keys : m < bound})
      mid == pred + (bound - pred) \div 2
  IN  IF pred < mid /\ mid < bound THEN mid
      ELSE Max({MaxOrderingKey(rows, lane), bound}) + Gap

Reorder(i, before) ==
  /\ i \in Movable /\ rows[i].state = "queued"
  /\ LET k == IF before \in Items /\ rows[before].state \notin {"absent", "pruned"}
              THEN ReorderedKey(i, before) ELSE NextOrderingKey(rows, LaneOf[i])
     IN  k \in 1..MaxKey /\ rows' = UpdateOrderingKey(rows, i, k)
  /\ UNCHANGED <<savedRunStates, report, lifecycle, runStates, slotVars, runningTasks,
                 outputVars, shutdownVars, worker, scan, client, waiter, counterVars>>
-------------------------------------------------------------------------------
(* dispatchScan: the item at hand, after providerID(for:) has answered.  The *)
(* check and the claim are one step.                                        *)

Walking(s, i) == First(scan[s].todo, i)

\* An item the snapshot already showed as blocked is not recorded again.
ScanNoRoute(s, i) ==
  /\ Walking(s, i) /\ NoProvider \in Routes[i]
  /\ NextItem(s, i, IF i \in scan[s].noted THEN rows ELSE RecordAdmissionWait(rows, i), report)
  /\ UNCHANGED <<savedRunStates, lifecycle, runStates, slotVars, runningTasks, outputVars,
                 shutdownVars, worker, client, waiter, counterVars>>

\* The lifecycle or the lane's run state changed during the suspension.
ScanStopped(s, i) ==
  /\ Walking(s, i) /\ Routes[i] \cap Providers # {}
  /\ \/ lifecycle # "running" /\ Proceed(s, IdleScan, rows, report)
     \/ /\ lifecycle = "running" /\ runStates[scan[s].lane] # "running"
        /\ Proceed(s, NextLane(s, rows), rows, report)
  /\ UNCHANGED <<savedRunStates, lifecycle, runStates, slotVars, runningTasks, outputVars,
                 shutdownVars, worker, client, waiter, counterVars>>

\* Mutant: only the lane's run state is looked at again.
ScanOpenLaneOnly(s) == runStates[scan[s].lane] = "running"

ScanOpen(s) == lifecycle = "running" /\ runStates[scan[s].lane] = "running"

\* Mutant: one too many.
MayClaimOneMore(i, p) ==
  /\ providerActiveCounts[p] <= Limit[LaneOf[i]][p]
  /\ LaneOf[i] = "ingestion" => WikiOf[i] \notin activeIngestionWikis
  /\ rows[i].state = "queued"

\* Capacity, the per-wiki invariant, and markRunning's compare-and-set.
MayClaim(i, p) ==
  /\ providerActiveCounts[p] < Limit[LaneOf[i]][p]
  /\ LaneOf[i] = "ingestion" => WikiOf[i] \notin activeIngestionWikis
  /\ rows[i].state = "queued"

ScanSkip(s, i, p) ==
  /\ Walking(s, i) /\ p \in Routes[i] /\ ScanOpen(s)
  /\ ~MayClaim(i, p)
  /\ NextItem(s, i, rows, report)
  /\ UNCHANGED <<savedRunStates, lifecycle, runStates, slotVars, runningTasks, outputVars,
                 shutdownVars, worker, client, waiter, counterVars>>

\* markRunning, the slots, makeScope and the worker task.
ScanClaim(s, i, p) ==
  LET l == dispatched + 1 IN
  /\ Walking(s, i) /\ p \in Routes[i] /\ ScanOpen(s)
  /\ MayClaim(i, p)
  /\ l \in Leases
  /\ dispatched' = l
  /\ NextItem(s, i, MarkRunning(rows, i, p), ActivateReport(report, i, l))
  /\ providerActiveCounts' = [providerActiveCounts EXCEPT ![p] = @ + 1]
  /\ activeIngestionWikis' = IF LaneOf[i] = "ingestion"
                             THEN activeIngestionWikis \cup {WikiOf[i]}
                             ELSE activeIngestionWikis
  /\ active' = [active EXCEPT ![i] = l]
  /\ runningTasks' = [runningTasks EXCEPT ![i] = l]
  /\ worker' = [worker EXCEPT ![l] =
                  [pc |-> "running", item |-> i, attempt |-> rows[i].attempt,
                   provider |-> p, told |-> FALSE, result |-> "success"]]
  /\ UNCHANGED <<savedRunStates, lifecycle, runStates, releaseDeferredByRebuild, inFlight,
                 shutdownVars, client, waiter, crashes>>

\* The claimed row cannot be read back: repairStrandedClaim.
ScanClaimUndone(s, i, p) ==
  /\ Walking(s, i) /\ p \in Routes[i] /\ ScanOpen(s)
  /\ MayClaim(i, p)
  /\ NextItem(s, i, Requeue(MarkRunning(rows, i, p), i), report)
  /\ UNCHANGED <<savedRunStates, lifecycle, runStates, slotVars, runningTasks, outputVars,
                 shutdownVars, worker, client, waiter, counterVars>>
-------------------------------------------------------------------------------
(* Workers and their output. *)

\* An emission is admitted, and commits later, on the worker's own thread.
EmitBegin(l, kind) ==
  /\ worker[l].pc = "running" /\ active[worker[l].item] = l
  /\ kind \in EmitKinds \ inFlight[l]
  /\ inFlight' = [inFlight EXCEPT ![l] = @ \cup {kind}]
  /\ UNCHANGED <<storeVars, lifecycle, runStates, slotVars, runningTasks, active,
                 shutdownVars, worker, scan, client, waiter, counterVars>>

EmitCommit(l, kind) ==
  LET i == worker[l].item IN
  /\ kind \in inFlight[l]
  /\ inFlight' = [inFlight EXCEPT ![l] = @ \ {kind}]
  /\ IF ~CurrentAttempt(rows, i, worker[l].attempt) THEN UNCHANGED report
     ELSE IF kind = "begin" THEN report' = BeginReport(report, i, l)
     ELSE \E t \in {"live", "settled"} : report' = CommitReport(report, i, l, t)
  /\ UNCHANGED <<rows, savedRunStates, lifecycle, runStates, slotVars, runningTasks, active,
                 shutdownVars, worker, scan, client, waiter, counterVars>>

\* execute returns; it throws CancellationError only once told to stop.  The
\* worker begins its report itself, so that is over; an update may come from a
\* callback of its provider, on another thread.
Returns(l, outcome) ==
  /\ worker[l].pc = "running"
  /\ outcome = "cancelled" => worker[l].told
  /\ inFlight[l] \subseteq (IF DetachedEmits THEN {"update"} ELSE {})

\* It returned and its lease is still valid: drainOutput suspends.
WorkerReturn(l, outcome) ==
  /\ Returns(l, outcome) /\ MustDrain(worker[l].item, l)
  /\ worker' = [worker EXCEPT ![l].pc = "draining", ![l].result = outcome]
  /\ active' = Invalidated(worker[l].item, l)
  /\ UNCHANGED <<storeVars, lifecycle, runStates, slotVars, runningTasks, inFlight,
                 shutdownVars, scan, client, waiter, counterVars>>

\* The dispatch l is ready to settle with this outcome.
Drained(l, outcome) ==
  \/ Returns(l, outcome) /\ ~MustDrain(worker[l].item, l)
  \/ /\ worker[l].pc = "draining" /\ inFlight[l] = {}
     /\ outcome = worker[l].result

Retired(l) == [worker EXCEPT ![l] = IF inFlight[l] = {} THEN RetiredWorker
                                    ELSE [@ EXCEPT !.pc = "done"]]

\* reprojectInterruptedReportAfterDrain.
Reprojected(l, outcome) ==
  LET i == worker[l].item
  IN  IF outcome = "cancelled" /\ runningTasks[i] \in {NoLease, l}
      THEN ProjectInterrupted(report, {i}) ELSE report

\* The settlement ticket: the entry of the item is this dispatch's.
OwnsEntry(l) == runningTasks[worker[l].item] = l

\* What the waiters learn: a transition that lost its race is a cancellation.
\* Mutant: they learn what the worker made of it.
LearnedRaw(i, outcome) == outcome
Learned(i, outcome) == IF rows[i].state = "running" THEN outcome ELSE "cancelled"

\* handleWorkerFinished for a dispatch that still owns its item.
Settle(l, outcome) ==
  LET i == worker[l].item
      settled == CASE outcome = "success" -> MarkCompleted(rows, i)
                   [] outcome = "failed" -> MarkFailed(rows, i)
                   [] outcome = "cancelled" -> Requeue(rows, i)
  IN
  /\ Drained(l, outcome) /\ OwnsEntry(l)
  /\ active' = Invalidated(i, l)
  /\ runningTasks' = [runningTasks EXCEPT ![i] = NoLease]
  /\ ReleaseSlots(l)
  /\ waiter' = Resumed({i}, Learned(i, outcome))
  /\ worker' = Retired(l)
  /\ DispatchScan(settled, Reprojected(l, outcome), runStates, lifecycle, TRUE)
  /\ UNCHANGED <<savedRunStates, lifecycle, runStates, inFlight, shutdownVars, client,
                 counterVars>>

\* ... and for one whose item has been dispatched again: a no-op.
SettleStale(l, outcome) ==
  LET i == worker[l].item IN
  /\ Drained(l, outcome) /\ ~OwnsEntry(l)
  /\ report' = Reprojected(l, outcome)
  /\ active' = Invalidated(i, l)
  /\ worker' = Retired(l)
  /\ UNCHANGED <<rows, savedRunStates, lifecycle, runStates, slotVars, runningTasks, inFlight,
                 shutdownVars, scan, client, waiter, counterVars>>
-------------------------------------------------------------------------------
(* cancelItem, cancelAllInFlight and halt. *)

Left(todo, S) == [i \in Items |-> IF i \in S THEN 0 ELSE todo[i]]

\* The items of todo dealt with before the first one that has to drain.
Prompt(todo) ==
  {i \in Items : todo[i] # 0 /\ \A j \in Items : todo[j] # 0 /\ todo[j] <= todo[i]
                                                 => ~MustDrain(j, runningTasks[j])}

\* From one suspension of the call c to the next: the item `drained` (if any)
\* and the items of todo up to the next drain are withdrawn, and the one that
\* has to drain is interrupted.  cancelAllInFlight goes on to the other lane.
SweepOn(c, op, lane, todo, drained) ==
  LET onward == op = "cancelAll" /\ lane = "extraction" /\ Left(todo, Prompt(todo)) = NoItems
      next == IF onward THEN ByKey(rows, "ingestion", "running") ELSE todo
      swept == Prompt(todo) \cup Prompt(next)
      rest == Left(next, swept)
      waits == {i \in Items : First(rest, i) /\ MustDrain(i, runningTasks[i])}
      told == swept \cup waits
      gone == {i \in drained \cup swept :
                 rows[i].state \in (IF op = "halt" THEN {"running"} ELSE Active)}
  IN
  /\ rows' = IF op = "halt" THEN RequeueAll(rows, gone) ELSE CancelAll(rows, gone)
  /\ report' = ProjectInterrupted(report, gone)
  /\ waiter' = IF op = "halt" THEN waiter
               ELSE Resumed({i \in gone \ drained : runningTasks[i] = NoLease}, "cancelled")
  /\ worker' = [l \in Leases |-> IF \E i \in told : runningTasks[i] = l
                                 THEN [worker[l] EXCEPT !.told = TRUE] ELSE worker[l]]
  /\ active' = [i \in Items |-> IF i \in told /\ active[i] = runningTasks[i]
                                THEN NoLease ELSE active[i]]
  /\ IF rest = NoItems
     THEN client' = [client EXCEPT ![c] = IdleClient]
     ELSE \E i \in waits :
            client' = [client EXCEPT ![c] =
              [op |-> op, lane |-> IF onward THEN "ingestion" ELSE lane,
               todo |-> Without(rest, i), item |-> i, lease |-> runningTasks[i]]]
  /\ IF op = "halt" /\ rest = NoItems THEN Rebuild(rows') ELSE UNCHANGED slotVars

CancelItem(c, i) ==
  /\ client[c] = IdleClient
  /\ rows[i].state \in Active \/ runningTasks[i] # NoLease
  /\ SweepOn(c, "cancel", LaneOf[i], [NoItems EXCEPT ![i] = 1], {})
  /\ UNCHANGED <<savedRunStates, lifecycle, runStates, runningTasks, inFlight, shutdownVars,
                 scan, counterVars>>

CancelAllInFlight(c) ==
  /\ client[c] = IdleClient
  /\ SweepOn(c, "cancelAll", "extraction", ByKey(rows, "extraction", "running"), {})
  /\ UNCHANGED <<savedRunStates, lifecycle, runStates, runningTasks, inFlight, shutdownVars,
                 scan, counterVars>>

Halt(c, lane) ==
  /\ client[c] = IdleClient
  /\ runStates' = [runStates EXCEPT ![lane] = "paused"]
  /\ savedRunStates' = [savedRunStates EXCEPT ![lane] = "paused"]
  /\ SweepOn(c, "halt", lane, ByKey(rows, lane, "running"), {})
  /\ UNCHANGED <<lifecycle, runningTasks, inFlight, shutdownVars, scan, counterVars>>

\* drainOutput returns: the emissions of the dispatch have committed.
SweepDrained(c) ==
  /\ client[c] # IdleClient
  /\ inFlight[client[c].lease] = {}
  /\ SweepOn(c, client[c].op, client[c].lane, client[c].todo, {client[c].item})
  /\ UNCHANGED <<savedRunStates, lifecycle, runStates, runningTasks, inFlight, shutdownVars,
                 scan, counterVars>>
-------------------------------------------------------------------------------
(* waitForCompletion. *)

WaitCall(w, i) ==
  /\ waiter[w] = IdleWaiter /\ rows[i].state # "absent"
  /\ waiter' = [waiter EXCEPT ![w] =
       [pc |-> IF lifecycle \in {"created", "running"} /\ rows[i].state \notin Terminal
               THEN "entering" ELSE "done",
        item |-> i, expired |-> FALSE,
        result |-> IF lifecycle \notin {"created", "running"} THEN "shutDown"
                   ELSE IF rows[i].state = "completed" THEN "success"
                   ELSE rows[i].state]]
  /\ UNCHANGED <<storeVars, lifecycle, runStates, slotVars, runningTasks, outputVars,
                 shutdownVars, worker, scan, client, counterVars>>

\* Mutant: register without looking again.
WaitRegisterBlind(w) ==
  /\ waiter[w].pc = "entering"
  /\ waiter' = [waiter EXCEPT ![w].pc = "parked"]
  /\ UNCHANGED <<storeVars, lifecycle, runStates, slotVars, runningTasks, outputVars,
                 shutdownVars, worker, scan, client, counterVars>>

\* awaitSettlement: register, then look again.
WaitRegister(w) ==
  LET i == waiter[w].item
      result == IF rows[i].state = "completed" THEN "success" ELSE rows[i].state
  IN
  /\ waiter[w].pc = "entering"
  /\ waiter' = IF rows[i].state \in Terminal
               THEN [Resumed({i}, result) EXCEPT ![w].pc = "done", ![w].result = result]
               ELSE [waiter EXCEPT ![w].pc = "parked"]
  /\ UNCHANGED <<storeVars, lifecycle, runStates, slotVars, runningTasks, outputVars,
                 shutdownVars, worker, scan, client, counterVars>>

\* The deadline of w fires: timeoutWaiters resumes every waiter of the item.
WaitDeadline(w) ==
  /\ waiter[w].pc = "parked"
  /\ waiter' = [Resumed({waiter[w].item}, "timeout") EXCEPT ![w].expired = TRUE]
  /\ UNCHANGED <<storeVars, lifecycle, runStates, slotVars, runningTasks, outputVars,
                 shutdownVars, worker, scan, client, counterVars>>
-------------------------------------------------------------------------------
(* The process: launch, hand-off and crash. *)

Start ==
  /\ lifecycle = "created"
  /\ lifecycle' = "running"
  /\ Rebuild(ResetRunningToQueued(rows))
  /\ runStates' = savedRunStates
  /\ DispatchScan(ResetRunningToQueued(rows),
                  ProjectInterrupted(report, Running(rows, Lanes)),
                  runStates', lifecycle', FALSE)
  /\ UNCHANGED <<savedRunStates, runningTasks, outputVars, shutdownVars, worker, client,
                 waiter, counterVars>>

\* beginShutdownSettlement.
Shutdown ==
  LET held == {runningTasks[i] : i \in Items} \ {NoLease} IN
  /\ lifecycle \in {"created", "running"}
  /\ lifecycle' = "shuttingDown"
  /\ active' = [i \in Items |-> NoLease]
  /\ awaitedWorkers' = held
  /\ awaitedDrains' = {l \in Leases : inFlight[l] # {}}
  /\ worker' = [l \in Leases |-> IF l \in held THEN [worker[l] EXCEPT !.told = TRUE]
                                 ELSE worker[l]]
  /\ rows' = RequeueAll(rows, Running(rows, Lanes))
  /\ providerActiveCounts' = [p \in Providers |-> 0]
  /\ activeIngestionWikis' = {}
  /\ waiter' = [w \in Waiters |-> IF waiter[w].pc = "parked"
                                  THEN [waiter[w] EXCEPT !.pc = "done", !.result = "shutDown"]
                                  ELSE waiter[w]]
  /\ UNCHANGED <<savedRunStates, report, runStates, releaseDeferredByRebuild, runningTasks,
                 inFlight, scan, client, counterVars>>

\* runShutdownRace: the settlement or the deadline wins.
ShutdownDrained ==
  /\ lifecycle = "shuttingDown"
  /\ \A l \in awaitedWorkers : worker[l].pc = "done"
  /\ \A l \in awaitedDrains : inFlight[l] = {}
  /\ lifecycle' = "shutDown"
  /\ awaitedWorkers' = {} /\ awaitedDrains' = {}
  /\ UNCHANGED <<storeVars, runStates, slotVars, runningTasks, outputVars, worker, scan,
                 client, waiter, counterVars>>

ShutdownDeadline ==
  /\ lifecycle = "shuttingDown"
  /\ lifecycle' = "shutdownBlocked"
  /\ UNCHANGED <<storeVars, runStates, slotVars, runningTasks, outputVars, shutdownVars,
                 worker, scan, client, waiter, counterVars>>

\* shutdownForHandoff called again.
ShutdownAgain ==
  /\ lifecycle = "shutdownBlocked"
  /\ lifecycle' = "shuttingDown"
  /\ UNCHANGED <<storeVars, runStates, slotVars, runningTasks, outputVars, shutdownVars,
                 worker, scan, client, waiter, counterVars>>

\* The process dies (or exits) and is launched again.
Crash ==
  /\ crashes < MaxCrash
  /\ crashes' = crashes + 1
  /\ lifecycle' = "created"
  /\ runStates' = [lane \in Lanes |-> "unset"]
  /\ providerActiveCounts' = [p \in Providers |-> 0]
  /\ activeIngestionWikis' = {} /\ releaseDeferredByRebuild' = {}
  /\ runningTasks' = [i \in Items |-> NoLease]
  /\ active' = [i \in Items |-> NoLease]
  /\ inFlight' = [l \in Leases |-> {}]
  /\ awaitedWorkers' = {} /\ awaitedDrains' = {}
  /\ worker' = [l \in Leases |-> NoWorker]
  /\ scan' = [s \in Scans |-> IdleScan]
  /\ client' = [c \in Clients |-> IdleClient]
  /\ waiter' = [w \in Waiters |-> IdleWaiter]
  /\ UNCHANGED <<storeVars, dispatched>>

Init ==
  /\ rows = [i \in Items |-> NoRow]
  /\ savedRunStates = [lane \in Lanes |-> "running"]
  /\ report = [i \in Items |-> NoReport]
  /\ lifecycle = "created"
  /\ runStates = [lane \in Lanes |-> "unset"]
  /\ providerActiveCounts = [p \in Providers |-> 0]
  /\ activeIngestionWikis = {} /\ releaseDeferredByRebuild = {}
  /\ runningTasks = [i \in Items |-> NoLease]
  /\ active = [i \in Items |-> NoLease]
  /\ inFlight = [l \in Leases |-> {}]
  /\ awaitedWorkers = {} /\ awaitedDrains = {}
  /\ worker = [l \in Leases |-> NoWorker]
  /\ scan = [s \in Scans |-> IdleScan]
  /\ client = [c \in Clients |-> IdleClient]
  /\ waiter = [w \in Waiters |-> IdleWaiter]
  /\ dispatched = 0 /\ crashes = 0

Request(i) ==
  \/ Enqueue(i)
  \/ "duplicate" \in Calls /\ EnqueueDuplicate(i)
  \/ "retry" \in Calls /\ Retry(i)
  \/ "cancel" \in Calls /\ \E c \in Clients : CancelItem(c, i)
  \/ \E before \in Items \cup {NoProvider} : Reorder(i, before)
  \/ \E w \in Waiters : WaitCall(w, i)

LaneRequest(lane) ==
  \/ "pause" \in Calls /\ Pause(lane)
  \/ "resume" \in Calls /\ Resume(lane)
  \/ "halt" \in Calls /\ \E c \in Clients : Halt(c, lane)

ScanStep(s) ==
  \E i \in Items :
    \/ ScanNoRoute(s, i) \/ ScanStopped(s, i)
    \/ \E p \in Providers :
         \/ ScanSkip(s, i, p) \/ ScanClaim(s, i, p)
         \/ "readBackError" \in Calls /\ ScanClaimUndone(s, i, p)

WorkerStep(l) ==
  \E o \in Outcome : WorkerReturn(l, o) \/ Settle(l, o) \/ SettleStale(l, o)

Next ==
  \/ \E i \in Items : Request(i)
  \/ \E i \in Items : LaneRequest(LaneOf[i])
  \/ \E c \in Clients : "cancelAll" \in Calls /\ CancelAllInFlight(c)
  \/ \E c \in Clients : SweepDrained(c)
  \/ \E s \in Scans : ScanStep(s)
  \/ \E l \in Leases : WorkerStep(l)
  \/ \E l \in Leases, k \in EmitKinds : EmitBegin(l, k) \/ EmitCommit(l, k)
  \/ \E w \in Waiters : WaitRegister(w) \/ WaitDeadline(w)
  \/ "shutdown" \in Calls /\ Shutdown
  \/ Start \/ ShutdownDrained \/ ShutdownDeadline \/ ShutdownAgain \/ Crash

Spec == Init /\ [][Next]_vars
===============================================================================
