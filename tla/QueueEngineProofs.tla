--------------------------- MODULE QueueEngineProofs ---------------------------
(***************************************************************************)
(* The inductive invariant of QueueInvariants holds in every instance of   *)
(* the queue: any items, providers, wikis, lanes, routes and limits, any   *)
(* number of suspended scans, calls and waiters.                           *)
(***************************************************************************)
EXTENDS QueueInvariants, QueueStoreProofs

Reports == [Items -> Report(Leases)]
-------------------------------------------------------------------------------
(* What the parts of a step keep. *)

LEMMA IdleScanType == IdleScan \in Scan
BY DEF IdleScan, Scan, NoItems, Snapshot, Lanes

LEMMA ByKeyType ==
  ASSUME NEW r \in Rows, NEW lane, NEW state
  PROVE  ByKey(r, lane, state) \in Snapshot
BY DEF ByKey, Snapshot, Rows, Row

LEMMA ScanFromType ==
  ASSUME NEW r \in Rows, NEW rs, NEW lane, NEW prune \in BOOLEAN
  PROVE  ScanFrom(r, rs, lane, prune) \in Scan
<1> DEFINE view(l) == IF rs[l] = "running" THEN ByKey(r, l, "queued") ELSE NoItems
           at == IF lane = "extraction" /\ view("extraction") # NoItems
                 THEN "extraction" ELSE "ingestion"
           noted == {i \in Items : view(at)[i] # 0 /\ r[i].blocked}
<1>1. view(at) \in Snapshot
  BY ByKeyType DEF NoItems, Snapshot
<1>2. at \in Lanes /\ noted \in SUBSET Items
  BY DEF Lanes
<1>3. ScanFrom(r, rs, lane, prune) =
        IF view(at) = NoItems THEN IdleScan
        ELSE [lane |-> at, todo |-> view(at), prune |-> prune, noted |-> noted]
  BY DEF ScanFrom
<1> HIDE DEF view, at, noted
<1> QED BY <1>1, <1>2, <1>3, IdleScanType DEF Scan

LEMMA SaveCalm ==
  ASSUME NEW r \in Rows, NEW rep \in Reports, NEW prune \in BOOLEAN, Save(r, rep, prune)
  PROVE  rows' \in Rows /\ report' \in Reports /\ Calm(r, rows')
<1>1. CASE prune
  <2> PICK S : rows' = Delete(r, S) /\ report' = DropReports(rep, S)
    BY <1>1 DEF Save
  <2> QED BY DeleteCalm, ReportSetType DEF Reports
<1>2. CASE ~prune
  BY <1>2 DEF Save, Calm
<1> QED BY <1>1, <1>2

LEMMA DispatchScanCalm ==
  ASSUME NEW r \in Rows, NEW rep \in Reports, NEW rs, NEW lc, NEW prune \in BOOLEAN,
         scan \in [Scans -> Scan], DispatchScan(r, rep, rs, lc, prune)
  PROVE  /\ rows' \in Rows /\ report' \in Reports /\ Calm(r, rows')
         /\ scan' \in [Scans -> Scan]
<1> DEFINE new == IF lc = "running" THEN ScanFrom(r, rs, "extraction", prune) ELSE IdleScan
<1>1. new \in Scan
  BY ScanFromType, IdleScanType
<1>2. /\ Save(r, rep, prune /\ new = IdleScan)
      /\ IF new = IdleScan THEN scan' = scan
         ELSE \E s \in Scans : scan[s] = IdleScan /\ scan' = [scan EXCEPT ![s] = new]
  BY DEF DispatchScan
<1> HIDE DEF new
<1>3. scan' \in [Scans -> Scan]
  BY <1>1, <1>2
<1>4. (prune /\ new = IdleScan) \in BOOLEAN
  OBVIOUS
<1> QED BY <1>2, <1>3, <1>4, SaveCalm

LEMMA NextItemCalm ==
  ASSUME TypeOK, NEW s \in Scans, NEW i \in Items, NEW r \in Rows, NEW rep \in Reports,
         NextItem(s, i, r, rep)
  PROVE  /\ rows' \in Rows /\ report' \in Reports /\ Calm(r, rows')
         /\ scan' \in [Scans -> Scan]
<1> DEFINE left == Without(scan[s].todo, i)
           next == IF left # NoItems THEN [scan[s] EXCEPT !.todo = left] ELSE NextLane(s, r)
<1>1. scan[s] \in Scan /\ scan[s].prune \in BOOLEAN
  BY DEF TypeOK, Scan
<1>2. left \in Snapshot
  BY <1>1 DEF Without, Scan, Snapshot
<1>3. NextLane(s, r) \in Scan
  BY <1>1, ScanFromType, IdleScanType DEF NextLane
<1> HIDE DEF left
<1>4. next \in Scan
  BY <1>1, <1>2, <1>3 DEF Scan
<1>5. Proceed(s, next, r, rep)
  BY DEF NextItem, left
<1> HIDE DEF next
<1>6. scan' \in [Scans -> Scan]
  BY <1>4, <1>5 DEF Proceed, TypeOK
<1>7. Save(r, rep, scan[s].prune /\ next = IdleScan)
  BY <1>5 DEF Proceed
<1> QED BY <1>1, <1>6, <1>7, SaveCalm

LEMMA RebuildType ==
  ASSUME TypeOK, NEW r \in Rows, Rebuild(r)
  PROVE  /\ providerActiveCounts' \in [Providers -> Nat]
         /\ activeIngestionWikis' \subseteq {WikiOf[i] : i \in Items}
         /\ releaseDeferredByRebuild' \subseteq Leases
<1>1. \A p : Cardinality({i \in Running(r, Lanes) : r[i].provider = p}) \in Nat
  <2> TAKE p
  <2> DEFINE S == {i \in Running(r, Lanes) : r[i].provider = p}
  <2>1. S \in SUBSET Items
    BY DEF Running
  <2> HIDE DEF S
  <2>2. IsFiniteSet(S)
    BY <2>1, FS_Subset, StoreAssumption
  <2>3. Cardinality(S) \in Nat
    BY <2>2, FS_CardinalityType
  <2> QED BY <2>3 DEF S
<1>2. providerActiveCounts' \in [Providers -> Nat]
  BY <1>1 DEF Rebuild
<1>3. activeIngestionWikis' \subseteq {WikiOf[i] : i \in Items}
  BY DEF Rebuild, Running
<1>4. releaseDeferredByRebuild' \subseteq Leases
  BY DEF Rebuild, TypeOK
<1> QED BY <1>2, <1>3, <1>4

LEMMA ReleaseSlotsType ==
  ASSUME TypeOK, NEW l \in Leases, ReleaseSlots(l)
  PROVE  /\ providerActiveCounts' \in [Providers -> Nat]
         /\ activeIngestionWikis' \subseteq {WikiOf[i] : i \in Items}
         /\ releaseDeferredByRebuild' \subseteq Leases
BY DEF TypeOK, ReleaseSlots

LEMMA ResumedType ==
  ASSUME TypeOK, NEW S, NEW result \in Answer
  PROVE  Resumed(S, result) \in [Waiters -> {IdleWaiter} \cup Wait]
<1> SUFFICES ASSUME NEW w \in Waiters, waiter[w].pc = "parked"
             PROVE  [waiter[w] EXCEPT !.pc = "done", !.result = result] \in Wait
  BY DEF Resumed, TypeOK
<1>1. waiter[w] \in Wait
  BY DEF TypeOK, IdleWaiter
<1> QED BY <1>1 DEF Wait

\* A worker that runs or drains has a full record.
LEMMA LiveWorker ==
  ASSUME TypeOK, NEW l \in Leases, worker[l].pc \in Live
  PROVE  worker[l] \in Dispatch
BY DEF TypeOK, NoWorker, RetiredWorker, Live

LEMMA ToldType ==
  ASSUME TypeOK, NEW l \in Leases, worker[l].pc \in Live
  PROVE  /\ [worker[l] EXCEPT !.told = TRUE] \in Dispatch
         /\ [worker[l] EXCEPT !.told = TRUE].pc = worker[l].pc
         /\ [worker[l] EXCEPT !.told = TRUE].item = worker[l].item
         /\ [worker[l] EXCEPT !.told = TRUE].attempt = worker[l].attempt
         /\ [worker[l] EXCEPT !.told = TRUE].provider = worker[l].provider
BY LiveWorker DEF Dispatch

LEMMA RetiredType ==
  ASSUME TypeOK, NEW l \in Leases, worker[l].pc \in Live
  PROVE  Retired(l) \in [Leases -> {NoWorker, RetiredWorker} \cup Dispatch]
<1>1. [worker[l] EXCEPT !.pc = "done"] \in Dispatch
  BY LiveWorker DEF Dispatch
<1> QED BY <1>1 DEF Retired, TypeOK

LEMMA InvalidatedType ==
  ASSUME TypeOK, NEW i, NEW l
  PROVE  /\ Invalidated(i, l) \in [Items -> Leases \cup {NoLease}]
         /\ \A j \in Items : Invalidated(i, l)[j] \in {active[j], NoLease}
BY DEF TypeOK, Invalidated

\* A step of cancelItem, cancelAllInFlight or halt withdraws rows, tells workers
\* to stop and closes leases; it starts and settles nothing.
SweepKeeps ==
  /\ rows' \in Rows /\ report' \in Reports /\ Calm(rows, rows')
  /\ waiter' \in [Waiters -> {IdleWaiter} \cup Wait]
  /\ client' \in [Clients -> {IdleClient} \cup Sweep]
  /\ worker' \in [Leases -> {NoWorker, RetiredWorker} \cup Dispatch]
  /\ \A l \in Leases : worker[l].pc \in Live =>
       /\ worker'[l].pc = worker[l].pc /\ worker'[l].item = worker[l].item
       /\ worker'[l].attempt = worker[l].attempt
       /\ worker'[l].provider = worker[l].provider
  /\ active' \in [Items -> Leases \cup {NoLease}]
  /\ \A i \in Items : active'[i] \in {active[i], NoLease}
  /\ Rebuild(rows') \/ UNCHANGED slotVars
  /\ providerActiveCounts' \in [Providers -> Nat]
  /\ activeIngestionWikis' \subseteq {WikiOf[i] : i \in Items}
  /\ releaseDeferredByRebuild' \subseteq Leases

LEMMA SweepOnKeeps ==
  ASSUME TypeOK, EntriesLive, NEW c \in Clients, NEW op \in {"cancel", "cancelAll", "halt"},
         NEW lane \in Lanes, NEW todo \in Snapshot, NEW drained \in SUBSET Items,
         SweepOn(c, op, lane, todo, drained)
  PROVE  SweepKeeps
<1> DEFINE onward == op = "cancelAll" /\ lane = "extraction" /\ Left(todo, Prompt(todo)) = NoItems
           next == IF onward THEN ByKey(rows, "ingestion", "running") ELSE todo
           swept == Prompt(todo) \cup Prompt(next)
           rest == Left(next, swept)
           waits == {i \in Items : First(rest, i) /\ MustDrain(i, runningTasks[i])}
           told == swept \cup waits
           gone == {i \in drained \cup swept :
                      rows[i].state \in (IF op = "halt" THEN {"running"} ELSE Active)}
<1>1. /\ rows' = IF op = "halt" THEN RequeueAll(rows, gone) ELSE CancelAll(rows, gone)
      /\ report' = ProjectInterrupted(report, gone)
      /\ waiter' = IF op = "halt" THEN waiter
                   ELSE Resumed({i \in gone \ drained : runningTasks[i] = NoLease}, "cancelled")
      /\ worker' = [l \in Leases |-> IF \E i \in told : runningTasks[i] = l
                                     THEN [worker[l] EXCEPT !.told = TRUE] ELSE worker[l]]
      /\ active' = [i \in Items |-> IF i \in told /\ active[i] = runningTasks[i]
                                    THEN NoLease ELSE active[i]]
      /\ IF rest = NoItems
         THEN client' = [client EXCEPT ![c] = IdleClient]
         ELSE \E i \in waits :
                client' = [client EXCEPT ![c] =
                  [op |-> op, lane |-> IF onward THEN "ingestion" ELSE lane,
                   todo |-> Without(rest, i), item |-> i, lease |-> runningTasks[i]]]
      /\ IF op = "halt" /\ rest = NoItems THEN Rebuild(rows') ELSE UNCHANGED slotVars
  BY DEF SweepOn
<1>2. rows \in Rows /\ report \in Reports
  BY DEF TypeOK, Rows, Reports
<1>3. next \in Snapshot
  BY <1>2, ByKeyType
<1>4. swept \in SUBSET Items /\ rest \in Snapshot
  BY <1>3 DEF Prompt, Left, Snapshot
<1>5. told \in SUBSET Items
  BY <1>4
<1>6. \A i \in waits : i \in Items /\ runningTasks[i] \in Leases /\ Without(rest, i) \in Snapshot
  BY <1>4 DEF MustDrain, TypeOK, Without, Snapshot
<1>7. onward \in BOOLEAN
  OBVIOUS
<1> HIDE DEF onward, next, swept, rest, waits, told, gone
<1>8. rows' \in Rows /\ Calm(rows, rows')
  BY <1>1, <1>2, RequeueAllCalm, CancelAllCalm
<1>9. report' \in Reports
  BY <1>1, <1>2, ReportSetType DEF Reports
<1>10. waiter' \in [Waiters -> {IdleWaiter} \cup Wait]
  <2>1. "cancelled" \in Answer
    BY DEF Answer, Outcome
  <2> QED BY <1>1, <2>1, ResumedType DEF TypeOK
<1>11. client' \in [Clients -> {IdleClient} \cup Sweep]
  <2>1. CASE rest = NoItems
    BY <1>1, <2>1 DEF TypeOK
  <2>2. CASE rest # NoItems
    <3>1. PICK i \in waits : client' = [client EXCEPT ![c] =
            [op |-> op, lane |-> IF onward THEN "ingestion" ELSE lane,
             todo |-> Without(rest, i), item |-> i, lease |-> runningTasks[i]]]
      BY <1>1, <2>2
    <3>2. [op |-> op, lane |-> IF onward THEN "ingestion" ELSE lane,
           todo |-> Without(rest, i), item |-> i, lease |-> runningTasks[i]] \in Sweep
      BY <1>6, <1>7 DEF Sweep, Lanes
    <3> QED BY <3>1, <3>2 DEF TypeOK
  <2> QED BY <2>1, <2>2
<1>12. \A l \in Leases : (\E i \in told : runningTasks[i] = l) => worker[l].pc \in Live
  BY <1>5 DEF EntriesLive, NoLease, Leases
<1>13. worker' \in [Leases -> {NoWorker, RetiredWorker} \cup Dispatch]
  BY <1>1, <1>12, ToldType DEF TypeOK
<1>14. \A l \in Leases : worker[l].pc \in Live =>
         /\ worker'[l].pc = worker[l].pc /\ worker'[l].item = worker[l].item
         /\ worker'[l].attempt = worker[l].attempt
         /\ worker'[l].provider = worker[l].provider
  BY <1>1, ToldType
<1>15. /\ active' \in [Items -> Leases \cup {NoLease}]
       /\ \A i \in Items : active'[i] \in {active[i], NoLease}
  BY <1>1 DEF TypeOK
<1>16. Rebuild(rows') \/ UNCHANGED slotVars
  BY <1>1
<1>17. /\ providerActiveCounts' \in [Providers -> Nat]
       /\ activeIngestionWikis' \subseteq {WikiOf[i] : i \in Items}
       /\ releaseDeferredByRebuild' \subseteq Leases
  BY <1>8, <1>16, RebuildType DEF TypeOK, slotVars
<1> QED BY <1>8, <1>9, <1>10, <1>11, <1>13, <1>14, <1>15, <1>16, <1>17 DEF SweepKeeps

LEMMA ScanStoppedCalm ==
  ASSUME TypeOK, NEW s \in Scans, NEW i \in Items, ScanStopped(s, i)
  PROVE  /\ rows' \in Rows /\ report' \in Reports /\ Calm(rows, rows')
         /\ scan' \in [Scans -> Scan]
<1>1. scan[s] \in Scan /\ scan[s].prune \in BOOLEAN /\ rows \in Rows /\ report \in Reports
  BY DEF TypeOK, Scan, Rows, Reports
<1>2. NextLane(s, rows) \in Scan
  BY <1>1, ScanFromType, IdleScanType DEF NextLane
<1>3. PICK next \in Scan : Proceed(s, next, rows, report)
  BY <1>2, IdleScanType DEF ScanStopped
<1>4. scan' \in [Scans -> Scan]
  BY <1>3 DEF Proceed, TypeOK
<1>5. Save(rows, report, scan[s].prune /\ next = IdleScan)
  BY <1>3 DEF Proceed
<1> QED BY <1>1, <1>4, <1>5, SaveCalm

\* What a settlement leaves.
SettleKeeps(l) ==
  LET i == worker[l].item IN
  /\ worker[l].pc \in Live /\ worker[l].item \in Items
  /\ rows' \in Rows /\ report' \in Reports /\ Calm(rows, rows') /\ rows'[i].state # "running"
  /\ scan' \in [Scans -> Scan]
  /\ waiter' \in [Waiters -> {IdleWaiter} \cup Wait]
  /\ worker' \in [Leases -> {NoWorker, RetiredWorker} \cup Dispatch]
  /\ active' \in [Items -> Leases \cup {NoLease}]
  /\ \A j \in Items : active'[j] \in {active[j], NoLease}
  /\ ReleaseSlots(l)
  /\ providerActiveCounts' \in [Providers -> Nat]
  /\ activeIngestionWikis' \subseteq {WikiOf[j] : j \in Items}
  /\ releaseDeferredByRebuild' \subseteq Leases

LEMMA SettleParts ==
  ASSUME TypeOK, NEW l \in Leases, NEW o \in Outcome, Settle(l, o)
  PROVE  SettleKeeps(l)
<1> DEFINE i == worker[l].item
           settled == CASE o = "success" -> MarkCompleted(rows, i)
                        [] o = "failed" -> MarkFailed(rows, i)
                        [] o = "cancelled" -> Requeue(rows, i)
           rep == Reprojected(l, o)
<1>1. worker[l].pc \in Live
  BY DEF Settle, Drained, Returns, Live
<1>2. i \in Items
  BY <1>1, LiveWorker DEF Dispatch
<1>3. rows \in Rows /\ report \in Reports
  BY DEF TypeOK, Rows, Reports
<1>4. settled \in {MarkCompleted(rows, i), MarkFailed(rows, i), Requeue(rows, i)}
  BY DEF Outcome
<1>5. /\ active' = Invalidated(i, l)
      /\ ReleaseSlots(l)
      /\ waiter' = Resumed({i}, Learned(i, o))
      /\ worker' = Retired(l)
      /\ DispatchScan(settled, rep, runStates, lifecycle, TRUE)
  BY DEF Settle
<1> HIDE DEF settled, i
<1>6. settled \in Rows /\ Calm(rows, settled) /\ settled[i].state # "running"
  BY <1>2, <1>3, <1>4, MarkCompletedCalm, MarkFailedCalm, RequeueCalm
<1>7. rep \in Reports
  BY <1>3, ReportSetType DEF Reprojected, Reports
<1> HIDE DEF rep
<1>8. rows' \in Rows /\ report' \in Reports /\ Calm(settled, rows') /\ scan' \in [Scans -> Scan]
  BY <1>5, <1>6, <1>7, DispatchScanCalm DEF TypeOK
<1>9. Calm(rows, rows') /\ rows'[i].state # "running"
  BY <1>2, <1>6, <1>8 DEF Calm
<1>10. waiter' \in [Waiters -> {IdleWaiter} \cup Wait]
  BY <1>5, ResumedType DEF Learned, Answer, Outcome
<1>11. worker' \in [Leases -> {NoWorker, RetiredWorker} \cup Dispatch]
  BY <1>1, <1>5, RetiredType
<1>12. /\ active' \in [Items -> Leases \cup {NoLease}]
       /\ \A j \in Items : active'[j] \in {active[j], NoLease}
  BY <1>5, InvalidatedType
<1>13. /\ providerActiveCounts' \in [Providers -> Nat]
       /\ activeIngestionWikis' \subseteq {WikiOf[j] : j \in Items}
       /\ releaseDeferredByRebuild' \subseteq Leases
  BY <1>5, ReleaseSlotsType
<1> QED BY <1>1, <1>2, <1>5, <1>8, <1>9, <1>10, <1>11, <1>12, <1>13 DEF SettleKeeps, i

-------------------------------------------------------------------------------
(* Type correctness, one step per action. *)

\* Every step leaves every variable of its shape.
LEMMA TypeStep == TypeOK /\ EntriesLive /\ Next => TypeOK'
<1> SUFFICES ASSUME TypeOK, EntriesLive, Next
             PROVE  TypeOK'
  OBVIOUS
<1> USE EngineAssumption DEF storeVars, slotVars, outputVars, shutdownVars, counterVars
<1>1. rows \in Rows /\ report \in Reports
  BY DEF TypeOK, Rows, Reports
<1>2. ASSUME NEW i \in Items, Enqueue(i) PROVE TypeOK'
  <2> DEFINE k == NextOrderingKey(rows, LaneOf[i])
  <2>1. k \in 1..MaxKey /\ DispatchScan(Insert(rows, i, k), report, runStates, lifecycle, FALSE)
    BY <1>2 DEF Enqueue
  <2> HIDE DEF k
  <2>2. Insert(rows, i, k) \in Rows
    BY <1>1, <2>1, InsertCalm
  <2>3. rows' \in Rows /\ report' \in Reports /\ scan' \in [Scans -> Scan]
    BY <1>1, <2>1, <2>2, DispatchScanCalm DEF TypeOK
  <2> QED BY <1>2, <2>3 DEF Enqueue, TypeOK, Rows, Reports
<1>3. ASSUME NEW i \in Items, EnqueueDuplicate(i) PROVE TypeOK'
  <2>1. rows' \in Rows /\ report' \in Reports /\ scan' \in [Scans -> Scan]
    BY <1>1, <1>3, DispatchScanCalm DEF TypeOK, EnqueueDuplicate
  <2> QED BY <1>3, <2>1 DEF EnqueueDuplicate, TypeOK, Rows, Reports
<1>4. ASSUME NEW i \in Items, Retry(i) PROVE TypeOK'
  <2> DEFINE k == NextOrderingKey(rows, LaneOf[i])
  <2>1. k \in 1..MaxKey /\ DispatchScan(RetryItem(rows, i, k), DropReports(report, {i}),
                                 runStates, lifecycle, FALSE)
    BY <1>4 DEF Retry
  <2> HIDE DEF k
  <2>2. RetryItem(rows, i, k) \in Rows /\ DropReports(report, {i}) \in Reports
    BY <1>1, <2>1, RetryItemCalm, ReportSetType DEF Reports
  <2>3. rows' \in Rows /\ report' \in Reports /\ scan' \in [Scans -> Scan]
    BY <2>1, <2>2, DispatchScanCalm DEF TypeOK
  <2> QED BY <1>4, <2>3 DEF Retry, TypeOK, Rows, Reports
<1>5. ASSUME NEW i \in Items, NEW before, Reorder(i, before) PROVE TypeOK'
  <2>1. PICK k \in Nat : rows' = UpdateOrderingKey(rows, i, k)
    BY <1>5 DEF Reorder
  <2>2. rows' \in Rows
    BY <1>1, <2>1, UpdateOrderingKeyCalm
  <2> QED BY <1>5, <2>2 DEF Reorder, TypeOK, Rows
<1>6. ASSUME NEW w \in Waiters, NEW i \in Items, WaitCall(w, i) PROVE TypeOK'
  <2> DEFINE pc == IF lifecycle \in {"created", "running"} /\ rows[i].state \notin Terminal
                   THEN "entering" ELSE "done"
             result == IF lifecycle \notin {"created", "running"} THEN "shutDown"
                       ELSE IF rows[i].state = "completed" THEN "success" ELSE rows[i].state
  <2>1. result \in Answer /\ pc \in {"entering", "parked", "done"}
    BY <1>1 DEF Answer, Outcome, Rows, Row
  <2>2. waiter' = [waiter EXCEPT ![w] = [pc |-> pc, item |-> i, expired |-> FALSE,
                                         result |-> result]]
    BY <1>6 DEF WaitCall
  <2> HIDE DEF pc, result
  <2>3. waiter' \in [Waiters -> {IdleWaiter} \cup Wait]
    BY <2>1, <2>2 DEF TypeOK, Wait
  <2> QED BY <1>6, <2>3 DEF WaitCall, TypeOK
<1>7. ASSUME NEW lane \in Lanes, Pause(lane) PROVE TypeOK'
  BY <1>7 DEF Pause, TypeOK
<1>8. ASSUME NEW lane \in Lanes, Resume(lane) PROVE TypeOK'
  <2>1. rows' \in Rows /\ report' \in Reports /\ scan' \in [Scans -> Scan]
    BY <1>1, <1>8, ClearAdmissionWaitCalm, DispatchScanCalm DEF TypeOK, Resume
  <2> QED BY <1>8, <2>1 DEF Resume, TypeOK, Rows, Reports
<1>9. ASSUME NEW c \in Clients, NEW i \in Items, CancelItem(c, i) PROVE TypeOK'
  <2>1. [NoItems EXCEPT ![i] = 1] \in Snapshot /\ LaneOf[i] \in Lanes
    BY StoreAssumption DEF NoItems, Snapshot
  <2>2. SweepOn(c, "cancel", LaneOf[i], [NoItems EXCEPT ![i] = 1], {})
    BY <1>9 DEF CancelItem
  <2>3. SweepKeeps
    BY <2>1, <2>2, SweepOnKeeps
  <2> QED BY <1>9, <2>3 DEF SweepKeeps, CancelItem, TypeOK, Rows, Reports
<1>10. ASSUME NEW c \in Clients, CancelAllInFlight(c) PROVE TypeOK'
  <2>1. ByKey(rows, "extraction", "running") \in Snapshot /\ "extraction" \in Lanes
    BY <1>1, ByKeyType DEF Lanes
  <2>2. SweepOn(c, "cancelAll", "extraction", ByKey(rows, "extraction", "running"), {})
    BY <1>10 DEF CancelAllInFlight
  <2>3. SweepKeeps
    BY <2>1, <2>2, SweepOnKeeps
  <2> QED BY <1>10, <2>3 DEF SweepKeeps, CancelAllInFlight, TypeOK, Rows, Reports
<1>11. ASSUME NEW c \in Clients, NEW lane \in Lanes, Halt(c, lane) PROVE TypeOK'
  <2>1. ByKey(rows, lane, "running") \in Snapshot
    BY <1>1, ByKeyType
  <2>2. SweepOn(c, "halt", lane, ByKey(rows, lane, "running"), {})
    BY <1>11 DEF Halt
  <2>3. SweepKeeps
    BY <2>1, <2>2, SweepOnKeeps
  <2> QED BY <1>11, <2>3 DEF SweepKeeps, Halt, TypeOK, Rows, Reports
<1>12. ASSUME NEW c \in Clients, SweepDrained(c) PROVE TypeOK'
  <2>1. client[c] \in Sweep
    BY <1>12 DEF SweepDrained, TypeOK
  <2>2. SweepOn(c, client[c].op, client[c].lane, client[c].todo, {client[c].item})
    BY <1>12 DEF SweepDrained
  <2>3. SweepKeeps
    BY <2>1, <2>2, SweepOnKeeps DEF Sweep
  <2> QED BY <1>12, <2>3 DEF SweepKeeps, SweepDrained, TypeOK, Rows, Reports
<1>13. ASSUME NEW s \in Scans, NEW i \in Items, ScanNoRoute(s, i) PROVE TypeOK'
  <2>1. RecordAdmissionWait(rows, i) \in Rows
    BY <1>1, RecordAdmissionWaitCalm
  <2>2. rows' \in Rows /\ report' \in Reports /\ scan' \in [Scans -> Scan]
    BY <1>1, <1>13, <2>1, NextItemCalm DEF ScanNoRoute
  <2> QED BY <1>13, <2>2 DEF ScanNoRoute, TypeOK, Rows, Reports
<1>14. ASSUME NEW s \in Scans, NEW i \in Items, ScanStopped(s, i) PROVE TypeOK'
  <2>1. rows' \in Rows /\ report' \in Reports /\ scan' \in [Scans -> Scan]
    BY <1>1, <1>14, ScanStoppedCalm
  <2> QED BY <1>14, <2>1 DEF ScanStopped, TypeOK, Rows, Reports
<1>15. ASSUME NEW s \in Scans, NEW i \in Items, NEW p \in Providers, ScanSkip(s, i, p)
       PROVE  TypeOK'
  <2>1. rows' \in Rows /\ report' \in Reports /\ scan' \in [Scans -> Scan]
    BY <1>1, <1>15, NextItemCalm DEF ScanSkip
  <2> QED BY <1>15, <2>1 DEF ScanSkip, TypeOK, Rows, Reports
<1>16. ASSUME NEW s \in Scans, NEW i \in Items, NEW p \in Providers, ScanClaim(s, i, p)
       PROVE  TypeOK'
  <2> DEFINE l == dispatched + 1
             new == [pc |-> "running", item |-> i, attempt |-> rows[i].attempt,
                     provider |-> p, told |-> FALSE, result |-> "success"]
  <2>1. l \in Leases /\ l \in 0..MaxDispatch /\ rows[i].state = "queued"
    BY <1>16 DEF ScanClaim, MayClaim, Leases
  <2>2. MarkRunning(rows, i, p) \in Rows /\ ActivateReport(report, i, l) \in Reports
    BY <1>1, <2>1, MarkRunningStarts, ReportType DEF Reports
  <2>3. NextItem(s, i, MarkRunning(rows, i, p), ActivateReport(report, i, l))
    BY <1>16 DEF ScanClaim
  <2>4. rows' \in Rows /\ report' \in Reports /\ scan' \in [Scans -> Scan]
    BY <2>2, <2>3, NextItemCalm
  <2>5. new \in Dispatch
    BY <1>1 DEF Dispatch, Live, Outcome, Rows, Row
  <2>6. /\ dispatched' = l
        /\ providerActiveCounts' = [providerActiveCounts EXCEPT ![p] = @ + 1]
        /\ activeIngestionWikis' \subseteq activeIngestionWikis \cup {WikiOf[i]}
        /\ active' = [active EXCEPT ![i] = l]
        /\ runningTasks' = [runningTasks EXCEPT ![i] = l]
        /\ worker' = [worker EXCEPT ![l] = new]
        /\ UNCHANGED <<savedRunStates, lifecycle, runStates, releaseDeferredByRebuild, inFlight,
                       shutdownVars, client, waiter, crashes>>
    BY <1>16 DEF ScanClaim
  <2> HIDE DEF l, new
  <2> QED BY <2>1, <2>4, <2>5, <2>6 DEF TypeOK, Rows, Reports
<1>17. ASSUME NEW s \in Scans, NEW i \in Items, NEW p \in Providers, ScanClaimUndone(s, i, p)
       PROVE  TypeOK'
  <2>1. Requeue(MarkRunning(rows, i, p), i) \in Rows
    BY <1>1, <1>17, ClaimUndone DEF ScanClaimUndone, MayClaim
  <2>2. rows' \in Rows /\ report' \in Reports /\ scan' \in [Scans -> Scan]
    BY <1>1, <1>17, <2>1, NextItemCalm DEF ScanClaimUndone
  <2> QED BY <1>17, <2>2 DEF ScanClaimUndone, TypeOK, Rows, Reports
<1>18. ASSUME NEW l \in Leases, NEW kind \in EmitKinds, EmitBegin(l, kind) PROVE TypeOK'
  BY <1>18 DEF EmitBegin, TypeOK
<1>19. ASSUME NEW l \in Leases, NEW kind \in EmitKinds, EmitCommit(l, kind) PROVE TypeOK'
  <2> DEFINE i == worker[l].item
  <2>1. \/ UNCHANGED report
        \/ report' = BeginReport(report, i, l)
        \/ \E t \in {"live", "settled"} : report' = CommitReport(report, i, l, t)
    BY <1>19 DEF EmitCommit
  <2> HIDE DEF i
  <2>2. report' \in Reports
    BY <1>1, <2>1, ReportType DEF Reports
  <2> QED BY <1>19, <2>2 DEF EmitCommit, TypeOK, Reports
<1>20. ASSUME NEW l \in Leases, NEW o \in Outcome, WorkerReturn(l, o) PROVE TypeOK'
  <2>1. worker[l] \in Dispatch
    BY <1>20, LiveWorker DEF WorkerReturn, Returns, Live
  <2>2. [worker[l] EXCEPT !.pc = "draining", !.result = o] \in Dispatch
    BY <2>1 DEF Dispatch, Live
  <2>3. worker' = [worker EXCEPT ![l] = [worker[l] EXCEPT !.pc = "draining", !.result = o]]
    BY <1>20 DEF WorkerReturn, TypeOK
  <2>4. active' \in [Items -> Leases \cup {NoLease}]
    BY <1>20, InvalidatedType DEF WorkerReturn
  <2> QED BY <1>20, <2>2, <2>3, <2>4 DEF WorkerReturn, TypeOK
<1>21. ASSUME NEW l \in Leases, NEW o \in Outcome, Settle(l, o) PROVE TypeOK'
  <2>1. SettleKeeps(l)
    BY <1>21, SettleParts
  <2> QED BY <1>21, <2>1 DEF SettleKeeps, Settle, TypeOK, Rows, Reports
<1>22. ASSUME NEW l \in Leases, NEW o \in Outcome, SettleStale(l, o) PROVE TypeOK'
  <2>1. worker[l].pc \in Live
    BY <1>22 DEF SettleStale, Drained, Returns, Live
  <2>2. report' \in Reports
    BY <1>1, <1>22, ReportSetType DEF SettleStale, Reprojected, Reports
  <2> QED BY <1>22, <2>1, <2>2, RetiredType, InvalidatedType DEF SettleStale, TypeOK, Reports
<1>23. ASSUME NEW w \in Waiters, WaitRegister(w) PROVE TypeOK'
  <2> DEFINE i == waiter[w].item
             result == IF rows[i].state = "completed" THEN "success" ELSE rows[i].state
  <2>1. waiter[w] \in Wait
    BY <1>23 DEF WaitRegister, TypeOK, IdleWaiter
  <2>2. result \in Answer
    BY <1>1, <2>1 DEF Answer, Outcome, Rows, Row, Wait
  <2>3. waiter' = IF rows[i].state \in Terminal
                  THEN [Resumed({i}, result) EXCEPT ![w].pc = "done", ![w].result = result]
                  ELSE [waiter EXCEPT ![w].pc = "parked"]
    BY <1>23 DEF WaitRegister
  <2>4. Resumed({i}, result)[w] = waiter[w]
    BY <1>23 DEF WaitRegister, Resumed
  <2> HIDE DEF i, result
  <2>5. Resumed({i}, result) \in [Waiters -> {IdleWaiter} \cup Wait]
    BY <2>2, ResumedType
  <2>6. waiter' \in [Waiters -> {IdleWaiter} \cup Wait]
    <3>1. CASE rows[i].state \in Terminal
      <4>1. [waiter[w] EXCEPT !.pc = "done", !.result = result] \in Wait
        BY <2>1, <2>2 DEF Wait
      <4>2. waiter' = [Resumed({i}, result) EXCEPT
                         ![w] = [waiter[w] EXCEPT !.pc = "done", !.result = result]]
        BY <2>3, <2>4, <2>5, <3>1
      <4> QED BY <2>5, <4>1, <4>2
    <3>2. CASE rows[i].state \notin Terminal
      <4>1. [waiter[w] EXCEPT !.pc = "parked"] \in Wait
        BY <2>1 DEF Wait
      <4> QED BY <2>3, <3>2, <4>1 DEF TypeOK
    <3> QED BY <3>1, <3>2
  <2> QED BY <1>23, <2>6 DEF WaitRegister, TypeOK
<1>24. ASSUME NEW w \in Waiters, WaitDeadline(w) PROVE TypeOK'
  <2> DEFINE woken == Resumed({waiter[w].item}, "timeout")
  <2>1. waiter[w] \in Wait
    BY <1>24 DEF WaitDeadline, TypeOK, IdleWaiter
  <2>2. woken \in [Waiters -> {IdleWaiter} \cup Wait]
    BY ResumedType DEF Answer
  <2>3. woken[w] = [waiter[w] EXCEPT !.pc = "done", !.result = "timeout"]
    BY <1>24 DEF WaitDeadline, Resumed
  <2>4. woken[w] \in Wait
    BY <2>1, <2>3 DEF Wait, Answer
  <2>5. waiter' = [woken EXCEPT ![w].expired = TRUE]
    BY <1>24 DEF WaitDeadline
  <2> HIDE DEF woken
  <2>6. [woken[w] EXCEPT !.expired = TRUE] \in Wait
    BY <2>4 DEF Wait
  <2>7. waiter' \in [Waiters -> {IdleWaiter} \cup Wait]
    BY <2>2, <2>5, <2>6
  <2> QED BY <1>24, <2>7 DEF WaitDeadline, TypeOK
<1>25. CASE Start
  <2> DEFINE r == ResetRunningToQueued(rows)
             rep == ProjectInterrupted(report, Running(rows, Lanes))
  <2>1. r \in Rows /\ rep \in Reports
    BY <1>1, ResetCalm, ReportSetType DEF Reports
  <2>2. Rebuild(r) /\ DispatchScan(r, rep, runStates', lifecycle', FALSE)
    BY <1>25 DEF Start
  <2> HIDE DEF r, rep
  <2>3. rows' \in Rows /\ report' \in Reports /\ scan' \in [Scans -> Scan]
    BY <2>1, <2>2, DispatchScanCalm DEF TypeOK
  <2>4. /\ providerActiveCounts' \in [Providers -> Nat]
        /\ activeIngestionWikis' \subseteq {WikiOf[i] : i \in Items}
        /\ releaseDeferredByRebuild' \subseteq Leases
    BY <2>1, <2>2, RebuildType
  <2> QED BY <1>25, <2>3, <2>4 DEF Start, TypeOK, Rows, Reports, Lifecycle
<1>26. CASE Shutdown
  <2> DEFINE held == {runningTasks[i] : i \in Items} \ {NoLease}
  <2>1. held \subseteq Leases /\ \A l \in held : worker[l].pc \in Live
    BY DEF TypeOK, EntriesLive
  <2>2. worker' = [l \in Leases |-> IF l \in held THEN [worker[l] EXCEPT !.told = TRUE]
                                    ELSE worker[l]]
    BY <1>26 DEF Shutdown
  <2>3. worker' \in [Leases -> {NoWorker, RetiredWorker} \cup Dispatch]
    BY <2>1, <2>2, ToldType DEF TypeOK
  <2>4. rows' \in Rows
    BY <1>1, <1>26, RequeueAllCalm DEF Shutdown
  <2>5. waiter' \in [Waiters -> {IdleWaiter} \cup Wait]
    <3>1. waiter' = [w \in Waiters |->
                       IF waiter[w].pc = "parked"
                       THEN [waiter[w] EXCEPT !.pc = "done", !.result = "shutDown"]
                       ELSE waiter[w]]
      BY <1>26 DEF Shutdown
    <3>2. \A w \in Waiters : waiter[w].pc = "parked" =>
            [waiter[w] EXCEPT !.pc = "done", !.result = "shutDown"] \in Wait
      <4> SUFFICES ASSUME NEW w \in Waiters, waiter[w].pc = "parked"
                   PROVE  [waiter[w] EXCEPT !.pc = "done", !.result = "shutDown"] \in Wait
        OBVIOUS
      <4>1. waiter[w] \in Wait
        BY DEF TypeOK, IdleWaiter
      <4> QED BY <4>1 DEF Wait, Answer
    <3> QED BY <3>1, <3>2 DEF TypeOK
  <2>6. awaitedWorkers' \subseteq Leases
    BY <1>26, <2>1 DEF Shutdown
  <2> HIDE DEF held
  <2> QED BY <1>26, <2>3, <2>4, <2>5, <2>6 DEF Shutdown, TypeOK, Rows, Lifecycle
<1>27. CASE ShutdownDrained
  BY <1>27 DEF ShutdownDrained, TypeOK, Lifecycle
<1>28. CASE ShutdownDeadline
  BY <1>28 DEF ShutdownDeadline, TypeOK, Lifecycle
<1>29. CASE ShutdownAgain
  BY <1>29 DEF ShutdownAgain, TypeOK, Lifecycle
<1>30. CASE Crash
  <2>1. crashes' \in 0..MaxCrash
    BY <1>30 DEF Crash, TypeOK
  <2> QED BY <1>30, <2>1, IdleScanType DEF Crash, TypeOK, Lifecycle
<1> QED
  <2>1. CASE \E i \in Items : Request(i)
    BY <2>1, <1>2, <1>3, <1>4, <1>5, <1>6, <1>9 DEF Request
  <2>2. CASE \E i \in Items : LaneRequest(LaneOf[i])
    BY <2>2, <1>7, <1>8, <1>11, StoreAssumption DEF LaneRequest
  <2>3. CASE \E s \in Scans : ScanStep(s)
    BY <2>3, <1>13, <1>14, <1>15, <1>16, <1>17 DEF ScanStep
  <2>4. CASE \E l \in Leases : WorkerStep(l)
    BY <2>4, <1>20, <1>21, <1>22 DEF WorkerStep
  <2>5. CASE \/ \E c \in Clients : CancelAllInFlight(c) \/ SweepDrained(c)
             \/ \E l \in Leases, k \in EmitKinds : EmitBegin(l, k) \/ EmitCommit(l, k)
             \/ \E w \in Waiters : WaitRegister(w) \/ WaitDeadline(w)
    BY <2>5, <1>10, <1>12, <1>18, <1>19, <1>23, <1>24
  <2> QED BY <2>1, <2>2, <2>3, <2>4, <2>5, <1>25, <1>26, <1>27, <1>28, <1>29, <1>30 DEF Next

-------------------------------------------------------------------------------
(* The kinds of step.  Most start and settle nothing: *)

Quiet ==
  /\ UNCHANGED <<lifecycle, runningTasks, dispatched, awaitedDrains>>
  /\ Calm(rows, rows')
  /\ \A l \in Leases : worker[l].pc \in Live =>
       /\ worker'[l].pc \in Live /\ worker'[l].item = worker[l].item
       /\ worker'[l].attempt = worker[l].attempt
       /\ worker'[l].provider = worker[l].provider
  /\ \A i \in Items : active'[i] \in {active[i], NoLease}
  /\ \A l \in Leases : inFlight'[l] # {} => inFlight[l] # {} \/ \E i \in Items : active[i] = l
  /\ Rebuild(rows') \/ UNCHANGED slotVars

LEMMA CalmReflexive == ASSUME NEW r PROVE Calm(r, r)
BY DEF Calm

\* ... so a step is quiet, or it is one of these.
LEMMA StepKinds ==
  ASSUME TypeOK, EntriesLive, Next
  PROVE  \/ Quiet
         \/ \E s \in Scans, i \in Items, p \in Providers : ScanClaim(s, i, p)
         \/ \E l \in Leases, o \in Outcome : Settle(l, o) \/ SettleStale(l, o)
         \/ Start \/ Shutdown \/ ShutdownDrained \/ ShutdownDeadline \/ ShutdownAgain \/ Crash
<1> USE EngineAssumption DEF storeVars, slotVars, outputVars, shutdownVars, counterVars
<1>1. rows \in Rows /\ report \in Reports /\ Calm(rows, rows)
  BY CalmReflexive DEF TypeOK, Rows, Reports
<1>2. ASSUME NEW i \in Items, Enqueue(i) PROVE Quiet
  <2> DEFINE k == NextOrderingKey(rows, LaneOf[i])
  <2>1. k \in 1..MaxKey /\ DispatchScan(Insert(rows, i, k), report, runStates, lifecycle, FALSE)
    BY <1>2 DEF Enqueue
  <2> HIDE DEF k
  <2>2. Insert(rows, i, k) \in Rows /\ Calm(rows, Insert(rows, i, k))
    BY <1>1, <2>1, InsertCalm
  <2>3. Calm(Insert(rows, i, k), rows')
    BY <1>1, <2>1, <2>2, DispatchScanCalm DEF TypeOK
  <2>4. Calm(rows, rows')
    BY <2>2, <2>3, CalmTransitive
  <2> QED BY <1>2, <2>4 DEF Enqueue, Quiet
<1>3. ASSUME NEW i \in Items, EnqueueDuplicate(i) PROVE Quiet
  <2>1. Calm(rows, rows')
    BY <1>1, <1>3, DispatchScanCalm DEF TypeOK, EnqueueDuplicate
  <2> QED BY <1>3, <2>1 DEF EnqueueDuplicate, Quiet
<1>4. ASSUME NEW i \in Items, Retry(i) PROVE Quiet
  <2> DEFINE k == NextOrderingKey(rows, LaneOf[i])
  <2>1. k \in 1..MaxKey /\ DispatchScan(RetryItem(rows, i, k), DropReports(report, {i}),
                                       runStates, lifecycle, FALSE)
    BY <1>4 DEF Retry
  <2> HIDE DEF k
  <2>2. /\ RetryItem(rows, i, k) \in Rows /\ Calm(rows, RetryItem(rows, i, k))
        /\ DropReports(report, {i}) \in Reports
    BY <1>1, <2>1, RetryItemCalm, ReportSetType DEF Reports
  <2>3. Calm(RetryItem(rows, i, k), rows')
    BY <2>1, <2>2, DispatchScanCalm DEF TypeOK
  <2>4. Calm(rows, rows')
    BY <2>2, <2>3, CalmTransitive
  <2> QED BY <1>4, <2>4 DEF Retry, Quiet
<1>5. ASSUME NEW i \in Items, NEW before, Reorder(i, before) PROVE Quiet
  <2>1. PICK k \in Nat : rows' = UpdateOrderingKey(rows, i, k)
    BY <1>5 DEF Reorder
  <2>2. Calm(rows, rows')
    BY <1>1, <2>1, UpdateOrderingKeyCalm
  <2> QED BY <1>5, <2>2 DEF Reorder, Quiet
<1>6. ASSUME NEW w \in Waiters, NEW i \in Items, WaitCall(w, i) PROVE Quiet
  BY <1>1, <1>6 DEF WaitCall, Quiet
<1>7. ASSUME NEW lane \in Lanes, Pause(lane) PROVE Quiet
  BY <1>1, <1>7 DEF Pause, Quiet
<1>8. ASSUME NEW lane \in Lanes, Resume(lane) PROVE Quiet
  <2>1. /\ ClearAdmissionWait(rows, lane) \in Rows /\ Calm(rows, ClearAdmissionWait(rows, lane))
        /\ Calm(ClearAdmissionWait(rows, lane), rows')
    BY <1>1, <1>8, ClearAdmissionWaitCalm, DispatchScanCalm DEF TypeOK, Resume
  <2>2. Calm(rows, rows')
    BY <2>1, CalmTransitive
  <2> QED BY <1>8, <2>2 DEF Resume, Quiet
<1>9. ASSUME NEW c \in Clients, NEW i \in Items, CancelItem(c, i) PROVE Quiet
  <2>1. [NoItems EXCEPT ![i] = 1] \in Snapshot /\ LaneOf[i] \in Lanes
    BY StoreAssumption DEF NoItems, Snapshot
  <2>2. SweepOn(c, "cancel", LaneOf[i], [NoItems EXCEPT ![i] = 1], {})
    BY <1>9 DEF CancelItem
  <2>3. SweepKeeps
    BY <2>1, <2>2, SweepOnKeeps
  <2> QED BY <1>9, <2>3 DEF SweepKeeps, CancelItem, Quiet
<1>10. ASSUME NEW c \in Clients, CancelAllInFlight(c) PROVE Quiet
  <2>1. ByKey(rows, "extraction", "running") \in Snapshot /\ "extraction" \in Lanes
    BY <1>1, ByKeyType DEF Lanes
  <2>2. SweepOn(c, "cancelAll", "extraction", ByKey(rows, "extraction", "running"), {})
    BY <1>10 DEF CancelAllInFlight
  <2>3. SweepKeeps
    BY <2>1, <2>2, SweepOnKeeps
  <2> QED BY <1>10, <2>3 DEF SweepKeeps, CancelAllInFlight, Quiet
<1>11. ASSUME NEW c \in Clients, NEW lane \in Lanes, Halt(c, lane) PROVE Quiet
  <2>1. ByKey(rows, lane, "running") \in Snapshot
    BY <1>1, ByKeyType
  <2>2. SweepOn(c, "halt", lane, ByKey(rows, lane, "running"), {})
    BY <1>11 DEF Halt
  <2>3. SweepKeeps
    BY <2>1, <2>2, SweepOnKeeps
  <2> QED BY <1>11, <2>3 DEF SweepKeeps, Halt, Quiet
<1>12. ASSUME NEW c \in Clients, SweepDrained(c) PROVE Quiet
  <2>1. client[c] \in Sweep
    BY <1>12 DEF SweepDrained, TypeOK
  <2>2. SweepOn(c, client[c].op, client[c].lane, client[c].todo, {client[c].item})
    BY <1>12 DEF SweepDrained
  <2>3. SweepKeeps
    BY <2>1, <2>2, SweepOnKeeps DEF Sweep
  <2> QED BY <1>12, <2>3 DEF SweepKeeps, SweepDrained, Quiet
<1>13. ASSUME NEW s \in Scans, NEW i \in Items, ScanNoRoute(s, i) PROVE Quiet
  <2>1. RecordAdmissionWait(rows, i) \in Rows /\ Calm(rows, RecordAdmissionWait(rows, i))
    BY <1>1, RecordAdmissionWaitCalm
  <2>2. PICK r \in Rows : Calm(rows, r) /\ Calm(r, rows')
    BY <1>1, <1>13, <2>1, NextItemCalm DEF ScanNoRoute
  <2>3. Calm(rows, rows')
    BY <2>2, CalmTransitive
  <2> QED BY <1>13, <2>3 DEF ScanNoRoute, Quiet
<1>14. ASSUME NEW s \in Scans, NEW i \in Items, ScanStopped(s, i) PROVE Quiet
  <2>1. Calm(rows, rows')
    BY <1>14, ScanStoppedCalm
  <2> QED BY <1>14, <2>1 DEF ScanStopped, Quiet
<1>15. ASSUME NEW s \in Scans, NEW i \in Items, NEW p \in Providers, ScanSkip(s, i, p)
       PROVE  Quiet
  <2>1. Calm(rows, rows')
    BY <1>1, <1>15, NextItemCalm DEF ScanSkip
  <2> QED BY <1>15, <2>1 DEF ScanSkip, Quiet
<1>16. ASSUME NEW s \in Scans, NEW i \in Items, NEW p \in Providers, ScanClaimUndone(s, i, p)
       PROVE  Quiet
  <2> DEFINE r == Requeue(MarkRunning(rows, i, p), i)
  <2>1. r \in Rows /\ Calm(rows, r)
    BY <1>1, <1>16, ClaimUndone DEF ScanClaimUndone, MayClaim
  <2>2. NextItem(s, i, r, report)
    BY <1>16 DEF ScanClaimUndone
  <2> HIDE DEF r
  <2>3. Calm(r, rows')
    BY <1>1, <2>1, <2>2, NextItemCalm
  <2>4. Calm(rows, rows')
    BY <2>1, <2>3, CalmTransitive
  <2> QED BY <1>16, <2>4 DEF ScanClaimUndone, Quiet
<1>17. ASSUME NEW l \in Leases, NEW kind \in EmitKinds, EmitBegin(l, kind) PROVE Quiet
  <2>1. worker[l].item \in Items
    BY <1>17, LiveWorker DEF EmitBegin, Dispatch, Live
  <2> QED BY <1>1, <1>17, <2>1 DEF EmitBegin, Quiet, TypeOK
<1>18. ASSUME NEW l \in Leases, NEW kind \in EmitKinds, EmitCommit(l, kind) PROVE Quiet
  BY <1>1, <1>18 DEF EmitCommit, Quiet, TypeOK
<1>19. ASSUME NEW l \in Leases, NEW o \in Outcome, WorkerReturn(l, o) PROVE Quiet
  <2>1. worker[l] \in Dispatch
    BY <1>19, LiveWorker DEF WorkerReturn, Returns, Live
  <2> DEFINE new == [worker[l] EXCEPT !.pc = "draining", !.result = o]
  <2>2. /\ new.pc \in Live /\ new.item = worker[l].item
        /\ new.attempt = worker[l].attempt /\ new.provider = worker[l].provider
    BY <2>1 DEF Dispatch, Live
  <2>3. worker' = [worker EXCEPT ![l] = new]
    BY <1>19 DEF WorkerReturn, TypeOK
  <2> HIDE DEF new
  <2>4. \A i \in Items : active'[i] \in {active[i], NoLease}
    BY <1>19, InvalidatedType DEF WorkerReturn
  <2> QED BY <1>1, <1>19, <2>2, <2>3, <2>4 DEF WorkerReturn, Quiet, TypeOK
<1>20. ASSUME NEW w \in Waiters, WaitRegister(w) PROVE Quiet
  BY <1>1, <1>20 DEF WaitRegister, Quiet
<1>21. ASSUME NEW w \in Waiters, WaitDeadline(w) PROVE Quiet
  BY <1>1, <1>21 DEF WaitDeadline, Quiet
<1> QED
  <2>1. CASE \E i \in Items : Request(i)
    BY <2>1, <1>2, <1>3, <1>4, <1>5, <1>6, <1>9 DEF Request
  <2>2. CASE \E i \in Items : LaneRequest(LaneOf[i])
    BY <2>2, <1>7, <1>8, <1>11, StoreAssumption DEF LaneRequest
  <2>3. CASE \E s \in Scans : ScanStep(s)
    BY <2>3, <1>13, <1>14, <1>15, <1>16 DEF ScanStep
  <2>4. CASE \E l \in Leases : WorkerStep(l)
    BY <2>4, <1>19 DEF WorkerStep
  <2>5. CASE \/ \E c \in Clients : CancelAllInFlight(c) \/ SweepDrained(c)
             \/ \E l \in Leases, k \in EmitKinds : EmitBegin(l, k) \/ EmitCommit(l, k)
             \/ \E w \in Waiters : WaitRegister(w) \/ WaitDeadline(w)
    BY <2>5, <1>10, <1>12, <1>17, <1>18, <1>20, <1>21
  <2> QED BY <2>1, <2>2, <2>3, <2>4, <2>5 DEF Next

-------------------------------------------------------------------------------
(* What the other kinds of step change. *)

\* A claim takes a free wiki and a slot of a provider with room for its item, and
\* issues a new lease.
Claims(i, p, l) ==
  /\ lifecycle = "running" /\ lifecycle' = "running"
  /\ l = dispatched + 1 /\ l \in Leases /\ dispatched' = l
  /\ rows' \in Rows
  /\ \A j \in Items \ {i} : rows'[j].state = "running" =>
       /\ rows[j].state = "running"
       /\ rows'[j].attempt = rows[j].attempt /\ rows'[j].provider = rows[j].provider
  /\ rows'[i].state = "running" =>
       rows'[i].attempt = rows[i].attempt /\ rows'[i].provider = p
  /\ LaneOf[i] = "ingestion" => WikiOf[i] \notin activeIngestionWikis
  /\ activeIngestionWikis' = IF LaneOf[i] = "ingestion"
                             THEN activeIngestionWikis \cup {WikiOf[i]}
                             ELSE activeIngestionWikis
  /\ providerActiveCounts[p] < Limit[LaneOf[i]][p]
  /\ providerActiveCounts' = [providerActiveCounts EXCEPT ![p] = @ + 1]
  /\ releaseDeferredByRebuild' = releaseDeferredByRebuild
  /\ runningTasks' = [runningTasks EXCEPT ![i] = l]
  /\ \A k \in Leases \ {l} : worker'[k] = worker[k]
  /\ worker'[l] = [pc |-> "running", item |-> i, attempt |-> rows[i].attempt,
                   provider |-> p, told |-> FALSE, result |-> "success"]

LEMMA ClaimParts ==
  ASSUME TypeOK, NEW s \in Scans, NEW i \in Items, NEW p \in Providers, ScanClaim(s, i, p)
  PROVE  Claims(i, p, dispatched + 1)
<1> DEFINE l == dispatched + 1
           new == [pc |-> "running", item |-> i, attempt |-> rows[i].attempt,
                   provider |-> p, told |-> FALSE, result |-> "success"]
           m == MarkRunning(rows, i, p)
<1>1. rows \in Rows /\ report \in Reports
  BY DEF TypeOK, Rows, Reports
<1>2. rows[i].state = "queued" /\ l \in Leases /\ lifecycle = "running"
  BY DEF ScanClaim, MayClaim, ScanOpen
<1>3. /\ m \in Rows
      /\ m[i].provider = p /\ m[i].attempt = rows[i].attempt
      /\ \A j \in Items \ {i} : m[j] = rows[j]
  BY <1>1, <1>2, MarkRunningStarts
<1>4. ActivateReport(report, i, l) \in Reports
  BY <1>1, <1>2, ReportType DEF Reports
<1>5. NextItem(s, i, m, ActivateReport(report, i, l))
  BY DEF ScanClaim
<1> HIDE DEF m
<1>6. rows' \in Rows /\ Calm(m, rows')
  BY <1>3, <1>4, <1>5, NextItemCalm
<1>7. /\ dispatched' = l
      /\ activeIngestionWikis' = IF LaneOf[i] = "ingestion"
                                 THEN activeIngestionWikis \cup {WikiOf[i]}
                                 ELSE activeIngestionWikis
      /\ providerActiveCounts' = [providerActiveCounts EXCEPT ![p] = @ + 1]
      /\ runningTasks' = [runningTasks EXCEPT ![i] = l]
      /\ worker' = [worker EXCEPT ![l] = new]
      /\ UNCHANGED <<lifecycle, releaseDeferredByRebuild>>
  BY DEF ScanClaim
<1>8. /\ LaneOf[i] = "ingestion" => WikiOf[i] \notin activeIngestionWikis
      /\ providerActiveCounts[p] < Limit[LaneOf[i]][p]
  BY DEF ScanClaim, MayClaim
<1>9. \A j \in Items \ {i} : rows'[j].state = "running" =>
        /\ rows[j].state = "running"
        /\ rows'[j].attempt = rows[j].attempt /\ rows'[j].provider = rows[j].provider
  BY <1>3, <1>6 DEF Calm
<1>10. rows'[i].state = "running" =>
         rows'[i].attempt = rows[i].attempt /\ rows'[i].provider = p
  BY <1>3, <1>6 DEF Calm
<1> HIDE DEF new
<1>11. worker'[l] = new /\ \A k \in Leases \ {l} : worker'[k] = worker[k]
  BY <1>2, <1>7 DEF TypeOK
<1> QED BY <1>2, <1>6, <1>7, <1>8, <1>9, <1>10, <1>11 DEF Claims, new

\* A launch finds no running row and leaves none.
LEMMA StartParts ==
  ASSUME TypeOK, Start
  PROVE  Running(rows', Lanes) = {} /\ lifecycle' = "running"
<1> DEFINE r == ResetRunningToQueued(rows)
           rep == ProjectInterrupted(report, Running(rows, Lanes))
<1>1. rows \in Rows /\ report \in Reports
  BY DEF TypeOK, Rows, Reports
<1>2. r \in Rows /\ rep \in Reports /\ Running(r, Lanes) = {}
  BY <1>1, ResetCalm, ReportSetType DEF Reports
<1>3. DispatchScan(r, rep, runStates', lifecycle', FALSE) /\ lifecycle' = "running"
  BY DEF Start
<1> HIDE DEF r, rep
<1>4. Calm(r, rows')
  BY <1>2, <1>3, DispatchScanCalm DEF TypeOK
<1> QED BY <1>2, <1>3, <1>4 DEF Calm, Running

LEMMA ShutdownParts ==
  ASSUME TypeOK, Shutdown
  PROVE  Running(rows', Lanes) = {}
<1>1. rows \in Rows
  BY DEF TypeOK, Rows
<1>2. rows' = RequeueAll(rows, Running(rows, Lanes))
  BY DEF Shutdown
<1> QED BY <1>1, <1>2, ResetCalm DEF ResetRunningToQueued

\* A row that runs in a lane runs in the store.
LEMMA RunningLane ==
  ASSUME NEW r, NEW i \in Items
  PROVE  /\ i \in Running(r, Lanes) <=> r[i].state = "running"
         /\ i \in Running(r, {"ingestion"}) <=> LaneOf[i] = "ingestion" /\ r[i].state = "running"
BY StoreAssumption DEF Running

\* A settlement retires no dispatch but its own.
LEMMA RetiredOthers ==
  ASSUME TypeOK, NEW l \in Leases, NEW k \in Leases, k # l
  PROVE  Retired(l)[k] = worker[k]
BY DEF TypeOK, Retired

-------------------------------------------------------------------------------
(* Each conjunct of the invariant, one step per kind of step. *)

\* An entry stays the live dispatch of its item until that dispatch settles.
LEMMA EntriesLiveStep == TypeOK /\ EntriesLive /\ CreatedEmpty /\ Next => EntriesLive'
<1> SUFFICES ASSUME TypeOK, EntriesLive, CreatedEmpty, Next,
                    NEW i \in Items, runningTasks'[i] # NoLease
             PROVE  /\ runningTasks'[i] <= dispatched'
                    /\ worker'[runningTasks'[i]].pc \in Live
                    /\ worker'[runningTasks'[i]].item = i
  BY DEF EntriesLive
<1>1. /\ runningTasks \in [Items -> Leases \cup {NoLease}] /\ dispatched \in Nat
      /\ \A l \in Leases : l \in Nat
  BY DEF TypeOK, Leases
<1>2. CASE Quiet
  BY <1>1, <1>2 DEF Quiet, EntriesLive
<1>3. ASSUME NEW s \in Scans, NEW j \in Items, NEW p \in Providers, ScanClaim(s, j, p)
      PROVE  /\ runningTasks'[i] <= dispatched'
             /\ worker'[runningTasks'[i]].pc \in Live
             /\ worker'[runningTasks'[i]].item = i
  <2>1. Claims(j, p, dispatched + 1)
    BY <1>3, ClaimParts
  <2>2. CASE i = j
    BY <1>1, <2>1, <2>2 DEF Claims, Live
  <2>3. CASE i # j
    <3>1. runningTasks'[i] = runningTasks[i] /\ runningTasks[i] \in Leases
      BY <1>1, <2>1, <2>3 DEF Claims
    <3>2. runningTasks[i] # dispatched + 1 /\ runningTasks[i] <= dispatched + 1
      BY <1>1, <3>1 DEF EntriesLive
    <3> QED BY <2>1, <3>1, <3>2 DEF Claims, EntriesLive
  <2> QED BY <2>2, <2>3
<1>4. ASSUME NEW l \in Leases, NEW o \in Outcome, Settle(l, o)
      PROVE  /\ runningTasks'[i] <= dispatched'
             /\ worker'[runningTasks'[i]].pc \in Live
             /\ worker'[runningTasks'[i]].item = i
  <2>1. /\ runningTasks' = [runningTasks EXCEPT ![worker[l].item] = NoLease]
        /\ worker' = Retired(l) /\ dispatched' = dispatched
    BY <1>4 DEF Settle, counterVars
  <2>2. i # worker[l].item /\ runningTasks'[i] = runningTasks[i] /\ runningTasks[i] \in Leases
    BY <1>1, <2>1
  <2>3. runningTasks[i] # l
    BY <2>2 DEF EntriesLive
  <2> QED BY <2>1, <2>2, <2>3, RetiredOthers DEF EntriesLive
<1>5. ASSUME NEW l \in Leases, NEW o \in Outcome, SettleStale(l, o)
      PROVE  /\ runningTasks'[i] <= dispatched'
             /\ worker'[runningTasks'[i]].pc \in Live
             /\ worker'[runningTasks'[i]].item = i
  <2>1. /\ runningTasks' = runningTasks /\ worker' = Retired(l) /\ dispatched' = dispatched
        /\ runningTasks[worker[l].item] # l
    BY <1>5 DEF SettleStale, OwnsEntry, counterVars
  <2>2. runningTasks[i] \in Leases /\ runningTasks[i] # l
    BY <1>1, <2>1 DEF EntriesLive
  <2> QED BY <2>1, <2>2, RetiredOthers DEF EntriesLive
<1>6. CASE Start
  BY <1>6 DEF Start, CreatedEmpty
<1>7. CASE Shutdown
  <2> DEFINE l == runningTasks[i]
             held == {runningTasks[j] : j \in Items} \ {NoLease}
  <2>1. /\ runningTasks' = runningTasks /\ dispatched' = dispatched
        /\ worker' = [k \in Leases |-> IF k \in held THEN [worker[k] EXCEPT !.told = TRUE]
                                       ELSE worker[k]]
    BY <1>7 DEF Shutdown, counterVars
  <2>2. l \in Leases /\ worker[l].pc \in Live
    BY <1>1, <2>1 DEF EntriesLive
  <2>3. worker'[l].pc = worker[l].pc /\ worker'[l].item = worker[l].item
    BY <2>1, <2>2, ToldType
  <2> QED BY <2>1, <2>2, <2>3 DEF EntriesLive
<1>8. CASE ShutdownDrained \/ ShutdownDeadline \/ ShutdownAgain
  BY <1>8 DEF ShutdownDrained, ShutdownDeadline, ShutdownAgain, EntriesLive, counterVars
<1>9. CASE Crash
  BY <1>9 DEF Crash
<1> QED BY <1>2, <1>3, <1>4, <1>5, <1>6, <1>7, <1>8, <1>9, StepKinds

\* Nothing is dispatched before the launch.
LEMMA CreatedEmptyStep == TypeOK /\ EntriesLive /\ CreatedEmpty /\ Next => CreatedEmpty'
<1> SUFFICES ASSUME TypeOK, EntriesLive, CreatedEmpty, Next, lifecycle' = "created",
                    NEW i \in Items
             PROVE  runningTasks'[i] = NoLease
  BY DEF CreatedEmpty
<1>1. CASE Quiet
  BY <1>1 DEF Quiet, CreatedEmpty
<1>2. CASE \E s \in Scans, j \in Items, p \in Providers : ScanClaim(s, j, p)
  BY <1>2, ClaimParts DEF Claims
<1>3. CASE \E l \in Leases, o \in Outcome : Settle(l, o) \/ SettleStale(l, o)
  BY <1>3 DEF Settle, SettleStale, CreatedEmpty, TypeOK
<1>4. CASE Start \/ Shutdown \/ ShutdownDrained \/ ShutdownDeadline \/ ShutdownAgain \/ Crash
  BY <1>4 DEF Start, Shutdown, ShutdownDrained, ShutdownDeadline, ShutdownAgain, Crash
<1> QED BY <1>1, <1>2, <1>3, <1>4, StepKinds

\* A hand-off admits no emission, and loses none of those in flight.
LEMMA StoppingSealedStep == TypeOK /\ EntriesLive /\ StoppingSealed /\ Next => StoppingSealed'
<1> SUFFICES ASSUME TypeOK, EntriesLive, StoppingSealed, Next
             PROVE  StoppingSealed'
  OBVIOUS
<1>1. NoLease \notin Leases
  BY DEF NoLease, Leases
<1>2. CASE Quiet
  BY <1>1, <1>2 DEF Quiet, StoppingSealed, Stopping
<1>3. CASE \E s \in Scans, j \in Items, p \in Providers : ScanClaim(s, j, p)
  BY <1>3, ClaimParts DEF Claims, StoppingSealed, Stopping
<1>4. ASSUME NEW l \in Leases, NEW o \in Outcome, Settle(l, o) \/ SettleStale(l, o)
      PROVE  StoppingSealed'
  <2>1. /\ UNCHANGED <<lifecycle, inFlight, awaitedDrains>>
        /\ active' = Invalidated(worker[l].item, l)
    BY <1>4 DEF Settle, SettleStale, shutdownVars
  <2> QED BY <2>1, InvalidatedType DEF StoppingSealed, Stopping
<1>5. CASE Start
  BY <1>5 DEF Start, StoppingSealed, Stopping
<1>6. CASE Shutdown
  BY <1>6 DEF Shutdown, StoppingSealed, Stopping
<1>7. CASE ShutdownDrained \/ ShutdownDeadline \/ ShutdownAgain
  BY <1>7 DEF ShutdownDrained, ShutdownDeadline, ShutdownAgain, StoppingSealed, Stopping,
              outputVars, shutdownVars
<1>8. CASE Crash
  BY <1>8 DEF Crash, StoppingSealed, Stopping
<1> QED BY <1>2, <1>3, <1>4, <1>5, <1>6, <1>7, <1>8, StepKinds

\* A hand-off keeps the rows still and, once done, the emissions too.
LEMMA HandoffStep ==
  TypeOK /\ EntriesLive /\ StoppingSealed /\ HandoffQuiescent /\ Next => HandoffQuiescent'
<1> SUFFICES ASSUME TypeOK, EntriesLive, StoppingSealed, HandoffQuiescent, Next
             PROVE  HandoffQuiescent'
  OBVIOUS
<1>1. \A r, t : Calm(r, t) /\ Running(r, Lanes) = {} => Running(t, Lanes) = {}
  BY DEF Calm, Running
<1>2. NoLease \notin Leases
  BY DEF NoLease, Leases
<1>3. CASE Quiet
  BY <1>1, <1>2, <1>3 DEF Quiet, HandoffQuiescent, StoppingSealed, Stopping
<1>4. CASE \E s \in Scans, j \in Items, p \in Providers : ScanClaim(s, j, p)
  BY <1>4, ClaimParts DEF Claims, HandoffQuiescent
<1>5. ASSUME NEW l \in Leases, NEW o \in Outcome, Settle(l, o)
      PROVE  HandoffQuiescent'
  <2>1. Calm(rows, rows') /\ UNCHANGED <<lifecycle, inFlight>>
    BY <1>5, SettleParts DEF SettleKeeps, Settle
  <2> QED BY <1>1, <2>1 DEF HandoffQuiescent
<1>6. CASE \E l \in Leases, o \in Outcome : SettleStale(l, o)
  BY <1>6 DEF SettleStale, HandoffQuiescent
<1>7. CASE Start
  BY <1>7 DEF Start, HandoffQuiescent
<1>8. CASE Shutdown
  BY <1>8, ShutdownParts DEF Shutdown, HandoffQuiescent
<1>9. CASE ShutdownDrained \/ ShutdownDeadline \/ ShutdownAgain
  BY <1>9 DEF ShutdownDrained, ShutdownDeadline, ShutdownAgain, HandoffQuiescent,
              StoppingSealed, outputVars, storeVars
<1>10. CASE Crash
  BY <1>10 DEF Crash, HandoffQuiescent
<1> QED BY <1>3, <1>4, <1>5, <1>6, <1>7, <1>8, <1>9, <1>10, StepKinds

\* A running row keeps its dispatch: none but its own settlement takes it away,
\* and that settlement leaves the row not running.
LEMMA RunningRowOwnedStep ==
  TypeOK /\ EntriesLive /\ RunningRowOwned /\ Next => RunningRowOwned'
<1> DEFINE Owned(i) == LET l == runningTasks[i] IN
             /\ l # NoLease
             /\ worker[l].pc \in Live /\ worker[l].item = i
             /\ worker[l].attempt = rows[i].attempt /\ worker[l].provider = rows[i].provider
<1> SUFFICES ASSUME TypeOK, EntriesLive, RunningRowOwned, Next, lifecycle' = "running",
                    NEW i \in Items, rows'[i].state = "running"
             PROVE  Owned(i)'
  BY DEF RunningRowOwned, Running
<1>1. runningTasks \in [Items -> Leases \cup {NoLease}] /\ NoLease \notin Leases
  BY DEF TypeOK, Leases, NoLease
<1>2. lifecycle = "running" /\ rows[i].state = "running" =>
        Owned(i) /\ runningTasks[i] \in Leases
  BY <1>1, RunningLane DEF RunningRowOwned
<1>3. CASE Quiet
  BY <1>2, <1>3 DEF Quiet, Calm
<1>4. ASSUME NEW s \in Scans, NEW j \in Items, NEW p \in Providers, ScanClaim(s, j, p)
      PROVE  Owned(i)'
  <2>1. Claims(j, p, dispatched + 1)
    BY <1>4, ClaimParts
  <2>2. CASE i = j
    BY <1>1, <2>1, <2>2 DEF Claims, Live
  <2>3. CASE i # j
    <3>1. /\ lifecycle = "running" /\ rows[i].state = "running"
          /\ rows'[i].attempt = rows[i].attempt /\ rows'[i].provider = rows[i].provider
          /\ runningTasks'[i] = runningTasks[i]
      BY <1>1, <2>1, <2>3 DEF Claims
    <3>2. runningTasks[i] # dispatched + 1
      BY <1>2, <3>1 DEF EntriesLive, TypeOK, Leases
    <3>3. worker'[runningTasks[i]] = worker[runningTasks[i]]
      BY <1>2, <2>1, <3>1, <3>2 DEF Claims
    <3> QED BY <1>2, <3>1, <3>3
  <2> QED BY <2>2, <2>3
<1>5. ASSUME NEW l \in Leases, NEW o \in Outcome, Settle(l, o)
      PROVE  Owned(i)'
  <2>1. SettleKeeps(l)
    BY <1>5, SettleParts
  <2>2. /\ runningTasks' = [runningTasks EXCEPT ![worker[l].item] = NoLease]
        /\ worker' = Retired(l) /\ lifecycle' = lifecycle
    BY <1>5 DEF Settle
  <2>3. /\ i # worker[l].item /\ rows[i].state = "running"
        /\ rows'[i].attempt = rows[i].attempt /\ rows'[i].provider = rows[i].provider
    BY <2>1 DEF SettleKeeps, Calm
  <2>4. Owned(i) /\ runningTasks[i] \in Leases /\ runningTasks'[i] = runningTasks[i]
    BY <1>1, <1>2, <2>2, <2>3
  <2>5. worker'[runningTasks[i]] = worker[runningTasks[i]]
    BY <2>2, <2>3, <2>4, RetiredOthers
  <2> QED BY <2>3, <2>4, <2>5
<1>6. ASSUME NEW l \in Leases, NEW o \in Outcome, SettleStale(l, o)
      PROVE  Owned(i)'
  <2>1. /\ UNCHANGED <<rows, runningTasks, lifecycle>>
        /\ worker' = Retired(l) /\ runningTasks[worker[l].item] # l
    BY <1>6 DEF SettleStale, OwnsEntry
  <2>2. Owned(i) /\ runningTasks[i] \in Leases /\ runningTasks[i] # l
    BY <1>2, <2>1
  <2>3. worker'[runningTasks[i]] = worker[runningTasks[i]]
    BY <2>1, <2>2, RetiredOthers
  <2> QED BY <2>1, <2>2, <2>3
<1>7. CASE Start
  BY <1>7, StartParts, RunningLane
<1>8. CASE Shutdown \/ ShutdownDrained \/ ShutdownDeadline \/ ShutdownAgain \/ Crash
  BY <1>8 DEF Shutdown, ShutdownDrained, ShutdownDeadline, ShutdownAgain, Crash
<1> QED BY <1>3, <1>4, <1>5, <1>6, <1>7, <1>8, StepKinds

\* A claim finds the wiki's slot free, so no other ingestion of it is running.
LEMMA ExclusionStep ==
  TypeOK /\ EntriesLive /\ WikisAccounted /\ PerWikiExclusion /\ Next => PerWikiExclusion'
<1> DEFINE Ingesting(r) == Running(r, {"ingestion"})
<1> SUFFICES ASSUME TypeOK, EntriesLive, WikisAccounted, PerWikiExclusion, Next
             PROVE  PerWikiExclusion'
  OBVIOUS
<1>1. \A i, j \in Ingesting(rows) : i # j => WikiOf[i] # WikiOf[j]
  BY DEF PerWikiExclusion
<1>2. SUFFICES ASSUME NEW i \in Ingesting(rows'), NEW j \in Ingesting(rows'), i # j,
                      WikiOf[i] = WikiOf[j]
               PROVE  FALSE
  BY DEF PerWikiExclusion
<1>3. i \in Items /\ j \in Items /\ LaneOf[i] = "ingestion" /\ LaneOf[j] = "ingestion"
  BY <1>2 DEF Running
<1>4. CASE Calm(rows, rows')
  BY <1>1, <1>2, <1>4 DEF Calm, Running
<1>5. ASSUME NEW s \in Scans, NEW k \in Items, NEW p \in Providers, ScanClaim(s, k, p)
      PROVE  FALSE
  <2>1. Claims(k, p, dispatched + 1)
    BY <1>5, ClaimParts
  <2>2. \A x \in Ingesting(rows') : x # k => x \in Ingesting(rows)
    BY <2>1 DEF Claims, Running
  <2>3. \A x \in Ingesting(rows) : WikiOf[x] \in activeIngestionWikis
    BY <2>1 DEF Claims, WikisAccounted
  <2>4. LaneOf[k] = "ingestion" => WikiOf[k] \notin activeIngestionWikis
    BY <2>1 DEF Claims
  <2> QED BY <1>1, <1>2, <1>3, <2>2, <2>3, <2>4
<1>6. ASSUME NEW l \in Leases, NEW o \in Outcome, Settle(l, o)
      PROVE  Calm(rows, rows')
  BY <1>6, SettleParts DEF SettleKeeps
<1>7. CASE Start
  BY <1>2, <1>3, <1>7, StartParts, RunningLane
<1>8. CASE Shutdown
  BY <1>2, <1>3, <1>8, ShutdownParts, RunningLane
<1>9. CASE \/ \E l \in Leases, o \in Outcome : SettleStale(l, o)
           \/ ShutdownDrained \/ ShutdownDeadline \/ ShutdownAgain \/ Crash
  <2>1. rows' = rows
    BY <1>9 DEF SettleStale, ShutdownDrained, ShutdownDeadline, ShutdownAgain, Crash, storeVars
  <2> QED BY <1>1, <1>2, <2>1
<1> QED BY <1>4, <1>5, <1>6, <1>7, <1>8, <1>9, StepKinds DEF Quiet

\* The account of the ingestion slots is kept: by a claim because the wiki was
\* free, by a settlement because its dispatch is the only one the slot is taken
\* for, and by a rebuild because it counts every running row and marks every
\* other dispatch as having nothing to release.
LEMMA WikisStep ==
  /\ TypeOK /\ EntriesLive /\ CreatedEmpty /\ WikisAccounted
  /\ PerWikiExclusion /\ PerWikiExclusion' /\ Next
  => WikisAccounted'
<1> DEFINE Ingesting(r) == Running(r, {"ingestion"})
           Parts == /\ \A i \in Ingesting(rows) : WikiOf[i] \in activeIngestionWikis
                    /\ \A i \in Items : Attributed(i) => WikiOf[i] \in activeIngestionWikis
                    /\ \A i, j \in Items :
                         Attributed(i) /\ WikiOf[i] = WikiOf[j] /\ i # j
                           => ~Attributed(j) /\ j \notin Ingesting(rows)
<1> SUFFICES ASSUME TypeOK, EntriesLive, CreatedEmpty, WikisAccounted, PerWikiExclusion,
                    PerWikiExclusion', Next, lifecycle' = "running"
             PROVE  Parts'
  BY DEF WikisAccounted
<1>1. lifecycle = "running" => Parts
  BY DEF WikisAccounted
<1>2. runningTasks \in [Items -> Leases \cup {NoLease}] /\ NoLease \notin Leases
  BY DEF TypeOK, Leases, NoLease
<1>3. \A i \in Ingesting(rows') : i \in Items
  BY DEF Running
<1>4. ASSUME Calm(rows, rows')
      PROVE  \A i \in Ingesting(rows') : i \in Ingesting(rows)
  BY <1>4 DEF Calm, Running
<1>5. CASE Quiet /\ UNCHANGED slotVars
  <2>1. /\ lifecycle = "running" /\ Calm(rows, rows')
        /\ UNCHANGED <<runningTasks, activeIngestionWikis, releaseDeferredByRebuild>>
    BY <1>5 DEF Quiet, slotVars
  <2>2. \A i : Attributed(i)' <=> Attributed(i)
    BY <2>1 DEF Attributed
  <2> QED BY <1>1, <1>3, <1>4, <2>1, <2>2
<1>6. CASE Quiet /\ Rebuild(rows')
  <2>1. /\ activeIngestionWikis' = {WikiOf[i] : i \in Ingesting(rows')}
        /\ releaseDeferredByRebuild' = releaseDeferredByRebuild
             \cup {runningTasks[i] : i \in {j \in Items : runningTasks[j] # NoLease
                                                          /\ rows'[j].state # "running"}}
        /\ runningTasks' = runningTasks
    BY <1>6 DEF Quiet, Rebuild
  <2>2. \A i \in Items : Attributed(i)' => i \in Ingesting(rows')
    BY <2>1 DEF Attributed, Running
  <2>3. \A i, j \in Ingesting(rows') : i # j => WikiOf[i] # WikiOf[j]
    BY DEF PerWikiExclusion
  <2> HIDE DEF Ingesting
  <2> QED BY <2>1, <2>2, <2>3
<1>7. ASSUME NEW s \in Scans, NEW k \in Items, NEW p \in Providers, ScanClaim(s, k, p)
      PROVE  Parts'
  <2>1. Claims(k, p, dispatched + 1)
    BY <1>7, ClaimParts
  <2>2. Parts
    BY <1>1, <2>1 DEF Claims
  <2>3. \A i \in Items \ {k} : Attributed(i)' <=> Attributed(i)
    BY <1>2, <2>1 DEF Claims, Attributed
  <2>4. \A i \in Ingesting(rows') : i # k => i \in Ingesting(rows)
    BY <2>1 DEF Claims, Running
  <2>5. CASE LaneOf[k] = "ingestion"
    <3>1. /\ WikiOf[k] \notin activeIngestionWikis
          /\ activeIngestionWikis' = activeIngestionWikis \cup {WikiOf[k]}
      BY <2>1, <2>5 DEF Claims
    <3> QED BY <1>3, <2>2, <2>3, <2>4, <3>1
  <2>6. CASE LaneOf[k] # "ingestion"
    <3>1. activeIngestionWikis' = activeIngestionWikis
      BY <2>1, <2>6 DEF Claims
    <3>2. ~Attributed(k)' /\ k \notin Ingesting(rows')
      BY <2>6 DEF Attributed, Running
    <3> QED BY <1>3, <2>2, <2>3, <2>4, <3>1, <3>2
  <2> QED BY <2>5, <2>6
<1>8. ASSUME NEW l \in Leases, NEW o \in Outcome, Settle(l, o)
      PROVE  Parts'
  <2> PICK k \in Items : k = worker[l].item
    BY <1>8, SettleParts DEF SettleKeeps
  <2>1. Calm(rows, rows') /\ rows'[k].state # "running" /\ ReleaseSlots(l)
    BY <1>8, SettleParts DEF SettleKeeps
  <2>2. /\ runningTasks[k] = l /\ runningTasks' = [runningTasks EXCEPT ![k] = NoLease]
        /\ lifecycle = "running"
    BY <1>8 DEF Settle, OwnsEntry
  <2>3. Parts
    BY <1>1, <2>2
  <2>4. \A i \in Ingesting(rows') : i \in Ingesting(rows) /\ i # k
    <3>1. k \notin Ingesting(rows')
      BY <2>1 DEF Running
    <3> QED BY <1>4, <2>1, <3>1
  <2>5. ~Attributed(k)'
    BY <1>2, <2>1, <2>2 DEF Attributed
  <2>6. \A i \in Items \ {k} : runningTasks'[i] = runningTasks[i] /\ runningTasks[i] # l
    BY <1>2, <2>1, <2>2 DEF EntriesLive
  <2>7. CASE l \in releaseDeferredByRebuild
    <3>1. /\ releaseDeferredByRebuild' = releaseDeferredByRebuild \ {l}
          /\ activeIngestionWikis' = activeIngestionWikis
      BY <2>1, <2>7 DEF ReleaseSlots
    <3>2. \A i \in Items \ {k} : Attributed(i)' <=> Attributed(i)
      BY <2>6, <3>1 DEF Attributed
    <3> QED BY <1>3, <2>3, <2>4, <2>5, <3>1, <3>2
  <2>8. CASE l \notin releaseDeferredByRebuild
    <3>1. /\ releaseDeferredByRebuild' = releaseDeferredByRebuild
          /\ activeIngestionWikis' = IF LaneOf[k] = "ingestion"
                                     THEN activeIngestionWikis \ {WikiOf[k]}
                                     ELSE activeIngestionWikis
      BY <2>1, <2>8 DEF ReleaseSlots
    <3>2. \A i \in Items \ {k} : Attributed(i)' <=> Attributed(i)
      BY <2>6, <3>1 DEF Attributed
    <3>3. LaneOf[k] = "ingestion" => Attributed(k)
      BY <1>2, <2>2, <2>8 DEF Attributed
    <3> QED BY <1>3, <2>1, <2>3, <2>4, <2>5, <3>1, <3>2, <3>3
  <2> QED BY <2>7, <2>8
<1>9. ASSUME NEW l \in Leases, NEW o \in Outcome, SettleStale(l, o)
      PROVE  Parts'
  <2>1. UNCHANGED <<rows, lifecycle, runningTasks, slotVars>>
    BY <1>9 DEF SettleStale
  <2>2. \A i : Attributed(i)' <=> Attributed(i)
    BY <2>1 DEF Attributed, slotVars
  <2> QED BY <1>1, <2>1, <2>2 DEF slotVars
<1>10. CASE Start
  <2>1. Ingesting(rows') = {}
    BY <1>3, <1>10, StartParts, RunningLane
  <2>2. \A i \in Items : ~Attributed(i)'
    BY <1>10 DEF Start, CreatedEmpty, Attributed
  <2> QED BY <2>1, <2>2
<1>11. CASE Shutdown \/ ShutdownDrained \/ ShutdownDeadline \/ ShutdownAgain \/ Crash
  BY <1>11 DEF Shutdown, ShutdownDrained, ShutdownDeadline, ShutdownAgain, Crash
<1> QED BY <1>5, <1>6, <1>7, <1>8, <1>9, <1>10, <1>11, StepKinds DEF Quiet

\* The counts of the providers keep covering the slots taken: a claim adds one
\* item and counts it, a settlement takes one item out and counts it off unless a
\* rebuild did, and a rebuild counts the running rows and forgets the rest.
LEMMA CountsStep ==
  TypeOK /\ EntriesLive /\ CreatedEmpty /\ CountsCover /\ RunningRowOwned' /\ Next => CountsCover'
<1> SUFFICES ASSUME TypeOK, EntriesLive, CreatedEmpty, CountsCover, RunningRowOwned', Next,
                    lifecycle' = "running", NEW q \in Providers
             PROVE  Cardinality(Holding(q)') <= providerActiveCounts'[q]
  BY DEF CountsCover
<1>1. /\ runningTasks \in [Items -> Leases \cup {NoLease}] /\ NoLease \notin Leases
      /\ providerActiveCounts \in [Providers -> Nat]
      /\ \A l \in Leases : l \in Nat
  BY DEF TypeOK, Leases, NoLease
<1>2. Holding(q) \in SUBSET Items /\ Holding(q)' \in SUBSET Items
  BY DEF Holding
<1>3. lifecycle = "running" => Cardinality(Holding(q)) <= providerActiveCounts[q]
  BY DEF CountsCover
<1>4. \A i \in Items : runningTasks[i] # NoLease =>
        /\ runningTasks[i] \in Leases /\ runningTasks[i] <= dispatched
        /\ worker[runningTasks[i]].pc \in Live /\ worker[runningTasks[i]].item = i
  BY <1>1 DEF EntriesLive
<1>5. ASSUME lifecycle = "running", Holding(q)' \subseteq Holding(q),
             providerActiveCounts'[q] = providerActiveCounts[q]
      PROVE  Cardinality(Holding(q)') <= providerActiveCounts'[q]
  <2>1. Cardinality(Holding(q)') <= Cardinality(Holding(q))
    BY <1>2, <1>5, ItemSets
  <2> QED BY <1>1, <1>2, <1>3, <1>5, <2>1, ItemSets
<1>6. CASE Quiet /\ UNCHANGED slotVars
  <2>1. /\ lifecycle = "running" /\ Calm(rows, rows')
        /\ UNCHANGED <<runningTasks, providerActiveCounts, releaseDeferredByRebuild>>
        /\ \A l \in Leases : worker[l].pc \in Live => worker'[l].provider = worker[l].provider
    BY <1>6 DEF Quiet, slotVars
  <2>2. Holding(q)' \subseteq Holding(q)
    BY <1>4, <2>1 DEF Holding, Calm
  <2> QED BY <1>5, <2>1, <2>2
<1>7. CASE Quiet /\ Rebuild(rows')
  <2> DEFINE run == {i \in Running(rows', Lanes) : rows'[i].provider = q}
  <2>1. /\ providerActiveCounts'[q] = Cardinality(run)
        /\ releaseDeferredByRebuild' = releaseDeferredByRebuild
             \cup {runningTasks[i] : i \in {j \in Items : runningTasks[j] # NoLease
                                                          /\ rows'[j].state # "running"}}
        /\ runningTasks' = runningTasks
    BY <1>7 DEF Quiet, Rebuild
  <2>2. ASSUME NEW i \in Holding(q)'
        PROVE  i \in run
    <3>1. i \in Items
      BY <1>2
    <3>2. rows'[i].state = "running"
      BY <2>1, <2>2, <3>1 DEF Holding
    <3>3. i \in Running(rows', Lanes)
      BY <3>1, <3>2, RunningLane
    <3>4. worker'[runningTasks'[i]].provider = rows'[i].provider
      BY <3>3 DEF RunningRowOwned
    <3>5. rows'[i].provider = q
      BY <2>2, <3>4 DEF Holding
    <3> QED BY <3>3, <3>5
  <2>3. run \in SUBSET Items
    BY DEF Running
  <2> HIDE DEF run
  <2> QED BY <2>1, <2>2, <2>3, ItemSets
<1>8. ASSUME NEW s \in Scans, NEW i \in Items, NEW p \in Providers, ScanClaim(s, i, p)
      PROVE  Cardinality(Holding(q)') <= providerActiveCounts'[q]
  <2> DEFINE l == dispatched + 1
  <2>1. Claims(i, p, l)
    BY <1>8, ClaimParts
  <2>2. \A j \in Items \ {i} : j \in Holding(q)' => j \in Holding(q)
    <3> SUFFICES ASSUME NEW j \in Items \ {i}, j \in Holding(q)'
                 PROVE  j \in Holding(q)
      OBVIOUS
    <3>1. runningTasks'[j] = runningTasks[j]
      BY <1>1, <2>1 DEF Claims
    <3>2. runningTasks[j] # NoLease =>
            runningTasks[j] \in Leases /\ runningTasks[j] # l
      BY <1>1, <1>4, <2>1 DEF TypeOK
    <3>3. runningTasks[j] # NoLease => worker'[runningTasks[j]] = worker[runningTasks[j]]
      BY <2>1, <3>2 DEF Claims
    <3> QED BY <2>1, <3>1, <3>3 DEF Claims, Holding
  <2>3. CASE q = p
    <3>1. Holding(q)' \subseteq Holding(q) \cup {i}
      BY <1>2, <2>2
    <3>2. Cardinality(Holding(q)') <= Cardinality(Holding(q)) + 1
      BY <1>2, <3>1, ItemSets
    <3>3. lifecycle = "running" /\ providerActiveCounts'[q] = providerActiveCounts[q] + 1
      BY <1>1, <2>1, <2>3 DEF Claims
    <3>4. Cardinality(Holding(q)) \in Nat /\ Cardinality(Holding(q)') \in Nat
      BY <1>2, ItemSets
    <3> QED BY <1>1, <1>3, <3>2, <3>3, <3>4
  <2>4. CASE q # p
    <3>1. i \notin Holding(q)'
      BY <1>1, <2>1, <2>4 DEF Claims, Holding
    <3>2. lifecycle = "running" /\ providerActiveCounts'[q] = providerActiveCounts[q]
      BY <1>1, <2>1, <2>4 DEF Claims
    <3> QED BY <1>2, <1>5, <2>2, <3>1, <3>2
  <2> QED BY <2>3, <2>4
<1>9. ASSUME NEW l \in Leases, NEW o \in Outcome, Settle(l, o)
      PROVE  Cardinality(Holding(q)') <= providerActiveCounts'[q]
  <2> DEFINE i == worker[l].item
             p == worker[l].provider
  <2>1. SettleKeeps(l)
    BY <1>9, SettleParts
  <2>2. /\ runningTasks' = [runningTasks EXCEPT ![i] = NoLease] /\ runningTasks[i] = l
        /\ worker' = Retired(l) /\ lifecycle = "running"
    BY <1>9 DEF Settle, OwnsEntry
  <2>3. i \in Items /\ p \in Providers
    BY <2>1, LiveWorker DEF SettleKeeps, Dispatch
  <2>4. releaseDeferredByRebuild \ {l} \subseteq releaseDeferredByRebuild'
    BY <2>1 DEF SettleKeeps, ReleaseSlots
  <2>5. i \notin Holding(q)'
    BY <1>1, <2>1, <2>2, <2>3 DEF SettleKeeps, Holding
  <2>6. \A j \in Items \ {i} : j \in Holding(q)' => j \in Holding(q)
    <3> SUFFICES ASSUME NEW j \in Items \ {i}, j \in Holding(q)'
                 PROVE  j \in Holding(q)
      OBVIOUS
    <3>1. runningTasks'[j] = runningTasks[j]
      BY <1>1, <2>2
    <3>2. runningTasks[j] # NoLease => runningTasks[j] \in Leases /\ runningTasks[j] # l
      BY <1>4
    <3>3. runningTasks[j] # NoLease => worker'[runningTasks[j]] = worker[runningTasks[j]]
      BY <2>2, <3>2, RetiredOthers
    <3>4. rows'[j].state = "running" =>
            rows[j].state = "running" /\ rows'[j].provider = rows[j].provider
      BY <2>1 DEF SettleKeeps, Calm
    <3> QED BY <2>4, <3>1, <3>2, <3>3, <3>4 DEF Holding
  <2>7. Holding(q)' \subseteq Holding(q) \ {i}
    BY <1>2, <2>5, <2>6
  <2>8. CASE l \in releaseDeferredByRebuild \/ q # p
    <3>1. providerActiveCounts'[q] = providerActiveCounts[q]
      BY <1>1, <2>1, <2>8 DEF SettleKeeps, ReleaseSlots
    <3> QED BY <1>5, <2>2, <2>7, <3>1
  <2>9. CASE l \notin releaseDeferredByRebuild /\ q = p
    <3>1. i \in Holding(q)
      BY <1>1, <2>2, <2>3, <2>9 DEF Holding
    <3>2. Cardinality(Holding(q)') <= Cardinality(Holding(q)) - 1
      BY <1>2, <2>7, <3>1, ItemSets
    <3>3. Cardinality(Holding(q)) \in Nat /\ Cardinality(Holding(q)') \in Nat
      BY <1>2, ItemSets
    <3>4. providerActiveCounts[q] # 0
      BY <1>3, <2>2, <3>2, <3>3
    <3>5. providerActiveCounts'[q] = providerActiveCounts[q] - 1
      BY <1>1, <2>1, <2>9, <3>4 DEF SettleKeeps, ReleaseSlots
    <3> QED BY <1>1, <1>3, <2>2, <3>2, <3>3, <3>5
  <2> QED BY <2>8, <2>9
<1>10. ASSUME NEW l \in Leases, NEW o \in Outcome, SettleStale(l, o)
       PROVE  Cardinality(Holding(q)') <= providerActiveCounts'[q]
  <2>1. /\ UNCHANGED <<rows, lifecycle, runningTasks, slotVars>>
        /\ worker' = Retired(l) /\ runningTasks[worker[l].item] # l
    BY <1>10 DEF SettleStale, OwnsEntry
  <2>2. \A j \in Items : runningTasks[j] # NoLease =>
          worker'[runningTasks[j]] = worker[runningTasks[j]]
    BY <1>4, <2>1, RetiredOthers
  <2>3. Holding(q)' \subseteq Holding(q)
    BY <2>1, <2>2 DEF Holding, slotVars
  <2> QED BY <1>5, <2>1, <2>3 DEF slotVars
<1>11. CASE Start
  <2>1. \A i \in Items : runningTasks'[i] = NoLease /\ rows'[i].state # "running"
    BY <1>11, StartParts, RunningLane DEF Start, CreatedEmpty
  <2>2. Holding(q)' = {}
    BY <2>1 DEF Holding
  <2>3. providerActiveCounts'[q] \in Nat
    BY <1>11, ResetCalm, RebuildType DEF Start, TypeOK, Rows
  <2> QED BY <2>2, <2>3, FS_EmptySet
<1>12. CASE Shutdown \/ ShutdownDrained \/ ShutdownDeadline \/ ShutdownAgain \/ Crash
  BY <1>12 DEF Shutdown, ShutdownDrained, ShutdownDeadline, ShutdownAgain, Crash
<1> QED BY <1>6, <1>7, <1>8, <1>9, <1>10, <1>11, <1>12, StepKinds DEF Quiet

\* A claim finds the provider's count below the limit, and the count covers the
\* rows that run on it.
LEMMA CapacityStep ==
  TypeOK /\ EntriesLive /\ CountsCover /\ CapacityBound /\ Next => CapacityBound'
<1> DEFINE On(r, lane, q) == {j \in Running(r, {lane}) : r[j].provider = q}
<1> SUFFICES ASSUME TypeOK, EntriesLive, CountsCover, CapacityBound, Next,
                    NEW lane \in Lanes, NEW q \in Providers
             PROVE  Cardinality(On(rows', lane, q)) <= Limit[lane][q]
  BY DEF CapacityBound
<1>1. On(rows, lane, q) \in SUBSET Items /\ On(rows', lane, q) \in SUBSET Items
  BY DEF Running
<1>2. Cardinality(On(rows, lane, q)) <= Limit[lane][q]
  BY DEF CapacityBound
<1>3. Limit[lane][q] \in Nat
  BY EngineAssumption
<1>4. ASSUME Calm(rows, rows')
      PROVE  Cardinality(On(rows', lane, q)) <= Limit[lane][q]
  <2>1. On(rows', lane, q) \subseteq On(rows, lane, q)
    BY <1>4 DEF Calm, Running
  <2> HIDE DEF On
  <2>2. Cardinality(On(rows', lane, q)) <= Cardinality(On(rows, lane, q))
    BY <1>1, <2>1, ItemSets
  <2>3. Cardinality(On(rows', lane, q)) \in Nat /\ Cardinality(On(rows, lane, q)) \in Nat
    BY <1>1, ItemSets
  <2> QED BY <1>2, <1>3, <2>2, <2>3
<1>5. ASSUME NEW s \in Scans, NEW i \in Items, NEW p \in Providers, ScanClaim(s, i, p)
      PROVE  Cardinality(On(rows', lane, q)) <= Limit[lane][q]
  <2>1. Claims(i, p, dispatched + 1)
    BY <1>5, ClaimParts
  <2>2. \A j \in On(rows', lane, q) : j # i => j \in On(rows, lane, q)
    BY <2>1 DEF Claims, Running
  <2>3. CASE q = p /\ lane = LaneOf[i]
    <3>1. On(rows, lane, q) \subseteq Holding(q) /\ Holding(q) \in SUBSET Items
      BY DEF Holding, Running
    <3>2. On(rows', lane, q) \subseteq Holding(q) \cup {i}
      BY <2>2, <3>1
    <3>3. Cardinality(On(rows', lane, q)) <= Cardinality(Holding(q)) + 1
      BY <3>1, <3>2, ItemSets
    <3>4. Cardinality(Holding(q)) <= providerActiveCounts[q]
      BY <2>1 DEF CountsCover, Claims
    <3>5. providerActiveCounts[q] < Limit[lane][q] /\ providerActiveCounts[q] \in Nat
      BY <2>1, <2>3 DEF Claims, TypeOK
    <3>6. Cardinality(Holding(q)) \in Nat /\ Cardinality(On(rows', lane, q)) \in Nat
      BY <1>1, <3>1, ItemSets
    <3> QED BY <1>3, <3>3, <3>4, <3>5, <3>6
  <2>4. CASE q # p \/ lane # LaneOf[i]
    <3>1. i \notin On(rows', lane, q)
      BY <2>1, <2>4 DEF Claims, Running
    <3>2. On(rows', lane, q) \subseteq On(rows, lane, q)
      BY <2>2, <3>1
    <3> HIDE DEF On
    <3>3. Cardinality(On(rows', lane, q)) <= Cardinality(On(rows, lane, q))
      BY <1>1, <3>2, ItemSets
    <3>4. Cardinality(On(rows', lane, q)) \in Nat /\ Cardinality(On(rows, lane, q)) \in Nat
      BY <1>1, ItemSets
    <3> QED BY <1>2, <1>3, <3>3, <3>4
  <2> QED BY <2>3, <2>4
<1>6. ASSUME NEW l \in Leases, NEW o \in Outcome, Settle(l, o)
      PROVE  Calm(rows, rows')
  BY <1>6, SettleParts DEF SettleKeeps
<1>7. CASE Start
  <2>1. Calm(rows, rows')
    BY <1>7, StartParts, RunningLane DEF Calm
  <2> QED BY <1>4, <2>1
<1>8. CASE Shutdown
  <2>1. Calm(rows, rows')
    BY <1>8, ShutdownParts, RunningLane DEF Calm
  <2> QED BY <1>4, <2>1
<1>9. CASE \/ \E l \in Leases, o \in Outcome : SettleStale(l, o)
           \/ ShutdownDrained \/ ShutdownDeadline \/ ShutdownAgain \/ Crash
  <2>1. rows' = rows
    BY <1>9 DEF SettleStale, ShutdownDrained, ShutdownDeadline, ShutdownAgain, Crash, storeVars
  <2> QED BY <1>4, <2>1, CalmReflexive
<1> QED BY <1>4, <1>5, <1>6, <1>7, <1>8, <1>9, StepKinds DEF Quiet
-------------------------------------------------------------------------------
(* The theorems. *)

\* The queue starts with nothing stored and nothing dispatched.
LEMMA InitIInv == Init => IInv
<1> SUFFICES ASSUME Init PROVE IInv
  OBVIOUS
<1>1. NoRow \in Row /\ NoRow.state # "running"
  BY DEF NoRow, Row, ItemState
<1>2. NoReport \in Report(Leases)
  BY DEF NoReport, Report, NoLease
<1>3. TypeOK
  BY <1>1, <1>2, IdleScanType, EngineAssumption DEF Init, TypeOK, Lifecycle, Snapshot
<1>4. \A lanes : Running(rows, lanes) = {}
  BY <1>1 DEF Init, Running
<1>5. PerWikiExclusion /\ RunningRowOwned /\ HandoffQuiescent /\ SlotsAccounted
  BY <1>4 DEF Init, PerWikiExclusion, RunningRowOwned, HandoffQuiescent, SlotsAccounted,
              WikisAccounted, CountsCover
<1>7. CapacityBound
  <2>1. \A lane \in Lanes, p \in Providers :
          {i \in Running(rows, {lane}) : rows[i].provider = p} = {} /\ Limit[lane][p] \in Nat
    BY <1>4, EngineAssumption
  <2> QED BY <2>1, FS_EmptySet DEF CapacityBound
<1>6. EntriesLive /\ CreatedEmpty /\ StoppingSealed
  BY DEF Init, EntriesLive, CreatedEmpty, StoppingSealed, Stopping
<1> QED BY <1>3, <1>5, <1>6, <1>7 DEF IInv

LEMMA StepIInv == IInv /\ [Next]_vars => IInv'
<1> SUFFICES ASSUME IInv, [Next]_vars PROVE IInv'
  OBVIOUS
<1>1. CASE Next
  <2>1. TypeOK' /\ EntriesLive' /\ CreatedEmpty' /\ StoppingSealed'
    BY <1>1, TypeStep, EntriesLiveStep, CreatedEmptyStep, StoppingSealedStep DEF IInv
  <2>2. RunningRowOwned' /\ HandoffQuiescent' /\ PerWikiExclusion' /\ CapacityBound'
    BY <1>1, RunningRowOwnedStep, HandoffStep, ExclusionStep, CapacityStep
    DEF IInv, SlotsAccounted
  <2>3. SlotsAccounted'
    BY <1>1, <2>2, WikisStep, CountsStep DEF IInv, SlotsAccounted
  <2> QED BY <2>1, <2>2, <2>3 DEF IInv
<1>2. CASE UNCHANGED vars
  <2>1. TypeOK'
    BY <1>2 DEF IInv, TypeOK, vars, storeVars, slotVars, outputVars, shutdownVars, counterVars
  <2>2. EntriesLive' /\ CreatedEmpty' /\ StoppingSealed'
    BY <1>2 DEF IInv, EntriesLive, CreatedEmpty, StoppingSealed, vars, storeVars, slotVars,
                outputVars, shutdownVars, counterVars
  <2>3. /\ RunningRowOwned' /\ HandoffQuiescent' /\ PerWikiExclusion' /\ CapacityBound'
        /\ SlotsAccounted'
    BY <1>2 DEF IInv, RunningRowOwned, HandoffQuiescent, PerWikiExclusion, CapacityBound,
                SlotsAccounted, WikisAccounted, Attributed, CountsCover, Holding, vars,
                storeVars, slotVars, outputVars
  <2> QED BY <2>1, <2>2, <2>3 DEF IInv
<1> QED BY <1>1, <1>2

\* The invariant of QueueInvariants holds in every reachable state.
THEOREM Invariance == Spec => []IInv
BY InitIInv, StepIInv, PTL DEF Spec

\* Every variable of the engine keeps its shape: each slot count stays a
\* natural number, whatever rebuilds and late releases do to it.
THEOREM TypeCorrect == Spec => []TypeOK
<1>1. IInv => TypeOK
  BY DEF IInv
<1> QED BY <1>1, Invariance, PTL

\* At most one ingestion of a wiki is running, in every instance.
THEOREM OneIngestionPerWiki == Spec => []PerWikiExclusion
<1>1. IInv => PerWikiExclusion
  BY DEF IInv
<1> QED BY <1>1, Invariance, PTL

\* While the engine runs, every running row is held by the live dispatch that
\* works on that attempt of it, on the provider the row records.
THEOREM NoStrandedRow == Spec => []RunningRowOwned
<1>1. IInv => RunningRowOwned
  BY DEF IInv
<1> QED BY <1>1, Invariance, PTL

\* A hand-off leaves no running row, and once complete no pending emission.
THEOREM HandoffIsQuiescent == Spec => []HandoffQuiescent
<1>1. IInv => HandoffQuiescent
  BY DEF IInv
<1> QED BY <1>1, Invariance, PTL

\* No lane has more rows running on a provider than its limit, whatever rebuilds
\* and late settlements did to the count that the claims test.
THEOREM CapacityIsBounded == Spec => []CapacityBound
<1>1. IInv => CapacityBound
  BY DEF IInv
<1> QED BY <1>1, Invariance, PTL

\* The slots are accounted for: a wiki whose slot is free has neither a running
\* ingestion nor a dispatch that will release the slot again, and no provider's
\* count is below the slots taken on it.
THEOREM SlotsAreAccounted == Spec => []SlotsAccounted
<1>1. IInv => SlotsAccounted
  BY DEF IInv
<1> QED BY <1>1, Invariance, PTL
===============================================================================
