-------------------------- MODULE QueuePromisesProofs --------------------------
(***************************************************************************)
(* What the queue promises its clients, in every instance: it implements   *)
(* JobQueue, its keys order the jobs of a lane, a reorder puts a job where *)
(* it says, a waiter is told the truth and is not left behind, and a       *)
(* report stays with the dispatch that wrote it.  The slots and the        *)
(* dispatches behind the promises are QueueEngineProofs' business.         *)
(***************************************************************************)
EXTENDS QueueEngineProofs, QueueRefinement
-------------------------------------------------------------------------------
(* What a step writes.  Every step is one operation of the store on the rows, *)
(* under the condition the engine calls it in, and may forget some history.   *)

Written(r) ==
  \/ r = rows
  \/ \E i \in Items :
       /\ rows[i].state = "absent"
       /\ r = Insert(rows, i, NextOrderingKey(rows, LaneOf[i]))
  \/ \E i \in Items :
       /\ rows[i].state \in {"failed", "cancelled"}
       /\ r = RetryItem(rows, i, NextOrderingKey(rows, LaneOf[i]))
  \/ \E i \in Items :
       /\ rows[i].state = "queued"
       /\ \/ r = UpdateOrderingKey(rows, i, NextOrderingKey(rows, LaneOf[i]))
          \/ \E before \in Items : r = UpdateOrderingKey(rows, i, ReorderedKey(i, before))
  \/ \E i \in Items : r = RecordAdmissionWait(rows, i)
  \/ \E lane \in Lanes : r = ClearAdmissionWait(rows, lane)
  \/ \E i \in Items, p \in Providers :
       lifecycle = "running" /\ MayClaim(i, p) /\ r = MarkRunning(rows, i, p)
  \/ \E i \in Items, p \in Providers :
       rows[i].state = "queued" /\ r = Requeue(MarkRunning(rows, i, p), i)
  \/ \E i \in Items : r \in {MarkCompleted(rows, i), MarkFailed(rows, i), Requeue(rows, i)}
  \/ \E S \in SUBSET Items : r = RequeueAll(rows, S)
  \/ \E S \in SUBSET Items : r = CancelAll(rows, S)

Saved(r) == rows' = r \/ \E S \in Prunable(r, HistoryLimit) : rows' = Delete(r, S)

LEMMA SavedByScan ==
  ASSUME NEW r, NEW rep, NEW rs, NEW lc, NEW prune, DispatchScan(r, rep, rs, lc, prune)
  PROVE  Saved(r)
BY DEF DispatchScan, Save, Saved

LEMMA SavedByItem ==
  ASSUME NEW s, NEW i, NEW r, NEW rep, NextItem(s, i, r, rep)
  PROVE  Saved(r)
BY DEF NextItem, Proceed, Save, Saved

LEMMA SavedBySweep ==
  ASSUME NEW c, NEW op, NEW lane, NEW todo, NEW drained \in SUBSET Items,
         SweepOn(c, op, lane, todo, drained)
  PROVE  \E r : Written(r) /\ Saved(r)
<1>1. PICK gone \in SUBSET Items :
        rows' = IF op = "halt" THEN RequeueAll(rows, gone) ELSE CancelAll(rows, gone)
  BY DEF SweepOn, Prompt
<1> QED BY <1>1 DEF Written, Saved

LEMMA StepWrites ==
  ASSUME TypeOK, Next
  PROVE  \E r : Written(r) /\ Saved(r)
<1> USE DEF storeVars
<1>1. ASSUME rows' = rows PROVE \E r : Written(r) /\ Saved(r)
  BY <1>1 DEF Written, Saved
<1>2. ASSUME NEW i \in Items, Enqueue(i) PROVE \E r : Written(r) /\ Saved(r)
  BY <1>2, SavedByScan DEF Enqueue, Written
<1>3. ASSUME NEW i \in Items, EnqueueDuplicate(i) PROVE \E r : Written(r) /\ Saved(r)
  BY <1>3, SavedByScan DEF EnqueueDuplicate, Written
<1>4. ASSUME NEW i \in Items, Retry(i) PROVE \E r : Written(r) /\ Saved(r)
  BY <1>4, SavedByScan DEF Retry, Written
<1>5. ASSUME NEW i \in Items, NEW before, Reorder(i, before)
      PROVE  \E r : Written(r) /\ Saved(r)
  BY <1>5 DEF Reorder, Written, Saved
<1>6. ASSUME NEW lane \in Lanes, Resume(lane) PROVE \E r : Written(r) /\ Saved(r)
  BY <1>6, SavedByScan DEF Resume, Written
<1>7. ASSUME NEW c \in Clients, NEW i \in Items, CancelItem(c, i)
      PROVE  \E r : Written(r) /\ Saved(r)
  BY <1>7, SavedBySweep DEF CancelItem
<1>8. ASSUME NEW c \in Clients, CancelAllInFlight(c) PROVE \E r : Written(r) /\ Saved(r)
  BY <1>8, SavedBySweep DEF CancelAllInFlight
<1>9. ASSUME NEW c \in Clients, NEW lane \in Lanes, Halt(c, lane)
      PROVE  \E r : Written(r) /\ Saved(r)
  BY <1>9, SavedBySweep DEF Halt
<1>10. ASSUME NEW c \in Clients, SweepDrained(c) PROVE \E r : Written(r) /\ Saved(r)
  <2>1. client[c].item \in Items
    BY <1>10 DEF SweepDrained, TypeOK, Sweep
  <2> QED BY <1>10, <2>1, SavedBySweep DEF SweepDrained
<1>11. ASSUME NEW s \in Scans, NEW i \in Items, ScanNoRoute(s, i)
       PROVE  \E r : Written(r) /\ Saved(r)
  <2>1. PICK r \in {rows, RecordAdmissionWait(rows, i)} : NextItem(s, i, r, report)
    BY <1>11 DEF ScanNoRoute
  <2> QED BY <2>1, SavedByItem DEF Written
<1>12. ASSUME NEW s \in Scans, NEW i \in Items, ScanStopped(s, i)
       PROVE  \E r : Written(r) /\ Saved(r)
  BY <1>12 DEF ScanStopped, Proceed, Save, Written, Saved
<1>13. ASSUME NEW s \in Scans, NEW i \in Items, NEW p \in Providers,
              ScanSkip(s, i, p)
       PROVE  \E r : Written(r) /\ Saved(r)
  BY <1>13, SavedByItem DEF ScanSkip, Written
<1>14. ASSUME NEW s \in Scans, NEW i \in Items, NEW p \in Providers,
              ScanClaim(s, i, p)
       PROVE  \E r : Written(r) /\ Saved(r)
  BY <1>14, SavedByItem DEF ScanClaim, ScanOpen, Written
<1>15. ASSUME NEW s \in Scans, NEW i \in Items, NEW p \in Providers,
              ScanClaimUndone(s, i, p)
       PROVE  \E r : Written(r) /\ Saved(r)
  BY <1>15, SavedByItem DEF ScanClaimUndone, MayClaim, Written
<1>16. ASSUME NEW l \in Leases, NEW o \in Outcome, Settle(l, o)
       PROVE  \E r : Written(r) /\ Saved(r)
  <2> DEFINE i == worker[l].item
  <2>1. i \in Items
    BY <1>16, SettleParts DEF SettleKeeps
  <2>2. PICK r \in {MarkCompleted(rows, i), MarkFailed(rows, i), Requeue(rows, i)} :
             \E rep : DispatchScan(r, rep, runStates, lifecycle, TRUE)
    BY <1>16 DEF Settle, Outcome
  <2> QED BY <2>1, <2>2, SavedByScan DEF Written
<1>17. ASSUME Start PROVE \E r : Written(r) /\ Saved(r)
  <2>1. Running(rows, Lanes) \in SUBSET Items
    BY DEF Running
  <2>2. Saved(RequeueAll(rows, Running(rows, Lanes)))
    BY <1>17, SavedByScan DEF Start, ResetRunningToQueued
  <2> QED BY <2>1, <2>2 DEF Written
<1>18. ASSUME Shutdown PROVE \E r : Written(r) /\ Saved(r)
  <2>1. Running(rows, Lanes) \in SUBSET Items
    BY DEF Running
  <2> QED BY <1>18, <2>1 DEF Shutdown, Written, Saved
<1> QED
  <2>1. CASE \E i \in Items : Request(i)
    BY <2>1, <1>1, <1>2, <1>3, <1>4, <1>5, <1>7 DEF Request, WaitCall
  <2>2. CASE \E i \in Items : LaneRequest(LaneOf[i])
    BY <2>2, <1>1, <1>6, <1>9, StoreAssumption DEF LaneRequest, Pause
  <2>3. CASE \E s \in Scans : ScanStep(s)
    BY <2>3, <1>11, <1>12, <1>13, <1>14, <1>15 DEF ScanStep
  <2>4. CASE \E l \in Leases : WorkerStep(l)
    BY <2>4, <1>1, <1>16 DEF WorkerStep, WorkerReturn, SettleStale
  <2>5. CASE \/ \E l \in Leases, k \in EmitKinds : EmitBegin(l, k) \/ EmitCommit(l, k)
             \/ \E w \in Waiters : WaitRegister(w) \/ WaitDeadline(w)
    BY <2>5, <1>1 DEF EmitBegin, EmitCommit, WaitRegister, WaitDeadline
  <2>6. CASE ShutdownDrained \/ ShutdownDeadline \/ ShutdownAgain \/ Crash
    BY <2>6, <1>1 DEF ShutdownDrained, ShutdownDeadline, ShutdownAgain, Crash
  <2> QED BY <2>1, <2>2, <2>3, <2>4, <2>5, <2>6, <1>8, <1>10, <1>17, <1>18 DEF Next
-------------------------------------------------------------------------------
(* The order of a lane. *)

\* A reordered job gets the place right before the one named, or a place after
\* everything stored in its lane.
LEMMA ReorderedPlace ==
  ASSUME TypeOK, NEW i \in Items, NEW before \in Items
  PROVE  LET k == ReorderedKey(i, before)
         IN  /\ k \in Nat
             /\ \/ \A j \in Stored(rows, LaneOf[i]) : rows[j].key < k
                \/ /\ k < rows[before].key
                   /\ \A j \in Items :
                        /\ LaneOf[j] = LaneOf[i] /\ rows[j].state \in Active
                        /\ rows[j].key < rows[before].key
                        => rows[j].key < k
<1> DEFINE lane == LaneOf[i]
           keys == {rows[j].key : j \in {x \in Items : LaneOf[x] = lane
                                                       /\ rows[x].state \in Active}}
           bound == rows[before].key
           A == {x \in Items : LaneOf[x] = lane /\ rows[x].state \in Active
                               /\ rows[x].key < bound}
           pred == Max({0} \cup {m \in keys : m < bound})
           mid == pred + (bound - pred) \div 2
           top == MaxOrderingKey(rows, lane)
           k == ReorderedKey(i, before)
<1>1. rows \in Rows /\ A \in SUBSET Items /\ Stored(rows, lane) \in SUBSET Items
  BY DEF TypeOK, Rows, Stored
<1>2. bound \in Nat /\ \A j \in Items : rows[j].key \in Nat
  BY <1>1 DEF Rows, Row
<1>3. {m \in keys : m < bound} = {rows[j].key : j \in A}
  OBVIOUS
<1>4. pred \in Nat /\ \A j \in A : rows[j].key <= pred
  <2> DEFINE K == {0} \cup {rows[j].key : j \in A}
  <2>1. Max(K) \in Nat /\ \A m \in K : m <= Max(K)
    BY <1>1, LargestKey
  <2>2. pred = Max(K)
    BY <1>3
  <2>3. \A j \in A : rows[j].key \in K
    OBVIOUS
  <2> HIDE DEF K, pred, A
  <2> QED BY <2>1, <2>2, <2>3
<1>5. top \in Nat /\ \A j \in Stored(rows, lane) : rows[j].key <= top
  <2> DEFINE K == {0} \cup {rows[j].key : j \in Stored(rows, lane)}
  <2>1. Max(K) \in Nat /\ \A m \in K : m <= Max(K)
    BY <1>1, LargestKey
  <2>2. top = Max(K)
    BY DEF MaxOrderingKey
  <2>3. \A j \in Stored(rows, lane) : rows[j].key \in K
    OBVIOUS
  <2> HIDE DEF K, top
  <2> QED BY <2>1, <2>2, <2>3
<1>6. k = IF pred < mid /\ mid < bound THEN mid ELSE Max({top, bound}) + Gap
  BY DEF ReorderedKey
<1>7. Max({top, bound}) \in Nat /\ top <= Max({top, bound})
  <2>1. IsFiniteSet({top, bound})
    <3>1. IsFiniteSet({top} \cup {bound})
      BY FS_Singleton, FS_AddElement
    <3>2. {top, bound} = {top} \cup {bound}
      OBVIOUS
    <3> QED BY <3>1, <3>2
  <2> HIDE DEF top, bound
  <2> QED BY <1>2, <1>5, <2>1, MaxIsLargest
<1>8. Gap \in Nat \ {0}
  BY StoreAssumption
<1>9. \A j \in Items : LaneOf[j] = lane /\ rows[j].state \in Active /\ rows[j].key < bound
                      => j \in A
  OBVIOUS
<1>10. \A j \in Stored(rows, lane) : rows[j].key \in Nat
  BY <1>1, <1>2
<1> HIDE DEF A, keys, pred, top, k
<1>11. CASE pred < mid /\ mid < bound
  <2>1. k \in Nat /\ k > pred /\ k < bound
    BY <1>2, <1>4, <1>6, <1>11
  <2>2. \A j \in A : rows[j].key < k
    BY <1>2, <1>4, <2>1 DEF A
  <2> QED BY <1>9, <2>1, <2>2 DEF k
<1>12. CASE ~(pred < mid /\ mid < bound)
  <2>1. k = Max({top, bound}) + Gap
    BY <1>6, <1>12
  <2>2. k \in Nat /\ top < k
    BY <1>5, <1>7, <1>8, <2>1
  <2>3. \A j \in Stored(rows, lane) : rows[j].key < k
    BY <1>5, <1>10, <2>2
  <2> QED BY <2>2, <2>3 DEF k
<1> QED BY <1>11, <1>12

\* The jobs that wait or run in r did so before, with the same keys: all of them,
\* or all but i.
KeepsPlaces(r, S) ==
  \A j \in S : r[j].state \in Active => rows[j].state \in Active /\ r[j].key = rows[j].key

\* i gets a place of its own.
OwnPlace(r, i) ==
  \A j \in Items \ {i} :
    LaneOf[j] = LaneOf[i] /\ rows[j].state \in Active => rows[j].key # r[i].key

\* The operations that are no enqueue, retry or reorder give no new place.
LEMMA TransitionsKeepPlaces ==
  ASSUME NEW r \in Rows, NEW i \in Items, NEW from \in SUBSET Active, NEW new \in Row,
         new.key = r[i].key
  PROVE  /\ Cas(r, i, from, new) \in Rows
         /\ \A j \in Items : Cas(r, i, from, new)[j].state \in Active =>
              r[j].state \in Active /\ Cas(r, i, from, new)[j].key = r[j].key
BY CasType

\* What an operation does to the places: it gives none, or one to one job.
LEMMA WrittenPlaces ==
  ASSUME TypeOK, NEW r, Written(r)
  PROVE  /\ r \in Rows
         /\ \/ KeepsPlaces(r, Items)
            \/ \E i \in Items : KeepsPlaces(r, Items \ {i}) /\ OwnPlace(r, i)
<1> DEFINE Goal == /\ r \in Rows
                   /\ \/ KeepsPlaces(r, Items)
                      \/ \E i \in Items : KeepsPlaces(r, Items \ {i}) /\ OwnPlace(r, i)
<1> SUFFICES Goal
  OBVIOUS
<1>1. rows \in Rows /\ \A j \in Items : rows[j] \in Row /\ rows[j].key \in Nat
  BY DEF TypeOK, Rows, Row
<1>2. \A j \in Items : rows[j].state \in Active => j \in Stored(rows, LaneOf[j])
  BY DEF Stored, Active
<1>3. ASSUME NEW i \in Items, NEW k \in Nat, r \in Rows, r[i].key = k,
             \A j \in Items \ {i} : r[j] = rows[j],
             \A j \in Items \ {i} :
               LaneOf[j] = LaneOf[i] /\ rows[j].state \in Active => rows[j].key # k
      PROVE  Goal
  BY <1>3 DEF KeepsPlaces, OwnPlace
<1>4. ASSUME NEW i \in Items, NEW k, k = NextOrderingKey(rows, LaneOf[i])
      PROVE  /\ k \in Nat
             /\ \A j \in Items : LaneOf[j] = LaneOf[i] /\ rows[j].state \in Active
                                 => rows[j].key # k
  BY <1>1, <1>2, <1>4, NextKeyAbove
<1>5. CASE r = rows
  BY <1>1, <1>5 DEF KeepsPlaces
<1>6. ASSUME NEW i \in Items, r = Insert(rows, i, NextOrderingKey(rows, LaneOf[i]))
      PROVE  Goal
  <2> DEFINE k == NextOrderingKey(rows, LaneOf[i])
             new == [NoRow EXCEPT !.state = "queued", !.key = k]
  <2>1. k \in Nat
    BY <1>4
  <2>2. r = [rows EXCEPT ![i] = new] /\ new.key = k
    BY <1>6 DEF Insert, NoRow
  <2>5. r \in Rows
    BY <1>1, <1>6, <2>1, InsertCalm
  <2>4. \A j \in Items : LaneOf[j] = LaneOf[i] /\ rows[j].state \in Active => rows[j].key # k
    BY <1>4
  <2> HIDE DEF k, new
  <2>3. r[i].key = k /\ \A j \in Items \ {i} : r[j] = rows[j]
    BY <1>1, <2>2 DEF Rows
  <2> HIDE DEF Goal
  <2> QED BY <1>3, <2>1, <2>3, <2>4, <2>5
<1>7. ASSUME NEW i \in Items, rows[i].state \in {"failed", "cancelled"},
             r = RetryItem(rows, i, NextOrderingKey(rows, LaneOf[i]))
      PROVE  Goal
  <2> DEFINE k == NextOrderingKey(rows, LaneOf[i])
             new == NextAttempt(rows[i], k)
  <2>1. k \in Nat
    BY <1>4
  <2>2. new \in Row /\ new.key = k
    BY <1>1, <2>1 DEF NextAttempt, Row, ItemState, Active
  <2>3. r = Cas(rows, i, {"failed", "cancelled"}, new)
    BY <1>7 DEF RetryItem
  <2>5. \A j \in Items : LaneOf[j] = LaneOf[i] /\ rows[j].state \in Active => rows[j].key # k
    BY <1>4
  <2> HIDE DEF k, new
  <2>4. r \in Rows /\ r[i].key = k /\ \A j \in Items \ {i} : r[j] = rows[j]
    BY <1>1, <1>7, <2>2, <2>3, CasType
  <2> QED BY <1>3, <2>1, <2>4, <2>5
<1>8. ASSUME NEW i \in Items, NEW k \in Nat, r = UpdateOrderingKey(rows, i, k),
             \A j \in Items \ {i} :
               LaneOf[j] = LaneOf[i] /\ rows[j].state \in Active => rows[j].key # k
      PROVE  Goal
  <2>1. r \in Rows
    BY <1>1, <1>8, UpdateOrderingKeyCalm
  <2>2. r[i].key = k /\ \A j \in Items \ {i} : r[j] = rows[j]
    BY <1>1, <1>8 DEF UpdateOrderingKey, Rows, Row
  <2> QED BY <1>3, <1>8, <2>1, <2>2
<1>9. ASSUME NEW i \in Items, NEW before \in Items,
             r = UpdateOrderingKey(rows, i, ReorderedKey(i, before))
      PROVE  Goal
  <2>1. /\ ReorderedKey(i, before) \in Nat
        /\ \A j \in Items : LaneOf[j] = LaneOf[i] /\ rows[j].state \in Active
                            => rows[j].key # ReorderedKey(i, before)
    BY <1>1, <1>2, ReorderedPlace
  <2> QED BY <1>8, <1>9, <2>1
<1>19. ASSUME NEW i \in Items, r = UpdateOrderingKey(rows, i, NextOrderingKey(rows, LaneOf[i]))
       PROVE  Goal
  BY <1>4, <1>8, <1>19
<1>10. ASSUME NEW i \in Items, NEW from \in SUBSET Active, NEW new \in Row,
              new.key = rows[i].key, r = Cas(rows, i, from, new)
       PROVE  Goal
  BY <1>1, <1>10, TransitionsKeepPlaces DEF KeepsPlaces
<1>11. CASE \E i \in Items : r = RecordAdmissionWait(rows, i)
  <2>1. PICK i \in Items : r = RecordAdmissionWait(rows, i)
    BY <1>11
  <2>2. [rows[i] EXCEPT !.blocked = TRUE] \in Row /\ [rows[i] EXCEPT !.blocked = TRUE].key = rows[i].key
    BY <1>1 DEF Row
  <2> QED BY <1>10, <2>1, <2>2 DEF RecordAdmissionWait, Active
<1>12. CASE \E lane \in Lanes : r = ClearAdmissionWait(rows, lane)
  <2>1. PICK lane \in Lanes : r = ClearAdmissionWait(rows, lane)
    BY <1>12
  <2>2. r \in Rows
    BY <1>1, <2>1, ClearAdmissionWaitCalm
  <2>3. \A j \in Items : r[j].state = rows[j].state /\ r[j].key = rows[j].key
    BY <1>1, <2>1 DEF ClearAdmissionWait, Row
  <2> QED BY <2>2, <2>3 DEF KeepsPlaces
<1>13. ASSUME NEW i \in Items, NEW p \in Providers, r = MarkRunning(rows, i, p)
       PROVE  Goal
  <2> DEFINE new == [rows[i] EXCEPT !.state = "running", !.provider = p]
  <2>1. new \in Row /\ new.key = rows[i].key
    BY <1>1 DEF Row, ItemState, Active
  <2> QED BY <1>10, <1>13, <2>1 DEF MarkRunning, Active
<1>14. ASSUME NEW i \in Items, NEW p \in Providers, rows[i].state = "queued",
              r = Requeue(MarkRunning(rows, i, p), i)
       PROVE  Goal
  <2> DEFINE m == MarkRunning(rows, i, p)
             new == [m[i] EXCEPT !.state = "queued", !.provider = NoProvider]
             run == [rows[i] EXCEPT !.state = "running", !.provider = p]
  <2>1. run \in Row /\ run.key = rows[i].key
    BY <1>1 DEF Row, ItemState, Active
  <2>2. m = Cas(rows, i, {"queued"}, run)
    BY DEF MarkRunning
  <2> HIDE DEF run, m
  <2>3. m \in Rows /\ m[i] = run /\ \A j \in Items \ {i} : m[j] = rows[j]
    BY <1>1, <1>14, <2>1, <2>2, CasType
  <2>4. new \in Row /\ new.key = rows[i].key
    BY <2>1, <2>3 DEF Rows, Row, ItemState, Active
  <2>5. r = Cas(m, i, {"running"}, new)
    BY <1>14 DEF Requeue, m
  <2> HIDE DEF new
  <2>6. r \in Rows /\ r[i].key = rows[i].key /\ \A j \in Items \ {i} : r[j] = rows[j]
    BY <2>1, <2>3, <2>4, <2>5, CasType
  <2> QED BY <1>14, <2>6 DEF KeepsPlaces, Active
<1>15. ASSUME NEW i \in Items, r \in {MarkCompleted(rows, i), MarkFailed(rows, i), Requeue(rows, i)}
       PROVE  Goal
  <2> DEFINE done == [rows[i] EXCEPT !.state = "completed"]
             fail == [rows[i] EXCEPT !.state = "failed"]
             wait == [rows[i] EXCEPT !.state = "queued", !.provider = NoProvider]
  <2>1. /\ done \in Row /\ done.key = rows[i].key
        /\ fail \in Row /\ fail.key = rows[i].key
        /\ wait \in Row /\ wait.key = rows[i].key
    BY <1>1 DEF Row, ItemState, Active, Terminal
  <2>2. \E new \in {done, fail, wait} : r = Cas(rows, i, {"running"}, new)
    BY <1>15 DEF MarkCompleted, MarkFailed, Requeue
  <2> HIDE DEF done, fail, wait
  <2> QED BY <1>10, <2>1, <2>2 DEF Active
<1>16. CASE \E S \in SUBSET Items : r = RequeueAll(rows, S)
  <2>1. PICK S \in SUBSET Items : r = RequeueAll(rows, S)
    BY <1>16
  <2>2. r \in Rows
    BY <1>1, <2>1, RequeueAllCalm
  <2>3. ASSUME NEW j \in Items, r[j].state \in Active
        PROVE  rows[j].state \in Active /\ r[j].key = rows[j].key
    BY <1>1, <2>1, <2>3 DEF RequeueAll, Requeue, Cas, Row, Rows, Active
  <2> QED BY <2>2, <2>3 DEF KeepsPlaces
<1>17. CASE \E S \in SUBSET Items : r = CancelAll(rows, S)
  <2>1. PICK S \in SUBSET Items : r = CancelAll(rows, S)
    BY <1>17
  <2>2. r \in Rows
    BY <1>1, <2>1, CancelAllCalm
  <2>3. ASSUME NEW j \in Items, r[j].state \in Active
        PROVE  rows[j].state \in Active /\ r[j].key = rows[j].key
    BY <1>1, <2>1, <2>3 DEF CancelAll, MarkCancelled, Cas, Row, Rows, Active
  <2> QED BY <2>2, <2>3 DEF KeepsPlaces
<1> HIDE DEF Goal
<1> QED
  <2>1. CASE \E i \in Items : rows[i].state = "absent"
                             /\ r = Insert(rows, i, NextOrderingKey(rows, LaneOf[i]))
    BY <1>6, <2>1
  <2>2. CASE \E i \in Items : rows[i].state \in {"failed", "cancelled"}
                             /\ r = RetryItem(rows, i, NextOrderingKey(rows, LaneOf[i]))
    BY <1>7, <2>2
  <2>3. CASE \E i \in Items :
               \/ r = UpdateOrderingKey(rows, i, NextOrderingKey(rows, LaneOf[i]))
               \/ \E before \in Items : r = UpdateOrderingKey(rows, i, ReorderedKey(i, before))
    BY <1>9, <1>19, <2>3
  <2>4. CASE \E i \in Items, p \in Providers : r = MarkRunning(rows, i, p)
    BY <1>13, <2>4
  <2>5. CASE \E i \in Items, p \in Providers :
               rows[i].state = "queued" /\ r = Requeue(MarkRunning(rows, i, p), i)
    BY <1>14, <2>5
  <2>6. CASE \E i \in Items : r \in {MarkCompleted(rows, i), MarkFailed(rows, i), Requeue(rows, i)}
    BY <1>15, <2>6
  <2> QED BY <1>5, <1>11, <1>12, <1>16, <1>17, <2>1, <2>2, <2>3, <2>4, <2>5, <2>6 DEF Written

\* A step gives no two jobs of a lane the same place.
LEMMA OrderStep == TypeOK /\ OrderIsTotal /\ Next => OrderIsTotal'
<1> SUFFICES ASSUME TypeOK, OrderIsTotal, Next
             PROVE  OrderIsTotal'
  OBVIOUS
<1>1. PICK r : Written(r) /\ Saved(r)
  BY StepWrites
<1>2. \A i, j \in Items : i # j /\ LaneOf[i] = LaneOf[j] /\ r[i].state \in Active
                          /\ r[j].state \in Active => r[i].key # r[j].key
  BY <1>1, WrittenPlaces DEF OrderIsTotal, KeepsPlaces, OwnPlace
<1>3. \A i \in Items : rows'[i].state \in Active => rows'[i] = r[i]
  BY <1>1 DEF Saved, Delete, NoRow, Active
<1> QED BY <1>2, <1>3 DEF OrderIsTotal

\* The keys of the jobs that wait or run in a lane order them: no enqueue, retry
\* or reorder ever gives two of them the same place.
THEOREM KeysOrderTheLane == Spec => []OrderIsTotal
<1>1. Init => OrderIsTotal
  BY DEF Init, OrderIsTotal, NoRow, Active
<1>2. TypeOK /\ OrderIsTotal /\ [Next]_vars => OrderIsTotal'
  <2>1. OrderIsTotal /\ UNCHANGED vars => OrderIsTotal'
    BY DEF OrderIsTotal, vars, storeVars
  <2> QED BY <2>1, OrderStep
<1> QED BY <1>1, <1>2, TypeCorrect, PTL DEF Spec

\* A reordered job goes right before the one named or behind everything else,
\* however crowded the keys are.
THEOREM ReorderGoesWhereItSays == Spec => ReorderPlaces
<1>1. ASSUME TypeOK, NEW i \in Items, NEW before \in Items,
             rows[before].state \in Active, rows'[i].key # rows[i].key, Reorder(i, before)
      PROVE  Placed(i, before)
  <2>1. rows[before].state \notin {"absent", "pruned"}
    BY <1>1 DEF Active
  <2>2. rows' = UpdateOrderingKey(rows, i, ReorderedKey(i, before))
    BY <1>1, <2>1 DEF Reorder
  <2>3. rows'[i].key = ReorderedKey(i, before)
    BY <1>1, <2>2 DEF UpdateOrderingKey, TypeOK, Row
  <2>4. \A j \in Items : LaneOf[j] = LaneOf[i] /\ rows[j].state \in Active
                         => j \in Stored(rows, LaneOf[i])
    BY DEF Stored, Active
  <2> QED BY <1>1, <2>3, <2>4, ReorderedPlace DEF Placed
<1>2. TypeOK => [\A i, before \in Items :
                   /\ LaneOf[before] = LaneOf[i] /\ rows[before].state \in Active
                   /\ rows'[i].key # rows[i].key
                   /\ Reorder(i, before)
                   => Placed(i, before)]_vars
  BY <1>1
<1> QED BY <1>2, TypeCorrect, PTL DEF ReorderPlaces
-------------------------------------------------------------------------------
(* The waiters. *)

\* Resuming the waiters of some items changes those that are parked on them.
LEMMA ResumedWaiters ==
  ASSUME NEW S, NEW result, NEW w \in Waiters, Resumed(S, result)[w] # waiter[w], TypeOK
  PROVE  /\ waiter[w].pc = "parked" /\ waiter[w].item \in S
         /\ Resumed(S, result)[w].item = waiter[w].item
         /\ Resumed(S, result)[w].result = result
<1>1. waiter[w].pc = "parked" /\ waiter[w].item \in S
  BY DEF Resumed
<1>2. waiter[w] \in Wait
  BY <1>1 DEF TypeOK, IdleWaiter
<1> QED BY <1>1, <1>2 DEF Resumed, Wait

Truthful(w) ==
  waiter'[w] # waiter[w] /\ waiter'[w].pc = "done" /\ waiter'[w].result = "success"
    => rows'[waiter'[w].item].state \in {"completed", "pruned"}

\* A step tells a waiter of a success only if the store has it.
LEMMA TruthStep ==
  ASSUME TypeOK, Next, NEW w \in Waiters
  PROVE  Truthful(w)
<1>1. ASSUME waiter' = waiter PROVE Truthful(w)
  BY <1>1 DEF Truthful
<1>2. ASSUME NEW S, NEW result, waiter' = Resumed(S, result), result # "success"
      PROVE  Truthful(w)
  BY <1>2, ResumedWaiters DEF Truthful
<1>3. ASSUME NEW v \in Waiters, NEW i \in Items, WaitCall(v, i) PROVE Truthful(w)
  <2>1. rows[i].state # "success"
    BY DEF TypeOK, Row, ItemState, Active, Terminal
  <2>2. w # v => waiter'[w] = waiter[w]
    BY <1>3 DEF WaitCall, TypeOK
  <2>3. w = v => waiter'[w].item = i /\ rows' = rows
                 /\ (waiter'[w].result = "success" => rows[i].state = "completed")
    BY <1>3, <2>1 DEF WaitCall, TypeOK, storeVars
  <2> QED BY <2>2, <2>3 DEF Truthful
<1>4. ASSUME NEW v \in Waiters, WaitRegister(v) PROVE Truthful(w)
  <2> DEFINE i == waiter[v].item
             result == IF rows[i].state = "completed" THEN "success" ELSE rows[i].state
  <2>1. waiter[v] \in Wait /\ waiter[v].pc = "entering"
    BY <1>4 DEF WaitRegister, TypeOK, IdleWaiter
  <2>2. rows' = rows /\ (result = "success" => rows[i].state = "completed")
    BY <1>4, <2>1 DEF WaitRegister, storeVars, TypeOK, Row, ItemState, Active, Terminal, Wait
  <2>3. waiter' = IF rows[i].state \in Terminal
                  THEN [Resumed({i}, result) EXCEPT ![v].pc = "done", ![v].result = result]
                  ELSE [waiter EXCEPT ![v].pc = "parked"]
    BY <1>4 DEF WaitRegister
  <2> HIDE DEF result
  <2>4. Resumed({i}, result)[v] = waiter[v]
    BY <2>1 DEF Resumed
  <2>5. CASE rows[i].state \in Terminal
    <3>1. w = v => waiter'[w].item = i /\ waiter'[w].result = result
      BY <2>1, <2>3, <2>4, <2>5 DEF Resumed, Wait
    <3>2. w # v => waiter'[w] = Resumed({i}, result)[w]
      BY <2>3, <2>5 DEF Resumed
    <3>3. w # v /\ waiter'[w] # waiter[w] => waiter'[w].item = i /\ waiter'[w].result = result
      BY <3>2, ResumedWaiters
    <3> QED BY <2>2, <3>1, <3>3 DEF Truthful
  <2>6. CASE rows[i].state \notin Terminal
    BY <2>1, <2>3, <2>6 DEF Truthful, Wait, TypeOK
  <2> QED BY <2>5, <2>6
<1>5. ASSUME NEW v \in Waiters, WaitDeadline(v) PROVE Truthful(w)
  <2> DEFINE woken == Resumed({waiter[v].item}, "timeout")
  <2>1. waiter' = [woken EXCEPT ![v].expired = TRUE] /\ waiter[v].pc = "parked"
    BY <1>5 DEF WaitDeadline
  <2>2. waiter[v] \in Wait
    BY <2>1 DEF TypeOK, IdleWaiter
  <2>3. woken[v].result = "timeout"
    BY <2>1, <2>2 DEF Resumed, Wait
  <2>4. w = v => waiter'[w].result = "timeout"
    BY <2>1, <2>2, <2>3 DEF Resumed, Wait
  <2>5. w # v => waiter'[w] = woken[w]
    BY <2>1 DEF Resumed
  <2>6. w # v /\ waiter'[w] # waiter[w] => waiter'[w].result = "timeout"
    BY <2>5, ResumedWaiters
  <2> QED BY <2>4, <2>6 DEF Truthful
<1>6. ASSUME NEW c, NEW op, NEW lane, NEW todo, NEW drained, SweepOn(c, op, lane, todo, drained)
      PROVE  Truthful(w)
  BY <1>1, <1>2, <1>6 DEF SweepOn
<1>7. ASSUME NEW l \in Leases, NEW o \in Outcome, Settle(l, o) PROVE Truthful(w)
  <2> DEFINE i == worker[l].item
  <2>1. i \in Items
    BY <1>7, SettleParts DEF SettleKeeps
  <2>2. waiter' = Resumed({i}, Learned(i, o))
    BY <1>7 DEF Settle
  <2>3. CASE Learned(i, o) # "success"
    BY <1>2, <2>2, <2>3
  <2>4. CASE Learned(i, o) = "success"
    <3>1. rows[i].state = "running" /\ o = "success"
      BY <2>4 DEF Learned
    <3>2. DispatchScan(MarkCompleted(rows, i), Reprojected(l, o), runStates, lifecycle, TRUE)
      BY <1>7, <3>1 DEF Settle
    <3>3. Saved(MarkCompleted(rows, i))
      BY <3>2, SavedByScan
    <3>4. MarkCompleted(rows, i)[i].state = "completed"
      BY <2>1, <3>1 DEF MarkCompleted, Cas, TypeOK, Row
    <3>5. rows'[i].state \in {"completed", "pruned"}
      BY <2>1, <3>3, <3>4 DEF Saved, Delete, NoRow
    <3>6. waiter'[w] # waiter[w] => waiter'[w].item = i
      BY <2>2, ResumedWaiters
    <3> QED BY <3>5, <3>6 DEF Truthful
  <2> QED BY <2>3, <2>4
<1>8. CASE Shutdown
  <2>1. waiter'[w] = IF waiter[w].pc = "parked"
                     THEN [waiter[w] EXCEPT !.pc = "done", !.result = "shutDown"]
                     ELSE waiter[w]
    BY <1>8 DEF Shutdown
  <2>2. waiter[w].pc = "parked" => waiter[w] \in Wait
    BY DEF TypeOK, IdleWaiter
  <2> QED BY <2>1, <2>2 DEF Truthful, Wait
<1>9. CASE Crash
  BY <1>9 DEF Crash, Truthful, IdleWaiter
<1> QED
  <2>1. CASE \E i \in Items : Request(i)
    BY <2>1, <1>1, <1>3, <1>6 DEF Request, Enqueue, EnqueueDuplicate, Retry, CancelItem, Reorder
  <2>2. CASE \E i \in Items : LaneRequest(LaneOf[i])
    BY <2>2, <1>1, <1>6 DEF LaneRequest, Pause, Resume, Halt
  <2>3. CASE \E s \in Scans : ScanStep(s)
    <3>1. PICK s \in Scans, i \in Items :
            \/ ScanNoRoute(s, i) \/ ScanStopped(s, i)
            \/ \E p \in Providers :
                 ScanSkip(s, i, p) \/ ScanClaim(s, i, p) \/ ScanClaimUndone(s, i, p)
      BY <2>3 DEF ScanStep
    <3>2. waiter' = waiter
      <4>1. ScanNoRoute(s, i) \/ ScanStopped(s, i) => waiter' = waiter
        BY DEF ScanNoRoute, ScanStopped
      <4>2. ASSUME NEW p \in Providers,
                   ScanSkip(s, i, p) \/ ScanClaim(s, i, p) \/ ScanClaimUndone(s, i, p)
            PROVE  waiter' = waiter
        BY <4>2 DEF ScanSkip, ScanClaim, ScanClaimUndone
      <4> QED BY <3>1, <4>1, <4>2
    <3> QED BY <3>2, <1>1
  <2>4. CASE \E l \in Leases : WorkerStep(l)
    BY <2>4, <1>1, <1>7 DEF WorkerStep, WorkerReturn, SettleStale
  <2>5. CASE \/ \E c \in Clients : CancelAllInFlight(c) \/ SweepDrained(c)
             \/ \E l \in Leases, k \in EmitKinds : EmitBegin(l, k) \/ EmitCommit(l, k)
             \/ \E v \in Waiters : WaitRegister(v) \/ WaitDeadline(v)
    BY <2>5, <1>1, <1>4, <1>5, <1>6 DEF CancelAllInFlight, SweepDrained, EmitBegin, EmitCommit
  <2>6. CASE Start \/ ShutdownDrained \/ ShutdownDeadline \/ ShutdownAgain
    BY <2>6, <1>1 DEF Start, ShutdownDrained, ShutdownDeadline, ShutdownAgain
  <2> QED BY <2>1, <2>2, <2>3, <2>4, <2>5, <2>6, <1>8, <1>9 DEF Next

\* A waiter that learns of a success learns it of a job the store has completed.
THEOREM WaitersLearnTheTruth == Spec => WaiterTruth
<1>1. TypeOK /\ [Next]_vars =>
        [\A w \in Waiters :
           waiter'[w] # waiter[w] /\ waiter'[w].pc = "done" /\ waiter'[w].result = "success"
             => rows'[waiter'[w].item].state \in {"completed", "pruned"}]_vars
  BY TruthStep DEF Truthful
<1> QED BY <1>1, TypeCorrect, PTL DEF Spec, WaiterTruth
-------------------------------------------------------------------------------
(* The promise: every step does to the jobs what JobQueue allows. *)

\* A row that was never inserted holds nothing.
AbsentEmpty == \A i \in Items : rows[i].state = "absent" => rows[i] = NoRow

LEMMA SameCardinality == ASSUME NEW S PROVE Jobs!Cardinality(S) = Cardinality(S)
BY DEF Cardinality, Jobs!Cardinality

\* The finished jobs that the store may delete are those the promise may forget.
LEMMA SamePrunable ==
  ASSUME NEW r
  PROVE  Jobs!Prunable(Mapped(r), HistoryLimit) = Prunable(r, HistoryLimit)
<1> DEFINE left == {i \in Items : Mapped(r)[i].state \in Terminal}
           right == {i \in Items : r[i].state \in Terminal}
           leftOf(lane) == {i \in Items : LaneOf[i] = lane /\ Mapped(r)[i].state \in Terminal}
           rightOf(lane) == {i \in Items : LaneOf[i] = lane /\ r[i].state \in Terminal}
           Keeps(n, m) == n = IF m > HistoryLimit THEN HistoryLimit ELSE m
<1>1. \A i \in Items : Mapped(r)[i].state = r[i].state
  BY DEF Mapped, JobOf
<1>2. left = right /\ \A lane : leftOf(lane) = rightOf(lane)
  BY <1>1
<1>3. Jobs!Prunable(Mapped(r), HistoryLimit)
        = {S \in SUBSET left : \A lane \in Lanes :
             Keeps(Cardinality(leftOf(lane) \ S), Cardinality(leftOf(lane)))}
  BY SameCardinality, Zenon DEF Jobs!Prunable, Jobs!Terminal, Terminal, Jobs!Lanes, Lanes
<1>4. Prunable(r, HistoryLimit)
        = {S \in SUBSET right : \A lane \in Lanes :
             Keeps(Cardinality(rightOf(lane) \ S), Cardinality(rightOf(lane)))}
  BY DEF Prunable
<1> HIDE DEF left, right, leftOf, rightOf, Keeps
<1> QED BY <1>2, <1>3, <1>4, Zenon

\* What the store saves, the jobs settle to.
LEMMA SavedSettles ==
  ASSUME NEW r \in Rows, Saved(r)
  PROVE  Jobs!Settles(Mapped(r))
<1> DEFINE gone == [Jobs!NoJob EXCEPT !.state = "pruned"]
<1>1. CASE rows' = r
  <2>1. Mapped(rows)' = [i \in Items |-> IF i \in {} THEN gone ELSE Mapped(r)[i]]
    BY <1>1 DEF Mapped
  <2> DEFINE none == {}
  <2>2. none \in Jobs!Prunable(Mapped(r), HistoryLimit) \cup {{}}
    OBVIOUS
  <2> HIDE DEF none, gone
  <2>3. Mapped(rows)' = [i \in Items |-> IF i \in none THEN gone ELSE Mapped(r)[i]]
    BY <2>1 DEF none
  <2> QED BY <2>2, <2>3 DEF Jobs!Settles, gone
<1>2. ASSUME NEW S \in Prunable(r, HistoryLimit), rows' = Delete(r, S)
      PROVE  Jobs!Settles(Mapped(r))
  <2>1. JobOf([NoRow EXCEPT !.state = "pruned"]) = gone
    BY DEF JobOf, NoRow, Jobs!NoJob
  <2>2. \A i \in Items : JobOf(Delete(r, S)[i]) = IF i \in S THEN gone ELSE JobOf(r[i])
    BY <2>1 DEF Delete
  <2> HIDE DEF gone
  <2>3. Mapped(rows)' = [i \in Items |-> IF i \in S THEN gone ELSE Mapped(r)[i]]
    BY <1>2, <2>2 DEF Mapped
  <2>4. S \in Jobs!Prunable(Mapped(r), HistoryLimit)
    BY <1>2, SamePrunable
  <2> QED BY <2>3, <2>4 DEF Jobs!Settles, gone
<1> QED BY <1>1, <1>2 DEF Saved

\* To write one row is to change one job.
LEMMA OneJob ==
  ASSUME NEW r \in Rows, NEW i \in Items, NEW new
  PROVE  Mapped([r EXCEPT ![i] = new]) = [Mapped(r) EXCEPT ![i] = JobOf(new)]
BY DEF Mapped, Rows

\* A claim that the engine's own counts allow respects the limits of the store.
LEMMA ClaimRespectsLimits ==
  ASSUME IInv, lifecycle = "running", NEW i \in Items, NEW p \in Providers, MayClaim(i, p)
  PROVE  /\ LaneOf[i] = "ingestion" =>
              \A j \in Jobs!Claimed("ingestion") : WikiOf[j] # WikiOf[i]
         /\ Cardinality({j \in Jobs!Claimed(LaneOf[i]) : Mapped(rows)[j].provider = p})
              < Limit[LaneOf[i]][p]
<1>1. ASSUME NEW lane
      PROVE  Jobs!Claimed(lane) = {j \in Items : LaneOf[j] = lane /\ rows[j].state = "running"}
  BY DEF Jobs!Claimed, Mapped, JobOf
<1>2. ASSUME LaneOf[i] = "ingestion", NEW j \in Jobs!Claimed("ingestion")
      PROVE  WikiOf[j] # WikiOf[i]
  BY <1>1, <1>2 DEF MayClaim, IInv, SlotsAccounted, WikisAccounted, Running
<1>3. Cardinality({j \in Jobs!Claimed(LaneOf[i]) : Mapped(rows)[j].provider = p})
        < Limit[LaneOf[i]][p]
  <2> DEFINE T == {j \in Jobs!Claimed(LaneOf[i]) : Mapped(rows)[j].provider = p}
  <2>1. T \in SUBSET Holding(p) /\ Holding(p) \in SUBSET Items
    BY <1>1 DEF Holding, Mapped, JobOf
  <2>2. Cardinality(T) <= Cardinality(Holding(p)) /\ Cardinality(Holding(p)) \in Nat
    BY <2>1, ItemSets
  <2>3. Cardinality(T) \in Nat
    BY <2>1, ItemSets
  <2>4. Cardinality(Holding(p)) <= providerActiveCounts[p] /\ providerActiveCounts[p] \in Nat
    BY DEF IInv, SlotsAccounted, CountsCover, TypeOK
  <2>5. providerActiveCounts[p] < Limit[LaneOf[i]][p] /\ Limit[LaneOf[i]][p] \in Nat
    BY EngineAssumption, StoreAssumption DEF MayClaim
  <2> HIDE DEF T
  <2>6. Cardinality(T) < Limit[LaneOf[i]][p]
    BY <2>2, <2>3, <2>4, <2>5
  <2> QED BY <2>6 DEF T
<1> QED BY <1>2, <1>3

\* Each operation of the store is a step of the promise, under the condition the
\* engine calls it in.
LEMMA WrittenIsPromised ==
  ASSUME IInv, AbsentEmpty, NEW r, Written(r), Saved(r)
  PROVE  Jobs!JobNext
<1> USE DEF Jobs!Active, Active
<1>1. r \in Rows /\ rows \in Rows
  BY WrittenPlaces DEF IInv, TypeOK, Rows
<1>2. Jobs!Settles(Mapped(r))
  BY <1>1, SavedSettles
<1>16. \A i \in Items : rows[i] \in Row /\ Mapped(rows)[i] = JobOf(rows[i])
  BY <1>1 DEF Rows, Mapped
<1>3. \A i \in Items : /\ rows[i] \in Row /\ Mapped(rows)[i] = JobOf(rows[i])
                       /\ Mapped(rows)[i].state = rows[i].state
                       /\ Mapped(rows)[i].provider = rows[i].provider
                       /\ Mapped(rows)[i].attempt = rows[i].attempt
  BY <1>16 DEF JobOf
<1>17. Mapped(rows) = [i \in Items |-> Mapped(rows)[i]]
  BY DEF Mapped
<1>4. ASSUME Mapped(r) = Mapped(rows) PROVE Jobs!JobNext
  <2> DEFINE none == {}
  <2>1. none \in SUBSET Items /\ \A i \in none : FALSE
    OBVIOUS
  <2> HIDE DEF none
  <2>2. Mapped(rows) = [i \in Items |->
          IF i \in none
          THEN [state |-> "queued", provider |-> NoProvider, attempt |-> Mapped(rows)[i].attempt]
          ELSE Mapped(rows)[i]]
    BY <2>1 DEF Mapped
  <2>3. Jobs!GiveBack(none)
    BY <1>2, <1>4, <2>1, <2>2 DEF Jobs!GiveBack
  <2> QED BY <2>1, <2>3 DEF Jobs!JobNext
<1>5. ASSUME NEW i \in Items, NEW new, r = [rows EXCEPT ![i] = new]
      PROVE  Jobs!Settles([Mapped(rows) EXCEPT ![i] = JobOf(new)])
  BY <1>1, <1>2, <1>5, OneJob
<1>6. ASSUME NEW i \in Items, rows[i].state = "absent",
             r = Insert(rows, i, NextOrderingKey(rows, LaneOf[i]))
      PROVE  Jobs!JobNext
  <2> DEFINE k == NextOrderingKey(rows, LaneOf[i])
             new == [NoRow EXCEPT !.state = "queued", !.key = k]
  <2>1. Jobs!Settles([Mapped(rows) EXCEPT ![i] = JobOf(new)])
    BY <1>5, <1>6 DEF Insert
  <2>2. JobOf(new) = [JobOf(rows[i]) EXCEPT !.state = "queued"]
    BY <1>6 DEF AbsentEmpty, NoRow, JobOf
  <2> HIDE DEF new
  <2>3. [Mapped(rows) EXCEPT ![i].state = "queued"] = [Mapped(rows) EXCEPT ![i] = JobOf(new)]
    BY <1>3, <1>17, <2>2
  <2>4. Mapped(rows)[i].state = "absent"
    BY <1>3, <1>6 DEF JobOf
  <2> HIDE DEF k
  <2>5. Jobs!Submit(i)
    BY <2>1, <2>3, <2>4 DEF Jobs!Submit, Jobs!Moved
  <2> QED BY <2>5 DEF Jobs!JobNext
<1>7. ASSUME NEW i \in Items, rows[i].state \in {"failed", "cancelled"},
             r = RetryItem(rows, i, NextOrderingKey(rows, LaneOf[i]))
      PROVE  Jobs!JobNext
  <2> DEFINE new == NextAttempt(rows[i], NextOrderingKey(rows, LaneOf[i]))
  <2>1. Jobs!Settles([Mapped(rows) EXCEPT ![i] = JobOf(new)])
    BY <1>5, <1>7 DEF RetryItem, Cas
  <2>5. new.state = "queued" /\ new.provider = rows[i].provider /\ new.attempt = rows[i].attempt + 1
    BY DEF NextAttempt
  <2> HIDE DEF new
  <2>2. JobOf(new) = [state |-> "queued", provider |-> Mapped(rows)[i].provider,
                      attempt |-> Mapped(rows)[i].attempt + 1]
    BY <1>3, <2>5 DEF JobOf
  <2> HIDE DEF new
  <2>3. Mapped(rows)[i].state \in {"failed", "cancelled"}
    BY <1>3, <1>7 DEF JobOf
  <2>4. Jobs!Again(i)
    BY <2>1, <2>2, <2>3 DEF Jobs!Again
  <2> QED BY <2>4 DEF Jobs!JobNext
<1>8. ASSUME NEW i \in Items, NEW k, r = UpdateOrderingKey(rows, i, k)
      PROVE  Jobs!JobNext
  BY <1>1, <1>4, <1>8 DEF UpdateOrderingKey, Mapped, JobOf, Rows, Row
<1>9. CASE \E i \in Items : r = RecordAdmissionWait(rows, i)
  BY <1>1, <1>4, <1>9 DEF RecordAdmissionWait, Cas, Mapped, JobOf, Rows, Row
<1>10. CASE \E lane \in Lanes : r = ClearAdmissionWait(rows, lane)
  BY <1>1, <1>4, <1>10 DEF ClearAdmissionWait, Mapped, JobOf, Rows, Row
<1>11. ASSUME NEW i \in Items, NEW p \in Providers, lifecycle = "running", MayClaim(i, p),
              r = MarkRunning(rows, i, p)
       PROVE  Jobs!JobNext
  <2> DEFINE new == [rows[i] EXCEPT !.state = "running", !.provider = p]
  <2>1. Jobs!Settles([Mapped(rows) EXCEPT ![i] = JobOf(new)])
    BY <1>5, <1>11 DEF MarkRunning, Cas, MayClaim
  <2>5. new.state = "running" /\ new.provider = p /\ new.attempt = rows[i].attempt
    BY <1>3 DEF Row
  <2> HIDE DEF new
  <2>2. JobOf(new) = [state |-> "running", provider |-> p, attempt |-> Mapped(rows)[i].attempt]
    BY <1>3, <2>5 DEF JobOf
  <2>3. Mapped(rows)[i].state = "queued"
    BY <1>3, <1>11 DEF JobOf, MayClaim
  <2>4. Jobs!Claim(i, p)
    BY <1>11, <2>1, <2>2, <2>3, ClaimRespectsLimits, SameCardinality DEF Jobs!Claim
  <2> QED BY <2>4 DEF Jobs!JobNext
<1>12. ASSUME NEW i \in Items, NEW p \in Providers, rows[i].state = "queued",
              r = Requeue(MarkRunning(rows, i, p), i)
       PROVE  Jobs!JobNext
  <2> DEFINE claimed == [rows[i] EXCEPT !.state = "running", !.provider = p]
             new == [claimed EXCEPT !.state = "queued", !.provider = NoProvider]
  <2>1. MarkRunning(rows, i, p) = [rows EXCEPT ![i] = claimed] /\ claimed.state = "running"
    BY <1>3, <1>12 DEF MarkRunning, Cas, Row
  <2> HIDE DEF claimed
  <2>2. r = [rows EXCEPT ![i] = new]
    BY <1>1, <1>12, <2>1 DEF Requeue, Cas, Rows
  <2>3. JobOf(new) = [JobOf(rows[i]) EXCEPT !.provider = NoProvider]
    BY <1>3, <1>12 DEF JobOf, Row, claimed
  <2> HIDE DEF new
  <2>4. Jobs!Settles([Mapped(rows) EXCEPT ![i] = JobOf(new)])
    BY <1>5, <2>2
  <2>5. Jobs!Unclaim(i)
    BY <1>3, <1>12, <2>3, <2>4 DEF Jobs!Unclaim, JobOf
  <2> QED BY <2>5 DEF Jobs!JobNext
<1>13. ASSUME NEW i \in Items, NEW end \in {"completed", "failed"},
              r = Cas(rows, i, {"running"}, [rows[i] EXCEPT !.state = end])
       PROVE  Jobs!JobNext
  <2>1. CASE rows[i].state # "running"
    BY <1>4, <1>13, <2>1 DEF Cas
  <2>2. CASE rows[i].state = "running"
    <3> DEFINE new == [rows[i] EXCEPT !.state = end]
    <3>1. Jobs!Settles([Mapped(rows) EXCEPT ![i] = JobOf(new)])
      BY <1>5, <1>13, <2>2 DEF Cas
    <3>2. JobOf(new) = [JobOf(rows[i]) EXCEPT !.state = end]
      BY <1>3 DEF JobOf, Row
    <3> HIDE DEF new
    <3>3. [Mapped(rows) EXCEPT ![i].state = end] = [Mapped(rows) EXCEPT ![i] = JobOf(new)]
      BY <1>3, <1>17, <3>2
    <3>4. Mapped(rows)[i].state = "running"
      BY <1>3, <2>2 DEF JobOf
    <3>5. Jobs!Finish(i)
      BY <3>1, <3>3, <3>4 DEF Jobs!Finish, Jobs!Moved
    <3> QED BY <3>5 DEF Jobs!JobNext
  <2> QED BY <2>1, <2>2
<1>14. ASSUME NEW S \in SUBSET Items, r = RequeueAll(rows, S)
       PROVE  Jobs!JobNext
  <2> DEFINE T == {i \in S : rows[i].state = "running"}
             new == [i \in Items |->
                       IF i \in T
                       THEN [state |-> "queued", provider |-> NoProvider,
                             attempt |-> Mapped(rows)[i].attempt]
                       ELSE Mapped(rows)[i]]
  <2>1. ASSUME NEW i \in Items
        PROVE  r[i] = IF i \in T THEN [rows[i] EXCEPT !.state = "queued", !.provider = NoProvider]
                      ELSE rows[i]
    BY <1>1, <1>14 DEF RequeueAll, Requeue, Cas, Rows
  <2> HIDE DEF T
  <2>2. ASSUME NEW i \in T, i \in Items PROVE JobOf(r[i]) = [state |-> "queued", provider |-> NoProvider,
                       attempt |-> Mapped(rows)[i].attempt]
    <3>2. r[i] = [rows[i] EXCEPT !.state = "queued", !.provider = NoProvider]
      BY <2>1, <2>2
    <3>3. rows[i] \in Row
      BY <1>3, <2>2
    <3>1. /\ r[i].state = "queued" /\ r[i].provider = NoProvider
          /\ r[i].attempt = rows[i].attempt
      BY <3>2, <3>3 DEF Row
    <3> QED BY <1>3, <2>2, <3>1 DEF JobOf
  <2>8. ASSUME NEW i \in Items, i \notin T PROVE JobOf(r[i]) = Mapped(rows)[i]
    BY <1>3, <2>1, <2>8
  <2>6. ASSUME NEW i \in Items PROVE JobOf(r[i]) = new[i]
    BY <2>2, <2>8
  <2>3. Mapped(r) = new
    BY <2>6 DEF Mapped
  <2>4. \A i \in T : i \in Items /\ Mapped(rows)[i].state = "running"
    BY <1>3 DEF T
  <2>7. T \in SUBSET Items
    BY DEF T
  <2>5. Jobs!GiveBack(T)
    BY <1>2, <2>3, <2>4 DEF Jobs!GiveBack
  <2> QED BY <2>5, <2>7 DEF Jobs!JobNext
<1>15. ASSUME NEW S \in SUBSET Items, r = CancelAll(rows, S)
       PROVE  Jobs!JobNext
  <2> DEFINE T == {i \in S : rows[i].state \in Active}
             new == [i \in Items |->
                       IF i \in T THEN [Mapped(rows)[i] EXCEPT !.state = "cancelled"]
                       ELSE Mapped(rows)[i]]
  <2>1. ASSUME NEW i \in Items
        PROVE  r[i] = IF i \in T THEN [rows[i] EXCEPT !.state = "cancelled"] ELSE rows[i]
    BY <1>1, <1>15 DEF CancelAll, MarkCancelled, Cas, Rows
  <2> HIDE DEF T
  <2>2. ASSUME NEW i \in T, i \in Items PROVE JobOf(r[i]) = [Mapped(rows)[i] EXCEPT !.state = "cancelled"]
    <3>1. r[i] = [rows[i] EXCEPT !.state = "cancelled"]
      BY <2>1, <2>2
    <3>2. rows[i] \in Row /\ Mapped(rows)[i] = JobOf(rows[i])
      BY <1>3, <2>2
    <3>3. JobOf(r[i]) = [JobOf(rows[i]) EXCEPT !.state = "cancelled"]
      BY <3>1, <3>2 DEF JobOf, Row
    <3> QED BY <3>2, <3>3
  <2>8. ASSUME NEW i \in Items, i \notin T PROVE JobOf(r[i]) = Mapped(rows)[i]
    BY <1>3, <2>1, <2>8
  <2>6. ASSUME NEW i \in Items PROVE JobOf(r[i]) = new[i]
    BY <2>2, <2>8
  <2>3. Mapped(r) = new
    BY <2>6 DEF Mapped
  <2>4. \A i \in T : i \in Items /\ Mapped(rows)[i].state \in Active
    BY <1>3 DEF T
  <2>7. T \in SUBSET Items
    BY DEF T
  <2>5. Jobs!CancelJobs(T)
    BY <1>2, <2>3, <2>4 DEF Jobs!CancelJobs
  <2> QED BY <2>5, <2>7 DEF Jobs!JobNext
<1> QED
  <2>1. ASSUME NEW i \in Items, r = Requeue(rows, i) PROVE Jobs!JobNext
    <3>1. r = RequeueAll(rows, {i})
      BY <1>1, <2>1 DEF RequeueAll, Requeue, Cas, Rows
    <3> QED BY <1>14, <3>1
  <2>2. ASSUME NEW i \in Items, r \in {MarkCompleted(rows, i), MarkFailed(rows, i)}
        PROVE  Jobs!JobNext
    BY <1>13, <2>2 DEF MarkCompleted, MarkFailed
  <2> QED BY <1>4, <1>6, <1>7, <1>8, <1>9, <1>10, <1>11, <1>12, <1>14, <1>15, <2>1, <2>2
          DEF Written

\* No operation makes an absent row of a stored one.
LEMMA AbsentStays ==
  ASSUME TypeOK, NEW r, Written(r), Saved(r)
  PROVE  \A i \in Items : rows'[i].state = "absent" => rows'[i] = rows[i]
<1>1. rows \in Rows /\ \A i \in Items : rows[i] \in Row
  BY DEF TypeOK, Rows
<1>2. ASSUME NEW i \in Items PROVE r[i].state = "absent" => r[i] = rows[i]
  <2> DEFINE Goal == r[i].state = "absent" => r[i] = rows[i]
  <2> SUFFICES Goal
    OBVIOUS
  <2>1. ASSUME r[i].state # "absent" \/ r[i] = rows[i] PROVE Goal
    BY <2>1
  <2>2. ASSUME NEW j \in Items, NEW new, new.state # "absent", r = [rows EXCEPT ![j] = new]
        PROVE  Goal
    BY <1>1, <2>1, <2>2 DEF Rows
  <2>3. ASSUME NEW j \in Items, NEW from, NEW new, new.state # "absent", r = Cas(rows, j, from, new)
        PROVE  Goal
    BY <1>1, <2>1, <2>2, <2>3 DEF Cas
  <2> HIDE DEF Goal
  <2>4. ASSUME NEW j \in Items, NEW k, r = Insert(rows, j, k) PROVE Goal
    BY <2>2, <2>4 DEF Insert, NoRow
  <2>5. ASSUME NEW j \in Items, NEW k, r = RetryItem(rows, j, k) PROVE Goal
    BY <2>3, <2>5 DEF RetryItem, NextAttempt
  <2>6. ASSUME NEW j \in Items, NEW k, rows[j].state = "queued", r = UpdateOrderingKey(rows, j, k)
        PROVE  Goal
    BY <1>1, <2>2, <2>6 DEF UpdateOrderingKey, Row
  <2>7. ASSUME NEW j \in Items, r = RecordAdmissionWait(rows, j) PROVE Goal
    BY <1>1, <2>1, <2>7 DEF RecordAdmissionWait, Cas, Rows, Row
  <2>8. ASSUME NEW lane, r = ClearAdmissionWait(rows, lane) PROVE Goal
    BY <1>1, <2>1, <2>8 DEF ClearAdmissionWait, Rows, Row
  <2>9. ASSUME NEW j \in Items, NEW p \in Providers, r = MarkRunning(rows, j, p) PROVE Goal
    BY <1>1, <2>1, <2>9 DEF MarkRunning, Cas, Rows, Row
  <2>10. ASSUME NEW j \in Items, NEW p \in Providers, rows[j].state = "queued",
                r = Requeue(MarkRunning(rows, j, p), j)
         PROVE  Goal
    <3> DEFINE m == MarkRunning(rows, j, p)
    <3>1. m \in Rows /\ m[j].state = "running" /\ \A x \in Items \ {j} : m[x] = rows[x]
      BY <1>1, <2>10, MarkRunningStarts
    <3> HIDE DEF m
    <3>2. r = [m EXCEPT ![j] = [m[j] EXCEPT !.state = "queued", !.provider = NoProvider]]
      BY <2>10, <3>1 DEF Requeue, Cas, m
    <3>3. i = j => r[i].state = "queued"
      BY <3>1, <3>2 DEF Rows, Row
    <3>4. i # j => r[i] = rows[i]
      BY <3>1, <3>2 DEF Rows
    <3> QED BY <2>1, <3>3, <3>4
  <2>11. ASSUME NEW j \in Items, NEW end \in {"completed", "failed"},
                r = Cas(rows, j, {"running"}, [rows[j] EXCEPT !.state = end])
         PROVE  Goal
    BY <1>1, <2>1, <2>11 DEF Cas, Rows, Row
  <2>12. ASSUME NEW j \in Items, r = Requeue(rows, j) PROVE Goal
    BY <1>1, <2>1, <2>12 DEF Requeue, Cas, Rows, Row
  <2>13. ASSUME NEW S \in SUBSET Items, r = RequeueAll(rows, S) PROVE Goal
    <3>1. Requeue(rows, i)[i].state = "queued" \/ Requeue(rows, i)[i] = rows[i]
      BY <1>1 DEF Requeue, Cas, Rows, Row
    <3> QED BY <2>1, <2>13, <3>1 DEF RequeueAll
  <2>14. ASSUME NEW S \in SUBSET Items, r = CancelAll(rows, S) PROVE Goal
    <3>1. MarkCancelled(rows, i)[i].state = "cancelled" \/ MarkCancelled(rows, i)[i] = rows[i]
      BY <1>1 DEF MarkCancelled, Cas, Rows, Row
    <3> QED BY <2>1, <2>14, <3>1 DEF CancelAll
  <2>15. ASSUME NEW j \in Items, r \in {MarkCompleted(rows, j), MarkFailed(rows, j)} PROVE Goal
    BY <2>11, <2>15 DEF MarkCompleted, MarkFailed
  <2> QED BY <2>1, <2>4, <2>5, <2>6, <2>7, <2>8, <2>9, <2>10, <2>12, <2>13, <2>14, <2>15
          DEF Written
<1> QED BY <1>2 DEF Saved, Delete, NoRow


\* The engine implements JobQueue.
THEOREM QueueKeepsItsPromise == Spec => ImplementsJobQueue
<1>1. Init => AbsentEmpty
  BY DEF Init, AbsentEmpty
<1>2. TypeOK /\ AbsentEmpty /\ [Next]_vars => AbsentEmpty'
  <2>1. TypeOK /\ AbsentEmpty /\ Next => AbsentEmpty'
    BY StepWrites, AbsentStays DEF AbsentEmpty
  <2>2. AbsentEmpty /\ UNCHANGED vars => AbsentEmpty'
    BY DEF AbsentEmpty, vars, storeVars
  <2> QED BY <2>1, <2>2
<1>3. Init => Jobs!JobInit
  BY DEF Init, Jobs!JobInit, Jobs!NoJob, NoRow, Mapped, JobOf
<1>4. IInv /\ AbsentEmpty /\ [Next]_vars => [Jobs!JobNext]_(Mapped(rows))
  <2>1. IInv => TypeOK
    BY DEF IInv
  <2>2. IInv /\ AbsentEmpty /\ Next => Jobs!JobNext
    BY <2>1, StepWrites, WrittenIsPromised
  <2>3. UNCHANGED vars => UNCHANGED Mapped(rows)
    BY DEF vars, storeVars, Mapped
  <2> QED BY <2>2, <2>3
<1> QED BY <1>1, <1>2, <1>3, <1>4, TypeCorrect, Invariance, PTL DEF Spec, ImplementsJobQueue, Jobs!JobSpec
-------------------------------------------------------------------------------
(* No waiter is left behind, while no cancel waits for a worker's output. *)

\* A job that is still to be done, or that nobody can ask for any more.
Open(row) == row.state \in Active \cup {"pruned"}

\* Who waits, waits for a job that was submitted.
WaitersHaveJobs ==
  \A w \in Waiters :
    waiter[w].pc \in {"entering", "parked"} => rows[waiter[w].item].state # "absent"

LEMMA OpenSaved ==
  ASSUME NEW r, Saved(r), NEW i \in Items, Open(r[i])
  PROVE  Open(rows'[i])
BY DEF Saved, Delete, NoRow, Open

\* The operations of the store that end no job.
LEMMA OpenWritten ==
  ASSUME NEW r \in Rows, NEW j \in Items, NEW i \in Items, Open(r[i])
  PROVE  /\ \A k : /\ r[j].state = "absent" => Open(Insert(r, j, k)[i])
                   /\ Open(RetryItem(r, j, k)[i]) /\ Open(UpdateOrderingKey(r, j, k)[i])
         /\ Open(RecordAdmissionWait(r, j)[i])
         /\ \A lane : Open(ClearAdmissionWait(r, lane)[i])
         /\ \A p \in Providers : Open(MarkRunning(r, j, p)[i])
         /\ Open(Requeue(r, j)[i])
         /\ \A S : Open(RequeueAll(r, S)[i])
<1>1. r[i] \in Row /\ r[j] \in Row
  BY DEF Rows
<1>2. ASSUME NEW new, new.state = "queued" PROVE Open([r EXCEPT ![j] = new][i])
  BY <1>2 DEF Open, Active, Rows
<1>3. ASSUME NEW k, r[j].state = "absent" PROVE Open(Insert(r, j, k)[i])
  BY <1>2 DEF Insert, NoRow
<1>4. ASSUME NEW k PROVE Open(RetryItem(r, j, k)[i])
  BY <1>2 DEF RetryItem, NextAttempt, Cas
<1>5. ASSUME NEW k PROVE Open(UpdateOrderingKey(r, j, k)[i])
  BY <1>1 DEF UpdateOrderingKey, Open, Rows, Row
<1>6. Open(RecordAdmissionWait(r, j)[i])
  BY <1>1 DEF RecordAdmissionWait, Cas, Open, Rows, Row
<1>7. ASSUME NEW lane PROVE Open(ClearAdmissionWait(r, lane)[i])
  BY <1>1 DEF ClearAdmissionWait, Open, Row
<1>8. ASSUME NEW p \in Providers PROVE Open(MarkRunning(r, j, p)[i])
  BY <1>1 DEF MarkRunning, Cas, Open, Active, Rows, Row
<1>9. \A x \in Items : Open(Requeue(r, x)[i])
  BY <1>1 DEF Requeue, Cas, Open, Active, Rows, Row
<1>10. ASSUME NEW S PROVE Open(RequeueAll(r, S)[i])
  BY <1>9 DEF RequeueAll
<1> QED BY <1>3, <1>4, <1>5, <1>6, <1>7, <1>8, <1>9, <1>10

\* Parked before the step, on the same item.
StaysParked(w) == waiter[w].pc = "parked" /\ waiter'[w].item = waiter[w].item

\* Who is resumed is no longer parked, and who is not is as he was.
LEMMA ResumedParked ==
  ASSUME TypeOK, NEW S, NEW result, waiter' = Resumed(S, result), NEW w \in Waiters,
         waiter'[w].pc = "parked"
  PROVE  StaysParked(w) /\ waiter'[w].item \notin S
<1>1. waiter'[w] = IF waiter[w].pc = "parked" /\ waiter[w].item \in S
                   THEN [waiter[w] EXCEPT !.pc = "done", !.result = result] ELSE waiter[w]
  BY DEF Resumed
<1>2. waiter[w].pc = "parked" => waiter[w] \in Wait
  BY DEF TypeOK, IdleWaiter
<1> QED BY <1>1, <1>2 DEF StaysParked, Wait

\* A call that requeues, or did not wait for the output of this very job, ends no
\* job someone still waits for unless its dispatch will settle.
LEMMA SweepStrandsNone ==
  ASSUME TypeOK, NEW c, NEW op, NEW lane, NEW todo, NEW drained \in SUBSET Items,
         SweepOn(c, op, lane, todo, drained),
         NEW w \in Waiters, waiter'[w].pc = "parked",
         NEW i, i = waiter'[w].item, op = "halt" \/ waiter[w].item \notin drained
  PROVE  /\ StaysParked(w)
         /\ i \in Items /\ Open(rows[i]) => Open(rows'[i]) \/ runningTasks[i] # NoLease
<1> DEFINE onward == op = "cancelAll" /\ lane = "extraction" /\ Left(todo, Prompt(todo)) = NoItems
           next == IF onward THEN ByKey(rows, "ingestion", "running") ELSE todo
           swept == Prompt(todo) \cup Prompt(next)
           gone == {j \in drained \cup swept :
                      rows[j].state \in (IF op = "halt" THEN {"running"} ELSE Active)}
<1>1. /\ rows' = IF op = "halt" THEN RequeueAll(rows, gone) ELSE CancelAll(rows, gone)
      /\ waiter' = IF op = "halt" THEN waiter
                   ELSE Resumed({j \in gone \ drained : runningTasks[j] = NoLease}, "cancelled")
  BY DEF SweepOn
<1> HIDE DEF gone
<1>2. rows \in Rows
  BY DEF TypeOK, Rows
<1>3. CASE op = "halt"
  BY <1>1, <1>2, <1>3, OpenWritten DEF StaysParked
<1>4. CASE op # "halt"
  <2>1. waiter' = Resumed({j \in gone \ drained : runningTasks[j] = NoLease}, "cancelled")
    BY <1>1, <1>4
  <2>2. StaysParked(w) /\ i \notin {j \in gone \ drained : runningTasks[j] = NoLease}
    BY <2>1, ResumedParked
  <2>3. i \in Items /\ i \notin gone => rows'[i] = rows[i]
    BY <1>1, <1>4 DEF CancelAll
  <2>4. i \notin drained
    BY <1>4, <2>2 DEF StaysParked
  <2> QED BY <2>2, <2>3, <2>4
<1> QED BY <1>3, <1>4

\* Nobody is left behind by a step that is not the one of a stale cancel.
LEMMA StrandStep ==
  ASSUME TypeOK, WaitersHaveJobs, Next, NEW w \in Waiters, ~Stranded(w),
         \A c \in Clients : ~StaleCancel(c, waiter[w].item)
  PROVE  ~Stranded(w)'
<1> SUFFICES ASSUME waiter'[w].pc = "parked"
             PROVE  \/ Open(rows'[waiter'[w].item])
                    \/ runningTasks'[waiter'[w].item] # NoLease
  BY DEF Stranded, Open
<1> DEFINE i == waiter'[w].item
           Fine == Open(rows'[i]) \/ runningTasks'[i] # NoLease
<1> USE DEF storeVars
<1>1. rows \in Rows
  BY DEF TypeOK, Rows
<1>2. StaysParked(w) => i \in Items /\ (Open(rows[i]) \/ runningTasks[i] # NoLease)
  BY DEF StaysParked, Stranded, Open, TypeOK, IdleWaiter, Wait
<1>3. waiter' = waiter => StaysParked(w)
  BY DEF StaysParked
<1> HIDE DEF i
<1> SUFFICES Fine
  BY DEF i
<1>4. ASSUME StaysParked(w), runningTasks' = runningTasks, Open(rows[i]) => Open(rows'[i])
      PROVE  Fine
  BY <1>2, <1>4
<1>5. ASSUME StaysParked(w), UNCHANGED <<rows, runningTasks>> PROVE Fine
  BY <1>4, <1>5
<1>6. ASSUME waiter' = waiter, runningTasks' = runningTasks, NEW r, Saved(r),
             i \in Items /\ Open(rows[i]) => Open(r[i])
      PROVE  Fine
  BY <1>2, <1>3, <1>4, <1>6, OpenSaved
<1>7. ASSUME NEW j \in Items, Enqueue(j) PROVE Fine
  <2> DEFINE k == NextOrderingKey(rows, LaneOf[j])
  <2>1. Saved(Insert(rows, j, k)) /\ rows[j].state = "absent"
    BY <1>7, SavedByScan DEF Enqueue
  <2> HIDE DEF k
  <2> QED BY <1>1, <1>6, <1>7, <2>1, OpenWritten DEF Enqueue
<1>8. ASSUME NEW j \in Items, EnqueueDuplicate(j) PROVE Fine
  BY <1>6, <1>8, SavedByScan DEF EnqueueDuplicate
<1>9. ASSUME NEW j \in Items, Retry(j) PROVE Fine
  <2> DEFINE k == NextOrderingKey(rows, LaneOf[j])
  <2>1. Saved(RetryItem(rows, j, k))
    BY <1>9, SavedByScan DEF Retry
  <2> HIDE DEF k
  <2> QED BY <1>1, <1>6, <1>9, <2>1, OpenWritten DEF Retry
<1>10. ASSUME NEW j \in Items, NEW before, Reorder(j, before) PROVE Fine
  <2>1. PICK k : rows' = UpdateOrderingKey(rows, j, k)
    BY <1>10 DEF Reorder
  <2> QED BY <1>1, <1>6, <1>10, <2>1, OpenWritten DEF Reorder, Saved
<1>11. ASSUME NEW lane, Resume(lane) PROVE Fine
  <2>1. Saved(ClearAdmissionWait(rows, lane))
    BY <1>11, SavedByScan DEF Resume
  <2> QED BY <1>1, <1>6, <1>11, <2>1, OpenWritten DEF Resume
<1>12. ASSUME NEW c \in Clients, NEW op, NEW lane, NEW todo, NEW drained \in SUBSET Items,
              SweepOn(c, op, lane, todo, drained),
              op = "halt" \/ waiter[w].item \notin drained, runningTasks' = runningTasks
       PROVE  Fine
  <2>1. StaysParked(w) /\ (i \in Items /\ Open(rows[i]) => Open(rows'[i]) \/ runningTasks[i] # NoLease)
    BY <1>12, SweepStrandsNone DEF i
  <2> QED BY <1>2, <1>12, <2>1
<1>13. ASSUME NEW c \in Clients, SweepDrained(c) PROVE Fine
  <2>1. client[c] \in Sweep
    BY <1>13 DEF SweepDrained, TypeOK
  <2>2. {client[c].item} \in SUBSET Items
        /\ (client[c].op = "halt" \/ waiter[w].item \notin {client[c].item})
    BY <1>13, <2>1 DEF Sweep, StaleCancel
  <2>3. SweepOn(c, client[c].op, client[c].lane, client[c].todo, {client[c].item})
        /\ runningTasks' = runningTasks
    BY <1>13 DEF SweepDrained
  <2> QED BY <1>12, <2>2, <2>3
<1>14. ASSUME NEW c \in Clients, NEW j \in Items, CancelItem(c, j) PROVE Fine
  BY <1>12, <1>14 DEF CancelItem
<1>15. ASSUME NEW c \in Clients, CancelAllInFlight(c) PROVE Fine
  BY <1>12, <1>15 DEF CancelAllInFlight
<1>16. ASSUME NEW c \in Clients, NEW lane, Halt(c, lane) PROVE Fine
  BY <1>12, <1>16 DEF Halt
<1>17. ASSUME NEW s \in Scans, NEW j \in Items, ScanNoRoute(s, j) PROVE Fine
  <2>1. PICK r \in {rows, RecordAdmissionWait(rows, j)} : NextItem(s, j, r, report)
    BY <1>17 DEF ScanNoRoute
  <2>2. Saved(r)
    BY <2>1, SavedByItem
  <2> QED BY <1>1, <1>6, <1>17, <2>1, <2>2, OpenWritten DEF ScanNoRoute
<1>18. ASSUME NEW s \in Scans, NEW j \in Items, ScanStopped(s, j) PROVE Fine
  <2>1. Saved(rows)
    BY <1>18 DEF ScanStopped, Proceed, Save, Saved
  <2> QED BY <1>6, <1>18, <2>1 DEF ScanStopped
<1>19. ASSUME NEW s \in Scans, NEW j \in Items, NEW p \in Providers, ScanSkip(s, j, p)
       PROVE  Fine
  BY <1>6, <1>19, SavedByItem DEF ScanSkip
<1>20. ASSUME NEW s \in Scans, NEW j \in Items, NEW p \in Providers, ScanClaim(s, j, p)
       PROVE  Fine
  <2> DEFINE l == dispatched + 1
  <2>1. Saved(MarkRunning(rows, j, p)) /\ waiter' = waiter
    BY <1>20, SavedByItem DEF ScanClaim
  <2>2. Open(MarkRunning(rows, j, p)[i]) => Open(rows'[i]) \/ i \notin Items
    BY <2>1, OpenSaved
  <2>3. runningTasks' = [runningTasks EXCEPT ![j] = l] /\ l # NoLease
    BY <1>20 DEF ScanClaim, NoLease, Leases
  <2>4. runningTasks[i] # NoLease /\ i \in Items => runningTasks'[i] # NoLease
    BY <2>3 DEF TypeOK
  <2> QED BY <1>1, <1>2, <1>3, <2>1, <2>2, <2>4, OpenWritten
<1>21. ASSUME NEW s \in Scans, NEW j \in Items, NEW p \in Providers, ScanClaimUndone(s, j, p)
       PROVE  Fine
  <2> DEFINE m == MarkRunning(rows, j, p)
  <2>1. m \in Rows
    BY <1>1, <1>21, MarkRunningStarts DEF ScanClaimUndone, MayClaim
  <2>2. Saved(Requeue(m, j)) /\ waiter' = waiter /\ runningTasks' = runningTasks
    BY <1>21, SavedByItem DEF ScanClaimUndone
  <2>3. i \in Items /\ Open(rows[i]) => Open(m[i])
    BY <1>1, OpenWritten
  <2> HIDE DEF m
  <2>4. i \in Items /\ Open(rows[i]) => Open(Requeue(m, j)[i])
    BY <2>1, <2>3, OpenWritten
  <2> QED BY <1>6, <2>2, <2>4
<1>22. ASSUME NEW l \in Leases, NEW o \in Outcome, Settle(l, o) PROVE Fine
  <2> DEFINE j == worker[l].item
  <2>1. j \in Items
    BY <1>22, SettleParts DEF SettleKeeps
  <2>2. /\ waiter' = Resumed({j}, Learned(j, o))
        /\ runningTasks' = [runningTasks EXCEPT ![j] = NoLease]
    BY <1>22 DEF Settle
  <2>3. PICK r \in {MarkCompleted(rows, j), MarkFailed(rows, j), Requeue(rows, j)} : Saved(r)
    BY <1>22, SavedByScan DEF Settle, Outcome
  <2> HIDE DEF j
  <2>4. StaysParked(w) /\ i # j
    BY <2>2, ResumedParked DEF i
  <2>5. i \in Items => r[i] = rows[i]
    BY <1>1, <2>1, <2>3, <2>4 DEF MarkCompleted, MarkFailed, Requeue, Cas, Rows
  <2>6. i \in Items => runningTasks'[i] = runningTasks[i]
    BY <2>2, <2>4 DEF TypeOK
  <2> QED BY <1>2, <2>3, <2>4, <2>5, <2>6, OpenSaved
<1>23. CASE Start
  <2>1. Saved(RequeueAll(rows, Running(rows, Lanes)))
    BY <1>23, SavedByScan DEF Start, ResetRunningToQueued
  <2>2. i \in Items /\ Open(rows[i]) => Open(RequeueAll(rows, Running(rows, Lanes))[i])
    BY <1>1, OpenWritten
  <2> QED BY <1>6, <1>23, <2>1, <2>2 DEF Start
<1>24. ASSUME NEW v \in Waiters, NEW j \in Items, WaitCall(v, j) PROVE Fine
  <2>1. waiter'[v].pc # "parked"
    BY <1>24 DEF WaitCall, TypeOK
  <2>2. w # v => waiter'[w] = waiter[w]
    BY <1>24 DEF WaitCall, TypeOK
  <2>3. StaysParked(w)
    BY <2>1, <2>2 DEF StaysParked
  <2> QED BY <1>5, <1>24, <2>3 DEF WaitCall
<1>25. ASSUME NEW v \in Waiters, WaitRegister(v) PROVE Fine
  <2> DEFINE j == waiter[v].item
             result == IF rows[j].state = "completed" THEN "success" ELSE rows[j].state
  <2>1. waiter[v] \in Wait /\ waiter[v].pc = "entering" /\ rows[j].state # "absent"
    <3>1. waiter[v].pc = "entering"
      BY <1>25 DEF WaitRegister
    <3>2. waiter[v] \in Wait
      BY <3>1 DEF TypeOK, IdleWaiter
    <3> QED BY <3>1, <3>2 DEF WaitersHaveJobs, IdleWaiter
  <2>2. waiter' = IF rows[j].state \in Terminal
                  THEN [Resumed({j}, result) EXCEPT ![v].pc = "done", ![v].result = result]
                  ELSE [waiter EXCEPT ![v].pc = "parked"]
    BY <1>25 DEF WaitRegister
  <2> HIDE DEF result
  <2>3. CASE rows[j].state \in Terminal
    <3>1. Resumed({j}, result)[v] = waiter[v]
      BY <2>1 DEF Resumed
    <3>2. waiter'[v].pc = "done"
      BY <2>1, <2>2, <2>3, <3>1 DEF Resumed, Wait
    <3>3. w # v /\ waiter'[w] = Resumed({j}, result)[w]
      BY <2>2, <2>3, <3>2 DEF Resumed
    <3>4. waiter'[w] = IF waiter[w].pc = "parked" /\ waiter[w].item \in {j}
                       THEN [waiter[w] EXCEPT !.pc = "done", !.result = result] ELSE waiter[w]
      BY <3>3 DEF Resumed
    <3>5. waiter[w].pc = "parked" => waiter[w] \in Wait
      BY DEF TypeOK, IdleWaiter
    <3>6. StaysParked(w)
      BY <3>4, <3>5 DEF StaysParked, Wait
    <3> QED BY <1>5, <1>25, <3>6 DEF WaitRegister
  <2>4. CASE rows[j].state \notin Terminal
    <3>1. waiter' = [waiter EXCEPT ![v].pc = "parked"]
      BY <2>2, <2>4
    <3>2. CASE w = v
      <4>1. i = j /\ j \in Items
        BY <2>1, <3>1, <3>2 DEF i, Wait, TypeOK
      <4>2. Open(rows[j])
        BY <1>1, <2>1, <2>4, <4>1 DEF Rows, Row, ItemState, Open
      <4> QED BY <1>25, <4>1, <4>2 DEF WaitRegister
    <3>3. CASE w # v
      BY <1>5, <1>25, <3>1, <3>3 DEF WaitRegister, StaysParked, TypeOK
    <3> QED BY <3>2, <3>3
  <2> QED BY <2>3, <2>4
<1>26. ASSUME NEW v \in Waiters, WaitDeadline(v) PROVE Fine
  <2> DEFINE woken == Resumed({waiter[v].item}, "timeout")
  <2>1. waiter' = [woken EXCEPT ![v].expired = TRUE] /\ waiter[v].pc = "parked"
    BY <1>26 DEF WaitDeadline
  <2>2. waiter[v] \in Wait
    BY <2>1 DEF TypeOK, IdleWaiter
  <2>3. woken[v].pc = "done"
    BY <2>1, <2>2 DEF Resumed, Wait
  <2>4. waiter'[v].pc = "done"
    BY <2>1, <2>2, <2>3 DEF Resumed, Wait
  <2>5. w # v /\ waiter'[w] = woken[w]
    BY <2>1, <2>4 DEF Resumed
  <2>6. woken[w] = IF waiter[w].pc = "parked" /\ waiter[w].item \in {waiter[v].item}
                   THEN [waiter[w] EXCEPT !.pc = "done", !.result = "timeout"] ELSE waiter[w]
    BY DEF Resumed
  <2>7. waiter[w].pc = "parked" => waiter[w] \in Wait
    BY DEF TypeOK, IdleWaiter
  <2>8. StaysParked(w)
    BY <2>5, <2>6, <2>7 DEF StaysParked, Wait
  <2> QED BY <1>5, <1>26, <2>8 DEF WaitDeadline
<1>27. CASE Shutdown
  <2>1. waiter'[w] = IF waiter[w].pc = "parked"
                     THEN [waiter[w] EXCEPT !.pc = "done", !.result = "shutDown"] ELSE waiter[w]
    BY <1>27 DEF Shutdown
  <2>2. waiter[w].pc = "parked" => waiter[w] \in Wait
    BY DEF TypeOK, IdleWaiter
  <2> QED BY <2>1, <2>2 DEF Wait
<1>28. CASE Crash
  BY <1>28 DEF Crash, IdleWaiter
<1>29. ASSUME NEW l \in Leases, NEW o \in Outcome, WorkerReturn(l, o) \/ SettleStale(l, o)
       PROVE  Fine
  BY <1>3, <1>5, <1>29 DEF WorkerReturn, SettleStale
<1> QED
  <2>1. CASE \E j \in Items : Request(j)
    BY <2>1, <1>7, <1>8, <1>9, <1>10, <1>14, <1>24 DEF Request
  <2>2. CASE \E j \in Items : LaneRequest(LaneOf[j])
    BY <2>2, <1>3, <1>5, <1>11, <1>16 DEF LaneRequest, Pause
  <2>3. CASE \E s \in Scans : ScanStep(s)
    BY <2>3, <1>17, <1>18, <1>19, <1>20, <1>21 DEF ScanStep
  <2>4. CASE \E l \in Leases : WorkerStep(l)
    BY <2>4, <1>22, <1>29 DEF WorkerStep
  <2>5. CASE \/ \E l \in Leases, k \in EmitKinds : EmitBegin(l, k) \/ EmitCommit(l, k)
             \/ \E v \in Waiters : WaitRegister(v) \/ WaitDeadline(v)
    BY <2>5, <1>3, <1>5, <1>25, <1>26 DEF EmitBegin, EmitCommit
  <2>6. CASE ShutdownDrained \/ ShutdownDeadline \/ ShutdownAgain
    BY <2>6, <1>3, <1>5 DEF ShutdownDrained, ShutdownDeadline, ShutdownAgain
  <2> QED BY <2>1, <2>2, <2>3, <2>4, <2>5, <2>6, <1>13, <1>15, <1>23, <1>27, <1>28 DEF Next

\* Who waits after a step waited before, for the same job, or has just called.
LEMMA JobsStep ==
  ASSUME TypeOK, WaitersHaveJobs, Next
  PROVE  WaitersHaveJobs'
<1> DEFINE Waits(x) == x.pc \in {"entering", "parked"}
<1> SUFFICES ASSUME NEW w \in Waiters, Waits(waiter'[w])
             PROVE  rows'[waiter'[w].item].state # "absent"
  BY DEF WaitersHaveJobs
<1> DEFINE Goal == rows'[waiter'[w].item].state # "absent"
<1>1. ASSUME Waits(waiter[w]), waiter'[w].item = waiter[w].item PROVE Goal
  <2> DEFINE i == waiter[w].item
  <2>1. rows[i].state # "absent" /\ i \in Items
    BY <1>1 DEF WaitersHaveJobs, TypeOK, Wait, IdleWaiter
  <2>2. rows'[i].state = "absent" => rows'[i] = rows[i]
    BY <2>1, StepWrites, AbsentStays
  <2> QED BY <1>1, <2>1, <2>2
<1>2. ASSUME NEW S, NEW result, waiter'[w] = Resumed(S, result)[w] PROVE Goal
  <2>1. waiter'[w] = IF waiter[w].pc = "parked" /\ waiter[w].item \in S
                     THEN [waiter[w] EXCEPT !.pc = "done", !.result = result] ELSE waiter[w]
    BY <1>2 DEF Resumed
  <2>2. waiter[w].pc = "parked" => waiter[w] \in Wait
    BY DEF TypeOK, IdleWaiter
  <2>3. waiter'[w] = waiter[w]
    BY <2>1, <2>2 DEF Wait
  <2> QED BY <1>1, <2>3
<1>3. ASSUME waiter' = waiter PROVE Goal
  BY <1>1, <1>3
<1> HIDE DEF Goal
<1>4. ASSUME NEW v \in Waiters, NEW i \in Items, WaitCall(v, i) PROVE Goal
  <2>1. w # v => waiter'[w] = waiter[w]
    BY <1>4 DEF WaitCall, TypeOK
  <2>2. w = v => waiter'[w].item = i /\ rows' = rows /\ rows[i].state # "absent"
    BY <1>4 DEF WaitCall, TypeOK, storeVars
  <2> QED BY <1>1, <2>1, <2>2 DEF Goal
<1>5. ASSUME NEW v \in Waiters, WaitRegister(v) PROVE Goal
  <2> DEFINE i == waiter[v].item
             result == IF rows[i].state = "completed" THEN "success" ELSE rows[i].state
  <2>1. waiter[v] \in Wait /\ waiter[v].pc = "entering"
    <3>1. waiter[v].pc = "entering" /\ waiter[v] \in {IdleWaiter} \cup Wait
      BY <1>5 DEF WaitRegister, TypeOK
    <3> QED BY <3>1 DEF IdleWaiter
  <2>2. waiter' = IF rows[i].state \in Terminal
                  THEN [Resumed({i}, result) EXCEPT ![v].pc = "done", ![v].result = result]
                  ELSE [waiter EXCEPT ![v].pc = "parked"]
    BY <1>5 DEF WaitRegister
  <2> HIDE DEF result
  <2>3. Resumed({i}, result)[v] = waiter[v]
    BY <2>1 DEF Resumed
  <2>4. w = v => waiter'[w].item = waiter[w].item
    BY <2>1, <2>2, <2>3 DEF Resumed, Wait, TypeOK
  <2>5. w # v => waiter'[w] \in {waiter[w], Resumed({i}, result)[w]}
    BY <2>2 DEF Resumed, TypeOK
  <2> QED BY <1>1, <1>2, <2>1, <2>4, <2>5
<1>6. ASSUME NEW v \in Waiters, WaitDeadline(v) PROVE Goal
  <2> DEFINE woken == Resumed({waiter[v].item}, "timeout")
  <2>1. waiter' = [woken EXCEPT ![v].expired = TRUE] /\ waiter[v].pc = "parked"
    BY <1>6 DEF WaitDeadline
  <2>2. waiter[v] \in Wait
    BY <2>1 DEF TypeOK, IdleWaiter
  <2>3. woken[v].pc = "done"
    BY <2>1, <2>2 DEF Resumed, Wait
  <2>4. waiter'[v].pc = "done"
    BY <2>1, <2>2, <2>3 DEF Resumed, Wait
  <2>5. waiter'[w] = woken[w]
    BY <2>1, <2>4 DEF Resumed
  <2> QED BY <1>2, <2>5
<1>7. ASSUME NEW c, NEW op, NEW lane, NEW todo, NEW drained, SweepOn(c, op, lane, todo, drained)
      PROVE  Goal
  BY <1>2, <1>3, <1>7 DEF SweepOn
<1>8. ASSUME NEW l \in Leases, NEW o \in Outcome, Settle(l, o) PROVE Goal
  BY <1>2, <1>8 DEF Settle
<1>9. CASE Shutdown
  <2>1. waiter'[w] = IF waiter[w].pc = "parked"
                     THEN [waiter[w] EXCEPT !.pc = "done", !.result = "shutDown"] ELSE waiter[w]
    BY <1>9 DEF Shutdown
  <2>2. waiter[w].pc = "parked" => waiter[w] \in Wait
    BY DEF TypeOK, IdleWaiter
  <2>3. waiter'[w] = waiter[w]
    BY <2>1, <2>2 DEF Wait
  <2> QED BY <1>1, <2>3 DEF Goal
<1>10. CASE Crash
  BY <1>10 DEF Crash, IdleWaiter
<1>11. CASE \E s \in Scans : ScanStep(s)
  <2>1. PICK s \in Scans, i \in Items :
          \/ ScanNoRoute(s, i) \/ ScanStopped(s, i)
          \/ \E p \in Providers :
               ScanSkip(s, i, p) \/ ScanClaim(s, i, p) \/ ScanClaimUndone(s, i, p)
    BY <1>11 DEF ScanStep
  <2>2. waiter' = waiter
    <3>1. ScanNoRoute(s, i) \/ ScanStopped(s, i) => waiter' = waiter
      BY DEF ScanNoRoute, ScanStopped
    <3>2. ASSUME NEW p \in Providers,
                 ScanSkip(s, i, p) \/ ScanClaim(s, i, p) \/ ScanClaimUndone(s, i, p)
          PROVE  waiter' = waiter
      BY <3>2 DEF ScanSkip, ScanClaim, ScanClaimUndone
    <3> QED BY <2>1, <3>1, <3>2
  <2> QED BY <1>3, <2>2 DEF Goal
<1> QED
  <2>1. CASE \E i \in Items : Request(i)
    BY <2>1, <1>3, <1>4, <1>7 DEF Request, Enqueue, EnqueueDuplicate, Retry, CancelItem, Reorder, Goal
  <2>2. CASE \E i \in Items : LaneRequest(LaneOf[i])
    BY <2>2, <1>3, <1>7 DEF LaneRequest, Pause, Resume, Halt, Goal
  <2>3. CASE \E l \in Leases : WorkerStep(l)
    BY <2>3, <1>3, <1>8 DEF WorkerStep, WorkerReturn, SettleStale, Goal
  <2>4. CASE \/ \E c \in Clients : CancelAllInFlight(c) \/ SweepDrained(c)
             \/ \E l \in Leases, k \in EmitKinds : EmitBegin(l, k) \/ EmitCommit(l, k)
             \/ \E v \in Waiters : WaitRegister(v) \/ WaitDeadline(v)
    BY <2>4, <1>3, <1>5, <1>6, <1>7 DEF CancelAllInFlight, SweepDrained, EmitBegin, EmitCommit, Goal
  <2>5. CASE Start \/ ShutdownDrained \/ ShutdownDeadline \/ ShutdownAgain
    BY <2>5, <1>3 DEF Start, ShutdownDrained, ShutdownDeadline, ShutdownAgain, Goal
  <2> QED BY <2>1, <2>2, <2>3, <2>4, <2>5, <1>9, <1>10, <1>11 DEF Next, Goal

\* Nobody is left behind but by a cancel that goes on with what it read before it
\* waited for a worker's output, for any number of jobs, callers and waiters.
THEOREM NobodyIsLeftBehind == Spec => OnlyStaleCancelStrands
<1>1. Init => WaitersHaveJobs
  BY DEF Init, WaitersHaveJobs, IdleWaiter
<1>2. TypeOK /\ WaitersHaveJobs /\ [Next]_vars => WaitersHaveJobs'
  <2>1. UNCHANGED vars /\ WaitersHaveJobs => WaitersHaveJobs'
    BY DEF vars, storeVars, WaitersHaveJobs
  <2> QED BY <2>1, JobsStep
<1>3. TypeOK /\ WaitersHaveJobs /\ [Next]_vars =>
        [\A w \in Waiters :
           Stranded(w)' => Stranded(w) \/ \E c \in Clients : StaleCancel(c, waiter[w].item)]_vars
  BY StrandStep
<1> QED BY <1>1, <1>2, <1>3, TypeCorrect, PTL DEF Spec, OnlyStaleCancelStrands
-------------------------------------------------------------------------------
(* A report stays with its dispatch, while cancels, halts and resumes are     *)
(* apart.                                                                     *)

\* A stored job keeps or advances its attempt, until it is forgotten for good.
Ages(r) ==
  \A i \in Items : rows[i].state # "absent" =>
    /\ r[i].state # "absent"
    /\ r[i].state # "pruned" => rows[i].state # "pruned" /\ rows[i].attempt <= r[i].attempt

\* No job goes back into the queue at the attempt it is at.
BackInQueue(r, i) ==
  /\ r[i].state = "queued" /\ r[i].attempt = rows[i].attempt
  /\ rows[i].state \notin {"queued", "absent"}
NoneBack(r) == \A i \in Items : ~BackInQueue(r, i)

\* Writing a stored row, at its attempt or a later one, ages it; and only "queued"
\* at the same attempt brings it back.
LEMMA CasAges ==
  ASSUME rows \in Rows, NEW i \in Items, NEW from \in SUBSET (Active \cup Terminal),
         NEW new \in Row, new.state \notin {"absent", "pruned"},
         new.attempt = rows[i].attempt \/ new.attempt = rows[i].attempt + 1
  PROVE  /\ Ages(Cas(rows, i, from, new))
         /\ \/ new.state # "queued" \/ new.attempt # rows[i].attempt \/ from = {"queued"}
            => NoneBack(Cas(rows, i, from, new))
<1> DEFINE r == Cas(rows, i, from, new)
<1>1. /\ r[i] = IF rows[i].state \in from THEN new ELSE rows[i]
      /\ \A j \in Items \ {i} : r[j] = rows[j]
  BY CasType
<1>2. \A j \in Items : rows[j].attempt \in Nat
  BY DEF Rows, Row
<1> HIDE DEF r
<1>3. Ages(r)
  BY <1>1, <1>2 DEF Ages, Active, Terminal
<1>4. \/ new.state # "queued" \/ new.attempt # rows[i].attempt \/ from = {"queued"}
      => NoneBack(r)
  BY <1>1 DEF NoneBack, BackInQueue
<1> QED BY <1>3, <1>4 DEF r

\* The operations of the store that bring no job back.
LEMMA NoneBackWritten ==
  ASSUME rows \in Rows, NEW i \in Items
  PROVE  /\ Ages(rows) /\ NoneBack(rows)
         /\ \A k \in Nat : /\ rows[i].state = "absent" =>
                                Ages(Insert(rows, i, k)) /\ NoneBack(Insert(rows, i, k))
                           /\ Ages(RetryItem(rows, i, k)) /\ NoneBack(RetryItem(rows, i, k))
                           /\ rows[i].state = "queued" =>
                                /\ Ages(UpdateOrderingKey(rows, i, k))
                                /\ NoneBack(UpdateOrderingKey(rows, i, k))
         /\ Ages(RecordAdmissionWait(rows, i)) /\ NoneBack(RecordAdmissionWait(rows, i))
         /\ \A lane : /\ Ages(ClearAdmissionWait(rows, lane))
                      /\ NoneBack(ClearAdmissionWait(rows, lane))
         /\ \A p \in Providers : /\ Ages(MarkRunning(rows, i, p))
                                 /\ NoneBack(MarkRunning(rows, i, p))
         /\ \A p \in Providers : rows[i].state = "queued" =>
              /\ Ages(Requeue(MarkRunning(rows, i, p), i))
              /\ NoneBack(Requeue(MarkRunning(rows, i, p), i))
         /\ Ages(MarkCompleted(rows, i)) /\ NoneBack(MarkCompleted(rows, i))
         /\ Ages(MarkFailed(rows, i)) /\ NoneBack(MarkFailed(rows, i))
<1>1. \A j \in Items : rows[j] \in Row /\ rows[j].attempt \in Nat
  BY DEF Rows, Row
<1>2. Ages(rows) /\ NoneBack(rows)
  BY <1>1 DEF Ages, NoneBack, BackInQueue
<1>3. ASSUME NEW k \in Nat, rows[i].state = "absent"
      PROVE  Ages(Insert(rows, i, k)) /\ NoneBack(Insert(rows, i, k))
  <2> DEFINE new == [NoRow EXCEPT !.state = "queued", !.key = k]
  <2>1. Insert(rows, i, k) = [rows EXCEPT ![i] = new]
    BY DEF Insert
  <2> HIDE DEF new
  <2> QED BY <1>1, <1>3, <2>1 DEF Ages, NoneBack, BackInQueue, Rows
<1>4. ASSUME NEW k \in Nat
      PROVE  Ages(RetryItem(rows, i, k)) /\ NoneBack(RetryItem(rows, i, k))
  <2> DEFINE new == NextAttempt(rows[i], k)
  <2>1. new \in Row /\ new.state = "queued" /\ new.attempt = rows[i].attempt + 1
    BY <1>1 DEF NextAttempt, Row, ItemState, Active
  <2>2. {"failed", "cancelled"} \in SUBSET (Active \cup Terminal)
    BY DEF Terminal
  <2> HIDE DEF new
  <2>3. new.attempt # rows[i].attempt
    BY <1>1, <2>1
  <2> QED BY <2>1, <2>2, <2>3, CasAges DEF RetryItem, new
<1>5. ASSUME NEW k \in Nat, rows[i].state = "queued"
      PROVE  Ages(UpdateOrderingKey(rows, i, k)) /\ NoneBack(UpdateOrderingKey(rows, i, k))
  BY <1>1, <1>5 DEF UpdateOrderingKey, Ages, NoneBack, BackInQueue, Rows, Row
<1>6. Ages(RecordAdmissionWait(rows, i)) /\ NoneBack(RecordAdmissionWait(rows, i))
  <2> DEFINE new == [rows[i] EXCEPT !.blocked = TRUE]
  <2>1. CASE rows[i].state = "queued"
    <3>1. new \in Row /\ new.state = "queued" /\ new.attempt = rows[i].attempt
      BY <1>1, <2>1 DEF Row
    <3> HIDE DEF new
    <3>2. {"queued"} \in SUBSET (Active \cup Terminal)
      BY DEF Active
    <3> QED BY <3>1, <3>2, CasAges DEF RecordAdmissionWait, new
  <2>2. CASE rows[i].state # "queued"
    BY <1>2, <2>2 DEF RecordAdmissionWait, Cas
  <2> QED BY <2>1, <2>2
<1>7. ASSUME NEW lane
      PROVE  Ages(ClearAdmissionWait(rows, lane)) /\ NoneBack(ClearAdmissionWait(rows, lane))
  <2>1. \A j \in Items : /\ ClearAdmissionWait(rows, lane)[j].state = rows[j].state
                         /\ ClearAdmissionWait(rows, lane)[j].attempt = rows[j].attempt
    BY <1>1 DEF ClearAdmissionWait, Row
  <2> QED BY <1>1, <2>1 DEF Ages, NoneBack, BackInQueue
<1>8. ASSUME NEW p \in Providers
      PROVE  Ages(MarkRunning(rows, i, p)) /\ NoneBack(MarkRunning(rows, i, p))
  <2> DEFINE new == [rows[i] EXCEPT !.state = "running", !.provider = p]
  <2>1. new \in Row /\ new.state = "running" /\ new.attempt = rows[i].attempt
    BY <1>1 DEF Row, ItemState, Active
  <2>2. {"queued"} \in SUBSET (Active \cup Terminal)
    BY DEF Active
  <2> HIDE DEF new
  <2> QED BY <2>1, <2>2, CasAges DEF MarkRunning, new
<1>9. ASSUME NEW p \in Providers, rows[i].state = "queued"
      PROVE  /\ Ages(Requeue(MarkRunning(rows, i, p), i))
             /\ NoneBack(Requeue(MarkRunning(rows, i, p), i))
  <2> DEFINE m == MarkRunning(rows, i, p)
             new == [m[i] EXCEPT !.state = "queued", !.provider = NoProvider]
             r == Requeue(m, i)
  <2>1. /\ m \in Rows /\ m[i].state = "running" /\ m[i].attempt = rows[i].attempt
        /\ \A x \in Items \ {i} : m[x] = rows[x]
    BY <1>9, MarkRunningStarts
  <2> HIDE DEF m
  <2>2. new \in Row /\ new.state = "queued" /\ new.attempt = rows[i].attempt
    BY <2>1 DEF Rows, Row, ItemState, Active
  <2>3. r = Cas(m, i, {"running"}, new)
    BY DEF Requeue
  <2> HIDE DEF new, r
  <2>4. r[i] = new /\ \A x \in Items \ {i} : r[x] = rows[x]
    BY <2>1, <2>2, <2>3, CasType
  <2>5. Ages(r) /\ NoneBack(r)
    BY <1>1, <1>9, <2>2, <2>4 DEF Ages, NoneBack, BackInQueue
  <2> QED BY <2>5 DEF r, m
<1>10. ASSUME NEW end \in {"completed", "failed"}
       PROVE  LET r == Cas(rows, i, {"running"}, [rows[i] EXCEPT !.state = end])
              IN  Ages(r) /\ NoneBack(r)
  <2> DEFINE new == [rows[i] EXCEPT !.state = end]
  <2>1. new \in Row /\ new.state = end /\ new.attempt = rows[i].attempt
    BY <1>1 DEF Row, ItemState, Terminal
  <2>2. {"running"} \in SUBSET (Active \cup Terminal)
    BY DEF Active
  <2> HIDE DEF new
  <2>3. Ages(Cas(rows, i, {"running"}, new)) /\ NoneBack(Cas(rows, i, {"running"}, new))
    BY <2>1, <2>2, CasAges
  <2> QED BY <2>3 DEF new
<1>11. /\ Ages(MarkCompleted(rows, i)) /\ NoneBack(MarkCompleted(rows, i))
       /\ Ages(MarkFailed(rows, i)) /\ NoneBack(MarkFailed(rows, i))
  BY <1>10 DEF MarkCompleted, MarkFailed
<1> QED BY <1>2, <1>3, <1>4, <1>5, <1>6, <1>7, <1>8, <1>9, <1>11

\* The operations of the store that may, and on which jobs.
LEMMA BackWritten ==
  ASSUME rows \in Rows, NEW i \in Items, NEW S \in SUBSET Items
  PROVE  /\ Ages(Requeue(rows, i)) /\ \A j \in Items : BackInQueue(Requeue(rows, i), j) => j = i
         /\ Ages(RequeueAll(rows, S))
         /\ \A j \in Items : BackInQueue(RequeueAll(rows, S), j) => j \in S
         /\ Ages(CancelAll(rows, S)) /\ NoneBack(CancelAll(rows, S))
<1>1. \A j \in Items : rows[j] \in Row /\ rows[j].attempt \in Nat
  BY DEF Rows, Row
<1>2. ASSUME NEW j \in Items
      PROVE  /\ Ages(Requeue(rows, j)) /\ \A x \in Items : BackInQueue(Requeue(rows, j), x) => x = j
  <2> DEFINE new == [rows[j] EXCEPT !.state = "queued", !.provider = NoProvider]
  <2>1. new \in Row /\ new.state = "queued" /\ new.attempt = rows[j].attempt
    BY <1>1 DEF Row, ItemState, Active
  <2>2. {"running"} \in SUBSET (Active \cup Terminal)
    BY DEF Active
  <2> HIDE DEF new
  <2>3. \A x \in Items \ {j} : Cas(rows, j, {"running"}, new)[x] = rows[x]
    BY <2>1, CasType
  <2> QED BY <2>1, <2>2, <2>3, CasAges DEF Requeue, BackInQueue, new
<1>3. ASSUME NEW j \in Items
      PROVE  Ages(MarkCancelled(rows, j)) /\ NoneBack(MarkCancelled(rows, j))
  <2> DEFINE new == [rows[j] EXCEPT !.state = "cancelled"]
  <2>1. new \in Row /\ new.state = "cancelled" /\ new.attempt = rows[j].attempt
    BY <1>1 DEF Row, ItemState, Terminal
  <2>2. Active \in SUBSET (Active \cup Terminal)
    OBVIOUS
  <2> HIDE DEF new
  <2> QED BY <2>1, <2>2, CasAges DEF MarkCancelled, new
<1>4. Ages(RequeueAll(rows, S)) /\ \A j \in Items : BackInQueue(RequeueAll(rows, S), j) => j \in S
  BY <1>1, <1>2 DEF RequeueAll, Ages, BackInQueue
<1>5. Ages(CancelAll(rows, S)) /\ NoneBack(CancelAll(rows, S))
  BY <1>1, <1>3 DEF CancelAll, Ages, NoneBack, BackInQueue
<1> QED BY <1>2, <1>4, <1>5

\* What is forgotten comes not back.
LEMMA AgesSaved ==
  ASSUME NEW r, Saved(r)
  PROVE  /\ Ages(r) => Ages(rows')
         /\ \A i \in Items : BackInQueue(rows', i) => BackInQueue(r, i)
         /\ NoneBack(r) => NoneBack(rows')
BY DEF Saved, Delete, NoRow, Ages, BackInQueue, NoneBack

\* Every save of the queue ages the rows.
LEMMA RowsAge ==
  ASSUME TypeOK, Next
  PROVE  Ages(rows')
<1>1. rows \in Rows
  BY DEF TypeOK, Rows
<1>2. PICK r : Written(r) /\ Saved(r)
  BY StepWrites
<1>3. ASSUME NEW i \in Items PROVE NextOrderingKey(rows, LaneOf[i]) \in Nat
  BY <1>1, NextKeyAbove, StoreAssumption
<1>4. ASSUME NEW i \in Items, NEW before \in Items PROVE ReorderedKey(i, before) \in Nat
  BY ReorderedPlace
<1>5. Ages(r)
  <2>1. CASE r = rows
    <3>1. \A i \in Items : rows[i].attempt \in Nat
      BY <1>1 DEF Rows, Row
    <3> QED BY <2>1, <3>1 DEF Ages
  <2>2. CASE \E i \in Items : rows[i].state = "absent"
                             /\ r = Insert(rows, i, NextOrderingKey(rows, LaneOf[i]))
    BY <1>1, <1>3, <2>2, NoneBackWritten
  <2>3. CASE \E i \in Items : r = RetryItem(rows, i, NextOrderingKey(rows, LaneOf[i]))
    BY <1>1, <1>3, <2>3, NoneBackWritten
  <2>4. CASE \E i \in Items :
               /\ rows[i].state = "queued"
               /\ \/ r = UpdateOrderingKey(rows, i, NextOrderingKey(rows, LaneOf[i]))
                  \/ \E before \in Items : r = UpdateOrderingKey(rows, i, ReorderedKey(i, before))
    BY <1>1, <1>3, <1>4, <2>4, NoneBackWritten
  <2>5. CASE \E i \in Items : r = RecordAdmissionWait(rows, i)
    BY <1>1, <2>5, NoneBackWritten
  <2>6. CASE \E lane \in Lanes : r = ClearAdmissionWait(rows, lane)
    BY <1>1, <2>6 DEF ClearAdmissionWait, Ages, Rows, Row
  <2>7. CASE \E i \in Items, p \in Providers : r = MarkRunning(rows, i, p)
    BY <1>1, <2>7, NoneBackWritten
  <2>8. CASE \E i \in Items, p \in Providers :
               rows[i].state = "queued" /\ r = Requeue(MarkRunning(rows, i, p), i)
    BY <1>1, <2>8, NoneBackWritten
  <2>9. CASE \E i \in Items : r \in {MarkCompleted(rows, i), MarkFailed(rows, i), Requeue(rows, i)}
    BY <1>1, <2>9, NoneBackWritten, BackWritten
  <2>10. CASE \E S \in SUBSET Items : r = RequeueAll(rows, S) \/ r = CancelAll(rows, S)
    <3>1. PICK S \in SUBSET Items : r = RequeueAll(rows, S) \/ r = CancelAll(rows, S)
      BY <2>10
    <3>2. CASE Items = {}
      BY <3>2 DEF Ages
    <3>3. CASE Items # {}
      BY <1>1, <3>1, <3>3, BackWritten
    <3> QED BY <3>2, <3>3
  <2> QED BY <1>2, <2>1, <2>2, <2>3, <2>4, <2>5, <2>6, <2>7, <2>8, <2>9, <2>10 DEF Written
<1> QED BY <1>2, <1>5, AgesSaved
-------------------------------------------------------------------------------
(* The kinds of step, to a dispatch whose report is being begun. *)

\* No report gets another owner.
Kept(rep) ==
  \A i \in Items : rep[i].targets # "absent" =>
    report[i].targets # "absent" /\ rep[i].exec = report[i].exec

\* A step that dispatches, interrupts and settles nothing.
Steady ==
  /\ UNCHANGED <<runningTasks, active, client, dispatched, worker>>
  /\ lifecycle' \in {"created", "running"} => lifecycle' = lifecycle
  /\ \A l \in Leases : inFlight'[l] \subseteq inFlight[l]
  /\ \A lane \in Lanes : runStates'[lane] = "running" => runStates[lane] = "running" \/ Resume(lane)
  /\ NoneBack(rows')
  /\ Kept(report') \/ \E l \in Leases : EmitCommit(l, "begin")

\* A worker returns or its dispatch settles: it has no such emission in flight.
Ends(l) ==
  LET i == worker[l].item IN
  /\ worker[l] \in Dispatch /\ worker[l].pc \in Live /\ ~Begins(l)
  /\ UNCHANGED <<inFlight, client, lifecycle, runStates, dispatched>>
  /\ \A k \in Leases \ {l} : worker'[k] = worker[k]
  /\ worker'[l].pc \in Live =>
       worker'[l].pc = "draining" /\ worker'[l].item = i /\ worker'[l].attempt = worker[l].attempt
  /\ active' = Invalidated(i, l)
  /\ \/ runningTasks' = runningTasks
     \/ runningTasks[i] = l /\ runningTasks' = [runningTasks EXCEPT ![i] = NoLease]
  /\ \A j \in Items : BackInQueue(rows', j) =>
       j = i /\ runningTasks[i] = l /\ runningTasks'[i] = NoLease
  /\ Kept(report')

\* A cancel or a halt, from one suspension to the next.  It requeues jobs that it
\* need not wait for, or waited for, and starts waiting only for a lease it closes.
Sweeps(c, op, todo, drained) ==
  /\ UNCHANGED <<runningTasks, inFlight, lifecycle, dispatched>>
  /\ \A l \in Leases : worker[l].pc \in Live \/ worker'[l].pc \in Live =>
       /\ worker'[l].pc = worker[l].pc /\ worker'[l].item = worker[l].item
       /\ worker'[l].attempt = worker[l].attempt
  /\ \A i \in Items : BackInQueue(rows', i) =>
       /\ op = "halt"
       /\ i \notin drained =>
            /\ ~MustDrain(i, runningTasks[i])
            /\ active[i] = runningTasks[i] => active'[i] = NoLease
  /\ \A i \in Items : active'[i] \in {active[i], NoLease}
  /\ \A i \in Items : active'[i] # active[i] /\ MustDrain(i, runningTasks[i]) =>
       client'[c] # IdleClient /\ client'[c].item = i /\ client'[c].lease = runningTasks[i]
  /\ \A d \in Clients \ {c} : client'[d] = client[d]
  /\ client'[c] # IdleClient =>
       LET k == client'[c] IN
       /\ k.op = op /\ k.item \in Items
       /\ k.lease = runningTasks[k.item] /\ k.lease # NoLease /\ active'[k.item] = NoLease
       /\ KeysApart(k.todo)
       /\ op = "halt" => todo[k.item] # 0 /\ \A i \in Items : k.todo[i] # 0 => todo[i] # 0
  /\ Kept(report')

\* What is saved without a report written is kept.
LEMMA KeptSaved ==
  ASSUME NEW r, NEW rep, NEW prune, Save(r, rep, prune), Kept(rep)
  PROVE  Kept(report')
BY DEF Save, Kept, DropReports, NoReport

\* Only the beginning of a report writes a new one.
LEMMA KeptReports ==
  ASSUME report \in Reports
  PROVE  /\ Kept(report)
         /\ \A S : Kept(ProjectInterrupted(report, S)) /\ Kept(DropReports(report, S))
         /\ \A i, l, t : t \in {"live", "settled"} => Kept(CommitReport(report, i, l, t))
<1>1. Kept(report)
  BY DEF Kept
<1>2. ASSUME NEW S PROVE Kept(ProjectInterrupted(report, S)) /\ Kept(DropReports(report, S))
  BY DEF Kept, ProjectInterrupted, DropReports, NoReport, Reports, Report
<1>3. ASSUME NEW i, NEW l, NEW t \in {"live", "settled"} PROVE Kept(CommitReport(report, i, l, t))
  BY DEF Kept, CommitReport, Reports, Report
<1> QED BY <1>1, <1>2, <1>3

LEMMA DispatchScanKeeps ==
  ASSUME NEW r, NEW rep, NEW rs, NEW lc, NEW prune, DispatchScan(r, rep, rs, lc, prune),
         Kept(rep)
  PROVE  Kept(report')
<1>1. PICK p : Save(r, rep, p)
  BY DEF DispatchScan
<1> QED BY <1>1, KeptSaved

LEMMA NextItemKeeps ==
  ASSUME NEW s, NEW i, NEW r, NEW rep, NextItem(s, i, r, rep), Kept(rep)
  PROVE  Kept(report')
<1>1. PICK p : Save(r, rep, p)
  BY DEF NextItem, Proceed
<1> QED BY <1>1, KeptSaved

\* What a settlement changes.
LEMMA EndsParts ==
  ASSUME TypeOK, NEW l \in Leases, NEW o \in Outcome,
         WorkerReturn(l, o) \/ Settle(l, o) \/ SettleStale(l, o)
  PROVE  Ends(l)
<1> DEFINE i == worker[l].item
<1>1. rows \in Rows /\ report \in Reports
  BY DEF TypeOK, Rows, Reports
<1>2. worker[l].pc \in Live
  BY DEF WorkerReturn, Settle, SettleStale, Drained, Returns, Live
<1>3. worker[l] \in Dispatch /\ i \in Items
  BY <1>2, LiveWorker DEF Dispatch
<1>4. ~Begins(l)
  BY DEF WorkerReturn, Settle, SettleStale, Drained, Returns, Begins
<1>5. Kept(Reprojected(l, o)) /\ Kept(report)
  BY <1>1, KeptReports DEF Reprojected
<1>6. NoneBack(rows)
  BY <1>1, <1>3, NoneBackWritten
<1>7. \A k \in Leases \ {l} : Retired(l)[k] = worker[k]
  BY RetiredOthers
<1>8. Retired(l)[l].pc \notin Live
  BY <1>3 DEF Retired, TypeOK, RetiredWorker, Live, Dispatch
<1>9. CASE WorkerReturn(l, o)
  <2> DEFINE new == [worker[l] EXCEPT !.pc = "draining", !.result = o]
  <2>1. new.pc = "draining" /\ new.item = i /\ new.attempt = worker[l].attempt
    BY <1>3 DEF Dispatch
  <2>2. worker' = [worker EXCEPT ![l] = new]
    BY <1>3, <1>9 DEF WorkerReturn, TypeOK
  <2> HIDE DEF new
  <2>3. /\ worker'[l].pc = "draining" /\ worker'[l].item = i /\ worker'[l].attempt = worker[l].attempt
        /\ \A k \in Leases \ {l} : worker'[k] = worker[k]
    BY <2>1, <2>2 DEF TypeOK
  <2>4. NoneBack(rows') /\ Kept(report')
    BY <1>5, <1>6, <1>9 DEF WorkerReturn, storeVars
  <2>5. /\ UNCHANGED <<inFlight, client, lifecycle, runStates, dispatched, runningTasks>>
        /\ active' = Invalidated(i, l)
    BY <1>9 DEF WorkerReturn, counterVars
  <2> QED BY <1>2, <1>3, <1>4, <2>3, <2>4, <2>5 DEF Ends, NoneBack
<1>10. CASE SettleStale(l, o)
  <2>1. NoneBack(rows') /\ Kept(report')
    BY <1>5, <1>6, <1>10 DEF SettleStale
  <2>2. /\ UNCHANGED <<inFlight, client, lifecycle, runStates, dispatched, runningTasks>>
        /\ active' = Invalidated(i, l) /\ worker' = Retired(l)
    BY <1>10 DEF SettleStale, counterVars
  <2> QED BY <1>2, <1>3, <1>4, <1>7, <1>8, <2>1, <2>2 DEF Ends, NoneBack
<1>11. CASE Settle(l, o)
  <2>1. /\ UNCHANGED <<inFlight, client, lifecycle, runStates, dispatched>>
        /\ active' = Invalidated(i, l) /\ worker' = Retired(l)
        /\ runningTasks[i] = l /\ runningTasks' = [runningTasks EXCEPT ![i] = NoLease]
    BY <1>11 DEF Settle, OwnsEntry, counterVars
  <2>2. PICK r \in {MarkCompleted(rows, i), MarkFailed(rows, i), Requeue(rows, i)} :
               DispatchScan(r, Reprojected(l, o), runStates, lifecycle, TRUE)
    BY <1>11 DEF Settle, Outcome
  <2>3. Kept(report')
    BY <1>5, <2>2, DispatchScanKeeps
  <2>4. \A j \in Items : BackInQueue(r, j) => j = i
    BY <1>1, <1>3, <2>2, NoneBackWritten, BackWritten DEF NoneBack
  <2>5. Saved(r)
    BY <2>2, SavedByScan
  <2>6. \A j \in Items : BackInQueue(rows', j) => j = i
    BY <2>4, <2>5, AgesSaved
  <2>7. runningTasks'[i] = NoLease
    BY <1>3, <2>1 DEF TypeOK
  <2> QED BY <1>2, <1>3, <1>4, <1>7, <1>8, <2>1, <2>3, <2>6, <2>7 DEF Ends
<1> QED BY <1>9, <1>10, <1>11

\* What a cancel or a halt changes on its way, until it waits or returns.
LEMMA SweepsParts ==
  ASSUME TypeOK, EntriesLive, OrderIsTotal, NEW c \in Clients,
         NEW op \in {"cancel", "cancelAll", "halt"}, NEW lane \in Lanes, NEW todo \in Snapshot,
         NEW drained \in SUBSET Items, KeysApart(todo), SweepOn(c, op, lane, todo, drained),
         UNCHANGED <<runningTasks, inFlight, lifecycle, dispatched>>
  PROVE  Sweeps(c, op, todo, drained)
<1> DEFINE onward == op = "cancelAll" /\ lane = "extraction" /\ Left(todo, Prompt(todo)) = NoItems
           next == IF onward THEN ByKey(rows, "ingestion", "running") ELSE todo
           swept == Prompt(todo) \cup Prompt(next)
           rest == Left(next, swept)
           waits == {i \in Items : First(rest, i) /\ MustDrain(i, runningTasks[i])}
           told == swept \cup waits
           gone == {i \in drained \cup swept :
                      rows[i].state \in (IF op = "halt" THEN {"running"} ELSE Active)}
<1>1. /\ rows' = IF op = "halt" THEN RequeueAll(rows, gone) ELSE CancelAll(rows, gone)
      /\ report' = ProjectInterrupted(report, gone)
      /\ worker' = [l \in Leases |-> IF \E i \in told : runningTasks[i] = l
                                     THEN [worker[l] EXCEPT !.told = TRUE] ELSE worker[l]]
      /\ active' = [i \in Items |-> IF i \in told /\ active[i] = runningTasks[i]
                                    THEN NoLease ELSE active[i]]
      /\ IF rest = NoItems
         THEN client' = [client EXCEPT ![c] = IdleClient]
         ELSE \E i \in waits :
                client' = [client EXCEPT ![c] =
                  [op |-> op, lane |-> IF onward THEN "ingestion" ELSE lane,
                   todo |-> Without(rest, i), item |-> i, lease |-> runningTasks[i]]]
  BY DEF SweepOn
<1>2. rows \in Rows /\ report \in Reports
  BY DEF TypeOK, Rows, Reports
<1>3. next \in Snapshot
  BY <1>2, ByKeyType
<1>4. KeysApart(next)
  <2>1. KeysApart(ByKey(rows, "ingestion", "running"))
    BY DEF KeysApart, ByKey, OrderIsTotal, Active
  <2> QED BY <2>1
<1>5. swept \in SUBSET Items /\ rest \in Snapshot
  BY <1>3 DEF Prompt, Left, Snapshot
<1>6. \A i \in swept : ~MustDrain(i, runningTasks[i])
  <2>1. \A t \in Snapshot : \A i \in Prompt(t) : ~MustDrain(i, runningTasks[i])
    BY DEF Prompt, Snapshot
  <2> QED BY <1>3, <2>1
<1>7. KeysApart(rest) /\ \A i \in Items : rest[i] # 0 => next[i] # 0
  BY <1>4 DEF KeysApart, Left
<1>8. op = "halt" => next = todo
  OBVIOUS
<1>9. gone \subseteq drained \cup swept
  OBVIOUS
<1>10. \A i \in waits : i \in Items /\ First(rest, i) /\ MustDrain(i, runningTasks[i])
  OBVIOUS
<1>11. \A i \in told : i \in swept \/ i \in waits
  OBVIOUS
<1>12. swept \subseteq told /\ waits \subseteq told
  OBVIOUS
<1> HIDE DEF onward, next, swept, rest, waits, told, gone
<1>13. gone \in SUBSET Items
  BY <1>5, <1>9
<1>14. Kept(report')
  BY <1>1, <1>2, KeptReports
<1>15. \A l \in Leases : worker[l].pc \in Live \/ worker'[l].pc \in Live =>
         /\ worker'[l].pc = worker[l].pc /\ worker'[l].item = worker[l].item
         /\ worker'[l].attempt = worker[l].attempt
  <2>1. \A l \in Leases : (\E i \in told : runningTasks[i] = l) => worker[l].pc \in Live
    BY <1>5, <1>10, <1>11 DEF EntriesLive, NoLease, Leases
  <2> QED BY <1>1, <2>1, ToldType
<1>16. \A i \in Items : active'[i] \in {active[i], NoLease}
  BY <1>1
<1>17. \A i \in Items : BackInQueue(rows', i) => op = "halt" /\ i \in gone
  <2>1. CASE op = "halt"
    BY <1>1, <1>2, <1>13, <2>1, BackWritten
  <2>2. CASE op # "halt"
    BY <1>1, <1>2, <1>13, <2>2, BackWritten DEF NoneBack
  <2> QED BY <2>1, <2>2
<1>18. \A i \in Items : BackInQueue(rows', i) =>
         /\ op = "halt"
         /\ i \notin drained =>
              /\ ~MustDrain(i, runningTasks[i])
              /\ active[i] = runningTasks[i] => active'[i] = NoLease
  BY <1>1, <1>6, <1>9, <1>12, <1>17
<1>19. \A i, j \in waits : i = j
  <2> SUFFICES ASSUME NEW i \in waits, NEW j \in waits PROVE i = j
    OBVIOUS
  <2>1. /\ i \in Items /\ j \in Items /\ rest[i] # 0 /\ rest[j] # 0
        /\ rest[i] <= rest[j] /\ rest[j] <= rest[i] /\ rest[i] \in Nat /\ rest[j] \in Nat
    BY <1>5, <1>10 DEF First, Snapshot
  <2>2. rest[i] = rest[j]
    BY <2>1
  <2> QED BY <1>7, <2>1, <2>2 DEF KeysApart
<1>20. \A i \in waits : rest # NoItems
  BY <1>10 DEF First, NoItems
<1>21. CASE rest = NoItems
  <2>1. client'[c] = IdleClient /\ \A d \in Clients \ {c} : client'[d] = client[d]
    BY <1>1, <1>21 DEF TypeOK
  <2>2. \A i \in Items : active'[i] # active[i] => ~MustDrain(i, runningTasks[i])
    BY <1>1, <1>6, <1>11, <1>20, <1>21
  <2> QED BY <1>14, <1>15, <1>16, <1>18, <2>1, <2>2 DEF Sweeps
<1>22. CASE rest # NoItems
  <2>1. PICK i \in waits : client' = [client EXCEPT ![c] =
          [op |-> op, lane |-> IF onward THEN "ingestion" ELSE lane,
           todo |-> Without(rest, i), item |-> i, lease |-> runningTasks[i]]]
    BY <1>1, <1>22
  <2> DEFINE k == client'[c]
  <2>2. /\ k.op = op /\ k.todo = Without(rest, i) /\ k.item = i /\ k.lease = runningTasks[i]
        /\ \A d \in Clients \ {c} : client'[d] = client[d]
    BY <2>1 DEF TypeOK
  <2>3. k # IdleClient
    BY <2>2 DEF IdleClient
  <2>4. i \in Items /\ MustDrain(i, runningTasks[i]) /\ rest[i] # 0
    BY <1>10 DEF First
  <2>5. runningTasks[i] # NoLease /\ active[i] = runningTasks[i] /\ active'[i] = NoLease
    BY <1>1, <1>12, <2>4 DEF MustDrain
  <2>6. KeysApart(k.todo) /\ \A j \in Items : k.todo[j] # 0 => rest[j] # 0
    BY <1>5, <1>7, <2>2 DEF KeysApart, Without, Snapshot
  <2>7. op = "halt" => todo[i] # 0 /\ \A j \in Items : k.todo[j] # 0 => todo[j] # 0
    BY <1>7, <1>8, <2>4, <2>6
  <2>8. \A j \in Items : active'[j] # active[j] /\ MustDrain(j, runningTasks[j]) => j = i
    BY <1>1, <1>6, <1>11, <1>19
  <2> HIDE DEF k
  <2>9. \A j \in Items : active'[j] # active[j] /\ MustDrain(j, runningTasks[j]) =>
          k # IdleClient /\ k.item = j /\ k.lease = runningTasks[j]
    BY <2>2, <2>3, <2>8
  <2> QED BY <1>14, <1>15, <1>16, <1>18, <2>2, <2>4, <2>5, <2>6, <2>7, <2>9 DEF Sweeps, k
<1> QED BY <1>21, <1>22

\* A call's step, with what it has to do.
Sweeping(c, op, todo, drained) ==
  /\ Sweeps(c, op, todo, drained)
  /\ \/ runStates' = runStates
     \/ op = "halt" /\ \E lane \in Lanes : runStates' = [runStates EXCEPT ![lane] = "paused"]
  /\ \/ /\ client[c] # IdleClient /\ op = client[c].op /\ todo = client[c].todo
        /\ drained = {client[c].item} /\ inFlight[client[c].lease] = {}
        /\ runStates' = runStates
     \/ /\ \A d \in Clients : client[d] = IdleClient
        /\ drained = {}
        /\ op = "halt" => \A i \in Items : todo[i] # 0 =>
             /\ runStates'[LaneOf[i]] = "paused"
             /\ \A j \in Items : todo[j] # 0 => LaneOf[j] = LaneOf[i]

\* What the start of a cancel or of a halt changes.
LEMMA SweepingParts ==
  ASSUME TypeOK, EntriesLive, OrderIsTotal, WaitingCallsHold, CallsApart, NEW c \in Clients,
         \/ \E i \in Items : CancelItem(c, i)
         \/ CancelAllInFlight(c)
         \/ \E lane \in Lanes : Halt(c, lane)
         \/ SweepDrained(c)
  PROVE  \E op, todo, drained : Sweeping(c, op, todo, drained)
<1>1. rows \in Rows /\ {} \in SUBSET Items
  BY DEF TypeOK, Rows
<1>2. \A lane \in Lanes : KeysApart(ByKey(rows, lane, "running"))
  BY DEF KeysApart, ByKey, OrderIsTotal, Active
<1>3. CASE \E i \in Items : CancelItem(c, i)
  <2>1. PICK i \in Items : CancelItem(c, i)
    BY <1>3
  <2> DEFINE todo == [NoItems EXCEPT ![i] = 1]
  <2>2. todo \in Snapshot /\ KeysApart(todo) /\ LaneOf[i] \in Lanes
    BY StoreAssumption DEF NoItems, Snapshot, KeysApart
  <2>3. /\ SweepOn(c, "cancel", LaneOf[i], todo, {})
        /\ UNCHANGED <<runningTasks, inFlight, lifecycle, dispatched, runStates>>
    BY <2>1 DEF CancelItem, counterVars
  <2> HIDE DEF todo
  <2>4. Sweeps(c, "cancel", todo, {})
    BY <1>1, <2>2, <2>3, SweepsParts
  <2>5. \A d \in Clients : client[d] = IdleClient
    BY <1>3 DEF CallsApart
  <2>6. Sweeping(c, "cancel", todo, {})
    BY <2>3, <2>4, <2>5 DEF Sweeping
  <2> QED BY <2>6
<1>4. CASE CancelAllInFlight(c)
  <2> DEFINE todo == ByKey(rows, "extraction", "running")
  <2>1. todo \in Snapshot /\ KeysApart(todo) /\ "extraction" \in Lanes
    BY <1>1, <1>2, ByKeyType DEF Lanes
  <2>2. /\ SweepOn(c, "cancelAll", "extraction", todo, {})
        /\ UNCHANGED <<runningTasks, inFlight, lifecycle, dispatched, runStates>>
    BY <1>4 DEF CancelAllInFlight, counterVars
  <2> HIDE DEF todo
  <2>3. Sweeps(c, "cancelAll", todo, {})
    BY <1>1, <2>1, <2>2, SweepsParts
  <2>4. \A d \in Clients : client[d] = IdleClient
    BY <1>4 DEF CallsApart
  <2>5. Sweeping(c, "cancelAll", todo, {})
    BY <2>2, <2>3, <2>4 DEF Sweeping
  <2> QED BY <2>5
<1>5. CASE \E lane \in Lanes : Halt(c, lane)
  <2>1. PICK lane \in Lanes : Halt(c, lane)
    BY <1>5
  <2> DEFINE todo == ByKey(rows, lane, "running")
  <2>2. todo \in Snapshot /\ KeysApart(todo)
    BY <1>1, <1>2, ByKeyType
  <2>3. /\ SweepOn(c, "halt", lane, todo, {})
        /\ runStates' = [runStates EXCEPT ![lane] = "paused"]
        /\ UNCHANGED <<runningTasks, inFlight, lifecycle, dispatched>>
    BY <2>1 DEF Halt, counterVars
  <2>4. \A i \in Items : todo[i] # 0 => LaneOf[i] = lane
    BY DEF ByKey
  <2> HIDE DEF todo
  <2>5. Sweeps(c, "halt", todo, {})
    BY <1>1, <2>2, <2>3, SweepsParts
  <2>6. \A d \in Clients : client[d] = IdleClient
    BY <1>5 DEF CallsApart
  <2>7. runStates'[lane] = "paused"
    BY <2>3 DEF TypeOK
  <2>8. Sweeping(c, "halt", todo, {})
    BY <2>3, <2>4, <2>5, <2>6, <2>7 DEF Sweeping
  <2> QED BY <2>8
<1>6. CASE SweepDrained(c)
  <2> DEFINE k == client[c]
  <2>1. /\ k # IdleClient /\ inFlight[k.lease] = {}
        /\ SweepOn(c, k.op, k.lane, k.todo, {k.item})
        /\ UNCHANGED <<runningTasks, inFlight, lifecycle, dispatched, runStates>>
    BY <1>6 DEF SweepDrained, counterVars
  <2>2. k \in Sweep
    BY <2>1 DEF TypeOK
  <2>3. /\ k.op \in {"cancel", "cancelAll", "halt"} /\ k.lane \in Lanes /\ k.todo \in Snapshot
        /\ {k.item} \in SUBSET Items
    BY <2>2 DEF Sweep
  <2>4. KeysApart(k.todo)
    BY <2>1 DEF WaitingCallsHold, WaitingCallHolds
  <2>5. Sweeps(c, k.op, k.todo, {k.item})
    BY <2>1, <2>3, <2>4, SweepsParts
  <2>6. Sweeping(c, k.op, k.todo, {k.item})
    BY <2>1, <2>5 DEF Sweeping
  <2> QED BY <2>6
<1> QED BY <1>3, <1>4, <1>5, <1>6

\* Every step is of one of these kinds.
LEMMA EmissionKinds ==
  ASSUME TypeOK, EntriesLive, OrderIsTotal, WaitingCallsHold, CallsApart, Next
  PROVE  \/ Steady
         \/ \E l \in Leases, kind \in EmitKinds : EmitBegin(l, kind)
         \/ \E s \in Scans, i \in Items, p \in Providers : ScanClaim(s, i, p)
         \/ \E l \in Leases : Ends(l)
         \/ \E c \in Clients : \E op, todo, drained : Sweeping(c, op, todo, drained)
         \/ Start \/ Shutdown \/ Crash
<1> USE DEF storeVars, outputVars, counterVars
<1>1. rows \in Rows /\ report \in Reports
  BY DEF TypeOK, Rows, Reports
<1>2. /\ Kept(report) /\ (\A S : Kept(DropReports(report, S)))
      /\ \A i, l, t : t \in {"live", "settled"} => Kept(CommitReport(report, i, l, t))
  BY <1>1, KeptReports
<1>3. NoneBack(rows)
  BY DEF NoneBack, BackInQueue
<1> DEFINE Calmly == /\ UNCHANGED <<runningTasks, active, client, dispatched, worker, inFlight>>
                     /\ lifecycle' = lifecycle /\ runStates' = runStates
<1>4. ASSUME Calmly, NEW r, Saved(r), NoneBack(r), Kept(report') PROVE Steady
  BY <1>4, AgesSaved DEF Steady
<1>5. ASSUME Calmly, UNCHANGED <<rows, report>> PROVE Steady
  BY <1>2, <1>3, <1>5 DEF Steady
<1>6. ASSUME NEW i \in Items, Enqueue(i) PROVE Steady
  <2> DEFINE k == NextOrderingKey(rows, LaneOf[i])
  <2>1. /\ k \in 1..MaxKey
        /\ DispatchScan(Insert(rows, i, k), report, runStates, lifecycle, FALSE)
    BY <1>6 DEF Enqueue
  <2> HIDE DEF k
  <2>2. rows[i].state = "absent" /\ Calmly
    BY <1>6 DEF Enqueue
  <2>3. k \in Nat
    BY <2>1, EngineAssumption
  <2> QED BY <1>1, <1>2, <1>4, <2>1, <2>2, <2>3, SavedByScan, DispatchScanKeeps, NoneBackWritten
<1>7. ASSUME NEW i \in Items, EnqueueDuplicate(i) PROVE Steady
  BY <1>2, <1>3, <1>4, <1>7, SavedByScan, DispatchScanKeeps DEF EnqueueDuplicate
<1>8. ASSUME NEW i \in Items, Retry(i) PROVE Steady
  <2> DEFINE k == NextOrderingKey(rows, LaneOf[i])
  <2>1. /\ k \in 1..MaxKey
        /\ DispatchScan(RetryItem(rows, i, k), DropReports(report, {i}), runStates, lifecycle, FALSE)
    BY <1>8 DEF Retry
  <2> HIDE DEF k
  <2>2. Calmly
    BY <1>8 DEF Retry
  <2>3. k \in Nat
    BY <2>1, EngineAssumption
  <2> QED BY <1>1, <1>2, <1>4, <2>1, <2>2, <2>3, SavedByScan, DispatchScanKeeps, NoneBackWritten
<1>9. ASSUME NEW i \in Items, NEW before, Reorder(i, before) PROVE Steady
  <2>1. PICK k \in Nat : rows' = UpdateOrderingKey(rows, i, k)
    BY <1>9 DEF Reorder
  <2>2. rows[i].state = "queued" /\ Calmly /\ report' = report
    BY <1>9 DEF Reorder
  <2> QED BY <1>1, <1>2, <1>4, <2>1, <2>2, NoneBackWritten DEF Saved
<1>10. ASSUME NEW lane \in Lanes, Pause(lane) PROVE Steady
  BY <1>2, <1>3, <1>10 DEF Pause, Steady, TypeOK
<1>11. ASSUME NEW lane \in Lanes, Resume(lane) PROVE Steady
  <2>1. /\ DispatchScan(ClearAdmissionWait(rows, lane), report, runStates', lifecycle, FALSE)
        /\ runStates' = [runStates EXCEPT ![lane] = "running"]
        /\ UNCHANGED <<runningTasks, active, client, dispatched, worker, inFlight, lifecycle>>
    BY <1>11 DEF Resume
  <2>2. Saved(ClearAdmissionWait(rows, lane)) /\ Kept(report')
    BY <1>2, <2>1, SavedByScan, DispatchScanKeeps
  <2>3. NoneBack(ClearAdmissionWait(rows, lane))
    BY <1>1 DEF ClearAdmissionWait, NoneBack, BackInQueue, Rows, Row
  <2>4. NoneBack(rows')
    BY <2>2, <2>3, AgesSaved
  <2>5. \A x \in Lanes : runStates'[x] = "running" => runStates[x] = "running" \/ Resume(x)
    BY <1>11, <2>1 DEF TypeOK
  <2> QED BY <2>1, <2>2, <2>4, <2>5 DEF Steady
<1>12. ASSUME NEW s \in Scans, NEW i \in Items, ScanNoRoute(s, i) PROVE Steady
  <2>1. PICK r \in {rows, RecordAdmissionWait(rows, i)} : NextItem(s, i, r, report)
    BY <1>12 DEF ScanNoRoute
  <2>2. Saved(r) /\ Kept(report') /\ NoneBack(r)
    BY <1>1, <1>2, <1>3, <2>1, SavedByItem, NextItemKeeps, NoneBackWritten
  <2> QED BY <1>4, <1>12, <2>2 DEF ScanNoRoute
<1>13. ASSUME NEW s \in Scans, NEW i \in Items, ScanStopped(s, i) PROVE Steady
  <2>1. PICK next, p : Save(rows, report, p)
    BY <1>13 DEF ScanStopped, Proceed
  <2>2. Saved(rows) /\ Kept(report')
    BY <1>2, <2>1, KeptSaved DEF Save, Saved
  <2> QED BY <1>3, <1>4, <1>13, <2>2 DEF ScanStopped
<1>14. ASSUME NEW s \in Scans, NEW i \in Items, NEW p \in Providers, ScanSkip(s, i, p)
       PROVE  Steady
  BY <1>2, <1>3, <1>4, <1>14, SavedByItem, NextItemKeeps DEF ScanSkip
<1>15. ASSUME NEW s \in Scans, NEW i \in Items, NEW p \in Providers, ScanClaimUndone(s, i, p)
       PROVE  Steady
  <2> DEFINE r == Requeue(MarkRunning(rows, i, p), i)
  <2>1. NextItem(s, i, r, report) /\ rows[i].state = "queued" /\ Calmly
    BY <1>15 DEF ScanClaimUndone, MayClaim
  <2>2. NoneBack(r)
    BY <1>1, <2>1, NoneBackWritten
  <2> HIDE DEF r
  <2> QED BY <1>2, <1>4, <2>1, <2>2, SavedByItem, NextItemKeeps
<1>16. ASSUME NEW l \in Leases, NEW kind \in EmitKinds, EmitCommit(l, kind) PROVE Steady
  <2>1. /\ UNCHANGED <<runningTasks, active, client, dispatched, worker, lifecycle, runStates, rows>>
        /\ inFlight' = [inFlight EXCEPT ![l] = @ \ {kind}]
    BY <1>16 DEF EmitCommit
  <2>2. \A k \in Leases : inFlight'[k] \subseteq inFlight[k]
    BY <2>1 DEF TypeOK
  <2>3. kind # "begin" => Kept(report')
    BY <1>2, <1>16 DEF EmitCommit
  <2> QED BY <1>3, <1>16, <2>1, <2>2, <2>3 DEF Steady
<1>17. ASSUME NEW w \in Waiters, WaitRegister(w) \/ WaitDeadline(w) \/ \E i \in Items : WaitCall(w, i)
       PROVE  Steady
  BY <1>5, <1>17 DEF WaitRegister, WaitDeadline, WaitCall
<1>18. CASE ShutdownDrained \/ ShutdownDeadline \/ ShutdownAgain
  BY <1>2, <1>3, <1>18 DEF ShutdownDrained, ShutdownDeadline, ShutdownAgain, Steady
<1> HIDE DEF Calmly
<1> QED
  <2>1. CASE \E i \in Items : Request(i)
    BY <2>1, <1>6, <1>7, <1>8, <1>9, <1>17, SweepingParts DEF Request
  <2>2. CASE \E i \in Items : LaneRequest(LaneOf[i])
    BY <2>2, <1>10, <1>11, SweepingParts, StoreAssumption DEF LaneRequest
  <2>3. CASE \E s \in Scans : ScanStep(s)
    BY <2>3, <1>12, <1>13, <1>14, <1>15 DEF ScanStep
  <2>4. CASE \E l \in Leases : WorkerStep(l)
    BY <2>4, EndsParts DEF WorkerStep
  <2>5. CASE \/ \E c \in Clients : CancelAllInFlight(c) \/ SweepDrained(c)
    BY <2>5, SweepingParts
  <2>6. CASE \/ \E l \in Leases, k \in EmitKinds : EmitBegin(l, k) \/ EmitCommit(l, k)
             \/ \E w \in Waiters : WaitRegister(w) \/ WaitDeadline(w)
    BY <2>6, <1>16, <1>17
  <2> QED BY <2>1, <2>2, <2>3, <2>4, <2>5, <2>6, <1>18 DEF Next

\* A claim takes a waiting job of a lane that runs, and gives its report away.
Takes(s, i, l) ==
  /\ l = dispatched + 1 /\ l \in Leases /\ dispatched' = l
  /\ lifecycle = "running" /\ lifecycle' = "running"
  /\ rows[i].state = "queued" /\ runStates[scan[s].lane] = "running" /\ scan[s].todo[i] # 0
  /\ UNCHANGED <<runStates, inFlight, client>>
  /\ active' = [active EXCEPT ![i] = l]
  /\ runningTasks' = [runningTasks EXCEPT ![i] = l]
  /\ worker'[l].item = i /\ worker'[l].attempt = rows[i].attempt
  /\ \A k \in Leases \ {l} : worker'[k] = worker[k]
  /\ rows'[i].state # "queued" /\ NoneBack(rows')
  /\ \A j \in Items : report'[j].targets # "absent" =>
       IF j = i THEN report'[j].exec = l
       ELSE report[j].targets # "absent" /\ report'[j].exec = report[j].exec

\* What a claim changes.
LEMMA TakesParts ==
  ASSUME TypeOK, NEW s \in Scans, NEW i \in Items, NEW p \in Providers, ScanClaim(s, i, p)
  PROVE  Takes(s, i, dispatched + 1)
<1> DEFINE l == dispatched + 1
           m == MarkRunning(rows, i, p)
           rep == ActivateReport(report, i, l)
           new == [pc |-> "running", item |-> i, attempt |-> rows[i].attempt,
                   provider |-> p, told |-> FALSE, result |-> "success"]
<1>1. rows \in Rows /\ report \in Reports
  BY DEF TypeOK, Rows, Reports
<1>2. /\ l \in Leases /\ dispatched' = l
      /\ rows[i].state = "queued" /\ scan[s].todo[i] # 0
      /\ lifecycle = "running" /\ runStates[scan[s].lane] = "running"
      /\ NextItem(s, i, m, rep)
      /\ active' = [active EXCEPT ![i] = l]
      /\ runningTasks' = [runningTasks EXCEPT ![i] = l]
      /\ worker' = [worker EXCEPT ![l] = new]
      /\ UNCHANGED <<lifecycle, runStates, inFlight, client>>
  BY DEF ScanClaim, MayClaim, ScanOpen, Walking, First
<1>3. m[i].state = "running" /\ NoneBack(m)
  BY <1>1, <1>2, MarkRunningStarts, NoneBackWritten
<1>4. \A j \in Items : rep[j].targets # "absent" =>
        IF j = i THEN rep[j].exec = l
        ELSE report[j].targets # "absent" /\ rep[j].exec = report[j].exec
  BY <1>1 DEF ActivateReport, Reports
<1> HIDE DEF m, rep, new
<1>5. Saved(m)
  BY <1>2, SavedByItem
<1>6. rows'[i].state # "queued" /\ NoneBack(rows')
  BY <1>3, <1>5, AgesSaved DEF Saved, Delete, NoRow
<1>7. PICK prune : Save(m, rep, prune)
  BY <1>2 DEF NextItem, Proceed
<1>8. \A j \in Items : report'[j].targets # "absent" => report'[j] = rep[j]
  BY <1>7 DEF Save, DropReports, NoReport
<1>9. worker'[l] = new /\ \A k \in Leases \ {l} : worker'[k] = worker[k]
  BY <1>2 DEF TypeOK
<1>10. worker'[l].item = i /\ worker'[l].attempt = rows[i].attempt
  BY <1>9 DEF new
<1>11. \A j \in Items : report'[j].targets # "absent" =>
         IF j = i THEN report'[j].exec = l
         ELSE report[j].targets # "absent" /\ report'[j].exec = report[j].exec
  BY <1>4, <1>8
<1> QED BY <1>2, <1>6, <1>9, <1>10, <1>11 DEF Takes
-------------------------------------------------------------------------------
(* Each conjunct of the invariant, one step per kind of step. *)

EmissionPre ==
  TypeOK /\ EntriesLive /\ CreatedEmpty /\ OrderIsTotal /\ EmissionInv /\ CallsApart /\ Next

\* The steps of EmissionKinds, with what they do.
Kinds ==
  \/ Steady
  \/ \E l \in Leases, kind \in EmitKinds : EmitBegin(l, kind)
  \/ \E s \in Scans, i \in Items, l \in Leases : Takes(s, i, l)
  \/ \E l \in Leases : Ends(l)
  \/ \E c \in Clients : \E op, todo, drained : Sweeping(c, op, todo, drained)
  \/ Start \/ Shutdown \/ Crash

\* Every step is of one of the kinds.
LEMMA EveryKind == ASSUME EmissionPre PROVE Kinds
<1>1. ASSUME NEW s \in Scans, NEW i \in Items, NEW p \in Providers, ScanClaim(s, i, p)
      PROVE  \E l \in Leases : Takes(s, i, l)
  <2>1. Takes(s, i, dispatched + 1)
    BY <1>1, TakesParts DEF EmissionPre
  <2> QED BY <2>1 DEF Takes
<1> QED BY <1>1, EmissionKinds DEF EmissionPre, EmissionInv, Kinds

\* A dispatch in the midst of its work was there before, or has just been claimed.
GoesOn(l) ==
  /\ worker[l].pc \in Live
  /\ worker'[l].item = worker[l].item /\ worker'[l].attempt = worker[l].attempt

\* A dispatch goes forward, and keeps its job and its attempt.
LEMMA WorkersGoOn ==
  ASSUME EmissionPre, NEW l \in Leases, worker'[l].pc \in Live
  PROVE  GoesOn(l) \/ \E s \in Scans, i \in Items : Takes(s, i, l)
<1>1. Kinds /\ TypeOK
  BY EveryKind DEF EmissionPre
<1>2. CASE Steady
  BY <1>2 DEF Steady, GoesOn
<1>3. CASE \E k \in Leases, kind \in EmitKinds : EmitBegin(k, kind)
  BY <1>3 DEF EmitBegin, GoesOn
<1>4. ASSUME NEW s \in Scans, NEW i \in Items, NEW k \in Leases, Takes(s, i, k)
      PROVE  GoesOn(l) \/ Takes(s, i, l)
  BY <1>4 DEF Takes, GoesOn
<1>5. CASE \E k \in Leases : Ends(k)
  BY <1>5 DEF Ends, GoesOn
<1>6. CASE \E c \in Clients : \E op, todo, drained : Sweeping(c, op, todo, drained)
  BY <1>6 DEF Sweeping, Sweeps, GoesOn
<1>7. CASE Start
  BY <1>7 DEF Start, GoesOn
<1>8. CASE Shutdown
  <2> DEFINE held == {runningTasks[i] : i \in Items} \ {NoLease}
  <2>1. worker'[l] = IF l \in held THEN [worker[l] EXCEPT !.told = TRUE] ELSE worker[l]
    BY <1>8 DEF Shutdown
  <2>2. l \in held => worker[l].pc \in Live
    BY DEF EmissionPre, EntriesLive
  <2> QED BY <1>1, <2>1, <2>2, ToldType DEF GoesOn
<1>9. CASE Crash
  BY <1>9 DEF Crash, NoWorker, Live
<1> QED BY <1>1, <1>2, <1>3, <1>4, <1>5, <1>6, <1>7, <1>8, <1>9 DEF Kinds

\* A dispatch that is not behind its row after a step was not behind it before.
LEMMA CurrentBefore ==
  ASSUME EmissionPre, NEW l \in Leases, GoesOn(l), Current(l)'
  PROVE  LET i == worker[l].item IN
         /\ i \in Items /\ Current(l) /\ rows[i].state # "absent"
         /\ rows'[i].attempt = rows[i].attempt
<1> DEFINE i == worker[l].item
<1>1. /\ worker[l].pc \in Live /\ i \in Items /\ worker[l].attempt \in Nat
      /\ rows[i].attempt \in Nat
  BY LiveWorker DEF EmissionPre, GoesOn, Dispatch, TypeOK, Row
<1>2. rows'[i].state \notin {"absent", "pruned"} /\ rows'[i].attempt = worker[l].attempt
  BY DEF Current, CurrentAttempt, GoesOn
<1>3. rows[i].state # "absent" /\ (rows[i].state # "pruned" => worker[l].attempt <= rows[i].attempt)
  BY <1>1 DEF EmissionPre, EmissionInv, AttemptsAdvance
<1>4. Ages(rows')
  BY RowsAge DEF EmissionPre
<1>5. rows[i].state # "pruned" /\ rows[i].attempt <= rows'[i].attempt
  BY <1>1, <1>2, <1>3, <1>4 DEF Ages
<1>6. rows[i].attempt = worker[l].attempt
  BY <1>1, <1>2, <1>3, <1>5
<1> QED BY <1>1, <1>2, <1>3, <1>5, <1>6 DEF Current, CurrentAttempt

LEMMA AttemptsStep == ASSUME EmissionPre PROVE AttemptsAdvance'
<1> SUFFICES ASSUME NEW l \in Leases, worker'[l].pc \in Live
             PROVE  LET row == rows'[worker'[l].item] IN
                    /\ row.state # "absent"
                    /\ row.state # "pruned" => worker'[l].attempt <= row.attempt
  BY DEF AttemptsAdvance
<1>1. Ages(rows') /\ TypeOK /\ TypeOK' /\ AttemptsAdvance
  BY RowsAge, TypeStep DEF EmissionPre, EmissionInv
<1>2. \A i \in Items : rows[i].attempt \in Nat /\ rows'[i].attempt \in Nat
  BY <1>1 DEF TypeOK, Row
<1>3. CASE GoesOn(l)
  <2> DEFINE i == worker[l].item
  <2>1. worker[l].pc \in Live /\ i \in Items /\ worker[l].attempt \in Nat
    BY <1>1, <1>3, LiveWorker DEF GoesOn, Dispatch
  <2>2. rows[i].state # "absent" /\ (rows[i].state # "pruned" => worker[l].attempt <= rows[i].attempt)
    BY <1>1, <2>1 DEF AttemptsAdvance
  <2>3. /\ rows'[i].state # "absent"
        /\ rows'[i].state # "pruned" => rows[i].state # "pruned" /\ rows[i].attempt <= rows'[i].attempt
    BY <1>1, <2>1, <2>2 DEF Ages
  <2> QED BY <1>2, <1>3, <2>1, <2>2, <2>3 DEF GoesOn
<1>4. CASE \E s \in Scans, i \in Items : Takes(s, i, l)
  <2>1. PICK s \in Scans, i \in Items : Takes(s, i, l)
    BY <1>4
  <2>2. worker'[l].item = i /\ worker'[l].attempt = rows[i].attempt /\ rows[i].state = "queued"
    BY <2>1 DEF Takes
  <2> QED BY <1>1, <1>2, <2>2 DEF Ages
<1> QED BY <1>3, <1>4, WorkersGoOn

LEMMA EmissionsStep == ASSUME EmissionPre PROVE EmissionsLive'
<1> SUFFICES ASSUME NEW l \in Leases
             PROVE  /\ Begins(l)' => worker'[l].pc = "running"
                    /\ inFlight'[l] # {} => l <= dispatched' /\ lifecycle' # "created"
  BY DEF EmissionsLive
<1> DEFINE Goal == /\ Begins(l)' => worker'[l].pc = "running"
                   /\ inFlight'[l] # {} => l <= dispatched' /\ lifecycle' # "created"
<1>1. /\ Kinds /\ TypeOK /\ EntriesLive /\ CreatedEmpty
      /\ l \in Nat /\ dispatched \in Nat
  BY EveryKind DEF EmissionPre, TypeOK, Leases
<1>2. /\ Begins(l) => worker[l].pc = "running"
      /\ inFlight[l] # {} => l <= dispatched /\ lifecycle # "created"
  BY DEF EmissionPre, EmissionInv, EmissionsLive
<1>3. CASE Steady
  BY <1>2, <1>3 DEF Steady, Begins
<1>4. ASSUME NEW k \in Leases, NEW kind \in EmitKinds, EmitBegin(k, kind) PROVE Goal
  <2> DEFINE i == worker[k].item
  <2>1. /\ worker[k].pc = "running" /\ active[i] = k
        /\ inFlight' = [inFlight EXCEPT ![k] = @ \cup {kind}]
        /\ UNCHANGED <<worker, dispatched, lifecycle>>
    BY <1>4 DEF EmitBegin, counterVars
  <2>2. i \in Items /\ k # NoLease
    BY <1>1, <2>1, LiveWorker DEF Live, Dispatch, NoLease, Leases
  <2>3. runningTasks[i] = k
    BY <2>1, <2>2 DEF EmissionPre, EmissionInv, OpenLeaseHolds
  <2>4. k <= dispatched /\ lifecycle # "created"
    BY <1>1, <2>2, <2>3 DEF EntriesLive, CreatedEmpty
  <2>5. l # k => inFlight'[l] = inFlight[l]
    BY <1>1, <2>1 DEF TypeOK
  <2> QED BY <1>2, <2>1, <2>4, <2>5 DEF Begins
<1>5. ASSUME NEW s \in Scans, NEW i \in Items, NEW k \in Leases, Takes(s, i, k) PROVE Goal
  BY <1>1, <1>2, <1>5 DEF Takes, Begins
<1>6. ASSUME NEW k \in Leases, Ends(k) PROVE Goal
  BY <1>2, <1>6 DEF Ends, Begins
<1>7. CASE \E c \in Clients : \E op, todo, drained : Sweeping(c, op, todo, drained)
  BY <1>2, <1>7 DEF Sweeping, Sweeps, Begins, Live
<1>8. CASE Start
  BY <1>2, <1>8 DEF Start, Begins, outputVars
<1>9. CASE Shutdown
  <2>1. /\ worker'[l] \in {[worker[l] EXCEPT !.told = TRUE], worker[l]}
        /\ UNCHANGED <<inFlight, dispatched>> /\ lifecycle' = "shuttingDown"
    BY <1>9 DEF Shutdown, counterVars
  <2>2. worker[l].pc = "running" => worker'[l].pc = "running"
    BY <1>1, <2>1, ToldType DEF Live
  <2> QED BY <1>2, <2>1, <2>2 DEF Begins
<1>10. CASE Crash
  BY <1>10 DEF Crash, Begins
<1> QED BY <1>1, <1>3, <1>4, <1>5, <1>6, <1>7, <1>8, <1>9, <1>10 DEF Kinds

LEMMA OpenLeaseStep == ASSUME EmissionPre PROVE OpenLeaseHolds'
<1> SUFFICES ASSUME NEW i \in Items, NEW l, l = active'[i], l # NoLease
             PROVE  /\ runningTasks'[i] = l
                    /\ lifecycle' = "running" /\ Current(l)' => rows'[i].state # "queued"
  BY DEF OpenLeaseHolds, Current
<1> DEFINE Goal == /\ runningTasks'[i] = l
                   /\ lifecycle' = "running" /\ Current(l)' => rows'[i].state # "queued"
<1> SUFFICES Goal
  OBVIOUS
<1>1. Kinds /\ TypeOK /\ TypeOK'
  BY EveryKind, TypeStep DEF EmissionPre
<1>2. active[i] # NoLease =>
        /\ runningTasks[i] = active[i]
        /\ lifecycle = "running" /\ Current(active[i]) => rows[i].state # "queued"
        /\ active[i] \in Leases /\ worker[active[i]].pc \in Live /\ worker[active[i]].item = i
        /\ active[i] <= dispatched /\ lifecycle # "created"
  BY <1>1 DEF EmissionPre, EmissionInv, OpenLeaseHolds, EntriesLive, CreatedEmpty, TypeOK
\* The lease was open before, and its job has not been brought back.
<1>3. ASSUME l = active[i], runningTasks'[i] = runningTasks[i],
             lifecycle' = "running" => lifecycle = "running", GoesOn(l), ~BackInQueue(rows', i)
      PROVE  Goal
  <2>1. runningTasks'[i] = l
    BY <1>2, <1>3
  <2>2. ASSUME lifecycle' = "running", Current(l)' PROVE rows'[i].state # "queued"
    <3>1. /\ Current(l) /\ rows[i].state # "absent" /\ rows'[i].attempt = rows[i].attempt
      BY <1>2, <1>3, <2>2, CurrentBefore
    <3>2. rows[i].state # "queued"
      BY <1>2, <1>3, <2>2, <3>1
    <3> QED BY <1>3, <3>1, <3>2 DEF BackInQueue
  <2> QED BY <2>1, <2>2
<1>4. ASSUME NEW k \in Leases, worker' = worker, worker[k].pc \in Live PROVE GoesOn(k)
  BY <1>4 DEF GoesOn
<1> HIDE DEF Goal
<1>5. CASE Steady
  BY <1>2, <1>3, <1>4, <1>5 DEF Steady, NoneBack
<1>6. ASSUME NEW k \in Leases, NEW kind \in EmitKinds, EmitBegin(k, kind) PROVE Goal
  <2>1. UNCHANGED <<rows, lifecycle, runningTasks, active, worker>>
    BY <1>6 DEF EmitBegin, storeVars
  <2>2. ~BackInQueue(rows', i)
    BY <2>1 DEF BackInQueue
  <2> QED BY <1>2, <1>3, <1>4, <2>1, <2>2
<1>7. ASSUME NEW s \in Scans, NEW j \in Items, NEW k \in Leases, Takes(s, j, k) PROVE Goal
  <2>1. CASE i = j
    BY <1>1, <1>7, <2>1 DEF Takes, TypeOK, Goal
  <2>2. CASE i # j
    <3>1. l = active[i] /\ runningTasks'[i] = runningTasks[i] /\ lifecycle = "running"
          /\ ~BackInQueue(rows', i)
      BY <1>1, <1>7, <2>2 DEF Takes, TypeOK, NoneBack
    <3>2. l # k
      BY <1>1, <1>2, <1>7, <3>1 DEF Takes, TypeOK, Leases
    <3>3. GoesOn(l)
      BY <1>2, <1>7, <3>1, <3>2 DEF Takes, GoesOn
    <3> QED BY <1>3, <3>1, <3>3
  <2> QED BY <2>1, <2>2
<1>8. ASSUME NEW k \in Leases, Ends(k) PROVE Goal
  <2> DEFINE j == worker[k].item
  <2>1. /\ j \in Items
        /\ active' = Invalidated(j, k)
        /\ \/ runningTasks' = runningTasks
           \/ runningTasks[j] = k /\ runningTasks' = [runningTasks EXCEPT ![j] = NoLease]
        /\ BackInQueue(rows', i) => i = j /\ runningTasks[j] = k /\ runningTasks'[j] = NoLease
        /\ lifecycle' = lifecycle
    BY <1>8 DEF Ends, Dispatch
  <2>2. l = active[i] /\ ~(i = j /\ active[i] = k)
    <3>1. k # NoLease
      BY DEF NoLease, Leases
    <3> QED BY <1>1, <2>1, <3>1 DEF Invalidated, TypeOK
  <2>3. runningTasks[i] = l /\ l # k
    BY <1>2, <1>8, <2>2 DEF Ends
  <2>4. runningTasks'[i] = runningTasks[i] /\ ~BackInQueue(rows', i)
    BY <1>1, <2>1, <2>3 DEF TypeOK
  <2>5. GoesOn(l)
    BY <1>2, <1>8, <2>2, <2>3 DEF Ends, GoesOn
  <2> QED BY <1>3, <2>1, <2>2, <2>4, <2>5
<1>9. ASSUME NEW c \in Clients, NEW op, NEW todo, NEW drained, Sweeping(c, op, todo, drained)
      PROVE  Goal
  <2>1. Sweeps(c, op, todo, drained)
    BY <1>9 DEF Sweeping
  <2>2. /\ l = active[i] /\ runningTasks' = runningTasks /\ lifecycle' = lifecycle
    BY <2>1 DEF Sweeps
  <2>3. GoesOn(l)
    BY <1>2, <2>1, <2>2 DEF Sweeps, GoesOn
  <2>4. CASE lifecycle = "running"
    <3>1. ASSUME BackInQueue(rows', i) PROVE FALSE
      <4>1. op = "halt" /\ i \in drained
        BY <1>2, <2>1, <2>2, <3>1 DEF Sweeps
      <4>2. client[c] # IdleClient /\ client[c].op = "halt" /\ i = client[c].item
        BY <1>9, <4>1 DEF Sweeping
      <4>3. runningTasks[i] \in {NoLease, client[c].lease} /\ active[i] # client[c].lease
        BY <2>4, <4>2 DEF EmissionPre, EmissionInv, WaitingCallsHold, WaitingCallHolds
      <4> QED BY <1>2, <2>2, <4>3
    <3> QED BY <1>3, <2>2, <2>3, <3>1
  <2>5. CASE lifecycle # "running"
    BY <1>2, <2>2, <2>5 DEF Goal
  <2> QED BY <2>4, <2>5
<1>10. CASE Start
  BY <1>2, <1>10 DEF Start, outputVars
<1>11. CASE Shutdown \/ Crash
  BY <1>11 DEF Shutdown, Crash
<1> QED BY <1>1, <1>5, <1>6, <1>7, <1>8, <1>9, <1>10, <1>11 DEF Kinds

LEMMA WaitingStep == ASSUME EmissionPre PROVE WaitingCallsHold'
<1> SUFFICES ASSUME NEW c \in Clients, NEW k, k = client'[c], k # IdleClient
             PROVE  /\ WaitingCallHolds(k)'
                    /\ \A d \in Clients \ {c} : client'[d] = IdleClient
  BY DEF WaitingCallsHold, WaitingCallHolds
<1> DEFINE Goal == /\ WaitingCallHolds(k)'
                   /\ \A d \in Clients \ {c} : client'[d] = IdleClient
<1> SUFFICES Goal
  OBVIOUS
<1>1. Kinds /\ TypeOK /\ TypeOK'
  BY EveryKind, TypeStep DEF EmissionPre
<1>2. k \in Sweep /\ k.item \in Items /\ k.lease \in Leases /\ LaneOf[k.item] \in Lanes
  BY <1>1, StoreAssumption DEF TypeOK, Sweep
<1>3. client[c] = k =>
        /\ WaitingCallHolds(k) /\ \A d \in Clients \ {c} : client[d] = IdleClient
        /\ k.lease <= dispatched /\ lifecycle # "created" /\ active[k.item] # k.lease
  BY DEF EmissionPre, EmissionInv, WaitingCallsHold, WaitingCallHolds
\* The call waited before, and nothing that it relies on has changed.
<1>4. ASSUME client' = client, dispatched' >= dispatched,
             lifecycle' \in {"created", "running"} => lifecycle' = lifecycle,
             active'[k.item] # k.lease,
             k.op = "halt" /\ lifecycle' = "running" =>
               /\ runStates'[LaneOf[k.item]] # "running"
               /\ runningTasks'[k.item] \in {NoLease, k.lease}
      PROVE  Goal
  <2>1. WaitingCallHolds(k) /\ \A d \in Clients \ {c} : client'[d] = IdleClient
    BY <1>3, <1>4
  <2>2. k.lease <= dispatched' /\ lifecycle' # "created"
    BY <1>1, <1>2, <1>3, <1>4 DEF TypeOK, Leases
  <2> QED BY <1>4, <2>1, <2>2 DEF WaitingCallHolds
<1>5. client[c] = k /\ k.op = "halt" /\ lifecycle = "running" =>
        /\ runStates[LaneOf[k.item]] # "running"
        /\ runningTasks[k.item] \in {NoLease, k.lease}
  BY <1>3 DEF WaitingCallHolds
<1> HIDE DEF Goal
<1>6. CASE Steady
  <2>1. /\ UNCHANGED <<client, dispatched, active, runningTasks>>
        /\ lifecycle' \in {"created", "running"} => lifecycle' = lifecycle
        /\ \A lane \in Lanes : runStates'[lane] = "running" => runStates[lane] = "running" \/ Resume(lane)
    BY <1>6 DEF Steady
  <2>2. ASSUME k.op = "halt" PROVE ~\E lane \in Lanes : Resume(lane)
    BY <2>1, <2>2 DEF EmissionPre, CallsApart
  <2>3. dispatched' >= dispatched
    BY <1>1, <2>1 DEF TypeOK
  <2> QED BY <1>2, <1>3, <1>4, <1>5, <2>1, <2>2, <2>3
<1>7. ASSUME NEW l \in Leases, NEW kind \in EmitKinds, EmitBegin(l, kind) PROVE Goal
  <2>1. UNCHANGED <<client, dispatched, active, runningTasks, lifecycle, runStates>>
    BY <1>7 DEF EmitBegin, counterVars
  <2>2. dispatched' >= dispatched
    BY <1>1, <2>1 DEF TypeOK
  <2> QED BY <1>3, <1>4, <1>5, <2>1, <2>2
<1>8. ASSUME NEW s \in Scans, NEW i \in Items, NEW l \in Leases, Takes(s, i, l) PROVE Goal
  <2>1. /\ l = dispatched + 1 /\ dispatched' = l
        /\ lifecycle = "running" /\ lifecycle' = "running"
        /\ runStates[scan[s].lane] = "running" /\ scan[s].todo[i] # 0
        /\ UNCHANGED <<runStates, client>>
        /\ active' = [active EXCEPT ![i] = l]
        /\ runningTasks' = [runningTasks EXCEPT ![i] = l]
    BY <1>8 DEF Takes
  <2>2. LaneOf[i] = scan[s].lane
    BY <2>1 DEF EmissionPre, EmissionInv, ScanLanes
  <2>3. dispatched' >= dispatched /\ k.lease < l
    BY <1>1, <1>2, <1>3, <2>1 DEF TypeOK, Leases
  <2>4. active'[k.item] # k.lease
    BY <1>1, <1>2, <1>3, <2>1, <2>3 DEF TypeOK, Leases
  <2>5. k.op = "halt" => k.item # i
    BY <1>5, <2>1, <2>2
  <2>6. k.op = "halt" => runningTasks'[k.item] = runningTasks[k.item]
    BY <1>1, <1>2, <2>1, <2>5 DEF TypeOK
  <2> QED BY <1>4, <1>5, <2>1, <2>3, <2>4, <2>6
<1>9. ASSUME NEW l \in Leases, Ends(l) PROVE Goal
  <2> DEFINE j == worker[l].item
  <2>1. /\ j \in Items /\ active' = Invalidated(j, l)
        /\ \/ runningTasks' = runningTasks
           \/ runningTasks[j] = l /\ runningTasks' = [runningTasks EXCEPT ![j] = NoLease]
        /\ UNCHANGED <<client, dispatched, lifecycle, runStates>>
    BY <1>9 DEF Ends, Dispatch
  <2>2. active'[k.item] \in {active[k.item], NoLease}
    BY <1>1, <1>2, <2>1, InvalidatedType
  <2>3. active'[k.item] # k.lease
    BY <1>2, <1>3, <2>1, <2>2 DEF NoLease, Leases
  <2>4. runningTasks'[k.item] \in {runningTasks[k.item], NoLease}
    BY <1>1, <1>2, <2>1 DEF TypeOK
  <2>5. dispatched' >= dispatched
    BY <1>1, <2>1 DEF TypeOK
  <2> QED BY <1>4, <1>5, <2>1, <2>3, <2>4, <2>5
<1>10. ASSUME NEW d \in Clients, NEW op, NEW todo, NEW drained, Sweeping(d, op, todo, drained)
       PROVE  Goal
  <2>1. Sweeps(d, op, todo, drained)
    BY <1>10 DEF Sweeping
  <2>2. /\ UNCHANGED <<runningTasks, inFlight, lifecycle, dispatched>>
        /\ \A x \in Clients \ {d} : client'[x] = client[x]
        /\ \A i \in Items : active'[i] \in {active[i], NoLease}
    BY <2>1 DEF Sweeps
  <2>3. \A x \in Clients \ {d} : client[x] = IdleClient
    <3>1. CASE client[d] # IdleClient
      BY <3>1 DEF EmissionPre, EmissionInv, WaitingCallsHold
    <3>2. CASE client[d] = IdleClient
      BY <1>10, <3>2 DEF Sweeping
    <3> QED BY <3>1, <3>2
  <2>4. c = d
    BY <2>2, <2>3
  <2>5. /\ k.op = op /\ k.lease = runningTasks[k.item] /\ active'[k.item] = NoLease
        /\ KeysApart(k.todo)
        /\ op = "halt" => todo[k.item] # 0 /\ \A i \in Items : k.todo[i] # 0 => todo[i] # 0
    BY <2>1, <2>4 DEF Sweeps
  <2>6. k.lease # NoLease /\ k.lease <= dispatched /\ lifecycle # "created"
    BY <1>2, <2>5 DEF EmissionPre, EntriesLive, CreatedEmpty, NoLease, Leases
  <2>7. ASSUME op = "halt"
        PROVE  /\ \A i \in Items : k.todo[i] # 0 => LaneOf[i] = LaneOf[k.item]
               /\ lifecycle = "running" => runStates'[LaneOf[k.item]] # "running"
    <3>1. CASE client[c] = IdleClient
      <4>1. \A i \in Items : todo[i] # 0 =>
              /\ runStates'[LaneOf[i]] = "paused"
              /\ \A j \in Items : todo[j] # 0 => LaneOf[j] = LaneOf[i]
        BY <1>10, <2>4, <2>7, <3>1 DEF Sweeping
      <4> QED BY <1>2, <2>5, <2>7, <4>1
    <3>2. CASE client[c] # IdleClient
      <4>1. op = client[c].op /\ todo = client[c].todo /\ runStates' = runStates
        BY <1>10, <2>4, <3>2 DEF Sweeping
      <4>2. /\ \A i \in Items : todo[i] # 0 => LaneOf[i] = LaneOf[client[c].item]
            /\ lifecycle = "running" => runStates[LaneOf[client[c].item]] # "running"
        BY <2>7, <3>2, <4>1 DEF EmissionPre, EmissionInv, WaitingCallsHold, WaitingCallHolds
      <4> QED BY <1>2, <2>5, <2>7, <4>1, <4>2
    <3> QED BY <3>1, <3>2
  <2>8. WaitingCallHolds(k)'
    BY <2>2, <2>5, <2>6, <2>7 DEF WaitingCallHolds
  <2> QED BY <2>2, <2>3, <2>4, <2>8 DEF Goal
<1>11. CASE Start
  BY <1>3, <1>11 DEF Start
<1>12. CASE Shutdown
  <2>1. /\ UNCHANGED <<client, dispatched>> /\ lifecycle' = "shuttingDown"
        /\ active' = [i \in Items |-> NoLease]
    BY <1>12 DEF Shutdown, counterVars
  <2>2. active'[k.item] # k.lease /\ dispatched' >= dispatched
    BY <1>1, <1>2, <2>1 DEF NoLease, Leases, TypeOK
  <2> QED BY <1>4, <2>1, <2>2
<1>13. CASE Crash
  BY <1>13 DEF Crash
<1> QED BY <1>1, <1>6, <1>7, <1>8, <1>9, <1>10, <1>11, <1>12, <1>13 DEF Kinds

\* The lease of an item is closed, and a call waits for its emissions.
WaitedFor(cl, i, l) ==
  \E d \in Clients : cl[d] # IdleClient /\ cl[d].item = i /\ cl[d].lease = l

LEMMA BeginStep == ASSUME EmissionPre PROVE BeginHolds'
<1> SUFFICES ASSUME NEW l \in Leases, Begins(l)', Current(l)', NEW i, i = worker'[l].item
             PROVE  /\ runningTasks'[i] = l
                    /\ lifecycle' = "running" =>
                         /\ rows'[i].state # "queued"
                         /\ active'[i] = l \/ WaitedFor(client', i, l)
  BY DEF BeginHolds, Begins, Current, WaitedFor
<1> DEFINE Goal == /\ runningTasks'[i] = l
                   /\ lifecycle' = "running" =>
                        /\ rows'[i].state # "queued"
                        /\ active'[i] = l \/ WaitedFor(client', i, l)
<1> SUFFICES Goal
  OBVIOUS
<1>1. Kinds /\ TypeOK /\ EntriesLive /\ l # NoLease
  BY EveryKind DEF EmissionPre, NoLease, Leases
<1>2. Begins(l) => worker[l].pc \in Live /\ l <= dispatched /\ lifecycle # "created"
  BY DEF EmissionPre, EmissionInv, EmissionsLive, Begins, Live
\* If the emission was in flight before, the dispatch held its entry.
<1>3. ASSUME Begins(l), GoesOn(l)
      PROVE  /\ i \in Items /\ runningTasks[i] = l
             /\ rows[i].state # "absent" /\ rows'[i].attempt = rows[i].attempt
             /\ lifecycle = "running" =>
                  rows[i].state # "queued" /\ (active[i] = l \/ WaitedFor(client, i, l))
  <2>1. /\ i = worker[l].item /\ i \in Items /\ Current(l)
        /\ rows[i].state # "absent" /\ rows'[i].attempt = rows[i].attempt
    BY <1>3, CurrentBefore DEF GoesOn
  <2> QED BY <1>3, <2>1 DEF EmissionPre, EmissionInv, BeginHolds, WaitedFor
\* It still does, unless the step touches the entry, the row or the lease.
<1>4. ASSUME Begins(l), GoesOn(l), runningTasks'[i] = runningTasks[i],
             lifecycle' = "running" => lifecycle = "running",
             lifecycle' = "running" => ~BackInQueue(rows', i),
             lifecycle' = "running" =>
               \/ active'[i] = active[i] /\ client' = client
               \/ active'[i] = l \/ WaitedFor(client', i, l)
      PROVE  Goal
  <2>1. lifecycle' = "running" => rows'[i].state # "queued"
    BY <1>3, <1>4 DEF BackInQueue
  <2> QED BY <1>3, <1>4, <2>1
<1>5. ASSUME worker' = worker, Begins(l) PROVE GoesOn(l)
  BY <1>2, <1>5 DEF GoesOn
<1> HIDE DEF Goal
<1>6. CASE Steady
  <2>1. Begins(l)
    BY <1>6 DEF Steady, Begins
  <2>2. i \in Items
    BY <1>3, <1>5, <1>6, <2>1 DEF Steady
  <2> QED BY <1>4, <1>5, <1>6, <2>1, <2>2 DEF Steady, NoneBack
<1>7. ASSUME NEW k \in Leases, NEW kind \in EmitKinds, EmitBegin(k, kind) PROVE Goal
  <2>1. /\ worker[k].pc = "running" /\ active[worker[k].item] = k
        /\ inFlight' = [inFlight EXCEPT ![k] = @ \cup {kind}]
        /\ UNCHANGED <<rows, lifecycle, runningTasks, active, worker, client>>
    BY <1>7 DEF EmitBegin, storeVars
  <2>2. CASE Begins(l)
    <3>1. GoesOn(l)
      BY <1>5, <2>1, <2>2
    <3>2. ~BackInQueue(rows', i)
      BY <2>1 DEF BackInQueue
    <3> QED BY <1>4, <2>1, <2>2, <3>1, <3>2
  <2>3. CASE ~Begins(l)
    <3>1. k = l
      BY <1>1, <2>1, <2>3 DEF Begins, TypeOK
    <3>2. i = worker[l].item /\ active[i] = l /\ Current(l)
      BY <2>1, <3>1 DEF Current
    <3>3. i \in Items
      BY <1>1, <2>1, <3>1, <3>2, LiveWorker DEF Live, Dispatch
    <3>4. runningTasks[i] = l /\ (lifecycle = "running" => rows[i].state # "queued")
      BY <1>1, <3>2, <3>3 DEF EmissionPre, EmissionInv, OpenLeaseHolds
    <3> QED BY <2>1, <3>2, <3>4 DEF Goal
  <2> QED BY <2>2, <2>3
<1>8. ASSUME NEW s \in Scans, NEW j \in Items, NEW k \in Leases, Takes(s, j, k) PROVE Goal
  <2>1. Begins(l) /\ lifecycle = "running" /\ lifecycle' = "running" /\ client' = client
    BY <1>8 DEF Takes, Begins
  <2>2. l # k
    BY <1>1, <1>2, <1>8, <2>1 DEF Takes, TypeOK, Leases
  <2>3. GoesOn(l)
    BY <1>2, <1>8, <2>1, <2>2 DEF Takes, GoesOn
  <2>4. i \in Items /\ i # j
    BY <1>3, <1>8, <2>1, <2>3 DEF Takes
  <2>5. runningTasks'[i] = runningTasks[i] /\ active'[i] = active[i]
    BY <1>1, <1>8, <2>4 DEF Takes, TypeOK
  <2>6. ~BackInQueue(rows', i)
    BY <1>8, <2>4 DEF Takes, NoneBack
  <2> QED BY <1>4, <2>1, <2>3, <2>5, <2>6
<1>9. ASSUME NEW k \in Leases, Ends(k) PROVE Goal
  <2> DEFINE j == worker[k].item
  <2>1. Begins(l) /\ client' = client /\ lifecycle' = lifecycle /\ ~Begins(k) /\ j \in Items
    BY <1>9 DEF Ends, Begins, Dispatch
  <2>2. l # k
    BY <2>1
  <2>3. GoesOn(l)
    BY <1>2, <1>9, <2>1, <2>2 DEF Ends, GoesOn
  <2>4. i \in Items /\ runningTasks[i] = l
    BY <1>3, <2>1, <2>3
  <2>5. /\ active' = Invalidated(j, k)
        /\ \/ runningTasks' = runningTasks
           \/ runningTasks[j] = k /\ runningTasks' = [runningTasks EXCEPT ![j] = NoLease]
        /\ BackInQueue(rows', i) => i = j /\ runningTasks[j] = k
    BY <1>9, <2>4 DEF Ends
  <2>6. runningTasks'[i] = runningTasks[i] /\ ~BackInQueue(rows', i)
    BY <1>1, <2>1, <2>2, <2>4, <2>5 DEF TypeOK
  <2>7. active'[i] = active[i] \/ (i = j /\ active[i] = k)
    BY <1>1, <2>1, <2>4, <2>5 DEF Invalidated, TypeOK
  <2>8. lifecycle = "running" /\ active[i] = k => WaitedFor(client', i, l)
    BY <1>3, <2>1, <2>2, <2>3
  <2> QED BY <1>4, <2>1, <2>3, <2>6, <2>7, <2>8
<1>10. ASSUME NEW c \in Clients, NEW op, NEW todo, NEW drained, Sweeping(c, op, todo, drained)
       PROVE  Goal
  <2>1. /\ Sweeps(c, op, todo, drained)
        /\ UNCHANGED <<runningTasks, inFlight, lifecycle, dispatched>>
    BY <1>10 DEF Sweeping, Sweeps
  <2>2. Begins(l) /\ inFlight[l] # {}
    BY <2>1 DEF Begins
  <2>3. GoesOn(l)
    BY <1>2, <2>1, <2>2 DEF Sweeps, GoesOn
  <2>4. i \in Items /\ runningTasks[i] = l
    BY <1>3, <2>2, <2>3
  <2>5. /\ active'[i] \in {active[i], NoLease}
        /\ BackInQueue(rows', i) =>
             /\ op = "halt"
             /\ i \notin drained => ~MustDrain(i, l) /\ (active[i] = l => active'[i] = NoLease)
        /\ active'[i] # active[i] /\ MustDrain(i, l) => WaitedFor(client', i, l)
        /\ \A d \in Clients \ {c} : client'[d] = client[d]
    BY <2>1, <2>4 DEF Sweeps, WaitedFor
  \* The call cannot have waited for l, whose emission is in flight.
  <2>6. \/ client[c] # IdleClient /\ client[c].lease # l /\ drained = {client[c].item}
           /\ op = client[c].op /\ \A d \in Clients \ {c} : client[d] = IdleClient
        \/ drained = {} /\ \A d \in Clients : client[d] = IdleClient
    BY <1>10, <2>2 DEF Sweeping, EmissionPre, EmissionInv, WaitingCallsHold
  <2>7. ~WaitedFor(client, i, l)
    BY <2>6 DEF WaitedFor
  <2>8. CASE lifecycle = "running"
    <3>1. active[i] = l /\ MustDrain(i, l)
      BY <1>1, <1>3, <2>2, <2>3, <2>7, <2>8 DEF MustDrain
    <3>2. i \notin drained \/ op # "halt"
      <4>1. ASSUME op = "halt", i \in drained PROVE FALSE
        <5>1. client[c] # IdleClient /\ client[c].op = "halt" /\ i = client[c].item
              /\ client[c].lease # l
          BY <2>6, <4>1
        <5>2. runningTasks[i] \in {NoLease, client[c].lease}
          BY <2>8, <5>1 DEF EmissionPre, EmissionInv, WaitingCallsHold, WaitingCallHolds
        <5> QED BY <1>1, <2>4, <5>1, <5>2
      <4> QED BY <4>1
    <3>3. ~BackInQueue(rows', i)
      BY <2>5, <3>1, <3>2
    <3>4. active'[i] = l \/ WaitedFor(client', i, l)
      BY <2>5, <3>1
    <3> QED BY <1>4, <2>1, <2>2, <2>3, <3>3, <3>4
  <2>9. CASE lifecycle # "running"
    BY <1>3, <2>1, <2>2, <2>3, <2>9 DEF Goal
  <2> QED BY <2>8, <2>9
<1>11. CASE Start
  BY <1>2, <1>11 DEF Start, outputVars, Begins
<1>12. CASE Shutdown
  <2>1. /\ UNCHANGED <<inFlight, runningTasks>> /\ lifecycle' = "shuttingDown"
        /\ worker'[l] \in {[worker[l] EXCEPT !.told = TRUE], worker[l]}
    BY <1>12 DEF Shutdown
  <2>2. Begins(l)
    BY <2>1 DEF Begins
  <2>3. GoesOn(l)
    BY <1>1, <1>2, <2>1, <2>2, ToldType DEF GoesOn
  <2> QED BY <1>3, <2>1, <2>2, <2>3 DEF Goal
<1>13. CASE Crash
  BY <1>13 DEF Crash, Begins
<1> QED BY <1>1, <1>6, <1>7, <1>8, <1>9, <1>10, <1>11, <1>12, <1>13 DEF Kinds

\* A report changes hands only when its item is claimed, or when an emission of
\* the dispatch that holds the item's entry commits.
LEMMA OwnedStep == ASSUME EmissionPre PROVE ReportOwnedByDispatch'
<1> SUFFICES ASSUME NEW i \in Items, runningTasks'[i] # NoLease, report'[i].targets # "absent"
             PROVE  report'[i].exec = runningTasks'[i]
  BY DEF ReportOwnedByDispatch
<1>1. Kinds /\ TypeOK /\ ReportOwnedByDispatch
  BY EveryKind DEF EmissionPre, EmissionInv
<1>2. ASSUME runningTasks'[i] = runningTasks[i], Kept(report')
      PROVE  report'[i].exec = runningTasks'[i]
  BY <1>1, <1>2 DEF ReportOwnedByDispatch, Kept
<1>3. report' = report => Kept(report')
  BY DEF Kept
<1>4. CASE Steady
  <2>1. CASE Kept(report')
    BY <1>2, <1>4, <2>1 DEF Steady
  <2>2. ASSUME NEW l \in Leases, EmitCommit(l, "begin") PROVE report'[i].exec = runningTasks'[i]
    <3> DEFINE j == worker[l].item
    <3>1. /\ Begins(l) /\ runningTasks' = runningTasks
          /\ report' = IF Current(l) THEN BeginReport(report, j, l) ELSE report
      BY <2>2 DEF EmitCommit, Begins, Current
    <3>2. CASE Current(l)
      <4>1. runningTasks[j] = l /\ report' = BeginReport(report, j, l)
        BY <3>1, <3>2 DEF EmissionPre, EmissionInv, BeginHolds
      <4>2. CASE i = j
        BY <1>1, <3>1, <4>1, <4>2 DEF BeginReport, TypeOK, Report
      <4>3. CASE i # j
        <5>1. report'[i] = report[i]
          BY <1>1, <4>1, <4>3 DEF BeginReport, TypeOK
        <5> QED BY <1>1, <3>1, <5>1 DEF ReportOwnedByDispatch
      <4> QED BY <4>2, <4>3
    <3>3. CASE ~Current(l)
      BY <1>2, <1>3, <3>1, <3>3
    <3> QED BY <3>2, <3>3
  <2> QED BY <1>4, <2>1, <2>2 DEF Steady
<1>5. CASE \E l \in Leases, kind \in EmitKinds : EmitBegin(l, kind)
  BY <1>2, <1>3, <1>5 DEF EmitBegin, storeVars
<1>6. ASSUME NEW s \in Scans, NEW j \in Items, NEW l \in Leases, Takes(s, j, l)
      PROVE  report'[i].exec = runningTasks'[i]
  BY <1>1, <1>6 DEF Takes, ReportOwnedByDispatch, TypeOK
<1>7. ASSUME NEW l \in Leases, Ends(l) PROVE report'[i].exec = runningTasks'[i]
  <2>1. runningTasks'[i] = runningTasks[i]
    BY <1>1, <1>7 DEF Ends, Dispatch, TypeOK
  <2> QED BY <1>2, <1>7, <2>1 DEF Ends
<1>8. CASE \E c \in Clients : \E op, todo, drained : Sweeping(c, op, todo, drained)
  BY <1>2, <1>8 DEF Sweeping, Sweeps
<1>9. CASE Start
  BY <1>9 DEF Start, EmissionPre, CreatedEmpty
<1>10. CASE Shutdown
  BY <1>2, <1>3, <1>10 DEF Shutdown
<1>11. CASE Crash
  BY <1>11 DEF Crash
<1> QED BY <1>1, <1>4, <1>5, <1>6, <1>7, <1>8, <1>9, <1>10, <1>11 DEF Kinds

\* A snapshot is of one lane, and a scan keeps to it.
InLane(x) == \A i \in Items : x.todo[i] # 0 => LaneOf[i] = x.lane

\* A scan starts with jobs of its lane.
LEMMA ScanFromLane ==
  ASSUME NEW r, NEW rs, NEW lane, NEW prune
  PROVE  InLane(ScanFrom(r, rs, lane, prune)) /\ InLane(IdleScan)
<1> DEFINE view(l) == IF rs[l] = "running" THEN ByKey(r, l, "queued") ELSE NoItems
           at == IF lane = "extraction" /\ view("extraction") # NoItems
                 THEN "extraction" ELSE "ingestion"
<1>1. \A l : \A i \in Items : view(l)[i] # 0 => LaneOf[i] = l
  BY DEF ByKey, NoItems
<1>2. InLane(IdleScan)
  BY DEF InLane, IdleScan, NoItems
<1>3. view(at) # NoItems => /\ ScanFrom(r, rs, lane, prune).todo = view(at)
                            /\ ScanFrom(r, rs, lane, prune).lane = at
  BY DEF ScanFrom
<1>4. view(at) = NoItems => ScanFrom(r, rs, lane, prune) = IdleScan
  BY DEF ScanFrom
<1> HIDE DEF view, at
<1> QED BY <1>1, <1>2, <1>3, <1>4 DEF InLane

LEMMA ScansStep == ASSUME EmissionPre PROVE ScanLanes'
<1> SUFFICES ASSUME NEW x \in Scans PROVE InLane(scan'[x])
  BY DEF ScanLanes, InLane
<1>1. TypeOK /\ \A s \in Scans : InLane(scan[s])
  BY DEF EmissionPre, EmissionInv, ScanLanes, InLane
<1>2. scan' = scan => InLane(scan'[x])
  BY <1>1
<1>3. ASSUME NEW s \in Scans, NEW next, InLane(next), scan' = [scan EXCEPT ![s] = next]
      PROVE  InLane(scan'[x])
  BY <1>1, <1>3 DEF TypeOK
<1>4. ASSUME NEW r, NEW rep, NEW rs, NEW lc, NEW prune, DispatchScan(r, rep, rs, lc, prune)
      PROVE  InLane(scan'[x])
  <2> DEFINE new == IF lc = "running" THEN ScanFrom(r, rs, "extraction", prune) ELSE IdleScan
  <2>1. InLane(new)
    BY ScanFromLane
  <2>2. \/ scan' = scan
        \/ \E s \in Scans : scan' = [scan EXCEPT ![s] = new]
    BY <1>4 DEF DispatchScan
  <2> HIDE DEF new
  <2> QED BY <1>2, <1>3, <2>1, <2>2
<1>5. ASSUME NEW s \in Scans, NEW r PROVE InLane(NextLane(s, r))
  BY ScanFromLane DEF NextLane
<1>6. ASSUME NEW s \in Scans, NEW i, NEW r, NEW rep, NextItem(s, i, r, rep)
      PROVE  InLane(scan'[x])
  <2> DEFINE left == Without(scan[s].todo, i)
             on == [scan[s] EXCEPT !.todo = left]
  <2>1. scan[s] \in Scan
    BY <1>1 DEF TypeOK
  <2>2. \A j \in Items : left[j] # 0 => scan[s].todo[j] # 0
    BY <2>1 DEF Without, Scan, Snapshot
  <2>3. InLane(on)
    <3>1. on.todo = left /\ on.lane = scan[s].lane
      BY <2>1 DEF Scan
    <3> QED BY <1>1, <2>2, <3>1 DEF InLane
  <2>4. scan' = [scan EXCEPT ![s] = on] \/ scan' = [scan EXCEPT ![s] = NextLane(s, r)]
    BY <1>6 DEF NextItem, Proceed
  <2> HIDE DEF on
  <2> QED BY <1>3, <1>5, <2>3, <2>4
<1>7. ASSUME NEW s \in Scans, NEW i \in Items, ScanStopped(s, i) PROVE InLane(scan'[x])
  <2>1. InLane(IdleScan)
    BY ScanFromLane
  <2>2. scan' = [scan EXCEPT ![s] = IdleScan] \/ scan' = [scan EXCEPT ![s] = NextLane(s, rows)]
    BY <1>7 DEF ScanStopped, Proceed
  <2> QED BY <1>3, <1>5, <2>1, <2>2
<1>8. CASE \E i \in Items : Request(i)
  BY <1>2, <1>4, <1>8 DEF Request, Enqueue, EnqueueDuplicate, Retry, CancelItem, Reorder, WaitCall
<1>9. CASE \E i \in Items : LaneRequest(LaneOf[i])
  BY <1>2, <1>4, <1>9 DEF LaneRequest, Pause, Resume, Halt
<1>10. CASE \E s \in Scans : ScanStep(s)
  <2>1. PICK s \in Scans, i \in Items :
          \/ ScanNoRoute(s, i) \/ ScanStopped(s, i)
          \/ \E p \in Providers :
               ScanSkip(s, i, p) \/ ScanClaim(s, i, p) \/ ScanClaimUndone(s, i, p)
    BY <1>10 DEF ScanStep
  <2>2. ScanStopped(s, i) \/ \E r, rep : NextItem(s, i, r, rep)
    <3>1. ScanNoRoute(s, i) => \E r, rep : NextItem(s, i, r, rep)
      BY DEF ScanNoRoute
    <3>2. ASSUME NEW p \in Providers,
                 ScanSkip(s, i, p) \/ ScanClaim(s, i, p) \/ ScanClaimUndone(s, i, p)
          PROVE  \E r, rep : NextItem(s, i, r, rep)
      BY <3>2 DEF ScanSkip, ScanClaim, ScanClaimUndone
    <3> QED BY <2>1, <3>1, <3>2
  <2> QED BY <1>6, <1>7, <2>2
<1>11. CASE \E l \in Leases : WorkerStep(l)
  BY <1>2, <1>4, <1>11 DEF WorkerStep, WorkerReturn, Settle, SettleStale
<1>12. CASE \/ \E c \in Clients : CancelAllInFlight(c) \/ SweepDrained(c)
            \/ \E l \in Leases, k \in EmitKinds : EmitBegin(l, k) \/ EmitCommit(l, k)
            \/ \E w \in Waiters : WaitRegister(w) \/ WaitDeadline(w)
  BY <1>2, <1>12 DEF CancelAllInFlight, SweepDrained, EmitBegin, EmitCommit, WaitRegister, WaitDeadline
<1>13. CASE Shutdown \/ ShutdownDrained \/ ShutdownDeadline \/ ShutdownAgain
  BY <1>2, <1>13 DEF Shutdown, ShutdownDrained, ShutdownDeadline, ShutdownAgain
<1>14. CASE Start
  BY <1>4, <1>14 DEF Start
<1>15. CASE Crash
  BY <1>15, ScanFromLane DEF Crash
<1> QED BY <1>8, <1>9, <1>10, <1>11, <1>12, <1>13, <1>14, <1>15 DEF EmissionPre, Next

\* Whatever is delayed, the report of a dispatched item belongs to its dispatch, as
\* long as cancels and halts are called one at a time and no lane is resumed while
\* a halt of it waits.
THEOREM ReportsStayOwned == Spec /\ [][CallsApart]_vars => []ReportOwnedByDispatch
<1>1. Init => EmissionInv
  BY DEF Init, EmissionInv, EmissionsLive, AttemptsAdvance, OpenLeaseHolds, WaitingCallsHold,
         BeginHolds, ScanLanes, ReportOwnedByDispatch, Begins, NoWorker, Live, NoLease, IdleScan, NoItems
<1>2. IInv /\ OrderIsTotal /\ EmissionInv /\ [Next]_vars /\ [CallsApart]_vars => EmissionInv'
  <2>1. ASSUME IInv, OrderIsTotal, EmissionInv, Next, CallsApart PROVE EmissionInv'
    <3>1. EmissionPre
      BY <2>1 DEF EmissionPre, IInv
    <3> QED BY <3>1, EmissionsStep, AttemptsStep, OpenLeaseStep, WaitingStep, BeginStep,
               ScansStep, OwnedStep DEF EmissionInv
  <2>2. ASSUME EmissionInv, UNCHANGED vars PROVE EmissionInv'
    BY <2>2 DEF vars, storeVars, outputVars, counterVars, EmissionInv, EmissionsLive,
                AttemptsAdvance, OpenLeaseHolds, WaitingCallsHold, WaitingCallHolds, BeginHolds,
                ScanLanes, ReportOwnedByDispatch, Begins, Current
  <2> QED BY <2>1, <2>2
<1>3. EmissionInv => ReportOwnedByDispatch
  BY DEF EmissionInv
<1> QED BY <1>1, <1>2, <1>3, Invariance, KeysOrderTheLane, PTL DEF Spec
===============================================================================
