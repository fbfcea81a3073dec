--------------------------- MODULE QueueProperties ---------------------------
(***************************************************************************)
(* What the job queue promises, stated over QueueEngine.                   *)
(***************************************************************************)
EXTENDS QueueEngine

Dispatch == [pc : Live \cup {"done"}, item : Items, attempt : Nat, provider : Providers,
             told : BOOLEAN, result : Outcome]
Scan == [lane : Lanes, todo : Snapshot, noted : SUBSET Items, prune : BOOLEAN]
Sweep == [op : {"cancel", "cancelAll", "halt"}, lane : Lanes, todo : Snapshot,
          item : Items, lease : Leases]
Answer == Outcome \cup ItemState \cup {"timeout", "shutDown"}
Wait == [pc : {"entering", "parked", "done"}, item : Items, expired : BOOLEAN,
         result : Answer]

\* Every variable has the shape the actions give it.
TypeOK ==
  /\ rows \in [Items -> Row]
  /\ savedRunStates \in [Lanes -> {"running", "paused"}]
  /\ report \in [Items -> Report(Leases)]
  /\ lifecycle \in Lifecycle
  /\ runStates \in [Lanes -> {"unset", "running", "paused"}]
  /\ providerActiveCounts \in [Providers -> Nat]
  /\ activeIngestionWikis \subseteq {WikiOf[i] : i \in Items}
  /\ runningTasks \in [Items -> Leases \cup {NoLease}]
  /\ releaseDeferredByRebuild \subseteq Leases
  /\ active \in [Items -> Leases \cup {NoLease}]
  /\ inFlight \in [Leases -> SUBSET EmitKinds]
  /\ awaitedWorkers \subseteq Leases
  /\ awaitedDrains \subseteq Leases
  /\ worker \in [Leases -> {NoWorker, RetiredWorker} \cup Dispatch]
  /\ scan \in [Scans -> Scan]
  /\ client \in [Clients -> {IdleClient} \cup Sweep]
  /\ waiter \in [Waiters -> {IdleWaiter} \cup Wait]
  /\ dispatched \in 0..MaxDispatch
  /\ crashes \in 0..MaxCrash
-------------------------------------------------------------------------------
(* Safety. *)

\* "At most one ingestion runs per wiki at a time", over the durable rows: no
\* interleaving of scans, halts, cancels, retries and relaunches lets two
\* ingestion rows of one wiki be running together.
PerWikiExclusion ==
  \A i, j \in Running(rows, {"ingestion"}) : i # j => WikiOf[i] # WikiOf[j]

\* No lane has more rows running on a provider than the lane's limit for it,
\* although the counts the claims test are cleared, rebuilt from the rows and
\* released by settlements that may come late.
CapacityBound ==
  \A lane \in Lanes, p \in Providers :
    Cardinality({i \in Running(rows, {lane}) : rows[i].provider = p}) <= Limit[lane][p]

\* A running row is never stranded: the dispatch holding its settlement ticket
\* is alive and works on exactly the attempt and the provider the row records,
\* so what it settles is credited to the attempt it executed.
RunningRowOwned ==
  lifecycle = "running" =>
    \A i \in Running(rows, Lanes) :
      LET l == runningTasks[i] IN
      /\ l # NoLease
      /\ worker[l].pc \in Live /\ worker[l].item = i
      /\ worker[l].attempt = rows[i].attempt /\ worker[l].provider = rows[i].provider

\* Once a hand-off has begun no row is running, whatever scan was suspended when
\* it began; and once it is complete no emission is left that could still write.
HandoffQuiescent ==
  /\ lifecycle \in {"shuttingDown", "shutdownBlocked", "shutDown"}
       => Running(rows, Lanes) = {}
  /\ lifecycle = "shutDown" => \A l \in Leases : inFlight[l] = {}

\* The report of a dispatched item belongs to that dispatch: an emission of an
\* earlier one that was admitted before its cancel or halt and commits late
\* never takes the report over ("delayed old-execution data can never win").
\* For one cancel or halt at a time and no resume during a halt: a second call
\* does not wait for what the first is draining.
ReportOwnedByDispatch ==
  \A i \in Items :
    runningTasks[i] # NoLease /\ report[i].targets # "absent"
      => report[i].exec = runningTasks[i]

\* The keys order the jobs of a lane that wait or run: enqueues, retries and
\* reorders never give two of them the same place.
OrderIsTotal ==
  \A i, j \in Items :
    /\ i # j /\ LaneOf[i] = LaneOf[j]
    /\ rows[i].state \in Active /\ rows[j].state \in Active
    => rows[i].key # rows[j].key

\* Nobody will answer w but its deadline: its job has ended, and no dispatch of
\* the job has still to settle.
Stranded(w) ==
  /\ waiter[w].pc = "parked"
  /\ rows[waiter[w].item].state \notin Active \cup {"pruned"}
  /\ runningTasks[waiter[w].item] = NoLease

\* The cancel c goes on after the drain, knowing what it read before it.
StaleCancel(c, i) ==
  client[c].op \in {"cancel", "cancelAll"} /\ client[c].item = i /\ SweepDrained(c)

\* No waiter is left behind, however its registration fell between the
\* settlements, cancels and hand-offs (awaitSettlement), but by one step: a
\* cancel that read a dispatch, waited for its output, and leaves the waiters to
\* that dispatch although it has settled meanwhile (cancelItem).
OnlyStaleCancelStrands ==
  [][\A w \in Waiters :
       Stranded(w)' => Stranded(w) \/ \E c \in Clients : StaleCancel(c, waiter[w].item)]_vars

\* A waiter that is told "success" is told so of an item that is completed in
\* the store: a completion that lost the race to a cancel is not a success.
WaiterTruth ==
  [][\A w \in Waiters :
       waiter'[w] # waiter[w] /\ waiter'[w].pc = "done" /\ waiter'[w].result = "success"
         => rows'[waiter'[w].item].state \in {"completed", "pruned"}]_vars

\* i now comes right before the job named, or after everything else.
Placed(i, before) ==
  LET others == {j \in Items \ {i} : LaneOf[j] = LaneOf[i] /\ rows[j].state \in Active}
      k == rows'[i].key
  IN  \/ \A j \in others : rows[j].key < k
      \/ /\ k < rows[before].key
         /\ \A j \in others : rows[j].key < rows[before].key => rows[j].key < k

\* reorderItem puts a job right before the one named, or after everything else
\* when there is no key left between them.
ReorderPlaces ==
  [][\A i, before \in Items :
       /\ LaneOf[before] = LaneOf[i] /\ rows[before].state \in Active
       /\ rows'[i].key # rows[i].key
       /\ Reorder(i, before)
       => Placed(i, before)]_vars
-------------------------------------------------------------------------------
(* Liveness.  Tasks that are ready run: a scan's route lookup returns, a       *)
(* worker returns (its manifest bounds it, and it is told when it is no longer *)
(* wanted), an emission commits, and a call that waits for one goes on.  A     *)
(* settlement is strongly fair because the model has few scan slots, and a     *)
(* client may take one again and again; the code has as many as it needs.  No  *)
(* client is assumed to do anything.                                           *)

Fairness ==
  /\ WF_vars(Start)
  /\ \A s \in Scans : WF_vars(ScanStep(s))
  /\ \A l \in Leases : SF_vars(WorkerStep(l))
  /\ \A l \in Leases, k \in EmitKinds : WF_vars(EmitCommit(l, k))
  /\ \A k \in Clients : WF_vars(SweepDrained(k))
  /\ \A w \in Waiters : WF_vars(WaitRegister(w))

FairSpec == Spec /\ Fairness

Serving(i) == lifecycle = "running" /\ runStates[LaneOf[i]] = "running"

\* A queued job that has a route is claimed (or withdrawn), as long as the
\* engine runs and its lane is not paused: no capacity that is freed, no claim
\* that fails and no scan that looked too early leaves it waiting for a call
\* that may never come.
QueuedIsServed ==
  \A i \in Items : rows[i].state = "queued" /\ Serving(i)
                     ~> rows[i].state # "queued" \/ ~Serving(i)

\* A parked waiter is resumed without its deadline, unless its lane is paused
\* or the engine stops, where no cancel gives up the actor.
WaiterIsAnswered ==
  \A w \in Waiters, i \in Items :
    LET parked == waiter[w].pc = "parked" /\ waiter[w].item = i
    IN  parked /\ Serving(i) ~> ~parked \/ ~Serving(i)
===============================================================================
