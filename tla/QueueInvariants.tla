---------------------------- MODULE QueueInvariants ----------------------------
(***************************************************************************)
(* Why the queue keeps its promises: the inductive invariant behind        *)
(* PerWikiExclusion, CapacityBound, RunningRowOwned and HandoffQuiescent.  *)
(* What makes it more than those four is the account of the slots: which   *)
(* dispatches a wiki's or a provider's slot is taken for, although         *)
(* rebuilds forget some of them and settlements come late.  A second part  *)
(* is for ReportOwnedByDispatch: what an emission in flight, its lease and *)
(* the call that waits for it know of each other.                          *)
(***************************************************************************)
EXTENDS QueueProperties

Stopping == {"shuttingDown", "shutdownBlocked", "shutDown"}

\* An entry is the live dispatch of its own item, issued before.
EntriesLive ==
  \A i \in Items : runningTasks[i] # NoLease =>
    /\ runningTasks[i] <= dispatched
    /\ worker[runningTasks[i]].pc \in Live
    /\ worker[runningTasks[i]].item = i

\* The process starts with nothing dispatched.
CreatedEmpty == lifecycle = "created" => \A i \in Items : runningTasks[i] = NoLease

\* While the hand-off goes on no lease is active, and every emission in flight
\* is waited for.
StoppingSealed ==
  /\ lifecycle \in Stopping => \A i \in Items : active[i] = NoLease
  /\ lifecycle \in {"shuttingDown", "shutdownBlocked"} =>
       \A l \in Leases : inFlight[l] # {} => l \in awaitedDrains

\* The ingestion slot of i's wiki is taken for i's dispatch: no rebuild has
\* forgotten it.
Attributed(i) ==
  /\ LaneOf[i] = "ingestion" /\ runningTasks[i] # NoLease
  /\ runningTasks[i] \notin releaseDeferredByRebuild

\* A wiki whose slot is free has no running ingestion and no dispatch that will
\* release it; and a dispatch that will release a wiki's slot is the only one,
\* and no other job of that wiki is running.
WikisAccounted ==
  lifecycle = "running" =>
    /\ \A i \in Running(rows, {"ingestion"}) : WikiOf[i] \in activeIngestionWikis
    /\ \A i \in Items : Attributed(i) => WikiOf[i] \in activeIngestionWikis
    /\ \A i, j \in Items :
         Attributed(i) /\ WikiOf[i] = WikiOf[j] /\ i # j
           => ~Attributed(j) /\ j \notin Running(rows, {"ingestion"})

\* The items that a slot of p is taken for: those running on p in the store, and
\* those whose dispatch on p will release its slot when it settles.
Holding(p) ==
  {i \in Items :
     \/ rows[i].state = "running" /\ rows[i].provider = p
     \/ /\ runningTasks[i] # NoLease /\ runningTasks[i] \notin releaseDeferredByRebuild
        /\ worker[runningTasks[i]].provider = p}

\* A provider's count may be too high (a dispatch whose entry was replaced never
\* releases), but it never falls below the slots that are taken.
CountsCover ==
  lifecycle = "running" =>
    \A p \in Providers : Cardinality(Holding(p)) <= providerActiveCounts[p]

\* Both accounts: of the wikis' ingestion slots, and of the providers' counts.
SlotsAccounted == WikisAccounted /\ CountsCover

IInv ==
  /\ TypeOK
  /\ EntriesLive /\ CreatedEmpty /\ StoppingSealed
  /\ RunningRowOwned /\ HandoffQuiescent
  /\ PerWikiExclusion /\ CapacityBound /\ SlotsAccounted
-------------------------------------------------------------------------------
(* Why a report stays with its dispatch (ReportOwnedByDispatch), for one cancel *)
(* or halt at a time and no resume while a halt waits.                          *)

\* No cancel or halt is called while another waits, and no resume while a halt does.
CallsApart ==
  /\ \A c \in Clients :
       \/ \E i \in Items : CancelItem(c, i)
       \/ CancelAllInFlight(c)
       \/ \E lane \in Lanes : Halt(c, lane)
       => \A d \in Clients : client[d] = IdleClient
  /\ \A lane \in Lanes : Resume(lane) => \A c \in Clients : client[c].op # "halt"

\* l has admitted the emission that may take a report over, and not committed it.
Begins(l) == "begin" \in inFlight[l]

\* The row of l's item is still at the attempt that l was dispatched for.
Current(l) == CurrentAttempt(rows, worker[l].item, worker[l].attempt)

\* Emissions in flight are of leases issued in this process; a worker begins its
\* report itself, so it has not returned.
EmissionsLive ==
  \A l \in Leases :
    /\ Begins(l) => worker[l].pc = "running"
    /\ inFlight[l] # {} => l <= dispatched /\ lifecycle # "created"

\* A worker's job was submitted and, unless it is forgotten, has not gone back to
\* an earlier attempt.
AttemptsAdvance ==
  \A l \in Leases : worker[l].pc \in Live =>
    LET row == rows[worker[l].item] IN
    /\ row.state # "absent"
    /\ row.state # "pruned" => worker[l].attempt <= row.attempt

\* An open lease holds the entry of its item, whose row does not wait to be
\* claimed again at the same attempt.
OpenLeaseHolds ==
  \A i \in Items : active[i] # NoLease =>
    /\ runningTasks[i] = active[i]
    /\ lifecycle = "running" /\ Current(active[i]) => rows[i].state # "queued"

\* Jobs that a call has still to deal with have different keys.
KeysApart(todo) == \A i, j \in Items : i # j /\ todo[i] # 0 => todo[i] # todo[j]

\* A call waits for a lease it has closed.  While a halt waits for a job its lane
\* is paused, and no other dispatch of the job has begun.
WaitingCallHolds(k) ==
  /\ lifecycle # "created" /\ k.lease <= dispatched /\ active[k.item] # k.lease
  /\ KeysApart(k.todo)
  /\ k.op = "halt" =>
       /\ \A i \in Items : k.todo[i] # 0 => LaneOf[i] = LaneOf[k.item]
       /\ lifecycle = "running" =>
            /\ runStates[LaneOf[k.item]] # "running"
            /\ runningTasks[k.item] \in {NoLease, k.lease}

\* At most one call waits.
WaitingCallsHold ==
  \A c \in Clients : client[c] # IdleClient =>
    /\ WaitingCallHolds(client[c])
    /\ \A d \in Clients \ {c} : client[d] = IdleClient

\* The dispatch with such an emission in flight holds the entry of its item; the
\* row does not wait to be claimed, and if the lease is closed, a call waits for it.
BeginHolds ==
  \A l \in Leases : Begins(l) /\ Current(l) =>
    LET i == worker[l].item IN
    /\ runningTasks[i] = l
    /\ lifecycle = "running" =>
         /\ rows[i].state # "queued"
         /\ \/ active[i] = l
            \/ \E c \in Clients : client[c] # IdleClient /\ client[c].item = i
                                  /\ client[c].lease = l

\* A scan walks jobs of the lane whose run state it tests.
ScanLanes == \A s \in Scans, i \in Items : scan[s].todo[i] # 0 => LaneOf[i] = scan[s].lane

EmissionInv ==
  /\ EmissionsLive /\ AttemptsAdvance /\ OpenLeaseHolds /\ WaitingCallsHold
  /\ BeginHolds /\ ScanLanes /\ ReportOwnedByDispatch
===============================================================================
