-------------------------------- MODULE QueueHost --------------------------------
(***************************************************************************)
(* The daemon's queue host (wikid/DaemonQueueHost.swift): the one door to  *)
(* the daemon's QueueEngine.  An admitted operation builds the engine the  *)
(* first time one is needed; relinquishing the queue waits for admitted    *)
(* operations, for at most a deadline, then stops the engine for good.     *)
(*                                                                         *)
(* The state is that of ONE daemon process.  HostDies is its end: launchd  *)
(* starts a fresh process, serving and without an engine, on the next      *)
(* message.  Every process starts at the same ownership epoch              *)
(* (initialEpoch), so an epoch never tells two processes apart and the     *)
(* model has none.                                                         *)
(***************************************************************************)
EXTENDS Naturals, FiniteSets

CONSTANT Ops          \* operations that may be in flight at once: RPCs, heartbeats

ASSUME HostAssumption == IsFiniteSet(Ops)

VARIABLES hostState,        \* DaemonQueueHost.state
          resources,        \* whether the host holds built resources
          build,            \* buildTask
          op,               \* where each operation is in `perform`
          admissionCount,   \* operations that relinquishing must wait for
          deficits,         \* operations that a forced drain stopped waiting for
          handing,          \* relinquishmentTask
          engine,           \* whether this process has queue.sqlite open and dispatching
          leftBuilding      \* history: relinquishing has ended beside a build in flight

hostVars == <<hostState, resources, build, op, admissionCount, deficits, handing, engine,
              leftBuilding>>

HostStates == {"serving", "relinquishing", "relinquished", "shutdownBlocked"}
OpSteps == {"idle", "building", "joined", "storing", "dropping", "running", "failing"}

HostInit ==
  /\ hostState = "serving" /\ resources = FALSE /\ build = "none"
  /\ op = [o \in Ops |-> "idle"]
  /\ admissionCount = 0 /\ deficits = 0 /\ handing = "none" /\ engine = FALSE
  /\ leftBuilding = FALSE

Busy == {o \in Ops : op[o] # "idle"}
\* A build is in flight until the operation that owns it has stored its result.
BuildInFlight == \E o \in Ops : op[o] \in {"building", "storing", "dropping"}

-----------------------------------------------------------------------------
\* Operations

\* Mutant: a forced drain leaves no deficit for a late operation to consume.
FinishUncounted == admissionCount' = admissionCount - 1 /\ UNCHANGED deficits

FinishAdmission ==
  IF admissionCount > 0
    THEN admissionCount' = admissionCount - 1 /\ UNCHANGED deficits
    ELSE /\ deficits' = IF deficits > 0 THEN deficits - 1 ELSE 0
         /\ UNCHANGED admissionCount

\* perform: admission, and ensureResourcesForAdmittedOperation up to its await
HostAdmit(o) ==
  /\ hostState = "serving" /\ op[o] = "idle"
  /\ admissionCount' = admissionCount + 1
  /\ op' = [op EXCEPT ![o] = CASE resources -> "running"
                               [] ~resources /\ build = "none" -> "building"
                               [] ~resources /\ build = "running" -> "joined"
                               [] ~resources /\ build = "opened" -> "running"
                               [] OTHER -> "failing"]
  /\ build' = IF ~resources /\ build = "none" THEN "running" ELSE build
  /\ UNCHANGED <<hostState, resources, deficits, handing, engine, leftBuilding>>

\* buildQueueResources returns: the engine has started, its owner not yet resumed
BuildOpens ==
  /\ build = "running"
  /\ build' = "opened" /\ engine' = TRUE
  /\ op' = [o \in Ops |-> CASE op[o] = "building" -> "storing"
                            [] op[o] = "joined" -> "running"
                            [] OTHER -> op[o]]
  /\ UNCHANGED <<hostState, resources, admissionCount, deficits, handing, leftBuilding>>

BuildFails ==
  /\ build = "running"
  /\ build' = "failed"
  /\ op' = [o \in Ops |-> CASE op[o] = "building" -> "dropping"
                            [] op[o] = "joined" -> "failing"
                            [] OTHER -> op[o]]
  /\ UNCHANGED <<hostState, resources, admissionCount, deficits, handing, engine, leftBuilding>>

\* The operation that started the build resumes from it.
OwnerResumes(o) ==
  /\ op[o] \in {"storing", "dropping"}
  /\ resources' = (op[o] = "storing" \/ resources)
  /\ build' = "none"
  /\ op' = [op EXCEPT ![o] = IF op[o] = "storing" THEN "running" ELSE "failing"]
  /\ UNCHANGED <<hostState, admissionCount, deficits, handing, engine, leftBuilding>>

OpEnds(o) ==
  /\ op[o] \in {"running", "failing"}
  /\ op' = [op EXCEPT ![o] = "idle"]
  /\ FinishAdmission
  /\ UNCHANGED <<hostState, resources, build, handing, engine, leftBuilding>>

-----------------------------------------------------------------------------
\* Relinquishing

\* A relinquish request that starts the task; a later one joins it or is answered at once.
HostRelinquish ==
  /\ hostState \in {"serving", "shutdownBlocked"} /\ handing = "none"
  /\ hostState' = "relinquishing" /\ handing' = "draining"
  /\ UNCHANGED <<resources, build, op, admissionCount, deficits, engine, leftBuilding>>

\* Mutant: the engine of a drained host is left to the process's end.
DrainedIsEnough ==
  /\ handing = "draining" /\ admissionCount = 0
  /\ handing' = "none" /\ hostState' = "relinquished" /\ leftBuilding' = BuildInFlight
  /\ UNCHANGED <<resources, build, op, admissionCount, deficits, engine>>

\* performRelinquishment after waitForAdmissionsToDrain
HostDrained ==
  /\ handing = "draining" /\ admissionCount = 0
  /\ IF resources THEN handing' = "stopping" /\ UNCHANGED <<hostState, leftBuilding>>
                  ELSE /\ handing' = "none" /\ hostState' = "relinquished"
                       /\ leftBuilding' = BuildInFlight
  /\ UNCHANGED <<resources, build, op, admissionCount, deficits, engine>>

\* Mutant: the drain is forced without accounting for what it stopped waiting for.
ForceUncounted ==
  /\ handing = "draining" /\ admissionCount > 0
  /\ admissionCount' = 0
  /\ UNCHANGED <<hostState, resources, build, op, deficits, handing, engine, leftBuilding>>

\* The drain deadline passes with operations in flight, one of them perhaps in
\* the build, which nothing bounds or cancels.
ForceDrain ==
  /\ handing = "draining" /\ admissionCount > 0
  /\ deficits' = deficits + admissionCount
  /\ admissionCount' = 0
  /\ UNCHANGED <<hostState, resources, build, op, handing, engine, leftBuilding>>

\* shutdownForHandoff answers, and on shutDown the store is closed.
HostStops ==
  /\ handing = "stopping"
  /\ handing' = "none" /\ hostState' = "relinquished"
  /\ resources' = FALSE /\ engine' = FALSE
  /\ UNCHANGED <<build, op, admissionCount, deficits, leftBuilding>>

HostBlocked ==
  /\ handing = "stopping"
  /\ handing' = "none" /\ hostState' = "shutdownBlocked"
  /\ UNCHANGED <<resources, build, op, admissionCount, deficits, engine, leftBuilding>>

HostDies ==
  /\ hostState' = "serving" /\ resources' = FALSE /\ build' = "none"
  /\ op' = [o \in Ops |-> "idle"]
  /\ admissionCount' = 0 /\ deficits' = 0 /\ handing' = "none" /\ engine' = FALSE
  /\ leftBuilding' = FALSE

\* What happens inside the process without the app asking.
HostWorks ==
  \/ \E o \in Ops : HostAdmit(o) \/ OwnerResumes(o) \/ OpEnds(o)
  \/ BuildOpens \/ BuildFails
  \/ HostDrained \/ ForceDrain \/ HostStops \/ HostBlocked

HostNext == HostWorks \/ HostRelinquish \/ HostDies
HostSpec == HostInit /\ [][HostNext]_hostVars

-----------------------------------------------------------------------------
HostTypeOK ==
  /\ hostState \in HostStates /\ resources \in BOOLEAN /\ engine \in BOOLEAN
  /\ build \in {"none", "running", "opened", "failed"}
  /\ op \in [Ops -> OpSteps]
  /\ admissionCount \in Nat /\ deficits \in Nat
  /\ handing \in {"none", "draining", "stopping"} /\ leftBuilding \in BOOLEAN

\* Every operation in flight is owed exactly one release, either to the
\* admission count or to the deficits of a forced drain: finishAdmission never
\* meets its assertion, and a relinquish never returns while an operation it
\* still counts is running.
AdmissionBalance == admissionCount + deficits = Cardinality(Busy)

\* The completion facts of a relinquishment reply: once the host says it has
\* relinquished, this process has no engine on queue.sqlite and never gets one,
\* whatever was admitted before.  The only way round it is a build that the
\* forced drain stopped waiting for and that was still in flight when the reply
\* was given: it stores its engine in the relinquished host.  (completedSuccess,
\* lines 329-338.)
RelinquishedMeansClosed ==
  hostState = "relinquished" /\ (engine \/ resources) => leftBuilding
===============================================================================
