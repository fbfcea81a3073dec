---------------------------- MODULE GenerationGate ----------------------------
(***************************************************************************)
(* The generation gate (Sources/WikiFSEngine/GenerationGate.swift): per    *)
(* lane a limit, a count of slots in use and a FIFO of waiters.  The gate  *)
(* runs on the main actor, so a method is one action; what interleaves is  *)
(* the task that was resumed and has not run yet, the cancellation of a    *)
(* task, which may come at any time from anywhere, and the hop to the main *)
(* actor by which the cancellation handler reaches the gate.               *)
(*                                                                         *)
(* A caller is a task that asks for a slot, works and gives it back        *)
(* (AgentLauncher.run), and then is used for the next one.  A waiter       *)
(* object lives from acquire to its return, so its two flags are kept with *)
(* the task; a hop that comes after the return finds no waiter and does    *)
(* nothing, and is dropped.                                                *)
(***************************************************************************)
EXTENDS Integers, SequencesExt

CONSTANTS Tasks,       \* callers of acquire
          Lanes,       \* GenerationLane
          LaneLimits,  \* the constructor's dictionary: some lanes -> Int
          LaneOf       \* task -> the lane it asks for

ASSUME GateAssumption ==
  /\ IsFiniteSet(Tasks)
  /\ LaneOf \in [Tasks -> Lanes]
  /\ \A l \in Lanes \cap DOMAIN LaneLimits : LaneLimits[l] \in Int

VARIABLES activeCount,     \* lane -> slots in use
          waiters,         \* lane -> queue of suspended tasks
          phase,           \* where a task is
          isCancelled,     \* Task.isCancelled
          hopPending,      \* the cancellation handler's hop is on its way
          didReceiveSlot,  \* the waiter's flags
          didCancel

gate == <<activeCount, waiters>>
vars == <<gate, phase, isCancelled, hopPending, didReceiveSlot, didCancel>>

(* A configured limit is at least one; a lane nobody configured gets one.  *)
Limit(l) == IF l \in DOMAIN LaneLimits /\ LaneLimits[l] > 1 THEN LaneLimits[l] ELSE 1

Init ==
  /\ activeCount = [l \in Lanes |-> 0]
  /\ waiters = [l \in Lanes |-> <<>>]
  /\ phase = [t \in Tasks |-> "idle"]
  /\ isCancelled = [t \in Tasks |-> FALSE]
  /\ hopPending = [t \in Tasks |-> FALSE]
  /\ didReceiveSlot = [t \in Tasks |-> FALSE]
  /\ didCancel = [t \in Tasks |-> FALSE]
-------------------------------------------------------------------------------
\* Mutant: one too many.
BelowOrAt(l) == activeCount[l] <= Limit(l) /\ waiters[l] = <<>>

Below(l) == activeCount[l] < Limit(l) /\ waiters[l] = <<>>

(* acquire takes the slot without suspending.  A caller that was cancelled *)
(* before gives it back in the same step (run's guard): nothing remains.   *)
AcquireFast(t) ==
  /\ phase[t] = "idle" /\ Below(LaneOf[t])
  /\ IF isCancelled[t]
     THEN /\ isCancelled' = [isCancelled EXCEPT ![t] = FALSE]
          /\ UNCHANGED <<gate, phase>>
     ELSE /\ activeCount' = [activeCount EXCEPT ![LaneOf[t]] = @ + 1]
          /\ phase' = [phase EXCEPT ![t] = "generating"]
          /\ UNCHANGED <<waiters, isCancelled>>
  /\ UNCHANGED <<hopPending, didReceiveSlot, didCancel>>

(* acquire registers a waiter and suspends.  The handler of a task that    *)
(* was cancelled before runs at once, but its hop only after this step, so *)
(* the waiter is registered even then.                                     *)
AcquireWait(t) ==
  /\ phase[t] = "idle" /\ ~Below(LaneOf[t])
  /\ waiters' = [waiters EXCEPT ![LaneOf[t]] = Append(@, t)]
  /\ phase' = [phase EXCEPT ![t] = "waiting"]
  /\ hopPending' = [hopPending EXCEPT ![t] = isCancelled[t]]
  /\ UNCHANGED <<activeCount, isCancelled, didReceiveSlot, didCancel>>

(* The task is cancelled, by whoever owns it.  A run that is past its      *)
(* guard ends like any other, so nothing more is kept of it.               *)
CancelTask(t) ==
  /\ phase[t] # "generating" /\ ~isCancelled[t]
  /\ isCancelled' = [isCancelled EXCEPT ![t] = TRUE]
  /\ hopPending' = [hopPending EXCEPT ![t] = phase[t] # "idle"]
  /\ UNCHANGED <<gate, phase, didReceiveSlot, didCancel>>

\* Mutants: the hop resumes and leaves the waiter queued, or removes it and does
\* not resume.
CancelHopResumeOnly(t) ==
  /\ hopPending[t]
  /\ hopPending' = [hopPending EXCEPT ![t] = FALSE]
  /\ didCancel' = [didCancel EXCEPT ![t] = TRUE]
  /\ phase' = [phase EXCEPT ![t] = "resumed"]
  /\ UNCHANGED <<gate, isCancelled, didReceiveSlot>>

CancelHopRemoveOnly(t) ==
  /\ hopPending[t]
  /\ hopPending' = [hopPending EXCEPT ![t] = FALSE]
  /\ didCancel' = [didCancel EXCEPT ![t] = TRUE]
  /\ waiters' = [waiters EXCEPT ![LaneOf[t]] = RemoveFirst(@, t)]
  /\ UNCHANGED <<activeCount, phase, isCancelled, didReceiveSlot>>

(* onCancel's hop: a waiter that is still queued leaves and is resumed; to *)
(* one that was handed a slot before, nothing happens.                     *)
CancelHop(t) ==
  /\ hopPending[t]
  /\ hopPending' = [hopPending EXCEPT ![t] = FALSE]
  /\ didCancel' = [didCancel EXCEPT ![t] = TRUE]
  /\ IF t \in ToSet(waiters[LaneOf[t]])
     THEN /\ waiters' = [waiters EXCEPT ![LaneOf[t]] = RemoveFirst(@, t)]
          /\ phase' = [phase EXCEPT ![t] = "resumed"]
     ELSE UNCHANGED <<waiters, phase>>
  /\ UNCHANGED <<activeCount, isCancelled, didReceiveSlot>>

(* acquire returns: the waiter object is gone, and the task with it or     *)
(* past the last look at its cancellation.                                 *)
Forget(t) ==
  /\ isCancelled' = [isCancelled EXCEPT ![t] = FALSE]
  /\ hopPending' = [hopPending EXCEPT ![t] = FALSE]
  /\ didCancel' = [didCancel EXCEPT ![t] = FALSE]

(* Places of the waiters that release would hand the slot to. *)
Live(l) == {i \in DOMAIN waiters[l] : ~didCancel[waiters[l][i]]}

\* Mutants: a hand-over that also frees the slot, and one that wakes nobody.
HandOverAndFree(t, l) ==
  /\ Live(l) # {}
  /\ LET k == Min(Live(l)) IN
     /\ waiters' = [waiters EXCEPT ![l] = SubSeq(@, k + 1, Len(@))]
     /\ phase' = [phase EXCEPT ![t] = "idle", ![waiters[l][k]] = "resumed"]
     /\ didReceiveSlot' = [didReceiveSlot EXCEPT ![t] = FALSE, ![waiters[l][k]] = TRUE]
     /\ activeCount' = [activeCount EXCEPT ![l] = @ - 1]

HandOverNobody(t, l) ==
  /\ Live(l) # {}
  /\ activeCount' = [activeCount EXCEPT ![l] = @ - 1]
  /\ phase' = [phase EXCEPT ![t] = "idle"]
  /\ didReceiveSlot' = [didReceiveSlot EXCEPT ![t] = FALSE]
  /\ UNCHANGED waiters

\* Mutant: the one that came last.
HandOverLast(t, l) ==
  /\ Live(l) # {}
  /\ LET k == Max(Live(l)) IN
     /\ waiters' = [waiters EXCEPT ![l] = RemoveAt(@, k)]
     /\ phase' = [phase EXCEPT ![t] = "idle", ![waiters[l][k]] = "resumed"]
     /\ didReceiveSlot' = [didReceiveSlot EXCEPT ![t] = FALSE, ![waiters[l][k]] = TRUE]
  /\ UNCHANGED activeCount

(* release by task t with somebody waiting: the first live waiter is       *)
(* resumed with the slot, the count stays.                                 *)
HandOver(t, l) ==
  /\ Live(l) # {}
  /\ LET k == Min(Live(l)) IN
     /\ waiters' = [waiters EXCEPT ![l] = SubSeq(@, k + 1, Len(@))]
     /\ phase' = [phase EXCEPT ![t] = "idle", ![waiters[l][k]] = "resumed"]
     /\ didReceiveSlot' = [didReceiveSlot EXCEPT ![t] = FALSE, ![waiters[l][k]] = TRUE]
  /\ UNCHANGED activeCount

(* release with nobody waiting: the slot is free. *)
FreeSlot(t, l) ==
  /\ Live(l) = {}
  /\ waiters' = [waiters EXCEPT ![l] = <<>>]
  /\ activeCount' = [activeCount EXCEPT ![l] = @ - 1]
  /\ phase' = [phase EXCEPT ![t] = "idle"]
  /\ didReceiveSlot' = [didReceiveSlot EXCEPT ![t] = FALSE]

Release(t) ==
  /\ HandOver(t, LaneOf[t]) \/ FreeSlot(t, LaneOf[t])
  /\ Forget(t)

(* A resumed task runs again: acquire returns didReceiveSlot, and the      *)
(* caller's guard looks at that and at the cancellation.                   *)
Begin(t) ==
  /\ phase[t] = "resumed" /\ didReceiveSlot[t] /\ ~isCancelled[t]
  /\ phase' = [phase EXCEPT ![t] = "generating"]
  /\ didReceiveSlot' = [didReceiveSlot EXCEPT ![t] = FALSE]
  /\ Forget(t)
  /\ UNCHANGED gate

(* Handed the slot and cancelled meanwhile: the caller gives it back. *)
Bail(t) ==
  /\ phase[t] = "resumed" /\ didReceiveSlot[t] /\ isCancelled[t]
  /\ Release(t)

(* acquire returns false: the caller owns nothing and returns. *)
GiveUp(t) ==
  /\ phase[t] = "resumed" /\ ~didReceiveSlot[t]
  /\ phase' = [phase EXCEPT ![t] = "idle"]
  /\ Forget(t)
  /\ UNCHANGED <<gate, didReceiveSlot>>

(* The run ends, on whatever path: each of them releases once. *)
Finish(t) == phase[t] = "generating" /\ Release(t)

Next == \E t \in Tasks :
  \/ AcquireFast(t) \/ AcquireWait(t)
  \/ CancelTask(t) \/ CancelHop(t)
  \/ Begin(t) \/ Bail(t) \/ GiveUp(t) \/ Finish(t)

Spec == Init /\ [][Next]_vars

(* A resumed task and a hop are served by the main actor, and a run ends:  *)
(* TurnLivenessPolicy gives every turn a ceiling.                          *)
Fairness == \A t \in Tasks :
  WF_vars(Begin(t) \/ Bail(t) \/ GiveUp(t)) /\ WF_vars(CancelHop(t)) /\ WF_vars(Finish(t))

FairSpec == Spec /\ Fairness
-------------------------------------------------------------------------------
GateTypeOK ==
  /\ activeCount \in [Lanes -> Nat]
  /\ waiters \in [Lanes -> Seq(Tasks)]
  /\ phase \in [Tasks -> {"idle", "waiting", "resumed", "generating"}]
  /\ isCancelled \in [Tasks -> BOOLEAN]
  /\ hopPending \in [Tasks -> BOOLEAN]
  /\ didReceiveSlot \in [Tasks -> BOOLEAN]
  /\ didCancel \in [Tasks -> BOOLEAN]

(* A task owns a slot from the moment it was handed over, also before it   *)
(* has run again.                                                          *)
Owns(t) == phase[t] = "generating" \/ (phase[t] = "resumed" /\ didReceiveSlot[t])

Owners(l) == {t \in Tasks : LaneOf[t] = l /\ Owns(t)}

(* Slots are neither lost nor duplicated: the count of a lane is the       *)
(* number of its tasks that own a slot, through every race of a release    *)
(* with a cancellation.                                                    *)
SlotsConserved == \A l \in Lanes : activeCount[l] = Cardinality(Owners(l))

(* A lane never serves more tasks at once than it was configured for.      *)
LaneCapacity == \A l \in Lanes : Cardinality(Owners(l)) <= Limit(l)

(* Nobody waits while a slot is free: acquire's fast path and release's    *)
(* hand-over leave no moment in which a waiter is forgotten.               *)
WaitsOnlyWhenFull == \A l \in Lanes : waiters[l] # <<>> => activeCount[l] = Limit(l)

(* The queue holds exactly the suspended tasks, each once and none that    *)
(* its cancellation handler has resumed, so no continuation is resumed     *)
(* twice and none is left behind.                                          *)
QueueIsExact ==
  /\ \A l \in Lanes :
       /\ IsInjective(waiters[l])
       /\ ToSet(waiters[l]) = {t \in Tasks : LaneOf[t] = l /\ phase[t] = "waiting"}
  /\ \A t \in Tasks : phase[t] = "waiting" => ~didCancel[t] /\ ~didReceiveSlot[t]

(* Nothing of an earlier waiter is left when a task asks again. *)
IdleIsClean ==
  \A t \in Tasks : phase[t] = "idle" => ~hopPending[t] /\ ~didCancel[t] /\ ~didReceiveSlot[t]

(* The inductive invariant. *)
GateInv ==
  GateTypeOK /\ QueueIsExact /\ IdleIsClean /\ SlotsConserved /\ LaneCapacity /\ WaitsOnlyWhenFull

(* A task that comes to own a slot was ahead of everyone who goes on       *)
(* waiting in its lane ("the next live waiter (FIFO)").                    *)
ServesInOrder ==
  \A t \in Tasks : Owns(t)' /\ ~Owns(t) =>
    LET queue == waiters[LaneOf[t]] IN
    \A i \in DOMAIN queue :
      phase'[queue[i]] = "waiting" => \E j \in 1 .. i - 1 : queue[j] = t

FirstComeFirstServed == [][ServesInOrder]_vars

(* Whoever waits is resumed, with a slot or because it was cancelled.      *)
WaitEnds == \A t \in Tasks : phase[t] = "waiting" ~> phase[t] # "waiting"
===============================================================================
