----------------------------- MODULE QueueOwnership -----------------------------
(***************************************************************************)
(* Who owns the queue: the app's transport, its coordinator                *)
(* (DaemonTransportAppCoordinator.swift), its queue controller and hot     *)
(* swap, and the daemon's queue host, together.                            *)
(*                                                                         *)
(* The coordinator takes the transport's events one at a time.  Accepting  *)
(* a candidate is a conversation: ask the daemon who owns the queue, move  *)
(* the queue (open or close the app's own engine), mark the connection,    *)
(* acknowledge it.  Everything else may move between two of its steps.     *)
(*                                                                         *)
(* What comes from outside is in Trouble, with one budget for all of it.   *)
(***************************************************************************)
EXTENDS DaemonTransport, LocalRuntime, QueueHost

CONSTANTS Trouble,        \* the kinds of trouble an instance has
          MaxTrouble      \* how often trouble strikes

ASSUME TroubleAssumption == MaxTrouble \in Nat

VARIABLES coord,          \* the coordinator's handler: its step, its candidate, the outcome, and
                          \* whether the daemon process that answered it is still the same
          connectedID,    \* connectedCandidateID
          chat,           \* the chat coordinator: the connection it is on, and whether
                          \* the daemon process now running has its event sink
          queueSink,      \* whether that process has the installed queue proxy's sink
          quit,           \* shutdownForTermination
          troubled        \* how often trouble has struck

coordVars == <<coord, connectedID, chat, queueSink, quit>>
vars == <<transportVars, localVars, hostVars, coordVars, troubled>>

NoChat == [on |-> None, hears |-> FALSE]
AtRest == [at |-> "idle", id |-> None, outcome |-> "none", same |-> FALSE]

Init ==
  /\ TransportInit /\ LocalInit /\ HostInit
  /\ coord = AtRest /\ connectedID = None /\ chat = NoChat /\ queueSink = FALSE
  /\ quit = "no" /\ troubled = 0

Strike(kind) == /\ kind \in Trouble /\ troubled < MaxTrouble
                /\ troubled' = troubled + 1
Calm == UNCHANGED troubled

Admitted == quit = "no"       \* isAdmitted
At(step) == coord' = [coord EXCEPT !.at = step]
Rest == coord' = AtRest

-----------------------------------------------------------------------------
\* The coordinator's handlers

OnlyTakes == UNCHANGED <<phase, candidate, admission, loop, line, notices, interruptions,
                         removals, bridgeStopped, hostVars, quit>> /\ Calm

\* handle(.disconnected): the controller is told only if the daemon had the queue
HandleDisconnected ==
  /\ Forget({connectedID} \ {None})
  /\ connectedID' = None /\ chat' = NoChat /\ queueSink' = FALSE
  /\ IF CanUnresolve
       THEN BeginUnresolve /\ coord' = [AtRest EXCEPT !.at = "unresolving"]
       ELSE UNCHANGED <<localVars, coord>>

\* handle(.interrupted): a new sink, for a new chat coordinator
HandleInterrupted(id) ==
  /\ chat' = IF id = connectedID /\ registration[id] # "none"
             THEN [on |-> id, hears |-> line[id] = "live"] ELSE chat
  /\ UNCHANGED <<registration, connectedID, queueSink, coord, localVars>>

HandleAwaiting(id) ==
  /\ coord' = [AtRest EXCEPT !.at = "resolving", !.id = id]
  /\ UNCHANGED <<registration, connectedID, chat, queueSink, localVars>>

HandleConnected(id) ==
  /\ connectedID' = id
  /\ UNCHANGED <<registration, coord, chat, queueSink, localVars>>

\* handle(.candidateRejected) and handle(.acceptanceExpired)
HandleWithdrawn(id) ==
  /\ Forget({id})
  /\ UNCHANGED <<coord, connectedID, chat, queueSink, localVars>>

TakeEvent ==
  /\ Admitted /\ coord.at = "idle" /\ events # <<>>
  /\ events' = Tail(events)
  /\ LET e == Head(events)
     IN \/ e.type = "awaiting" /\ HandleAwaiting(e.id)
        \/ e.type = "connected" /\ HandleConnected(e.id)
        \/ e.type = "withdrawn" /\ HandleWithdrawn(e.id)
        \/ e.type = "disconnected" /\ HandleDisconnected
        \/ e.type = "interrupted" /\ HandleInterrupted(e.id)
  /\ OnlyTakes

Unresolved ==
  /\ coord.at = "unresolving" /\ Free /\ Rest
  /\ UNCHANGED <<transportVars, localVars, hostVars, connectedID, chat, queueSink, quit>> /\ Calm

-----------------------------------------------------------------------------
\* Accepting a candidate (acceptCandidate, reconnectOutcome)

\* The outcome is retry: the registration goes, the transport is told; or the
\* app is quitting, and nobody is.
Refuse ==
  /\ Forget({coord.id})
  /\ IF Admitted THEN coord' = [coord EXCEPT !.at = "acking", !.outcome = "retry"] /\ UNCHANGED chat
                 ELSE Rest /\ chat' = NoChat
  /\ UNCHANGED <<runtimeVars, line, notices, interruptions, removals, bridgeStopped>>
  /\ UNCHANGED <<connectedID, quit>>

\* bridge.resolve, then the branch on the controller's state
Resolve ==
  /\ coord.at = "resolving"
  /\ IF ~Admitted \/ bridgeStopped \/ registration[coord.id] = "none"
       THEN coord' = [coord EXCEPT !.at = "acking", !.outcome = "retry"]
       ELSE At(IF cstate = "unresolved" THEN "requesting" ELSE "asking")
  /\ UNCHANGED <<transportVars, localVars, hostVars, connectedID, chat, queueSink, quit>> /\ Calm

\* queueOwnershipStatus answers; the sinks of an endpoint are registered before
\* the controller is asked to install it
Serving == line[coord.id] = "live" /\ hostState = "serving" /\ Admitted
Ask ==
  /\ coord.at = "asking"
  /\ IF Serving /\ (CanActivate \/ CanRetryBlocked)
       THEN /\ coord' = [coord EXCEPT !.at = "activating", !.same = TRUE]
            /\ IF cstate = "shutdownBlocked" THEN BeginRetryBlocked ELSE BeginActivate
            /\ UNCHANGED <<transportVars, connectedID, chat, quit>>
       ELSE Refuse /\ UNCHANGED localVars
  /\ UNCHANGED <<hostVars, queueSink>> /\ Calm

\* relinquishQueue reaches the host, which starts relinquishing or already is
Request ==
  /\ coord.at = "requesting"
  /\ IF line[coord.id] = "live" /\ Admitted
       THEN /\ At("relinquishing")
            /\ IF hostState \in {"serving", "shutdownBlocked"} THEN HostRelinquish ELSE UNCHANGED hostVars
            /\ UNCHANGED <<transportVars, connectedID, chat, quit>>
       ELSE Refuse /\ UNCHANGED hostVars
  /\ UNCHANGED <<localVars, queueSink>> /\ Calm

\* Mutant: any reply of the daemon is taken for a complete one.
AnyAnswerWillDo ==
  /\ coord.at = "relinquishing" /\ line[coord.id] = "live" /\ handing = "none"
  /\ IF Admitted /\ CanFallBack
       THEN /\ coord' = [coord EXCEPT !.at = "fallingBack", !.same = TRUE]
            /\ BeginFallBack /\ UNCHANGED <<transportVars, connectedID, chat, quit>>
       ELSE Refuse /\ UNCHANGED localVars
  /\ UNCHANGED <<hostVars, queueSink>> /\ Calm

\* The reply: complete, or shutdownBlocked.
RelinquishAnswered ==
  /\ coord.at = "relinquishing" /\ line[coord.id] = "live" /\ handing = "none"
  /\ IF hostState = "relinquished" /\ Admitted /\ CanFallBack
       THEN /\ coord' = [coord EXCEPT !.at = "fallingBack", !.same = TRUE]
            /\ BeginFallBack /\ UNCHANGED <<transportVars, connectedID, chat, quit>>
       ELSE Refuse /\ UNCHANGED localVars
  /\ UNCHANGED <<hostVars, queueSink>> /\ Calm

\* An RPC ends without a reply: the connection or the daemon is gone, the
\* task is cancelled, or 30 seconds have passed.
CallLost ==
  /\ coord.at \in {"asking", "relinquishing", "lost"}
  /\ IF coord.at = "lost" \/ line[coord.id] # "live" \/ ~Admitted THEN Calm ELSE Strike("rpc")
  /\ Refuse
  /\ UNCHANGED <<localVars, hostVars, queueSink>>

\* Mutant: the controller's answer is not looked at.
EndsWell ==
  /\ coord.at \in {"activating", "fallingBack"} /\ Free
  /\ LET hears == IF coord.at = "activating" THEN coord.same ELSE line[coord.id] = "live"
     IN IF Admitted
          THEN /\ At("marking") /\ chat' = [on |-> coord.id, hears |-> hears]
               /\ queueSink' = (hears /\ cstate = "daemonActive")
               /\ UNCHANGED <<transportVars, connectedID, quit>>
          ELSE Refuse /\ UNCHANGED queueSink
  /\ UNCHANGED <<localVars, hostVars>> /\ Calm

\* The controller returns to the coordinator.
TransitionEnds ==
  /\ coord.at \in {"activating", "fallingBack"} /\ Free
  /\ LET accepted == cstate = IF coord.at = "activating" THEN "daemonActive" ELSE "localReady"
         hears == IF coord.at = "activating" THEN coord.same ELSE line[coord.id] = "live"
     IN IF accepted /\ Admitted
          THEN /\ At("marking") /\ chat' = [on |-> coord.id, hears |-> hears]
               /\ queueSink' = (hears /\ cstate = "daemonActive")
               /\ UNCHANGED <<transportVars, connectedID, quit>>
          ELSE Refuse /\ UNCHANGED queueSink
  /\ UNCHANGED <<localVars, hostVars>> /\ Calm

Mark ==
  /\ coord.at = "marking"
  /\ IF ~bridgeStopped /\ registration[coord.id] = "provisional"
       THEN /\ MarkConnected(coord.id)
            /\ coord' = [coord EXCEPT !.at = "acking", !.outcome = "connected"]
            /\ UNCHANGED chat
       ELSE /\ coord' = [coord EXCEPT !.at = "acking", !.outcome = "retry"]
            /\ chat' = NoChat
            /\ UNCHANGED <<registration, line, notices>>
  /\ UNCHANGED <<runtimeVars, interruptions, removals, bridgeStopped, localVars, hostVars,
                 connectedID, queueSink, quit>> /\ Calm

Ack ==
  /\ coord.at = "acking" /\ Rest
  /\ Acknowledged(coord.id, coord.outcome)
  /\ UNCHANGED <<loop, notices, interruptions, registration, bridgeStopped, localVars, hostVars,
                 connectedID, chat, queueSink, quit>> /\ Calm

Coordinate ==
  \/ TakeEvent \/ Unresolved \/ Resolve \/ Ask \/ Request \/ RelinquishAnswered
  \/ TransitionEnds \/ Mark \/ Ack
  \/ (CallLost /\ Calm)

-----------------------------------------------------------------------------
\* Quitting (shutdownForTermination): the coordinator's task is cancelled and
\* awaited, then the services, the bridge and the queue runtime go.

Quit ==
  /\ quit = "no" /\ Strike("quit")
  /\ quit' = "joining" /\ CancelTask
  /\ UNCHANGED <<transportVars, hostVars, coord, connectedID, chat, queueSink>>

\* Mutant: quitting waits until the events are used up, which no one takes any more.
QuitDrains ==
  /\ quit = "joining" /\ coord.at = "idle" /\ events = <<>>
  /\ quit' = "stopping" /\ connectedID' = None /\ chat' = NoChat
  /\ UNCHANGED <<transportVars, localVars, hostVars, coord, queueSink>> /\ Calm

QuitJoined ==
  /\ quit = "joining" /\ coord.at = "idle"
  /\ quit' = "stopping" /\ connectedID' = None /\ chat' = NoChat
  /\ UNCHANGED <<transportVars, localVars, hostVars, coord, queueSink>> /\ Calm

QuitStops ==
  /\ quit = "stopping" /\ TransportStop /\ quit' = "unbridging"
  /\ UNCHANGED <<localVars, hostVars, coord, connectedID, chat, queueSink>> /\ Calm

QuitUnbridges ==
  /\ quit = "unbridging" /\ BridgeStop /\ quit' = "disposing"
  /\ UNCHANGED <<localVars, hostVars, coord, connectedID, chat, queueSink>> /\ Calm

\* The process profile disposes of the queue runtime it was given: startup
\* must have been asked for, and must not have failed.
QuitDisposes ==
  /\ quit = "disposing" /\ quit' = "disposed"
  /\ IF launched = "yes" THEN BeginDispose ELSE UNCHANGED localVars
  /\ UNCHANGED <<transportVars, hostVars, coord, connectedID, chat, queueSink>> /\ Calm

Quitting == QuitJoined \/ QuitStops \/ QuitUnbridges \/ QuitDisposes

-----------------------------------------------------------------------------
\* The parts moving by themselves, and trouble

StartUp == /\ Admitted /\ StartAdmission
           /\ UNCHANGED <<localVars, hostVars, coordVars, troubled>>

\* An id is taken for a new candidate when the coordinator has forgotten it too.
NextAttempt(id) ==
  /\ id # coord.id /\ id # connectedID /\ id # chat.on
  /\ Attempt(id)
  /\ UNCHANGED <<localVars, hostVars, coordVars, troubled>>

TransportMoves == /\ TransportSteps
                  /\ UNCHANGED <<localVars, hostVars, coordVars, troubled>>

\* A health check or a probe of a connection that is gone comes back unhealthy.
FindsDead == /\ \/ \E id \in Candidates : ~(line[id] = "live") /\ Checked(id, FALSE)
                \/ \E id \in Candidates : ~Fresh(id) /\ Checked(id, FALSE)
                \/ candidate # None /\ line[candidate] = "dead" /\ ProbeFails
             /\ UNCHANGED <<localVars, hostVars, coordVars, troubled>>

LocalMoves == /\ LocalSteps
              /\ quit = "disposed" => UNCHANGED launched
              /\ UNCHANGED <<transportVars, hostVars, coordVars, troubled>>

Calls == LocalCalls /\ UNCHANGED <<transportVars, hostVars, coordVars, troubled>>

\* A relinquished or a crashed host needs nothing; a build fails as trouble.
HostMoves == /\ \/ \E o \in Ops : HostAdmit(o) \/ OwnerResumes(o) \/ OpEnds(o)
                \/ BuildOpens \/ HostDrained \/ HostStops
             /\ UNCHANGED <<transportVars, localVars, coordVars, troubled>>

TransportTrouble ==
  /\ \/ Strike("line") /\ \E id \in Candidates : LineDies(id) \/ MakeFails(id)
     \/ Strike("probe") /\ (ProbeFails \/ \E id \in Candidates : Checked(id, FALSE))
     \/ Strike("expiry") /\ AcceptanceExpires
     \/ Strike("manual") /\ ManualReconnect /\ Admitted
  /\ UNCHANGED <<localVars, hostVars, coordVars>>

LocalTrouble == /\ Strike("local") /\ LocalFaults
                /\ UNCHANGED <<transportVars, hostVars, coordVars>>

HostTrouble == /\ Strike("host") /\ (BuildFails \/ ForceDrain \/ HostBlocked)
               /\ UNCHANGED <<transportVars, localVars, coordVars>>

\* The daemon's process ends: calls in progress are lost, and the next process
\* has neither an engine nor anyone's event sink.
Crash ==
  /\ Strike("crash") /\ HostDies
  /\ LinesInterrupted
  /\ coord' = [coord EXCEPT !.same = FALSE,
                           !.at = IF coord.at = "relinquishing" THEN "lost" ELSE coord.at]
  /\ chat' = [chat EXCEPT !.hears = FALSE] /\ queueSink' = FALSE
  /\ UNCHANGED <<runtimeVars, line, notices, bridgeVars, localVars, connectedID, quit>>

Troubles == \/ TransportTrouble \/ LocalTrouble \/ HostTrouble \/ Crash \/ Quit
            \/ (CallLost /\ ~Calm)

Next == \/ StartUp \/ \E id \in Candidates : NextAttempt(id)
        \/ TransportMoves \/ FindsDead \/ LocalMoves \/ Calls \/ HostMoves
        \/ Coordinate \/ Quitting \/ Troubles

Spec == Init /\ [][Next]_vars

Undisturbed(A) == A /\ UNCHANGED <<localVars, hostVars, coordVars, troubled>>

\* Actors run, timers fire, and a call, a swap, a drain or a build that can end
\* does.  Nothing is assumed of what strikes, or of operations arriving.
Fairness ==
  /\ WF_vars(StartUp \/ Undisturbed(SleepEnds) \/ \E id \in Candidates : NextAttempt(id))
  /\ \A id \in Candidates :
       /\ WF_vars(Undisturbed(Make(id) \/ Made(id) \/ Answers(id) \/ Checked(id, TRUE)))
       /\ WF_vars(Undisturbed(NoticeRuns(id) \/ InterruptionRuns(id) \/ RemovalRuns(id)))
  /\ WF_vars(FindsDead) /\ WF_vars(Coordinate) /\ WF_vars(Quitting) /\ WF_vars(LocalMoves)
  /\ \A k \in Callers : WF_vars(Calls /\ call'[k] = Idle /\ call[k] # Idle)
  /\ WF_vars(HostMoves /\ admissionCount' <= admissionCount)

FairSpec == Spec /\ Fairness

-----------------------------------------------------------------------------
CoordSteps == {"idle", "unresolving", "resolving", "asking", "requesting", "relinquishing",
               "lost", "activating", "fallingBack", "marking", "acking"}

TypeOK ==
  /\ TransportTypeOK /\ LocalTypeOK /\ HostTypeOK
  /\ coord \in [at : CoordSteps, id : Candidates \cup {None},
                outcome : {"none", "retry", "connected"}, same : BOOLEAN]
  /\ connectedID \in Candidates \cup {None}
  /\ chat \in [on : Candidates \cup {None}, hears : BOOLEAN] /\ queueSink \in BOOLEAN
  /\ quit \in {"no", "joining", "stopping", "unbridging", "disposing", "disposed"}
  /\ troubled \in 0..MaxTrouble

\* The coordinator has handled everything it was told.
Quiet == Admitted /\ events = <<>> /\ coord.at = "idle"

\* When the transport is connected and the coordinator has caught up, the app
\* agrees with it about everything it keeps for itself: which candidate is
\* connected, whose registration the bridge holds, on which connection the chat
\* coordinator is, and that someone runs the queue.  A connection whose death
\* is still on its way to the runtime is not counted.
AppFollowsTransport ==
  Quiet /\ phase = "connected" /\ line[candidate] = "live" =>
    /\ connectedID = candidate /\ registration[candidate] = "connected"
    /\ chat.on = candidate /\ cstate \in {"daemonActive", "localReady"}

\* From the complete reply to the end of the fallback, the daemon process that
\* gave the reply has no engine, unless it is that of a build in flight when the
\* reply was given: the app opens its own engine only behind a handover
\* (fallBackAfterRelinquishment, and the reply of the host).
HandoverIsExclusive == coord.at = "fallingBack" /\ coord.same /\ engine => leftBuilding

\* When the quit has disposed of the queue runtime, no view reaches a queue and
\* the app's engine runs only if its own workers have blocked its shutdown,
\* whatever transition the quit cut short (dispose; the runtime is disposed of
\* only if its startup did not fail, RendererCompositionOwner.swift:307-316).
QuitClosesTheQueue ==
  quit = "disposed" /\ launched = "yes" /\ Free => route = "unavailable" /\ (local = "open" => cstate = "shutdownBlocked")

\* The app always gets back to an accepted connection, after the daemon, the
\* connection, a probe, a reply, a deadline or the user has disturbed it once
\* (runAdmissionLoop, acceptCandidate).
ComesBack == []<>(phase = "connected" \/ ~Admitted)

\* A quit is not held up by a transition, a call or a daemon that does not
\* answer (shutdown, dispose).
QuitEnds == quit = "joining" ~> (quit = "disposed" /\ Free)

\* There is one owner of queue.sqlite: the app's engine and the daemon's are
\* never open together (XPCQueueEngineProxy.swift:7-18).
OneOwner == ~(local = "open" /\ engine)
===============================================================================
