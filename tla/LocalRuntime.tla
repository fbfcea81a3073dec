------------------------------ MODULE LocalRuntime ------------------------------
(***************************************************************************)
(* The app's side of queue ownership: LocalQueueRuntimeController.swift    *)
(* opens and closes the app's own QueueEngine, and QueueEngineHotSwap.swift*)
(* is the stable client in front of it, which every view calls.  A swap    *)
(* installs the new client and then waits for the calls that were admitted *)
(* to the retired one; the wait is an AsyncStream's, which a cancelled     *)
(* task leaves at once.                                                    *)
(*                                                                         *)
(* One transition runs at a time (activeTransition); the startup task may  *)
(* still be running when a transition begins, and is stale from then on.   *)
(* Unresolved daemons are replaced only when their epoch differs, which no *)
(* two daemon processes do: replaceUnresolvedDaemon is left out.           *)
(***************************************************************************)
CONSTANTS Callers       \* callers of the stable client: views, tools, the tracker

VARIABLES cstate,       \* LocalQueueRuntimeController.state
          launched,     \* whether start() has been called, and whether startup failed
          boot,         \* the startup task (ownedTask)
          bootStale,    \* a transition has begun since it started
          work,         \* the transition under way and its step
          handle,       \* localHandle is set
          local,        \* the app's own engine
          route,        \* the hot swap's active client
          call,         \* each caller's call: the client it was admitted to
          cancelled     \* the task that runs the transitions has been cancelled

localVars == <<cstate, launched, boot, bootStale, work, handle, local, route, call, cancelled>>

Idle == [to |-> "nobody", age |-> "none"]
NoWork == [kind |-> "none", step |-> "none"]

LocalInit ==
  /\ cstate = "unavailable" /\ launched = "no"
  /\ boot = "none" /\ bootStale = FALSE
  /\ work = NoWork
  /\ handle = FALSE /\ local = "none"
  /\ route = "unavailable"
  /\ call = [k \in Callers |-> Idle]
  /\ cancelled = FALSE

-----------------------------------------------------------------------------
\* The hot swap

Aged(from, to) == [k \in Callers |-> IF call[k].age = from THEN [call[k] EXCEPT !.age = to]
                                     ELSE call[k]]

\* swap(to:) up to its wait: the calls now in flight belong to the retired
\* client, and a cancelled task does not wait for them.
SwapTo(client, gaveUp) ==
  /\ route' = client
  /\ call' = Aged("current", IF gaveUp THEN "abandoned" ELSE "retired")

\* Mutant: a swap returns without waiting for the retired client's calls.
SwapWaitsForNobody == TRUE

\* waitForAdmissions(toDrain:) returns
SwapDone == \A k \in Callers : call[k].age # "retired"

CallBegins(k) ==
  /\ call[k] = Idle
  /\ call' = [call EXCEPT ![k] = [to |-> route, age |-> "current"]]
  /\ UNCHANGED <<cstate, launched, boot, bootStale, work, handle, local, route, cancelled>>

CallEnds(k) ==
  /\ call[k] # Idle
  /\ call' = [call EXCEPT ![k] = Idle]
  /\ UNCHANGED <<cstate, launched, boot, bootStale, work, handle, local, route, cancelled>>

-----------------------------------------------------------------------------
\* Startup (start, runLocalStartup, retireStaleHandle)

Start ==
  /\ launched = "no" /\ launched' = "yes"
  /\ IF boot = "none" /\ work = NoWork /\ cstate = "unavailable"
       THEN cstate' = "startingLocal" /\ boot' = "assembling" /\ bootStale' = FALSE
       ELSE UNCHANGED <<cstate, boot, bootStale>>
  /\ UNCHANGED <<work, handle, local, route, call, cancelled>>

BootAssembles ==
  /\ boot = "assembling"
  /\ local' = "open" /\ boot' = "assembled"
  /\ UNCHANGED <<cstate, launched, bootStale, work, handle, route, call, cancelled>>

BootResumes ==
  /\ boot = "assembled"
  /\ IF bootStale
       THEN boot' = "retiring" /\ UNCHANGED <<handle, route, call>>
       ELSE boot' = "swapping" /\ handle' = TRUE /\ SwapTo("local", FALSE)
  /\ UNCHANGED <<cstate, launched, bootStale, work, local, cancelled>>

BootFails ==
  /\ boot = "assembling"
  /\ IF bootStale
       THEN boot' = "none" /\ UNCHANGED <<cstate, launched, route, call>>
       ELSE /\ boot' = "failing" /\ cstate' = "unavailable" /\ launched' = "failed"
            /\ SwapTo("unavailable", FALSE)
  /\ UNCHANGED <<bootStale, work, handle, local, cancelled>>

BootSwapped ==
  /\ boot \in {"swapping", "failing"} /\ SwapDone
  /\ boot' = "none"
  /\ cstate' = IF boot = "swapping" /\ ~bootStale THEN "localReady" ELSE cstate
  /\ UNCHANGED <<launched, bootStale, work, handle, local, route, call, cancelled>>

\* The three ways QueueRuntimeHandle.dispose ends: the engine has shut down and
\* its components are gone; its workers block it; or the engine has shut down
\* and a component's disposal throws.
Disposals == {"shutDown", "blocked", "threw"}
Disposed(how) ==
  local' = CASE how = "shutDown" -> "none" [] how = "threw" -> "halted" [] OTHER -> local

BootRetires(how) ==
  /\ boot = "retiring"
  /\ boot' = "none" /\ Disposed(how)
  /\ handle' = (handle \/ how # "shutDown")
  /\ cstate' = IF how = "blocked" THEN "shutdownBlocked" ELSE cstate
  /\ UNCHANGED <<launched, bootStale, work, route, call, cancelled>>

-----------------------------------------------------------------------------
\* Transitions.  Each Begin... is a call of the controller up to its first
\* suspension; the steps after it are one per resumption; Done says the call
\* returns, and whether it returns true.

Free == work = NoWork

\* dispose() runs in the task of the quit, the rest in the coordinator's.
GaveUp == cancelled /\ work.kind # "dispose"
Go(kind, step) == work' = [kind |-> kind, step |-> step]
Done == work' = NoWork

\* The failure paths of a transition: a state, and the unavailable client.
FailTo(state) ==
  /\ cstate' = state
  /\ SwapTo("unavailable", GaveUp) /\ Go(work.kind, "failing")

\* cancelOwnedTask: the startup task is cancelled, and its swap stops waiting.
JoinStartup ==
  /\ bootStale' = (boot # "none")
  /\ call' = Aged("retired", "abandoned")

\* activateDaemon, and retryBlockedShutdownForDaemon, which has no startup to join
CanActivate == Free /\ cstate # "shutdownBlocked"
BeginActivate ==
  /\ CanActivate
  /\ Go("activate", "joining") /\ JoinStartup
  /\ UNCHANGED <<cstate, launched, boot, handle, local, route, cancelled>>

CanRetryBlocked == Free /\ cstate = "shutdownBlocked" /\ handle /\ boot = "none"
BeginRetryBlocked ==
  /\ CanRetryBlocked
  /\ Go("activate", "retiring") /\ cstate' = "shuttingDown" /\ SwapTo("unavailable", GaveUp)
  /\ UNCHANGED <<launched, boot, bootStale, handle, local, cancelled>>

\* dispose(), on quit
BeginDispose ==
  /\ Free
  /\ Go("dispose", "joining") /\ JoinStartup
  /\ UNCHANGED <<cstate, launched, boot, handle, local, route, cancelled>>

\* Mutant: the startup task is cancelled and not awaited.
StartupNotJoined ==
  /\ work.step = "joining"
  /\ IF work.kind = "activate" /\ cstate = "shutdownBlocked"
       THEN Done /\ UNCHANGED <<cstate, route, call>>
       ELSE /\ cstate' = IF work.kind = "activate" THEN "shuttingDown" ELSE "disposing"
            /\ Go(work.kind, "retiring") /\ SwapTo("unavailable", GaveUp)
  /\ bootStale' = FALSE
  /\ UNCHANGED <<launched, boot, handle, local, cancelled>>

\* cancelOwnedTask has awaited the startup task
StartupJoined ==
  /\ work.step = "joining" /\ boot = "none"
  /\ IF work.kind = "activate" /\ cstate = "shutdownBlocked"
       THEN Done /\ UNCHANGED <<cstate, route, call>>
       ELSE /\ cstate' = IF work.kind = "activate" THEN "shuttingDown" ELSE "disposing"
            /\ Go(work.kind, "retiring") /\ SwapTo("unavailable", GaveUp)
  /\ bootStale' = FALSE
  /\ UNCHANGED <<launched, boot, handle, local, cancelled>>

\* runDaemonActivation and dispose after their first swap
Retired ==
  /\ work.step = "retiring" /\ SwapDone
  /\ CASE handle -> Go(work.kind, "disposing") /\ UNCHANGED <<route, call>>
       [] ~handle /\ work.kind = "activate" -> Go("activate", "installing") /\ SwapTo("daemon", GaveUp)
       [] OTHER -> Done /\ UNCHANGED <<route, call>>
  /\ UNCHANGED <<cstate, launched, boot, bootStale, handle, local, cancelled>>

\* Mutant: the daemon's proxy is installed whatever became of the local engine.
DisposedAnyhow(how) ==
  /\ work.step = "disposing"
  /\ Disposed(how) /\ handle' = (how # "shutDown")
  /\ IF work.kind = "activate"
       THEN UNCHANGED cstate /\ Go("activate", "installing") /\ SwapTo("daemon", GaveUp)
       ELSE /\ cstate' = IF how = "blocked" THEN "shutdownBlocked" ELSE "unavailable"
            /\ Done /\ UNCHANGED <<route, call>>
  /\ UNCHANGED <<launched, boot, bootStale, cancelled>>

LocalDisposed(how) ==
  /\ work.step = "disposing"
  /\ Disposed(how) /\ handle' = (how # "shutDown")
  /\ CASE how = "shutDown" /\ work.kind = "activate" ->
            UNCHANGED cstate /\ Go("activate", "installing") /\ SwapTo("daemon", GaveUp)
       [] how = "blocked" /\ work.kind = "activate" -> FailTo("shutdownBlocked")
       [] how = "threw" /\ work.kind = "activate" -> FailTo("unavailable")
       [] OTHER -> /\ cstate' = IF how = "blocked" THEN "shutdownBlocked" ELSE "unavailable"
                   /\ Done /\ UNCHANGED <<route, call>>
  /\ UNCHANGED <<launched, boot, bootStale, cancelled>>

DaemonInstalled ==
  /\ work.step = "installing" /\ SwapDone
  /\ cstate' = "daemonActive" /\ Done
  /\ UNCHANGED <<launched, boot, bootStale, handle, local, route, call, cancelled>>

\* daemonOwnershipBecameUnresolved
CanUnresolve == Free /\ cstate = "daemonActive"
BeginUnresolve ==
  /\ CanUnresolve
  /\ Go("unresolve", "parting") /\ cstate' = "unresolved" /\ SwapTo("unavailable", GaveUp)
  /\ UNCHANGED <<launched, boot, bootStale, handle, local, cancelled>>

\* fallBackAfterRelinquishment, given a complete reply
CanFallBack == Free /\ cstate = "unresolved" /\ boot = "none"
BeginFallBack ==
  /\ CanFallBack
  /\ Go("fallback", "assembling") /\ cstate' = "fallingBack"
  /\ UNCHANGED <<launched, boot, bootStale, handle, local, route, call, cancelled>>

FallBackAssembled ==
  /\ work.step = "assembling"
  /\ local' = "open" /\ handle' = TRUE
  /\ SwapTo("local", GaveUp) /\ Go("fallback", "adopting")
  /\ UNCHANGED <<cstate, launched, boot, bootStale, cancelled>>

FallBackFails ==
  /\ work.step = "assembling" /\ FailTo("unavailable")
  /\ UNCHANGED <<launched, boot, bootStale, handle, local, cancelled>>

FallenBack ==
  /\ work.step = "adopting" /\ SwapDone
  /\ cstate' = "localReady" /\ Done
  /\ UNCHANGED <<launched, boot, bootStale, handle, local, route, call, cancelled>>

\* The swap of a failure path, or of an unresolved daemon, has drained.
Parted ==
  /\ work.step \in {"failing", "parting"} /\ SwapDone
  /\ Done
  /\ UNCHANGED <<cstate, launched, boot, bootStale, handle, local, route, call, cancelled>>

\* The coordinator's event task is cancelled: a swap it is waiting in returns.
CancelTask ==
  /\ ~cancelled /\ cancelled' = TRUE
  /\ call' = IF work.kind \in {"none", "dispose"} THEN call ELSE Aged("retired", "abandoned")
  /\ UNCHANGED <<cstate, launched, boot, bootStale, work, handle, local, route>>

\* What goes wrong in the app: an assembly that throws, a disposal that does not finish.
LocalFaults ==
  \/ BootFails \/ FallBackFails
  \/ \E how \in Disposals \ {"shutDown"} : BootRetires(how) \/ LocalDisposed(how)

LocalCalls == \E k \in Callers : CallBegins(k) \/ CallEnds(k)

LocalSteps ==
  \/ Start \/ BootAssembles \/ BootResumes \/ BootSwapped \/ BootRetires("shutDown")
  \/ StartupJoined \/ Retired \/ LocalDisposed("shutDown") \/ DaemonInstalled
  \/ FallBackAssembled \/ FallenBack \/ Parted

LocalRequests ==
  BeginActivate \/ BeginRetryBlocked \/ BeginUnresolve \/ BeginFallBack \/ BeginDispose
                 \/ CancelTask

LocalNext == LocalCalls \/ LocalSteps \/ LocalFaults \/ LocalRequests
LocalSpec == LocalInit /\ [][LocalNext]_localVars

-----------------------------------------------------------------------------
CStates == {"unavailable", "startingLocal", "localReady", "shuttingDown", "shutdownBlocked",
            "daemonActive", "unresolved", "fallingBack", "disposing"}
Routes == {"unavailable", "local", "daemon"}
Steps == {"none", "joining", "retiring", "disposing", "installing", "failing", "parting",
          "assembling", "adopting"}

LocalTypeOK ==
  /\ cstate \in CStates /\ launched \in {"no", "yes", "failed"}
  /\ boot \in {"none", "assembling", "assembled", "swapping", "retiring", "failing"}
  /\ bootStale \in BOOLEAN /\ handle \in BOOLEAN
  /\ work \in [kind : {"none", "activate", "dispose", "unresolve", "fallback"}, step : Steps]
  /\ local \in {"none", "open", "halted"} /\ route \in Routes
  /\ call \in [Callers -> [to : Routes \cup {"nobody"},
                           age : {"none", "current", "retired", "abandoned"}]]
  /\ cancelled \in BOOLEAN

\* A call that a view still has in flight at the app's own engine finds that
\* engine open: the swap barrier keeps dispose, and with it the closing of
\* queue.sqlite, behind every admitted call, but for those a cancelled task
\* has stopped waiting for (swap, waitForAdmissions).
CallsFindTheEngineOpen ==
  \A k \in Callers : call[k].to = "local" /\ call[k].age # "abandoned" => local = "open"

\* While the stable client leads to the daemon, or did until the daemon was
\* lost, the app has no engine of its own on queue.sqlite: the proxy is
\* installed only after the local engine has shut down and its store is closed
\* (runDaemonActivation).
DaemonRouteHasNoLocalEngine ==
  route = "daemon" \/ cstate \in {"daemonActive", "unresolved"} => local = "none" /\ ~handle
===============================================================================
