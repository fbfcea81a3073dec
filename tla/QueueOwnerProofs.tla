---------------------------- MODULE QueueOwnerProofs ----------------------------
(***************************************************************************)
(* The two owners of the queue, each on its own.                           *)
(*                                                                         *)
(* The app's side, for any number of callers: a call admitted to the       *)
(* app's engine finds it open, and the daemon's proxy is in front of the   *)
(* views only when the app has no engine.                                  *)
(*                                                                         *)
(* The daemon's host, for any number of operations in flight: every one is *)
(* owed exactly one release, and a relinquished host has no engine but     *)
(* that of a build its forced drain stopped waiting for.                   *)
(***************************************************************************)
EXTENDS LocalRuntime, QueueHost, FiniteSetTheorems, TLAPS

(* The app's queue runtime. *)

\* The startup task runs beside an unfinished transition only while that joins it.
BootPhase ==
  /\ boot # "none" => work.step \in {"none", "joining"}
  /\ boot \in {"assembling", "assembled", "swapping", "retiring"} => cstate = "startingLocal"
  /\ boot = "failing" => cstate = "unavailable"
  /\ boot = "assembled" => local = "open"

LocalRoute == route = "local" =>
  /\ local = "open" /\ handle
  /\ work.step \in {"none", "joining", "adopting"} /\ boot \in {"none", "swapping"}
  /\ cstate \in {"startingLocal", "localReady", "fallingBack"}

DaemonRoute == route = "daemon" =>
  /\ boot = "none"
  /\ \/ work.step = "installing"
     \/ cstate = "daemonActive" /\ work.step \in {"none", "joining"}

DaemonStates == cstate \in {"daemonActive", "unresolved"} =>
  /\ boot = "none" /\ local = "none" /\ ~handle
  /\ work.step \in {"none", "joining", "parting"}

\* An engine that no startup is about to hand over or retire has its handle.
EngineHeld == ~handle /\ boot \notin {"assembled", "retiring"} => local = "none"

TransitionPhase ==
  /\ work.step \in {"retiring", "disposing"} => route = "unavailable"
  /\ work.step = "disposing" => \A k \in Callers : call[k].to = "local" => call[k].age = "abandoned"
  /\ work.step = "installing" => route = "daemon" /\ local = "none" /\ ~handle
  /\ work.step \in {"assembling", "adopting"} => cstate = "fallingBack"

CallPhase == \A k \in Callers :
  /\ call[k].age = "none" => call[k].to = "nobody"
  /\ call[k].age = "current" => call[k].to = route
  /\ call[k].age = "retired" /\ call[k].to = "local" => work.step = "retiring" /\ local = "open"

LocalIInv == /\ LocalTypeOK /\ BootPhase /\ LocalRoute /\ DaemonRoute /\ DaemonStates
             /\ EngineHeld /\ TransitionPhase /\ CallPhase

-----------------------------------------------------------------------------
(* The four things the hot swap does to the calls in flight. *)

\* Calls of one age take another; nothing else about them changes.
LEMMA AgedCalls ==
  ASSUME LocalTypeOK,
         NEW from \in {"current", "retired"}, NEW to \in {"retired", "abandoned"}
  PROVE  LET c == Aged(from, to)
         IN /\ c \in [Callers -> [to : Routes \cup {"nobody"},
                                  age : {"none", "current", "retired", "abandoned"}]]
            /\ \A k \in Callers : /\ c[k].to = call[k].to
                                  /\ c[k].age = IF call[k].age = from THEN to ELSE call[k].age
BY DEF LocalTypeOK, Aged

\* A swap puts the new client in front of nobody: the calls in flight are
\* retired or given up, and those to the app's engine were admitted while the
\* route still led there.
LEMMA SwapCalls ==
  ASSUME LocalTypeOK, CallPhase, NEW client \in Routes, NEW gaveUp \in BOOLEAN,
         SwapTo(client, gaveUp)
  PROVE  /\ route' = client
         /\ call' \in [Callers -> [to : Routes \cup {"nobody"},
                                   age : {"none", "current", "retired", "abandoned"}]]
         /\ \A k \in Callers :
              /\ call'[k].to = call[k].to
              /\ call'[k].age # "current"
              /\ call'[k].age = "none" => call'[k].to = "nobody"
              /\ call'[k].age = "retired" /\ call'[k].to = "local" =>
                   route = "local" \/ call[k].age = "retired"
<1>1. ASSUME NEW to \in {"retired", "abandoned"}, call' = Aged("current", to)
      PROVE  /\ call' \in [Callers -> [to : Routes \cup {"nobody"},
                                       age : {"none", "current", "retired", "abandoned"}]]
             /\ \A k \in Callers :
                  /\ call'[k].to = call[k].to
                  /\ call'[k].age = IF call[k].age = "current" THEN to ELSE call[k].age
  BY <1>1, AgedCalls
<1>2. call' = Aged("current", IF gaveUp THEN "abandoned" ELSE "retired") /\ route' = client
  BY DEF SwapTo
<1> QED BY <1>1, <1>2 DEF CallPhase

-----------------------------------------------------------------------------
(* The inductive invariant, action by action. *)

LEMMA LocalInitial == LocalInit => LocalIInv
<1> SUFFICES ASSUME LocalInit PROVE LocalIInv
  OBVIOUS
<1>1. LocalTypeOK
  BY DEF LocalInit, LocalTypeOK, Idle, NoWork, Routes, Steps, CStates
<1>2. BootPhase /\ LocalRoute /\ DaemonRoute /\ DaemonStates /\ EngineHeld
  BY DEF LocalInit, BootPhase, LocalRoute, DaemonRoute, DaemonStates, EngineHeld
<1>3. TransitionPhase /\ CallPhase
  BY DEF LocalInit, TransitionPhase, CallPhase, Idle, NoWork
<1> QED BY <1>1, <1>2, <1>3 DEF LocalIInv

LEMMA CallSteps ==
  ASSUME LocalIInv, LocalCalls
  PROVE  LocalIInv'
<1>1. PICK k \in Callers : CallBegins(k) \/ CallEnds(k)
  BY DEF LocalCalls
<1> USE DEF LocalIInv
<1>2. LocalTypeOK'
  BY <1>1 DEF LocalTypeOK, CallBegins, CallEnds, Idle
<1>3. BootPhase' /\ LocalRoute' /\ DaemonRoute' /\ DaemonStates' /\ EngineHeld'
  BY <1>1 DEF BootPhase, LocalRoute, DaemonRoute, DaemonStates, EngineHeld, CallBegins, CallEnds
<1>4. TransitionPhase' /\ CallPhase'
  BY <1>1 DEF TransitionPhase, CallPhase, LocalTypeOK, CallBegins, CallEnds, Idle
<1> QED BY <1>2, <1>3, <1>4

\* Steps of the startup task.
LEMMA StartupSteps ==
  ASSUME LocalIInv,
         \/ Start \/ BootAssembles \/ BootResumes \/ BootFails \/ BootSwapped
         \/ \E how \in Disposals : BootRetires(how)
  PROVE  LocalIInv'
<1> USE DEF LocalIInv
<1>1. CASE Start
  <2>1. LocalTypeOK'
    <3>1. /\ cstate' = cstate \/ cstate' = "startingLocal"
          /\ boot' = boot \/ boot' = "assembling"
          /\ launched' = "yes" /\ UNCHANGED <<work, handle, local, route, call, cancelled>>
      BY <1>1 DEF Start
    <3>2. bootStale' \in BOOLEAN
      BY <1>1 DEF Start, LocalTypeOK
    <3> QED BY <3>1, <3>2 DEF LocalTypeOK, CStates
  <2>2. BootPhase' /\ LocalRoute' /\ DaemonRoute' /\ DaemonStates' /\ EngineHeld'
    BY <1>1 DEF Start, NoWork, BootPhase, LocalRoute, DaemonRoute, DaemonStates, EngineHeld
  <2>3. TransitionPhase' /\ CallPhase'
    BY <1>1 DEF Start, NoWork, TransitionPhase, CallPhase
  <2> QED BY <2>1, <2>2, <2>3
<1>2. CASE BootAssembles
  <2>1. LocalTypeOK'
    BY <1>2 DEF BootAssembles, LocalTypeOK
  <2>2. BootPhase' /\ LocalRoute' /\ DaemonRoute' /\ DaemonStates' /\ EngineHeld'
    BY <1>2 DEF BootAssembles, BootPhase, LocalRoute, DaemonRoute, DaemonStates, EngineHeld
  <2>3. TransitionPhase' /\ CallPhase'
    BY <1>2 DEF BootAssembles, BootPhase, TransitionPhase, CallPhase
  <2> QED BY <2>1, <2>2, <2>3
<1>3. CASE BootResumes
  <2>1. CASE bootStale
    BY <1>3, <2>1 DEF BootResumes, LocalTypeOK, BootPhase, LocalRoute, DaemonRoute,
                      DaemonStates, EngineHeld, TransitionPhase, CallPhase
  <2>2. CASE ~bootStale
    <3>1. SwapTo("local", FALSE) /\ route # "local" /\ local = "open" /\ boot' = "swapping" /\ handle'
      BY <1>3, <2>2 DEF BootResumes, BootPhase, LocalRoute
    <3>2. UNCHANGED <<cstate, launched, bootStale, work, local, cancelled>>
      BY <1>3 DEF BootResumes
    <3>3. route' = "local" /\ LocalTypeOK' /\ CallPhase'
      BY <3>1, <3>2, SwapCalls DEF LocalTypeOK, CallPhase, Routes
    <3>4. boot = "assembled"
      BY <1>3 DEF BootResumes
    <3> QED BY <3>1, <3>2, <3>3, <3>4 DEF BootPhase, LocalRoute, DaemonRoute, DaemonStates,
                                          EngineHeld, TransitionPhase
  <2> QED BY <2>1, <2>2
<1>4. CASE BootFails
  <2>1. CASE bootStale
    BY <1>4, <2>1 DEF BootFails, LocalTypeOK, BootPhase, LocalRoute, DaemonRoute,
                      DaemonStates, EngineHeld, TransitionPhase, CallPhase
  <2>2. CASE ~bootStale
    <3>1. SwapTo("unavailable", FALSE) /\ route # "local" /\ boot = "assembling" /\ boot' = "failing"
          /\ cstate' = "unavailable" /\ launched' = "failed"
      BY <1>4, <2>2 DEF BootFails, LocalRoute
    <3>2. UNCHANGED <<bootStale, work, handle, local, cancelled>>
      BY <1>4 DEF BootFails
    <3>3. route' = "unavailable" /\ LocalTypeOK' /\ CallPhase'
      BY <3>1, <3>2, SwapCalls DEF LocalTypeOK, CallPhase, Routes, CStates
    <3> QED BY <3>1, <3>2, <3>3 DEF BootPhase, LocalRoute, DaemonRoute, DaemonStates,
                                    EngineHeld, TransitionPhase
  <2> QED BY <2>1, <2>2
<1>5. CASE BootSwapped
  <2>1. LocalTypeOK'
    BY <1>5 DEF BootSwapped, LocalTypeOK, CStates
  <2>2. BootPhase' /\ LocalRoute' /\ DaemonRoute' /\ DaemonStates' /\ EngineHeld'
    BY <1>5 DEF BootSwapped, BootPhase, LocalRoute, DaemonRoute, DaemonStates, EngineHeld
  <2>3. TransitionPhase' /\ CallPhase'
    BY <1>5 DEF BootSwapped, BootPhase, TransitionPhase, CallPhase
  <2> QED BY <2>1, <2>2, <2>3
<1>6. ASSUME NEW how \in Disposals, BootRetires(how)
      PROVE  LocalIInv'
  <2>1. LocalTypeOK'
    BY <1>6 DEF BootRetires, Disposed, LocalTypeOK, CStates
  <2>2. BootPhase' /\ LocalRoute' /\ DaemonRoute' /\ DaemonStates' /\ EngineHeld'
    BY <1>6 DEF BootRetires, Disposed, Disposals, BootPhase, LocalRoute, DaemonRoute,
                DaemonStates, EngineHeld
  <2>3. TransitionPhase' /\ CallPhase'
    BY <1>6 DEF BootRetires, BootPhase, TransitionPhase, CallPhase
  <2> QED BY <2>1, <2>2, <2>3
<1> QED BY <1>1, <1>2, <1>3, <1>4, <1>5, <1>6

\* A step of a transition that swaps clients, without disposing of anything.
LEMMA SwapSteps ==
  ASSUME LocalIInv, BeginRetryBlocked \/ BeginUnresolve \/ FallBackAssembled \/ FallBackFails
  PROVE  LocalIInv'
<1> USE DEF LocalIInv
<1>1. GaveUp \in BOOLEAN
  BY DEF GaveUp, LocalTypeOK
<1>2. CASE BeginRetryBlocked
  <2>1. /\ SwapTo("unavailable", GaveUp) /\ route # "local" /\ cstate' = "shuttingDown"
        /\ boot = "none" /\ work' = [kind |-> "activate", step |-> "retiring"]
        /\ UNCHANGED <<launched, boot, bootStale, handle, local, cancelled>>
    BY <1>2 DEF BeginRetryBlocked, CanRetryBlocked, LocalRoute, Go
  <2>2. route' = "unavailable" /\ LocalTypeOK' /\ CallPhase'
    BY <1>1, <2>1, SwapCalls DEF LocalTypeOK, CallPhase, Routes, CStates, Steps
  <2> QED BY <2>1, <2>2 DEF BootPhase, LocalRoute, DaemonRoute, DaemonStates, EngineHeld, TransitionPhase
<1>3. CASE BeginUnresolve
  <2>1. /\ SwapTo("unavailable", GaveUp) /\ route # "local" /\ cstate = "daemonActive"
        /\ work.step = "none"
        /\ cstate' = "unresolved" /\ work' = [kind |-> "unresolve", step |-> "parting"]
        /\ UNCHANGED <<launched, boot, bootStale, handle, local, cancelled>>
    BY <1>3 DEF BeginUnresolve, CanUnresolve, Free, NoWork, LocalRoute, Go
  <2>2. route' = "unavailable" /\ LocalTypeOK' /\ CallPhase'
    BY <1>1, <2>1, SwapCalls DEF LocalTypeOK, CallPhase, Routes, CStates, Steps
  <2> QED BY <2>1, <2>2 DEF BootPhase, LocalRoute, DaemonRoute, DaemonStates, EngineHeld, TransitionPhase
<1>4. CASE FallBackAssembled
  <2>1. /\ SwapTo("local", GaveUp) /\ route # "local" /\ cstate = "fallingBack" /\ boot = "none"
        /\ local' = "open" /\ handle' /\ handle' \in BOOLEAN
        /\ work' = [kind |-> "fallback", step |-> "adopting"]
        /\ UNCHANGED <<cstate, launched, boot, bootStale, cancelled>>
    BY <1>4 DEF FallBackAssembled, LocalRoute, BootPhase, TransitionPhase, Go
  <2>2. route' = "local" /\ LocalTypeOK' /\ CallPhase'
    <3>1. work.step # "retiring"
      BY <1>4 DEF FallBackAssembled
    <3> QED BY <3>1, <1>1, <2>1, SwapCalls DEF LocalTypeOK, CallPhase, Routes, CStates, Steps
  <2> QED BY <2>1, <2>2 DEF BootPhase, LocalRoute, DaemonRoute, DaemonStates, EngineHeld, TransitionPhase
<1>5. CASE FallBackFails
  <2>1. /\ SwapTo("unavailable", GaveUp) /\ route # "local" /\ cstate' = "unavailable" /\ boot = "none"
        /\ work' = [kind |-> work.kind, step |-> "failing"] /\ work.step = "assembling"
        /\ UNCHANGED <<launched, boot, bootStale, handle, local, cancelled>>
    BY <1>5 DEF FallBackFails, FailTo, LocalRoute, BootPhase, Go
  <2>2. route' = "unavailable" /\ LocalTypeOK' /\ CallPhase'
    BY <1>1, <2>1, SwapCalls DEF LocalTypeOK, CallPhase, Routes, CStates, Steps
  <2> QED BY <2>1, <2>2 DEF BootPhase, LocalRoute, DaemonRoute, DaemonStates, EngineHeld, TransitionPhase
<1> QED BY <1>2, <1>3, <1>4, <1>5

\* The other ways a transition begins or ends.
LEMMA PlainSteps ==
  ASSUME LocalIInv,
         \/ BeginActivate \/ BeginDispose \/ BeginFallBack \/ DaemonInstalled \/ FallenBack
         \/ Parted \/ CancelTask
  PROVE  LocalIInv'
<1> USE DEF LocalIInv
<1>1. ASSUME NEW kind \in {"activate", "dispose"}, Free, Go(kind, "joining"), JoinStartup,
             UNCHANGED <<cstate, launched, boot, handle, local, route, cancelled>>
      PROVE  LocalIInv'
  <2>1. /\ call' \in [Callers -> [to : Routes \cup {"nobody"},
                                  age : {"none", "current", "retired", "abandoned"}]]
        /\ \A k \in Callers :
             /\ call'[k].to = call[k].to
             /\ call'[k].age = IF call[k].age = "retired" THEN "abandoned" ELSE call[k].age
    BY <1>1, AgedCalls DEF JoinStartup
  <2>2. work' = [kind |-> kind, step |-> "joining"] /\ bootStale' \in BOOLEAN /\ work.step = "none"
    BY <1>1 DEF Go, JoinStartup, Free, NoWork
  <2>3. LocalTypeOK'
    BY <1>1, <2>1, <2>2 DEF LocalTypeOK, Steps
  <2>4. CallPhase' /\ TransitionPhase'
    BY <1>1, <2>1, <2>2 DEF CallPhase, TransitionPhase
  <2> QED BY <1>1, <2>2, <2>3, <2>4 DEF BootPhase, LocalRoute, DaemonRoute, DaemonStates, EngineHeld
<1>2. CASE BeginActivate
  BY <1>1, <1>2 DEF BeginActivate, CanActivate
<1>3. CASE BeginDispose
  BY <1>1, <1>3 DEF BeginDispose
<1>4. CASE BeginFallBack
  <2>1. LocalTypeOK'
    BY <1>4 DEF BeginFallBack, Go, LocalTypeOK, CStates, Steps
  <2>2. BootPhase' /\ LocalRoute' /\ DaemonRoute' /\ DaemonStates' /\ EngineHeld'
    BY <1>4 DEF BeginFallBack, CanFallBack, Free, NoWork, Go, BootPhase, LocalRoute, DaemonRoute,
                DaemonStates, EngineHeld
  <2>3. TransitionPhase' /\ CallPhase'
    BY <1>4 DEF BeginFallBack, CanFallBack, Free, NoWork, Go, TransitionPhase, CallPhase
  <2> QED BY <2>1, <2>2, <2>3
<1>5. CASE DaemonInstalled \/ FallenBack \/ Parted
  <2>1. /\ \/ work.step = "installing" /\ cstate' = "daemonActive"
           \/ work.step = "adopting" /\ cstate' = "localReady"
           \/ work.step \in {"failing", "parting"} /\ cstate' = cstate
        /\ work' = [kind |-> "none", step |-> "none"]
        /\ UNCHANGED <<launched, boot, bootStale, handle, local, route, call, cancelled>>
    BY <1>5 DEF DaemonInstalled, FallenBack, Parted, Done, NoWork
  <2>2. LocalTypeOK'
    BY <2>1 DEF LocalTypeOK, CStates, Steps
  <2>3. BootPhase' /\ LocalRoute' /\ DaemonRoute' /\ DaemonStates' /\ EngineHeld'
    BY <2>1 DEF BootPhase, LocalRoute, DaemonRoute, DaemonStates, EngineHeld, TransitionPhase
  <2>4. TransitionPhase' /\ CallPhase'
    BY <2>1 DEF TransitionPhase, CallPhase
  <2> QED BY <2>2, <2>3, <2>4
<1>6. CASE CancelTask
  <2>1. /\ call' \in [Callers -> [to : Routes \cup {"nobody"},
                                  age : {"none", "current", "retired", "abandoned"}]]
        /\ \A k \in Callers :
             /\ call'[k].to = call[k].to
             /\ call'[k].age = call[k].age \/ (call[k].age = "retired" /\ call'[k].age = "abandoned")
    <3>1. CASE call' = call
      BY <3>1 DEF LocalTypeOK
    <3>2. CASE call' = Aged("retired", "abandoned")
      BY <3>2, AgedCalls
    <3> QED BY <1>6, <3>1, <3>2 DEF CancelTask
  <2>2. cancelled' = TRUE /\ UNCHANGED <<cstate, launched, boot, bootStale, work, handle, local, route>>
    BY <1>6 DEF CancelTask
  <2>3. LocalTypeOK'
    BY <2>1, <2>2 DEF LocalTypeOK
  <2>4. TransitionPhase' /\ CallPhase'
    BY <2>1, <2>2 DEF TransitionPhase, CallPhase
  <2> QED BY <2>2, <2>3, <2>4 DEF BootPhase, LocalRoute, DaemonRoute, DaemonStates, EngineHeld
<1> QED BY <1>2, <1>3, <1>4, <1>5, <1>6

\* cancelOwnedTask has returned, and the views are given the unavailable client.
LEMMA JoinedSteps ==
  ASSUME LocalIInv, StartupJoined
  PROVE  LocalIInv'
<1> USE DEF LocalIInv
<1>1. GaveUp \in BOOLEAN
  BY DEF GaveUp, LocalTypeOK
<1>2. CASE work.kind = "activate" /\ cstate = "shutdownBlocked"
  <2>1. /\ work' = [kind |-> "none", step |-> "none"] /\ bootStale' = FALSE
        /\ UNCHANGED <<cstate, launched, boot, handle, local, route, call, cancelled>>
        /\ boot = "none" /\ cstate = "shutdownBlocked" /\ work.step = "joining"
    BY <1>2 DEF StartupJoined, Done, NoWork
  <2>2. LocalTypeOK'
    BY <2>1 DEF LocalTypeOK, Steps
  <2>3. TransitionPhase' /\ CallPhase'
    BY <2>1 DEF TransitionPhase, CallPhase
  <2> QED BY <2>1, <2>2, <2>3 DEF BootPhase, LocalRoute, DaemonRoute, DaemonStates, EngineHeld
<1>3. CASE ~(work.kind = "activate" /\ cstate = "shutdownBlocked")
  <2>1. /\ SwapTo("unavailable", GaveUp) /\ cstate' \in {"shuttingDown", "disposing"}
        /\ boot = "none" /\ work.step = "joining"
        /\ work' = [kind |-> work.kind, step |-> "retiring"] /\ bootStale' = FALSE
        /\ UNCHANGED <<launched, boot, handle, local, cancelled>>
    BY <1>3 DEF StartupJoined, Go
  <2>2. route' = "unavailable" /\ LocalTypeOK' /\ CallPhase'
    BY <1>1, <2>1, SwapCalls DEF LocalTypeOK, CallPhase, LocalRoute, Routes, CStates, Steps
  <2> QED BY <2>1, <2>2 DEF BootPhase, LocalRoute, DaemonRoute, DaemonStates, EngineHeld, TransitionPhase
<1> QED BY <1>2, <1>3

\* The engine is closed only when no call that counts is at it.
LEMMA RetireSteps ==
  ASSUME LocalIInv, Retired
  PROVE  LocalIInv'
<1> USE DEF LocalIInv
<1>1. GaveUp \in BOOLEAN
  BY DEF GaveUp, LocalTypeOK
<1>2. /\ work.step = "retiring" /\ route = "unavailable" /\ boot = "none"
      /\ \A k \in Callers : call[k].to = "local" => call[k].age = "abandoned"
      /\ UNCHANGED <<cstate, launched, boot, bootStale, handle, local, cancelled>>
  BY DEF Retired, SwapDone, TransitionPhase, BootPhase, CallPhase, LocalTypeOK
<1>3. CASE handle
  <2>1. work' = [kind |-> work.kind, step |-> "disposing"] /\ UNCHANGED <<route, call>>
    BY <1>3 DEF Retired, Go
  <2>2. LocalTypeOK'
    BY <1>2, <2>1 DEF LocalTypeOK, Steps
  <2>3. TransitionPhase' /\ CallPhase'
    BY <1>2, <2>1 DEF TransitionPhase, CallPhase
  <2> QED BY <1>2, <2>1, <2>2, <2>3 DEF BootPhase, LocalRoute, DaemonRoute, DaemonStates, EngineHeld
<1>4. CASE ~handle /\ work.kind = "activate"
  <2>1. /\ SwapTo("daemon", GaveUp) /\ work' = [kind |-> "activate", step |-> "installing"]
        /\ local = "none"
    BY <1>2, <1>4 DEF Retired, Go, EngineHeld
  <2>2. route' = "daemon" /\ LocalTypeOK' /\ CallPhase'
    BY <1>1, <1>2, <2>1, SwapCalls DEF LocalTypeOK, CallPhase, Routes, Steps
  <2> QED BY <1>2, <1>4, <2>1, <2>2 DEF BootPhase, LocalRoute, DaemonRoute, DaemonStates,
                                       EngineHeld, TransitionPhase
<1>5. CASE ~handle /\ work.kind # "activate"
  <2>1. work' = [kind |-> "none", step |-> "none"] /\ UNCHANGED <<route, call>>
    BY <1>5 DEF Retired, Done, NoWork
  <2>2. LocalTypeOK'
    BY <1>2, <2>1 DEF LocalTypeOK, Steps
  <2>3. TransitionPhase' /\ CallPhase'
    BY <1>2, <2>1 DEF TransitionPhase, CallPhase
  <2> QED BY <1>2, <2>1, <2>2, <2>3 DEF BootPhase, LocalRoute, DaemonRoute, DaemonStates, EngineHeld
<1> QED BY <1>3, <1>4, <1>5

LEMMA DisposeSteps ==
  ASSUME LocalIInv, NEW how \in Disposals, LocalDisposed(how)
  PROVE  LocalIInv'
<1> USE DEF LocalIInv
<1>1. GaveUp \in BOOLEAN
  BY DEF GaveUp, LocalTypeOK
<1>2. /\ work.step = "disposing" /\ route = "unavailable" /\ boot = "none"
      /\ \A k \in Callers : call[k].to = "local" => call[k].age = "abandoned"
      /\ local' \in {"none", "open", "halted"} /\ handle' = (how # "shutDown")
      /\ how = "shutDown" => local' = "none"
      /\ UNCHANGED <<launched, boot, bootStale, cancelled>>
  BY DEF LocalDisposed, Disposed, TransitionPhase, BootPhase, LocalTypeOK
<1>3. cstate \notin {"daemonActive", "unresolved"}
  BY <1>2 DEF DaemonStates
<1>4. CASE how = "shutDown" /\ work.kind = "activate"
  <2>1. /\ SwapTo("daemon", GaveUp) /\ work' = [kind |-> "activate", step |-> "installing"]
        /\ UNCHANGED cstate
    BY <1>4 DEF LocalDisposed, Go
  <2>2. route' = "daemon" /\ LocalTypeOK' /\ CallPhase'
    BY <1>1, <1>2, <2>1, SwapCalls DEF LocalTypeOK, CallPhase, Routes, Steps
  <2> QED BY <1>2, <1>3, <1>4, <2>1, <2>2 DEF BootPhase, LocalRoute, DaemonRoute, DaemonStates,
                                             EngineHeld, TransitionPhase
<1>5. CASE how # "shutDown" /\ work.kind = "activate"
  <2>1. /\ SwapTo("unavailable", GaveUp) /\ work' = [kind |-> "activate", step |-> "failing"]
        /\ cstate' \in {"unavailable", "shutdownBlocked"}
    BY <1>5 DEF LocalDisposed, Disposals, FailTo, Go
  <2>2. route' = "unavailable" /\ LocalTypeOK' /\ CallPhase'
    BY <1>1, <1>2, <2>1, SwapCalls DEF LocalTypeOK, CallPhase, Routes, Steps, CStates
  <2> QED BY <1>2, <1>5, <2>1, <2>2 DEF BootPhase, LocalRoute, DaemonRoute, DaemonStates,
                                       EngineHeld, TransitionPhase
<1>6. CASE work.kind # "activate"
  <2>1. /\ cstate' \in {"unavailable", "shutdownBlocked"} /\ UNCHANGED <<route, call>>
        /\ work' = [kind |-> "none", step |-> "none"]
    BY <1>6 DEF LocalDisposed, Done, NoWork
  <2>2. LocalTypeOK'
    BY <1>2, <2>1 DEF LocalTypeOK, Steps, CStates
  <2>3. TransitionPhase' /\ CallPhase'
    BY <1>2, <2>1 DEF TransitionPhase, CallPhase
  <2> QED BY <1>2, <2>1, <2>2, <2>3 DEF BootPhase, LocalRoute, DaemonRoute, DaemonStates, EngineHeld
<1> QED BY <1>4, <1>5, <1>6

-----------------------------------------------------------------------------
(* The invariant and what it gives. *)

LEMMA LocalStep == LocalIInv /\ [LocalNext]_localVars => LocalIInv'
<1> SUFFICES ASSUME LocalIInv, [LocalNext]_localVars PROVE LocalIInv'
  OBVIOUS
<1>1. CASE LocalCalls
  BY <1>1, CallSteps
<1>2. CASE LocalSteps
  <2>1. ASSUME Start \/ BootAssembles \/ BootResumes \/ BootSwapped \/ BootRetires("shutDown")
        PROVE  LocalIInv'
    BY <2>1, StartupSteps DEF Disposals
  <2>2. ASSUME FallBackAssembled PROVE LocalIInv'
    BY <2>2, SwapSteps
  <2>3. ASSUME DaemonInstalled \/ FallenBack \/ Parted PROVE LocalIInv'
    BY <2>3, PlainSteps
  <2>4. ASSUME LocalDisposed("shutDown") PROVE LocalIInv'
    BY <2>4, DisposeSteps DEF Disposals
  <2> QED BY <1>2, <2>1, <2>2, <2>3, <2>4, JoinedSteps, RetireSteps DEF LocalSteps
<1>3. CASE LocalFaults
  <2>1. ASSUME NEW how \in Disposals \ {"shutDown"}, BootRetires(how) \/ LocalDisposed(how)
        PROVE  LocalIInv'
    BY <2>1, StartupSteps, DisposeSteps
  <2> QED BY <1>3, <2>1, StartupSteps, SwapSteps DEF LocalFaults
<1>4. CASE LocalRequests
  BY <1>4, SwapSteps, PlainSteps DEF LocalRequests
<1>5. CASE UNCHANGED localVars
  <2> USE DEF LocalIInv
  <2>1. LocalTypeOK' /\ BootPhase' /\ LocalRoute' /\ DaemonRoute'
    BY <1>5 DEF localVars, LocalTypeOK, BootPhase, LocalRoute, DaemonRoute
  <2>2. DaemonStates' /\ EngineHeld' /\ TransitionPhase' /\ CallPhase'
    BY <1>5 DEF localVars, DaemonStates, EngineHeld, TransitionPhase, CallPhase
  <2> QED BY <2>1, <2>2
<1> QED BY <1>1, <1>2, <1>3, <1>4, <1>5 DEF LocalNext

\* The inductive invariant holds in every state the app's queue runtime reaches.
THEOREM LocalInvariance == LocalSpec => []LocalIInv
BY LocalInitial, LocalStep, PTL DEF LocalSpec

\* The invariant is strong enough for both properties of the app's side.
LEMMA LocalConsequences ==
  LocalIInv => LocalTypeOK /\ CallsFindTheEngineOpen /\ DaemonRouteHasNoLocalEngine
<1> SUFFICES ASSUME LocalIInv
             PROVE  CallsFindTheEngineOpen /\ DaemonRouteHasNoLocalEngine
  BY DEF LocalIInv
<1> USE DEF LocalIInv
<1>1. CallsFindTheEngineOpen
  BY DEF CallsFindTheEngineOpen, CallPhase, LocalRoute, LocalTypeOK
<1>2. DaemonRouteHasNoLocalEngine
  BY DEF DaemonRouteHasNoLocalEngine, DaemonRoute, DaemonStates, TransitionPhase
<1> QED BY <1>1, <1>2

\* A call still counted by the hot swap finds the app's engine open, however
\* startup, takeover, fallback, quit and their failures are interleaved
\* (swap, dispose).
THEOREM CallsSafe == LocalSpec => []CallsFindTheEngineOpen
BY LocalInvariance, LocalConsequences, PTL

\* The daemon's proxy is in front of the views only when the app's engine is
\* closed and its handle gone (runDaemonActivation).
THEOREM ProxyAlone == LocalSpec => []DaemonRouteHasNoLocalEngine
BY LocalInvariance, LocalConsequences, PTL

-----------------------------------------------------------------------------
(* The daemon's queue host. *)

Owns(o) == op[o] \in {"building", "storing", "dropping"}

\* One operation owns the build, and the build's state is the owner's.
OneOwnerOfBuild ==
  /\ \A o, p \in Ops : Owns(o) /\ Owns(p) => o = p
  /\ \A o \in Ops : /\ op[o] \in {"building", "joined"} => build = "running"
                    /\ op[o] = "storing" => build = "opened"
                    /\ op[o] = "dropping" => build = "failed"
  /\ build # "none" => BuildInFlight

\* An open engine is stored, or about to be.
EngineStored == engine => resources \/ build = "opened"

\* The host builds only while it has nothing built.
StoredOnce == resources => ~BuildInFlight

HandingPhase ==
  /\ handing # "none" <=> hostState = "relinquishing"
  /\ handing = "stopping" => resources
  /\ handing = "stopping" \/ hostState = "relinquished" => admissionCount = 0
  /\ hostState = "relinquished" /\ ~leftBuilding => ~BuildInFlight /\ ~engine /\ ~resources

HostIInv == HostTypeOK /\ AdmissionBalance

ClosedIInv == HostIInv /\ OneOwnerOfBuild /\ EngineStored /\ StoredOnce /\ HandingPhase

-----------------------------------------------------------------------------
(* Counting the operations in flight. *)

LEMMA BusyFinite ==
  IsFiniteSet(Busy) /\ Cardinality(Busy) \in Nat /\ (Busy # {} => Cardinality(Busy) > 0)
<1>1. IsFiniteSet(Busy)
  BY HostAssumption, FS_Subset DEF Busy
<1> QED BY <1>1, FS_CardinalityType, FS_EmptySet

\* An operation arrives, leaves, or goes on.
LEMMA BusyArrives ==
  ASSUME HostTypeOK, NEW o \in Ops, op[o] = "idle", op'[o] # "idle",
         op' = [op EXCEPT ![o] = op'[o]]
  PROVE  Cardinality(Busy') = Cardinality(Busy) + 1
<1>1. Busy' = Busy \cup {o} /\ o \notin Busy
  BY DEF Busy, HostTypeOK
<1> QED BY <1>1, BusyFinite, FS_AddElement

LEMMA BusyLeaves ==
  ASSUME HostTypeOK, NEW o \in Ops, op[o] # "idle", op' = [op EXCEPT ![o] = "idle"]
  PROVE  Cardinality(Busy') = Cardinality(Busy) - 1 /\ Cardinality(Busy) > 0
<1>1. Busy' = Busy \ {o} /\ o \in Busy
  BY DEF Busy, HostTypeOK
<1> QED BY <1>1, BusyFinite, FS_RemoveElement

LEMMA BusySame ==
  ASSUME HostTypeOK, \A o \in Ops : op'[o] = "idle" <=> op[o] = "idle"
  PROVE  Cardinality(Busy') = Cardinality(Busy)
<1>1. Busy' = Busy
  BY DEF Busy
<1> QED BY <1>1

-----------------------------------------------------------------------------
(* The admission account, action by action. *)

LEMMA HostInitial == HostInit => ClosedIInv
<1> SUFFICES ASSUME HostInit PROVE ClosedIInv
  OBVIOUS
<1>1. HostTypeOK
  BY DEF HostInit, HostTypeOK, HostStates, OpSteps
<1>2. AdmissionBalance
  <2>1. Busy = {}
    BY DEF HostInit, Busy
  <2> QED BY <2>1, FS_EmptySet DEF HostInit, AdmissionBalance
<1>3. OneOwnerOfBuild /\ EngineStored /\ StoredOnce /\ HandingPhase
  BY DEF HostInit, OneOwnerOfBuild, Owns, EngineStored, StoredOnce, HandingPhase, BuildInFlight
<1> QED BY <1>1, <1>2, <1>3 DEF ClosedIInv, HostIInv

\* The type of what the steps of operations leave behind.
LEMMA OpStepsTyped ==
  ASSUME HostTypeOK,
         \/ \E o \in Ops : HostAdmit(o) \/ OwnerResumes(o) \/ OpEnds(o)
         \/ BuildOpens \/ BuildFails
  PROVE  HostTypeOK'
<1> USE DEF HostTypeOK, OpSteps
<1>1. ASSUME NEW o \in Ops, HostAdmit(o) PROVE HostTypeOK'
  BY <1>1 DEF HostAdmit
<1>2. ASSUME NEW o \in Ops, OwnerResumes(o) PROVE HostTypeOK'
  BY <1>2 DEF OwnerResumes
<1>3. ASSUME NEW o \in Ops, OpEnds(o) PROVE HostTypeOK'
  <2>1. admissionCount' \in Nat /\ deficits' \in Nat
    BY <1>3 DEF OpEnds, FinishAdmission
  <2> QED BY <1>3, <2>1 DEF OpEnds
<1>4. CASE BuildOpens
  BY <1>4 DEF BuildOpens
<1>5. CASE BuildFails
  BY <1>5 DEF BuildFails
<1> QED BY <1>1, <1>2, <1>3, <1>4, <1>5

\* The type of what relinquishing and the end of the process leave behind.
LEMMA HandingTyped ==
  ASSUME HostTypeOK,
         HostRelinquish \/ HostDrained \/ ForceDrain \/ HostStops \/ HostBlocked \/ HostDies
  PROVE  HostTypeOK'
<1> USE DEF HostTypeOK
<1>1. CASE HostRelinquish \/ HostDrained \/ HostStops \/ HostBlocked
  <2>1. BuildInFlight \in BOOLEAN
    BY DEF BuildInFlight
  <2> QED BY <1>1, <2>1 DEF HostRelinquish, HostDrained, HostStops, HostBlocked, HostStates
<1>2. CASE ForceDrain
  BY <1>2 DEF ForceDrain
<1>3. CASE HostDies
  BY <1>3 DEF HostDies, HostStates, OpSteps
<1> QED BY <1>1, <1>2, <1>3

LEMMA BalanceStep ==
  ASSUME HostIInv, [HostNext]_hostVars
  PROVE  HostIInv'
<1> USE DEF HostIInv
<1>0. Cardinality(Busy) \in Nat /\ admissionCount \in Nat /\ deficits \in Nat
  BY BusyFinite DEF HostTypeOK
<1>1. ASSUME NEW o \in Ops, HostAdmit(o) PROVE HostIInv'
  <2>1. op'[o] # "idle" /\ op' = [op EXCEPT ![o] = op'[o]] /\ op[o] = "idle"
    BY <1>1 DEF HostAdmit, HostTypeOK
  <2>2. admissionCount' = admissionCount + 1 /\ deficits' = deficits
    BY <1>1 DEF HostAdmit
  <2> QED BY <1>0, <1>1, <2>1, <2>2, BusyArrives, OpStepsTyped DEF AdmissionBalance
<1>2. ASSUME NEW o \in Ops, OwnerResumes(o) PROVE HostIInv'
  <2>1. Cardinality(Busy') = Cardinality(Busy)
    BY <1>2, BusySame DEF OwnerResumes, HostTypeOK
  <2> QED BY <1>2, <2>1, OpStepsTyped DEF AdmissionBalance, OwnerResumes
<1>3. ASSUME NEW o \in Ops, OpEnds(o) PROVE HostIInv'
  <2>1. Cardinality(Busy') = Cardinality(Busy) - 1 /\ Cardinality(Busy) > 0
    BY <1>3, BusyLeaves DEF OpEnds
  <2>2. admissionCount' + deficits' = admissionCount + deficits - 1
    BY <1>0, <1>3, <2>1 DEF AdmissionBalance, OpEnds, FinishAdmission
  <2> QED BY <1>0, <1>3, <2>1, <2>2, OpStepsTyped DEF AdmissionBalance
<1>4. CASE BuildOpens \/ BuildFails
  <2>1. Cardinality(Busy') = Cardinality(Busy)
    BY <1>4, BusySame DEF BuildOpens, BuildFails, HostTypeOK
  <2> QED BY <1>4, <2>1, OpStepsTyped DEF AdmissionBalance, BuildOpens, BuildFails
<1>5. CASE HostRelinquish \/ HostDrained \/ HostStops \/ HostBlocked
  <2>1. op' = op /\ admissionCount' = admissionCount /\ deficits' = deficits
    BY <1>5 DEF HostRelinquish, HostDrained, HostStops, HostBlocked
  <2>2. Busy' = Busy
    BY <2>1 DEF Busy
  <2> QED BY <1>5, <2>1, <2>2, HandingTyped DEF AdmissionBalance
<1>6. CASE ForceDrain
  <2>1. op' = op /\ admissionCount' = 0 /\ deficits' = deficits + admissionCount
    BY <1>6 DEF ForceDrain
  <2>2. Busy' = Busy
    BY <2>1 DEF Busy
  <2> QED BY <1>0, <1>6, <2>1, <2>2, HandingTyped DEF AdmissionBalance
<1>7. CASE HostDies
  <2>1. Busy' = {} /\ admissionCount' = 0 /\ deficits' = 0
    BY <1>7 DEF HostDies, Busy
  <2> QED BY <1>7, <2>1, FS_EmptySet, HandingTyped DEF AdmissionBalance
<1>8. CASE UNCHANGED hostVars
  <2>1. Busy' = Busy
    BY <1>8 DEF hostVars, Busy
  <2> QED BY <1>8, <2>1 DEF hostVars, AdmissionBalance, HostTypeOK
<1> QED BY <1>1, <1>2, <1>3, <1>4, <1>5, <1>6, <1>7, <1>8 DEF HostNext, HostWorks

\* Every operation in flight is owed exactly one release, whatever drains were
\* forced (finishAdmission, forceAdmissionDrain).
THEOREM AdmissionsAccounted == HostSpec => []AdmissionBalance
<1>1. HostInit => HostIInv
  BY HostInitial DEF ClosedIInv
<1>2. HostIInv /\ [HostNext]_hostVars => HostIInv'
  BY BalanceStep
<1>3. HostIInv => AdmissionBalance
  BY DEF HostIInv
<1> QED BY <1>1, <1>2, <1>3, PTL DEF HostSpec

-----------------------------------------------------------------------------
(* Who may still be building when the queue is given up. *)

LEMMA AdmitCloses ==
  ASSUME ClosedIInv, NEW o \in Ops, HostAdmit(o)
  PROVE  OneOwnerOfBuild' /\ EngineStored' /\ StoredOnce' /\ HandingPhase'
<1> USE DEF ClosedIInv, HostIInv
<1>1. /\ hostState = "serving" /\ op[o] = "idle" /\ op' = [op EXCEPT ![o] = op'[o]]
      /\ UNCHANGED <<hostState, resources, handing, engine>>
  BY DEF HostAdmit, HostTypeOK
<1>2. handing = "none"
  BY <1>1 DEF HandingPhase
<1>3. HandingPhase'
  BY <1>1, <1>2 DEF HandingPhase
<1>4. CASE op'[o] = "building" /\ build = "none" /\ build' = "running" /\ ~resources
  <2>1. \A p \in Ops : ~Owns(p) /\ op[p] # "joined"
    BY <1>4 DEF OneOwnerOfBuild, Owns
  <2>2. \A p \in Ops \ {o} : op'[p] = op[p]
    BY <1>1 DEF HostTypeOK
  <2>3. OneOwnerOfBuild'
    BY <1>4, <2>1, <2>2 DEF OneOwnerOfBuild, Owns, BuildInFlight
  <2> QED BY <1>1, <1>3, <1>4, <2>3 DEF EngineStored, StoredOnce
<1>5. CASE op'[o] # "building" /\ build' = build
  <2>1. op'[o] \in {"running", "joined", "failing"} /\ (op'[o] = "joined" => build = "running")
    BY <1>5 DEF HostAdmit, HostTypeOK
  <2>2. \A p \in Ops \ {o} : op'[p] = op[p]
    BY <1>1 DEF HostTypeOK
  <2>3. \A p \in Ops : Owns(p)' <=> Owns(p)
    BY <1>1, <2>1, <2>2 DEF Owns
  <2>4. BuildInFlight' <=> BuildInFlight
    BY <2>3 DEF Owns, BuildInFlight
  <2>5. OneOwnerOfBuild'
    BY <1>1, <1>5, <2>1, <2>2, <2>3, <2>4 DEF OneOwnerOfBuild, Owns
  <2> QED BY <1>1, <1>3, <1>5, <2>4, <2>5 DEF EngineStored, StoredOnce
<1>6. \/ op'[o] = "building" /\ build = "none" /\ build' = "running" /\ ~resources
      \/ op'[o] # "building" /\ build' = build
  BY DEF HostAdmit, HostTypeOK
<1> QED BY <1>4, <1>5, <1>6

\* The owner of a build leaves it, and with it the host's only build.
LEMMA OwnerCloses ==
  ASSUME ClosedIInv, NEW o \in Ops, OwnerResumes(o)
  PROVE  OneOwnerOfBuild' /\ EngineStored' /\ StoredOnce' /\ HandingPhase'
<1> USE DEF ClosedIInv, HostIInv
<1>1. /\ Owns(o) /\ op'[o] \in {"running", "failing"} /\ build' = "none"
      /\ \A p \in Ops \ {o} : op'[p] = op[p]
      /\ UNCHANGED <<hostState, admissionCount, handing, engine, leftBuilding>>
      /\ resources' = (op[o] = "storing" \/ resources)
  BY DEF OwnerResumes, Owns, HostTypeOK
<1>2. \A p \in Ops : ~Owns(p)'
  BY <1>1 DEF OneOwnerOfBuild, Owns
<1>3. ~BuildInFlight' /\ BuildInFlight
  BY <1>1, <1>2 DEF Owns, BuildInFlight
<1>4. \A p \in Ops : op'[p] # "joined"
  BY <1>1 DEF OneOwnerOfBuild, Owns, OwnerResumes, HostTypeOK
<1>5. OneOwnerOfBuild'
  BY <1>1, <1>2, <1>3, <1>4 DEF OneOwnerOfBuild, Owns
<1>6. EngineStored'
  <2>1. build = "opened" => op[o] = "storing"
    BY DEF OwnerResumes, OneOwnerOfBuild
  <2>2. op[o] = "storing" \/ resources => resources'
    BY DEF OwnerResumes
  <2> QED BY <1>1, <2>1, <2>2 DEF EngineStored
<1>7. StoredOnce' /\ HandingPhase'
  BY <1>1, <1>3 DEF StoredOnce, HandingPhase
<1> QED BY <1>5, <1>6, <1>7

LEMMA BuildCloses ==
  ASSUME ClosedIInv, BuildOpens \/ BuildFails
  PROVE  OneOwnerOfBuild' /\ EngineStored' /\ StoredOnce' /\ HandingPhase'
<1> USE DEF ClosedIInv, HostIInv
<1>1. /\ build = "running"
      /\ UNCHANGED <<hostState, resources, admissionCount, handing, leftBuilding>>
      /\ \/ build' = "opened" /\ \A p \in Ops : op'[p] = CASE op[p] = "building" -> "storing"
                                                           [] op[p] = "joined" -> "running"
                                                           [] OTHER -> op[p]
         \/ build' = "failed" /\ engine' = engine
            /\ \A p \in Ops : op'[p] = CASE op[p] = "building" -> "dropping"
                                        [] op[p] = "joined" -> "failing"
                                        [] OTHER -> op[p]
  BY DEF BuildOpens, BuildFails
<1>2. BuildInFlight
  BY <1>1 DEF OneOwnerOfBuild
<1>3. \A p \in Ops : Owns(p)' <=> Owns(p)
  BY <1>1 DEF Owns
<1>4. BuildInFlight'
  BY <1>2, <1>3 DEF Owns, BuildInFlight
<1>5. \A p \in Ops : Owns(p) => op[p] = "building"
  BY <1>1 DEF OneOwnerOfBuild, Owns
<1>6. OneOwnerOfBuild'
  BY <1>1, <1>3, <1>4, <1>5 DEF OneOwnerOfBuild, Owns
<1>7. EngineStored'
  BY <1>1 DEF EngineStored
<1>8. StoredOnce' /\ HandingPhase'
  BY <1>1, <1>2 DEF StoredOnce, HandingPhase
<1> QED BY <1>6, <1>7, <1>8

\* An operation that ends is past the build.
LEMMA EndCloses ==
  ASSUME ClosedIInv, NEW o \in Ops, OpEnds(o)
  PROVE  OneOwnerOfBuild' /\ EngineStored' /\ StoredOnce' /\ HandingPhase'
<1> USE DEF ClosedIInv, HostIInv
<1>1. /\ op[o] \in {"running", "failing"} /\ op'[o] = "idle"
      /\ \A p \in Ops \ {o} : op'[p] = op[p]
      /\ UNCHANGED <<hostState, resources, build, handing, engine, leftBuilding>>
      /\ admissionCount = 0 => admissionCount' = 0
  BY DEF OpEnds, FinishAdmission, HostTypeOK
<1>2. \A p \in Ops : Owns(p)' <=> Owns(p)
  BY <1>1 DEF Owns
<1>3. BuildInFlight' <=> BuildInFlight
  BY <1>2 DEF Owns, BuildInFlight
<1>4. OneOwnerOfBuild'
  BY <1>1, <1>2, <1>3 DEF OneOwnerOfBuild, Owns
<1>5. EngineStored' /\ StoredOnce' /\ HandingPhase'
  BY <1>1, <1>3 DEF EngineStored, StoredOnce, HandingPhase
<1> QED BY <1>4, <1>5

LEMMA HandingCloses ==
  ASSUME ClosedIInv,
         HostRelinquish \/ HostDrained \/ ForceDrain \/ HostStops \/ HostBlocked
  PROVE  OneOwnerOfBuild' /\ EngineStored' /\ StoredOnce' /\ HandingPhase'
<1> USE DEF ClosedIInv, HostIInv
<1>1. /\ op' = op /\ build' = build
      /\ BuildInFlight' <=> BuildInFlight
  BY DEF HostRelinquish, HostDrained, ForceDrain, HostStops, HostBlocked, BuildInFlight
<1>2. OneOwnerOfBuild'
  BY <1>1 DEF OneOwnerOfBuild, Owns
<1>3. CASE HostRelinquish
  BY <1>1, <1>2, <1>3 DEF HostRelinquish, EngineStored, StoredOnce, HandingPhase
<1>4. CASE HostDrained
  <2>1. engine /\ ~resources => BuildInFlight
    BY DEF EngineStored, OneOwnerOfBuild
  <2> QED BY <1>1, <1>2, <1>4, <2>1 DEF HostDrained, EngineStored, StoredOnce, HandingPhase
<1>5. CASE ForceDrain
  BY <1>1, <1>2, <1>5 DEF ForceDrain, EngineStored, StoredOnce, HandingPhase
<1>6. CASE HostStops \/ HostBlocked
  <2>1. resources /\ ~BuildInFlight /\ admissionCount = 0
    BY <1>6 DEF HostStops, HostBlocked, StoredOnce, HandingPhase
  <2> QED BY <1>1, <1>2, <1>6, <2>1 DEF HostStops, HostBlocked, EngineStored, StoredOnce, HandingPhase
<1> QED BY <1>3, <1>4, <1>5, <1>6

LEMMA ClosedStep ==
  ASSUME ClosedIInv, [HostNext]_hostVars
  PROVE  ClosedIInv'
<1>1. HostIInv'
  BY BalanceStep DEF ClosedIInv
<1>2. CASE HostDies
  BY <1>1, <1>2 DEF HostDies, ClosedIInv, OneOwnerOfBuild, Owns, EngineStored, StoredOnce,
                    HandingPhase, BuildInFlight
<1>3. CASE UNCHANGED hostVars
  BY <1>1, <1>3 DEF hostVars, ClosedIInv, OneOwnerOfBuild, Owns, EngineStored, StoredOnce,
                    HandingPhase, BuildInFlight
<1>4. CASE HostRelinquish \/ HostDrained \/ ForceDrain \/ HostStops \/ HostBlocked
  BY <1>1, <1>4, HandingCloses DEF ClosedIInv
<1>5. CASE BuildOpens \/ BuildFails
  BY <1>1, <1>5, BuildCloses DEF ClosedIInv
<1>6. ASSUME NEW o \in Ops, HostAdmit(o) \/ OwnerResumes(o) \/ OpEnds(o)
      PROVE  ClosedIInv'
  BY <1>1, <1>6, AdmitCloses, OwnerCloses, EndCloses DEF ClosedIInv
<1> QED BY <1>2, <1>3, <1>4, <1>5, <1>6 DEF HostNext, HostWorks

\* The inductive invariant of the host, with every drain forced at any time,
\* beside a build too.
THEOREM HostInvariance == HostSpec => []ClosedIInv
<1>1. ClosedIInv /\ [HostNext]_hostVars => ClosedIInv'
  BY ClosedStep
<1> QED BY <1>1, HostInitial, PTL DEF HostSpec

\* A relinquished host has no engine and never gets one, unless its drain was
\* forced beside a build that was still in flight when it relinquished
\* (completedSuccess, performRelinquishment).
THEOREM RelinquishedClosed == HostSpec => []RelinquishedMeansClosed
<1>1. ClosedIInv => RelinquishedMeansClosed
  BY DEF ClosedIInv, HandingPhase, RelinquishedMeansClosed
<1> QED BY <1>1, HostInvariance, PTL

\* A build in flight in a relinquished host.
LeftBehind == hostState = "relinquished" /\ BuildInFlight

\* Such a build is always one that a forced drain stopped waiting for, and
\* still has its release to make: a drain that ran to its end leaves no build
\* behind (waitForAdmissionsToDrain, forceAdmissionDrain).
THEOREM OnlyForceLeavesBuilds == HostSpec => [](LeftBehind => leftBuilding /\ deficits > 0)
<1>1. ASSUME ClosedIInv, LeftBehind PROVE leftBuilding /\ deficits > 0
  <2>1. admissionCount = 0 /\ leftBuilding
    BY <1>1 DEF ClosedIInv, HandingPhase, LeftBehind
  <2>2. Cardinality(Busy) > 0
    BY <1>1, BusyFinite DEF LeftBehind, BuildInFlight, Busy
  <2> QED BY <1>1, <2>1, <2>2 DEF ClosedIInv, HostIInv, HostTypeOK, AdmissionBalance
<1>2. ClosedIInv => (LeftBehind => leftBuilding /\ deficits > 0)
  BY <1>1
<1> QED BY <1>2, HostInvariance, PTL
===============================================================================
