--------------------------- MODULE ScopedRunsProofs ---------------------------
(***************************************************************************)
(* Scoped run leases, for any number of runs and any lifetime: authority   *)
(* and socket go together, and a held lease does not run out unattended.   *)
(***************************************************************************)
EXTENDS ScopedRuns, TLAPS

Stages == {"new", "asked", "prepared", "unbound", "bound", "active", "listening",
           "recorded", "failing", "done"}

RunsTypeOK ==
  /\ stage \in [Runs -> Stages]
  /\ held \in Runs \cup {NoRun} /\ torn \in SUBSET Runs
  /\ loop \in [Runs -> {"none", "asleep", "asking", "renewing", "ended"}]
  /\ wait \in [Runs -> Nat]
  /\ asked \in SUBSET Runs /\ issued \in SUBSET Runs
  /\ swept \in BOOLEAN /\ sweep \in SUBSET Runs
  /\ revoking \in [Runs -> {"no", "registry", "listener", "done"}]
  /\ listeners \in SUBSET Runs /\ bound \in SUBSET Runs
  /\ lease \in [Runs -> {"none", "prepared", "active", "revoked"}]
  /\ left \in [Runs -> Nat] /\ naps \in Nat

\* What exists of a run: its lease, its socket, and the broker's listener.
Has(r, state, socket, listener) ==
  lease[r] = state /\ (r \in bound <=> socket) /\ (r \in listeners <=> listener)
Alive(r) == Has(r, "active", TRUE, TRUE)
Gone(r) == lease[r] \in {"none", "revoked"} /\ r \notin bound
Launched(r) == stage[r] \in {"recorded", "done"}

LaunchStages(r) ==
  /\ stage[r] \in {"new", "asked"} => Has(r, "none", FALSE, FALSE)
  /\ stage[r] \in {"prepared", "unbound"} => Has(r, "prepared", FALSE, FALSE)
  /\ stage[r] = "bound" => Has(r, "prepared", TRUE, FALSE)
  /\ stage[r] = "active" => Has(r, "active", TRUE, FALSE)
  /\ stage[r] = "listening" => Alive(r)
  /\ stage[r] = "failing" => Gone(r)

RevocationStages(r) ==
  /\ revoking[r] = "no" /\ Launched(r) => Alive(r) \/ Gone(r)
  /\ revoking[r] = "registry" => Launched(r) /\ Alive(r)
  /\ revoking[r] = "listener" => Launched(r) /\ Has(r, "revoked", TRUE, TRUE)
  /\ revoking[r] = "done" => Launched(r) /\ Gone(r)

\* What the manager or its sweep still has to revoke is there to be revoked.
Revocable(r) ==
  /\ r \in issued => revoking[r] = "no" /\ Launched(r) /\ Alive(r)
  /\ r \in sweep => r \notin issued
  /\ r \in sweep /\ revoking[r] = "no" => Launched(r) /\ Alive(r)

EndpointIInv == \A r \in Runs : LaunchStages(r) /\ RevocationStages(r) /\ Revocable(r)

\* A launch leaves more than half of the lifetime, the first sleep of its loop.
Fresh == \A r \in Runs :
  stage[r] \in {"prepared", "bound", "active", "listening", "recorded"} => left[r] > Half

HeldIInv ==
  /\ \A r \in torn : stage[r] = "done"
  /\ held # NoRun => stage[held] = "done" /\ held \notin torn
  /\ held \in issued =>
       \/ loop[held] \in {"asking", "renewing"}
       \/ loop[held] = "asleep" /\ (wait[held] = 0 \/ left[held] > wait[held])

RunsIInv == RunsTypeOK /\ EndpointIInv /\ Fresh /\ HeldIInv
-----------------------------------------------------------------------------
LEMMA RunsInitial == Init => RunsIInv
<1> SUFFICES ASSUME Init PROVE RunsIInv
  OBVIOUS
<1>1. RunsTypeOK
  BY DEF Init, RunsTypeOK, Stages
<1>2. EndpointIInv
  BY DEF Init, EndpointIInv, LaunchStages, RevocationStages, Revocable, Has, Launched
<1>3. Fresh /\ HeldIInv
  BY DEF Init, Fresh, HeldIInv
<1> QED
  BY <1>1, <1>2, <1>3 DEF RunsIInv

LEMMA LessTyped ==
  ASSUME NEW n \in Nat
  PROVE  Less(n) \in Nat /\ (n > 0 => Less(n) = n - 1) /\ (n = 0 => Less(n) = 0)
BY DEF Less

LEMMA TearDownTyped ==
  ASSUME RunsTypeOK, TearDown
  PROVE  /\ held' \in Runs \cup {NoRun} /\ torn' \in SUBSET Runs /\ asked' \in SUBSET Runs
         /\ UNCHANGED <<loop, wait, issued, swept, sweep>>
BY DEF RunsTypeOK, TearDown

LEMMA LaunchTyped ==
  ASSUME RunsTypeOK, NEW r \in Runs, Start(r) \/ Launch(r)
  PROVE  RunsTypeOK'
<1> USE DEF RunsTypeOK, Stages, Goes, launcherVars, managerVars, brokerVars, registryVars
<1>1. CASE Start(r)
  BY <1>1, TearDownTyped DEF Start
<1>2. CASE Refuse(r) \/ Bind(r) \/ BindFails(r) \/ Undo(r) \/ Activate(r) \/ Listen(r) \/ Record(r)
  BY <1>2 DEF Refuse, Bind, BindFails, Undo, Activate, Listen, Record
<1>3. CASE Prepare(r)
  BY <1>3, RunsAssumption DEF Prepare, Lifetime
<1>4. CASE Failed(r)
  BY <1>4, TearDownTyped DEF Failed
<1>5. CASE Hold(r)
  BY <1>5, RunsAssumption DEF Hold, Sleep
<1> QED
  BY <1>1, <1>2, <1>3, <1>4, <1>5 DEF Launch

LEMMA TendTyped ==
  ASSUME RunsTypeOK, NEW r \in Runs, Tend(r) \/ Withdraw(r)
  PROVE  RunsTypeOK'
<1> USE DEF RunsTypeOK, launcherVars, managerVars, brokerVars, registryVars
<1>1. CASE Wakes(r) \/ AskRenewal(r)
  BY <1>1 DEF Wakes, AskRenewal
<1>2. CASE Renew(r)
  BY <1>2, RunsAssumption DEF Renew, Sleep, Lifetime
<1>3. CASE Withdraw(r)
  BY <1>3 DEF Withdraw, Revoke, SweepNext, RevokeLease, Unlisten
<1> QED
  BY <1>1, <1>2, <1>3 DEF Tend

LEMMA OthersTyped ==
  ASSUME RunsTypeOK, RunEnds \/ RevokeAll \/ Tick \/ Nap
  PROVE  RunsTypeOK'
<1> USE DEF RunsTypeOK, launcherVars, managerVars, brokerVars, registryVars
<1>1. CASE RunEnds
  BY <1>1, TearDownTyped DEF RunEnds
<1>2. CASE RevokeAll
  BY <1>2 DEF RevokeAll
<1>3. CASE Tick
  BY <1>3, LessTyped DEF Tick
<1>4. CASE Nap
  BY <1>4 DEF Nap
<1> QED
  BY <1>1, <1>2, <1>3, <1>4

LEMMA TypeStep == RunsTypeOK /\ [Next]_vars => RunsTypeOK'
<1> SUFFICES ASSUME RunsTypeOK, [Next]_vars PROVE RunsTypeOK'
  OBVIOUS
<1>1. CASE UNCHANGED vars
  BY <1>1 DEF RunsTypeOK, vars, launcherVars, managerVars, brokerVars, registryVars
<1> QED
  BY <1>1, LaunchTyped, TendTyped, OthersTyped DEF Next
-----------------------------------------------------------------------------
LEMMA LaunchKeepsEndpoints ==
  ASSUME RunsTypeOK, EndpointIInv, NEW r \in Runs, Start(r) \/ Launch(r)
  PROVE  EndpointIInv'
<1> SUFFICES ASSUME NEW q \in Runs
             PROVE  (LaunchStages(q) /\ RevocationStages(q) /\ Revocable(q))'
  BY DEF EndpointIInv
<1> LaunchStages(q) /\ RevocationStages(q) /\ Revocable(q)
  BY DEF EndpointIInv
<1> USE DEF RunsTypeOK, Stages, Goes, LaunchStages, RevocationStages, Revocable, Has, Alive, Gone,
            Launched, launcherVars, managerVars, brokerVars, registryVars
<1>1. CASE Start(r) \/ Failed(r)
  BY <1>1, TearDownTyped DEF Start, Failed
<1>2. CASE Refuse(r) \/ BindFails(r) \/ Hold(r)
  BY <1>2 DEF Refuse, BindFails, Hold, Sleep
<1>3. CASE Prepare(r) \/ Undo(r) \/ Activate(r)
  BY <1>3 DEF Prepare, Undo, Activate
<1>4. CASE Bind(r) \/ Listen(r) \/ Record(r)
  BY <1>4 DEF Bind, Listen, Record
<1> QED
  BY <1>1, <1>2, <1>3, <1>4 DEF Launch

LEMMA OthersKeepEndpoints ==
  ASSUME RunsTypeOK, EndpointIInv,
         \/ \E r \in Runs : Tend(r) \/ Withdraw(r)
         \/ RunEnds \/ RevokeAll \/ Tick \/ Nap \/ UNCHANGED vars
  PROVE  EndpointIInv'
<1> SUFFICES ASSUME NEW q \in Runs
             PROVE  (LaunchStages(q) /\ RevocationStages(q) /\ Revocable(q))'
  BY DEF EndpointIInv
<1> LaunchStages(q) /\ RevocationStages(q) /\ Revocable(q)
  BY DEF EndpointIInv
<1> USE DEF RunsTypeOK, Stages, LaunchStages, RevocationStages, Revocable, Has, Alive, Gone,
            Launched, launcherVars, managerVars, brokerVars, registryVars
<1>1. ASSUME NEW r \in Runs, Tend(r) PROVE (LaunchStages(q) /\ RevocationStages(q) /\ Revocable(q))'
  BY <1>1 DEF Tend, Wakes, AskRenewal, Renew
<1>2. ASSUME NEW r \in Runs, Withdraw(r)
      PROVE  (LaunchStages(q) /\ RevocationStages(q) /\ Revocable(q))'
  <2>1. CASE Revoke(r)
    <3> LaunchStages(r) /\ RevocationStages(r) /\ Revocable(r)
      BY DEF EndpointIInv
    <3> QED
      BY <2>1 DEF Revoke
  <2>2. CASE SweepNext(r)
    <3> LaunchStages(r) /\ RevocationStages(r) /\ Revocable(r)
      BY DEF EndpointIInv
    <3> QED
      BY <2>2 DEF SweepNext
  <2>3. CASE RevokeLease(r) \/ Unlisten(r)
    BY <2>3 DEF RevokeLease, Unlisten
  <2> QED
    BY <1>2, <2>1, <2>2, <2>3 DEF Withdraw
<1>3. CASE RunEnds
  BY <1>3, TearDownTyped DEF RunEnds
<1>4. CASE RevokeAll
  BY <1>4 DEF RevokeAll
<1>5. CASE Tick \/ Nap
  BY <1>5 DEF Tick, Nap
<1>6. CASE UNCHANGED vars
  BY <1>6 DEF vars
<1> QED
  BY <1>1, <1>2, <1>3, <1>4, <1>5, <1>6

LEMMA EndpointStep == RunsTypeOK /\ EndpointIInv /\ [Next]_vars => EndpointIInv'
BY LaunchKeepsEndpoints, OthersKeepEndpoints DEF Next

-----------------------------------------------------------------------------
LEMMA NoRunIsNoRun == NoRun \notin Runs
BY DEF NoRun, Runs

LEMMA TearDownKeepsHeld ==
  ASSUME RunsTypeOK, HeldIInv, TearDown,
         \A q \in Runs : stage[q] = "done" => stage'[q] = "done"
  PROVE  HeldIInv'
<1>1. held' = NoRun /\ held' \notin issued'
  BY NoRunIsNoRun DEF TearDown, RunsTypeOK
<1>2. \A q \in torn' : stage'[q] = "done"
  BY DEF TearDown, RunsTypeOK, HeldIInv
<1> QED
  BY <1>1, <1>2 DEF HeldIInv

LEMMA LaunchKeepsHeld ==
  ASSUME RunsTypeOK, Fresh, HeldIInv, NEW r \in Runs, Start(r) \/ Launch(r)
  PROVE  Fresh' /\ HeldIInv'
<1>1. CASE Start(r) \/ Failed(r)
  <2>1. /\ stage' = [stage EXCEPT ![r] = "asked"] \/ stage' = [stage EXCEPT ![r] = "done"]
        /\ stage[r] # "done" /\ TearDown /\ left' = left
    BY <1>1 DEF Start, Failed, Goes, registryVars
  <2>2. Fresh'
    BY <2>1 DEF Fresh, RunsTypeOK
  <2> QED
    BY <2>1, <2>2, TearDownKeepsHeld DEF RunsTypeOK
<1> USE DEF RunsTypeOK, Stages, Fresh, HeldIInv, Goes,
            launcherVars, managerVars, brokerVars, registryVars
<1>2. CASE Refuse(r) \/ Bind(r) \/ BindFails(r) \/ Undo(r) \/ Activate(r) \/ Listen(r)
  BY <1>2 DEF Refuse, Bind, BindFails, Undo, Activate, Listen
<1>3. CASE Prepare(r)
  <2>1. held # r
    BY <1>3, NoRunIsNoRun DEF Prepare
  <2> QED
    BY <1>3, <2>1, RunsAssumption DEF Prepare, Lifetime
<1>4. CASE Record(r)
  <2>1. held # r
    BY <1>4, NoRunIsNoRun DEF Record
  <2> QED
    BY <1>4, <2>1 DEF Record
<1>5. CASE Hold(r)
  BY <1>5, RunsAssumption DEF Hold, Sleep, Lifetime
<1> QED
  BY <1>1, <1>2, <1>3, <1>4, <1>5 DEF Launch

LEMMA TickKeepsHeld ==
  ASSUME RunsTypeOK, Fresh, HeldIInv, Tick
  PROVE  Fresh' /\ HeldIInv'
<1>1. Fresh'
  BY LessTyped, RunsAssumption DEF Tick, Issuing, Fresh, RunsTypeOK
<1>2. ASSUME held \in issued, loop[held] = "asleep"
      PROVE  wait'[held] = 0 \/ left'[held] > wait'[held]
  <2>1. held \in Runs /\ wait[held] \in Nat /\ left[held] \in Nat /\ wait[held] > 0
    BY <1>2 DEF RunsTypeOK, Tick, Tending, Due
  <2>2. left[held] > wait[held]
    BY <1>2, <2>1 DEF HeldIInv
  <2>3. wait'[held] = wait[held] - 1 /\ left'[held] = left[held] - 1
    BY <2>1, <2>2, LessTyped DEF Tick
  <2> QED
    BY <2>1, <2>2, <2>3
<1> QED
  BY <1>1, <1>2 DEF Tick, HeldIInv, managerVars

LEMMA OthersKeepHeld ==
  ASSUME RunsTypeOK, EndpointIInv, Fresh, HeldIInv,
         \/ \E r \in Runs : Tend(r) \/ Withdraw(r)
         \/ RunEnds \/ RevokeAll \/ Nap \/ UNCHANGED vars
  PROVE  Fresh' /\ HeldIInv'
<1> USE DEF RunsTypeOK, Stages, Fresh, HeldIInv,
            launcherVars, managerVars, brokerVars, registryVars
<1>1. ASSUME NEW r \in Runs, Wakes(r) \/ AskRenewal(r) PROVE Fresh' /\ HeldIInv'
  <2>1. held \in issued => held # NoRun
    BY NoRunIsNoRun
  <2> QED
    BY <1>1, <2>1 DEF Wakes, AskRenewal, Due
<1>2. ASSUME NEW r \in Runs, Renew(r) PROVE Fresh' /\ HeldIInv'
  <2>1. r \in issued => lease[r] = "active"
    BY DEF EndpointIInv, Revocable, Alive, Has
  <2> QED
    BY <1>2, <2>1, RunsAssumption DEF Renew, Sleep, Lifetime
<1>3. ASSUME NEW r \in Runs, Withdraw(r) PROVE Fresh' /\ HeldIInv'
  BY <1>3 DEF Withdraw, Revoke, SweepNext, RevokeLease, Unlisten
<1>4. CASE RunEnds
  BY <1>4, TearDownKeepsHeld DEF RunEnds
<1>5. CASE RevokeAll
  BY <1>5 DEF RevokeAll
<1>6. CASE Nap
  BY <1>6 DEF Nap, Issuing
<1>7. CASE UNCHANGED vars
  BY <1>7 DEF vars
<1> QED
  BY <1>1, <1>2, <1>3, <1>4, <1>5, <1>6, <1>7 DEF Tend

LEMMA HeldStep == RunsTypeOK /\ EndpointIInv /\ Fresh /\ HeldIInv /\ [Next]_vars => Fresh' /\ HeldIInv'
BY LaunchKeepsHeld, TickKeepsHeld, OthersKeepHeld DEF Next

-----------------------------------------------------------------------------
\* The invariant behind the two theorems below holds of every reachable state.
THEOREM RunsInvariance == Spec => []RunsIInv
<1>1. RunsIInv /\ [Next]_vars => RunsIInv'
  BY TypeStep, EndpointStep, HeldStep DEF RunsIInv
<1> QED
  BY <1>1, RunsInitial, PTL DEF Spec

\* Authority and socket go together, and the broker can stop every listener,
\* for any number of launches that overlap.
THEOREM EndpointsBacked == Spec => []EndpointBacked
<1>1. RunsIInv => EndpointBacked
  BY DEF RunsIInv, RunsTypeOK, Stages, EndpointIInv, LaunchStages, RevocationStages, Alive, Gone,
         Has, Launched, EndpointBacked
<1> QED
  BY <1>1, RunsInvariance, PTL

\* A held lease is active and tended, whatever its lifetime.
THEOREM HeldLeasesTended == Spec => []HeldLeaseIsTended
<1>1. RunsIInv => HeldLeaseIsTended
  BY DEF RunsIInv, RunsTypeOK, EndpointIInv, Revocable, Alive, Has, HeldIInv, HeldLeaseIsTended, Due
<1> QED
  BY <1>1, RunsInvariance, PTL
===============================================================================
