------------------------------ MODULE ScopedRuns ------------------------------
(***************************************************************************)
(* The lease under which an agent may call the daemon.  A launcher asks    *)
(* the manager for one before it starts a process, renews it at half its   *)
(* lifetime and has it revoked when the run ends; the broker binds a       *)
(* socket for it and the registry decides who is authorized.  Launcher,    *)
(* manager, broker and registry are four actors, and every call from one   *)
(* to the next is a suspension point.                                      *)
(*                                                                         *)
(* A run is one launch of ONE launcher: stopping a launch that is still    *)
(* under way tears down nothing (stopAgent), so the next may start beside  *)
(* it.  Other launchers share only the manager's revokeAll.  Time is       *)
(* counted in ticks, of which a lifetime has twice Half.                   *)
(***************************************************************************)
EXTENDS Naturals

CONSTANTS MaxRuns,      \* bound on the launches
          Half,         \* ticks after which a lease is renewed
          MaxNaps       \* bound on the times the machine sleeps

ASSUME RunsAssumption == MaxRuns \in Nat /\ Half \in Nat \ {0} /\ MaxNaps \in Nat

Runs == 1..MaxRuns
NoRun == 0
Lifetime == 2 * Half

VARIABLES stage,        \* where the launch of each run is
          held,         \* activeScopedRunLease, whose loop scopedRunRenewalTask is
          torn,         \* runs whose loop was cancelled
          loop,         \* the renewal loop of each run
          wait,         \* ticks until it wakes
          asked,        \* calls of revokeScopedRun under way
          issued,       \* runIDsByLease of the manager
          swept,        \* whether revokeAll has run
          sweep,        \* what it has not revoked yet
          revoking,     \* where the broker is in revoking each run
          listeners,    \* the broker's listeners
          bound,        \* runs whose socket exists
          lease,        \* the registry's state of each lease
          left,         \* ticks until it expires
          naps          \* times the machine has slept

launcherVars == <<held, torn, loop, wait>>
managerVars == <<asked, issued, swept, sweep>>
brokerVars == <<revoking, listeners, bound>>
registryVars == <<lease, left>>
vars == <<stage, launcherVars, managerVars, brokerVars, registryVars, naps>>

Init ==
  /\ stage = [r \in Runs |-> "new"] /\ held = NoRun /\ torn = {}
  /\ loop = [r \in Runs |-> "none"] /\ wait = [r \in Runs |-> 0]
  /\ asked = {} /\ issued = {} /\ swept = FALSE /\ sweep = {}
  /\ revoking = [r \in Runs |-> "no"] /\ listeners = {} /\ bound = {}
  /\ lease = [r \in Runs |-> "none"] /\ left = [r \in Runs |-> 0] /\ naps = 0

Goes(r, from, to) == stage[r] = from /\ stage' = [stage EXCEPT ![r] = to]

-----------------------------------------------------------------------------
\* The launch

\* teardownScopedRun: what is held is let go and a task is sent to revoke it.
TearDown ==
  /\ held' = NoRun
  /\ torn' = IF held = NoRun THEN torn ELSE torn \cup {held}
  /\ asked' = IF held = NoRun THEN asked ELSE asked \cup {held}
  /\ UNCHANGED <<loop, wait, issued, swept, sweep>>

\* resetRunArtifacts and issueScopedRunIfConfigured up to its call of the manager
Start(r) ==
  /\ \A q \in 1..(r - 1) : stage[q] # "new"
  /\ Goes(r, "new", "asked") /\ TearDown
  /\ UNCHANGED <<brokerVars, registryVars, naps>>

\* launchScopedRun fails before it registers anything
Refuse(r) ==
  Goes(r, "asked", "failing")
  /\ UNCHANGED <<launcherVars, managerVars, brokerVars, registryVars, naps>>

Prepare(r) ==
  /\ Goes(r, "asked", "prepared")
  /\ lease' = [lease EXCEPT ![r] = "prepared"]
  /\ left' = [left EXCEPT ![r] = Lifetime]
  /\ UNCHANGED <<launcherVars, managerVars, brokerVars, naps>>

Bind(r) ==
  /\ Goes(r, "prepared", "bound") /\ bound' = bound \cup {r}
  /\ UNCHANGED <<launcherVars, managerVars, revoking, listeners, registryVars, naps>>

BindFails(r) ==
  Goes(r, "prepared", "unbound")
  /\ UNCHANGED <<launcherVars, managerVars, brokerVars, registryVars, naps>>

Undo(r) ==
  /\ Goes(r, "unbound", "failing") /\ lease' = [lease EXCEPT ![r] = "revoked"]
  /\ UNCHANGED <<launcherVars, managerVars, brokerVars, left, naps>>

\* The launcher catches the error and, on both of its launch paths, tears down.
Failed(r) ==
  /\ Goes(r, "failing", "done") /\ TearDown
  /\ UNCHANGED <<brokerVars, registryVars, naps>>

Activate(r) ==
  /\ Goes(r, "bound", "active") /\ lease' = [lease EXCEPT ![r] = "active"]
  /\ UNCHANGED <<launcherVars, managerVars, brokerVars, left, naps>>

Listen(r) ==
  /\ Goes(r, "active", "listening") /\ listeners' = listeners \cup {r}
  /\ UNCHANGED <<launcherVars, managerVars, revoking, bound, registryVars, naps>>

Record(r) ==
  /\ Goes(r, "listening", "recorded") /\ issued' = issued \cup {r}
  /\ UNCHANGED <<launcherVars, asked, swept, sweep, brokerVars, registryVars, naps>>

\* Mutant: the loop sleeps the whole lifetime.
SleepTooLong(r) == loop' = [loop EXCEPT ![r] = "asleep"] /\ wait' = [wait EXCEPT ![r] = Lifetime]

Sleep(r) == loop' = [loop EXCEPT ![r] = "asleep"] /\ wait' = [wait EXCEPT ![r] = Half]

\* The manager's answer reaches the launcher, which takes whatever it held out of sight.
Hold(r) ==
  /\ Goes(r, "recorded", "done") /\ held' = r /\ Sleep(r)
  /\ UNCHANGED <<torn, managerVars, brokerVars, registryVars, naps>>

\* finish, a failed spawn or profile, stopAgent of a running agent
RunEnds ==
  /\ held # NoRun /\ TearDown
  /\ UNCHANGED <<stage, brokerVars, registryVars, naps>>

-----------------------------------------------------------------------------
\* The renewal loop

Due(r) == loop[r] = "asleep" /\ (wait[r] = 0 \/ r \in torn)

\* Mutant: the loop does not look whether its lease is still the one held.
WakesBlindly(r) ==
  /\ Due(r)
  /\ loop' = [loop EXCEPT ![r] = IF r \in torn THEN "ended" ELSE "asking"]
  /\ UNCHANGED <<stage, held, torn, wait, managerVars, brokerVars, registryVars, naps>>

Wakes(r) ==
  /\ Due(r)
  /\ loop' = [loop EXCEPT ![r] = IF r \in torn \/ held # r THEN "ended" ELSE "asking"]
  /\ UNCHANGED <<stage, held, torn, wait, managerVars, brokerVars, registryVars, naps>>

\* renewScopedRun knows the lease, or the loop ends
AskRenewal(r) ==
  /\ loop[r] = "asking"
  /\ loop' = [loop EXCEPT ![r] = IF r \in issued THEN "renewing" ELSE "ended"]
  /\ UNCHANGED <<stage, held, torn, wait, managerVars, brokerVars, registryVars, naps>>

\* The registry renews any lease that is not revoked, an expired one too.
Renew(r) ==
  /\ loop[r] = "renewing"
  /\ IF lease[r] = "revoked"
       THEN loop' = [loop EXCEPT ![r] = "ended"] /\ UNCHANGED <<wait, left>>
       ELSE Sleep(r) /\ left' = [left EXCEPT ![r] = Lifetime]
  /\ UNCHANGED <<stage, held, torn, managerVars, brokerVars, lease, naps>>

-----------------------------------------------------------------------------
\* Revocation

\* revokeScopedRun: a lease that is not in the table settles quietly
Revoke(r) ==
  /\ r \in asked /\ asked' = asked \ {r} /\ issued' = issued \ {r}
  /\ revoking' = IF r \in issued THEN [revoking EXCEPT ![r] = "registry"] ELSE revoking
  /\ UNCHANGED <<stage, launcherVars, swept, sweep, listeners, bound, registryVars, naps>>

\* revokeAll empties the table, then revokes what was in it one by one.
RevokeAll ==
  /\ ~swept /\ swept' = TRUE /\ sweep' = issued /\ issued' = {}
  /\ UNCHANGED <<stage, launcherVars, asked, brokerVars, registryVars, naps>>

SweepNext(r) ==
  /\ r \in sweep /\ \A q \in sweep : revoking[q] = "no"
  /\ revoking' = [revoking EXCEPT ![r] = "registry"]
  /\ UNCHANGED <<stage, launcherVars, managerVars, listeners, bound, registryVars, naps>>

\* Mutant: the broker closes the socket before it revokes the lease.
CloseFirst(r) ==
  /\ revoking[r] = "registry" /\ revoking' = [revoking EXCEPT ![r] = "listener"]
  /\ listeners' = listeners \ {r} /\ bound' = bound \ {r}
  /\ UNCHANGED <<stage, launcherVars, managerVars, registryVars, naps>>

RevokeLease(r) ==
  /\ revoking[r] = "registry" /\ revoking' = [revoking EXCEPT ![r] = "listener"]
  /\ lease' = [lease EXCEPT ![r] = "revoked"]
  /\ UNCHANGED <<stage, launcherVars, managerVars, listeners, bound, left, naps>>

\* A listener the broker does not know of is not stopped.
Unlisten(r) ==
  /\ revoking[r] = "listener" /\ revoking' = [revoking EXCEPT ![r] = "done"]
  /\ listeners' = listeners \ {r}
  /\ bound' = IF r \in listeners THEN bound \ {r} ELSE bound
  /\ sweep' = sweep \ {r}
  /\ UNCHANGED <<stage, launcherVars, asked, issued, swept, registryVars, naps>>

-----------------------------------------------------------------------------
\* Time

\* Runs whose lease exists and has no renewal loop yet.  Nothing in the code
\* bounds this stretch, five local calls: it is taken to last less than half a
\* lifetime, and the machine not to sleep in it.
Issuing == {r \in Runs : stage[r] \in {"prepared", "bound", "active", "listening", "recorded"}}
Tending == \E r \in Runs : Due(r) \/ loop[r] \in {"asking", "renewing"}

Less(n) == IF n = 0 THEN 0 ELSE n - 1

Tick ==
  /\ ~Tending /\ \A r \in Issuing : left[r] > Half + 1
  /\ left' = [r \in Runs |-> Less(left[r])] /\ wait' = [r \in Runs |-> Less(wait[r])]
  /\ UNCHANGED <<stage, held, torn, loop, managerVars, brokerVars, lease, naps>>

\* The machine sleeps past every expiry; sleeping loops are due when it wakes.
Nap ==
  /\ Issuing = {} /\ naps < MaxNaps /\ naps' = naps + 1
  /\ left' = [r \in Runs |-> 0] /\ wait' = [r \in Runs |-> 0]
  /\ UNCHANGED <<stage, held, torn, loop, managerVars, brokerVars, lease>>

-----------------------------------------------------------------------------
Launch(r) ==
  \/ Refuse(r) \/ Prepare(r) \/ Bind(r) \/ BindFails(r) \/ Undo(r) \/ Failed(r)
  \/ Activate(r) \/ Listen(r) \/ Record(r) \/ Hold(r)
Tend(r) == Wakes(r) \/ AskRenewal(r) \/ Renew(r)
Withdraw(r) == Revoke(r) \/ SweepNext(r) \/ RevokeLease(r) \/ Unlisten(r)

Next ==
  \/ \E r \in Runs : Start(r) \/ Launch(r) \/ Tend(r) \/ Withdraw(r)
  \/ RunEnds \/ RevokeAll \/ Tick \/ Nap

Spec == Init /\ [][Next]_vars

\* Every call is answered, every task that is ready runs, and time goes by; when
\* a run starts or ends is anybody's choice.
FairSpec ==
  /\ Spec /\ WF_vars(Tick)
  /\ \A r \in Runs : WF_vars(Launch(r)) /\ WF_vars(Tend(r)) /\ WF_vars(Withdraw(r))

-----------------------------------------------------------------------------
Authorized(r) == lease[r] = "active" /\ left[r] > 0

\* No authority without its socket and no socket without a lease, but for the
\* instants in which the broker is taking the one after the other, although a
\* revocation, a sweep and a launch may be interleaved at every call
\* (DaemonRunRegistrationBroker.launchScopedRun and revoke).  And the broker
\* knows the listener of every launch that has been answered, so that it can
\* be stopped.
EndpointBacked ==
  \A r \in Runs :
    /\ lease[r] = "active" => r \in bound
    /\ r \in bound => lease[r] \in {"prepared", "active"} \/ revoking[r] = "listener"
    /\ r \in bound /\ stage[r] \in {"listening", "recorded", "done"} => r \in listeners

\* The lease a launcher holds, unless the daemon has swept it, is active and
\* does not run out while nobody looks after it: it outlives its loop's sleep,
\* or its loop is on the way to renew it, also when runs overlap or the machine
\* slept (AgentLauncher.startScopedRunRenewal).
HeldLeaseIsTended ==
  held \in issued =>
    /\ lease[held] = "active"
    /\ \/ Due(held) \/ loop[held] \in {"asking", "renewing"}
       \/ loop[held] = "asleep" /\ left[held] > wait[held]

\* A run that its launcher no longer holds, torn down or displaced by a launch
\* that overlapped, or issued while the daemon swept, sooner or later has no
\* authority and never gets it back ("a crashed owner cannot leave authority
\* behind", DaemonRunRegistry.swift:27).
AuthorityEnds ==
  \A r \in Runs : (stage[r] = "done" /\ held # r) ~> [](~Authorized(r))
===============================================================================
