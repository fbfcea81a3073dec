----------------------------- MODULE DaemonTransport -----------------------------
(***************************************************************************)
(* The app's connection to the daemon: DaemonTransportRuntime.swift, the   *)
(* actor that looks for a connection, offers it for acceptance and keeps   *)
(* probing it, and DaemonTransportAppBridge.swift, which makes the XPC     *)
(* connections and registers them by candidate.                            *)
(*                                                                         *)
(* Candidate ids are new ones in the code.  Here they come from a small    *)
(* set, and an id may be used again when nothing of its last use is left.  *)
(* The id that awaitingAcceptance and connected carry is the current       *)
(* candidate's: they are assigned together.  Events that no one acts on    *)
(* (reconnecting) are left out, and so is the localFallbackReady outcome,  *)
(* which the coordinator never sends.                                      *)
(***************************************************************************)
EXTENDS Naturals, Sequences

CONSTANTS Candidates, None

ASSUME CandidateAssumption ==
  Candidates \cap {None, "none", "ready", "sleeping"} = {}

VARIABLES phase,          \* DaemonTransportRuntime.state
          candidate,      \* the current candidate
          admission,      \* admissionTask: "none", "ready", "sleeping", or its candidate
          loop,           \* where each candidate's admission loop is, cancelled ones too
          line,           \* the XPC connection of each candidate
          notices,        \* invalidation handlers that have fired, not yet run
          interruptions,  \* interruption handlers that have fired, not yet run
          events,         \* published events the coordinator has not taken
          registration,   \* the bridge's registrations
          removals,       \* removals that invalidated connections have asked of the bridge
          bridgeStopped

runtimeVars == <<phase, candidate, admission, loop, events>>
bridgeVars == <<registration, removals, bridgeStopped>>
transportVars == <<runtimeVars, line, notices, interruptions, bridgeVars>>

TransportInit ==
  /\ phase = "idle" /\ candidate = None /\ admission = "none"
  /\ loop = [id \in Candidates |-> "off"]
  /\ line = [id \in Candidates |-> "none"]
  /\ notices = {} /\ interruptions = {} /\ events = <<>>
  /\ registration = [id \in Candidates |-> "none"]
  /\ removals = {} /\ bridgeStopped = FALSE

\* Nothing is left of the last use of an id.
Unused(id) ==
  /\ loop[id] = "off" /\ candidate # id /\ registration[id] = "none"
  /\ id \notin notices \cup interruptions \cup removals
  /\ \A i \in DOMAIN events : events[i].id # id

Event(type, id) == [type |-> type, id |-> id]

\* connection.invalidate() by the runtime: its own handler for the id comes too
\* late to find the id current, and the bridge is asked to forget it.
Invalidate(ids) ==
  /\ line' = [id \in Candidates |-> IF id \in ids THEN "dead" ELSE line[id]]
  /\ removals' = removals \cup ids

Keep == UNCHANGED <<line, removals>>
Current == {candidate} \ {None}

\* beginRetrying: whatever task was running is cancelled, a new loop is started
BeginRetrying(published) ==
  /\ phase' = "retrying" /\ candidate' = None /\ admission' = "ready"
  /\ events' = events \o published

Disconnected == <<Event("disconnected", None)>>

-----------------------------------------------------------------------------
\* Admission

StartAdmission ==
  /\ phase = "idle" /\ BeginRetrying(<<>>)
  /\ UNCHANGED <<loop, line, notices, interruptions, bridgeVars>>

\* A loop goes on with its candidate only while it is the current admission task.
Fresh(id) == admission = id /\ phase = "retrying"

Attempt(id) ==
  /\ admission = "ready" /\ phase = "retrying" /\ Unused(id)
  /\ admission' = id /\ loop' = [loop EXCEPT ![id] = "making"]
  /\ UNCHANGED <<phase, candidate, events, line, notices, interruptions, bridgeVars>>

SleepEnds ==
  /\ admission = "sleeping" /\ admission' = "ready"
  /\ UNCHANGED <<phase, candidate, loop, events, line, notices, interruptions, bridgeVars>>

\* The bridge's makeCandidate: a cancelled task's connection is not registered.
Make(id) ==
  /\ loop[id] = "making"
  /\ IF Fresh(id) /\ ~bridgeStopped
       THEN /\ registration' = [registration EXCEPT ![id] = "provisional"]
            /\ line' = [line EXCEPT ![id] = "live"]
            /\ loop' = [loop EXCEPT ![id] = "made"]
            /\ UNCHANGED admission
       ELSE /\ loop' = [loop EXCEPT ![id] = "off"]
            /\ admission' = IF admission = id THEN "none" ELSE admission
            /\ UNCHANGED <<registration, line>>
  /\ UNCHANGED <<phase, candidate, events, notices, interruptions, removals, bridgeStopped>>

MakeFails(id) ==
  /\ loop[id] = "making"
  /\ loop' = [loop EXCEPT ![id] = "off"]
  /\ admission' = IF admission = id THEN "sleeping" ELSE admission
  /\ UNCHANGED <<phase, candidate, events, line, notices, interruptions, bridgeVars>>

\* Mutant: a stale loop drops the connection it has made.
MadeInVain(id) ==
  /\ loop[id] = "made" /\ Keep
  /\ IF Fresh(id) THEN candidate' = id /\ loop' = [loop EXCEPT ![id] = "checking"]
                  ELSE loop' = [loop EXCEPT ![id] = "off"] /\ UNCHANGED candidate
  /\ UNCHANGED <<phase, admission, events, notices, interruptions, registration, bridgeStopped>>

\* The runtime resumes from makeCandidate.
Made(id) ==
  /\ loop[id] = "made"
  /\ IF Fresh(id)
       THEN candidate' = id /\ loop' = [loop EXCEPT ![id] = "checking"] /\ Keep
       ELSE loop' = [loop EXCEPT ![id] = "off"] /\ Invalidate({id}) /\ UNCHANGED candidate
  /\ UNCHANGED <<phase, admission, events, notices, interruptions, registration, bridgeStopped>>

\* The daemon's answer to the health check is on its way to the runtime, which
\* will find the candidate healthy even if its connection has died since.
Answers(id) ==
  /\ loop[id] = "checking" /\ line[id] = "live"
  /\ loop' = [loop EXCEPT ![id] = "healthy"]
  /\ UNCHANGED <<phase, candidate, admission, events, line, notices, interruptions, bridgeVars>>

\* The runtime resumes from the health check.
Checked(id, healthy) ==
  /\ loop[id] = (IF healthy THEN "healthy" ELSE "checking")
  /\ loop' = [loop EXCEPT ![id] = "off"]
  /\ IF Fresh(id) /\ candidate = id /\ healthy
       THEN /\ phase' = "awaiting" /\ admission' = "none"
            /\ events' = Append(events, Event("awaiting", id))
            /\ UNCHANGED candidate /\ Keep
       ELSE /\ Invalidate({id})
            /\ candidate' = IF candidate = id THEN None ELSE candidate
            /\ admission' = IF Fresh(id) THEN "sleeping" ELSE admission
            /\ UNCHANGED <<phase, events>>
  /\ UNCHANGED <<notices, interruptions, registration, bridgeStopped>>

-----------------------------------------------------------------------------
\* Acceptance and connection

\* Mutant: a rejected candidate is dropped, and no other is looked for.
RejectedForGood(id, outcome) ==
  IF phase # "awaiting" \/ candidate # id
    THEN Keep /\ UNCHANGED <<phase, candidate, admission, events>>
    ELSE IF outcome = "connected"
           THEN /\ phase' = "connected" /\ events' = Append(events, Event("connected", id))
                /\ UNCHANGED <<candidate, admission>> /\ Keep
           ELSE /\ Invalidate({id}) /\ candidate' = None
                /\ events' = events \o (<<Event("withdrawn", id)>> \o Disconnected)
                /\ UNCHANGED <<phase, admission>>

Acknowledged(id, outcome) ==
  IF phase # "awaiting" \/ candidate # id
    THEN Keep /\ UNCHANGED <<phase, candidate, admission, events>>
    ELSE IF outcome = "connected"
           THEN /\ phase' = "connected" /\ events' = Append(events, Event("connected", id))
                /\ UNCHANGED <<candidate, admission>> /\ Keep
           ELSE /\ Invalidate({id})
                /\ BeginRetrying(<<Event("withdrawn", id)>> \o Disconnected)

AcceptanceExpires ==
  /\ phase = "awaiting"
  /\ Invalidate(Current)
  /\ BeginRetrying(<<Event("withdrawn", candidate)>> \o Disconnected)
  /\ UNCHANGED <<loop, notices, interruptions, registration, bridgeStopped>>

ManualReconnect ==
  /\ phase # "stopped"
  /\ Invalidate(Current)
  /\ BeginRetrying(IF phase = "connected" THEN Disconnected ELSE <<>>)
  /\ UNCHANGED <<loop, notices, interruptions, registration, bridgeStopped>>

\* probeConnectedCandidate finds the daemon unhealthy.
ProbeFails ==
  /\ phase = "connected"
  /\ Invalidate(Current) /\ BeginRetrying(Disconnected)
  /\ UNCHANGED <<loop, notices, interruptions, registration, bridgeStopped>>

\* connectionInvalidated: the handler's task runs
NoticeRuns(id) ==
  /\ id \in notices /\ notices' = notices \ {id}
  /\ IF candidate = id /\ phase \in {"awaiting", "connected"}
       THEN BeginRetrying(Disconnected)
       ELSE UNCHANGED <<phase, candidate, admission, events>>
  /\ UNCHANGED <<loop, line, interruptions, bridgeVars>>

\* connectionInterrupted
InterruptionRuns(id) ==
  /\ id \in interruptions /\ interruptions' = interruptions \ {id}
  /\ events' = IF phase = "connected" /\ candidate = id
               THEN Append(events, Event("interrupted", id)) ELSE events
  /\ UNCHANGED <<phase, candidate, admission, loop, line, notices, bridgeVars>>

\* Mutant: stopping forgets the admission task.
StopsButAdmits ==
  /\ phase # "stopped"
  /\ phase' = "stopped" /\ candidate' = None
  /\ Invalidate(Current)
  /\ UNCHANGED <<admission, loop, events, notices, interruptions, registration, bridgeStopped>>

TransportStop ==
  /\ phase # "stopped"
  /\ phase' = "stopped" /\ candidate' = None /\ admission' = "none"
  /\ Invalidate(Current)
  /\ UNCHANGED <<loop, events, notices, interruptions, registration, bridgeStopped>>

-----------------------------------------------------------------------------
\* The bridge, and the connections themselves

HandlersSet(id) == loop[id] \in {"checking", "healthy"} \/ candidate = id

\* The bridge's markConnected, given that it is neither stopped nor without the
\* provisional registration: every other registered connection is invalidated.
MarkConnected(id) ==
  LET others == {other \in Candidates \ {id} : registration[other] # "none"}
  IN /\ registration' = [other \in Candidates |->
                           CASE other = id -> "connected"
                             [] other \in others -> "none"
                             [] OTHER -> registration[other]]
     /\ line' = [other \in Candidates |-> IF other \in others THEN "dead" ELSE line[other]]
     /\ notices' = notices \cup {other \in others : HandlersSet(other)}

Forget(ids) == registration' = [id \in Candidates |-> IF id \in ids THEN "none"
                                                      ELSE registration[id]]

RemovalRuns(id) ==
  /\ id \in removals /\ removals' = removals \ {id}
  /\ Forget({id})
  /\ UNCHANGED <<runtimeVars, line, notices, interruptions, bridgeStopped>>

BridgeStop ==
  /\ ~bridgeStopped /\ bridgeStopped' = TRUE
  /\ line' = [id \in Candidates |-> IF registration[id] # "none" THEN "dead" ELSE line[id]]
  /\ Forget(Candidates)
  /\ UNCHANGED <<runtimeVars, notices, interruptions, removals>>

\* The system invalidates a connection.
LineDies(id) ==
  /\ line[id] = "live" /\ line' = [line EXCEPT ![id] = "dead"]
  /\ notices' = IF HandlersSet(id) THEN notices \cup {id} ELSE notices
  /\ UNCHANGED <<runtimeVars, interruptions, bridgeVars>>

\* The daemon's process ends: the connections outlive it.
LinesInterrupted ==
  interruptions' = interruptions \cup {id \in Candidates : line[id] = "live" /\ HandlersSet(id)}

TransportSteps ==
  \/ SleepEnds
  \/ \E id \in Candidates :
       Make(id) \/ Made(id) \/ Answers(id) \/ Checked(id, TRUE) \/ NoticeRuns(id)
       \/ InterruptionRuns(id) \/ RemovalRuns(id)

-----------------------------------------------------------------------------
TransportTypeOK ==
  /\ phase \in {"idle", "retrying", "awaiting", "connected", "stopped"}
  /\ candidate \in Candidates \cup {None}
  /\ admission \in {"none", "ready", "sleeping"} \cup Candidates
  /\ loop \in [Candidates -> {"off", "making", "made", "checking", "healthy"}]
  /\ line \in [Candidates -> {"none", "live", "dead"}]
  /\ notices \subseteq Candidates /\ interruptions \subseteq Candidates
  /\ events \in Seq([type : {"awaiting", "connected", "withdrawn", "disconnected", "interrupted"},
                     id : Candidates \cup {None}])
  /\ registration \in [Candidates -> {"none", "provisional", "connected"}]
  /\ removals \subseteq Candidates /\ bridgeStopped \in BOOLEAN

\* No connection outlives its use: a live one belongs to the current candidate
\* or to an admission loop that has not returned from making or checking it,
\* through every order of reconnects, expiries and stale loops.
NoLeakedLine ==
  \A id \in Candidates : line[id] = "live" =>
    candidate = id \/ loop[id] \in {"made", "checking", "healthy"}

\* There is one admission at a time, and only where one is wanted: a transport
\* that is retrying has a loop that will look for a candidate or a timer that
\* starts one, and a transport that is not has none (admissionTask).
AdmissionMatchesPhase ==
  phase = "retrying" <=> admission # "none"
===============================================================================
