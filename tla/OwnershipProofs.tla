---------------------------- MODULE OwnershipProofs ----------------------------
(***************************************************************************)
(* Queue ownership, for any candidates, callers, operations and any amount *)
(* of trouble.  Every step of the system is, to the app's queue runtime    *)
(* and to the daemon's host, one of their own steps or none, so what is    *)
(* proved of each alone holds of the whole; the connection's invariant,    *)
(* the handover, what a quit leaves behind, and that the app follows the   *)
(* transport, are proved of the whole.                                     *)
(***************************************************************************)
EXTENDS QueueOwnership, QueueOwnerProofs, SequenceTheorems

-----------------------------------------------------------------------------
(* The connection to the daemon: what each step of the runtime, the bridge    *)
(* and the connections preserves.                                             *)

\* While retrying, a candidate is one that the current loop is checking.
CandidateChecked ==
  phase = "retrying" /\ candidate # None =>
    admission = candidate /\ loop[candidate] \in {"checking", "healthy"}

\* Before the first search there is no candidate; one that is offered or in use
\* has passed its check.
CandidatePhase ==
  /\ phase = "idle" => candidate = None
  /\ phase \in {"awaiting", "connected"} => candidate \in Candidates /\ loop[candidate] = "off"

\* A connection in the making has no handlers yet and nobody's attention.
MakingUnheard ==
  \A id \in Candidates : loop[id] \in {"making", "made"} => candidate # id /\ id \notin notices

NoticesDead == \A id \in notices : line[id] # "live"

BridgeLast == bridgeStopped => phase = "stopped"

TransportIInv == /\ TransportTypeOK /\ NoLeakedLine /\ AdmissionMatchesPhase
                 /\ CandidateChecked /\ CandidatePhase /\ MakingUnheard /\ NoticesDead /\ BridgeLast

EventTypes == [type : {"awaiting", "connected", "withdrawn", "disconnected", "interrupted"},
               id : Candidates \cup {None}]

-----------------------------------------------------------------------------
LEMMA TransportInitial == TransportInit => TransportIInv
<1> SUFFICES ASSUME TransportInit PROVE TransportIInv
  OBVIOUS
<1>1. TransportTypeOK
  <2>1. events \in Seq(EventTypes)
    BY DEF TransportInit
  <2> QED BY <2>1 DEF TransportInit, TransportTypeOK, EventTypes
<1>2. NoLeakedLine /\ AdmissionMatchesPhase /\ CandidateChecked /\ CandidatePhase /\ MakingUnheard
  BY DEF TransportInit, NoLeakedLine, AdmissionMatchesPhase, CandidateChecked, CandidatePhase, MakingUnheard
<1>3. NoticesDead /\ BridgeLast
  BY DEF TransportInit, NoticesDead, BridgeLast
<1> QED BY <1>1, <1>2, <1>3 DEF TransportIInv

\* The events stay a sequence of events.
LEMMA EventsTyped ==
  ASSUME TransportTypeOK
  PROVE  /\ events \in Seq(EventTypes)
         /\ \A type \in {"awaiting", "connected", "withdrawn", "disconnected", "interrupted"} :
              \A id \in Candidates \cup {None} :
                /\ Append(events, Event(type, id)) \in Seq(EventTypes)
                /\ events \o <<Event(type, id)>> \in Seq(EventTypes)
         /\ events \o <<>> \in Seq(EventTypes)
         /\ events \o Disconnected \in Seq(EventTypes)
         /\ \A id \in Candidates \cup {None} :
              events \o (<<Event("withdrawn", id)>> \o Disconnected) \in Seq(EventTypes)
<1>1. events \in Seq(EventTypes)
  BY DEF TransportTypeOK, EventTypes
<1>2. ASSUME NEW type \in {"awaiting", "connected", "withdrawn", "disconnected", "interrupted"},
             NEW id \in Candidates \cup {None}
      PROVE  Event(type, id) \in EventTypes
  BY <1>2 DEF Event, EventTypes
<1>3. Event("disconnected", None) \in EventTypes
  BY <1>2
<1>4. \A s, t \in Seq(EventTypes) : s \o t \in Seq(EventTypes)
  BY ConcatProperties
<1>5. \A e \in EventTypes : Append(events, e) \in Seq(EventTypes) /\ <<e>> \in Seq(EventTypes)
  BY <1>1
<1>6. <<>> \in Seq(EventTypes) /\ Disconnected \in Seq(EventTypes)
  BY <1>3, <1>5 DEF Disconnected
<1> QED BY <1>1, <1>2, <1>4, <1>5, <1>6

-----------------------------------------------------------------------------
(* Two patterns that most steps follow. *)

\* A new search: no candidate, and no connection left to the old one.
LEMMA RetryKeeps ==
  ASSUME TransportIInv, phase # "stopped",
         NEW published, BeginRetrying(published), events' \in Seq(EventTypes),
         line' \in [Candidates -> {"none", "live", "dead"}],
         \A id \in Candidates : line'[id] = "live" => line[id] = "live" /\ id # candidate,
         notices' \subseteq notices, interruptions' \subseteq Candidates,
         registration' \in [Candidates -> {"none", "provisional", "connected"}],
         removals' \subseteq Candidates,
         UNCHANGED <<loop, bridgeStopped>>
  PROVE  TransportIInv'
<1> USE DEF TransportIInv
<1>1. phase' = "retrying" /\ candidate' = None /\ admission' = "ready"
  BY DEF BeginRetrying
<1>2. TransportTypeOK'
  BY <1>1 DEF TransportTypeOK, EventTypes
<1>3. NoLeakedLine' /\ AdmissionMatchesPhase' /\ CandidateChecked' /\ CandidatePhase'
  BY <1>1 DEF NoLeakedLine, AdmissionMatchesPhase, CandidateChecked, CandidatePhase
<1>4. MakingUnheard' /\ NoticesDead' /\ BridgeLast'
  BY <1>1, CandidateAssumption DEF MakingUnheard, NoticesDead, BridgeLast, TransportTypeOK
<1> QED BY <1>2, <1>3, <1>4

\* Connections end, whoever ends them, and the runtime is told or is not.
LEMMA EndsKeep ==
  ASSUME TransportIInv,
         line' \in [Candidates -> {"none", "live", "dead"}],
         \A id \in Candidates : line'[id] = "live" => line[id] = "live",
         notices' \subseteq Candidates,
         \A id \in notices' \ notices : HandlersSet(id) /\ line'[id] # "live",
         interruptions' \subseteq Candidates,
         registration' \in [Candidates -> {"none", "provisional", "connected"}],
         removals' \subseteq Candidates,
         bridgeStopped' \in BOOLEAN, bridgeStopped' => phase = "stopped",
         events' \in Seq(EventTypes),
         UNCHANGED <<phase, candidate, admission, loop>>
  PROVE  TransportIInv'
<1> USE DEF TransportIInv
<1>1. TransportTypeOK'
  BY DEF TransportTypeOK, EventTypes
<1>2. NoLeakedLine' /\ AdmissionMatchesPhase' /\ CandidateChecked' /\ CandidatePhase'
  BY DEF NoLeakedLine, AdmissionMatchesPhase, CandidateChecked, CandidatePhase
<1>3. MakingUnheard'
  BY DEF MakingUnheard, HandlersSet
<1>4. NoticesDead' /\ BridgeLast'
  BY DEF NoticesDead, BridgeLast, TransportTypeOK
<1> QED BY <1>1, <1>2, <1>3, <1>4

\* Invalidating connections, and forgetting registrations, keep the types.
LEMMA InvalidateTyped ==
  ASSUME TransportTypeOK, NEW ids \in SUBSET Candidates, Invalidate(ids)
  PROVE  /\ line' \in [Candidates -> {"none", "live", "dead"}] /\ removals' \subseteq Candidates
         /\ \A id \in Candidates : line'[id] = "live" => line[id] = "live" /\ id \notin ids
BY DEF Invalidate, TransportTypeOK

LEMMA CurrentTyped == TransportTypeOK => Current \in SUBSET Candidates
BY DEF TransportTypeOK, Current

LEMMA ForgetTyped ==
  ASSUME TransportTypeOK, NEW ids, Forget(ids)
  PROVE  registration' \in [Candidates -> {"none", "provisional", "connected"}]
BY DEF Forget, TransportTypeOK

-----------------------------------------------------------------------------
(* The admission loop. *)

LEMMA LoopSteps ==
  ASSUME TransportIInv, NEW id \in Candidates,
         Attempt(id) \/ Make(id) \/ MakeFails(id) \/ Made(id)
  PROVE  TransportIInv'
<1> USE DEF TransportIInv
<1>1. CASE Attempt(id)
  <2>1. TransportTypeOK'
    BY <1>1 DEF Attempt, TransportTypeOK, bridgeVars
  <2>2. NoLeakedLine' /\ AdmissionMatchesPhase' /\ CandidateChecked' /\ CandidatePhase'
    BY <1>1, CandidateAssumption DEF Attempt, Unused, NoLeakedLine, AdmissionMatchesPhase,
                                     CandidateChecked, CandidatePhase, TransportTypeOK
  <2>3. MakingUnheard' /\ NoticesDead' /\ BridgeLast'
    BY <1>1 DEF Attempt, Unused, MakingUnheard, NoticesDead, BridgeLast, TransportTypeOK, bridgeVars
  <2> QED BY <2>1, <2>2, <2>3
<1>2. CASE Make(id)
  <2>1. id # candidate /\ id \notin notices
    BY <1>2 DEF Make, MakingUnheard
  <2>2. CASE Fresh(id) /\ ~bridgeStopped
    <3>1. /\ registration' = [registration EXCEPT ![id] = "provisional"]
          /\ line' = [line EXCEPT ![id] = "live"] /\ loop' = [loop EXCEPT ![id] = "made"]
          /\ loop[id] = "making"
          /\ UNCHANGED <<phase, candidate, admission, events, notices, interruptions, removals, bridgeStopped>>
      BY <1>2, <2>2 DEF Make
    <3>2. TransportTypeOK'
      BY <3>1 DEF TransportTypeOK
    <3>3. NoLeakedLine' /\ AdmissionMatchesPhase' /\ CandidateChecked' /\ CandidatePhase'
      BY <2>1, <3>1 DEF NoLeakedLine, AdmissionMatchesPhase, CandidateChecked, CandidatePhase, TransportTypeOK
    <3>4. MakingUnheard' /\ NoticesDead' /\ BridgeLast'
      BY <2>1, <3>1 DEF MakingUnheard, NoticesDead, BridgeLast, TransportTypeOK
    <3> QED BY <3>2, <3>3, <3>4
  <2>3. CASE ~(Fresh(id) /\ ~bridgeStopped)
    <3>1. admission # id
      BY <2>3, CandidateAssumption DEF Fresh, AdmissionMatchesPhase, BridgeLast
    <3>2. /\ loop' = [loop EXCEPT ![id] = "off"] /\ loop[id] = "making"
          /\ UNCHANGED <<phase, candidate, admission, events, line, notices, interruptions,
                         registration, removals, bridgeStopped>>
      BY <1>2, <2>3, <3>1 DEF Make
    <3>3. TransportTypeOK'
      BY <3>2 DEF TransportTypeOK
    <3>4. NoLeakedLine' /\ AdmissionMatchesPhase' /\ CandidateChecked' /\ CandidatePhase'
      BY <2>1, <3>2 DEF NoLeakedLine, AdmissionMatchesPhase, CandidateChecked, CandidatePhase, TransportTypeOK
    <3>5. MakingUnheard' /\ NoticesDead' /\ BridgeLast'
      BY <3>2 DEF MakingUnheard, NoticesDead, BridgeLast, TransportTypeOK
    <3> QED BY <3>3, <3>4, <3>5
  <2> QED BY <2>2, <2>3
<1>3. CASE MakeFails(id)
  <2>1. /\ loop' = [loop EXCEPT ![id] = "off"] /\ loop[id] = "making"
        /\ admission' = IF admission = id THEN "sleeping" ELSE admission
        /\ UNCHANGED <<phase, candidate, events, line, notices, interruptions,
                       registration, removals, bridgeStopped>>
    BY <1>3 DEF MakeFails, bridgeVars
  <2>2. TransportTypeOK'
    BY <2>1 DEF TransportTypeOK
  <2>3. NoLeakedLine' /\ AdmissionMatchesPhase' /\ CandidateChecked' /\ CandidatePhase'
    BY <2>1, CandidateAssumption DEF NoLeakedLine, AdmissionMatchesPhase, CandidateChecked, CandidatePhase,
                                     TransportTypeOK
  <2>4. MakingUnheard' /\ NoticesDead' /\ BridgeLast'
    BY <2>1 DEF MakingUnheard, NoticesDead, BridgeLast, TransportTypeOK
  <2> QED BY <2>2, <2>3, <2>4
<1>4. CASE Made(id)
  <2>1. id # candidate /\ id \notin notices /\ loop[id] = "made"
        /\ UNCHANGED <<phase, admission, events, notices, interruptions, registration, bridgeStopped>>
    BY <1>4 DEF Made, MakingUnheard
  <2>2. CASE Fresh(id)
    <3>1. candidate = None
      BY <2>1, <2>2 DEF Fresh, CandidateChecked, CandidatePhase
    <3>2. candidate' = id /\ loop' = [loop EXCEPT ![id] = "checking"] /\ UNCHANGED <<line, removals>>
      BY <1>4, <2>2 DEF Made, Keep
    <3>3. TransportTypeOK'
      BY <2>1, <3>2 DEF TransportTypeOK
    <3>4. NoLeakedLine' /\ AdmissionMatchesPhase' /\ CandidateChecked' /\ CandidatePhase'
      BY <2>1, <2>2, <3>1, <3>2, CandidateAssumption
         DEF Fresh, NoLeakedLine, AdmissionMatchesPhase, CandidateChecked, CandidatePhase, TransportTypeOK
    <3>5. MakingUnheard' /\ NoticesDead' /\ BridgeLast'
      BY <2>1, <3>2 DEF MakingUnheard, NoticesDead, BridgeLast, TransportTypeOK
    <3> QED BY <3>3, <3>4, <3>5
  <2>3. CASE ~Fresh(id)
    <3>1. loop' = [loop EXCEPT ![id] = "off"] /\ Invalidate({id}) /\ UNCHANGED candidate
      BY <1>4, <2>3 DEF Made
    <3>2. /\ line' \in [Candidates -> {"none", "live", "dead"}] /\ removals' \subseteq Candidates
          /\ \A other \in Candidates : line'[other] = "live" => line[other] = "live" /\ other # id
      BY <3>1, InvalidateTyped
    <3>3. TransportTypeOK'
      BY <2>1, <3>1, <3>2 DEF TransportTypeOK
    <3>4. NoLeakedLine' /\ AdmissionMatchesPhase' /\ CandidateChecked' /\ CandidatePhase'
      BY <2>1, <3>1, <3>2 DEF NoLeakedLine, AdmissionMatchesPhase, CandidateChecked, CandidatePhase, TransportTypeOK
    <3>5. MakingUnheard' /\ NoticesDead' /\ BridgeLast'
      BY <2>1, <3>1, <3>2 DEF MakingUnheard, NoticesDead, BridgeLast, TransportTypeOK
    <3> QED BY <3>3, <3>4, <3>5
  <2> QED BY <2>2, <2>3
<1> QED BY <1>1, <1>2, <1>3, <1>4

LEMMA AnswerSteps ==
  ASSUME TransportIInv, NEW id \in Candidates, Answers(id)
  PROVE  TransportIInv'
<1> USE DEF TransportIInv
<1>1. /\ loop[id] = "checking" /\ loop' = [loop EXCEPT ![id] = "healthy"]
      /\ UNCHANGED <<phase, candidate, admission, events, line, notices, interruptions,
                     registration, removals, bridgeStopped>>
  BY DEF Answers, bridgeVars
<1>2. TransportTypeOK'
  BY <1>1 DEF TransportTypeOK
<1>3. NoLeakedLine' /\ AdmissionMatchesPhase' /\ CandidateChecked' /\ CandidatePhase'
  BY <1>1 DEF NoLeakedLine, AdmissionMatchesPhase, CandidateChecked, CandidatePhase, TransportTypeOK
<1>4. MakingUnheard' /\ NoticesDead' /\ BridgeLast'
  BY <1>1 DEF MakingUnheard, NoticesDead, BridgeLast, TransportTypeOK
<1> QED BY <1>2, <1>3, <1>4

LEMMA CheckedSteps ==
  ASSUME TransportIInv, NEW id \in Candidates, NEW healthy \in BOOLEAN, Checked(id, healthy)
  PROVE  TransportIInv'
<1> USE DEF TransportIInv
<1>1. /\ loop[id] \in {"checking", "healthy"} /\ loop' = [loop EXCEPT ![id] = "off"]
      /\ UNCHANGED <<notices, interruptions, registration, bridgeStopped>>
  BY DEF Checked
<1>2. CASE Fresh(id) /\ candidate = id /\ healthy
  <2>1. /\ phase' = "awaiting" /\ admission' = "none" /\ events' = Append(events, Event("awaiting", id))
        /\ UNCHANGED <<candidate, line, removals>> /\ phase = "retrying"
    BY <1>2 DEF Checked, Keep, Fresh
  <2>2. events' \in Seq(EventTypes)
    BY <2>1, EventsTyped
  <2>3. TransportTypeOK'
    BY <1>1, <2>1, <2>2 DEF TransportTypeOK, EventTypes
  <2>4. NoLeakedLine' /\ AdmissionMatchesPhase' /\ CandidateChecked' /\ CandidatePhase'
    BY <1>1, <1>2, <2>1 DEF NoLeakedLine, AdmissionMatchesPhase, CandidateChecked, CandidatePhase, TransportTypeOK
  <2>5. MakingUnheard' /\ NoticesDead' /\ BridgeLast'
    BY <1>1, <2>1 DEF MakingUnheard, NoticesDead, BridgeLast, TransportTypeOK
  <2> QED BY <2>3, <2>4, <2>5
<1>3. CASE ~(Fresh(id) /\ candidate = id /\ healthy)
  <2>1. /\ Invalidate({id}) /\ UNCHANGED <<phase, events>>
        /\ candidate' = IF candidate = id THEN None ELSE candidate
        /\ admission' = IF Fresh(id) THEN "sleeping" ELSE admission
    BY <1>3 DEF Checked
  <2>2. /\ line' \in [Candidates -> {"none", "live", "dead"}] /\ removals' \subseteq Candidates
        /\ \A other \in Candidates : line'[other] = "live" => line[other] = "live" /\ other # id
    BY <2>1, InvalidateTyped
  <2>3. TransportTypeOK'
    BY <1>1, <2>1, <2>2 DEF TransportTypeOK
  <2>4. NoLeakedLine' /\ AdmissionMatchesPhase' /\ CandidateChecked' /\ CandidatePhase'
    BY <1>1, <2>1, <2>2, CandidateAssumption
       DEF Fresh, NoLeakedLine, AdmissionMatchesPhase, CandidateChecked, CandidatePhase, TransportTypeOK
  <2>5. MakingUnheard' /\ NoticesDead' /\ BridgeLast'
    BY <1>1, <2>1, <2>2, CandidateAssumption
       DEF MakingUnheard, NoticesDead, BridgeLast, TransportTypeOK
  <2> QED BY <2>3, <2>4, <2>5
<1> QED BY <1>2, <1>3

\* StartAdmission, the sleep of the loop, and stopping.
LEMMA RuntimeSteps ==
  ASSUME TransportIInv, StartAdmission \/ SleepEnds \/ TransportStop
  PROVE  TransportIInv'
<1> USE DEF TransportIInv
<1>1. CASE StartAdmission
  <2>1. /\ BeginRetrying(<<>>) /\ phase = "idle"
        /\ UNCHANGED <<loop, line, notices, interruptions, registration, removals, bridgeStopped>>
    BY <1>1 DEF StartAdmission, bridgeVars
  <2>2. events' \in Seq(EventTypes)
    BY <2>1, EventsTyped DEF BeginRetrying
  <2>3. \A id \in Candidates : line'[id] = "live" => line[id] = "live" /\ id # candidate
    BY <2>1, CandidateAssumption DEF CandidatePhase
  <2>4. /\ line' \in [Candidates -> {"none", "live", "dead"}] /\ interruptions' \subseteq Candidates
        /\ registration' \in [Candidates -> {"none", "provisional", "connected"}]
        /\ removals' \subseteq Candidates
    BY <2>1 DEF TransportTypeOK
  <2> QED BY <2>1, <2>2, <2>3, <2>4, RetryKeeps
<1>2. CASE SleepEnds
  <2>1. TransportTypeOK'
    BY <1>2 DEF SleepEnds, TransportTypeOK, bridgeVars
  <2>2. NoLeakedLine' /\ AdmissionMatchesPhase' /\ CandidateChecked' /\ CandidatePhase'
    BY <1>2, CandidateAssumption DEF SleepEnds, NoLeakedLine, AdmissionMatchesPhase, CandidateChecked, CandidatePhase,
                                     TransportTypeOK
  <2>3. MakingUnheard' /\ NoticesDead' /\ BridgeLast'
    BY <1>2 DEF SleepEnds, MakingUnheard, NoticesDead, BridgeLast, bridgeVars
  <2> QED BY <2>1, <2>2, <2>3
<1>3. CASE TransportStop
  <2>1. /\ phase' = "stopped" /\ candidate' = None /\ admission' = "none" /\ Invalidate(Current)
        /\ UNCHANGED <<loop, events, notices, interruptions, registration, bridgeStopped>>
    BY <1>3 DEF TransportStop
  <2>2. /\ line' \in [Candidates -> {"none", "live", "dead"}] /\ removals' \subseteq Candidates
        /\ \A id \in Candidates : line'[id] = "live" => line[id] = "live" /\ id # candidate
    BY <2>1, CurrentTyped, InvalidateTyped, CandidateAssumption DEF Current
  <2>3. TransportTypeOK'
    BY <2>1, <2>2 DEF TransportTypeOK
  <2>4. NoLeakedLine' /\ AdmissionMatchesPhase' /\ CandidateChecked' /\ CandidatePhase'
    BY <2>1, <2>2 DEF NoLeakedLine, AdmissionMatchesPhase, CandidateChecked, CandidatePhase
  <2>5. MakingUnheard' /\ NoticesDead' /\ BridgeLast'
    BY <2>1, <2>2, CandidateAssumption DEF MakingUnheard, NoticesDead, BridgeLast, TransportTypeOK
  <2> QED BY <2>3, <2>4, <2>5
<1> QED BY <1>1, <1>2, <1>3

\* The steps that drop the current candidate and start a new search.
LEMMA RetrySteps ==
  ASSUME TransportIInv,
         \/ AcceptanceExpires \/ ManualReconnect \/ ProbeFails
         \/ \E id \in Candidates : NoticeRuns(id)
  PROVE  TransportIInv'
<1> USE DEF TransportIInv
<1>1. ASSUME NEW published, published \in {<<>>, Disconnected,
                                           <<Event("withdrawn", candidate)>> \o Disconnected},
             phase # "stopped", Invalidate(Current), BeginRetrying(published),
             UNCHANGED <<loop, notices, interruptions, registration, bridgeStopped>>
      PROVE  TransportIInv'
  <2>1. candidate \in Candidates \cup {None}
    BY DEF TransportTypeOK
  <2>2. events' \in Seq(EventTypes)
    BY <1>1, <2>1, EventsTyped DEF BeginRetrying
  <2>3. /\ line' \in [Candidates -> {"none", "live", "dead"}] /\ removals' \subseteq Candidates
        /\ \A id \in Candidates : line'[id] = "live" => line[id] = "live" /\ id # candidate
    BY <1>1, CurrentTyped, InvalidateTyped, CandidateAssumption DEF Current
  <2>4. /\ interruptions' \subseteq Candidates /\ notices' \subseteq notices
        /\ registration' \in [Candidates -> {"none", "provisional", "connected"}]
    BY <1>1 DEF TransportTypeOK
  <2> QED BY <1>1, <2>2, <2>3, <2>4, RetryKeeps
<1>2. CASE AcceptanceExpires
  BY <1>1, <1>2 DEF AcceptanceExpires
<1>3. CASE ManualReconnect
  BY <1>1, <1>3 DEF ManualReconnect
<1>4. CASE ProbeFails
  BY <1>1, <1>4 DEF ProbeFails
<1>5. ASSUME NEW id \in Candidates, NoticeRuns(id)
      PROVE  TransportIInv'
  <2>1. /\ id \in notices /\ notices' = notices \ {id}
        /\ UNCHANGED <<loop, line, interruptions, registration, removals, bridgeStopped>>
    BY <1>5 DEF NoticeRuns, bridgeVars
  <2>2. /\ line' \in [Candidates -> {"none", "live", "dead"}] /\ removals' \subseteq Candidates
        /\ registration' \in [Candidates -> {"none", "provisional", "connected"}]
        /\ interruptions' \subseteq Candidates /\ notices' \subseteq notices /\ notices' \subseteq Candidates
        /\ bridgeStopped' \in BOOLEAN /\ (bridgeStopped' => phase = "stopped")
    BY <2>1 DEF TransportTypeOK, BridgeLast
  <2>3. CASE candidate = id /\ phase \in {"awaiting", "connected"}
    <3>1. BeginRetrying(Disconnected)
      BY <1>5, <2>3 DEF NoticeRuns
    <3>2. \A other \in Candidates : line'[other] = "live" => line[other] = "live" /\ other # candidate
      BY <2>1, <2>3 DEF NoticesDead
    <3>3. events' \in Seq(EventTypes)
      BY <3>1, EventsTyped DEF BeginRetrying
    <3> QED BY <2>1, <2>2, <2>3, <3>1, <3>2, <3>3, RetryKeeps
  <2>4. CASE ~(candidate = id /\ phase \in {"awaiting", "connected"})
    <3>1. UNCHANGED <<phase, candidate, admission, loop, events, line>>
      BY <1>5, <2>1, <2>4 DEF NoticeRuns
    <3>2. events' \in Seq(EventTypes)
      BY <3>1, EventsTyped
    <3> QED BY <2>1, <2>2, <3>1, <3>2, EndsKeep
  <2> QED BY <2>3, <2>4
<1> QED BY <1>2, <1>3, <1>4, <1>5

\* The transport is answered, or is asked to forget the answer of someone else.
LEMMA AcknowledgeSteps ==
  ASSUME TransportIInv, NEW id, NEW outcome, Acknowledged(id, outcome),
         UNCHANGED <<loop, notices, interruptions, registration, bridgeStopped>>
  PROVE  TransportIInv'
<1> USE DEF TransportIInv
<1>1. /\ interruptions' \subseteq Candidates /\ notices' \subseteq notices
      /\ registration' \in [Candidates -> {"none", "provisional", "connected"}]
      /\ bridgeStopped' = bridgeStopped /\ bridgeStopped' \in BOOLEAN
  BY DEF TransportTypeOK
<1>2. CASE phase # "awaiting" \/ candidate # id
  BY <1>2 DEF Acknowledged, Keep, TransportTypeOK, NoLeakedLine, AdmissionMatchesPhase,
              CandidateChecked, CandidatePhase, MakingUnheard, NoticesDead, BridgeLast
<1>3. CASE phase = "awaiting" /\ candidate = id /\ outcome = "connected"
  <2>1. /\ phase' = "connected" /\ events' = Append(events, Event("connected", id))
        /\ UNCHANGED <<candidate, admission, line, removals>> /\ candidate \in Candidates \cup {None}
    BY <1>3 DEF Acknowledged, Keep, TransportTypeOK
  <2>2. events' \in Seq(EventTypes)
    BY <1>3, <2>1, EventsTyped
  <2>3. TransportTypeOK'
    BY <1>1, <2>1, <2>2 DEF TransportTypeOK, EventTypes
  <2>4. NoLeakedLine' /\ AdmissionMatchesPhase' /\ CandidateChecked' /\ CandidatePhase'
    BY <1>3, <2>1 DEF NoLeakedLine, AdmissionMatchesPhase, CandidateChecked, CandidatePhase
  <2>5. MakingUnheard' /\ NoticesDead' /\ BridgeLast'
    BY <1>1, <1>3, <2>1 DEF MakingUnheard, NoticesDead, BridgeLast
  <2> QED BY <2>3, <2>4, <2>5
<1>4. CASE phase = "awaiting" /\ candidate = id /\ outcome # "connected"
  <2>1. Invalidate({id}) /\ BeginRetrying(<<Event("withdrawn", id)>> \o Disconnected)
    BY <1>4 DEF Acknowledged
  <2>3. id \in Candidates
    BY <1>4 DEF CandidatePhase
  <2>4. events' \in Seq(EventTypes)
    BY <1>4, <2>1, <2>3, EventsTyped DEF BeginRetrying
  <2>5. /\ line' \in [Candidates -> {"none", "live", "dead"}] /\ removals' \subseteq Candidates
        /\ \A other \in Candidates : line'[other] = "live" => line[other] = "live" /\ other # candidate
    BY <1>4, <2>1, <2>3, InvalidateTyped
  <2> QED BY <1>1, <1>4, <2>1, <2>4, <2>5, RetryKeeps
<1> QED BY <1>2, <1>3, <1>4

\* What the bridge, the connections and the daemon's end do.
LEMMA LineSteps ==
  ASSUME TransportIInv,
         \/ \E id \in Candidates : InterruptionRuns(id) \/ RemovalRuns(id) \/ LineDies(id)
         \/ BridgeStop /\ phase = "stopped"
         \/ LinesInterrupted /\ UNCHANGED <<runtimeVars, line, notices, bridgeVars>>
  PROVE  TransportIInv'
<1> USE DEF TransportIInv
<1>0. events \in Seq(EventTypes)
  BY EventsTyped
<1>1. ASSUME NEW id \in Candidates, InterruptionRuns(id) PROVE TransportIInv'
  <2>1. events' \in Seq(EventTypes)
    BY <1>0, <1>1, EventsTyped DEF InterruptionRuns
  <2> QED BY <1>1, <2>1, EndsKeep DEF InterruptionRuns, bridgeVars, TransportTypeOK, BridgeLast
<1>2. ASSUME NEW id \in Candidates, RemovalRuns(id) PROVE TransportIInv'
  <2>1. registration' \in [Candidates -> {"none", "provisional", "connected"}]
    BY <1>2, ForgetTyped DEF RemovalRuns
  <2> QED BY <1>0, <1>2, <2>1, EndsKeep DEF RemovalRuns, runtimeVars, TransportTypeOK, BridgeLast
<1>3. ASSUME NEW id \in Candidates, LineDies(id) PROVE TransportIInv'
  BY <1>0, <1>3, EndsKeep DEF LineDies, runtimeVars, bridgeVars, TransportTypeOK, BridgeLast
<1>4. CASE BridgeStop /\ phase = "stopped"
  <2>1. registration' \in [Candidates -> {"none", "provisional", "connected"}]
    BY <1>4, ForgetTyped DEF BridgeStop
  <2> QED BY <1>0, <1>4, <2>1, EndsKeep DEF BridgeStop, runtimeVars, TransportTypeOK
<1>5. CASE LinesInterrupted /\ UNCHANGED <<runtimeVars, line, notices, bridgeVars>>
  BY <1>0, <1>5, EndsKeep DEF LinesInterrupted, runtimeVars, bridgeVars, TransportTypeOK, BridgeLast
<1> QED BY <1>1, <1>2, <1>3, <1>4, <1>5

\* Everything that runs without anyone striking.
LEMMA MovingSteps ==
  ASSUME TransportIInv, TransportSteps
  PROVE  TransportIInv'
BY RuntimeSteps, LoopSteps, AnswerSteps, CheckedSteps, RetrySteps, LineSteps DEF TransportSteps

-----------------------------------------------------------------------------
(* The parts' own specifications. *)

LEMMA CoordinateParts ==
  ASSUME Coordinate \/ CallLost
  PROVE  [LocalNext]_localVars /\ [HostNext]_hostVars
<1>1. CASE TakeEvent
  BY <1>1 DEF TakeEvent, OnlyTakes, HandleAwaiting, HandleConnected, HandleWithdrawn,
              HandleDisconnected, HandleInterrupted, LocalNext, LocalRequests
<1>2. CASE Unresolved
  BY <1>2 DEF Unresolved
<1>3. CASE Resolve
  BY <1>3 DEF Resolve
<1>4. CASE Ask
  BY <1>4 DEF Ask, LocalNext, LocalRequests
<1>5. CASE Request
  BY <1>5 DEF Request, HostNext
<1>6. CASE RelinquishAnswered
  BY <1>6 DEF RelinquishAnswered, LocalNext, LocalRequests
<1>7. CASE TransitionEnds
  BY <1>7 DEF TransitionEnds
<1>8. CASE Mark
  BY <1>8 DEF Mark
<1>9. CASE Ack
  BY <1>9 DEF Ack
<1>10. CASE CallLost
  BY <1>10 DEF CallLost
<1> QED BY <1>1, <1>2, <1>3, <1>4, <1>5, <1>6, <1>7, <1>8, <1>9, <1>10 DEF Coordinate

LEMMA QuittingParts ==
  ASSUME Quit \/ Quitting
  PROVE  [LocalNext]_localVars /\ [HostNext]_hostVars
BY DEF Quit, Quitting, QuitJoined, QuitStops, QuitUnbridges, QuitDisposes, LocalNext, LocalRequests

LEMMA MovingParts ==
  ASSUME \/ StartUp \/ \E id \in Candidates : NextAttempt(id)
         \/ TransportMoves \/ FindsDead \/ LocalMoves \/ Calls \/ HostMoves
  PROVE  [LocalNext]_localVars /\ [HostNext]_hostVars
<1>1. CASE StartUp \/ TransportMoves \/ FindsDead \/ \E id \in Candidates : NextAttempt(id)
  BY <1>1 DEF StartUp, TransportMoves, FindsDead, NextAttempt
<1>2. CASE LocalMoves \/ Calls
  BY <1>2 DEF LocalMoves, Calls, LocalNext
<1>3. CASE HostMoves
  BY <1>3 DEF HostMoves, HostNext, HostWorks
<1> QED BY <1>1, <1>2, <1>3

LEMMA TroubleParts ==
  ASSUME TransportTrouble \/ LocalTrouble \/ HostTrouble \/ Crash
  PROVE  [LocalNext]_localVars /\ [HostNext]_hostVars
BY DEF TransportTrouble, LocalTrouble, HostTrouble, Crash, LocalNext, HostNext, HostWorks

LEMMA Parts == [Next]_vars => [LocalNext]_localVars /\ [HostNext]_hostVars
<1>1. CASE UNCHANGED vars
  BY <1>1 DEF vars
<1> QED BY <1>1, CoordinateParts, QuittingParts, MovingParts, TroubleParts DEF Next, Troubles

\* Whatever the rest does, the app's queue runtime behaves by its own
\* specification, and the daemon's host by its.
THEOREM PartsRefine == Spec => LocalSpec /\ HostSpec
<1>1. Init => LocalInit /\ HostInit
  BY DEF Init
<1> QED BY <1>1, Parts, PTL DEF Spec, LocalSpec, HostSpec

\* In the whole system a view's call to the app's engine finds it open, but for
\* calls that a cancelled swap has abandoned (swap, dispose).
THEOREM CallsSafeInTheSystem == Spec => []CallsFindTheEngineOpen
BY PartsRefine, CallsSafe, PTL

\* In the whole system the daemon's proxy is in front of the views only when
\* the app's own engine is closed (runDaemonActivation).
THEOREM ProxyAloneInTheSystem == Spec => []DaemonRouteHasNoLocalEngine
BY PartsRefine, ProxyAlone, PTL

\* In the whole system the daemon's host accounts for every operation in
\* flight, forced drains and late completions included (finishAdmission).
THEOREM AdmissionsInTheSystem == Spec => []AdmissionBalance
BY PartsRefine, AdmissionsAccounted, PTL

-----------------------------------------------------------------------------
(* The types of what the composition adds. *)

CoordType == [at : CoordSteps, id : Candidates \cup {None},
              outcome : {"none", "retry", "connected"}, same : BOOLEAN]
ChatType == [on : Candidates \cup {None}, hears : BOOLEAN]
QuitSteps == {"no", "joining", "stopping", "unbridging", "disposing", "disposed"}

OwnTypeOK ==
  /\ coord \in CoordType /\ connectedID \in Candidates \cup {None} /\ chat \in ChatType
  /\ queueSink \in BOOLEAN /\ quit \in QuitSteps /\ troubled \in 0 .. MaxTrouble

LEMMA RestTyped == AtRest \in CoordType /\ NoChat \in ChatType
BY DEF AtRest, NoChat, CoordType, ChatType, CoordSteps

\* The handler goes on to another step, with an id, an outcome or neither.
LEMMA GoesOnTyped ==
  ASSUME NEW c \in CoordType, NEW step \in CoordSteps, NEW id \in Candidates \cup {None},
         NEW result \in {"none", "retry", "connected"}
  PROVE  /\ [c EXCEPT !.at = step] \in CoordType
         /\ [c EXCEPT !.at = step, !.id = id] \in CoordType
         /\ [c EXCEPT !.at = step, !.outcome = result] \in CoordType
         /\ [c EXCEPT !.at = step, !.same = TRUE] \in CoordType
         /\ [c EXCEPT !.same = FALSE, !.at = step] \in CoordType
BY DEF CoordType

LEMMA OwnInitial == Init => OwnTypeOK
<1> SUFFICES ASSUME Init PROVE OwnTypeOK
  OBVIOUS
<1>1. coord \in CoordType /\ chat \in ChatType
  BY RestTyped DEF Init
<1>2. queueSink \in BOOLEAN
  BY DEF Init
<1>3. quit \in QuitSteps
  BY DEF Init, QuitSteps
<1>4. troubled \in 0 .. MaxTrouble
  BY TroubleAssumption DEF Init
<1> QED BY <1>1, <1>2, <1>3, <1>4 DEF Init, OwnTypeOK

\* What the coordinator's handler may do to its own variables.
LEMMA CoordTyped ==
  ASSUME OwnTypeOK, TransportTypeOK, Coordinate \/ CallLost
  PROVE  OwnTypeOK'
<1> USE DEF OwnTypeOK
<1>0. Calm => troubled' \in 0 .. MaxTrouble
  BY DEF Calm
<1>1. Refuse => coord' \in CoordType /\ chat' \in ChatType /\ UNCHANGED <<connectedID, quit>>
  BY RestTyped, GoesOnTyped DEF Refuse, Rest, CoordSteps
<1>2. CASE TakeEvent
  <2>1. Head(events) \in EventTypes
    BY <1>2, EventsTyped, HeadTailProperties DEF TakeEvent
  <2>2. Head(events).id \in Candidates \cup {None}
    BY <2>1 DEF EventTypes
  <2>3. UNCHANGED <<quit, troubled>>
    BY <1>2 DEF TakeEvent, OnlyTakes, Calm
  <2>4. CASE HandleAwaiting(Head(events).id)
    <3>1. coord' \in CoordType
      BY <2>2, <2>4, RestTyped, GoesOnTyped DEF HandleAwaiting, CoordSteps
    <3> QED BY <2>3, <2>4, <3>1 DEF HandleAwaiting
  <2>5. CASE HandleConnected(Head(events).id)
    BY <2>2, <2>3, <2>5 DEF HandleConnected
  <2>6. CASE HandleWithdrawn(Head(events).id)
    BY <2>3, <2>6 DEF HandleWithdrawn
  <2>7. CASE HandleDisconnected
    <3>1. [AtRest EXCEPT !.at = "unresolving"] \in CoordType
      BY <2>2, RestTyped, GoesOnTyped DEF CoordSteps
    <3>2. coord' \in CoordType
      BY <2>7, <3>1 DEF HandleDisconnected
    <3> QED BY <2>3, <2>7, <3>2, RestTyped DEF HandleDisconnected
  <2>8. CASE HandleInterrupted(Head(events).id)
    <3>1. [on |-> Head(events).id, hears |-> line[Head(events).id] = "live"] \in ChatType
      BY <2>2 DEF ChatType
    <3>2. chat' \in ChatType
      BY <2>8, <3>1 DEF HandleInterrupted
    <3> QED BY <2>3, <2>8, <3>2 DEF HandleInterrupted
  <2> QED BY <1>2, <2>4, <2>5, <2>6, <2>7, <2>8 DEF TakeEvent
<1>3. CASE Unresolved \/ Resolve
  <2>1. coord' \in CoordType
    BY <1>3, RestTyped, GoesOnTyped DEF Unresolved, Resolve, Rest, At, CoordSteps
  <2> QED BY <1>0, <1>3, <2>1 DEF Unresolved, Resolve
<1>4. CASE Ask
  BY <1>0, <1>1, <1>4, GoesOnTyped DEF Ask, CoordSteps
<1>5. CASE Request
  BY <1>0, <1>1, <1>5, GoesOnTyped DEF Request, At, CoordSteps
<1>6. CASE RelinquishAnswered
  BY <1>0, <1>1, <1>6, GoesOnTyped DEF RelinquishAnswered, CoordSteps
<1>7. CASE CallLost
  <2>1. troubled' \in 0 .. MaxTrouble
    <3>1. Strike("rpc") => troubled' \in 0 .. MaxTrouble
      BY TroubleAssumption DEF Strike
    <3> QED BY <1>0, <1>7, <3>1 DEF CallLost
  <2> QED BY <1>1, <1>7, <2>1 DEF CallLost
<1>8. CASE TransitionEnds
  <2>1. CASE Refuse /\ UNCHANGED queueSink
    BY <1>0, <1>1, <1>8, <2>1 DEF TransitionEnds
  <2>2. CASE ~(Refuse /\ UNCHANGED queueSink)
    <3> DEFINE hears == IF coord.at = "activating" THEN coord.same ELSE line[coord.id] = "live"
    <3>1. hears \in BOOLEAN
      <4>1. coord.same \in BOOLEAN
        BY DEF CoordType
      <4> QED BY <4>1
    <3>2. /\ coord' = [coord EXCEPT !.at = "marking"] /\ chat' = [on |-> coord.id, hears |-> hears]
          /\ queueSink' = (hears /\ cstate = "daemonActive") /\ UNCHANGED <<connectedID, quit>>
      BY <1>8, <2>2 DEF TransitionEnds, At
    <3>3. chat' \in ChatType /\ queueSink' \in BOOLEAN
      BY <3>1, <3>2 DEF ChatType, CoordType
    <3> QED BY <1>0, <1>8, <3>2, <3>3, GoesOnTyped DEF TransitionEnds, CoordSteps
  <2> QED BY <2>1, <2>2
<1>9. CASE Mark
  <2>1. coord' \in CoordType /\ chat' \in ChatType
    BY <1>9, RestTyped, GoesOnTyped DEF Mark, CoordSteps
  <2> QED BY <1>0, <1>9, <2>1 DEF Mark
<1>10. CASE Ack
  BY <1>0, <1>10, RestTyped DEF Ack, Rest
<1> QED BY <1>2, <1>3, <1>4, <1>5, <1>6, <1>7, <1>8, <1>9, <1>10 DEF Coordinate

\* The steps of everyone else leave the coordinator's variables alone, but for
\* the quit and the end of the daemon's process.
LEMMA OthersTyped ==
  ASSUME OwnTypeOK,
         \/ StartUp \/ \E id \in Candidates : NextAttempt(id)
         \/ TransportMoves \/ FindsDead \/ LocalMoves \/ Calls \/ HostMoves
         \/ Quit \/ Quitting \/ TransportTrouble \/ LocalTrouble \/ HostTrouble \/ Crash
  PROVE  OwnTypeOK'
<1> USE DEF OwnTypeOK
<1>0. \A kind : Strike(kind) => troubled' \in 0 .. MaxTrouble
  BY TroubleAssumption DEF Strike
<1>1. CASE \/ StartUp \/ \E id \in Candidates : NextAttempt(id)
           \/ TransportMoves \/ FindsDead \/ LocalMoves \/ Calls \/ HostMoves
  BY <1>1 DEF StartUp, NextAttempt, TransportMoves, FindsDead, LocalMoves, Calls, HostMoves, coordVars
<1>2. CASE Quit
  BY <1>0, <1>2 DEF Quit, QuitSteps
<1>3. CASE Quitting
  <2>1. quit' \in QuitSteps
    BY <1>3 DEF Quitting, QuitJoined, QuitStops, QuitUnbridges, QuitDisposes, QuitSteps
  <2>2. chat' \in ChatType /\ UNCHANGED <<coord, queueSink, troubled>>
    BY <1>3, RestTyped DEF Quitting, QuitJoined, QuitStops, QuitUnbridges, QuitDisposes, Calm
  <2> QED BY <1>3, <2>1, <2>2 DEF Quitting, QuitJoined, QuitStops, QuitUnbridges, QuitDisposes
<1>4. CASE TransportTrouble \/ LocalTrouble \/ HostTrouble
  BY <1>0, <1>4 DEF TransportTrouble, LocalTrouble, HostTrouble, coordVars
<1>5. CASE Crash
  <2>1. troubled' \in 0 .. MaxTrouble
    BY <1>0, <1>5 DEF Crash
  <2>2. coord' \in CoordType
    <3>1. CASE coord.at = "relinquishing"
      BY <1>5, <3>1, GoesOnTyped DEF Crash, CoordSteps
    <3>2. CASE coord.at # "relinquishing"
      <4>1. coord.at \in CoordSteps
        BY DEF CoordType
      <4> QED BY <1>5, <3>2, <4>1, GoesOnTyped DEF Crash
    <3> QED BY <3>1, <3>2
  <2>3. chat' \in ChatType
    BY <1>5 DEF Crash, ChatType
  <2> QED BY <1>5, <2>1, <2>2, <2>3 DEF Crash
<1> QED BY <1>1, <1>2, <1>3, <1>4, <1>5

LEMMA OwnStep == OwnTypeOK /\ TransportTypeOK /\ [Next]_vars => OwnTypeOK'
<1>1. CASE UNCHANGED vars
  BY <1>1 DEF vars, coordVars, OwnTypeOK
<1> QED BY <1>1, CoordTyped, OthersTyped DEF Next, Troubles

-----------------------------------------------------------------------------
(* The connection's invariant, in the whole system. *)

\* The bridge is stopped after the transport (shutdown).
QuitPhase == quit \in {"unbridging", "disposing", "disposed"} => phase = "stopped"

\* A stopped transport stays stopped.
LEMMA StoppedForGood ==
  ASSUME phase = "stopped", [Next]_vars
  PROVE  phase' = "stopped"
<1>1. CASE StartUp
  BY <1>1 DEF StartUp, StartAdmission
<1>2. ASSUME NEW id \in Candidates, NextAttempt(id) PROVE phase' = "stopped"
  BY <1>2 DEF NextAttempt, Attempt
<1>3. CASE TransportMoves
  BY <1>3 DEF TransportMoves, TransportSteps, SleepEnds, Make, Made, Answers, Checked, Fresh, NoticeRuns,
              InterruptionRuns, RemovalRuns, runtimeVars
<1>4. CASE FindsDead
  BY <1>4 DEF FindsDead, Checked, Fresh, ProbeFails
<1>5. CASE LocalMoves \/ Calls \/ HostMoves \/ LocalTrouble \/ HostTrouble \/ Crash
  BY <1>5 DEF LocalMoves, Calls, HostMoves, LocalTrouble, HostTrouble, Crash, transportVars, runtimeVars
<1>6. CASE Quit \/ Quitting
  BY <1>6 DEF Quit, Quitting, QuitJoined, QuitStops, QuitUnbridges, QuitDisposes, TransportStop,
              BridgeStop, transportVars, runtimeVars
<1>7. CASE TransportTrouble
  BY <1>7 DEF TransportTrouble, LineDies, MakeFails, ProbeFails, Checked, Fresh, AcceptanceExpires,
              ManualReconnect, runtimeVars
<1>8. CASE Coordinate \/ CallLost
  <2>1. CASE TakeEvent
    BY <2>1 DEF TakeEvent, OnlyTakes
  <2>2. CASE Unresolved \/ Resolve \/ Ask \/ Request \/ RelinquishAnswered \/ CallLost
    BY <2>2 DEF Unresolved, Resolve, Ask, Request, RelinquishAnswered, CallLost, Refuse,
                transportVars, runtimeVars
  <2>3. CASE TransitionEnds \/ Mark
    BY <2>3 DEF TransitionEnds, Mark, Refuse, transportVars, runtimeVars
  <2>4. CASE Ack
    BY <2>4 DEF Ack, Acknowledged
  <2> QED BY <1>8, <2>1, <2>2, <2>3, <2>4 DEF Coordinate
<1>9. CASE UNCHANGED vars
  BY <1>9 DEF vars, transportVars, runtimeVars
<1> QED BY <1>1, <1>2, <1>3, <1>4, <1>5, <1>6, <1>7, <1>8, <1>9 DEF Next, Troubles

\* Who moves the quit.
LEMMA WhoQuits ==
  ASSUME [Next]_vars
  PROVE  UNCHANGED quit \/ Quit \/ Quitting
<1>1. CASE Coordinate \/ CallLost
  BY <1>1 DEF Coordinate, CallLost, TakeEvent, OnlyTakes, Unresolved, Resolve, Ask, Request,
              RelinquishAnswered, TransitionEnds, Mark, Ack, Refuse
<1>2. CASE \/ StartUp \/ \E id \in Candidates : NextAttempt(id)
           \/ TransportMoves \/ FindsDead \/ LocalMoves \/ Calls \/ HostMoves
           \/ TransportTrouble \/ LocalTrouble \/ HostTrouble \/ Crash \/ UNCHANGED vars
  BY <1>2 DEF StartUp, NextAttempt, TransportMoves, FindsDead, LocalMoves, Calls, HostMoves,
              TransportTrouble, LocalTrouble, HostTrouble, Crash, coordVars, vars
<1> QED BY <1>1, <1>2 DEF Next, Troubles

LEMMA QuitPhaseStep == QuitPhase /\ OwnTypeOK /\ [Next]_vars => QuitPhase'
<1> SUFFICES ASSUME QuitPhase, OwnTypeOK, [Next]_vars PROVE QuitPhase'
  OBVIOUS
<1>1. CASE QuitStops
  BY <1>1 DEF QuitStops, TransportStop, QuitPhase
<1>2. CASE QuitUnbridges \/ QuitDisposes
  BY <1>2, StoppedForGood DEF QuitUnbridges, QuitDisposes, QuitPhase
<1>3. CASE Quit \/ QuitJoined
  BY <1>3 DEF Quit, QuitJoined, QuitPhase
<1>4. CASE UNCHANGED quit
  BY <1>4, StoppedForGood DEF QuitPhase
<1> QED BY <1>1, <1>2, <1>3, <1>4, WhoQuits DEF Quitting

\* A handler of the coordinator that only forgets a registration, or marks one.
LEMMA ForgettingKeeps ==
  ASSUME TransportIInv, NEW ids, Forget(ids),
         UNCHANGED <<phase, candidate, admission, loop, line, notices, interruptions, removals,
                     bridgeStopped>>,
         events' \in Seq(EventTypes)
  PROVE  TransportIInv'
<1>1. registration' \in [Candidates -> {"none", "provisional", "connected"}]
  BY ForgetTyped DEF TransportIInv
<1> QED BY <1>1, EndsKeep DEF TransportIInv, TransportTypeOK, BridgeLast

LEMMA UntouchedKeeps ==
  ASSUME TransportIInv, UNCHANGED transportVars
  PROVE  TransportIInv'
<1>1. events' \in Seq(EventTypes)
  BY EventsTyped DEF TransportIInv, transportVars, runtimeVars
<1> QED BY <1>1, EndsKeep DEF transportVars, runtimeVars, bridgeVars, TransportIInv, TransportTypeOK,
                              BridgeLast

LEMMA CoordinateKeeps ==
  ASSUME TransportIInv, OwnTypeOK, Coordinate \/ CallLost
  PROVE  TransportIInv'
<1>0. events \in Seq(EventTypes)
  BY EventsTyped DEF TransportIInv
<1>1. CASE TakeEvent
  <2>1. events' \in Seq(EventTypes)
    BY <1>0, <1>1, HeadTailProperties DEF TakeEvent
  <2>2. UNCHANGED registration \/ \E ids : Forget(ids)
    BY <1>1 DEF TakeEvent, HandleAwaiting, HandleConnected, HandleWithdrawn, HandleDisconnected,
                HandleInterrupted
  <2>3. UNCHANGED <<phase, candidate, admission, loop, line, notices, interruptions, removals,
                    bridgeStopped>>
    BY <1>1 DEF TakeEvent, OnlyTakes
  <2>4. CASE UNCHANGED registration
    BY <2>1, <2>3, <2>4, EndsKeep DEF TransportIInv, TransportTypeOK, BridgeLast
  <2> QED BY <2>1, <2>2, <2>3, <2>4, ForgettingKeeps
<1>2. CASE Refuse
  BY <1>0, <1>2, ForgettingKeeps DEF Refuse, runtimeVars
<1>3. CASE UNCHANGED transportVars
  BY <1>3, UntouchedKeeps
<1>4. CASE Mark
  <2>1. CASE MarkConnected(coord.id)
    <3>1. /\ UNCHANGED <<phase, candidate, admission, loop, events, interruptions, removals, bridgeStopped>>
      BY <1>4 DEF Mark, runtimeVars
    <3>2. /\ registration' \in [Candidates -> {"none", "provisional", "connected"}]
          /\ line' \in [Candidates -> {"none", "live", "dead"}]
          /\ \A id \in Candidates : line'[id] = "live" => line[id] = "live"
          /\ notices' \subseteq Candidates
          /\ \A id \in notices' \ notices : HandlersSet(id) /\ line'[id] # "live"
      BY <2>1 DEF MarkConnected, TransportIInv, TransportTypeOK
    <3> QED BY <1>0, <3>1, <3>2, EndsKeep DEF TransportIInv, TransportTypeOK, BridgeLast
  <2>2. CASE ~MarkConnected(coord.id)
    BY <1>4, <2>2, UntouchedKeeps DEF Mark, transportVars, bridgeVars
  <2> QED BY <2>1, <2>2
<1>5. CASE Ack
  BY <1>5, AcknowledgeSteps DEF Ack
<1>6. \/ TakeEvent \/ Refuse \/ UNCHANGED transportVars \/ Mark \/ Ack
  BY DEF Coordinate, CallLost, Unresolved, Resolve, Ask, Request, RelinquishAnswered, TransitionEnds
<1> QED BY <1>1, <1>2, <1>3, <1>4, <1>5, <1>6

LEMMA TransportStep == TransportIInv /\ OwnTypeOK /\ QuitPhase /\ [Next]_vars => TransportIInv'
<1> SUFFICES ASSUME TransportIInv, OwnTypeOK, QuitPhase, [Next]_vars PROVE TransportIInv'
  OBVIOUS
<1>1. CASE StartUp
  BY <1>1, RuntimeSteps DEF StartUp
<1>2. ASSUME NEW id \in Candidates, NextAttempt(id) PROVE TransportIInv'
  BY <1>2, LoopSteps DEF NextAttempt
<1>3. CASE TransportMoves
  BY <1>3, MovingSteps DEF TransportMoves
<1>4. CASE FindsDead
  BY <1>4, CheckedSteps, RetrySteps DEF FindsDead
<1>5. CASE LocalMoves \/ Calls \/ HostMoves \/ LocalTrouble \/ HostTrouble \/ Quit \/ QuitJoined
           \/ QuitDisposes
  BY <1>5, UntouchedKeeps DEF LocalMoves, Calls, HostMoves, LocalTrouble, HostTrouble, Quit,
                              QuitJoined, QuitDisposes
<1>6. CASE QuitStops
  BY <1>6, RuntimeSteps DEF QuitStops
<1>7. CASE QuitUnbridges
  BY <1>7, LineSteps DEF QuitUnbridges, QuitPhase
<1>8. CASE TransportTrouble
  BY <1>8, LineSteps, LoopSteps, RetrySteps, CheckedSteps DEF TransportTrouble
<1>9. CASE Crash
  BY <1>9, LineSteps DEF Crash
<1>10. CASE Coordinate \/ CallLost
  BY <1>10, CoordinateKeeps
<1>11. CASE UNCHANGED vars
  BY <1>11, UntouchedKeeps DEF vars
<1> QED BY <1>1, <1>2, <1>3, <1>4, <1>5, <1>6, <1>7, <1>8, <1>9, <1>10, <1>11
        DEF Next, Troubles, Quitting

SystemIInv == TransportIInv /\ OwnTypeOK /\ QuitPhase

LEMMA SystemInvariance == Spec => []SystemIInv
<1>1. Init => SystemIInv
  BY TransportInitial, OwnInitial DEF Init, SystemIInv, QuitPhase
<1>2. SystemIInv /\ [Next]_vars => SystemIInv'
  <2> SUFFICES ASSUME SystemIInv, [Next]_vars PROVE SystemIInv'
    OBVIOUS
  <2>1. TransportTypeOK
    BY DEF SystemIInv, TransportIInv
  <2> QED BY <2>1, OwnStep, QuitPhaseStep, TransportStep DEF SystemIInv
<1> QED BY <1>1, <1>2, PTL DEF Spec

\* Every variable of the system keeps its type.
THEOREM SystemTypeCorrect == Spec => []TypeOK
<1>1. Spec => []LocalIInv
  BY PartsRefine, LocalInvariance, PTL
<1>2. Spec => []HostIInv
  <2>1. HostInit => HostIInv
    BY HostInitial DEF ClosedIInv
  <2>2. HostIInv /\ [HostNext]_hostVars => HostIInv'
    BY BalanceStep
  <2> QED BY <2>1, <2>2, PartsRefine, PTL DEF HostSpec
<1>3. SystemIInv /\ LocalIInv /\ HostIInv => TypeOK
  BY DEF SystemIInv, TransportIInv, OwnTypeOK, CoordType, ChatType, QuitSteps, LocalIInv, HostIInv, TypeOK
<1> QED BY <1>1, <1>2, <1>3, SystemInvariance, PTL

\* A live connection always has an owner, through every order of reconnects,
\* expiries, stale loops, notices and quits (DaemonTransportRuntime.swift).
THEOREM NoLineLeaks == Spec => []NoLeakedLine
<1>1. SystemIInv => NoLeakedLine
  BY DEF SystemIInv, TransportIInv
<1> QED BY <1>1, SystemInvariance, PTL

\* The transport looks for a connection exactly while it is retrying
\* (beginRetrying, runAdmissionLoop, stopInternal).
THEOREM AdmissionAlwaysMatches == Spec => []AdmissionMatchesPhase
<1>1. SystemIInv => AdmissionMatchesPhase
  BY DEF SystemIInv, TransportIInv
<1> QED BY <1>1, SystemInvariance, PTL

-----------------------------------------------------------------------------
(* The handover. *)

\* The process that gave a complete reply stays relinquished until it ends.
HandoverStands == coord.at = "fallingBack" /\ coord.same => hostState = "relinquished"

\* A host that is relinquished leaves that state only by its process's end.
LEMMA RelinquishedStays ==
  ASSUME ClosedIInv, hostState = "relinquished", [HostNext]_hostVars, ~HostDies
  PROVE  hostState' = "relinquished"
<1>1. handing = "none"
  BY DEF ClosedIInv, HandingPhase
<1> QED BY <1>1 DEF HostNext, HostWorks, hostVars, HostAdmit, OwnerResumes, OpEnds, BuildOpens,
                    BuildFails, HostRelinquish, HostDrained, ForceDrain, HostStops, HostBlocked

\* The handler's next step, when it refuses, rests or goes on to a step.
LEMMA HandlerGoes ==
  ASSUME coord \in CoordType
  PROVE  /\ Refuse => coord'.at # "fallingBack"
         /\ Rest => coord'.at # "fallingBack"
         /\ \A step : [coord EXCEPT !.at = step].at = step
         /\ \A step : [coord EXCEPT !.at = step, !.same = TRUE].at = step
         /\ \A step, result : [coord EXCEPT !.at = step, !.outcome = result].at = step
<1>1. \A step : [coord EXCEPT !.at = step].at = step
  BY DEF CoordType
<1>2. \A step : [coord EXCEPT !.at = step, !.same = TRUE].at = step
  BY DEF CoordType
<1>3. \A step, result : [coord EXCEPT !.at = step, !.outcome = result].at = step
  BY DEF CoordType
<1>4. AtRest.at = "idle"
  BY DEF AtRest
<1>5. ASSUME Refuse PROVE coord'.at # "fallingBack"
  <2>1. CASE Admitted
    <3>1. coord' = [coord EXCEPT !.at = "acking", !.outcome = "retry"]
      BY <1>5, <2>1 DEF Refuse
    <3>2. coord'.at = "acking"
      BY <1>3, <3>1
    <3> QED BY <3>2
  <2>2. CASE ~Admitted
    <3>1. coord' = AtRest
      BY <1>5, <2>2 DEF Refuse, Rest
    <3> QED BY <1>4, <3>1
  <2> QED BY <2>1, <2>2
<1>6. Rest => coord'.at # "fallingBack"
  BY <1>4 DEF Rest
<1> QED BY <1>1, <1>2, <1>3, <1>5, <1>6

\* Only a complete reply leads the handler to the fallback.
LEMMA FallsBackOnlyOnReply ==
  ASSUME coord \in CoordType, Coordinate \/ CallLost,
         coord'.at = "fallingBack"
  PROVE  RelinquishAnswered /\ hostState = "relinquished"
<1>1. CASE TakeEvent
  <2>1. \A id : HandleAwaiting(id) => coord'.at = "resolving"
    BY DEF HandleAwaiting, AtRest
  <2>2. HandleDisconnected => coord'.at = "unresolving" \/ coord' = coord
    BY DEF HandleDisconnected, AtRest
  <2>3. \A id : HandleConnected(id) \/ HandleWithdrawn(id) \/ HandleInterrupted(id) => coord' = coord
    BY DEF HandleConnected, HandleWithdrawn, HandleInterrupted
  <2> QED BY <1>1, <2>1, <2>2, <2>3 DEF TakeEvent
<1>2. CASE Unresolved
  BY <1>2, HandlerGoes DEF Unresolved
<1>3. CASE Resolve
  BY <1>3, HandlerGoes DEF Resolve, At
<1>4. CASE Ask
  BY <1>4, HandlerGoes DEF Ask
<1>5. CASE Request
  BY <1>5, HandlerGoes DEF Request, At
<1>6. CASE CallLost
  BY <1>6, HandlerGoes DEF CallLost
<1>7. CASE RelinquishAnswered
  BY <1>7, HandlerGoes DEF RelinquishAnswered
<1>8. CASE TransitionEnds
  <2>1. (Admitted /\ At("marking")) \/ Refuse
    <3> DEFINE accepted == cstate = IF coord.at = "activating" THEN "daemonActive" ELSE "localReady"
    <3>1. IF accepted /\ Admitted THEN At("marking") ELSE Refuse
      BY <1>8, Zenon DEF TransitionEnds
    <3> QED BY <3>1
  <2> QED BY <2>1, HandlerGoes DEF At
<1>9. CASE Mark
  <2>1. \/ coord' = [coord EXCEPT !.at = "acking", !.outcome = "connected"]
        \/ coord' = [coord EXCEPT !.at = "acking", !.outcome = "retry"]
    BY <1>9 DEF Mark
  <2> QED BY <2>1, HandlerGoes
<1>10. CASE Ack
  BY <1>10, HandlerGoes DEF Ack
<1> QED BY <1>1, <1>2, <1>3, <1>4, <1>5, <1>6, <1>7, <1>8, <1>9, <1>10 DEF Coordinate

LEMMA HandoverStep ==
  HandoverStands /\ ClosedIInv /\ OwnTypeOK /\ [Next]_vars => HandoverStands'
<1> SUFFICES ASSUME HandoverStands, ClosedIInv, OwnTypeOK, [Next]_vars,
                    coord'.at = "fallingBack", coord'.same
             PROVE  hostState' = "relinquished"
  BY DEF HandoverStands
<1>0. coord \in CoordType
  BY DEF OwnTypeOK
<1>1. CASE Crash
  BY <1>0, <1>1 DEF Crash, CoordType
<1>2. CASE Coordinate \/ CallLost
  <2>1. RelinquishAnswered /\ hostState = "relinquished"
    BY <1>0, <1>2, FallsBackOnlyOnReply
  <2> QED BY <2>1 DEF RelinquishAnswered, hostVars
<1>3. CASE ~(Coordinate \/ CallLost \/ Crash)
  <2>1. coord' = coord => hostState = "relinquished"
    BY DEF HandoverStands
  <2>2. CASE HostMoves
    BY <2>1, <2>2 DEF HostMoves, HostAdmit, OwnerResumes, OpEnds, BuildOpens, HostDrained, HostStops,
                      ClosedIInv, HandingPhase, coordVars
  <2>3. CASE HostTrouble
    BY <2>1, <2>3 DEF HostTrouble, BuildFails, ForceDrain, HostBlocked, ClosedIInv, HandingPhase,
                      coordVars
  <2>4. CASE \/ StartUp \/ \E id \in Candidates : NextAttempt(id)
             \/ TransportMoves \/ FindsDead \/ LocalMoves \/ Calls \/ Quit \/ Quitting
             \/ TransportTrouble \/ LocalTrouble \/ UNCHANGED vars
    <3>1. UNCHANGED <<hostVars, coord>>
      BY <2>4 DEF StartUp, NextAttempt, TransportMoves, FindsDead, LocalMoves, Calls, Quit, Quitting,
         QuitJoined, QuitStops, QuitUnbridges, QuitDisposes, TransportTrouble, LocalTrouble, coordVars,
         vars
    <3> QED BY <2>1, <3>1 DEF hostVars
  <2> QED BY <1>3, <2>2, <2>3, <2>4 DEF Next, Troubles
<1> QED BY <1>1, <1>2, <1>3

\* From the complete reply to the end of the fallback the process that gave the
\* reply has no engine, unless that of a build in flight when its host
\* relinquished, the drain having been forced beside it: the app opens its
\* engine only behind a handover (fallBackAfterRelinquishment,
\* performRelinquishment).
THEOREM HandoverExclusive == Spec => []HandoverIsExclusive
<1>1. Init => HandoverStands
  BY DEF Init, AtRest, HandoverStands
<1>2. ClosedIInv /\ SystemIInv /\ HandoverStands /\ [Next]_vars => HandoverStands'
  BY HandoverStep DEF SystemIInv
<1>3. ClosedIInv /\ HandoverStands => HandoverIsExclusive
  BY DEF ClosedIInv, HandingPhase, HandoverStands, HandoverIsExclusive
<1>4. Spec => []ClosedIInv
  BY HostInvariance, PartsRefine, PTL
<1> QED BY <1>1, <1>2, <1>3, <1>4, SystemInvariance, PTL DEF Spec

\* In the system too, a host that said it has relinquished has no engine but
\* that of a build left behind by a forced drain (performRelinquishment).
THEOREM RelinquishedClosedInTheSystem == Spec => []RelinquishedMeansClosed
BY RelinquishedClosed, PartsRefine, PTL
-----------------------------------------------------------------------------
(* What a quit leaves behind. *)

\* Once it has joined the coordinator, the quit finds it at rest.
RestsWhenQuit ==
  quit \in {"stopping", "unbridging", "disposing", "disposed"} => coord.at = "idle"

\* The quit's own transition is under way, or it has closed what there was.
QuitClosing == quit = "disposed" /\ launched = "yes" =>
  \/ work.kind = "dispose" /\ work.step \in {"joining", "retiring", "disposing"}
  \/ /\ Free /\ boot = "none" /\ route = "unavailable"
     /\ local = "open" => cstate = "shutdownBlocked"

\* Only the coordinator's own steps and the end of the daemon's process touch
\* its handler, and the latter leaves it where it is or has it lose its call.
LEMMA WhoHandles ==
  ASSUME [Next]_vars, ~(Coordinate \/ CallLost)
  PROVE  coord' = coord \/ Crash
BY DEF Next, Troubles, StartUp, NextAttempt, TransportMoves, FindsDead, LocalMoves, Calls, HostMoves,
       Quit, Quitting, QuitJoined, QuitStops, QuitUnbridges, QuitDisposes, TransportTrouble,
       LocalTrouble, HostTrouble, coordVars, vars

\* What a resting handler may do is to take an event, if the app is not quitting.
LEMMA RestingHandles ==
  ASSUME coord.at = "idle", Coordinate \/ CallLost
  PROVE  TakeEvent /\ Admitted
BY DEF Coordinate, TakeEvent, Unresolved, Resolve, Ask, Request, RelinquishAnswered, TransitionEnds,
       Mark, Ack, CallLost

LEMMA RestsStep == RestsWhenQuit /\ OwnTypeOK /\ [Next]_vars => RestsWhenQuit'
<1> SUFFICES ASSUME RestsWhenQuit, OwnTypeOK, [Next]_vars PROVE RestsWhenQuit'
  OBVIOUS
<1>1. coord.at = "idle" /\ quit # "no" => coord'.at = "idle"
  <2> SUFFICES ASSUME coord.at = "idle", quit # "no" PROVE coord'.at = "idle"
    OBVIOUS
  <2>1. ~(Coordinate \/ CallLost)
    BY RestingHandles DEF Admitted
  <2>2. CASE Crash
    BY <2>2 DEF Crash, OwnTypeOK, CoordType
  <2> QED BY <2>1, <2>2, WhoHandles
<1>2. CASE UNCHANGED quit
  BY <1>1, <1>2 DEF RestsWhenQuit
<1>3. CASE Quit
  BY <1>3 DEF Quit, RestsWhenQuit
<1>4. CASE Quitting
  BY <1>1, <1>4 DEF Quitting, QuitJoined, QuitStops, QuitUnbridges, QuitDisposes, RestsWhenQuit
<1> QED BY <1>2, <1>3, <1>4, WhoQuits

\* The steps of the app's queue runtime, once the quit has asked for its disposal.
LEMMA ClosingMoves ==
  ASSUME LocalIInv, quit = "disposed", QuitClosing, launched' = "yes", launched = "yes",
         LocalSteps \/ LocalFaults \/ LocalCalls, UNCHANGED quit
  PROVE  QuitClosing'
<1> USE DEF LocalIInv
<1>1. CASE work.kind = "dispose" /\ work.step \in {"joining", "retiring", "disposing"}
  <2>1. ~Start /\ work # NoWork
    BY <1>1 DEF Start, NoWork
  <2>2. CASE LocalCalls
    BY <1>1, <2>2 DEF LocalCalls, CallBegins, CallEnds, QuitClosing
  <2>3. CASE \/ BootAssembles \/ BootResumes \/ BootFails \/ BootSwapped
             \/ \E how \in Disposals : BootRetires(how)
    BY <1>1, <2>3 DEF BootAssembles, BootResumes, BootFails, BootSwapped, BootRetires, QuitClosing
  <2>4. CASE StartupJoined
    BY <1>1, <2>4 DEF StartupJoined, Go, QuitClosing
  <2>5. CASE Retired
    <3>1. work.step = "retiring" /\ boot = "none" /\ route = "unavailable"
      BY <2>5 DEF Retired, BootPhase, TransitionPhase
    <3>2. CASE handle
      BY <1>1, <2>5, <3>2 DEF Retired, Go, QuitClosing
    <3>3. CASE ~handle
      <4>1. local = "none"
        BY <3>1, <3>3 DEF EngineHeld
      <4>2. work' = NoWork /\ UNCHANGED <<route, local, boot>>
        BY <1>1, <2>5, <3>3 DEF Retired, Done
      <4> QED BY <3>1, <4>1, <4>2 DEF Free, QuitClosing
    <3> QED BY <3>2, <3>3
  <2>6. ASSUME NEW how \in Disposals, LocalDisposed(how) PROVE QuitClosing'
    <3>1. work.step = "disposing" /\ boot = "none" /\ route = "unavailable"
      BY <2>6 DEF LocalDisposed, BootPhase, TransitionPhase
    <3>2. /\ work' = NoWork /\ UNCHANGED <<route, boot>> /\ Disposed(how)
          /\ cstate' = IF how = "blocked" THEN "shutdownBlocked" ELSE "unavailable"
      BY <1>1, <2>6 DEF LocalDisposed, Done
    <3>3. local' = "open" => cstate' = "shutdownBlocked"
      BY <3>2 DEF Disposed, Disposals
    <3> QED BY <3>1, <3>2, <3>3 DEF Free, QuitClosing
  <2>7. ~DaemonInstalled /\ ~FallBackAssembled /\ ~FallBackFails /\ ~FallenBack /\ ~Parted
    BY <1>1 DEF DaemonInstalled, FallBackAssembled, FallBackFails, FallenBack, Parted
  <2> QED BY <2>1, <2>2, <2>3, <2>4, <2>5, <2>6, <2>7 DEF LocalSteps, LocalFaults, Disposals
<1>2. CASE Free /\ boot = "none"
  <2>1. work.step = "none"
    BY <1>2 DEF Free, NoWork
  <2>2. CASE LocalCalls
    BY <1>2, <2>2 DEF LocalCalls, CallBegins, CallEnds, QuitClosing, Free, NoWork
  <2>3. ~(LocalSteps \/ LocalFaults)
    BY <1>2, <2>1 DEF LocalSteps, LocalFaults, Start, BootAssembles, BootResumes, BootFails, BootSwapped,
       BootRetires, StartupJoined, Retired, LocalDisposed, DaemonInstalled, FallBackAssembled,
       FallBackFails, FallenBack, Parted
  <2> QED BY <2>2, <2>3
<1> QED BY <1>1, <1>2 DEF QuitClosing

LEMMA ClosingStep ==
  QuitClosing /\ RestsWhenQuit /\ LocalIInv /\ [Next]_vars => QuitClosing'
<1> SUFFICES ASSUME QuitClosing, RestsWhenQuit, LocalIInv, [Next]_vars,
                    quit' = "disposed", launched' = "yes"
             PROVE  QuitClosing'
  BY DEF QuitClosing
<1>1. CASE quit = "disposed"
  <2>1. ~(Coordinate \/ CallLost) /\ ~Quit /\ ~Quitting
    BY <1>1, RestingHandles DEF RestsWhenQuit, Admitted, Quit, Quitting, QuitJoined, QuitStops,
                                QuitUnbridges, QuitDisposes
  <2>2. CASE UNCHANGED localVars
    BY <1>1, <2>2 DEF QuitClosing, localVars, Free
  <2>3. CASE LocalMoves \/ LocalTrouble \/ Calls
    <3>1. LocalSteps \/ LocalFaults \/ LocalCalls
      BY <2>3 DEF LocalMoves, LocalTrouble, Calls
    <3>2. launched = "yes"
      <4>1. CASE LocalMoves
        BY <1>1, <4>1 DEF LocalMoves
      <4>2. CASE LocalTrouble
        BY <4>2 DEF LocalTrouble, LocalFaults, BootFails, FallBackFails, BootRetires, LocalDisposed
      <4>3. CASE Calls
        BY <4>3 DEF Calls, LocalCalls, CallBegins, CallEnds
      <4> QED BY <2>3, <4>1, <4>2, <4>3
    <3>3. UNCHANGED quit
      BY <1>1
    <3> QED BY <1>1, <3>1, <3>2, <3>3, ClosingMoves
  <2>4. UNCHANGED localVars \/ LocalMoves \/ LocalTrouble \/ Calls
    BY <2>1 DEF Next, Troubles, StartUp, NextAttempt, TransportMoves, FindsDead, HostMoves,
                TransportTrouble, HostTrouble, Crash, vars
  <2> QED BY <2>2, <2>3, <2>4
<1>2. CASE quit # "disposed"
  <2>1. QuitDisposes
    BY <1>2, WhoQuits DEF Quit, Quitting, QuitJoined, QuitStops, QuitUnbridges
  <2>2. launched = "yes" /\ BeginDispose
    BY <2>1 DEF QuitDisposes, localVars, BeginDispose
  <2> QED BY <2>2 DEF BeginDispose, Go, QuitClosing
<1> QED BY <1>1, <1>2

\* A quit closes the queue, whatever it interrupted: once the runtime it was
\* given has been disposed of, no view reaches a queue and the app's engine
\* runs only if its own workers have blocked its shutdown (dispose, shutdown).
THEOREM QuitAlwaysCloses == Spec => []QuitClosesTheQueue
<1>1. Init => RestsWhenQuit /\ QuitClosing
  BY DEF Init, RestsWhenQuit, QuitClosing
<1>2. /\ RestsWhenQuit /\ QuitClosing /\ SystemIInv /\ LocalIInv /\ [Next]_vars
      => RestsWhenQuit' /\ QuitClosing'
  BY RestsStep, ClosingStep DEF SystemIInv
<1>3. QuitClosing => QuitClosesTheQueue
  BY DEF QuitClosing, QuitClosesTheQueue, Free, NoWork
<1>4. Spec => []LocalIInv
  BY PartsRefine, LocalInvariance, PTL
<1> QED BY <1>1, <1>2, <1>3, <1>4, SystemInvariance, PTL DEF Spec
-----------------------------------------------------------------------------
(* What the app keeps for itself follows the transport. *)

\* A candidate that is spoken of, or being accepted, has left its loop for good.
Settled ==
  /\ \A i \in 1..Len(events) : events[i].id # None => loop[events[i].id] = "off"
  /\ coord.id # None => loop[coord.id] = "off"

\* Only dead connections are removed, and none that is still to be made.
RemovedForGood == \A id \in removals : line[id] # "live" /\ loop[id] # "making"

\* While the runtime waits for an answer about its candidate nothing is
\* published after the offer: once that is taken, nothing is left to take.
OfferIsLast == phase = "awaiting" =>
  /\ \A i \in 1..Len(events) : events[i].id = candidate => i = Len(events)
  /\ coord.id = candidate => events = <<>>

\* Whoever runs the queue, its transition is over.
SomeoneServes == Free /\ cstate \in {"daemonActive", "localReady"}

\* The handler is about to answer that it has accepted its candidate.
Accepting == coord.at = "marking" \/ (coord.at = "acking" /\ coord.outcome = "connected")
AcceptedBehind == Accepting =>
  /\ chat.on = coord.id /\ SomeoneServes
  /\ coord.at = "acking" /\ coord.id \in Candidates /\ line[coord.id] = "live" =>
       registration[coord.id] = "connected"

\* A connected transport has published nothing but that, and interruptions; what the
\* app keeps agrees, but for the event still to be taken.
ConnectedBehind == phase = "connected" =>
  /\ coord.at = "idle"
  /\ \A i \in 1..Len(events) : events[i] \in [type : {"connected", "interrupted"}, id : {candidate}]
  /\ line[candidate] = "live" => registration[candidate] = "connected"
  /\ Admitted => /\ chat.on = candidate /\ SomeoneServes
                 /\ connectedID = candidate \/ (events # <<>> /\ Head(events).type = "connected")

FollowIInv == /\ Settled /\ RemovedForGood /\ OfferIsLast
              /\ AcceptedBehind /\ ConnectedBehind

\* What is published, read off the events: an old event or one of the new.
LEMMA Appended ==
  ASSUME events \in Seq(EventTypes), NEW e \in EventTypes, events' = Append(events, e)
  PROVE  /\ Len(events) \in Nat /\ Len(events') = Len(events) + 1
         /\ \A i \in 1..Len(events) : events'[i] = events[i]
         /\ events'[Len(events) + 1] = e
BY AppendProperties

LEMMA Withdrawing ==
  ASSUME TransportTypeOK, NEW id \in Candidates \cup {None},
         NEW published \in {<<>>, Disconnected, <<Event("withdrawn", id)>> \o Disconnected},
         events' = events \o published
  PROVE  \A i \in 1..Len(events') : \/ i \in 1..Len(events) /\ events'[i] = events[i]
                                    \/ events'[i].id \in {None, id}
<1>1. events \in Seq(EventTypes)
  BY DEF TransportTypeOK, EventTypes
<1>2. Event("withdrawn", id) \in EventTypes /\ Event("disconnected", None) \in EventTypes
  BY DEF Event, EventTypes
<1> DEFINE w == Event("withdrawn", id)
           d == Event("disconnected", None)
<1>3. w.id = id /\ d.id = None
  BY DEF Event
<1> HIDE DEF w, d
<1>4. /\ <<>> \in Seq(EventTypes) /\ <<d>> \in Seq(EventTypes) /\ <<w>> \in Seq(EventTypes)
      /\ Len(<<>>) = 0 /\ Len(<<d>>) = 1 /\ <<d>>[1] = d /\ Len(<<w>>) = 1 /\ <<w>>[1] = w
  BY <1>2 DEF w, d
<1>5. <<w>> \o <<d>> \in Seq(EventTypes) /\ Len(<<w>> \o <<d>>) = 2
      /\ (<<w>> \o <<d>>)[1] = w /\ (<<w>> \o <<d>>)[2] = d
  BY <1>4, ConcatProperties
<1>6. published \in {<<>>, <<d>>, <<w>> \o <<d>>}
  BY DEF w, d, Disconnected
<1>7. published \in Seq(EventTypes) /\ \A j \in 1..Len(published) : published[j].id \in {None, id}
  <2>1. CASE published = <<>>
    BY <1>4, <2>1
  <2>2. CASE published = <<d>>
    BY <1>3, <1>4, <2>2
  <2>3. CASE published = <<w>> \o <<d>>
    <3>1. published \in Seq(EventTypes) /\ Len(published) = 2 /\ published[1] = w /\ published[2] = d
      BY <1>5, <2>3
    <3> QED BY <1>3, <3>1
  <2> QED BY <1>6, <2>1, <2>2, <2>3
<1>8. /\ Len(events') = Len(events) + Len(published)
      /\ \A i \in 1..Len(events) + Len(published) :
           events'[i] = IF i <= Len(events) THEN events[i] ELSE published[i - Len(events)]
  BY <1>1, <1>7, ConcatProperties
<1>9. Len(events) \in Nat /\ Len(published) \in Nat
  BY <1>1, <1>7
<1> SUFFICES ASSUME NEW i \in 1..Len(events') PROVE \/ i \in 1..Len(events) /\ events'[i] = events[i]
                                                    \/ events'[i].id \in {None, id}
  OBVIOUS
<1>10. CASE i <= Len(events)
  BY <1>8, <1>9, <1>10
<1>11. CASE i > Len(events)
  <2>1. i - Len(events) \in 1..Len(published)
    BY <1>8, <1>9, <1>11
  <2> QED BY <1>7, <1>8, <1>9, <1>11, <2>1
<1> QED BY <1>9, <1>10, <1>11

\* The events' ids are candidates, or none.
LEMMA EventIds ==
  ASSUME TransportTypeOK
  PROVE  /\ Len(events) \in Nat
         /\ \A i \in 1..Len(events) : events[i] \in EventTypes /\ events[i].id \in Candidates \cup {None}
<1>1. events \in Seq(EventTypes)
  BY EventsTyped
<1>2. \A e \in EventTypes : e.id \in Candidates \cup {None}
  BY DEF EventTypes
<1> QED BY <1>1, <1>2

LEMMA OwnIds == OwnTypeOK => coord.id \in Candidates \cup {None}
BY DEF OwnTypeOK, CoordType

-----------------------------------------------------------------------------
(* The steps of the transport, while the coordinator and the queue stand still. *)

\* A step that ends the search's result, or has none: what the app keeps is
\* spoken of no more.
LEMMA TurningAway ==
  ASSUME TransportIInv, FollowIInv,
         NEW id \in Candidates \cup {None}, id # None => loop[id] = "off",
         NEW published \in {<<>>, Disconnected, <<Event("withdrawn", id)>> \o Disconnected},
         events' = events \o published, phase' \notin {"awaiting", "connected"},
         UNCHANGED <<loop, registration, coordVars, localVars>>,
         \A c \in Candidates : line'[c] = "live" => line[c] = "live",
         \A c \in removals' : line'[c] # "live" /\ loop[c] # "making"
  PROVE  FollowIInv'
<1> USE DEF FollowIInv
<1>1. \A i \in 1..Len(events') : \/ i \in 1..Len(events) /\ events'[i] = events[i]
                                 \/ events'[i].id \in {None, id}
  BY Withdrawing DEF TransportIInv
<1>2. Settled'
  BY <1>1 DEF Settled, coordVars
<1>3. RemovedForGood' /\ OfferIsLast' /\ ConnectedBehind'
  BY DEF RemovedForGood, OfferIsLast, ConnectedBehind
<1>4. AcceptedBehind'
  <2> SUFFICES ASSUME Accepting' PROVE AcceptedBehind'
    BY DEF AcceptedBehind
  <2>1. UNCHANGED <<coord, chat, cstate, work>>
    BY DEF coordVars, localVars
  <2>2. Accepting
    BY <2>1 DEF Accepting
  <2> QED BY <2>1, <2>2 DEF AcceptedBehind, SomeoneServes, Free
<1> QED BY <1>2, <1>3, <1>4

\* A step that publishes nothing, keeps the offer or the connection if there is
\* one, and touches no candidate that has left its loop, but for one (other)
\* that nobody speaks of.
LEMMA StandingStill ==
  ASSUME TransportIInv, OwnTypeOK, FollowIInv, NEW other, UNCHANGED <<events, coordVars, localVars>>,
         UNCHANGED <<phase, candidate>> \/ phase' \notin {"awaiting", "connected"},
         other \in Candidates => /\ other # coord.id /\ other # candidate
                                 /\ \A i \in DOMAIN events : events[i].id # other,
         \A c \in Candidates \ {other} : loop[c] = "off" =>
            /\ loop'[c] = "off"
            /\ line'[c] = "live" => line[c] = "live" /\ registration'[c] = registration[c],
         RemovedForGood'
  PROVE  FollowIInv'
<1> USE DEF FollowIInv
<1>0. /\ UNCHANGED <<coord, chat, cstate, work, connectedID, quit>>
  BY DEF coordVars, localVars
<1>1. TransportTypeOK /\ None \notin Candidates /\ DOMAIN events = 1..Len(events)
  BY CandidateAssumption DEF TransportIInv, TransportTypeOK, EventTypes
<1>2. Settled'
  <2>1. ASSUME NEW i \in 1..Len(events'), events'[i].id # None PROVE loop'[events'[i].id] = "off"
    <3>1. events[i].id \in Candidates \ {other} /\ loop[events[i].id] = "off"
      BY <1>1, <2>1, EventIds DEF Settled
    <3> QED BY <3>1
  <2>2. ASSUME coord'.id # None, coord.id \in Candidates PROVE loop'[coord'.id] = "off"
    BY <1>0, <2>2 DEF Settled
  <2> QED BY <1>0, <2>1, <2>2, OwnIds DEF Settled
<1>3. OfferIsLast'
  BY <1>0 DEF OfferIsLast
<1>4. AcceptedBehind'
  <2>1. coord.id \in Candidates => loop[coord.id] = "off" /\ coord.id \in Candidates \ {other}
    BY <1>1 DEF Settled
  <2> QED BY <1>0, <2>1 DEF AcceptedBehind, Accepting, SomeoneServes, Free
<1>5. ConnectedBehind'
  <2> SUFFICES ASSUME phase' = "connected" PROVE ConnectedBehind'
    BY DEF ConnectedBehind
  <2>1. phase = "connected" /\ candidate' = candidate /\ candidate \in Candidates \ {other}
        /\ loop[candidate] = "off"
    BY DEF TransportIInv, CandidatePhase
  <2> QED BY <1>0, <2>1 DEF ConnectedBehind, SomeoneServes, Free, Admitted
<1> QED BY <1>2, <1>3, <1>4, <1>5

\* Interrupting: the connected candidate is spoken of again.
LEMMA InterruptedFollows ==
  ASSUME TransportIInv, OwnTypeOK, FollowIInv, NEW id \in Candidates, InterruptionRuns(id),
         UNCHANGED <<coordVars, localVars>>
  PROVE  FollowIInv'
<1> USE DEF FollowIInv
<1>1. RemovedForGood'
  BY DEF InterruptionRuns, RemovedForGood, bridgeVars
<1>2. CASE ~(phase = "connected" /\ candidate = id)
  BY <1>1, <1>2, StandingStill, CandidateAssumption DEF InterruptionRuns, bridgeVars
<1>3. CASE phase = "connected" /\ candidate = id
  <2> DEFINE e == Event("interrupted", id)
  <2>0. e \in EventTypes /\ e.id = id /\ e.type = "interrupted"
        /\ e \in [type : {"connected", "interrupted"}, id : {id}]
    BY DEF Event, EventTypes
  <2> HIDE DEF e
  <2>1. /\ events' = Append(events, e)
        /\ UNCHANGED <<phase, candidate, loop, line, registration>>
    BY <1>3 DEF InterruptionRuns, bridgeVars, e
  <2>2. /\ Len(events) \in Nat /\ Len(events') = Len(events) + 1
        /\ \A i \in 1..Len(events) : events'[i] = events[i]
        /\ events'[Len(events) + 1] = e
    BY <2>0, <2>1, EventsTyped, Appended DEF TransportIInv
  <2>3. UNCHANGED <<coord, chat, cstate, work, connectedID, quit>>
    BY DEF coordVars, localVars
  <2>4. \A i \in 1..Len(events') : i \in 1..Len(events) \/ i = Len(events) + 1
    BY <2>2
  <2>5. loop[id] = "off"
    BY <1>3 DEF TransportIInv, CandidatePhase
  <2>6. Settled'
    BY <2>0, <2>1, <2>2, <2>3, <2>4, <2>5 DEF Settled
  <2>7. OfferIsLast' /\ AcceptedBehind'
    BY <1>3, <2>1, <2>3 DEF OfferIsLast, ConnectedBehind, AcceptedBehind, Accepting
  <2>8. ConnectedBehind'
    <3>1. events # <<>> => events' # <<>> /\ Head(events') = Head(events)
      <4> SUFFICES ASSUME events # <<>> PROVE events' # <<>> /\ Head(events') = Head(events)
        OBVIOUS
      <4>1. events \in Seq(EventTypes)
        BY EventsTyped DEF TransportIInv
      <4> QED BY <2>0, <2>1, <4>1
    <3>2. \A i \in 1..Len(events') : events'[i] \in [type : {"connected", "interrupted"}, id : {candidate}]
      BY <1>3, <2>0, <2>2, <2>4 DEF ConnectedBehind
    <3> QED BY <1>3, <2>1, <2>3, <3>1, <3>2 DEF ConnectedBehind, SomeoneServes, Free, Admitted
  <2> QED BY <1>1, <2>6, <2>7, <2>8
<1> QED BY <1>2, <1>3

\* A candidate that has passed its check is offered.
LEMMA OfferedFollows ==
  ASSUME TransportIInv, OwnTypeOK, FollowIInv, NEW id \in Candidates,
         loop[id] \in {"checking", "healthy"}, loop' = [loop EXCEPT ![id] = "off"],
         phase' = "awaiting", candidate' = id, events' = Append(events, Event("awaiting", id)),
         UNCHANGED <<line, removals, registration, coordVars, localVars>>
  PROVE  FollowIInv'
<1> USE DEF FollowIInv
<1> DEFINE e == Event("awaiting", id)
<1>0. e \in EventTypes /\ e.id = id
  BY DEF Event, EventTypes
<1> HIDE DEF e
<1>1. /\ Len(events) \in Nat /\ Len(events') = Len(events) + 1
      /\ \A i \in 1..Len(events) : events'[i] = events[i]
      /\ events'[Len(events) + 1] = e
  BY <1>0, EventsTyped, Appended DEF TransportIInv, e
<1>2. UNCHANGED <<coord, chat, cstate, work, connectedID, quit>>
  BY DEF coordVars, localVars
<1>3. \A i \in 1..Len(events') : i \in 1..Len(events) \/ i = Len(events) + 1
  BY <1>1
<1>4. loop \in [Candidates -> {"off", "making", "made", "checking", "healthy"}] /\ id # None
  BY CandidateAssumption DEF TransportIInv, TransportTypeOK
<1>5. \A c : c # None /\ loop[c] = "off" => c # id
  OBVIOUS
<1>6. \A i \in 1..Len(events) : events[i].id # id
  BY <1>4, <1>5 DEF Settled
<1>7. coord.id # id
  BY <1>4, <1>5 DEF Settled
<1>8. Settled'
  <2>1. loop'[id] = "off" /\ \A c \in Candidates : loop[c] = "off" => loop'[c] = "off"
    BY <1>4
  <2> QED BY <1>0, <1>1, <1>2, <1>3, <2>1, OwnIds, EventIds DEF Settled, TransportIInv
<1>9. OfferIsLast'
  BY <1>1, <1>2, <1>3, <1>6, <1>7 DEF OfferIsLast
<1>10. RemovedForGood' /\ AcceptedBehind' /\ ConnectedBehind'
  BY <1>2, <1>4 DEF RemovedForGood, AcceptedBehind, Accepting, SomeoneServes, Free, ConnectedBehind,
                    TransportIInv, TransportTypeOK
<1> QED BY <1>8, <1>9, <1>10

\* The transport's own steps, one by one.
LEMMA LoopFollows ==
  ASSUME TransportIInv, OwnTypeOK, FollowIInv, NEW id \in Candidates,
         \/ Attempt(id) /\ id # coord.id
         \/ Make(id) \/ MakeFails(id) \/ Made(id) \/ Answers(id)
         \/ \E healthy \in BOOLEAN : Checked(id, healthy),
         UNCHANGED <<coordVars, localVars>>
  PROVE  FollowIInv'
<1>0. loop \in [Candidates -> {"off", "making", "made", "checking", "healthy"}] /\ None \notin Candidates
      /\ line \in [Candidates -> {"none", "live", "dead"}]
      /\ registration \in [Candidates -> {"none", "provisional", "connected"}]
  BY CandidateAssumption DEF TransportIInv, TransportTypeOK
<1>1. CASE Attempt(id) /\ id # coord.id
  <2>1. Unused(id) /\ loop' = [loop EXCEPT ![id] = "making"]
        /\ UNCHANGED <<phase, candidate, events, line, registration, removals>>
    BY <1>1 DEF Attempt, bridgeVars
  <2>2. RemovedForGood'
    BY <1>0, <2>1 DEF Unused, RemovedForGood, FollowIInv, TransportIInv, TransportTypeOK
  <2>3. id # candidate /\ \A i \in DOMAIN events : events[i].id # id
    BY <2>1 DEF Unused
  <2> QED BY <1>0, <1>1, <2>1, <2>2, <2>3, StandingStill
<1>2. CASE Make(id)
  <2>1. loop[id] = "making" /\ UNCHANGED <<phase, candidate, events, removals>>
        /\ \/ loop' = [loop EXCEPT ![id] = "made"] \/ loop' = [loop EXCEPT ![id] = "off"]
        /\ \A c \in Candidates \ {id} : line'[c] = line[c] /\ registration'[c] = registration[c]
    BY <1>0, <1>2 DEF Make
  <2>2. RemovedForGood'
    BY <1>0, <2>1 DEF RemovedForGood, FollowIInv, TransportIInv, TransportTypeOK
  <2> QED BY <1>0, <2>1, <2>2, StandingStill
<1>3. CASE MakeFails(id)
  <2>1. loop[id] = "making" /\ loop' = [loop EXCEPT ![id] = "off"]
        /\ UNCHANGED <<phase, candidate, events, line, removals, registration>>
    BY <1>3 DEF MakeFails, bridgeVars
  <2>2. RemovedForGood'
    BY <1>0, <2>1 DEF RemovedForGood, FollowIInv, TransportIInv, TransportTypeOK
  <2> QED BY <1>0, <2>1, <2>2, StandingStill
<1>4. CASE Made(id)
  <2>1. loop[id] = "made" /\ UNCHANGED <<phase, events, registration>>
        /\ (phase = "retrying" \/ UNCHANGED candidate)
        /\ \/ loop' = [loop EXCEPT ![id] = "checking"] \/ loop' = [loop EXCEPT ![id] = "off"]
        /\ \/ UNCHANGED <<line, removals>> \/ Invalidate({id})
    BY <1>4 DEF Made, Keep, Fresh
  <2>2. RemovedForGood'
    BY <1>0, <2>1 DEF Invalidate, RemovedForGood, FollowIInv, TransportIInv, TransportTypeOK
  <2>3. \A c \in Candidates : line'[c] = "live" => line[c] = "live"
    BY <2>1 DEF Invalidate
  <2> QED BY <1>0, <2>1, <2>2, <2>3, StandingStill
<1>5. CASE Answers(id)
  <2>1. loop[id] = "checking" /\ loop' = [loop EXCEPT ![id] = "healthy"]
        /\ UNCHANGED <<phase, candidate, events, line, removals, registration>>
    BY <1>5 DEF Answers, bridgeVars
  <2>2. RemovedForGood'
    BY <1>0, <2>1 DEF RemovedForGood, FollowIInv, TransportIInv, TransportTypeOK
  <2> QED BY <1>0, <2>1, <2>2, StandingStill
<1>6. ASSUME NEW healthy \in BOOLEAN, Checked(id, healthy) PROVE FollowIInv'
  <2>1. /\ loop[id] \in {"checking", "healthy"} /\ loop' = [loop EXCEPT ![id] = "off"]
        /\ UNCHANGED registration
    BY <1>6 DEF Checked
  <2>2. CASE Fresh(id) /\ candidate = id /\ healthy
    BY <1>6, <2>1, <2>2, OfferedFollows DEF Checked, Keep
  <2>3. CASE ~(Fresh(id) /\ candidate = id /\ healthy)
    <3>1. Invalidate({id}) /\ UNCHANGED <<phase, events>>
          /\ candidate' = IF candidate = id THEN None ELSE candidate
      BY <1>6, <2>3 DEF Checked
    <3>2. candidate' = candidate \/ phase' \notin {"awaiting", "connected"}
      BY <2>1, <3>1 DEF TransportIInv, CandidatePhase
    <3>3. RemovedForGood'
      BY <1>0, <2>1, <3>1 DEF Invalidate, RemovedForGood, FollowIInv, TransportIInv, TransportTypeOK
    <3>4. \A c \in Candidates : line'[c] = "live" => line[c] = "live"
      BY <3>1 DEF Invalidate
    <3> QED BY <1>0, <2>1, <3>1, <3>2, <3>3, <3>4, StandingStill
  <2> QED BY <2>2, <2>3
<1> QED BY <1>1, <1>2, <1>3, <1>4, <1>5, <1>6

\* The current candidate has left its loop, or is the one being checked.
LEMMA CurrentDropped ==
  ASSUME TransportIInv, RemovedForGood, Invalidate(Current), UNCHANGED loop
  PROVE  /\ \A c \in removals' : line'[c] # "live" /\ loop[c] # "making"
         /\ \A c \in Candidates : line'[c] = "live" => line[c] = "live"
BY DEF Invalidate, Current, RemovedForGood, TransportIInv, TransportTypeOK, MakingUnheard

LEMMA EndingFollows ==
  ASSUME TransportIInv, OwnTypeOK, FollowIInv,
         \/ StartAdmission \/ AcceptanceExpires \/ ManualReconnect \/ ProbeFails \/ TransportStop
         \/ \E id \in Candidates : NoticeRuns(id),
         UNCHANGED <<coordVars, localVars>>
  PROVE  FollowIInv'
<1>0. events \in Seq(EventTypes) /\ events \o <<>> = events
  <2>1. events \in Seq(EventTypes)
    BY EventsTyped DEF TransportIInv
  <2> QED BY <2>1, ConcatEmptySeq
<1>1. CASE StartAdmission
  <2>1. phase' = "retrying" /\ events' = events \o <<>> /\ UNCHANGED <<loop, line, removals, registration>>
    BY <1>1 DEF StartAdmission, BeginRetrying, bridgeVars
  <2>2. \A c \in removals' : line'[c] # "live" /\ loop[c] # "making"
    BY <2>1 DEF FollowIInv, RemovedForGood
  <2> QED BY <2>1, <2>2, TurningAway
<1>2. CASE AcceptanceExpires
  <2>1. /\ phase' = "retrying" /\ events' = events \o (<<Event("withdrawn", candidate)>> \o Disconnected)
        /\ Invalidate(Current) /\ UNCHANGED <<loop, registration>>
        /\ candidate \in Candidates /\ loop[candidate] = "off"
    BY <1>2 DEF AcceptanceExpires, BeginRetrying, TransportIInv, CandidatePhase
  <2> QED BY <2>1, CurrentDropped, TurningAway DEF FollowIInv
<1>3. CASE ManualReconnect \/ ProbeFails
  <2>1. /\ phase' = "retrying" /\ (events' = events \o Disconnected \/ events' = events \o <<>>)
        /\ Invalidate(Current) /\ UNCHANGED <<loop, registration>>
    BY <1>3 DEF ManualReconnect, ProbeFails, BeginRetrying
  <2> QED BY <2>1, CurrentDropped, TurningAway DEF FollowIInv
<1>4. CASE TransportStop
  <2>1. /\ phase' = "stopped" /\ events' = events \o <<>>
        /\ Invalidate(Current) /\ UNCHANGED <<loop, registration>>
    BY <1>0, <1>4 DEF TransportStop
  <2> QED BY <2>1, CurrentDropped, TurningAway DEF FollowIInv
<1>5. ASSUME NEW id \in Candidates, NoticeRuns(id) PROVE FollowIInv'
  <2>1. UNCHANGED <<loop, line, registration, removals>>
    BY <1>5 DEF NoticeRuns, bridgeVars
  <2>2. RemovedForGood' /\ \A c \in removals' : line'[c] # "live" /\ loop[c] # "making"
    BY <2>1 DEF FollowIInv, RemovedForGood
  <2>3. CASE BeginRetrying(Disconnected)
    BY <2>1, <2>2, <2>3, TurningAway DEF BeginRetrying
  <2>4. CASE UNCHANGED <<phase, candidate, admission, events>>
    BY <2>1, <2>2, <2>4, StandingStill, CandidateAssumption
  <2> QED BY <1>5, <2>3, <2>4 DEF NoticeRuns
<1> QED BY <1>1, <1>2, <1>3, <1>4, <1>5

LEMMA LinesFollow ==
  ASSUME TransportIInv, OwnTypeOK, FollowIInv,
         \/ SleepEnds \/ BridgeStop
         \/ \E id \in Candidates : LineDies(id) \/ RemovalRuns(id)
         \/ LinesInterrupted /\ UNCHANGED <<runtimeVars, line, notices, bridgeVars>>
         \/ UNCHANGED transportVars,
         UNCHANGED <<coordVars, localVars>>
  PROVE  FollowIInv'
<1>0. None \notin Candidates
      /\ line \in [Candidates -> {"none", "live", "dead"}]
      /\ registration \in [Candidates -> {"none", "provisional", "connected"}]
      /\ removals \subseteq Candidates
  BY CandidateAssumption DEF TransportIInv, TransportTypeOK
<1>1. CASE \/ SleepEnds \/ UNCHANGED transportVars
           \/ LinesInterrupted /\ UNCHANGED <<runtimeVars, line, notices, bridgeVars>>
  <2>1. UNCHANGED <<phase, candidate, events, loop, line, registration, removals>>
    BY <1>1 DEF SleepEnds, transportVars, runtimeVars, bridgeVars
  <2>2. RemovedForGood'
    BY <2>1 DEF FollowIInv, RemovedForGood
  <2> QED BY <1>0, <2>1, <2>2, StandingStill
<1>2. CASE BridgeStop
  <2>1. UNCHANGED <<phase, candidate, events, loop, removals>>
        /\ \A c \in Candidates : line'[c] = "live" =>
             line[c] = "live" /\ registration'[c] = registration[c]
    BY <1>0, <1>2 DEF BridgeStop, Forget, runtimeVars
  <2>2. RemovedForGood'
    BY <1>0, <2>1 DEF FollowIInv, RemovedForGood
  <2> QED BY <1>0, <2>1, <2>2, StandingStill
<1>3. ASSUME NEW id \in Candidates, LineDies(id) \/ RemovalRuns(id) PROVE FollowIInv'
  <2>1. UNCHANGED <<phase, candidate, events, loop>> /\ removals' \subseteq removals
    BY <1>3 DEF LineDies, RemovalRuns, runtimeVars, bridgeVars
  <2>2. \A c \in Candidates : line'[c] = "live" =>
             line[c] = "live" /\ registration'[c] = registration[c]
    BY <1>0, <1>3 DEF LineDies, RemovalRuns, Forget, bridgeVars, FollowIInv, RemovedForGood
  <2>3. RemovedForGood'
    BY <1>0, <2>1, <2>2 DEF FollowIInv, RemovedForGood
  <2> QED BY <1>0, <2>1, <2>2, <2>3, StandingStill
<1> QED BY <1>1, <1>2, <1>3

-----------------------------------------------------------------------------
(* The coordinator's steps. *)

\* What the handler is after a step: where it is, whose candidate it has.
LEMMA HandlerAnswers ==
  ASSUME coord \in CoordType
  PROVE  /\ Refuse => ~Accepting' /\ coord'.id \in {coord.id, None}
         /\ Rest => ~Accepting' /\ coord'.id = None
         /\ \A step : /\ [coord EXCEPT !.at = step].at = step /\ [coord EXCEPT !.at = step].id = coord.id
                      /\ [coord EXCEPT !.at = step, !.same = TRUE].at = step
                      /\ [coord EXCEPT !.at = step, !.same = TRUE].id = coord.id
         /\ \A result : /\ [coord EXCEPT !.at = "acking", !.outcome = result].at = "acking"
                        /\ [coord EXCEPT !.at = "acking", !.outcome = result].outcome = result
                        /\ [coord EXCEPT !.at = "acking", !.outcome = result].id = coord.id
<1>1. AtRest.at = "idle" /\ AtRest.id = None
  BY DEF AtRest
<1>2. \A step : /\ [coord EXCEPT !.at = step].at = step /\ [coord EXCEPT !.at = step].id = coord.id
                /\ [coord EXCEPT !.at = step, !.same = TRUE].at = step
                /\ [coord EXCEPT !.at = step, !.same = TRUE].id = coord.id
  BY DEF CoordType
<1>3. \A result : /\ [coord EXCEPT !.at = "acking", !.outcome = result].at = "acking"
                  /\ [coord EXCEPT !.at = "acking", !.outcome = result].outcome = result
                  /\ [coord EXCEPT !.at = "acking", !.outcome = result].id = coord.id
  BY DEF CoordType
<1>4. Rest => ~Accepting' /\ coord'.id = None
  BY <1>1 DEF Rest, Accepting
<1>5. ASSUME coord' = [coord EXCEPT !.at = "acking", !.outcome = "retry"]
      PROVE  ~Accepting' /\ coord'.id = coord.id
  BY <1>3, <1>5 DEF Accepting
<1>6. Refuse => ~Accepting' /\ coord'.id \in {coord.id, None}
  BY <1>4, <1>5 DEF Refuse
<1> QED BY <1>2, <1>3, <1>4, <1>6

\* A step of a busy handler: it keeps its candidate or lets go of it, and the
\* transport is as it was, but that connections may have ended.
LEMMA BusyFollows ==
  ASSUME TransportIInv, OwnTypeOK, FollowIInv, coord.at # "idle",
         coord'.id \in {coord.id, None},
         UNCHANGED <<phase, candidate, loop, events, removals>>,
         \A c \in Candidates : line'[c] = "live" => line[c] = "live",
         AcceptedBehind'
  PROVE  FollowIInv'
<1> USE DEF FollowIInv
<1>1. phase # "connected"
  BY DEF ConnectedBehind
<1>2. Settled' /\ ConnectedBehind'
  BY <1>1 DEF Settled, ConnectedBehind
<1>3. RemovedForGood'
  BY DEF RemovedForGood, TransportIInv, TransportTypeOK
<1>4. OfferIsLast'
  BY CandidateAssumption DEF OfferIsLast, TransportIInv, CandidatePhase
<1> QED BY <1>2, <1>3, <1>4

\* The handler asks, answers and is answered.
LEMMA ConversationFollows ==
  ASSUME TransportIInv, OwnTypeOK, FollowIInv,
         \/ Unresolved \/ Resolve \/ Ask \/ Request \/ RelinquishAnswered \/ CallLost
         \/ TransitionEnds \/ Mark
  PROVE  FollowIInv'
<1>0. coord.at # "idle" /\ coord \in CoordType
  BY DEF Unresolved, Resolve, Ask, Request, RelinquishAnswered, CallLost, TransitionEnds, Mark, OwnTypeOK
<1>1. ASSUME ~Accepting', coord'.id \in {coord.id, None},
             UNCHANGED <<phase, candidate, loop, events, removals, line>>
      PROVE  FollowIInv'
  BY <1>0, <1>1, BusyFollows DEF AcceptedBehind
<1>2. CASE ~TransitionEnds /\ ~Mark
  <2>1. UNCHANGED <<phase, candidate, loop, events, removals, line>>
    BY <1>2 DEF Unresolved, Resolve, Ask, Request, RelinquishAnswered, CallLost, Refuse,
                transportVars, runtimeVars, bridgeVars
  <2>2. \/ Refuse \/ Rest \/ coord' = [coord EXCEPT !.at = "acking", !.outcome = "retry"]
        \/ \E step \in {"asking", "requesting", "relinquishing"} : coord' = [coord EXCEPT !.at = step]
        \/ \E step \in {"activating", "fallingBack"} : coord' = [coord EXCEPT !.at = step, !.same = TRUE]
    BY <1>2 DEF Unresolved, Resolve, Ask, Request, RelinquishAnswered, CallLost, At
  <2>3. ~Accepting' /\ coord'.id \in {coord.id, None}
    <3>1. CASE Refuse \/ Rest
      BY <1>0, <3>1, HandlerAnswers
    <3>2. CASE coord' = [coord EXCEPT !.at = "acking", !.outcome = "retry"]
      BY <1>0, <3>2, HandlerAnswers DEF Accepting
    <3>3. ASSUME NEW step \in {"asking", "requesting", "relinquishing"},
                 coord' = [coord EXCEPT !.at = step]
          PROVE  ~Accepting' /\ coord'.id \in {coord.id, None}
      BY <1>0, <3>3, HandlerAnswers DEF Accepting
    <3>4. ASSUME NEW step \in {"activating", "fallingBack"},
                 coord' = [coord EXCEPT !.at = step, !.same = TRUE]
          PROVE  ~Accepting' /\ coord'.id \in {coord.id, None}
      BY <1>0, <3>4, HandlerAnswers DEF Accepting
    <3> QED BY <2>2, <3>1, <3>2, <3>3, <3>4
  <2> QED BY <1>1, <2>1, <2>3
<1>3. CASE TransitionEnds
  <2> DEFINE accepted == cstate = IF coord.at = "activating" THEN "daemonActive" ELSE "localReady"
             hears == IF coord.at = "activating" THEN coord.same ELSE line[coord.id] = "live"
  <2>1. IF accepted /\ Admitted
          THEN /\ At("marking") /\ chat' = [on |-> coord.id, hears |-> hears]
               /\ UNCHANGED transportVars
          ELSE Refuse
    BY <1>3, Zenon DEF TransitionEnds
  <2>2. Free /\ UNCHANGED localVars
    BY <1>3 DEF TransitionEnds
  <2>3. CASE accepted /\ Admitted
    <3>1. coord' = [coord EXCEPT !.at = "marking"] /\ chat'.on = coord.id
      BY <2>1, <2>3 DEF At
    <3>2. UNCHANGED <<phase, candidate, loop, events, removals, line>>
      BY <2>1, <2>3 DEF transportVars, runtimeVars, bridgeVars
    <3>3. coord'.at = "marking" /\ coord'.id = coord.id
      BY <1>0, <3>1, HandlerAnswers
    <3>4. SomeoneServes'
      BY <2>2, <2>3 DEF SomeoneServes, Free, localVars
    <3>5. AcceptedBehind'
      BY <3>1, <3>3, <3>4 DEF AcceptedBehind
    <3> QED BY <1>0, <3>2, <3>3, <3>5, BusyFollows
  <2>4. CASE ~(accepted /\ Admitted)
    <3>1. Refuse
      BY <2>1, <2>4
    <3>2. UNCHANGED <<phase, candidate, loop, events, removals, line>>
      BY <3>1 DEF Refuse, runtimeVars
    <3> QED BY <1>0, <1>1, <3>1, <3>2, HandlerAnswers
  <2> QED BY <2>3, <2>4
<1>4. CASE Mark
  <2>1. coord.at = "marking" /\ UNCHANGED <<phase, candidate, loop, events, removals, localVars>>
    BY <1>4 DEF Mark, runtimeVars
  <2>2. CASE ~bridgeStopped /\ registration[coord.id] = "provisional"
    <3>1. /\ MarkConnected(coord.id) /\ UNCHANGED chat
          /\ coord' = [coord EXCEPT !.at = "acking", !.outcome = "connected"]
      BY <1>4, <2>2 DEF Mark
    <3>2. coord'.at = "acking" /\ coord'.id = coord.id
      BY <1>0, <3>1, HandlerAnswers
    <3>3. \A c \in Candidates : line'[c] = "live" => line[c] = "live"
      BY <3>1 DEF MarkConnected
    <3>4. coord.id \in Candidates => registration'[coord.id] = "connected"
      BY <3>1 DEF MarkConnected
    <3>5. AcceptedBehind'
      BY <2>1, <3>1, <3>2, <3>4 DEF FollowIInv, AcceptedBehind, Accepting, SomeoneServes, Free, localVars
    <3> QED BY <1>0, <2>1, <3>2, <3>3, <3>5, BusyFollows
  <2>3. CASE ~(~bridgeStopped /\ registration[coord.id] = "provisional")
    <3>1. coord' = [coord EXCEPT !.at = "acking", !.outcome = "retry"] /\ UNCHANGED line
      BY <1>4, <2>3 DEF Mark
    <3>2. ~Accepting' /\ coord'.id = coord.id
      BY <1>0, <3>1, HandlerAnswers DEF Accepting
    <3> QED BY <1>1, <2>1, <3>1, <3>2
  <2> QED BY <2>2, <2>3
<1> QED BY <1>2, <1>3, <1>4

\* The handler's answer: the connection is the app's, or the search goes on.
LEMMA AnswerFollows ==
  ASSUME TransportIInv, OwnTypeOK, FollowIInv, Ack
  PROVE  FollowIInv'
<1> USE DEF FollowIInv
<1>1. /\ coord.at = "acking" /\ Acknowledged(coord.id, coord.outcome) /\ coord' = AtRest
      /\ UNCHANGED <<loop, registration, localVars, connectedID, chat, quit>>
  BY DEF Ack, Rest
<1>2. coord'.at = "idle" /\ coord'.id = None
  BY <1>1 DEF AtRest
<1>3. AcceptedBehind' /\ phase # "connected"
  BY <1>1, <1>2 DEF AcceptedBehind, Accepting, ConnectedBehind
<1>4. CASE phase # "awaiting" \/ candidate # coord.id
  <2>1. UNCHANGED <<phase, candidate, events, line, removals>>
    BY <1>1, <1>4 DEF Acknowledged, Keep
  <2> QED BY <1>1, <1>2, <1>3, <2>1, BusyFollows
<1>5. CASE phase = "awaiting" /\ candidate = coord.id
  <2>1. candidate \in Candidates /\ loop[candidate] = "off" /\ events = <<>> /\ None \notin Candidates
    BY <1>5, CandidateAssumption DEF TransportIInv, CandidatePhase, OfferIsLast
  <2>2. CASE coord.outcome = "connected"
    <3> DEFINE e == Event("connected", candidate)
    <3>0. e.id = candidate /\ e.type = "connected" /\ e \in [type : {"connected", "interrupted"}, id : {candidate}]
      BY DEF Event
    <3> HIDE DEF e
    <3>1. phase' = "connected" /\ events' = <<e>> /\ UNCHANGED <<candidate, line, removals>>
      BY <1>1, <1>5, <2>1, <2>2 DEF Acknowledged, Keep, e
    <3>2. Len(events') = 1 /\ events'[1] = e /\ events' # <<>> /\ Head(events') = e
      BY <3>1
    <3>3. Settled' /\ RemovedForGood' /\ OfferIsLast'
      BY <1>1, <1>2, <2>1, <3>0, <3>1, <3>2 DEF Settled, RemovedForGood, OfferIsLast
    <3>4. ConnectedBehind'
      <4>1. Accepting
        BY <1>1, <2>2 DEF Accepting
      <4>2. chat'.on = candidate' /\ SomeoneServes' /\ (line'[candidate'] = "live" => registration'[candidate'] = "connected")
        BY <1>1, <1>5, <2>1, <3>1, <4>1 DEF AcceptedBehind, SomeoneServes, Free, localVars
      <4> QED BY <1>2, <3>0, <3>1, <3>2, <4>2 DEF ConnectedBehind
    <3> QED BY <1>3, <3>3, <3>4
  <2>3. CASE coord.outcome # "connected"
    <3>1. /\ phase' = "retrying" /\ Invalidate(Current) /\ UNCHANGED loop
          /\ events' = events \o (<<Event("withdrawn", candidate)>> \o Disconnected)
      BY <1>1, <1>5, <2>1, <2>3 DEF Acknowledged, BeginRetrying, Current
    <3>2. \A i \in 1..Len(events') : \/ i \in 1..Len(events) /\ events'[i] = events[i]
                                     \/ events'[i].id \in {None, candidate}
      BY <2>1, <3>1, Withdrawing DEF TransportIInv
    <3>3. Settled'
      BY <1>2, <2>1, <3>1, <3>2 DEF Settled
    <3>4. RemovedForGood' /\ OfferIsLast' /\ ConnectedBehind'
      BY <3>1, CurrentDropped DEF RemovedForGood, OfferIsLast, ConnectedBehind
    <3> QED BY <1>3, <3>3, <3>4
  <2> QED BY <2>2, <2>3
<1> QED BY <1>4, <1>5

\* The handler takes an event.
LEMMA TakingFollows ==
  ASSUME TransportIInv, OwnTypeOK, FollowIInv, TakeEvent
  PROVE  FollowIInv'
<1> USE DEF FollowIInv
<1> DEFINE e == Head(events)
<1>1. /\ Admitted /\ coord.at = "idle" /\ events # <<>> /\ events' = Tail(events)
      /\ UNCHANGED <<phase, candidate, loop, line, removals, quit>>
  BY DEF TakeEvent, OnlyTakes
<1>2. events \in Seq(EventTypes)
  BY EventsTyped DEF TransportIInv
<1>3. /\ Len(events) \in Nat /\ Len(events') = Len(events) - 1 /\ Len(events) > 0
      /\ \A i \in 1..Len(events') : events'[i] = events[i + 1] /\ i + 1 \in 1..Len(events)
      /\ e = events[1] /\ e \in EventTypes /\ e.id \in Candidates \cup {None} /\ 1 \in 1..Len(events)
  <2>1. Len(events) \in Nat /\ Len(events) > 0 /\ e = events[1] /\ 1 \in 1..Len(events)
    BY <1>1, <1>2
  <2>2. Len(events') = Len(events) - 1 /\ \A i \in 1..Len(events') : events'[i] = events[i + 1]
    BY <1>1, <1>2, HeadTailProperties
  <2>3. e \in EventTypes /\ e.id \in Candidates \cup {None}
    BY <2>1, EventIds DEF TransportIInv
  <2> QED BY <2>1, <2>2, <2>3
<1> HIDE DEF e
<1>4. \/ e.type = "awaiting" /\ HandleAwaiting(e.id)
      \/ e.type = "connected" /\ HandleConnected(e.id)
      \/ e.type = "withdrawn" /\ HandleWithdrawn(e.id)
      \/ e.type = "disconnected" /\ HandleDisconnected
      \/ e.type = "interrupted" /\ HandleInterrupted(e.id)
  BY DEF TakeEvent, e
<1>5. ~Accepting' /\ coord'.id \in {coord.id, None, e.id}
  <2>1. \A id : HandleAwaiting(id) => coord'.at = "resolving" /\ coord'.id = id
    BY DEF HandleAwaiting, AtRest
  <2>2. HandleDisconnected => coord' = coord \/ (coord'.at = "unresolving" /\ coord'.id = None)
    BY DEF HandleDisconnected, AtRest
  <2>3. \A id : HandleConnected(id) \/ HandleWithdrawn(id) \/ HandleInterrupted(id) => coord' = coord
    BY DEF HandleConnected, HandleWithdrawn, HandleInterrupted
  <2> QED BY <1>1, <1>4, <2>1, <2>2, <2>3 DEF Accepting
<1>6. Settled'
  BY <1>1, <1>3, <1>5 DEF Settled
<1>7. RemovedForGood' /\ AcceptedBehind'
  BY <1>1, <1>5 DEF RemovedForGood, AcceptedBehind
<1>8. OfferIsLast'
  <2> SUFFICES ASSUME phase = "awaiting" PROVE OfferIsLast'
    BY <1>1 DEF OfferIsLast
  <2>1. candidate \in Candidates /\ candidate # None
    BY CandidateAssumption DEF TransportIInv, CandidatePhase
  <2>2. ASSUME NEW i \in 1..Len(events'), events'[i].id = candidate PROVE i = Len(events')
    <3>1. i + 1 \in 1..Len(events) /\ events[i + 1].id = candidate
      BY <1>3, <2>2
    <3>2. i + 1 = Len(events)
      BY <3>1 DEF OfferIsLast
    <3> QED BY <1>3, <3>2
  <2>3. coord'.id = candidate => events' = <<>>
    <3> SUFFICES ASSUME coord'.id = candidate PROVE events' = <<>>
      OBVIOUS
    <3>1. CASE coord.id = candidate
      BY <1>1, <3>1 DEF OfferIsLast
    <3>2. CASE e.id = candidate
      <4>1. Len(events) = 1
        BY <1>3, <3>2 DEF OfferIsLast
      <4>2. Len(events') = 0 /\ events' \in Seq(EventTypes)
        BY <1>1, <1>2, <1>3, <4>1, HeadTailProperties
      <4> QED BY <4>2
    <3> QED BY <1>5, <2>1, <3>1, <3>2
  <2> QED BY <1>1, <2>2, <2>3 DEF OfferIsLast
<1>9. ConnectedBehind'
  <2> SUFFICES ASSUME phase = "connected" PROVE ConnectedBehind'
    BY <1>1 DEF ConnectedBehind
  <2>1. e \in [type : {"connected", "interrupted"}, id : {candidate}]
    BY <1>3 DEF ConnectedBehind
  <2>2. e.id = candidate /\ e.type \in {"connected", "interrupted"}
    BY <2>1
  <2>3. \/ e.type = "connected" /\ HandleConnected(candidate)
        \/ e.type = "interrupted" /\ HandleInterrupted(candidate)
    BY <1>4, <2>2
  <2>4. UNCHANGED <<registration, coord, localVars>> /\ chat'.on = candidate /\ connectedID' = candidate
    <3>1. chat.on = candidate /\ (connectedID = candidate \/ e.type = "connected")
      BY <1>1 DEF ConnectedBehind, e
    <3>2. CASE e.type = "connected" /\ HandleConnected(candidate)
      BY <3>1, <3>2 DEF HandleConnected
    <3>3. CASE e.type = "interrupted" /\ HandleInterrupted(candidate)
      BY <3>1, <3>3 DEF HandleInterrupted
    <3> QED BY <2>3, <3>2, <3>3
  <2>5. \A i \in 1..Len(events') : events'[i] \in [type : {"connected", "interrupted"}, id : {candidate}]
    BY <1>3 DEF ConnectedBehind
  <2> QED BY <1>1, <2>4, <2>5 DEF ConnectedBehind, SomeoneServes, Free, localVars, Admitted
<1> QED BY <1>6, <1>7, <1>8, <1>9

-----------------------------------------------------------------------------
(* Everyone else's steps, and the whole. *)

\* Who runs the queue goes on running it until the coordinator or the quit
\* begins a transition.
LEMMA ServiceGoesOn ==
  ASSUME LocalIInv, SomeoneServes, LocalSteps \/ LocalFaults \/ LocalCalls
  PROVE  SomeoneServes'
<1>1. work.step = "none" /\ boot = "none"
  BY DEF SomeoneServes, Free, NoWork, LocalIInv, LocalTypeOK, BootPhase
<1>2. CASE LocalCalls
  BY <1>2 DEF LocalCalls, CallBegins, CallEnds, SomeoneServes, Free
<1>3. CASE Start
  BY <1>3 DEF Start, SomeoneServes, Free
<1>4. ~((LocalSteps /\ ~Start) \/ LocalFaults)
  BY <1>1 DEF LocalSteps, LocalFaults, BootAssembles, BootResumes, BootFails, BootSwapped,
     BootRetires, StartupJoined, Retired, LocalDisposed, DaemonInstalled, FallBackAssembled,
     FallBackFails, FallenBack, Parted
<1> QED BY <1>2, <1>3, <1>4

\* Steps of the queue runtimes, of the quit and of the daemon's process.
LEMMA ElsewhereFollows ==
  ASSUME TransportIInv, OwnTypeOK, FollowIInv, RestsWhenQuit, LocalIInv,
         UNCHANGED <<phase, candidate, loop, line, registration, events, removals>>,
         coord'.at = coord.at, coord'.id = coord.id, coord'.outcome = coord.outcome,
         \/ /\ UNCHANGED <<connectedID, quit>> /\ chat'.on = chat.on
            /\ SomeoneServes => SomeoneServes'
         \/ ~Admitted' /\ (coord.at = "idle" \/ UNCHANGED <<chat, cstate, work>>)
  PROVE  FollowIInv'
<1> USE DEF FollowIInv
<1>1. Settled' /\ RemovedForGood' /\ OfferIsLast'
  BY DEF Settled, RemovedForGood, OfferIsLast
<1>2. AcceptedBehind' /\ ConnectedBehind'
  BY DEF AcceptedBehind, Accepting, ConnectedBehind, SomeoneServes, Free, Admitted
<1> QED BY <1>1, <1>2

\* The quit stops the transport and the bridge.
LEMMA StoppingFollows ==
  ASSUME TransportIInv, OwnTypeOK, FollowIInv, QuitPhase, QuitStops \/ QuitUnbridges,
         coord.at = "idle", UNCHANGED <<coord, connectedID, chat, localVars>>
  PROVE  FollowIInv'
<1> USE DEF FollowIInv
<1>1. phase' = "stopped" /\ UNCHANGED <<loop, events>>
  BY DEF QuitStops, TransportStop, QuitUnbridges, BridgeStop, runtimeVars, QuitPhase
<1>2. Settled' /\ OfferIsLast' /\ ConnectedBehind' /\ AcceptedBehind'
  BY <1>1 DEF Settled, OfferIsLast, ConnectedBehind, AcceptedBehind, Accepting
<1>3. RemovedForGood'
  <2>1. CASE QuitStops
    BY <1>1, <2>1, CurrentDropped DEF QuitStops, TransportStop, RemovedForGood
  <2>2. CASE QuitUnbridges
    BY <1>1, <2>2 DEF QuitUnbridges, BridgeStop, RemovedForGood, TransportIInv, TransportTypeOK
  <2> QED BY <2>1, <2>2
<1> QED BY <1>2, <1>3

LEMMA FollowInitial == Init => FollowIInv
<1> SUFFICES ASSUME Init PROVE FollowIInv
  OBVIOUS
<1>1. events = <<>> /\ phase = "idle" /\ coord = AtRest /\ removals = {}
  BY DEF Init, TransportInit
<1>2. coord.id = None /\ coord.at = "idle"
  BY <1>1 DEF AtRest
<1>3. Len(events) = 0
  BY <1>1
<1> QED BY <1>1, <1>2, <1>3 DEF FollowIInv, Settled, RemovedForGood, OfferIsLast, AcceptedBehind, Accepting,
                                ConnectedBehind

LEMMA FollowStep ==
  FollowIInv /\ RestsWhenQuit /\ SystemIInv /\ LocalIInv /\ [Next]_vars => FollowIInv'
<1> SUFFICES ASSUME FollowIInv, RestsWhenQuit, SystemIInv, LocalIInv, [Next]_vars PROVE FollowIInv'
  OBVIOUS
<1>0. TransportIInv /\ OwnTypeOK
  BY DEF SystemIInv
<1>1. CASE Coordinate \/ CallLost
  BY <1>0, <1>1, ConversationFollows, AnswerFollows, TakingFollows DEF Coordinate
<1>2. ASSUME UNCHANGED <<coordVars, localVars>>,
             \/ StartUp \/ \E id \in Candidates : NextAttempt(id)
             \/ TransportMoves \/ FindsDead \/ TransportTrouble \/ HostMoves \/ HostTrouble
             \/ UNCHANGED vars
      PROVE  FollowIInv'
  <2>1. CASE HostMoves \/ HostTrouble \/ UNCHANGED vars
    BY <1>0, <1>2, <2>1, LinesFollow DEF HostMoves, HostTrouble, vars
  <2>2. CASE StartUp
    BY <1>0, <1>2, <2>2, EndingFollows DEF StartUp
  <2>3. ASSUME NEW id \in Candidates, NextAttempt(id) PROVE FollowIInv'
    BY <1>0, <1>2, <2>3, LoopFollows DEF NextAttempt
  <2>4. CASE TransportMoves
    BY <1>0, <1>2, <2>4, LoopFollows, EndingFollows, LinesFollow, InterruptedFollows
       DEF TransportMoves, TransportSteps
  <2>5. CASE FindsDead
    BY <1>0, <1>2, <2>5, LoopFollows, EndingFollows DEF FindsDead
  <2>6. CASE TransportTrouble
    BY <1>0, <1>2, <2>6, LoopFollows, EndingFollows, LinesFollow DEF TransportTrouble
  <2> QED BY <1>2, <2>1, <2>2, <2>3, <2>4, <2>5, <2>6
<1>3. CASE LocalMoves \/ LocalTrouble \/ Calls
  <2>1. LocalSteps \/ LocalFaults \/ LocalCalls
    BY <1>3 DEF LocalMoves, LocalTrouble, Calls
  <2>2. UNCHANGED <<transportVars, coordVars>>
    BY <1>3 DEF LocalMoves, LocalTrouble, Calls
  <2>3. SomeoneServes => SomeoneServes'
    BY <2>1, ServiceGoesOn
  <2> QED BY <1>0, <2>2, <2>3, ElsewhereFollows DEF transportVars, runtimeVars, bridgeVars, coordVars
<1>4. CASE Crash
  <2>1. /\ UNCHANGED <<phase, candidate, loop, line, registration, events, removals>>
        /\ UNCHANGED <<connectedID, quit, localVars>>
    BY <1>4 DEF Crash, runtimeVars, bridgeVars
  <2>2. chat'.on = chat.on /\ (SomeoneServes => SomeoneServes')
    BY <1>0, <1>4, <2>1 DEF Crash, OwnTypeOK, ChatType, SomeoneServes, Free, localVars
  <2>3. coord'.id = coord.id /\ coord'.outcome = coord.outcome
        /\ coord'.at = IF coord.at = "relinquishing" THEN "lost" ELSE coord.at
    BY <1>0, <1>4 DEF Crash, OwnTypeOK, CoordType
  <2>4. CASE coord.at # "relinquishing"
    BY <1>0, <2>1, <2>2, <2>3, <2>4, ElsewhereFollows
  <2>5. CASE coord.at = "relinquishing"
    <3>1. AcceptedBehind'
      BY <2>3, <2>5 DEF AcceptedBehind, Accepting
    <3> QED BY <1>0, <2>1, <2>3, <2>5, <3>1, BusyFollows
  <2> QED BY <2>4, <2>5
<1>5. CASE Quit \/ Quitting
  <2>1. CASE Quit
    <3>1. ~Admitted' /\ UNCHANGED <<transportVars, coord, chat, cstate, work>>
      BY <2>1 DEF Quit, CancelTask, Admitted
    <3> QED BY <1>0, <3>1, ElsewhereFollows DEF transportVars, runtimeVars, bridgeVars
  <2>2. CASE QuitJoined \/ QuitDisposes
    <3>1. ~Admitted' /\ coord.at = "idle" /\ UNCHANGED <<transportVars, coord>>
      BY <2>2 DEF QuitJoined, QuitDisposes, RestsWhenQuit, Admitted
    <3> QED BY <1>0, <3>1, ElsewhereFollows DEF transportVars, runtimeVars, bridgeVars
  <2>3. CASE QuitStops \/ QuitUnbridges
    <3>1. coord.at = "idle" /\ UNCHANGED <<coord, connectedID, chat, localVars>> /\ ~Admitted /\ ~Admitted'
      BY <2>3 DEF QuitStops, QuitUnbridges, RestsWhenQuit, Admitted
    <3> QED BY <1>0, <2>3, <3>1, StoppingFollows DEF SystemIInv
  <2> QED BY <1>5, <2>1, <2>2, <2>3 DEF Quitting
<1>6. \/ UNCHANGED <<coordVars, localVars>>
      \/ Coordinate \/ CallLost \/ LocalMoves \/ LocalTrouble \/ Calls \/ Crash \/ Quit \/ Quitting
  BY DEF Next, Troubles, StartUp, NextAttempt, TransportMoves, FindsDead, TransportTrouble, HostMoves,
         HostTrouble, vars
<1> QED BY <1>1, <1>2, <1>3, <1>4, <1>5, <1>6 DEF Next, Troubles

\* A connected transport and the app agree, once the coordinator has taken what
\* it was told: on the candidate, its registration, the chat's connection, and
\* that someone runs the queue (acceptCandidate, acknowledgeAcceptance).
THEOREM AppAlwaysFollows == Spec => []AppFollowsTransport
<1>1. Init => FollowIInv /\ RestsWhenQuit
  BY FollowInitial DEF Init, RestsWhenQuit
<1>2. FollowIInv /\ RestsWhenQuit /\ SystemIInv /\ LocalIInv /\ [Next]_vars => FollowIInv' /\ RestsWhenQuit'
  BY FollowStep, RestsStep DEF SystemIInv
<1>3. FollowIInv => AppFollowsTransport
  BY DEF FollowIInv, ConnectedBehind, SomeoneServes, Quiet, AppFollowsTransport
<1>4. Spec => []LocalIInv
  BY PartsRefine, LocalInvariance, PTL
<1> QED BY <1>1, <1>2, <1>3, <1>4, SystemInvariance, PTL DEF Spec
===============================================================================
