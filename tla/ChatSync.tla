------------------------------- MODULE ChatSync -------------------------------
(***************************************************************************)
(* One chat: the daemon's controller (DaemonChatController.swift), which   *)
(* persists the transcript and pushes one update per session event, and    *)
(* the app's mirror of it (RemoteChatSession.swift), which asks for an     *)
(* authoritative snapshot when it cannot follow the updates.               *)
(*                                                                         *)
(* Updates come in order over one connection and may be lost (no sink is   *)
(* registered while the transport is replaced).  Snapshots, history pages  *)
(* and submissions are calls of their own, answered out of step with the   *)
(* updates, and any of them may fail.                                      *)
(***************************************************************************)
EXTENDS ChatReducer

CONSTANTS
    Starts,      \* subset of {"cold", "warm"}: how the run begins
    Outcomes,    \* how an answer may end: subset of {"completed", "failed"}
    Retries,     \* snapshot retries before the mirror waits for an update
    MaxGen,      \* bound: runtime generations
    MaxTrouble,  \* bound: lost updates, failed calls, failed submissions,
                 \* presses of Stop, pushes without an event and times
                 \* the chat view appears, together
    Window       \* bound: updates under way

ASSUME SyncAssumption ==
    /\ Starts \subseteq {"cold", "warm"}
    /\ Outcomes \subseteq {"completed", "failed"}
    /\ {Retries, MaxGen, MaxTrouble, Window} \subseteq Nat
    /\ MaxGen > 0

VARIABLES
    rows,      \* the committed transcript, by cursor (chat_transcript_items)
    text,      \* the text of each row, rewritten in place
    d,         \* the controller's snapshot and ownership; gen 0: no controller
    wire,      \* updates pushed and not yet routed
    c,         \* the mirror's reducer state
    request,   \* snapshotRequestTask
    hydrate,   \* the view's rehydrate call
    retry,     \* snapshotRetryTask is asleep
    attempts,  \* snapshotRetryAttempt
    loadTo,    \* historyLoadTarget of a scheduled load, 0 when none
    loader,    \* a history loader is installed
    inbox,     \* submissions under way to the daemon
    sends,     \* what the composer knows of each submission
    spent      \* the bounds used up so far

daemonVars == <<rows, text, d>>
mirrorVars == <<c, request, hydrate, retry, attempts, loadTo, loader>>
vars == <<rows, text, d, wire, c, request, hydrate, retry, attempts, loadTo,
          loader, inbox, sends, spent>>

Idle == [st |-> "idle", p |-> Nothing]
Asked == [st |-> "asked", p |-> Nothing]
Tasks == [st : {"idle", "asked", "answered"}, p : Projections]

Bounds == [gens |-> MaxGen, trouble |-> MaxTrouble]

Has(b) == spent[b] < Bounds[b]
Using(b) == [spent EXCEPT ![b] = @ + 1]
Spend(b) == Has(b) /\ spent' = Using(b)

(* No controller: what bootstrapSnapshot makes of a chat at rest.          *)
Bare == [gen |-> 0, seq |-> 0, live |-> FALSE, active |-> NoTurn,
         phase |-> "none", queue |-> <<>>, failed |-> FALSE,
         overlay |-> Blank, open |-> FALSE, owner |-> "idle", delta |-> Blank]

Projection(s, cursor) ==
    [gen |-> s.gen, seq |-> s.seq, live |-> s.live, active |-> s.active,
     phase |-> s.phase, queue |-> s.queue, overlay |-> s.overlay,
     cursor |-> cursor]

Working(s) == s.active # NoTurn /\ s.phase # "done"

(* A chat no one has opened: no controller, and a mirror that waits.       *)
Cold == d = Bare /\ c = NewClient /\ loader = FALSE

(* A chat on the screen between two turns: the runtime is warm and the     *)
(* mirror synchronized.  The earlier turns and their rows are left out.    *)
Warm ==
    /\ d = [Bare EXCEPT !.gen = 1, !.seq = 1, !.live = TRUE, !.open = TRUE]
    /\ c = [NewClient EXCEPT !.known = TRUE, !.sync = "synchronized",
                             !.p = Projection(d, 0)]
    /\ loader = TRUE

Init ==
    /\ \/ "cold" \in Starts /\ Cold
       \/ "warm" \in Starts /\ Warm
    /\ rows = <<>> /\ text = Blank /\ wire = <<>>
    /\ request = Idle /\ hydrate = Idle
    /\ retry = FALSE /\ attempts = 0 /\ loadTo = 0
    /\ inbox = {} /\ sends = [t \in Turns |-> "new"]
    /\ spent = [gens |-> 1, trouble |-> 0]   \* generation 1 is over or in use

-------------------------------------------------------------------------------
(* The daemon.  record numbers the event, applies it to the snapshot and   *)
(* pushes the projection; the push reaches the mirror or no sink.          *)

Numbered(s) == [s EXCEPT !.seq = @ + 1]

Update(kind, s, cursor, overlay) ==
    [kind |-> kind, to |-> [Projection(s, cursor) EXCEPT !.overlay = overlay]]

Push(messages, used) ==
    /\ Len(wire) < Window
    /\ \/ wire' = wire \o messages /\ spent' = used
       \/ /\ used.trouble < MaxTrouble
          /\ wire' = wire
          /\ spent' = [used EXCEPT !.trouble = @ + 1]

RecordAt(cursor, kind, s, used) ==
    /\ d' = Numbered(s)
    /\ Push(<<Update(kind, Numbered(s), cursor, s.overlay)>>, used)

Record(kind, s, used) == RecordAt(Len(rows), kind, s, used)

Persist(i, n) ==
    /\ rows' = IF text[i] = 0 THEN Append(rows, i) ELSE rows
    /\ text' = [text EXCEPT ![i] = n]

(* .queued: a follower waits behind a turn that is not over, or that       *)
(* failed.                                                                 *)
Enqueued(s, t) ==
    IF s.queue # <<>> \/ Working(s) \/ (s.active # NoTurn /\ s.failed)
    THEN [s EXCEPT !.queue = Append(@, t)]
    ELSE [s EXCEPT !.active = t, !.phase = "queued", !.failed = FALSE]

Promoted(s) ==
    IF s.queue = <<>> THEN s
    ELSE [s EXCEPT !.active = Head(s.queue), !.phase = "queued",
                   !.queue = Tail(@)]

(* .completed and .cancelled end the turn and promote the next; .failed    *)
(* leaves a notice and waits.                                              *)
Ended(s, outcome) ==
    IF outcome = "failed"
    THEN [s EXCEPT !.phase = "done", !.failed = TRUE,
                   !.overlay = [Blank EXCEPT ![<<s.active, "failure">>] = 1]]
    ELSE Promoted([s EXCEPT !.phase = "done", !.failed = FALSE,
                            !.overlay = Blank])

(* The runtime is gone: a new generation, closed, with nothing streaming.  *)
Rotated(s) == [s EXCEPT !.gen = spent.gens + 1, !.live = FALSE,
                        !.overlay = Blank, !.open = FALSE]

Submit(t) ==
    /\ t \in inbox
    /\ inbox' = inbox \ {t}
    /\ Persist(User(t), 1)
    /\ IF d.gen = 0
       THEN /\ Has("gens")
            /\ RecordAt(Len(rows'), "event",
                        Enqueued([Bare EXCEPT !.gen = spent.gens + 1], t),
                        Using("gens"))
       ELSE RecordAt(Len(rows'), "event", Enqueued(d, t), spent)
    /\ UNCHANGED <<mirrorVars, sends>>

(* processQueueIfPossible up to .submitted: the next queued turn is        *)
(* claimed, and taken over from the queue when the active one is over.     *)
Adopted(s) ==
    IF s.phase = "queued" THEN s
    ELSE [Promoted(s) EXCEPT !.failed = FALSE]

Claim ==
    /\ d.owner = "idle"
    /\ d.phase = "queued" \/ (d.phase = "done" /\ d.queue # <<>>)
    /\ Record("event", [Adopted(d) EXCEPT !.phase = "claimed",
                                          !.owner = "claim"], spent)
    /\ UNCHANGED <<rows, text, mirrorVars, inbox, sends>>

(* The runtime runs: .started.                                             *)
Started ==
    /\ d.owner = "claim" /\ d.phase = "claimed"
    /\ Record("event", [d EXCEPT !.phase = "answering", !.open = TRUE], spent)
    /\ UNCHANGED <<rows, text, mirrorVars, inbox, sends>>

(* The provider tells its session, at the latest while the runtime starts. *)
SessionReady ==
    /\ d.open \/ d.owner \in {"claim", "settling"}
    /\ ~d.live
    /\ Record("event", [d EXCEPT !.live = TRUE], spent)
    /\ UNCHANGED <<rows, text, mirrorVars, inbox, sends>>

(* A transcript event is persisted, and recorded after an await.           *)
StreamPersisted ==
    /\ d.open /\ d.phase \in {"answering", "cancelling"}
    /\ d.delta = Blank
    /\ LET i == Answer(d.active) IN
       /\ text[i] < Chunks
       /\ Persist(i, text[i] + 1)
       /\ d' = [d EXCEPT !.delta = [Blank EXCEPT ![i] = text[i] + 1]]
    /\ UNCHANGED <<wire, mirrorVars, inbox, sends, spent>>

StreamRecorded ==
    /\ d.delta # Blank
    /\ LET s == Numbered([d EXCEPT !.overlay = Merge(@, d.delta),
                                   !.delta = Blank])
       IN /\ d' = s
          /\ Push(<<Update("compact", s, Len(rows), d.delta)>>, spent)
    /\ UNCHANGED <<rows, text, mirrorVars, inbox, sends>>

(* finishTurnIfCurrent, for a turn no cancellation has taken.              *)
Finish ==
    /\ d.owner = "claim" /\ d.phase = "answering" /\ d.delta = Blank
    /\ \E outcome \in Outcomes :
          Record("terminal", [Ended(d, outcome) EXCEPT !.owner = "idle"], spent)
    /\ UNCHANGED <<rows, text, mirrorVars, inbox, sends>>

(* cancel of a turn no runtime has claimed: both records at once.  It      *)
(* takes the ownership of a close that is under way.                       *)
CancelQueued ==
    /\ d.owner \in {"idle", "closing"} /\ d.phase = "queued"
    /\ Has("trouble")
    /\ LET asked == Numbered([d EXCEPT !.phase = "cancelling",
                                       !.failed = FALSE])
           ended == Numbered(Ended([asked EXCEPT !.owner = "idle"],
                                   "cancelled"))
       IN /\ d' = ended
          /\ Push(<<Update("event", asked, Len(rows), asked.overlay),
                    Update("terminal", ended, Len(rows), ended.overlay)>>,
                  Using("trouble"))
    /\ UNCHANGED <<rows, text, mirrorVars, inbox, sends>>

CancelClaimed ==
    /\ d.owner = "claim" /\ Has("trouble")
    /\ Record("event", [d EXCEPT !.phase = "cancelling", !.failed = FALSE,
                                 !.owner = "settling"], Using("trouble"))
    /\ UNCHANGED <<rows, text, mirrorVars, inbox, sends>>

(* The settlement is over: the cancelled runtime is closed, and the        *)
(* outcome is recorded in a new generation.                                *)
CancelSettled ==
    /\ d.owner = "settling" /\ Has("gens")
    /\ Record("terminal",
              [Ended(Rotated(d), "cancelled") EXCEPT !.owner = "idle"],
              Using("gens"))
    /\ UNCHANGED <<rows, text, mirrorVars, inbox, sends>>

Quiescent == ~Working(d) /\ d.queue = <<>>

(* stopSession of a session at rest, and closeIfIdle.                      *)
Close ==
    /\ d.owner = "idle" /\ Quiescent /\ d.open
    /\ IF d.live
       THEN Record("event", [d EXCEPT !.owner = "closing", !.active = NoTurn,
                                      !.phase = "none", !.failed = FALSE,
                                      !.live = FALSE], spent)
       ELSE d' = [d EXCEPT !.owner = "closing"] /\ UNCHANGED <<wire, spent>>
    /\ UNCHANGED <<rows, text, mirrorVars, inbox, sends>>

(* The runtime is closed; a turn that came meanwhile is claimed next.      *)
Closed ==
    /\ d.owner = "closing"
    /\ Spend("gens")
    /\ d' = [Rotated(d) EXCEPT !.owner = "idle"]
    /\ UNCHANGED <<rows, text, wire, mirrorVars, inbox, sends>>

(* The host drops a controller that has been at rest for 300 seconds: by   *)
(* then every update it pushed has been routed.                            *)
Evict ==
    /\ d.gen > 0 /\ d.owner = "idle" /\ Quiescent /\ ~d.open
    /\ wire = <<>> /\ d.delta = Blank
    /\ d' = Bare
    /\ UNCHANGED <<rows, text, wire, mirrorVars, inbox, sends, spent>>

(* didUpdateCompatibilityState: a push with the sequence of the last event.*)
Refresh ==
    /\ d.gen > 0 /\ Has("trouble")
    /\ Push(<<Update("refresh", d, Len(rows), d.overlay)>>, Using("trouble"))
    /\ UNCHANGED <<rows, text, d, mirrorVars, inbox, sends>>

-------------------------------------------------------------------------------
(* The mirror.  apply installs the reduced state, clears the retry backoff *)
(* when it is synchronized and runs the effects; hydrate and a snapshot    *)
(* that arrived clear it first.                                            *)

ScheduleLoad(n) == loadTo' = IF n > loadTo THEN n ELSE loadTo

Apply(r) ==
    /\ c' = r.c
    /\ ScheduleLoad(r.load)
    /\ IF r.c.sync = "synchronized"
       THEN retry' = FALSE /\ attempts' = 0
       ELSE UNCHANGED <<retry, attempts>>

Receive ==
    /\ wire # <<>>
    /\ wire' = Tail(wire)
    /\ LET r == ApplyUpdate(c, Head(wire)) IN
       /\ Apply(r)
       /\ request' = IF r.request /\ request.st = "idle" THEN Asked
                     ELSE request
    /\ UNCHANGED <<daemonVars, hydrate, loader, inbox, sends, spent>>

Answered(task) ==
    [st |-> "answered", p |-> Projection(d, Len(rows))]

RequestAnswered ==
    /\ request.st = "asked"
    /\ request' = Answered(request)
    /\ UNCHANGED <<daemonVars, wire, c, hydrate, retry, attempts, loadTo,
                   loader, inbox, sends, spent>>

HydrateAnswered ==
    /\ hydrate.st = "asked"
    /\ hydrate' = Answered(hydrate)
    /\ UNCHANGED <<daemonVars, wire, c, request, retry, attempts, loadTo,
                   loader, inbox, sends, spent>>

RequestArrives ==
    /\ request.st = "answered"
    /\ request' = Idle
    /\ Apply(ApplySnapshot(c, request.p))
    /\ UNCHANGED <<daemonVars, wire, hydrate, loader, inbox, sends, spent>>

HydrateArrives ==
    /\ hydrate.st = "answered"
    /\ hydrate' = Idle
    /\ Apply(ApplySnapshot(c, hydrate.p))
    /\ UNCHANGED <<daemonVars, wire, request, loader, inbox, sends, spent>>

\* Mutant: the retry is scheduled and not counted.
RetriesForEver ==
    /\ request.st # "idle"
    /\ Spend("trouble")
    /\ request' = Idle
    /\ retry' = (retry \/ c.sync # "synchronized")
    /\ UNCHANGED <<daemonVars, wire, c, hydrate, attempts, loadTo, loader,
                   inbox, sends>>

\* Mutant: a failed request is left to the next update.
GivesUpAtOnce ==
    /\ request.st # "idle"
    /\ Spend("trouble")
    /\ request' = Idle
    /\ UNCHANGED <<daemonVars, wire, c, hydrate, retry, attempts, loadTo,
                   loader, inbox, sends>>

(* A failed request is tried again after a delay, up to Retries times.     *)
RequestFails ==
    /\ request.st # "idle"
    /\ Spend("trouble")
    /\ request' = Idle
    /\ IF c.sync # "synchronized" /\ ~retry /\ attempts < Retries
       THEN retry' = TRUE /\ attempts' = attempts + 1
       ELSE UNCHANGED <<retry, attempts>>
    /\ UNCHANGED <<daemonVars, wire, c, hydrate, loadTo, loader, inbox,
                   sends>>

(* Its failure is part of the trouble that the view's appearance spent.    *)
HydrateFails ==
    /\ hydrate.st # "idle"
    /\ hydrate' = Idle
    /\ UNCHANGED <<daemonVars, wire, c, request, retry, attempts, loadTo,
                   loader, inbox, sends, spent>>

RetryWakes ==
    /\ retry
    /\ retry' = FALSE
    /\ request' = IF request.st = "idle" THEN Asked ELSE request
    /\ UNCHANGED <<daemonVars, wire, c, hydrate, attempts, loadTo, loader,
                   inbox, sends, spent>>

(* drainCommittedHistoryLoads reads every page up to the target without a  *)
(* suspension; a page that cannot be read ends it.                         *)
LoadHistory ==
    /\ loadTo > 0
    /\ loadTo' = 0
    /\ \/ /\ c' = IF loader /\ c.loaded < loadTo
                  THEN AppendHistory(c, rows, text) ELSE c
          /\ IF c'.sync = "synchronized"
             THEN retry' = FALSE /\ attempts' = 0
             ELSE UNCHANGED <<retry, attempts>>
          /\ UNCHANGED spent
       \/ Spend("trouble") /\ UNCHANGED <<c, retry, attempts>>
    /\ UNCHANGED <<daemonVars, wire, request, hydrate, loader, inbox, sends>>

(* The view appears: the loader is installed, a load the mirror could not  *)
(* run is resumed, and the session is rehydrated.                          *)
ViewAppears ==
    /\ hydrate.st = "idle"
    /\ Spend("trouble")
    /\ loader' = TRUE
    /\ ScheduleLoad(IF c.known /\ c.loaded < c.p.cursor THEN c.p.cursor ELSE 0)
    /\ hydrate' = Asked
    /\ UNCHANGED <<daemonVars, wire, c, request, retry, attempts, inbox,
                   sends>>

(* The composer sends turn t.                                              *)
Send(t) ==
    /\ loader /\ sends[t] = "new"
    /\ c' = OptimisticSubmit(c, t)
    /\ inbox' = inbox \cup {t}
    /\ sends' = [sends EXCEPT ![t] = "sent"]
    /\ UNCHANGED <<daemonVars, wire, request, hydrate, retry, attempts,
                   loadTo, loader, spent>>

(* The call fails: before the daemon saw it, or with the reply lost.  (A   *)
(* call that succeeds changes nothing in the mirror.)                      *)
SendFails(t) ==
    /\ sends[t] = "sent"
    /\ Spend("trouble")
    /\ sends' = [sends EXCEPT ![t] = "failed"]
    /\ inbox' \in {inbox, inbox \ {t}}
    /\ c' = OptimisticSubmitFailed(c, t)
    /\ UNCHANGED <<daemonVars, wire, request, hydrate, retry, attempts,
                   loadTo, loader>>

-------------------------------------------------------------------------------
DaemonStep ==
    \/ \E t \in Turns : Submit(t)
    \/ Claim \/ Started \/ SessionReady
    \/ StreamPersisted \/ StreamRecorded \/ Finish
    \/ CancelQueued \/ CancelClaimed \/ CancelSettled
    \/ Close \/ Closed \/ Evict \/ Refresh

MirrorStep ==
    \/ Receive
    \/ RequestAnswered \/ RequestArrives \/ RequestFails \/ RetryWakes
    \/ HydrateAnswered \/ HydrateArrives \/ HydrateFails
    \/ LoadHistory \/ ViewAppears
    \/ \E t \in Turns : Send(t) \/ SendFails(t)

Next == DaemonStep \/ MirrorStep

Spec == Init /\ [][Next]_vars

-------------------------------------------------------------------------------
Controllers ==
    [gen : Nat, seq : Nat, live : BOOLEAN, active : Turns \cup {NoTurn},
     phase : Phases, queue : Seq(Turns), failed : BOOLEAN, overlay : Texts,
     open : BOOLEAN, owner : {"idle", "claim", "settling", "closing"},
     delta : Texts]

(* The variables hold values of their types, a retry that sleeps is        *)
(* counted, and no bound is overdrawn.                                     *)
TypeOK ==
    /\ rows \in Seq(Items) /\ text \in Texts
    /\ d \in Controllers
    /\ wire \in Seq(Updates) /\ c \in Clients
    /\ request \in Tasks /\ hydrate \in Tasks
    /\ retry \in BOOLEAN /\ attempts \in 0..Retries /\ loadTo \in Nat
    /\ retry => attempts > 0
    /\ loader \in BOOLEAN /\ inbox \subseteq Turns
    /\ sends \in [Turns -> {"new", "sent", "failed"}]
    /\ spent \in [DOMAIN Bounds -> Nat]
    /\ \A b \in DOMAIN Bounds : spent[b] <= Bounds[b]

(* A mirror that lost the thread is never left waiting: a snapshot is      *)
(* asked for, or a retry is asleep, or all retries are used up (and the    *)
(* next update asks again).  (runEffects, requestAuthoritativeSnapshot-    *)
(* IfNeeded and scheduleAuthoritativeSnapshotRetryIfNeeded.)               *)
RecoveryUnderWay ==
    c.known /\ c.sync # "synchronized" =>
        request.st # "idle" \/ retry \/ attempts = Retries

(* A mirror that is synchronized at the daemon's generation and sequence,  *)
(* its history loaded, shows every row there is and at least the text that *)
(* is streaming: merging, pruning and retaining lose nothing.              *)
Current == /\ c.known /\ c.sync = "synchronized"
           /\ c.p.gen = d.gen /\ c.p.seq = d.seq

AgreesWithDaemon ==
    Current =>
        /\ \A i \in Items : d.overlay[i] <= Display(c, i)
        /\ c.loaded >= c.p.cursor =>
              \A k \in 1..c.p.cursor : Display(c, rows[k]) > 0

(* Routing an update never makes an answer on the screen fall back to a    *)
(* shorter text, the turn's end included: either the update itself streams *)
(* that text, or the row is about to be loaded (the reason for preserving- *)
(* OverlayForStaleCommittedItems).                                         *)
AnswerNotCutShort ==
    [][Receive =>
        \A t \in Turns : LET i == Answer(t) IN
            \/ Display(c, i)' >= Display(c, i)
            \/ Head(wire).to.overlay[i] > 0
            \/ c'.committed[i] = 0 /\ loadTo' > 0]_vars

(* A submission that reports an error takes no turn off the screen that    *)
(* the daemon has accepted and the mirror has been told of, its own or     *)
(* another's (discardingAuthoritativeOptimisticLifecycleBackups).          *)
AcceptedTurnStays ==
    [][(\E t \in Turns : SendFails(t)) /\ Current =>
        Listed(d) \cap Listed(c.p) \subseteq Listed(c'.p)]_vars

(* "catches up without replacing known history with an unrelated tail"     *)
(* (plans/chat-architecture-redesign.md, AC.10): a mirror that is at the   *)
(* daemon's sequence, with its history loaded and nothing under way, shows *)
(* all of every answer.                                                    *)
ShowsTheAnswer ==
    Current /\ c.loaded = Len(rows) /\ wire = <<>> /\ d.delta = Blank
        /\ request = Idle /\ hydrate = Idle /\ loadTo = 0
    => \A t \in Turns : Display(c, Answer(t)) = text[Answer(t)]
===============================================================================
