----------------------------- MODULE ChatReducer -----------------------------
(***************************************************************************)
(* The pure reducer of the app's chat mirror (ChatClientSync.swift): how a *)
(* client state absorbs a snapshot, an update, a page of history and its   *)
(* own optimistic submissions.                                             *)
(*                                                                         *)
(* A transcript item is the user message or the answer of a turn, or the   *)
(* notice of its failure; its text is abstracted to a length, 0 where the  *)
(* item is absent.  The overlay and the committed items, lists keyed by    *)
(* identity in the code, are functions from items to lengths.              *)
(***************************************************************************)
EXTENDS Naturals, Sequences, FiniteSets

CONSTANTS
    Turns,      \* the turns a user may submit
    NoTurn,     \* no active turn
    Chunks      \* the longest answer

ASSUME ReducerAssumption ==
    /\ NoTurn \notin Turns
    /\ Chunks \in Nat \ {0}

Items == Turns \X {"user", "answer", "failure"}
User(t) == <<t, "user">>
Answer(t) == <<t, "answer">>

Texts == [Items -> 0..Chunks]
Blank == [i \in Items |-> 0]

Phases == {"none", "queued", "claimed", "answering", "cancelling", "done"}

(* What the wire carries of a session (ChatSyncProjection).                *)
Projections ==
    [gen : Nat, seq : Nat, live : BOOLEAN, active : Turns \cup {NoTurn},
     phase : Phases, queue : Seq(Turns), overlay : Texts, cursor : Nat]

(* An update carries the reason it was pushed for.  A transcript change    *)
(* is compact: its overlay holds only the delta (WireUpdate).              *)
Kinds == {"event", "terminal", "compact", "refresh"}
Updates == [kind : Kinds, to : Projections]

Nothing == [gen |-> 0, seq |-> 0, live |-> FALSE, active |-> NoTurn,
            phase |-> "none", queue |-> <<>>, overlay |-> Blank, cursor |-> 0]

(* The mirror.  base[t] is the lifecycle to go back to when the optimistic *)
(* submission of t fails, "none" where there is no backup.                 *)
Clients ==
    [known : BOOLEAN, p : Projections, committed : Texts, loaded : Nat,
     sync : {"synchronized", "awaiting", "gap"},
     base : [Turns -> {"none", "live", "closed"}]]

NewClient == [known |-> FALSE, p |-> Nothing, committed |-> Blank,
              loaded |-> 0, sync |-> "awaiting",
              base |-> [t \in Turns |-> "none"]]

(* A reduction: the new state and the effects it asks for (load = 0: no    *)
(* history is needed).                                                     *)
Reduced(c, request, load) == [c |-> c, request |-> request, load |-> load]
Unchanged(c) == Reduced(c, FALSE, 0)

(* What the transcript view shows: an overlay item takes the place of its  *)
(* committed copy.                                                         *)
Display(c, i) ==
    IF c.known /\ c.p.overlay[i] > 0 THEN c.p.overlay[i] ELSE c.committed[i]

Listed(p) == ({p.active} \cup {p.queue[k] : k \in DOMAIN p.queue}) \ {NoTurn}

Merge(current, incoming) ==
    [i \in Items |-> IF incoming[i] > 0 THEN incoming[i] ELSE current[i]]

\* Mutant: any committed copy is taken for the current one.
PrunedBlindly(overlay, committed) ==
    [i \in Items |-> IF committed[i] > 0 THEN 0 ELSE overlay[i]]

(* The items of an overlay the committed rows do not already say.          *)
Pruned(overlay, committed) ==
    [i \in Items |-> IF committed[i] = overlay[i] THEN 0 ELSE overlay[i]]

\* Mutant: a projection replaces the overlay whatever the rows say.
NothingStale(c) == Blank

(* The part of the current overlay that is kept because the committed copy *)
(* of the item is an older text.                                           *)
Stale(c) ==
    [i \in Items |->
        IF c.committed[i] > 0 /\ c.committed[i] # c.p.overlay[i]
        THEN c.p.overlay[i] ELSE 0]

Retaining(c, p) == [p EXCEPT !.overlay = Merge(Stale(c), p.overlay)]

\* Mutant: a backup is kept as long as the turn is shown.
NeverAuthoritative(c) == {}

(* A backup goes once the turn is authoritative: committed, active or      *)
(* queued.  (The optimistic turn itself counts when history is appended.)  *)
Authoritative(c) ==
    Listed(c.p) \cup {t \in Turns : c.committed[User(t)] > 0}

Tracked(c) ==
    Listed(c.p) \cup {t \in Turns : c.p.overlay[User(t)] > 0}

(* discarding... , pruning... and retaining..., in the order of the code.  *)
Settled(c) ==
    LET kept == [t \in Turns |->
                    IF t \in Authoritative(c) THEN "none" ELSE c.base[t]]
        pruned == IF c.known
                  THEN [c EXCEPT !.p.overlay = Pruned(@, c.committed)]
                  ELSE c
    IN  [pruned EXCEPT !.base =
            [t \in Turns |-> IF c.known /\ t \notin Tracked(pruned)
                             THEN "none" ELSE kept[t]]]

(* An authoritative projection becomes the state.                          *)
Accept(c, p) ==
    Reduced(
        Settled([c EXCEPT !.known = TRUE,
                          !.sync = "synchronized",
                          !.p = [p EXCEPT !.cursor =
                                    IF @ < c.loaded THEN c.loaded ELSE @]]),
        FALSE,
        IF p.cursor > c.loaded THEN p.cursor ELSE 0)

ApplySnapshot(c, p) == Accept(c, Retaining(c, p))

(* The overlay an update brings, completed with what the client holds: a   *)
(* compact update is a delta on the current overlay, and a terminal event  *)
(* that commits no new row keeps the overlay until its text is committed.  *)
Rebuilt(c, u) ==
    IF u.kind = "compact"
    THEN [u.to EXCEPT !.overlay = Merge(c.p.overlay, @)]
    ELSE u.to

Finished(c, u, p) ==
    IF u.kind = "terminal" /\ p.cursor = c.p.cursor
    THEN [p EXCEPT !.overlay = Pruned(Merge(c.p.overlay, @), c.committed)]
    ELSE p

Normalized(c, u) == Retaining(c, Finished(c, u, Rebuilt(c, u)))

(* A persisted-only mirror takes the first update of a new controller.     *)
SwitchesGeneration(c, u) == ~c.p.live /\ c.p.seq = 0 /\ u.to.seq > 0

ApplyUpdate(c, u) ==
    IF c.sync = "awaiting" \/ ~c.known
        THEN Reduced([c EXCEPT !.sync = "awaiting"], TRUE, 0)
    ELSE IF u.to.gen # c.p.gen /\ ~SwitchesGeneration(c, u)
        THEN Reduced([c EXCEPT !.sync = "awaiting"], TRUE, 0)
    ELSE IF u.to.seq = c.p.seq
        THEN IF u.kind = "refresh" THEN Accept(c, Normalized(c, u))
             ELSE Unchanged(c)
    ELSE IF u.to.seq < c.p.seq THEN Unchanged(c)
    ELSE IF u.to.seq # c.p.seq + 1
        THEN Reduced([c EXCEPT !.sync = "gap"], TRUE, 0)
    ELSE Accept(c, Normalized(c, u))

(* The rows after the loaded cursor, as they are now.                      *)
AppendHistory(c, rows, text) ==
    IF Len(rows) > c.loaded
    THEN Settled([c EXCEPT
            !.loaded = Len(rows),
            !.committed =
                [i \in Items |->
                    IF \E k \in c.loaded + 1..Len(rows) : rows[k] = i
                    THEN text[i] ELSE @[i]]])
    ELSE c

(* The queue without the entries of t, in its order.                       *)
Without(queue, t) ==
    LET rest == {k \in DOMAIN queue : queue[k] # t}
        Place(k) == Cardinality({m \in rest : m <= k})
    IN  [n \in 1..Cardinality(rest) |->
            queue[CHOOSE k \in rest : Place(k) = n]]

OptimisticSubmit(c, t) ==
    IF ~c.known \/ t \in Tracked(c) THEN c
    ELSE LET shown == [c EXCEPT
                        !.base[t] = IF c.p.live THEN "live" ELSE "closed",
                        !.p.overlay[User(t)] = 1]
         IN IF c.p.active # NoTurn /\ c.p.phase # "done"
            THEN [shown EXCEPT !.p.queue = Append(@, t)]
            ELSE [shown EXCEPT !.p = [@ EXCEPT !.live = TRUE, !.active = t,
                                               !.phase = "queued"]]

(* The projection without the optimistic turn t, back at the lifecycle of  *)
(* before when nothing else is left.                                       *)
Withdrawn(p, t, base) ==
    LET gone == p.active = t /\ p.phase = "queued"
        idle == gone \/ p.active = NoTurn
        rest == Without(p.queue, t)
    IN [p EXCEPT !.overlay[User(t)] = 0,
                 !.queue = rest,
                 !.active = IF gone THEN NoTurn ELSE @,
                 !.phase = IF gone THEN "none" ELSE @,
                 !.live = IF idle /\ rest = <<>> THEN base = "live" ELSE @]

OptimisticSubmitFailed(c, t) ==
    IF ~c.known \/ c.base[t] = "none" THEN c
    ELSE [c EXCEPT !.base[t] = "none", !.p = Withdrawn(@, t, c.base[t])]
===============================================================================
