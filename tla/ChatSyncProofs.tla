---------------------------- MODULE ChatSyncProofs ----------------------------
(***************************************************************************)
(* The chat mirror, for every set of turns, every length of an answer and  *)
(* every number of retries, whatever is lost and whatever fails: it agrees *)
(* with the daemon whose sequence it is at, no update cuts an answer       *)
(* short, no failed submission takes an accepted turn away, and a mirror   *)
(* that lost the thread is never left waiting.                             *)
(*                                                                         *)
(* In order: the types; the invariant under the daemon's steps, where a    *)
(* history of what it said is continued or begun anew; the invariant under *)
(* the mirror's steps, where what the reducer does to a truthful state and *)
(* a truthful message is again truthful; the theorems; the recovery.       *)
(***************************************************************************)
EXTENDS ChatInvariants, FiniteSetTheorems, SequenceTheorems, TLAPS

(* The members of a finite set of numbers, each counted up to, take the    *)
(* places 1 to N once each.                                                *)
LEMMA PlacesAreAll ==
    ASSUME NEW n \in Nat, NEW R \in SUBSET (1..n), NEW place,
           place = [k \in R |-> Cardinality({m \in R : m <= k})]
    PROVE  /\ IsFiniteSet(R) /\ Cardinality(R) \in Nat
           /\ place \in Injection(R, 1..Cardinality(R))
           /\ place \in Surjection(R, 1..Cardinality(R))
<1> DEFINE UpTo(k) == {m \in R : m <= k}
           N == Cardinality(R)
<1>1. IsFiniteSet(R) /\ N \in Nat
  <2>1. IsFiniteSet(1..n)
    BY FS_Interval
  <2> QED BY <2>1, FS_Subset, FS_CardinalityType
<1>2. ASSUME NEW k \in R
      PROVE  IsFiniteSet(UpTo(k)) /\ place[k] = Cardinality(UpTo(k)) /\ place[k] \in 1..N
  <2>1. IsFiniteSet(UpTo(k)) /\ Cardinality(UpTo(k)) <= N
    BY <1>1, FS_Subset
  <2>2. Cardinality(UpTo(k)) \in Nat /\ Cardinality(UpTo(k)) # 0
    <3>1. k \in UpTo(k)
      OBVIOUS
    <3> QED BY <2>1, <3>1, FS_CardinalityType, FS_EmptySet
  <2> QED BY <1>1, <2>1, <2>2
<1>3. ASSUME NEW k \in R, NEW l \in R, k < l
      PROVE  place[k] < place[l]
  <2>1. UpTo(k) \in SUBSET UpTo(l) /\ UpTo(k) # UpTo(l)
    <3>1. l \in UpTo(l) /\ l \notin UpTo(k)
      BY <1>3
    <3>2. \A m \in R : m <= k => m <= l
      BY <1>3
    <3> QED BY <3>1, <3>2
  <2>2. Cardinality(UpTo(k)) <= Cardinality(UpTo(l)) /\ Cardinality(UpTo(l)) # Cardinality(UpTo(k))
    BY <1>2, <2>1, FS_Subset
  <2> QED BY <1>2, <2>2
<1>4. place \in Injection(R, 1..N)
  <2>1. place \in [R -> 1..N]
    BY <1>2
  <2>2. \A k, l \in R : place[k] = place[l] => k = l
    <3> SUFFICES ASSUME NEW k \in R, NEW l \in R, k # l PROVE place[k] # place[l]
      OBVIOUS
    <3>1. k \in Nat /\ l \in Nat
      OBVIOUS
    <3>2. CASE k < l
      BY <1>2, <1>3, <3>2
    <3>3. CASE l < k
      BY <1>2, <1>3, <3>3
    <3> QED BY <3>1, <3>2, <3>3
  <2> QED BY <2>1, <2>2 DEF Injection, IsInjective
<1>5. IsFiniteSet(1..N) /\ Cardinality(1..N) = N
  BY <1>1, FS_Interval
<1> QED BY <1>1, <1>4, <1>5, FS_Injection

(* Without t, a queue still holds every other entry.                       *)
LEMMA WithoutKeeps ==
    ASSUME NEW q \in Seq(Turns), NEW t
    PROVE  /\ Without(q, t) \in Seq(Turns)
           /\ \A k \in DOMAIN q : q[k] # t =>
                \E n \in DOMAIN Without(q, t) : Without(q, t)[n] = q[k]
<1> DEFINE R == {k \in DOMAIN q : q[k] # t}
           N == Cardinality(R)
           place == [k \in R |-> Cardinality({m \in R : m <= k})]
           at(n) == CHOOSE k \in R : Cardinality({m \in R : m <= k}) = n
<1>1. Len(q) \in Nat /\ DOMAIN q = 1..Len(q) /\ R \in SUBSET (1..Len(q))
  OBVIOUS
<1>2. /\ N \in Nat /\ place \in Injection(R, 1..N) /\ place \in Surjection(R, 1..N)
  BY <1>1, PlacesAreAll
<1>3. ASSUME NEW n \in 1..N
      PROVE  at(n) \in R /\ place[at(n)] = n
  <2>1. PICK k \in R : place[k] = n
    BY <1>2 DEF Surjection
  <2>2. Cardinality({m \in R : m <= k}) = n
    BY <2>1
  <2> HIDE DEF R
  <2>3. at(n) \in R /\ Cardinality({m \in R : m <= at(n)}) = n
    BY <2>2
  <2> QED BY <2>3
<1>4. Without(q, t) = [n \in 1..N |-> q[at(n)]]
  BY DEF Without
<1>5. \A n \in 1..N : q[at(n)] \in Turns
  <2> SUFFICES ASSUME NEW n \in 1..N PROVE q[at(n)] \in Turns
    OBVIOUS
  <2>1. at(n) \in 1..Len(q)
    BY <1>1, <1>3
  <2> QED BY <2>1, ElementOfSeq
<1> HIDE DEF at
<1>6. Without(q, t) \in Seq(Turns) /\ DOMAIN Without(q, t) = 1..N
  <2>1. [n \in 1..N |-> q[at(n)]] \in [1..N -> Turns]
    BY <1>5
  <2>2. \A f \in [1..N -> Turns] : f \in Seq(Turns)
    BY <1>2, SeqDef
  <2>3. DOMAIN Without(q, t) = 1..N
    BY <1>4
  <2> QED BY <1>4, <2>1, <2>2, <2>3
<1>7. ASSUME NEW k \in DOMAIN q, q[k] # t
      PROVE  \E n \in DOMAIN Without(q, t) : Without(q, t)[n] = q[k]
  <2>1. k \in R /\ place[k] \in 1..N
    BY <1>2, <1>7 DEF Injection
  <2>2. at(place[k]) \in R /\ place[at(place[k])] = place[k]
    BY <1>3, <2>1
  <2>3. at(place[k]) = k
    BY <1>2, <2>1, <2>2 DEF Injection, IsInjective
  <2>4. Without(q, t)[place[k]] = q[k]
    BY <1>4, <2>1, <2>3
  <2> QED BY <1>6, <2>1, <2>4
<1> QED BY <1>6, <1>7
-------------------------------------------------------------------------------
(* What the reducer makes of well-formed states and messages is well-      *)
(* formed.                                                                 *)

(* What the reducer makes of well-formed states and messages is well-formed. *)

LEMMA MergedTexts ==
    ASSUME NEW a \in Texts, NEW b \in Texts
    PROVE  Merge(a, b) \in Texts /\ Pruned(a, b) \in Texts /\ Blank \in Texts
BY ReducerAssumption DEF Merge, Pruned, Blank, Texts

LEMMA RetainingType ==
    ASSUME NEW x \in Clients, NEW p \in Projections
    PROVE  Retaining(x, p) \in Projections
<1>1. x.committed \in Texts /\ x.p.overlay \in Texts /\ p.overlay \in Texts
  BY DEF Clients, Projections
<1>2. Stale(x) \in Texts
  BY <1>1, ReducerAssumption DEF Stale, Texts
<1>3. Merge(Stale(x), p.overlay) \in Texts
  BY <1>1, <1>2, MergedTexts
<1> QED BY <1>3 DEF Retaining, Projections

LEMMA SettledType ==
    ASSUME NEW x \in Clients
    PROVE  Settled(x) \in Clients
<1> DEFINE pruned == IF x.known THEN [x EXCEPT !.p.overlay = Pruned(@, x.committed)] ELSE x
           kept == [t \in Turns |-> IF t \in Authoritative(x) THEN "none" ELSE x.base[t]]
           base == [t \in Turns |-> IF x.known /\ t \notin Tracked(pruned) THEN "none" ELSE kept[t]]
<1>1. Pruned(x.p.overlay, x.committed) \in Texts
  BY MergedTexts DEF Clients, Projections
<1>2. pruned \in Clients
  BY <1>1 DEF Clients, Projections
<1>3. base \in [Turns -> {"none", "live", "closed"}]
  BY DEF Clients
<1>4. Settled(x) = [pruned EXCEPT !.base = base]
  BY DEF Settled
<1> HIDE DEF pruned, base
<1> QED BY <1>2, <1>3, <1>4 DEF Clients

LEMMA AcceptType ==
    ASSUME NEW x \in Clients, NEW p \in Projections
    PROVE  Accept(x, p).c \in Clients /\ Accept(x, p).load \in Nat
<1> DEFINE q == [p EXCEPT !.cursor = IF @ < x.loaded THEN x.loaded ELSE @]
           y == [x EXCEPT !.known = TRUE, !.sync = "synchronized", !.p = q]
<1>1. q \in Projections
  BY DEF Clients, Projections
<1>2. y \in Clients
  BY <1>1 DEF Clients
<1>3. Accept(x, p).c = Settled(y) /\ Accept(x, p).load = IF p.cursor > x.loaded THEN p.cursor ELSE 0
  BY DEF Accept, Reduced
<1> HIDE DEF y
<1> QED BY <1>2, <1>3, SettledType DEF Projections

LEMMA NormalizedType ==
    ASSUME NEW x \in Clients, NEW u \in Updates
    PROVE  Normalized(x, u) \in Projections
<1>1. u.to \in Projections /\ x.p \in Projections /\ x.committed \in Texts
  BY DEF Updates, Clients
<1>2. Rebuilt(x, u) \in Projections
  <2>1. Merge(x.p.overlay, u.to.overlay) \in Texts
    BY <1>1, MergedTexts DEF Projections
  <2> QED BY <1>1, <2>1 DEF Rebuilt, Projections
<1>3. ASSUME NEW p \in Projections PROVE Finished(x, u, p) \in Projections
  <2>1. Merge(x.p.overlay, p.overlay) \in Texts
    BY <1>1, MergedTexts DEF Projections
  <2>2. Pruned(Merge(x.p.overlay, p.overlay), x.committed) \in Texts
    BY <1>1, <2>1, MergedTexts
  <2> QED BY <2>2 DEF Finished, Projections
<1> QED BY <1>2, <1>3, RetainingType DEF Normalized

LEMMA UpdateType ==
    ASSUME NEW x \in Clients, NEW u \in Updates
    PROVE  /\ ApplyUpdate(x, u).c \in Clients
           /\ ApplyUpdate(x, u).load \in Nat /\ ApplyUpdate(x, u).request \in BOOLEAN
<1> DEFINE r == ApplyUpdate(x, u)
           Lost(s) == Reduced([x EXCEPT !.sync = s], TRUE, 0)
<1>1. \/ r = Lost("awaiting")
      \/ r = Lost("gap")
      \/ r = Unchanged(x)
      \/ r = Accept(x, Normalized(x, u))
  BY DEF ApplyUpdate
<1>2. \A s \in {"awaiting", "gap"} :
        Lost(s).c \in Clients /\ Lost(s).load \in Nat /\ Lost(s).request \in BOOLEAN
  BY DEF Reduced, Clients
<1>3. Unchanged(x).c \in Clients /\ Unchanged(x).load \in Nat /\ Unchanged(x).request \in BOOLEAN
  BY DEF Unchanged, Reduced
<1>4. /\ Accept(x, Normalized(x, u)).c \in Clients
      /\ Accept(x, Normalized(x, u)).load \in Nat
      /\ Accept(x, Normalized(x, u)).request \in BOOLEAN
  <2>1. Accept(x, Normalized(x, u)).request = FALSE
    BY DEF Accept, Reduced
  <2> QED BY <2>1, NormalizedType, AcceptType
<1> HIDE DEF r, Lost
<1> QED BY <1>1, <1>2, <1>3, <1>4 DEF r

LEMMA HistoryType ==
    ASSUME NEW x \in Clients, NEW rs \in Seq(Items), NEW ts \in Texts
    PROVE  AppendHistory(x, rs, ts) \in Clients
<1> DEFINE read == [i \in Items |->
                IF \E k \in x.loaded + 1..Len(rs) : rs[k] = i
                THEN ts[i] ELSE x.committed[i]]
           y == [x EXCEPT !.loaded = Len(rs), !.committed = read]
<1>1. read \in Texts
  BY DEF Clients, Texts
<1>2. y \in Clients
  <2>1. Len(rs) \in Nat
    OBVIOUS
  <2> HIDE DEF read
  <2> QED BY <1>1, <2>1 DEF Clients
<1>3. AppendHistory(x, rs, ts) = Settled(y) \/ AppendHistory(x, rs, ts) = x
  BY DEF AppendHistory
<1> HIDE DEF y
<1> QED BY <1>2, <1>3, SettledType

LEMMA OptimisticType ==
    ASSUME NEW x \in Clients, NEW t \in Turns
    PROVE  OptimisticSubmit(x, t) \in Clients /\ OptimisticSubmitFailed(x, t) \in Clients
<1>1. /\ User(t) \in Items /\ x.p.overlay \in Texts /\ x.p.queue \in Seq(Turns)
      /\ x.base \in [Turns -> {"none", "live", "closed"}]
  BY DEF User, Items, Clients, Projections
<1>2. /\ [x.p.overlay EXCEPT ![User(t)] = 1] \in Texts
      /\ [x.p.overlay EXCEPT ![User(t)] = 0] \in Texts
  BY <1>1, ReducerAssumption DEF Texts
<1>3. Append(x.p.queue, t) \in Seq(Turns) /\ Without(x.p.queue, t) \in Seq(Turns)
  BY <1>1, WithoutKeeps, AppendProperties
<1>4. OptimisticSubmit(x, t) \in Clients
  <2> DEFINE shown == [x EXCEPT !.base[t] = IF x.p.live THEN "live" ELSE "closed",
                                !.p.overlay[User(t)] = 1]
  <2>1. shown \in Clients /\ shown.p.queue = x.p.queue
    <3>1. shown = [x EXCEPT !.base = [x.base EXCEPT ![t] = IF x.p.live THEN "live" ELSE "closed"],
                            !.p = [x.p EXCEPT !.overlay = [x.p.overlay EXCEPT ![User(t)] = 1]]]
      BY DEF Clients, Projections
    <3>2. [x.p EXCEPT !.overlay = [x.p.overlay EXCEPT ![User(t)] = 1]] \in Projections
      BY <1>2 DEF Clients, Projections
    <3>3. [x.base EXCEPT ![t] = IF x.p.live THEN "live" ELSE "closed"] \in [Turns -> {"none", "live", "closed"}]
      BY <1>1
    <3> QED BY <3>1, <3>2, <3>3 DEF Clients, Projections
  <2>2. \/ OptimisticSubmit(x, t) = x
        \/ OptimisticSubmit(x, t) = [shown EXCEPT !.p.queue = Append(@, t)]
        \/ OptimisticSubmit(x, t) = [shown EXCEPT !.p = [@ EXCEPT !.live = TRUE, !.active = t, !.phase = "queued"]]
    BY DEF OptimisticSubmit
  <2> DEFINE waits == [shown.p EXCEPT !.queue = Append(@, t)]
             starts == [shown.p EXCEPT !.live = TRUE, !.active = t, !.phase = "queued"]
  <2> HIDE DEF shown
  <2>3. waits \in Projections /\ starts \in Projections
    BY <1>3, <2>1 DEF Clients, Projections, Phases
  <2>4. /\ [shown EXCEPT !.p = waits] \in Clients
        /\ [shown EXCEPT !.p = starts] \in Clients
    <3> HIDE DEF waits, starts
    <3> QED BY <2>1, <2>3 DEF Clients
  <2>5. /\ [shown EXCEPT !.p.queue = Append(@, t)] = [shown EXCEPT !.p = waits]
        /\ [shown EXCEPT !.p = [@ EXCEPT !.live = TRUE, !.active = t, !.phase = "queued"]]
             = [shown EXCEPT !.p = starts]
    BY <2>1 DEF Clients, Projections
  <2> HIDE DEF waits, starts
  <2> QED BY <2>2, <2>4, <2>5
<1>5. OptimisticSubmitFailed(x, t) \in Clients
  <2> DEFINE q == Withdrawn(x.p, t, x.base[t])
  <2>1. q \in Projections
    BY <1>2, <1>3 DEF Withdrawn, Clients, Projections, Phases
  <2>2. \/ OptimisticSubmitFailed(x, t) = x
        \/ OptimisticSubmitFailed(x, t) = [x EXCEPT !.base = [x.base EXCEPT ![t] = "none"], !.p = q]
    BY DEF OptimisticSubmitFailed
  <2>3. [x.base EXCEPT ![t] = "none"] \in [Turns -> {"none", "live", "closed"}]
    BY <1>1
  <2> HIDE DEF q
  <2> QED BY <2>1, <2>2, <2>3 DEF Clients
<1> QED BY <1>4, <1>5
-------------------------------------------------------------------------------
(* The daemon's operators keep a controller well-formed, and the bounds    *)
(* are not overdrawn.                                                      *)

Budgets == {b \in [DOMAIN Bounds -> Nat] : \A k \in DOMAIN Bounds : b[k] <= Bounds[k]}

LEMMA BoundsType ==
    /\ DOMAIN Bounds = {"gens", "trouble"}
    /\ Bounds["gens"] = MaxGen /\ Bounds["trouble"] = MaxTrouble
    /\ Bounds.gens = MaxGen /\ Bounds.trouble = MaxTrouble
    /\ MaxGen \in Nat /\ MaxTrouble \in Nat /\ Retries \in Nat /\ MaxGen > 0
BY SyncAssumption DEF Bounds

LEMMA BudgetSpent ==
    ASSUME NEW k \in DOMAIN Bounds, spent \in Budgets, Has(k)
    PROVE  Using(k) \in Budgets
BY BoundsType DEF Budgets, Has, Using

LEMMA ItemTypes ==
    ASSUME NEW t \in Turns
    PROVE  User(t) \in Items /\ Answer(t) \in Items /\ <<t, "failure">> \in Items
BY DEF User, Answer, Items

LEMMA ProjectionType ==
    ASSUME NEW s \in Controllers, NEW n \in Nat
    PROVE  Projection(s, n) \in Projections
BY DEF Projection, Controllers, Projections

LEMMA UpdateMessage ==
    ASSUME NEW kind \in Kinds, NEW s \in Controllers, NEW n \in Nat, NEW overlay \in Texts
    PROVE  Update(kind, s, n, overlay) \in Updates
<1>1. [Projection(s, n) EXCEPT !.overlay = overlay] \in Projections
  BY ProjectionType DEF Projections
<1> QED BY <1>1 DEF Update, Updates

LEMMA NumberedSound == ASSUME NEW s, Sound(s) PROVE Sound(Numbered(s))
BY DEF Sound, Numbered, Controllers

LEMMA EnqueuedSound == ASSUME NEW s, Sound(s), NEW t \in Turns PROVE Sound(Enqueued(s, t))
<1>1. Append(s.queue, t) \in Seq(Turns)
  BY AppendProperties DEF Sound, Controllers
<1> QED BY <1>1, ReducerAssumption DEF Sound, Enqueued, Controllers, Phases

LEMMA PromotedSound == ASSUME NEW s, Sound(s) PROVE Sound(Promoted(s))
<1>1. s.queue # <<>> => Head(s.queue) \in Turns /\ Tail(s.queue) \in Seq(Turns)
  BY HeadTailProperties DEF Sound, Controllers
<1> QED BY <1>1, ReducerAssumption DEF Sound, Promoted, Controllers, Phases

LEMMA EndedSound ==
    ASSUME NEW s, Sound(s), s.active # NoTurn, NEW outcome
    PROVE  Sound(Ended(s, outcome))
<1>1. s.active \in Turns /\ s.phase # "none"
  BY DEF Sound, Controllers
<1>2. Blank \in Texts /\ [Blank EXCEPT ![<<s.active, "failure">>] = 1] \in Texts
  <2>1. Blank \in Texts /\ <<s.active, "failure">> \in Items /\ 1 \in 0..Chunks
    BY <1>1, ItemTypes, ReducerAssumption DEF Blank, Texts
  <2>2. \A i \in Items : [Blank EXCEPT ![i] = 1] \in [Items -> 0..Chunks]
    BY <2>1 DEF Texts
  <2> QED BY <2>1, <2>2 DEF Texts
<1> DEFINE done == [s EXCEPT !.phase = "done", !.failed = FALSE, !.overlay = Blank]
<1>3. Sound(done)
  BY <1>1, <1>2, ReducerAssumption DEF Sound, Controllers, Phases
<1>4. CASE outcome = "failed"
  <2>1. Ended(s, outcome) = [s EXCEPT !.phase = "done", !.failed = TRUE,
                                     !.overlay = [Blank EXCEPT ![<<s.active, "failure">>] = 1]]
    BY <1>4 DEF Ended
  <2> QED BY <1>1, <1>2, <2>1 DEF Sound, Controllers, Phases
<1>5. CASE outcome # "failed"
  <2>1. Ended(s, outcome) = Promoted(done)
    BY <1>5 DEF Ended
  <2> HIDE DEF done
  <2> QED BY <1>3, <2>1, PromotedSound
<1> QED BY <1>4, <1>5

LEMMA RotatedSound ==
    ASSUME NEW s, Sound(s), spent \in Budgets
    PROVE  Sound(Rotated(s))
<1>1. spent.gens + 1 \in Nat
  BY BoundsType DEF Budgets
<1>2. Blank \in Texts
  BY ReducerAssumption DEF Blank, Texts
<1> QED BY <1>1, <1>2 DEF Sound, Rotated, Controllers

LEMMA AdoptedSound ==
    ASSUME NEW s, Sound(s)
    PROVE  /\ Sound(Adopted(s))
           /\ s.phase \in {"queued", "done"} => Adopted(s).active # NoTurn
<1>1. Sound(Promoted(s))
  BY PromotedSound
<1>2. Sound([Promoted(s) EXCEPT !.failed = FALSE])
  BY <1>1 DEF Sound, Controllers
<1>3. s.phase \in {"queued", "done"} => Promoted(s).active # NoTurn
  <2>1. s.queue # <<>> => Head(s.queue) \in Turns
    BY HeadTailProperties DEF Sound, Controllers
  <2> QED BY <2>1, ReducerAssumption DEF Promoted, Sound, Controllers
<1>4. s.phase \in {"queued", "done"} => [Promoted(s) EXCEPT !.failed = FALSE].active # NoTurn
  BY <1>1, <1>3 DEF Sound, Controllers
<1>5. Adopted(s) \in {s, [Promoted(s) EXCEPT !.failed = FALSE]}
  BY DEF Adopted
<1>6. s.phase \in {"queued", "done"} => s.active # NoTurn
  BY DEF Sound
<1> QED BY <1>2, <1>4, <1>5, <1>6

LEMMA PushType ==
    ASSUME NEW ms \in Seq(Updates), NEW used \in Budgets, wire \in Seq(Updates), Push(ms, used)
    PROVE  wire' \in Seq(Updates) /\ spent' \in Budgets
<1>1. wire \o ms \in Seq(Updates)
  BY ConcatProperties
<1>2. used.trouble < MaxTrouble => [used EXCEPT !.trouble = @ + 1] \in Budgets
  BY BoundsType DEF Budgets
<1> QED BY <1>1, <1>2 DEF Push

LEMMA RecordType ==
    ASSUME TypeOK, NEW n \in Nat, NEW kind \in Kinds, NEW s, Sound(s), NEW used \in Budgets,
           RecordAt(n, kind, s, used)
    PROVE  Sound(d') /\ wire' \in Seq(Updates) /\ spent' \in Budgets
<1>1. Sound(Numbered(s)) /\ s.overlay \in Texts
  BY NumberedSound DEF Sound, Controllers
<1>2. Update(kind, Numbered(s), n, s.overlay) \in Updates
  BY <1>1, UpdateMessage DEF Sound
<1>3. <<Update(kind, Numbered(s), n, s.overlay)>> \in Seq(Updates)
  BY <1>2
<1> QED BY <1>1, <1>3, PushType DEF RecordAt, TypeOK

LEMMA PersistType ==
    ASSUME TypeOK, NEW i \in Items, NEW n \in 0..Chunks, Persist(i, n)
    PROVE  /\ rows' \in Seq(Items) /\ text' \in Texts
           /\ Len(rows') \in Nat /\ Len(rows) \in Nat
<1>1. Append(rows, i) \in Seq(Items) /\ rows \in Seq(Items)
  BY AppendProperties DEF TypeOK
<1>2. [text EXCEPT ![i] = n] \in Texts
  BY DEF TypeOK, Texts
<1>3. rows' \in Seq(Items)
  BY <1>1 DEF Persist
<1> QED BY <1>1, <1>2, <1>3 DEF Persist
-------------------------------------------------------------------------------
(* The types of what each step of the daemon leaves behind.                *)

(* What a step of the daemon owes to the types.                            *)
DaemonTyped ==
    /\ Sound(d') /\ Owned(d')
    /\ rows' \in Seq(Items) /\ text' \in Texts
    /\ wire' \in Seq(Updates) /\ spent' \in Budgets

LEMMA BudgetIs == TypeOK => spent \in Budgets
BY DEF TypeOK, Budgets

LEMMA BlankIsText == Blank \in Texts
BY ReducerAssumption DEF Blank, Texts

LEMMA RecordTyped ==
    ASSUME TypeIInv, NEW kind \in Kinds, NEW s, Sound(s), Owned(s), NEW used \in Budgets,
           Record(kind, s, used), UNCHANGED <<rows, text>>
    PROVE  DaemonTyped
<1>1. Len(rows) \in Nat /\ TypeOK
  BY DEF TypeIInv, TypeOK
<1>2. Sound(d') /\ wire' \in Seq(Updates) /\ spent' \in Budgets
  BY <1>1, RecordType DEF Record
<1>3. Owned(Numbered(s)) /\ d' = Numbered(s)
  BY DEF Record, RecordAt, Numbered, Owned, Working, Sound, Controllers
<1> QED BY <1>2, <1>3 DEF DaemonTyped, TypeIInv, TypeOK

LEMMA OwnedEnqueued ==
    ASSUME NEW s, Sound(s), Owned(s), NEW t \in Turns PROVE Owned(Enqueued(s, t))
BY DEF Sound, Owned, Working, Enqueued, Controllers

LEMMA BareSound == Sound(Bare) /\ Owned(Bare)
<1>1. <<>> \in Seq(Turns)
  OBVIOUS
<1> QED BY <1>1, BlankIsText DEF Bare, Sound, Owned, Controllers, Phases

LEMMA SubmitTypes ==
    ASSUME TypeIInv, NEW t \in Turns, Submit(t)
    PROVE  DaemonTyped
<1>1. TypeOK /\ spent \in Budgets
  BY BudgetIs DEF TypeIInv
<1>2. /\ rows' \in Seq(Items) /\ text' \in Texts /\ Len(rows') \in Nat
  <2>1. User(t) \in Items /\ 1 \in 0..Chunks /\ Persist(User(t), 1)
    <3>1. Persist(User(t), 1)
      BY DEF Submit
    <3>2. 1 \in 0..Chunks
      BY ReducerAssumption
    <3> QED BY <3>1, <3>2, ItemTypes
  <2> QED BY <1>1, <2>1, PersistType
<1>3. \E s : \E used \in Budgets :
        Sound(s) /\ Owned(s) /\ RecordAt(Len(rows'), "event", s, used)
  <2>1. CASE d.gen = 0
    <3> DEFINE s == [Bare EXCEPT !.gen = spent.gens + 1]
    <3>1. spent.gens + 1 \in Nat
      BY <1>1, BoundsType DEF Budgets
    <3>2. Sound(s) /\ Owned(s)
      BY <3>1, BareSound DEF Sound, Owned, Working, Bare, Controllers
    <3>3. Has("gens") /\ RecordAt(Len(rows'), "event", Enqueued(s, t), Using("gens"))
      BY <2>1 DEF Submit
    <3>4. Using("gens") \in Budgets
      BY <1>1, <3>3, BudgetSpent, BoundsType
    <3> HIDE DEF s
    <3>5. Sound(Enqueued(s, t)) /\ Owned(Enqueued(s, t))
      BY <3>2, EnqueuedSound, OwnedEnqueued
    <3> QED BY <3>3, <3>4, <3>5
  <2>2. CASE d.gen # 0
    <3>1. RecordAt(Len(rows'), "event", Enqueued(d, t), spent)
      BY <2>2 DEF Submit
    <3>2. Sound(Enqueued(d, t)) /\ Owned(Enqueued(d, t))
      BY EnqueuedSound, OwnedEnqueued DEF TypeIInv
    <3> QED BY <1>1, <3>1, <3>2
  <2> QED BY <2>1, <2>2
<1>4. PICK s : \E used \in Budgets :
        Sound(s) /\ Owned(s) /\ RecordAt(Len(rows'), "event", s, used)
  BY <1>3
<1>5. Sound(d') /\ wire' \in Seq(Updates) /\ spent' \in Budgets
  BY <1>1, <1>2, <1>4, RecordType DEF Kinds
<1>6. Owned(d')
  <2>1. d' = Numbered(s)
    BY <1>4 DEF RecordAt
  <2> QED BY <2>1, <1>4 DEF Numbered, Owned, Working, Sound, Controllers
<1> QED BY <1>2, <1>5, <1>6 DEF DaemonTyped

LEMMA ClaimTypes == ASSUME TypeIInv, Claim PROVE DaemonTyped
<1> DEFINE s == [Adopted(d) EXCEPT !.phase = "claimed", !.owner = "claim"]
<1>1. Sound(Adopted(d)) /\ Adopted(d).active # NoTurn
  BY AdoptedSound DEF TypeIInv, Claim
<1>2. Sound(s) /\ Owned(s)
  BY <1>1 DEF Sound, Owned, Working, Controllers, Phases
<1> HIDE DEF s
<1> QED BY <1>2, RecordTyped, BudgetIs DEF TypeIInv, Claim, Kinds, s

LEMMA StartedTypes == ASSUME TypeIInv, Started PROVE DaemonTyped
<1> DEFINE s == [d EXCEPT !.phase = "answering", !.open = TRUE]
<1>1. Sound(s) /\ Owned(s)
  BY DEF TypeIInv, Started, Sound, Owned, Working, Controllers, Phases
<1> HIDE DEF s
<1> QED BY <1>1, RecordTyped, BudgetIs DEF TypeIInv, Started, Kinds, s

LEMMA ReadyTypes == ASSUME TypeIInv, SessionReady PROVE DaemonTyped
<1> DEFINE s == [d EXCEPT !.live = TRUE]
<1>1. Sound(s) /\ Owned(s)
  BY DEF TypeIInv, SessionReady, Sound, Owned, Working, Controllers, Phases
<1> HIDE DEF s
<1> QED BY <1>1, RecordTyped, BudgetIs DEF TypeIInv, SessionReady, Kinds, s

LEMMA PersistedTypes == ASSUME TypeIInv, StreamPersisted PROVE DaemonTyped
<1> DEFINE i == Answer(d.active)
<1>1. i \in Items
  <2>1. d.active \in Turns
    BY DEF TypeIInv, Sound, Controllers, StreamPersisted
  <2> QED BY <2>1, ItemTypes
<1>2. text[i] + 1 \in 0..Chunks /\ Persist(i, text[i] + 1)
  BY <1>1, ReducerAssumption DEF StreamPersisted, TypeIInv, TypeOK, Texts
<1>3. rows' \in Seq(Items) /\ text' \in Texts
  BY <1>1, <1>2, PersistType DEF TypeIInv
<1>4. [Blank EXCEPT ![i] = text[i] + 1] \in Texts
  BY <1>1, <1>2, BlankIsText DEF Texts
<1>5. d' = [d EXCEPT !.delta = [Blank EXCEPT ![i] = text[i] + 1]]
  BY DEF StreamPersisted
<1>6. Sound(d') /\ Owned(d')
  BY <1>4, <1>5 DEF TypeIInv, Sound, Owned, Working, Controllers
<1>7. UNCHANGED <<wire, spent>>
  BY DEF StreamPersisted
<1> QED BY <1>3, <1>6, <1>7, BudgetIs DEF DaemonTyped, TypeIInv, TypeOK

LEMMA RecordedTypes == ASSUME TypeIInv, StreamRecorded PROVE DaemonTyped
<1> DEFINE s == [d EXCEPT !.overlay = Merge(@, d.delta), !.delta = Blank]
<1>1. d \in Controllers /\ d.overlay \in Texts /\ d.delta \in Texts
  BY DEF TypeIInv, Sound, Controllers
<1>2. Merge(d.overlay, d.delta) \in Texts
  BY <1>1, MergedTexts
<1>3. Sound(s) /\ Owned(s)
  BY <1>2, BlankIsText DEF TypeIInv, Sound, Owned, Working, Controllers
<1>4. /\ d' = Numbered(s)
      /\ Push(<<Update("compact", Numbered(s), Len(rows), d.delta)>>, spent)
      /\ UNCHANGED <<rows, text>>
  BY DEF StreamRecorded
<1> HIDE DEF s
<1>5. Sound(Numbered(s)) /\ Owned(Numbered(s))
  BY <1>3, NumberedSound DEF Owned, Working, Numbered, Sound, Controllers
<1>6. Update("compact", Numbered(s), Len(rows), d.delta) \in Updates
  BY <1>1, <1>5, UpdateMessage DEF Sound, Kinds, TypeIInv, TypeOK
<1>7. wire' \in Seq(Updates) /\ spent' \in Budgets
  <2>1. <<Update("compact", Numbered(s), Len(rows), d.delta)>> \in Seq(Updates)
    BY <1>6
  <2> QED BY <1>4, <2>1, PushType, BudgetIs DEF TypeIInv, TypeOK
<1> QED BY <1>4, <1>5, <1>7 DEF DaemonTyped, TypeIInv, TypeOK

LEMMA FinishTypes == ASSUME TypeIInv, Finish PROVE DaemonTyped
<1>1. PICK outcome \in Outcomes :
        Record("terminal", [Ended(d, outcome) EXCEPT !.owner = "idle"], spent)
  BY DEF Finish
<1>2. Sound(Ended(d, outcome))
  BY EndedSound DEF TypeIInv, Finish, Owned, Working
<1> DEFINE s == [Ended(d, outcome) EXCEPT !.owner = "idle"]
<1>3. Sound(s) /\ Owned(s)
  BY <1>2 DEF Sound, Owned, Controllers
<1> HIDE DEF s
<1> QED BY <1>1, <1>3, RecordTyped, BudgetIs DEF TypeIInv, Finish, Kinds, s

LEMMA CancelClaimedTypes == ASSUME TypeIInv, CancelClaimed PROVE DaemonTyped
<1> DEFINE s == [d EXCEPT !.phase = "cancelling", !.failed = FALSE, !.owner = "settling"]
<1>1. Sound(s) /\ Owned(s)
  BY DEF TypeIInv, CancelClaimed, Sound, Owned, Working, Controllers, Phases
<1>2. Using("trouble") \in Budgets
  BY BudgetIs, BudgetSpent, BoundsType DEF CancelClaimed, TypeIInv
<1> HIDE DEF s
<1> QED BY <1>1, <1>2, RecordTyped DEF CancelClaimed, Kinds, s

LEMMA CancelSettledTypes == ASSUME TypeIInv, CancelSettled PROVE DaemonTyped
<1> DEFINE s == [Ended(Rotated(d), "cancelled") EXCEPT !.owner = "idle"]
<1>1. Sound(Rotated(d))
  BY RotatedSound, BudgetIs DEF TypeIInv
<1>2. Rotated(d).active # NoTurn
  BY DEF TypeIInv, CancelSettled, Owned, Working, Rotated, Sound, Controllers
<1>3. Sound(Ended(Rotated(d), "cancelled"))
  BY <1>1, <1>2, EndedSound
<1>4. Sound(s) /\ Owned(s)
  BY <1>3 DEF Sound, Owned, Controllers
<1>5. Using("gens") \in Budgets
  BY BudgetIs, BudgetSpent, BoundsType DEF CancelSettled, TypeIInv
<1> HIDE DEF s
<1> QED BY <1>4, <1>5, RecordTyped DEF CancelSettled, Kinds, s

LEMMA CancelQueuedTypes == ASSUME TypeIInv, CancelQueued PROVE DaemonTyped
<1> DEFINE asked == Numbered([d EXCEPT !.phase = "cancelling", !.failed = FALSE])
           idle == [asked EXCEPT !.owner = "idle"]
           ended == Numbered(Ended(idle, "cancelled"))
           ms == <<Update("event", asked, Len(rows), asked.overlay),
                   Update("terminal", ended, Len(rows), ended.overlay)>>
<1>1. d' = ended /\ Push(ms, Using("trouble")) /\ UNCHANGED <<rows, text>>
  BY DEF CancelQueued
<1>2. Sound(asked) /\ asked.active # NoTurn
  <2> DEFINE a == [d EXCEPT !.phase = "cancelling", !.failed = FALSE]
  <2>1. d.active # NoTurn
    BY DEF TypeIInv, CancelQueued, Sound
  <2>2. Sound(a) /\ a.active = d.active
    BY <2>1 DEF TypeIInv, Sound, Controllers, Phases
  <2> HIDE DEF a
  <2>3. Sound(Numbered(a)) /\ Numbered(a).active = a.active
    BY <2>2, NumberedSound DEF Numbered, Sound, Controllers
  <2> QED BY <2>1, <2>2, <2>3 DEF a
<1>3. Sound(idle) /\ idle.active # NoTurn /\ idle.owner = "idle"
  <2> HIDE DEF asked
  <2> QED BY <1>2 DEF Sound, Controllers
<1>4. Sound(Ended(idle, "cancelled")) /\ Ended(idle, "cancelled").owner = "idle"
  <2> HIDE DEF idle
  <2>1. Ended(idle, "cancelled").owner = "idle"
    BY <1>3 DEF Ended, Promoted, Sound, Controllers
  <2> QED BY <1>3, <2>1, EndedSound
<1>5. Sound(ended) /\ Owned(ended)
  BY <1>4, NumberedSound DEF Numbered, Owned, Sound, Controllers
<1> HIDE DEF asked, ended
<1>6. ms \in Seq(Updates)
  <2>1. /\ Update("event", asked, Len(rows), asked.overlay) \in Updates
        /\ Update("terminal", ended, Len(rows), ended.overlay) \in Updates
    BY <1>2, <1>5, UpdateMessage DEF Sound, Controllers, Kinds, TypeIInv, TypeOK
  <2> QED BY <2>1
<1>7. Using("trouble") \in Budgets
  BY BudgetIs, BudgetSpent, BoundsType DEF CancelQueued, TypeIInv
<1> HIDE DEF ms
<1>8. wire' \in Seq(Updates) /\ spent' \in Budgets
  BY <1>1, <1>6, <1>7, PushType DEF TypeIInv, TypeOK
<1> QED BY <1>1, <1>5, <1>8 DEF DaemonTyped, TypeIInv, TypeOK

LEMMA CloseTypes == ASSUME TypeIInv, Close PROVE DaemonTyped
<1>1. CASE d.live
  <2> DEFINE s == [d EXCEPT !.owner = "closing", !.active = NoTurn,
                            !.phase = "none", !.failed = FALSE, !.live = FALSE]
  <2>1. Sound(s) /\ Owned(s)
    BY DEF TypeIInv, Sound, Owned, Working, Controllers, Phases
  <2>2. Record("event", s, spent) /\ UNCHANGED <<rows, text>>
    BY <1>1 DEF Close
  <2> HIDE DEF s
  <2> QED BY <2>1, <2>2, RecordTyped, BudgetIs DEF TypeIInv, Kinds
<1>2. CASE ~d.live
  <2>1. d' = [d EXCEPT !.owner = "closing"] /\ UNCHANGED <<rows, text, wire, spent>>
    BY <1>2 DEF Close
  <2>2. Sound(d') /\ Owned(d')
    BY <2>1 DEF TypeIInv, Sound, Owned, Working, Controllers
  <2> QED BY <2>1, <2>2, BudgetIs DEF DaemonTyped, TypeIInv, TypeOK
<1> QED BY <1>1, <1>2

LEMMA ClosedTypes == ASSUME TypeIInv, Closed PROVE DaemonTyped
<1>1. Sound(Rotated(d)) /\ d' = [Rotated(d) EXCEPT !.owner = "idle"] /\ UNCHANGED <<rows, text, wire>>
  BY RotatedSound, BudgetIs DEF TypeIInv, Closed
<1>2. Sound(d') /\ Owned(d')
  BY <1>1 DEF Sound, Owned, Controllers
<1>3. spent' \in Budgets
  BY BudgetIs, BudgetSpent, BoundsType DEF Closed, Spend, TypeIInv
<1> QED BY <1>1, <1>2, <1>3 DEF DaemonTyped, TypeIInv, TypeOK

LEMMA EvictTypes == ASSUME TypeIInv, Evict PROVE DaemonTyped
BY BareSound, BudgetIs DEF Evict, DaemonTyped, TypeIInv, TypeOK

LEMMA RefreshTypes == ASSUME TypeIInv, Refresh PROVE DaemonTyped
<1>1. Push(<<Update("refresh", d, Len(rows), d.overlay)>>, Using("trouble")) /\ UNCHANGED <<rows, text, d>>
  BY DEF Refresh
<1>2. <<Update("refresh", d, Len(rows), d.overlay)>> \in Seq(Updates)
  <2>1. Update("refresh", d, Len(rows), d.overlay) \in Updates
    BY UpdateMessage DEF Sound, Controllers, Kinds, TypeIInv, TypeOK
  <2> QED BY <2>1
<1>3. Using("trouble") \in Budgets
  BY BudgetIs, BudgetSpent, BoundsType DEF Refresh, TypeIInv
<1>4. wire' \in Seq(Updates) /\ spent' \in Budgets
  BY <1>1, <1>2, <1>3, PushType DEF TypeIInv, TypeOK
<1> QED BY <1>1, <1>4 DEF DaemonTyped, TypeIInv, TypeOK

LEMMA DaemonKeepsMirror ==
    DaemonStep => /\ UNCHANGED <<c, request, hydrate, retry, attempts, loadTo, loader, sends>>
                  /\ inbox' \subseteq inbox
BY DEF DaemonStep, Submit, Claim, Started, SessionReady, StreamPersisted,
       StreamRecorded, Finish, CancelQueued, CancelClaimed, CancelSettled,
       Close, Closed, Evict, Refresh, mirrorVars

LEMMA DaemonTypes == TypeIInv /\ DaemonStep => TypeIInv'
<1> SUFFICES ASSUME TypeIInv, DaemonStep PROVE TypeIInv'
  OBVIOUS
<1>1. DaemonTyped
  BY SubmitTypes, ClaimTypes, StartedTypes, ReadyTypes, PersistedTypes, RecordedTypes,
     FinishTypes, CancelQueuedTypes, CancelClaimedTypes, CancelSettledTypes, CloseTypes,
     ClosedTypes, EvictTypes, RefreshTypes DEF DaemonStep
<1>2. UNCHANGED <<c, request, hydrate, retry, attempts, loadTo, loader, sends>> /\ inbox' \subseteq inbox
  BY DaemonKeepsMirror
<1> QED BY <1>1, <1>2 DEF DaemonTyped, TypeIInv, TypeOK, Sound, Budgets
-------------------------------------------------------------------------------
(* The types of what each step of the mirror leaves behind.                *)

(* What a step of the mirror owes to the types.                            *)
MirrorTyped ==
    /\ c' \in Clients /\ wire' \in Seq(Updates)
    /\ request' \in Tasks /\ hydrate' \in Tasks
    /\ retry' \in BOOLEAN /\ attempts' \in 0..Retries /\ (retry' => attempts' > 0)
    /\ loadTo' \in Nat /\ loader' \in BOOLEAN
    /\ inbox' \subseteq Turns /\ sends' \in [Turns -> {"new", "sent", "failed"}]
    /\ spent' \in Budgets /\ UNCHANGED daemonVars

LEMMA TaskTypes ==
    ASSUME TypeOK
    PROVE  /\ Idle \in Tasks /\ Asked \in Tasks
           /\ request.p \in Projections /\ hydrate.p \in Projections
           /\ \A task : Answered(task) \in Tasks
           /\ Nothing \in Projections
<1>1. <<>> \in Seq(Turns)
  OBVIOUS
<1>2. Nothing \in Projections
  BY <1>1, BlankIsText DEF Nothing, Projections, Phases
<1>3. Projection(d, Len(rows)) \in Projections
  BY ProjectionType DEF TypeOK
<1> QED BY <1>2, <1>3 DEF Idle, Asked, Answered, Tasks, TypeOK

LEMMA BackoffTypes ==
    ASSUME TypeOK,
           \/ retry' = FALSE /\ attempts' = 0
           \/ retry' = FALSE /\ attempts' = attempts
           \/ retry' = TRUE /\ attempts' = attempts + 1 /\ attempts < Retries
           \/ UNCHANGED <<retry, attempts>>
    PROVE  retry' \in BOOLEAN /\ attempts' \in 0..Retries /\ (retry' => attempts' > 0)
<1>1. Retries \in Nat /\ retry \in BOOLEAN /\ attempts \in 0..Retries /\ (retry => attempts > 0)
  BY BoundsType DEF TypeOK
<1>2. attempts' \in 0..Retries
  <2>1. \/ attempts' = 0 \/ attempts' = attempts
        \/ attempts' = attempts + 1 /\ attempts < Retries
    OBVIOUS
  <2> QED BY <1>1, <2>1
<1>3. ASSUME retry' = FALSE 
      PROVE retry' \in BOOLEAN /\ (retry' => attempts' > 0)
  BY <1>3
<1>4. ASSUME retry' = TRUE, attempts' = attempts + 1 
      PROVE retry' \in BOOLEAN /\ (retry' => attempts' > 0)
  <2>1. attempts' > 0
    BY <1>1, <1>4
  <2> QED BY <1>4, <2>1
<1>5. ASSUME retry' = retry, attempts' = attempts 
      PROVE retry' \in BOOLEAN /\ (retry' => attempts' > 0)
  BY <1>1, <1>5
<1> QED BY <1>2, <1>3, <1>4, <1>5

LEMMA AppliedType ==
    ASSUME TypeIInv, NEW r, Apply(r), r.c \in Clients, r.load \in Nat
    PROVE  /\ c' \in Clients /\ loadTo' \in Nat
           /\ retry' \in BOOLEAN /\ attempts' \in 0..Retries /\ (retry' => attempts' > 0)
<1>1. c' \in Clients /\ loadTo' \in Nat
  BY DEF Apply, ScheduleLoad, TypeIInv, TypeOK
<1>2. (retry' = FALSE /\ attempts' = 0) \/ UNCHANGED <<retry, attempts>>
  BY DEF Apply
<1> QED BY <1>1, <1>2, BackoffTypes DEF TypeIInv

LEMMA ReceiveTypes == ASSUME TypeIInv, Receive PROVE MirrorTyped
<1> DEFINE r == ApplyUpdate(c, Head(wire))
<1>1. /\ wire' = Tail(wire) /\ Apply(r)
      /\ request' = IF r.request /\ request.st = "idle" THEN Asked ELSE request
      /\ UNCHANGED <<daemonVars, hydrate, loader, inbox, sends, spent>>
  BY DEF Receive
<1>2. wire' \in Seq(Updates) /\ Head(wire) \in Updates
  BY <1>1, HeadTailProperties DEF Receive, TypeIInv, TypeOK
<1>3. r.c \in Clients /\ r.load \in Nat
  BY <1>2, UpdateType DEF TypeIInv, TypeOK
<1> HIDE DEF r
<1>4. request' \in Tasks
  BY <1>1, TaskTypes DEF TypeIInv, TypeOK
<1> QED BY <1>1, <1>2, <1>3, <1>4, AppliedType, BudgetIs DEF MirrorTyped, TypeIInv, TypeOK

LEMMA ArrivalTypes == ASSUME TypeIInv, RequestArrives \/ HydrateArrives PROVE MirrorTyped
<1>1. PICK p \in Projections : Apply(ApplySnapshot(c, p))
  BY TaskTypes DEF RequestArrives, HydrateArrives, TypeIInv
<1>2. ApplySnapshot(c, p).c \in Clients /\ ApplySnapshot(c, p).load \in Nat
  BY RetainingType, AcceptType DEF ApplySnapshot, TypeIInv, TypeOK
<1>3. /\ c' \in Clients /\ loadTo' \in Nat
      /\ retry' \in BOOLEAN /\ attempts' \in 0..Retries /\ (retry' => attempts' > 0)
  BY <1>1, <1>2, AppliedType
<1>4. /\ UNCHANGED <<daemonVars, wire, loader, inbox, sends, spent>>
      /\ request' \in {Idle, request} /\ hydrate' \in {Idle, hydrate}
  BY DEF RequestArrives, HydrateArrives
<1> QED BY <1>3, <1>4, TaskTypes, BudgetIs DEF MirrorTyped, TypeIInv, TypeOK

LEMMA TroubleSpent == ASSUME TypeIInv, Spend("trouble") PROVE spent' \in Budgets
BY BudgetIs, BudgetSpent, BoundsType DEF Spend, TypeIInv

LEMMA LoadTypes == ASSUME TypeIInv, LoadHistory PROVE MirrorTyped
<1>1. /\ loadTo' = 0
      /\ UNCHANGED <<daemonVars, wire, request, hydrate, loader, inbox, sends>>
  BY DEF LoadHistory
<1>2. \/ /\ c' \in {AppendHistory(c, rows, text), c}
         /\ \/ retry' = FALSE /\ attempts' = 0
            \/ UNCHANGED <<retry, attempts>>
         /\ UNCHANGED spent
      \/ Spend("trouble") /\ UNCHANGED <<c, retry, attempts>>
  BY DEF LoadHistory
<1>3. AppendHistory(c, rows, text) \in Clients
  BY HistoryType DEF TypeIInv, TypeOK
<1>4. /\ c' \in Clients /\ spent' \in Budgets
      /\ retry' \in BOOLEAN /\ attempts' \in 0..Retries /\ (retry' => attempts' > 0)
  <2>1. c' \in Clients
    BY <1>2, <1>3 DEF TypeIInv, TypeOK
  <2>2. spent' \in Budgets
    BY <1>2, TroubleSpent, BudgetIs DEF TypeIInv
  <2> QED BY <1>2, <2>1, <2>2, BackoffTypes DEF TypeIInv
<1> QED BY <1>1, <1>4 DEF MirrorTyped, TypeIInv, TypeOK

LEMMA AppearsTypes == ASSUME TypeIInv, ViewAppears PROVE MirrorTyped
<1>1. /\ loader' = TRUE /\ hydrate' = Asked
      /\ UNCHANGED <<daemonVars, wire, c, request, retry, attempts, inbox, sends>>
      /\ spent' \in Budgets
  BY TroubleSpent DEF ViewAppears
<1>2. loadTo' \in Nat
  <2>1. c.p.cursor \in Nat /\ loadTo \in Nat
    BY DEF TypeIInv, TypeOK, Clients, Projections
  <2> QED BY <2>1 DEF ViewAppears, ScheduleLoad
<1> QED BY <1>1, <1>2, TaskTypes DEF MirrorTyped, TypeIInv, TypeOK

LEMMA SendTypes ==
    ASSUME TypeIInv, NEW t \in Turns, Send(t) \/ SendFails(t) PROVE MirrorTyped
<1>1. c' \in Clients
  BY OptimisticType DEF Send, SendFails, TypeIInv, TypeOK
<1>2. inbox' \subseteq Turns /\ sends' \in [Turns -> {"new", "sent", "failed"}]
  BY DEF Send, SendFails, TypeIInv, TypeOK
<1>3. spent' \in Budgets
  BY TroubleSpent, BudgetIs DEF Send, SendFails, TypeIInv
<1>4. UNCHANGED <<daemonVars, wire, request, hydrate, retry, attempts, loadTo, loader>>
  BY DEF Send, SendFails
<1> QED BY <1>1, <1>2, <1>3, <1>4 DEF MirrorTyped, TypeIInv, TypeOK

LEMMA CallTypes ==
    ASSUME TypeIInv,
           RequestAnswered \/ RequestFails \/ RetryWakes \/ HydrateAnswered \/ HydrateFails
    PROVE  MirrorTyped
<1>1. request' \in {Idle, Asked, request, Answered(request)}
  BY DEF RequestAnswered, RequestFails, RetryWakes, HydrateAnswered, HydrateFails
<1>2. hydrate' \in {Idle, hydrate, Answered(hydrate)}
  BY DEF RequestAnswered, RequestFails, RetryWakes, HydrateAnswered, HydrateFails
<1>3. UNCHANGED <<daemonVars, wire, c, loadTo, loader, inbox, sends>>
  BY DEF RequestAnswered, RequestFails, RetryWakes, HydrateAnswered, HydrateFails
<1>4. spent' \in Budgets
  BY TroubleSpent, BudgetIs
  DEF RequestAnswered, RequestFails, RetryWakes, HydrateAnswered, HydrateFails, TypeIInv
<1>5. retry' \in BOOLEAN /\ attempts' \in 0..Retries /\ (retry' => attempts' > 0)
  <2>1. \/ retry' = TRUE /\ attempts' = attempts + 1 /\ attempts < Retries
        \/ retry' = FALSE /\ attempts' = attempts
        \/ UNCHANGED <<retry, attempts>>
    BY DEF RequestAnswered, RequestFails, RetryWakes, HydrateAnswered, HydrateFails
  <2> QED BY <2>1, BackoffTypes DEF TypeIInv
<1>6. request' \in Tasks /\ hydrate' \in Tasks
  BY <1>1, <1>2, TaskTypes DEF TypeIInv, TypeOK
<1> QED BY <1>3, <1>4, <1>5, <1>6 DEF MirrorTyped, TypeIInv, TypeOK

LEMMA MirrorTypes == TypeIInv /\ MirrorStep => TypeIInv'
<1> SUFFICES ASSUME TypeIInv, MirrorStep PROVE TypeIInv'
  OBVIOUS
<1>1. MirrorTyped
  BY ReceiveTypes, ArrivalTypes, LoadTypes, AppearsTypes, SendTypes, CallTypes DEF MirrorStep
<1>2. d' = d /\ rows' = rows /\ text' = text
  BY <1>1 DEF MirrorTyped, daemonVars
<1> QED BY <1>1, <1>2 DEF MirrorTyped, TypeIInv, TypeOK, Sound, Owned, Working, Budgets

LEMMA InitTypes == Init => TypeIInv
<1> SUFFICES ASSUME Init PROVE TypeIInv
  OBVIOUS
<1>1. Sound(d) /\ Owned(d)
  <2>1. CASE Cold
    BY <2>1, BareSound DEF Cold
  <2>2. CASE Warm
    BY <2>2, BareSound DEF Warm, Bare, Sound, Owned, Working, Controllers
  <2> QED BY <2>1, <2>2 DEF Init
<1>2. rows \in Seq(Items) /\ wire \in Seq(Updates) /\ text \in Texts
  BY BlankIsText DEF Init
<1>3. Nothing \in Projections /\ Idle \in Tasks
  <2>1. <<>> \in Seq(Turns)
    OBVIOUS
  <2> QED BY <2>1, BlankIsText DEF Nothing, Projections, Phases, Idle, Tasks
<1>4. NewClient \in Clients
  BY <1>3, BlankIsText DEF NewClient, Clients
<1>5. c \in Clients /\ loader \in BOOLEAN
  <2>1. CASE Cold
    BY <2>1, <1>4 DEF Cold
  <2>2. CASE Warm
    <3>1. Projection(d, 0) \in Projections
      BY <1>1, ProjectionType DEF Sound
    <3>2. c = [NewClient EXCEPT !.known = TRUE, !.sync = "synchronized", !.p = Projection(d, 0)] /\ loader = TRUE
      BY <2>2 DEF Warm
    <3> QED BY <1>4, <3>1, <3>2 DEF Clients
  <2> QED BY <2>1, <2>2 DEF Init
<1>6. spent \in Budgets
  BY BoundsType DEF Init, Budgets
<1>7. request \in Tasks /\ hydrate \in Tasks
  BY <1>3 DEF Init
<1>8. retry = FALSE /\ attempts = 0 /\ loadTo = 0 /\ inbox = {} /\ sends = [t \in Turns |-> "new"]
  BY DEF Init
<1>9. attempts \in 0..Retries
  BY <1>8, BoundsType
<1> QED BY <1>1, <1>2, <1>5, <1>6, <1>7, <1>8, <1>9 DEF TypeIInv, TypeOK, Budgets, Sound

LEMMA StutterTypes == TypeIInv /\ UNCHANGED vars => TypeIInv'
BY DEF TypeIInv, TypeOK, vars, Sound, Owned, Working

LEMMA StepTypes == TypeIInv /\ [Next]_vars => TypeIInv'
BY DaemonTypes, MirrorTypes, StutterTypes DEF Next

(* Every variable of the daemon, of the wire and of the mirror keeps its   *)
(* type: no controller without a turn in a phase that needs one, no update *)
(* or answered call that is not a projection, no more retries than are     *)
(* allowed (DaemonChatController.swift, RemoteChatSession.swift).          *)
THEOREM ChatTypes == Spec => []TypeOK
<1>1. TypeIInv => TypeOK
  BY DEF TypeIInv
<1> QED BY InitTypes, StepTypes, <1>1, PTL DEF Spec
-------------------------------------------------------------------------------
(* What the daemon's operators leave of the generation, the sequence, the  *)
(* overlay and the turns listed.                                           *)

(* Operators of the daemon.                                                *)
LEMMA ListedType == ASSUME NEW s, Sound(s) PROVE Listed(s) \in SUBSET Turns
<1>1. \A k \in DOMAIN s.queue : s.queue[k] \in Turns
  BY ElementOfSeq DEF Sound, Controllers
<1> QED BY <1>1 DEF Listed, Sound, Controllers

LEMMA NumberedKeeps ==
    ASSUME NEW s, Sound(s)
    PROVE  /\ Numbered(s).gen = s.gen /\ Numbered(s).seq = s.seq + 1
           /\ Numbered(s).overlay = s.overlay /\ Numbered(s).delta = s.delta
           /\ Listed(Numbered(s)) = Listed(s)
BY DEF Numbered, Sound, Controllers, Listed

LEMMA EnqueuedKeeps ==
    ASSUME NEW s, Sound(s), NEW t \in Turns
    PROVE  /\ Enqueued(s, t).gen = s.gen /\ Enqueued(s, t).seq = s.seq
           /\ Enqueued(s, t).overlay = s.overlay /\ Enqueued(s, t).delta = s.delta
           /\ Listed(Enqueued(s, t)) \subseteq Listed(s) \cup {t}
<1>1. s.queue \in Seq(Turns)
  BY DEF Sound, Controllers
<1>2. \A k \in DOMAIN Append(s.queue, t) :
        (k \in DOMAIN s.queue /\ Append(s.queue, t)[k] = s.queue[k]) \/ Append(s.queue, t)[k] = t
  BY <1>1
<1>3. CASE Enqueued(s, t) = [s EXCEPT !.queue = Append(@, t)]
  <2>1. Enqueued(s, t).queue = Append(s.queue, t) /\ Enqueued(s, t).active = s.active
    BY <1>3 DEF Sound, Controllers
  <2>2. Listed(Enqueued(s, t)) \subseteq Listed(s) \cup {t}
    BY <1>2, <2>1 DEF Listed
  <2> QED BY <1>3, <2>2 DEF Sound, Controllers
<1>4. CASE Enqueued(s, t) = [s EXCEPT !.active = t, !.phase = "queued", !.failed = FALSE]
  BY <1>4 DEF Sound, Controllers, Listed
<1> QED BY <1>3, <1>4 DEF Enqueued

LEMMA PromotedKeeps ==
    ASSUME NEW s, Sound(s)
    PROVE  /\ Promoted(s).gen = s.gen /\ Promoted(s).seq = s.seq
           /\ Promoted(s).overlay = s.overlay /\ Promoted(s).delta = s.delta
           /\ Listed(Promoted(s)) \subseteq Listed(s)
<1>1. s.queue \in Seq(Turns)
  BY DEF Sound, Controllers
<1>2. CASE s.queue = <<>>
  BY <1>2 DEF Promoted
<1>3. CASE s.queue # <<>>
  <2> DEFINE p == [s EXCEPT !.active = Head(s.queue), !.phase = "queued", !.queue = Tail(@)]
  <2>1. Promoted(s) = p
    BY <1>3 DEF Promoted
  <2>2. p.active = Head(s.queue) /\ p.queue = Tail(s.queue)
    BY DEF Sound, Controllers
  <2>3. /\ \A k \in DOMAIN Tail(s.queue) : k + 1 \in DOMAIN s.queue /\ Tail(s.queue)[k] = s.queue[k + 1]
        /\ 1 \in DOMAIN s.queue /\ Head(s.queue) = s.queue[1]
    BY <1>1, <1>3
  <2>4. Listed(p) \subseteq Listed(s)
    <3> HIDE DEF p
    <3> QED BY <2>2, <2>3 DEF Listed
  <2>5. p.gen = s.gen /\ p.seq = s.seq /\ p.overlay = s.overlay /\ p.delta = s.delta
    BY DEF Sound, Controllers
  <2> QED BY <2>1, <2>4, <2>5
<1> QED BY <1>2, <1>3

LEMMA AdoptedKeeps ==
    ASSUME NEW s, Sound(s)
    PROVE  /\ Adopted(s).gen = s.gen /\ Adopted(s).seq = s.seq
           /\ Adopted(s).overlay = s.overlay /\ Adopted(s).delta = s.delta
           /\ Listed(Adopted(s)) \subseteq Listed(s)
<1>1. Sound(Promoted(s))
  BY PromotedSound
<1> DEFINE p == Promoted(s)
           q == [p EXCEPT !.failed = FALSE]
<1>2. Adopted(s) = s \/ Adopted(s) = q
  BY DEF Adopted
<1>3. q.gen = p.gen /\ q.seq = p.seq /\ q.overlay = p.overlay /\ q.delta = p.delta /\ Listed(q) = Listed(p)
  BY <1>1 DEF Sound, Controllers, Listed
<1> HIDE DEF p, q
<1> QED BY <1>2, <1>3, PromotedKeeps DEF p

(* The end of a turn leaves at most a notice in the overlay.               *)
LEMMA EndedKeeps ==
    ASSUME NEW s, Sound(s), s.active # NoTurn, NEW outcome
    PROVE  /\ Ended(s, outcome).gen = s.gen /\ Ended(s, outcome).seq = s.seq
           /\ Ended(s, outcome).delta = s.delta
           /\ Ended(s, outcome).overlay \in Notices
           /\ \A t \in Turns : Ended(s, outcome).overlay[Answer(t)] = 0
           /\ Listed(Ended(s, outcome)) \subseteq Listed(s)
<1>1. s.active \in Turns /\ Blank \in Texts /\ 1 \in 0..Chunks
  BY BlankIsText, ReducerAssumption DEF Sound, Controllers
<1> DEFINE notice == [Blank EXCEPT ![<<s.active, "failure">>] = 1]
<1>2. Blank \in Notices /\ \A t \in Turns : Blank[Answer(t)] = 0
  <2>1. \A i \in Items : Blank[i] = 0
    BY DEF Blank
  <2>2. \A t \in Turns : Blank[User(t)] = 0 /\ Blank[Answer(t)] = 0
    BY <2>1, ItemTypes
  <2>3. \A i \in Items : Blank[i] <= 1
    BY <2>1
  <2> QED BY <1>1, <2>2, <2>3 DEF Notices, Streams
<1>3. notice \in Notices /\ \A t \in Turns : notice[Answer(t)] = 0
  <2>1. <<s.active, "failure">> \in Items
    BY <1>1, ItemTypes
  <2>2. /\ notice \in Texts
        /\ \A i \in Items : notice[i] = IF i = <<s.active, "failure">> THEN 1 ELSE 0
    BY <1>1, <2>1 DEF Blank, Texts
  <2>3. \A t \in Turns : User(t) # <<s.active, "failure">> /\ Answer(t) # <<s.active, "failure">>
    BY DEF User, Answer
  <2>4. \A t \in Turns : notice[User(t)] = 0 /\ notice[Answer(t)] = 0
    BY <2>2, <2>3, ItemTypes
  <2> HIDE DEF notice
  <2>5. \A i \in Items : notice[i] <= 1
    BY <2>2
  <2> QED BY <2>2, <2>4, <2>5 DEF Notices, Streams
<1>4. CASE outcome = "failed"
  <2>1. Ended(s, outcome) = [s EXCEPT !.phase = "done", !.failed = TRUE, !.overlay = notice]
    BY <1>4 DEF Ended
  <2> HIDE DEF notice
  <2>2. /\ Ended(s, outcome).gen = s.gen /\ Ended(s, outcome).seq = s.seq
        /\ Ended(s, outcome).delta = s.delta /\ Ended(s, outcome).overlay = notice
        /\ Listed(Ended(s, outcome)) = Listed(s)
    BY <2>1 DEF Sound, Controllers, Listed
  <2> QED BY <1>3, <2>2
<1>5. CASE outcome # "failed"
  <2> DEFINE done == [s EXCEPT !.phase = "done", !.failed = FALSE, !.overlay = Blank]
  <2>1. Sound(done)
    BY <1>1, ReducerAssumption DEF Sound, Controllers, Phases
  <2>2. /\ done.gen = s.gen /\ done.seq = s.seq /\ done.delta = s.delta /\ done.overlay = Blank
        /\ Listed(done) = Listed(s)
    BY DEF Sound, Controllers, Listed
  <2>3. Ended(s, outcome) = Promoted(done)
    BY <1>5 DEF Ended
  <2> HIDE DEF done
  <2> QED BY <1>2, <2>1, <2>2, <2>3, PromotedKeeps
<1> QED BY <1>4, <1>5

LEMMA RotatedKeeps ==
    ASSUME NEW s, Sound(s)
    PROVE  /\ Rotated(s).gen = spent.gens + 1 /\ Rotated(s).seq = s.seq
           /\ Rotated(s).overlay = Blank /\ Rotated(s).delta = s.delta
           /\ Rotated(s).active = s.active
           /\ Listed(Rotated(s)) = Listed(s)
BY DEF Rotated, Sound, Controllers, Listed

(* What stands on the wire after a push.                                   *)
LEMMA WireGrows ==
    ASSUME NEW w \in Seq(Updates), NEW ms \in Seq(Updates)
    PROVE  /\ w \o ms \in Seq(Updates) /\ DOMAIN (w \o ms) = 1..(Len(w) + Len(ms))
           /\ \A k \in DOMAIN w : k \in DOMAIN (w \o ms) /\ (w \o ms)[k] = w[k]
           /\ \A k \in DOMAIN (w \o ms) : k \notin DOMAIN w =>
                k - Len(w) \in DOMAIN ms /\ (w \o ms)[k] = ms[k - Len(w)]
OBVIOUS

(* What the daemon's steps leave alone and the history is about.           *)
Mirrored == <<c, request, hydrate, sends>>

(* The transcript only grows, at its end.                                  *)
Grown ==
    /\ Len(rows) <= Len(rows')
    /\ \A k \in 1..Len(rows) : rows'[k] = rows[k]
    /\ Stored(text', rows', Len(rows'))

(* An answer that is in the rows stays there.                              *)
LEMMA GrownKeeps ==
    ASSUME rows \in Seq(Items), rows' \in Seq(Items), Grown,
           NEW t \in Turns, NEW n \in Nat, n <= Len(rows), InRows(t, rows, n)
    PROVE  InRows(t, rows', n) /\ InRows(t, rows', Len(rows'))
<1>1. PICK k \in 1..n : rows[k] = Answer(t)
  BY DEF InRows
<1>2. k \in 1..Len(rows) /\ k \in 1..Len(rows') /\ rows'[k] = rows[k]
  BY DEF Grown
<1> QED BY <1>1, <1>2 DEF InRows

(* A step of the daemon that leaves the mirror alone: what was said stays  *)
(* said, and the history goes on with what is said now.                    *)
LEMMA HistoryGoesOn ==
    ASSUME TypeIInv, TypeIInv', DaemonInv, SentInv, UNCHANGED Mirrored,
           NEW H \in Histories, Follows(H), Ordering(H),
           NEW G \in Histories, G[d'.seq] = Said(d'),
           \A n \in Nat : \A t \in G[n].listed : sends[t] # "new",
           \/ /\ d'.gen = d.gen /\ d.gen # 0 /\ d.seq <= d'.seq
              /\ \A n \in 0..d.seq : G[n] = H[n]
           \/ d'.gen > spent.gens,
           NEW ms \in Seq(Updates), wire' = wire \o ms,
           \A k \in DOMAIN ms : TellsUpdate(G, d', ms[k]),
           Grown, Stored(d'.overlay, rows', Len(rows')), Stored(d'.delta, rows', Len(rows')),
           \A k \in DOMAIN ms :
              /\ ms[k].to.cursor = Len(rows')
              /\ Stored(ms[k].to.overlay, rows', Len(rows'))
              /\ Stored(G[ms[k].to.seq].overlay, rows', Len(rows'))
    PROVE  Follows(G)' /\ Ordering(G)'
<1>1. /\ rows \in Seq(Items) /\ rows' \in Seq(Items) /\ wire \in Seq(Updates)
      /\ Len(rows) \in Nat /\ Len(rows') \in Nat
      /\ d \in Controllers /\ d.gen \in Nat /\ d.seq \in Nat
      /\ d' \in Controllers /\ d'.gen \in Nat /\ d'.seq \in Nat
      /\ spent.gens \in Nat
  <2>1. /\ rows \in Seq(Items) /\ rows' \in Seq(Items) /\ wire \in Seq(Updates)
        /\ d \in Controllers /\ d' \in Controllers /\ spent \in Budgets
    BY BudgetIs DEF TypeIInv, TypeOK
  <2>2. spent.gens \in Nat
    BY <2>1, BoundsType DEF Budgets
  <2>3. d.gen \in Nat /\ d.seq \in Nat /\ d'.gen \in Nat /\ d'.seq \in Nat
    BY <2>1 DEF Controllers
  <2> QED BY <2>1, <2>2, <2>3
<1>2. /\ DOMAIN wire' = 1..(Len(wire) + Len(ms))
      /\ \A k \in DOMAIN wire : k \in DOMAIN wire' /\ wire'[k] = wire[k]
      /\ \A k \in DOMAIN wire' : k \notin DOMAIN wire =>
           k - Len(wire) \in DOMAIN ms /\ wire'[k] = ms[k - Len(wire)]
  BY <1>1, WireGrows
<1>3. ASSUME NEW k \in DOMAIN wire
      PROVE  /\ wire[k].to \in Projections /\ wire[k].to.gen \in Nat /\ wire[k].to.seq \in Nat
             /\ wire[k].to.cursor \in Nat /\ wire[k].to.overlay \in Texts
             /\ wire[k].to.gen <= spent.gens /\ wire[k].to.seq > 0
  <2>1. wire[k] \in Updates
    BY <1>1, ElementOfSeq
  <2> QED BY <2>1 DEF Updates, Projections, SentInv, Proper
<1>4. d'.gen = d.gen => d.seq <= d'.seq /\ d.gen # 0 /\ \A n \in 0..d.seq : G[n] = H[n]
  BY <1>1 DEF DaemonInv
<1>5. UNCHANGED <<c, request, hydrate, sends, Answers>>
  BY DEF Mirrored, Answers
<1>6. ASSUME NEW task \in Answers, d'.gen # 0 PROVE Tells(G, d', task.p)
  <2> SUFFICES ASSUME task.p.gen = d'.gen
               PROVE  task.p.seq <= d'.seq /\ G[task.p.seq] = Said(task.p)
    BY DEF Tells
  <2>1. task.p \in Projections /\ task.p.seq \in Nat /\ task.p.gen <= spent.gens
    BY DEF Answers, TypeIInv, TypeOK, Tasks, Projections, SentInv
  <2>2. d'.gen = d.gen
    BY <1>1, <2>1
  <2>3. task.p.seq <= d.seq /\ H[task.p.seq] = Said(task.p)
    BY <1>4, <2>2 DEF Follows, Tells
  <2> QED BY <1>1, <1>4, <2>1, <2>2, <2>3
<1>7. ASSUME NEW k \in DOMAIN wire, d'.gen # 0, wire[k].to.gen = d'.gen
      PROVE  /\ d'.gen = d.gen /\ d.gen # 0 /\ TellsUpdate(H, d, wire[k])
             /\ wire[k].to.seq <= d.seq /\ wire[k].to.seq \in 0..d.seq
             /\ wire[k].to.seq - 1 \in 0..d.seq
             /\ G[wire[k].to.seq] = H[wire[k].to.seq]
             /\ G[wire[k].to.seq - 1] = H[wire[k].to.seq - 1]
  <2>1. d'.gen = d.gen /\ d.gen # 0
    BY <1>1, <1>3, <1>4, <1>7
  <2>2. TellsUpdate(H, d, wire[k]) /\ wire[k].to.seq <= d.seq
    BY <1>7, <2>1 DEF Follows, TellsUpdate
  <2>3. wire[k].to.seq \in 0..d.seq /\ wire[k].to.seq - 1 \in 0..d.seq
    BY <1>1, <1>3, <2>2
  <2> QED BY <1>4, <2>1, <2>2, <2>3
<1>8. ASSUME NEW k \in DOMAIN wire', d'.gen # 0 PROVE TellsUpdate(G, d', wire'[k])
  <2>1. CASE k \in DOMAIN wire
    <3> DEFINE u == wire[k]
    <3>1. wire'[k] = u
      BY <1>2, <2>1
    <3>2. ASSUME u.to.gen = d'.gen
          PROVE  /\ u.to.seq <= d'.seq
                 /\ G[u.to.seq].listed = Listed(u.to)
                 /\ G[u.to.seq].overlay =
                      IF u.kind = "compact" THEN Merge(G[u.to.seq - 1].overlay, u.to.overlay)
                      ELSE u.to.overlay
      <4>1. /\ d'.gen = d.gen /\ TellsUpdate(H, d, u) /\ u.to.seq <= d.seq
            /\ G[u.to.seq] = H[u.to.seq] /\ G[u.to.seq - 1] = H[u.to.seq - 1]
        BY <1>7, <1>8, <2>1, <3>2
      <4>2. u.to.seq <= d'.seq
        BY <1>1, <1>3, <1>4, <2>1, <4>1
      <4> QED BY <3>2, <4>1, <4>2 DEF TellsUpdate
    <3> QED BY <3>1, <3>2 DEF TellsUpdate
  <2>2. CASE k \notin DOMAIN wire
    <3>1. k - Len(wire) \in DOMAIN ms /\ wire'[k] = ms[k - Len(wire)]
      BY <1>2, <2>2
    <3> QED BY <3>1
  <2> QED BY <2>1, <2>2
<1>9. ASSUME d'.gen # 0 PROVE Holds(G, d', c')
  <2>1. c' = c
    BY <1>5
  <2> SUFFICES ASSUME c.known, c.p.gen = d'.gen
               PROVE  /\ c.p.seq <= d'.seq
                      /\ \A i \in Items : G[c.p.seq].overlay[i] <= Display(c, i)
                      /\ \A t \in G[c.p.seq].listed : c.base[t] = "none"
    BY <2>1 DEF Holds
  <2>2. c.p.gen <= spent.gens /\ c.p.gen \in Nat /\ c.p.seq \in Nat
    BY DEF SentInv, TypeIInv, TypeOK, Clients, Projections
  <2>3. d'.gen = d.gen
    BY <1>1, <2>2
  <2>4. /\ c.p.seq <= d.seq
        /\ \A i \in Items : H[c.p.seq].overlay[i] <= Display(c, i)
        /\ \A t \in H[c.p.seq].listed : c.base[t] = "none"
    BY <1>4, <2>3 DEF Follows, Holds
  <2>5. G[c.p.seq] = H[c.p.seq] /\ c.p.seq <= d'.seq
    BY <1>1, <1>4, <2>2, <2>3, <2>4
  <2> QED BY <2>4, <2>5
<1>10. Follows(G)'
  <2>1. DOMAIN G = Nat
    BY DEF Histories
  <2> QED BY <1>5, <1>6, <1>8, <1>9, <2>1 DEF Follows
<1>11. ASSUME NEW t \in Turns, NEW n \in Nat, n <= Len(rows), InRows(t, rows, n)
       PROVE  InRows(t, rows', n) /\ InRows(t, rows', Len(rows'))
  BY <1>1, <1>11, GrownKeeps
<1>12. ASSUME NEW o \in Texts, NEW n \in Nat, n <= Len(rows), Stored(o, rows, n)
       PROVE  Stored(o, rows', n)
  BY <1>11, <1>12 DEF Stored
<1>13. ASSUME NEW k \in DOMAIN wire
       PROVE  /\ wire[k].to.cursor <= Len(rows) /\ wire[k].to.cursor <= Len(rows')
              /\ Stored(wire[k].to.overlay, rows', wire[k].to.cursor)
  BY <1>1, <1>3, <1>12, <1>13 DEF Ordering, Grown
<1>14. ASSUME NEW k \in DOMAIN wire'
       PROVE  /\ wire'[k].to.cursor <= Len(rows')
              /\ Stored(wire'[k].to.overlay, rows', wire'[k].to.cursor)
              /\ k \notin DOMAIN wire => wire'[k].to.cursor = Len(rows')
  <2>1. CASE k \in DOMAIN wire
    BY <1>2, <1>13, <2>1
  <2>2. CASE k \notin DOMAIN wire
    BY <1>1, <1>2, <2>2
  <2> QED BY <2>1, <2>2
<1>15. ASSUME NEW k \in DOMAIN wire', d'.gen # 0, wire'[k].to.gen = d'.gen
       PROVE  Stored(G[wire'[k].to.seq].overlay, rows', wire'[k].to.cursor)
  <2>1. CASE k \in DOMAIN wire
    <3>1. wire'[k] = wire[k]
      BY <1>2, <2>1
    <3>2. /\ d.gen # 0 /\ wire[k].to.gen = d.gen /\ wire[k].to.seq \in Nat
          /\ G[wire[k].to.seq] = H[wire[k].to.seq]
      BY <1>3, <1>7, <1>15, <2>1, <3>1
    <3>3. Stored(H[wire[k].to.seq].overlay, rows, wire[k].to.cursor)
      BY <2>1, <3>2 DEF Ordering
    <3>4. H[wire[k].to.seq].overlay \in Texts
      BY <3>2 DEF Histories, Streams
    <3> QED BY <1>3, <1>12, <1>13, <2>1, <3>1, <3>2, <3>3, <3>4
  <2>2. CASE k \notin DOMAIN wire
    BY <1>1, <1>2, <2>2
  <2> QED BY <2>1, <2>2
<1>16. ASSUME NEW k \in DOMAIN wire', NEW m \in DOMAIN wire', k <= m
       PROVE  wire'[k].to.cursor <= wire'[m].to.cursor
  <2>1. CASE m \in DOMAIN wire
    <3>1. k \in DOMAIN wire
      BY <1>1, <1>2, <1>16, <2>1
    <3> QED BY <1>2, <1>16, <2>1, <3>1 DEF Ordering
  <2>2. CASE m \notin DOMAIN wire
    BY <1>14, <2>2
  <2> QED BY <2>1, <2>2
<1>17. ASSUME NEW t \in Turns, NEW p, InRows(t, rows, Len(rows)), StoredFrom(p, t, wire, rows)
       PROVE  InRows(t, rows', Len(rows')) /\ StoredFrom(p, t, wire', rows')
  <2>1. InRows(t, rows', Len(rows'))
    BY <1>1, <1>11, <1>17
  <2>2. ASSUME NEW k \in DOMAIN wire', wire'[k].to.gen = p.gen, wire'[k].to.seq >= p.seq
        PROVE  InRows(t, rows', wire'[k].to.cursor)
    <3>1. CASE k \in DOMAIN wire
      <4>1. InRows(t, rows, wire[k].to.cursor) /\ wire'[k] = wire[k]
        BY <1>2, <1>17, <2>2, <3>1 DEF StoredFrom
      <4> QED BY <1>3, <1>11, <1>13, <3>1, <4>1
    <3>2. CASE k \notin DOMAIN wire
      BY <1>14, <2>1, <3>2
    <3> QED BY <3>1, <3>2
  <2> QED BY <2>1, <2>2 DEF StoredFrom
<1>18. Ordering(G)'
  <2>1. ASSUME NEW task \in Answers, NEW t \in Turns, task.p.overlay[Answer(t)] > 0
        PROVE  /\ task.p.seq > 0 /\ InRows(t, rows', Len(rows'))
               /\ StoredFrom(task.p, t, wire', rows')
    BY <1>17, <2>1 DEF Ordering
  <2>2. ASSUME NEW t \in Turns, c.p.overlay[Answer(t)] > 0, c.committed[Answer(t)] = 0
        PROVE  /\ c.p.seq > 0 /\ InRows(t, rows', Len(rows'))
               /\ StoredFrom(c.p, t, wire', rows')
    BY <1>17, <2>2 DEF Ordering
  <2> QED BY <1>5, <1>14, <1>15, <1>16, <2>1, <2>2 DEF Ordering, Grown
<1> QED BY <1>10, <1>18

(* What an update carries.                                                 *)
LEMMA UpdateSays ==
    ASSUME NEW kind, NEW s, Sound(s), NEW n \in Nat, NEW o \in Texts
    PROVE  LET u == Update(kind, s, n, o)
           IN  /\ u.kind = kind /\ u.to.gen = s.gen /\ u.to.seq = s.seq
               /\ u.to.cursor = n /\ u.to.overlay = o /\ Listed(u.to) = Listed(s)
BY DEF Update, Projection, Listed

(* A push reaches the wire or is lost.                                     *)
LEMMA Pushed ==
    ASSUME NEW ms \in Seq(Updates), NEW used \in Budgets, wire \in Seq(Updates), Push(ms, used)
    PROVE  /\ spent'.gens = used.gens
           /\ \E sent \in {ms, <<>>} : sent \in Seq(Updates) /\ wire' = wire \o sent
<1>1. spent'.gens = used.gens
  BY BoundsType DEF Push, Budgets
<1>2. <<>> \in Seq(Updates) /\ wire \o <<>> = wire
  OBVIOUS
<1> QED BY <1>1, <1>2 DEF Push

(* The updates stay proper when proper ones are pushed.                    *)
LEMMA SentGoesOn ==
    ASSUME TypeIInv, SentInv, UNCHANGED Mirrored,
           spent.gens \in Nat, spent'.gens \in Nat, spent.gens <= spent'.gens,
           NEW ms \in Seq(Updates), wire' = wire \o ms,
           \A k \in DOMAIN ms : Proper(ms[k], spent'.gens)
    PROVE  SentInv'
<1>1. UNCHANGED <<c, Answers>>
  BY DEF Mirrored, Answers
<1>2. wire \in Seq(Updates)
  BY DEF TypeIInv, TypeOK
<1>3. ASSUME NEW k \in DOMAIN wire' PROVE Proper(wire'[k], spent'.gens)
  <2>1. CASE k \in DOMAIN wire
    <3>1. wire'[k] = wire[k] /\ Proper(wire[k], spent.gens)
      BY <1>2, <2>1, WireGrows DEF SentInv
    <3>2. wire[k].to.gen \in Nat
      <4>1. wire[k] \in Updates
        BY <1>2, <2>1, ElementOfSeq
      <4> QED BY <4>1 DEF Updates, Projections
    <3> QED BY <3>1, <3>2 DEF Proper
  <2>2. CASE k \notin DOMAIN wire
    BY <1>2, <2>2, WireGrows
  <2> QED BY <2>1, <2>2
<1>4. \A task \in Answers : task.p.gen <= spent'.gens
  <2> SUFFICES ASSUME NEW task \in Answers PROVE task.p.gen <= spent'.gens
    OBVIOUS
  <2>1. task.p.gen \in Nat /\ task.p.gen <= spent.gens
    BY DEF Answers, TypeIInv, TypeOK, Tasks, Projections, SentInv
  <2> QED BY <2>1
<1>5. c.p.gen <= spent'.gens
  <2>1. c.p.gen \in Nat /\ c.p.gen <= spent.gens
    BY DEF TypeIInv, TypeOK, Clients, Projections, SentInv
  <2> QED BY <2>1
<1> QED BY <1>1, <1>3, <1>4, <1>5 DEF SentInv

(* The history goes on with the one state that was recorded.               *)
LEMMA HistoryWith ==
    ASSUME TypeIInv, DaemonInv, NEW H \in Histories, Follows(H),
           NEW s, Sound(s), s.overlay \in Streams,
           \A t \in Listed(s) : sends[t] # "new",
           (s.gen = d.gen /\ d.gen # 0 /\ d.seq < s.seq) \/ s.gen > spent.gens
    PROVE  \E G \in Histories :
              /\ G[s.seq] = Said(s)
              /\ \A n \in Nat : \A t \in G[n].listed : sends[t] # "new"
              /\ \/ /\ s.gen = d.gen /\ d.gen # 0 /\ d.seq <= s.seq
                    /\ \A n \in 0..d.seq : G[n] = H[n]
                 \/ s.gen > spent.gens
<1>1. Said(s) \in [overlay : Streams, listed : SUBSET Turns] /\ Said(s).listed = Listed(s)
  BY ListedType DEF Said
<1>2. s.seq \in Nat /\ d.seq \in Nat
  BY DEF Sound, Controllers, TypeIInv, TypeOK
<1>3. CASE s.gen = d.gen /\ d.gen # 0 /\ d.seq < s.seq
  <2> DEFINE G == [H EXCEPT ![s.seq] = Said(s)]
  <2>1. G \in Histories /\ G[s.seq] = Said(s) /\ \A n \in 0..d.seq : G[n] = H[n]
    BY <1>1, <1>2, <1>3 DEF Histories
  <2>2. \A n \in Nat : G[n] = H[n] \/ G[n] = Said(s)
    BY DEF Histories
  <2>3. \A n \in Nat : \A t \in H[n].listed : sends[t] # "new"
    BY <1>3 DEF Follows, Histories
  <2> HIDE DEF G
  <2>4. d.seq <= s.seq
    BY <1>2, <1>3
  <2>5. \A n \in Nat : \A t \in G[n].listed : sends[t] # "new"
    BY <1>1, <2>2, <2>3
  <2> QED BY <1>3, <2>1, <2>4, <2>5
<1>4. CASE s.gen > spent.gens
  <2> DEFINE G == [n \in Nat |-> Said(s)]
  <2>1. G \in Histories /\ G[s.seq] = Said(s)
    BY <1>1, <1>2 DEF Histories
  <2>2. \A n \in Nat : \A t \in G[n].listed : sends[t] # "new"
    BY <1>1
  <2> HIDE DEF G
  <2> QED BY <1>4, <2>1, <2>2
<1> QED BY <1>3, <1>4

(* record keeps the promises: the history goes on with the state that is   *)
(* recorded, in the same generation or in a new one.                       *)
LEMMA RecordKeeps ==
    ASSUME TypeIInv, TypeIInv', DaemonInv, SentInv, UNCHANGED Mirrored, inbox' \subseteq inbox,
           NEW H \in Histories, Follows(H), Ordering(H),
           NEW kind \in {"event", "terminal"}, NEW s, Sound(s),
           NEW used \in Budgets, spent.gens <= used.gens, s.gen <= used.gens,
           RecordAt(Len(rows'), kind, s, used),
           (s.gen = d.gen /\ d.gen # 0 /\ s.seq = d.seq) \/ s.gen > spent.gens,
           s.overlay \in Streams, s.delta \in Streams,
           kind = "terminal" => s.overlay \in Notices,
           \A t \in Listed(s) : sends[t] # "new",
           Grown, Stored(s.overlay, rows', Len(rows')), Stored(s.delta, rows', Len(rows'))
    PROVE  Promises'
<1> DEFINE e == Numbered(s)
           u == Update(kind, e, Len(rows'), s.overlay)
<1>1. d' = e /\ Push(<<u>>, used)
  BY DEF RecordAt
<1>2. Sound(e) /\ e.gen = s.gen /\ e.seq = s.seq + 1 /\ e.overlay = s.overlay
      /\ e.delta = s.delta /\ Listed(e) = Listed(s)
  BY NumberedSound, NumberedKeeps
<1>3. /\ s.gen \in Nat /\ s.seq \in Nat /\ d.seq \in Nat /\ s.overlay \in Texts
      /\ Len(rows') \in Nat /\ wire \in Seq(Updates) /\ spent.gens \in Nat /\ used.gens \in Nat
  <2>1. spent \in Budgets /\ rows' \in Seq(Items)
    BY BudgetIs DEF TypeIInv, TypeOK
  <2>2. spent.gens \in Nat /\ used.gens \in Nat
    BY <2>1, BoundsType DEF Budgets
  <2> QED BY <2>1, <2>2 DEF Sound, Controllers, TypeIInv, TypeOK
<1> HIDE DEF e
<1>4. /\ u.kind = kind /\ u.to.gen = e.gen /\ u.to.seq = e.seq
      /\ u.to.cursor = Len(rows') /\ u.to.overlay = e.overlay /\ Listed(u.to) = Listed(e)
  BY <1>2, <1>3, UpdateSays
<1>5. u \in Updates
  BY <1>2, <1>3, UpdateMessage DEF Sound, Kinds
<1> HIDE DEF u
<1>6. <<u>> \in Seq(Updates)
  BY <1>5
<1>7. spent'.gens = used.gens
  BY <1>1, <1>3, <1>6, Pushed
<1>8. PICK ms \in {<<u>>, <<>>} : ms \in Seq(Updates) /\ wire' = wire \o ms
  BY <1>1, <1>3, <1>6, Pushed
<1>9. \A k \in DOMAIN ms : ms[k] = u
  BY <1>8
<1>10. e.seq > 0 /\ e.seq # 0
  BY <1>2, <1>3
<1>11. DaemonInv'
  <2>1. e.gen # 0
    BY <1>2, <1>3
  <2>2. \A t \in Listed(e) \cup inbox' : sends'[t] # "new"
    BY <1>2 DEF DaemonInv, Mirrored
  <2> QED BY <1>1, <1>2, <1>7, <1>10, <2>1, <2>2 DEF DaemonInv
<1>12. SentInv'
  <2>1. Proper(u, spent'.gens)
    BY <1>2, <1>4, <1>7, <1>10 DEF Proper, Notices
  <2> QED BY <1>3, <1>7, <1>8, <1>9, <2>1, SentGoesOn
<1>13. PICK G \in Histories :
          /\ G[e.seq] = Said(e)
          /\ \A n \in Nat : \A t \in G[n].listed : sends[t] # "new"
          /\ \/ /\ e.gen = d.gen /\ d.gen # 0 /\ d.seq <= e.seq
                /\ \A n \in 0..d.seq : G[n] = H[n]
             \/ e.gen > spent.gens
  <2>1. (e.gen = d.gen /\ d.gen # 0 /\ d.seq < e.seq) \/ e.gen > spent.gens
    BY <1>2, <1>3
  <2> QED BY <1>2, <2>1, HistoryWith
<1>14. TellsUpdate(G, e, u)
  BY <1>2, <1>3, <1>4, <1>13 DEF TellsUpdate, Said
<1>15. Stored(G[u.to.seq].overlay, rows', Len(rows')) /\ Stored(u.to.overlay, rows', Len(rows'))
  BY <1>2, <1>4, <1>13 DEF Said
<1>16. Follows(G)' /\ Ordering(G)'
  BY <1>1, <1>2, <1>4, <1>8, <1>9, <1>13, <1>14, <1>15, HistoryGoesOn
<1> QED BY <1>11, <1>12, <1>16 DEF Promises

(* A persisted item is in the transcript from then on.                     *)
LEMMA PersistLoads ==
    ASSUME TypeIInv, Loading, Stored(text, rows, Len(rows)), UNCHANGED c,
           NEW i \in Items, NEW n \in 1..Chunks, text[i] <= n,
           \A t \in Turns : i = User(t) => n = 1, Persist(i, n)
    PROVE  /\ Grown /\ Loading'
           /\ \A t \in Turns : i = Answer(t) => InRows(t, rows', Len(rows'))
<1>1. rows \in Seq(Items) /\ text \in Texts /\ c \in Clients /\ Len(rows) \in Nat /\ Chunks \in Nat
  BY ReducerAssumption DEF TypeIInv, TypeOK
<1>2. /\ c.loaded \in Nat /\ \A j \in Items : c.committed[j] \in Nat
      /\ \A j \in Items : text[j] \in Nat
  BY <1>1 DEF Clients, Texts
<1>3. \A j \in Items : text'[j] = IF j = i THEN n ELSE text[j]
  BY <1>1 DEF Persist, Texts
<1>4. \A j \in Items : text[j] <= text'[j] /\ text'[j] \in Nat
  BY <1>1, <1>2, <1>3
<1>5. /\ Len(rows) <= Len(rows') /\ Len(rows') \in Nat
      /\ \A k \in 1..Len(rows) : rows'[k] = rows[k]
      /\ \A k \in 1..Len(rows') : k \in 1..Len(rows) \/ (rows'[k] = i /\ k = Len(rows'))
      /\ text[i] = 0 => Len(rows') \in 1..Len(rows') /\ rows'[Len(rows')] = i
  <2>1. CASE text[i] = 0
    <3>1. rows' = Append(rows, i)
      BY <2>1 DEF Persist
    <3> QED BY <1>1, <3>1
  <2>2. CASE text[i] # 0
    BY <1>1, <2>2 DEF Persist
  <2> QED BY <2>1, <2>2
<1>6. ASSUME NEW t \in Turns, InRows(t, rows, Len(rows)) PROVE InRows(t, rows', Len(rows'))
  <2>1. PICK k \in 1..Len(rows) : rows[k] = Answer(t)
    BY <1>6 DEF InRows
  <2> QED BY <1>1, <1>5, <2>1 DEF InRows
<1>7. ASSUME NEW t \in Turns, i = Answer(t) PROVE InRows(t, rows', Len(rows'))
  <2>1. CASE text[i] = 0
    BY <1>5, <1>7, <2>1 DEF InRows
  <2>2. CASE text[i] # 0
    BY <1>2, <1>6, <1>7, <2>2 DEF Stored
  <2> QED BY <2>1, <2>2
<1>8. Grown
  <2>1. ASSUME NEW t \in Turns, text'[Answer(t)] > 0 PROVE InRows(t, rows', Len(rows'))
    <3>1. CASE Answer(t) = i
      BY <1>7, <3>1
    <3>2. CASE Answer(t) # i
      <4>1. text[Answer(t)] > 0
        BY <1>3, <2>1, <3>2, ItemTypes
      <4> QED BY <1>6, <4>1 DEF Stored
    <3> QED BY <3>1, <3>2
  <2> QED BY <1>5, <2>1 DEF Grown, Stored
<1>9. Loading'
  <2>1. \A t \in Turns : text'[User(t)] <= 1
    <3> SUFFICES ASSUME NEW t \in Turns PROVE text'[User(t)] <= 1
      OBVIOUS
    <3>1. text'[User(t)] = IF User(t) = i THEN n ELSE text[User(t)]
      BY <1>3, ItemTypes
    <3> QED BY <3>1 DEF Loading
  <2>2. \A j \in Items : c'.committed[j] <= text'[j]
    BY <1>2, <1>4 DEF Loading
  <2>3. c'.loaded <= Len(rows')
    BY <1>1, <1>2, <1>5 DEF Loading
  <2>4. \A k \in 1..Len(rows') : text'[rows'[k]] > 0
    <3> SUFFICES ASSUME NEW k \in 1..Len(rows') PROVE text'[rows'[k]] > 0
      OBVIOUS
    <3>1. CASE k \in 1..Len(rows)
      <4>1. rows[k] \in Items /\ rows'[k] = rows[k] /\ text[rows[k]] > 0
        BY <1>1, <1>5, <3>1, ElementOfSeq DEF Loading
      <4> QED BY <1>2, <1>4, <4>1
    <3>2. CASE rows'[k] = i
      BY <1>3, <3>2
    <3> QED BY <1>5, <3>1, <3>2
  <2>5. \A k \in 1..c'.loaded : c'.committed[rows'[k]] > 0
    <3> SUFFICES ASSUME NEW k \in 1..c.loaded PROVE c.committed[rows'[k]] > 0
      OBVIOUS
    <3>1. k \in 1..Len(rows)
      BY <1>1, <1>2 DEF Loading
    <3> QED BY <1>5, <3>1 DEF Loading
  <2> QED BY <2>1, <2>2, <2>3, <2>4, <2>5 DEF Loading
<1> QED BY <1>7, <1>8, <1>9

(* A daemon that has done anything at all has a generation.                *)
LEMMA Begun ==
    ASSUME DaemonInv,
           d.open \/ d.phase # "none" \/ d.owner # "idle" \/ d.delta # Blank
    PROVE  d.gen # 0 /\ d.seq > 0
BY DEF DaemonInv, Bare

(* The blank overlay is a stream and has no answer.                        *)
LEMMA BlankSays == Blank \in Notices /\ \A t \in Turns : Blank[Answer(t)] = 0
<1>1. \A i \in Items : Blank[i] = 0
  BY DEF Blank
<1>2. \A t \in Turns : Blank[User(t)] = 0 /\ Blank[Answer(t)] = 0
  BY <1>1, ItemTypes
<1> QED BY <1>1, <1>2, BlankIsText DEF Notices, Streams

(* A transcript that does not change has grown.                            *)
LEMMA SameTranscript ==
    ASSUME TypeIInv, UNCHANGED <<rows, text>>, NEW H, Ordering(H)
    PROVE  Grown
BY DEF Grown, Ordering, TypeIInv, TypeOK

(* What is stored stays stored as the transcript grows.                    *)
LEMMA StoredOverlay ==
    ASSUME rows \in Seq(Items), rows' \in Seq(Items), Grown, NEW o, Stored(o, rows, Len(rows))
    PROVE  Stored(o, rows', Len(rows'))
BY GrownKeeps DEF Stored

(* The promises, one step of the daemon at a time. A submission persists   *)
(* the user's message and records the turn.                                *)
LEMMA SubmitKeeps == ASSUME IInv, TypeIInv', NEW t \in Turns, Submit(t) PROVE IInv'
<1>1. TypeIInv /\ TypeIInv' /\ DaemonInv /\ SentInv /\ Loading
  BY DEF IInv, Promises
<1>2. PICK H \in Histories : Follows(H) /\ Ordering(H)
  BY DEF IInv, Promises
<1>3. UNCHANGED Mirrored /\ inbox' \subseteq inbox /\ UNCHANGED c /\ sends[t] # "new"
  BY <1>1 DEF Submit, mirrorVars, Mirrored, DaemonInv
<1>4. Grown /\ Loading'
  <2>1. User(t) \in Items /\ text[User(t)] <= 1
    BY <1>1, ItemTypes DEF Loading
  <2>2. Persist(User(t), 1)
    BY DEF Submit
  <2>3. 1 \in 1..Chunks
    BY ReducerAssumption
  <2> QED BY <1>1, <1>2, <1>3, <2>1, <2>2, <2>3, PersistLoads DEF Ordering
<1>5. spent \in Budgets /\ spent.gens \in Nat /\ rows \in Seq(Items) /\ rows' \in Seq(Items)
  <2>1. spent \in Budgets
    BY <1>1, BudgetIs DEF TypeIInv
  <2> QED BY <1>1, <2>1, BoundsType DEF TypeIInv, TypeOK, Budgets
<1>6. CASE d.gen = 0
  <2> DEFINE b == [Bare EXCEPT !.gen = spent.gens + 1]
             s == Enqueued(b, t)
  <2>1. Sound(b) /\ b.gen = spent.gens + 1 /\ b.overlay = Blank /\ b.delta = Blank /\ Listed(b) = {}
    <3>1. spent.gens + 1 \in Nat
      BY <1>5
    <3>2. Sound(b)
      BY <3>1, BareSound DEF Sound, Bare, Controllers
    <3>3. b.active = NoTurn /\ b.queue = <<>>
      BY DEF Bare
    <3>4. b.gen = spent.gens + 1 /\ b.overlay = Blank /\ b.delta = Blank
      BY DEF Bare
    <3> QED BY <3>2, <3>3, <3>4 DEF Listed
  <2>2. /\ Has("gens") /\ RecordAt(Len(rows'), "event", s, Using("gens"))
    BY <1>6 DEF Submit
  <2> HIDE DEF b
  <2>3. /\ Sound(s) /\ s.gen = spent.gens + 1 /\ s.overlay = Blank /\ s.delta = Blank
        /\ Listed(s) \subseteq {t}
    BY <2>1, EnqueuedSound, EnqueuedKeeps
  <2> HIDE DEF s
  <2>4. Using("gens") \in Budgets /\ Using("gens").gens = spent.gens + 1
    BY <1>5, <2>2, BudgetSpent, BoundsType DEF Using, Budgets
  <2>5. Blank \in Streams /\ Stored(Blank, rows', Len(rows'))
    BY BlankSays DEF Notices, Stored
  <2>6. Promises'
    BY <1>1, <1>2, <1>3, <1>4, <1>5, <2>2, <2>3, <2>4, <2>5, RecordKeeps
  <2> QED BY <1>1, <1>4, <2>6 DEF IInv
<1>7. CASE d.gen # 0
  <2> DEFINE s == Enqueued(d, t)
  <2>1. RecordAt(Len(rows'), "event", s, spent)
    BY <1>7 DEF Submit
  <2>2. /\ Sound(s) /\ s.gen = d.gen /\ s.seq = d.seq /\ s.overlay = d.overlay /\ s.delta = d.delta
        /\ Listed(s) \subseteq Listed(d) \cup {t}
    BY <1>1, EnqueuedSound, EnqueuedKeeps DEF TypeIInv
  <2> HIDE DEF s
  <2>3. d.overlay \in Streams /\ d.delta \in Streams /\ d.gen <= spent.gens /\ \A u \in Listed(d) : sends[u] # "new"
    BY <1>1 DEF DaemonInv
  <2>4. Stored(d.overlay, rows', Len(rows')) /\ Stored(d.delta, rows', Len(rows'))
    BY <1>2, <1>4, <1>5, StoredOverlay DEF Ordering
  <2>5. Promises'
    <3>1. \A u \in Listed(s) : sends[u] # "new"
      BY <1>3, <2>2, <2>3
    <3> QED BY <1>1, <1>2, <1>3, <1>4, <1>5, <1>7, <2>1, <2>2, <2>3, <2>4, <3>1, RecordKeeps
  <2> QED BY <1>1, <1>4, <2>5 DEF IInv
<1> QED BY <1>6, <1>7

(* An overlay of notices only, as the end of a turn leaves it.             *)
Notice(o) == o \in Notices /\ \A t \in Turns : o[Answer(t)] = 0

(* A record that goes on with the daemon's own overlay, or with notices,   *)
(* and persists nothing.                                                   *)
LEMMA EventKeeps ==
    ASSUME IInv, TypeIInv', UNCHANGED <<rows, text, mirrorVars, inbox, sends>>,
           NEW kind \in {"event", "terminal"}, NEW s, Sound(s), NEW used \in Budgets,
           Record(kind, s, used),
           \/ s.gen = d.gen /\ d.gen # 0 /\ s.seq = d.seq /\ used.gens = spent.gens
           \/ s.gen = spent.gens + 1 /\ used.gens = spent.gens + 1,
           (s.overlay = d.overlay /\ kind = "event") \/ Notice(s.overlay),
           s.delta = d.delta, Listed(s) \subseteq Listed(d)
    PROVE  IInv'
<1>1. TypeIInv /\ DaemonInv /\ SentInv /\ Loading /\ Loading'
  BY DEF IInv, Promises, Loading, mirrorVars
<1>2. PICK H \in Histories : Follows(H) /\ Ordering(H)
  BY DEF IInv, Promises
<1>3. UNCHANGED Mirrored /\ inbox' \subseteq inbox /\ rows \in Seq(Items) /\ rows' = rows
  BY <1>1 DEF mirrorVars, Mirrored, TypeIInv, TypeOK
<1>4. Grown
  BY <1>1, <1>2, SameTranscript
<1>5. spent.gens \in Nat /\ s.gen \in Nat /\ s.gen <= used.gens /\ spent.gens <= used.gens
      /\ ((s.gen = d.gen /\ d.gen # 0 /\ s.seq = d.seq) \/ s.gen > spent.gens)
  <2>1. spent \in Budgets /\ d.gen <= spent.gens
    BY <1>1, BudgetIs DEF TypeIInv, DaemonInv
  <2>2. spent.gens \in Nat
    BY <2>1, BoundsType DEF Budgets
  <2>3. s.gen \in Nat
    BY DEF Sound, Controllers
  <2> QED BY <2>1, <2>2, <2>3
<1>6. /\ s.overlay \in Streams /\ s.delta \in Streams
      /\ Stored(s.overlay, rows', Len(rows')) /\ Stored(s.delta, rows', Len(rows'))
  BY <1>1, <1>2, <1>3 DEF DaemonInv, Ordering, Notice, Notices, Stored
<1>7. \A t \in Listed(s) : sends[t] # "new"
  BY <1>1 DEF DaemonInv
<1>8. RecordAt(Len(rows'), kind, s, used)
  BY <1>3 DEF Record
<1>9. kind = "terminal" => s.overlay \in Notices
  BY DEF Notice
<1>10. Promises'
  BY <1>1, <1>2, <1>3, <1>4, <1>5, <1>6, <1>7, <1>8, <1>9, RecordKeeps
<1> QED BY <1>1, <1>10 DEF IInv

(* What a used budget says of the generations.                             *)
LEMMA Spending ==
    ASSUME TypeIInv, NEW k \in {"gens", "trouble"}, Has(k)
    PROVE  /\ Using(k) \in Budgets
           /\ Using(k).gens = IF k = "gens" THEN spent.gens + 1 ELSE spent.gens
<1>1. spent \in Budgets
  BY BudgetIs DEF TypeIInv
<1> QED BY <1>1, BudgetSpent, BoundsType DEF Using, Budgets

LEMMA ClaimKeeps == ASSUME IInv, TypeIInv', Claim PROVE IInv'
<1> DEFINE a == Adopted(d)
           s == [a EXCEPT !.phase = "claimed", !.owner = "claim"]
<1>1. TypeIInv /\ DaemonInv /\ spent \in Budgets
  BY BudgetIs DEF IInv, Promises, TypeIInv
<1>2. /\ Sound(a) /\ a.active # NoTurn /\ a.gen = d.gen /\ a.seq = d.seq
      /\ a.overlay = d.overlay /\ a.delta = d.delta /\ Listed(a) \subseteq Listed(d)
  BY <1>1, AdoptedSound, AdoptedKeeps DEF TypeIInv, Claim
<1>3. /\ Record("event", s, spent) /\ UNCHANGED <<rows, text, mirrorVars, inbox, sends>>
      /\ d.gen # 0
  BY <1>1, Begun DEF Claim
<1> HIDE DEF a
<1>4. /\ Sound(s) /\ s.gen = d.gen /\ s.seq = d.seq
      /\ s.overlay = d.overlay /\ s.delta = d.delta /\ Listed(s) \subseteq Listed(d)
  <2>1. /\ Sound(s) /\ s.gen = a.gen /\ s.seq = a.seq /\ s.overlay = a.overlay /\ s.delta = a.delta
        /\ s.active = a.active /\ s.queue = a.queue
    BY <1>2 DEF Sound, Controllers, Phases
  <2>2. Listed(s) = Listed(a)
    BY <2>1 DEF Listed
  <2> QED BY <1>2, <2>1, <2>2
<1> HIDE DEF s
<1> QED BY <1>1, <1>3, <1>4, EventKeeps

LEMMA StartedKeeps == ASSUME IInv, TypeIInv', Started PROVE IInv'
<1> DEFINE s == [d EXCEPT !.phase = "answering", !.open = TRUE]
<1>1. TypeIInv /\ DaemonInv /\ spent \in Budgets
  BY BudgetIs DEF IInv, Promises, TypeIInv
<1>2. /\ Record("event", s, spent) /\ UNCHANGED <<rows, text, mirrorVars, inbox, sends>>
      /\ d.gen # 0
  BY <1>1, Begun DEF Started
<1>3. /\ Sound(s) /\ s.gen = d.gen /\ s.seq = d.seq
      /\ s.overlay = d.overlay /\ s.delta = d.delta /\ Listed(s) \subseteq Listed(d)
  BY <1>1 DEF TypeIInv, Started, Sound, Controllers, Phases, Listed
<1> HIDE DEF s
<1> QED BY <1>1, <1>2, <1>3, EventKeeps

LEMMA ReadyKeeps == ASSUME IInv, TypeIInv', SessionReady PROVE IInv'
<1> DEFINE s == [d EXCEPT !.live = TRUE]
<1>1. TypeIInv /\ DaemonInv /\ spent \in Budgets
  BY BudgetIs DEF IInv, Promises, TypeIInv
<1>2. /\ Record("event", s, spent) /\ UNCHANGED <<rows, text, mirrorVars, inbox, sends>>
      /\ d.gen # 0
  BY <1>1, Begun DEF SessionReady
<1>3. /\ Sound(s) /\ s.gen = d.gen /\ s.seq = d.seq
      /\ s.overlay = d.overlay /\ s.delta = d.delta /\ Listed(s) \subseteq Listed(d)
  BY <1>1 DEF TypeIInv, Sound, Controllers, Listed
<1> HIDE DEF s
<1> QED BY <1>1, <1>2, <1>3, EventKeeps

LEMMA FinishKeeps == ASSUME IInv, TypeIInv', Finish PROVE IInv'
<1>1. TypeIInv /\ DaemonInv /\ spent \in Budgets
  BY BudgetIs DEF IInv, Promises, TypeIInv
<1>2. PICK outcome \in Outcomes :
        Record("terminal", [Ended(d, outcome) EXCEPT !.owner = "idle"], spent)
  BY DEF Finish
<1>3. UNCHANGED <<rows, text, mirrorVars, inbox, sends>> /\ d.gen # 0
  BY <1>1, Begun DEF Finish
<1> DEFINE a == Ended(d, outcome)
           s == [a EXCEPT !.owner = "idle"]
<1>4. d.active # NoTurn /\ Sound(d)
  BY <1>1 DEF TypeIInv, Finish, Owned, Working
<1>5. /\ Sound(a) /\ a.gen = d.gen /\ a.seq = d.seq /\ a.delta = d.delta
      /\ Notice(a.overlay) /\ Listed(a) \subseteq Listed(d)
  BY <1>4, EndedSound, EndedKeeps DEF Notice
<1> HIDE DEF a
<1>6. /\ Sound(s) /\ s.gen = d.gen /\ s.seq = d.seq /\ s.delta = d.delta
      /\ Notice(s.overlay) /\ Listed(s) \subseteq Listed(d)
  BY <1>5 DEF Sound, Controllers, Listed
<1>7. Record("terminal", s, spent)
  BY <1>2 DEF a
<1> HIDE DEF s
<1> QED BY <1>1, <1>3, <1>6, <1>7, EventKeeps

LEMMA CancelClaimedKeeps == ASSUME IInv, TypeIInv', CancelClaimed PROVE IInv'
<1> DEFINE s == [d EXCEPT !.phase = "cancelling", !.failed = FALSE, !.owner = "settling"]
<1>1. TypeIInv /\ DaemonInv
  BY DEF IInv, Promises, TypeIInv
<1>2. /\ Record("event", s, Using("trouble")) /\ UNCHANGED <<rows, text, mirrorVars, inbox, sends>>
      /\ d.gen # 0 /\ Has("trouble")
  BY <1>1, Begun DEF CancelClaimed
<1>3. /\ Sound(s) /\ s.gen = d.gen /\ s.seq = d.seq
      /\ s.overlay = d.overlay /\ s.delta = d.delta /\ Listed(s) \subseteq Listed(d)
  BY <1>1 DEF TypeIInv, CancelClaimed, Sound, Owned, Working, Controllers, Phases, Listed
<1>4. Using("trouble") \in Budgets /\ Using("trouble").gens = spent.gens
  BY <1>1, <1>2, Spending
<1> HIDE DEF s
<1> QED BY <1>2, <1>3, <1>4, EventKeeps

LEMMA CancelSettledKeeps == ASSUME IInv, TypeIInv', CancelSettled PROVE IInv'
<1> DEFINE r == Rotated(d)
           a == Ended(r, "cancelled")
           s == [a EXCEPT !.owner = "idle"]
<1>1. TypeIInv /\ DaemonInv /\ spent \in Budgets /\ Sound(d)
  BY BudgetIs DEF IInv, Promises, TypeIInv
<1>2. /\ Record("terminal", s, Using("gens")) /\ UNCHANGED <<rows, text, mirrorVars, inbox, sends>>
      /\ Has("gens")
  BY DEF CancelSettled
<1>3. d.active # NoTurn
  BY <1>1 DEF TypeIInv, CancelSettled, Owned, Working
<1>4. /\ Sound(r) /\ r.gen = spent.gens + 1 /\ r.delta = d.delta /\ r.active = d.active
      /\ Listed(r) = Listed(d)
  BY <1>1, RotatedSound, RotatedKeeps
<1> HIDE DEF r
<1>5. /\ Sound(a) /\ a.gen = spent.gens + 1 /\ a.delta = d.delta
      /\ Notice(a.overlay) /\ Listed(a) \subseteq Listed(d)
  BY <1>3, <1>4, EndedSound, EndedKeeps DEF Notice
<1> HIDE DEF a
<1>6. /\ Sound(s) /\ s.gen = spent.gens + 1 /\ s.delta = d.delta
      /\ Notice(s.overlay) /\ Listed(s) \subseteq Listed(d)
  BY <1>5 DEF Sound, Controllers, Listed
<1>7. Using("gens") \in Budgets /\ Using("gens").gens = spent.gens + 1
  BY <1>1, <1>2, Spending
<1> HIDE DEF s
<1> QED BY <1>2, <1>6, <1>7, EventKeeps

LEMMA CloseLiveKeeps == ASSUME IInv, TypeIInv', Close, d.live PROVE IInv'
<1> DEFINE s == [d EXCEPT !.owner = "closing", !.active = NoTurn,
                          !.phase = "none", !.failed = FALSE, !.live = FALSE]
<1>1. TypeIInv /\ DaemonInv /\ spent \in Budgets
  BY BudgetIs DEF IInv, Promises, TypeIInv
<1>2. /\ Record("event", s, spent) /\ UNCHANGED <<rows, text, mirrorVars, inbox, sends>>
      /\ d.gen # 0
  BY <1>1, Begun DEF Close
<1>3. /\ Sound(s) /\ s.gen = d.gen /\ s.seq = d.seq
      /\ s.overlay = d.overlay /\ s.delta = d.delta /\ Listed(s) \subseteq Listed(d)
  BY <1>1 DEF TypeIInv, Sound, Controllers, Phases, Listed
<1> HIDE DEF s
<1> QED BY <1>1, <1>2, <1>3, EventKeeps

(* A step that says nothing new, but may say it again.                     *)
LEMMA QuietKeeps ==
    ASSUME IInv, TypeIInv', UNCHANGED <<mirrorVars, sends>>, inbox' \subseteq inbox,
           Loading', Grown,
           d.gen # 0, d'.gen = d.gen, d'.seq = d.seq, d'.overlay = d.overlay,
           Listed(d') = Listed(d), d'.delta \in Streams,
           Stored(d'.delta, rows', Len(rows')),
           spent'.gens = spent.gens, NEW ms \in Seq(Updates), wire' = wire \o ms,
           \A k \in DOMAIN ms :
              /\ ms[k].kind = "refresh" /\ ms[k].to.gen = d.gen /\ ms[k].to.seq = d.seq
              /\ Listed(ms[k].to) = Listed(d) /\ ms[k].to.overlay = d.overlay
              /\ ms[k].to.cursor = Len(rows')
    PROVE  IInv'
<1>1. TypeIInv /\ DaemonInv /\ SentInv
  BY DEF IInv, Promises
<1>2. PICK H \in Histories : Follows(H) /\ Ordering(H)
  BY DEF IInv, Promises
<1>3. UNCHANGED Mirrored
  BY DEF mirrorVars, Mirrored
<1>4. /\ rows \in Seq(Items) /\ rows' \in Seq(Items) /\ d.seq \in Nat /\ d.gen \in Nat
      /\ spent.gens \in Nat
  <2>1. spent \in Budgets
    BY <1>1, BudgetIs DEF TypeIInv
  <2>2. spent.gens \in Nat
    BY <2>1, BoundsType DEF Budgets
  <2> QED BY <1>1, <2>2 DEF TypeIInv, TypeOK, Controllers
<1>5. d.seq > 0 /\ d.gen <= spent.gens
  BY <1>1 DEF DaemonInv
<1>6. SentInv'
  <2>1. \A k \in DOMAIN ms : Proper(ms[k], spent'.gens)
    BY <1>5 DEF Proper
  <2>2. spent'.gens \in Nat /\ spent.gens <= spent'.gens
    BY <1>4
  <2> QED BY <1>1, <1>3, <1>4, <2>1, <2>2, SentGoesOn
<1>7. DaemonInv'
  BY <1>1 DEF DaemonInv
<1>8. /\ H[d'.seq] = Said(d') /\ H[d.seq] = Said(d)
      /\ \A n \in Nat : \A t \in H[n].listed : sends[t] # "new"
  BY <1>2 DEF Follows, Said, Histories
<1>9. Stored(d'.overlay, rows', Len(rows')) /\ Stored(d.overlay, rows', Len(rows'))
  BY <1>2, <1>4, StoredOverlay DEF Ordering
<1>10. ASSUME NEW k \in DOMAIN ms
       PROVE  /\ TellsUpdate(H, d', ms[k])
              /\ ms[k].to.cursor = Len(rows')
              /\ Stored(ms[k].to.overlay, rows', Len(rows'))
              /\ Stored(H[ms[k].to.seq].overlay, rows', Len(rows'))
  <2>1. H[d.seq].overlay = d.overlay /\ H[d.seq].listed = Listed(d)
    BY <1>8 DEF Said
  <2> QED BY <1>4, <1>9, <2>1 DEF TellsUpdate
<1>11. d.seq <= d'.seq
  BY <1>4
<1>12. Follows(H)' /\ Ordering(H)'
  BY <1>1, <1>2, <1>3, <1>8, <1>9, <1>10, <1>11, HistoryGoesOn
<1> QED BY <1>6, <1>7, <1>12 DEF IInv, Promises

(* A step that pushes nothing.                                             *)
LEMMA Wordless == <<>> \in Seq(Updates) /\ (wire \in Seq(Updates) => wire \o <<>> = wire)
OBVIOUS

LEMMA PersistedKeeps == ASSUME IInv, TypeIInv', StreamPersisted PROVE IInv'
<1> DEFINE i == Answer(d.active)
           n == text[i] + 1
           w == [Blank EXCEPT ![i] = n]
<1>1. TypeIInv /\ DaemonInv /\ Loading
  BY DEF IInv, Promises
<1>2. PICK H \in Histories : Follows(H) /\ Ordering(H)
  BY DEF IInv, Promises
<1>3. /\ d.gen # 0 /\ d.active \in Turns /\ Persist(i, n) /\ text[i] < Chunks
      /\ d' = [d EXCEPT !.delta = w]
      /\ UNCHANGED <<wire, mirrorVars, inbox, sends, spent>>
  <2>1. d.gen # 0
    BY <1>1, Begun DEF StreamPersisted
  <2>2. d.active \in Turns
    BY <1>1 DEF TypeIInv, Sound, Controllers, StreamPersisted
  <2> QED BY <2>1, <2>2 DEF StreamPersisted
<1>4. /\ i \in Items /\ text[i] \in Nat /\ n \in 1..Chunks /\ text[i] <= n
      /\ \A t \in Turns : i # User(t)
  <2>1. i \in Items
    BY <1>3, ItemTypes
  <2>2. text[i] \in Nat /\ Chunks \in Nat
    BY <1>1, <2>1, ReducerAssumption DEF TypeIInv, TypeOK, Texts
  <2>3. \A t \in Turns : i # User(t)
    BY DEF Answer, User
  <2> HIDE DEF i
  <2> QED BY <1>3, <2>1, <2>2, <2>3
<1>5. /\ Grown /\ Loading' /\ \A t \in Turns : i = Answer(t) => InRows(t, rows', Len(rows'))
  <2>1. UNCHANGED c
    BY <1>3 DEF mirrorVars
  <2>2. Stored(text, rows, Len(rows))
    BY <1>2 DEF Ordering
  <2> HIDE DEF i, n
  <2> QED BY <1>1, <1>3, <1>4, <2>1, <2>2, PersistLoads
<1>6. w \in Streams /\ Stored(w, rows', Len(rows'))
  <2>1. \A j \in Items : w[j] = IF j = i THEN n ELSE 0
    BY DEF Blank
  <2>2. w \in Texts
    BY <1>4, BlankIsText DEF Texts
  <2>3. \A t \in Turns : w[User(t)] = 0
    BY <1>4, <2>1, ItemTypes
  <2> HIDE DEF w, i, n
  <2>4. ASSUME NEW t \in Turns, w[Answer(t)] > 0 PROVE InRows(t, rows', Len(rows'))
    <3>1. Answer(t) = i
      <4>1. Answer(t) \in Items
        BY ItemTypes
      <4>2. w[Answer(t)] = IF Answer(t) = i THEN n ELSE 0
        BY <2>1, <4>1
      <4> QED BY <2>4, <4>2
    <3> QED BY <1>5, <3>1
  <2> QED BY <2>2, <2>3, <2>4 DEF Streams, Stored
<1> HIDE DEF i, n, w
<1>7. /\ d'.gen = d.gen /\ d'.seq = d.seq /\ d'.overlay = d.overlay /\ d'.delta = w
      /\ Listed(d') = Listed(d)
  BY <1>1, <1>3 DEF TypeIInv, Sound, Controllers, Listed
<1>8. wire' = wire \o <<>> /\ <<>> \in Seq(Updates)
  BY <1>1, <1>3, Wordless DEF TypeIInv, TypeOK
<1>9. \A k \in DOMAIN <<>> : FALSE
  OBVIOUS
<1>10. inbox' \subseteq inbox
  BY <1>3
<1> QED BY <1>3, <1>5, <1>6, <1>7, <1>8, <1>9, <1>10, QuietKeeps

LEMMA CloseQuietKeeps == ASSUME IInv, TypeIInv', Close, ~d.live PROVE IInv'
<1>1. TypeIInv /\ DaemonInv /\ Loading
  BY DEF IInv, Promises
<1>2. PICK H \in Histories : Follows(H) /\ Ordering(H)
  BY DEF IInv, Promises
<1>3. /\ d.gen # 0 /\ d' = [d EXCEPT !.owner = "closing"]
      /\ UNCHANGED <<rows, text, wire, mirrorVars, inbox, sends, spent>>
  BY <1>1, Begun DEF Close
<1>4. /\ d'.gen = d.gen /\ d'.seq = d.seq /\ d'.overlay = d.overlay /\ d'.delta = d.delta
      /\ Listed(d') = Listed(d)
  BY <1>1, <1>3 DEF TypeIInv, Sound, Controllers, Listed
<1>5. wire' = wire \o <<>> /\ <<>> \in Seq(Updates)
  BY <1>1, <1>3, Wordless DEF TypeIInv, TypeOK
<1>6. \A k \in DOMAIN <<>> : FALSE
  OBVIOUS
<1>7. inbox' \subseteq inbox /\ Loading'
  BY <1>1, <1>3 DEF Loading, mirrorVars
<1>8. Grown
  BY <1>1, <1>2, <1>3, SameTranscript
<1>9. d'.delta \in Streams /\ Stored(d'.delta, rows', Len(rows'))
  BY <1>1, <1>2, <1>3, <1>4 DEF DaemonInv, Ordering
<1> QED BY <1>3, <1>4, <1>5, <1>6, <1>7, <1>8, <1>9, QuietKeeps

LEMMA RefreshKeeps == ASSUME IInv, TypeIInv', Refresh PROVE IInv'
<1> DEFINE u == Update("refresh", d, Len(rows), d.overlay)
<1>1. TypeIInv /\ DaemonInv /\ Loading /\ Sound(d)
  BY DEF IInv, Promises, TypeIInv
<1>2. PICK H \in Histories : Follows(H) /\ Ordering(H)
  BY DEF IInv, Promises
<1>3. /\ d.gen # 0 /\ Has("trouble") /\ Push(<<u>>, Using("trouble"))
      /\ UNCHANGED <<rows, text, d, mirrorVars, inbox, sends>>
  <2>1. d.gen # 0
    BY <1>1 DEF Refresh, TypeIInv, TypeOK, Controllers
  <2> QED BY <2>1 DEF Refresh
<1>4. Using("trouble") \in Budgets /\ Using("trouble").gens = spent.gens
  BY <1>1, <1>3, Spending
<1>5. Len(rows) \in Nat /\ d.overlay \in Texts /\ wire \in Seq(Updates)
  BY <1>1 DEF TypeIInv, TypeOK, Sound, Controllers
<1>6. /\ u.kind = "refresh" /\ u.to.gen = d.gen /\ u.to.seq = d.seq
      /\ u.to.cursor = Len(rows) /\ u.to.overlay = d.overlay /\ Listed(u.to) = Listed(d)
  BY <1>1, <1>5, UpdateSays
<1>7. u \in Updates
  BY <1>1, <1>5, UpdateMessage DEF Sound, Kinds
<1> HIDE DEF u
<1>8. <<u>> \in Seq(Updates)
  BY <1>7
<1>9. PICK ms \in {<<u>>, <<>>} : ms \in Seq(Updates) /\ wire' = wire \o ms
  BY <1>3, <1>4, <1>5, <1>8, Pushed
<1>10. spent'.gens = spent.gens
  BY <1>3, <1>4, <1>5, <1>8, Pushed
<1>11. \A k \in DOMAIN ms : ms[k] = u
  BY <1>9
<1>12. inbox' \subseteq inbox /\ Loading'
  BY <1>1, <1>3 DEF Loading, mirrorVars
<1>13. Grown
  BY <1>1, <1>2, <1>3, SameTranscript
<1>14. d'.delta \in Streams /\ Stored(d'.delta, rows', Len(rows'))
  BY <1>1, <1>2, <1>3 DEF DaemonInv, Ordering
<1>15. Listed(d') = Listed(d) /\ Len(rows') = Len(rows)
  BY <1>3 DEF Listed
<1> QED BY <1>3, <1>6, <1>9, <1>10, <1>11, <1>12, <1>13, <1>14, <1>15, QuietKeeps

LEMMA RecordedKeeps == ASSUME IInv, TypeIInv', StreamRecorded PROVE IInv'
<1> DEFINE m == [d EXCEPT !.overlay = Merge(@, d.delta), !.delta = Blank]
           e == Numbered(m)
           u == Update("compact", e, Len(rows), d.delta)
<1>1. TypeIInv /\ DaemonInv /\ SentInv /\ Loading /\ Sound(d) /\ spent \in Budgets
  BY BudgetIs DEF IInv, Promises, TypeIInv
<1>2. PICK H \in Histories : Follows(H) /\ Ordering(H)
  BY DEF IInv, Promises
<1>3. /\ d.gen # 0 /\ d.seq > 0
      /\ d' = e /\ Push(<<u>>, spent)
      /\ UNCHANGED <<rows, text, mirrorVars, inbox, sends>>
  BY <1>1, Begun DEF StreamRecorded
<1>4. /\ d.overlay \in Texts /\ d.delta \in Texts /\ d.overlay \in Streams /\ d.delta \in Streams
      /\ Len(rows) \in Nat /\ wire \in Seq(Updates) /\ d.seq \in Nat /\ spent.gens \in Nat
      /\ rows \in Seq(Items)
  <2>1. spent.gens \in Nat
    BY <1>1, BoundsType DEF Budgets
  <2> QED BY <1>1, <2>1 DEF DaemonInv, Sound, Controllers, TypeIInv, TypeOK
<1>5. /\ Merge(d.overlay, d.delta) \in Streams
      /\ Stored(Merge(d.overlay, d.delta), rows, Len(rows))
  <2>1. Merge(d.overlay, d.delta) \in Texts
    BY <1>4, MergedTexts
  <2>2. \A i \in Items : Merge(d.overlay, d.delta)[i] = IF d.delta[i] > 0 THEN d.delta[i] ELSE d.overlay[i]
    BY DEF Merge
  <2>3. \A t \in Turns : Merge(d.overlay, d.delta)[User(t)] = 0
    BY <1>4, <2>2, ItemTypes DEF Streams
  <2>4. Stored(Merge(d.overlay, d.delta), rows, Len(rows))
    BY <1>2, <2>2, ItemTypes DEF Ordering, Stored
  <2> QED BY <2>1, <2>3, <2>4 DEF Streams
<1>6. /\ Sound(m) /\ m.gen = d.gen /\ m.seq = d.seq /\ m.overlay = Merge(d.overlay, d.delta)
      /\ m.delta = Blank /\ Listed(m) = Listed(d)
  BY <1>1, <1>5, BlankIsText DEF Sound, Controllers, Listed, Streams
<1> HIDE DEF m
<1>7. /\ Sound(e) /\ e.gen = d.gen /\ e.seq = d.seq + 1 /\ e.overlay = Merge(d.overlay, d.delta)
      /\ e.delta = Blank /\ Listed(e) = Listed(d)
  BY <1>6, NumberedSound, NumberedKeeps
<1> HIDE DEF e
<1>8. /\ u.kind = "compact" /\ u.to.gen = e.gen /\ u.to.seq = e.seq
      /\ u.to.cursor = Len(rows) /\ u.to.overlay = d.delta /\ Listed(u.to) = Listed(e)
  BY <1>4, <1>7, UpdateSays
<1>9. u \in Updates
  BY <1>4, <1>7, UpdateMessage DEF Sound, Kinds
<1> HIDE DEF u
<1>10. <<u>> \in Seq(Updates)
  BY <1>9
<1>11. PICK ms \in {<<u>>, <<>>} : ms \in Seq(Updates) /\ wire' = wire \o ms
  BY <1>1, <1>3, <1>4, <1>10, Pushed
<1>12. spent'.gens = spent.gens
  BY <1>1, <1>3, <1>4, <1>10, Pushed
<1>13. \A k \in DOMAIN ms : ms[k] = u
  BY <1>11
<1>14. e.seq > 1 /\ e.seq > 0 /\ d.seq < e.seq /\ e.seq - 1 = d.seq
  BY <1>3, <1>4, <1>7
<1>15. UNCHANGED Mirrored /\ inbox' \subseteq inbox /\ Loading' /\ Grown
  BY <1>1, <1>2, <1>3, SameTranscript DEF mirrorVars, Mirrored, Loading
<1>16. DaemonInv'
  <2>1. Blank \in Streams
    BY BlankSays DEF Notices
  <2> QED BY <1>1, <1>3, <1>5, <1>7, <1>12, <1>14, <2>1 DEF DaemonInv
<1>17. SentInv'
  <2>1. Proper(u, spent'.gens)
    BY <1>1, <1>7, <1>8, <1>12, <1>14 DEF Proper, DaemonInv
  <2>2. spent'.gens \in Nat /\ spent.gens <= spent'.gens
    BY <1>4, <1>12
  <2> QED BY <1>1, <1>4, <1>11, <1>13, <1>15, <2>1, <2>2, SentGoesOn
<1>18. PICK G \in Histories :
          /\ G[e.seq] = Said(e)
          /\ \A n \in Nat : \A t \in G[n].listed : sends[t] # "new"
          /\ \/ /\ e.gen = d.gen /\ d.gen # 0 /\ d.seq <= e.seq
                /\ \A n \in 0..d.seq : G[n] = H[n]
             \/ e.gen > spent.gens
  BY <1>1, <1>2, <1>3, <1>5, <1>7, <1>14, HistoryWith DEF DaemonInv
<1>19. \A n \in 0..d.seq : G[n] = H[n]
  <2>1. d.gen \in Nat /\ d.gen <= spent.gens
    BY <1>1 DEF DaemonInv, Sound, Controllers
  <2> QED BY <1>4, <1>7, <1>18, <2>1
<1>20. G[d.seq].overlay = d.overlay
  <2>1. G[d.seq] = H[d.seq] /\ H[d.seq] = Said(d)
    BY <1>2, <1>3, <1>4, <1>19 DEF Follows
  <2> QED BY <2>1 DEF Said
<1>21. TellsUpdate(G, e, u)
  <2>1. G[u.to.seq].overlay = Merge(G[u.to.seq - 1].overlay, u.to.overlay)
    BY <1>7, <1>8, <1>14, <1>18, <1>20 DEF Said
  <2>2. G[u.to.seq].listed = Listed(u.to)
    BY <1>8, <1>18 DEF Said
  <2> QED BY <1>4, <1>7, <1>8, <2>1, <2>2 DEF TellsUpdate
<1>22. /\ Stored(e.overlay, rows', Len(rows')) /\ Stored(e.delta, rows', Len(rows'))
       /\ Stored(u.to.overlay, rows', Len(rows')) /\ Stored(G[u.to.seq].overlay, rows', Len(rows'))
  <2>1. Stored(Blank, rows', Len(rows'))
    BY BlankSays DEF Stored
  <2>2. G[u.to.seq].overlay = e.overlay
    BY <1>8, <1>18 DEF Said
  <2> QED BY <1>2, <1>3, <1>5, <1>7, <1>8, <2>1, <2>2 DEF Ordering
<1>23. Follows(G)' /\ Ordering(G)'
  BY <1>1, <1>2, <1>3, <1>8, <1>11, <1>13, <1>15, <1>18, <1>21, <1>22, HistoryGoesOn
<1> QED BY <1>15, <1>16, <1>17, <1>23 DEF IInv, Promises

LEMMA CancelQueuedKeeps == ASSUME IInv, TypeIInv', CancelQueued PROVE IInv'
<1> DEFINE b == [d EXCEPT !.phase = "cancelling", !.failed = FALSE]
           a == Numbered(b)
           i == [a EXCEPT !.owner = "idle"]
           x == Ended(i, "cancelled")
           z == Numbered(x)
           u == Update("event", a, Len(rows), a.overlay)
           v == Update("terminal", z, Len(rows), z.overlay)
<1>1. TypeIInv /\ DaemonInv /\ SentInv /\ Loading /\ Sound(d)
  BY DEF IInv, Promises, TypeIInv
<1>2. PICK H \in Histories : Follows(H) /\ Ordering(H)
  BY DEF IInv, Promises
<1>3. /\ d.gen # 0 /\ d.seq > 0 /\ Has("trouble") /\ d.active # NoTurn
      /\ d' = z /\ Push(<<u, v>>, Using("trouble"))
      /\ UNCHANGED <<rows, text, mirrorVars, inbox, sends>>
  <2>1. d.gen # 0 /\ d.seq > 0
    BY <1>1, Begun DEF CancelQueued
  <2>2. d.active # NoTurn
    BY <1>1 DEF Sound, CancelQueued
  <2> QED BY <2>1, <2>2 DEF CancelQueued
<1>4. Using("trouble") \in Budgets /\ Using("trouble").gens = spent.gens
  BY <1>1, <1>3, Spending
<1>5. /\ d.overlay \in Streams /\ d.delta \in Streams /\ Len(rows) \in Nat
      /\ wire \in Seq(Updates) /\ d.seq \in Nat /\ d.gen \in Nat /\ spent.gens \in Nat
      /\ rows \in Seq(Items) /\ d.gen <= spent.gens
  <2>1. spent.gens \in Nat
    BY <1>1, BudgetIs, BoundsType DEF Budgets, TypeIInv
  <2> QED BY <1>1, <2>1 DEF DaemonInv, Sound, Controllers, TypeIInv, TypeOK
<1>6. /\ Sound(b) /\ b.gen = d.gen /\ b.seq = d.seq /\ b.overlay = d.overlay
      /\ b.delta = d.delta /\ b.active = d.active /\ Listed(b) = Listed(d)
  BY <1>1, <1>3 DEF Sound, Controllers, Phases, Listed
<1> HIDE DEF b
<1>7. /\ Sound(a) /\ a.gen = d.gen /\ a.seq = d.seq + 1 /\ a.overlay = d.overlay
      /\ a.delta = d.delta /\ a.active = d.active /\ Listed(a) = Listed(d)
  BY <1>6, NumberedSound, NumberedKeeps DEF Numbered, Sound, Controllers
<1> HIDE DEF a
<1>8. /\ Sound(i) /\ i.gen = d.gen /\ i.seq = d.seq + 1
      /\ i.delta = d.delta /\ i.active # NoTurn /\ Listed(i) = Listed(d)
  <2>1. /\ Sound(i) /\ i.gen = a.gen /\ i.seq = a.seq /\ i.delta = a.delta
        /\ i.active = a.active /\ i.queue = a.queue
    BY <1>7 DEF Sound, Controllers
  <2>2. Listed(i) = Listed(a)
    BY <2>1 DEF Listed
  <2> QED BY <1>3, <1>7, <2>1, <2>2
<1> HIDE DEF i
<1>9. /\ Sound(x) /\ x.gen = d.gen /\ x.seq = d.seq + 1 /\ x.delta = d.delta
      /\ Notice(x.overlay) /\ Listed(x) \subseteq Listed(d)
  BY <1>8, EndedSound, EndedKeeps DEF Notice
<1> HIDE DEF x
<1>10. /\ Sound(z) /\ z.gen = d.gen /\ z.seq = d.seq + 2 /\ z.delta = d.delta
       /\ Notice(z.overlay) /\ Listed(z) \subseteq Listed(d)
  <2>1. /\ Sound(z) /\ z.gen = d.gen /\ z.seq = d.seq + 1 + 1 /\ z.delta = d.delta
        /\ Notice(z.overlay) /\ Listed(z) \subseteq Listed(d)
    BY <1>9, NumberedSound, NumberedKeeps
  <2> QED BY <1>5, <2>1
<1> HIDE DEF z
<1>11. a.overlay \in Texts /\ z.overlay \in Texts /\ z.overlay \in Streams
  BY <1>5, <1>7, <1>10 DEF Streams, Notice, Notices
<1>12. /\ u.kind = "event" /\ u.to.gen = a.gen /\ u.to.seq = a.seq
       /\ u.to.cursor = Len(rows) /\ u.to.overlay = a.overlay /\ Listed(u.to) = Listed(a)
  BY <1>5, <1>7, <1>11, UpdateSays
<1>13. /\ v.kind = "terminal" /\ v.to.gen = z.gen /\ v.to.seq = z.seq
       /\ v.to.cursor = Len(rows) /\ v.to.overlay = z.overlay /\ Listed(v.to) = Listed(z)
  BY <1>5, <1>10, <1>11, UpdateSays
<1>14. u \in Updates /\ v \in Updates
  BY <1>5, <1>7, <1>10, <1>11, UpdateMessage DEF Sound, Kinds
<1> HIDE DEF u, v
<1>15. <<u, v>> \in Seq(Updates)
  BY <1>14
<1>16. PICK ms \in {<<u, v>>, <<>>} : ms \in Seq(Updates) /\ wire' = wire \o ms
  BY <1>3, <1>4, <1>5, <1>15, Pushed
<1>17. spent'.gens = spent.gens /\ spent'.gens \in Nat /\ spent.gens <= spent'.gens
  <2>1. spent'.gens = spent.gens
    BY <1>3, <1>4, <1>5, <1>15, Pushed
  <2> QED BY <1>5, <2>1
<1>18. \A k \in DOMAIN ms : ms[k] = u \/ ms[k] = v
  BY <1>16
<1>19. UNCHANGED Mirrored /\ inbox' \subseteq inbox /\ Loading' /\ Grown
  BY <1>1, <1>2, <1>3, SameTranscript DEF mirrorVars, Mirrored, Loading
<1>20. /\ a.seq > 0 /\ z.seq > 0 /\ a.seq <= z.seq /\ d.seq <= z.seq /\ a.seq # z.seq
       /\ a.seq \in Nat /\ z.seq \in Nat
       /\ \A n \in 0..d.seq : n # a.seq /\ n # z.seq /\ n \in Nat
  BY <1>5, <1>7, <1>10
<1>21. DaemonInv'
  BY <1>1, <1>3, <1>10, <1>11, <1>17, <1>20 DEF DaemonInv
<1>22. SentInv'
  <2>1. Proper(u, spent'.gens)
    BY <1>5, <1>7, <1>12, <1>17, <1>20 DEF Proper
  <2>2. Proper(v, spent'.gens)
    BY <1>5, <1>10, <1>13, <1>17, <1>20 DEF Proper, Notice, Notices
  <2> QED BY <1>1, <1>5, <1>16, <1>17, <1>18, <1>19, <2>1, <2>2, SentGoesOn
<1> DEFINE F == [H EXCEPT ![a.seq] = Said(a)]
<1>23. /\ Said(a) \in [overlay : Streams, listed : SUBSET Turns]
       /\ Said(z) \in [overlay : Streams, listed : SUBSET Turns]
       /\ Said(a).overlay = a.overlay /\ Said(a).listed = Listed(a)
       /\ Said(z).overlay = z.overlay /\ Said(z).listed = Listed(z)
  BY <1>5, <1>7, <1>10, <1>11, ListedType DEF Said
<1>24. /\ F \in Histories /\ F[a.seq] = Said(a)
       /\ \A n \in Nat : F[n] = H[n] \/ F[n] = Said(a)
       /\ \A n \in 0..d.seq : F[n] = H[n]
  BY <1>20, <1>23 DEF Histories
<1> HIDE DEF F
<1>25. PICK G \in Histories :
          /\ G[a.seq] = Said(a) /\ G[z.seq] = Said(z)
          /\ \A n \in Nat : G[n] = F[n] \/ G[n] = Said(z)
          /\ \A n \in 0..d.seq : G[n] = F[n]
  <2> DEFINE E == [F EXCEPT ![z.seq] = Said(z)]
  <2>1. /\ E \in Histories /\ E[a.seq] = Said(a) /\ E[z.seq] = Said(z)
        /\ \A n \in Nat : E[n] = F[n] \/ E[n] = Said(z)
        /\ \A n \in 0..d.seq : E[n] = F[n]
    BY <1>20, <1>23, <1>24 DEF Histories
  <2> HIDE DEF E
  <2> QED BY <2>1
<1>26. \A n \in Nat : \A t \in G[n].listed : sends[t] # "new"
  <2>1. \A n \in Nat : \A t \in H[n].listed : sends[t] # "new"
    BY <1>2, <1>3 DEF Follows, Histories
  <2>2. \A t \in Listed(d) : sends[t] # "new"
    BY <1>1 DEF DaemonInv
  <2> QED BY <1>7, <1>10, <1>23, <1>24, <1>25, <2>1, <2>2
<1>27. TellsUpdate(G, z, u) /\ TellsUpdate(G, z, v)
  <2>1. z.seq <= z.seq
    BY <1>20
  <2> QED BY <1>12, <1>13, <1>20, <1>23, <1>25, <2>1 DEF TellsUpdate
<1>28. /\ Stored(d.overlay, rows', Len(rows')) /\ Stored(d.delta, rows', Len(rows'))
       /\ Stored(z.overlay, rows', Len(rows'))
  BY <1>2, <1>3, <1>10 DEF Ordering, Notice, Stored
<1>29. \A k \in DOMAIN ms :
          /\ TellsUpdate(G, z, ms[k])
          /\ ms[k].to.cursor = Len(rows')
          /\ Stored(ms[k].to.overlay, rows', Len(rows'))
          /\ Stored(G[ms[k].to.seq].overlay, rows', Len(rows'))
  BY <1>3, <1>7, <1>12, <1>13, <1>18, <1>23, <1>25, <1>27, <1>28
<1>30. Follows(G)' /\ Ordering(G)'
  <2>1. d'.gen = d.gen /\ \A n \in 0..d.seq : G[n] = H[n]
    BY <1>3, <1>10, <1>24, <1>25
  <2>2. Stored(d'.overlay, rows', Len(rows')) /\ Stored(d'.delta, rows', Len(rows'))
    BY <1>3, <1>10, <1>28
  <2>3. /\ G \in Histories /\ G[d'.seq] = Said(d') /\ d.gen # 0 /\ d.seq <= d'.seq
        /\ \A k \in DOMAIN ms :
              /\ TellsUpdate(G, d', ms[k])
              /\ ms[k].to.cursor = Len(rows')
              /\ Stored(ms[k].to.overlay, rows', Len(rows'))
              /\ Stored(G[ms[k].to.seq].overlay, rows', Len(rows'))
    BY <1>3, <1>20, <1>25, <1>29
  <2> QED BY <1>1, <1>2, <1>16, <1>19, <1>26, <2>1, <2>2, <2>3, HistoryGoesOn
<1> QED BY <1>19, <1>21, <1>22, <1>25, <1>30 DEF IInv, Promises

LEMMA ClosedKeeps == ASSUME IInv, TypeIInv', Closed PROVE IInv'
<1> DEFINE r == Rotated(d)
           s == [r EXCEPT !.owner = "idle"]
<1>1. TypeIInv /\ DaemonInv /\ SentInv /\ Loading /\ Sound(d) /\ spent \in Budgets
  BY BudgetIs DEF IInv, Promises, TypeIInv
<1>2. PICK H \in Histories : Follows(H) /\ Ordering(H)
  BY DEF IInv, Promises
<1>3. /\ d.gen # 0 /\ d.seq > 0 /\ Has("gens") /\ d' = s
      /\ UNCHANGED <<rows, text, wire, mirrorVars, inbox, sends>>
      /\ spent' = Using("gens")
  BY <1>1, Begun DEF Closed, Spend
<1>4. /\ Sound(r) /\ r.gen = spent.gens + 1 /\ r.seq = d.seq /\ r.delta = d.delta
      /\ r.overlay = Blank /\ Listed(r) = Listed(d)
  BY <1>1, RotatedSound, RotatedKeeps
<1> HIDE DEF r
<1>5. /\ Sound(s) /\ s.gen = spent.gens + 1 /\ s.seq = d.seq /\ s.delta = d.delta
      /\ s.overlay = Blank /\ Listed(s) = Listed(d)
  BY <1>4 DEF Sound, Controllers, Listed
<1> HIDE DEF s
<1>6. /\ spent.gens \in Nat /\ spent'.gens = spent.gens + 1 /\ spent'.gens \in Nat
      /\ spent.gens <= spent'.gens /\ s.gen > spent.gens /\ s.gen # 0 /\ s.gen <= spent'.gens
  <2>1. spent.gens \in Nat
    BY <1>1, BoundsType DEF Budgets
  <2>2. spent'.gens = spent.gens + 1
    BY <1>1, <1>3, Spending
  <2> QED BY <1>5, <2>1, <2>2
<1>7. Blank \in Streams /\ Stored(Blank, rows', Len(rows'))
  BY BlankSays DEF Notices, Stored
<1>8. UNCHANGED Mirrored /\ inbox' \subseteq inbox /\ Loading' /\ Grown
  BY <1>1, <1>2, <1>3, SameTranscript DEF mirrorVars, Mirrored, Loading
<1>9. wire' = wire \o <<>> /\ <<>> \in Seq(Updates)
  BY <1>1, <1>3, Wordless DEF TypeIInv, TypeOK
<1>10. \A k \in DOMAIN <<>> : FALSE
  OBVIOUS
<1>11. DaemonInv'
  BY <1>1, <1>3, <1>5, <1>6, <1>7 DEF DaemonInv
<1>12. SentInv'
  BY <1>1, <1>6, <1>8, <1>9, <1>10, SentGoesOn
<1>13. \A t \in Listed(s) : sends[t] # "new"
  BY <1>1, <1>5 DEF DaemonInv
<1>14. PICK G \in Histories :
          /\ G[s.seq] = Said(s)
          /\ \A n \in Nat : \A t \in G[n].listed : sends[t] # "new"
  BY <1>1, <1>2, <1>5, <1>6, <1>7, <1>13, HistoryWith
<1>15. Stored(d'.overlay, rows', Len(rows')) /\ Stored(d'.delta, rows', Len(rows'))
  BY <1>2, <1>3, <1>5, <1>7 DEF Ordering
<1>16. Follows(G)' /\ Ordering(G)'
  BY <1>1, <1>2, <1>3, <1>6, <1>8, <1>9, <1>10, <1>14, <1>15, HistoryGoesOn
<1> QED BY <1>8, <1>11, <1>12, <1>16 DEF IInv, Promises

LEMMA EvictKeeps == ASSUME IInv, TypeIInv', Evict PROVE IInv'
<1>1. TypeIInv /\ DaemonInv /\ SentInv /\ Loading
  BY DEF IInv, Promises
<1>2. PICK H \in Histories : Follows(H) /\ Ordering(H)
  BY DEF IInv, Promises
<1>3. /\ d' = Bare /\ wire = <<>> /\ wire' = <<>>
      /\ UNCHANGED <<rows, text, mirrorVars, inbox, sends, spent>>
  BY DEF Evict
<1>4. UNCHANGED <<c, request, hydrate, sends, Answers>> /\ Loading'
  BY <1>1, <1>3 DEF mirrorVars, Answers, Loading
<1>5. /\ Bare.gen = 0 /\ Bare.overlay = Blank /\ Bare.delta = Blank /\ Listed(Bare) = {}
  BY DEF Bare, Listed
<1>6. Blank \in Streams /\ Stored(Blank, rows', Len(rows'))
  BY BlankSays DEF Notices, Stored
<1>7. spent.gens \in Nat
  BY <1>1, BudgetIs, BoundsType DEF Budgets, TypeIInv
<1>8. DaemonInv'
  BY <1>1, <1>3, <1>5, <1>6, <1>7 DEF DaemonInv
<1>9. SentInv'
  BY <1>1, <1>3, <1>4 DEF SentInv
<1>10. Follows(H)'
  BY <1>3, <1>5 DEF Follows
<1>11. Ordering(H)'
  <2>1. Stored(text', rows', Len(rows'))
    BY <1>2, <1>3 DEF Ordering
  <2>2. ASSUME NEW task \in Answers, NEW t \in Turns, task.p.overlay[Answer(t)] > 0
        PROVE  /\ task.p.seq > 0 /\ InRows(t, rows', Len(rows'))
               /\ StoredFrom(task.p, t, wire', rows')
    BY <1>2, <1>3, <2>2 DEF Ordering
  <2>3. ASSUME NEW t \in Turns, c.p.overlay[Answer(t)] > 0, c.committed[Answer(t)] = 0
        PROVE  /\ c.p.seq > 0 /\ InRows(t, rows', Len(rows'))
               /\ StoredFrom(c.p, t, wire', rows')
    BY <1>2, <1>3, <2>3 DEF Ordering
  <2> QED BY <1>3, <1>4, <1>5, <1>6, <2>1, <2>2, <2>3 DEF Ordering
<1> QED BY <1>4, <1>8, <1>9, <1>10, <1>11 DEF IInv, Promises

(* Every step of the daemon keeps the invariant.                           *)
LEMMA DaemonPromises == ASSUME IInv, DaemonStep PROVE IInv'
<1>1. TypeIInv'
  BY DaemonTypes DEF IInv
<1> QED BY <1>1, SubmitKeeps, ClaimKeeps, StartedKeeps, ReadyKeeps, PersistedKeeps,
           RecordedKeeps, FinishKeeps, CancelQueuedKeeps, CancelClaimedKeeps,
           CancelSettledKeeps, CloseLiveKeeps, CloseQuietKeeps, ClosedKeeps, EvictKeeps,
           RefreshKeeps DEF DaemonStep
-------------------------------------------------------------------------------
(* What the reducer does with the text on the screen, the turns listed and *)
(* the backups.                                                            *)

(* What an overlay and the committed items show of an item.                *)
Shown(overlay, committed, i) == IF overlay[i] > 0 THEN overlay[i] ELSE committed[i]

(* The length of a text is a number.                                       *)
LEMMA TextIsNat == ASSUME NEW o \in Texts, NEW i \in Items PROVE o[i] \in Nat
BY ReducerAssumption DEF Texts

(* Discarding backups and pruning change nothing on the screen, and keep   *)
(* no backup of a turn that is listed.                                     *)
LEMMA SettledSays ==
    ASSUME NEW x \in Clients
    PROVE  LET y == Settled(x) IN
           /\ y.known = x.known /\ y.committed = x.committed /\ y.loaded = x.loaded
           /\ y.p.gen = x.p.gen /\ y.p.seq = x.p.seq /\ Listed(y.p) = Listed(x.p)
           /\ \A i \in Items : y.p.overlay[i] > 0 => y.p.overlay[i] = x.p.overlay[i]
           /\ x.known => \A i \in Items :
                Display(y, i) = Shown(x.p.overlay, x.committed, i)
           /\ \A t \in Turns : y.base[t] \in {"none", x.base[t]}
           /\ \A t \in Turns : t \in Listed(x.p) => y.base[t] = "none"
<1> DEFINE q == [x.p EXCEPT !.overlay = Pruned(x.p.overlay, x.committed)]
           pruned == IF x.known THEN [x EXCEPT !.p = q] ELSE x
           kept == [t \in Turns |-> IF t \in Authoritative(x) THEN "none" ELSE x.base[t]]
           base == [t \in Turns |-> IF x.known /\ t \notin Tracked(pruned) THEN "none" ELSE kept[t]]
           y == [pruned EXCEPT !.base = base]
<1>1. Settled(x) = y
  BY DEF Settled
<1>2. /\ q.gen = x.p.gen /\ q.seq = x.p.seq /\ q.active = x.p.active /\ q.queue = x.p.queue
      /\ q.overlay = Pruned(x.p.overlay, x.committed)
  BY DEF Clients, Projections
<1>3. \A i \in Items : q.overlay[i] = IF x.committed[i] = x.p.overlay[i] THEN 0 ELSE x.p.overlay[i]
  BY <1>2 DEF Pruned
<1>4. /\ \A t \in Turns : base[t] \in {"none", x.base[t]}
      /\ \A t \in Turns : t \in Listed(x.p) => base[t] = "none"
  BY DEF Authoritative
<1> HIDE DEF q
<1>5. /\ pruned.known = x.known /\ pruned.committed = x.committed /\ pruned.loaded = x.loaded
      /\ pruned.p = IF x.known THEN q ELSE x.p
      /\ DOMAIN pruned = {"known", "p", "committed", "loaded", "sync", "base"}
  BY DEF Clients
<1> HIDE DEF pruned, base
<1>6. /\ y.known = x.known /\ y.committed = x.committed /\ y.loaded = x.loaded
      /\ y.p = (IF x.known THEN q ELSE x.p) /\ y.base = base
  BY <1>5
<1> HIDE DEF y
<1>7. \A i \in Items : x.p.overlay[i] \in Nat /\ x.committed[i] \in Nat
  BY TextIsNat DEF Clients, Projections
<1>8. \A i \in Items : y.p.overlay[i] > 0 => y.p.overlay[i] = x.p.overlay[i]
  BY <1>3, <1>6, <1>7
<1>9. ASSUME x.known, NEW i \in Items PROVE Display(y, i) = Shown(x.p.overlay, x.committed, i)
  BY <1>3, <1>6, <1>7, <1>9 DEF Display, Shown
<1>10. Listed(y.p) = Listed(x.p) /\ y.p.gen = x.p.gen /\ y.p.seq = x.p.seq
  BY <1>2, <1>6 DEF Listed
<1> QED BY <1>1, <1>4, <1>6, <1>8, <1>9, <1>10

(* An accepted projection is shown, over the committed items.              *)
LEMMA AcceptSays ==
    ASSUME NEW x \in Clients, NEW p \in Projections
    PROVE  LET y == Accept(x, p).c IN
           /\ y.known /\ y.committed = x.committed /\ y.loaded = x.loaded
           /\ y.p.gen = p.gen /\ y.p.seq = p.seq /\ Listed(y.p) = Listed(p)
           /\ \A i \in Items : y.p.overlay[i] > 0 => y.p.overlay[i] = p.overlay[i]
           /\ \A i \in Items : Display(y, i) = Shown(p.overlay, x.committed, i)
           /\ \A t \in Turns : y.base[t] \in {"none", x.base[t]}
           /\ \A t \in Turns : t \in Listed(p) => y.base[t] = "none"
           /\ Accept(x, p).load = IF p.cursor > x.loaded THEN p.cursor ELSE 0
<1> DEFINE q == [p EXCEPT !.cursor = IF @ < x.loaded THEN x.loaded ELSE @]
           z == [x EXCEPT !.known = TRUE, !.sync = "synchronized", !.p = q]
<1>1. q \in Projections
  BY DEF Clients, Projections
<1>2. z \in Clients
  BY <1>1 DEF Clients
<1>3. Accept(x, p).c = Settled(z) /\ Accept(x, p).load = IF p.cursor > x.loaded THEN p.cursor ELSE 0
  BY DEF Accept, Reduced
<1>4. /\ q.gen = p.gen /\ q.seq = p.seq /\ q.active = p.active /\ q.queue = p.queue
      /\ q.overlay = p.overlay
  BY DEF Projections
<1>5. /\ z.known = TRUE /\ z.p = q /\ z.committed = x.committed /\ z.loaded = x.loaded
      /\ z.base = x.base
  BY DEF Clients
<1> HIDE DEF q, z
<1>6. Listed(q) = Listed(p)
  BY <1>4 DEF Listed
<1> QED BY <1>2, <1>3, <1>4, <1>5, <1>6, SettledSays

(* Retaining adds to a projection only what the mirror holds and the rows  *)
(* say in an older text.                                                   *)
LEMMA RetainingSays ==
    ASSUME NEW x \in Clients, NEW p \in Projections
    PROVE  LET q == Retaining(x, p) IN
           /\ q.gen = p.gen /\ q.seq = p.seq /\ q.cursor = p.cursor /\ Listed(q) = Listed(p)
           /\ \A i \in Items : q.overlay[i] =
                IF p.overlay[i] > 0 THEN p.overlay[i]
                ELSE IF x.committed[i] > 0 /\ x.committed[i] # x.p.overlay[i]
                     THEN x.p.overlay[i] ELSE 0
<1>1. /\ Retaining(x, p).gen = p.gen /\ Retaining(x, p).seq = p.seq /\ Retaining(x, p).cursor = p.cursor
      /\ Retaining(x, p).active = p.active /\ Retaining(x, p).queue = p.queue
      /\ Retaining(x, p).overlay = Merge(Stale(x), p.overlay)
  BY DEF Retaining, Projections
<1>2. Listed(Retaining(x, p)) = Listed(p)
  BY <1>1 DEF Listed
<1> QED BY <1>1, <1>2 DEF Merge, Stale

(* A snapshot is shown, and no item of it is lost.                         *)
LEMMA SnapshotSays ==
    ASSUME NEW x \in Clients, NEW p \in Projections
    PROVE  LET y == ApplySnapshot(x, p).c IN
           /\ y.known /\ y.committed = x.committed /\ y.loaded = x.loaded
           /\ y.p.gen = p.gen /\ y.p.seq = p.seq
           /\ \A i \in Items : p.overlay[i] <= Display(y, i)
           /\ \A i \in Items : y.p.overlay[i] > 0 /\ x.committed[i] = 0 => p.overlay[i] > 0
           /\ \A t \in Turns : t \in Listed(p) => y.base[t] = "none"
<1> DEFINE q == Retaining(x, p)
           y == Accept(x, q).c
<1>1. ApplySnapshot(x, p).c = y
  BY DEF ApplySnapshot
<1>2. q \in Projections
  BY RetainingType
<1>3. /\ q.gen = p.gen /\ q.seq = p.seq /\ Listed(q) = Listed(p)
      /\ \A i \in Items : q.overlay[i] =
                IF p.overlay[i] > 0 THEN p.overlay[i]
                ELSE IF x.committed[i] > 0 /\ x.committed[i] # x.p.overlay[i]
                     THEN x.p.overlay[i] ELSE 0
  BY RetainingSays
<1>4. \A i \in Items : p.overlay[i] \in Nat /\ x.committed[i] \in Nat /\ x.p.overlay[i] \in Nat
  BY TextIsNat DEF Clients, Projections
<1> HIDE DEF q
<1>5. /\ y.known /\ y.committed = x.committed /\ y.loaded = x.loaded
      /\ y.p.gen = q.gen /\ y.p.seq = q.seq
      /\ \A i \in Items : y.p.overlay[i] > 0 => y.p.overlay[i] = q.overlay[i]
      /\ \A i \in Items : Display(y, i) = Shown(q.overlay, x.committed, i)
      /\ \A t \in Turns : t \in Listed(q) => y.base[t] = "none"
  BY <1>2, AcceptSays
<1> HIDE DEF y
<1>6. ASSUME NEW i \in Items PROVE p.overlay[i] <= Display(y, i)
  <2>1. q.overlay[i] = IF p.overlay[i] > 0 THEN p.overlay[i]
                ELSE IF x.committed[i] > 0 /\ x.committed[i] # x.p.overlay[i]
                     THEN x.p.overlay[i] ELSE 0
    BY <1>3
  <2>2. Display(y, i) = IF q.overlay[i] > 0 THEN q.overlay[i] ELSE x.committed[i]
    BY <1>5 DEF Shown
  <2> QED BY <1>4, <2>1, <2>2
<1>7. ASSUME NEW i \in Items, y.p.overlay[i] > 0, x.committed[i] = 0 PROVE p.overlay[i] > 0
  <2>1. q.overlay[i] > 0
    BY <1>5, <1>7
  <2> QED BY <1>3, <1>4, <1>7, <2>1
<1> QED BY <1>1, <1>3, <1>5, <1>6, <1>7

(* An update, completed with what the mirror holds, shows its own text of  *)
(* an item where it has one, and else what was on the screen, but for an   *)
(* answer that no row has been read of yet.                                *)
LEMMA NormalizedSays ==
    ASSUME NEW x \in Clients, NEW u \in Updates
    PROVE  LET n == Normalized(x, u) IN
           /\ n.gen = u.to.gen /\ n.seq = u.to.seq /\ n.cursor = u.to.cursor
           /\ Listed(n) = Listed(u.to)
           /\ \A i \in Items :
                /\ n.overlay[i] > 0 /\ x.committed[i] = 0 =>
                     u.to.overlay[i] > 0 \/ x.p.overlay[i] > 0
                /\ u.to.overlay[i] > 0 =>
                     \/ n.overlay[i] = u.to.overlay[i]
                     \/ u.kind = "terminal" /\ x.committed[i] = u.to.overlay[i]
                /\ u.kind = "compact" /\ u.to.overlay[i] = 0 => n.overlay[i] = x.p.overlay[i]
                /\ u.to.overlay[i] = 0 =>
                     \/ Shown(n.overlay, x.committed, i) = Shown(x.p.overlay, x.committed, i)
                     \/ x.committed[i] = 0 /\ x.p.overlay[i] > 0
<1> DEFINE r == Rebuilt(x, u)
           f == Finished(x, u, r)
           n == Normalized(x, u)
<1>1. /\ u.to \in Projections /\ x.p \in Projections /\ x.committed \in Texts
      /\ x.p.overlay \in Texts /\ u.to.overlay \in Texts
  BY DEF Updates, Clients, Projections
<1>2. /\ r \in Projections
      /\ r.gen = u.to.gen /\ r.seq = u.to.seq /\ r.cursor = u.to.cursor
      /\ r.active = u.to.active /\ r.queue = u.to.queue
      /\ r.overlay = IF u.kind = "compact" THEN Merge(x.p.overlay, u.to.overlay) ELSE u.to.overlay
  <2>1. Merge(x.p.overlay, u.to.overlay) \in Texts
    BY <1>1, MergedTexts
  <2> QED BY <1>1, <2>1 DEF Rebuilt, Projections
<1> HIDE DEF r
<1>3. /\ f \in Projections
      /\ f.gen = u.to.gen /\ f.seq = u.to.seq /\ f.cursor = u.to.cursor
      /\ f.active = u.to.active /\ f.queue = u.to.queue
      /\ \/ f.overlay = r.overlay
         \/ /\ u.kind = "terminal"
            /\ f.overlay = Pruned(Merge(x.p.overlay, r.overlay), x.committed)
  <2>1. Pruned(Merge(x.p.overlay, r.overlay), x.committed) \in Texts
    BY <1>1, <1>2, MergedTexts DEF Projections
  <2> QED BY <1>2, <2>1 DEF Finished, Projections
<1>4. n = Retaining(x, f)
  BY DEF Normalized, r
<1> HIDE DEF f, n
<1>5. /\ n.gen = u.to.gen /\ n.seq = u.to.seq /\ n.cursor = u.to.cursor
      /\ Listed(n) = Listed(u.to)
      /\ \A i \in Items : n.overlay[i] =
                IF f.overlay[i] > 0 THEN f.overlay[i]
                ELSE IF x.committed[i] > 0 /\ x.committed[i] # x.p.overlay[i]
                     THEN x.p.overlay[i] ELSE 0
  <2>1. Listed(f) = Listed(u.to)
    BY <1>3 DEF Listed
  <2> QED BY <1>3, <1>4, <2>1, RetainingSays
<1>6. ASSUME NEW i \in Items
      PROVE  /\ n.overlay[i] > 0 /\ x.committed[i] = 0 =>
                  u.to.overlay[i] > 0 \/ x.p.overlay[i] > 0
             /\ u.to.overlay[i] > 0 =>
                  \/ n.overlay[i] = u.to.overlay[i]
                  \/ u.kind = "terminal" /\ x.committed[i] = u.to.overlay[i]
             /\ u.kind = "compact" /\ u.to.overlay[i] = 0 => n.overlay[i] = x.p.overlay[i]
             /\ u.to.overlay[i] = 0 =>
                  \/ Shown(n.overlay, x.committed, i) = Shown(x.p.overlay, x.committed, i)
                  \/ x.committed[i] = 0 /\ x.p.overlay[i] > 0
  <2>1. x.p.overlay[i] \in Nat /\ x.committed[i] \in Nat /\ u.to.overlay[i] \in Nat
    BY <1>1, TextIsNat
  <2>2. r.overlay[i] = IF u.kind = "compact"
                       THEN IF u.to.overlay[i] > 0 THEN u.to.overlay[i] ELSE x.p.overlay[i]
                       ELSE u.to.overlay[i]
    BY <1>2 DEF Merge
  <2> DEFINE merged == IF r.overlay[i] > 0 THEN r.overlay[i] ELSE x.p.overlay[i]
  <2>3. \/ f.overlay[i] = r.overlay[i]
        \/ /\ u.kind = "terminal"
           /\ f.overlay[i] = IF x.committed[i] = merged THEN 0 ELSE merged
    BY <1>3 DEF Merge, Pruned
  <2>4. n.overlay[i] = IF f.overlay[i] > 0 THEN f.overlay[i]
                       ELSE IF x.committed[i] > 0 /\ x.committed[i] # x.p.overlay[i]
                            THEN x.p.overlay[i] ELSE 0
    BY <1>5
  <2>5. /\ Shown(n.overlay, x.committed, i) = IF n.overlay[i] > 0 THEN n.overlay[i] ELSE x.committed[i]
        /\ Shown(x.p.overlay, x.committed, i) = IF x.p.overlay[i] > 0 THEN x.p.overlay[i] ELSE x.committed[i]
    BY DEF Shown
  <2>6. CASE u.kind = "terminal"
    BY <2>1, <2>2, <2>3, <2>4, <2>5, <2>6
  <2>7. CASE u.kind # "terminal"
    BY <2>1, <2>2, <2>3, <2>4, <2>5, <2>7
  <2> QED BY <2>6, <2>7
<1> QED BY <1>5, <1>6 DEF n

(* A page of history takes nothing off the screen.                         *)
LEMMA HistorySays ==
    ASSUME NEW x \in Clients, NEW rs \in Seq(Items), NEW ts \in Texts,
           \A i \in Items : x.committed[i] <= ts[i],
           \A k \in 1..Len(rs) : ts[rs[k]] > 0,
           x.loaded <= Len(rs), \A k \in 1..x.loaded : x.committed[rs[k]] > 0
    PROVE  LET y == AppendHistory(x, rs, ts) IN
           /\ y.known = x.known /\ y.p.gen = x.p.gen /\ y.p.seq = x.p.seq
           /\ \A i \in Items : y.committed[i] <= ts[i] /\ x.committed[i] <= y.committed[i]
           /\ y.loaded <= Len(rs) /\ \A k \in 1..y.loaded : y.committed[rs[k]] > 0
           /\ \A i \in Items : y.p.overlay[i] > 0 => y.p.overlay[i] = x.p.overlay[i]
           /\ x.known => \A i \in Items : Display(x, i) <= Display(y, i)
           /\ \A t \in Turns : y.base[t] \in {"none", x.base[t]}
<1> DEFINE read == [i \in Items |->
                IF \E k \in x.loaded + 1..Len(rs) : rs[k] = i
                THEN ts[i] ELSE x.committed[i]]
           z == [x EXCEPT !.loaded = Len(rs), !.committed = read]
           y == AppendHistory(x, rs, ts)
<1>1. /\ \A i \in Items : x.committed[i] \in Nat /\ ts[i] \in Nat /\ x.p.overlay[i] \in Nat
      /\ Len(rs) \in Nat /\ x.loaded \in Nat
  BY TextIsNat DEF Clients, Projections
<1>2. CASE ~(Len(rs) > x.loaded)
  <2>1. y = x
    BY <1>2 DEF AppendHistory
  <2>2. \A i \in Items : Display(x, i) \in Nat
    BY <1>1 DEF Display
  <2> QED BY <1>1, <2>1, <2>2
<1>3. CASE Len(rs) > x.loaded
  <2>1. y = Settled(z)
    BY <1>3 DEF AppendHistory
  <2>2. \A i \in Items : read[i] \in {ts[i], x.committed[i]}
    OBVIOUS
  <2>3. read \in Texts
    BY <2>2 DEF Clients, Texts
  <2>4. \A i \in Items : read[i] <= ts[i] /\ x.committed[i] <= read[i] /\ read[i] \in Nat
    BY <1>1, <2>2
  <2>5. ASSUME NEW k \in 1..Len(rs) PROVE read[rs[k]] > 0
    <3>1. rs[k] \in Items
      BY ElementOfSeq
    <3>2. CASE k \in 1..x.loaded
      <4>1. x.committed[rs[k]] > 0
        BY <3>2
      <4> HIDE DEF read
      <4> QED BY <1>1, <2>4, <3>1, <4>1
    <3>3. CASE k \in x.loaded + 1..Len(rs)
      <4>1. read[rs[k]] = ts[rs[k]]
        BY <3>1, <3>3
      <4> QED BY <4>1
    <3> QED BY <1>1, <3>2, <3>3
  <2> HIDE DEF read
  <2>6. /\ z \in Clients /\ z.known = x.known /\ z.p = x.p /\ z.committed = read
        /\ z.loaded = Len(rs) /\ z.base = x.base
    BY <1>1, <2>3 DEF Clients
  <2> HIDE DEF z
  <2>7. /\ y.known = x.known /\ y.committed = read /\ y.loaded = Len(rs)
        /\ y.p.gen = x.p.gen /\ y.p.seq = x.p.seq
        /\ \A i \in Items : y.p.overlay[i] > 0 => y.p.overlay[i] = x.p.overlay[i]
        /\ x.known => \A i \in Items : Display(y, i) = Shown(x.p.overlay, read, i)
        /\ \A t \in Turns : y.base[t] \in {"none", x.base[t]}
    BY <2>1, <2>6, SettledSays
  <2> HIDE DEF y
  <2>8. ASSUME x.known, NEW i \in Items PROVE Display(x, i) <= Display(y, i)
    <3>1. Display(y, i) = IF x.p.overlay[i] > 0 THEN x.p.overlay[i] ELSE read[i]
      BY <2>7, <2>8 DEF Shown
    <3>2. Display(x, i) = IF x.p.overlay[i] > 0 THEN x.p.overlay[i] ELSE x.committed[i]
      BY <2>8 DEF Display
    <3> QED BY <1>1, <2>4, <3>1, <3>2
  <2>9. y.loaded <= Len(rs)
    BY <1>1, <2>7
  <2> QED BY <2>4, <2>5, <2>7, <2>8, <2>9 DEF y
<1> QED BY <1>2, <1>3

(* What a composer's own turn t changes in the mirror.                     *)
OwnChange(x, y, t) ==
    /\ y.known = x.known /\ y.committed = x.committed /\ y.loaded = x.loaded
    /\ y.p.gen = x.p.gen /\ y.p.seq = x.p.seq
    /\ \A i \in Items : i # User(t) => y.p.overlay[i] = x.p.overlay[i]
    /\ \A u \in Turns : u # t => y.base[u] = x.base[u]

(* An optimistic submission changes its own message and backup only.       *)
LEMMA SubmitSays ==
    ASSUME NEW x \in Clients, NEW t \in Turns
    PROVE  OwnChange(x, OptimisticSubmit(x, t), t)
<1> DEFINE o == [x.p.overlay EXCEPT ![User(t)] = 1]
           b == [x.base EXCEPT ![t] = IF x.p.live THEN "live" ELSE "closed"]
           q == [x.p EXCEPT !.overlay = o]
           shown == [x EXCEPT !.base = b, !.p = q]
           waits == [q EXCEPT !.queue = Append(@, t)]
           starts == [q EXCEPT !.live = TRUE, !.active = t, !.phase = "queued"]
           y == OptimisticSubmit(x, t)
<1>1. /\ \A i \in Items : i # User(t) => o[i] = x.p.overlay[i]
      /\ \A u \in Turns : u # t => b[u] = x.base[u]
  BY DEF Clients, Projections, Texts
<1> HIDE DEF o, b
<1>2. /\ waits.gen = x.p.gen /\ waits.seq = x.p.seq /\ waits.overlay = o
      /\ starts.gen = x.p.gen /\ starts.seq = x.p.seq /\ starts.overlay = o
  BY DEF Clients, Projections
<1>3. \/ y = x
      \/ y = [x EXCEPT !.base = b, !.p = waits]
      \/ y = [x EXCEPT !.base = b, !.p = starts]
  BY DEF OptimisticSubmit, Clients, Projections, o, b
<1> HIDE DEF waits, starts
<1>4. \A z \in {waits, starts} :
        LET w == [x EXCEPT !.base = b, !.p = z] IN
        /\ w.known = x.known /\ w.committed = x.committed /\ w.loaded = x.loaded
        /\ w.p = z /\ w.base = b
  BY DEF Clients
<1> HIDE DEF y
<1>5. CASE y = x
  BY <1>5 DEF OwnChange, y
<1>6. ASSUME NEW z \in {waits, starts}, y = [x EXCEPT !.base = b, !.p = z]
      PROVE  OwnChange(x, y, t)
  <2>1. /\ y.known = x.known /\ y.committed = x.committed /\ y.loaded = x.loaded
        /\ y.p = z /\ y.base = b
    BY <1>4, <1>6
  <2> QED BY <1>1, <1>2, <2>1 DEF OwnChange
<1> QED BY <1>3, <1>5, <1>6 DEF y

(* So does its failure, which leaves every other turn listed, and changes  *)
(* nothing where there is no backup.                                       *)
LEMMA SubmitFailedSays ==
    ASSUME NEW x \in Clients, NEW t \in Turns
    PROVE  LET y == OptimisticSubmitFailed(x, t) IN
           /\ OwnChange(x, y, t)
           /\ y.base[t] \in {"none", x.base[t]}
           /\ x.base[t] = "none" => y = x
           /\ \A u \in Listed(x.p) : u # t => u \in Listed(y.p)
<1> DEFINE q == Withdrawn(x.p, t, x.base[t])
           b == [x.base EXCEPT ![t] = "none"]
           z == [x EXCEPT !.base = b, !.p = q]
           y == OptimisticSubmitFailed(x, t)
<1>1. /\ \A u \in Turns : u # t => b[u] = x.base[u]
      /\ b[t] = "none"
  BY DEF Clients
<1>2. /\ q.gen = x.p.gen /\ q.seq = x.p.seq
      /\ \A i \in Items : i # User(t) => q.overlay[i] = x.p.overlay[i]
      /\ q.queue = Without(x.p.queue, t)
      /\ q.active \in {x.p.active, NoTurn} /\ (x.p.active # t => q.active = x.p.active)
  BY DEF Withdrawn, Clients, Projections, Texts
<1>3. y = x \/ (y = z /\ x.base[t] # "none")
  BY DEF OptimisticSubmitFailed
<1>4. \A u \in Listed(x.p) : u # t => u \in Listed(q)
  <2> SUFFICES ASSUME NEW u \in Listed(x.p), u # t PROVE u \in Listed(q)
    OBVIOUS
  <2>1. u # NoTurn /\ (u = x.p.active \/ \E k \in DOMAIN x.p.queue : u = x.p.queue[k])
    BY DEF Listed
  <2>2. CASE u = x.p.active
    BY <1>2, <2>1, <2>2 DEF Listed
  <2>3. CASE \E k \in DOMAIN x.p.queue : u = x.p.queue[k]
    <3>1. PICK k \in DOMAIN x.p.queue : x.p.queue[k] = u
      BY <2>3
    <3>2. x.p.queue \in Seq(Turns)
      BY DEF Clients, Projections
    <3> DEFINE w == x.p.queue
    <3>3. \A j \in DOMAIN w : w[j] # t => \E n \in DOMAIN Without(w, t) : Without(w, t)[n] = w[j]
      <4>1. w \in Seq(Turns)
        BY <3>2
      <4> HIDE DEF w
      <4> QED BY <4>1, WithoutKeeps
    <3>4. PICK n \in DOMAIN Without(w, t) : Without(w, t)[n] = u
      BY <3>1, <3>3
    <3> QED BY <1>2, <2>1, <3>4 DEF Listed
  <2> QED BY <2>1, <2>2, <2>3
<1> HIDE DEF q, b
<1>5. /\ z.known = x.known /\ z.committed = x.committed /\ z.loaded = x.loaded
      /\ z.p = q /\ z.base = b
  BY DEF Clients
<1> HIDE DEF z, y
<1>6. CASE y = x
  BY <1>6 DEF OwnChange, y
<1>7. CASE y = z /\ x.base[t] # "none"
  <2>1. OwnChange(x, y, t)
    BY <1>1, <1>2, <1>5, <1>7 DEF OwnChange
  <2> QED BY <1>1, <1>4, <1>5, <1>7, <2>1 DEF y
<1> QED BY <1>3, <1>6, <1>7

(* The wire after a step of the mirror: what is left of it.                *)
LEMMA WireShrinks ==
    ASSUME wire \in Seq(Updates), wire' = wire \/ (wire # <<>> /\ wire' = Tail(wire))
    PROVE  \E o \in {0, 1} : \A k \in DOMAIN wire' :
              k \in Nat /\ k + o \in DOMAIN wire /\ wire'[k] = wire[k + o]
<1>1. CASE wire' = wire
  BY <1>1
<1>2. CASE wire # <<>> /\ wire' = Tail(wire)
  <2>1. \A k \in DOMAIN wire' :
              k \in Nat /\ k + 1 \in DOMAIN wire /\ wire'[k] = wire[k + 1]
    BY <1>2
  <2> QED BY <2>1
<1> QED BY <1>1, <1>2

(* An answer in the overlay that history has not brought: its row is, or   *)
(* will be, within reach of what is still on the wire.                     *)
Reachable(m) ==
    \A t \in Turns :
        m.p.overlay[Answer(t)] > 0 /\ m.committed[Answer(t)] = 0 =>
            m.p.seq > 0 /\ InRows(t, rows, Len(rows)) /\ StoredFrom(m.p, t, wire', rows)

(* A step of the mirror keeps the invariant when the mirror it makes holds *)
(* what the daemon said and its answers stay within reach.                 *)
LEMMA MirrorChanges ==
    ASSUME IInv, TypeIInv', UNCHANGED daemonVars, spent'.gens = spent.gens,
           wire' = wire \/ (wire # <<>> /\ wire' = Tail(wire)),
           \A t \in Turns : sends[t] # "new" => sends'[t] # "new",
           \A t \in inbox' : sends'[t] # "new",
           \A task \in Answers' : task \in Answers \/ task.p = Projection(d, Len(rows)),
           NEW H \in Histories, Follows(H), Ordering(H),
           d.gen # 0 => Holds(H, d, c'), c'.p.gen <= spent.gens,
           \A i \in Items : c'.committed[i] <= text[i],
           c'.loaded <= Len(rows), \A k \in 1..c'.loaded : c'.committed[rows[k]] > 0,
           Reachable(c')
    PROVE  IInv'
<1>1. /\ TypeIInv /\ DaemonInv /\ SentInv /\ Loading /\ Sound(d)
      /\ d' = d /\ rows' = rows /\ text' = text
  BY DEF IInv, Promises, TypeIInv, daemonVars
<1>2. /\ wire \in Seq(Updates) /\ Len(rows) \in Nat /\ d.seq \in Nat /\ d.gen \in Nat
  BY <1>1 DEF TypeIInv, TypeOK, Controllers
<1>3. PICK o \in {0, 1} : \A k \in DOMAIN wire' :
              k \in Nat /\ k + o \in DOMAIN wire /\ wire'[k] = wire[k + o]
  BY <1>2, WireShrinks
<1>4. Loading'
  BY <1>1 DEF Loading
<1>5. DaemonInv'
  <2>1. \A t \in Listed(d) : t \in Turns
    BY <1>1, ListedType
  <2> QED BY <1>1, <2>1 DEF DaemonInv
<1> DEFINE p == Projection(d, Len(rows))
<1>6. /\ p.gen = d.gen /\ p.seq = d.seq /\ p.overlay = d.overlay /\ Said(p) = Said(d)
  BY DEF Projection, Said, Listed
<1> HIDE DEF p
<1>7. SentInv'
  <2>1. \A k \in DOMAIN wire' : Proper(wire'[k], spent'.gens)
    BY <1>1, <1>3 DEF SentInv
  <2>2. \A task \in Answers' : task.p.gen <= spent'.gens
    BY <1>1, <1>6 DEF SentInv, DaemonInv, p
  <2> QED BY <2>1, <2>2 DEF SentInv
<1>8. Follows(H)'
  <2> SUFFICES ASSUME d.gen # 0
               PROVE  /\ H[d.seq] = Said(d)
                      /\ \A n \in DOMAIN H : \A t \in H[n].listed : sends'[t] # "new"
                      /\ \A task \in Answers' : Tells(H, d, task.p)
                      /\ \A k \in DOMAIN wire' : TellsUpdate(H, d, wire'[k])
                      /\ Holds(H, d, c')
    BY <1>1 DEF Follows, Said
  <2>1. Follows(H) /\ d.gen # 0
    OBVIOUS
  <2>2. \A n \in DOMAIN H : \A t \in H[n].listed : sends'[t] # "new"
    BY <2>1 DEF Follows, Histories
  <2>3. \A task \in Answers' : Tells(H, d, task.p)
    <3>1. Tells(H, d, p)
      BY <1>2, <1>6, <2>1 DEF Follows, Tells
    <3> QED BY <2>1, <3>1 DEF Follows, p
  <2>4. \A k \in DOMAIN wire' : TellsUpdate(H, d, wire'[k])
    BY <1>3, <2>1 DEF Follows
  <2> QED BY <2>1, <2>2, <2>3, <2>4 DEF Follows
<1>9. ASSUME NEW k \in DOMAIN wire'
      PROVE  /\ wire'[k].to.cursor <= Len(rows)
             /\ Stored(wire'[k].to.overlay, rows, wire'[k].to.cursor)
             /\ d.gen # 0 /\ wire'[k].to.gen = d.gen =>
                  Stored(H[wire'[k].to.seq].overlay, rows, wire'[k].to.cursor)
             /\ \A m \in DOMAIN wire' : k <= m => wire'[k].to.cursor <= wire'[m].to.cursor
  <2>1. \A m \in DOMAIN wire' : k <= m => k + o <= m + o
    BY <1>3
  <2> QED BY <1>3, <2>1 DEF Ordering
<1>10. ASSUME NEW q, NEW t \in Turns, StoredFrom(q, t, wire, rows)
       PROVE  StoredFrom(q, t, wire', rows)
  BY <1>3, <1>10 DEF StoredFrom
<1>11. ASSUME NEW t \in Turns, p.overlay[Answer(t)] > 0
       PROVE  p.seq > 0 /\ InRows(t, rows, Len(rows)) /\ StoredFrom(p, t, wire, rows)
  <2>1. d.overlay[Answer(t)] > 0 /\ InRows(t, rows, Len(rows))
    BY <1>6, <1>11 DEF Ordering, Stored
  <2>2. d.gen # 0 /\ d.seq > 0
    <3>1. d # Bare
      BY <2>1, BlankSays DEF Bare
    <3> QED BY <1>1, <3>1 DEF DaemonInv
  <2>3. H[d.seq].overlay = d.overlay
    BY <2>2 DEF Follows, Said
  <2>4. ASSUME NEW k \in DOMAIN wire, wire[k].to.gen = d.gen, wire[k].to.seq >= d.seq
        PROVE  InRows(t, rows, wire[k].to.cursor)
    <3>1. wire[k].to.seq <= d.seq
      BY <2>2, <2>4 DEF Follows, TellsUpdate
    <3>2. wire[k] \in Updates
      BY <1>2, ElementOfSeq
    <3>3. wire[k].to.seq = d.seq
      BY <1>2, <2>4, <3>1, <3>2 DEF Updates, Projections
    <3>4. Stored(d.overlay, rows, wire[k].to.cursor)
      BY <2>2, <2>3, <2>4, <3>3 DEF Ordering
    <3> QED BY <2>1, <3>4 DEF Stored
  <2> QED BY <1>6, <2>1, <2>2, <2>4 DEF StoredFrom
<1>12. ASSUME NEW task \in Answers', NEW t \in Turns, task.p.overlay[Answer(t)] > 0
       PROVE  /\ task.p.seq > 0 /\ InRows(t, rows, Len(rows))
              /\ StoredFrom(task.p, t, wire', rows)
  <2>1. /\ task.p.seq > 0 /\ InRows(t, rows, Len(rows)) /\ StoredFrom(task.p, t, wire, rows)
    <3>1. CASE task \in Answers
      BY <1>12, <3>1 DEF Ordering
    <3>2. CASE task.p = p
      BY <1>11, <1>12, <3>2
    <3> QED BY <3>1, <3>2 DEF p
  <2> QED BY <1>10, <2>1
<1>13. Ordering(H)'
  <2>1. /\ Stored(text, rows, Len(rows)) /\ Stored(d.overlay, rows, Len(rows))
        /\ Stored(d.delta, rows, Len(rows))
    BY DEF Ordering
  <2> QED BY <1>1, <1>9, <1>12, <2>1 DEF Ordering, Reachable
<1> QED BY <1>4, <1>5, <1>7, <1>8, <1>13 DEF IInv, Promises

(* What the invariant says of the mirror as it is.                         *)
LEMMA MirrorNow ==
    ASSUME IInv, NEW H \in Histories, Follows(H), Ordering(H)
    PROVE  /\ d.gen # 0 => Holds(H, d, c)
           /\ c.p.gen <= spent.gens
           /\ \A i \in Items : c.committed[i] <= text[i]
           /\ c.loaded <= Len(rows)
           /\ \A k \in 1..c.loaded : c.committed[rows[k]] > 0
           /\ \A t \in Turns :
                c.p.overlay[Answer(t)] > 0 /\ c.committed[Answer(t)] = 0 =>
                    c.p.seq > 0 /\ InRows(t, rows, Len(rows)) /\ StoredFrom(c.p, t, wire, rows)
           /\ \A t \in inbox : sends[t] # "new"
           /\ c \in Clients /\ rows \in Seq(Items) /\ wire \in Seq(Updates) /\ text \in Texts
           /\ Len(rows) \in Nat
BY DEF IInv, Promises, Follows, Loading, SentInv, Ordering, DaemonInv, TypeIInv, TypeOK

(* A step that only moves the calls along.                                 *)
LEMMA CallKeeps ==
    ASSUME IInv, TypeIInv', spent'.gens = spent.gens,
           UNCHANGED <<daemonVars, wire, c, inbox, sends>>,
           \A task \in Answers' : task \in Answers \/ task.p = Projection(d, Len(rows))
    PROVE  IInv'
<1>1. PICK H \in Histories : Follows(H) /\ Ordering(H)
  BY DEF IInv, Promises
<1>2. Reachable(c')
  BY <1>1, MirrorNow DEF Reachable
<1> QED BY <1>1, <1>2, MirrorNow, MirrorChanges

(* Calls that are asked, answered or lost.                                 *)
LEMMA CallsKeep ==
    ASSUME IInv, TypeIInv',
           \/ RequestAnswered \/ RequestFails \/ RetryWakes
           \/ HydrateAnswered \/ HydrateFails \/ ViewAppears
    PROVE  IInv'
<1>1. UNCHANGED <<daemonVars, wire, c, inbox, sends>>
  BY DEF RequestAnswered, RequestFails, RetryWakes, HydrateAnswered, HydrateFails, ViewAppears
<1>2. spent'.gens = spent.gens
  <2>1. spent' = spent \/ Spend("trouble")
    BY DEF RequestAnswered, RequestFails, RetryWakes, HydrateAnswered, HydrateFails, ViewAppears
  <2> QED BY <2>1, Spending DEF Spend, IInv
<1>3. /\ request' \in {request, Idle, Asked, Answered(request)}
      /\ hydrate' \in {hydrate, Idle, Asked, Answered(hydrate)}
  BY DEF RequestAnswered, RequestFails, RetryWakes, HydrateAnswered, HydrateFails, ViewAppears
<1>4. \A task \in Answers' : task \in Answers \/ task.p = Projection(d, Len(rows))
  BY <1>3 DEF Answers, Idle, Asked, Answered
<1> QED BY <1>1, <1>2, <1>4, CallKeeps

(* A snapshot arrives, however old it is by now.                           *)
LEMMA ArrivalKeeps == ASSUME IInv, TypeIInv', RequestArrives \/ HydrateArrives PROVE IInv'
<1>1. PICK H \in Histories : Follows(H) /\ Ordering(H)
  BY DEF IInv, Promises
<1>2. PICK task \in Answers : c' = ApplySnapshot(c, task.p).c
  BY DEF RequestArrives, HydrateArrives, Apply, Answers
<1>3. UNCHANGED <<daemonVars, wire, inbox, sends, spent>> /\ \A k \in Answers' : k \in Answers
  BY DEF RequestArrives, HydrateArrives, Answers, Idle
<1> DEFINE p == task.p
<1>4. p \in Projections
  BY DEF Answers, IInv, TypeIInv, TypeOK, Tasks
<1>5. /\ c'.known /\ c'.committed = c.committed /\ c'.loaded = c.loaded
      /\ c'.p.gen = p.gen /\ c'.p.seq = p.seq
      /\ \A i \in Items : p.overlay[i] <= Display(c', i)
      /\ \A i \in Items : c'.p.overlay[i] > 0 /\ c.committed[i] = 0 => p.overlay[i] > 0
      /\ \A t \in Turns : t \in Listed(p) => c'.base[t] = "none"
  BY <1>1, <1>2, <1>4, MirrorNow, SnapshotSays
<1>6. d.gen # 0 => Holds(H, d, c')
  <2> SUFFICES ASSUME d.gen # 0, p.gen = d.gen
               PROVE  /\ p.seq <= d.seq
                      /\ \A i \in Items : H[p.seq].overlay[i] <= Display(c', i)
                      /\ \A t \in H[p.seq].listed : c'.base[t] = "none"
    BY <1>5 DEF Holds
  <2>1. p.seq <= d.seq /\ H[p.seq] = Said(p)
    BY <1>1, <1>2 DEF Follows, Tells
  <2>2. H[p.seq].overlay = p.overlay /\ H[p.seq].listed = Listed(p) /\ H[p.seq].listed \subseteq Turns
    BY <1>4, <2>1 DEF Said, Histories, Projections
  <2> QED BY <1>5, <2>1, <2>2
<1>7. Reachable(c')
  <2> SUFFICES ASSUME NEW t \in Turns, c'.p.overlay[Answer(t)] > 0, c'.committed[Answer(t)] = 0
               PROVE  /\ c'.p.seq > 0 /\ InRows(t, rows, Len(rows))
                        /\ StoredFrom(c'.p, t, wire', rows)
    BY DEF Reachable
  <2>1. p.overlay[Answer(t)] > 0
    BY <1>5, ItemTypes
  <2>2. p.seq > 0 /\ InRows(t, rows, Len(rows)) /\ StoredFrom(p, t, wire, rows)
    BY <1>1, <1>2, <2>1 DEF Ordering
  <2> QED BY <1>3, <1>5, <2>2 DEF StoredFrom
<1>8. c'.p.gen <= spent.gens
  BY <1>2, <1>5 DEF IInv, Promises, SentInv
<1>9. /\ \A i \in Items : c'.committed[i] <= text[i]
      /\ c'.loaded <= Len(rows) /\ \A k \in 1..c'.loaded : c'.committed[rows[k]] > 0
      /\ \A t \in inbox' : sends'[t] # "new"
  BY <1>1, <1>3, <1>5, MirrorNow
<1> QED BY <1>1, <1>3, <1>6, <1>7, <1>8, <1>9, MirrorChanges

(* History is read, or cannot be.                                          *)
LEMMA LoadKeeps == ASSUME IInv, TypeIInv', LoadHistory PROVE IInv'
<1>1. PICK H \in Histories : Follows(H) /\ Ordering(H)
  BY DEF IInv, Promises
<1>2. UNCHANGED <<daemonVars, wire, request, hydrate, inbox, sends>>
  BY DEF LoadHistory
<1>3. spent'.gens = spent.gens
  <2>1. spent' = spent \/ Spend("trouble")
    BY DEF LoadHistory
  <2> QED BY <2>1, Spending DEF Spend, IInv
<1>4. c' = c \/ c' = AppendHistory(c, rows, text)
  BY DEF LoadHistory
<1>5. \A k \in Answers' : k \in Answers
  BY <1>2 DEF Answers
<1>6. CASE c' = c
  BY <1>2, <1>3, <1>5, <1>6, CallKeeps
<1>7. CASE c' = AppendHistory(c, rows, text)
  <2>1. /\ c'.known = c.known /\ c'.p.gen = c.p.gen /\ c'.p.seq = c.p.seq
        /\ \A i \in Items : c'.committed[i] <= text[i] /\ c.committed[i] <= c'.committed[i]
        /\ c'.loaded <= Len(rows) /\ \A k \in 1..c'.loaded : c'.committed[rows[k]] > 0
        /\ \A i \in Items : c'.p.overlay[i] > 0 => c'.p.overlay[i] = c.p.overlay[i]
        /\ c.known => \A i \in Items : Display(c, i) <= Display(c', i)
        /\ \A t \in Turns : c'.base[t] \in {"none", c.base[t]}
    <3>1. \A k \in 1..Len(rows) : text[rows[k]] > 0
      BY DEF IInv, Loading
    <3> QED BY <1>1, <1>7, <3>1, MirrorNow, HistorySays
  <2>2. c' \in Clients /\ c \in Clients
    BY <1>1, MirrorNow DEF TypeIInv, TypeOK
  <2>3. d.gen # 0 => Holds(H, d, c')
    <3> SUFFICES ASSUME d.gen # 0, c'.known, c'.p.gen = d.gen
                 PROVE  /\ c'.p.seq <= d.seq
                        /\ \A i \in Items : H[c'.p.seq].overlay[i] <= Display(c', i)
                        /\ \A t \in H[c'.p.seq].listed : c'.base[t] = "none"
      BY DEF Holds
    <3>1. /\ c.p.seq <= d.seq
          /\ \A i \in Items : H[c.p.seq].overlay[i] <= Display(c, i)
          /\ \A t \in H[c.p.seq].listed : c.base[t] = "none"
      BY <1>1, <2>1, MirrorNow DEF Holds
    <3>2. H[c.p.seq].overlay \in Texts /\ H[c.p.seq].listed \subseteq Turns
      BY <2>2 DEF Histories, Streams, Clients, Projections
    <3>3. ASSUME NEW i \in Items PROVE H[c.p.seq].overlay[i] <= Display(c', i)
      <4>1. /\ H[c.p.seq].overlay[i] \in Nat /\ Display(c, i) \in Nat /\ Display(c', i) \in Nat
        BY <2>2, <3>2, TextIsNat DEF Display, Clients, Projections
      <4> QED BY <2>1, <3>1, <4>1
    <3> QED BY <2>1, <3>1, <3>2, <3>3
  <2>4. Reachable(c')
    <3> SUFFICES ASSUME NEW t \in Turns, c'.p.overlay[Answer(t)] > 0, c'.committed[Answer(t)] = 0
                 PROVE  /\ c'.p.seq > 0 /\ InRows(t, rows, Len(rows))
                        /\ StoredFrom(c'.p, t, wire', rows)
      BY DEF Reachable
    <3>1. Answer(t) \in Items
      BY ItemTypes
    <3>2. c.committed[Answer(t)] = 0
      <4>1. c.committed[Answer(t)] \in Nat
        BY <2>2, <3>1, TextIsNat DEF Clients
      <4> QED BY <2>1, <3>1, <4>1
    <3>3. c.p.overlay[Answer(t)] > 0
      BY <2>1, <3>1
    <3>4. c.p.seq > 0 /\ InRows(t, rows, Len(rows)) /\ StoredFrom(c.p, t, wire, rows)
      BY <1>1, <3>2, <3>3, MirrorNow
    <3> QED BY <1>2, <2>1, <3>4 DEF StoredFrom
  <2>5. c'.p.gen <= spent.gens /\ \A t \in inbox' : sends'[t] # "new"
    BY <1>1, <1>2, <2>1, MirrorNow
  <2> QED BY <1>1, <1>2, <1>3, <1>5, <2>1, <2>3, <2>4, <2>5, MirrorChanges
<1> QED BY <1>4, <1>6, <1>7

(* The composer's own turns: none of them is one the daemon has listed.    *)
LEMMA SendKeeps == ASSUME IInv, TypeIInv', NEW t \in Turns, Send(t) \/ SendFails(t) PROVE IInv'
<1>1. PICK H \in Histories : Follows(H) /\ Ordering(H)
  BY DEF IInv, Promises
<1>2. /\ UNCHANGED <<daemonVars, wire, request, hydrate>>
      /\ sends' \in {[sends EXCEPT ![t] = "sent"], [sends EXCEPT ![t] = "failed"]}
      /\ inbox' \subseteq inbox \cup {t}
  BY DEF Send, SendFails
<1>3. spent'.gens = spent.gens
  <2>1. spent' = spent \/ Spend("trouble")
    BY DEF Send, SendFails
  <2> QED BY <2>1, Spending DEF Spend, IInv
<1>4. \A k \in Answers' : k \in Answers
  BY <1>2 DEF Answers
<1>5. /\ \A u \in Turns : sends[u] # "new" => sends'[u] # "new"
      /\ sends'[t] # "new"
  BY <1>2 DEF IInv, TypeIInv, TypeOK
<1>6. \A u \in inbox' : sends'[u] # "new"
  <2>1. inbox \subseteq Turns
    BY DEF IInv, TypeIInv, TypeOK
  <2> QED BY <1>1, <1>2, <1>5, <2>1, MirrorNow
<1>7. c \in Clients
  BY <1>1, MirrorNow
<1>8. /\ OwnChange(c, c', t)
      /\ sends[t] = "new" \/ c'.base[t] \in {"none", c.base[t]}
  BY <1>7, SubmitSays, SubmitFailedSays DEF Send, SendFails
<1>9. d.gen # 0 => Holds(H, d, c')
  <2> SUFFICES ASSUME d.gen # 0, c'.known, c'.p.gen = d.gen
               PROVE  /\ c'.p.seq <= d.seq
                      /\ \A i \in Items : H[c'.p.seq].overlay[i] <= Display(c', i)
                      /\ \A u \in H[c'.p.seq].listed : c'.base[u] = "none"
    BY DEF Holds
  <2>1. /\ c.p.seq <= d.seq /\ c'.p.seq = c.p.seq
        /\ \A i \in Items : H[c.p.seq].overlay[i] <= Display(c, i)
        /\ \A u \in H[c.p.seq].listed : c.base[u] = "none"
    BY <1>1, <1>8, MirrorNow DEF Holds, OwnChange
  <2>2. c.p.seq \in Nat /\ c' \in Clients
    BY <1>7 DEF Clients, Projections, TypeIInv, TypeOK
  <2>3. H[c.p.seq].overlay[User(t)] = 0 /\ H[c.p.seq].listed \subseteq Turns
    BY <2>2 DEF Histories, Streams
  <2>4. ASSUME NEW i \in Items PROVE H[c.p.seq].overlay[i] <= Display(c', i)
    <3>1. CASE i = User(t)
      <4>1. Display(c', i) \in Nat
        BY <2>2, TextIsNat DEF Display, Clients, Projections
      <4> QED BY <2>3, <3>1, <4>1
    <3>2. CASE i # User(t)
      <4>1. Display(c', i) = Display(c, i)
        BY <1>8, <3>2 DEF OwnChange, Display
      <4> QED BY <2>1, <4>1
    <3> QED BY <3>1, <3>2
  <2>5. ASSUME NEW u \in H[c.p.seq].listed PROVE c'.base[u] = "none"
    <3>1. c.base[u] = "none" /\ sends[u] # "new" /\ u \in Turns
      BY <1>1, <2>1, <2>2, <2>3 DEF Follows, Histories
    <3>2. CASE u = t
      BY <1>8, <3>1, <3>2
    <3>3. CASE u # t
      BY <1>8, <3>1, <3>3 DEF OwnChange
    <3> QED BY <3>2, <3>3
  <2> QED BY <2>1, <2>4, <2>5
<1>10. Reachable(c')
  <2> SUFFICES ASSUME NEW u \in Turns, c'.p.overlay[Answer(u)] > 0, c'.committed[Answer(u)] = 0
               PROVE  c'.p.seq > 0 /\ InRows(u, rows, Len(rows)) /\ StoredFrom(c'.p, u, wire', rows)
    BY DEF Reachable
  <2>1. Answer(u) \in Items /\ Answer(u) # User(t)
    BY ItemTypes DEF Answer, User
  <2>2. c.p.overlay[Answer(u)] > 0 /\ c.committed[Answer(u)] = 0
    BY <1>8, <2>1 DEF OwnChange
  <2>3. c.p.seq > 0 /\ InRows(u, rows, Len(rows)) /\ StoredFrom(c.p, u, wire, rows)
    BY <1>1, <2>2, MirrorNow
  <2> QED BY <1>2, <1>8, <2>3 DEF StoredFrom, OwnChange
<1>11. /\ c'.p.gen <= spent.gens /\ \A i \in Items : c'.committed[i] <= text[i]
       /\ c'.loaded <= Len(rows) /\ \A k \in 1..c'.loaded : c'.committed[rows[k]] > 0
  BY <1>1, <1>8, MirrorNow DEF OwnChange
<1> QED BY <1>1, <1>2, <1>3, <1>4, <1>5, <1>6, <1>9, <1>10, <1>11, MirrorChanges

(* What an update may do to the mirror: nothing to what it shows, or it is *)
(* accepted, and is the next of its generation or the first of a new one.  *)
LEMMA UpdateApplied ==
    ASSUME NEW x \in Clients, NEW u \in Updates
    PROVE  LET r == ApplyUpdate(x, u) IN
           \/ /\ r.c.known = x.known /\ r.c.p = x.p /\ r.c.committed = x.committed
              /\ r.c.loaded = x.loaded /\ r.c.base = x.base
           \/ /\ x.known /\ r = Accept(x, Normalized(x, u))
              /\ u.to.gen = x.p.gen \/ x.p.seq = 0
              /\ \/ u.to.seq = x.p.seq /\ u.kind = "refresh"
                 \/ u.to.seq = x.p.seq + 1
<1> DEFINE r == ApplyUpdate(x, u)
           Lost(s) == [x EXCEPT !.sync = s]
<1>1. \/ r.c = Lost("awaiting") \/ r.c = Lost("gap") \/ r.c = x
      \/ /\ x.known /\ r = Accept(x, Normalized(x, u))
         /\ u.to.gen = x.p.gen \/ x.p.seq = 0
         /\ \/ u.to.seq = x.p.seq /\ u.kind = "refresh"
            \/ u.to.seq = x.p.seq + 1
  BY DEF ApplyUpdate, SwitchesGeneration, Reduced, Unchanged
<1>2. \A s : /\ Lost(s).known = x.known /\ Lost(s).p = x.p /\ Lost(s).committed = x.committed
             /\ Lost(s).loaded = x.loaded /\ Lost(s).base = x.base
  BY DEF Clients
<1> HIDE DEF r, Lost
<1> QED BY <1>1, <1>2 DEF r

(* An answer among the first rows is among more of them.                   *)
LEMMA InMoreRows ==
    ASSUME NEW rs, NEW t, NEW m \in Nat, NEW n \in Nat, m <= n, InRows(t, rs, m)
    PROVE  InRows(t, rs, n)
BY DEF InRows

(* An update is routed: the mirror is at the sequence before it, or at the *)
(* same one, or it takes no notice.                                        *)
LEMMA ReceiveKeeps == ASSUME IInv, TypeIInv', Receive PROVE IInv'
<1>1. PICK H \in Histories : Follows(H) /\ Ordering(H)
  BY DEF IInv, Promises
<1> DEFINE u == wire[1]
           r == ApplyUpdate(c, u)
           n == Normalized(c, u)
<1>2. /\ wire # <<>> /\ wire' = Tail(wire) /\ 1 \in DOMAIN wire /\ u \in Updates
      /\ c' = r.c
      /\ UNCHANGED <<daemonVars, hydrate, inbox, sends, spent>>
      /\ request' \in {request, Asked}
  <2>1. wire # <<>> /\ wire \in Seq(Updates)
    BY <1>1, MirrorNow DEF Receive
  <2>2. 1 \in DOMAIN wire /\ u = Head(wire) /\ u \in Updates
    BY <2>1, ElementOfSeq
  <2> QED BY <2>1, <2>2 DEF Receive, Apply
<1>3. c \in Clients
  BY <1>1, MirrorNow
<1>4. \A k \in Answers' : k \in Answers
  BY <1>2 DEF Answers, Asked
<1>5. Proper(u, spent.gens) /\ u.to \in Projections /\ u.to.seq \in Nat
  BY <1>2 DEF IInv, Promises, SentInv, Updates, Projections
<1> HIDE DEF u, r
<1>6. \/ /\ c'.known = c.known /\ c'.p = c.p /\ c'.committed = c.committed
         /\ c'.loaded = c.loaded /\ c'.base = c.base
      \/ /\ c.known /\ r = Accept(c, n)
         /\ u.to.gen = c.p.gen \/ c.p.seq = 0
         /\ \/ u.to.seq = c.p.seq /\ u.kind = "refresh"
            \/ u.to.seq = c.p.seq + 1
  BY <1>2, <1>3, UpdateApplied DEF r
<1>7. CASE /\ c'.known = c.known /\ c'.p = c.p /\ c'.committed = c.committed
           /\ c'.loaded = c.loaded /\ c'.base = c.base
  <2>1. d.gen # 0 => Holds(H, d, c')
    BY <1>1, <1>7, MirrorNow DEF Holds, Display
  <2>2. Reachable(c')
    <3> SUFFICES ASSUME NEW t \in Turns, c'.p.overlay[Answer(t)] > 0, c'.committed[Answer(t)] = 0
                 PROVE  /\ c'.p.seq > 0 /\ InRows(t, rows, Len(rows))
                        /\ StoredFrom(c'.p, t, wire', rows)
      BY DEF Reachable
    <3>1. c.p.seq > 0 /\ InRows(t, rows, Len(rows)) /\ StoredFrom(c.p, t, wire, rows)
      BY <1>1, <1>7, MirrorNow
    <3>2. \A k \in DOMAIN wire' : k + 1 \in DOMAIN wire /\ wire'[k] = wire[k + 1]
      BY <1>1, <1>2, MirrorNow
    <3> QED BY <1>7, <3>1, <3>2 DEF StoredFrom
  <2>3. /\ c'.p.gen <= spent.gens /\ \A i \in Items : c'.committed[i] <= text[i]
        /\ c'.loaded <= Len(rows) /\ \A k \in 1..c'.loaded : c'.committed[rows[k]] > 0
        /\ \A t \in inbox' : sends'[t] # "new"
    BY <1>1, <1>2, <1>7, MirrorNow
  <2> QED BY <1>1, <1>2, <1>4, <2>1, <2>2, <2>3, MirrorChanges
<1>8. CASE /\ c.known /\ r = Accept(c, n)
           /\ u.to.gen = c.p.gen \/ c.p.seq = 0
           /\ \/ u.to.seq = c.p.seq /\ u.kind = "refresh"
              \/ u.to.seq = c.p.seq + 1
  <2>1. n \in Projections
    BY <1>2, <1>3, NormalizedType
  <2>2. /\ n.gen = u.to.gen /\ n.seq = u.to.seq /\ n.cursor = u.to.cursor
        /\ Listed(n) = Listed(u.to)
        /\ \A i \in Items :
             /\ n.overlay[i] > 0 /\ c.committed[i] = 0 =>
                  u.to.overlay[i] > 0 \/ c.p.overlay[i] > 0
             /\ u.to.overlay[i] > 0 =>
                  \/ n.overlay[i] = u.to.overlay[i]
                  \/ u.kind = "terminal" /\ c.committed[i] = u.to.overlay[i]
             /\ u.kind = "compact" /\ u.to.overlay[i] = 0 => n.overlay[i] = c.p.overlay[i]
    BY <1>2, <1>3, NormalizedSays
  <2> HIDE DEF n
  <2>3. /\ c'.known /\ c'.committed = c.committed /\ c'.loaded = c.loaded
        /\ c'.p.gen = u.to.gen /\ c'.p.seq = u.to.seq
        /\ \A i \in Items : c'.p.overlay[i] > 0 => c'.p.overlay[i] = n.overlay[i]
        /\ \A i \in Items : Display(c', i) = Shown(n.overlay, c.committed, i)
        /\ \A t \in Turns : t \in Listed(u.to) => c'.base[t] = "none"
    BY <1>2, <1>3, <1>8, <2>1, <2>2, AcceptSays
  <2>4. \A i \in Items : /\ n.overlay[i] \in Nat /\ c.committed[i] \in Nat
                         /\ c.p.overlay[i] \in Nat /\ u.to.overlay[i] \in Nat
    BY <1>3, <1>5, <2>1, TextIsNat DEF Clients, Projections
  <2>5. d.gen # 0 => Holds(H, d, c')
    <3> SUFFICES ASSUME d.gen # 0, u.to.gen = d.gen
                 PROVE  /\ u.to.seq <= d.seq
                        /\ \A i \in Items : H[u.to.seq].overlay[i] <= Display(c', i)
                        /\ \A t \in H[u.to.seq].listed : c'.base[t] = "none"
      BY <2>3 DEF Holds
    <3>1. /\ u.to.seq <= d.seq
          /\ H[u.to.seq].listed = Listed(u.to)
          /\ H[u.to.seq].overlay =
                IF u.kind = "compact"
                THEN Merge(H[u.to.seq - 1].overlay, u.to.overlay)
                ELSE u.to.overlay
      BY <1>1, <1>2 DEF Follows, TellsUpdate, u
    <3>2. \A t \in H[u.to.seq].listed : c'.base[t] = "none"
      <4>1. H[u.to.seq].listed \subseteq Turns
        BY <1>5 DEF Histories
      <4> QED BY <2>3, <3>1, <4>1
    <3>3. ASSUME NEW i \in Items PROVE H[u.to.seq].overlay[i] <= Display(c', i)
      <4>1. Display(c', i) = IF n.overlay[i] > 0 THEN n.overlay[i] ELSE c.committed[i]
        BY <2>3 DEF Shown
      <4>2. CASE u.kind # "compact"
        <5>1. H[u.to.seq].overlay[i] = u.to.overlay[i]
          BY <3>1, <4>2
        <5>2. u.kind = "terminal" => u.to.overlay[i] <= 1
          BY <1>5 DEF Proper
        <5> QED BY <2>2, <2>4, <4>1, <5>1, <5>2
      <4>3. CASE u.kind = "compact" /\ u.to.overlay[i] > 0
        <5>1. H[u.to.seq].overlay[i] = u.to.overlay[i]
          BY <3>1, <4>3 DEF Merge
        <5> QED BY <2>2, <2>4, <4>1, <4>3, <5>1
      <4>4. CASE u.kind = "compact" /\ ~(u.to.overlay[i] > 0)
        <5>1. u.to.seq > 1 /\ u.to.seq = c.p.seq + 1 /\ c.p.seq \in Nat
          BY <1>3, <1>5, <1>8, <4>4 DEF Proper, Clients, Projections
        <5>2. u.to.gen = c.p.gen /\ u.to.seq - 1 = c.p.seq
          BY <1>5, <1>8, <5>1
        <5>3. H[u.to.seq].overlay[i] = H[c.p.seq].overlay[i]
          BY <3>1, <4>4, <5>2 DEF Merge
        <5>4. H[c.p.seq].overlay[i] <= Display(c, i)
          BY <1>1, <1>8, <5>2, MirrorNow DEF Holds
        <5>5. Display(c, i) = Display(c', i)
          BY <1>8, <2>2, <2>4, <4>1, <4>4 DEF Display
        <5> QED BY <5>3, <5>4, <5>5
      <4> QED BY <4>2, <4>3, <4>4
    <3> QED BY <3>1, <3>2, <3>3
  <2>6. Reachable(c')
    <3> SUFFICES ASSUME NEW t \in Turns, c'.p.overlay[Answer(t)] > 0, c'.committed[Answer(t)] = 0
                 PROVE  /\ c'.p.seq > 0 /\ InRows(t, rows, Len(rows))
                        /\ StoredFrom(c'.p, t, wire', rows)
      BY DEF Reachable
    <3>1. Answer(t) \in Items
      BY ItemTypes
    <3>2. c.committed[Answer(t)] = 0 /\ (u.to.overlay[Answer(t)] > 0 \/ c.p.overlay[Answer(t)] > 0)
      BY <2>2, <2>3, <3>1
    <3>3. c'.p.seq > 0
      BY <1>5, <2>3 DEF Proper
    <3>4. \A k \in DOMAIN wire' : k + 1 \in DOMAIN wire /\ wire'[k] = wire[k + 1] /\ 1 <= k + 1
      BY <1>1, <1>2, MirrorNow
    <3>5. \A k \in DOMAIN wire : wire[k] \in Updates /\ wire[k].to.cursor \in Nat /\ wire[k].to.seq \in Nat
      <4>1. \A k \in DOMAIN wire : wire[k] \in Updates
        BY <1>1, MirrorNow, ElementOfSeq
      <4> QED BY <4>1 DEF Updates, Projections
    <3>6. CASE u.to.overlay[Answer(t)] > 0
      <4>1. /\ InRows(t, rows, u.to.cursor) /\ u.to.cursor <= Len(rows)
            /\ \A m \in DOMAIN wire : 1 <= m => u.to.cursor <= wire[m].to.cursor
        BY <1>1, <1>2, <3>6 DEF Ordering, Stored, u
      <4>2. InRows(t, rows, Len(rows))
        BY <1>1, <1>2, <3>5, <4>1, InMoreRows, MirrorNow DEF u
      <4>3. ASSUME NEW k \in DOMAIN wire' PROVE InRows(t, rows, wire'[k].to.cursor)
        <5>1. u.to.cursor <= wire'[k].to.cursor
          BY <3>4, <4>1
        <5>2. u.to.cursor \in Nat /\ wire'[k].to.cursor \in Nat
          BY <1>2, <3>4, <3>5 DEF u
        <5> QED BY <4>1, <5>1, <5>2, InMoreRows
      <4> QED BY <3>3, <4>2, <4>3 DEF StoredFrom
    <3>7. CASE c.p.overlay[Answer(t)] > 0
      <4>1. c.p.seq > 0 /\ InRows(t, rows, Len(rows)) /\ StoredFrom(c.p, t, wire, rows)
        BY <1>1, <3>2, <3>7, MirrorNow
      <4>2. c.p.seq \in Nat
        BY <1>3 DEF Clients, Projections
      <4>3. u.to.gen = c.p.gen /\ u.to.seq >= c.p.seq
        BY <1>8, <4>1, <4>2
      <4>4. ASSUME NEW k \in DOMAIN wire', wire'[k].to.gen = c'.p.gen, wire'[k].to.seq >= c'.p.seq
            PROVE  InRows(t, rows, wire'[k].to.cursor)
        <5>1. /\ k + 1 \in DOMAIN wire /\ wire'[k] = wire[k + 1]
              /\ wire[k + 1].to.seq \in Nat
          BY <3>4, <3>5
        <5>2. wire[k + 1].to.gen = c.p.gen /\ wire[k + 1].to.seq >= c.p.seq
          BY <1>5, <2>3, <4>2, <4>3, <4>4, <5>1
        <5> QED BY <4>1, <5>1, <5>2 DEF StoredFrom
      <4> QED BY <3>3, <4>1, <4>4 DEF StoredFrom
    <3> QED BY <3>2, <3>6, <3>7
  <2>7. c'.p.gen <= spent.gens
    BY <1>5, <2>3 DEF Proper
  <2>8. /\ \A i \in Items : c'.committed[i] <= text[i]
        /\ c'.loaded <= Len(rows) /\ \A k \in 1..c'.loaded : c'.committed[rows[k]] > 0
        /\ \A t \in inbox' : sends'[t] # "new"
    BY <1>1, <1>2, <2>3, MirrorNow
  <2> QED BY <1>1, <1>2, <1>4, <2>5, <2>6, <2>7, <2>8, MirrorChanges
<1> QED BY <1>6, <1>7, <1>8

(* Every step of the mirror keeps the invariant.                           *)
LEMMA MirrorPromises == ASSUME IInv, MirrorStep PROVE IInv'
<1>1. TypeIInv'
  BY MirrorTypes DEF IInv
<1> QED BY <1>1, ReceiveKeeps, CallsKeep, ArrivalKeeps, LoadKeeps, SendKeeps DEF MirrorStep

(* A chat no one has opened, or a warm one, has a history of one blank     *)
(* state.                                                                  *)
LEMMA InitPromises == Init => IInv
<1> SUFFICES ASSUME Init PROVE IInv
  OBVIOUS
<1>1. TypeIInv
  BY InitTypes
<1>2. /\ rows = <<>> /\ text = Blank /\ wire = <<>> /\ Answers = {} /\ inbox = {}
      /\ sends = [t \in Turns |-> "new"] /\ spent.gens = 1
  BY DEF Init, Answers, Idle
<1>3. /\ d.gen \in {0, 1} /\ (d.gen = 0 => d = Bare) /\ (d.gen = 1 => d.seq = 1)
      /\ d.overlay = Blank /\ d.delta = Blank /\ Listed(d) = {}
      /\ c.committed = Blank /\ c.loaded = 0 /\ c.p.overlay = Blank
      /\ c.p.gen = d.gen /\ (d.gen # 0 => c.p.seq = d.seq)
  <2>1. CASE Cold
    BY <2>1 DEF Cold, Bare, NewClient, Nothing, Listed
  <2>2. CASE Warm
    <3>1. d = [Bare EXCEPT !.gen = 1, !.seq = 1, !.live = TRUE, !.open = TRUE]
      BY <2>2 DEF Warm
    <3>2. /\ d.gen = 1 /\ d.seq = 1 /\ d.overlay = Blank /\ d.delta = Blank /\ Listed(d) = {}
      BY <3>1 DEF Bare, Listed
    <3>3. c = [NewClient EXCEPT !.known = TRUE, !.sync = "synchronized", !.p = Projection(d, 0)]
      BY <2>2 DEF Warm
    <3>4. c.committed = Blank /\ c.loaded = 0 /\ c.p = Projection(d, 0)
      BY <3>3 DEF NewClient
    <3> QED BY <3>2, <3>4 DEF Projection
  <2> QED BY <2>1, <2>2 DEF Init
<1>4. /\ Blank \in Streams /\ \A t \in Turns : Blank[User(t)] = 0 /\ Blank[Answer(t)] = 0
      /\ \A i \in Items : Blank[i] = 0
  BY BlankSays, ItemTypes DEF Notices, Blank
<1>5. DaemonInv /\ SentInv
  BY <1>2, <1>3, <1>4 DEF DaemonInv, SentInv
<1>6. Loading
  BY <1>2, <1>3, <1>4 DEF Loading
<1> DEFINE H == [n \in Nat |-> [overlay |-> Blank, listed |-> {}]]
<1>7. H \in Histories
  BY <1>4 DEF Histories
<1>8. d.gen # 0 => H[d.seq] = Said(d)
  BY <1>3 DEF Said
<1>9. /\ \A n \in Nat : H[n].overlay = Blank /\ H[n].listed = {}
      /\ DOMAIN H = Nat
  OBVIOUS
<1> HIDE DEF H
<1>10. Holds(H, d, c)
  <2>1. \A i \in Items : Display(c, i) = 0
    BY <1>3, <1>4 DEF Display
  <2>2. c.p.seq \in Nat /\ d.seq \in Nat
    BY <1>1 DEF TypeIInv, TypeOK, Clients, Projections, Controllers
  <2>3. d.gen # 0 => c.p.seq <= d.seq
    BY <1>3, <2>2
  <2>4. d.gen = 0 => c.p.seq <= d.seq
    <3>1. CASE Cold
      BY <3>1 DEF Cold, NewClient, Nothing, Bare
    <3>2. CASE Warm
      BY <3>2 DEF Warm, Bare
    <3> QED BY <3>1, <3>2 DEF Init
  <2> QED BY <1>4, <1>9, <2>1, <2>2, <2>3, <2>4 DEF Holds
<1>11. Follows(H)
  BY <1>2, <1>8, <1>9, <1>10 DEF Follows
<1>12. Ordering(H)
  BY <1>2, <1>3, <1>4 DEF Ordering, Stored
<1> QED BY <1>1, <1>5, <1>6, <1>7, <1>11, <1>12 DEF IInv, Promises

(* The invariant is inductive.                                             *)
LEMMA StepPromises == IInv /\ [Next]_vars => IInv'
<1>1. ASSUME IInv, UNCHANGED vars PROVE IInv'
  <2>1. TypeIInv'
    BY <1>1, StutterTypes DEF IInv
  <2>2. UNCHANGED <<daemonVars, wire, c, inbox, sends>> /\ spent'.gens = spent.gens
    BY <1>1 DEF vars, daemonVars
  <2>3. \A task \in Answers' : task \in Answers
    BY <1>1 DEF vars, Answers
  <2> QED BY <1>1, <2>1, <2>2, <2>3, CallKeeps
<1> QED BY <1>1, DaemonPromises, MirrorPromises DEF Next

(* What is shown of an item is a length.                                   *)
LEMMA DisplayIsNat == ASSUME NEW x \in Clients, NEW i \in Items PROVE Display(x, i) \in Nat
BY TextIsNat DEF Display, Clients, Projections

(* At the daemon's own sequence the history is what the daemon says now.   *)
LEMMA AgreesNow == IInv => AgreesWithDaemon
<1> SUFFICES ASSUME IInv, Current PROVE
        /\ \A i \in Items : d.overlay[i] <= Display(c, i)
        /\ c.loaded >= c.p.cursor =>
              \A k \in 1..c.p.cursor : Display(c, rows[k]) > 0
  BY DEF AgreesWithDaemon
<1>1. PICK H \in Histories : Follows(H) /\ Ordering(H)
  BY DEF IInv, Promises
<1>2. /\ c \in Clients /\ rows \in Seq(Items)
      /\ c.loaded <= Len(rows) /\ c.loaded \in Nat /\ c.p.cursor \in Nat
  BY <1>1, MirrorNow DEF Clients, Projections
<1>3. ASSUME NEW i \in Items PROVE d.overlay[i] <= Display(c, i)
  <2>1. CASE d.gen = 0
    <3>1. d.overlay[i] = 0
      BY <2>1 DEF IInv, Promises, DaemonInv, Bare, Blank
    <3> QED BY <1>2, <3>1, DisplayIsNat
  <2>2. CASE d.gen # 0
    BY <1>1, <2>2, MirrorNow DEF Holds, Follows, Said, Current
  <2> QED BY <2>1, <2>2
<1>4. ASSUME c.loaded >= c.p.cursor, NEW k \in 1..c.p.cursor PROVE Display(c, rows[k]) > 0
  <2>1. k \in 1..c.loaded /\ k \in 1..Len(rows)
    BY <1>2, <1>4
  <2>2. rows[k] \in Items /\ c.committed[rows[k]] > 0
    BY <1>1, <1>2, <2>1, MirrorNow, ElementOfSeq
  <2> QED BY <2>2 DEF Display
<1> QED BY <1>3, <1>4

(* A mirror that is synchronized at the daemon's generation and sequence   *)
(* shows at least the text that is streaming, and every row there is once  *)
(* its history is loaded, whatever was lost, repeated or answered late     *)
(* before (ChatClientSync.swift, apply, and its merging, pruning and       *)
(* retaining of the overlay).                                              *)
THEOREM MirrorAgrees == Spec => []AgreesWithDaemon
BY InitPromises, StepPromises, AgreesNow, PTL DEF Spec

(* A turn that the daemon lists and the mirror was told of has no backup,  *)
(* so that the failure of its submission changes nothing.                  *)
LEMMA FailureTakesNothing ==
    ASSUME IInv, NEW t \in Turns, SendFails(t), Current
    PROVE  Listed(d) \cap Listed(c.p) \subseteq Listed(c'.p)
<1>1. PICK H \in Histories : Follows(H) /\ Ordering(H)
  BY DEF IInv, Promises
<1>2. c \in Clients /\ c' = OptimisticSubmitFailed(c, t)
  BY <1>1, MirrorNow DEF SendFails
<1>3. ASSUME NEW u \in Listed(d), u \in Listed(c.p) PROVE u \in Listed(c'.p)
  <2>1. CASE u # t
    BY <1>2, <1>3, <2>1, SubmitFailedSays
  <2>2. CASE u = t
    <3>1. d.gen # 0
      BY DEF IInv, Promises, DaemonInv, Bare, Listed
    <3>2. c.base[t] = "none"
      BY <1>1, <1>3, <2>2, <3>1, MirrorNow DEF Holds, Follows, Said, Current
    <3> QED BY <1>2, <1>3, <3>2, SubmitFailedSays
  <2> QED BY <2>1, <2>2
<1> QED BY <1>3

(* A submission that reports an error, its reply lost perhaps, takes no    *)
(* turn off the screen that the daemon has accepted and the mirror has     *)
(* been told of (ChatClientSync.swift, optimisticSubmitFailed and          *)
(* discardingAuthoritativeOptimisticLifecycleBackups).                     *)
THEOREM AcceptedTurnsStay == Spec => AcceptedTurnStays
<1>1. IInv /\ [Next]_vars =>
        [(\E t \in Turns : SendFails(t)) /\ Current =>
            Listed(d) \cap Listed(c.p) \subseteq Listed(c'.p)]_vars
  BY FailureTakesNothing
<1> QED BY InitPromises, StepPromises, <1>1, PTL DEF Spec, AcceptedTurnStays

(* An answer that an update would cut short has a row behind the cursor    *)
(* that the mirror has not loaded: the update asks for it.                 *)
LEMMA UpdateCutsNothing ==
    ASSUME IInv, Receive, NEW t \in Turns
    PROVE  LET i == Answer(t) IN
           \/ Display(c', i) >= Display(c, i)
           \/ Head(wire).to.overlay[i] > 0
           \/ c'.committed[i] = 0 /\ loadTo' > 0
<1>1. PICK H \in Histories : Follows(H) /\ Ordering(H)
  BY DEF IInv, Promises
<1> DEFINE i == Answer(t)
           u == wire[1]
           r == ApplyUpdate(c, u)
           n == Normalized(c, u)
<1>2. /\ 1 \in DOMAIN wire /\ u \in Updates /\ Head(wire) = u
      /\ c' = r.c /\ loadTo' = IF r.load > loadTo THEN r.load ELSE loadTo
  <2>1. wire # <<>> /\ wire \in Seq(Updates)
    BY <1>1, MirrorNow DEF Receive
  <2>2. 1 \in DOMAIN wire /\ u = Head(wire) /\ u \in Updates
    BY <2>1, ElementOfSeq
  <2> QED BY <2>1, <2>2 DEF Receive, Apply, ScheduleLoad
<1>3. c \in Clients /\ i \in Items
  BY <1>1, MirrorNow, ItemTypes
<1>4. u.to \in Projections /\ u.to.seq \in Nat /\ u.to.overlay[i] \in Nat /\ u.to.cursor \in Nat
      /\ c.p.overlay[i] \in Nat /\ c.committed[i] \in Nat /\ c.p.seq \in Nat /\ c.loaded \in Nat
      /\ loadTo \in Nat /\ Display(c, i) \in Nat
  BY <1>2, <1>3, TextIsNat, DisplayIsNat
     DEF IInv, TypeIInv, TypeOK, Updates, Clients, Projections
<1> HIDE DEF r
<1>5. CASE c'.known = c.known /\ c'.p = c.p /\ c'.committed = c.committed
  <2>1. Display(c', i) = Display(c, i)
    BY <1>5 DEF Display
  <2> QED BY <1>4, <2>1
<1>6. CASE /\ c.known /\ r = Accept(c, n)
           /\ u.to.gen = c.p.gen \/ c.p.seq = 0
           /\ \/ u.to.seq = c.p.seq /\ u.kind = "refresh"
              \/ u.to.seq = c.p.seq + 1
  <2>1. n \in Projections
    BY <1>2, <1>3, NormalizedType
  <2>2. /\ n.cursor = u.to.cursor
        /\ u.to.overlay[i] = 0 =>
             \/ Shown(n.overlay, c.committed, i) = Shown(c.p.overlay, c.committed, i)
             \/ c.committed[i] = 0 /\ c.p.overlay[i] > 0
    BY <1>2, <1>3, NormalizedSays
  <2> HIDE DEF n
  <2>3. /\ c'.committed = c.committed
        /\ Display(c', i) = Shown(n.overlay, c.committed, i)
        /\ r.load = IF n.cursor > c.loaded THEN n.cursor ELSE 0
    BY <1>2, <1>3, <1>6, <2>1, AcceptSays
  <2>4. Display(c, i) = Shown(c.p.overlay, c.committed, i)
    BY <1>6 DEF Display, Shown
  <2>5. ASSUME c.committed[i] = 0, c.p.overlay[i] > 0 PROVE loadTo' > 0
    <3>1. c.p.seq > 0 /\ StoredFrom(c.p, t, wire, rows)
      BY <1>1, <2>5, MirrorNow
    <3>2. u.to.gen = c.p.gen /\ u.to.seq >= c.p.seq
      BY <1>4, <1>6, <3>1
    <3>3. InRows(t, rows, u.to.cursor)
      BY <1>2, <3>1, <3>2 DEF StoredFrom
    <3>4. PICK k \in 1..u.to.cursor : rows[k] = i
      BY <3>3 DEF InRows
    <3>5. ~(k \in 1..c.loaded)
      BY <1>1, <2>5, <3>4, MirrorNow
    <3>6. u.to.cursor > c.loaded
      BY <1>4, <3>4, <3>5
    <3>7. r.load > 0
      BY <1>4, <2>2, <2>3, <3>6
    <3> QED BY <1>2, <1>4, <2>2, <2>3, <3>6, <3>7
  <2>6. CASE u.to.overlay[i] = 0 /\ Shown(n.overlay, c.committed, i) = Shown(c.p.overlay, c.committed, i)
    BY <1>4, <2>3, <2>4, <2>6
  <2>7. CASE c.committed[i] = 0 /\ c.p.overlay[i] > 0
    BY <2>3, <2>5, <2>7
  <2>8. CASE u.to.overlay[i] > 0
    BY <1>2, <2>8
  <2> QED BY <1>4, <2>2, <2>6, <2>7, <2>8
<1> QED
  <2>1. \/ c'.known = c.known /\ c'.p = c.p /\ c'.committed = c.committed
        \/ /\ c.known /\ r = Accept(c, n)
           /\ u.to.gen = c.p.gen \/ c.p.seq = 0
           /\ \/ u.to.seq = c.p.seq /\ u.kind = "refresh"
              \/ u.to.seq = c.p.seq + 1
    BY <1>2, <1>3, UpdateApplied DEF r
  <2> QED BY <2>1, <1>5, <1>6

(* Routing an update makes no answer on the screen fall back to a shorter  *)
(* text, unless the update itself streams that text or the row is about to *)
(* be loaded (ChatClientSync.swift, normalizedProjection and               *)
(* preservingOverlayForStaleCommittedItems).                               *)
THEOREM AnswersNotCutShort == Spec => AnswerNotCutShort
<1>1. IInv /\ [Next]_vars =>
        [Receive =>
            \A t \in Turns : LET i == Answer(t) IN
                \/ Display(c, i)' >= Display(c, i)
                \/ Head(wire).to.overlay[i] > 0
                \/ c'.committed[i] = 0 /\ loadTo' > 0]_vars
  <2> SUFFICES ASSUME IInv, Receive, NEW t \in Turns
               PROVE  LET i == Answer(t) IN
                      \/ Display(c, i)' >= Display(c, i)
                      \/ Head(wire).to.overlay[i] > 0
                      \/ c'.committed[i] = 0 /\ loadTo' > 0
    OBVIOUS
  <2>1. Display(c, Answer(t))' = Display(c', Answer(t))
    BY DEF Display, Answer
  <2> QED BY <2>1, UpdateCutsNothing
<1> QED BY InitPromises, StepPromises, <1>1, PTL DEF Spec, AnswerNotCutShort

-------------------------------------------------------------------------------
(* The recovery of a mirror that lost the thread.                          *)

(* Discarding backups and pruning the overlay leave the thread alone.      *)
LEMMA SettledKeeps ==
    ASSUME NEW x, DOMAIN x = Fields
    PROVE  /\ DOMAIN Settled(x) = Fields
           /\ Settled(x).sync = x.sync
           /\ Settled(x).known = x.known
BY DEF Settled, Fields

(* An authoritative projection synchronizes the mirror.                    *)
LEMMA AcceptSynchronizes ==
    ASSUME NEW x, DOMAIN x = Fields, NEW p
    PROVE  /\ DOMAIN Accept(x, p).c = Fields
           /\ Accept(x, p).c.sync = "synchronized"
           /\ Accept(x, p).request = FALSE
<1> DEFINE q == [p EXCEPT !.cursor = IF @ < x.loaded THEN x.loaded ELSE @]
           y == [x EXCEPT !.known = TRUE, !.sync = "synchronized", !.p = q]
<1>1. DOMAIN y = Fields /\ y.sync = "synchronized"
  BY DEF Fields
<1>2. DOMAIN Settled(y) = Fields /\ Settled(y).sync = "synchronized"
  BY <1>1, SettledKeeps
<1>3. /\ Accept(x, p).c = Settled(y)
      /\ Accept(x, p).request = FALSE
  BY DEF Accept, Reduced
<1> QED BY <1>2, <1>3

(* An update is accepted, or a snapshot is asked for, or nothing changes.  *)
LEMMA UpdateAnswered ==
    ASSUME NEW x, DOMAIN x = Fields, NEW u
    PROVE  /\ DOMAIN ApplyUpdate(x, u).c = Fields
           /\ \/ ApplyUpdate(x, u).c.sync = "synchronized"
              \/ ApplyUpdate(x, u).request = TRUE
              \/ ApplyUpdate(x, u).c = x
<1> DEFINE r == ApplyUpdate(x, u)
           Lost(s) == Reduced([x EXCEPT !.sync = s], TRUE, 0)
<1>1. \/ r = Lost("awaiting")
      \/ r = Lost("gap")
      \/ r = Unchanged(x)
      \/ r = Accept(x, Normalized(x, u))
  BY DEF ApplyUpdate
<1>2. \A s : DOMAIN Lost(s).c = Fields /\ Lost(s).request = TRUE
  BY DEF Reduced, Fields
<1>3. Unchanged(x).c = x
  BY DEF Unchanged, Reduced
<1>4. /\ DOMAIN Accept(x, Normalized(x, u)).c = Fields
      /\ Accept(x, Normalized(x, u)).c.sync = "synchronized"
  BY AcceptSynchronizes
<1> HIDE DEF r, Lost
<1>5. CASE r = Lost("awaiting") BY <1>2, <1>5 DEF r
<1>6. CASE r = Lost("gap") BY <1>2, <1>6 DEF r
<1>7. CASE r = Unchanged(x) BY <1>3, <1>7 DEF r
<1>8. CASE r = Accept(x, Normalized(x, u)) BY <1>4, <1>8 DEF r
<1> QED BY <1>1, <1>5, <1>6, <1>7, <1>8

(* History and the composer's own turns leave the thread alone.            *)
LEMMA LocalChangesKeep ==
    ASSUME NEW x, DOMAIN x = Fields, NEW rs, NEW ts, NEW t
    PROVE  /\ DOMAIN AppendHistory(x, rs, ts) = Fields
           /\ AppendHistory(x, rs, ts).sync = x.sync
           /\ AppendHistory(x, rs, ts).known = x.known
           /\ DOMAIN OptimisticSubmit(x, t) = Fields
           /\ OptimisticSubmit(x, t).sync = x.sync
           /\ OptimisticSubmit(x, t).known = x.known
           /\ DOMAIN OptimisticSubmitFailed(x, t) = Fields
           /\ OptimisticSubmitFailed(x, t).sync = x.sync
           /\ OptimisticSubmitFailed(x, t).known = x.known
<1>1. /\ DOMAIN AppendHistory(x, rs, ts) = Fields
      /\ AppendHistory(x, rs, ts).sync = x.sync
      /\ AppendHistory(x, rs, ts).known = x.known
  <2> DEFINE read == [i \in Items |->
                IF \E k \in x.loaded + 1..Len(rs) : rs[k] = i
                THEN ts[i] ELSE x.committed[i]]
             y == [x EXCEPT !.loaded = Len(rs), !.committed = read]
  <2>1. DOMAIN y = Fields /\ y.sync = x.sync /\ y.known = x.known
    BY DEF Fields
  <2>2. /\ DOMAIN Settled(y) = Fields
        /\ Settled(y).sync = x.sync
        /\ Settled(y).known = x.known
    BY <2>1, SettledKeeps
  <2>3. AppendHistory(x, rs, ts) = Settled(y) \/ AppendHistory(x, rs, ts) = x
    BY DEF AppendHistory
  <2> QED BY <2>2, <2>3
<1>2. /\ DOMAIN OptimisticSubmit(x, t) = Fields
      /\ OptimisticSubmit(x, t).sync = x.sync
      /\ OptimisticSubmit(x, t).known = x.known
  BY DEF OptimisticSubmit, Fields
<1>3. /\ DOMAIN OptimisticSubmitFailed(x, t) = Fields
      /\ OptimisticSubmitFailed(x, t).sync = x.sync
      /\ OptimisticSubmitFailed(x, t).known = x.known
  BY DEF OptimisticSubmitFailed, Fields
<1> QED BY <1>1, <1>2, <1>3

LEMMA InitRecovers == Init => RecoveryIInv
<1> SUFFICES ASSUME Init PROVE RecoveryIInv
  OBVIOUS
<1>1. attempts \in Nat /\ attempts <= Retries
  BY SyncAssumption DEF Init
<1>2. CASE Cold
  BY <1>1, <1>2 DEF Cold, NewClient, RecoveryIInv, Fields, RecoveryUnderWay
<1>3. CASE Warm
  BY <1>1, <1>3 DEF Warm, NewClient, RecoveryIInv, Fields, RecoveryUnderWay
<1> QED BY <1>2, <1>3 DEF Init

(* What a step of the daemon leaves alone is all that is needed.           *)
LEMMA DaemonKeeps == DaemonStep => UNCHANGED <<c, request, retry, attempts>>
BY DEF DaemonStep, Submit, Claim, Started, SessionReady, StreamPersisted,
       StreamRecorded, Finish, CancelQueued, CancelClaimed, CancelSettled,
       Close, Closed, Evict, Refresh, mirrorVars

(* Applying a reduction that synchronizes the mirror.                      *)
LEMMA SynchronizedIsEnough ==
    ASSUME NEW r, Apply(r), RecoveryIInv,
           DOMAIN r.c = Fields, r.c.sync = "synchronized"
    PROVE  RecoveryIInv'
BY SyncAssumption DEF Apply, RecoveryIInv, RecoveryUnderWay

LEMMA StepRecovers == RecoveryIInv /\ [Next]_vars => RecoveryIInv'
<1> SUFFICES ASSUME RecoveryIInv, [Next]_vars PROVE RecoveryIInv'
  OBVIOUS
<1> USE SyncAssumption
<1>1. CASE UNCHANGED <<c, request, retry, attempts>>
  BY <1>1 DEF RecoveryIInv, RecoveryUnderWay
<1>2. CASE Receive
  <2> DEFINE r == ApplyUpdate(c, Head(wire))
  <2>1. /\ Apply(r)
        /\ request' = IF r.request /\ request.st = "idle" THEN Asked
                      ELSE request
    BY <1>2 DEF Receive
  <2>2. /\ DOMAIN r.c = Fields
        /\ r.c.sync = "synchronized" \/ r.request = TRUE \/ r.c = c
    BY UpdateAnswered DEF RecoveryIInv
  <2> HIDE DEF r
  <2>3. CASE r.c.sync = "synchronized"
    BY <2>1, <2>2, <2>3, SynchronizedIsEnough
  <2>4. CASE r.c.sync # "synchronized"
    <3>1. c' = r.c /\ UNCHANGED <<retry, attempts>>
      BY <2>1, <2>4 DEF Apply
    <3>2. CASE r.request = TRUE
      <4>1. request'.st # "idle"
        BY <2>1, <3>2 DEF Asked
      <4> QED BY <4>1, <3>1, <2>2 DEF RecoveryIInv, RecoveryUnderWay
    <3>3. CASE r.request # TRUE /\ r.c = c
      <4>1. request.st # "idle" => request'.st # "idle"
        BY <2>1 DEF Asked
      <4> QED BY <4>1, <3>1, <3>3 DEF RecoveryIInv, RecoveryUnderWay
    <3> QED BY <2>2, <2>4, <3>2, <3>3
  <2> QED BY <2>3, <2>4
<1>3. CASE RequestAnswered
  BY <1>3 DEF RequestAnswered, Answered, RecoveryIInv, RecoveryUnderWay
<1>4. CASE RequestArrives
  <2>1. Apply(ApplySnapshot(c, request.p))
    BY <1>4 DEF RequestArrives
  <2> QED BY <2>1, AcceptSynchronizes, SynchronizedIsEnough
          DEF ApplySnapshot, RecoveryIInv
<1>5. CASE RequestFails
  BY <1>5 DEF RequestFails, Idle, RecoveryIInv, RecoveryUnderWay
<1>6. CASE RetryWakes
  BY <1>6 DEF RetryWakes, Asked, RecoveryIInv, RecoveryUnderWay
<1>7. CASE HydrateAnswered
  BY <1>1, <1>7 DEF HydrateAnswered
<1>8. CASE HydrateArrives
  <2>1. Apply(ApplySnapshot(c, hydrate.p))
    BY <1>8 DEF HydrateArrives
  <2> QED BY <2>1, AcceptSynchronizes, SynchronizedIsEnough
          DEF ApplySnapshot, RecoveryIInv
<1>9. CASE HydrateFails
  BY <1>1, <1>9 DEF HydrateFails
<1>10. CASE LoadHistory
  <2>1. /\ DOMAIN c' = Fields /\ c'.sync = c.sync /\ c'.known = c.known
        /\ UNCHANGED request
    BY <1>10, LocalChangesKeep DEF LoadHistory, RecoveryIInv
  <2>2. \/ c'.sync = "synchronized" /\ attempts' = 0
        \/ UNCHANGED <<retry, attempts>>
    BY <1>10 DEF LoadHistory
  <2> QED BY <2>1, <2>2 DEF RecoveryIInv, RecoveryUnderWay
<1>11. CASE ViewAppears
  BY <1>1, <1>11 DEF ViewAppears
<1>12. ASSUME NEW t \in Turns, Send(t) PROVE RecoveryIInv'
  <2>1. /\ c' = OptimisticSubmit(c, t)
        /\ UNCHANGED <<request, retry, attempts>>
    BY <1>12 DEF Send
  <2> QED BY <2>1, LocalChangesKeep DEF RecoveryIInv, RecoveryUnderWay
<1>13. ASSUME NEW t \in Turns, SendFails(t) PROVE RecoveryIInv'
  <2>1. /\ c' = OptimisticSubmitFailed(c, t)
        /\ UNCHANGED <<request, retry, attempts>>
    BY <1>13 DEF SendFails
  <2> QED BY <2>1, LocalChangesKeep DEF RecoveryIInv, RecoveryUnderWay
<1>14. CASE DaemonStep
  BY <1>1, <1>14, DaemonKeeps
<1>15. CASE UNCHANGED vars
  BY <1>1, <1>15 DEF vars
<1> QED
  BY <1>2, <1>3, <1>4, <1>5, <1>6, <1>7, <1>8, <1>9, <1>10, <1>11, <1>12,
     <1>13, <1>14, <1>15 DEF Next, MirrorStep

(* Whatever is lost and whatever fails, a mirror that lost the thread has  *)
(* asked for a snapshot, will ask again, or has used up its retries        *)
(* (RemoteChatSession.swift, requestAuthoritativeSnapshotIfNeeded and      *)
(* scheduleAuthoritativeSnapshotRetryIfNeeded).                            *)
THEOREM NeverLeftWaiting == Spec => []RecoveryUnderWay
<1>1. RecoveryIInv => RecoveryUnderWay
  BY DEF RecoveryIInv
<1> QED BY InitRecovers, StepRecovers, <1>1, PTL DEF Spec
===============================================================================
