--------------------------- MODULE QueueStoreProofs ---------------------------
(***************************************************************************)
(* What the store's operations keep: the shape of the rows and of the      *)
(* reports, and which rows are running afterwards.                         *)
(***************************************************************************)
EXTENDS QueueStore, FiniteSetTheorems, WellFoundedInduction, TLAPS
-------------------------------------------------------------------------------
(* Finite sets. *)

\* A set of subsets that holds the empty set, and with a set holds every set with
\* one element more, holds every finite set: induction with a set of sets in
\* place of a predicate.
LEMMA SubsetInduction ==
  ASSUME NEW S, IsFiniteSet(S), NEW F, {} \in F,
         \A T \in SUBSET S : \A x \in S : T \in F => T \cup {x} \in F
  PROVE  S \in F
<1> DEFINE Bad == {T \in SUBSET S : T \notin F}
<1>1. SUFFICES ASSUME Bad # {} PROVE FALSE
  OBVIOUS
<1>2. IsWellFoundedOn(StrictSubsetOrdering(S), SUBSET S)
  BY FS_StrictSubsetOrderingWellFounded, FS_FiniteSubsetsOfFinite
<1>3. Bad \subseteq SUBSET S
  OBVIOUS
<1> HIDE DEF Bad
<1>4. PICK T \in Bad : \A U \in Bad : <<U, T>> \notin StrictSubsetOrdering(S)
  BY <1>1, <1>2, <1>3, WFMin
<1> USE DEF Bad
<1>5. PICK x \in T : TRUE
  OBVIOUS
<1>6. <<T \ {x}, T>> \in StrictSubsetOrdering(S)
  BY <1>5 DEF StrictSubsetOrdering
<1>7. T \ {x} \in F
  BY <1>4, <1>6
<1>8. (T \ {x}) \cup {x} = T
  BY <1>5
<1> QED BY <1>5, <1>7, <1>8

\* Max of a finite set of numbers that is not empty is its largest element.
LEMMA MaxIsLargest ==
  ASSUME NEW S \in SUBSET Nat, IsFiniteSet(S), S # {}
  PROVE  Max(S) \in S /\ \A y \in S : y <= Max(S)
<1> DEFINE Has(T) == \E m \in T : \A y \in T : m >= y
           F == {T \in SUBSET S : T = {} \/ Has(T)}
<1>1. \A T \in SUBSET S : \A x \in S : T \in F => T \cup {x} \in F
  <2> SUFFICES ASSUME NEW T \in SUBSET S, NEW x \in S, T \in F
               PROVE  T \cup {x} \in F
    OBVIOUS
  <2>1. CASE T = {}
    BY <2>1
  <2>2. CASE T # {}
    <3>1. PICK m \in T : \A y \in T : m >= y
      BY <2>2
    <3>2. CASE x <= m
      BY <3>1, <3>2
    <3>3. CASE x > m
      BY <3>1, <3>3
    <3> QED BY <3>1, <3>2, <3>3
  <2> QED BY <2>1, <2>2
<1>2. {} \in F
  OBVIOUS
<1> HIDE DEF F
<1>3. S \in F
  BY <1>1, <1>2, SubsetInduction
<1>4. Has(S)
  BY <1>3 DEF F
<1> QED BY <1>4 DEF Max

\* Sets of items have a size, which grows with the set.
LEMMA ItemSets ==
  ASSUME NEW T \in SUBSET Items
  PROVE  /\ IsFiniteSet(T) /\ Cardinality(T) \in Nat
         /\ \A S \in SUBSET T : Cardinality(S) <= Cardinality(T)
         /\ \A S, i : S \subseteq T \cup {i} /\ i \in Items => Cardinality(S) <= Cardinality(T) + 1
         /\ \A S, i : S \subseteq T \ {i} /\ i \in T => Cardinality(S) <= Cardinality(T) - 1
<1>1. IsFiniteSet(T)
  BY FS_Subset, StoreAssumption
<1>2. Cardinality(T) \in Nat
  BY <1>1, FS_CardinalityType
<1>3. \A S \in SUBSET T : Cardinality(S) <= Cardinality(T)
  BY <1>1, FS_Subset
<1>4. ASSUME NEW S, NEW i \in Items, S \subseteq T \cup {i}
      PROVE  Cardinality(S) <= Cardinality(T) + 1
  <2>1. /\ IsFiniteSet(T \cup {i})
        /\ Cardinality(T \cup {i}) \in {Cardinality(T), Cardinality(T) + 1}
    BY <1>1, FS_AddElement
  <2>2. S \in SUBSET (T \cup {i})
    BY <1>4
  <2>3. IsFiniteSet(S) /\ Cardinality(S) <= Cardinality(T \cup {i})
    BY <2>1, <2>2, FS_Subset
  <2>4. Cardinality(S) \in Nat
    BY <2>3, FS_CardinalityType
  <2> QED BY <1>2, <2>1, <2>3, <2>4
<1>5. ASSUME NEW S, NEW i \in T, S \subseteq T \ {i}
      PROVE  Cardinality(S) <= Cardinality(T) - 1
  <2>1. IsFiniteSet(T \ {i}) /\ Cardinality(T \ {i}) = Cardinality(T) - 1
    BY <1>1, FS_RemoveElement
  <2>2. S \in SUBSET (T \ {i})
    BY <1>5
  <2> QED BY <2>1, <2>2, FS_Subset
<1> QED BY <1>1, <1>2, <1>3, <1>4, <1>5
-------------------------------------------------------------------------------
(* Rows. *)

Rows == [Items -> Row]

\* The rows running in `new` were running in r, at the same attempt and on the
\* same provider.
Calm(r, new) ==
  \A i \in Items : new[i].state = "running" =>
    /\ r[i].state = "running"
    /\ new[i].attempt = r[i].attempt /\ new[i].provider = r[i].provider

\* A compare-and-set writes a row or nothing.
LEMMA CasType ==
  ASSUME NEW r \in Rows, NEW i \in Items, NEW from, NEW new \in Row
  PROVE  /\ Cas(r, i, from, new) \in Rows
         /\ Cas(r, i, from, new)[i] = IF r[i].state \in from THEN new ELSE r[i]
         /\ \A j \in Items \ {i} : Cas(r, i, from, new)[j] = r[j]
BY DEF Rows, Cas

\* ... and starts nothing unless it writes a running row.
LEMMA CasCalm ==
  ASSUME NEW r \in Rows, NEW i \in Items, NEW from, NEW new \in Row, new.state # "running"
  PROVE  Cas(r, i, from, new) \in Rows /\ Calm(r, Cas(r, i, from, new))
BY CasType DEF Calm

\* The transitions out of running, and those of waiting rows, start nothing.
LEMMA MarkCompletedCalm ==
  ASSUME NEW r \in Rows, NEW i \in Items
  PROVE  /\ MarkCompleted(r, i) \in Rows /\ Calm(r, MarkCompleted(r, i))
         /\ MarkCompleted(r, i)[i].state # "running"
<1>1. [r[i] EXCEPT !.state = "completed"] \in Row
  BY DEF Rows, Row, ItemState, Terminal
<1> QED BY <1>1, CasCalm, CasType DEF MarkCompleted, Row

LEMMA MarkFailedCalm ==
  ASSUME NEW r \in Rows, NEW i \in Items
  PROVE  /\ MarkFailed(r, i) \in Rows /\ Calm(r, MarkFailed(r, i))
         /\ MarkFailed(r, i)[i].state # "running"
<1>1. [r[i] EXCEPT !.state = "failed"] \in Row
  BY DEF Rows, Row, ItemState, Terminal
<1> QED BY <1>1, CasCalm, CasType DEF MarkFailed, Row

LEMMA MarkCancelledCalm ==
  ASSUME NEW r \in Rows, NEW i \in Items
  PROVE  MarkCancelled(r, i) \in Rows /\ Calm(r, MarkCancelled(r, i))
<1>1. [r[i] EXCEPT !.state = "cancelled"] \in Row
  BY DEF Rows, Row, ItemState, Terminal
<1> QED BY <1>1, CasCalm DEF MarkCancelled, Row

LEMMA RequeueCalm ==
  ASSUME NEW r \in Rows, NEW i \in Items
  PROVE  /\ Requeue(r, i) \in Rows /\ Calm(r, Requeue(r, i))
         /\ Requeue(r, i)[i].state # "running"
<1> DEFINE new == [r[i] EXCEPT !.state = "queued", !.provider = NoProvider]
<1>1. new \in Row /\ new.state # "running"
  BY DEF Rows, Row, ItemState, Active
<1> HIDE DEF new
<1>2. Requeue(r, i) = Cas(r, i, {"running"}, new)
  BY DEF Requeue, new
<1> QED BY <1>1, <1>2, CasCalm, CasType

LEMMA RetryItemCalm ==
  ASSUME NEW r \in Rows, NEW i \in Items, NEW k \in Nat
  PROVE  RetryItem(r, i, k) \in Rows /\ Calm(r, RetryItem(r, i, k))
<1>1. r[i] \in Row
  BY DEF Rows
<1>2. NextAttempt(r[i], k) \in Row /\ NextAttempt(r[i], k).state # "running"
  BY <1>1 DEF NextAttempt, Row, ItemState, Active
<1> QED BY <1>2, CasCalm DEF RetryItem

LEMMA InsertCalm ==
  ASSUME NEW r \in Rows, NEW i \in Items, NEW k \in Nat
  PROVE  Insert(r, i, k) \in Rows /\ Calm(r, Insert(r, i, k))
<1> DEFINE new == [NoRow EXCEPT !.state = "queued", !.key = k]
<1>1. new \in Row /\ new.state # "running"
  BY DEF NoRow, Row, ItemState, Active
<1> HIDE DEF new
<1>2. Insert(r, i, k) = [r EXCEPT ![i] = new]
  BY DEF Insert, new
<1> QED BY <1>1, <1>2 DEF Rows, Calm

LEMMA RecordAdmissionWaitCalm ==
  ASSUME NEW r \in Rows, NEW i \in Items
  PROVE  RecordAdmissionWait(r, i) \in Rows /\ Calm(r, RecordAdmissionWait(r, i))
BY DEF RecordAdmissionWait, Cas, Rows, Row, Calm

LEMMA UpdateOrderingKeyCalm ==
  ASSUME NEW r \in Rows, NEW i \in Items, NEW k \in Nat
  PROVE  UpdateOrderingKey(r, i, k) \in Rows /\ Calm(r, UpdateOrderingKey(r, i, k))
BY DEF UpdateOrderingKey, Rows, Row, Calm

LEMMA ClearAdmissionWaitCalm ==
  ASSUME NEW r \in Rows, NEW lane
  PROVE  ClearAdmissionWait(r, lane) \in Rows /\ Calm(r, ClearAdmissionWait(r, lane))
BY DEF ClearAdmissionWait, Rows, Row, Calm

\* Requeuing a set of rows starts nothing, and leaves none of the set running.
LEMMA RequeueAllCalm ==
  ASSUME NEW r \in Rows, NEW S
  PROVE  /\ RequeueAll(r, S) \in Rows
         /\ Calm(r, RequeueAll(r, S))
         /\ \A i \in Items \cap S : RequeueAll(r, S)[i].state # "running"
<1>1. \A i \in Items : /\ Requeue(r, i)[i] \in Row
                       /\ Requeue(r, i)[i].state # "running"
  <2> TAKE i \in Items
  <2> DEFINE new == [r[i] EXCEPT !.state = "queued", !.provider = NoProvider]
  <2>1. new \in Row /\ new.state # "running"
    BY DEF Rows, Row, ItemState, Active
  <2> HIDE DEF new
  <2>2. Requeue(r, i)[i] = IF r[i].state \in {"running"} THEN new ELSE r[i]
    BY <2>1, CasType DEF Requeue, new
  <2> QED BY <2>1, <2>2 DEF Rows
<1> QED BY <1>1 DEF RequeueAll, Rows, Calm

LEMMA CancelAllCalm ==
  ASSUME NEW r \in Rows, NEW S
  PROVE  CancelAll(r, S) \in Rows /\ Calm(r, CancelAll(r, S))
<1>1. \A i \in Items : MarkCancelled(r, i) \in Rows /\ Calm(r, MarkCancelled(r, i))
  BY MarkCancelledCalm
<1> QED BY <1>1 DEF CancelAll, Rows, Calm

\* After the launch reset no row is running.
LEMMA ResetCalm ==
  ASSUME NEW r \in Rows
  PROVE  /\ ResetRunningToQueued(r) \in Rows
         /\ Running(ResetRunningToQueued(r), Lanes) = {}
<1>1. /\ RequeueAll(r, Running(r, Lanes)) \in Rows
      /\ Calm(r, RequeueAll(r, Running(r, Lanes)))
      /\ \A i \in Items \cap Running(r, Lanes) :
           RequeueAll(r, Running(r, Lanes))[i].state # "running"
  BY RequeueAllCalm
<1> QED BY <1>1 DEF ResetRunningToQueued, Running, Calm

LEMMA DeleteCalm ==
  ASSUME NEW r \in Rows, NEW S
  PROVE  Delete(r, S) \in Rows /\ Calm(r, Delete(r, S))
<1> DEFINE gone == [NoRow EXCEPT !.state = "pruned"]
<1>1. gone \in Row /\ gone.state # "running"
  BY DEF NoRow, Row, ItemState
<1> HIDE DEF gone
<1>2. Delete(r, S) = [i \in Items |-> IF i \in S THEN gone ELSE r[i]]
  BY DEF Delete, gone
<1> QED BY <1>1, <1>2 DEF Rows, Calm

LEMMA CalmTransitive ==
  ASSUME NEW r, NEW s, NEW t, Calm(r, s), Calm(s, t)
  PROVE  Calm(r, t)
BY DEF Calm

\* A claim starts the row it names and no other.
LEMMA MarkRunningStarts ==
  ASSUME NEW r \in Rows, NEW i \in Items, NEW p \in Providers, r[i].state = "queued"
  PROVE  /\ MarkRunning(r, i, p) \in Rows
         /\ MarkRunning(r, i, p)[i].state = "running"
         /\ MarkRunning(r, i, p)[i].provider = p
         /\ MarkRunning(r, i, p)[i].attempt = r[i].attempt
         /\ \A j \in Items \ {i} : MarkRunning(r, i, p)[j] = r[j]
<1> DEFINE new == [r[i] EXCEPT !.state = "running", !.provider = p]
<1>1. new \in Row /\ new.state = "running" /\ new.provider = p /\ new.attempt = r[i].attempt
  BY DEF Rows, Row, ItemState, Active
<1> HIDE DEF new
<1>2. MarkRunning(r, i, p) = Cas(r, i, {"queued"}, new)
  BY DEF MarkRunning, new
<1> QED BY <1>1, <1>2, CasType

\* ... and undone, it starts none.
LEMMA ClaimUndone ==
  ASSUME NEW r \in Rows, NEW i \in Items, NEW p \in Providers, r[i].state = "queued"
  PROVE  /\ Requeue(MarkRunning(r, i, p), i) \in Rows
         /\ Calm(r, Requeue(MarkRunning(r, i, p), i))
<1> DEFINE m == MarkRunning(r, i, p)
           new == [m[i] EXCEPT !.state = "queued", !.provider = NoProvider]
<1>1. m \in Rows /\ \A j \in Items \ {i} : m[j] = r[j]
  BY MarkRunningStarts
<1>2. new \in Row /\ new.state # "running"
  BY <1>1 DEF Rows, Row, ItemState, Active
<1>3. m[i].state = "running"
  BY MarkRunningStarts
<1> HIDE DEF new
<1>4. Requeue(m, i) = Cas(m, i, {"running"}, new)
  BY DEF Requeue, new
<1> HIDE DEF m
<1>5. Requeue(m, i) \in Rows /\ Calm(r, Requeue(m, i))
  BY <1>1, <1>2, <1>3, <1>4, CasType DEF Calm
<1> QED BY <1>5 DEF m

\* The report operations keep the reports well-formed.
LEMMA ReportType ==
  ASSUME NEW Ls, NEW rep \in [Items -> Report(Ls)], NEW i, NEW l \in Ls,
         NEW t \in {"live", "settled"}
  PROVE  /\ ActivateReport(rep, i, l) \in [Items -> Report(Ls)]
         /\ BeginReport(rep, i, l) \in [Items -> Report(Ls)]
         /\ CommitReport(rep, i, l, t) \in [Items -> Report(Ls)]
<1>1. ActivateReport(rep, i, l) \in [Items -> Report(Ls)]
  BY DEF ActivateReport, Report
<1>2. BeginReport(rep, i, l) \in [Items -> Report(Ls)]
  BY DEF BeginReport, Report
<1>3. CommitReport(rep, i, l, t) \in [Items -> Report(Ls)]
  BY DEF CommitReport, Report
<1> QED BY <1>1, <1>2, <1>3

LEMMA ReportSetType ==
  ASSUME NEW Ls, NEW rep \in [Items -> Report(Ls)], NEW S
  PROVE  /\ ProjectInterrupted(rep, S) \in [Items -> Report(Ls)]
         /\ DropReports(rep, S) \in [Items -> Report(Ls)]
<1>1. ProjectInterrupted(rep, S) \in [Items -> Report(Ls)]
  BY DEF ProjectInterrupted, Report
<1>2. NoReport \in Report(Ls)
  BY DEF NoReport, Report, NoLease
<1> QED BY <1>1, <1>2 DEF DropReports
-------------------------------------------------------------------------------
(* Ordering keys. *)

\* Among the keys of some rows and 0 there is a largest one.
LEMMA LargestKey ==
  ASSUME NEW r \in Rows, NEW A \in SUBSET Items
  PROVE  LET K == {0} \cup {r[i].key : i \in A}
         IN  Max(K) \in K /\ Max(K) \in Nat /\ \A k \in K : k <= Max(K)
<1> DEFINE keys == {r[i].key : i \in A}
           f == [i \in A |-> r[i].key]
           K == {0} \cup keys
<1>1. f \in Surjection(A, keys)
  BY DEF Surjection
<1>2. IsFiniteSet(keys)
  BY <1>1, ItemSets, FS_Surjection
<1>3. K \in SUBSET Nat
  BY DEF Rows, Row
<1> HIDE DEF keys
<1>4. IsFiniteSet(K)
  BY <1>2, FS_AddElement
<1> HIDE DEF K
<1>5. Max(K) \in K /\ \A k \in K : k <= Max(K)
  BY <1>3, <1>4, MaxIsLargest DEF K
<1> QED BY <1>3, <1>5 DEF K, keys

\* A new key is above every key stored in the lane.
LEMMA NextKeyAbove ==
  ASSUME NEW r \in Rows, NEW lane
  PROVE  /\ NextOrderingKey(r, lane) \in Nat
         /\ \A i \in Stored(r, lane) : r[i].key < NextOrderingKey(r, lane)
<1> DEFINE K == {0} \cup {r[i].key : i \in Stored(r, lane)}
<1>1. Stored(r, lane) \in SUBSET Items
  BY DEF Stored
<1>2. Max(K) \in Nat /\ \A k \in K : k <= Max(K)
  BY <1>1, LargestKey
<1>3. NextOrderingKey(r, lane) = Max(K) + Gap
  BY DEF NextOrderingKey, MaxOrderingKey
<1>4. \A i \in Stored(r, lane) : r[i].key \in K /\ r[i].key \in Nat
  BY <1>1 DEF Rows, Row
<1> HIDE DEF K
<1> QED BY <1>2, <1>3, <1>4, StoreAssumption
===============================================================================
