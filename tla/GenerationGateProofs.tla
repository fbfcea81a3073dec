------------------------- MODULE GenerationGateProofs -------------------------
(***************************************************************************)
(* The generation gate, for any number of tasks and lanes and any limits:  *)
(* no slot is lost or duplicated by a release that races a cancellation,   *)
(* nobody waits while a slot is free, and waiters are served in order.     *)
(***************************************************************************)
EXTENDS GenerationGate, FiniteSetTheorems, SequenceTheorems, TLAPS

(* What the gate's three queue operations do to an injective queue. *)

LEMMA AppendQueue ==
  ASSUME NEW q \in Seq(Tasks), NEW t \in Tasks, IsInjective(q), t \notin ToSet(q)
  PROVE  /\ Append(q, t) \in Seq(Tasks)
         /\ IsInjective(Append(q, t))
         /\ ToSet(Append(q, t)) = ToSet(q) \cup {t}
BY AppendProperties DEF IsInjective, ToSet

LEMMA PopQueue ==
  ASSUME NEW q \in Seq(Tasks), IsInjective(q), q # <<>>
  PROVE  /\ q[1] \in Tasks /\ q[1] \in ToSet(q)
         /\ SubSeq(q, 2, Len(q)) \in Seq(Tasks)
         /\ IsInjective(SubSeq(q, 2, Len(q)))
         /\ ToSet(SubSeq(q, 2, Len(q))) = ToSet(q) \ {q[1]}
<1> DEFINE r == SubSeq(q, 2, Len(q))
<1>1. Len(q) \in Nat /\ Len(q) >= 1 /\ DOMAIN q = 1 .. Len(q)
  OBVIOUS
<1>2. q[1] \in Tasks /\ q[1] \in ToSet(q)
  BY <1>1 DEF ToSet
<1>3. r \in Seq(Tasks) /\ Len(r) = Len(q) - 1 /\ \A i \in 1 .. Len(r) : r[i] = q[i + 1]
  BY <1>1, SubSeqProperties
<1> HIDE DEF r
<1>4. DOMAIN r = 1 .. Len(q) - 1
  BY <1>3
<1>5. IsInjective(r)
  <2> SUFFICES ASSUME NEW i \in DOMAIN r, NEW j \in DOMAIN r, r[i] = r[j]
               PROVE  i = j
    BY DEF IsInjective
  <2>1. i + 1 \in DOMAIN q /\ j + 1 \in DOMAIN q /\ q[i + 1] = q[j + 1]
    BY <1>1, <1>3, <1>4
  <2>2. i + 1 = j + 1
    BY <2>1 DEF IsInjective
  <2> QED BY <2>2, <1>4, <1>1
<1>6. ToSet(r) = ToSet(q) \ {q[1]}
  <2>1. ASSUME NEW x \in ToSet(r)
        PROVE  x \in ToSet(q) /\ x # q[1]
    BY <2>1, <1>1, <1>3, <1>4 DEF ToSet, IsInjective
  <2>2. ASSUME NEW x \in ToSet(q), x # q[1]
        PROVE  x \in ToSet(r)
    <3>1. PICK i \in 2 .. Len(q) : x = q[i]
      BY <2>2, <1>1 DEF ToSet
    <3>2. i - 1 \in DOMAIN r /\ r[i - 1] = x
      BY <3>1, <1>1, <1>3, <1>4
    <3> QED BY <3>2 DEF ToSet
  <2> QED BY <2>1, <2>2
<1> QED BY <1>2, <1>3, <1>5, <1>6 DEF r

LEMMA RemoveFromQueue ==
  ASSUME NEW q \in Seq(Tasks), IsInjective(q), NEW t \in ToSet(q)
  PROVE  /\ RemoveFirst(q, t) \in Seq(Tasks)
         /\ IsInjective(RemoveFirst(q, t))
         /\ ToSet(RemoveFirst(q, t)) = ToSet(q) \ {t}
<1>1. PICK k \in 1 .. Len(q) : q[k] = t
  BY DEF ToSet
<1>2. Len(q) \in Nat /\ DOMAIN q = 1 .. Len(q)
  OBVIOUS
<1>3. {i \in 1 .. Len(q) : q[i] = t} = {k}
  BY <1>1, <1>2 DEF IsInjective
<1>4. Min({k}) = k
  BY <1>1 DEF Min
<1>5. RemoveFirst(q, t) = SubSeq(q, 1, k - 1) \o SubSeq(q, k + 1, Len(q))
  BY <1>1, <1>3, <1>4 DEF RemoveFirst, RemoveAt, SelectInSeq
<1> DEFINE a == SubSeq(q, 1, k - 1)
           b == SubSeq(q, k + 1, Len(q))
           r == a \o b
<1>6. a \in Seq(Tasks) /\ Len(a) = k - 1 /\ \A i \in 1 .. k - 1 : a[i] = q[i]
  <2>1. \A i \in 1 .. k - 1 : q[i] \in Tasks
    BY <1>1, <1>2
  <2> QED BY <2>1, <1>1, <1>2, SubSeqProperties
<1>7. /\ b \in Seq(Tasks) /\ Len(b) = Len(q) - k
      /\ \A i \in 1 .. Len(q) - k : b[i] = q[k + i]
  <2>1. \A i \in k + 1 .. Len(q) : q[i] \in Tasks
    BY <1>1, <1>2
  <2>2. /\ b \in Seq(Tasks)
        /\ Len(b) = IF k + 1 <= Len(q) THEN Len(q) - (k + 1) + 1 ELSE 0
        /\ \A i \in 1 .. Len(q) - (k + 1) + 1 : b[i] = q[k + 1 + i - 1]
    BY <2>1, <1>1, <1>2, SubSeqProperties
  <2> HIDE DEF b
  <2>3. Len(b) = Len(q) - k
    <3>1. CASE k + 1 <= Len(q)
      BY <3>1, <2>2, <1>1, <1>2
    <3>2. CASE k = Len(q)
      BY <3>2, <2>2, <1>1, <1>2
    <3>3. \A n \in Nat : \A j \in 1 .. n : j + 1 <= n \/ j = n
      OBVIOUS
    <3>4. k + 1 <= Len(q) \/ k = Len(q)
      BY <3>3, <1>2
    <3> QED BY <3>1, <3>2, <3>4
  <2>4. ASSUME NEW i \in 1 .. Len(q) - k
        PROVE  b[i] = q[k + i]
    <3>1. i \in 1 .. Len(q) - (k + 1) + 1 /\ k + 1 + i - 1 = k + i
      BY <1>1, <1>2
    <3> QED BY <3>1, <2>2
  <2> QED BY <2>2, <2>3, <2>4
<1> HIDE DEF a, b
<1>8. /\ r \in Seq(Tasks) /\ Len(r) = Len(q) - 1
      /\ \A i \in 1 .. Len(q) - 1 : r[i] = IF i < k THEN q[i] ELSE q[i + 1]
  <2>1. /\ r \in Seq(Tasks) /\ Len(r) = Len(a) + Len(b)
        /\ \A i \in 1 .. Len(a) + Len(b) :
             r[i] = IF i <= Len(a) THEN a[i] ELSE b[i - Len(a)]
    BY <1>6, <1>7, ConcatProperties
  <2> HIDE DEF r
  <2>2. Len(r) = Len(q) - 1
    BY <2>1, <1>1, <1>2, <1>6, <1>7
  <2>3. ASSUME NEW i \in 1 .. Len(q) - 1
        PROVE  r[i] = IF i < k THEN q[i] ELSE q[i + 1]
    <3>1. r[i] = IF i <= k - 1 THEN a[i] ELSE b[i - (k - 1)]
      BY <2>1, <1>1, <1>2, <1>6, <1>7
    <3>2. CASE i < k
      BY <3>1, <3>2, <1>1, <1>2, <1>6
    <3>3. CASE ~(i < k)
      <4>1. i - (k - 1) \in 1 .. Len(q) - k /\ k + (i - (k - 1)) = i + 1
        BY <3>3, <1>1, <1>2
      <4>2. b[i - (k - 1)] = q[i + 1]
        BY <4>1, <1>7
      <4> QED BY <3>1, <3>3, <4>2, <1>1, <1>2
    <3> QED BY <3>2, <3>3
  <2> QED BY <2>1, <2>2, <2>3
<1> HIDE DEF r
<1>9. DOMAIN r = 1 .. Len(q) - 1
  BY <1>8
<1>10. IsInjective(r)
  BY <1>1, <1>2, <1>8, <1>9 DEF IsInjective
<1>11. ToSet(r) = ToSet(q) \ {t}
  <2>1. ASSUME NEW x \in ToSet(r)
        PROVE  x \in ToSet(q) /\ x # t
    <3>1. PICK i \in 1 .. Len(q) - 1 : x = r[i]
      BY <2>1, <1>9 DEF ToSet
    <3>2. PICK j \in 1 .. Len(q) : j # k /\ x = q[j]
      BY <3>1, <1>1, <1>2, <1>8
    <3>3. x # t
      BY <3>2, <1>1, <1>2 DEF IsInjective
    <3> QED BY <3>2, <3>3, <1>2 DEF ToSet
  <2>2. ASSUME NEW x \in ToSet(q), x # t
        PROVE  x \in ToSet(r)
    <3>1. PICK i \in 1 .. Len(q) : x = q[i]
      BY <2>2, <1>2 DEF ToSet
    <3>2. CASE i < k
      BY <3>1, <3>2, <1>1, <1>2, <1>8, <1>9 DEF ToSet
    <3>3. CASE i > k
      <4>1. i - 1 \in DOMAIN r /\ r[i - 1] = x
        BY <3>1, <3>3, <1>1, <1>2, <1>8, <1>9
      <4> QED BY <4>1 DEF ToSet
    <3> QED BY <3>1, <3>2, <3>3, <2>2, <1>1
  <2> QED BY <2>1, <2>2
<1> QED BY <1>5, <1>8, <1>10, <1>11 DEF r, a, b
-------------------------------------------------------------------------------
(* Facts about a state. *)

LEMMA LimitPositive == \A l \in Lanes : Limit(l) \in Nat /\ Limit(l) >= 1
BY GateAssumption DEF Limit

LEMMA OwnersCount ==
  \A l : IsFiniteSet(Owners(l)) /\ Cardinality(Owners(l)) \in Nat
<1> TAKE l
<1>1. Owners(l) \in SUBSET Tasks
  BY DEF Owners
<1> QED BY <1>1, GateAssumption, FS_Subset, FS_CardinalityType

(* The queue is empty if nobody may be handed the slot, and its head is    *)
(* the one who is.                                                         *)
LEMMA LiveIsQueue ==
  ASSUME GateTypeOK, QueueIsExact, NEW l \in Lanes
  PROVE  /\ Live(l) = {} => waiters[l] = <<>>
         /\ Live(l) # {} => Min(Live(l)) = 1 /\ waiters[l] # <<>>
<1> DEFINE q == waiters[l]
<1>1. q \in Seq(Tasks) /\ DOMAIN q = 1 .. Len(q) /\ Len(q) \in Nat
  BY DEF GateTypeOK
<1>2. ASSUME NEW i \in DOMAIN q
      PROVE  ~didCancel[q[i]]
  <2>1. q[i] \in ToSet(q)
    BY DEF ToSet
  <2>2. q[i] \in Tasks /\ phase[q[i]] = "waiting"
    BY <2>1 DEF QueueIsExact
  <2> QED BY <2>2 DEF QueueIsExact
<1>3. Live(l) = 1 .. Len(q)
  BY <1>1, <1>2 DEF Live
<1>4. CASE Len(q) = 0
  BY <1>1, <1>3, <1>4
<1>5. CASE Len(q) # 0
  <2>1. 1 \in Live(l) /\ \A i \in Live(l) : 1 <= i
    BY <1>1, <1>3, <1>5
  <2>2. Min(Live(l)) = 1
    BY <2>1, <1>3 DEF Min
  <2> QED BY <1>1, <1>5, <2>1, <2>2
<1> QED BY <1>4, <1>5

(* A release either hands the slot to the head of the queue, ... *)
LEMMA HandOverParts ==
  ASSUME GateTypeOK, QueueIsExact, NEW t \in Tasks, HandOver(t, LaneOf[t])
  PROVE  LET l == LaneOf[t]
             h == waiters[l][1]
         IN  /\ l \in Lanes /\ waiters[l] # <<>>
             /\ h \in Tasks /\ LaneOf[h] = l /\ phase[h] = "waiting"
             /\ waiters' = [waiters EXCEPT ![l] = SubSeq(@, 2, Len(@))]
             /\ waiters'[l] \in Seq(Tasks) /\ IsInjective(waiters'[l])
             /\ ToSet(waiters'[l]) = ToSet(waiters[l]) \ {h}
             /\ phase' = [phase EXCEPT ![t] = "idle", ![h] = "resumed"]
             /\ didReceiveSlot' = [didReceiveSlot EXCEPT ![t] = FALSE, ![h] = TRUE]
             /\ activeCount' = activeCount
<1> DEFINE l == LaneOf[t]
           q == waiters[l]
<1>1. l \in Lanes
  BY GateAssumption
<1>2. q \in Seq(Tasks) /\ IsInjective(q)
  BY <1>1 DEF GateTypeOK, QueueIsExact
<1>3. Min(Live(l)) = 1 /\ q # <<>>
  BY <1>1, LiveIsQueue DEF HandOver
<1>4. /\ waiters' = [waiters EXCEPT ![l] = SubSeq(@, 1 + 1, Len(@))]
      /\ phase' = [phase EXCEPT ![t] = "idle", ![q[1]] = "resumed"]
      /\ didReceiveSlot' = [didReceiveSlot EXCEPT ![t] = FALSE, ![q[1]] = TRUE]
      /\ activeCount' = activeCount
  BY <1>3 DEF HandOver
<1>5. waiters' = [waiters EXCEPT ![l] = SubSeq(@, 2, Len(@))]
  BY <1>4
<1>6. waiters'[l] = SubSeq(q, 2, Len(q))
  BY <1>1, <1>5 DEF GateTypeOK
<1>7. q[1] \in Tasks /\ LaneOf[q[1]] = l /\ phase[q[1]] = "waiting"
  BY <1>1, <1>2, <1>3, PopQueue DEF QueueIsExact
<1> QED BY <1>1, <1>2, <1>3, <1>4, <1>5, <1>6, <1>7, PopQueue

(* ... or frees it, with nobody waiting. *)
LEMMA FreeSlotParts ==
  ASSUME GateTypeOK, QueueIsExact, NEW t \in Tasks, FreeSlot(t, LaneOf[t])
  PROVE  /\ LaneOf[t] \in Lanes
         /\ waiters' = waiters /\ waiters[LaneOf[t]] = <<>>
         /\ activeCount' = [activeCount EXCEPT ![LaneOf[t]] = @ - 1]
         /\ phase' = [phase EXCEPT ![t] = "idle"]
         /\ didReceiveSlot' = [didReceiveSlot EXCEPT ![t] = FALSE]
BY GateAssumption, LiveIsQueue DEF FreeSlot, GateTypeOK
-------------------------------------------------------------------------------
(* How the owners of a lane change, and that the count follows. *)

LEMMA SameOwners ==
  ASSUME SlotsConserved, LaneCapacity, activeCount' = activeCount,
         \A k \in Lanes : Owners(k)' = Owners(k)
  PROVE  SlotsConserved' /\ LaneCapacity'
BY DEF SlotsConserved, LaneCapacity

LEMMA OneMoreOwner ==
  ASSUME GateTypeOK, SlotsConserved, LaneCapacity,
         NEW l \in Lanes, NEW t \in Tasks, t \notin Owners(l),
         activeCount[l] < Limit(l),
         activeCount' = [activeCount EXCEPT ![l] = @ + 1],
         \A k \in Lanes : Owners(k)' = IF k = l THEN Owners(k) \cup {t} ELSE Owners(k)
  PROVE  activeCount' \in [Lanes -> Nat] /\ SlotsConserved' /\ LaneCapacity'
<1>1. Cardinality(Owners(l) \cup {t}) = Cardinality(Owners(l)) + 1
  BY OwnersCount, FS_AddElement
<1>2. activeCount' \in [Lanes -> Nat]
  BY DEF GateTypeOK
<1>3. ASSUME NEW k \in Lanes
      PROVE  activeCount'[k] = Cardinality(Owners(k)') /\ Cardinality(Owners(k)') <= Limit(k)
  <2>1. CASE k = l
    <3>1. Owners(k)' = Owners(l) \cup {t} /\ activeCount'[k] = activeCount[l] + 1
      BY <2>1 DEF GateTypeOK
    <3>2. activeCount[l] = Cardinality(Owners(l)) /\ activeCount[l] \in Nat
      BY DEF SlotsConserved, GateTypeOK
    <3> QED BY <1>1, <2>1, <3>1, <3>2, LimitPositive
  <2>2. CASE k # l
    BY <2>2 DEF GateTypeOK, SlotsConserved, LaneCapacity
  <2> QED BY <2>1, <2>2
<1> QED BY <1>2, <1>3 DEF SlotsConserved, LaneCapacity

LEMMA OneOwnerLess ==
  ASSUME GateTypeOK, SlotsConserved, LaneCapacity,
         NEW l \in Lanes, NEW t \in Owners(l),
         activeCount' = [activeCount EXCEPT ![l] = @ - 1],
         \A k \in Lanes : Owners(k)' = IF k = l THEN Owners(k) \ {t} ELSE Owners(k)
  PROVE  activeCount' \in [Lanes -> Nat] /\ SlotsConserved' /\ LaneCapacity'
<1>1. Cardinality(Owners(l) \ {t}) = Cardinality(Owners(l)) - 1
  BY OwnersCount, FS_RemoveElement
<1>2. Cardinality(Owners(l) \ {t}) \in Nat
  BY OwnersCount, FS_Subset, FS_CardinalityType
<1>3. ASSUME NEW k \in Lanes
      PROVE  /\ activeCount'[k] = Cardinality(Owners(k)')
             /\ Cardinality(Owners(k)') \in Nat
             /\ Cardinality(Owners(k)') <= Limit(k)
  <2>1. CASE k = l
    <3>1. Owners(k)' = Owners(l) \ {t} /\ activeCount'[k] = activeCount[l] - 1
      BY <2>1 DEF GateTypeOK
    <3>2. activeCount[l] = Cardinality(Owners(l)) /\ Cardinality(Owners(l)) <= Limit(l)
      BY DEF SlotsConserved, LaneCapacity
    <3>3. Cardinality(Owners(l)) \in Nat /\ Limit(l) \in Nat
      BY OwnersCount, LimitPositive
    <3> QED BY <1>1, <1>2, <2>1, <3>1, <3>2, <3>3
  <2>2. CASE k # l
    BY <2>2, OwnersCount DEF GateTypeOK, SlotsConserved, LaneCapacity
  <2> QED BY <2>1, <2>2
<1>4. activeCount' \in [Lanes -> Nat]
  BY <1>3 DEF GateTypeOK
<1> QED BY <1>3, <1>4 DEF SlotsConserved, LaneCapacity

LEMMA OwnerReplaced ==
  ASSUME SlotsConserved, LaneCapacity,
         NEW l \in Lanes, NEW t \in Owners(l), NEW h \in Tasks, h \notin Owners(l),
         activeCount' = activeCount,
         \A k \in Lanes :
           Owners(k)' = IF k = l THEN (Owners(k) \ {t}) \cup {h} ELSE Owners(k)
  PROVE  SlotsConserved' /\ LaneCapacity'
<1>1. /\ IsFiniteSet(Owners(l) \ {t})
      /\ Cardinality(Owners(l) \ {t}) = Cardinality(Owners(l)) - 1
  BY OwnersCount, FS_RemoveElement
<1>2. Cardinality((Owners(l) \ {t}) \cup {h}) = Cardinality(Owners(l))
  <2>1. h \notin Owners(l) \ {t}
    OBVIOUS
  <2>2. Cardinality((Owners(l) \ {t}) \cup {h}) = Cardinality(Owners(l) \ {t}) + 1
    BY <1>1, <2>1, FS_AddElement
  <2>3. Cardinality(Owners(l)) \in Nat
    BY OwnersCount
  <2> QED BY <1>1, <2>2, <2>3
<1>3. ASSUME NEW k \in Lanes
      PROVE  Cardinality(Owners(k)') = Cardinality(Owners(k))
  BY <1>2
<1> QED BY <1>3 DEF SlotsConserved, LaneCapacity

LEMMA OwnersFollow ==
  ASSUME \A x \in Tasks : Owns(x)' <=> Owns(x)
  PROVE  \A k \in Lanes : Owners(k)' = Owners(k)
BY DEF Owners
-------------------------------------------------------------------------------
(* Each action keeps the invariant. *)

LEMMA AcquireFastKeeps ==
  ASSUME GateInv, NEW t \in Tasks, AcquireFast(t)
  PROVE  GateInv'
<1> USE DEF GateInv
<1> DEFINE l == LaneOf[t]
<1>1. l \in Lanes
  BY GateAssumption
<1>2. CASE isCancelled[t]
  <2>1. /\ isCancelled' = [isCancelled EXCEPT ![t] = FALSE]
        /\ UNCHANGED <<activeCount, waiters, phase, hopPending, didReceiveSlot, didCancel>>
    BY <1>2 DEF AcquireFast, gate
  <2>2. GateTypeOK' /\ QueueIsExact' /\ IdleIsClean' /\ WaitsOnlyWhenFull'
    BY <2>1 DEF GateTypeOK, QueueIsExact, IdleIsClean, WaitsOnlyWhenFull
  <2>3. \A x \in Tasks : Owns(x)' <=> Owns(x)
    BY <2>1 DEF Owns
  <2>4. SlotsConserved' /\ LaneCapacity'
    BY <2>1, <2>3, OwnersFollow, SameOwners
  <2> QED BY <2>2, <2>4
<1>3. CASE ~isCancelled[t]
  <2>1. /\ phase[t] = "idle" /\ activeCount[l] < Limit(l) /\ waiters[l] = <<>>
        /\ activeCount' = [activeCount EXCEPT ![l] = @ + 1]
        /\ phase' = [phase EXCEPT ![t] = "generating"]
        /\ UNCHANGED <<waiters, isCancelled, hopPending, didReceiveSlot, didCancel>>
    BY <1>3 DEF AcquireFast, Below
  <2>2. t \notin Owners(l)
    BY <2>1 DEF Owners, Owns
  <2>3. ASSUME NEW k \in Lanes
        PROVE  Owners(k)' = IF k = l THEN Owners(k) \cup {t} ELSE Owners(k)
    BY <2>1 DEF Owners, Owns, GateTypeOK
  <2>4. activeCount' \in [Lanes -> Nat] /\ SlotsConserved' /\ LaneCapacity'
    BY <1>1, <2>1, <2>2, <2>3, OneMoreOwner
  <2>5. GateTypeOK'
    BY <2>1, <2>4 DEF GateTypeOK
  <2>6. QueueIsExact' /\ IdleIsClean'
    BY <2>1 DEF GateTypeOK, QueueIsExact, IdleIsClean
  <2>7. WaitsOnlyWhenFull'
    BY <1>1, <2>1 DEF GateTypeOK, WaitsOnlyWhenFull
  <2> QED BY <2>4, <2>5, <2>6, <2>7
<1> QED BY <1>2, <1>3

LEMMA AcquireWaitKeeps ==
  ASSUME GateInv, NEW t \in Tasks, AcquireWait(t)
  PROVE  GateInv'
<1> USE DEF GateInv
<1> DEFINE l == LaneOf[t]
<1>1. l \in Lanes
  BY GateAssumption
<1>2. /\ phase[t] = "idle" /\ ~Below(l)
      /\ waiters' = [waiters EXCEPT ![l] = Append(@, t)]
      /\ phase' = [phase EXCEPT ![t] = "waiting"]
      /\ hopPending' = [hopPending EXCEPT ![t] = isCancelled[t]]
      /\ UNCHANGED <<activeCount, isCancelled, didReceiveSlot, didCancel>>
  BY DEF AcquireWait
<1>3. waiters[l] \in Seq(Tasks) /\ IsInjective(waiters[l]) /\ t \notin ToSet(waiters[l])
  BY <1>1, <1>2 DEF GateTypeOK, QueueIsExact
<1>4. /\ waiters'[l] = Append(waiters[l], t) /\ waiters'[l] \in Seq(Tasks)
      /\ IsInjective(waiters'[l]) /\ ToSet(waiters'[l]) = ToSet(waiters[l]) \cup {t}
  BY <1>1, <1>2, <1>3, AppendQueue DEF GateTypeOK
<1>5. GateTypeOK'
  BY <1>1, <1>2, <1>4 DEF GateTypeOK
<1>6. QueueIsExact'
  <2>1. ASSUME NEW k \in Lanes
        PROVE  /\ IsInjective(waiters'[k])
               /\ ToSet(waiters'[k]) = {x \in Tasks : LaneOf[x] = k /\ phase'[x] = "waiting"}
    <3>1. CASE k = l
      BY <3>1, <1>2, <1>4 DEF GateTypeOK, QueueIsExact
    <3>2. CASE k # l
      BY <3>2, <1>2 DEF GateTypeOK, QueueIsExact
    <3> QED BY <3>1, <3>2
  <2>2. ASSUME NEW x \in Tasks, phase'[x] = "waiting"
        PROVE  ~didCancel'[x] /\ ~didReceiveSlot'[x]
    BY <2>2, <1>2 DEF GateTypeOK, QueueIsExact, IdleIsClean
  <2> QED BY <2>1, <2>2 DEF QueueIsExact
<1>7. IdleIsClean'
  BY <1>2 DEF GateTypeOK, IdleIsClean
<1>8. \A x \in Tasks : Owns(x)' <=> Owns(x)
  BY <1>2 DEF Owns, GateTypeOK
<1>9. SlotsConserved' /\ LaneCapacity'
  BY <1>2, <1>8, OwnersFollow, SameOwners
<1>10. WaitsOnlyWhenFull'
  <2>1. ASSUME NEW k \in Lanes, waiters'[k] # <<>>
        PROVE  activeCount[k] = Limit(k)
    <3>1. CASE waiters[k] # <<>>
      BY <3>1 DEF WaitsOnlyWhenFull
    <3>2. CASE waiters[k] = <<>>
      <4>1. k = l
        BY <2>1, <3>2, <1>2 DEF GateTypeOK
      <4>2. ~(activeCount[k] < Limit(k))
        BY <3>2, <4>1, <1>2 DEF Below
      <4>3. activeCount[k] \in Nat /\ activeCount[k] <= Limit(k)
        BY DEF GateTypeOK, SlotsConserved, LaneCapacity
      <4> QED BY <4>2, <4>3, LimitPositive
    <3> QED BY <3>1, <3>2
  <2> QED BY <2>1, <1>2 DEF WaitsOnlyWhenFull
<1> QED BY <1>5, <1>6, <1>7, <1>9, <1>10

LEMMA CancelTaskKeeps ==
  ASSUME GateInv, NEW t \in Tasks, CancelTask(t)
  PROVE  GateInv'
<1> USE DEF GateInv
<1>1. /\ isCancelled' = [isCancelled EXCEPT ![t] = TRUE]
      /\ hopPending' = [hopPending EXCEPT ![t] = phase[t] # "idle"]
      /\ UNCHANGED <<activeCount, waiters, phase, didReceiveSlot, didCancel>>
  BY DEF CancelTask, gate
<1>2. GateTypeOK' /\ QueueIsExact' /\ IdleIsClean' /\ WaitsOnlyWhenFull'
  BY <1>1 DEF GateTypeOK, QueueIsExact, IdleIsClean, WaitsOnlyWhenFull
<1>3. \A x \in Tasks : Owns(x)' <=> Owns(x)
  BY <1>1 DEF Owns
<1>4. SlotsConserved' /\ LaneCapacity'
  BY <1>1, <1>3, OwnersFollow, SameOwners
<1> QED BY <1>2, <1>4

LEMMA CancelHopKeeps ==
  ASSUME GateInv, NEW t \in Tasks, CancelHop(t)
  PROVE  GateInv'
<1> USE DEF GateInv
<1> DEFINE l == LaneOf[t]
<1>1. l \in Lanes
  BY GateAssumption
<1>2. /\ hopPending[t]
      /\ hopPending' = [hopPending EXCEPT ![t] = FALSE]
      /\ didCancel' = [didCancel EXCEPT ![t] = TRUE]
      /\ UNCHANGED <<activeCount, isCancelled, didReceiveSlot>>
  BY DEF CancelHop
<1>3. CASE t \in ToSet(waiters[l])
  <2>1. /\ waiters' = [waiters EXCEPT ![l] = RemoveFirst(@, t)]
        /\ phase' = [phase EXCEPT ![t] = "resumed"]
    BY <1>3 DEF CancelHop
  <2>2. waiters[l] \in Seq(Tasks) /\ IsInjective(waiters[l]) /\ phase[t] = "waiting"
    BY <1>1, <1>3 DEF GateTypeOK, QueueIsExact
  <2>3. /\ waiters'[l] = RemoveFirst(waiters[l], t) /\ waiters'[l] \in Seq(Tasks)
        /\ IsInjective(waiters'[l]) /\ ToSet(waiters'[l]) = ToSet(waiters[l]) \ {t}
    BY <1>1, <1>3, <2>1, <2>2, RemoveFromQueue DEF GateTypeOK
  <2>4. GateTypeOK'
    BY <1>1, <1>2, <2>1, <2>3 DEF GateTypeOK
  <2>5. QueueIsExact'
    <3>1. ASSUME NEW k \in Lanes
          PROVE  /\ IsInjective(waiters'[k])
                 /\ ToSet(waiters'[k]) = {x \in Tasks : LaneOf[x] = k /\ phase'[x] = "waiting"}
      <4>1. CASE k = l
        BY <4>1, <2>1, <2>3 DEF GateTypeOK, QueueIsExact
      <4>2. CASE k # l
        BY <4>2, <2>1 DEF GateTypeOK, QueueIsExact
      <4> QED BY <4>1, <4>2
    <3>2. ASSUME NEW x \in Tasks, phase'[x] = "waiting"
          PROVE  ~didCancel'[x] /\ ~didReceiveSlot'[x]
      BY <3>2, <1>2, <2>1 DEF GateTypeOK, QueueIsExact
    <3> QED BY <3>1, <3>2 DEF QueueIsExact
  <2>6. IdleIsClean'
    BY <1>2, <2>1 DEF GateTypeOK, IdleIsClean
  <2>7. \A x \in Tasks : Owns(x)' <=> Owns(x)
    BY <1>2, <2>1, <2>2 DEF Owns, GateTypeOK, QueueIsExact
  <2>8. SlotsConserved' /\ LaneCapacity'
    BY <1>2, <2>7, OwnersFollow, SameOwners
  <2>9. WaitsOnlyWhenFull'
    <3>1. waiters[l] # <<>>
      BY <1>3 DEF ToSet
    <3>2. \A k \in Lanes : k # l => waiters'[k] = waiters[k]
      BY <2>1 DEF GateTypeOK
    <3> QED BY <1>2, <3>1, <3>2 DEF WaitsOnlyWhenFull
  <2> QED BY <2>4, <2>5, <2>6, <2>8, <2>9
<1>4. CASE t \notin ToSet(waiters[l])
  <2>1. UNCHANGED <<waiters, phase>>
    BY <1>4 DEF CancelHop
  <2>2. phase[t] # "waiting" /\ phase[t] # "idle"
    BY <1>1, <1>2, <1>4 DEF QueueIsExact, IdleIsClean
  <2>3. GateTypeOK' /\ QueueIsExact' /\ IdleIsClean' /\ WaitsOnlyWhenFull'
    BY <1>2, <2>1, <2>2 DEF GateTypeOK, QueueIsExact, IdleIsClean, WaitsOnlyWhenFull
  <2>4. \A x \in Tasks : Owns(x)' <=> Owns(x)
    BY <1>2, <2>1 DEF Owns
  <2>5. SlotsConserved' /\ LaneCapacity'
    BY <1>2, <2>4, OwnersFollow, SameOwners
  <2> QED BY <2>3, <2>5
<1> QED BY <1>3, <1>4

LEMMA ReleaseKeeps ==
  ASSUME GateInv, NEW t \in Tasks, Owns(t), Release(t)
  PROVE  GateInv'
<1> USE DEF GateInv
<1> DEFINE l == LaneOf[t]
           h == waiters[l][1]
<1>1. l \in Lanes /\ t \in Owners(l) /\ phase[t] # "waiting"
  BY GateAssumption DEF Owners, Owns
<1>2. /\ isCancelled' = [isCancelled EXCEPT ![t] = FALSE]
      /\ hopPending' = [hopPending EXCEPT ![t] = FALSE]
      /\ didCancel' = [didCancel EXCEPT ![t] = FALSE]
  BY DEF Release, Forget
<1>3. CASE HandOver(t, l)
  <2>1. /\ waiters[l] # <<>>
        /\ h \in Tasks /\ LaneOf[h] = l /\ phase[h] = "waiting" /\ h # t
        /\ waiters' = [waiters EXCEPT ![l] = SubSeq(@, 2, Len(@))]
        /\ waiters'[l] \in Seq(Tasks) /\ IsInjective(waiters'[l])
        /\ ToSet(waiters'[l]) = ToSet(waiters[l]) \ {h}
        /\ phase' = [phase EXCEPT ![t] = "idle", ![h] = "resumed"]
        /\ didReceiveSlot' = [didReceiveSlot EXCEPT ![t] = FALSE, ![h] = TRUE]
        /\ activeCount' = activeCount
    BY <1>1, <1>3, HandOverParts
  <2> HIDE DEF h
  <2>2. GateTypeOK'
    BY <1>1, <1>2, <2>1 DEF GateTypeOK
  <2>3. QueueIsExact'
    <3>1. ASSUME NEW k \in Lanes
          PROVE  /\ IsInjective(waiters'[k])
                 /\ ToSet(waiters'[k]) = {x \in Tasks : LaneOf[x] = k /\ phase'[x] = "waiting"}
      <4>1. CASE k = l
        BY <1>1, <4>1, <2>1 DEF GateTypeOK, QueueIsExact
      <4>2. CASE k # l
        BY <1>1, <4>2, <2>1 DEF GateTypeOK, QueueIsExact
      <4> QED BY <4>1, <4>2
    <3>2. ASSUME NEW x \in Tasks, phase'[x] = "waiting"
          PROVE  ~didCancel'[x] /\ ~didReceiveSlot'[x]
      BY <3>2, <1>2, <2>1 DEF GateTypeOK, QueueIsExact
    <3> QED BY <3>1, <3>2 DEF QueueIsExact
  <2>4. IdleIsClean'
    BY <1>2, <2>1 DEF GateTypeOK, IdleIsClean
  <2>5. ASSUME NEW x \in Tasks
        PROVE  Owns(x)' <=> (Owns(x) /\ x # t) \/ x = h
    BY <2>1 DEF Owns, GateTypeOK
  <2>6. h \notin Owners(l)
    BY <2>1 DEF Owners, Owns
  <2>7. ASSUME NEW k \in Lanes
        PROVE  Owners(k)' = IF k = l THEN (Owners(k) \ {t}) \cup {h} ELSE Owners(k)
    BY <1>1, <2>1, <2>5 DEF Owners
  <2>8. SlotsConserved' /\ LaneCapacity'
    BY <1>1, <2>1, <2>6, <2>7, OwnerReplaced
  <2>9. WaitsOnlyWhenFull'
    <3>1. \A k \in Lanes : k # l => waiters'[k] = waiters[k]
      BY <2>1 DEF GateTypeOK
    <3> QED BY <2>1, <3>1 DEF WaitsOnlyWhenFull
  <2> QED BY <2>2, <2>3, <2>4, <2>8, <2>9
<1>4. CASE FreeSlot(t, l)
  <2>1. /\ waiters' = waiters /\ waiters[l] = <<>>
        /\ activeCount' = [activeCount EXCEPT ![l] = @ - 1]
        /\ phase' = [phase EXCEPT ![t] = "idle"]
        /\ didReceiveSlot' = [didReceiveSlot EXCEPT ![t] = FALSE]
    BY <1>4, FreeSlotParts
  <2>2. ASSUME NEW k \in Lanes
        PROVE  Owners(k)' = IF k = l THEN Owners(k) \ {t} ELSE Owners(k)
    BY <2>1 DEF Owners, Owns, GateTypeOK
  <2>3. activeCount' \in [Lanes -> Nat] /\ SlotsConserved' /\ LaneCapacity'
    BY <1>1, <2>1, <2>2, OneOwnerLess
  <2>4. GateTypeOK' /\ QueueIsExact' /\ IdleIsClean'
    BY <1>1, <1>2, <2>1, <2>3 DEF GateTypeOK, QueueIsExact, IdleIsClean
  <2>5. WaitsOnlyWhenFull'
    BY <1>1, <2>1 DEF GateTypeOK, WaitsOnlyWhenFull
  <2> QED BY <2>3, <2>4, <2>5
<1> QED BY <1>3, <1>4 DEF Release

LEMMA BeginKeeps ==
  ASSUME GateInv, NEW t \in Tasks, Begin(t)
  PROVE  GateInv'
<1> USE DEF GateInv
<1>1. /\ phase[t] = "resumed" /\ didReceiveSlot[t]
      /\ phase' = [phase EXCEPT ![t] = "generating"]
      /\ didReceiveSlot' = [didReceiveSlot EXCEPT ![t] = FALSE]
      /\ isCancelled' = [isCancelled EXCEPT ![t] = FALSE]
      /\ hopPending' = [hopPending EXCEPT ![t] = FALSE]
      /\ didCancel' = [didCancel EXCEPT ![t] = FALSE]
      /\ UNCHANGED <<activeCount, waiters>>
  BY DEF Begin, Forget, gate
<1>2. GateTypeOK' /\ QueueIsExact' /\ IdleIsClean' /\ WaitsOnlyWhenFull'
  BY <1>1 DEF GateTypeOK, QueueIsExact, IdleIsClean, WaitsOnlyWhenFull
<1>3. \A x \in Tasks : Owns(x)' <=> Owns(x)
  BY <1>1 DEF Owns, GateTypeOK
<1>4. SlotsConserved' /\ LaneCapacity'
  BY <1>1, <1>3, OwnersFollow, SameOwners
<1> QED BY <1>2, <1>4

LEMMA GiveUpKeeps ==
  ASSUME GateInv, NEW t \in Tasks, GiveUp(t)
  PROVE  GateInv'
<1> USE DEF GateInv
<1>1. /\ phase[t] = "resumed" /\ ~didReceiveSlot[t]
      /\ phase' = [phase EXCEPT ![t] = "idle"]
      /\ isCancelled' = [isCancelled EXCEPT ![t] = FALSE]
      /\ hopPending' = [hopPending EXCEPT ![t] = FALSE]
      /\ didCancel' = [didCancel EXCEPT ![t] = FALSE]
      /\ UNCHANGED <<activeCount, waiters, didReceiveSlot>>
  BY DEF GiveUp, Forget, gate
<1>2. GateTypeOK' /\ QueueIsExact' /\ IdleIsClean' /\ WaitsOnlyWhenFull'
  BY <1>1 DEF GateTypeOK, QueueIsExact, IdleIsClean, WaitsOnlyWhenFull
<1>3. \A x \in Tasks : Owns(x)' <=> Owns(x)
  BY <1>1 DEF Owns, GateTypeOK
<1>4. SlotsConserved' /\ LaneCapacity'
  BY <1>1, <1>3, OwnersFollow, SameOwners
<1> QED BY <1>2, <1>4

LEMMA InitGateInv == Init => GateInv
<1> SUFFICES ASSUME Init PROVE GateInv
  OBVIOUS
<1>1. GateTypeOK /\ IdleIsClean /\ WaitsOnlyWhenFull
  BY DEF Init, GateTypeOK, IdleIsClean, WaitsOnlyWhenFull
<1>2. QueueIsExact
  BY DEF Init, QueueIsExact, IsInjective, ToSet
<1>3. ASSUME NEW k \in Lanes
      PROVE  activeCount[k] = Cardinality(Owners(k)) /\ Cardinality(Owners(k)) <= Limit(k)
  <2>1. Owners(k) = {}
    BY DEF Init, Owners, Owns
  <2>2. Cardinality(Owners(k)) = 0
    BY <2>1, FS_EmptySet
  <2> QED BY <2>2, LimitPositive DEF Init
<1> QED BY <1>1, <1>2, <1>3 DEF GateInv, SlotsConserved, LaneCapacity

LEMMA NextGateInv == GateInv /\ [Next]_vars => GateInv'
<1> SUFFICES ASSUME GateInv, [Next]_vars PROVE GateInv'
  OBVIOUS
<1>1. ASSUME NEW t \in Tasks,
             \/ AcquireFast(t) \/ AcquireWait(t)
             \/ CancelTask(t) \/ CancelHop(t)
             \/ Begin(t) \/ Bail(t) \/ GiveUp(t) \/ Finish(t)
      PROVE  GateInv'
  <2>1. CASE AcquireFast(t)
    BY <2>1, AcquireFastKeeps
  <2>2. CASE AcquireWait(t)
    BY <2>2, AcquireWaitKeeps
  <2>3. CASE CancelTask(t)
    BY <2>3, CancelTaskKeeps
  <2>4. CASE CancelHop(t)
    BY <2>4, CancelHopKeeps
  <2>5. CASE Begin(t)
    BY <2>5, BeginKeeps
  <2>6. CASE Bail(t)
    BY <2>6, ReleaseKeeps DEF Bail, Owns
  <2>7. CASE GiveUp(t)
    BY <2>7, GiveUpKeeps
  <2>8. CASE Finish(t)
    BY <2>8, ReleaseKeeps DEF Finish, Owns
  <2> QED BY <1>1, <2>1, <2>2, <2>3, <2>4, <2>5, <2>6, <2>7, <2>8
<1>2. CASE UNCHANGED vars
  BY <1>2 DEF vars, gate, GateInv, GateTypeOK, QueueIsExact, IdleIsClean,
     SlotsConserved, LaneCapacity, WaitsOnlyWhenFull, Owners, Owns
<1> QED BY <1>1, <1>2 DEF Next

(* A slot goes to whoever is first in the lane's queue, or to a caller who *)
(* found it empty.                                                         *)
LEMMA StepServesInOrder == GateInv /\ [Next]_vars => [ServesInOrder]_vars
<1> SUFFICES ASSUME GateInv, NEW u \in Tasks,
                    \/ AcquireFast(u) \/ AcquireWait(u)
                    \/ CancelTask(u) \/ CancelHop(u)
                    \/ Begin(u) \/ Bail(u) \/ GiveUp(u) \/ Finish(u),
                    NEW t \in Tasks, Owns(t)', ~Owns(t),
                    NEW i \in DOMAIN waiters[LaneOf[t]],
                    phase'[waiters[LaneOf[t]][i]] = "waiting"
             PROVE  \E j \in 1 .. i - 1 : waiters[LaneOf[t]][j] = t
  BY DEF Next, ServesInOrder
<1> USE DEF GateInv
<1>1. CASE AcquireFast(u)
  <2>1. t = u /\ waiters[LaneOf[t]] = <<>>
    BY <1>1 DEF AcquireFast, Below, Owns, GateTypeOK
  <2> QED BY <2>1
<1>2. CASE AcquireWait(u) \/ CancelTask(u) \/ CancelHop(u) \/ Begin(u) \/ GiveUp(u)
  <2>1. CASE AcquireWait(u)
    BY <2>1 DEF AcquireWait, Owns, GateTypeOK
  <2>2. CASE CancelTask(u)
    BY <2>2 DEF CancelTask, Owns
  <2>3. CASE CancelHop(u)
    <3>1. didReceiveSlot' = didReceiveSlot
      BY <2>3 DEF CancelHop
    <3>2. CASE u \in ToSet(waiters[LaneOf[u]])
      <4>1. phase' = [phase EXCEPT ![u] = "resumed"]
        BY <2>3, <3>2 DEF CancelHop
      <4>2. ~didReceiveSlot[u]
        BY <3>2, GateAssumption DEF QueueIsExact
      <4> QED BY <3>1, <4>1, <4>2 DEF Owns, GateTypeOK
    <3>3. CASE u \notin ToSet(waiters[LaneOf[u]])
      BY <2>3, <3>3 DEF CancelHop, Owns
    <3> QED BY <3>2, <3>3
  <2>4. CASE Begin(u)
    BY <2>4 DEF Begin, Owns, GateTypeOK
  <2>5. CASE GiveUp(u)
    BY <2>5 DEF GiveUp, Owns, GateTypeOK
  <2> QED BY <1>2, <2>1, <2>2, <2>3, <2>4, <2>5
<1>3. CASE Bail(u) \/ Finish(u)
  <2> DEFINE l == LaneOf[u]
             h == waiters[l][1]
  <2>1. CASE HandOver(u, l)
    <3>1. /\ l \in Lanes
          /\ h \in Tasks /\ LaneOf[h] = l
          /\ phase' = [phase EXCEPT ![u] = "idle", ![h] = "resumed"]
          /\ didReceiveSlot' = [didReceiveSlot EXCEPT ![u] = FALSE, ![h] = TRUE]
      BY <2>1, HandOverParts
    <3>2. t = h
      BY <3>1 DEF Owns, GateTypeOK
    <3>3. phase'[h] = "resumed"
      BY <3>1 DEF GateTypeOK
    <3>4. i # 1 /\ i \in Nat /\ i >= 1
      BY <3>1, <3>2, <3>3 DEF GateTypeOK
    <3> QED BY <3>1, <3>2, <3>4
  <2>2. CASE FreeSlot(u, l)
    BY <2>2, FreeSlotParts DEF Owns, GateTypeOK
  <2> QED BY <1>3, <2>1, <2>2 DEF Bail, Finish, Release
<1> QED BY <1>1, <1>2, <1>3
-------------------------------------------------------------------------------
(* The theorems. *)

(* The gate's state is consistent in every reachable state: the queue is   *)
(* exactly the suspended tasks, and nothing of an earlier waiter is left   *)
(* when a task calls acquire again.                                        *)
THEOREM GateInvariance == Spec => []GateInv
BY InitGateInv, NextGateInv, PTL DEF Spec

(* A release that races a cancellation, and a caller that bails, neither   *)
(* lose nor duplicate a slot: a lane's activeCount is the number of its    *)
(* tasks that own one.                                                     *)
THEOREM SlotsAreConserved == Spec => []SlotsConserved
<1>1. GateInv => SlotsConserved
  BY DEF GateInv
<1> QED BY <1>1, GateInvariance, PTL

(* A lane runs at most its configured number of generations at once.       *)
THEOREM LaneCapacityHolds == Spec => []LaneCapacity
<1>1. GateInv => LaneCapacity
  BY DEF GateInv
<1> QED BY <1>1, GateInvariance, PTL

(* acquire's fast path and release's hand-over together never leave a      *)
(* waiter suspended beside a free slot.                                    *)
THEOREM NobodyWaitsForAFreeSlot == Spec => []WaitsOnlyWhenFull
<1>1. GateInv => WaitsOnlyWhenFull
  BY DEF GateInv
<1> QED BY <1>1, GateInvariance, PTL

(* A released slot goes to the waiter that has waited longest: nobody who  *)
(* goes on waiting in the lane was ahead of a task that gets a slot.       *)
THEOREM ServedInOrder == Spec => FirstComeFirstServed
BY InitGateInv, NextGateInv, StepServesInOrder, PTL DEF Spec, FirstComeFirstServed

(* The type invariant of the gate. *)
THEOREM GateTypes == Spec => []GateTypeOK
<1>1. GateInv => GateTypeOK
  BY DEF GateInv
<1> QED BY <1>1, GateInvariance, PTL

(* The queue of a lane is exactly its suspended waiters, in order and      *)
(* without repetition, so no continuation is resumed twice or forgotten.   *)
THEOREM QueueStaysExact == Spec => []QueueIsExact
<1>1. GateInv => QueueIsExact
  BY DEF GateInv
<1> QED BY <1>1, GateInvariance, PTL
===============================================================================
