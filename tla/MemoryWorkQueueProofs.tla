----------------------- MODULE MemoryWorkQueueProofs -----------------------
(* Proofs about MemoryWorkQueue, for any workers, items, tenants and policy. *)
EXTENDS MemoryWorkQueue, QueuePolicyProofs, FiniteSetLemmas, TLAPS

-----------------------------------------------------------------------------
(* The strengthening.  That a claim takes an item that is due rests on the   *)
(* rotation's and the ordering's picking one: the stored items are finitely  *)
(* many and no two were enqueued at the same position.                       *)

StoredItems == {i \in Items : Stored(i)}

Placement ==
  /\ IsFiniteSet(StoredItems)
  /\ \A i \in StoredItems : seq[i] \in 1..sequence
  /\ \A i, j \in StoredItems : seq[i] = seq[j] => i = j

\* A record that is claimed says until when, which is not later than renewals
\* or the lease it was claimed under reach; one that is not names nobody.
Accounted(item) ==
  /\ Held(item) =>
       /\ item.lease_expires_at \in Nat
       /\ \/ item.lease_expires_at < HeldSince(item) + MaxLeaseSeconds + LeaseSeconds
          \/ item.lease_expires_at \in {HeldSince(item) + lease : lease \in AskedLeases}
  /\ ~Held(item) => item.worker = None

Accounts == \A i \in Items : Stored(i) => Accounted(items[i])

MemoryInv == TypeOK /\ Placement /\ Accounts

LEMMA InitInv == Init => MemoryInv
<1> SUFFICES ASSUME Init PROVE MemoryInv
  OBVIOUS
<1>1. StoredItems = {}
  BY DEF Init, StoredItems, Stored
<1>2. TypeOK /\ Accounts
  BY ItemAssumption DEF Init, TypeOK, Accounts, Stored
<1> QED
  BY <1>1, <1>2, FS_EmptySet DEF Placement, MemoryInv

-----------------------------------------------------------------------------
(* What a claim takes.                                                       *)

LEMMA TenantInTurn ==
  ASSUME MemoryInv, Due # {}
  PROVE  NextTurn \in Nat /\ \E t \in DueTenants : t = InOrder(DueTenants, NextTurn)
<1>1. IsFiniteSet(Due)
  <2>1. Due \in SUBSET StoredItems
    BY DEF Due, StoredItems, Is
  <2> QED
    BY <2>1, FS_Subset DEF MemoryInv, Placement
<1>2. IsFiniteSet(DueTenants)
  <2> DEFINE tenant == [i \in Due |-> TenantOf[i]]
  <2>1. tenant \in Surjection(Due, DueTenants)
    BY DEF Surjection, DueTenants
  <2> QED
    BY <1>1, <2>1, FS_Surjection
<1>3. DueTenants \in SUBSET Nat /\ DueTenants # {}
  BY ItemAssumption DEF DueTenants, Due
<1>4. Cardinality(DueTenants) \in Nat \ {0}
  BY <1>2, <1>3, FS_CardinalityType, FS_EmptySet
<1>5. NextTurn \in Nat /\ NextTurn < Cardinality(DueTenants)
  <2>1. \A n \in Nat \ {0} : (turn + 1) % n \in Nat /\ (turn + 1) % n < n
    BY DEF MemoryInv, TypeOK
  <2> QED
    BY <1>4, <2>1 DEF NextTurn
<1>6. \E t \in DueTenants : Cardinality({u \in DueTenants : u < t}) = NextTurn
  BY <1>2, <1>3, <1>5, RankedElement
<1> QED
  BY <1>5, <1>6 DEF InOrder

LEMMA ItemInTurn == ASSUME MemoryInv, Due # {} PROVE NextInTurn \in Due
<1> DEFINE theirs == {i \in Due : TenantOf[i] = InOrder(DueTenants, NextTurn)}
           before == {p \in theirs \X theirs : Before(p[1], p[2])}
<1>1. theirs # {}
  BY TenantInTurn DEF DueTenants
<1>2. IsFiniteSet(theirs)
  <2>1. theirs \in SUBSET StoredItems
    BY DEF Due, StoredItems, Is
  <2> QED
    BY <2>1, FS_Subset DEF MemoryInv, Placement
<1>3. \A i \in theirs : i \in StoredItems /\ seq[i] \in Nat /\ PriorityOf[i] \in Nat
  BY ItemAssumption DEF Due, StoredItems, Is, MemoryInv, TypeOK
<1>4. \A i, j \in theirs : i # j => <<i, j>> \in before \/ <<j, i>> \in before
  BY <1>3 DEF Before, MemoryInv, Placement
<1>5. \A i, j, k \in theirs : <<i, j>> \in before /\ <<j, k>> \in before => <<i, k>> \in before
  BY <1>3 DEF Before
<1> HIDE DEF theirs, before
<1>6. \E i \in theirs : \A j \in theirs \ {i} : <<i, j>> \in before
  BY <1>1, <1>2, <1>4, <1>5, FirstElement
<1>7. \E i \in theirs : \A j \in theirs \ {i} : Before(i, j)
  BY <1>6 DEF before
<1>8. Best(theirs) \in theirs
  BY <1>7 DEF Best
<1> QED
  BY <1>8 DEF NextInTurn, theirs

-----------------------------------------------------------------------------
(* The steps.                                                                *)

\* Steps that store no new item.
LEMMA Rewriting ==
  ASSUME MemoryInv, NEW S \in SUBSET Items, \A i \in S : Stored(i),
         \A i \in S : items'[i] \in WorkItem /\ Accounted(items'[i]),
         items' \in [Items -> WorkItem \cup {None}],
         \A i \in Items \ S : items'[i] = items[i],
         UNCHANGED <<now, seq, sequence>>,
         deduped' \in [Slot -> Items \cup {None}], turn' \in Nat
  PROVE  MemoryInv'
<1>1. TypeOK'
  BY DEF MemoryInv, TypeOK
<1>2. \A i \in Items : Stored(i)' <=> Stored(i)
  BY NoneIsNoItem DEF Stored
<1>3. StoredItems' = StoredItems
  BY <1>2 DEF StoredItems
<1>4. Placement'
  BY <1>3 DEF MemoryInv, Placement
<1>5. Accounts'
  BY <1>2 DEF MemoryInv, Accounts, Stored
<1> QED
  BY <1>1, <1>4, <1>5 DEF MemoryInv

LEMMA EnqueueInv == ASSUME MemoryInv, NEW i \in Items, NEW offer \in Offers, Enqueue(i, offer)
  PROVE  MemoryInv'
<1> DEFINE blob == Placed(offer, now)
<1>0. now \in Nat
  BY ItemAssumption DEF MemoryInv, TypeOK
<1>1. blob \in WorkItem /\ blob # None /\ Accounted(blob)
  BY <1>0, PlacedType, NoneIsNoItem DEF Accounted, Held
<1> HIDE DEF blob
<1>e. items' = [items EXCEPT ![i] = blob]
  BY DEF Enqueue, blob
<1>2. /\ items'[i] = blob /\ seq'[i] = sequence + 1 /\ sequence' = sequence + 1
      /\ \A j \in Items \ {i} : items'[j] = items[j] /\ seq'[j] = seq[j]
  BY <1>e DEF Enqueue, MemoryInv, TypeOK
<1>3. TypeOK'
  <2>1. deduped' \in [Slot -> Items \cup {None}]
    BY DEF Enqueue, MemoryInv, TypeOK
  <2>2. sequence' \in 0..MaxEnqueues
    BY ItemAssumption DEF Enqueue, MemoryInv, TypeOK
  <2> QED
    BY <1>1, <1>e, <2>1, <2>2 DEF Enqueue, MemoryInv, TypeOK
<1>4. StoredItems' = StoredItems \cup {i}
  BY <1>1, <1>2 DEF StoredItems, Stored
<1>5. Placement'
  <2>1. IsFiniteSet(StoredItems')
    BY <1>4, FS_AddElement DEF MemoryInv, Placement
  <2>2. sequence \in Nat /\ sequence' = sequence + 1
    BY <1>2 DEF MemoryInv, TypeOK
  <2>3. \A j \in StoredItems \ {i} : seq'[j] \in 1..sequence
    BY <1>2 DEF MemoryInv, Placement, StoredItems
  <2>4. seq'[i] = sequence + 1
    BY <1>2
  <2>5. \A j \in StoredItems' : seq'[j] \in 1..sequence'
    BY <1>4, <2>2, <2>3, <2>4
  <2>6. \A j, k \in StoredItems \ {i} : seq'[j] = seq'[k] => j = k
    BY <1>2 DEF MemoryInv, Placement, StoredItems
  <2>7. \A j, k \in StoredItems' : seq'[j] = seq'[k] => j = k
    BY <1>4, <2>2, <2>3, <2>4, <2>6
  <2> QED
    BY <2>1, <2>5, <2>7 DEF Placement
<1>6. Accounts'
  BY <1>1, <1>2 DEF MemoryInv, Accounts, Stored
<1> QED
  BY <1>3, <1>5, <1>6 DEF MemoryInv

LEMMA ClaimInv ==
  ASSUME MemoryInv, NEW w \in Workers, NEW lease \in Leases, Claim(w, lease)
  PROVE  MemoryInv'
<1> DEFINE i == NextInTurn
           claimed == Claimed(items[i], w, now, lease)
<1>1. i \in Items /\ items[i] \in WorkItem /\ Stored(i)
  BY ItemInTurn DEF Claim, Due, Is, Stored, MemoryInv, TypeOK
<1>2. now \in Nat
  BY ItemAssumption DEF MemoryInv, TypeOK
<1>3. /\ claimed \in WorkItem /\ Held(claimed) /\ claimed.lease_expires_at \in Nat
      /\ claimed.lease_expires_at = now + lease /\ claimed.first_claimed_at = now
  BY <1>1, <1>2, ClaimedType
<1>4. items' = [items EXCEPT ![i] = claimed]
  BY DEF Claim
<1> HIDE DEF i, claimed
<1>5. Accounted(claimed)
  <2>1. HeldSince(claimed) = now
    BY <1>2, <1>3, NoneAssumption DEF HeldSince
  <2>2. CASE lease = LeaseSeconds
    BY <1>2, <1>3, <2>1, <2>2, PolicyAssumption DEF Accounted
  <2>3. CASE lease \in AskedLeases
    BY <1>3, <2>1, <2>3 DEF Accounted
  <2> QED
    BY <2>2, <2>3 DEF Leases
<1>6. /\ items'[i] = claimed /\ \A j \in Items \ {i} : items'[j] = items[j]
      /\ items' \in [Items -> WorkItem \cup {None}]
  BY <1>1, <1>3, <1>4 DEF MemoryInv, TypeOK
<1>7. turn' \in Nat /\ UNCHANGED <<now, seq, sequence, deduped>>
  BY TenantInTurn DEF Claim
<1>8. {i} \in SUBSET Items /\ deduped' \in [Slot -> Items \cup {None}]
  BY <1>1, <1>7 DEF MemoryInv, TypeOK
<1> QED
  BY <1>1, <1>3, <1>5, <1>6, <1>7, <1>8, Rewriting

\* One held item gets a new record, from a worker that holds it.
LEMMA HolderWrites ==
  ASSUME MemoryInv, NEW i \in Items, NEW blob \in WorkItem, Stored(i), Accounted(blob),
         items' = [items EXCEPT ![i] = blob],
         UNCHANGED <<now, seq, sequence, turn>>,
         deduped' \in [Slot -> Items \cup {None}]
  PROVE  MemoryInv'
<1>1. /\ items'[i] = blob /\ \A j \in Items \ {i} : items'[j] = items[j]
      /\ items' \in [Items -> WorkItem \cup {None}] /\ turn' \in Nat
  BY DEF MemoryInv, TypeOK
<1>2. {i} \in SUBSET Items
  OBVIOUS
<1> QED
  BY <1>1, <1>2, Rewriting

LEMMA HeldIsStored ==
  ASSUME MemoryInv, NEW i \in Items, NEW w, Holding(i, w)
  PROVE  /\ Stored(i) /\ items[i] \in WorkItem /\ Held(items[i]) /\ items[i].worker = w
         /\ now \in Nat
BY ItemAssumption DEF Holding, Is, Stored, Held, MemoryInv, TypeOK

LEMMA HeartbeatInv ==
  ASSUME MemoryInv, NEW i \in Items, NEW w \in Workers, Heartbeat(i, w) PROVE MemoryInv'
<1> DEFINE blob == Renewed(items[i], now)
<1>1. Stored(i) /\ items[i] \in WorkItem /\ Held(items[i]) /\ now \in Nat
  BY HeldIsStored DEF Heartbeat
<1>2. /\ blob \in WorkItem /\ blob.state = items[i].state
      /\ blob.lease_expires_at = now + LeaseSeconds
      /\ blob.first_claimed_at = items[i].first_claimed_at
  BY <1>1, RenewedType
<1>3. items' = [items EXCEPT ![i] = blob] /\ UNCHANGED <<now, seq, sequence, deduped, turn>>
  BY DEF Heartbeat
<1>4. HeldSince(items[i]) \in Nat /\ now - HeldSince(items[i]) < MaxLeaseSeconds
  BY <1>1, PolicyAssumption DEF Heartbeat, Overheld, HeldSince, WorkItem
<1> HIDE DEF blob
<1>5. HeldSince(blob) = HeldSince(items[i]) /\ Held(blob)
  BY <1>1, <1>2 DEF HeldSince, Held
<1>6. Accounted(blob)
  BY <1>1, <1>2, <1>4, <1>5, PolicyAssumption DEF Accounted
<1>7. deduped' \in [Slot -> Items \cup {None}]
  BY <1>3 DEF MemoryInv, TypeOK
<1> QED
  BY <1>1, <1>2, <1>3, <1>6, <1>7, HolderWrites

LEMMA CompleteInv ==
  ASSUME MemoryInv, NEW i \in Items, NEW w \in Workers, Complete(i, w) PROVE MemoryInv'
<1>1. Stored(i) /\ items[i] \in WorkItem
  BY HeldIsStored DEF Complete
<1>2. Completed(items[i]) \in WorkItem /\ Accounted(Completed(items[i]))
  BY <1>1, CompletedType DEF Accounted
<1>3. deduped' \in [Slot -> Items \cup {None}]
  BY DEF Complete, MemoryInv, TypeOK
<1> QED
  BY <1>1, <1>2, <1>3, HolderWrites DEF Complete

LEMMA FailInv ==
  ASSUME MemoryInv, NEW i \in Items, NEW w \in Workers, NEW retryable \in BOOLEAN,
         Fail(i, w, retryable)
  PROVE  MemoryInv'
<1>1. Stored(i) /\ items[i] \in WorkItem /\ now \in Nat
  BY HeldIsStored DEF Fail
<1>2. /\ Returned(items[i], now, retryable, TRUE) \in WorkItem
      /\ Accounted(Returned(items[i], now, retryable, TRUE))
  BY <1>1, ReturnedType DEF Accounted
<1>3. deduped' \in [Slot -> Items \cup {None}]
  BY DEF Fail, MemoryInv, TypeOK
<1> QED
  BY <1>1, <1>2, <1>3, HolderWrites DEF Fail

LEMMA GiveBackInv ==
  ASSUME MemoryInv, NEW S \in SUBSET Items, \A i \in S : Stored(i), NEW backoff \in BOOLEAN,
         GiveBack(S, backoff)
  PROVE  MemoryInv'
<1>1. \A i \in S : items[i] \in WorkItem /\ now \in Nat
  BY ItemAssumption DEF Stored, MemoryInv, TypeOK
<1>2. \A i \in S : /\ Returned(items[i], now, TRUE, backoff) \in WorkItem
                   /\ Accounted(Returned(items[i], now, TRUE, backoff))
  BY <1>1, ReturnedType DEF Accounted
<1>3. \A i \in S : items'[i] = Returned(items[i], now, TRUE, backoff)
  BY DEF GiveBack
<1>4. \A i \in Items \ S : items'[i] = items[i]
  BY DEF GiveBack
<1>5. items' \in [Items -> WorkItem \cup {None}]
  <2>1. items' = [i \in Items |-> items'[i]]
    BY DEF GiveBack
  <2> QED
    BY <1>2, <1>3, <1>4, <2>1 DEF MemoryInv, TypeOK
<1>6. /\ UNCHANGED <<now, seq, sequence, deduped, turn>>
      /\ deduped' \in [Slot -> Items \cup {None}] /\ turn' \in Nat
  BY DEF GiveBack, MemoryInv, TypeOK
<1> QED
  BY <1>2, <1>3, <1>4, <1>5, <1>6, Rewriting

LEMMA NextInv == MemoryInv /\ [Next]_vars => MemoryInv'
<1> SUFFICES ASSUME MemoryInv, [Next]_vars PROVE MemoryInv'
  OBVIOUS
<1>1. ASSUME NEW w \in Workers, Adopt(w) PROVE MemoryInv'
  BY <1>1, GiveBackInv DEF Adopt, Is
<1>2. CASE Reap
  BY <1>2, GiveBackInv DEF Reap
<1>3. CASE Tick
  BY <1>3, ItemAssumption DEF Tick, MemoryInv, TypeOK, Placement, StoredItems, Stored, Accounts
<1>4. CASE UNCHANGED vars
  BY <1>4 DEF vars, MemoryInv, TypeOK, Placement, StoredItems, Stored, Accounts
<1> QED
  BY <1>1, <1>2, <1>3, <1>4, EnqueueInv, ClaimInv, HeartbeatInv, CompleteInv, FailInv DEF Next

LEMMA Invariance == Spec => []MemoryInv
BY InitInv, NextInv, PTL DEF Spec

\* Every variable stays within its type.
THEOREM MemoryTyped == Spec => []TypeOK
<1>1. MemoryInv => TypeOK
  BY DEF MemoryInv
<1> QED
  BY <1>1, Invariance, PTL

\* However a worker heartbeats, no claim is renewed past max_lease_seconds.
THEOREM HoldsAreBounded == Spec => []BoundedHold
<1>1. MemoryInv => BoundedHold
  BY DEF MemoryInv, Accounts, Accounted, BoundedHold, Is, Held
<1> QED
  BY <1>1, Invariance, PTL

-----------------------------------------------------------------------------
(* The refinement: every step is a step of the protocol, or changes nothing  *)
(* the protocol speaks of.                                                   *)

\* The protocol's view of one item.
Status(i) == IF Stored(i) THEN items[i].state ELSE "absent"
Holder(i) == IF Stored(i) THEN items[i].worker ELSE None
Tried(i) == IF Stored(i) THEN items[i].attempts ELSE 0

\* A step that writes no record but those of S.
Elsewhere(S) == \A i \in Items \ S : items'[i] = items[i]

LEMMA ViewElsewhere ==
  ASSUME NEW S \in SUBSET Items, Elsewhere(S), NEW i \in Items \ S
  PROVE  /\ Status(i)' = Status(i) /\ Holder(i)' = Holder(i) /\ Tried(i)' = Tried(i)
BY DEF Elsewhere, Status, Holder, Tried, Stored

LEMMA InitRefines == Init => Abstract!Init
BY DEF Init, Abstract!Init, Stored

\* One held item is given back.
LEMMA OneGivenBack ==
  ASSUME MemoryInv, NEW i \in Items, NEW w, Holding(i, w), NEW retryable \in BOOLEAN,
         Fail(i, w, retryable)
  PROVE  Abstract!Next
<1> DEFINE blob == Returned(items[i], now, retryable, TRUE)
<1>1. /\ Stored(i) /\ items[i] \in WorkItem /\ Held(items[i]) /\ now \in Nat
  BY HeldIsStored
<1>2. /\ blob \in WorkItem /\ blob.worker = None
      /\ blob.attempts = items[i].attempts + 1
  BY <1>1, ReturnedType, Zenon
<1>a. ASSUME retryable = TRUE
      PROVE  blob.state = IF items[i].attempts + 1 < MaxAttempts THEN "queued"
                                                              ELSE "dead_lettered"
  <2>1. blob = Returned(items[i], now, TRUE, TRUE)
    BY <1>a
  <2> HIDE DEF blob
  <2>2. ASSUME items[i].attempts + 1 < MaxAttempts PROVE blob.state = "queued"
    BY <1>1, <2>1, <2>2, QueuedAgain, Zenon
  <2>3. ASSUME ~(items[i].attempts + 1 < MaxAttempts) PROVE blob.state = "dead_lettered"
    BY <1>1, <2>1, <2>3, BuriedWhenSpent, Zenon
  <2> QED
    BY <2>2, <2>3
<1>b. ASSUME retryable = FALSE
      PROVE  blob.state = "dead_lettered"
  <2>1. blob = Returned(items[i], now, FALSE, TRUE)
    BY <1>b
  <2> HIDE DEF blob
  <2> QED
    BY <1>1, <2>1, BuriedOutright, Zenon
<1>3. items' = [items EXCEPT ![i] = blob]
  BY DEF Fail
<1> HIDE DEF blob
<1>4. items'[i] = blob /\ blob # None /\ Elsewhere({i})
  BY <1>2, <1>3, NoneIsNoItem DEF MemoryInv, TypeOK, Elsewhere
<1>5. /\ Status(i) = "claimed" /\ Tried(i) = items[i].attempts
      /\ Status(i)' = blob.state /\ Holder(i)' = None /\ Tried(i)' = Tried(i) + 1
  BY <1>1, <1>2, <1>4 DEF Status, Holder, Tried, Stored, Held
<1>6. \A j \in Items \ {i} : /\ Status(j)' = Status(j) /\ Holder(j)' = Holder(j)
                             /\ Tried(j)' = Tried(j)
  BY <1>4, ViewElsewhere
<1>7. CASE retryable
  <2>1. Status(i)' = IF Tried(i) + 1 < MaxAttempts THEN "queued" ELSE "dead_lettered"
    BY <1>a, <1>5, <1>7
  <2>2. Abstract!GiveBack({i})
    BY <1>5, <1>6, <2>1 DEF Abstract!GiveBack, Status, Holder, Tried
  <2>3. {i} \in SUBSET Items
    OBVIOUS
  <2> QED
    BY <2>2, <2>3 DEF Abstract!Next
<1>8. CASE ~retryable
  <2>1. Abstract!Bury(i)
    BY <1>b, <1>5, <1>6, <1>8 DEF Abstract!Bury, Status, Holder, Tried
  <2> QED
    BY <2>1 DEF Abstract!Next
<1> QED
  BY <1>7, <1>8

LEMMA SomeGivenBack ==
  ASSUME MemoryInv, NEW S \in SUBSET Items, \A i \in S : Is(i, "claimed"), NEW backoff \in BOOLEAN,
         GiveBack(S, backoff)
  PROVE  Abstract!Next
<1>1. ASSUME NEW i \in S
      PROVE  /\ Stored(i) /\ items[i] \in WorkItem /\ now \in Nat
             /\ items'[i] = Returned(items[i], now, TRUE, backoff)
  <2>1. Stored(i) /\ i \in Items
    BY DEF Is
  <2>2. items[i] \in WorkItem /\ now \in Nat
    BY <2>1, ItemAssumption DEF Stored, MemoryInv, TypeOK
  <2>3. items'[i] = Returned(items[i], now, TRUE, backoff)
    BY DEF GiveBack
  <2> QED
    BY <2>1, <2>2, <2>3
<1>2. Elsewhere(S)
  BY DEF GiveBack, Elsewhere
<1>3. ASSUME NEW i \in S
      PROVE  /\ Status(i) = "claimed" /\ Holder(i)' = None /\ Tried(i)' = Tried(i) + 1
             /\ Status(i)' = IF Tried(i) + 1 < MaxAttempts THEN "queued" ELSE "dead_lettered"
  <2>1. /\ items'[i] \in WorkItem /\ items'[i] # None /\ items'[i].worker = None
        /\ items'[i].attempts = items[i].attempts + 1
        /\ items'[i].state = IF items[i].attempts + 1 < MaxAttempts THEN "queued"
                                                                   ELSE "dead_lettered"
    <3> DEFINE blob == Returned(items[i], now, TRUE, backoff)
    <3>1. /\ blob \in WorkItem /\ blob.worker = None
          /\ blob.attempts = items[i].attempts + 1
      BY <1>1, ReturnedType, Zenon
    <3>a. ASSUME items[i].attempts + 1 < MaxAttempts PROVE blob.state = "queued"
      BY <1>1, <3>a, QueuedAgain, Zenon
    <3>b. ASSUME ~(items[i].attempts + 1 < MaxAttempts) PROVE blob.state = "dead_lettered"
      BY <1>1, <3>b, BuriedWhenSpent, Zenon
    <3>c. items'[i] = blob
      BY <1>1
    <3> HIDE DEF blob
    <3>2. CASE items[i].attempts + 1 < MaxAttempts
      BY <1>1, <3>1, <3>a, <3>c, <3>2, NoneIsNoItem
    <3>3. CASE ~(items[i].attempts + 1 < MaxAttempts)
      BY <1>1, <3>1, <3>b, <3>c, <3>3, NoneIsNoItem
    <3> QED
      BY <3>2, <3>3
  <2> QED
    BY <1>1, <2>1 DEF Status, Holder, Tried, Stored, Is
<1>4. \A i \in Items \ S : /\ Status(i)' = Status(i) /\ Holder(i)' = Holder(i)
                           /\ Tried(i)' = Tried(i)
  BY <1>2, ViewElsewhere
<1>5. Abstract!GiveBack(S)
  <2>1. \A i \in Items : Status(i)' = IF i \notin S THEN Status(i)
                                      ELSE IF Tried(i) + 1 < MaxAttempts THEN "queued"
                                      ELSE "dead_lettered"
    BY <1>3, <1>4
  <2>2. \A i \in Items : /\ Holder(i)' = IF i \in S THEN None ELSE Holder(i)
                         /\ Tried(i)' = IF i \in S THEN Tried(i) + 1 ELSE Tried(i)
    BY <1>3, <1>4
  <2> QED
    BY <1>3, <2>1, <2>2 DEF Abstract!GiveBack, Status, Holder, Tried
<1> QED
  BY <1>5 DEF Abstract!Next

LEMMA StepRefines == MemoryInv /\ [Next]_vars => [Abstract!Next]_(Abstract!vars)
<1> SUFFICES ASSUME MemoryInv, [Next]_vars PROVE Abstract!Next \/ UNCHANGED Abstract!vars
  OBVIOUS
<1>0. ASSUME \A i \in Items : /\ Status(i)' = Status(i) /\ Holder(i)' = Holder(i)
                              /\ Tried(i)' = Tried(i)
      PROVE  UNCHANGED Abstract!vars
  BY <1>0 DEF Abstract!vars, Status, Holder, Tried
<1>1. ASSUME NEW i \in Items, NEW offer \in Offers, Enqueue(i, offer) PROVE Abstract!Next
  <2> DEFINE blob == Placed(offer, now)
             n == offer.attempts
  <2>1. items'[i] = blob /\ Elsewhere({i})
    BY <1>1 DEF Enqueue, Elsewhere, MemoryInv, TypeOK
  <2>2. blob.state = "queued" /\ blob.worker = None /\ blob.attempts = n /\ blob # None
    BY PlacedType, NoneIsNoItem, ItemAssumption DEF MemoryInv, TypeOK
  <2> HIDE DEF blob
  <2>3. /\ Status(i)' = "queued" /\ Holder(i)' = None /\ Tried(i)' = n
    BY <2>1, <2>2 DEF Status, Holder, Tried, Stored
  <2>4. Status(i) \in {"absent", "completed", "dead_lettered"} /\ Holder(i) = None
    BY <1>1 DEF Enqueue, Live, Terminal, Status, Holder, Stored, MemoryInv, Accounts,
                Accounted, Held
  <2>5. \A j \in Items \ {i} : /\ Status(j)' = Status(j) /\ Holder(j)' = Holder(j)
                               /\ Tried(j)' = Tried(j)
    BY <2>1, ViewElsewhere
  <2>6. Abstract!Enqueue(i, n)
    BY <2>3, <2>4, <2>5 DEF Abstract!Enqueue, Status, Holder, Tried
  <2> QED
    BY <2>6 DEF Abstract!Next
<1>2. ASSUME NEW w \in Workers, NEW lease \in Leases, Claim(w, lease) PROVE Abstract!Next
  <2>0. PICK i \in Due : i = NextInTurn
    BY <1>2, ItemInTurn DEF Claim
  <2>1. i \in Items /\ items[i] \in WorkItem /\ Stored(i) /\ items[i].state = "queued"
    BY DEF Due, Is, Stored, MemoryInv, TypeOK
  <2> DEFINE blob == Claimed(items[i], w, now, lease)
  <2>2. items' = [items EXCEPT ![i] = blob]
    BY <1>2, <2>0 DEF Claim
  <2>n. now \in Nat
    BY ItemAssumption DEF MemoryInv, TypeOK
  <2>3. /\ Held(blob) /\ blob.worker = w /\ blob.attempts = items[i].attempts
        /\ blob # None
    <3>1. blob \in WorkItem /\ Held(blob) /\ blob.worker = w /\ blob.attempts = items[i].attempts
      BY <2>1, <2>n, ClaimedType
    <3> QED
      BY <3>1, NoneIsNoItem
  <2> HIDE DEF blob
  <2>4. items'[i] = blob /\ Elsewhere({i})
    BY <2>1, <2>2 DEF Elsewhere, MemoryInv, TypeOK
  <2>5. /\ Status(i) = "queued" /\ Status(i)' = "claimed" /\ Holder(i)' = w
        /\ Tried(i)' = Tried(i)
    BY <2>1, <2>3, <2>4 DEF Status, Holder, Tried, Stored, Held
  <2>6. \A j \in Items \ {i} : /\ Status(j)' = Status(j) /\ Holder(j)' = Holder(j)
                               /\ Tried(j)' = Tried(j)
    BY <2>1, <2>4, ViewElsewhere
  <2>7. Abstract!Claim(i, w)
    BY <2>1, <2>5, <2>6 DEF Abstract!Claim, Status, Holder, Tried
  <2> QED
    BY <2>1, <2>7 DEF Abstract!Next
<1>3. ASSUME NEW i \in Items, NEW w \in Workers, Heartbeat(i, w) PROVE UNCHANGED Abstract!vars
  <2>1. Stored(i) /\ items[i] \in WorkItem /\ now \in Nat
    BY <1>3, HeldIsStored DEF Heartbeat
  <2>2. /\ Renewed(items[i], now).state = items[i].state
        /\ Renewed(items[i], now).worker = items[i].worker
        /\ Renewed(items[i], now).attempts = items[i].attempts
        /\ Renewed(items[i], now) # None
    BY <2>1, RenewedType, NoneIsNoItem
  <2>3. items'[i] = Renewed(items[i], now) /\ Elsewhere({i})
    BY <1>3 DEF Heartbeat, Elsewhere, MemoryInv, TypeOK
  <2>4. Status(i)' = Status(i) /\ Holder(i)' = Holder(i) /\ Tried(i)' = Tried(i)
    BY <2>1, <2>2, <2>3 DEF Status, Holder, Tried, Stored
  <2> QED
    BY <1>0, <2>3, <2>4, ViewElsewhere
<1>4. ASSUME NEW i \in Items, NEW w \in Workers, Complete(i, w) PROVE Abstract!Next
  <2>1. Stored(i) /\ items[i] \in WorkItem /\ Held(items[i])
    BY <1>4, HeldIsStored DEF Complete
  <2>2. /\ Completed(items[i]).state = "completed" /\ Completed(items[i]).worker = None
        /\ Completed(items[i]).attempts = items[i].attempts
        /\ Completed(items[i]) # None
    BY <2>1, CompletedType, NoneIsNoItem
  <2>3. items'[i] = Completed(items[i]) /\ Elsewhere({i})
    BY <1>4 DEF Complete, Elsewhere, MemoryInv, TypeOK
  <2>4. /\ Status(i) = "claimed" /\ Status(i)' = "completed" /\ Holder(i)' = None
        /\ Tried(i)' = Tried(i)
    BY <2>1, <2>2, <2>3 DEF Status, Holder, Tried, Stored, Held
  <2>5. \A j \in Items \ {i} : /\ Status(j)' = Status(j) /\ Holder(j)' = Holder(j)
                               /\ Tried(j)' = Tried(j)
    BY <2>3, ViewElsewhere
  <2>6. Abstract!Complete(i)
    BY <2>4, <2>5 DEF Abstract!Complete, Status, Holder, Tried
  <2> QED
    BY <2>6 DEF Abstract!Next
<1>5. ASSUME NEW i \in Items, NEW w \in Workers, NEW retryable \in BOOLEAN,
             Fail(i, w, retryable)
      PROVE  Abstract!Next
  BY <1>5, OneGivenBack DEF Fail
<1>6. ASSUME NEW w \in Workers, Adopt(w) PROVE Abstract!Next
  BY <1>6, SomeGivenBack DEF Adopt
<1>7. CASE Reap
  BY <1>7, SomeGivenBack DEF Reap, Is, LapsedAt, Held
<1>8. CASE Tick \/ UNCHANGED vars
  BY <1>0, <1>8 DEF Tick, vars, Status, Holder, Tried, Stored
<1> QED
  BY <1>1, <1>2, <1>3, <1>4, <1>5, <1>6, <1>7, <1>8 DEF Next

\* The store keeps the protocol's promise about every item: nobody takes an item
\* that is held, only a held item is finished or given back, and giving back
\* costs one attempt.
THEOREM MemoryKeepsThePromise == Spec => KeepsThePromise
<1>1. Spec => Abstract!Spec
  BY InitRefines, StepRefines, Invariance, PTL DEF Spec, Abstract!Spec
<1> QED
  BY <1>1 DEF KeepsThePromise
=============================================================================
