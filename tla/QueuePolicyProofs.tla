------------------------- MODULE QueuePolicyProofs -------------------------
(* What the operators of QueuePolicy return: work items, and nobody's once  *)
(* they are given up.  Every store's proofs rest on these.                  *)
EXTENDS QueuePolicy, TLAPS

LEMMA BackoffType == \A n \in Nat : BackoffFor(n) \in Nat
<1> TAKE n \in Nat
<1> DEFINE doubled == BackoffSeconds * 2^(n - 1)
<1>1. (IF doubled \in 0 .. BackoffCap THEN doubled ELSE BackoffCap) \in Nat
  <2> HIDE DEF doubled
  <2> QED
    BY PolicyAssumption
<1> QED
  BY <1>1 DEF BackoffFor

LEMMA AttemptsAreCounted ==
  ASSUME NEW b \in WorkItem
  PROVE  b.attempts \in Nat /\ MaxAttempts \in Nat
  BY PolicyAssumption DEF WorkItem

LEMMA PlacedType ==
  ASSUME NEW offer \in Offers, NEW t \in Nat
  PROVE  /\ Placed(offer, t) \in WorkItem
         /\ Placed(offer, t).state = "queued"
         /\ Placed(offer, t).worker = None
         /\ Placed(offer, t).attempts = offer.attempts
<1>1. /\ offer.attempts \in Nat /\ offer.available_at \in Nat
      /\ offer.first_claimed_at \in Nat \cup {None}
  BY PolicyAssumption
<1> QED
  BY <1>1 DEF Placed, WorkItem, WorkState

LEMMA LeaseType == \A lease \in Leases : lease \in Nat \ {0}
  BY PolicyAssumption DEF Leases

LEMMA ClaimedType ==
  ASSUME NEW b \in WorkItem, NEW w \in Workers, NEW t \in Nat, NEW lease \in Leases
  PROVE  /\ Claimed(b, w, t, lease) \in WorkItem
         /\ Held(Claimed(b, w, t, lease))
         /\ Claimed(b, w, t, lease).worker = w
         /\ Claimed(b, w, t, lease).lease_expires_at \in Nat
         /\ Claimed(b, w, t, lease).lease_expires_at = t + lease
         /\ Claimed(b, w, t, lease).first_claimed_at = t
         /\ Claimed(b, w, t, lease).attempts = b.attempts
<1>1. w # None
  BY NoneAssumption
<1>2. t + lease \in Nat
  BY LeaseType
<1> QED
  BY <1>1, <1>2 DEF Claimed, WorkItem, WorkState, Held

LEMMA RenewedType ==
  ASSUME NEW b \in WorkItem, NEW t \in Nat
  PROVE  /\ Renewed(b, t) \in WorkItem
         /\ Renewed(b, t).state = b.state
         /\ Renewed(b, t).worker = b.worker
         /\ Renewed(b, t).lease_expires_at \in Nat
         /\ Renewed(b, t).lease_expires_at = t + LeaseSeconds
         /\ Renewed(b, t).first_claimed_at = b.first_claimed_at
         /\ Renewed(b, t).attempts = b.attempts
  BY PolicyAssumption DEF Renewed, WorkItem, WorkState

LEMMA CompletedType ==
  ASSUME NEW b \in WorkItem
  PROVE  /\ Completed(b) \in WorkItem
         /\ ~Held(Completed(b))
         /\ Completed(b).state = "completed"
         /\ Completed(b).worker = None
         /\ Completed(b).attempts = b.attempts
  BY DEF Completed, WorkItem, WorkState, Held

LEMMA ReturnedType ==
  ASSUME NEW b \in WorkItem, NEW t \in Nat,
         NEW retryable \in BOOLEAN, NEW backoff \in BOOLEAN
  PROVE  /\ Returned(b, t, retryable, backoff) \in WorkItem
         /\ ~Held(Returned(b, t, retryable, backoff))
         /\ Returned(b, t, retryable, backoff).worker = None
         /\ Returned(b, t, retryable, backoff).attempts = b.attempts + 1
<1> DEFINE n == b.attempts + 1
           wait == IF backoff THEN BackoffFor(n) ELSE 0
<1>1. n \in Nat
  BY DEF WorkItem
<1>2. /\ t + wait \in Nat
      /\ Exhausted(n) <=> ~(n < MaxAttempts)
  BY <1>1, BackoffType, PolicyAssumption DEF Exhausted
<1>3. CASE ~retryable \/ Exhausted(n)
  <2>1. Returned(b, t, retryable, backoff) =
          [b EXCEPT !.state = "dead_lettered", !.worker = None,
                    !.lease_expires_at = None, !.attempts = n]
    BY <1>3 DEF Returned
  <2>2. /\ Returned(b, t, retryable, backoff) \in WorkItem
        /\ ~Held(Returned(b, t, retryable, backoff))
        /\ Returned(b, t, retryable, backoff).worker = None
        /\ Returned(b, t, retryable, backoff).attempts = n
        /\ Returned(b, t, retryable, backoff).state = "dead_lettered"
    <3> HIDE DEF n
    <3> QED
      BY <1>1, <2>1 DEF WorkItem, WorkState, Held
  <2> QED
    BY <1>2, <1>3, <2>2
<1>4. CASE ~(~retryable \/ Exhausted(n))
  <2>1. Returned(b, t, retryable, backoff) =
          [b EXCEPT !.state = "queued", !.worker = None,
                    !.lease_expires_at = None, !.first_claimed_at = None,
                    !.available_at = t + wait, !.attempts = n]
    BY <1>4 DEF Returned
  <2>2. /\ Returned(b, t, retryable, backoff) \in WorkItem
        /\ ~Held(Returned(b, t, retryable, backoff))
        /\ Returned(b, t, retryable, backoff).worker = None
        /\ Returned(b, t, retryable, backoff).attempts = n
        /\ Returned(b, t, retryable, backoff).state = "queued"
    <3> HIDE DEF wait, n
    <3> QED
      BY <1>1, <1>2, <2>1 DEF WorkItem, WorkState, Held
  <2> QED
    BY <1>2, <1>4, <2>2
<1> QED
  BY <1>3, <1>4

LEMMA QueuedAgain ==
  ASSUME NEW b \in WorkItem, NEW t \in Nat, NEW backoff \in BOOLEAN,
         b.attempts + 1 < MaxAttempts
  PROVE  Returned(b, t, TRUE, backoff).state = "queued"
<1>1. ~Exhausted(b.attempts + 1)
  BY AttemptsAreCounted DEF Exhausted
<1> QED
  BY <1>1 DEF Returned, WorkItem

LEMMA BuriedWhenSpent ==
  ASSUME NEW b \in WorkItem, NEW t \in Nat, NEW backoff \in BOOLEAN,
         ~(b.attempts + 1 < MaxAttempts)
  PROVE  Returned(b, t, TRUE, backoff).state = "dead_lettered"
<1>1. Exhausted(b.attempts + 1)
  BY AttemptsAreCounted DEF Exhausted
<1> QED
  BY <1>1 DEF Returned, WorkItem

LEMMA BuriedOutright ==
  ASSUME NEW b \in WorkItem, NEW t \in Nat, NEW backoff \in BOOLEAN
  PROVE  Returned(b, t, FALSE, backoff).state = "dead_lettered"
  BY DEF Returned, WorkItem

\* One attempt worse off, and queued again only where one is left.
LEMMA GivenBack ==
  ASSUME NEW b \in WorkItem, NEW t \in Nat, NEW retryable \in BOOLEAN, NEW backoff \in BOOLEAN
  PROVE  /\ Returned(b, t, retryable, backoff) \in WorkItem
         /\ Returned(b, t, retryable, backoff).state \notin {"claimed", "completed"}
         /\ Returned(b, t, retryable, backoff).attempts = b.attempts + 1
         /\ Returned(b, t, retryable, backoff).state = "queued" => b.attempts + 1 < MaxAttempts
<1> DEFINE blob == Returned(b, t, retryable, backoff)
<1>1. blob \in WorkItem /\ ~Held(blob) /\ blob.attempts = b.attempts + 1
  BY ReturnedType
<1>2. blob.state # "completed"
  BY DEF Returned, WorkItem
<1>3. ASSUME ~(b.attempts + 1 < MaxAttempts) PROVE blob.state = "dead_lettered"
  <2>1. Exhausted(b.attempts + 1)
    BY <1>3, AttemptsAreCounted DEF Exhausted
  <2> QED
    BY <2>1 DEF Returned, WorkItem
<1> HIDE DEF blob
<1>4. blob.state = "queued" => b.attempts + 1 < MaxAttempts
  BY <1>3
<1> QED
  BY <1>1, <1>2, <1>4 DEF Held, blob

\* Whoever gives an item up leaves no name and no lease on it.
LEMMA NobodysOnceOver ==
  ASSUME NEW b \in WorkItem, NEW t \in Nat, NEW retryable \in BOOLEAN, NEW backoff \in BOOLEAN,
         NEW offer
  PROVE  /\ Returned(b, t, retryable, backoff).worker = None
         /\ Returned(b, t, retryable, backoff).lease_expires_at = None
         /\ Completed(b).worker = None /\ Completed(b).lease_expires_at = None
         /\ Placed(offer, t).worker = None /\ Placed(offer, t).lease_expires_at = None
BY DEF Returned, Completed, Placed, WorkItem
=============================================================================
