-------------------------- MODULE MemoryWorkQueue --------------------------
(* runtime/queue.py: a work queue in a dict, for a single replica.  No      *)
(* method awaits anything between reading the dict and writing it, so every *)
(* call is one step; what interleaves is the calls of several workers and   *)
(* the clock.                                                               *)
EXTENDS QueuePolicy, FiniteSets

CONSTANTS
  Items,        \* item ids, each with the attributes it is enqueued with
  Tenants,      \* numbered in the order their names sort
  TenantOf,     \* Items -> Tenants
  KeyOf,        \* Items -> dedupe key, or None
  PriorityOf,   \* Items -> Nat
  MaxTime,      \* bound: the clock stops here
  MaxEnqueues   \* bound: how many items are placed in all

ASSUME ItemAssumption ==
  /\ Tenants \subseteq Nat
  /\ TenantOf \in [Items -> Tenants]
  /\ PriorityOf \in [Items -> Nat]
  /\ MaxTime \in Nat
  /\ MaxEnqueues \in Nat

VARIABLES
  now,        \* the store's clock
  items,      \* _items: the item under each id, None before the first enqueue
  seq,        \* the position an item took when it was enqueued
  sequence,   \* _sequence
  deduped,    \* _deduped: the id a dedupe key names
  turn        \* _turn

vars == <<now, items, seq, sequence, deduped, turn>>

Keys == {KeyOf[i] : i \in Items} \ {None}
Stored(i) == items[i] # None
Is(i, state) == Stored(i) /\ items[i].state = state

\* A tenant and a key together: a dedupe key means nothing across tenants.
Slot == Tenants \X Keys
SlotOf(i) == <<TenantOf[i], KeyOf[i]>>

Init ==
  /\ now = 0
  /\ items = [i \in Items |-> None]
  /\ seq = [i \in Items |-> 0]
  /\ sequence = 0
  /\ deduped = [s \in Slot |-> None]
  /\ turn = 0

Live(i) == Stored(i) /\ ~Terminal(items[i])

\* _live_duplicate: the live item this one's dedupe key already names.
LiveDuplicate(i) ==
  /\ KeyOf[i] # None
  /\ deduped[SlotOf(i)] # None
  /\ Live(deduped[SlotOf(i)])

\* A call that finds the job already there changes nothing but a counter.
Enqueue(i, offer) ==
  /\ sequence < MaxEnqueues
  /\ ~LiveDuplicate(i)
  /\ ~Live(i)
  /\ items' = [items EXCEPT ![i] = Placed(offer, now)]
  /\ sequence' = sequence + 1
  /\ seq' = [seq EXCEPT ![i] = sequence + 1]
  /\ deduped' = IF KeyOf[i] = None THEN deduped
                ELSE [deduped EXCEPT ![SlotOf(i)] = i]
  /\ UNCHANGED <<now, turn>>

Due == {i \in Items : Is(i, "queued") /\ items[i].available_at <= now}

\* sorted(tenants)[k]: the tenant k others sort before.
InOrder(S, k) == CHOOSE t \in S : Cardinality({u \in S : u < t}) = k

\* The first of sorted(held, key=(-priority, sequence)).
Before(i, j) ==
  \/ PriorityOf[i] > PriorityOf[j]
  \/ PriorityOf[i] = PriorityOf[j] /\ seq[i] < seq[j]
Best(S) == CHOOSE i \in S : \A j \in S \ {i} : Before(i, j)

DueTenants == {TenantOf[i] : i \in Due}

NextTurn == (turn + 1) % Cardinality(DueTenants)

\* _next_in_turn: the rotation advances over the tenants with work due NOW.
NextInTurn ==
  Best({i \in Due : TenantOf[i] = InOrder(DueTenants, NextTurn)})

Claim(w, lease) ==
  /\ now + lease <= MaxTime
  /\ Due # {}
  /\ turn' = NextTurn
  /\ items' = [items EXCEPT ![NextInTurn] = Claimed(@, w, now, lease)]
  /\ UNCHANGED <<now, seq, sequence, deduped>>

\* _holding: the worker that claimed it still holds it, by the store's clock.
Holding(i, w) ==
  /\ Is(i, "claimed")
  /\ items[i].worker = w
  /\ ~LapsedAt(items[i], now)

Heartbeat(i, w) ==
  /\ now + LeaseSeconds <= MaxTime
  /\ Holding(i, w)
  /\ ~Overheld(items[i], now)
  /\ items' = [items EXCEPT ![i] = Renewed(@, now)]
  /\ UNCHANGED <<now, seq, sequence, deduped, turn>>

Complete(i, w) ==
  /\ Holding(i, w)
  /\ deduped' = IF KeyOf[i] = None THEN deduped
                ELSE [deduped EXCEPT ![SlotOf(i)] = None]
  /\ items' = [items EXCEPT ![i] = Completed(@)]
  /\ UNCHANGED <<now, seq, sequence, turn>>

Fail(i, w, retryable) ==
  /\ Holding(i, w)
  /\ items' = [items EXCEPT ![i] = Returned(@, now, retryable, TRUE)]
  /\ UNCHANGED <<now, seq, sequence, deduped, turn>>

GiveBack(S, backoff) ==
  /\ S # {}
  /\ items' = [i \in Items |-> IF i \in S
                               THEN Returned(items[i], now, TRUE, backoff)
                               ELSE items[i]]
  /\ UNCHANGED <<now, seq, sequence, deduped, turn>>

\* Mutant: a claim on its last attempt is not swept.
ReapRetryable ==
  GiveBack({i \in Items : /\ Stored(i) /\ LapsedAt(items[i], now)
                          /\ ~Exhausted(items[i].attempts + 1)}, TRUE)

Reap == GiveBack({i \in Items : Stored(i) /\ LapsedAt(items[i], now)}, TRUE)

Adopt(w) ==
  GiveBack({i \in Items : Is(i, "claimed") /\ items[i].worker = w}, FALSE)

Tick ==
  /\ now < MaxTime
  /\ now' = now + 1
  /\ UNCHANGED <<items, seq, sequence, deduped, turn>>

Next ==
  \/ \E i \in Items, offer \in Offers : Enqueue(i, offer)
  \/ \E w \in Workers :
       \/ \E lease \in Leases : Claim(w, lease)
       \/ \E i \in Items :
            \/ Heartbeat(i, w)
            \/ Complete(i, w)
            \/ \E retryable \in BOOLEAN : Fail(i, w, retryable)
       \/ Adopt(w)
  \/ Reap
  \/ Tick

Spec == Init /\ [][Next]_vars

\* The deployment sweeps on a schedule and time passes; no worker owes
\* anybody a step.
FairSpec == Spec /\ WF_vars(Reap) /\ WF_vars(Tick)

-----------------------------------------------------------------------------
TypeOK ==
  /\ now \in 0 .. MaxTime
  /\ items \in [Items -> WorkItem \cup {None}]
  /\ seq \in [Items -> Nat]
  /\ sequence \in 0 .. MaxEnqueues
  /\ deduped \in [Slot -> Items \cup {None}]
  /\ turn \in Nat

\* However a worker heartbeats, fails and reclaims, one claim is never
\* renewed past max_lease_seconds: a stuck run would otherwise look like a
\* busy one for ever (QueuePolicy.max_lease_seconds).  The bound is on
\* renewals: only a lease that claim itself was asked for, and nobody has
\* renewed, reaches further.
BoundedHold ==
  \A i \in Items : Is(i, "claimed") =>
    LET since == HeldSince(items[i]) IN
    \/ items[i].lease_expires_at < since + MaxLeaseSeconds + LeaseSeconds
    \/ items[i].lease_expires_at \in {since + lease : lease \in AskedLeases}

\* Every claim ends: its worker settles it or the sweep takes it back.
ClaimsEnd ==
  \A i \in Items : Is(i, "claimed") ~> ~Is(i, "claimed")

\* What the protocol promises of every store.
Abstract == INSTANCE WorkQueue WITH
  status <- [i \in Items |-> IF Stored(i) THEN items[i].state ELSE "absent"],
  holder <- [i \in Items |-> IF Stored(i) THEN items[i].worker ELSE None],
  tried  <- [i \in Items |-> IF Stored(i) THEN items[i].attempts ELSE 0],
  Offered <- {offer.attempts : offer \in Offers}

KeepsThePromise == Abstract!Spec
=============================================================================
