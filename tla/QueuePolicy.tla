---------------------------- MODULE QueuePolicy ----------------------------
(* What a work item looks like after each thing that may happen to it: the  *)
(* half of core/queue.py every store shares.  A store decides WHEN one of   *)
(* these is written; what is written is decided here, so two stores cannot  *)
(* disagree about when an item is poisonous.                                *)
(*                                                                          *)
(* Times are whole seconds.  An item keeps the fields a store branches on:  *)
(* enqueued_at and the failure texts only order and explain what is read    *)
(* back.                                                                    *)
EXTENDS Integers

CONSTANTS
  Workers,          \* names a claim may be held under
  None,             \* Python's None
  LeaseSeconds,     \* QueuePolicy.lease_seconds
  MaxAttempts,      \* QueuePolicy.max_attempts
  BackoffSeconds,   \* QueuePolicy.backoff_seconds
  BackoffCap,       \* QueuePolicy.backoff_cap_seconds
  MaxLeaseSeconds,  \* QueuePolicy.max_lease_seconds
  AskedLeases,      \* what a call to claim may pass as lease_seconds
  Offers            \* what an item handed to enqueue may carry

\* The bounds the fields of QueuePolicy and WorkItem are declared with.
ASSUME PolicyAssumption ==
  /\ LeaseSeconds \in Nat \ {0}
  /\ MaxAttempts \in Nat \ {0}
  /\ BackoffSeconds \in Nat
  /\ BackoffCap \in Nat
  /\ MaxLeaseSeconds \in Nat \ {0}
  /\ AskedLeases \subseteq Nat \ {0}
  /\ Offers \subseteq [attempts: Nat, available_at: Nat,
                       first_claimed_at: Nat \cup {None}]

ASSUME NoneAssumption == None \notin Workers /\ None \notin Nat

WorkState == {"queued", "claimed", "completed", "dead_lettered"}

\* The validator of WorkItem: a claimed item names the worker holding it.
WorkItem ==
  {item \in [state: WorkState,
             worker: Workers \cup {None},
             attempts: Nat,
             available_at: Nat,
             lease_expires_at: Nat \cup {None},
             first_claimed_at: Nat \cup {None}] :
     item.state = "claimed" => item.worker # None}

ASSUME NoneIsNoItem == None \notin WorkItem

\* The item enqueue stores: nobody holds it, and the rest is what the caller's
\* item carries, so a dead letter sent again as it was read comes with its
\* attempts and with when it was last claimed.
Placed(offer, now) ==
  [state |-> "queued", worker |-> None, attempts |-> offer.attempts,
   available_at |-> IF offer.available_at = 0 THEN now ELSE offer.available_at,
   lease_expires_at |-> None,
   first_claimed_at |-> offer.first_claimed_at]

\* The lease a claim is given: the policy's, unless the call asks for another.
Leases == AskedLeases \cup {LeaseSeconds}

Held(item) == item.state = "claimed"

Terminal(item) == item.state \in {"completed", "dead_lettered"}

LapsedAt(item, now) ==
  /\ Held(item)
  /\ item.lease_expires_at # None
  /\ item.lease_expires_at <= now

\* Doubling, capped.  Membership in 0..BackoffCap is the comparison with the
\* cap: a doubled wait is never negative.
BackoffFor(attempts) ==
  LET doubled == BackoffSeconds * 2^(attempts - 1)
  IN  IF attempts <= 0 THEN 0
      ELSE IF doubled \in 0 .. BackoffCap THEN doubled ELSE BackoffCap

Exhausted(attempts) == attempts >= MaxAttempts

HeldSince(item) ==
  IF item.first_claimed_at = None THEN 0 ELSE item.first_claimed_at

\* Mutant: measured from the last renewal rather than from the claim.
OverheldSinceRenewal(item, now) ==
  now - (item.lease_expires_at - LeaseSeconds) >= MaxLeaseSeconds

Overheld(item, now) == now - HeldSince(item) >= MaxLeaseSeconds

Claimed(item, worker, now, lease) ==
  [item EXCEPT !.state = "claimed",
               !.worker = worker,
               !.lease_expires_at = now + lease,
               !.first_claimed_at = now]

Renewed(item, now) == [item EXCEPT !.lease_expires_at = now + LeaseSeconds]

Completed(item) ==
  [item EXCEPT !.state = "completed", !.worker = None, !.lease_expires_at = None]

\* Mutant: giving back costs no attempt.
ReturnedUncounted(item, now, retryable, backoff) ==
  [item EXCEPT !.state = "queued", !.worker = None, !.lease_expires_at = None,
               !.first_claimed_at = None, !.available_at = now]

\* One attempt worse off: back to the queue after a wait, or to the dead
\* letter where the attempts are spent or trying again would not help.
Returned(item, now, retryable, backoff) ==
  LET attempts == item.attempts + 1
  IN  IF ~retryable \/ Exhausted(attempts)
      THEN [item EXCEPT !.state = "dead_lettered", !.worker = None,
                        !.lease_expires_at = None, !.attempts = attempts]
      ELSE [item EXCEPT !.state = "queued", !.worker = None,
                        !.lease_expires_at = None, !.first_claimed_at = None,
                        !.available_at = now + (IF backoff THEN BackoffFor(attempts)
                                                           ELSE 0),
                        !.attempts = attempts]
=============================================================================
