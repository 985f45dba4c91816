----------------------------- MODULE WorkQueue -----------------------------
(* What the WorkQueue protocol of core/queue.py promises about an item,     *)
(* whichever store keeps it.  A worker takes an item nobody holds; only     *)
(* while it is held can it be finished or given back; giving back costs     *)
(* exactly one attempt; and an item leaves the queue for good finished or   *)
(* buried, and is in it again only because somebody enqueued it again, with *)
(* the attempts it is offered with.                                         *)
EXTENDS Integers

CONSTANTS
  Items, Workers, None, MaxAttempts,
  Offered   \* the attempts an item may be enqueued with

VARIABLES
  status,   \* where each item is; "absent" before it is first enqueued
  holder,   \* the worker a claimed item is held by
  tried     \* how many attempts have been given back

vars == <<status, holder, tried>>

Status == {"absent", "queued", "claimed", "completed", "dead_lettered"}

TypeOK ==
  /\ status \in [Items -> Status]
  /\ holder \in [Items -> Workers \cup {None}]
  /\ tried \in [Items -> Nat]

Init ==
  /\ status = [i \in Items |-> "absent"]
  /\ holder = [i \in Items |-> None]
  /\ tried = [i \in Items |-> 0]

Enqueue(i, n) ==
  /\ status[i] \in {"absent", "completed", "dead_lettered"}
  /\ status' = [status EXCEPT ![i] = "queued"]
  /\ tried' = [tried EXCEPT ![i] = n]
  /\ UNCHANGED holder

Claim(i, w) ==
  /\ status[i] = "queued"
  /\ status' = [status EXCEPT ![i] = "claimed"]
  /\ holder' = [holder EXCEPT ![i] = w]
  /\ UNCHANGED tried

Complete(i) ==
  /\ status[i] = "claimed"
  /\ status' = [status EXCEPT ![i] = "completed"]
  /\ holder' = [holder EXCEPT ![i] = None]
  /\ UNCHANGED tried

\* Failed, lapsed or adopted claims.  A store that sweeps in one go gives
\* several back together; each goes to the dead letter on its last attempt.
GiveBack(S) ==
  /\ \A i \in S : status[i] = "claimed"
  /\ status' = [i \in Items |->
                  IF i \notin S THEN status[i]
                  ELSE IF tried[i] + 1 < MaxAttempts THEN "queued"
                  ELSE "dead_lettered"]
  /\ holder' = [i \in Items |-> IF i \in S THEN None ELSE holder[i]]
  /\ tried' = [i \in Items |-> IF i \in S THEN tried[i] + 1 ELSE tried[i]]

\* A failure the handler says no further attempt would cure.
Bury(i) ==
  /\ status[i] = "claimed"
  /\ status' = [status EXCEPT ![i] = "dead_lettered"]
  /\ holder' = [holder EXCEPT ![i] = None]
  /\ tried' = [tried EXCEPT ![i] = @ + 1]

Next ==
  \/ \E i \in Items :
       \/ \E n \in Offered : Enqueue(i, n)
       \/ \E w \in Workers : Claim(i, w)
       \/ Complete(i)
       \/ Bury(i)
  \/ \E S \in SUBSET Items : GiveBack(S)

Spec == Init /\ [][Next]_vars
=============================================================================
