--------------------------- MODULE RedisWorkQueue ---------------------------
(* adapters/state.py: the work queue kept in Redis.  A Lua script is one    *)
(* atomic step.  A call of the adapter is one or two scripts: claim, reap   *)
(* and adopt run the script that picks the items and then SETTLE once for   *)
(* each; heartbeat, complete and fail run HELD and then SETTLE.  Between    *)
(* the two anything may happen: other clients' scripts, time, a reply that  *)
(* is lost and retried, or the end of the process.                          *)
(*                                                                          *)
(* One named queue; several tenants; the 200 entries one script looks at    *)
(* are more than any instance holds.  The counters behind stats and the     *)
(* ages index, which moves with the ready sets, are left out.  All clients  *)
(* read one clock: the adapter leaves drift to the deployment.              *)
EXTENDS QueuePolicy, FiniteSets

CONSTANTS
  Clients,      \* processes that hold a RedisWorkQueue
  WorkerOf,     \* Clients -> Workers: the name each claims under
  Items,        \* item ids, each with the attributes it is enqueued with
  Tenants,
  TenantOf,     \* Items -> Tenants
  KeyOf,        \* Items -> dedupe key, or None
  PriorityOf,   \* Items -> Nat
  CrashIn,      \* the calls a client may fail to finish
  MaxTime,      \* bound: the clock stops here
  MaxEnqueues,  \* bound: how many items are placed in all
  MaxClaims     \* bound: how many claims are made in all

Calls == {"claim", "heartbeat", "complete", "fail", "reap", "adopt"}

ASSUME RedisAssumption ==
  /\ WorkerOf \in [Clients -> Workers]
  /\ TenantOf \in [Items -> Tenants]
  /\ PriorityOf \in [Items -> Nat]
  /\ CrashIn \subseteq Calls
  /\ MaxTime \in Nat
  /\ MaxEnqueues \in Nat
  /\ MaxClaims \in Nat
  /\ None \notin Items
  /\ None \notin Tenants

VARIABLES
  now,      \* what every client's clock says
  item,     \* the blob under each item's key, None before the first enqueue
  ready,    \* the tenants' ready sets: the score of each entry
  leases,   \* the queue's lease set: the score of each entry
  holders,  \* the hash of who holds what
  owned,    \* each worker's set of what it holds
  dead,     \* the tenants' dead letters
  dedupe,   \* the id each dedupe key names
  turns,    \* the tenants' scores in the rotation, None until enqueued for
  served,   \* the counter the rotation's scores are drawn from
  call,     \* the call each client is in and the SETTLEs it has yet to run
  placed,   \* how many items have been placed
  skipped   \* claims in a row that left due work of this tenant waiting

store == <<item, ready, leases, holders, owned, dead, dedupe>>
rotation == <<turns, served, skipped>>
vars == <<now, store, rotation, call, placed>>

Keys == {KeyOf[i] : i \in Items} \ {None}
Slot == Tenants \X Keys
SlotOf(i) == <<TenantOf[i], KeyOf[i]>>

\* One SETTLE a client has yet to run: the record to write, the worker that
\* must still hold the item, and the lease score it is fenced on, if any.
Write == [item: Items, blob: WorkItem, worker: Workers \cup {None},
          fence: Nat \cup {None}]

Idle == [op |-> "idle", writes |-> {}]

Init ==
  /\ now = 0
  /\ item = [i \in Items |-> None]
  /\ ready = [i \in Items |-> None]
  /\ leases = [i \in Items |-> None]
  /\ holders = [i \in Items |-> None]
  /\ owned = [w \in Workers |-> {}]
  /\ dead = {}
  /\ dedupe = [s \in Slot |-> None]
  /\ turns = [t \in Tenants |-> None]
  /\ served = 0
  /\ call = [c \in Clients |-> Idle]
  /\ placed = 0
  /\ skipped = [t \in Tenants |-> 0]

Live(i) == item[i] # None /\ ~Terminal(item[i])

\* The client starts a call whose next steps are the SETTLEs in W.
Start(c, op, W) ==
  call' = [call EXCEPT ![c] = IF W = {} THEN Idle ELSE [op |-> op, writes |-> W]]

-----------------------------------------------------------------------------
(* ENQUEUE.  A retry after a lost reply is one more call: it finds the item *)
(* live and changes nothing, or finds it finished and places it again.      *)

\* Mutant: a claimed job no longer counts as the one to wait for.
DuplicateWaiting(i) ==
  /\ KeyOf[i] # None
  /\ dedupe[SlotOf(i)] # None
  /\ item[dedupe[SlotOf(i)]].state = "queued"

LiveDuplicate(i) ==
  /\ KeyOf[i] # None
  /\ dedupe[SlotOf(i)] # None
  /\ Live(dedupe[SlotOf(i)])

Enqueue(i, offer) ==
  /\ placed < MaxEnqueues
  /\ ~LiveDuplicate(i)
  /\ ~Live(i)
  /\ item' = [item EXCEPT ![i] = Placed(offer, now)]
  /\ ready' = [ready EXCEPT ![i] = Placed(offer, now).available_at]
  /\ turns' = IF turns[TenantOf[i]] = None
              THEN [turns EXCEPT ![TenantOf[i]] = 0] ELSE turns
  /\ dedupe' = IF KeyOf[i] = None THEN dedupe
               ELSE [dedupe EXCEPT ![SlotOf(i)] = i]
  /\ placed' = placed + 1
  /\ UNCHANGED <<now, leases, holders, owned, dead, served, skipped, call>>

-----------------------------------------------------------------------------
(* CLAIM.  The tenants in the order of their turns, the first with work due *)
(* served; among equal scores Redis goes by name and the model by any.      *)

Due(t) == {i \in Items : TenantOf[i] = t /\ ready[i] # None /\ ready[i] <= now}

DueTenants == {t \in Tenants : turns[t] # None /\ Due(t) # {}}

\* Mutant: whoever has work is served, whosever turn it is.
AnyDue(t) == t \in DueTenants

First(t) == t \in DueTenants /\ \A u \in DueTenants : turns[t] <= turns[u]

\* The scan is in the order of availability and keeps a strictly higher
\* priority, so equals go to whoever has waited longest.
Best(i) ==
  \A j \in Due(TenantOf[i]) :
    \/ PriorityOf[i] > PriorityOf[j]
    \/ PriorityOf[i] = PriorityOf[j] /\ ready[i] <= ready[j]

Pick(c, i, lease) ==
  LET t == TenantOf[i] IN
  /\ ready' = [ready EXCEPT ![i] = None]
  /\ leases' = [leases EXCEPT ![i] = now + lease]
  /\ holders' = [holders EXCEPT ![i] = WorkerOf[c]]
  /\ owned' = [owned EXCEPT ![WorkerOf[c]] = @ \cup {i}]
  /\ served' = served + 1
  /\ turns' = [turns EXCEPT ![t] = served + 1]
  /\ skipped' = [u \in Tenants |-> IF u \in DueTenants \ {t}
                                   THEN skipped[u] + 1 ELSE 0]
  /\ UNCHANGED <<item, dead, dedupe>>

\* The item is in the lease set from here on; its record says it is queued
\* until this client's SETTLE.
ClaimScript(c, lease) ==
  /\ call[c] = Idle
  /\ now + lease <= MaxTime
  /\ served < MaxClaims
  /\ \E t \in Tenants : \E i \in Due(t) :
       /\ First(t)
       /\ Best(i)
       /\ Pick(c, i, lease)
       /\ Start(c, "claim",
                {[item |-> i, blob |-> Claimed(item[i], WorkerOf[c], now, lease),
                  worker |-> WorkerOf[c], fence |-> None]})
  /\ UNCHANGED <<now, placed>>

-----------------------------------------------------------------------------
(* HELD, and the three calls that start with it.  What the client will      *)
(* write is computed from the record HELD returned.                         *)

Holding(c, i) ==
  /\ item[i] # None
  /\ holders[i] = WorkerOf[c]
  /\ leases[i] # None
  /\ leases[i] > now

HeldThen(c, i, op, blob) ==
  /\ call[c] = Idle
  /\ Holding(c, i)
  /\ Start(c, op, {[item |-> i, blob |-> blob, worker |-> WorkerOf[c],
                    fence |-> None]})
  /\ UNCHANGED <<now, store, rotation, placed>>

Heartbeat(c, i) ==
  /\ now + LeaseSeconds <= MaxTime
  /\ Holding(c, i)
  /\ ~Overheld(item[i], now)
  /\ HeldThen(c, i, "heartbeat", Renewed(item[i], now))

Complete(c, i) == Holding(c, i) /\ HeldThen(c, i, "complete", Completed(item[i]))

Fail(c, i, retryable) ==
  /\ Holding(c, i)
  /\ HeldThen(c, i, "fail", Returned(item[i], now, retryable, TRUE))

-----------------------------------------------------------------------------
(* LAPSED and OWNED, the scans of reap and adopt.  Each item found is to be *)
(* settled for the worker its RECORD names, fenced on its lease score.      *)

\* Mutant: a scan's settles are not fenced on what it saw.
UnfencedGiveBacks(S, backoff) ==
  {[item |-> i, blob |-> Returned(item[i], now, TRUE, backoff),
    worker |-> item[i].worker, fence |-> None] : i \in S}

GiveBacks(S, backoff) ==
  {[item |-> i, blob |-> Returned(item[i], now, TRUE, backoff),
    worker |-> item[i].worker, fence |-> leases[i]] : i \in S}

Lapsed == {i \in Items : item[i] # None /\ leases[i] # None /\ leases[i] <= now}

Owned(w) == {i \in owned[w] : item[i] # None /\ leases[i] # None}

Reap(c) ==
  /\ call[c] = Idle
  /\ Lapsed # {}
  /\ Start(c, "reap", GiveBacks(Lapsed, TRUE))
  /\ UNCHANGED <<now, store, rotation, placed>>

Adopt(c) ==
  /\ call[c] = Idle
  /\ Owned(WorkerOf[c]) # {}
  /\ Start(c, "adopt", GiveBacks(Owned(WorkerOf[c]), FALSE))
  /\ UNCHANGED <<now, store, rotation, placed>>

-----------------------------------------------------------------------------
(* SETTLE: write the record where its new state says it belongs, if the     *)
(* claim still stands.                                                      *)

\* Mutant: the fence is checked and the holder is not.
StandsUnheld(w) == w.fence # None => leases[w.item] = w.fence

Stands(w) ==
  /\ w.fence # None => leases[w.item] = w.fence
  /\ holders[w.item] # None
  /\ holders[w.item] = w.worker

\* Mutant: an item still backing off is put nowhere.
RequeuedWhenDue(w) ==
  IF w.blob.state = "queued" /\ w.blob.available_at <= now
  THEN [ready EXCEPT ![w.item] = w.blob.available_at] ELSE ready

Requeued(w) ==
  IF w.blob.state = "queued"
  THEN [ready EXCEPT ![w.item] = w.blob.available_at] ELSE ready

Put(w) ==
  /\ item' = [item EXCEPT ![w.item] = w.blob]
  /\ \/ /\ Held(w.blob)
        /\ leases' = [leases EXCEPT ![w.item] = w.blob.lease_expires_at]
        /\ UNCHANGED <<ready, holders, owned, dead, dedupe>>
     \/ /\ ~Held(w.blob)
        /\ leases' = [leases EXCEPT ![w.item] = None]
        /\ holders' = [holders EXCEPT ![w.item] = None]
        /\ owned' = [owned EXCEPT ![w.worker] = @ \ {w.item}]
        /\ ready' = Requeued(w)
        /\ dedupe' = IF Terminal(w.blob) /\ KeyOf[w.item] # None
                     THEN [dedupe EXCEPT ![SlotOf(w.item)] = None]
                     ELSE dedupe
        /\ dead' = IF w.blob.state = "dead_lettered"
                   THEN dead \cup {w.item} ELSE dead

Script(w) == IF Stands(w) THEN Put(w) ELSE UNCHANGED store

\* The script runs and its reply arrives.  claim, heartbeat, complete and
\* fail return as though it had written, whatever it answers.
Settle(c) ==
  /\ \E w \in call[c].writes :
       /\ Script(w)
       /\ Start(c, call[c].op, call[c].writes \ {w})
  /\ UNCHANGED <<now, rotation, placed>>

\* The script runs and its reply is lost: _Retrying will run it again.
LoseReply(c) ==
  /\ \E w \in call[c].writes : Script(w)
  /\ UNCHANGED <<now, rotation, call, placed>>

\* The process ends, or the retries do: what was not settled never will be.
Crash(c) ==
  /\ call[c].op \in CrashIn
  /\ call' = [call EXCEPT ![c] = Idle]
  /\ UNCHANGED <<now, store, rotation, placed>>

Tick ==
  /\ now < MaxTime
  /\ now' = now + 1
  /\ UNCHANGED <<store, rotation, call, placed>>

-----------------------------------------------------------------------------
ClientStep(c) ==
  \/ \E lease \in Leases : ClaimScript(c, lease)
  \/ \E i \in Items :
       \/ Heartbeat(c, i)
       \/ Complete(c, i)
       \/ \E retryable \in BOOLEAN : Fail(c, i, retryable)
  \/ Reap(c)
  \/ Adopt(c)
  \/ Settle(c)
  \/ LoseReply(c)
  \/ Crash(c)

Next ==
  \/ \E i \in Items, offer \in Offers : Enqueue(i, offer)
  \/ \E c \in Clients : ClientStep(c)
  \/ Tick

Spec == Init /\ [][Next]_vars

\* Time passes, whoever is free sweeps, and a call that has been started and
\* is not cut short finishes.  Nobody owes the queue a claim or a heartbeat.
FairSpec ==
  /\ Spec
  /\ WF_vars(Tick)
  /\ \A c \in Clients : WF_vars(Settle(c)) /\ WF_vars(Reap(c))

-----------------------------------------------------------------------------
TypeOK ==
  /\ now \in Nat
  /\ item \in [Items -> WorkItem \cup {None}]
  /\ ready \in [Items -> Nat \cup {None}]
  /\ leases \in [Items -> Nat \cup {None}]
  /\ holders \in [Items -> Workers \cup {None}]
  /\ owned \in [Workers -> SUBSET Items]
  /\ dead \subseteq Items
  /\ dedupe \in [Slot -> Items \cup {None}]
  /\ turns \in [Tenants -> Nat \cup {None}]
  /\ served \in Nat
  /\ call \in [Clients -> [op: Calls \cup {"idle"}, writes: SUBSET Write]]
  /\ placed \in Nat
  /\ skipped \in [Tenants -> Nat]

\* The lease set, the holders' hash and the workers' sets never disagree
\* about whether an item is held and by whom, and a held item is in nobody's
\* ready set: CLAIM and SETTLE write five keys, and reap, adopt and HELD each
\* trust a different one.
IndexesAgree ==
  \A i \in Items :
    /\ leases[i] # None <=> holders[i] # None
    /\ \A w \in Workers : i \in owned[w] <=> holders[i] = w
    /\ leases[i] # None => ready[i] = None

\* An item still owed work is in the ready set or the lease set, where a
\* claim or a sweep will find it, and one that is finished or buried is in
\* neither: whatever stale SETTLE lands, no item is dropped and none comes
\* back from the dead.
NothingIsLost ==
  \A i \in Items : Live(i) <=> ready[i] # None \/ leases[i] # None

\* At most one live item per dedupe key, although the key is written by
\* ENQUEUE and cleared by a SETTLE that may belong to an older round.
OneLivePerKey ==
  \A i, j \in Items :
    i # j /\ KeyOf[i] # None /\ SlotOf(i) = SlotOf(j) => ~(Live(i) /\ Live(j))

\* While a lease has not lapsed, only its own worker's client ends it (by
\* complete, fail or adopt): a sweep that saw an older lease writes nothing
\* over a heartbeat or a newer claim.
LiveClaimIsItsWorkers ==
  [][\A i \in Items :
       leases[i] # None /\ leases[i] > now /\ leases'[i] = None =>
         \E c \in Clients : /\ WorkerOf[c] = holders[i]
                            /\ \E w \in call[c].writes : w.item = i]_vars

\* "Tenants are served in turn": a tenant with work due is passed over at
\* most once for each of the others, also by tenants that come new.
FairTurns == \A t \in Tenants : skipped[t] < Cardinality(Tenants)

\* A lapsed claim is taken back: the lease set does not keep an item that
\* nobody is working on.
ClaimsEnd == \A i \in Items : leases[i] # None ~> leases[i] = None

\* What the protocol promises of every store.  An item is claimed from the
\* moment CLAIM puts it in the lease set, whatever its record still says.
Abstract == INSTANCE WorkQueue WITH
  status <- [i \in Items |-> IF item[i] = None THEN "absent"
                             ELSE IF leases[i] # None THEN "claimed"
                             ELSE item[i].state],
  holder <- holders,
  tried  <- [i \in Items |-> IF item[i] = None THEN 0 ELSE item[i].attempts],
  Offered <- {offer.attempts : offer \in Offers}

KeepsThePromise == Abstract!Spec

\* The one script that departs from it.  A claim cut short between CLAIM and
\* SETTLE leaves its worker holding an item whose record still says queued;
\* should that worker's heartbeat find it held, and not for too long, it
\* settles a record that is not claimed: back in the ready set, uncounted.
UncountedReturn ==
  \E c \in Clients : \E w \in call[c].writes :
    call[c].op = "heartbeat" /\ ~Held(w.blob) /\ Put(w)

\* Nothing else does, whichever calls are cut short: nobody takes an item that
\* is held, only a held item is finished or given back, and giving back costs
\* one attempt, whatever stale, lost and repeated scripts there are.
OnlyUncountedReturnsDepart ==
  Abstract!Init /\ [][Abstract!Next \/ UncountedReturn]_(Abstract!vars)
=============================================================================
