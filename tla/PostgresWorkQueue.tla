------------------------- MODULE PostgresWorkQueue -------------------------
(* adapters/sql_state.py: the work queue kept in a PostgreSQL table.  A     *)
(* statement is one atomic step, except ENQUEUE: its `live` subquery reads  *)
(* the snapshot the statement began with, while ON CONFLICT DO UPDATE acts  *)
(* on whatever row has been committed since, so it is two steps here.       *)
(* claim runs CLAIM, which writes the columns, and then SETTLE, which       *)
(* writes the payload too; heartbeat, complete, fail, reap and adopt read   *)
(* and then run SETTLE, fenced on the lease they read.                      *)
(*                                                                          *)
(* Left out: seq, which breaks ties between equal priorities (the model     *)
(* breaks them any way), the counters behind stats, and a queue bound to a  *)
(* caller's transaction.                                                    *)
EXTENDS QueuePolicy, FiniteSets

CONSTANTS
  Clients, WorkerOf,                    \* as in RedisWorkQueue
  Items, Tenants, TenantOf, KeyOf, PriorityOf,
  CrashIn,      \* the calls a client may fail to finish
  MaxTime,      \* bound: the clock stops here
  MaxEnqueues   \* bound: how many items are placed in all

Calls == {"enqueue", "claim", "heartbeat", "complete", "fail", "reap", "adopt"}

ASSUME PostgresAssumption ==
  /\ WorkerOf \in [Clients -> Workers]
  /\ TenantOf \in [Items -> Tenants]
  /\ PriorityOf \in [Items -> Nat]
  /\ CrashIn \subseteq Calls
  /\ MaxTime \in Nat
  /\ MaxEnqueues \in Nat

VARIABLES
  now,      \* what every client's clock says
  row,      \* the columns of each item's row, None before the first enqueue
  payload,  \* its payload column: the record as last written
  turns,    \* adk_queue_turns, 0 for a tenant with no row
  call,     \* the call each client is in and the writes it has yet to run
  placed    \* how many items have been placed

rows == <<row, payload>>
vars == <<now, rows, turns, call, placed>>

\* One write a client has yet to run, and the lease it is fenced on, if any.
Write == [item: Items, blob: WorkItem, fence: Nat \cup {None}]

Idle == [op |-> "idle", writes |-> {}]

Init ==
  /\ now = 0
  /\ row = [i \in Items |-> None]
  /\ payload = [i \in Items |-> None]
  /\ turns = [t \in Tenants |-> 0]
  /\ call = [c \in Clients |-> Idle]
  /\ placed = 0

Live(i) == row[i] # None /\ ~Terminal(row[i])
Is(i, state) == row[i] # None /\ row[i].state = state
SameJob(i, j) == TenantOf[i] = TenantOf[j] /\ KeyOf[i] # None /\ KeyOf[i] = KeyOf[j]

Start(c, op, W) ==
  call' = [call EXCEPT ![c] = IF W = {} THEN Idle ELSE [op |-> op, writes |-> W]]

\* No lease is granted twice while a write knows it: no two readings of the
\* float clock are the same.
Unused(i, lease) ==
  \A c \in Clients : \A w \in call[c].writes :
    w.item = i => w.fence # lease /\ w.blob.lease_expires_at # lease

-----------------------------------------------------------------------------
\* ENQUEUE's snapshot: nothing live under this id or this dedupe key.
EnqueueSnapshot(c, i, offer) ==
  /\ call[c] = Idle
  /\ placed < MaxEnqueues
  /\ ~\E j \in Items : Live(j) /\ (j = i \/ SameJob(i, j))
  /\ Start(c, "enqueue", {[item |-> i, blob |-> Placed(offer, now),
                           fence |-> None]})
  /\ UNCHANGED <<now, rows, turns, placed>>

-----------------------------------------------------------------------------
Due == {i \in Items : Is(i, "queued") /\ row[i].available_at <= now}

\* ORDER BY turn, priority DESC.
First(i) ==
  \A j \in Due :
    LET t == turns[TenantOf[i]]
        u == turns[TenantOf[j]]
    IN  t < u \/ (t = u /\ PriorityOf[i] >= PriorityOf[j])

NextTurn == 1 + (CHOOSE n \in {turns[t] : t \in Tenants} :
                   \A t \in Tenants : turns[t] <= n)

\* CLAIM: the columns say claimed from here on; the payload says queued until
\* this client's SETTLE, which is fenced on nothing.
ClaimStatement(c, lease) ==
  /\ call[c] = Idle
  /\ now + lease <= MaxTime
  /\ \E i \in Due :
       /\ First(i)
       /\ Unused(i, now + lease)
       /\ row' = [row EXCEPT ![i] = Claimed(@, WorkerOf[c], now, lease)]
       /\ turns' = [turns EXCEPT ![TenantOf[i]] = NextTurn]
       /\ Start(c, "claim",
                {[item |-> i, blob |-> Claimed(payload[i], WorkerOf[c], now, lease),
                  fence |-> None]})
  /\ UNCHANGED <<now, payload, placed>>

-----------------------------------------------------------------------------
\* _holding, by the payload.
Holding(c, i) ==
  /\ payload[i] # None
  /\ Held(payload[i])
  /\ payload[i].worker = WorkerOf[c]
  /\ ~LapsedAt(payload[i], now)

HoldingThen(c, i, op, blob) ==
  /\ call[c] = Idle
  /\ Start(c, op, {[item |-> i, blob |-> blob,
                    fence |-> payload[i].lease_expires_at]})
  /\ UNCHANGED <<now, rows, turns, placed>>

Heartbeat(c, i) ==
  /\ now + LeaseSeconds <= MaxTime
  /\ Holding(c, i)
  /\ ~Overheld(payload[i], now)
  /\ Unused(i, now + LeaseSeconds)
  /\ HoldingThen(c, i, "heartbeat", Renewed(payload[i], now))

Complete(c, i) ==
  Holding(c, i) /\ HoldingThen(c, i, "complete", Completed(payload[i]))

Fail(c, i, retryable) ==
  /\ Holding(c, i)
  /\ HoldingThen(c, i, "fail", Returned(payload[i], now, retryable, TRUE))

\* Mutant: the sweep is fenced on nothing.
UnfencedGiveBacks(S, backoff) ==
  {[item |-> i, blob |-> Returned(payload[i], now, TRUE, backoff),
    fence |-> None] : i \in S}

\* LAPSED and OWNED read the columns, and fence on the lease column.
GiveBacks(S, backoff) ==
  {[item |-> i, blob |-> Returned(payload[i], now, TRUE, backoff),
    fence |-> row[i].lease_expires_at] : i \in S}

\* Mutant: the sweep looks for lapsed claims in the records.
LapsedByRecord ==
  {i \in Items : payload[i] # None /\ LapsedAt(payload[i], now)}

Lapsed == {i \in Items : row[i] # None /\ LapsedAt(row[i], now)}

Owned(w) == {i \in Items : Is(i, "claimed") /\ row[i].worker = w}

Reap(c) ==
  /\ call[c] = Idle
  /\ Lapsed # {}
  /\ Start(c, "reap", GiveBacks(Lapsed, TRUE))
  /\ UNCHANGED <<now, rows, turns, placed>>

Adopt(c) ==
  /\ call[c] = Idle
  /\ Owned(WorkerOf[c]) # {}
  /\ Start(c, "adopt", GiveBacks(Owned(WorkerOf[c]), FALSE))
  /\ UNCHANGED <<now, rows, turns, placed>>

-----------------------------------------------------------------------------
\* Mutant: a claimed job no longer counts as the one to wait for.
ClashWaiting(w) ==
  /\ ~Terminal(w.blob)
  /\ \E j \in Items \ {w.item} : Is(j, "queued") /\ SameJob(w.item, j)

\* The partial unique index on live rows' dedupe keys refuses the statement;
\* the retries find the same and the call raises.
Clash(w) ==
  ~Terminal(w.blob) /\ \E j \in Items \ {w.item} : Live(j) /\ SameJob(w.item, j)

\* ENQUEUE's upsert stands on any row; SETTLE's update on an unmoved lease.
Stands(op, w) ==
  op # "enqueue" /\ w.fence # None => row[w.item].lease_expires_at = w.fence

\* Mutant: a settle moves the columns and leaves the record as it was.
PutColumns(op, w) ==
  /\ row' = [row EXCEPT ![w.item] = w.blob]
  /\ payload' = [payload EXCEPT ![w.item] = IF op = "enqueue" THEN w.blob ELSE @]

\* ENQUEUE writes an unclaimed, untried item's values into two columns,
\* whatever the record beside them carries; SETTLE takes all from the record.
Columns(op, blob) ==
  IF op = "enqueue" THEN [blob EXCEPT !.attempts = 0, !.first_claimed_at = None]
                    ELSE blob

Put(op, w) ==
  /\ row' = [row EXCEPT ![w.item] = Columns(op, w.blob)]
  /\ payload' = [payload EXCEPT ![w.item] = w.blob]

Writes(op, w) == Stands(op, w) /\ ~Clash(w)

\* The second statement.  Only reap and adopt look at whether it wrote.
Settle(c) ==
  /\ \E w \in call[c].writes :
       /\ IF Writes(call[c].op, w) THEN Put(call[c].op, w) ELSE UNCHANGED rows
       /\ placed' = IF call[c].op = "enqueue" /\ Writes(call[c].op, w)
                    THEN placed + 1 ELSE placed
       /\ Start(c, call[c].op, call[c].writes \ {w})
  /\ UNCHANGED <<now, turns>>

\* SETTLE commits and its reply is lost: _Running will run it again.  (A
\* retried ENQUEUE begins with a snapshot of its own: it is one more call.)
LoseReply(c) ==
  /\ call[c].op # "enqueue"
  /\ \E w \in call[c].writes : Writes(call[c].op, w) /\ Put(call[c].op, w)
  /\ UNCHANGED <<now, turns, call, placed>>

\* The process ends, or the retries do.
Crash(c) ==
  /\ call[c].op \in CrashIn
  /\ call' = [call EXCEPT ![c] = Idle]
  /\ UNCHANGED <<now, rows, turns, placed>>

Tick ==
  /\ now < MaxTime
  /\ now' = now + 1
  /\ UNCHANGED <<rows, turns, call, placed>>

ClientStep(c) ==
  \/ \E lease \in Leases : ClaimStatement(c, lease)
  \/ \E i \in Items :
       \/ \E offer \in Offers : EnqueueSnapshot(c, i, offer)
       \/ Heartbeat(c, i)
       \/ Complete(c, i)
       \/ \E retryable \in BOOLEAN : Fail(c, i, retryable)
  \/ Reap(c)
  \/ Adopt(c)
  \/ Settle(c)
  \/ LoseReply(c)
  \/ Crash(c)

Next == Tick \/ \E c \in Clients : ClientStep(c)

Spec == Init /\ [][Next]_vars

\* As for the Redis queue: time passes, sweeps run, started calls finish.
FairSpec ==
  /\ Spec
  /\ WF_vars(Tick)
  /\ \A c \in Clients : WF_vars(Settle(c)) /\ WF_vars(Reap(c))

-----------------------------------------------------------------------------
TypeOK ==
  /\ now \in Nat
  /\ row \in [Items -> WorkItem \cup {None}]
  /\ payload \in [Items -> WorkItem \cup {None}]
  /\ turns \in [Tenants -> Nat]
  /\ call \in [Clients -> [op: Calls \cup {"idle"}, writes: SUBSET Write]]
  /\ placed \in Nat

\* What a statement selects by or fences on.  No statement reads the attempts
\* or the first_claimed_at column, and neither follows the record: ENQUEUE
\* writes literals there.
Selected(record) ==
  <<record.state, record.worker, record.available_at, record.lease_expires_at>>

\* The record in the payload and the columns the statements select by differ
\* only while a claim is between its two statements, or never got past them:
\* what a statement finds by its columns is what the caller is handed.
RecordFollowsColumns ==
  \A i \in Items : row[i] # None \/ payload[i] # None =>
    \/ Selected(row[i]) = Selected(payload[i])
    \/ Is(i, "claimed") /\ payload[i].state = "queued"

\* At most one live item per dedupe key, whatever enqueues race.
OneLivePerKey ==
  \A i, j \in Items : i # j /\ SameJob(i, j) => ~(Live(i) /\ Live(j))

\* What a sweep is about to settle, and the store would let it, is a claim
\* that has lapsed or, adopted, its own worker's: a renewal or a newer claim
\* since the sweep looked leaves it nothing to write.
SweepSparesTheLiving ==
  \A c \in Clients : \A w \in call[c].writes :
    call[c].op \in {"reap", "adopt"} /\ Writes(call[c].op, w) /\ Is(w.item, "claimed")
      => LapsedAt(row[w.item], now) \/ WorkerOf[c] = row[w.item].worker

\* Every claim ends, also one whose worker died between CLAIM and SETTLE.
ClaimsEnd == \A i \in Items : Is(i, "claimed") ~> ~Is(i, "claimed")

-----------------------------------------------------------------------------
\* What the protocol promises of every store, told by the columns: they are
\* what every statement selects by.  The attempts are the record's, which is
\* what every attempt is counted from.
Abstract == INSTANCE WorkQueue WITH
  status <- [i \in Items |-> IF row[i] = None THEN "absent" ELSE row[i].state],
  holder <- [i \in Items |-> IF row[i] = None THEN None ELSE row[i].worker],
  tried  <- [i \in Items |-> IF row[i] = None THEN 0 ELSE payload[i].attempts],
  Offered <- {offer.attempts : offer \in Offers}

\* The two statements fenced on nothing, once what they were computed from is
\* gone: a claim's SETTLE whose lease the row no longer carries, and an upsert
\* that finds live what its snapshot found finished or absent.
Late(op, w) ==
  \/ /\ op = "claim"
     /\ ~(Is(w.item, "claimed") /\ row[w.item].lease_expires_at = w.blob.lease_expires_at)
  \/ op = "enqueue" /\ Live(w.item)

LateWrite ==
  \E c \in Clients : \E w \in call[c].writes :
    Late(call[c].op, w) /\ Put(call[c].op, w)

\* Nothing but such a write ever departs from the protocol.
OnlyLateWritesDepart ==
  Abstract!Init /\ [][Abstract!Next \/ LateWrite]_(Abstract!vars)

\* What was completed is claimed again by a late claim of the same item only.
OnlyLateClaimsReopen ==
  [][\A i \in Items : Is(i, "completed") /\ Is(i, "claimed")' =>
       \E c \in Clients : \E w \in call[c].writes :
         w.item = i /\ call[c].op = "claim" /\ Late("claim", w) /\ Put("claim", w)]_vars
=============================================================================
