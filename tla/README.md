# Verification of the Tesserix agent development kit

This directory holds TLA+ models of `tesserix-adk`, the TLC configurations that check them on
small instances, and TLAPS proofs that hold for every instance. Paths below are relative to
`src/tesserix_adk/` unless they begin with `docs/` or `tests/`.

    tlasany M.tla                              parse
    tlc -workers 2 -config X.cfg MCModule.tla  check one run
    tlapm M.tla                                check the proofs of a module

`PROJECT.json` lists the components, the runs, the source lines each definition stands for, the
hazards the properties aim at, what the runs found, and the theorems. Every property has a
*mutant*: a definition, commented `Mutant:`, with a plausible bug in it, under which TLC finds
that property violated.

## 1. The system

The kit is a library. An application declares an agent and a runner; the runner drives *runs*:
it asks a model, carries out the tool calls the model asks for under a set of controls, and goes
round until there is an answer. Everything that outlives a process is behind a protocol in
`core/`, with one implementation in memory (`runtime/`) and one or two durable ones
(`adapters/`, Redis and PostgreSQL). Concurrency is asyncio inside a process and replicas sharing
the stores outside it. What follows is the inventory of the parts.

### Work queue - `core/queue.py`, `runtime/queue.py`, `adapters/state.py`, `adapters/sql_state.py`

*State.* Items with a state (queued, claimed, completed, dead-lettered), the worker that holds
them, a lease, a count of attempts, a dedupe key per tenant and a position in the rotation over the
tenants. In memory a dict; in Redis a record per item and eight kinds of index over it; in
PostgreSQL columns that statements select by, with the record in a payload column beside them.
*Operations.* `enqueue`, `claim`, `heartbeat`, `complete`, `fail`, `reap` (the sweep), `adopt` (a
restarted worker gives back what it held); `get`, `dead_letters`, `stats` read.
*Hard.* In the durable stores every call is a read and a write with other clients in between; a
reply can be lost after its script ran and be retried; a worker can die between the two; leases
lapse under workers that are still going.
*Correct when.* An item is never lost nor worked on twice under one lease, one logical job is live
once, attempts are counted exactly, a tenant is not starved, and every claim ends.

### Run loop - `runtime/loop.py`, `runtime/fanout.py`, `core/run.py`, `core/hooks.py`, `core/agent.py`

*State.* A `Run` per attempt (iteration, conversation, events, status) in the memory of one worker.
*Operations.* `run`, `resume`, `resume_with_decision`. A turn asks the model, clears each call of
the answer (allowlist, authority, hooks, autonomy, approval), fans the batch out in phases, bounds
and retries each call, merges the results, and writes the frontier. At the end `_terminate` names
what has to be compensated and forgets the frontier.
*Interacts with* the checkpoint, idempotency and suspension stores (awaits between every two of its
steps), the approval transport, the budget, the tools, and the caller's cancellation token.
*Hard.* A crash between an effect and its record; a tool that raises after its effect; siblings of a
batch when one of them ends the run; two workers on one run; a human's decision that must be used
once; a body that will not stop when it is cancelled.
*Correct when.* An effect happens once, a record stands for an effect, nothing happens that nobody
granted, what outlived a failed run is named, and every attempt ends.

### Checkpoints - `core/checkpoint.py`, `runtime/checkpoint.py`

*State.* One frontier per run: the boundary it was written at, the conversation, the pending call.
*Operations.* `record`, `latest`, `forget`, `plan_resume`, `claim_resume`. A write that fails is
swallowed. *Correct when* the frontier a worker resumes from is one the run was in, and one worker
at a time resumes it.

### Approvals and suspension - `core/suspension.py`, `runtime/suspension.py`, `runtime/approvals.py`, `adapters/approvals.py`

*State.* A suspension per deferred question: its token, the call, spent or not. *Operations.* The
gate answers in its own reply, or defers; `redeem` exchanges a token for the question, once.
*Correct when* one decision buys one action, and the decision carries the run on.

### Idempotency records - `core/idempotency.py`, `runtime/idempotency.py`, `adapters/idempotency.py`

*State.* Per key: unknown, in flight, or recorded with the outcome; a lifetime. *Operations.*
`begin`, `record`, `abandon`, `forget`. *Hard.* Keys lapse while the work goes on; neither `record`
nor `abandon` asks whose the key is. *Correct when* a recorded key means the effect took place.

### Run leases - `core/lease.py`, `runtime/lease.py`, `runtime/resume.py`, `adapters/checkpoints.py`

*State.* Per run: holder, fence, expiry, over three stores; a `Leaseholder` that renews; a `Resumer`
that leases, reads the frontier and plans. *Operations.* `acquire`, `renew`, `release`, `held`.
*Hard.* A holder that pauses past its expiry and goes on. *Correct when* fences only grow and the
last acquisition is the only one that can renew.

### Spend ledgers and budgets - `core/ledger.py`, `core/ceiling.py`, `core/budget.py`, `adapters/ledger.py`, `adapters/ceiling.py`, `runtime/spend.py`, `runtime/autonomy.py`, `core/autonomy.py`

*State.* Spent and reserved amounts per tenant and window; reservations with leases; in the
coalescing wrapper, a block of budget per key from which draws are cut. *Operations.* `reserve`,
`settle`, `release`, `record_progress`, `reconcile`, `flush`. *Hard.* A draw settles after its block
was given back; a lease lapses and its owner settles late. *Correct when* what is committed stays
within the ceiling and what was spent is recorded once.

### Outbox and event delivery - `adapters/outbox.py`, `adapters/idempotent_events.py`, `adapters/dead_letters.py`, `adapters/jetstream.py`, `adapters/eventing.py`, `core/events.py`, `core/event_schema.py`

*State.* Rows waiting to be published, per run in order; a consumer group's marker per event; dead
letters. *Operations.* `publish` in the caller's transaction, `deliver` (claim, publish, mark),
`handle` (begin, handler, record), burial, replay. *Hard.* A crash after the publish and before the
mark; redelivery, reordering and a handler that fails half way. *Correct when* every event is
delivered at least once and in its run's order, and handled once per group.

### State store - `core/state.py`, `runtime/state.py`, `core/persistence.py`, `adapters/isolation.py`; `adapters/state.py` and `adapters/sql_state.py` hold its durable forms

*State.* Sessions and runs with versions. *Operations.* `put`, `patch`, `delete` with a cascade,
`list`. *Correct when* no update is lost and a session's runs go with it.

### Retries, rate limits, cancellation, activities - `runtime/retry.py`, `runtime/rate_limit.py`, `runtime/cancellation.py`, `runtime/activities.py`, `runtime/blocking.py`, `core/activities.py`

Delays and counters over one call; tokens that carry a cancellation down. The threads for blocking bodies
(`runtime/blocking.py`) have state: turns, a queue and bodies that cannot be stopped. *Correct when* a retry is
only made of what may be repeated, a cancelled scope's children are cancelled, and threads are shared by at most their number.

### Compensation and durable workflows - `core/compensation.py`, `runtime/compensation.py`, `workflows/`

*State.* What was applied, in order, and which reversals were tried. *Operations.* `record`, `mark`,
`unwind` (last first, each reversal decided once and retried). *Hard.* A crash within an unwind, a
reversal that fails. *Correct when* every outstanding action is reversed once or reported.

### Multi-agent composition - `core/dispatch.py`, `runtime/parallel.py`, `runtime/planner.py`, `runtime/supervisor.py`, `runtime/delegation.py`, `runtime/handoff.py`

Branches of agents with an aggregation rule that may stop the others early; a dependency graph run
level by level; delegation with narrowing scope and limits; a fan-out whose branches spend one run's
budget. *Correct when* the aggregate is what the rule says whatever the order of completion, a child never
holds more than its parent, and branches together stay near the ceiling each of them respects.

### The rest

Leaf services of a run (context assembly, prompts, audit, claim checks; credentials and progress
streams, which do have state and are modelled), the core vocabulary (frozen types, errors, schemas),
model access (its response cache and its client pool have state and are modelled), tools and guardrails, memory and retrieval, peer
protocols (A2A, MCP; the transport of a child process is modelled), interoperability, observability, evaluation, command line and test kit: transformations of one text
or one call, thin clients of somebody else's protocol, or reports.

## 2. The modules

| module | models | extends |
|---|---|---|
| `QueuePolicy` | `WorkItem` and `QueuePolicy` (`core/queue.py`): what an item is after each thing that happens to it | |
| `WorkQueue` | the abstract queue: what the protocol promises of every store | |
| `MemoryWorkQueue` | `runtime/queue.py`; every call one step | `QueuePolicy`, implements `WorkQueue` |
| `RedisWorkQueue` | `RedisWorkQueue` of `adapters/state.py`; every Lua script one step | `QueuePolicy`, implements `WorkQueue` but for one script |
| `PostgresWorkQueue` | `PostgresWorkQueue` of `adapters/sql_state.py`; every statement one step | `QueuePolicy`, implements `WorkQueue` but for late writes |
| `RunLoop` | the run loop with checkpoints, suspension and idempotency records | |
| `EventChannels` | what the outbox and the consumers share: the stream, the dead letters, who has what | |
| `Outbox` | `adapters/outbox.py` and the publishing half of `adapters/jetstream.py` | `EventChannels` |
| `EventConsumer` | the consuming half of `adapters/jetstream.py`, `adapters/idempotent_events.py`, `adapters/dead_letters.py` | `EventChannels` |
| `EventDelivery` | the two composed: outbox, stream, consumer group, replays | `Outbox`, `EventConsumer` |
| `RunLease` | `runtime/lease.py`, the lease stores of `adapters/checkpoints.py`, `runtime/resume.py` | |
| `SpendLedger` | the three ledgers of `adapters/ledger.py` | |
| `CoalescingLedger` | `CoalescingLedger` of the same file, over the memory ledger | `SpendLedger` |
| `Lanes` | `runtime/fanout.py`: whom a tool call waits for | |
| `Compensation` | `workflows/compensation.py` over `runtime/compensation.py` | |
| `StateStore` | the runs of the three state stores | |
| `PlanExecution` | the executor of `runtime/planner.py` | |
| `RunCredentials` | `runtime/credentials.py` | |
| `ProgressStream` | the sink of `runtime/progress.py`, the broker of `adapters/transport.py` | |
| `FanOut` | `runtime/parallel.py` under `Supervisor.delegate`, with the budgets of `core/budget.py` | |
| `ChildProcess` | `StdioTransport` of `adapters/mcp_transport.py` | |
| `AnswerCache` | `CachingProvider` of `models/cache.py` | |
| `ClientPool` | `models/pool.py`, and the requests of `models/providers/_http.py` | |
| `WorkerThreads` | `WorkerPool` of `runtime/blocking.py` | |
| `SessionStore` | the sessions of the three state stores, and the runs they own | |
| `Services` | fourteen of the modules above side by side: `RunLease` to `SessionStore`, without `CoalescingLedger` | all fourteen |
| `QueuePolicyProofs`, `MemoryWorkQueueProofs`, `RedisWorkQueueProofs`, `PostgresWorkQueueProofs`, `RunLoopProofs`, `EventDeliveryProofs`, `ServicesProofs` | proofs about the modules they are named after | each its module |
| `FiniteSetLemmas` | finite sets, sums and naturals, for the proofs | |
| `MC*` | small instances | |

### The queues

The three stores share `QueuePolicy`, as the classes do: a store decides *when* a record is written
and the policy *what* is written. `Claimed`, `Renewed`, `Completed` and `Returned` are the methods of
the same names. `claim` gives the lease it was asked for or the policy's (`Leases`, with what calls may ask for in
`AskedLeases`); renewals give the policy's. `Placed` is what `enqueue` stores: it makes an item queued and nobody's and keeps
the attempts, the time it is due and the first claim that it was handed, which `Offers` are the possibilities of: a fresh item, or a
dead letter sent again as it was read. PostgreSQL writes literals into its columns beside that record (`Columns`), so from
the first statement on a row selects by one and hands out the other.

In `MemoryWorkQueue` no method awaits between its read and its write, so each is an action;
interleaving is that of the callers and the clock.

In `RedisWorkQueue` a call of a client is one or two scripts. `ClaimScript`, `HeldThen` (for
`heartbeat`, `complete` and `fail`), `Reap` and `Adopt` are the first; they leave the `SETTLE`s still
to be run in `call[c].writes`, with the record computed from what was read *then*, the worker and the
lease score they are fenced on. `Settle` runs one of them later. `LoseReply` runs one whose reply is
lost, so that it will run again; `Crash` drops them. A `SETTLE` (`Script`, `Stands`, `Put`) does to
the seven keys what the Lua does. `UncountedReturn` names the one script that the protocol does not have: the `SETTLE` of a
heartbeat that found its item in its worker's hands and the record of the claim never written; it settles a record that still says
queued, and puts the item back in the ready set with no attempt counted. The 200 entries a scan looks at (`_SCAN`) are more than any instance
holds; counters and the ages index are left out.

`PostgresWorkQueue` has the same shape with one row: `row` is the columns, `payload` the record.
`ENQUEUE` decides by its snapshot and writes onto what has been committed since, which is why it too
has two steps; `Clash` is the partial unique index. `Unused` keeps two lease instants of one row apart
while a write knows them: the clock is a float and no two of its readings are the same, while the
model's is coarse.

### The run loop

One durable run. A worker is one attempt at it; a new attempt is a new element of `Workers`. The
variable `attempt[w]` is what the coroutine and its `Run` object hold: `step` says where in
`_drive`/`_dispatch` it is, `open` is the calls of the conversation without a tool message, `decided`
the decision carried into it, `named` the calls with an event `_to_compensate` reads. `call[w][c]` is
how far `_one_call`/`_invoke` got; `body[w][c]` says that a tool body may still act. `key`, `claim`,
`checkpoint` and `asked` are the stores. `landed`, `granted`, `mine`, `unreported` and `batches` are
observations: what took place, what a human said, and the bound.

A step is what the code does between two awaits that another actor can use. Clearing goes call by
call (`ClearUngated`, `UseDecision`, `AnsweredInline`, `Defer`, `Suspend`, `RefuseBatch`); the fan-out
interleaves the calls a phase allows (`MayEnter`); `Dispatch` takes the key and charges the call;
`Land` is the effect; `Return`, `Overdraw`, `Unrecorded`, `Declined`, `Raise`, `Abort` are the ways
back; `BackOff`, `Again`, `CancelledBackingOff` the retry; `StopShort` ends the siblings; `Merge` is the
end of `_dispatch`. A batch that `_drive` dispatched ends with an `after_tool_result` frontier; one that `_resume` dispatched
writes none (`runtime/loop.py:1338-1359`), and the frontier it was resumed from stands until the next turn. `Redeem`, `ReadFrontier`, `Claim`, `Conflict` are `resume` and
`resume_with_decision` in the code's order: the token is spent, the frontier is read, the run is
claimed.

What the model assumes and leaves out:

- The lifetime of an effect's key outlasts the run. (A lapsed key is treated as free by the code.)
- The resume claim lapses at any time after it was taken, as its 300 seconds allow. A
  `MemoryIdempotencyStore` without a clock never lets it lapse.
- A budget refuses at will; a frontier write fails at will; a store that raises does so where
  `_invoke` handles it.
- A call may wait for ever at its lane (`Enter` is owed to nobody): `Lanes` is about who is let in.
- A model call with its fallbacks, guardrails and context assembly is one step that asks, answers or
  fails. Hooks that rewrite messages, redaction, the lanes' widths and the autonomy ledger are left out.
- `StopShort` leaves a body as it is: a sibling cut while `_unwind` waits leaves its body running.

### The events

`EventDelivery` follows an event from the row the caller's transaction wrote to the last word on it.

`Outbox`: `row` is the outbox row of an event, `written` the order in which the transactions of their callers committed, `relay[r]`
what a relay has in hand. An event has an id, taken when it was inserted; ids are in any order beside the commits (`Inputs`).
`Publish` is the commit of the caller's transaction; `Claim` is the CLAIM
statement (all rows that wait of at most `Batch` runs that nobody else holds, in any order, since a `RETURNING` has none
and `_batch_of` does not sort: `Returned`); `Send` appends to the stream and counts the copies; `Unacknowledged` is a send
whose acknowledgement is lost; `Divert` is an event too large, which goes to the dead letters; `Mark`
and `Die` end a delivery. The stream deduplicates nothing older than its window, so a copy is a copy.

`EventConsumer`: `hand[h]` is a worker (or an operator with a replay) and how far it got; `marker` is
the idempotency record of the group; `failures` the attempts on record; `batch` what was fetched.
`Fetch`, `Drop`, `Begin`, `Handle`, `Raise`, `Note`, `Abandon`, `Bury`, `Poison`, `Ack`, `Nak` are the
steps of `handle` and its caller between two awaits; `Select`, `Replay`, `Replayed`, `ReplayFailed`,
`Forget` are the replay of a dead letter; `Crash` and `Lapse` are the death of a process and the end of
`ack_wait`. The handler writes in the transaction its marker is recorded in, as the class demands.

The publisher is taken in its `GUARANTEED` mode, where `publish` returns when the stream has the event.

### Services

`Services` puts fourteen parts that share no state side by side. The variable `part` says which of them
a behaviour is about; the others stay in one initial state. They are *not* composed: one run is
cheaper to read and to check than fourteen.

`RunLease`. `leaseRow` is the record of a store, `hold[w]` what `Leaseholder` believes. `Acquire`,
`Keep` (renew within the time it allows itself) and `LetGo` are the protocol; `AcquireUnheard` is an
acquire that ran and whose reply was lost; `Carry` and `LeaveHeld` are `Resumer.resume`. The memory
store forgets its fence on release and the durable ones do not.

`SpendLedger`. `held` and `charged` are the reservations and the charges of one window, `payer[p]` a run
that reserves for a lease of its choice (`HoldLeases`, longer than the window or not), reports progress and settles, for less
than it reserved or more (up to `MaxCharge`), and `told` what it got through. `heldUntil` is the lifetime of the hash in which Redis keeps
its holds, which only a grant renews. Redis and memory decide and
write in one step (`LedgerReserve`); the PostgreSQL statement reads a snapshot first (`AskPostgres`,
`LandPostgres`). `LedgerSettle` covers `settle` and `release`, again when the first reply was lost;
`Reconcile` is the sweep; `LedgerProgress` the running report; `PayerDies` leaves a hold behind.

`CoalescingLedger` puts the wrapper over the memory ledger: `DrawDown` cuts a draw from the block in
hand, `DrawAnew` gives the block back and takes another, `DrawSettle`, `DrawProgress` and `Flush` are
the rest.

`Lanes`. `laneAt[c]` says at which of its four lanes (the tenant's, the turn's, the tool's, the turn's for the tool) a call
stands. `Make` is the creation of the task by `_one_phase`, `Enter` one `acquire`, `Finish` and
`StopShort` the release of all of them. A load says which call runs inside which (`above`), in which
turn, for which tenant and of which tool; a nested turn inherits the lanes of the call it runs in.

`Compensation`. `Record` writes the step before its effect, `TakeEffect` is the effect, `KeepOutcome` the
tool's own record, `Return` and `CutShort` the two ends of `apply`. `Unwind` begins a walk, last first:
`LeaveStanding` for what cannot be reversed, `Reversed`, `ReversalRaised`, `MarkReversed`, `GiveUp` for a
reversal and its retries, `QueryRaises` for a store that will not say what happened, `Conclude` for the
account it gives. Two unwinds of one saga may overlap, and a forward call may land during one.

`StateStore`. One run with a version; a client reads (`GetRun`), puts the whole record back (`PutRun`,
which meets a `Conflict` when the version moved), patches (`PatchRun`) or deletes. The reply of a put
may be lost and the put retried.

`PlanExecution`. Two executors may carry one plan (`Execute`, `Resume`). Steps go in the topological
order the validator fixed (`Round`, `Looped`); a gated step waits for leave (`Declined`, `Cleared`); a step
with a key claims it (`ClaimKey`), acts (`StepLands`) or raises (`StepRaises`), records (`RecordOutcome`,
`RecordFails`) and writes the progress of the plan (`WriteProgress`); `Abandon`, `ExecutorDies` and
`ForgetPlan` are the other ends.

`RunCredentials`. Callers of one run ask for the credential of an audience: `ForCall` looks, `FindMinted`
and `AskAuthority` hold the lock, `TurnedAway`, `Reauthorised` and `RefreshFails` are the answers of the
authority, `Halt` latches, `Minted` stores; `CallReturns` with a rejection invalidates and goes again once
(`Invalidate`); `Suspend` and `Expires` come from outside. A credential held may be too narrow for what a
call needs (`Served`): whether it is is left open at each look.

`ProgressStream`. A run emits into a bounded queue that merges deltas when it is full (`Emit`, `Merges`);
the broker drains it into a bounded history (`Drain`); clients subscribe, read what they missed, turn
live and may disconnect (`Subscribe`, `ReadMissed`, `TurnLive`, `ReadLive`, `Disconnect`). `FinishRoom` ends
the room with the terminal event.

`FanOut`. `branch[b]` is how far a branch got, what its budget has seen spent and the limit it was cut;
`runSpent` is the run's own total, `out` in a branch the calls it has out: one call of the model, or up to `MaxParallelCalls` of a
batch of tools. A branch comes through the gate (`Through`), is refused by the latch or
the switch (`NotStarted`) or by the supervisor (`DelegateRefuses`), and is handed over with a budget:
`child` shares the ceiling and sees the run's total at each charge of its own, `sliced` cuts its limit from what is left
then and sees its own spending only (`HandOver`, `Absorbed`). `GroupBreaks` is a slice of nothing, which no
valid limit can state: the error takes the group with it. `AskModel` and `ModelReturns` are the two halves of a call of the model,
`CallTool` and `ToolAnswers` or `ToolFails` those of a tool call. `CallTool` holds the estimate, counts the call and lets the hold go
in one step, as `_invoke` does before its first await (`runtime/loop.py:3412-3415`, `_absorb`): the hold of one call is never seen by the next
of its batch, nor by another branch. A charge stands whatever it breaks. `BranchOver` is the return of the delegate, which cuts what is
out and sets the latch if the branch states no budget itself (`own`); `StopFanOut` and `BranchCancelled` are the caller's switch.

`ChildProcess`. `request[q]` is a request, `child[k]` a process with what it was asked and has not answered.
`LookForChild` and `Spawned` are the two sides of the await in `open`, so two requests may both spawn and
the newer child replaces the older in `process`. `Send` takes an id and a place in the gate; `Reply` is
delivered to whoever waits under its id, if anybody does; `GivesUp` is the deadline. `ReaderEnds` and
`ChildExits` come in either order. `Close`, `Reaped` and `CloseReturns` are the awaits of `close`.

`AnswerCache`. A caller looks (`Hit`, `Miss`, `Drop`), then leads the call for its key or waits behind the
one who does (`Joins`). `ModelAnswers` and `ModelFails` settle the future for everybody behind it (`Settled`),
`Store` comes after; `WaiterGivesUp`, `Expire` and `ForgetEntries` happen at any time.

`ClientPool`. `httpClient[i]` is a client from the day it is opened: held under its key, retiring until its
last borrower returns it, closing, closed, or forgotten because another process opened it. `Borrow` and
`GiveBack` are the two ends of `_borrowed_client`, `Retire` is `retire`. A request of the one provider looks
at the credential (`SendOut`); where that has moved since `lastKey` it retires the old key first, an await,
and goes on with what it had looked up (`RetireLast`, `SendAfter`). `Fork` follows the child, which has the pool
and none of its tasks. `ClosePool` empties the lists and `CloseClient` closes one client after the other.

`WorkerThreads`. A call has to have a turn (`turns` is the semaphore) and its body a thread; the executor, which
is the standard library's, has as many threads as there are turns. `AskForTurn`, `TakeTurn`, `ReturnBody` are `run`;
`GiveUpTurn` is `queue_seconds` or a cancellation on the way in, `CancelCall` a cancellation after it, which returns the
turn and leaves a started body on its thread. `StartBody` and `EndBody` are the threads, `ShutPool` is `aclose`.

`SessionStore`. A put makes a run live or over, in any session of its tenant or in none, whatever it was before; versions are left out, so
that a put is one that commits. The stores find the runs of a session each in its own way (`Listed`): memory by the session's id, Redis by the
set that `PUT_RUN` adds to (`Indexed`), PostgreSQL by the columns. `DeleteSession` is the method of the one and the script of the
other, a step; the statement of PostgreSQL reads (`BeginDelete`) and writes later what it saw (`EndDelete`, `DeleteRefused`), with
puts and deletions of others in between (`Unseen`); of a row changed since, READ COMMITTED looks again whose it is. `SessionExpires` is the
lifetime Redis gives a session. `ended`, `late`, `moved` and `misplaced` are observations: who was told what, which runs came after, which
changed their session, and whose runs went.

## 3. The runs

| run | instance | shows |
|---|---|---|
| `MemoryQueue` | 2 workers, 2 tenants, 3 items (2 of one job), 2 enqueues, fresh or sent again, 5 ticks, 2 attempts, a lease asked for that outlasts the longest hold | renewals cannot hold an item past `max_lease_seconds` and one lease; every claim ends; the dict implements `WorkQueue` |
| `RedisQueue` | 2 processes, 2 tenants, 3 items sent again, 3 ticks, 2 enqueues, 3 claims; crashes in any call | the five indexes agree, nothing is lost, one job is live once, turns are fair, a sweep ends no live claim, and every script is a step of `WorkQueue` but the one `UncountedReturn` names |
| `RedisQueueStuck` | 1 item, crash inside `claim` | **violated**: a claim whose worker died between `CLAIM` and `SETTLE` never ends |
| `PostgresQueue` | 2 processes, 2 items of one job, fresh or sent again, 3 ticks, crashes in `claim`, `complete`, `fail` | the record follows the columns once a claim has written it, one job is live once, sweeps spare the living, every claim ends, and only late second statements depart from `WorkQueue` |
| `RunLoopBatch` | 1 worker; batches `<<pay, note>>` and `<<ping, pay>>`; 2 batches, 1 retry | what outlives a failed attempt is named but for two gaps; a suspended run holds nothing; every attempt ends whose calls all get their lane, and every one that is cancelled |
| `RunLoopWorkers` | 3 workers, 2 gated calls, 1 batch | an effectful call lands once; records are true; every effect was granted |
| `RunLoopLostSibling` | 2 workers, a batch of two gated calls | **violated**: a resumed frontier has calls nothing answers |
| `Delivery` | 2 relays, 2 workers, 1 operator; 2 events, of one run or of two with one oversized, committed in either order of their ids | a group applies an event once; an event overtakes another of its run within one claim only; an event that left its transaction is in the outbox, the stream, the dead letters or applied; attempts are bounded; a letter leaves when its event was answered, or a replay raised for the last time; every event arrives unless its last delivery died with its worker |
| `DeliveryOrder` | 1 relay, 2 events of one run, ids in the order of the commits | **violated**: the rows of one claim are published in the order the statement returns them in |
| `Services` | per part, below | a run is carried by one worker; holds and charges pass the ceiling only by what runs spend above their own reservations, and what was told is what is charged; lanes jam only where nested calls cross; a clean unwind is clean; additions are not overwritten; a plan's steps land once, in order; a halt is final; a stream hides no gap; branches pass their run's ceiling by the batches they have out at most; a request gets its own reply, or fails with its child; no key of the cache is wedged; a call with a turn waits for a thread behind abandoned bodies only; a deleted session leaves no live run, and takes none but its own, in Redis none but its own or one that moved away |
| `ClientRotation` | 2 requests, 2 credentials, 3 clients | **violated**: the client a request is sending on closes when the credential rotates |
| `LedgerBlocks` | 2 blocks of 2, 2 draws, a ceiling of 3, one other payer | **violated**: draws outlive their block and pass the ceiling |

**Why the bounds are enough.** A queue hazard needs two actors and one item, or two items of one job,
or, for turns, one more tenant; the clock must reach the lapse of a lease and one tick more (in
`MemoryQueue`, the longest hold: two renewals); a lease asked for (`AskedLeases`) is longer than the policy's in
`MemoryQueue`, where holds are measured, another than it in `RedisQueue`, and left to the proofs in
`PostgresQueue`, which is the largest of the three; a dead letter sent again (`Offers`) brings attempts, a time it is due and a first claim of its own; a backoff of one second keeps an item waiting for a
tick; two attempts reach both the return and the burial. The Redis run lets a process die in any call,
`claim` included, and keep its name; three claims (`MaxClaims`) are one that is cut short, one of another worker and one after. In `RunLoop`
`pay` is effectful, keyed and gated; `note` keyed, serial and transient; `ping` repeatable: every kind
of tool the loop distinguishes is in a batch with one it treats otherwise, and a second batch brings
the same call back after the first. Three workers are a first, one that resumes it, and one that is
late.

In `Delivery` two events of one run show order, and two runs, one with an event too large to send, show
what does not wait for what; two relays race for a row, two workers for a delivery, and the operator
races both with a replay. Two deliveries (`MaxDeliver`) and two attempts reach the burial by either
count; one fault (`MaxFaults`) is a crash, a lost acknowledgement or a lapse, at any point; two copies in
the stream (`MaxCopies`) are an original and a duplicate. `Batch` is the number of runs a claim takes, 1; a claim takes all that
waits of them, so both events of one run.

In `Services`: three lease workers, of whom two can be stale at once, with a lease of two ticks, a
horizon of five ticks and four fences; three payers of one or two units under a ceiling of three, a window of
one tick, holds of one tick and of three and runs that spend up to three units; five calls in three loads (two runs whose nested calls cross, a call nested in
a nested call beside siblings that want its tool, and the nested calls of two siblings) with tool lanes one
wide; sagas of two steps with both reversals, with and without a store to ask, with one that nothing
takes back and with one that no reversal is paired with, two attempts each and two unwinds; two
clients of a run with four versions; plans of three steps in which the last repeats the first, in
which one has no key, and in which one waits for itself, under two executors; three callers over two
audiences; two clients of a stream of three events, a history of two and a high-water mark of one; three branches, two at a time and two
delegations at most, under a ceiling of three units with calls estimated at one that cost none to two, two of them out at once, in
four fan-outs (no slices; two slices on one key beside another worker; a slice that may find nothing left; one
slice among two that share); three requests to two children, two in flight; three callers of two cache keys; two senders over two
credentials and three clients, the third opened after a rotation there and back; four blocking calls on two threads, so that two bodies can be
abandoned with two calls behind them; two sessions of one tenant and one of another tenant under the same id, a run in each tenant that any put may move,
and one statement under way.

The counters that bound the state (`MaxTime`, `MaxEnqueues`, `MaxClaims`, `MaxBatches`, `MaxIterations`,
`MaxRetries`, `MaxCopies`, `MaxFaults`, `LeaseHorizon`, `MaxFence`, `LedgerHorizon`, `MaxCharge`, `MaxVersion`, `MaxLanded`, `MaxEntries`,
`MaxEvents`, `Spawns`, `MaxClients`, `Deleters`) are guards named in the modules. Symmetry is used over interchangeable processes and only
in runs without liveness properties. Deadlock is not checked: a clock that has reached its bound, a
run that is over, an event that was handled really stop, and lanes do jam.

**Fairness.** In the queues, time passes (`Tick`), whoever is free sweeps (`Reap`), and a call that has
started finishes unless its process dies (`Settle`): the caller of `reap` decides how
often (`core/queue.py:329`), and nobody owes the queue a claim or a heartbeat. In the run loop a live worker
goes on taking its own steps (`WF_vars(GoesOn(w))`): a coroutine that can go on is resumed. Coming into a lane is not among
them: the wait for it is outside every deadline of a call (`_one_call`, `runtime/loop.py:2571`), and `Lanes` shows crossing runs that wait for
ever; so `AttemptsEnd` speaks of attempts none of whose calls stays at its lane, and of cancelled ones, whose waits are cancelled too. It is not
assumed that effects land, that claims lapse or that humans answer. A tool that neither returns nor
raises is ended by a ceiling; the kit sets none by default (`core/config.py:265`), so `AttemptsEnd`
speaks of deployments that set `tool_call_seconds` or `run_seconds`, or whose tools return. That a
gate answers, defers or is cancelled is taken likewise. In `Delivery` the relays go on polling
(`Relaying`) and the workers go on fetching and finish what they fetched (`Working`), as the two loops
do until they are told to stop; callers, operators, faults and lapses owe nothing. `Services` states
no liveness.

### What the violations say

1. `RedisQueueStuck`: `_give_back` settles for the worker the *record* names; after a crash inside
   `claim` the record names nobody, the holders hash names the dead worker, and `SETTLE` refuses every
   sweep. PostgreSQL sweeps by columns and does not have this.
2. `RunLoopLostSibling`: `_stopped` writes one pending call of a batch that is whole in the
   conversation. Resumed, the run answers that call and asks the model again, with siblings nothing answers.
3. `DeliveryOrder`: the CLAIM of the outbox is an `UPDATE ... RETURNING` without an order, and nothing sorts the rows of a run
   before they are published. `docs/outbox.md:63-66` promises that events of a run cannot overtake each other.
4. `ClientRotation`: a provider sends on a client it has not borrowed, and the first request under the next credential closes it.
   `docs/connection-pooling.md:39` has it close "once the requests already on it have finished".
5. `LedgerBlocks`: `reserve` gives the block in hand back as soon as a draw does not fit, with or
   without draws outstanding.

### Read in the code, not the subject of a run

What follows was met while modelling. Some of it the models leave out, some of it they contain without a run
that is about it; each is worth a look by whoever owns the file.

*Queues.* `_next_in_turn` of the memory queue takes its index modulo the tenants that have work due at that
moment, so one of three tenants can be passed over again and again (`runtime/queue.py:214`;
`core/queue.py:289` promises a rotation). `complete` in Redis ignores the answer of `SETTLE`
(`adapters/state.py:453`), so a worker may be told it completed what had moved. `ENQUEUE` of a buried id
leaves it in the dead-letter set. Settles are fenced on a worker's *name*: a process restarted under its
old name passes for the old one. A lease asked for by `claim` is not held against `max_lease_seconds`, which is looked at by renewals
only. The second statement of `claim` in PostgreSQL is fenced on nothing (`adapters/sql_state.py:457`), so a late one makes a completed item
claimed again, where `docs/work-queue.md:35` says "The item is not claimable again" and the class "Every settle is fenced on the lease the
caller last saw"; `OnlyLateWritesDepart` allows it by name. After a claim that was cut short between its
scripts, a heartbeat of the same worker puts the item back uncounted (`UncountedReturn`): where the record carries a recent first claim, as
that of a dead letter sent again does; one without is taken for held since time 0 (`first_claimed_at or 0`) and returned by the book.

*Run loop.* `_invoke` charges a result before it records `TOOL_RESULT`, so a run that the charge ends does not
name the effect (`runtime/loop.py:3486`, read at `:1938`); neither does one whose call is cancelled in its backoff or
refused on a later try. `resume_with_decision` redeems the token before `claim_resume` is asked, and no path gives that five-minute
claim back (`runtime/checkpoint.py:206`): a decision that comes within five minutes of another resume is
redeemed, refused and gone, where `docs/suspension.md:9-11` has it carry the run on. A first `run()` takes no
resume claim. A budget refusal after the key was taken leaves the key held. A hook that rewrites messages
leaves the frontier's copy stale. A resumed run has lost the events of earlier attempts, so its
compensation list is that of the last attempt: `mine` is per attempt for that reason. A store error that
is not `_Terminal` leaves `_one_phase` without cancelling the siblings. A moved model is noticed after the
token is spent.

*Events.* A crash between `begin` and `record` leaves the key held past the redelivery horizon, and the
copies that come meanwhile are duplicates in flight until `max_deliver` is used up. A worker that dies on the last
delivery strands the message: the broker hands it to nobody, so nobody buries it. Two operators that
replay one poisoned event hold no claim on it. A replay whose handler raises for the last time buries the event anew, under the id that
the replay then forgets (`adapters/dead_letters.py:423`), where `docs/dead-letters.md:95` says "Failures stay put": the letter is gone.
`OnlyTheAnsweredLeave` allows that way out and shows that it is the only one. Ids of the outbox are taken at the insert, so a run whose
transactions overlap commits them out of order. `InMemoryDeadLetters` keeps one record per event id, whatever
the group. `JetStreamEventPublisher` is `BEST_EFFORT` unless told otherwise; a relay that publishes through
it marks rows published that are in a buffer.

*Leases.* Nothing fences a checkpoint write (`PUT_SQL` is unconditional), although
`docs/checkpointing.md:102-104` and `core/lease.py:32` speak of the fence; the memory store starts its fences
again at 1 after a release; two processes under one worker name both hold.

*Ledgers.* `RESERVE_SQL` under READ COMMITTED lets two reservations read the same total and both be
granted; `CeilingHolds` says nothing of PostgreSQL for that reason (`docs/ledger.md:116-118`). A row of PostgreSQL counts from when
its hold was taken, the others from when the charge was written. No ledger holds a settlement to what was reserved (`tests/test_ledger.py:74`
settles 3.00 on 1.00), nor a lease to the window (`tests/test_ledger.py:148`). Redis drops its hash of holds two windows after the last grant
(`EXPIRE` in `RESERVE`, `adapters/ledger.py:777`), with what runs had said they spent: that spend is charged to nobody, where
`docs/ledger.md` has a window not "credited with spend that did happen"; `ChargedAsTold` excuses it by that date (`Forgettable`). Windows follow each replica's clock. In the coalescing wrapper draws go on from a block
that has lapsed, and every later `reserve` or `flush` raises.
The templates `SETTLE` and `HELD_UNDER` of `adapters/ceiling.py` double their braces in plain strings, and its
PostgreSQL reserve hands back a hold that was released or has expired.

*Lanes.* Two runs whose nested calls cross wait for each other, which `docs/tool-concurrency.md:44-45` rules
out; nested siblings that inherit a lane exceed its width together.

*Compensation.* `_decided` begins a record with a lifetime of 0, which Redis refuses: the error comes out of `_reverse`
("Never raises") and the walk stops. The second record of `apply` puts back a step that was dropped. A saga
that is started again numbers its steps from the start. A retried `apply` resets an outcome that was known.
Overlapping unwinds may both reverse a step. A step applied after the walk's last read is not in
`CompensatedFailure`.

*State store.* A patch of the memory store leaves the version as it was, so a put may undo it. The PostgreSQL put
recreates a run that was deleted. In Redis a run that is deleted and made again starts its versions anew. A
patch whose reply was lost counts twice when it is retried. `LIST_RUNS` looks at four times the limit.
`PUT_RUN` of Redis adds a run to the set of the session it names and takes it out of none, so a run that was moved goes with a cascade of
the session it left. `delete_session` without the cascade purges finished runs in SQL, and in Redis keeps them and drops the set that lists them. In memory it
compares the session's id alone (`runtime/state.py:61`): a cascade removes the runs of another tenant's session of that name, and a live run
there refuses the deletion, where `core/state.py:284` says "Also remove its runs". Where the session is absent the memory store returns
before it looks at the runs. The PostgreSQL statement decides by its snapshot, so a run put meanwhile is live under a session that is gone;
so is one whose session reached the lifetime of Redis (`docs/state.md:86-89` would have neither).

*Plans.* Two steps with one tool and the same arguments share a key, so the second is answered with the
first's result and the plan completes (`docs/planning.md:106-129`). A raise after the effect lets go of the key; a crash
before the record keeps it in flight for a day. An executor that fell behind writes older results.

*Credentials.* `for_call` does not look at `_halted`; a mint under way when the run halts is stored and handed out
(`docs/credential-refresh.md:67-71`). A rejection of an old credential invalidates the new one.

*Progress.* `subscribe` returns after the backlog when the room is done, and drops what was queued for the
client meanwhile, the terminal event included (`docs/transports.md:83-95`); the model's clients know it as
`cut`. Merged deltas use up numbers, and a reader sees gaps where nothing is missing
(`docs/run-progress.md:45,52`). A `_drain` that raises never finishes its room.

*Budgets and delegation.* Branches each check the ceiling before a call and hold nothing in it for the others, so together
they pass it by what they have out, a batch of tool calls each, all of them estimated against the same remainder, because the count of a call
lets its hold go (`OverrunIsBounded` says how far; `docs/parallel.md` knows of it). `RunBudget.sliced` takes the minimum of its limits and what the parent has left when
it is cut, and a slice checks its own ceiling only: two slices taken at once overspend the parent
(`core/budget.py:518-533`, `671-681`; `docs/delegation.md`: "the run cannot spend more because it
delegated"). A slice cut when nothing is left raises a validation error, which leaves `_branch`, ends the
task group and takes the sibling branches with it. Delegated budgets carry no tenant ledger. `Supervisor._claim`
compares the names of specialists, so two branches of one specialist may write one key.

*Model cache.* When the caller that leads a fill is cancelled, those that wait for it are cancelled too; an answer in flight
when `forget` is called is stored afterwards.

*Client pool.* Only the requests the pool makes itself borrow, and no provider makes one; of a block that borrows the model shows, and
`BorrowersAreSpared` proves, what the docs promise of every request (`ClientRotation` shows that of a provider's they do not hold). `aclose` empties its lists before it closes
anything: a close that raises, or is cancelled, leaves the clients after it open for good.

*Blocking bodies.* A cancelled call gives its turn back while its body keeps the thread, so the next call gets a turn and then
waits in the executor's queue, which no deadline bounds (`docs/async-and-sync.md:83-84` has it refused after `queue_seconds`). A pool that is closed while
a call waits for its turn raises the executor's `RuntimeError`, not `WorkersBusyError`.

*MCP.* HALF_OPEN lets every call through, where `docs/mcp-resilience.md:47` says "one probe"; the retries of an
attempt do not ask the breaker again. `StdioTransport.open` looks at `_process` before it awaits the spawn, so two overlapping opens
leave a child that nobody closes (`docs/mcp-transports.md`: "no orphan survives the run"). `request` writes, and waits for the pipe to
drain, outside its deadline, so a child that stops reading its input holds a request past it. A `close` that is
cancelled midway leaves `_closed` set, and every later `close` returns at once.

## 4. The proofs

For any finite or infinite sets of clients, workers, items, tools, tenants and replies, under the
assumptions the modules name. Most are ranges and distinctness. Those that say more:

| assumption | says | because |
|---|---|---|
| `ChannelAssumption`, `LedgerAssumption`, `LaneAssumption`, `FanAssumption`, `PlanAssumption` | finitely many events, payers, calls, branches, steps | they are counted, summed or put in order; there are never infinitely many |
| `LaneAssumption` | a call is not above itself, has its callers' callers above it and their tenant; calls of one turn have the same callers and tenant | a turn is of one run, and a nested run goes with the tenant of its caller |
| `FanAssumption` | there is a greatest cost of a call | without one nothing bounds an overrun |

Hypotheses that a theorem states itself: `TurnsAreFair` finitely many tenants; `OnlyUncountedReturns`
`OwnNames`; `RedisKeepsThePromise` `OwnNames` and no such script; `PostgresKeepsThePromise` no late write; `CallsComeBackUnlessLeftBehind` no
siblings left behind; `LoneGatesComeBack` gated calls asked for one at a time; `EffectsTakePlaceOnce` and `RetriesEnd` `OneOperator`. Each is explained below.

What is recursive is proved without induction over data: finite sums are compared as the sizes of sets of
units (`Units` in `FiniteSetLemmas`), and where induction is needed over a finite set, its exceptions
have a least one (`LeastException`). `SelectSeq` has no such account, so `Outstanding` of `Compensation` is
defined by rank and `Backlog` of `ProgressStream` as a suffix.

### The queues

**`QueuePolicyProofs`** - what the methods of the policy return is a work item, and nobody's once it is
given up. All three stores rest on it.

**`MemoryWorkQueueProofs`** - `MemoryTyped`, `HoldsAreBounded`, `MemoryKeepsThePromise`. The invariant
adds that stored items are finitely many at positions of their own (`Placement`), so that the rotation and the
ordering pick an item; and that a claimed record's lease lies within `max_lease_seconds` and one lease of its
claim, or is one that claim was asked for, and that an unclaimed one names nobody (`Accounts`).

**`RedisWorkQueueProofs`** - `TypeCorrect`, `IndexesAlwaysAgree`, `NothingIsEverLost`, `DedupeHolds`,
`LiveClaimsAreSafe`, `TurnsAreFair`, `OnlyUncountedReturns`, `RedisKeepsThePromise`. The properties are not inductive because a
`SETTLE` writes what was computed earlier, by a client that has been overtaken. `IInv` adds: a pending write
that keeps the claim carries a lease and names the worker it is for, and a reap's write is fenced on a score
that had lapsed (`WritesAreSound`); a record names its holder or nobody (`RecordsMatch`), so a write that stands
is for the holder of the five indexes; a live item's dedupe key names it (`KeysNameTheLive`), so the key that an
old `SETTLE` clears is never another live item's. Each script preserves the store's half (`StoreInv`)
whoever runs it and however late; each first script establishes the other half (`CallInv`).
`CrashIn` is arbitrary, so all of them hold also with crashes inside `claim`.

`TurnsAreFair`: whoever is served goes behind every tenant (`ServedGoBehind`), so the number of times a tenant was
passed over is at most the number of those it is now ahead of.

`OnlyUncountedReturns` is the refinement of `WorkQueue`, step by step, but for one script. What has to be shown is that a script
that *stands* was computed from the claim that stands: `WritesAreFresh` says that a pending write counts attempts from the
record as it is, or will be refused (a sweep's write whose item was claimed again is fenced on a lease
shorter than the new one, `Outrun`), or is a heartbeat's whose record is not held: `UncountedReturn`. `RedisKeepsThePromise` follows: a history without
that script implements `WorkQueue`, crashes inside `claim` included. Both want `OwnNames`, since two clients under one name settle for each other
between the two scripts of a claim.

**`PostgresWorkQueueProofs`** - `PostgresTyped`, `ColumnsAreFollowed`, `OneLiveRowPerKey`, `SweepsSpare`,
`OnlyLateWrites`, `PostgresKeepsThePromise`, `FinishedUnlessClaimedLate`. A statement
is fenced on a lease. That this is enough is `OneLeaseOneWorker`: of one item, one lease is one worker's, in
the row, in what is still to be written to it and in what an adoption looked for.

The second statement of a claim is fenced on nothing, and an `ENQUEUE` goes by its snapshot. `LateWrite` is either of them where it
finds the row otherwise: the claim's lease gone, or the item live. Such a step is one the protocol does not have.
`OnlyLateWrites` says that there is no other: every step of the store is a step of
`WorkQueue`, a stutter or a late write, whatever crashes, lapses or is retried; so where none is late the store implements
the protocol (`PostgresKeepsThePromise`), and a row that goes from completed to claimed was taken by a late claim
(`FinishedUnlessClaimedLate`). `PromiseInv` adds that one lease of an item is also one count of attempts (`OneLeaseOneTry`): a fenced write that
stands was computed from the attempts the row still has.

### The run loop

**`RunLoopProofs`** - `EffectsHappenOnce`, `RecordsStayTrue`, `EndsAreReported`, `SuspensionsHoldNothing`,
`ApprovalsCoverEffects`, `TypeCorrect`, `CallsComeBackUnlessLeftBehind`, `LoneGatesComeBack`. Five invariants:

- `IInv`: an effectful call has at most one *user* (a worker that waits for it or a body that may still act), its
  key is free only while it has none and before its effect, a body has not yet had its effect, and
  it never waits for a retry (`Exclusive`); a tool that came back took effect (`Truthful`).
- `Types`: the type, and that a worker that clears a batch is at a call of it, which is what `Past` is for.
- `Books`, per worker: a call has a state only while its batch is cleared or out (`Placed`); a tool runs for a
  call that is out, or in an attempt that is cancelled or ends (`Running`); a call is cut only where the
  attempt is cancelled or a sibling ended the batch (`Halting`); what took effect, or still may, is reported
  or out (`Covered`), and what is out a second time is there for a further try (`Tried`). `NamedUnlessUnreported`
  and `SuspendedRunsHoldNothing` follow.
- `Purchases`: for a vetted call, what has landed and the decisions carried, admissions and running bodies
  together are at most what was granted.
- `AllTold`: no frontier has a call unanswered but the one it waits for, and what is open in an attempt is in the batch it
  works on. It is inductive while no suspension leaves siblings behind (`NothingLeftBehind`). The run `RunLoopLostSibling` shows
  `EveryCallCameBack` violated by such siblings; the two theorems say that nothing else violates it, and that they need a
  batch with a gated call beside another.

Most steps dispatch nothing (`Calm`) or touch one call (`Local`), and lemmas carry an invariant over each kind.

### The events

**`EventDeliveryProofs`** - `DeliveryTyped`, `EffectsTakePlaceOnce`, `RetriesEnd`, `EventsAreSomewhere`,
`RunsAreClaimedWhole`, `LettersAreAnswered`. `Base` (the type, sound relays and hands, and that nothing is anywhere that was not written)
carries all of them.

- `Exclusion`: one hand at a time acts on an event, and has the claim if it is a worker's. A replay of a poisoned event
  holds no claim, so two operators could run one handler at a time: hence `OneOperator`.
- `Counted`: the history misses no attempt of an event that may still be delivered, and a full one is not reopened.
- `Lasting`: what is settled, marked, replayed or published is applied, buried, overlooked or on the stream, and stays so.
- `InTurn`: what a relay has of a run it claimed is all of the run that was committed before it and not published. So an event overtakes
  another only from within the claim that took both (`RunsAreClaimedWhole`), which is all that is wrong with the order: `DeliveryOrder`.

`LettersAreAnswered`: a letter goes because its event was applied, or because the handler of a replay raised for the last time, and
in no other way.

### The services

**`ServicesProofs`** - for each part a type lemma and a theorem, about that part's own
specification. `PartsAreThemselves`: `Services`, which moves one part at a time and leaves the others, implements all
fourteen specifications; so `ServicesKeepTheirPromises` and `ServicesTypesCorrect` state the invariants of the parts under the
specification that the run checks. One by one:

| theorem | the strengthening |
|---|---|
| `OneWorkerCarries` | who believes in a live lease has the row, for as long as the row says (`HoldersHave`) |
| `AdditionsStay` | a copy of the version the record has is a copy of the record (`CopiesAreTrue`); a cost is bounded by its version (`CostsFit`) |
| `SessionsTake` | Redis' index lists runs of its session, or that were moved, and all that are live (`IndexServes`); a statement under way has seen every run but those since (`StatementsSee`) |
| `ChargesAreAsTold` | hold, charge and what was told agree for each run, and Redis keeps a hold for as long as two windows from its grant (`BooksAgree`) |
| `CeilingIsKept` | what each run holds, or else is charged in the window up to its reservation, sums to no more than the ceiling (`WithinCeiling`); a sweep gives back, and neither it nor a settlement counts more than was reserved |
| `HaltsLatch` | an audience's lock has one caller in it, who is the last to mint (`OneLastMint`) |
| `KeysAreShared` | inductive as it stands |
| `WaitsAreForTheAbandoned` | a turn is there to be taken or is somebody's, whose body alone may be queued (`TurnsAreKept`) |
| `BorrowersAreSpared` | a client counts its borrowers, a retiring one has some, and who borrows has an open one of its process (`LoansAreCounted`) |
| `RequestsEnd` | an id is given once, and what a child was asked under it is that request's (`IdsAreTheirs`); the child `close` goes for is sent nothing once it is gone (`ClosedForGood`) |
| `OnlyCrossingsJam` | a call is under way only inside calls that were let in (`CallersAreIn`). In a jam the call that got furthest has a nested call that waits for a tool; of those, one of the deepest waits for a tool that a caller of another of them has |
| `CleanIsClean` | what is known of a step, in the ledger, an unwind's list or the idempotency store, was found out after its call took effect; so nothing takes effect after its reversal (`SagaKept`) |
| `OverrunStaysBounded` | the branches in flight when the ceiling was reached are the last that spend; what each has spent since and may still spend, its calls that are out each at the greatest cost, is within its reach (`OutlaysAreBounded`) |
| `StreamsHideNothing`, `StreamTyped` | the sink covers the numbers from the first not posted to the last emitted, in order, and the history is the last of what was posted; a client was told, or told it would not be told, everything before the number it is at (`Knows`); a listener's backlog and then its queue cover what is left of what was posted (`YetToRead`). A gap declared is whatever lies before the first event the room kept (`StreamInv`) |
| `PlansLandOnce` | a key is one executor's at a time and in flight meanwhile; of the steps under one key at most one has an effect that stands, and then the key is not free; what is done took effect (`PlanKept`). The order an executor goes by places a step in a later round than what it waits for |

The proof of the overrun corrected the model: a cancelled call is charged what it was estimated at, so the reach of
a branch goes by the greater of estimate and cost (`CostliestCall`).

### Only model-checked

Liveness (`ClaimsEnd` of two queues, `AttemptsEnd`, `EventsArrive`): the prover has no backend for fairness and `ENABLED`.
Every invariant and action property of a passing run is stated by a theorem; the types of the parts (`ServicesTypesOK`) are proved only. Of the
five violations, theorems say of two that nothing else causes them (`CallsComeBackUnlessLeftBehind`, `RunsAreClaimedWhole`), and
of `ClientRotation` what holds for those who borrow (`BorrowersAreSpared`); `RedisQueueStuck` is about liveness, and about `CoalescingLedger`, of
which `LedgerBlocks` is the run, nothing is proved.

TLC shows `OverrunIsBounded` tight: with these fan-outs the greatest overrun it allows is reached.

## 5. Plan

Written, in this order: the queue policy and the abstract queue, the three queues, the run loop, the events
from outbox to dead letter, the services; then the proofs of each. Next:

1. Proofs: a bound on how far the blocks of `CoalescingLedger` pass the ceiling.
2. Modules not written, each small: the ceilings of `adapters/ceiling.py`, the circuit of
   `adapters/mcp_resilience.py`, best-effort publishing.

Runs are kept few, one per question: where a new module needs one, the instances that show a violation
are merged or retired first.

## 6. Not modelled, and why

Text, prompts, ranking, pattern matching and wire formats: one call over one value, where a test says as
much. Provider clients, the A2A transport, database drivers: external, present in the models as
replies that are lost and effects that land. Replay and continuation of workflows (`workflows/`) run
inside an engine that is not in this repository. Observability, evaluation and the command line report on
runs and decide nothing. The core vocabulary is frozen types, error classes and validators: it has no
steps, and what of it decides something (the queue policy, the statuses, the records) is in the module of
the part that uses it. `PROJECT.json` says of each component what is left of it.
