---------------------- MODULE PostgresWorkQueueProofs ----------------------
(* Proofs about PostgresWorkQueue, for any clients, workers, items and      *)
(* policy.                                                                  *)
EXTENDS PostgresWorkQueue, QueuePolicyProofs, WellFoundedInduction, TLAPS

-----------------------------------------------------------------------------
(* The strengthening.  A statement is fenced on a lease, and what makes the  *)
(* fence enough is that one lease of an item is one worker's: in the row, in *)
(* what is still to be written to it, and in what an adoption or a renewal   *)
(* looked for.                                                               *)

\* A record that is claimed says until when.
Dated(blob) == Held(blob) => blob.lease_expires_at \in Nat

\* What a statement about to run was fenced on when it was computed.
Sound(op, c, w) ==
  /\ Dated(w.blob)
  /\ op = "reap" => w.fence \in Nat /\ w.fence <= now
  /\ op = "adopt" => w.fence \in Nat

WritesAreSound == \A c \in Clients : \A w \in call[c].writes : Sound(call[c].op, c, w)

RowsAreDated ==
  \A i \in Items : /\ row[i] = None <=> payload[i] = None
                   /\ row[i] # None => Dated(row[i])

\* Who holds item i until `lease`, as the row has it or as a write will have it.
RowGrants(i, lease, u) ==
  Is(i, "claimed") /\ row[i].lease_expires_at = lease /\ row[i].worker = u

WriteGrants(op, c, w, lease, u) ==
  \/ Held(w.blob) /\ w.blob.lease_expires_at = lease /\ w.blob.worker = u
  \/ op \in {"adopt", "heartbeat"} /\ w.fence = lease /\ u = WorkerOf[c]

Grants(i, lease, u) ==
  \/ RowGrants(i, lease, u)
  \/ \E c \in Clients : \E w \in call[c].writes :
       w.item = i /\ WriteGrants(call[c].op, c, w, lease, u)

OneLeaseOneWorker ==
  \A i \in Items : \A lease, u, v :
    Grants(i, lease, u) /\ Grants(i, lease, v) => u = v

TurnsAreBounded == \E n \in Nat : \A t \in Tenants : turns[t] <= n

RowType ==
  /\ row \in [Items -> WorkItem \cup {None}]
  /\ payload \in [Items -> WorkItem \cup {None}]

CallType == call \in [Clients -> [op: Calls \cup {"idle"}, writes: SUBSET Write]]

RestType ==
  /\ now \in Nat
  /\ turns \in [Tenants -> Nat]
  /\ placed \in Nat
  /\ TurnsAreBounded

RowInv == RowType /\ RowsAreDated /\ RecordFollowsColumns /\ OneLivePerKey

CallInv == CallType /\ WritesAreSound

IInv == RowInv /\ CallInv /\ OneLeaseOneWorker /\ RestType

\* The columns an enqueue writes as literals are none that statements select by.
LEMMA ColumnsType ==
  ASSUME NEW op, NEW blob \in WorkItem
  PROVE  /\ Columns(op, blob) \in WorkItem /\ Columns(op, blob) # None
         /\ Selected(Columns(op, blob)) = Selected(blob)
         /\ Columns(op, blob).state = blob.state
         /\ Columns(op, blob).worker = blob.worker
         /\ Columns(op, blob).lease_expires_at = blob.lease_expires_at
         /\ op # "enqueue" => Columns(op, blob) = blob
<1>1. CASE op = "enqueue"
  <2>1. Columns(op, blob) = [blob EXCEPT !.attempts = 0, !.first_claimed_at = None]
    BY <1>1 DEF Columns
  <2>2. /\ Columns(op, blob) \in WorkItem
        /\ Columns(op, blob).state = blob.state
        /\ Columns(op, blob).worker = blob.worker
        /\ Columns(op, blob).available_at = blob.available_at
        /\ Columns(op, blob).lease_expires_at = blob.lease_expires_at
    <3>1. /\ blob.state \in WorkState /\ blob.worker \in Workers \cup {None}
          /\ blob.available_at \in Nat /\ blob.lease_expires_at \in Nat \cup {None}
          /\ blob.state = "claimed" => blob.worker # None
          /\ blob = [state |-> blob.state, worker |-> blob.worker,
                     attempts |-> blob.attempts, available_at |-> blob.available_at,
                     lease_expires_at |-> blob.lease_expires_at,
                     first_claimed_at |-> blob.first_claimed_at]
      BY DEF WorkItem
    <3>2. Columns(op, blob) =
            [state |-> blob.state, worker |-> blob.worker, attempts |-> 0,
             available_at |-> blob.available_at,
             lease_expires_at |-> blob.lease_expires_at, first_claimed_at |-> None]
      BY <2>1, <3>1
    <3> QED
      BY <3>1, <3>2 DEF WorkItem
  <2>3. Columns(op, blob) # None
    BY <2>2, NoneIsNoItem
  <2>4. Selected(Columns(op, blob)) = Selected(blob)
    BY <2>2 DEF Selected
  <2> QED
    BY <1>1, <2>2, <2>3, <2>4
<1>2. CASE op # "enqueue"
  BY <1>2, NoneIsNoItem DEF Columns
<1> QED
  BY <1>1, <1>2

LEMMA SelectedFields ==
  ASSUME NEW a, NEW b, Selected(a) = Selected(b)
  PROVE  /\ a.state = b.state /\ a.worker = b.worker
         /\ a.lease_expires_at = b.lease_expires_at
BY DEF Selected

LEMMA InitInv == Init => IInv
<1> SUFFICES ASSUME Init PROVE IInv
  OBVIOUS
<1>1. RowInv
  BY DEF Init, RowInv, RowType, RowsAreDated, RecordFollowsColumns, OneLivePerKey, Live
<1>2. CallInv
  BY DEF Init, CallInv, CallType, WritesAreSound, Idle
<1>3. OneLeaseOneWorker
  BY DEF Init, OneLeaseOneWorker, Grants, RowGrants, Is, Idle
<1>4. RestType
  BY DEF Init, RestType, TurnsAreBounded
<1> QED
  BY <1>1, <1>2, <1>3, <1>4 DEF IInv

LEMMA RowsUnchanged == ASSUME RowInv, UNCHANGED rows PROVE RowInv'
BY DEF RowInv, rows, RowType, RowsAreDated, RecordFollowsColumns, OneLivePerKey, Live, Is

LEMMA RestUnchanged ==
  ASSUME RestType, UNCHANGED <<now, turns, placed>> PROVE RestType'
BY DEF RestType, TurnsAreBounded

-----------------------------------------------------------------------------
(* A call that starts: what it is about to write is fenced on what it read,  *)
(* and grants its own worker a lease nobody else was granted.                *)

LEMMA Starting ==
  ASSUME IInv, NEW c \in Clients, NEW op \in Calls \cup {"idle"}, NEW W \in SUBSET Write,
         Start(c, op, W), UNCHANGED now, \A w \in W : Sound(op, c, w)
  PROVE  CallInv'
<1>1. /\ (call'[c] = Idle /\ W = {}) \/ call'[c] = [op |-> op, writes |-> W]
      /\ \A d \in Clients \ {c} : call'[d] = call[d]
  BY DEF IInv, CallInv, CallType, Start
<1>2. CallType'
  BY DEF IInv, CallInv, CallType, Start, Idle
<1>3. ASSUME NEW d \in Clients, NEW w \in call'[d].writes
      PROVE  Sound(call[d].op, d, w)'
  <2>1. CASE d = c
    BY <1>1, <2>1 DEF Sound, Idle
  <2>2. CASE d # c
    BY <1>1, <2>2 DEF Sound, IInv, CallInv, WritesAreSound
  <2> QED
    BY <2>1, <2>2
<1> QED
  BY <1>2, <1>3 DEF CallInv, WritesAreSound

\* What a started call grants, it grants its own worker, and nobody else was
\* granted before.
LEMMA StartingGrants ==
  ASSUME IInv, NEW c \in Clients, NEW op \in Calls \cup {"idle"}, NEW W \in SUBSET Write,
         Start(c, op, W), \A i \in Items : \A lease, u : RowGrants(i, lease, u)' =>
                            \/ RowGrants(i, lease, u)
                            \/ u = WorkerOf[c] /\ \A v : Grants(i, lease, v) => v = WorkerOf[c],
         \A w \in W : \A lease, u : WriteGrants(op, c, w, lease, u) =>
           u = WorkerOf[c] /\ \A v : Grants(w.item, lease, v) => v = WorkerOf[c]
  PROVE  OneLeaseOneWorker'
<1>1. /\ (call'[c] = Idle /\ W = {}) \/ call'[c] = [op |-> op, writes |-> W]
      /\ \A d \in Clients \ {c} : call'[d] = call[d]
  BY DEF IInv, CallInv, CallType, Start
<1>2. ASSUME NEW i \in Items, NEW lease, NEW u, Grants(i, lease, u)'
      PROVE  \/ Grants(i, lease, u)
             \/ u = WorkerOf[c] /\ \A v : Grants(i, lease, v) => v = WorkerOf[c]
  <2>1. CASE RowGrants(i, lease, u)'
    BY <2>1 DEF Grants
  <2>2. CASE \E d \in Clients : \E w \in call'[d].writes :
               w.item = i /\ WriteGrants(call'[d].op, d, w, lease, u)
    <3>1. PICK d \in Clients : \E w \in call'[d].writes :
               w.item = i /\ WriteGrants(call'[d].op, d, w, lease, u)
      BY <2>2
    <3>2. PICK w \in call'[d].writes : w.item = i /\ WriteGrants(call'[d].op, d, w, lease, u)
      BY <3>1
    <3>3. CASE d = c
      <4>1. w \in W /\ call'[c] = [op |-> op, writes |-> W]
        BY <1>1, <3>2, <3>3 DEF Idle
      <4>2. WriteGrants(op, c, w, lease, u)
        BY <3>2, <3>3, <4>1
      <4> QED
        BY <3>2, <4>1, <4>2
    <3>4. CASE d # c
      BY <1>1, <3>2, <3>4 DEF Grants
    <3> QED
      BY <3>3, <3>4
  <2> QED
    BY <1>2, <2>1, <2>2 DEF Grants, WriteGrants
<1> SUFFICES ASSUME NEW i \in Items, NEW lease, NEW u, NEW v,
                    Grants(i, lease, u)', Grants(i, lease, v)'
             PROVE  u = v
  BY DEF OneLeaseOneWorker
<1>3. Grants(i, lease, u) /\ Grants(i, lease, v) => u = v
  BY DEF IInv, OneLeaseOneWorker
<1> QED
  BY <1>2, <1>3

\* Calls whose first statement only reads.
LEMMA Reading ==
  ASSUME IInv, NEW c \in Clients, NEW op \in Calls, NEW W \in SUBSET Write,
         Start(c, op, W), UNCHANGED <<now, rows, turns, placed>>,
         \A w \in W : Sound(op, c, w),
         \A w \in W : \A lease, u : WriteGrants(op, c, w, lease, u) =>
           u = WorkerOf[c] /\ \A v : Grants(w.item, lease, v) => v = WorkerOf[c]
  PROVE  IInv'
<1>1. RowInv'
  BY RowsUnchanged DEF IInv
<1>2. CallInv'
  BY Starting
<1>3. OneLeaseOneWorker'
  <2>1. \A i \in Items : \A lease, u : RowGrants(i, lease, u)' => RowGrants(i, lease, u)
    BY DEF RowGrants, Is, rows
  <2> QED
    BY <2>1, StartingGrants
<1>4. RestType'
  BY RestUnchanged DEF IInv
<1> QED
  BY <1>1, <1>2, <1>3, <1>4 DEF IInv

LEMMA EnqueueInv == ASSUME IInv, NEW c \in Clients, NEW i \in Items, NEW offer \in Offers, EnqueueSnapshot(c, i, offer) PROVE IInv'
<1> DEFINE blob == Placed(offer, now)
           w == [item |-> i, blob |-> blob, fence |-> None]
<1>1. blob \in WorkItem /\ ~Held(blob)
  BY PlacedType DEF IInv, RestType, Held
<1> HIDE DEF blob
<1>2. w \in Write /\ Sound("enqueue", c, w)
  BY <1>1 DEF Write, Sound, Dated
<1>3. \A lease, u : ~WriteGrants("enqueue", c, w, lease, u)
  BY <1>1 DEF WriteGrants
<1>4. "enqueue" \in Calls
  BY DEF Calls
<1> HIDE DEF w
<1> QED
  BY <1>2, <1>3, <1>4, Reading DEF EnqueueSnapshot, w, blob

\* A lease that no pending write knows, and the row does not either, is nobody's.
LEMMA UnusedIsUngranted ==
  ASSUME IInv, NEW i \in Items, NEW lease, NEW worker, Unused(i, lease),
         \A u : RowGrants(i, lease, u) => u = worker
  PROVE  \A u : Grants(i, lease, u) => u = worker
BY DEF Unused, Grants, WriteGrants

LEMMA HoldingIsRow ==
  ASSUME IInv, NEW c \in Clients, NEW i \in Items, Holding(c, i)
  PROVE  /\ Is(i, "claimed") /\ row[i] \in WorkItem /\ payload[i] \in WorkItem
         /\ payload[i].worker = WorkerOf[c] /\ payload[i].lease_expires_at \in Nat
         /\ row[i].worker = WorkerOf[c]
         /\ row[i].lease_expires_at = payload[i].lease_expires_at
<1>1. payload[i] # None /\ Held(payload[i]) /\ payload[i].worker = WorkerOf[c]
  BY DEF Holding
<1>2. row[i] # None /\ row[i] \in WorkItem /\ payload[i] \in WorkItem
  BY <1>1 DEF IInv, RowInv, RowType, RowsAreDated
<1>3. Selected(row[i]) = Selected(payload[i])
  BY <1>1 DEF IInv, RowInv, RecordFollowsColumns, Held
<1>4. /\ row[i].state = payload[i].state /\ row[i].worker = payload[i].worker
      /\ row[i].lease_expires_at = payload[i].lease_expires_at
  BY <1>3, SelectedFields
<1>5. Is(i, "claimed") /\ row[i].lease_expires_at \in Nat
  BY <1>1, <1>2, <1>4 DEF Is, Held, IInv, RowInv, RowsAreDated, Dated
<1> QED
  BY <1>1, <1>2, <1>4, <1>5

LEMMA SettlingInv ==
  ASSUME IInv, NEW c \in Clients, NEW i \in Items, NEW op \in Calls \ {"reap", "adopt"},
         NEW blob \in WorkItem,
         Holding(c, i), HoldingThen(c, i, op, blob), Dated(blob),
         Held(blob) => /\ blob.worker = WorkerOf[c]
                       /\ Unused(i, blob.lease_expires_at)
  PROVE  IInv'
<1> DEFINE w == [item |-> i, blob |-> blob, fence |-> payload[i].lease_expires_at]
<1>1. /\ Is(i, "claimed") /\ payload[i] \in WorkItem /\ row[i].worker = WorkerOf[c]
      /\ row[i].lease_expires_at = payload[i].lease_expires_at
  BY HoldingIsRow
<1>2. w \in Write /\ Sound(op, c, w)
  BY <1>1 DEF Write, Sound, WorkItem
<1>3. ASSUME NEW lease, NEW u, WriteGrants(op, c, w, lease, u)
      PROVE  u = WorkerOf[c] /\ \A v : Grants(w.item, lease, v) => v = WorkerOf[c]
  <2>1. u = WorkerOf[c] /\ \A v : RowGrants(i, lease, v) => v = WorkerOf[c]
    BY <1>1, <1>3 DEF WriteGrants, RowGrants
  <2>2. CASE Held(blob) /\ blob.lease_expires_at = lease
    BY <2>1, <2>2, UnusedIsUngranted
  <2>3. CASE lease = payload[i].lease_expires_at
    <3>1. Grants(i, lease, WorkerOf[c])
      BY <1>1, <2>3 DEF Grants, RowGrants
    <3> QED
      BY <2>1, <3>1 DEF IInv, OneLeaseOneWorker
  <2> QED
    BY <1>3, <2>2, <2>3 DEF WriteGrants
<1> HIDE DEF w
<1> QED
  BY <1>2, <1>3, Reading DEF HoldingThen, w

LEMMA HeartbeatInv == ASSUME IInv, NEW c \in Clients, NEW i \in Items, Heartbeat(c, i) PROVE IInv'
<1>1. Holding(c, i) /\ HoldingThen(c, i, "heartbeat", Renewed(payload[i], now))
  BY DEF Heartbeat
<1>2. payload[i] \in WorkItem /\ payload[i].worker = WorkerOf[c] /\ now \in Nat
  BY <1>1, HoldingIsRow DEF IInv, RestType
<1>3. /\ Renewed(payload[i], now) \in WorkItem
      /\ Renewed(payload[i], now).worker = WorkerOf[c]
      /\ Renewed(payload[i], now).lease_expires_at \in Nat
  BY <1>2, RenewedType
<1>4. Renewed(payload[i], now).lease_expires_at = now + LeaseSeconds
  BY <1>2 DEF Renewed, WorkItem
<1>5. Unused(i, now + LeaseSeconds)
  BY DEF Heartbeat
<1> QED
  BY <1>1, <1>3, <1>4, <1>5, SettlingInv DEF Calls, Dated

LEMMA CompleteInv == ASSUME IInv, NEW c \in Clients, NEW i \in Items, Complete(c, i) PROVE IInv'
<1>1. Holding(c, i) /\ HoldingThen(c, i, "complete", Completed(payload[i]))
  BY DEF Complete
<1>2. Completed(payload[i]) \in WorkItem /\ ~Held(Completed(payload[i]))
  BY <1>1, HoldingIsRow, CompletedType
<1> QED
  BY <1>1, <1>2, SettlingInv DEF Calls, Dated

LEMMA FailInv ==
  ASSUME IInv, NEW c \in Clients, NEW i \in Items, NEW retryable \in BOOLEAN,
         Fail(c, i, retryable)
  PROVE  IInv'
<1> DEFINE blob == Returned(payload[i], now, retryable, TRUE)
<1>1. Holding(c, i) /\ HoldingThen(c, i, "fail", blob)
  BY DEF Fail
<1>2. blob \in WorkItem /\ ~Held(blob)
  BY <1>1, HoldingIsRow, ReturnedType DEF IInv, RestType
<1> HIDE DEF blob
<1> QED
  BY <1>1, <1>2, SettlingInv DEF Calls, Dated

\* Sweeps give back claimed rows, whose records are there to be given back.
LEMMA GivingBack ==
  ASSUME IInv, NEW S \in SUBSET Items, \A i \in S : Is(i, "claimed"), NEW backoff \in BOOLEAN
  PROVE  /\ GiveBacks(S, backoff) \in SUBSET Write
         /\ \A w \in GiveBacks(S, backoff) :
              /\ w.item \in S /\ w.fence = row[w.item].lease_expires_at /\ w.fence \in Nat
              /\ ~Held(w.blob)
<1> SUFFICES ASSUME NEW w \in GiveBacks(S, backoff)
             PROVE  /\ w \in Write
                    /\ w.item \in S /\ w.fence = row[w.item].lease_expires_at /\ w.fence \in Nat
                    /\ ~Held(w.blob)
  OBVIOUS
<1>0. PICK i \in S : w = [item |-> i, blob |-> Returned(payload[i], now, TRUE, backoff),
                         fence |-> row[i].lease_expires_at]
  BY DEF GiveBacks
<1>1. row[i] # None /\ Held(row[i])
  BY DEF Is, Held
<1>2. payload[i] \in WorkItem /\ row[i].lease_expires_at \in Nat
  BY <1>1 DEF IInv, RowInv, RowType, RowsAreDated, Dated
<1>3. /\ Returned(payload[i], now, TRUE, backoff) \in WorkItem
      /\ ~Held(Returned(payload[i], now, TRUE, backoff))
  BY <1>2, ReturnedType DEF IInv, RestType
<1> QED
  BY <1>0, <1>2, <1>3 DEF Write

LEMMA ReapInv == ASSUME IInv, NEW c \in Clients, Reap(c) PROVE IInv'
<1> DEFINE W == GiveBacks(Lapsed, TRUE)
<1>1. /\ W \in SUBSET Write
      /\ \A w \in W : /\ w.item \in Lapsed /\ w.fence = row[w.item].lease_expires_at
                      /\ w.fence \in Nat /\ ~Held(w.blob)
  BY GivingBack DEF Lapsed, LapsedAt, Held, Is
<1>2. \A w \in W : Sound("reap", c, w)
  BY <1>1 DEF Sound, Dated, Lapsed, LapsedAt
<1>3. \A w \in W : \A lease, u : ~WriteGrants("reap", c, w, lease, u)
  BY <1>1 DEF WriteGrants
<1>4. "reap" \in Calls /\ Start(c, "reap", W) /\ UNCHANGED <<now, rows, turns, placed>>
  BY DEF Calls, Reap
<1> HIDE DEF W
<1> QED
  BY <1>1, <1>2, <1>3, <1>4, Reading

LEMMA AdoptInv == ASSUME IInv, NEW c \in Clients, Adopt(c) PROVE IInv'
<1> DEFINE W == GiveBacks(Owned(WorkerOf[c]), FALSE)
<1>1. /\ W \in SUBSET Write
      /\ \A w \in W : /\ w.item \in Owned(WorkerOf[c])
                      /\ w.fence = row[w.item].lease_expires_at
                      /\ w.fence \in Nat /\ ~Held(w.blob)
  BY GivingBack DEF Owned
<1>2. \A w \in W : Sound("adopt", c, w)
  BY <1>1 DEF Sound, Dated
<1>3. ASSUME NEW w \in W, NEW lease, NEW u, WriteGrants("adopt", c, w, lease, u)
      PROVE  u = WorkerOf[c] /\ \A v : Grants(w.item, lease, v) => v = WorkerOf[c]
  <2>1. u = WorkerOf[c] /\ w.fence = lease
    BY <1>1, <1>3 DEF WriteGrants
  <2>2. w.item \in Items /\ RowGrants(w.item, lease, WorkerOf[c])
    BY <1>1, <2>1 DEF Owned, RowGrants
  <2>3. Grants(w.item, lease, WorkerOf[c])
    BY <2>2 DEF Grants
  <2> QED
    BY <2>1, <2>2, <2>3 DEF IInv, OneLeaseOneWorker
<1>4. "adopt" \in Calls /\ Start(c, "adopt", W) /\ UNCHANGED <<now, rows, turns, placed>>
  BY DEF Calls, Adopt
<1> HIDE DEF W
<1> QED
  BY <1>1, <1>2, <1>3, <1>4, Reading

-----------------------------------------------------------------------------
(* CLAIM, and what the later statements write.                               *)

\* The highest turn is one of the tenants', so that the next is one more.
LEMMA NextTurnType ==
  ASSUME RestType, Tenants # {}
  PROVE  NextTurn \in Nat /\ \A t \in Tenants : turns[t] <= NextTurn
<1> DEFINE reached == {turns[t] : t \in Tenants}
           above == {n \in Nat : \A t \in Tenants : turns[t] <= n}
<1>1. above \in SUBSET Nat /\ above # {}
  BY DEF RestType, TurnsAreBounded
<1>2. PICK top \in above : \A n \in above : ~(n < top)
  <2>1. PICK m \in above : \A n \in above : <<n, m>> \notin OpToRel(<, Nat)
    BY <1>1, NatLessThanWellFounded, WFMin
  <2>2. m \in Nat /\ \A n \in above : n \in Nat
    OBVIOUS
  <2>3. \A n \in above : ~(n < m)
    BY <2>1, <2>2 DEF OpToRel
  <2> QED
    BY <2>1, <2>3
<1>3. top \in Nat /\ \A t \in Tenants : turns[t] \in Nat /\ turns[t] <= top
  BY <1>2 DEF RestType
<1>4. top \in reached
  <2> SUFFICES ASSUME \A t \in Tenants : turns[t] # top PROVE FALSE
    OBVIOUS
  <2>1. \A t \in Tenants : turns[t] < top
    BY <1>3
  <2>2. top - 1 \in Nat /\ \A t \in Tenants : turns[t] <= top - 1
    BY <1>3, <2>1
  <2>3. top - 1 \in above
    BY <2>2
  <2> QED
    BY <1>2, <1>3, <2>3
<1> DEFINE highest == CHOOSE n \in reached : \A t \in Tenants : turns[t] <= n
<1>5. highest \in reached /\ \A t \in Tenants : turns[t] <= highest
  BY <1>3, <1>4
<1>6. highest \in Nat
  BY <1>3, <1>5
<1>7. NextTurn = 1 + highest
  BY DEF NextTurn
<1> HIDE DEF highest
<1> QED
  BY <1>3, <1>5, <1>6, <1>7

LEMMA ClaimInv == ASSUME IInv, NEW c \in Clients, NEW asked \in Leases, ClaimStatement(c, asked) PROVE IInv'
<1>1. PICK i \in Due :
        /\ Unused(i, now + asked)
        /\ row' = [row EXCEPT ![i] = Claimed(@, WorkerOf[c], now, asked)]
        /\ turns' = [turns EXCEPT ![TenantOf[i]] = NextTurn]
        /\ Start(c, "claim", {[item |-> i, blob |-> Claimed(payload[i], WorkerOf[c], now, asked),
                               fence |-> None]})
  BY DEF ClaimStatement
<1>2. UNCHANGED <<now, payload, placed>>
  BY DEF ClaimStatement
<1> DEFINE taken == Claimed(row[i], WorkerOf[c], now, asked)
           blob == Claimed(payload[i], WorkerOf[c], now, asked)
           w == [item |-> i, blob |-> blob, fence |-> None]
<1>3. /\ i \in Items /\ row[i] \in WorkItem /\ row[i].state = "queued" /\ row[i] # None
      /\ payload[i] \in WorkItem /\ payload[i].state = "queued"
  <2>1. i \in Items /\ row[i] \in WorkItem /\ row[i].state = "queued" /\ row[i] # None
    BY DEF Due, Is, IInv, RowInv, RowType
  <2>2. payload[i] \in WorkItem /\ Selected(row[i]) = Selected(payload[i])
    BY <2>1 DEF Is, IInv, RowInv, RowType, RowsAreDated, RecordFollowsColumns
  <2> QED
    BY <2>1, <2>2, SelectedFields
<1>4. /\ taken \in WorkItem /\ Held(taken) /\ taken.worker = WorkerOf[c]
      /\ taken.lease_expires_at \in Nat /\ taken.lease_expires_at = now + asked
      /\ blob \in WorkItem /\ Held(blob) /\ blob.worker = WorkerOf[c]
      /\ blob.lease_expires_at \in Nat /\ blob.lease_expires_at = now + asked
  <2>1. now \in Nat /\ WorkerOf[c] \in Workers
    BY PostgresAssumption DEF IInv, RestType
  <2>2. ASSUME NEW b \in WorkItem
        PROVE  LET l == Claimed(b, WorkerOf[c], now, asked)
               IN  /\ l \in WorkItem /\ Held(l) /\ l.worker = WorkerOf[c]
                   /\ l.lease_expires_at \in Nat /\ l.lease_expires_at = now + asked
    BY <2>1, ClaimedType
  <2> QED
    BY <1>3, <2>2
<1>e. row' = [row EXCEPT ![i] = taken]
  BY <1>1
<1>w. Start(c, "claim", {w})
  BY <1>1
<1> HIDE DEF taken, blob
<1>6. /\ row'[i] = taken /\ row'[i] # None
      /\ \A j \in Items \ {i} : row'[j] = row[j]
  BY <1>e, <1>3, <1>4, NoneIsNoItem DEF IInv, RowInv, RowType
<1>7. RowInv'
  <2>1. RowType'
    BY <1>2, <1>4, <1>e DEF IInv, RowInv, RowType
  <2>2. RowsAreDated'
    BY <1>2, <1>3, <1>4, <1>6, NoneIsNoItem DEF IInv, RowInv, RowsAreDated, Dated
  <2>3. RecordFollowsColumns'
    <3> SUFFICES ASSUME NEW j \in Items, row'[j] # None \/ payload'[j] # None
                 PROVE  \/ Selected(row[j])' = Selected(payload[j])'
                        \/ Is(j, "claimed")' /\ payload'[j].state = "queued"
      BY DEF RecordFollowsColumns
    <3>1. CASE j = i
      BY <1>2, <1>3, <1>4, <1>6, <3>1 DEF Is, Held
    <3>2. CASE j # i
      <4>1. row'[j] = row[j] /\ payload'[j] = payload[j]
        BY <1>2, <1>6, <3>2
      <4> QED
        BY <4>1 DEF IInv, RowInv, RecordFollowsColumns, Is, Selected
    <3> QED
      BY <3>1, <3>2
  <2>4. Live(i) /\ \A j \in Items : Live(j)' => Live(j)
    BY <1>3, <1>6, NoneIsNoItem DEF Live, Terminal
  <2>5. OneLivePerKey'
    BY <2>4 DEF IInv, RowInv, OneLivePerKey, SameJob
  <2> QED
    BY <2>1, <2>2, <2>3, <2>5 DEF RowInv
<1>8. w \in Write /\ Sound("claim", c, w)
  BY <1>3, <1>4 DEF Write, Sound, Dated
<1>9. "claim" \in Calls
  BY DEF Calls
<1>10. \A u : ~RowGrants(i, now + asked, u)
  BY <1>3 DEF RowGrants, Is
<1>11. \A u : Grants(i, now + asked, u) => u = WorkerOf[c]
  BY <1>1, <1>3, <1>10, UnusedIsUngranted
<1>12. \A j \in Items : \A lease, u : RowGrants(j, lease, u)' =>
         \/ RowGrants(j, lease, u)
         \/ u = WorkerOf[c] /\ \A v : Grants(j, lease, v) => v = WorkerOf[c]
  <2> SUFFICES ASSUME NEW j \in Items, NEW lease, NEW u, RowGrants(j, lease, u)'
               PROVE  \/ RowGrants(j, lease, u)
                      \/ u = WorkerOf[c] /\ \A v : Grants(j, lease, v) => v = WorkerOf[c]
    OBVIOUS
  <2>1. CASE j = i
    BY <1>4, <1>6, <1>11, <2>1 DEF RowGrants, Is
  <2>2. CASE j # i
    BY <1>6, <2>2 DEF RowGrants, Is
  <2> QED
    BY <2>1, <2>2
<1>13. ASSUME NEW lease, NEW u, WriteGrants("claim", c, w, lease, u)
       PROVE  u = WorkerOf[c] /\ \A v : Grants(w.item, lease, v) => v = WorkerOf[c]
  BY <1>3, <1>4, <1>11, <1>13 DEF WriteGrants
<1> HIDE DEF w
<1>14. {w} \in SUBSET Write /\ Start(c, "claim", {w})
  BY <1>w, <1>8 DEF w
<1>15. CallInv'
  BY <1>2, <1>8, <1>9, <1>14, Starting
<1>16. OneLeaseOneWorker'
  BY <1>9, <1>12, <1>13, <1>14, StartingGrants
<1>17. RestType'
  <2>1. NextTurn \in Nat /\ \A t \in Tenants : turns[t] <= NextTurn
    BY <1>3, PostgresAssumption, NextTurnType DEF IInv
  <2>2. turns \in [Tenants -> Nat] /\ turns' = [turns EXCEPT ![TenantOf[i]] = NextTurn]
    BY <1>1 DEF IInv, RestType
  <2>3. turns' \in [Tenants -> Nat]
    BY <2>1, <2>2
  <2>4. \A t \in Tenants : turns'[t] <= NextTurn
    BY <2>1, <2>2
  <2> QED
    BY <1>2, <2>1, <2>3, <2>4 DEF IInv, RestType, TurnsAreBounded
<1> QED
  BY <1>7, <1>15, <1>16, <1>17 DEF IInv

\* A write that the store lets stand.
LEMMA Writing ==
  ASSUME IInv, NEW c \in Clients, NEW w \in call[c].writes, ~Clash(w),
         Put(call[c].op, w)
  PROVE  /\ RowInv'
         /\ \A i \in Items : \A lease, u : RowGrants(i, lease, u)' => Grants(i, lease, u)
<1>1. w \in Write /\ Dated(w.blob)
  BY DEF IInv, CallInv, CallType, WritesAreSound, Sound
<1>2. w.item \in Items /\ w.blob \in WorkItem /\ w.blob # None
  BY <1>1, NoneIsNoItem DEF Write
<1> DEFINE cells == Columns(call[c].op, w.blob)
<1>c. /\ cells \in WorkItem /\ cells # None /\ Selected(cells) = Selected(w.blob)
      /\ cells.state = w.blob.state /\ cells.worker = w.blob.worker
      /\ cells.lease_expires_at = w.blob.lease_expires_at
  BY <1>2, ColumnsType
<1>p. /\ row' = [row EXCEPT ![w.item] = cells]
      /\ payload' = [payload EXCEPT ![w.item] = w.blob]
  BY DEF Put
<1> HIDE DEF cells
<1>3. /\ row'[w.item] = cells /\ payload'[w.item] = w.blob
      /\ \A i \in Items \ {w.item} : row'[i] = row[i] /\ payload'[i] = payload[i]
  BY <1>2, <1>p DEF IInv, RowInv, RowType
<1>4. RowType'
  BY <1>2, <1>c, <1>p DEF IInv, RowInv, RowType
<1>5. RowsAreDated'
  BY <1>1, <1>2, <1>3, <1>c DEF IInv, RowInv, RowsAreDated, Dated, Held
<1>6. RecordFollowsColumns'
  <2> SUFFICES ASSUME NEW i \in Items, row'[i] # None \/ payload'[i] # None
               PROVE  \/ Selected(row'[i]) = Selected(payload'[i])
                      \/ Is(i, "claimed")' /\ payload'[i].state = "queued"
    BY DEF RecordFollowsColumns, Selected
  <2>1. CASE i = w.item
    BY <1>3, <1>c, <2>1
  <2>2. CASE i # w.item
    BY <1>3, <2>2 DEF IInv, RowInv, RecordFollowsColumns, Is
  <2> QED
    BY <2>1, <2>2
<1>7. OneLivePerKey'
  <2> SUFFICES ASSUME NEW i \in Items, NEW j \in Items, i # j, SameJob(i, j),
                      Live(i)', Live(j)'
               PROVE  FALSE
    BY DEF OneLivePerKey, SameJob
  <2>1. CASE i = w.item
    BY <1>3, <1>c, <2>1 DEF Clash, Live, SameJob, Terminal
  <2>2. CASE j = w.item
    BY <1>3, <1>c, <2>2 DEF Clash, Live, SameJob, Terminal
  <2>3. CASE i # w.item /\ j # w.item
    BY <1>3, <2>3 DEF Live, IInv, RowInv, OneLivePerKey
  <2> QED
    BY <2>1, <2>2, <2>3
<1>8. ASSUME NEW i \in Items, NEW lease, NEW u, RowGrants(i, lease, u)'
      PROVE  Grants(i, lease, u)
  <2>1. CASE i = w.item
    <3>1. WriteGrants(call[c].op, c, w, lease, u)
      BY <1>3, <1>c, <1>8, <2>1 DEF RowGrants, Is, WriteGrants, Held
    <3> QED
      BY <2>1, <3>1 DEF Grants
  <2>2. CASE i # w.item
    BY <1>3, <1>8, <2>2 DEF RowGrants, Is, Grants
  <2> QED
    BY <2>1, <2>2
<1> QED
  BY <1>4, <1>5, <1>6, <1>7, <1>8 DEF RowInv

LEMMA SettleInv == ASSUME IInv, NEW c \in Clients, Settle(c) PROVE IInv'
<1>1. PICK w \in call[c].writes :
        /\ IF Writes(call[c].op, w) THEN Put(call[c].op, w) ELSE UNCHANGED rows
        /\ placed' \in {placed, placed + 1}
        /\ Start(c, call[c].op, call[c].writes \ {w})
  BY DEF Settle
<1>2. UNCHANGED <<now, turns>>
  BY DEF Settle
<1> DEFINE W == call[c].writes \ {w}
<1>3. /\ call[c].op \in Calls \cup {"idle"} /\ W \in SUBSET Write
      /\ \A x \in W : x \in call[c].writes /\ x.item \in Items /\ Sound(call[c].op, c, x)
  BY DEF IInv, CallInv, CallType, Write, WritesAreSound
<1>4. /\ RowInv'
      /\ \A i \in Items : \A lease, u : RowGrants(i, lease, u)' => Grants(i, lease, u)
  <2>1. CASE Writes(call[c].op, w)
    BY <1>1, <2>1, Writing DEF Writes
  <2>2. CASE ~Writes(call[c].op, w)
    BY <1>1, <2>2, RowsUnchanged DEF IInv, rows, RowGrants, Grants, Is
  <2> QED
    BY <2>1, <2>2
<1>5. CallInv'
  BY <1>1, <1>2, <1>3, Starting
<1>6. OneLeaseOneWorker'
  <2>1. /\ call'[c] = Idle \/ call'[c] = [op |-> call[c].op, writes |-> W]
        /\ \A d \in Clients \ {c} : call'[d] = call[d]
    BY <1>1 DEF IInv, CallInv, CallType, Start
  <2>2. ASSUME NEW i \in Items, NEW lease, NEW u, Grants(i, lease, u)'
        PROVE  Grants(i, lease, u)
    <3>1. CASE RowGrants(i, lease, u)'
      BY <1>4, <3>1
    <3>2. CASE ~RowGrants(i, lease, u)'
      <4>1. PICK d \in Clients : \E x \in call'[d].writes :
               x.item = i /\ WriteGrants(call'[d].op, d, x, lease, u)
        BY <2>2, <3>2 DEF Grants, WriteGrants
      <4>2. PICK x \in call'[d].writes : x.item = i /\ WriteGrants(call'[d].op, d, x, lease, u)
        BY <4>1
      <4>3. x \in call[d].writes /\ call'[d].op = call[d].op
        BY <2>1, <4>2 DEF Idle
      <4> QED
        BY <4>2, <4>3 DEF Grants
    <3> QED
      BY <3>1, <3>2
  <2> QED
    BY <2>2 DEF IInv, OneLeaseOneWorker
<1>7. RestType'
  BY <1>1, <1>2 DEF IInv, RestType, TurnsAreBounded
<1> QED
  BY <1>4, <1>5, <1>6, <1>7 DEF IInv

LEMMA CallsUnchanged ==
  ASSUME IInv, UNCHANGED call, now' \in Nat, now' >= now PROVE CallInv'
<1>1. CallType'
  BY DEF IInv, CallInv, CallType
<1>2. ASSUME NEW c \in Clients, NEW w \in call[c].writes PROVE Sound(call[c].op, c, w)'
  <2>1. Sound(call[c].op, c, w)
    BY DEF IInv, CallInv, WritesAreSound
  <2> QED
    BY <2>1 DEF Sound, IInv, RestType
<1> QED
  BY <1>1, <1>2 DEF CallInv, WritesAreSound

LEMMA LoseReplyInv == ASSUME IInv, NEW c \in Clients, LoseReply(c) PROVE IInv'
<1>1. PICK w \in call[c].writes : Writes(call[c].op, w) /\ Put(call[c].op, w)
  BY DEF LoseReply
<1>2. UNCHANGED <<now, turns, call, placed>>
  BY DEF LoseReply
<1>3. /\ RowInv'
      /\ \A i \in Items : \A lease, u : RowGrants(i, lease, u)' => Grants(i, lease, u)
  BY <1>1, Writing DEF Writes
<1>4. \A i \in Items : \A lease, u : Grants(i, lease, u)' => Grants(i, lease, u)
  BY <1>2, <1>3 DEF Grants, WriteGrants
<1>5. OneLeaseOneWorker'
  BY <1>4 DEF IInv, OneLeaseOneWorker
<1>6. CallInv'
  BY <1>2, CallsUnchanged DEF IInv, RestType
<1>7. RestType'
  BY <1>2, RestUnchanged DEF IInv
<1> QED
  BY <1>3, <1>5, <1>6, <1>7 DEF IInv

LEMMA CrashInv == ASSUME IInv, NEW c \in Clients, Crash(c) PROVE IInv'
<1>1. call[c].op \in Calls /\ call' = [call EXCEPT ![c] = Idle]
  BY PostgresAssumption DEF Crash
<1>2. UNCHANGED <<now, rows, turns, placed>>
  BY DEF Crash
<1>3. Start(c, call[c].op, {})
  BY <1>1 DEF Start
<1> QED
  BY <1>1, <1>2, <1>3, Reading

LEMMA TickInv == ASSUME IInv, Tick PROVE IInv'
<1>1. RowInv'
  BY RowsUnchanged DEF IInv, Tick
<1>2. now \in Nat /\ now' = now + 1 /\ UNCHANGED <<rows, turns, call, placed>>
  BY DEF Tick, IInv, RestType
<1>3. CallInv'
  BY <1>2, CallsUnchanged
<1>4. OneLeaseOneWorker'
  BY <1>2 DEF IInv, OneLeaseOneWorker, Grants, RowGrants, WriteGrants, Is, rows
<1>5. RestType'
  BY <1>2 DEF IInv, RestType, TurnsAreBounded
<1> QED
  BY <1>1, <1>3, <1>4, <1>5 DEF IInv

LEMMA StutterInv == ASSUME IInv, UNCHANGED vars PROVE IInv'
<1>1. RowInv'
  BY RowsUnchanged DEF IInv, vars
<1>2. CallInv'
  BY CallsUnchanged DEF IInv, RestType, vars
<1>3. OneLeaseOneWorker'
  BY DEF IInv, OneLeaseOneWorker, Grants, RowGrants, WriteGrants, Is, rows, vars
<1>4. RestType'
  BY RestUnchanged DEF IInv, vars
<1> QED
  BY <1>1, <1>2, <1>3, <1>4 DEF IInv

LEMMA NextInv == IInv /\ [Next]_vars => IInv'
<1> SUFFICES ASSUME IInv, [Next]_vars PROVE IInv'
  OBVIOUS
<1>1. ASSUME NEW c \in Clients, ClientStep(c) PROVE IInv'
  BY <1>1, ClaimInv, EnqueueInv, HeartbeatInv, CompleteInv, FailInv, ReapInv, AdoptInv,
     SettleInv, LoseReplyInv, CrashInv DEF ClientStep
<1> QED
  BY <1>1, TickInv, StutterInv DEF Next

LEMMA Invariance == Spec => []IInv
BY InitInv, NextInv, PTL DEF Spec

-----------------------------------------------------------------------------
(* The theorems.                                                             *)

\* Every variable stays within its type.
THEOREM PostgresTyped == Spec => []TypeOK
<1>1. IInv => TypeOK
  BY DEF IInv, RowInv, RowType, CallInv, CallType, RestType, TypeOK
<1> QED
  BY <1>1, Invariance, PTL

\* The columns statements select by and the record they hand out differ only
\* between a claim's two statements, whatever crashes, is retried or overtaken.
THEOREM ColumnsAreFollowed == Spec => []RecordFollowsColumns
<1>1. IInv => RecordFollowsColumns
  BY DEF IInv, RowInv
<1> QED
  BY <1>1, Invariance, PTL

\* However enqueues race, no two live rows are the same job of one tenant.
THEOREM OneLiveRowPerKey == Spec => []OneLivePerKey
<1>1. IInv => OneLivePerKey
  BY DEF IInv, RowInv
<1> QED
  BY <1>1, Invariance, PTL

\* A sweep that lost its race writes nothing: the row it would give back has
\* lapsed or is its own worker's.
THEOREM SweepsSpare == Spec => []SweepSparesTheLiving
<1>1. ASSUME IInv PROVE SweepSparesTheLiving
  <2> SUFFICES ASSUME NEW c \in Clients, NEW w \in call[c].writes,
                      call[c].op \in {"reap", "adopt"}, Writes(call[c].op, w),
                      Is(w.item, "claimed")
               PROVE  LapsedAt(row[w.item], now) \/ WorkerOf[c] = row[w.item].worker
    BY DEF SweepSparesTheLiving
  <2>1. w.item \in Items /\ Sound(call[c].op, c, w)
    BY <1>1 DEF IInv, CallInv, CallType, Write, WritesAreSound
  <2>2. w.fence \in Nat /\ row[w.item].lease_expires_at = w.fence
    BY <2>1, NoneAssumption DEF Sound, Writes, Stands
  <2>3. CASE call[c].op = "reap"
    BY <2>1, <2>2, <2>3, NoneAssumption DEF Sound, LapsedAt, Held, Is
  <2>4. CASE call[c].op = "adopt"
    <3>1. Grants(w.item, w.fence, WorkerOf[c])
      BY <2>4 DEF Grants, WriteGrants
    <3>2. Grants(w.item, w.fence, row[w.item].worker)
      BY <2>2 DEF Grants, RowGrants
    <3> QED
      BY <1>1, <2>1, <3>1, <3>2 DEF IInv, OneLeaseOneWorker
  <2> QED
    BY <2>3, <2>4
<1> QED
  BY <1>1, Invariance, PTL

-----------------------------------------------------------------------------
(* The protocol's promise.  A fence tells a stale statement from one whose   *)
(* claim still stands: a lease of an item also stands for one count of       *)
(* attempts, so that what is written costs exactly the attempt it was        *)
(* computed to cost.  Only the two statements without a fence can be late.   *)

\* What each call has yet to write.
Fresh(op, c, w) ==
  /\ op \in Calls
  /\ op = "enqueue" => /\ w.blob.state = "queued" /\ w.fence = None
                     /\ w.blob.attempts \in {offer.attempts : offer \in Offers}
  /\ op = "claim" => Held(w.blob) /\ w.fence = None
  /\ op = "heartbeat" => Held(w.blob) /\ w.blob.worker = WorkerOf[c]
  /\ op \in Calls \ {"enqueue", "claim", "heartbeat"} => ~Held(w.blob)
  /\ op \in Calls \ {"enqueue", "claim"} =>
       w.fence \in Nat /\ (w.blob.state = "queued" => w.blob.attempts < MaxAttempts)

\* An item nobody holds names nobody and no lease.
Nobodys(blob) == ~Held(blob) => blob.worker = None /\ blob.lease_expires_at = None

WritesAreFresh ==
  \A c \in Clients : \A w \in call[c].writes : Fresh(call[c].op, c, w) /\ Nobodys(w.blob)

RowsAreFresh == \A i \in Items : row[i] # None => Nobodys(row[i])

\* The attempts of the claim a write was computed from.
Before(w) ==
  IF w.blob.state \in {"claimed", "completed"} THEN w.blob.attempts ELSE w.blob.attempts - 1

RowTries(i, lease, n) ==
  Is(i, "claimed") /\ row[i].lease_expires_at = lease /\ payload[i].attempts = n

WriteTries(w, lease, n) ==
  \/ Held(w.blob) /\ w.blob.lease_expires_at = lease /\ w.blob.attempts = n
  \/ w.fence # None /\ w.fence = lease /\ Before(w) = n

TriedUnder(i, lease, n) ==
  \/ RowTries(i, lease, n)
  \/ \E c \in Clients : \E w \in call[c].writes : w.item = i /\ WriteTries(w, lease, n)

OneLeaseOneTry ==
  \A i \in Items : \A lease, m, n : TriedUnder(i, lease, m) /\ TriedUnder(i, lease, n) => m = n

\* Only an enqueue is about an item that may have no row.
RowsAreThere ==
  \A c \in Clients : \A w \in call[c].writes : call[c].op # "enqueue" => row[w.item] # None

PromiseInv == IInv /\ WritesAreFresh /\ RowsAreFresh /\ OneLeaseOneTry /\ RowsAreThere

\* The protocol's view of one item.
Status(i) == IF row[i] = None THEN "absent" ELSE row[i].state
Holder(i) == IF row[i] = None THEN None ELSE row[i].worker
Tried(i) == IF row[i] = None THEN 0 ELSE payload[i].attempts

Statuses == [i \in Items |-> Status(i)]
Holders == [i \in Items |-> Holder(i)]
Tries == [i \in Items |-> Tried(i)]

LEMMA InitPromise == Init => PromiseInv
<1> SUFFICES ASSUME Init PROVE PromiseInv
  OBVIOUS
<1>1. WritesAreFresh /\ RowsAreFresh /\ RowsAreThere
  BY DEF Init, Idle, WritesAreFresh, RowsAreFresh, RowsAreThere
<1>2. OneLeaseOneTry
  BY DEF Init, Idle, OneLeaseOneTry, TriedUnder, RowTries, Is
<1> QED
  BY <1>1, <1>2, InitInv DEF PromiseInv

\* A call that starts writes what it read, with one attempt more at most.
LEMMA StartingPromise ==
  ASSUME PromiseInv, NEW c \in Clients, NEW op \in Calls \cup {"idle"}, NEW W \in SUBSET Write,
         Start(c, op, W), RowsAreFresh',
         \A w \in W : Fresh(op, c, w) /\ Nobodys(w.blob),
         \A i \in Items : \A lease, n : RowTries(i, lease, n)' =>
           \/ RowTries(i, lease, n)
           \/ n = Tried(i) /\ \A m : TriedUnder(i, lease, m) => m = n,
         \A w \in W : \A lease, n : WriteTries(w, lease, n) =>
           n = Tried(w.item) /\ \A m : TriedUnder(w.item, lease, m) => m = n
  PROVE  WritesAreFresh' /\ RowsAreFresh' /\ OneLeaseOneTry'
<1>1. /\ (call'[c] = Idle /\ W = {}) \/ call'[c] = [op |-> op, writes |-> W]
      /\ \A d \in Clients \ {c} : call'[d] = call[d]
  BY DEF PromiseInv, IInv, CallInv, CallType, Start
<1>2. ASSUME NEW d \in Clients, NEW w \in call'[d].writes
      PROVE  Fresh(call[d].op, d, w)' /\ Nobodys(w.blob)'
  <2>1. CASE d = c
    BY <1>1, <2>1 DEF Fresh, Nobodys, Idle
  <2>2. CASE d # c
    BY <1>1, <2>2 DEF Fresh, Nobodys, PromiseInv, WritesAreFresh
  <2> QED
    BY <2>1, <2>2
<1>3. ASSUME NEW i \in Items, NEW lease, NEW n, TriedUnder(i, lease, n)'
      PROVE  \/ TriedUnder(i, lease, n)
             \/ n = Tried(i) /\ \A m : TriedUnder(i, lease, m) => m = n
  <2>1. CASE RowTries(i, lease, n)'
    BY <2>1 DEF TriedUnder
  <2>2. CASE \E d \in Clients : \E w \in call'[d].writes : w.item = i /\ WriteTries(w, lease, n)
    <3>1. PICK d \in Clients : \E w \in call'[d].writes : w.item = i /\ WriteTries(w, lease, n)
      BY <2>2
    <3>2. PICK w \in call'[d].writes : w.item = i /\ WriteTries(w, lease, n)
      BY <3>1
    <3>3. CASE d = c
      <4>1. w \in W
        BY <1>1, <3>2, <3>3 DEF Idle
      <4> QED
        BY <3>2, <4>1
    <3>4. CASE d # c
      BY <1>1, <3>2, <3>4 DEF TriedUnder
    <3> QED
      BY <3>3, <3>4
  <2> QED
    BY <1>3, <2>1, <2>2 DEF TriedUnder, WriteTries, Before
<1>4. OneLeaseOneTry'
  <2> SUFFICES ASSUME NEW i \in Items, NEW lease, NEW m, NEW n,
                      TriedUnder(i, lease, m)', TriedUnder(i, lease, n)'
               PROVE  m = n
    BY DEF OneLeaseOneTry
  <2>1. TriedUnder(i, lease, m) /\ TriedUnder(i, lease, n) => m = n
    BY DEF PromiseInv, OneLeaseOneTry
  <2> QED
    BY <1>3, <2>1
<1> QED
  BY <1>2, <1>4 DEF WritesAreFresh

\* A call whose first statement only reads.
LEMMA ReadingPromise ==
  ASSUME PromiseInv, NEW c \in Clients, NEW op \in Calls, NEW W \in SUBSET Write,
         Start(c, op, W), UNCHANGED rows,
         \A w \in W : Fresh(op, c, w) /\ Nobodys(w.blob),
         \A w \in W : \A lease, n : WriteTries(w, lease, n) =>
           n = Tried(w.item) /\ \A m : TriedUnder(w.item, lease, m) => m = n
  PROVE  WritesAreFresh' /\ RowsAreFresh' /\ OneLeaseOneTry'
<1>1. RowsAreFresh'
  BY DEF rows, PromiseInv, RowsAreFresh
<1>2. \A i \in Items : \A lease, n : RowTries(i, lease, n)' => RowTries(i, lease, n)
  BY DEF rows, RowTries, Is
<1> QED
  BY <1>1, <1>2, StartingPromise

LEMMA EnqueuePromise ==
  ASSUME PromiseInv, NEW c \in Clients, NEW i \in Items, NEW offer \in Offers, EnqueueSnapshot(c, i, offer)
  PROVE  WritesAreFresh' /\ RowsAreFresh' /\ OneLeaseOneTry'
<1> DEFINE blob == Placed(offer, now)
           w == [item |-> i, blob |-> blob, fence |-> None]
<1>1. /\ blob \in WorkItem /\ ~Held(blob) /\ blob.state = "queued"
      /\ blob.attempts = offer.attempts
      /\ blob.worker = None /\ blob.lease_expires_at = None
  BY PlacedType DEF PromiseInv, IInv, RestType, Held, Placed
<1>2. /\ Start(c, "enqueue", {w}) /\ UNCHANGED rows
  BY DEF EnqueueSnapshot
<1> HIDE DEF blob
<1>3. w \in Write /\ w.blob = blob /\ w.fence = None
  BY <1>1 DEF Write
<1> HIDE DEF w
<1>4. "enqueue" \in Calls /\ Fresh("enqueue", c, w) /\ Nobodys(w.blob)
  BY <1>1, <1>3 DEF Calls, Fresh, Nobodys
<1>5. \A lease, n : ~WriteTries(w, lease, n)
  BY <1>1, <1>3 DEF WriteTries
<1> QED
  BY <1>2, <1>3, <1>4, <1>5, ReadingPromise

\* A lease no write knows stands for the attempts of its row, if for any.
LEMMA UnusedIsUntried ==
  ASSUME PromiseInv, NEW i \in Items, NEW lease, Unused(i, lease), lease # None
  PROVE  \A n : TriedUnder(i, lease, n) => n = Tried(i)
BY DEF Unused, TriedUnder, WriteTries, RowTries, Is, Tried

\* The lease a row carries stands for the row's attempts.
LEMMA RowsLeaseTries ==
  ASSUME PromiseInv, NEW i \in Items, Is(i, "claimed")
  PROVE  \A n : TriedUnder(i, row[i].lease_expires_at, n) => n = Tried(i)
<1>1. TriedUnder(i, row[i].lease_expires_at, Tried(i))
  BY DEF TriedUnder, RowTries, Is, Tried
<1> QED
  BY <1>1 DEF PromiseInv, OneLeaseOneTry

\* What a settle of a held claim writes, fenced on the lease the row carries.
LEMMA SettlingPromise ==
  ASSUME PromiseInv, NEW c \in Clients, NEW i \in Items, NEW op \in Calls, NEW blob \in WorkItem,
         Holding(c, i), HoldingThen(c, i, op, blob), Nobodys(blob),
         LET w == [item |-> i, blob |-> blob, fence |-> payload[i].lease_expires_at]
         IN  Fresh(op, c, w) /\ Before(w) = payload[i].attempts,
         Held(blob) => Unused(i, blob.lease_expires_at) /\ blob.lease_expires_at # None
  PROVE  WritesAreFresh' /\ RowsAreFresh' /\ OneLeaseOneTry'
<1> DEFINE w == [item |-> i, blob |-> blob, fence |-> payload[i].lease_expires_at]
<1>1. /\ payload[i] \in WorkItem /\ Is(i, "claimed")
      /\ row[i].lease_expires_at = payload[i].lease_expires_at
  BY HoldingIsRow DEF PromiseInv
<1>2. /\ w \in Write /\ Fresh(op, c, w) /\ Before(w) = payload[i].attempts
      /\ w.item = i /\ w.blob = blob /\ w.fence = row[i].lease_expires_at
  BY <1>1 DEF Write, WorkItem
<1>3. Start(c, op, {w}) /\ UNCHANGED rows
  BY DEF HoldingThen
<1>4. Tried(i) = payload[i].attempts
  BY <1>1 DEF Tried, Is
<1> HIDE DEF w
<1>5. ASSUME NEW lease, NEW n, WriteTries(w, lease, n)
      PROVE  n = Tried(i) /\ \A m : TriedUnder(i, lease, m) => m = n
  <2>1. CASE Held(blob) /\ lease = blob.lease_expires_at
    <3>1. n = Tried(i)
      BY <1>2, <1>4, <1>5, <2>1 DEF WriteTries, Before, Held
    <3> QED
      BY <2>1, <3>1, UnusedIsUntried
  <2>2. CASE lease = row[i].lease_expires_at /\ n = Before(w)
    BY <1>1, <1>2, <1>4, <2>2, RowsLeaseTries
  <2> QED
    BY <1>2, <1>5, <2>1, <2>2 DEF WriteTries
<1> QED
  BY <1>2, <1>3, <1>5, ReadingPromise

LEMMA HeartbeatPromise ==
  ASSUME PromiseInv, NEW c \in Clients, NEW i \in Items, Heartbeat(c, i)
  PROVE  WritesAreFresh' /\ RowsAreFresh' /\ OneLeaseOneTry'
<1> DEFINE blob == Renewed(payload[i], now)
<1>1. /\ Holding(c, i) /\ HoldingThen(c, i, "heartbeat", blob)
      /\ Unused(i, now + LeaseSeconds)
  BY DEF Heartbeat
<1>2. /\ payload[i] \in WorkItem /\ payload[i].worker = WorkerOf[c] /\ now \in Nat
      /\ payload[i].lease_expires_at \in Nat /\ Held(payload[i])
  BY <1>1, HoldingIsRow DEF PromiseInv, IInv, RestType, Holding
<1>3. /\ blob \in WorkItem /\ blob.state = payload[i].state
      /\ blob.worker = payload[i].worker /\ blob.attempts = payload[i].attempts
      /\ blob.lease_expires_at = now + LeaseSeconds
      /\ blob.lease_expires_at # None
  BY <1>2, RenewedType, NoneAssumption
<1> HIDE DEF blob
<1>4. LET w == [item |-> i, blob |-> blob, fence |-> payload[i].lease_expires_at]
      IN  Fresh("heartbeat", c, w) /\ Before(w) = payload[i].attempts
  BY <1>2, <1>3 DEF Fresh, Before, Held, Calls
<1>5. Nobodys(blob) /\ "heartbeat" \in Calls
  BY <1>2, <1>3 DEF Nobodys, Held, Calls
<1> QED
  BY <1>1, <1>3, <1>4, <1>5, SettlingPromise

LEMMA CompletePromise ==
  ASSUME PromiseInv, NEW c \in Clients, NEW i \in Items, Complete(c, i)
  PROVE  WritesAreFresh' /\ RowsAreFresh' /\ OneLeaseOneTry'
<1> DEFINE blob == Completed(payload[i])
<1>1. Holding(c, i) /\ HoldingThen(c, i, "complete", blob)
  BY DEF Complete
<1>2. payload[i] \in WorkItem /\ payload[i].lease_expires_at \in Nat /\ now \in Nat
  BY <1>1, HoldingIsRow DEF PromiseInv, IInv, RestType
<1>3. /\ blob \in WorkItem /\ ~Held(blob) /\ blob.state = "completed"
      /\ blob.attempts = payload[i].attempts
      /\ blob.worker = None /\ blob.lease_expires_at = None
  BY <1>2, CompletedType, NobodysOnceOver
<1> HIDE DEF blob
<1>4. LET w == [item |-> i, blob |-> blob, fence |-> payload[i].lease_expires_at]
      IN  Fresh("complete", c, w) /\ Before(w) = payload[i].attempts
  BY <1>2, <1>3 DEF Fresh, Before, Calls
<1>5. Nobodys(blob) /\ "complete" \in Calls
  BY <1>3 DEF Nobodys, Calls
<1> QED
  BY <1>1, <1>3, <1>4, <1>5, SettlingPromise

LEMMA FailPromise ==
  ASSUME PromiseInv, NEW c \in Clients, NEW i \in Items, NEW retryable \in BOOLEAN,
         Fail(c, i, retryable)
  PROVE  WritesAreFresh' /\ RowsAreFresh' /\ OneLeaseOneTry'
<1> DEFINE blob == Returned(payload[i], now, retryable, TRUE)
<1>1. Holding(c, i) /\ HoldingThen(c, i, "fail", blob)
  BY DEF Fail
<1>2. payload[i] \in WorkItem /\ payload[i].lease_expires_at \in Nat /\ now \in Nat
  BY <1>1, HoldingIsRow DEF PromiseInv, IInv, RestType
<1>3. /\ blob \in WorkItem /\ blob.state \notin {"claimed", "completed"}
      /\ blob.attempts = payload[i].attempts + 1
      /\ blob.state = "queued" => blob.attempts < MaxAttempts
      /\ blob.worker = None /\ blob.lease_expires_at = None
  BY <1>2, GivenBack, NobodysOnceOver
<1> HIDE DEF blob
<1>4. LET w == [item |-> i, blob |-> blob, fence |-> payload[i].lease_expires_at]
      IN  Fresh("fail", c, w) /\ Before(w) = payload[i].attempts
  BY <1>2, <1>3, AttemptsAreCounted DEF Fresh, Before, Calls, Held
<1>5. Nobodys(blob) /\ "fail" \in Calls /\ ~Held(blob)
  BY <1>3 DEF Nobodys, Calls, Held
<1> QED
  BY <1>1, <1>3, <1>4, <1>5, SettlingPromise

LEMMA SweepPromise ==
  ASSUME PromiseInv, NEW c \in Clients, NEW op \in {"reap", "adopt"}, NEW S \in SUBSET Items,
         \A i \in S : Is(i, "claimed"), NEW backoff \in BOOLEAN,
         Start(c, op, GiveBacks(S, backoff)), UNCHANGED rows
  PROVE  WritesAreFresh' /\ RowsAreFresh' /\ OneLeaseOneTry'
<1> DEFINE W == GiveBacks(S, backoff)
<1>1. W \in SUBSET Write
  BY GivingBack DEF PromiseInv
<1>2. ASSUME NEW w \in W
      PROVE  /\ Fresh(op, c, w) /\ Nobodys(w.blob) /\ w.item \in S
             /\ w.fence = row[w.item].lease_expires_at
             /\ ~Held(w.blob) /\ Before(w) = Tried(w.item)
  <2>1. PICK i \in S : w = [item |-> i, blob |-> Returned(payload[i], now, TRUE, backoff),
                            fence |-> row[i].lease_expires_at]
    BY DEF GiveBacks
  <2> DEFINE blob == Returned(payload[i], now, TRUE, backoff)
  <2>2. payload[i] \in WorkItem /\ now \in Nat /\ row[i] # None
    BY DEF PromiseInv, IInv, RestType, RowInv, RowType, RowsAreDated, RowsAreFresh, Is
  <2>3. /\ blob \in WorkItem /\ blob.state \notin {"claimed", "completed"}
        /\ blob.attempts = payload[i].attempts + 1
        /\ blob.state = "queued" => blob.attempts < MaxAttempts
        /\ blob.worker = None /\ blob.lease_expires_at = None
    BY <2>2, GivenBack, NobodysOnceOver
  <2>4. w.item = i /\ w.blob = blob /\ w.fence = row[i].lease_expires_at
    BY <2>1
  <2> HIDE DEF blob
  <2>5. w.fence \in Nat
    BY GivingBack DEF PromiseInv
  <2>6. Fresh(op, c, w) /\ Nobodys(w.blob) /\ ~Held(w.blob)
    BY <2>3, <2>4, <2>5 DEF Fresh, Nobodys, Calls, Held
  <2>7. Before(w) = Tried(w.item)
    BY <2>2, <2>3, <2>4, AttemptsAreCounted DEF Before, Tried
  <2> QED
    BY <2>4, <2>6, <2>7
<1> HIDE DEF W
<1>3. ASSUME NEW w \in W, NEW lease, NEW n, WriteTries(w, lease, n)
      PROVE  n = Tried(w.item) /\ \A m : TriedUnder(w.item, lease, m) => m = n
  <2>1. lease = row[w.item].lease_expires_at /\ n = Tried(w.item)
    BY <1>2, <1>3 DEF WriteTries
  <2> QED
    BY <1>2, <2>1, RowsLeaseTries
<1>4. op \in Calls /\ Start(c, op, W)
  BY DEF Calls, W
<1> QED
  BY <1>1, <1>2, <1>3, <1>4, ReadingPromise

LEMMA ClaimPromise ==
  ASSUME PromiseInv, NEW c \in Clients, NEW asked \in Leases, ClaimStatement(c, asked)
  PROVE  WritesAreFresh' /\ RowsAreFresh' /\ OneLeaseOneTry'
<1>1. PICK i \in Due :
        /\ Unused(i, now + asked)
        /\ row' = [row EXCEPT ![i] = Claimed(@, WorkerOf[c], now, asked)]
        /\ Start(c, "claim", {[item |-> i, blob |-> Claimed(payload[i], WorkerOf[c], now, asked),
                               fence |-> None]})
  BY DEF ClaimStatement
<1>2. /\ i \in Items /\ row[i] \in WorkItem /\ row[i].state = "queued" /\ row[i] # None
      /\ payload' = payload /\ now \in Nat /\ WorkerOf[c] \in Workers
  BY PostgresAssumption DEF ClaimStatement, Due, Is, PromiseInv, IInv, RestType, RowInv, RowType
<1>p. payload[i] \in WorkItem
  BY <1>2 DEF PromiseInv, IInv, RowInv, RowType, RowsAreDated
<1> DEFINE taken == Claimed(row[i], WorkerOf[c], now, asked)
           blob == Claimed(payload[i], WorkerOf[c], now, asked)
           w == [item |-> i, blob |-> blob, fence |-> None]
<1>3. /\ blob \in WorkItem /\ Held(blob) /\ blob.attempts = payload[i].attempts
      /\ blob.lease_expires_at = now + asked /\ blob.lease_expires_at # None
      /\ taken \in WorkItem /\ Held(taken) /\ taken.lease_expires_at = now + asked
  BY <1>2, <1>p, ClaimedType, NoneAssumption
<1>4. Start(c, "claim", {w})
  BY <1>1
<1>5. row' = [row EXCEPT ![i] = taken]
  BY <1>1
<1> HIDE DEF blob, taken
<1>6. /\ row'[i] = taken /\ taken # None /\ Tried(i) = payload[i].attempts
      /\ \A j \in Items \ {i} : row'[j] = row[j]
  BY <1>2, <1>3, <1>5, NoneIsNoItem DEF PromiseInv, IInv, RowInv, RowType, Tried
<1>7. RowsAreFresh'
  BY <1>2, <1>3, <1>6 DEF PromiseInv, RowsAreFresh, Nobodys
<1>8. w \in Write /\ w.item = i /\ w.blob = blob /\ w.fence = None
  BY <1>2, <1>3 DEF Write
<1> HIDE DEF w
<1>9. Fresh("claim", c, w) /\ Nobodys(w.blob) /\ "claim" \in Calls
  BY <1>3, <1>8 DEF Fresh, Nobodys, Calls
<1>10. \A m : TriedUnder(i, blob.lease_expires_at, m) => m = Tried(i)
  BY <1>1, <1>2, <1>3, UnusedIsUntried
<1>11. ASSUME NEW lease, NEW n, WriteTries(w, lease, n)
       PROVE  n = Tried(w.item) /\ \A m : TriedUnder(w.item, lease, m) => m = n
  BY <1>3, <1>6, <1>8, <1>10, <1>11 DEF WriteTries
<1>12. ASSUME NEW j \in Items, NEW lease, NEW n, RowTries(j, lease, n)'
       PROVE  \/ RowTries(j, lease, n)
              \/ n = Tried(j) /\ \A m : TriedUnder(j, lease, m) => m = n
  <2>1. CASE j = i
    BY <1>2, <1>3, <1>6, <1>10, <1>12, <2>1 DEF RowTries
  <2>2. CASE j # i
    BY <1>2, <1>6, <1>12, <2>2 DEF RowTries, Is
  <2> QED
    BY <2>1, <2>2
<1> QED
  BY <1>4, <1>7, <1>8, <1>9, <1>11, <1>12, StartingPromise

\* A write the store lets stand says what it already stood for.
LEMMA WritingPromise ==
  ASSUME PromiseInv, NEW c \in Clients, NEW w \in call[c].writes, Put(call[c].op, w)
  PROVE  /\ RowsAreFresh'
         /\ \A i \in Items : \A lease, n : RowTries(i, lease, n)' => TriedUnder(i, lease, n)
<1>1. w \in Write /\ Nobodys(w.blob)
  BY DEF PromiseInv, IInv, CallInv, CallType, WritesAreFresh
<1>2. w.item \in Items /\ w.blob \in WorkItem
  BY <1>1 DEF Write
<1> DEFINE cells == Columns(call[c].op, w.blob)
<1>c. /\ cells.state = w.blob.state /\ cells.worker = w.blob.worker
      /\ cells.lease_expires_at = w.blob.lease_expires_at
  BY <1>2, ColumnsType
<1>3. /\ row'[w.item] = cells /\ payload'[w.item] = w.blob
      /\ \A i \in Items \ {w.item} : row'[i] = row[i] /\ payload'[i] = payload[i]
  BY <1>2 DEF Put, PromiseInv, IInv, RowInv, RowType
<1> HIDE DEF cells
<1>4. RowsAreFresh'
  BY <1>1, <1>2, <1>3, <1>c DEF PromiseInv, RowsAreFresh, Nobodys, Held
<1>5. ASSUME NEW i \in Items, NEW lease, NEW n, RowTries(i, lease, n)'
      PROVE  TriedUnder(i, lease, n)
  <2>1. CASE i = w.item
    BY <1>3, <1>c, <1>5, <2>1 DEF RowTries, Is, TriedUnder, WriteTries, Held
  <2>2. CASE i # w.item
    BY <1>3, <1>5, <2>2 DEF RowTries, Is, TriedUnder
  <2> QED
    BY <2>1, <2>2
<1> QED
  BY <1>4, <1>5

\* Nobody writes what it was not about to.
CallsShrink ==
  \A d \in Clients : /\ call'[d].writes \in SUBSET call[d].writes
                     /\ call'[d].writes # {} => call'[d].op = call[d].op

LEMMA ShrinkingPromise ==
  ASSUME PromiseInv, CallsShrink, RowsAreFresh',
         \A i \in Items : \A lease, n : RowTries(i, lease, n)' => TriedUnder(i, lease, n)
  PROVE  WritesAreFresh' /\ RowsAreFresh' /\ OneLeaseOneTry'
<1>1. ASSUME NEW d \in Clients, NEW x \in call'[d].writes
      PROVE  Fresh(call[d].op, d, x)' /\ Nobodys(x.blob)'
  <2>1. x \in call[d].writes /\ call'[d].op = call[d].op
    BY <1>1 DEF CallsShrink
  <2> QED
    BY <2>1 DEF PromiseInv, WritesAreFresh, Fresh, Nobodys
<1>2. ASSUME NEW i \in Items, NEW lease, NEW n, TriedUnder(i, lease, n)'
      PROVE  TriedUnder(i, lease, n)
  <2>1. CASE RowTries(i, lease, n)'
    BY <2>1
  <2>2. CASE \E d \in Clients : \E x \in call'[d].writes : x.item = i /\ WriteTries(x, lease, n)
    BY <2>2 DEF CallsShrink, TriedUnder
  <2> QED
    BY <1>2, <2>1, <2>2 DEF TriedUnder, WriteTries, Before
<1>3. OneLeaseOneTry'
  BY <1>2 DEF PromiseInv, OneLeaseOneTry
<1> QED
  BY <1>1, <1>3 DEF WritesAreFresh

LEMMA StillPromise ==
  ASSUME PromiseInv, CallsShrink, UNCHANGED rows
  PROVE  WritesAreFresh' /\ RowsAreFresh' /\ OneLeaseOneTry'
<1>1. RowsAreFresh'
  BY DEF rows, PromiseInv, RowsAreFresh
<1>2. \A i \in Items : \A lease, n : RowTries(i, lease, n)' => TriedUnder(i, lease, n)
  BY DEF rows, RowTries, Is, TriedUnder
<1> QED
  BY <1>1, <1>2, ShrinkingPromise

LEMMA SettlePromise ==
  ASSUME PromiseInv, NEW c \in Clients, Settle(c)
  PROVE  WritesAreFresh' /\ RowsAreFresh' /\ OneLeaseOneTry'
<1>1. PICK w \in call[c].writes :
        /\ IF Writes(call[c].op, w) THEN Put(call[c].op, w) ELSE UNCHANGED rows
        /\ Start(c, call[c].op, call[c].writes \ {w})
  BY DEF Settle
<1>2. CallsShrink
  BY <1>1 DEF Start, Idle, CallsShrink, PromiseInv, IInv, CallInv, CallType
<1> QED
  BY <1>1, <1>2, WritingPromise, ShrinkingPromise, StillPromise

\* No statement deletes a row.
LEMMA RowsStay ==
  ASSUME PromiseInv, [Next]_vars, NEW i \in Items, row[i] # None PROVE row'[i] # None
<1>1. ASSUME NEW c \in Clients, NEW asked \in Leases, ClaimStatement(c, asked) PROVE row'[i] # None
  <2>1. PICK j \in Due : row' = [row EXCEPT ![j] = Claimed(@, WorkerOf[c], now, asked)]
    BY <1>1 DEF ClaimStatement
  <2>2. row[j] \in WorkItem /\ Claimed(row[j], WorkerOf[c], now, asked) \in WorkItem
    BY ClaimedType, PostgresAssumption
       DEF Due, Is, PromiseInv, IInv, RestType, RowInv, RowType
  <2> QED
    BY <2>1, <2>2, NoneIsNoItem DEF PromiseInv, IInv, RowInv, RowType
<1>2. ASSUME NEW c \in Clients, NEW w \in call[c].writes, Put(call[c].op, w) PROVE row'[i] # None
  <2>1. w \in Write /\ w.item \in Items /\ Columns(call[c].op, w.blob) # None
    BY ColumnsType DEF Write, PromiseInv, IInv, CallInv, CallType
  <2> QED
    BY <1>2, <2>1 DEF Put, PromiseInv, IInv, RowInv, RowType
<1>3. ASSUME NEW c \in Clients, Settle(c) \/ LoseReply(c) PROVE row'[i] # None
  BY <1>2, <1>3 DEF Settle, LoseReply, rows
<1>4. CASE UNCHANGED rows
  BY <1>4 DEF rows
<1> QED
  BY <1>1, <1>3, <1>4 DEF Next, ClientStep, EnqueueSnapshot, Heartbeat, Complete, Fail,
                         HoldingThen, Reap, Adopt, Crash, Tick, vars

\* A call that starts, other than an enqueue, found the rows it writes to.
LEMMA StartedThere ==
  ASSUME PromiseInv, [Next]_vars, NEW c \in Clients, NEW op \in Calls \cup {"idle"},
         NEW W \in SUBSET Write, Start(c, op, W),
         op # "enqueue" => \A w \in W : row[w.item] # None
  PROVE  RowsAreThere'
<1>1. /\ (call'[c] = Idle /\ W = {}) \/ call'[c] = [op |-> op, writes |-> W]
      /\ \A d \in Clients \ {c} : call'[d] = call[d]
  BY DEF PromiseInv, IInv, CallInv, CallType, Start
<1> SUFFICES ASSUME NEW d \in Clients, NEW w \in call'[d].writes, call'[d].op # "enqueue"
             PROVE  row'[w.item] # None
  BY DEF RowsAreThere
<1>2. row[w.item] # None /\ w \in Write
  <2>1. CASE d = c
    BY <1>1, <2>1 DEF Idle
  <2>2. CASE d # c
    BY <1>1, <2>2 DEF PromiseInv, RowsAreThere, IInv, CallInv, CallType
  <2> QED
    BY <2>1, <2>2
<1> QED
  BY <1>2, RowsStay DEF Write

LEMMA ShrinkingThere ==
  ASSUME PromiseInv, [Next]_vars, CallsShrink PROVE RowsAreThere'
<1> SUFFICES ASSUME NEW d \in Clients, NEW w \in call'[d].writes, call'[d].op # "enqueue"
             PROVE  row'[w.item] # None
  BY DEF RowsAreThere
<1>1. w \in call[d].writes /\ call[d].op # "enqueue"
  BY DEF CallsShrink
<1>2. w \in Write /\ row[w.item] # None
  BY <1>1 DEF PromiseInv, RowsAreThere, IInv, CallInv, CallType
<1> QED
  BY <1>2, RowsStay DEF Write

LEMMA HoldingThere ==
  ASSUME PromiseInv, [Next]_vars, NEW c \in Clients, NEW i \in Items, NEW op \in Calls,
         NEW blob \in WorkItem, Holding(c, i), HoldingThen(c, i, op, blob)
  PROVE  RowsAreThere'
<1> DEFINE w == [item |-> i, blob |-> blob, fence |-> payload[i].lease_expires_at]
<1>1. row[i] # None /\ payload[i] \in WorkItem
  BY HoldingIsRow DEF PromiseInv, Is
<1>2. w \in Write /\ w.item = i
  BY <1>1 DEF Write, WorkItem
<1>3. Start(c, op, {w})
  BY DEF HoldingThen
<1> HIDE DEF w
<1> QED
  BY <1>1, <1>2, <1>3, StartedThere

LEMMA StepThere == ASSUME PromiseInv, [Next]_vars PROVE RowsAreThere'
<1>0. /\ now \in Nat
      /\ \A c \in Clients : \A i \in Items : Holding(c, i) => payload[i] \in WorkItem
  BY HoldingIsRow DEF PromiseInv, IInv, RestType
<1>1. ASSUME NEW c \in Clients, NEW i \in Items, NEW offer \in Offers, EnqueueSnapshot(c, i, offer) PROVE RowsAreThere'
  <2> DEFINE blob == Placed(offer, now)
             w == [item |-> i, blob |-> blob, fence |-> None]
  <2>1. Start(c, "enqueue", {w}) /\ blob \in WorkItem
    BY <1>0, <1>1, PlacedType DEF EnqueueSnapshot
  <2> HIDE DEF blob
  <2>2. w \in Write
    BY <2>1 DEF Write
  <2> HIDE DEF w
  <2> QED
    BY <2>1, <2>2, StartedThere DEF Calls
<1>2. ASSUME NEW c \in Clients, NEW asked \in Leases, ClaimStatement(c, asked) PROVE RowsAreThere'
  <2>1. PICK i \in Due :
          Start(c, "claim", {[item |-> i, blob |-> Claimed(payload[i], WorkerOf[c], now, asked),
                              fence |-> None]})
    BY <1>2 DEF ClaimStatement
  <2> DEFINE w == [item |-> i, blob |-> Claimed(payload[i], WorkerOf[c], now, asked), fence |-> None]
  <2>2. /\ i \in Items /\ row[i] # None /\ payload[i] \in WorkItem
        /\ Claimed(payload[i], WorkerOf[c], now, asked) \in WorkItem
    BY <1>0, ClaimedType, PostgresAssumption
       DEF Due, Is, PromiseInv, IInv, RowInv, RowType, RowsAreDated
  <2>3. w \in Write /\ w.item = i
    BY <2>2 DEF Write
  <2>4. Start(c, "claim", {w})
    BY <2>1
  <2> HIDE DEF w
  <2> QED
    BY <2>2, <2>3, <2>4, StartedThere DEF Calls
<1>3. ASSUME NEW c \in Clients, NEW i \in Items, Heartbeat(c, i) PROVE RowsAreThere'
  BY <1>0, <1>3, RenewedType, HoldingThere DEF Heartbeat, Calls
<1>4. ASSUME NEW c \in Clients, NEW i \in Items, Complete(c, i) PROVE RowsAreThere'
  BY <1>0, <1>4, CompletedType, HoldingThere DEF Complete, Calls
<1>5. ASSUME NEW c \in Clients, NEW i \in Items, NEW retryable \in BOOLEAN, Fail(c, i, retryable)
      PROVE  RowsAreThere'
  <2> DEFINE blob == Returned(payload[i], now, retryable, TRUE)
  <2>1. Holding(c, i) /\ HoldingThen(c, i, "fail", blob) /\ blob \in WorkItem
    BY <1>0, <1>5, GivenBack DEF Fail
  <2> HIDE DEF blob
  <2> QED
    BY <2>1, HoldingThere DEF Calls
<1>6. ASSUME NEW c \in Clients, NEW op \in {"reap", "adopt"}, NEW S \in SUBSET Items,
             \A i \in S : Is(i, "claimed"), NEW backoff \in BOOLEAN,
             Start(c, op, GiveBacks(S, backoff))
      PROVE  RowsAreThere'
  <2> DEFINE W == GiveBacks(S, backoff)
  <2>1. W \in SUBSET Write /\ \A w \in W : row[w.item] # None
    BY <1>6, GivingBack DEF PromiseInv, Is
  <2>2. Start(c, op, W)
    BY <1>6
  <2> HIDE DEF W
  <2> QED
    BY <2>1, <2>2, StartedThere DEF Calls
<1>7. ASSUME NEW c \in Clients, Reap(c) PROVE RowsAreThere'
  <2>1. Lapsed \in SUBSET Items /\ \A i \in Lapsed : Is(i, "claimed")
    BY DEF Lapsed, LapsedAt, Held, Is
  <2> QED
    BY <1>6, <1>7, <2>1 DEF Reap
<1>8. ASSUME NEW c \in Clients, Adopt(c) PROVE RowsAreThere'
  <2>1. /\ Owned(WorkerOf[c]) \in SUBSET Items
        /\ \A i \in Owned(WorkerOf[c]) : Is(i, "claimed")
    BY DEF Owned
  <2> QED
    BY <1>6, <1>8, <2>1 DEF Adopt
<1>9. ASSUME NEW c \in Clients, Settle(c) PROVE RowsAreThere'
  <2>1. CallsShrink
    BY <1>9 DEF Settle, Start, Idle, CallsShrink, PromiseInv, IInv, CallInv, CallType
  <2> QED
    BY <2>1, ShrinkingThere
<1>10. ASSUME NEW c \in Clients, Crash(c) PROVE RowsAreThere'
  <2>1. CallsShrink
    BY <1>10 DEF Crash, Idle, CallsShrink, PromiseInv, IInv, CallInv, CallType
  <2> QED
    BY <2>1, ShrinkingThere
<1>11. CASE UNCHANGED call
  BY <1>11, ShrinkingThere DEF CallsShrink
<1> QED
  BY <1>1, <1>2, <1>3, <1>4, <1>5, <1>7, <1>8, <1>9, <1>10, <1>11
     DEF Next, ClientStep, LoseReply, Tick, vars

LEMMA StepPromise == PromiseInv /\ [Next]_vars => PromiseInv'
<1> SUFFICES ASSUME PromiseInv, [Next]_vars PROVE WritesAreFresh' /\ RowsAreFresh' /\ OneLeaseOneTry'
  BY NextInv, StepThere DEF PromiseInv
<1>1. ASSUME NEW c \in Clients, Reap(c) PROVE WritesAreFresh' /\ RowsAreFresh' /\ OneLeaseOneTry'
  <2>1. Lapsed \in SUBSET Items /\ \A i \in Lapsed : Is(i, "claimed")
    BY DEF Lapsed, LapsedAt, Held, Is
  <2> QED
    BY <1>1, <2>1, SweepPromise DEF Reap
<1>2. ASSUME NEW c \in Clients, Adopt(c) PROVE WritesAreFresh' /\ RowsAreFresh' /\ OneLeaseOneTry'
  <2>1. /\ Owned(WorkerOf[c]) \in SUBSET Items
        /\ \A i \in Owned(WorkerOf[c]) : Is(i, "claimed")
    BY DEF Owned
  <2> QED
    BY <1>2, <2>1, SweepPromise DEF Adopt
<1>3. ASSUME NEW c \in Clients, LoseReply(c)
      PROVE  WritesAreFresh' /\ RowsAreFresh' /\ OneLeaseOneTry'
  <2>1. PICK w \in call[c].writes : Put(call[c].op, w)
    BY <1>3 DEF LoseReply
  <2>2. CallsShrink
    BY <1>3 DEF LoseReply, CallsShrink
  <2> QED
    BY <2>1, <2>2, WritingPromise, ShrinkingPromise
<1>4. ASSUME NEW c \in Clients, Crash(c) PROVE WritesAreFresh' /\ RowsAreFresh' /\ OneLeaseOneTry'
  <2>1. UNCHANGED rows /\ CallsShrink
    BY <1>4 DEF Crash, CallsShrink, Idle, PromiseInv, IInv, CallInv, CallType
  <2> QED
    BY <2>1, StillPromise
<1>5. CASE Tick \/ UNCHANGED vars
  <2>1. UNCHANGED rows /\ CallsShrink
    BY <1>5 DEF Tick, vars, CallsShrink
  <2> QED
    BY <2>1, StillPromise
<1> QED
  BY <1>1, <1>2, <1>3, <1>4, <1>5, ClaimPromise, EnqueuePromise, HeartbeatPromise,
     CompletePromise, FailPromise, SettlePromise DEF Next, ClientStep

SameView(i) == Status(i)' = Status(i) /\ Holder(i)' = Holder(i) /\ Tried(i)' = Tried(i)

LEMMA NothingSeen ==
  ASSUME \A i \in Items : SameView(i) PROVE UNCHANGED Abstract!vars
BY DEF SameView, Status, Holder, Tried, Abstract!vars

LEMMA ViewChanged ==
  ASSUME NEW i \in Items, NEW s, NEW u, NEW n, Status(i)' = s, Holder(i)' = u, Tried(i)' = n,
         \A j \in Items \ {i} : SameView(j)
  PROVE  /\ Statuses[i] = Status(i) /\ Statuses' = [Statuses EXCEPT ![i] = s]
         /\ Holders[i] = Holder(i) /\ Holders' = [Holders EXCEPT ![i] = u]
         /\ Tries[i] = Tried(i) /\ Tries' = [Tries EXCEPT ![i] = n]
BY DEF SameView, Statuses, Holders, Tries

LEMMA TriesKept ==
  ASSUME NEW i \in Items, Tried(i)' = Tried(i), \A j \in Items \ {i} : SameView(j)
  PROVE  Tries' = Tries
<1>1. \A j \in Items : Tried(j)' = Tried(j)
  BY DEF SameView
<1> QED
  BY <1>1 DEF Tries

LEMMA HoldersKept ==
  ASSUME NEW i \in Items, Holder(i)' = Holder(i), \A j \in Items \ {i} : SameView(j)
  PROVE  Holders' = Holders
<1>1. \A j \in Items : Holder(j)' = Holder(j)
  BY DEF SameView
<1> QED
  BY <1>1 DEF Holders

LEMMA PostgresInitRefines == Init => Abstract!Init
BY DEF Init, Abstract!Init

\* An upsert that finds its item finished or absent places it.
LEMMA UpsertRefines ==
  ASSUME PromiseInv, NEW c \in Clients, NEW w \in call[c].writes, call[c].op = "enqueue",
         ~Live(w.item), Put("enqueue", w)
  PROVE  Abstract!Next
<1> DEFINE i == w.item
<1>1. /\ w \in Write /\ Fresh("enqueue", c, w) /\ Nobodys(w.blob)
  BY DEF PromiseInv, IInv, CallInv, CallType, WritesAreFresh
<1>2. /\ i \in Items /\ w.blob \in WorkItem /\ w.blob # None
      /\ w.blob.state = "queued" /\ w.blob.worker = None
  BY <1>1, NoneIsNoItem DEF Write, Fresh, Nobodys, Held
<1>o. PICK offer \in Offers : w.blob.attempts = offer.attempts
  BY <1>1 DEF Fresh
<1> DEFINE cells == Columns("enqueue", w.blob)
           n == offer.attempts
<1>c. /\ cells.state = w.blob.state /\ cells.worker = w.blob.worker
      /\ cells # None
  BY <1>2, ColumnsType
<1>3. /\ row'[i] = cells /\ payload'[i] = w.blob
      /\ \A j \in Items \ {i} : row'[j] = row[j] /\ payload'[j] = payload[j]
  BY <1>2 DEF Put, PromiseInv, IInv, RowInv, RowType
<1> HIDE DEF cells
<1>4. /\ Status(i)' = "queued" /\ Holder(i)' = None /\ Tried(i)' = n
      /\ \A j \in Items \ {i} : SameView(j)
  BY <1>2, <1>3, <1>c, <1>o DEF Status, Holder, Tried, SameView
<1>5. Status(i) \in {"absent", "completed", "dead_lettered"} /\ Holder(i) = None
  BY <1>2 DEF Status, Holder, Live, Terminal, PromiseInv, RowsAreFresh, Nobodys, Held
<1>6. /\ Statuses[i] \in {"absent", "completed", "dead_lettered"}
      /\ Statuses' = [Statuses EXCEPT ![i] = "queued"] /\ Tries' = [Tries EXCEPT ![i] = n]
      /\ Holders' = Holders
  BY <1>2, <1>4, <1>5, ViewChanged, HoldersKept
<1>7. Abstract!Enqueue(i, n)
  BY <1>6, Zenon DEF Abstract!Enqueue, Statuses, Holders, Tries, Status, Holder, Tried
<1> QED
  BY <1>2, <1>7 DEF Abstract!Next

\* CLAIM takes an item nobody holds.
LEMMA ClaimRefines ==
  ASSUME PromiseInv, NEW c \in Clients, NEW asked \in Leases, ClaimStatement(c, asked) PROVE Abstract!Next
<1>1. PICK i \in Due : row' = [row EXCEPT ![i] = Claimed(@, WorkerOf[c], now, asked)]
  BY DEF ClaimStatement
<1>2. /\ i \in Items /\ row[i] \in WorkItem /\ row[i].state = "queued" /\ row[i] # None
      /\ now \in Nat /\ WorkerOf[c] \in Workers
  BY PostgresAssumption DEF Due, Is, PromiseInv, IInv, RestType, RowInv, RowType
<1> DEFINE blob == Claimed(row[i], WorkerOf[c], now, asked)
<1>3. /\ blob \in WorkItem /\ Held(blob) /\ blob.worker = WorkerOf[c] /\ blob # None
  <2>1. blob \in WorkItem /\ Held(blob) /\ blob.worker = WorkerOf[c]
    BY <1>2, ClaimedType
  <2> QED
    BY <2>1, NoneIsNoItem
<1>4. /\ row'[i] = blob /\ \A j \in Items \ {i} : row'[j] = row[j]
      /\ payload' = payload
  BY <1>1, <1>2 DEF ClaimStatement, PromiseInv, IInv, RowInv, RowType
<1> HIDE DEF blob
<1>5. /\ Status(i) = "queued" /\ Status(i)' = "claimed" /\ Holder(i)' = WorkerOf[c]
      /\ Tried(i)' = Tried(i) /\ \A j \in Items \ {i} : SameView(j)
  BY <1>2, <1>3, <1>4 DEF Status, Holder, Tried, SameView, Held
<1>6. /\ Statuses[i] = "queued" /\ Statuses' = [Statuses EXCEPT ![i] = "claimed"]
      /\ Holders' = [Holders EXCEPT ![i] = WorkerOf[c]] /\ Tries' = Tries
  BY <1>2, <1>5, ViewChanged, TriesKept
<1>7. Abstract!Claim(i, WorkerOf[c])
  BY <1>6, Zenon DEF Abstract!Claim, Statuses, Holders, Tries, Status, Holder, Tried
<1> QED
  BY <1>2, <1>7 DEF Abstract!Next

\* A claim's record, written while its lease is still the row's, changes
\* nothing the columns say.
LEMMA TimelyClaimRefines ==
  ASSUME PromiseInv, NEW c \in Clients, NEW w \in call[c].writes, call[c].op = "claim",
         Is(w.item, "claimed"), row[w.item].lease_expires_at = w.blob.lease_expires_at,
         Put("claim", w)
  PROVE  UNCHANGED Abstract!vars
<1> DEFINE i == w.item
<1>1. w \in Write /\ Fresh("claim", c, w)
  BY DEF PromiseInv, IInv, CallInv, CallType, WritesAreFresh
<1>2. /\ i \in Items /\ w.blob \in WorkItem /\ w.blob # None /\ Held(w.blob)
  BY <1>1, NoneIsNoItem DEF Write, Fresh
<1>3. /\ row'[i] = w.blob /\ payload'[i] = w.blob
      /\ \A j \in Items \ {i} : row'[j] = row[j] /\ payload'[j] = payload[j]
  BY <1>2 DEF Put, Columns, PromiseInv, IInv, RowInv, RowType
<1>4. row[i].worker = w.blob.worker
  <2>1. Grants(i, w.blob.lease_expires_at, row[i].worker)
    BY DEF Grants, RowGrants
  <2>2. Grants(i, w.blob.lease_expires_at, w.blob.worker)
    BY <1>2 DEF Grants, WriteGrants
  <2> QED
    BY <1>2, <2>1, <2>2 DEF PromiseInv, IInv, OneLeaseOneWorker
<1>5. payload[i].attempts = w.blob.attempts
  <2>1. TriedUnder(i, w.blob.lease_expires_at, payload[i].attempts)
    BY DEF TriedUnder, RowTries
  <2>2. TriedUnder(i, w.blob.lease_expires_at, w.blob.attempts)
    BY <1>2 DEF TriedUnder, WriteTries
  <2> QED
    BY <1>2, <2>1, <2>2 DEF PromiseInv, OneLeaseOneTry
<1>6. \A j \in Items : SameView(j)
  BY <1>2, <1>3, <1>4, <1>5 DEF SameView, Status, Holder, Tried, Is, Held
<1> QED
  BY <1>6, NothingSeen

\* A fenced write that stands ends the claim it was computed from, or renews it.
LEMMA FencedRefines ==
  ASSUME PromiseInv, NEW c \in Clients, NEW w \in call[c].writes,
         call[c].op \notin {"enqueue", "claim"}, Stands(call[c].op, w),
         Put(call[c].op, w)
  PROVE  Abstract!Next \/ UNCHANGED Abstract!vars
<1> DEFINE i == w.item
           blob == w.blob
<1>1. w \in Write /\ Fresh(call[c].op, c, w) /\ Nobodys(blob)
  BY DEF PromiseInv, IInv, CallInv, CallType, WritesAreFresh
<1>2. /\ i \in Items /\ blob \in WorkItem /\ blob # None /\ w.fence \in Nat
      /\ row[i].lease_expires_at = w.fence /\ w.fence # None
  BY <1>1, NoneIsNoItem, NoneAssumption DEF Write, Fresh, Stands
<1>3. /\ row'[i] = blob /\ payload'[i] = blob
      /\ \A j \in Items \ {i} : row'[j] = row[j] /\ payload'[j] = payload[j]
  BY <1>2 DEF Put, Columns, PromiseInv, IInv, RowInv, RowType
<1>4. \A j \in Items \ {i} : SameView(j)
  BY <1>3 DEF SameView, Status, Holder, Tried
<1>5. /\ Held(row[i]) /\ row[i] # None /\ row[i] \in WorkItem
  BY <1>1, <1>2, NoneAssumption
     DEF PromiseInv, RowsAreThere, RowsAreFresh, Nobodys, IInv, RowInv, RowType
<1>6. Before(w) = payload[i].attempts
  <2>1. TriedUnder(i, w.fence, payload[i].attempts)
    BY <1>2, <1>5 DEF TriedUnder, RowTries, Is, Held
  <2>2. TriedUnder(i, w.fence, Before(w))
    BY <1>2 DEF TriedUnder, WriteTries
  <2> QED
    BY <1>2, <2>1, <2>2 DEF PromiseInv, OneLeaseOneTry
<1>7. /\ Status(i) = "claimed" /\ Tried(i) = Before(w)
      /\ Status(i)' = blob.state /\ Holder(i)' = blob.worker /\ Tried(i)' = blob.attempts
  BY <1>2, <1>3, <1>5, <1>6 DEF Status, Holder, Tried, Held
<1>8. CASE Held(blob)
  <2>1. call[c].op = "heartbeat" /\ blob.worker = WorkerOf[c]
    BY <1>1, <1>8 DEF Fresh
  <2>2. Grants(i, w.fence, WorkerOf[c]) /\ Grants(i, w.fence, row[i].worker)
    BY <1>2, <1>5, <2>1 DEF Grants, RowGrants, WriteGrants, Is, Held
  <2>3. row[i].worker = blob.worker
    BY <1>2, <2>1, <2>2 DEF PromiseInv, IInv, OneLeaseOneWorker
  <2>4. SameView(i)
    BY <1>5, <1>7, <1>8, <2>3 DEF SameView, Before, Holder, Held
  <2> QED
    BY <1>4, <2>4, NothingSeen
<1>9. CASE ~Held(blob)
  <2>1. Holder(i)' = None /\ blob.state \in {"queued", "completed", "dead_lettered"}
    BY <1>1, <1>2, <1>7, <1>9 DEF Nobodys, Held, WorkItem, WorkState
  <2>2. Holders' = [Holders EXCEPT ![i] = None]
    BY <1>2, <1>4, <2>1, ViewChanged
  <2>3. /\ Statuses[i] = "claimed" /\ Statuses' = [Statuses EXCEPT ![i] = blob.state]
        /\ Tries[i] = Tried(i) /\ Tries' = [Tries EXCEPT ![i] = blob.attempts]
    BY <1>2, <1>4, <1>7, ViewChanged
  <2>4. CASE blob.state = "completed"
    <3>1. Tries' = Tries
      BY <1>2, <1>4, <1>7, <2>4, TriesKept DEF Before
    <3>2. Abstract!Complete(i)
      BY <2>2, <2>3, <2>4, <3>1, Zenon
         DEF Abstract!Complete, Statuses, Holders, Tries, Status, Holder, Tried
    <3> QED
      BY <1>2, <3>2 DEF Abstract!Next
  <2>5. CASE blob.state = "dead_lettered"
    <3>1. blob.attempts = Tried(i) + 1
      BY <1>2, <1>7, <2>5, AttemptsAreCounted DEF Before
    <3>2. Tries' = [Tries EXCEPT ![i] = @ + 1]
      BY <2>3, <3>1
    <3>3. Abstract!Bury(i)
      BY <2>2, <2>3, <2>5, <3>2, Zenon
         DEF Abstract!Bury, Statuses, Holders, Tries, Status, Holder, Tried
    <3> QED
      BY <1>2, <3>3 DEF Abstract!Next
  <2>6. CASE blob.state = "queued"
    <3>1. blob.attempts = Tried(i) + 1 /\ Tried(i) + 1 < MaxAttempts
      BY <1>1, <1>2, <1>7, <2>6, AttemptsAreCounted DEF Before, Fresh
    <3>2. Abstract!GiveBack({i})
      <4>1. /\ \A j \in {i} : Statuses[j] = "claimed"
            /\ Statuses' = [j \in Items |-> IF j \notin {i} THEN Statuses[j]
                                            ELSE IF Tries[j] + 1 < MaxAttempts THEN "queued"
                                            ELSE "dead_lettered"]
            /\ Holders' = [j \in Items |-> IF j \in {i} THEN None ELSE Holders[j]]
            /\ Tries' = [j \in Items |-> IF j \in {i} THEN Tries[j] + 1 ELSE Tries[j]]
        BY <1>2, <2>2, <2>3, <2>6, <3>1 DEF Statuses, Holders, Tries
      <4> QED
        BY <4>1, Zenon DEF Abstract!GiveBack, Statuses, Holders, Tries, Status, Holder, Tried
    <3>3. {i} \in SUBSET Items
      BY <1>2
    <3> QED
      BY <3>2, <3>3 DEF Abstract!Next
  <2> QED
    BY <2>1, <2>4, <2>5, <2>6
<1> QED
  BY <1>8, <1>9

LEMMA PostgresStepRefines ==
  PromiseInv /\ [Next]_vars => [Abstract!Next \/ LateWrite]_(Abstract!vars)
<1> SUFFICES ASSUME PromiseInv, [Next]_vars
             PROVE  Abstract!Next \/ LateWrite \/ UNCHANGED Abstract!vars
  OBVIOUS
<1>1. CASE UNCHANGED rows
  <2>1. \A i \in Items : SameView(i)
    BY <1>1 DEF SameView, Status, Holder, Tried, rows
  <2> QED
    BY <2>1, NothingSeen
<1>2. ASSUME NEW c \in Clients, Settle(c) \/ LoseReply(c), ~UNCHANGED rows
      PROVE  Abstract!Next \/ LateWrite \/ UNCHANGED Abstract!vars
  <2>1. PICK w \in call[c].writes : Writes(call[c].op, w) /\ Put(call[c].op, w)
    BY <1>2 DEF Settle, LoseReply
  <2>2. CASE Late(call[c].op, w)
    BY <2>1, <2>2 DEF LateWrite
  <2>3. CASE ~Late(call[c].op, w)
    <3>1. CASE call[c].op = "enqueue"
      BY <2>1, <2>3, <3>1, UpsertRefines DEF Late
    <3>2. CASE call[c].op = "claim"
      BY <2>1, <2>3, <3>2, TimelyClaimRefines DEF Late
    <3>3. CASE call[c].op \notin {"enqueue", "claim"}
      BY <2>1, <3>3, FencedRefines DEF Writes
    <3> QED
      BY <3>1, <3>2, <3>3
  <2> QED
    BY <2>2, <2>3
<1> QED
  BY <1>1, <1>2, ClaimRefines
     DEF Next, ClientStep, EnqueueSnapshot, Heartbeat, Complete, Fail, HoldingThen, Reap, Adopt,
         Crash, Tick, vars

LEMMA PromiseInvariance == Spec => []PromiseInv
BY InitPromise, StepPromise, PTL DEF Spec

\* Whatever crashes, is retried or overtaken, the store departs from the
\* protocol in two ways only: a claim's second statement that comes after its
\* lease is gone, and an upsert that finds live what its snapshot did not.
THEOREM OnlyLateWrites == Spec => OnlyLateWritesDepart
<1>1. PromiseInv /\ [Next]_vars => [Abstract!Next \/ LateWrite]_(Abstract!vars)
  BY PostgresStepRefines
<1> QED
  BY <1>1, PromiseInvariance, PostgresInitRefines, PTL DEF Spec, OnlyLateWritesDepart

\* Where every second statement runs while what it was computed from stands, the
\* store implements the protocol.
THEOREM PostgresKeepsThePromise == Spec /\ [][~LateWrite]_(Abstract!vars) => Abstract!Spec
<1>1. /\ [Abstract!Next \/ LateWrite]_(Abstract!vars) /\ [~LateWrite]_(Abstract!vars)
      => [Abstract!Next]_(Abstract!vars)
  OBVIOUS
<1> QED
  BY <1>1, OnlyLateWrites, PTL DEF OnlyLateWritesDepart, Abstract!Spec

\* The one way a finished item comes back without being enqueued again: the
\* second statement of a claim that was overtaken by all that finished it.
THEOREM FinishedUnlessClaimedLate == Spec => OnlyLateClaimsReopen
<1> DEFINE Reopened(i) ==
             \E c \in Clients : \E w \in call[c].writes :
               w.item = i /\ call[c].op = "claim" /\ Late("claim", w) /\ Put("claim", w)
<1>1. ASSUME PromiseInv, [Next]_vars, NEW i \in Items, Is(i, "completed"), Is(i, "claimed")'
      PROVE  Reopened(i)
  <2>1. row[i] # None /\ row[i].state = "completed" /\ row'[i].state = "claimed"
    BY <1>1 DEF Is
  <2>2. ASSUME NEW c \in Clients, NEW w \in call[c].writes, Writes(call[c].op, w), Put(call[c].op, w)
        PROVE  Reopened(i)
    <3>1. /\ w \in Write /\ Fresh(call[c].op, c, w) /\ Nobodys(w.blob)
      BY <1>1 DEF PromiseInv, IInv, CallInv, CallType, WritesAreFresh
    <3>0. Columns(call[c].op, w.blob).state = w.blob.state
      BY <3>1, ColumnsType DEF Write
    <3>2. w.item = i /\ w.blob.state = "claimed"
      BY <1>1, <2>1, <2>2, <3>0, <3>1 DEF Put, Write, PromiseInv, IInv, RowInv, RowType
    <3>3. call[c].op # "enqueue"
      BY <3>1, <3>2 DEF Fresh
    <3>4. ~(row[i].lease_expires_at \in Nat)
      BY <1>1, <2>1, NoneAssumption DEF PromiseInv, RowsAreFresh, Nobodys, Held
    <3>5. call[c].op = "claim"
      BY <2>2, <3>1, <3>2, <3>3, <3>4, NoneAssumption DEF Fresh, Writes, Stands
    <3>6. Late("claim", w)
      BY <2>1, <3>2 DEF Late, Is
    <3> QED
      BY <2>2, <3>2, <3>5, <3>6
  <2> HIDE DEF Reopened
  <2>3. ASSUME NEW c \in Clients, Settle(c) \/ LoseReply(c) PROVE Reopened(i)
    BY <2>1, <2>2, <2>3 DEF Settle, LoseReply, rows
  <2>4. ASSUME NEW c \in Clients, NEW asked \in Leases, ClaimStatement(c, asked) PROVE FALSE
    <3>1. PICK j \in Due : row' = [row EXCEPT ![j] = Claimed(@, WorkerOf[c], now, asked)]
      BY <2>4 DEF ClaimStatement
    <3>2. j \in Items /\ row[j].state = "queued"
      BY DEF Due, Is
    <3>3. row'[i] = row[i]
      BY <1>1, <2>1, <3>1, <3>2 DEF PromiseInv, IInv, RowInv, RowType
    <3> QED
      BY <2>1, <3>3
  <2>5. CASE UNCHANGED rows
    BY <2>1, <2>5 DEF rows
  <2> QED
    BY <1>1, <2>3, <2>4, <2>5
       DEF Next, ClientStep, EnqueueSnapshot, Heartbeat, Complete, Fail, HoldingThen, Reap,
           Adopt, Crash, Tick, vars
<1>2. PromiseInv /\ [Next]_vars =>
        [\A i \in Items : Is(i, "completed") /\ Is(i, "claimed")' => Reopened(i)]_vars
  BY <1>1
<1> QED
  BY <1>2, PromiseInvariance, PTL DEF Spec, OnlyLateClaimsReopen
=============================================================================
