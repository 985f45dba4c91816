------------------------ MODULE RedisWorkQueueProofs ------------------------
(* Proofs about RedisWorkQueue, for any clients, workers, items and policy. *)
EXTENDS RedisWorkQueue, QueuePolicyProofs, FiniteSetLemmas, TLAPS

-----------------------------------------------------------------------------
(* The strengthening.  TypeOK, IndexesAgree, NothingIsLost and OneLivePerKey *)
(* are not inductive: what a step writes was computed earlier, by a client   *)
(* that has been overtaken since.                                            *)

\* A record that is not claimed names nobody.
Unclaimed(blob) == ~Held(blob) => blob.worker = None

\* A pending SETTLE that keeps the claim has a lease to set and names the
\* worker it is for.  A reap was fenced on a score that had lapsed; every
\* other call writes for its own client's worker or for nobody.
Sound(op, c, w) ==
  /\ Unclaimed(w.blob)
  /\ Held(w.blob) => w.blob.lease_expires_at # None /\ w.blob.worker = w.worker
  /\ op = "reap" => w.fence # None /\ w.fence <= now
  /\ op # "reap" => w.worker \in {WorkerOf[c], None}

WritesAreSound ==
  \A c \in Clients : \A w \in call[c].writes : Sound(call[c].op, c, w)

\* The record of a held item names its holder or, before the claim's own
\* SETTLE, nobody.
RecordsMatch ==
  \A i \in Items : item[i] # None =>
    /\ Unclaimed(item[i])
    /\ item[i].worker \in {holders[i], None}

\* A live item's dedupe key names it.
KeysNameTheLive ==
  \A i \in Items : Live(i) /\ KeyOf[i] # None => dedupe[SlotOf(i)] = i

StoreType ==
  /\ item \in [Items -> WorkItem \cup {None}]
  /\ ready \in [Items -> Nat \cup {None}]
  /\ leases \in [Items -> Nat \cup {None}]
  /\ holders \in [Items -> Workers \cup {None}]
  /\ owned \in [Workers -> SUBSET Items]
  /\ dead \subseteq Items
  /\ dedupe \in [Slot -> Items \cup {None}]

CallType == call \in [Clients -> [op: Calls \cup {"idle"}, writes: SUBSET Write]]

RestType ==
  /\ now \in Nat
  /\ turns \in [Tenants -> Nat \cup {None}]
  /\ served \in Nat
  /\ placed \in Nat
  /\ skipped \in [Tenants -> Nat]

\* What the scripts keep true of the store, whoever runs them ...
StoreInv ==
  StoreType /\ IndexesAgree /\ NothingIsLost /\ RecordsMatch /\ KeysNameTheLive

\* ... and what is true of the scripts that are still to be run.
CallInv == CallType /\ WritesAreSound

IInv == StoreInv /\ CallInv /\ RestType

-----------------------------------------------------------------------------
(* The steps.                                                                *)

LEMMA InitInv == Init => IInv
<1> SUFFICES ASSUME Init PROVE IInv
  OBVIOUS
<1>1. StoreInv
  BY NoneAssumption DEF Init, StoreInv, StoreType, IndexesAgree, NothingIsLost,
    RecordsMatch, KeysNameTheLive, Live
<1>2. CallInv
  BY DEF Init, CallInv, CallType, WritesAreSound, Idle
<1>3. RestType
  BY DEF Init, RestType
<1> QED
  BY <1>1, <1>2, <1>3 DEF IInv

LEMMA StoreUnchanged ==
  ASSUME StoreInv, UNCHANGED store
  PROVE  StoreInv'
BY DEF StoreInv, store, StoreType, IndexesAgree, NothingIsLost, RecordsMatch,
  KeysNameTheLive, Live

LEMMA RestUnchanged ==
  ASSUME RestType, UNCHANGED <<now, rotation, placed>>
  PROVE  RestType'
BY DEF RestType, rotation

\* Time makes a lapsed fence no less lapsed.
LEMMA CallUnchanged ==
  ASSUME CallInv, UNCHANGED call, now \in Nat, now' \in Nat, now' >= now
  PROVE  CallInv'
<1>1. CallType'
  BY DEF CallInv, CallType
<1>2. ASSUME NEW c \in Clients, NEW w \in call[c].writes
      PROVE  Sound(call[c].op, c, w)'
  <2>1. w \in Write
    BY DEF CallInv, CallType
  <2>2. Sound(call[c].op, c, w)
    BY DEF CallInv, WritesAreSound
  <2> QED
    BY <2>1, <2>2, NoneAssumption DEF Sound, Write
<1>3. WritesAreSound'
  BY <1>2 DEF WritesAreSound
<1> QED
  BY <1>1, <1>3 DEF CallInv

\* A client that starts a call, or goes on with it, on sound writes.
LEMMA StartInv ==
  ASSUME CallInv, NEW c \in Clients, NEW op \in Calls, NEW W \in SUBSET Write,
         Start(c, op, W), UNCHANGED now,
         \A w \in W : Sound(op, c, w)
  PROVE  CallInv'
<1>1. CallType'
  BY DEF CallInv, CallType, Start, Idle
<1>2. ASSUME NEW d \in Clients, NEW w \in call'[d].writes
      PROVE  Sound(call[d].op, d, w)'
  <2>1. CASE d = c
    <3>1. call'[c] = [op |-> op, writes |-> W]
      BY <2>1 DEF CallInv, CallType, Start, Idle
    <3> QED
      BY <2>1, <3>1 DEF Sound
  <2>2. CASE d # c
    <3>1. call'[d] = call[d]
      BY <2>2 DEF CallInv, CallType, Start
    <3> QED
      BY <3>1 DEF CallInv, WritesAreSound, Sound
  <2> QED
    BY <2>1, <2>2
<1> QED
  BY <1>1, <1>2 DEF CallInv, WritesAreSound

\* None of the calls' first scripts but CLAIM writes anything.
LEMMA QuietInv ==
  ASSUME IInv, NEW c \in Clients, NEW op \in Calls, NEW W \in SUBSET Write,
         Start(c, op, W), UNCHANGED <<now, store, rotation, placed>>,
         \A w \in W : Sound(op, c, w)
  PROVE  IInv'
<1>1. StoreInv'
  BY StoreUnchanged DEF IInv
<1>2. CallInv'
  BY StartInv DEF IInv
<1>3. RestType'
  BY RestUnchanged DEF IInv
<1> QED
  BY <1>1, <1>2, <1>3 DEF IInv

LEMMA EnqueueInv == ASSUME IInv, NEW i \in Items, NEW offer \in Offers, Enqueue(i, offer) PROVE IInv'
<1> USE DEF Enqueue
<1>1. /\ Placed(offer, now) \in WorkItem
      /\ Placed(offer, now).state = "queued"
      /\ Placed(offer, now).worker = None
      /\ Placed(offer, now) # None
      /\ Placed(offer, now).available_at \in Nat
  <2>1. Placed(offer, now) \in WorkItem
    BY PlacedType DEF IInv, RestType
  <2>2. Placed(offer, now) # None
    BY <2>1, NoneIsNoItem
  <2>3. Placed(offer, now).available_at \in Nat
    BY <2>1 DEF WorkItem
  <2> QED
    BY <2>1, <2>2, <2>3, PlacedType DEF IInv, RestType
<1>2. /\ item' = [item EXCEPT ![i] = Placed(offer, now)]
      /\ leases[i] = None /\ holders[i] = None /\ ready[i] = None
      /\ ready'[i] = Placed(offer, now).available_at /\ ready'[i] # None
  BY <1>1, NoneAssumption DEF IInv, StoreInv, StoreType, RestType, NothingIsLost,
    IndexesAgree
<1>3. StoreType'
  BY <1>1 DEF IInv, StoreInv, StoreType, RestType, Slot, SlotOf, Keys
<1>4. IndexesAgree'
  BY <1>2 DEF IInv, StoreInv, StoreType, IndexesAgree
<1>5. NothingIsLost'
  BY <1>1, <1>2 DEF IInv, StoreInv, StoreType, NothingIsLost, Live, Terminal
<1>6. RecordsMatch'
  BY <1>1, <1>2 DEF IInv, StoreInv, StoreType, RecordsMatch, Unclaimed
<1>7. KeysNameTheLive'
  <2> SUFFICES ASSUME NEW j \in Items, Live(j)', KeyOf[j] # None
               PROVE  dedupe'[SlotOf(j)] = j
    BY DEF KeysNameTheLive, SlotOf
  <2>1. SlotOf(j) \in Slot /\ dedupe \in [Slot -> Items \cup {None}]
    BY RedisAssumption DEF Slot, SlotOf, Keys, IInv, StoreInv, StoreType
  <2>2. CASE j = i
    BY <2>1, <2>2
  <2>3. CASE j # i
    <3>1. Live(j)
      BY <1>2, <2>3 DEF Live, IInv, StoreInv, StoreType
    <3>2. dedupe[SlotOf(j)] = j
      BY <3>1 DEF IInv, StoreInv, KeysNameTheLive
    <3>3. KeyOf[i] # None => SlotOf(i) # SlotOf(j)
      BY <3>1, <3>2, RedisAssumption DEF LiveDuplicate
    <3> QED
      BY <2>1, <3>2, <3>3
  <2> QED
    BY <2>2, <2>3
<1>8. CallInv'
  BY CallUnchanged DEF IInv, RestType
<1>9. RestType'
  <2>1. turns' \in [Tenants -> Nat \cup {None}]
    BY RedisAssumption DEF IInv, RestType
  <2>2. placed' \in Nat
    BY DEF IInv, RestType
  <2> QED
    BY <2>1, <2>2 DEF IInv, RestType
<1> QED
  BY <1>3, <1>4, <1>5, <1>6, <1>7, <1>8, <1>9 DEF IInv, StoreInv

LEMMA ClaimScriptInv == ASSUME IInv, NEW c \in Clients, NEW asked \in Leases, ClaimScript(c, asked) PROVE IInv'
<1>0. PICK t \in Tenants : \E i \in Due(t) :
        /\ Pick(c, i, asked)
        /\ Start(c, "claim",
                 {[item |-> i, blob |-> Claimed(item[i], WorkerOf[c], now, asked),
                   worker |-> WorkerOf[c], fence |-> None]})
  BY DEF ClaimScript
<1>1. PICK i \in Due(t) :
        /\ Pick(c, i, asked)
        /\ Start(c, "claim",
                 {[item |-> i, blob |-> Claimed(item[i], WorkerOf[c], now, asked),
                   worker |-> WorkerOf[c], fence |-> None]})
  BY <1>0
<1> DEFINE w == [item |-> i, blob |-> Claimed(item[i], WorkerOf[c], now, asked),
                 worker |-> WorkerOf[c], fence |-> None]
<1>2. /\ i \in Items /\ TenantOf[i] = t /\ ready[i] # None
      /\ WorkerOf[c] \in Workers /\ WorkerOf[c] # None
      /\ now \in Nat /\ now + asked \in Nat /\ now + asked # None
  BY RedisAssumption, LeaseType, NoneAssumption DEF Due, IInv, RestType
<1>3. /\ leases[i] = None /\ holders[i] = None
      /\ Live(i) /\ item[i] \in WorkItem /\ item[i].worker = None
  BY <1>2 DEF IInv, StoreInv, StoreType, NothingIsLost, IndexesAgree,
    RecordsMatch, Live
<1>4. /\ ready' = [ready EXCEPT ![i] = None]
      /\ leases' = [leases EXCEPT ![i] = now + asked]
      /\ holders' = [holders EXCEPT ![i] = WorkerOf[c]]
      /\ owned' = [owned EXCEPT ![WorkerOf[c]] = @ \cup {i}]
      /\ UNCHANGED <<item, dead, dedupe>>
  BY <1>1 DEF Pick
<1>5. StoreType'
  BY <1>2, <1>4 DEF IInv, StoreInv, StoreType
<1>6. IndexesAgree'
  <2> SUFFICES ASSUME NEW j \in Items
               PROVE  (/\ leases[j] # None <=> holders[j] # None
                       /\ \A v \in Workers : j \in owned[v] <=> holders[j] = v
                       /\ leases[j] # None => ready[j] = None)'
    BY DEF IndexesAgree
  <2>1. CASE j = i
    <3>1. /\ leases'[i] = now + asked /\ holders'[i] = WorkerOf[c]
          /\ ready'[i] = None
      BY <1>2, <1>4 DEF IInv, StoreInv, StoreType
    <3>2. ASSUME NEW v \in Workers PROVE i \in owned'[v] <=> holders'[i] = v
      <4>1. i \notin owned[v]
        BY <1>2, <1>3, NoneAssumption DEF IInv, StoreInv, IndexesAgree
      <4> QED
        BY <1>2, <1>4, <3>1, <4>1 DEF IInv, StoreInv, StoreType
    <3> QED
      BY <1>2, <2>1, <3>1, <3>2
  <2>2. CASE j # i
    BY <1>2, <1>4, <2>2 DEF IInv, StoreInv, StoreType, IndexesAgree
  <2> QED
    BY <2>1, <2>2
<1>7. NothingIsLost'
  BY <1>2, <1>3, <1>4 DEF IInv, StoreInv, StoreType, NothingIsLost, Live
<1>8. RecordsMatch'
  BY <1>2, <1>3, <1>4 DEF IInv, StoreInv, StoreType, RecordsMatch, Unclaimed
<1>9. KeysNameTheLive'
  BY <1>4 DEF IInv, StoreInv, KeysNameTheLive, Live
<1>10. w \in Write /\ Sound("claim", c, w)
  <2> DEFINE blob == Claimed(item[i], WorkerOf[c], now, asked)
  <2>1. /\ blob \in WorkItem /\ Held(blob) /\ blob.worker = WorkerOf[c]
        /\ blob.lease_expires_at \in Nat
    BY <1>2, <1>3, ClaimedType
  <2>2. w = [item |-> i, blob |-> blob, worker |-> WorkerOf[c], fence |-> None]
    OBVIOUS
  <2> HIDE DEF w, blob
  <2> QED
    BY <1>2, <2>1, <2>2, NoneAssumption DEF Write, Sound, Unclaimed
<1>11. CallInv'
  <2>1. Start(c, "claim", {w}) /\ {w} \in SUBSET Write /\ UNCHANGED now
    BY <1>1, <1>10 DEF ClaimScript
  <2> HIDE DEF w
  <2> QED
    BY <1>10, <2>1, StartInv DEF IInv, Calls
<1>12. RestType'
  <2>1. served' \in Nat /\ turns' \in [Tenants -> Nat \cup {None}]
    BY <1>1, <1>2 DEF Pick, IInv, RestType
  <2>2. skipped' \in [Tenants -> Nat]
    BY <1>1, <1>2 DEF Pick, IInv, RestType
  <2> QED
    BY <2>1, <2>2 DEF ClaimScript, IInv, RestType
<1> QED
  BY <1>5, <1>6, <1>7, <1>8, <1>9, <1>11, <1>12 DEF IInv, StoreInv

-----------------------------------------------------------------------------
(* HELD, LAPSED and OWNED: what is to be settled is sound.                   *)

LEMMA HeldThenInv ==
  ASSUME IInv, NEW c \in Clients, NEW i \in Items, NEW op \in Calls \ {"reap"},
         NEW b \in WorkItem, HeldThen(c, i, op, b), Unclaimed(b),
         Held(b) => b.lease_expires_at # None /\ b.worker = WorkerOf[c]
  PROVE  IInv'
<1> DEFINE w == [item |-> i, blob |-> b, worker |-> WorkerOf[c], fence |-> None]
<1>1. w \in Write /\ Sound(op, c, w)
  BY RedisAssumption DEF Write, Sound
<1>2. Start(c, op, {w}) /\ UNCHANGED <<now, store, rotation, placed>>
  BY DEF HeldThen
<1> HIDE DEF w
<1> QED
  BY <1>1, <1>2, QuietInv

LEMMA HeartbeatInv ==
  ASSUME IInv, NEW c \in Clients, NEW i \in Items, Heartbeat(c, i)
  PROVE  IInv'
<1>1. item[i] \in WorkItem /\ now \in Nat
  BY DEF Heartbeat, Holding, IInv, StoreInv, StoreType, RestType
<1>2. Unclaimed(item[i]) /\ item[i].worker \in {WorkerOf[c], None}
  BY DEF Heartbeat, Holding, IInv, StoreInv, RecordsMatch
<1>3. /\ Renewed(item[i], now) \in WorkItem
      /\ Renewed(item[i], now).state = item[i].state
      /\ Renewed(item[i], now).worker = item[i].worker
      /\ Renewed(item[i], now).lease_expires_at # None
  BY <1>1, RenewedType, NoneAssumption
<1>4. Held(item[i]) => item[i].worker # None
  BY <1>1 DEF WorkItem, Held
<1>5. Unclaimed(Renewed(item[i], now))
  BY <1>2, <1>3 DEF Unclaimed, Held
<1>6. Held(Renewed(item[i], now)) => Renewed(item[i], now).worker = WorkerOf[c]
  BY <1>2, <1>3, <1>4 DEF Held
<1> QED
  BY <1>3, <1>5, <1>6, HeldThenInv DEF Heartbeat, Calls

LEMMA CompleteInv ==
  ASSUME IInv, NEW c \in Clients, NEW i \in Items, Complete(c, i)
  PROVE  IInv'
<1>1. item[i] \in WorkItem
  BY DEF Complete, Holding, IInv, StoreInv, StoreType
<1> QED
  BY <1>1, CompletedType, HeldThenInv DEF Complete, Calls, Unclaimed

LEMMA FailInv ==
  ASSUME IInv, NEW c \in Clients, NEW i \in Items, NEW r \in BOOLEAN,
         Fail(c, i, r)
  PROVE  IInv'
<1>1. item[i] \in WorkItem /\ now \in Nat
  BY DEF Fail, Holding, IInv, StoreInv, StoreType, RestType
<1> QED
  BY <1>1, ReturnedType, HeldThenInv DEF Fail, Calls, Unclaimed

\* A scan's writes are fenced on the scores it saw and give up every item.
LEMMA GiveBacksType ==
  ASSUME IInv, NEW S \in SUBSET Items, NEW backoff \in BOOLEAN,
         \A i \in S : item[i] # None /\ leases[i] # None
  PROVE  /\ GiveBacks(S, backoff) \in SUBSET Write
         /\ \A w \in GiveBacks(S, backoff) :
              /\ w.item \in S /\ ~Held(w.blob) /\ Unclaimed(w.blob)
              /\ w.fence = leases[w.item] /\ w.worker = item[w.item].worker
<1> SUFFICES ASSUME NEW w \in GiveBacks(S, backoff)
             PROVE  /\ w \in Write
                    /\ w.item \in S /\ ~Held(w.blob) /\ Unclaimed(w.blob)
                    /\ w.fence = leases[w.item] /\ w.worker = item[w.item].worker
  OBVIOUS
<1>1. PICK i \in S :
        w = [item |-> i, blob |-> Returned(item[i], now, TRUE, backoff),
             worker |-> item[i].worker, fence |-> leases[i]]
  BY DEF GiveBacks
<1>2. item[i] \in WorkItem /\ leases[i] \in Nat /\ now \in Nat
  BY DEF IInv, StoreInv, StoreType, RestType
<1>3. item[i].worker \in Workers \cup {None}
  BY <1>2 DEF WorkItem
<1>4. /\ Returned(item[i], now, TRUE, backoff) \in WorkItem
      /\ ~Held(Returned(item[i], now, TRUE, backoff))
      /\ Returned(item[i], now, TRUE, backoff).worker = None
  BY <1>2, ReturnedType
<1> QED
  BY <1>1, <1>2, <1>3, <1>4 DEF Write, Unclaimed

LEMMA ReapInv == ASSUME IInv, NEW c \in Clients, Reap(c) PROVE IInv'
<1> DEFINE W == GiveBacks(Lapsed, TRUE)
<1>1. Lapsed \in SUBSET Items
  BY DEF Lapsed
<1>2. \A i \in Lapsed : item[i] # None /\ leases[i] # None /\ leases[i] <= now
  BY DEF Lapsed
<1>3. /\ W \in SUBSET Write
      /\ \A w \in W : /\ w.item \in Lapsed /\ ~Held(w.blob) /\ Unclaimed(w.blob)
                      /\ w.fence = leases[w.item]
  BY <1>1, <1>2, GiveBacksType
<1>4. \A w \in W : Sound("reap", c, w)
  BY <1>2, <1>3 DEF Sound
<1> QED
  BY <1>3, <1>4, QuietInv DEF Reap, Calls

LEMMA AdoptInv == ASSUME IInv, NEW c \in Clients, Adopt(c) PROVE IInv'
<1> DEFINE S == Owned(WorkerOf[c])
           W == GiveBacks(S, FALSE)
<1>1. WorkerOf[c] \in Workers
  BY RedisAssumption
<1>2. S \in SUBSET Items
  BY <1>1 DEF Owned, IInv, StoreInv, StoreType
<1>3. \A i \in S : /\ item[i] # None /\ leases[i] # None
                   /\ item[i].worker \in {WorkerOf[c], None}
  BY <1>1, <1>2 DEF Owned, IInv, StoreInv, IndexesAgree, RecordsMatch
<1>4. /\ W \in SUBSET Write
      /\ \A w \in W : /\ w.item \in S /\ ~Held(w.blob) /\ Unclaimed(w.blob)
                      /\ w.worker = item[w.item].worker
  BY <1>2, <1>3, GiveBacksType
<1>5. \A w \in W : Sound("adopt", c, w)
  BY <1>3, <1>4 DEF Sound
<1> QED
  BY <1>4, <1>5, QuietInv DEF Adopt, Calls

-----------------------------------------------------------------------------
(* SETTLE, run by a client that may have been overtaken: it writes only      *)
(* where its worker still holds the item, and then all five keys together.   *)

LEMMA PutInv ==
  ASSUME StoreInv, NEW c \in Clients, NEW op, NEW w \in Write,
         Sound(op, c, w), Stands(w), Put(w)
  PROVE  StoreInv'
<1> DEFINE i == w.item
           b == w.blob
<1>1. /\ i \in Items /\ b \in WorkItem /\ b # None
      /\ w.worker = holders[i] /\ holders[i] # None /\ w.worker \in Workers
      /\ item' = [item EXCEPT ![i] = b]
  BY NoneIsNoItem DEF Write, Stands, Put, StoreInv, StoreType
<1>2. leases[i] # None /\ ready[i] = None /\ Live(i)
  BY <1>1 DEF StoreInv, IndexesAgree, NothingIsLost
<1>3. Unclaimed(b)
  BY DEF Sound
<1>4. item'[i] = b
  BY <1>1 DEF StoreInv, StoreType
<1>5. CASE Held(b)
  <2>1. /\ leases' = [leases EXCEPT ![i] = b.lease_expires_at]
        /\ UNCHANGED <<ready, holders, owned, dead, dedupe>>
    BY <1>5 DEF Put
  <2>2. b.lease_expires_at \in Nat /\ b.lease_expires_at # None /\ b.worker = w.worker
    BY <1>1, <1>5 DEF Sound, WorkItem
  <2>3. StoreType'
    BY <1>1, <2>1, <2>2 DEF StoreInv, StoreType
  <2>4. IndexesAgree'
    BY <1>1, <1>2, <2>1, <2>2 DEF StoreInv, StoreType, IndexesAgree
  <2>5. NothingIsLost'
    BY <1>1, <1>2, <1>5, <2>1, <2>2 DEF StoreInv, StoreType, NothingIsLost, Live,
      Terminal, Held
  <2>6. RecordsMatch'
    BY <1>1, <1>3, <2>1, <2>2 DEF StoreInv, StoreType, RecordsMatch
  <2>7. KeysNameTheLive'
    BY <1>1, <1>2, <2>1 DEF StoreInv, StoreType, KeysNameTheLive, Live
  <2> QED
    BY <2>3, <2>4, <2>5, <2>6, <2>7 DEF StoreInv
<1>6. CASE ~Held(b)
  <2>1. /\ leases' = [leases EXCEPT ![i] = None]
        /\ holders' = [holders EXCEPT ![i] = None]
        /\ owned' = [owned EXCEPT ![w.worker] = @ \ {i}]
        /\ ready' = IF b.state = "queued"
                    THEN [ready EXCEPT ![i] = b.available_at] ELSE ready
        /\ dedupe' = IF Terminal(b) /\ KeyOf[i] # None
                     THEN [dedupe EXCEPT ![SlotOf(i)] = None] ELSE dedupe
        /\ dead' = IF b.state = "dead_lettered" THEN dead \cup {i} ELSE dead
    BY <1>6 DEF Put, Requeued
  <2>2. /\ b.available_at \in Nat /\ b.available_at # None
        /\ b.state = "queued" <=> ~Terminal(b)
        /\ b.worker = None
    BY <1>1, <1>3, <1>6, NoneAssumption DEF WorkItem, WorkState, Held, Terminal,
      Unclaimed
  <2>3. StoreType'
    BY <1>1, <2>1, <2>2 DEF StoreInv, StoreType
  <2>4. IndexesAgree'
    <3> SUFFICES ASSUME NEW j \in Items
                 PROVE  (/\ leases[j] # None <=> holders[j] # None
                         /\ \A v \in Workers : j \in owned[v] <=> holders[j] = v
                         /\ leases[j] # None => ready[j] = None)'
      BY DEF IndexesAgree
    <3>1. CASE j = i
      <4>1. leases'[i] = None /\ holders'[i] = None
        BY <1>1, <2>1 DEF StoreInv, StoreType
      <4>2. ASSUME NEW v \in Workers PROVE i \notin owned'[v]
        BY <1>1, <2>1 DEF StoreInv, StoreType, IndexesAgree
      <4> QED
        BY <3>1, <4>1, <4>2, NoneAssumption
    <3>2. CASE j # i
      BY <1>1, <2>1, <3>2 DEF StoreInv, StoreType, IndexesAgree
    <3> QED
      BY <3>1, <3>2
  <2>5. NothingIsLost'
    BY <1>1, <1>2, <2>1, <2>2 DEF StoreInv, StoreType, NothingIsLost, Live
  <2>6. RecordsMatch'
    BY <1>1, <1>3, <2>1, <2>2 DEF StoreInv, StoreType, RecordsMatch
  <2>7. KeysNameTheLive'
    <3> SUFFICES ASSUME NEW j \in Items, Live(j)', KeyOf[j] # None
                 PROVE  dedupe'[SlotOf(j)] = j
      BY DEF KeysNameTheLive, SlotOf
    <3>1. Live(j)
      BY <1>1, <1>2 DEF Live, StoreInv, StoreType
    <3>2. dedupe[SlotOf(j)] = j
      BY <3>1 DEF StoreInv, KeysNameTheLive
    <3>3. CASE Terminal(b) /\ KeyOf[i] # None
      <4>1. j # i
        BY <1>4, <3>3 DEF Live
      <4>2. dedupe[SlotOf(i)] = i
        BY <1>1, <1>2, <3>3 DEF StoreInv, KeysNameTheLive
      <4> QED
        BY <2>1, <3>2, <3>3, <4>1, <4>2 DEF StoreInv, StoreType
    <3>4. CASE ~(Terminal(b) /\ KeyOf[i] # None)
      BY <2>1, <3>2, <3>4
    <3> QED
      BY <3>3, <3>4
  <2> QED
    BY <2>3, <2>4, <2>5, <2>6, <2>7 DEF StoreInv
<1> QED
  BY <1>5, <1>6

LEMMA ScriptInv ==
  ASSUME StoreInv, NEW c \in Clients, NEW op, NEW w \in Write,
         Sound(op, c, w), Script(w)
  PROVE  StoreInv'
BY PutInv, StoreUnchanged DEF Script

LEMMA SettleInv == ASSUME IInv, NEW c \in Clients, Settle(c) PROVE IInv'
<1>1. PICK w \in call[c].writes :
        /\ Script(w)
        /\ Start(c, call[c].op, call[c].writes \ {w})
  BY DEF Settle
<1>2. /\ call[c].writes \in SUBSET Write /\ w \in Write
      /\ \A v \in call[c].writes : Sound(call[c].op, c, v)
  BY <1>1 DEF IInv, CallInv, CallType, WritesAreSound
<1>3. StoreInv'
  BY <1>1, <1>2, ScriptInv DEF IInv
<1>4. CallInv'
  <2>1. CASE call[c].op \in Calls
    BY <1>1, <1>2, <2>1, StartInv DEF IInv, Settle
  <2>2. CASE call[c].op = "idle"
    \* An idle client has nothing to settle, but nothing here depends on it.
    <3>1. CallType'
      BY <1>2, <1>1 DEF IInv, CallInv, CallType, Start, Idle
    <3>2. WritesAreSound'
      <4> SUFFICES ASSUME NEW d \in Clients, NEW v \in (call[d].writes)'
                   PROVE  Sound(call[d].op, d, v)'
        BY DEF WritesAreSound
      <4>1. CASE d = c
        BY <1>1, <1>2, <4>1 DEF IInv, CallInv, CallType, Start, Idle, Settle, Sound
      <4>2. CASE d # c
        <5>1. call'[d] = call[d]
          BY <1>1, <4>2 DEF IInv, CallInv, CallType, Start
        <5> QED
          BY <5>1 DEF IInv, CallInv, WritesAreSound, Sound, Settle
      <4> QED
        BY <4>1, <4>2
    <3> QED
      BY <3>1, <3>2 DEF CallInv
  <2> QED
    BY <2>1, <2>2 DEF IInv, CallInv, CallType
<1>5. RestType'
  BY <1>1, <1>2 DEF IInv, RestType, Settle, rotation, Write
<1> QED
  BY <1>3, <1>4, <1>5 DEF IInv

LEMMA LoseReplyInv == ASSUME IInv, NEW c \in Clients, LoseReply(c) PROVE IInv'
<1>1. PICK w \in call[c].writes : Script(w)
  BY DEF LoseReply
<1>2. w \in Write /\ Sound(call[c].op, c, w)
  BY <1>1 DEF IInv, CallInv, CallType, WritesAreSound
<1>3. StoreInv'
  BY <1>1, <1>2, ScriptInv DEF IInv
<1>4. CallInv'
  BY CallUnchanged DEF LoseReply, IInv, RestType
<1>5. RestType'
  BY RestUnchanged DEF LoseReply, IInv
<1> QED
  BY <1>3, <1>4, <1>5 DEF IInv

LEMMA CrashInv == ASSUME IInv, NEW c \in Clients, Crash(c) PROVE IInv'
<1>1. StoreInv' /\ RestType'
  BY StoreUnchanged, RestUnchanged DEF Crash, IInv
<1>2. CallType'
  BY DEF Crash, IInv, CallInv, CallType, Idle
<1>3. WritesAreSound'
  <2> SUFFICES ASSUME NEW d \in Clients, NEW v \in (call[d].writes)'
               PROVE  Sound(call[d].op, d, v)'
    BY DEF WritesAreSound
  <2>1. d # c /\ call'[d] = call[d]
    BY DEF Crash, IInv, CallInv, CallType, Idle
  <2> QED
    BY <2>1 DEF IInv, CallInv, WritesAreSound, Sound, Crash
<1> QED
  BY <1>1, <1>2, <1>3 DEF IInv, CallInv

LEMMA TickInv == ASSUME IInv, Tick PROVE IInv'
<1>1. now \in Nat /\ now' \in Nat /\ now' >= now
  BY DEF Tick, IInv, RestType
<1>2. StoreInv' /\ CallInv'
  BY <1>1, StoreUnchanged, CallUnchanged DEF Tick, IInv
<1>3. RestType'
  BY <1>1 DEF Tick, IInv, RestType, rotation
<1> QED
  BY <1>2, <1>3 DEF IInv

LEMMA StepInv == IInv /\ [Next]_vars => IInv'
<1> SUFFICES ASSUME IInv, [Next]_vars PROVE IInv'
  OBVIOUS
<1>1. ASSUME NEW i \in Items, NEW offer \in Offers, Enqueue(i, offer) PROVE IInv'
  BY <1>1, EnqueueInv
<1>2. ASSUME NEW c \in Clients, ClientStep(c) PROVE IInv'
  BY <1>2, ClaimScriptInv, HeartbeatInv, CompleteInv, FailInv, ReapInv, AdoptInv,
    SettleInv, LoseReplyInv, CrashInv DEF ClientStep
<1>3. CASE Tick
  BY <1>3, TickInv
<1>4. CASE UNCHANGED vars
  <2>1. /\ UNCHANGED store /\ UNCHANGED call
        /\ UNCHANGED <<now, rotation, placed>>
    BY <1>4 DEF vars
  <2>2. now \in Nat /\ now' \in Nat /\ now' >= now
    BY <2>1 DEF IInv, RestType
  <2> QED
    BY <2>1, <2>2, StoreUnchanged, CallUnchanged, RestUnchanged DEF IInv
<1> QED
  BY <1>1, <1>2, <1>3, <1>4 DEF Next

LEMMA Invariance == Spec => []IInv
BY InitInv, StepInv, PTL DEF Spec

-----------------------------------------------------------------------------
(* Who may end a claim that has not lapsed.                                  *)

\* What the action property says of one item.
EndsByItsOwn(i) ==
  leases[i] # None /\ leases[i] > now /\ leases'[i] = None =>
    \E c \in Clients : /\ WorkerOf[c] = holders[i]
                       /\ \E w \in call[c].writes : w.item = i

\* A SETTLE that frees a live claim stands, so its worker is the holder; a
\* reap's would be fenced on a score that had lapsed.
LEMMA ScriptEndsByItsOwn ==
  ASSUME IInv, NEW i \in Items, NEW c \in Clients, NEW w \in call[c].writes,
         Script(w)
  PROVE  EndsByItsOwn(i)
<1> SUFFICES ASSUME leases[i] # None, leases[i] > now, leases'[i] = None
             PROVE  /\ WorkerOf[c] = holders[i]
                    /\ w.item = i
  BY DEF EndsByItsOwn
<1>1. w \in Write /\ Sound(call[c].op, c, w)
  BY DEF IInv, CallInv, CallType, WritesAreSound
<1>2. Stands(w) /\ Put(w)
  BY DEF Script, store
<1>3. w.item = i
  BY <1>1, <1>2 DEF Put, Write, IInv, StoreInv, StoreType
<1>4. holders[i] = w.worker /\ holders[i] # None
  BY <1>2, <1>3 DEF Stands
<1>5. call[c].op # "reap"
  <2> SUFFICES ASSUME call[c].op = "reap" PROVE FALSE
    OBVIOUS
  <2>1. leases[i] = w.fence /\ w.fence <= now
    BY <1>1, <1>2, <1>3 DEF Sound, Stands
  <2>2. leases[i] \in Nat /\ now \in Nat
    BY DEF IInv, StoreInv, StoreType, RestType
  <2> QED
    BY <2>1, <2>2
<1> QED
  BY <1>1, <1>3, <1>4, <1>5 DEF Sound

LEMMA StepEndsByItsOwn ==
  ASSUME IInv, [Next]_vars, NEW i \in Items
  PROVE  EndsByItsOwn(i)
<1>1. ASSUME NEW c \in Clients, NEW asked \in Leases, ClaimScript(c, asked) PROVE EndsByItsOwn(i)
  <2>1. PICK j \in Items : leases' = [leases EXCEPT ![j] = now + asked]
    BY <1>1 DEF ClaimScript, Pick, Due
  <2>2. now + asked # None
    BY LeaseType, NoneAssumption DEF IInv, RestType
  <2> QED
    BY <2>1, <2>2 DEF EndsByItsOwn, IInv, StoreInv, StoreType
<1>2. ASSUME NEW c \in Clients, Settle(c) \/ LoseReply(c) PROVE EndsByItsOwn(i)
  BY <1>2, ScriptEndsByItsOwn DEF Settle, LoseReply
<1>3. ASSUME UNCHANGED leases PROVE EndsByItsOwn(i)
  BY <1>3 DEF EndsByItsOwn
<1>4. ASSUME NEW c \in Clients, ClientStep(c) PROVE EndsByItsOwn(i)
  BY <1>1, <1>2, <1>3, <1>4 DEF ClientStep, Heartbeat, Complete, Fail, HeldThen,
    Reap, Adopt, Crash, store
<1> QED
  BY <1>3, <1>4 DEF Next, Enqueue, Tick, store, vars

-----------------------------------------------------------------------------
(* The theorems.                                                             *)

\* Every reachable state of the queue is well-typed.
THEOREM TypeCorrect == Spec => []TypeOK
<1>1. IInv => TypeOK
  BY DEF IInv, StoreInv, StoreType, CallInv, CallType, RestType, TypeOK
<1> QED
  BY <1>1, Invariance, PTL

\* However scripts interleave, are lost, retried or never run, the lease set,
\* the holders' hash and the workers' sets agree.
THEOREM IndexesAlwaysAgree == Spec => []IndexesAgree
<1>1. IInv => IndexesAgree
  BY DEF IInv, StoreInv
<1> QED
  BY <1>1, Invariance, PTL

\* No call, finished or not, drops an item that is owed work or brings back
\* one that is finished.
THEOREM NothingIsEverLost == Spec => []NothingIsLost
<1>1. IInv => NothingIsLost
  BY DEF IInv, StoreInv
<1> QED
  BY <1>1, Invariance, PTL

\* A dedupe key never has two live items.
THEOREM DedupeHolds == Spec => []OneLivePerKey
<1>1. IInv => OneLivePerKey
  BY DEF IInv, StoreInv, KeysNameTheLive, OneLivePerKey, SlotOf
<1> QED
  BY <1>1, Invariance, PTL

\* A claim that has not lapsed is ended by a call of its own worker and by
\* nothing else, whatever reaps, stale settles and retries are under way.
THEOREM LiveClaimsAreSafe == Spec => LiveClaimIsItsWorkers
<1>1. IInv /\ [Next]_vars =>
        [\A i \in Items :
           leases[i] # None /\ leases[i] > now /\ leases'[i] = None =>
             \E c \in Clients : /\ WorkerOf[c] = holders[i]
                                /\ \E w \in call[c].writes : w.item = i]_vars
  BY StepEndsByItsOwn DEF EndsByItsOwn
<1> QED
  BY <1>1, Invariance, PTL DEF Spec, LiveClaimIsItsWorkers

-----------------------------------------------------------------------------
(* The rotation.                                                             *)

\* The tenants a tenant's turn comes after.
BehindOf(t) ==
  {u \in Tenants : turns[u] # None /\ turns[t] # None /\ turns[u] > turns[t]}

\* Whoever is served goes behind everybody, so each tenant that went before one
\* with work due is behind it from then on.
ServedGoBehind ==
  \A t \in Tenants :
    /\ turns[t] # None => turns[t] <= served
    /\ turns[t] = None => skipped[t] = 0
    /\ skipped[t] <= Cardinality(BehindOf(t))

LEMMA SomeAreBehind ==
  ASSUME IsFiniteSet(Tenants), NEW t \in Tenants
  PROVE  /\ IsFiniteSet(BehindOf(t)) /\ Cardinality(BehindOf(t)) \in Nat
         /\ IsFiniteSet(BehindOf(t)') /\ Cardinality(BehindOf(t)') \in Nat
<1>1. BehindOf(t) \in SUBSET Tenants /\ BehindOf(t)' \in SUBSET Tenants
  BY DEF BehindOf
<1> QED
  BY <1>1, FS_Subset, FS_CardinalityType

LEMMA TurnsMove ==
  ASSUME IsFiniteSet(Tenants), IInv, ServedGoBehind, [Next]_vars
  PROVE  ServedGoBehind'
<1> USE NoneAssumption
<1>0. /\ turns \in [Tenants -> Nat \cup {None}] /\ served \in Nat
      /\ skipped \in [Tenants -> Nat]
  BY DEF IInv, RestType
<1>1. ASSUME NEW i \in Items, NEW offer \in Offers, Enqueue(i, offer) PROVE ServedGoBehind'
  <2> DEFINE s == TenantOf[i]
  <2>1. s \in Tenants /\ UNCHANGED <<served, skipped>>
    BY <1>1, RedisAssumption DEF Enqueue
  <2>2. CASE turns[s] # None
    <3>1. turns' = turns
      BY <1>1, <2>2 DEF Enqueue
    <3> QED
      BY <2>1, <3>1 DEF ServedGoBehind, BehindOf
  <2>3. CASE turns[s] = None
    <3>1. turns' = [turns EXCEPT ![s] = 0]
      BY <1>1, <2>3 DEF Enqueue
    <3> SUFFICES ASSUME NEW t \in Tenants
                 PROVE  /\ turns'[t] # None => turns'[t] <= served
                        /\ turns'[t] = None => skipped[t] = 0
                        /\ skipped[t] <= Cardinality(BehindOf(t)')
      BY <2>1 DEF ServedGoBehind
    <3>2. CASE t = s
      BY <1>0, <2>1, <2>3, <3>1, <3>2, SomeAreBehind DEF ServedGoBehind
    <3>3. CASE t # s
      <4>1. turns'[t] = turns[t]
        BY <1>0, <3>1, <3>3
      <4>2. BehindOf(t)' = BehindOf(t)
        BY <1>0, <2>1, <2>3, <3>1, <3>3 DEF BehindOf
      <4> QED
        BY <4>1, <4>2 DEF ServedGoBehind
    <3> QED
      BY <3>2, <3>3
  <2> QED
    BY <2>2, <2>3
<1>2. ASSUME NEW c \in Clients, NEW asked \in Leases, ClaimScript(c, asked) PROVE ServedGoBehind'
  <2>1. PICK s \in Tenants : \E i \in Due(s) : First(s) /\ Pick(c, i, asked)
    BY <1>2 DEF ClaimScript
  <2>2. /\ First(s) /\ served' = served + 1 /\ turns' = [turns EXCEPT ![s] = served + 1]
        /\ skipped' = [u \in Tenants |-> IF u \in DueTenants \ {s} THEN skipped[u] + 1 ELSE 0]
    BY <2>1 DEF Pick, Due
  <2> SUFFICES ASSUME NEW t \in Tenants
               PROVE  /\ turns'[t] # None => turns'[t] <= served'
                      /\ turns'[t] = None => skipped'[t] = 0
                      /\ skipped'[t] <= Cardinality(BehindOf(t)')
    BY DEF ServedGoBehind
  <2>3. turns'[t] # None => turns'[t] <= served'
    BY <1>0, <2>2 DEF ServedGoBehind
  <2>4. CASE t \in DueTenants \ {s}
    <3>1. /\ turns[t] # None /\ turns[s] # None /\ turns[s] <= turns[t] /\ turns[t] <= served
      BY <2>2, <2>4 DEF First, DueTenants, ServedGoBehind
    <3>2. s \notin BehindOf(t)
      BY <1>0, <3>1 DEF BehindOf
    <3>3. BehindOf(t)' = BehindOf(t) \cup {s}
      <4>1. turns'[s] = served + 1 /\ \A u \in Tenants \ {s} : turns'[u] = turns[u]
        BY <1>0, <2>2
      <4>2. turns'[t] = turns[t] /\ served + 1 > turns[t] /\ served + 1 # None
        BY <1>0, <2>4, <3>1, <4>1
      <4> QED
        BY <3>1, <4>1, <4>2 DEF BehindOf
    <3>4. Cardinality(BehindOf(t)') = Cardinality(BehindOf(t)) + 1
      BY <3>2, <3>3, SomeAreBehind, OneMore, Zenon
    <3>5. skipped'[t] = skipped[t] + 1 /\ turns'[t] # None
      BY <1>0, <2>2, <2>4, <3>1
    <3> QED
      BY <1>0, <2>3, <3>4, <3>5, SomeAreBehind DEF ServedGoBehind
  <2>5. CASE t \notin DueTenants \ {s}
    <3>1. skipped'[t] = 0
      BY <2>2, <2>5
    <3> QED
      BY <2>3, <3>1, SomeAreBehind
  <2> QED
    BY <2>4, <2>5
<1>3. CASE UNCHANGED rotation
  BY <1>3 DEF rotation, ServedGoBehind, BehindOf
<1> QED
  BY <1>1, <1>2, <1>3 DEF Next, ClientStep, Heartbeat, Complete, Fail, HeldThen, Reap, Adopt,
                          Settle, LoseReply, Crash, Tick, vars

\* Of finitely many tenants none is passed over for another twice.
THEOREM TurnsAreFair == ASSUME IsFiniteSet(Tenants) PROVE Spec => []FairTurns
<1>1. Init => ServedGoBehind
  <2> SUFFICES ASSUME Init, NEW t \in Tenants
               PROVE  turns[t] = None /\ skipped[t] = 0 /\ skipped[t] <= Cardinality(BehindOf(t))
    BY DEF ServedGoBehind
  <2> QED
    BY SomeAreBehind DEF Init
<1>2. IInv /\ ServedGoBehind /\ [Next]_vars => ServedGoBehind'
  BY TurnsMove
<1>3. IInv /\ ServedGoBehind => FairTurns
  <2> SUFFICES ASSUME IInv, ServedGoBehind, NEW t \in Tenants
               PROVE  skipped[t] < Cardinality(Tenants)
    BY DEF FairTurns
  <2>1. turns[t] # None => turns[t] \in Nat
    BY DEF IInv, RestType
  <2>2. t \notin BehindOf(t) /\ BehindOf(t) \in SUBSET Tenants
    BY <2>1 DEF BehindOf
  <2>3. Cardinality(BehindOf(t)) < Cardinality(Tenants)
    BY <2>2, FS_Subset, FS_CardinalityType
  <2>4. Cardinality(Tenants) \in Nat /\ skipped[t] \in Nat
    BY FS_CardinalityType DEF IInv, RestType
  <2> QED
    BY <2>3, <2>4, SomeAreBehind DEF ServedGoBehind
<1> QED
  BY <1>1, <1>2, <1>3, InitInv, StepInv, PTL DEF Spec

-----------------------------------------------------------------------------
(* The protocol's promise, where every client has a name of its own.         *)

OwnNames == \A c, d \in Clients : WorkerOf[c] = WorkerOf[d] => c = d

\* A SETTLE that counts attempts from the record as it is now.
Fresh(w) ==
  LET was == item[w.item].attempts
  IN  IF Held(w.blob) \/ w.blob.state = "completed" THEN w.blob.attempts = was
      ELSE /\ w.blob.attempts = was + 1
           /\ w.blob.state = "queued" => was + 1 < MaxAttempts

\* A sweep's SETTLE whose item its worker has claimed again since: the new lease
\* is longer than the one it is fenced on, and every renewal of it will be.
Outrun(w) ==
  /\ leases[w.item] > w.fence
  /\ \A d \in Clients : \A v \in call[d].writes :
       v.item = w.item /\ v.worker = w.worker /\ Held(v.blob) => v.blob.lease_expires_at > w.fence

\* What stands was computed from the claim that stands, unless its fence fails
\* it, or it is what a heartbeat makes of a record that was never written.
WriteIsFresh(op, w) ==
  /\ Held(w.blob) => op # "reap"
  /\ w.worker # None /\ holders[w.item] = w.worker =>
       \/ Fresh(w)
       \/ op = "heartbeat" /\ ~Held(w.blob)
       \/ op = "reap" /\ Outrun(w)

WritesAreFresh == \A c \in Clients : \A w \in call[c].writes : WriteIsFresh(call[c].op, w)

\* A client starts a call, of writes computed from the records of now: what is
\* held until later is held for longer than anything that has lapsed.
LEMMA StartedFresh ==
  ASSUME IInv, WritesAreFresh, NEW c \in Clients, NEW op \in Calls, NEW W \in SUBSET Write,
         Start(c, op, W), UNCHANGED <<now, store>>,
         \A w \in W : /\ Fresh(w) \/ (op = "heartbeat" /\ ~Held(w.blob))
                      /\ Held(w.blob) => op # "reap"
                      /\ Held(w.blob) => /\ w.blob.lease_expires_at \in Nat
                                         /\ w.blob.lease_expires_at > now
  PROVE  WritesAreFresh'
<1>1. /\ call'[c].writes = W /\ (W # {} => call'[c].op = op)
      /\ \A d \in Clients \ {c} : call'[d] = call[d]
  BY DEF Start, Idle, IInv, CallInv, CallType
<1> SUFFICES ASSUME NEW d \in Clients, NEW w \in call'[d].writes
             PROVE  WriteIsFresh(call[d].op, w)'
  BY DEF WritesAreFresh
<1>2. CASE d = c
  BY <1>1, <1>2 DEF WriteIsFresh, Fresh, store
<1>3. CASE d # c
  <2>1. w \in call[d].writes /\ call'[d] = call[d] /\ WriteIsFresh(call[d].op, w)
    BY <1>1, <1>3 DEF WritesAreFresh
  <2>2. ASSUME Outrun(w), call[d].op = "reap" PROVE Outrun(w)'
    <3>1. w.fence \in Nat /\ w.fence <= now /\ now \in Nat
      BY <2>1, <2>2, NoneAssumption DEF IInv, CallInv, CallType, RestType, WritesAreSound, Sound,
                                        Write
    <3>2. \A v \in W : Held(v.blob) => v.blob.lease_expires_at > w.fence
      BY <3>1
    <3> QED
      BY <1>1, <2>2, <3>2 DEF Outrun, store
  <2> QED
    BY <2>1, <2>2 DEF WriteIsFresh, Fresh, store
<1> QED
  BY <1>2, <1>3

\* Calls end or have less left to settle.
CallsShrink ==
  \A d \in Clients : /\ call'[d].writes \subseteq call[d].writes
                     /\ call'[d].writes # {} => call'[d].op = call[d].op

LEMMA FreshElsewhere ==
  ASSUME WritesAreFresh, CallsShrink, NEW d \in Clients, NEW w \in call'[d].writes,
         item'[w.item] = item[w.item], leases'[w.item] = leases[w.item],
         holders'[w.item] = holders[w.item]
  PROVE  WriteIsFresh(call[d].op, w)'
<1>1. w \in call[d].writes /\ call'[d].op = call[d].op /\ WriteIsFresh(call[d].op, w)
  BY DEF CallsShrink, WritesAreFresh
<1>2. Outrun(w) => Outrun(w)'
  BY DEF Outrun, CallsShrink
<1> QED
  BY <1>1, <1>2 DEF WriteIsFresh, Fresh

LEMMA EnqueueFresh ==
  ASSUME IInv, WritesAreFresh, NEW i \in Items, NEW offer \in Offers, Enqueue(i, offer) PROVE WritesAreFresh'
<1>1. holders'[i] = None /\ CallsShrink
  BY DEF Enqueue, IInv, StoreInv, NothingIsLost, IndexesAgree, CallsShrink
<1>2. \A j \in Items \ {i} : item'[j] = item[j] /\ leases'[j] = leases[j] /\ holders'[j] = holders[j]
  BY DEF Enqueue, IInv, StoreInv, StoreType
<1> SUFFICES ASSUME NEW d \in Clients, NEW w \in call'[d].writes
             PROVE  WriteIsFresh(call[d].op, w)'
  BY DEF WritesAreFresh
<1>3. w.item \in Items /\ w \in call[d].writes /\ call'[d] = call[d]
  BY DEF Enqueue, IInv, CallInv, CallType, Write
<1>4. CASE w.item = i
  BY <1>1, <1>3, <1>4 DEF WriteIsFresh, WritesAreFresh
<1>5. CASE w.item # i
  BY <1>1, <1>2, <1>3, <1>5, FreshElsewhere
<1> QED
  BY <1>4, <1>5

LEMMA ClaimScriptFresh ==
  ASSUME IInv, OwnNames, WritesAreFresh, NEW c \in Clients, NEW asked \in Leases, ClaimScript(c, asked) PROVE WritesAreFresh'
<1>1. PICK i \in Items :
        /\ Live(i) /\ Pick(c, i, asked)
        /\ Start(c, "claim", {[item |-> i, blob |-> Claimed(item[i], WorkerOf[c], now, asked),
                               worker |-> WorkerOf[c], fence |-> None]})
  BY DEF ClaimScript, Due, IInv, StoreInv, NothingIsLost
<1> DEFINE w0 == [item |-> i, blob |-> Claimed(item[i], WorkerOf[c], now, asked),
                  worker |-> WorkerOf[c], fence |-> None]
           end == now + asked
<1>2. /\ item[i] \in WorkItem /\ now \in Nat /\ WorkerOf[c] \in Workers
      /\ end \in Nat /\ end > now
  BY <1>1, RedisAssumption, LeaseType DEF Live, IInv, StoreInv, StoreType, RestType
<1>3. /\ w0.blob.attempts = item[i].attempts /\ Held(w0.blob) /\ w0.blob.lease_expires_at = end
      /\ w0.item = i /\ w0.worker = WorkerOf[c]
  BY <1>2, ClaimedType
<1>4. /\ call'[c] = [op |-> "claim", writes |-> {w0}] /\ call[c].writes = {}
      /\ \A d \in Clients \ {c} : call'[d] = call[d]
  <2>1. Start(c, "claim", {w0}) /\ call[c] = Idle
    BY <1>1 DEF ClaimScript
  <2> HIDE DEF w0
  <2>2. {w0} # {}
    OBVIOUS
  <2> QED
    BY <2>1, <2>2 DEF Start, Idle, IInv, CallInv, CallType
<1>5. /\ item' = item /\ leases'[i] = end /\ holders'[i] = WorkerOf[c]
      /\ \A j \in Items \ {i} : leases'[j] = leases[j] /\ holders'[j] = holders[j]
  BY <1>1 DEF Pick, IInv, StoreInv, StoreType
<1> HIDE DEF w0, end
<1> SUFFICES ASSUME NEW d \in Clients, NEW w \in call'[d].writes
             PROVE  WriteIsFresh(call[d].op, w)'
  BY DEF WritesAreFresh
<1>6. CASE d = c
  <2>1. w = w0 /\ call'[d].op = "claim"
    BY <1>4, <1>6
  <2> QED
    BY <1>3, <1>5, <2>1 DEF WriteIsFresh, Fresh
<1>7. CASE d # c
  <2>1. w \in call[d].writes /\ call'[d] = call[d] /\ WriteIsFresh(call[d].op, w) /\ w \in Write
    BY <1>4, <1>7 DEF WritesAreFresh, IInv, CallInv, CallType
  <2>2. CASE w.item # i
    <3>1. Outrun(w) => Outrun(w)'
      BY <1>3, <1>4, <1>5, <2>1, <2>2 DEF Outrun, Write
    <3> QED
      BY <1>5, <2>1, <2>2, <3>1 DEF WriteIsFresh, Fresh, Write
  <2>3. CASE w.item = i
    <3>1. \A e \in Clients \ {c} : \A v \in call[e].writes :
            call[e].op # "reap" => v.worker # WorkerOf[c]
      BY <1>2, NoneAssumption DEF IInv, CallInv, WritesAreSound, Sound, OwnNames
    <3> SUFFICES ASSUME w.worker = WorkerOf[c] PROVE call[d].op = "reap" /\ Outrun(w)'
      BY <1>5, <2>1, <2>3 DEF WriteIsFresh
    <3>2. call[d].op = "reap"
      BY <1>7, <2>1, <3>1
    <3>3. w.fence \in Nat /\ w.fence <= now
      BY <2>1, <3>2, NoneAssumption DEF IInv, CallInv, WritesAreSound, Sound, Write
    <3>4. end > w.fence
      BY <1>2, <3>3
    <3>5. ASSUME NEW e \in Clients, NEW v \in call'[e].writes, v.worker = WorkerOf[c], Held(v.blob)
          PROVE  v.blob.lease_expires_at > w.fence
      BY <1>3, <1>4, <3>1, <3>4, <3>5 DEF WritesAreFresh, WriteIsFresh
    <3> QED
      BY <1>5, <2>3, <3>2, <3>4, <3>5 DEF Outrun
  <2> QED
    BY <2>2, <2>3
<1> QED
  BY <1>6, <1>7

\* What stands counts from the record as it is.
LEMMA StandingIsFresh ==
  ASSUME IInv, WritesAreFresh, NEW c \in Clients, NEW w \in call[c].writes, Stands(w)
  PROVE  /\ Fresh(w) \/ (call[c].op = "heartbeat" /\ ~Held(w.blob))
         /\ w \in Write /\ w.worker # None
<1>1. w \in Write /\ Sound(call[c].op, c, w) /\ WriteIsFresh(call[c].op, w)
  BY DEF IInv, CallInv, CallType, WritesAreSound, WritesAreFresh
<1>2. call[c].op = "reap" => ~Outrun(w)
  <2> SUFFICES ASSUME call[c].op = "reap", leases[w.item] > w.fence PROVE FALSE
    BY DEF Outrun
  <2>1. w.fence \in Nat /\ leases[w.item] = w.fence
    BY <1>1 DEF Stands, Sound, Write
  <2> QED
    BY <2>1
<1> QED
  BY <1>1, <1>2 DEF WriteIsFresh, Stands

LEMMA ScriptFresh ==
  ASSUME IInv, WritesAreFresh, NEW c \in Clients, NEW w \in call[c].writes, Script(w), CallsShrink
  PROVE  WritesAreFresh'
<1>0. w \in Write /\ w.item \in Items
  BY DEF IInv, CallInv, CallType, Write
<1> SUFFICES ASSUME NEW d \in Clients, NEW v \in call'[d].writes
             PROVE  WriteIsFresh(call[d].op, v)'
  BY DEF WritesAreFresh
<1>1. /\ v \in call[d].writes /\ call'[d].op = call[d].op /\ WriteIsFresh(call[d].op, v)
      /\ v.item \in Items
  BY DEF CallsShrink, WritesAreFresh, IInv, CallInv, CallType, Write
<1>2. CASE ~Stands(w)
  BY <1>1, <1>2, FreshElsewhere DEF Script, store
<1>3. CASE Stands(w)
  <2>1. /\ Fresh(w) \/ ~Held(w.blob)
        /\ holders[w.item] = w.worker /\ w.worker # None /\ Put(w)
    BY <1>3, StandingIsFresh DEF Stands, Script
  <2>2. CASE v.item # w.item
    <3>1. item'[v.item] = item[v.item] /\ leases'[v.item] = leases[v.item]
          /\ holders'[v.item] = holders[v.item]
      BY <1>0, <1>1, <2>1, <2>2 DEF Put, IInv, StoreInv, StoreType
    <3> QED
      BY <3>1, FreshElsewhere
  <2>3. CASE v.item = w.item /\ ~Held(w.blob)
    <3>1. holders'[v.item] = None
      BY <1>0, <2>1, <2>3 DEF Put, IInv, StoreInv, StoreType
    <3> QED
      BY <1>1, <3>1 DEF WriteIsFresh
  <2>4. CASE v.item = w.item /\ Held(w.blob)
    <3>1. /\ holders'[v.item] = w.worker /\ leases'[v.item] = w.blob.lease_expires_at
          /\ item'[v.item].attempts = item[v.item].attempts
      BY <1>0, <2>1, <2>4 DEF Put, IInv, StoreInv, StoreType, Fresh
    <3>2. Outrun(v) /\ v.worker = w.worker => Outrun(v)'
      BY <2>4, <3>1 DEF Outrun, CallsShrink
    <3> QED
      BY <1>1, <2>1, <2>4, <3>1, <3>2 DEF WriteIsFresh, Fresh
  <2> QED
    BY <2>2, <2>3, <2>4
<1> QED
  BY <1>2, <1>3

LEMMA GiveBacksFresh ==
  ASSUME IInv, NEW S \in SUBSET Items, \A i \in S : item[i] # None, NEW backoff \in BOOLEAN,
         NEW w \in GiveBacks(S, backoff)
  PROVE  Fresh(w) /\ ~Held(w.blob)
<1>1. PICK i \in S : w = [item |-> i, blob |-> Returned(item[i], now, TRUE, backoff),
                          worker |-> item[i].worker, fence |-> leases[i]]
  BY DEF GiveBacks
<1>2. item[i] \in WorkItem /\ now \in Nat
  BY DEF IInv, StoreInv, StoreType, RestType
<1> DEFINE blob == Returned(item[i], now, TRUE, backoff)
<1>3. /\ blob.state \notin {"claimed", "completed"} /\ blob.attempts = item[i].attempts + 1
      /\ blob.state = "queued" => item[i].attempts + 1 < MaxAttempts
  BY <1>2, GivenBack
<1>4. w.item = i /\ w.blob = blob
  BY <1>1
<1> HIDE DEF blob
<1> QED
  BY <1>3, <1>4 DEF Fresh, Held

PromiseInv == IInv /\ WritesAreFresh

LEMMA HeldThenPromise ==
  ASSUME PromiseInv, NEW c \in Clients, NEW i \in Items, NEW op \in Calls \ {"reap"},
         NEW blob \in WorkItem, HeldThen(c, i, op, blob),
         LET w == [item |-> i, blob |-> blob, worker |-> WorkerOf[c], fence |-> None]
         IN  Fresh(w) \/ (op = "heartbeat" /\ ~Held(blob)),
         Held(blob) => blob.lease_expires_at \in Nat /\ blob.lease_expires_at > now
  PROVE  WritesAreFresh'
<1> DEFINE w == [item |-> i, blob |-> blob, worker |-> WorkerOf[c], fence |-> None]
<1>1. w \in Write /\ w.blob = blob
  BY RedisAssumption DEF Write
<1>2. Start(c, op, {w}) /\ UNCHANGED <<now, store>>
  BY DEF HeldThen
<1>3. Fresh(w) \/ (op = "heartbeat" /\ ~Held(blob))
  OBVIOUS
<1> HIDE DEF w
<1> QED
  BY <1>1, <1>2, <1>3, StartedFresh DEF PromiseInv

LEMMA SweepPromise ==
  ASSUME PromiseInv, NEW c \in Clients, NEW op \in Calls, NEW S \in SUBSET Items,
         \A i \in S : item[i] # None /\ leases[i] # None, NEW backoff \in BOOLEAN,
         Start(c, op, GiveBacks(S, backoff)), UNCHANGED <<now, store>>
  PROVE  WritesAreFresh'
<1> DEFINE W == GiveBacks(S, backoff)
<1>1. W \in SUBSET Write
  BY GiveBacksType DEF PromiseInv
<1>2. \A w \in W : Fresh(w) /\ ~Held(w.blob)
  BY GiveBacksFresh DEF PromiseInv
<1> HIDE DEF W
<1>3. Start(c, op, W)
  BY DEF W
<1> QED
  BY <1>1, <1>2, <1>3, StartedFresh DEF PromiseInv

LEMMA StepPromise ==
  ASSUME OwnNames, PromiseInv, [Next]_vars PROVE PromiseInv'
<1>0. /\ now \in Nat /\ WorkerOf \in [Clients -> Workers]
      /\ \A i \in Items : item[i] # None => item[i] \in WorkItem
  BY RedisAssumption DEF PromiseInv, IInv, RestType, StoreInv, StoreType
<1> SUFFICES WritesAreFresh'
  BY StepInv DEF PromiseInv
<1>1. ASSUME NEW i \in Items, NEW offer \in Offers, Enqueue(i, offer) PROVE WritesAreFresh'
  BY <1>1, EnqueueFresh DEF PromiseInv
<1>2. ASSUME NEW c \in Clients, NEW asked \in Leases, ClaimScript(c, asked) PROVE WritesAreFresh'
  BY <1>2, ClaimScriptFresh DEF PromiseInv
<1>3. ASSUME NEW c \in Clients, NEW i \in Items, Heartbeat(c, i)
      PROVE  WritesAreFresh'
  <2>1. item[i] \in WorkItem /\ HeldThen(c, i, "heartbeat", Renewed(item[i], now))
    BY <1>0, <1>3 DEF Heartbeat, Holding
  <2> DEFINE blob == Renewed(item[i], now)
  <2>2. /\ blob \in WorkItem /\ blob.attempts = item[i].attempts /\ blob.state = item[i].state
        /\ blob.lease_expires_at = now + LeaseSeconds
    BY <1>0, <2>1, RenewedType
  <2>3. HeldThen(c, i, "heartbeat", blob)
    BY <2>1
  <2> HIDE DEF blob
  <2>4. Fresh([item |-> i, blob |-> blob, worker |-> WorkerOf[c], fence |-> None]) \/ ~Held(blob)
    BY <2>2 DEF Fresh
  <2>5. blob.lease_expires_at \in Nat /\ blob.lease_expires_at > now
    BY <1>0, <2>2, PolicyAssumption
  <2> QED
    BY <2>2, <2>3, <2>4, <2>5, HeldThenPromise DEF Calls
<1>4. ASSUME NEW c \in Clients, NEW i \in Items, Complete(c, i)
      PROVE  WritesAreFresh'
  <2>1. item[i] \in WorkItem /\ HeldThen(c, i, "complete", Completed(item[i]))
    BY <1>0, <1>4 DEF Complete, Holding
  <2> DEFINE blob == Completed(item[i])
  <2>2. /\ blob \in WorkItem /\ blob.attempts = item[i].attempts /\ blob.state = "completed"
        /\ ~Held(blob)
    BY <2>1, CompletedType
  <2>3. HeldThen(c, i, "complete", blob)
    BY <2>1
  <2> HIDE DEF blob
  <2>4. Fresh([item |-> i, blob |-> blob, worker |-> WorkerOf[c], fence |-> None])
    BY <2>2 DEF Fresh
  <2> QED
    BY <2>2, <2>3, <2>4, HeldThenPromise DEF Calls
<1>5. ASSUME NEW c \in Clients, NEW i \in Items, NEW retryable \in BOOLEAN, Fail(c, i, retryable)
      PROVE  WritesAreFresh'
  <2>1. item[i] \in WorkItem /\ HeldThen(c, i, "fail", Returned(item[i], now, retryable, TRUE))
    BY <1>0, <1>5 DEF Fail, Holding
  <2> DEFINE blob == Returned(item[i], now, retryable, TRUE)
  <2>2. /\ blob \in WorkItem /\ blob.state \notin {"claimed", "completed"}
        /\ blob.attempts = item[i].attempts + 1
        /\ blob.state = "queued" => item[i].attempts + 1 < MaxAttempts
    BY <1>0, <2>1, GivenBack
  <2>3. HeldThen(c, i, "fail", blob)
    BY <2>1
  <2> HIDE DEF blob
  <2>4. Fresh([item |-> i, blob |-> blob, worker |-> WorkerOf[c], fence |-> None])
    BY <2>2 DEF Fresh, Held
  <2> QED
    BY <2>2, <2>3, <2>4, HeldThenPromise DEF Calls, Held
<1>6. ASSUME NEW c \in Clients, Reap(c) PROVE WritesAreFresh'
  <2>1. Lapsed \in SUBSET Items /\ \A i \in Lapsed : item[i] # None /\ leases[i] # None
    BY DEF Lapsed
  <2> QED
    BY <1>6, <2>1, SweepPromise DEF Reap, Calls
<1>7. ASSUME NEW c \in Clients, Adopt(c) PROVE WritesAreFresh'
  <2>1. /\ Owned(WorkerOf[c]) \in SUBSET Items
        /\ \A i \in Owned(WorkerOf[c]) : item[i] # None /\ leases[i] # None
    BY <1>0 DEF Owned, PromiseInv, IInv, StoreInv, StoreType
  <2> QED
    BY <1>7, <2>1, SweepPromise DEF Adopt, Calls
<1>8. ASSUME NEW c \in Clients, Settle(c) PROVE WritesAreFresh'
  <2>1. PICK w \in call[c].writes : Script(w) /\ Start(c, call[c].op, call[c].writes \ {w})
    BY <1>8 DEF Settle
  <2>2. /\ call'[c].writes = call[c].writes \ {w}
        /\ call[c].writes \ {w} # {} => call'[c].op = call[c].op
        /\ \A d \in Clients \ {c} : call'[d] = call[d]
    BY <2>1 DEF Start, Idle, PromiseInv, IInv, CallInv, CallType
  <2>3. CallsShrink
    BY <2>2 DEF CallsShrink
  <2> QED
    BY <2>1, <2>2, <2>3, ScriptFresh DEF PromiseInv
<1>9. ASSUME NEW c \in Clients, LoseReply(c) PROVE WritesAreFresh'
  <2>1. PICK w \in call[c].writes : Script(w)
    BY <1>9 DEF LoseReply
  <2>2. call' = call /\ CallsShrink
    BY <1>9 DEF LoseReply, CallsShrink
  <2> QED
    BY <2>1, <2>2, ScriptFresh DEF PromiseInv
<1>10. ASSUME NEW c \in Clients, Crash(c) PROVE WritesAreFresh'
  <2>1. UNCHANGED <<now, store>> /\ CallsShrink
    BY <1>10 DEF Crash, CallsShrink, Idle, PromiseInv, IInv, CallInv, CallType
  <2> QED
    BY <2>1, FreshElsewhere DEF WritesAreFresh, PromiseInv, store
<1>11. CASE Tick \/ UNCHANGED vars
  BY <1>11 DEF Tick, vars, store, PromiseInv, WritesAreFresh, WriteIsFresh, Fresh, Outrun
<1> QED
  BY <1>1, <1>2, <1>3, <1>4, <1>5, <1>6, <1>7, <1>8, <1>9, <1>10, <1>11 DEF Next, ClientStep

\* The protocol's view of one item.
Status(i) == IF item[i] = None THEN "absent"
             ELSE IF leases[i] # None THEN "claimed" ELSE item[i].state
Tried(i) == IF item[i] = None THEN 0 ELSE item[i].attempts

SameView(i) == Status(i)' = Status(i) /\ holders'[i] = holders[i] /\ Tried(i)' = Tried(i)

LEMMA NothingSeen ==
  ASSUME \A i \in Items : SameView(i), IInv, IInv'
  PROVE  UNCHANGED Abstract!vars
<1>1. holders' = holders
  <2>1. holders \in [Items -> Workers \cup {None}] /\ holders' \in [Items -> Workers \cup {None}]
    BY DEF IInv, StoreInv, StoreType
  <2>2. \A i \in Items : holders'[i] = holders[i]
    BY DEF SameView
  <2> QED
    BY <2>1, <2>2
<1> QED
  BY <1>1 DEF Abstract!vars, SameView, Status, Tried

Statuses == [i \in Items |-> Status(i)]
Tries == [i \in Items |-> Tried(i)]

LEMMA ViewChanged ==
  ASSUME NEW i \in Items, NEW s, NEW n, Status(i)' = s, Tried(i)' = n,
         \A j \in Items \ {i} : SameView(j)
  PROVE  /\ Statuses[i] = Status(i) /\ Statuses' = [Statuses EXCEPT ![i] = s]
         /\ Tries[i] = Tried(i) /\ Tries' = [Tries EXCEPT ![i] = n]
BY DEF SameView, Statuses, Tries

LEMMA RedisInitRefines == Init => Abstract!Init
BY DEF Init, Abstract!Init

\* A script that stands finishes a claim, gives it back, or keeps it.
LEMMA ScriptRefines ==
  ASSUME PromiseInv, IInv', NEW c \in Clients, NEW w \in call[c].writes, Script(w)
  PROVE  \/ Abstract!Next \/ UNCHANGED Abstract!vars
         \/ call[c].op = "heartbeat" /\ ~Held(w.blob) /\ Put(w)
<1>0. w \in Write /\ w.item \in Items /\ w.blob \in WorkItem
  BY DEF PromiseInv, IInv, CallInv, CallType, Write
<1> DEFINE i == w.item
           blob == w.blob
<1>1. CASE ~Stands(w)
  BY <1>1, NothingSeen DEF Script, store, SameView, Status, Tried, PromiseInv
<1>2. ASSUME Stands(w), ~(call[c].op = "heartbeat" /\ ~Held(w.blob) /\ Put(w))
      PROVE  Abstract!Next \/ UNCHANGED Abstract!vars
  <2>1. Fresh(w) /\ Put(w) /\ holders[i] # None
    BY <1>2, StandingIsFresh DEF PromiseInv, Script, Stands
  <2>2. leases[i] # None /\ item[i] # None /\ item[i] \in WorkItem /\ blob # None
    BY <1>0, <2>1, NoneIsNoItem DEF PromiseInv, IInv, StoreInv, StoreType, IndexesAgree,
                                    NothingIsLost, Live
  <2>3. /\ item'[i] = blob
        /\ Held(blob) => leases'[i] = blob.lease_expires_at /\ holders' = holders
        /\ ~Held(blob) => leases'[i] = None /\ holders' = [holders EXCEPT ![i] = None]
    BY <1>0, <2>1 DEF Put, PromiseInv, IInv, StoreInv, StoreType
  <2>4. \A j \in Items \ {i} : item'[j] = item[j] /\ leases'[j] = leases[j] /\ holders'[j] = holders[j]
    BY <1>0, <2>1 DEF Put, PromiseInv, IInv, StoreInv, StoreType
  <2>5. \A j \in Items \ {i} : SameView(j)
    BY <2>4 DEF SameView, Status, Tried
  <2>6. Status(i) = "claimed" /\ Tried(i) = item[i].attempts /\ Tried(i)' = blob.attempts
    BY <2>2, <2>3 DEF Status, Tried
  <2>7. CASE Held(blob)
    <3>1. leases'[i] # None
      BY <1>0, <2>3, <2>7 DEF PromiseInv, IInv, CallInv, WritesAreSound, Sound
    <3>2. SameView(i)
      BY <2>1, <2>2, <2>3, <2>6, <2>7, <3>1 DEF SameView, Status, Fresh
    <3> QED
      BY <2>5, <3>2, NothingSeen DEF PromiseInv
  <2>8. CASE ~Held(blob)
    <3>1. holders' = [j \in Items |-> IF j = i THEN None ELSE holders[j]]
      BY <2>3, <2>8 DEF PromiseInv, IInv, StoreInv, StoreType
    <3>2. Status(i)' = blob.state /\ blob.state \in {"queued", "completed", "dead_lettered"}
      BY <1>0, <2>2, <2>3, <2>8 DEF Status, WorkItem, WorkState, Held
    <3>3. CASE blob.state = "completed"
      <4>1. Tried(i)' = Tried(i)
        BY <2>1, <2>6, <3>3 DEF Fresh
      <4>2. Abstract!Complete(i)
        <5>1. /\ Statuses[i] = "claimed" /\ Statuses' = [Statuses EXCEPT ![i] = "completed"]
              /\ Tries' = Tries /\ holders' = [holders EXCEPT ![i] = None]
          <6>1. \A j \in Items : Tried(j)' = Tried(j)
            BY <2>5, <4>1 DEF SameView
          <6>2. Tries' = Tries
            BY <6>1 DEF Tries
          <6> QED
            BY <1>0, <2>3, <2>5, <2>6, <2>8, <3>2, <3>3, <4>1, <6>2, ViewChanged
        <5> QED
          BY <5>1, Zenon DEF Abstract!Complete, Statuses, Tries, Status, Tried
      <4> QED
        BY <1>0, <4>2 DEF Abstract!Next
    <3>4. CASE blob.state = "queued"
      <4>1. Tried(i)' = Tried(i) + 1 /\ Tried(i) + 1 < MaxAttempts
        BY <2>1, <2>6, <2>8, <3>4 DEF Fresh
      <4>2. \A j \in Items : Status(j)' = IF j \notin {i} THEN Status(j)
                                          ELSE IF Tried(j) + 1 < MaxAttempts THEN "queued"
                                          ELSE "dead_lettered"
        BY <2>5, <3>2, <3>4, <4>1 DEF SameView
      <4>3. \A j \in Items : Tried(j)' = IF j \in {i} THEN Tried(j) + 1 ELSE Tried(j)
        BY <2>5, <4>1 DEF SameView
      <4>4. Abstract!GiveBack({i})
        <5>1. /\ \A j \in {i} : Statuses[j] = "claimed"
              /\ Statuses' = [j \in Items |-> IF j \notin {i} THEN Statuses[j]
                                              ELSE IF Tries[j] + 1 < MaxAttempts THEN "queued"
                                              ELSE "dead_lettered"]
              /\ holders' = [j \in Items |-> IF j \in {i} THEN None ELSE holders[j]]
              /\ Tries' = [j \in Items |-> IF j \in {i} THEN Tries[j] + 1 ELSE Tries[j]]
          BY <1>0, <2>6, <3>1, <4>2, <4>3 DEF Statuses, Tries
        <5> QED
          BY <5>1, Zenon DEF Abstract!GiveBack, Statuses, Tries, Status, Tried
      <4>5. {i} \in SUBSET Items
        BY <1>0
      <4> QED
        BY <4>4, <4>5 DEF Abstract!Next
    <3>5. CASE blob.state = "dead_lettered"
      <4>1. Tried(i)' = Tried(i) + 1
        BY <2>1, <2>6, <2>8, <3>5 DEF Fresh
      <4>2. Abstract!Bury(i)
        <5>1. /\ Statuses[i] = "claimed" /\ Statuses' = [Statuses EXCEPT ![i] = "dead_lettered"]
              /\ Tries' = [Tries EXCEPT ![i] = @ + 1] /\ holders' = [holders EXCEPT ![i] = None]
          BY <1>0, <2>3, <2>5, <2>6, <2>8, <3>2, <3>5, <4>1, ViewChanged
        <5> QED
          BY <5>1, Zenon DEF Abstract!Bury, Statuses, Tries, Status, Tried
      <4> QED
        BY <1>0, <4>2 DEF Abstract!Next
    <3> QED
      BY <3>2, <3>3, <3>4, <3>5
  <2> QED
    BY <2>7, <2>8
<1> QED
  BY <1>1, <1>2

LEMMA RedisStepRefines ==
  PromiseInv /\ IInv' /\ [Next]_vars => [Abstract!Next \/ UncountedReturn]_(Abstract!vars)
<1> SUFFICES ASSUME PromiseInv, IInv', [Next]_vars
             PROVE  Abstract!Next \/ UncountedReturn \/ UNCHANGED Abstract!vars
  OBVIOUS
<1>1. ASSUME NEW i \in Items, NEW offer \in Offers, Enqueue(i, offer) PROVE Abstract!Next
  <2>1. /\ ~Live(i) /\ leases[i] = None /\ UNCHANGED <<leases, holders>>
        /\ item' = [item EXCEPT ![i] = Placed(offer, now)]
    BY <1>1 DEF Enqueue, PromiseInv, IInv, StoreInv, NothingIsLost
  <2>2. Placed(offer, now) # None /\ Placed(offer, now).state = "queued" /\ Placed(offer, now).attempts = offer.attempts
    BY PlacedType, NoneIsNoItem DEF PromiseInv, IInv, RestType
  <2>3. /\ Status(i)' = "queued" /\ Tried(i)' = offer.attempts
        /\ \A j \in Items \ {i} : SameView(j)
    BY <2>1, <2>2 DEF Status, Tried, SameView, PromiseInv, IInv, StoreInv, StoreType
  <2>4. Status(i) \in {"absent", "completed", "dead_lettered"}
    BY <2>1 DEF Status, Live, Terminal
  <2>5. Abstract!Enqueue(i, offer.attempts)
    <3>1. /\ Statuses[i] \in {"absent", "completed", "dead_lettered"}
          /\ Statuses' = [Statuses EXCEPT ![i] = "queued"] /\ Tries' = [Tries EXCEPT ![i] = offer.attempts]
      BY <2>3, <2>4, ViewChanged
    <3> QED
      BY <2>1, <3>1, Zenon DEF Abstract!Enqueue, Statuses, Tries, Status, Tried
  <2>6. offer.attempts \in {o.attempts : o \in Offers}
    OBVIOUS
  <2> QED
    BY <2>5, <2>6 DEF Abstract!Next
<1>2. ASSUME NEW c \in Clients, NEW asked \in Leases, ClaimScript(c, asked) PROVE Abstract!Next
  <2>1. PICK i \in Items : Live(i) /\ ready[i] # None /\ Pick(c, i, asked)
    BY <1>2 DEF ClaimScript, Due, PromiseInv, IInv, StoreInv, NothingIsLost
  <2>2. /\ leases[i] = None /\ item[i] # None /\ item[i].state = "queued"
    <3>1. leases[i] = None /\ holders[i] = None /\ item[i] # None /\ item[i] \in WorkItem
      BY <2>1, NoneAssumption DEF PromiseInv, IInv, StoreInv, StoreType, IndexesAgree, Live
    <3>2. item[i].worker = None
      BY <3>1 DEF PromiseInv, IInv, StoreInv, RecordsMatch
    <3> QED
      BY <2>1, <3>1, <3>2 DEF Live, Terminal, WorkItem, WorkState
  <2>3. /\ item' = item /\ holders' = [holders EXCEPT ![i] = WorkerOf[c]]
        /\ leases' = [leases EXCEPT ![i] = now + asked] /\ now + asked # None
    BY <2>1, LeaseType, NoneAssumption DEF Pick, PromiseInv, IInv, RestType
  <2>4. Status(i) = "queued" /\ Status(i)' = "claimed" /\ Tried(i)' = Tried(i)
    BY <2>2, <2>3 DEF Status, Tried, PromiseInv, IInv, StoreInv, StoreType
  <2>5. \A j \in Items \ {i} : SameView(j)
    BY <2>3 DEF SameView, Status, Tried, PromiseInv, IInv, StoreInv, StoreType
  <2>6. Abstract!Claim(i, WorkerOf[c]) /\ WorkerOf[c] \in Workers
    <3>1. Statuses[i] = "queued" /\ Statuses' = [Statuses EXCEPT ![i] = "claimed"]
      BY <2>4, <2>5, ViewChanged
    <3>2. Tries' = Tries
      <4>1. \A j \in Items : Tried(j)' = Tried(j)
        BY <2>4, <2>5 DEF SameView
      <4> QED
        BY <4>1 DEF Tries
    <3>3. WorkerOf[c] \in Workers
      BY RedisAssumption
    <3> QED
      BY <2>3, <3>1, <3>2, <3>3, Zenon DEF Abstract!Claim, Statuses, Tries, Status, Tried
  <2> QED
    BY <2>6 DEF Abstract!Next
<1>3. ASSUME NEW c \in Clients, Settle(c) \/ LoseReply(c)
      PROVE  Abstract!Next \/ UncountedReturn \/ UNCHANGED Abstract!vars
  BY <1>3, ScriptRefines DEF Settle, LoseReply, UncountedReturn
<1>4. CASE UNCHANGED store
  BY <1>4, NothingSeen DEF store, SameView, Status, Tried, PromiseInv
<1> QED
  BY <1>1, <1>2, <1>3, <1>4 DEF Next, ClientStep, Heartbeat, Complete, Fail, HeldThen, Reap, Adopt,
                               Crash, Tick, vars

LEMMA PromiseInvariance == ASSUME OwnNames PROVE Spec => []PromiseInv
<1>1. Init => PromiseInv
  <2>1. Init => \A c \in Clients : call[c].writes = {}
    BY DEF Init, Idle
  <2> QED
    BY <2>1, InitInv DEF PromiseInv, WritesAreFresh
<1>2. PromiseInv /\ [Next]_vars => PromiseInv'
  BY StepPromise
<1> QED
  BY <1>1, <1>2, PTL DEF Spec

\* Where every client has a name of its own, the store departs from the protocol
\* by one script only, whichever calls are cut short: the SETTLE of a heartbeat
\* that found its item held and the record of its claim never written.
THEOREM OnlyUncountedReturns ==
  ASSUME OwnNames PROVE Spec => OnlyUncountedReturnsDepart
<1>1. PromiseInv /\ PromiseInv' /\ [Next]_vars
      => [Abstract!Next \/ UncountedReturn]_(Abstract!vars)
  BY RedisStepRefines DEF PromiseInv
<1> QED
  BY <1>1, PromiseInvariance, RedisInitRefines, PTL DEF Spec, OnlyUncountedReturnsDepart

\* A history without that script keeps the protocol's promise, also one in which
\* claims are cut short between their two scripts.
THEOREM RedisKeepsThePromise ==
  ASSUME OwnNames PROVE Spec /\ [][~UncountedReturn]_(Abstract!vars) => KeepsThePromise
<1>1. /\ [Abstract!Next \/ UncountedReturn]_(Abstract!vars)
      /\ [~UncountedReturn]_(Abstract!vars)
      => [Abstract!Next]_(Abstract!vars)
  OBVIOUS
<1>2. Spec /\ [][~UncountedReturn]_(Abstract!vars) => Abstract!Spec
  BY <1>1, OnlyUncountedReturns, PTL DEF OnlyUncountedReturnsDepart, Abstract!Spec
<1> QED
  BY <1>2 DEF KeepsThePromise
=============================================================================
