------------------------ MODULE EventDeliveryProofs ------------------------
(* Proofs about EventDelivery, for any events, relays, hands and limits.     *)
EXTENDS EventDelivery, FiniteSetLemmas

-----------------------------------------------------------------------------
(* The stream only grows, by messages of events whose row is waiting.         *)

ChannelTyped ==
  /\ stream \in Seq(Events)
  /\ letters \subseteq Events
  /\ faults \in 0..MaxFaults
  /\ \A e \in Events : Cardinality(MessagesOf(e)) <= MaxCopies

Carries(e) ==
  /\ row[e] = "waiting"
  /\ Cardinality(MessagesOf(e)) < MaxCopies
  /\ stream' = Append(stream, e)

StreamMoves == UNCHANGED stream \/ \E e \in Events : Carries(e)

LEMMA StreamFacts ==
  ASSUME ChannelTyped
  PROVE  /\ Len(stream) \in Nat /\ Messages = 1..Len(stream)
         /\ \A m \in Messages : stream[m] \in Events
         /\ \A e \in Events : IsFiniteSet(MessagesOf(e)) /\ Cardinality(MessagesOf(e)) \in Nat
<1>1. /\ Len(stream) \in Nat /\ Messages = 1..Len(stream)
      /\ \A m \in Messages : stream[m] \in Events
  BY DEF ChannelTyped, Messages
<1>2. IsFiniteSet(1..Len(stream))
  BY <1>1, FS_Interval
<1>3. ASSUME NEW e \in Events
      PROVE  IsFiniteSet(MessagesOf(e)) /\ Cardinality(MessagesOf(e)) \in Nat
  <2>1. MessagesOf(e) \in SUBSET (1..Len(stream))
    BY <1>1 DEF MessagesOf
  <2> QED
    BY <1>2, <2>1, FS_Subset, FS_CardinalityType
<1> QED
  BY <1>1, <1>3

\* A message keeps its place, and a new one comes after those there are.
LEMMA StreamOnlyGrows ==
  ASSUME ChannelTyped, StreamMoves
  PROVE  /\ \A m \in Messages : m \in Messages' /\ stream'[m] = stream[m]
         /\ \A e : MessagesOf(e) \subseteq MessagesOf(e)'
         /\ \A m \in Messages' \ Messages :
              /\ stream'[m] \in Events /\ row[stream'[m]] = "waiting"
              /\ \A n \in Messages : n < m
              /\ \A k \in Messages' \ Messages : k = m
<1>1. CASE UNCHANGED stream
  BY <1>1 DEF Messages, MessagesOf
<1>2. ASSUME NEW e \in Events, Carries(e)
      PROVE  /\ \A m \in Messages : m \in Messages' /\ stream'[m] = stream[m]
             /\ Messages' = Messages \cup {Len(stream) + 1}
             /\ stream'[Len(stream) + 1] = e /\ Len(stream) + 1 \notin Messages
             /\ \A n \in Messages : n < Len(stream) + 1
  BY <1>2, StreamFacts DEF ChannelTyped, Carries, Messages
<1>3. CASE \E e \in Events : Carries(e)
  <2>1. PICK e \in Events : Carries(e)
    BY <1>3
  <2>2. /\ \A m \in Messages : m \in Messages' /\ stream'[m] = stream[m]
        /\ Messages' \ Messages = {Len(stream) + 1}
        /\ stream'[Len(stream) + 1] = e /\ row[e] = "waiting"
        /\ \A n \in Messages : n < Len(stream) + 1
    BY <1>2, <2>1 DEF Carries
  <2>3. \A d : MessagesOf(d) \subseteq MessagesOf(d)'
    BY <2>2 DEF MessagesOf
  <2> QED
    BY <2>2, <2>3
<1> QED
  BY <1>1, <1>3 DEF StreamMoves

LEMMA ChannelKept ==
  ASSUME ChannelTyped, StreamMoves, letters' \subseteq Events, faults' \in 0..MaxFaults
  PROVE  ChannelTyped'
<1>1. CASE UNCHANGED stream
  BY <1>1 DEF ChannelTyped, MessagesOf, Messages
<1>2. ASSUME NEW e \in Events, Carries(e) PROVE ChannelTyped'
  <2>1. stream' \in Seq(Events)
    BY <1>2 DEF Carries, ChannelTyped
  <2>2. /\ \A m \in Messages : stream'[m] = stream[m]
        /\ Messages' = Messages \cup {Len(stream) + 1}
        /\ stream'[Len(stream) + 1] = e /\ Len(stream) + 1 \notin Messages
    BY <1>2, StreamFacts DEF ChannelTyped, Carries, Messages
  <2>3. MessagesOf(e)' = MessagesOf(e) \cup {Len(stream) + 1}
    BY <2>2 DEF MessagesOf
  <2>4. Cardinality(MessagesOf(e))' <= MaxCopies
    <3>1. /\ IsFiniteSet(MessagesOf(e)) /\ Cardinality(MessagesOf(e)) \in Nat
          /\ Len(stream) + 1 \notin MessagesOf(e)
      BY <2>2, StreamFacts DEF MessagesOf
    <3>2. Cardinality(MessagesOf(e) \cup {Len(stream) + 1}) = Cardinality(MessagesOf(e)) + 1
      BY <3>1, FS_AddElement
    <3> QED
      BY <1>2, <2>3, <3>1, <3>2, ChannelAssumption DEF Carries
  <2>5. ASSUME NEW d \in Events, d # e PROVE Cardinality(MessagesOf(d))' <= MaxCopies
    <3>1. MessagesOf(d)' = MessagesOf(d)
      BY <2>2, <2>5 DEF MessagesOf
    <3> QED
      BY <3>1 DEF ChannelTyped
  <2> QED
    BY <2>1, <2>4, <2>5 DEF ChannelTyped
<1> QED
  BY <1>1, <1>2 DEF StreamMoves

\* There is a counter for every message: an event has no more messages than MaxCopies.
LEMMA StreamFits ==
  ASSUME ChannelTyped
  PROVE  Messages \subseteq 1..(MaxCopies * Cardinality(Events))
<1> DEFINE Upto(m) == {n \in MessagesOf(stream[m]) : n <= m}
           Places == Events \X (1..MaxCopies)
           place == [m \in Messages |-> <<stream[m], Cardinality(Upto(m))>>]
<1>1. /\ Len(stream) \in Nat /\ Messages = 1..Len(stream)
      /\ \A m \in Messages : stream[m] \in Events
      /\ \A e \in Events : IsFiniteSet(MessagesOf(e)) /\ Cardinality(MessagesOf(e)) \in Nat
  BY StreamFacts
<1>2. \A m \in Messages : IsFiniteSet(Upto(m)) /\ Cardinality(Upto(m)) \in 1..MaxCopies
  <2> TAKE m \in Messages
  <2>1. /\ Upto(m) \in SUBSET MessagesOf(stream[m]) /\ stream[m] \in Events /\ m \in Upto(m)
        /\ IsFiniteSet(MessagesOf(stream[m]))
    BY <1>1 DEF MessagesOf
  <2>2. /\ IsFiniteSet(Upto(m)) /\ Cardinality(Upto(m)) \in Nat
        /\ Cardinality(Upto(m)) <= Cardinality(MessagesOf(stream[m]))
    <3> HIDE DEF Upto
    <3> QED
      BY <2>1, FS_Subset, FS_CardinalityType
  <2>3. Cardinality(Upto(m)) # 0
    <3> HIDE DEF Upto
    <3> QED
      BY <2>1, <2>2, FS_EmptySet
  <2> HIDE DEF Upto
  <2>4. /\ Cardinality(MessagesOf(stream[m])) <= MaxCopies
        /\ Cardinality(MessagesOf(stream[m])) \in Nat
    BY <1>1, <2>1 DEF ChannelTyped
  <2> QED
    BY <2>2, <2>3, <2>4, ChannelAssumption
<1>3. ASSUME NEW m \in Messages, NEW n \in Messages, m < n, stream[m] = stream[n]
      PROVE  Cardinality(Upto(m)) # Cardinality(Upto(n))
  <2>1. /\ Upto(m) \in SUBSET Upto(n) /\ n \in Upto(n) /\ n \notin Upto(m)
    BY <1>1, <1>3 DEF MessagesOf
  <2>2. IsFiniteSet(Upto(n))
    BY <1>2
  <2> HIDE DEF Upto
  <2> QED
    BY <2>1, <2>2, FS_Subset
<1>4. place \in Injection(Messages, Places)
  <2>1. place \in [Messages -> Places]
    <3> HIDE DEF Upto
    <3> QED
      BY <1>1, <1>2
  <2>2. ASSUME NEW m \in Messages, NEW n \in Messages, place[m] = place[n] PROVE m = n
    <3>1. stream[m] = stream[n] /\ Cardinality(Upto(m)) = Cardinality(Upto(n))
      <4> HIDE DEF Upto
      <4> QED
        BY <2>2
    <3>2. ~(m < n) /\ ~(n < m)
      <4> HIDE DEF Upto
      <4> QED
        BY <1>3, <3>1
    <3> QED
      BY <1>1, <3>2
  <2> HIDE DEF place
  <2> QED
    BY <2>1, <2>2 DEF Injection, IsInjective
<1>5. IsFiniteSet(Places) /\ Cardinality(Places) = Cardinality(Events) * MaxCopies
  <2>1. IsFiniteSet(1..MaxCopies) /\ Cardinality(1..MaxCopies) = MaxCopies
    BY ChannelAssumption, FS_Interval
  <2> QED
    BY <2>1, ChannelAssumption, FS_Product
<1>6. Cardinality(Messages) <= Cardinality(Places)
  <2> HIDE DEF place, Places
  <2> QED
    BY <1>4, <1>5, FS_Injection
<1>7. Cardinality(Messages) = Len(stream)
  <2>1. Len(stream) \in Nat /\ Messages = 1..Len(stream)
    BY <1>1
  <2>2. Cardinality(1..Len(stream)) = Len(stream)
    BY <2>1, CountUpTo
  <2> QED
    BY <2>1, <2>2
<1>8. Cardinality(Events) \in Nat
  BY ChannelAssumption, FS_CardinalityType
<1>9. Cardinality(Events) * MaxCopies = MaxCopies * Cardinality(Events)
  BY <1>8, ChannelAssumption
<1>10. Len(stream) <= MaxCopies * Cardinality(Events)
  BY <1>5, <1>6, <1>7, <1>9, Zenon
<1>11. MaxCopies * Cardinality(Events) \in Nat
  BY <1>8, ChannelAssumption
<1> QED
  BY <1>1, <1>10, <1>11

-----------------------------------------------------------------------------
(* The outbox: what a relay holds is waiting, and of runs nobody else has.    *)

RelayState == [runs: SUBSET Runs, todo: Seq(Events), sent: SUBSET Events]

Elements(q) == {q[n] : n \in DOMAIN q}
Held(r) == Elements(relay[r].todo) \cup relay[r].sent

OutboxTyped ==
  /\ input \in Inputs
  /\ input \in [runOf: [Events -> Runs], oversized: SUBSET Events, id: [Events -> Nat]]
  /\ row \in [Events -> {"none", "waiting", "published"}]
  /\ written \in Seq(Events)
  /\ relay \in [Relays -> RelayState]

RowsSound ==
  /\ \A m, n \in DOMAIN written : written[m] = written[n] => m = n
  /\ \A e \in Events : row[e] = "none" <=> e \notin Written

RelaysSound ==
  /\ \A r \in Relays : \A e \in Held(r) :
       row[e] = "waiting" /\ input.runOf[e] \in relay[r].runs
  /\ \A r, s \in Relays : r # s => relay[r].runs \cap relay[s].runs = {}

Posting == OutboxTyped /\ RowsSound /\ RelaysSound

LEMMA HeadAndTail ==
  ASSUME NEW q \in Seq(Events), q # <<>>
  PROVE  /\ Head(q) \in Events /\ Tail(q) \in Seq(Events)
         /\ Elements(q) = {Head(q)} \cup Elements(Tail(q))
         /\ \A n \in DOMAIN Tail(q) : n + 1 \in DOMAIN q /\ Tail(q)[n] = q[n + 1]
         /\ 1 \in DOMAIN q /\ Head(q) = q[1]
<1>1. /\ Head(q) \in Events /\ Tail(q) \in Seq(Events)
      /\ 1 \in DOMAIN q /\ Head(q) = q[1]
      /\ DOMAIN q = 1..Len(q) /\ DOMAIN Tail(q) = 1..(Len(q) - 1)
      /\ \A n \in DOMAIN Tail(q) : Tail(q)[n] = q[n + 1]
      /\ Len(q) \in Nat
  OBVIOUS
<1>2. \A n \in DOMAIN q : n = 1 \/ (n - 1 \in DOMAIN Tail(q) /\ q[n] = Tail(q)[n - 1])
  BY <1>1
<1>3. \A n \in DOMAIN Tail(q) : n + 1 \in DOMAIN q
  BY <1>1
<1>4. Elements(q) = {Head(q)} \cup Elements(Tail(q))
  <2>1. ASSUME NEW n \in DOMAIN q PROVE q[n] \in {Head(q)} \cup Elements(Tail(q))
    BY <1>1, <1>2, <2>1 DEF Elements
  <2>2. ASSUME NEW n \in DOMAIN Tail(q) PROVE Tail(q)[n] \in Elements(q)
    BY <1>1, <1>3, <2>2 DEF Elements
  <2>3. Head(q) \in Elements(q)
    BY <1>1 DEF Elements
  <2> QED
    BY <2>1, <2>2, <2>3 DEF Elements
<1> QED
  BY <1>1, <1>3, <1>4

\* The rows of the runs a relay claims, in some order.
LEMMA ReturnedType ==
  ASSUME NEW rows \in SUBSET Events, NEW todo \in Returned(rows)
  PROVE  todo \in Seq(Events) /\ Elements(todo) = rows
<1>1. Cardinality(rows) \in Nat
  BY ChannelAssumption, FS_Subset, FS_CardinalityType
<1>2. todo \in [1..Cardinality(rows) -> rows] /\ Elements(todo) = rows
  BY DEF Returned, Elements
<1> QED
  BY <1>1, <1>2

\* The relays' part of a step that writes no row.
LEMMA RelayMoves ==
  ASSUME Posting, NEW r \in Relays, NEW x \in RelayState,
         relay' = [relay EXCEPT ![r] = x], UNCHANGED <<input, row, written>>,
         \A e \in Elements(x.todo) \cup x.sent :
           row[e] = "waiting" /\ input.runOf[e] \in x.runs,
         \A s \in Relays : r # s => x.runs \cap relay[s].runs = {}
  PROVE  Posting'
<1>1. /\ relay' \in [Relays -> RelayState] /\ relay'[r] = x
      /\ \A s \in Relays : s # r => relay'[s] = relay[s]
  BY DEF Posting, OutboxTyped
<1>2. OutboxTyped' /\ RowsSound'
  BY <1>1 DEF Posting, OutboxTyped, RowsSound, Written
<1>3. RelaysSound'
  <2>1. ASSUME NEW s \in Relays, NEW e \in Held(s)'
        PROVE  row'[e] = "waiting" /\ input'.runOf[e] \in relay'[s].runs
    <3>1. CASE s = r
      BY <1>1, <2>1, <3>1 DEF Held
    <3>2. CASE s # r
      BY <1>1, <2>1, <3>2 DEF Held, Posting, RelaysSound
    <3> QED
      BY <3>1, <3>2
  <2>2. ASSUME NEW s \in Relays, NEW t \in Relays, s # t
        PROVE  relay'[s].runs \cap relay'[t].runs = {}
    BY <1>1, <2>2 DEF Posting, RelaysSound
  <2> QED
    BY <2>1, <2>2 DEF RelaysSound
<1> QED
  BY <1>2, <1>3 DEF Posting

LEMMA FreeFacts == /\ Free \in RelayState /\ Elements(Free.todo) = {} /\ Free.sent = {}
                   /\ Free.runs = {}
BY DEF Free, RelayState, Elements

LEMMA PassedFacts ==
  ASSUME Posting, NEW r \in Relays, Open(r)
  PROVE  /\ Foremost(r) \in Events /\ Foremost(r) \in Held(r) /\ row[Foremost(r)] = "waiting"
         /\ LET x == [relay[r] EXCEPT !.todo = Tail(@), !.sent = @ \cup {Foremost(r)}]
            IN  /\ x \in RelayState /\ Passed(r) = [relay EXCEPT ![r] = x]
                /\ x.runs = relay[r].runs /\ x.todo = Tail(relay[r].todo)
                /\ x.sent = relay[r].sent \cup {Foremost(r)}
                /\ Elements(x.todo) \cup x.sent = Held(r)
<1>1. relay[r] \in RelayState /\ relay[r].todo \in Seq(Events) /\ relay[r].todo # <<>>
  BY DEF Posting, OutboxTyped, RelayState, Open
<1>2. /\ Foremost(r) \in Events /\ Tail(relay[r].todo) \in Seq(Events)
      /\ Elements(relay[r].todo) = {Foremost(r)} \cup Elements(Tail(relay[r].todo))
  BY <1>1, HeadAndTail DEF Foremost
<1>3. Foremost(r) \in Held(r) /\ row[Foremost(r)] = "waiting"
  BY <1>2 DEF Held, Posting, RelaysSound
<1> DEFINE x == [relay[r] EXCEPT !.todo = Tail(@), !.sent = @ \cup {Foremost(r)}]
<1>4. /\ x \in RelayState /\ x.runs = relay[r].runs /\ x.todo = Tail(relay[r].todo)
      /\ x.sent = relay[r].sent \cup {Foremost(r)}
  BY <1>1, <1>2 DEF RelayState
<1>5. Passed(r) = [relay EXCEPT ![r] = x]
  BY <1>1 DEF Passed, RelayState
<1>6. Elements(x.todo) \cup x.sent = Held(r)
  BY <1>2, <1>4 DEF Held
<1> HIDE DEF x
<1> QED
  BY <1>2, <1>3, <1>4, <1>5, <1>6 DEF x

LEMMA AcceptingMoves ==
  ASSUME ChannelTyped, NEW e \in Events, row[e] = "waiting", stream' \in Accepting(e)
  PROVE  StreamMoves /\ MessagesOf(e)' # {}
<1>1. CASE stream' = stream /\ MessagesOf(e) # {}
  BY <1>1 DEF StreamMoves, MessagesOf, Messages
<1>2. CASE Carries(e)
  <2>1. StreamMoves
    BY <1>2 DEF StreamMoves
  <2>2. Len(stream) + 1 \in Messages' /\ stream'[Len(stream) + 1] = e
    BY <1>2, StreamFacts DEF Carries, ChannelTyped, Messages
  <2> QED
    BY <2>1, <2>2 DEF MessagesOf
<1> QED
  BY <1>1, <1>2 DEF Accepting, Carries

\* What a step of the relays may do to the channels.
LEMMA RelaysCarry ==
  ASSUME ChannelTyped, Posting, OutboxNext
  PROVE  /\ StreamMoves
         /\ letters \subseteq letters' /\ faults' \in 0..MaxFaults
         /\ \A e \in letters' \ letters : e \in Events /\ row[e] = "waiting"
<1>1. ASSUME NEW e \in Events, Publish(e)
      PROVE  StreamMoves /\ UNCHANGED <<letters, faults>>
  BY <1>1 DEF Publish, channels, StreamMoves
<1>2. ASSUME NEW r \in Relays, Claim(r) \/ Mark(r)
      PROVE  StreamMoves /\ UNCHANGED <<letters, faults>>
  BY <1>2 DEF Claim, Mark, channels, StreamMoves
<1>3. ASSUME NEW r \in Relays, Send(r) \/ Unacknowledged(r)
      PROVE  StreamMoves /\ UNCHANGED letters /\ faults' \in 0..MaxFaults
  <2>1. Foremost(r) \in Events /\ row[Foremost(r)] = "waiting"
    BY Zenon, <1>3, PassedFacts DEF Send, Unacknowledged
  <2>2. StreamMoves
    BY <1>3, <2>1, AcceptingMoves DEF Send, Unacknowledged, StreamMoves
  <2>3. faults' \in 0..MaxFaults
    BY <1>3, ChannelAssumption DEF Send, Unacknowledged, Fault, ChannelTyped
  <2> QED
    BY <1>3, <2>2, <2>3 DEF Send, Unacknowledged
<1>4. ASSUME NEW r \in Relays, Divert(r)
      PROVE  /\ StreamMoves /\ UNCHANGED faults /\ letters' = letters \cup {Foremost(r)}
             /\ Foremost(r) \in Events /\ row[Foremost(r)] = "waiting"
  BY Zenon, <1>4, PassedFacts DEF Divert, Buried, StreamMoves
<1>5. ASSUME NEW r \in Relays, Die(r)
      PROVE  StreamMoves /\ UNCHANGED letters /\ faults' \in 0..MaxFaults
  BY <1>5, ChannelAssumption DEF Die, Fault, StreamMoves, ChannelTyped
<1>6. faults \in 0..MaxFaults
  BY DEF ChannelTyped
<1> QED
  BY <1>1, <1>2, <1>3, <1>4, <1>5, <1>6 DEF OutboxNext, Deliver

LEMMA PublishFacts ==
  ASSUME Posting, NEW e \in Events, Publish(e)
  PROVE  /\ written' \in Seq(Events) /\ Written' = Written \cup {e} /\ e \notin Written
         /\ \A n \in DOMAIN written : n \in DOMAIN written' /\ written'[n] = written[n]
         /\ Len(written) + 1 \in DOMAIN written' /\ written'[Len(written) + 1] = e
         /\ DOMAIN written' = DOMAIN written \cup {Len(written) + 1}
         /\ \A n \in DOMAIN written : n < Len(written) + 1
         /\ row' \in [Events -> {"none", "waiting", "published"}] /\ row'[e] = "waiting"
         /\ \A d \in Events : d # e => row'[d] = row[d]
<1>1. /\ written' \in Seq(Events)
      /\ \A n \in DOMAIN written : n \in DOMAIN written' /\ written'[n] = written[n]
      /\ Len(written) + 1 \in DOMAIN written' /\ written'[Len(written) + 1] = e
      /\ DOMAIN written' = DOMAIN written \cup {Len(written) + 1}
      /\ \A n \in DOMAIN written : n < Len(written) + 1
  BY DEF Posting, OutboxTyped, Publish
<1>2. Written' = Written \cup {e} /\ e \notin Written
  BY <1>1 DEF Written, Publish
<1>3. /\ row' \in [Events -> {"none", "waiting", "published"}] /\ row'[e] = "waiting"
      /\ \A d \in Events : d # e => row'[d] = row[d]
  BY DEF Posting, OutboxTyped, Publish
<1> QED
  BY <1>1, <1>2, <1>3

LEMMA PublishKeeps == ASSUME Posting, NEW e \in Events, Publish(e) PROVE Posting'
<1>1. UNCHANGED <<input, relay>>
  BY DEF Publish
<1>2. OutboxTyped'
  BY <1>1, PublishFacts DEF Posting, OutboxTyped
<1>3. RowsSound'
  <2>1. ASSUME NEW m \in DOMAIN written', NEW n \in DOMAIN written', written'[m] = written'[n]
        PROVE  m = n
    BY <2>1, PublishFacts DEF Posting, RowsSound, Written
  <2>2. \A d \in Events : row'[d] = "none" <=> d \notin Written'
    BY PublishFacts DEF Posting, RowsSound
  <2> QED
    BY <2>1, <2>2 DEF RowsSound
<1>4. RelaysSound'
  <2>1. \A r \in Relays : Held(r)' = Held(r) /\ Held(r) \subseteq Events
    BY <1>1 DEF Posting, OutboxTyped, RelayState, Held, Elements
  <2>2. \A d \in Events : row[d] = "waiting" => row'[d] = "waiting"
    BY PublishFacts
  <2> QED
    BY <1>1, <2>1, <2>2 DEF Posting, RelaysSound
<1> QED
  BY <1>2, <1>3, <1>4 DEF Posting

LEMMA ClaimFacts ==
  ASSUME Posting, NEW r \in Relays, Claim(r)
  PROVE  \E x \in RelayState :
           /\ relay' = [relay EXCEPT ![r] = x] /\ x.sent = {}
           /\ x.todo \in Returned({e \in Waiting : input.runOf[e] \in x.runs})
           /\ Elements(x.todo) = {e \in Waiting : input.runOf[e] \in x.runs}
           /\ \A s \in Relays : x.runs \cap relay[s].runs = {}
<1> DEFINE held == {run \in Candidates : ~Locked(run)}
           rows == {e \in Waiting : input.runOf[e] \in held}
<1>1. PICK todo \in Returned(rows) :
        relay' = [relay EXCEPT ![r] = [runs |-> held, todo |-> todo, sent |-> {}]]
  BY DEF Claim
<1>2. rows \in SUBSET Events
  BY DEF Waiting
<1>3. todo \in Seq(Events) /\ Elements(todo) = rows
  <2> HIDE DEF rows
  <2> QED
    BY <1>2, ReturnedType
<1>4. held \in SUBSET Runs
  BY DEF Candidates, Waiting, Posting, OutboxTyped
<1>5. \A s \in Relays : held \cap relay[s].runs = {}
  BY DEF Locked
<1> DEFINE x == [runs |-> held, todo |-> todo, sent |-> {}]
<1>6. x \in RelayState
  <2> HIDE DEF held
  <2> QED
    BY <1>3, <1>4 DEF RelayState
<1>7. x.runs = held /\ x.todo = todo /\ x.sent = {}
  OBVIOUS
<1>8. relay' = [relay EXCEPT ![r] = x]
  BY <1>1
<1>9. todo \in Returned(rows)
  OBVIOUS
<1> HIDE DEF x, held
<1> QED
  BY <1>3, <1>5, <1>6, <1>7, <1>8, <1>9

LEMMA RelayKeeps ==
  ASSUME ChannelTyped, Posting, NEW r \in Relays,
         Claim(r) \/ Send(r) \/ Divert(r) \/ Unacknowledged(r) \/ Die(r)
  PROVE  Posting'
<1>1. CASE Claim(r)
  <2>1. PICK x \in RelayState :
          /\ relay' = [relay EXCEPT ![r] = x] /\ x.sent = {}
          /\ Elements(x.todo) = {e \in Waiting : input.runOf[e] \in x.runs}
          /\ \A s \in Relays : x.runs \cap relay[s].runs = {}
    BY <1>1, ClaimFacts
  <2>2. UNCHANGED <<input, row, written>>
    BY <1>1 DEF Claim
  <2> QED
    BY <2>1, <2>2, RelayMoves DEF Waiting
<1>2. CASE Send(r) \/ Divert(r)
  <2> DEFINE x == [relay[r] EXCEPT !.todo = Tail(@), !.sent = @ \cup {Foremost(r)}]
  <2>1. Open(r) /\ relay' = Passed(r) /\ UNCHANGED <<input, row, written>>
    BY <1>2 DEF Send, Divert
  <2>2. /\ x \in RelayState /\ relay' = [relay EXCEPT ![r] = x]
        /\ x.runs = relay[r].runs /\ Elements(x.todo) \cup x.sent = Held(r)
    BY Zenon, <2>1, PassedFacts
  <2> HIDE DEF x
  <2>3. \A e \in Held(r) : row[e] = "waiting" /\ input.runOf[e] \in x.runs
    BY <2>2 DEF Posting, RelaysSound
  <2>4. \A s \in Relays : r # s => x.runs \cap relay[s].runs = {}
    BY <2>2 DEF Posting, RelaysSound
  <2> QED
    BY <2>1, <2>2, <2>3, <2>4, RelayMoves
<1>3. CASE Unacknowledged(r) \/ Die(r)
  <2>1. relay' = [relay EXCEPT ![r] = Free] /\ UNCHANGED <<input, row, written>>
    BY <1>3 DEF Unacknowledged, Die
  <2> QED
    BY <2>1, FreeFacts, RelayMoves
<1> QED
  BY <1>1, <1>2, <1>3

LEMMA MarkFacts ==
  ASSUME Posting, NEW r \in Relays, Mark(r)
  PROVE  /\ UNCHANGED <<input, written, stream, letters, faults>>
         /\ row' \in [Events -> {"none", "waiting", "published"}]
         /\ \A e \in Events : row'[e] = IF e \in relay[r].sent THEN "published" ELSE row[e]
         /\ \A e \in relay[r].sent : e \in Events /\ row[e] = "waiting"
         /\ relay' \in [Relays -> RelayState] /\ relay'[r] = Free
         /\ \A s \in Relays : s # r => /\ relay'[s] = relay[s]
                                       /\ Held(s) \cap relay[r].sent = {}
<1>1. /\ UNCHANGED <<input, written, stream, letters, faults>>
      /\ row' \in [Events -> {"none", "waiting", "published"}]
      /\ \A e \in Events : row'[e] = IF e \in relay[r].sent THEN "published" ELSE row[e]
  BY DEF Posting, OutboxTyped, Mark, channels
<1>2. \A e \in relay[r].sent : e \in Events /\ row[e] = "waiting" /\ e \in Held(r)
  BY DEF Posting, OutboxTyped, RelayState, RelaysSound, Held
<1>3. /\ relay' \in [Relays -> RelayState] /\ relay'[r] = Free
      /\ \A s \in Relays : s # r => relay'[s] = relay[s]
  BY FreeFacts DEF Posting, OutboxTyped, Mark
<1>4. ASSUME NEW s \in Relays, s # r PROVE Held(s) \cap relay[r].sent = {}
  BY <1>2, <1>4 DEF Posting, RelaysSound
<1> QED
  BY <1>1, <1>2, <1>3, <1>4

LEMMA MarkKeeps == ASSUME Posting, NEW r \in Relays, Mark(r) PROVE Posting'
<1>1. OutboxTyped'
  BY MarkFacts DEF Posting, OutboxTyped
<1>2. RowsSound'
  BY MarkFacts DEF Posting, RowsSound, Written
<1>3. RelaysSound'
  <2>1. ASSUME NEW s \in Relays, NEW e \in Held(s)'
        PROVE  row'[e] = "waiting" /\ input'.runOf[e] \in relay'[s].runs
    <3>1. CASE s = r
      BY <2>1, <3>1, MarkFacts, FreeFacts DEF Held
    <3>2. CASE s # r
      <4>1. e \in Held(s) /\ relay'[s] = relay[s] /\ e \notin relay[r].sent /\ e \in Events
        BY <2>1, <3>2, MarkFacts DEF Held, Posting, OutboxTyped, RelayState, Elements
      <4> QED
        BY <4>1, MarkFacts DEF Posting, RelaysSound
    <3> QED
      BY <3>1, <3>2
  <2>2. ASSUME NEW s \in Relays, NEW t \in Relays, s # t
        PROVE  relay'[s].runs \cap relay'[t].runs = {}
    BY <2>2, MarkFacts, FreeFacts DEF Posting, RelaysSound
  <2> QED
    BY <2>1, <2>2 DEF RelaysSound
<1> QED
  BY <1>1, <1>2, <1>3 DEF Posting

LEMMA PostingKept ==
  ASSUME ChannelTyped, Posting, OutboxNext \/ UNCHANGED outbox
  PROVE  Posting'
<1>1. CASE UNCHANGED outbox
  BY <1>1 DEF outbox, Posting, OutboxTyped, RowsSound, RelaysSound, Written, Held
<1>2. CASE OutboxNext
  BY <1>2, PublishKeeps, RelayKeeps, MarkKeeps DEF OutboxNext, Deliver
<1> QED
  BY <1>1, <1>2

-----------------------------------------------------------------------------
(* Consumers: what a hand is at is an event that was written, and a message   *)
(* of it if the hand took one.                                                *)

HandState ==
  [step: {"idle", "handling", "note", "abandon", "bury", "poison", "done", "refused"},
   event: Events \cup {None}, message: Nat, delivery: 0..MaxDeliver, history: Nat]

BatchState == [left: SUBSET Events, replayed: SUBSET Events, on: BOOLEAN]

RecordsTyped ==
  /\ deliveries \in [1..(MaxCopies * Cardinality(Events)) -> 0..MaxDeliver]
  /\ settled \subseteq Messages
  /\ marker \in [Events -> {"none", "held", "handled", "poison"}]
  /\ failures \in [Events -> 0..MaxAttempts]
  /\ batch \in [Operators -> BatchState]
  /\ applied \in [Events -> Nat]
  /\ raised \in [Events -> Nat]
  /\ overlooked \subseteq Events

ConsumerTyped == RecordsTyped /\ hand \in [Hands -> HandState]

HandsSound ==
  \A h \in Hands :
    /\ ~In(h, "idle") => Event(h) \in Events
    /\ In(h, "note") => hand[h].history < MaxAttempts
    /\ h \in Workers /\ ~In(h, "idle") => hand[h].message \in MessagesOf(Event(h))

\* Nothing is on the stream, buried, handled or replayed that was never written.
Known ==
  /\ \A m \in Messages : row[stream[m]] # "none"
  /\ \A e \in letters : row[e] # "none"
  /\ \A h \in Hands : Event(h) \in Events => row[Event(h)] # "none"
  /\ \A o \in Operators : \A e \in batch[o].left : row[e] # "none"

Consuming == ConsumerTyped /\ HandsSound /\ Known

Base == ChannelTyped /\ Posting /\ Consuming

LEMMA IdleFacts == /\ Idle \in HandState /\ Idle.step = "idle" /\ Idle.event = None
                   /\ NoBatch \in BatchState /\ NoBatch.left = {} /\ NoBatch.replayed = {}
<1>1. NoBatch \in BatchState /\ NoBatch.left = {} /\ NoBatch.replayed = {}
  BY DEF NoBatch, BatchState
<1>2. Idle \in HandState /\ Idle.step = "idle" /\ Idle.event = None
  BY ConsumerAssumption DEF Idle, HandState
<1> QED
  BY <1>1, <1>2

\* A message is settled with an event, and there is a counter for it.
LEMMA MessageFacts ==
  ASSUME Base, NEW m \in Messages
  PROVE  /\ stream[m] \in Events /\ m \in MessagesOf(stream[m]) /\ m \in Nat
         /\ m \in DOMAIN deliveries /\ deliveries[m] \in 0..MaxDeliver
         /\ row[stream[m]] # "none"
<1>1. stream[m] \in Events /\ m \in MessagesOf(stream[m]) /\ m \in Nat
  BY StreamFacts DEF Base, MessagesOf
<1>2. m \in 1..(MaxCopies * Cardinality(Events))
  BY StreamFits DEF Base
<1>3. DOMAIN deliveries = 1..(MaxCopies * Cardinality(Events))
  BY DEF Base, Consuming, ConsumerTyped, RecordsTyped
<1>4. deliveries[m] \in 0..MaxDeliver
  BY <1>2 DEF Base, Consuming, ConsumerTyped, RecordsTyped
<1> QED
  BY <1>1, <1>2, <1>3, <1>4 DEF Base, Consuming, Known

LEMMA HandFacts ==
  ASSUME Base, NEW h \in Hands
  PROVE  /\ hand[h] \in HandState /\ hand[h].history \in Nat /\ hand[h].message \in Nat
         /\ ~In(h, "idle") =>
              /\ Event(h) \in Events
              /\ failures[Event(h)] \in 0..MaxAttempts
              /\ applied[Event(h)] \in Nat /\ raised[Event(h)] \in Nat
              /\ row[Event(h)] # "none"
<1>1. hand[h] \in HandState /\ hand[h].history \in Nat /\ hand[h].message \in Nat
  BY DEF Base, Consuming, ConsumerTyped, RecordsTyped, HandState
<1>2. ASSUME ~In(h, "idle")
      PROVE  /\ Event(h) \in Events
             /\ failures[Event(h)] \in 0..MaxAttempts
             /\ applied[Event(h)] \in Nat /\ raised[Event(h)] \in Nat
             /\ row[Event(h)] # "none"
  BY <1>2 DEF Base, Consuming, ConsumerTyped, RecordsTyped, HandsSound, Known
<1> QED
  BY <1>1, <1>2

\* A hand moves, and the others do not.
Moves(h, x) == hand' = [hand EXCEPT ![h] = x]

LEMMA MovesFacts ==
  ASSUME Base, NEW h \in Hands, NEW x \in HandState, Moves(h, x)
  PROVE  /\ hand' \in [Hands -> HandState] /\ hand'[h] = x
         /\ \A g \in Hands : g # h => hand'[g] = hand[g]
BY DEF Base, Consuming, ConsumerTyped, RecordsTyped, Moves

LEMMA GoesFacts ==
  ASSUME Base, NEW h \in Hands, ~In(h, "idle"),
         NEW s \in {"note", "abandon", "bury", "poison", "done", "refused"}, hand' = Goes(h, s)
  PROVE  \E x \in HandState :
           /\ Moves(h, x) /\ x.step = s /\ x.event = Event(h)
           /\ x.message = hand[h].message /\ x.delivery = hand[h].delivery
           /\ x.history = hand[h].history
<1> DEFINE x == [hand[h] EXCEPT !.step = s]
<1>1. hand[h] \in HandState
  BY HandFacts
<1>2. /\ x \in HandState /\ x.step = s /\ x.event = Event(h)
      /\ x.message = hand[h].message /\ x.delivery = hand[h].delivery
      /\ x.history = hand[h].history
  BY <1>1 DEF HandState, Event
<1>3. Moves(h, x)
  BY <1>1 DEF Moves, Goes
<1> HIDE DEF x
<1> QED
  BY <1>2, <1>3

\* What a hand may come to, for the consumers to stay sound.
LEMMA MoveKeeps ==
  ASSUME Base, NEW h \in Hands, NEW x \in HandState, Moves(h, x), UNCHANGED <<row, stream>>,
         RecordsTyped',
         x.step # "idle" => x.event \in Events,
         x.event \in Events => row[x.event] # "none",
         x.step = "note" => x.history < MaxAttempts,
         h \in Workers /\ x.step # "idle" => x.message \in MessagesOf(x.event),
         \A e \in letters' : row[e] # "none",
         \A o \in Operators : \A e \in batch'[o].left : row[e] # "none"
  PROVE  Consuming'
<1>1. /\ hand' \in [Hands -> HandState] /\ hand'[h] = x
      /\ \A g \in Hands : g # h => hand'[g] = hand[g]
  BY MovesFacts
<1>2. ConsumerTyped'
  BY <1>1 DEF ConsumerTyped
<1>3. HandsSound'
  BY <1>1 DEF Base, Consuming, HandsSound, In, Event, MessagesOf, Messages
<1>4. Known'
  BY <1>1 DEF Base, Consuming, Known, Event, Messages
<1> QED
  BY <1>2, <1>3, <1>4 DEF Consuming

LEMMA BatchesKnown ==
  ASSUME Base
  PROVE  /\ batch \in [Operators -> BatchState]
         /\ \A o \in Operators : /\ batch[o].left \subseteq Events
                                 /\ batch[o].replayed \subseteq Events
                                 /\ \A e \in batch[o].left : row[e] # "none"
         /\ \A e \in letters : e \in Events /\ row[e] # "none"
<1>1. batch \in [Operators -> BatchState]
  BY DEF Base, Consuming, ConsumerTyped, RecordsTyped
<1>2. \A o \in Operators : batch[o].left \subseteq Events /\ batch[o].replayed \subseteq Events
  BY <1>1 DEF BatchState
<1> QED
  BY <1>1, <1>2 DEF Base, Consuming, ChannelTyped, Known

LEMMA BeginFacts ==
  ASSUME Base, NEW h \in Hands, NEW e \in Events, NEW m \in Nat, NEW n \in 0..MaxDeliver,
         Begin(h, e, m, n)
  PROVE  /\ In(h, "idle")
         /\ \E x \in HandState : /\ Moves(h, x) /\ x.step = Told(h, e) /\ x.event = e
                                 /\ x.message = m
         /\ Told(h, e) \in {"handling", "done", "refused"}
         /\ marker' \in [Events -> {"none", "held", "handled", "poison"}]
         /\ marker'[e] = IF marker[e] = "none" THEN "held" ELSE marker[e]
         /\ \A d \in Events : d # e => marker'[d] = marker[d]
<1> DEFINE x == [step |-> Told(h, e), event |-> e, message |-> m, delivery |-> n, history |-> 0]
<1>1. Told(h, e) \in {"handling", "done", "refused"}
  BY DEF Told
<1>2. x \in HandState
  <2> HIDE DEF Told
  <2> QED
    BY <1>1 DEF HandState
<1>3. x.step = Told(h, e) /\ x.event = e /\ x.message = m /\ Moves(h, x) /\ In(h, "idle")
  BY DEF Begin, Moves
<1>4. marker \in [Events -> {"none", "held", "handled", "poison"}]
  BY DEF Base, Consuming, ConsumerTyped, RecordsTyped
<1>5. /\ marker' \in [Events -> {"none", "held", "handled", "poison"}]
      /\ marker'[e] = IF marker[e] = "none" THEN "held" ELSE marker[e]
      /\ \A d \in Events : d # e => marker'[d] = marker[d]
  <2>1. marker' = [marker EXCEPT ![e] = IF @ = "none" THEN "held" ELSE @]
    BY DEF Begin
  <2> QED
    BY <1>4, <2>1
<1> HIDE DEF x
<1> QED
  BY <1>1, <1>2, <1>3, <1>5

LEMMA FetchKeeps ==
  ASSUME Base, NEW h \in Hands, NEW m \in Messages, Fetch(h, m), UNCHANGED <<row, relay>>
  PROVE  Consuming'
<1>1. /\ stream[m] \in Events /\ m \in MessagesOf(stream[m]) /\ m \in Nat
      /\ m \in DOMAIN deliveries /\ deliveries[m] \in 0..MaxDeliver
      /\ row[stream[m]] # "none"
  BY MessageFacts
<1>2. deliveries[m] + 1 \in 0..MaxDeliver /\ MaxDeliver \in Nat
  BY <1>1, ConsumerAssumption DEF Fetch, Deliverable
<1>3. Begin(h, stream[m], m, deliveries[m] + 1)
  BY DEF Fetch
<1>4. PICK x \in HandState : /\ Moves(h, x) /\ x.step = Told(h, stream[m])
                             /\ x.event = stream[m] /\ x.message = m
  BY <1>1, <1>2, <1>3, BeginFacts
<1>5. x.step # "note" /\ marker' \in [Events -> {"none", "held", "handled", "poison"}]
  BY <1>1, <1>2, <1>3, <1>4, BeginFacts
<1>6. deliveries' \in [1..(MaxCopies * Cardinality(Events)) -> 0..MaxDeliver]
  BY <1>1, <1>2 DEF Fetch, Base, Consuming, ConsumerTyped, RecordsTyped
<1>7. RecordsTyped'
  BY <1>5, <1>6 DEF Fetch, Base, Consuming, ConsumerTyped, RecordsTyped, observed, channels, Messages
<1>8. UNCHANGED <<row, stream, letters, batch>>
  BY DEF Fetch, channels
<1> QED
  BY <1>1, <1>4, <1>5, <1>7, <1>8, BatchesKnown, MoveKeeps

LEMMA ReplayKeeps ==
  ASSUME Base, NEW o \in Operators, NEW e \in Events, Replay(o, e), UNCHANGED <<row, relay>>
  PROVE  Consuming'
<1>1. o \in Hands /\ o \notin Workers /\ 0 \in Nat /\ 0 \in 0..MaxDeliver
  BY ConsumerAssumption DEF Workers
<1>2. UNCHANGED <<row, stream, letters, settled, deliveries, failures, applied, raised, overlooked>>
  BY DEF Replay, observed, channels
<1>3. batch' = [batch EXCEPT ![o].left = @ \ {e}] /\ e \in batch[o].left
  BY DEF Replay
<1>4. /\ batch' \in [Operators -> BatchState]
      /\ \A p \in Operators : \A d \in batch'[p].left : row[d] # "none"
  <2>1. batch'[o] = [batch[o] EXCEPT !.left = @ \ {e}] /\ batch[o] \in BatchState
    BY <1>3, BatchesKnown
  <2>2. batch'[o] \in BatchState /\ batch'[o].left \subseteq batch[o].left
    BY <2>1 DEF BatchState
  <2>3. \A p \in Operators : p # o => batch'[p] = batch[p]
    BY <1>3, BatchesKnown
  <2>4. batch' = [p \in Operators |-> batch'[p]]
    BY <1>3, BatchesKnown
  <2> QED
    BY <2>2, <2>3, <2>4, BatchesKnown
<1>5. CASE Begin(o, e, 0, 0)
  <2>1. PICK x \in HandState : Moves(o, x) /\ x.step = Told(o, e) /\ x.event = e
    BY <1>1, <1>5, BeginFacts
  <2>2. x.step # "note" /\ marker' \in [Events -> {"none", "held", "handled", "poison"}]
    BY <1>1, <1>5, <2>1, BeginFacts
  <2>3. RecordsTyped'
    BY <1>2, <1>4, <2>2 DEF Base, Consuming, ConsumerTyped, RecordsTyped, Messages
  <2> QED
    BY <1>1, <1>2, <1>3, <1>4, <2>1, <2>2, <2>3, BatchesKnown, MoveKeeps
<1>6. CASE UNCHANGED <<hand, marker>>
  <2>1. RecordsTyped' /\ ConsumerTyped'
    BY <1>2, <1>4, <1>6 DEF Base, Consuming, ConsumerTyped, RecordsTyped, Messages
  <2> QED
    BY <1>2, <1>4, <1>6, <2>1, BatchesKnown
       DEF Base, Consuming, HandsSound, Known, In, Event, MessagesOf, Messages
<1> QED
  BY <1>5, <1>6 DEF Replay

\* A hand that goes on with the event it has, and a hand that is through with it.
LEMMA GoesKeeps ==
  ASSUME Base, NEW h \in Hands, ~In(h, "idle"),
         NEW s \in {"abandon", "bury", "poison", "done", "refused"}, hand' = Goes(h, s),
         UNCHANGED <<row, stream, batch>>, RecordsTyped',
         \A e \in letters' : row[e] # "none"
  PROVE  Consuming'
<1>1. PICK x \in HandState :
        Moves(h, x) /\ x.step = s /\ x.event = Event(h) /\ x.message = hand[h].message
  BY GoesFacts
<1>2. h \in Workers => x.message \in MessagesOf(x.event)
  BY <1>1 DEF Base, Consuming, HandsSound
<1> QED
  BY <1>1, <1>2, HandFacts, BatchesKnown, MoveKeeps

LEMMA RestKeeps ==
  ASSUME Base, NEW h \in Hands, hand' = [hand EXCEPT ![h] = Idle],
         UNCHANGED <<row, stream>>, RecordsTyped',
         \A e \in letters' : row[e] # "none",
         \A o \in Operators : \A e \in batch'[o].left : row[e] # "none"
  PROVE  Consuming'
<1>1. Moves(h, Idle)
  BY DEF Moves
<1>2. Idle.event \notin Events
  BY IdleFacts, ConsumerAssumption
<1> QED
  BY <1>1, <1>2, IdleFacts, MoveKeeps

LEMMA RaiseFacts ==
  ASSUME Base, NEW h \in Hands, Raise(h)
  PROVE  \E x \in HandState :
           /\ Moves(h, x) /\ x.event = Event(h) /\ x.message = hand[h].message
           /\ x.history = failures[Event(h)] + 1
           /\ x.step = IF x.history >= MaxAttempts THEN "bury" ELSE "note"
<1> DEFINE x == [hand[h] EXCEPT !.history = failures[Event(h)] + 1,
                                !.step = IF failures[Event(h)] + 1 >= MaxAttempts
                                         THEN "bury" ELSE "note"]
<1>1. hand[h] \in HandState /\ failures[Event(h)] \in 0..MaxAttempts
  BY HandFacts DEF Raise, In
<1>2. failures[Event(h)] + 1 \in Nat
  BY <1>1
<1>3. /\ x \in HandState /\ x.event = Event(h) /\ x.message = hand[h].message
      /\ x.history = failures[Event(h)] + 1
      /\ x.step = IF x.history >= MaxAttempts THEN "bury" ELSE "note"
  BY <1>1, <1>2 DEF HandState, Event
<1>4. Moves(h, x)
  BY <1>1 DEF Moves, Raise, HandState
<1> HIDE DEF x
<1> QED
  BY <1>3, <1>4

LEMMA HandlerKeeps ==
  ASSUME Base, NEW h \in Hands, Handle(h) \/ Raise(h) \/ Note(h), UNCHANGED row
  PROVE  Consuming'
<1>1. CASE Handle(h)
  <2>1. ~In(h, "idle") /\ hand' = Goes(h, "done")
    BY <1>1 DEF Handle, In
  <2>2. Event(h) \in Events /\ applied[Event(h)] \in Nat
    BY <2>1, HandFacts
  <2>3. RecordsTyped' /\ UNCHANGED <<row, stream, batch, letters>>
    BY <1>1, <2>2 DEF Handle, Base, Consuming, ConsumerTyped, RecordsTyped, channels, Messages
  <2> QED
    BY <2>1, <2>3, BatchesKnown, GoesKeeps
<1>2. CASE Raise(h)
  <2>1. ~In(h, "idle")
    BY <1>2 DEF Raise, In
  <2>2. /\ Event(h) \in Events /\ raised[Event(h)] \in Nat /\ row[Event(h)] # "none"
        /\ failures[Event(h)] \in 0..MaxAttempts /\ MaxAttempts \in Nat
    BY <2>1, HandFacts, ConsumerAssumption
  <2>3. RecordsTyped' /\ UNCHANGED <<row, stream, batch, letters>>
    BY <1>2, <2>2 DEF Raise, Base, Consuming, ConsumerTyped, RecordsTyped, channels, Messages
  <2>4. PICK x \in HandState :
          /\ Moves(h, x) /\ x.event = Event(h) /\ x.message = hand[h].message
          /\ x.history = failures[Event(h)] + 1
          /\ x.step = IF x.history >= MaxAttempts THEN "bury" ELSE "note"
    BY <1>2, RaiseFacts
  <2>5. x.step = "note" => x.history < MaxAttempts
    BY <2>2, <2>4
  <2>6. h \in Workers => x.message \in MessagesOf(x.event)
    BY <2>1, <2>4 DEF Base, Consuming, HandsSound
  <2> QED
    BY <2>2, <2>3, <2>4, <2>5, <2>6, BatchesKnown, MoveKeeps
<1>3. CASE Note(h)
  <2>1. ~In(h, "idle") /\ hand' = Goes(h, "abandon")
    BY <1>3 DEF Note, In
  <2>2. hand[h].history \in 0..MaxAttempts
    BY <1>3, HandFacts, ConsumerAssumption DEF Note, Base, Consuming, HandsSound
  <2>3. RecordsTyped' /\ UNCHANGED <<row, stream, batch, letters>>
    BY <1>3, <2>2
       DEF Note, Base, Consuming, ConsumerTyped, RecordsTyped, observed, channels, Messages
  <2> QED
    BY <2>1, <2>3, BatchesKnown, GoesKeeps
<1> QED
  BY <1>1, <1>2, <1>3

LEMMA MarkerKeeps ==
  ASSUME Base, NEW h \in Hands, Abandon(h) \/ Bury(h) \/ Poison(h), UNCHANGED row
  PROVE  Consuming'
<1>1. ~In(h, "idle")
  BY DEF Abandon, Bury, Poison, In
<1>2. Event(h) \in Events /\ row[Event(h)] # "none"
  BY <1>1, HandFacts
<1>3. CASE Abandon(h)
  <2>1. RecordsTyped' /\ UNCHANGED <<row, stream, batch, letters>> /\ hand' = Goes(h, "refused")
    BY <1>2, <1>3
       DEF Abandon, Base, Consuming, ConsumerTyped, RecordsTyped, observed, channels, Messages
  <2> QED
    BY <1>1, <2>1, BatchesKnown, GoesKeeps
<1>4. CASE Bury(h)
  <2>1. RecordsTyped' /\ UNCHANGED <<row, stream, batch>> /\ hand' = Goes(h, "poison")
    BY <1>4 DEF Bury, Base, Consuming, ConsumerTyped, RecordsTyped, observed, Messages
  <2>2. letters' = letters \cup {Event(h)}
    BY <1>4 DEF Bury, Buried
  <2> QED
    BY <1>1, <1>2, <2>1, <2>2, BatchesKnown, GoesKeeps
<1>5. CASE Poison(h)
  <2>1. RecordsTyped'
    BY <1>2, <1>5 DEF Poison, Base, Consuming, ConsumerTyped, RecordsTyped, channels, Messages
  <2>2. UNCHANGED <<row, stream, batch, letters>> /\ hand' = Goes(h, "done")
    BY <1>5 DEF Poison, channels
  <2> QED
    BY <1>1, <2>1, <2>2, BatchesKnown, GoesKeeps
<1> QED
  BY <1>3, <1>4, <1>5

LEMMA SettleKeeps ==
  ASSUME Base, NEW h \in Hands, Ack(h) \/ Nak(h), UNCHANGED row
  PROVE  Consuming'
<1>1. ~In(h, "idle") /\ h \in Workers /\ hand' = [hand EXCEPT ![h] = Idle]
  BY DEF Ack, Nak, In
<1>2. /\ Event(h) \in Events /\ row[Event(h)] # "none"
      /\ hand[h].message \in Messages
  BY <1>1, HandFacts DEF Base, Consuming, HandsSound, MessagesOf
<1>3. /\ UNCHANGED <<row, stream, batch, deliveries, marker, failures, observed>>
      /\ settled' \subseteq settled \cup {hand[h].message}
      /\ letters' \subseteq letters \cup {Event(h)}
  BY DEF Ack, Nak, channels, Buried
<1>4. RecordsTyped'
  BY <1>2, <1>3 DEF Base, Consuming, ConsumerTyped, RecordsTyped, observed, Messages
<1> QED
  BY <1>1, <1>2, <1>3, <1>4, BatchesKnown, RestKeeps

LEMMA OperatorKeeps ==
  ASSUME Base, NEW o \in Operators,
         Select(o) \/ Replayed(o) \/ ReplayFailed(o) \/ Forget(o), UNCHANGED row
  PROVE  Consuming'
<1>1. o \in Hands
  BY ConsumerAssumption
<1>2. CASE Select(o) \/ Forget(o)
  <2>1. /\ UNCHANGED <<row, stream, hand, deliveries, settled, marker, failures, observed>>
        /\ letters' \subseteq letters
    BY <1>2 DEF Select, Forget, channels
  <2>2. PICK b : b \in BatchState /\ b.left \subseteq letters /\ batch' = [batch EXCEPT ![o] = b]
    <3>1. CASE Select(o)
      <4> DEFINE b == [left |-> letters \cap Subscribed, replayed |-> {}, on |-> TRUE]
      <4>1. b \in BatchState
        BY ConsumerAssumption DEF BatchState
      <4>2. b.left \subseteq letters
        OBVIOUS
      <4>3. batch' = [batch EXCEPT ![o] = b]
        BY <3>1 DEF Select
      <4> HIDE DEF b
      <4> QED
        BY <4>1, <4>2, <4>3
    <3>2. CASE Forget(o)
      BY <3>2, IdleFacts DEF Forget
    <3> QED
      BY <1>2, <3>1, <3>2
  <2>3. /\ batch' \in [Operators -> BatchState]
        /\ \A p \in Operators : \A e \in batch'[p].left : row[e] # "none"
    BY <2>2, BatchesKnown
  <2>4. ConsumerTyped'
    BY <2>1, <2>3 DEF Base, Consuming, ConsumerTyped, RecordsTyped, observed, Messages
  <2> QED
    BY <2>1, <2>3, <2>4, BatchesKnown
       DEF Base, Consuming, HandsSound, Known, In, Event, MessagesOf, Messages
<1>3. CASE Replayed(o)
  <2>1. ~In(o, "idle") /\ hand' = [hand EXCEPT ![o] = Idle]
    BY <1>3 DEF Replayed, In
  <2>2. Event(o) \in Events
    BY <1>1, <2>1, HandFacts
  <2>3. batch' = [batch EXCEPT ![o].replayed = @ \cup {Event(o)}]
    BY <1>3 DEF Replayed
  <2>4. /\ batch' \in [Operators -> BatchState]
        /\ \A p \in Operators : batch'[p].left = batch[p].left
    <3>1. batch'[o] = [batch[o] EXCEPT !.replayed = @ \cup {Event(o)}] /\ batch[o] \in BatchState
      BY <2>3, BatchesKnown
    <3>2. batch'[o] \in BatchState /\ batch'[o].left = batch[o].left
      BY <2>2, <3>1 DEF BatchState
    <3>3. /\ batch' = [p \in Operators |-> batch'[p]]
          /\ \A p \in Operators : p # o => batch'[p] = batch[p]
      BY <2>3, BatchesKnown
    <3> QED
      BY <3>2, <3>3, BatchesKnown
  <2>5. UNCHANGED <<row, stream, letters, deliveries, settled, marker, failures, observed>>
    BY <1>3 DEF Replayed, channels
  <2>6. RecordsTyped'
    BY <2>4, <2>5 DEF Base, Consuming, ConsumerTyped, RecordsTyped, observed, Messages
  <2> QED
    BY <1>1, <2>1, <2>4, <2>5, <2>6, BatchesKnown, RestKeeps
<1>4. CASE ReplayFailed(o)
  <2>1. /\ UNCHANGED <<row, stream, letters, batch, deliveries, settled, marker, failures, observed>>
        /\ hand' = [hand EXCEPT ![o] = Idle]
    BY <1>4 DEF ReplayFailed, channels
  <2>2. RecordsTyped'
    BY <2>1 DEF Base, Consuming, ConsumerTyped, RecordsTyped, observed, Messages
  <2> QED
    BY <1>1, <2>1, <2>2, BatchesKnown, RestKeeps
<1> QED
  BY <1>2, <1>3, <1>4

LEMMA FaultKeeps ==
  ASSUME Base, UNCHANGED row,
         \/ \E m \in Messages : Drop(m)
         \/ \E h \in Hands : Crash(h)
         \/ \E e \in Events : Lapse(e)
  PROVE  Consuming'
<1>1. ASSUME NEW m \in Messages, Drop(m) PROVE Consuming'
  <2>1. deliveries[m] + 1 \in 0..MaxDeliver
    BY <1>1, MessageFacts, ConsumerAssumption DEF Drop, Deliverable
  <2>2. /\ UNCHANGED <<row, stream, letters, batch, hand, settled, marker, failures>>
        /\ UNCHANGED <<applied, raised, overlooked>>
        /\ deliveries' \in [1..(MaxCopies * Cardinality(Events)) -> 0..MaxDeliver]
    BY <1>1, <2>1, MessageFacts
       DEF Drop, Base, Consuming, ConsumerTyped, RecordsTyped
  <2>3. ConsumerTyped'
    BY <2>2 DEF Base, Consuming, ConsumerTyped, RecordsTyped, Messages
  <2> QED
    BY <2>2, <2>3 DEF Base, Consuming, HandsSound, Known, In, Event, MessagesOf, Messages
<1>2. ASSUME NEW h \in Hands, Crash(h) PROVE Consuming'
  <2>1. /\ UNCHANGED <<row, stream, letters, deliveries, settled, marker, failures>>
        /\ UNCHANGED <<applied, raised, overlooked>>
        /\ hand' = [hand EXCEPT ![h] = Idle]
        /\ batch' = [o \in Operators |-> IF o = h THEN NoBatch ELSE batch[o]]
    BY <1>2 DEF Crash
  <2>2. /\ batch' \in [Operators -> BatchState]
        /\ \A o \in Operators : \A e \in batch'[o].left : row[e] # "none"
    BY <2>1, BatchesKnown, IdleFacts
  <2>3. RecordsTyped'
    BY <2>1, <2>2 DEF Base, Consuming, ConsumerTyped, RecordsTyped, observed, Messages
  <2> QED
    BY <2>1, <2>2, <2>3, BatchesKnown, RestKeeps
<1>3. ASSUME NEW e \in Events, Lapse(e) PROVE Consuming'
  <2>1. UNCHANGED <<row, stream, letters, batch, hand, settled, deliveries, observed>>
    BY <1>3 DEF Lapse, channels
  <2>2. /\ marker' \in [Events -> {"none", "held", "handled", "poison"}]
        /\ failures' \in [Events -> 0..MaxAttempts]
    <3>1. /\ marker \in [Events -> {"none", "held", "handled", "poison"}]
          /\ failures \in [Events -> 0..MaxAttempts] /\ 0 \in 0..MaxAttempts
      BY ConsumerAssumption DEF Base, Consuming, ConsumerTyped, RecordsTyped
    <3>2. CASE failures' = [failures EXCEPT ![e] = 0] /\ UNCHANGED marker
      BY <3>1, <3>2
    <3>3. CASE marker' = [marker EXCEPT ![e] = "none"] /\ UNCHANGED failures
      BY <3>1, <3>3
    <3> QED
      BY <1>3, <3>2, <3>3 DEF Lapse
  <2>3. ConsumerTyped'
    BY <2>1, <2>2 DEF Base, Consuming, ConsumerTyped, RecordsTyped, observed, Messages
  <2> QED
    BY <2>1, <2>3 DEF Base, Consuming, HandsSound, Known, In, Event, MessagesOf, Messages
<1> QED
  BY <1>1, <1>2, <1>3

\* A row that was written stays written.
LEMMA RowsStay ==
  ASSUME ChannelTyped, Posting, OutboxNext
  PROVE  \A e \in Events : row[e] # "none" => row'[e] # "none"
<1>1. ASSUME NEW e \in Events, Publish(e) PROVE \A d \in Events : row[d] # "none" => row'[d] # "none"
  BY <1>1, PublishFacts
<1>2. ASSUME NEW r \in Relays, Mark(r) PROVE \A d \in Events : row[d] # "none" => row'[d] # "none"
  BY <1>2, MarkFacts
<1>3. ASSUME NEW r \in Relays,
             Claim(r) \/ Send(r) \/ Divert(r) \/ Unacknowledged(r) \/ Die(r)
      PROVE  UNCHANGED row
  BY <1>3 DEF Claim, Send, Divert, Unacknowledged, Die
<1> QED
  BY <1>1, <1>2, <1>3 DEF OutboxNext, Deliver

LEMMA RelaysKeepConsuming ==
  ASSUME Base, OutboxNext, UNCHANGED <<consumer, observed>>
  PROVE  Consuming'
<1>1. /\ StreamMoves /\ \A e \in letters' \ letters : e \in Events /\ row[e] = "waiting"
      /\ \A e \in Events : row[e] # "none" => row'[e] # "none"
  BY RelaysCarry, RowsStay DEF Base
<1>2. /\ \A m \in Messages : m \in Messages' /\ stream'[m] = stream[m]
      /\ \A e : MessagesOf(e) \subseteq MessagesOf(e)'
      /\ \A m \in Messages' \ Messages : stream'[m] \in Events /\ row[stream'[m]] = "waiting"
  BY <1>1, StreamOnlyGrows DEF Base
<1>3. ConsumerTyped'
  BY <1>2 DEF Base, Consuming, ConsumerTyped, RecordsTyped, consumer, observed
<1>4. HandsSound'
  BY <1>2 DEF Base, Consuming, HandsSound, In, Event, consumer
<1>5. Known'
  <2>1. ASSUME NEW m \in Messages' PROVE row'[stream'[m]] # "none"
    <3>1. stream'[m] \in Events /\ row[stream'[m]] # "none"
      BY <1>2, <2>1, MessageFacts
    <3> QED
      BY <1>1, <3>1
  <2>2. ASSUME NEW e \in letters' PROVE row'[e] # "none"
    BY <1>1, BatchesKnown
  <2>3. ASSUME NEW h \in Hands, Event(h)' \in Events PROVE row'[Event(h)'] # "none"
    BY <1>1, <2>3 DEF Base, Consuming, Known, Event, consumer
  <2>4. ASSUME NEW o \in Operators, NEW e \in batch'[o].left PROVE row'[e] # "none"
    BY <1>1, BatchesKnown DEF consumer
  <2> QED
    BY <2>1, <2>2, <2>3, <2>4 DEF Known
<1> QED
  BY <1>3, <1>4, <1>5 DEF Consuming

\* Consumers publish nothing.
LEMMA ConsumersPublishNothing ==
  ASSUME Base, Consume
  PROVE  UNCHANGED stream /\ letters' \subseteq Events /\ faults' \in 0..MaxFaults
<1>1. ASSUME NEW h \in Hands, Handling(h) \/ Crash(h) \/ \E m \in Messages : Fetch(h, m)
      PROVE  UNCHANGED stream /\ letters' \subseteq Events /\ faults' \in 0..MaxFaults
  <2>1. ~In(h, "idle") => Event(h) \in Events
    BY HandFacts
  <2> QED
    BY <1>1, <2>1, ChannelAssumption
       DEF Handling, Handle, Raise, Note, Abandon, Bury, Poison, Ack, Nak, Crash, Fetch,
           channels, Base, ChannelTyped, In, Buried, Fault
<1>2. ASSUME \/ \E m \in Messages : Drop(m)
             \/ \E e \in Events : Lapse(e)
      PROVE  UNCHANGED stream /\ letters' \subseteq Events /\ faults' \in 0..MaxFaults
  BY <1>2, ChannelAssumption DEF Drop, Lapse, Fault, channels, Base, ChannelTyped
<1>3. ASSUME NEW o \in Operators,
             \/ Select(o) \/ Replayed(o) \/ ReplayFailed(o) \/ Forget(o)
             \/ \E e \in Events : Replay(o, e)
      PROVE  UNCHANGED stream /\ letters' \subseteq Events /\ faults' \in 0..MaxFaults
  BY <1>3 DEF Select, Replayed, ReplayFailed, Forget, Replay, channels, Base, ChannelTyped
<1> QED
  BY <1>1, <1>2, <1>3 DEF Consume

LEMMA ConsumersKeepConsuming ==
  ASSUME Base, Consume, UNCHANGED outbox
  PROVE  Consuming'
<1>1. UNCHANGED <<row, relay>>
  BY DEF outbox
<1>2. ASSUME NEW h \in Hands, Handling(h) PROVE Consuming'
  BY <1>1, <1>2, HandlerKeeps, MarkerKeeps, SettleKeeps DEF Handling
<1>3. ASSUME NEW h \in Hands, NEW m \in Messages, Fetch(h, m) PROVE Consuming'
  BY <1>1, <1>3, FetchKeeps
<1>4. ASSUME NEW o \in Operators,
             \/ Select(o) \/ Replayed(o) \/ ReplayFailed(o) \/ Forget(o)
             \/ \E e \in Events : Replay(o, e)
      PROVE  Consuming'
  BY <1>1, <1>4, OperatorKeeps, ReplayKeeps
<1> QED
  BY <1>1, <1>2, <1>3, <1>4, FaultKeeps DEF Consume

LEMMA BaseInit == Init => Base
<1> SUFFICES ASSUME Init PROVE Base
  OBVIOUS
<1>1. ChannelTyped
  <2>1. \A e \in Events : MessagesOf(e) = {}
    BY DEF Init, ChannelInit, MessagesOf, Messages
  <2> QED
    BY <2>1, FS_EmptySet, ChannelAssumption DEF Init, ChannelInit, ChannelTyped
<1>2. Posting
  <2>1. OutboxTyped
    BY FreeFacts, OutboxAssumption DEF Init, OutboxInit, OutboxTyped
  <2>2. RowsSound /\ RelaysSound
    BY FreeFacts DEF Init, OutboxInit, RowsSound, RelaysSound, Written, Held
  <2> QED
    BY <2>1, <2>2 DEF Posting
<1>3. Consuming
  <2>1. ConsumerTyped
    BY IdleFacts, ConsumerAssumption
       DEF Init, ConsumerInit, ConsumerTyped, RecordsTyped
  <2>2. HandsSound
    BY IdleFacts, ConsumerAssumption DEF Init, ConsumerInit, HandsSound, In, Event
  <2>3. Known
    BY IdleFacts, ConsumerAssumption
       DEF Init, ConsumerInit, ChannelInit, Known, Event, Messages
  <2> QED
    BY <2>1, <2>2, <2>3 DEF Consuming
<1> QED
  BY <1>1, <1>2, <1>3 DEF Base

LEMMA BaseStep == Base /\ [Next]_vars => Base'
<1> SUFFICES ASSUME Base, [Next]_vars PROVE Base'
  OBVIOUS
<1>1. CASE OutboxNext /\ UNCHANGED <<consumer, observed>>
  <2>1. letters' \subseteq Events
    BY <1>1, RelaysCarry DEF Base, ChannelTyped
  <2>2. ChannelTyped'
    BY <1>1, <2>1, RelaysCarry, ChannelKept DEF Base
  <2> QED
    BY <1>1, <2>2, PostingKept, RelaysKeepConsuming DEF Base
<1>2. CASE Consume /\ UNCHANGED outbox
  <2>1. ChannelTyped'
    BY <1>2, ConsumersPublishNothing, ChannelKept DEF Base, StreamMoves
  <2> QED
    BY <1>2, <2>1, PostingKept, ConsumersKeepConsuming DEF Base
<1>3. CASE UNCHANGED vars
  <2>1. UNCHANGED <<outbox, stream, letters, faults>> /\ UNCHANGED <<consumer, observed>>
    BY <1>3 DEF vars, channels
  <2>2. ChannelTyped' /\ Posting'
    BY <2>1, PostingKept, ChannelKept DEF Base, StreamMoves, ChannelTyped
  <2>3. UNCHANGED row
    BY <2>1 DEF outbox
  <2>4. Consuming'
    BY <2>1, <2>3 DEF Base, Consuming, ConsumerTyped, RecordsTyped, HandsSound, Known, In, Event,
              MessagesOf, Messages, consumer, observed
  <2> QED
    BY <2>2, <2>4 DEF Base
<1> QED
  BY <1>1, <1>2, <1>3 DEF Next

LEMMA AlwaysBase == Spec => []Base
BY BaseInit, BaseStep, PTL DEF Spec

StrandedTyped == stranded \subseteq Nat

\* A message is stranded by a step that loses its last delivery.
LEMMA StrandedStep == Base /\ StrandedTyped /\ [Next]_vars => StrandedTyped'
<1> SUFFICES ASSUME Base, stranded \subseteq Nat, [Next]_vars PROVE stranded' \subseteq Nat
  BY DEF StrandedTyped
<1>1. ASSUME NEW m \in Messages, Drop(m) PROVE stranded' \subseteq Nat
  <2>1. stream \in Seq(Events)
    BY DEF Base, ChannelTyped
  <2>2. m \in Nat
    BY <2>1 DEF Messages
  <2> QED
    BY <1>1, <2>2 DEF Drop
<1>2. ASSUME NEW h \in Hands, Crash(h) PROVE stranded' \subseteq Nat
  <2>1. hand[h].message \in Nat
    BY DEF Base, Consuming, ConsumerTyped, HandState
  <2> QED
    BY <1>2, <2>1 DEF Crash
<1>3. ASSUME NEW h \in Hands, Handling(h) PROVE stranded' \subseteq Nat
  BY <1>3 DEF Handling, Handle, Raise, Note, Abandon, Bury, Poison, Ack, Nak, observed
<1>4. ASSUME NEW h \in Hands, NEW m \in Messages, Fetch(h, m) PROVE stranded' \subseteq Nat
  BY <1>4 DEF Fetch, observed
<1>5. ASSUME NEW o \in Operators,
             \/ Select(o) \/ Replayed(o) \/ ReplayFailed(o) \/ Forget(o)
             \/ \E e \in Events : Replay(o, e)
      PROVE  stranded' \subseteq Nat
  BY <1>5 DEF Select, Replayed, ReplayFailed, Forget, Replay, observed
<1>6. ASSUME NEW e \in Events, Lapse(e) PROVE stranded' \subseteq Nat
  BY <1>6 DEF Lapse, observed
<1>7. CASE UNCHANGED observed
  BY <1>7 DEF observed
<1> QED
  BY <1>1, <1>2, <1>3, <1>4, <1>5, <1>6, <1>7 DEF Next, Consume, vars

\* Every variable of the delivery keeps its type: no delivery is counted beyond the broker's
\* limit, no history beyond max_attempts, and no event or row appears that nobody wrote.
THEOREM DeliveryTyped == Spec => []TypeOK
<1>1. Base /\ StrandedTyped => TypeOK
  <2> SUFFICES ASSUME Base, stranded \subseteq Nat PROVE TypeOK
    BY DEF StrandedTyped
  <2>1. /\ stream \in Seq(Events) /\ letters \subseteq Events /\ faults \in 0..MaxFaults
        /\ input \in Inputs
        /\ row \in [Events -> {"none", "waiting", "published"}]
        /\ written \in Seq(Events)
        /\ relay \in [Relays -> [runs: SUBSET Runs, todo: Seq(Events), sent: SUBSET Events]]
    BY DEF Base, ChannelTyped, Posting, OutboxTyped, RelayState
  <2>2. RecordsTyped /\ hand \in [Hands -> HandState]
    BY DEF Base, Consuming, ConsumerTyped
  <2> QED
    BY <2>1, <2>2, Zenon DEF TypeOK, RecordsTyped, HandState, BatchState
<1>2. Init => StrandedTyped
  BY DEF Init, ConsumerInit, StrandedTyped
<1> QED
  BY <1>1, <1>2, StrandedStep, AlwaysBase, PTL DEF Spec

-----------------------------------------------------------------------------
(* One hand at a time: while a key is held or its poison reconsidered, one    *)
(* hand acts on the event; a key that is free, or an event that is handled,   *)
(* has nobody acting on it, and nothing was applied while it is not handled.  *)

\* A replay of a poisoned event holds no claim, so two operators could run one
\* handler at the same time.
OneOperator == \A o, p \in Operators : o = p

Acting == {"handling", "note", "abandon", "bury", "poison"}
Acts(h, e) == hand[h].step \in Acting /\ Event(h) = e

OneActs(e) ==
  /\ \A g, h \in Hands : Acts(g, e) /\ Acts(h, e) => g = h
  /\ marker[e] \in {"none", "handled"} => \A h \in Hands : ~Acts(h, e)
  /\ marker[e] = "poison" => \A h \in Hands : Acts(h, e) => h \in Operators
  /\ marker[e] # "handled" => applied[e] = 0
  /\ applied[e] <= 1

Exclusion == \A e \in Events : OneActs(e)

\* Nobody starts on anything, and no record of it changes.
CalmHands == /\ UNCHANGED <<marker, applied>>
             /\ \A h \in Hands : hand'[h].step \in Acting =>
                  hand[h].step \in Acting /\ hand'[h].event = hand[h].event

LEMMA CalmHandsKeep == Exclusion /\ CalmHands => Exclusion'
BY DEF Exclusion, OneActs, CalmHands, Acts, Event

LEMMA MovesCalmly ==
  ASSUME Base, NEW h \in Hands, NEW x \in HandState, Moves(h, x), UNCHANGED <<marker, applied>>,
         x.step \in Acting => hand[h].step \in Acting /\ x.event = Event(h)
  PROVE  CalmHands
BY MovesFacts DEF CalmHands, Event

LEMMA CalmSteps ==
  ASSUME Base, NEW h \in Hands,
         \/ Raise(h) \/ Note(h) \/ Bury(h) \/ Ack(h) \/ Nak(h) \/ Crash(h)
         \/ h \in Operators /\ (Replayed(h) \/ ReplayFailed(h))
  PROVE  CalmHands
<1>1. CASE Raise(h)
  <2>1. PICK x \in HandState : Moves(h, x) /\ x.event = Event(h)
    BY <1>1, RaiseFacts
  <2>2. hand[h].step \in Acting /\ UNCHANGED <<marker, applied>>
    BY <1>1 DEF Raise, In, Acting
  <2> QED
    BY <2>1, <2>2, MovesCalmly
<1>2. CASE Note(h) \/ Bury(h)
  <2>1. hand[h].step \in Acting /\ ~In(h, "idle") /\ UNCHANGED <<marker, applied>>
    BY <1>2 DEF Note, Bury, In, Acting, observed
  <2>2. PICK s \in {"abandon", "poison"} : hand' = Goes(h, s)
    BY <1>2 DEF Note, Bury
  <2>3. PICK x \in HandState : Moves(h, x) /\ x.event = Event(h)
    BY <2>1, <2>2, GoesFacts
  <2> QED
    BY <2>1, <2>3, MovesCalmly
<1>3. CASE \/ Ack(h) \/ Nak(h) \/ Crash(h) \/ Replayed(h) \/ ReplayFailed(h)
  <2>1. Moves(h, Idle) /\ UNCHANGED <<marker, applied>>
    BY <1>3 DEF Ack, Nak, Crash, Replayed, ReplayFailed, Moves, observed
  <2>2. Idle.step \notin Acting
    BY IdleFacts DEF Acting
  <2> QED
    BY <2>1, <2>2, IdleFacts, MovesCalmly
<1> QED
  BY <1>1, <1>2, <1>3

LEMMA BeginExcludes ==
  ASSUME Base, Exclusion, OneOperator, NEW h \in Hands, NEW e \in Events, NEW m \in Nat,
         NEW n \in 0..MaxDeliver, Begin(h, e, m, n), UNCHANGED applied
  PROVE  Exclusion'
<1>1. PICK x \in HandState : Moves(h, x) /\ x.step = Told(h, e) /\ x.event = e
  BY BeginFacts
<1>2. /\ hand'[h] = x /\ \A g \in Hands : g # h => hand'[g] = hand[g]
      /\ hand[h].step = "idle"
  BY <1>1, MovesFacts, BeginFacts DEF In
<1>3. /\ marker'[e] = IF marker[e] = "none" THEN "held" ELSE marker[e]
      /\ \A d \in Events : d # e => marker'[d] = marker[d]
  BY BeginFacts
<1>4. ASSUME NEW d \in Events, d # e PROVE OneActs(d)'
  <2>1. \A g \in Hands : Acts(g, d)' => Acts(g, d)
    BY <1>1, <1>2, <1>4 DEF Acts, Event
  <2> QED
    BY <1>3, <1>4, <2>1 DEF Exclusion, OneActs
<1>5. OneActs(e)'
  <2>1. \A g \in Hands : g # h => (Acts(g, e)' <=> Acts(g, e))
    BY <1>2 DEF Acts, Event
  <2>2. ~Acts(h, e) /\ (Acts(h, e)' <=> x.step \in Acting)
    BY <1>1, <1>2 DEF Acts, Event, Acting
  <2>3. CASE marker[e] = "none"
    <3>1. \A g \in Hands : ~Acts(g, e)
      BY <2>3 DEF Exclusion, OneActs
    <3>2. marker'[e] = "held" /\ applied[e] = 0
      BY <1>3, <2>3 DEF Exclusion, OneActs
    <3> QED
      BY <2>1, <3>1, <3>2 DEF OneActs
  <2>4. CASE marker[e] = "held" \/ Suppressed(h, e)
    <3>1. x.step \notin Acting
      BY <1>1, <2>4 DEF Told, Acting
    <3>2. marker'[e] = marker[e]
      BY <1>3, <2>4 DEF Suppressed
    <3> QED
      BY <2>1, <2>2, <3>1, <3>2 DEF Exclusion, OneActs
  <2>5. CASE marker[e] = "poison" /\ h \in Operators
    <3>1. \A g \in Hands : ~Acts(g, e)
      BY <2>2, <2>5 DEF Exclusion, OneActs, OneOperator
    <3>2. marker'[e] = "poison" /\ applied[e] = 0
      BY <1>3, <2>5 DEF Exclusion, OneActs
    <3> QED
      BY <2>1, <2>5, <3>1, <3>2 DEF OneActs
  <2>6. marker[e] \in {"none", "held", "handled", "poison"}
    BY DEF Base, Consuming, ConsumerTyped, RecordsTyped
  <2> QED
    BY <2>3, <2>4, <2>5, <2>6 DEF Suppressed, Replaying
<1> QED
  BY <1>4, <1>5 DEF Exclusion

\* The steps that end an acting hand's business with its event.
LEMMA EndingExcludes ==
  ASSUME Base, Exclusion, NEW h \in Hands, Handle(h) \/ Abandon(h) \/ Poison(h)
  PROVE  Exclusion'
<1>e. PICK e : e = Event(h)
  OBVIOUS
<1>1. hand[h].step \in Acting /\ ~In(h, "idle")
  BY DEF Handle, Abandon, Poison, In, Acting
<1>2. e \in Events /\ applied[e] \in Nat
  BY <1>1, <1>e, HandFacts
<1>3. PICK s \in {"done", "refused"} : hand' = Goes(h, s)
  BY DEF Handle, Abandon, Poison
<1>4. PICK x \in HandState : Moves(h, x) /\ x.step = s /\ x.event = Event(h)
  BY <1>1, <1>3, GoesFacts
<1>5. /\ hand'[h].step = s /\ \A g \in Hands : g # h => hand'[g] = hand[g]
  BY <1>4, MovesFacts
<1>6. \A g \in Hands : \A d \in Events : Acts(g, d)' <=> Acts(g, d) /\ g # h
  BY <1>5 DEF Acts, Event, Acting
<1>7. Acts(h, e) /\ \A g \in Hands : ~Acts(g, e)'
  BY <1>1, <1>2, <1>6, <1>e DEF Acts, Exclusion, OneActs
<1>8. marker[e] \notin {"none", "handled"} /\ applied[e] = 0
  BY <1>2, <1>7 DEF Exclusion, OneActs
<1>9. /\ \A d \in Events : d # e => marker'[d] = marker[d] /\ applied'[d] = applied[d]
      /\ \/ marker'[e] = "handled" /\ applied'[e] = 1
         \/ marker'[e] \in {"none", "poison"} /\ applied'[e] = 0
  BY <1>2, <1>8, <1>e
     DEF Handle, Abandon, Poison, observed, Base, Consuming, ConsumerTyped, RecordsTyped
<1>10. ASSUME NEW d \in Events, d # e PROVE OneActs(d)'
  BY <1>6, <1>9, <1>10 DEF Exclusion, OneActs
<1>11. OneActs(e)'
  BY <1>7, <1>9 DEF OneActs
<1> QED
  BY <1>10, <1>11 DEF Exclusion

LEMMA LapseExcludes ==
  ASSUME Base, Exclusion, NEW e \in Events, Lapse(e)
  PROVE  Exclusion'
<1>1. \A g \in Hands : \A d \in Events : (Acts(g, d)' <=> Acts(g, d)) /\ ~Acts(g, e)
  BY DEF Lapse, MayLapse, Acts, Event
<1>2. UNCHANGED applied
  BY DEF Lapse, observed
<1>3. /\ \A d \in Events : d # e => marker'[d] = marker[d]
      /\ marker[e] # "handled" /\ marker'[e] \in {marker[e], "none"}
  BY DEF Lapse, MayLapse, Base, Consuming, ConsumerTyped, RecordsTyped
<1>4. ASSUME NEW d \in Events, d # e PROVE OneActs(d)'
  BY <1>1, <1>2, <1>3, <1>4 DEF Exclusion, OneActs
<1>5. OneActs(e)'
  BY <1>1, <1>2, <1>3 DEF Exclusion, OneActs
<1> QED
  BY <1>4, <1>5 DEF Exclusion

LEMMA ExclusionStep ==
  ASSUME OneOperator, Base, Exclusion, [Next]_vars
  PROVE  Exclusion'
<1>1. CASE UNCHANGED <<hand, marker, applied>>
  <2>1. CalmHands
    BY <1>1 DEF CalmHands
  <2> QED
    BY <2>1, CalmHandsKeep
<1>2. ASSUME NEW h \in Hands, NEW m \in Messages, Fetch(h, m) PROVE Exclusion'
  <2>1. Begin(h, stream[m], m, deliveries[m] + 1) /\ UNCHANGED applied
    BY <1>2 DEF Fetch, observed
  <2>2. stream[m] \in Events /\ m \in Nat /\ deliveries[m] + 1 \in 0..MaxDeliver
    BY <1>2, MessageFacts, ConsumerAssumption DEF Fetch, Deliverable
  <2> QED
    BY <2>1, <2>2, BeginExcludes
<1>3. ASSUME NEW o \in Operators, NEW e \in Events, Replay(o, e) PROVE Exclusion'
  <2>1. o \in Hands /\ 0 \in Nat /\ 0 \in 0..MaxDeliver /\ UNCHANGED applied
    BY <1>3, ConsumerAssumption DEF Replay, observed
  <2>2. CASE Begin(o, e, 0, 0)
    BY <2>1, <2>2, BeginExcludes
  <2>3. CASE UNCHANGED <<hand, marker>>
    BY <1>1, <2>1, <2>3
  <2> QED
    BY <1>3, <2>2, <2>3 DEF Replay
<1>4. ASSUME NEW h \in Hands, Handling(h) \/ Crash(h) PROVE Exclusion'
  BY <1>4, CalmSteps, CalmHandsKeep, EndingExcludes DEF Handling
<1>5. ASSUME NEW o \in Operators, Select(o) \/ Replayed(o) \/ ReplayFailed(o) \/ Forget(o)
      PROVE  Exclusion'
  <2>1. o \in Hands
    BY ConsumerAssumption
  <2>2. CASE Replayed(o) \/ ReplayFailed(o)
    BY <2>1, <2>2, CalmSteps, CalmHandsKeep
  <2>3. CASE Select(o) \/ Forget(o)
    BY <1>1, <2>3 DEF Select, Forget, observed
  <2> QED
    BY <1>5, <2>2, <2>3
<1>6. ASSUME NEW m \in Messages, Drop(m) PROVE Exclusion'
  BY <1>1, <1>6 DEF Drop, observed
<1>7. CASE UNCHANGED vars \/ UNCHANGED <<consumer, observed>>
  BY <1>1, <1>7 DEF vars, consumer, observed
<1> QED
  BY <1>2, <1>3, <1>4, <1>5, <1>6, <1>7, LapseExcludes DEF Next, Consume

LEMMA AlwaysExclusive == ASSUME OneOperator PROVE Spec => []Exclusion
<1>1. Init => Exclusion
  BY IdleFacts DEF Init, ConsumerInit, Exclusion, OneActs, Acts, Acting
<1>2. Base /\ Exclusion /\ [Next]_vars => Exclusion'
  BY ExclusionStep
<1> QED
  BY <1>1, <1>2, AlwaysBase, PTL DEF Spec

\* However often an event is published, redelivered and replayed, and wherever relays and
\* workers die, its effect takes place once: a claim or the one operator keeps a second
\* handler out until the marker that the handler's transaction leaves does (begin, _buried,
\* _reconsidered).  That one operator replays at a time is an assumption: a replay of a
\* poisoned event takes no claim.
THEOREM EffectsTakePlaceOnce == ASSUME OneOperator PROVE Spec => []AppliedOnce
<1>1. Exclusion => AppliedOnce
  BY DEF Exclusion, OneActs, AppliedOnce
<1> QED
  BY <1>1, AlwaysExclusive, PTL

-----------------------------------------------------------------------------
(* The attempts of an event.  While it may still be delivered, a free key     *)
(* means that the history has every attempt, a poisoned one that it is full;  *)
(* the history lapses only once the event is delivered no more.               *)

\* The event may still be delivered.
Pending(e) ==
  row[e] \in {"none", "waiting"} \/ \E m \in MessagesOf(e) : Deliverable(m)

EventCounts(e) ==
  /\ failures[e] < MaxAttempts
  /\ raised[e] <= MaxAttempts
  /\ row[e] = "none" => marker[e] = "none" /\ raised[e] = 0
  /\ Pending(e) /\ marker[e] = "none" => raised[e] <= failures[e]
  /\ Pending(e) /\ marker[e] = "poison" => failures[e] + 1 >= MaxAttempts

HandCounts(h, e) ==
  /\ In(h, "handling") =>
       /\ h \in Workers => raised[e] <= failures[e]
       /\ Pending(e) => raised[e] <= failures[e] \/ failures[e] + 1 >= MaxAttempts
  /\ In(h, "note") => /\ hand[h].history = failures[e] + 1
                      /\ Pending(e) => raised[e] <= hand[h].history
  /\ In(h, "abandon") => (Pending(e) => raised[e] <= failures[e])
  /\ In(h, "bury") \/ In(h, "poison") => failures[e] + 1 >= MaxAttempts

Counted ==
  /\ \A e \in Events : EventCounts(e)
  /\ \A h \in Hands : \A e \in Events : Event(h) = e => HandCounts(h, e)

\* What is not pending, no step makes pending.
PendingShrinks == \A e \in Events : Pending(e)' => Pending(e)

LEMMA ConsumersShrink ==
  ASSUME Base, UNCHANGED <<row, stream>>, settled \subseteq settled',
         \/ UNCHANGED deliveries
         \/ \E m \in Messages : Deliverable(m) /\ deliveries' = [deliveries EXCEPT ![m] = @ + 1]
  PROVE  PendingShrinks
<1> SUFFICES ASSUME NEW m \in Messages, Deliverable(m)' PROVE Deliverable(m)
  BY DEF PendingShrinks, Pending, MessagesOf, Messages
<1>1. CASE UNCHANGED deliveries
  BY <1>1 DEF Deliverable
<1>2. ASSUME NEW n \in Messages, Deliverable(n), deliveries' = [deliveries EXCEPT ![n] = @ + 1]
      PROVE  Deliverable(m)
  <2>1. CASE m = n
    BY <1>2, <2>1
  <2>2. CASE m # n
    <3>1. m \in DOMAIN deliveries
      BY MessageFacts
    <3>2. deliveries'[m] = deliveries[m]
      BY <1>2, <2>2, <3>1
    <3> QED
      BY <3>2 DEF Deliverable
  <2> QED
    BY <2>1, <2>2
<1> QED
  BY <1>1, <1>2

LEMMA RelaysShrink ==
  ASSUME Base, OutboxNext, UNCHANGED <<consumer, observed>>
  PROVE  PendingShrinks
<1> SUFFICES ASSUME NEW e \in Events, Pending(e)', row[e] = "published" PROVE Pending(e)
  BY DEF PendingShrinks, Pending, Base, Posting, OutboxTyped
<1>1. row'[e] = "published"
  <2>1. ASSUME NEW d \in Events, Publish(d) PROVE row'[e] = "published"
    <3>1. row[d] = "none"
      BY <2>1, PublishFacts DEF Base, Posting, RowsSound
    <3> QED
      BY <2>1, <3>1, PublishFacts DEF Base
  <2>2. ASSUME NEW r \in Relays, Mark(r) PROVE row'[e] = "published"
    BY <2>2, MarkFacts DEF Base
  <2>3. ASSUME NEW r \in Relays, Claim(r) \/ Send(r) \/ Divert(r) \/ Unacknowledged(r) \/ Die(r)
        PROVE  UNCHANGED row
    BY <2>3 DEF Claim, Send, Divert, Unacknowledged, Die
  <2> QED
    BY <2>1, <2>2, <2>3 DEF OutboxNext, Deliver
<1>2. PICK m \in MessagesOf(e)' : Deliverable(m)'
  BY <1>1 DEF Pending
<1>3. StreamMoves
  BY RelaysCarry DEF Base
<1>4. m \in Messages /\ stream'[m] = stream[m]
  BY <1>2, <1>3, StreamOnlyGrows DEF Base, MessagesOf
<1>5. m \in MessagesOf(e) /\ Deliverable(m)
  BY <1>2, <1>4 DEF MessagesOf, Deliverable, consumer
<1> QED
  BY <1>5 DEF Pending

\* Hands that go on acting where they are, or from burying to poisoning.
CountsStay ==
  /\ UNCHANGED <<marker, failures, raised>>
  /\ PendingShrinks
  /\ \A e \in Events : row'[e] = "none" => row[e] = "none"
  /\ \A h \in Hands : \/ hand'[h].step \notin Acting
                      \/ hand'[h] = hand[h]
                      \/ /\ hand'[h].step = "poison" /\ hand[h].step = "bury"
                         /\ hand'[h].event = hand[h].event

LEMMA CountsStayKeep == Base /\ Counted /\ CountsStay => Counted'
<1> SUFFICES ASSUME Base, Counted, CountsStay PROVE Counted'
  OBVIOUS
<1>1. ASSUME NEW e \in Events PROVE EventCounts(e)'
  BY DEF Counted, EventCounts, CountsStay, PendingShrinks
<1>2. ASSUME NEW h \in Hands, NEW e \in Events, Event(h)' = e PROVE HandCounts(h, e)'
  <2>1. CASE hand'[h].step \notin Acting
    BY <2>1 DEF HandCounts, In, Acting
  <2>2. CASE hand'[h] = hand[h]
    <3>1. HandCounts(h, e)
      BY <1>2, <2>2 DEF Counted, Event
    <3> QED
      BY <2>2, <3>1 DEF HandCounts, In, CountsStay, PendingShrinks
  <2>3. CASE /\ hand'[h].step = "poison" /\ hand[h].step = "bury"
             /\ hand'[h].event = hand[h].event
    <3>1. HandCounts(h, e)
      BY <1>2, <2>3 DEF Counted, Event
    <3> QED
      BY <2>3, <3>1 DEF HandCounts, In, CountsStay
  <2> QED
    BY <2>1, <2>2, <2>3 DEF CountsStay
<1> QED
  BY <1>1, <1>2 DEF Counted

\* A step of the one hand that acts on an event.
LEMMA OneHandCounts ==
  ASSUME Base, Counted, NEW h \in Hands, NEW x \in HandState, Moves(h, x), NEW e \in Events,
         UNCHANGED row, PendingShrinks,
         \A d \in Events : d # e => /\ marker'[d] = marker[d] /\ failures'[d] = failures[d]
                                    /\ raised'[d] = raised[d],
         \A g \in Hands : g # h => ~Acts(g, e),
         x.event = e,
         EventCounts(e)', HandCounts(h, e)'
  PROVE  Counted'
<1>1. hand'[h] = x /\ \A g \in Hands : g # h => hand'[g] = hand[g]
  BY MovesFacts
<1>2. ASSUME NEW d \in Events, d # e PROVE EventCounts(d)'
  BY <1>2 DEF Counted, EventCounts, PendingShrinks
<1>3. ASSUME NEW g \in Hands, g # h, NEW d \in Events, Event(g)' = d PROVE HandCounts(g, d)'
  <2>1. hand'[g] = hand[g] /\ Event(g) = d
    BY <1>1, <1>3 DEF Event
  <2>2. CASE hand[g].step \in Acting
    <3>1. d # e
      BY <1>3, <2>1, <2>2 DEF Acts
    <3>2. HandCounts(g, d)
      BY <2>1 DEF Counted
    <3> QED
      BY <2>1, <3>1, <3>2 DEF HandCounts, In, PendingShrinks
  <2>3. CASE hand[g].step \notin Acting
    BY <2>1, <2>3 DEF HandCounts, In, Acting
  <2> QED
    BY <2>2, <2>3
<1>4. ASSUME NEW d \in Events, Event(h)' = d PROVE HandCounts(h, d)'
  BY <1>1, <1>4 DEF Event
<1> QED
  BY <1>2, <1>3, <1>4 DEF Counted

LEMMA ActsAlone ==
  ASSUME Base, Exclusion, NEW h \in Hands, hand[h].step \in Acting
  PROVE  /\ ~In(h, "idle") /\ Event(h) \in Events
         /\ \A g \in Hands : g # h => ~Acts(g, Event(h))
         /\ marker[Event(h)] \in {"held", "poison"}
         /\ marker[Event(h)] = "poison" => h \in Operators
         /\ row[Event(h)] # "none"
         /\ h \in Workers <=> h \notin Operators
<1>1. ~In(h, "idle")
  BY DEF In, Acting
<1>2. Event(h) \in Events /\ Acts(h, Event(h)) /\ row[Event(h)] # "none"
  BY <1>1, HandFacts DEF Acts
<1>3. marker[Event(h)] \in {"none", "held", "handled", "poison"}
  BY <1>2 DEF Base, Consuming, ConsumerTyped, RecordsTyped
<1>4. /\ \A g \in Hands : g # h => ~Acts(g, Event(h))
      /\ marker[Event(h)] \in {"held", "poison"}
      /\ marker[Event(h)] = "poison" => h \in Operators
  BY <1>2, <1>3 DEF Exclusion, OneActs
<1> QED
  BY <1>1, <1>2, <1>4 DEF Workers

LEMMA CountTypes ==
  ASSUME Base, NEW e \in Events
  PROVE  /\ failures[e] \in Nat /\ raised[e] \in Nat /\ MaxAttempts \in Nat
         /\ marker[e] \in {"none", "held", "handled", "poison"}
  BY ConsumerAssumption DEF Base, Consuming, ConsumerTyped, RecordsTyped

LEMMA BeginCounts ==
  ASSUME OneOperator, Base, Exclusion, Counted, NEW h \in Hands, NEW e \in Events,
         NEW m \in Nat, NEW n \in 0..MaxDeliver, Begin(h, e, m, n),
         UNCHANGED <<row, failures, raised>>, PendingShrinks,
         row[e] # "none", h \in Workers => Pending(e)
  PROVE  Counted'
<1>1. PICK x \in HandState : Moves(h, x) /\ x.step = Told(h, e) /\ x.event = e
  BY BeginFacts
<1>2. /\ hand'[h] = x /\ \A g \in Hands : g # h => hand'[g] = hand[g]
  BY <1>1, MovesFacts
<1>3. /\ marker'[e] = IF marker[e] = "none" THEN "held" ELSE marker[e]
      /\ \A d \in Events : d # e => marker'[d] = marker[d]
      /\ marker' \in [Events -> {"none", "held", "handled", "poison"}]
      /\ Told(h, e) \in {"handling", "done", "refused"} /\ hand[h].step = "idle"
  BY BeginFacts DEF In
<1>4. CASE Told(h, e) # "handling"
  <2>1. marker[e] # "none"
    BY <1>4 DEF Told, Suppressed
  <2>2. marker' = marker
    <3>1. marker \in [Events -> {"none", "held", "handled", "poison"}]
      BY DEF Base, Consuming, ConsumerTyped, RecordsTyped
    <3>2. \A d \in Events : marker'[d] = marker[d]
      BY <1>3, <2>1
    <3> QED
      BY <1>3, <3>1, <3>2
  <2>3. CountsStay
    BY <1>1, <1>2, <1>3, <1>4, <2>2 DEF CountsStay, Acting
  <2> QED
    BY <2>3, CountsStayKeep
<1>5. CASE Told(h, e) = "handling"
  <2>1. marker[e] = "none" \/ (marker[e] = "poison" /\ h \in Operators)
    BY <1>5, CountTypes DEF Told, Suppressed, Replaying
  <2>2. \A g \in Hands : g # h => ~Acts(g, e)
    BY <2>1 DEF Exclusion, OneActs, OneOperator
  <2>3. failures[e] \in Nat /\ raised[e] \in Nat /\ MaxAttempts \in Nat
    BY CountTypes
  <2>4. EventCounts(e)'
    BY <1>3, <2>1 DEF Counted, EventCounts, PendingShrinks
  <2>5. HandCounts(h, e)'
    <3>1. /\ h \in Workers => raised[e] <= failures[e]
          /\ Pending(e) => raised[e] <= failures[e] \/ failures[e] + 1 >= MaxAttempts
      BY <2>1 DEF Counted, EventCounts, Workers
    <3> QED
      BY <1>1, <1>2, <1>5, <3>1 DEF HandCounts, In, PendingShrinks
  <2> QED
    BY <1>1, <1>3, <2>2, <2>4, <2>5, OneHandCounts
<1> QED
  BY <1>4, <1>5

LEMMA RaiseCounts ==
  ASSUME Base, Exclusion, Counted, NEW h \in Hands, Raise(h), UNCHANGED row
  PROVE  Counted'
<1>e. PICK e : e = Event(h)
  OBVIOUS
<1>1. hand[h].step \in Acting /\ In(h, "handling") /\ UNCHANGED <<marker, failures, stream, settled, deliveries>>
  BY DEF Raise, In, Acting, channels
<1>2. /\ e \in Events /\ \A g \in Hands : g # h => ~Acts(g, e)
      /\ marker[e] \in {"held", "poison"}
      /\ marker[e] = "poison" => h \in Operators
      /\ h \in Workers <=> h \notin Operators
      /\ row[e] # "none"
  BY <1>1, <1>e, ActsAlone
<1>3. PICK x \in HandState :
        /\ Moves(h, x) /\ x.event = e /\ x.history = failures[e] + 1
        /\ x.step = IF x.history >= MaxAttempts THEN "bury" ELSE "note"
  BY <1>e, RaiseFacts
<1>4. failures[e] \in Nat /\ raised[e] \in Nat /\ MaxAttempts \in Nat
  BY <1>2, CountTypes
<1>5. /\ \A d \in Events : d # e => raised'[d] = raised[d]
      /\ raised'[e] = IF h \in Operators THEN raised[e] ELSE raised[e] + 1
  BY <1>2, <1>e DEF Raise, Replaying, Base, Consuming, ConsumerTyped, RecordsTyped
<1>6. PendingShrinks
  BY <1>1, ConsumersShrink
<1>7. HandCounts(h, e) /\ EventCounts(e)
  BY <1>2, <1>e DEF Counted
<1>8. EventCounts(e)'
  <2>1. failures[e] < MaxAttempts /\ raised'[e] <= MaxAttempts
    BY <1>1, <1>2, <1>4, <1>5, <1>7 DEF EventCounts, HandCounts
  <2> QED
    BY <1>1, <1>2, <1>5, <1>6, <1>7, <2>1 DEF EventCounts, PendingShrinks
<1>9. HandCounts(h, e)'
  <2>1. hand'[h] = x
    BY <1>3, MovesFacts
  <2>2. x.step = "bury" => failures[e] + 1 >= MaxAttempts
    BY <1>3
  <2>3. x.step = "note" => (Pending(e)' => raised'[e] <= failures[e] + 1)
    BY <1>1, <1>2, <1>3, <1>4, <1>5, <1>6, <1>7 DEF HandCounts, PendingShrinks
  <2> QED
    BY <1>1, <1>3, <2>1, <2>2, <2>3 DEF HandCounts, In
<1> QED
  BY <1>1, <1>2, <1>3, <1>5, <1>6, <1>8, <1>9, OneHandCounts

\* Handle, Note, Abandon and Poison: the hand goes on, or is done with the event.
LEMMA ActingCounts ==
  ASSUME Base, Exclusion, Counted, NEW h \in Hands, UNCHANGED row,
         Handle(h) \/ Note(h) \/ Abandon(h) \/ Poison(h)
  PROVE  Counted'
<1>e. PICK e : e = Event(h)
  OBVIOUS
<1>1. hand[h].step \in Acting /\ UNCHANGED <<raised, stream, settled, deliveries>>
  BY DEF Handle, Note, Abandon, Poison, In, Acting, channels, observed
<1>2. /\ e \in Events /\ \A g \in Hands : g # h => ~Acts(g, e)
      /\ marker[e] \in {"held", "poison"} /\ ~In(h, "idle")
      /\ row[e] # "none"
  BY <1>1, <1>e, ActsAlone
<1>3. PICK s \in {"abandon", "done", "refused"} :
        /\ hand' = Goes(h, s)
        /\ s = "abandon" <=> Note(h)
  <2>1. Note(h) => ~Handle(h) /\ ~Abandon(h) /\ ~Poison(h)
    BY DEF Handle, Note, Abandon, Poison, In
  <2> QED
    BY <2>1 DEF Handle, Note, Abandon, Poison
<1>4. PICK x \in HandState : Moves(h, x) /\ x.step = s /\ x.event = e
  BY <1>2, <1>3, <1>e, GoesFacts
<1>5. /\ failures[e] \in Nat /\ raised[e] \in Nat /\ MaxAttempts \in Nat
      /\ hand[h].history \in Nat
  BY <1>2, CountTypes, HandFacts
<1>6. PendingShrinks
  BY <1>1, ConsumersShrink
<1>7. HandCounts(h, e) /\ EventCounts(e) /\ (In(h, "note") => hand[h].history < MaxAttempts)
  BY <1>2, <1>e DEF Counted, Base, Consuming, HandsSound
<1>8. \A d \in Events : d # e => marker'[d] = marker[d] /\ failures'[d] = failures[d]
  BY <1>2, <1>e
     DEF Handle, Note, Abandon, Poison, observed, Base, Consuming, ConsumerTyped, RecordsTyped
<1>9. EventCounts(e)' /\ HandCounts(h, e)'
  <2>0. hand'[h] = x
    BY <1>4, MovesFacts
  <2>1. CASE Handle(h)
    <3>1. marker'[e] = "handled" /\ failures' = failures /\ s # "abandon"
      BY <1>2, <1>3, <1>e, <2>1
         DEF Handle, Note, In, Base, Consuming, ConsumerTyped, RecordsTyped
    <3> QED
      BY <1>1, <1>2, <1>4, <1>7, <2>0, <3>1 DEF EventCounts, HandCounts, In
  <2>2. CASE Note(h)
    <3>1. marker' = marker /\ failures'[e] = hand[h].history /\ In(h, "note") /\ s = "abandon"
      BY <1>2, <1>3, <1>e, <2>2 DEF Note, Base, Consuming, ConsumerTyped, RecordsTyped
    <3>2. /\ hand[h].history = failures[e] + 1 /\ hand[h].history < MaxAttempts
          /\ Pending(e) => raised[e] <= hand[h].history
      BY <1>7, <3>1 DEF HandCounts
    <3>3. EventCounts(e)'
      BY <1>1, <1>2, <1>5, <1>6, <1>7, <3>1, <3>2 DEF EventCounts, PendingShrinks
    <3>4. HandCounts(h, e)'
      BY <1>1, <1>2, <1>4, <1>6, <2>0, <3>1, <3>2 DEF HandCounts, In, PendingShrinks
    <3> QED
      BY <3>3, <3>4
  <2>3. CASE Abandon(h)
    <3>1. /\ marker'[e] = "none" /\ failures' = failures /\ In(h, "abandon")
          /\ s # "abandon"
      BY <1>2, <1>3, <1>e, <2>3
         DEF Abandon, Note, In, Base, Consuming, ConsumerTyped, RecordsTyped
    <3> QED
      BY <1>1, <1>2, <1>4, <1>6, <1>7, <2>0, <3>1
         DEF EventCounts, HandCounts, In, PendingShrinks
  <2>4. CASE Poison(h)
    <3>1. /\ marker'[e] = "poison" /\ failures' = failures /\ In(h, "poison")
          /\ s # "abandon"
      BY <1>2, <1>3, <1>e, <2>4
         DEF Poison, Note, In, Base, Consuming, ConsumerTyped, RecordsTyped
    <3> QED
      BY <1>1, <1>2, <1>4, <1>6, <1>7, <2>0, <3>1
         DEF EventCounts, HandCounts, In, PendingShrinks
  <2> QED
    BY <2>1, <2>2, <2>3, <2>4
<1> QED
  BY <1>1, <1>2, <1>4, <1>6, <1>8, <1>9, OneHandCounts

LEMMA QuietCounts ==
  ASSUME Base, Counted, NEW h \in Hands, UNCHANGED row,
         \/ Bury(h) \/ Ack(h) \/ Nak(h) \/ Crash(h)
         \/ h \in Operators /\ (Replayed(h) \/ ReplayFailed(h))
  PROVE  Counted'
<1>1. UNCHANGED <<marker, failures, raised, stream, deliveries>> /\ settled \subseteq settled'
  BY DEF Bury, Ack, Nak, Crash, Replayed, ReplayFailed, observed, channels
<1>2. PendingShrinks
  BY <1>1, ConsumersShrink
<1>3. CASE Bury(h)
  <2>1. ~In(h, "idle") /\ hand[h].step = "bury" /\ hand' = Goes(h, "poison")
    BY <1>3 DEF Bury, In
  <2>2. PICK x \in HandState : Moves(h, x) /\ x.step = "poison" /\ x.event = Event(h)
    BY <2>1, GoesFacts
  <2>3. CountsStay
    BY <1>1, <1>2, <2>1, <2>2, MovesFacts DEF CountsStay, Event
  <2> QED
    BY <2>3, CountsStayKeep
<1>4. CASE Ack(h) \/ Nak(h) \/ Crash(h) \/ Replayed(h) \/ ReplayFailed(h)
  <2>1. Moves(h, Idle) /\ Idle.step \notin Acting
    BY <1>4, IdleFacts DEF Ack, Nak, Crash, Replayed, ReplayFailed, Moves, Acting
  <2>2. CountsStay
    BY <1>1, <1>2, <2>1, IdleFacts, MovesFacts DEF CountsStay
  <2> QED
    BY <2>2, CountsStayKeep
<1> QED
  BY <1>3, <1>4

LEMMA LapseCounts ==
  ASSUME Base, Counted, NEW e \in Events, Lapse(e), Remembered(e), UNCHANGED row
  PROVE  Counted'
<1>1. UNCHANGED <<hand, raised, stream, settled, deliveries>>
  BY DEF Lapse, observed, channels
<1>2. PendingShrinks
  BY <1>1, ConsumersShrink
<1>3. /\ \A d \in Events : d # e => marker'[d] = marker[d] /\ failures'[d] = failures[d]
      /\ marker'[e] \in {marker[e], "none"} /\ failures'[e] \in {failures[e], 0}
  BY DEF Lapse, Base, Consuming, ConsumerTyped, RecordsTyped
<1>4. /\ \A h \in Hands : Event(h) # e
      /\ Pending(e) => row[e] = "none"
  BY DEF Lapse, MayLapse, Remembered, Pending
<1>5. ASSUME NEW d \in Events, d # e PROVE EventCounts(d)'
  BY <1>1, <1>2, <1>3, <1>5 DEF Counted, EventCounts, PendingShrinks
<1>6. EventCounts(e)'
  <2>1. failures[e] \in Nat /\ MaxAttempts \in Nat /\ MaxAttempts # 0
    BY CountTypes, ConsumerAssumption
  <2>2. EventCounts(e) /\ (Pending(e)' => Pending(e))
    BY <1>2 DEF Counted, PendingShrinks
  <2>3. failures'[e] < MaxAttempts /\ failures'[e] \in Nat
    BY <1>3, <2>1, <2>2 DEF EventCounts
  <2> QED
    BY <1>1, <1>3, <1>4, <2>1, <2>2, <2>3 DEF EventCounts
<1>7. ASSUME NEW h \in Hands, NEW d \in Events, Event(h)' = d PROVE HandCounts(h, d)'
  <2>1. Event(h) = d /\ d # e /\ HandCounts(h, d)
    BY <1>1, <1>4, <1>7 DEF Counted, Event
  <2> QED
    BY <1>1, <1>2, <1>3, <2>1 DEF HandCounts, In, PendingShrinks
<1> QED
  BY <1>5, <1>6, <1>7 DEF Counted

LEMMA CountedStep ==
  ASSUME OneOperator, Base, Exclusion, Counted, [Next]_vars
  PROVE  Counted'
<1>1. CASE OutboxNext /\ UNCHANGED <<consumer, observed>>
  <2>1. PendingShrinks
    BY <1>1, RelaysShrink
  <2>2. UNCHANGED <<marker, failures, raised, hand>>
    BY <1>1 DEF consumer, observed
  <2>3. \A e \in Events : row'[e] = "none" => row[e] = "none"
    BY <1>1, RowsStay DEF Base
  <2>4. CountsStay
    BY <2>1, <2>2, <2>3 DEF CountsStay
  <2> QED
    BY <2>4, CountsStayKeep
<1>2. CASE Consume /\ UNCHANGED outbox
  <2>1. UNCHANGED row
    BY <1>2 DEF outbox
  <2>2. ASSUME NEW h \in Hands, NEW m \in Messages, Fetch(h, m) PROVE Counted'
    <3>1. /\ stream[m] \in Events /\ m \in Nat /\ deliveries[m] + 1 \in 0..MaxDeliver
          /\ m \in MessagesOf(stream[m]) /\ row[stream[m]] # "none"
      BY <2>2, MessageFacts, ConsumerAssumption DEF Fetch, Deliverable
    <3>2. /\ Begin(h, stream[m], m, deliveries[m] + 1) /\ Deliverable(m)
          /\ UNCHANGED <<failures, raised, stream, settled>>
          /\ deliveries' = [deliveries EXCEPT ![m] = @ + 1]
      BY <2>2 DEF Fetch, observed, channels
    <3>3. Pending(stream[m]) /\ PendingShrinks
      BY <2>1, <3>1, <3>2, ConsumersShrink DEF Pending
    <3> QED
      BY <2>1, <3>1, <3>2, <3>3, BeginCounts
  <2>3. ASSUME NEW o \in Operators, NEW e \in Events, Replay(o, e) PROVE Counted'
    <3>1. /\ o \in Hands /\ o \notin Workers /\ 0 \in Nat /\ 0 \in 0..MaxDeliver
          /\ row[e] # "none"
      BY <2>3, ConsumerAssumption, BatchesKnown DEF Replay, Workers
    <3>2. UNCHANGED <<failures, raised, stream, settled, deliveries>>
      BY <2>3 DEF Replay, observed, channels
    <3>3. PendingShrinks
      BY <2>1, <3>2, ConsumersShrink
    <3>4. CASE Begin(o, e, 0, 0)
      BY <2>1, <3>1, <3>2, <3>3, <3>4, BeginCounts
    <3>5. CASE UNCHANGED <<hand, marker>>
      <4>1. CountsStay
        BY <2>1, <3>2, <3>3, <3>5 DEF CountsStay
      <4> QED
        BY <4>1, CountsStayKeep
    <3> QED
      BY <2>3, <3>4, <3>5 DEF Replay
  <2>4. ASSUME NEW h \in Hands, Handling(h) \/ Crash(h) PROVE Counted'
    BY <2>1, <2>4, RaiseCounts, ActingCounts, QuietCounts DEF Handling
  <2>5. ASSUME NEW o \in Operators, Replayed(o) \/ ReplayFailed(o) PROVE Counted'
    BY <2>1, <2>5, QuietCounts, ConsumerAssumption
  <2>6. ASSUME NEW o \in Operators, Select(o) \/ Forget(o) PROVE Counted'
    <3>1. UNCHANGED <<marker, failures, raised, hand, stream, settled, deliveries>>
      BY <2>6 DEF Select, Forget, observed, channels
    <3>2. CountsStay
      BY <2>1, <3>1, ConsumersShrink DEF CountsStay
    <3> QED
      BY <3>2, CountsStayKeep
  <2>7. ASSUME NEW m \in Messages, Drop(m) PROVE Counted'
    <3>1. UNCHANGED <<marker, failures, raised, hand, stream, settled>>
      BY <2>7 DEF Drop, observed
    <3>2. CountsStay
      BY <2>1, <2>7, <3>1, ConsumersShrink DEF CountsStay, Drop
    <3> QED
      BY <3>2, CountsStayKeep
  <2> QED
    BY <1>2, <2>1, <2>2, <2>3, <2>4, <2>5, <2>6, <2>7, LapseCounts DEF Consume
<1>3. CASE UNCHANGED vars
  <2>1. UNCHANGED <<marker, failures, raised, hand, stream, settled, deliveries, row>>
    BY <1>3 DEF vars, consumer, observed, channels, outbox
  <2>2. CountsStay
    BY <2>1, ConsumersShrink DEF CountsStay
  <2> QED
    BY <2>2, CountsStayKeep
<1> QED
  BY <1>1, <1>2, <1>3 DEF Next

\* The handler raises no more often on an event than max_attempts allows, however
\* deliveries, duplicates, replays and crashes interleave: the history misses no attempt of
\* an event that may still be delivered, and a full one is never reopened
\* (_recorded_failures, _failed, _buried).  One operator replays at a time.
THEOREM RetriesEnd == ASSUME OneOperator PROVE Spec => []AttemptsAreBounded
<1>1. Init => Counted
  <2> SUFFICES ASSUME Init PROVE Counted
    OBVIOUS
  <2>1. ASSUME NEW e \in Events PROVE EventCounts(e)
    BY ConsumerAssumption DEF Init, ConsumerInit, EventCounts
  <2>2. ASSUME NEW h \in Hands, NEW e \in Events PROVE HandCounts(h, e)
    BY IdleFacts DEF Init, ConsumerInit, HandCounts, In
  <2> QED
    BY <2>1, <2>2 DEF Counted
<1>2. Base /\ Exclusion /\ Counted /\ [Next]_vars => Counted'
  BY CountedStep
<1>3. Counted => AttemptsAreBounded
  BY DEF Counted, EventCounts, AttemptsAreBounded
<1> QED
  BY <1>1, <1>2, <1>3, AlwaysBase, AlwaysExclusive, PTL DEF Spec

-----------------------------------------------------------------------------
(* Where an event is.  What a record, a hand or a settled message says is     *)
(* dealt with is applied, buried, or overlooked by a replay; and a row is     *)
(* marked, or about to be, only when its event is on the stream or, too large *)
(* for it, dealt with.                                                        *)

Concluded(e) == applied[e] > 0 \/ e \in overlooked
Dealt(e) == Concluded(e) \/ e \in letters

OnStream(e) == MessagesOf(e) # {}
Reached(e) == OnStream(e) \/ (e \in input.oversized /\ Dealt(e))

HandKept(h) ==
  /\ In(h, "done") => Dealt(Event(h)) /\ (h \in Operators => Concluded(Event(h)))
  /\ In(h, "poison") => Dealt(Event(h))

Passing(e) == row[e] = "published" \/ \E r \in Relays : e \in relay[r].sent

MarkersKept == \A e \in Events : /\ marker[e] = "handled" => applied[e] > 0
                                 /\ marker[e] = "poison" => Dealt(e)
HandsKept == \A h \in Hands : HandKept(h)
BatchesKept == \A o \in Operators : \A e \in batch[o].replayed : Concluded(e)
SettledKept == \A m \in settled : Dealt(stream[m])
RowsKept == \A e \in Events : Passing(e) => Reached(e)

Lasting == MarkersKept /\ HandsKept /\ BatchesKept /\ SettledKept /\ RowsKept

\* What is on the stream, concluded or dealt with stays so.
NothingUndone ==
  \A e \in Events : /\ Concluded(e) => Concluded(e)'
                    /\ Dealt(e) => Dealt(e)'
                    /\ OnStream(e) => OnStream(e)'

LEMMA RelaysUndoNothing ==
  ASSUME Base, OutboxNext, UNCHANGED <<consumer, observed>>
  PROVE  NothingUndone /\ UNCHANGED input
<1>1. StreamMoves /\ letters \subseteq letters'
  BY RelaysCarry DEF Base
<1>2. \A e : MessagesOf(e) \subseteq MessagesOf(e)'
  BY <1>1, StreamOnlyGrows DEF Base
<1>3. UNCHANGED <<input, applied, overlooked>>
  BY DEF OutboxNext, Deliver, Publish, Claim, Send, Divert, Mark, Unacknowledged, Die, observed
<1> QED
  BY <1>1, <1>2, <1>3 DEF NothingUndone, Concluded, Dealt, OnStream

\* Only a replay takes a dead letter away, and only of an event it found dealt with.
LEMMA ConsumersForget ==
  ASSUME Lasting, Consume
  PROVE  \A e \in letters : e \in letters' \/ Concluded(e)
<1>1. ASSUME NEW o \in Operators, Forget(o) PROVE \A e \in letters : e \in letters' \/ Concluded(e)
  BY <1>1 DEF Forget, Lasting, BatchesKept
<1>2. ASSUME NEW h \in Hands,
             \/ Handling(h) \/ Crash(h) \/ \E m \in Messages : Fetch(h, m)
      PROVE  letters \subseteq letters'
  BY <1>2 DEF Handling, Handle, Raise, Note, Abandon, Bury, Poison, Ack, Nak, Crash, Fetch,
              channels, Buried
<1>3. ASSUME NEW o \in Operators,
             Select(o) \/ Replayed(o) \/ ReplayFailed(o) \/ \E e \in Events : Replay(o, e)
      PROVE  letters \subseteq letters'
  BY <1>3 DEF Select, Replayed, ReplayFailed, Replay, channels
<1>4. ASSUME \/ \E m \in Messages : Drop(m)
             \/ \E e \in Events : Lapse(e)
      PROVE  letters \subseteq letters'
  BY <1>4 DEF Drop, Lapse, channels
<1> QED
  BY <1>1, <1>2, <1>3, <1>4 DEF Consume

LEMMA ConsumersUndoNothing ==
  ASSUME Base, Lasting, Consume
  PROVE  NothingUndone
<1>1. UNCHANGED stream
  BY ConsumersPublishNothing
<1>2. /\ \A e \in Events : applied[e] > 0 => applied'[e] > 0
      /\ overlooked \subseteq overlooked'
  <2>1. ASSUME NEW h \in Hands, Handle(h)
        PROVE  /\ \A e \in Events : applied[e] > 0 => applied'[e] > 0
               /\ overlooked \subseteq overlooked'
    <3>1. applied \in [Events -> Nat]
      BY DEF Base, Consuming, ConsumerTyped, RecordsTyped
    <3>2. applied' = [applied EXCEPT ![Event(h)] = @ + 1] /\ UNCHANGED overlooked
      BY <2>1 DEF Handle
    <3> QED
      BY <3>1, <3>2
  <2>2. ASSUME NEW h \in Hands,
               \/ Raise(h) \/ Note(h) \/ Abandon(h) \/ Bury(h) \/ Poison(h) \/ Ack(h) \/ Nak(h)
               \/ Crash(h) \/ \E m \in Messages : Fetch(h, m)
        PROVE  UNCHANGED applied /\ overlooked \subseteq overlooked'
    BY <2>2 DEF Raise, Note, Abandon, Bury, Poison, Ack, Nak, Crash, Fetch, observed
  <2>3. ASSUME NEW o \in Operators,
               \/ Select(o) \/ Replayed(o) \/ ReplayFailed(o) \/ Forget(o)
               \/ \E e \in Events : Replay(o, e)
        PROVE  UNCHANGED applied /\ overlooked \subseteq overlooked'
    BY <2>3 DEF Select, Replayed, ReplayFailed, Forget, Replay, observed
  <2>4. ASSUME \/ \E m \in Messages : Drop(m)
               \/ \E e \in Events : Lapse(e)
        PROVE  UNCHANGED applied /\ overlooked \subseteq overlooked'
    BY <2>4 DEF Drop, Lapse, observed
  <2> QED
    BY <2>1, <2>2, <2>3, <2>4 DEF Consume, Handling
<1>3. \A e \in Events : Concluded(e) => Concluded(e)'
  BY <1>2 DEF Concluded
<1>4. \A e \in letters : e \in letters' \/ Concluded(e)
  BY ConsumersForget
<1>5. \A e \in Events : Dealt(e) => Dealt(e)'
  BY <1>3, <1>4 DEF Dealt
<1>6. \A e \in Events : OnStream(e) => OnStream(e)'
  BY <1>1 DEF OnStream, MessagesOf, Messages
<1> QED
  BY <1>3, <1>5, <1>6 DEF NothingUndone

\* What a step has to show for the records, hands and messages it changes.
LEMMA KeptBy ==
  ASSUME Base, Lasting, NothingUndone, UNCHANGED input, settled' \subseteq Messages',
         \A m \in settled : stream'[m] = stream[m],
         \A h \in Hands : \/ hand'[h] = hand[h]
                          \/ hand'[h].step \notin {"done", "poison"}
                          \/ \E e : /\ hand'[h].event = e /\ Dealt(e)'
                                    /\ hand'[h].step = "done" /\ h \in Operators
                                         => Concluded(e)',
         \A e \in Events : \/ marker'[e] = marker[e]
                           \/ marker'[e] \in {"none", "held"}
                           \/ marker'[e] = "handled" /\ applied'[e] > 0
                           \/ marker'[e] = "poison" /\ Dealt(e)',
         \A e \in Events : applied[e] > 0 => applied'[e] > 0,
         \A o \in Operators : \A e \in batch'[o].replayed :
           e \in batch[o].replayed \/ Concluded(e)',
         \A m \in settled' : m \in settled \/ \E e : stream'[m] = e /\ Dealt(e)',
         \A e \in Events : Passing(e)' => Passing(e) \/ Reached(e)'
  PROVE  Lasting'
<1>1. MarkersKept'
  BY DEF Lasting, MarkersKept, NothingUndone
<1>2. HandsKept'
  <2> SUFFICES ASSUME NEW h \in Hands PROVE HandKept(h)'
    BY DEF HandsKept
  <2>1. CASE hand'[h] = hand[h]
    <3>1. ~In(h, "idle") => Event(h) \in Events
      BY HandFacts
    <3> QED
      BY <2>1, <3>1 DEF Lasting, HandsKept, HandKept, In, Event, NothingUndone
  <2>2. CASE hand'[h].step \notin {"done", "poison"}
    BY <2>2 DEF HandKept, In
  <2>3. ASSUME NEW e, hand'[h].event = e, Dealt(e)',
               hand'[h].step = "done" /\ h \in Operators => Concluded(e)'
        PROVE  HandKept(h)'
    BY <2>3 DEF HandKept, In, Event, Dealt, Concluded
  <2> QED
    BY <2>1, <2>2, <2>3
<1>3. BatchesKept'
  BY BatchesKnown DEF Lasting, BatchesKept, NothingUndone
<1>4. SettledKept'
  <2> SUFFICES ASSUME NEW m \in settled' PROVE Dealt(stream[m])'
    BY DEF SettledKept
  <2>1. CASE m \in settled
    <3>1. m \in Messages /\ stream[m] \in Events /\ Dealt(stream[m]) /\ stream'[m] = stream[m]
      BY <2>1, StreamFacts DEF Base, Consuming, ConsumerTyped, RecordsTyped, Lasting, SettledKept
    <3>2. Dealt(stream[m]) => \A e \in Events : e = stream[m] => Dealt(e)'
      BY DEF NothingUndone
    <3> QED
      BY <3>1, <3>2 DEF Dealt, Concluded
  <2>2. ASSUME NEW e, stream'[m] = e, Dealt(e)' PROVE Dealt(stream[m])'
    BY <2>2 DEF Dealt, Concluded
  <2> QED
    BY <2>1, <2>2
<1>5. RowsKept'
  BY DEF Lasting, RowsKept, NothingUndone, Reached
<1> QED
  BY <1>1, <1>2, <1>3, <1>4, <1>5 DEF Lasting

\* The same for a step of hand h, which comes to x.
LEMMA KeptByHand ==
  ASSUME Base, Lasting, NothingUndone, UNCHANGED <<outbox, stream>>, Consuming',
         NEW h \in Hands, NEW x \in HandState, Moves(h, x),
         \/ x.step \notin {"done", "poison"}
         \/ \E e : /\ x.event = e /\ Dealt(e)'
                   /\ x.step = "done" /\ h \in Operators => Concluded(e)',
         \A e \in Events : \/ marker'[e] = marker[e]
                           \/ marker'[e] \in {"none", "held"}
                           \/ marker'[e] = "handled" /\ applied'[e] > 0
                           \/ marker'[e] = "poison" /\ Dealt(e)',
         \A e \in Events : applied[e] > 0 => applied'[e] > 0,
         \A o \in Operators : \A e \in batch'[o].replayed :
           e \in batch[o].replayed \/ Concluded(e)',
         \A m \in settled' : m \in settled \/ \E e : stream[m] = e /\ Dealt(e)'
  PROVE  Lasting'
<1>1. hand'[h] = x /\ \A g \in Hands : g # h => hand'[g] = hand[g]
  BY MovesFacts
<1>2. UNCHANGED input /\ \A e \in Events : Passing(e)' => Passing(e)
  BY DEF outbox, Passing
<1>3. settled' \subseteq Messages'
  BY DEF Consuming, ConsumerTyped, RecordsTyped
<1> QED
  BY <1>1, <1>2, <1>3, KeptBy

LEMMA BeginIsKept ==
  ASSUME Base, Lasting, NothingUndone, UNCHANGED <<outbox, stream, applied, settled>>, Consuming',
         NEW h \in Hands, NEW e \in Events, NEW m \in Nat, NEW n \in 0..MaxDeliver,
         Begin(h, e, m, n), \A o \in Operators : batch'[o].replayed = batch[o].replayed
  PROVE  Lasting'
<1>1. PICK x \in HandState : Moves(h, x) /\ x.step = Told(h, e) /\ x.event = e
  BY BeginFacts
<1>2. \A d \in Events : marker'[d] = marker[d] \/ marker'[d] = "held"
  BY BeginFacts
<1>3. CASE Told(h, e) # "done"
  <2>1. x.step \notin {"done", "poison"}
    BY <1>1, <1>3, BeginFacts
  <2> QED
    BY <1>1, <1>2, <2>1, KeptByHand
<1>4. CASE Told(h, e) = "done"
  <2>1. Suppressed(h, e)
    BY <1>4 DEF Told
  <2>2. Dealt(e) /\ (h \in Operators => Concluded(e))
    BY <2>1 DEF Suppressed, Replaying, Lasting, MarkersKept, Dealt, Concluded
  <2>3. Dealt(e)' /\ (h \in Operators => Concluded(e)')
    BY <2>2 DEF NothingUndone
  <2> QED
    BY <1>1, <1>2, <2>3, KeptByHand
<1> QED
  BY <1>3, <1>4

LEMMA HandlingIsKept ==
  ASSUME Base, Lasting, NothingUndone, UNCHANGED outbox, Consuming', NEW h \in Hands, Handling(h)
  PROVE  Lasting'
<1>e. PICK e : e = Event(h)
  OBVIOUS
<1>1. ~In(h, "idle")
  BY DEF Handling, Handle, Raise, Note, Abandon, Bury, Poison, Ack, Nak, In
<1>2. e \in Events /\ applied[e] \in Nat
  BY <1>1, <1>e, HandFacts
<1>3. /\ applied \in [Events -> Nat]
      /\ marker \in [Events -> {"none", "held", "handled", "poison"}]
  BY DEF Base, Consuming, ConsumerTyped, RecordsTyped
<1>4. CASE Handle(h)
  <2>1. PICK x \in HandState : Moves(h, x) /\ x.step = "done" /\ x.event = e
    BY <1>1, <1>4, <1>e, GoesFacts DEF Handle
  <2>2. /\ UNCHANGED <<stream, batch, settled>>
        /\ applied'[e] > 0 /\ \A d \in Events : applied[d] > 0 => applied'[d] > 0
        /\ marker'[e] = "handled" /\ \A d \in Events : d # e => marker'[d] = marker[d]
    BY <1>2, <1>3, <1>4, <1>e DEF Handle, channels
  <2>3. Dealt(e)' /\ Concluded(e)'
    BY <2>2 DEF Dealt, Concluded
  <2> QED
    BY <2>1, <2>2, <2>3, KeptByHand
<1>5. CASE Raise(h)
  <2>1. PICK x \in HandState : Moves(h, x) /\ x.step \notin {"done", "poison"}
    BY <1>5, RaiseFacts
  <2>2. UNCHANGED <<stream, batch, settled, marker, applied>>
    BY <1>5 DEF Raise, channels
  <2> QED
    BY <2>1, <2>2, KeptByHand
<1>6. CASE Note(h) \/ Abandon(h)
  <2>1. PICK s \in {"abandon", "refused"} : hand' = Goes(h, s)
    BY <1>6 DEF Note, Abandon
  <2>2. PICK x \in HandState : Moves(h, x) /\ x.step \notin {"done", "poison"}
    BY <1>1, <2>1, GoesFacts
  <2>3. /\ UNCHANGED <<stream, batch, settled, applied>>
        /\ \A d \in Events : marker'[d] = marker[d] \/ marker'[d] = "none"
    BY <1>3, <1>6 DEF Note, Abandon, channels, observed
  <2> QED
    BY <2>2, <2>3, KeptByHand
<1>7. CASE Bury(h)
  <2>1. PICK x \in HandState : Moves(h, x) /\ x.step = "poison" /\ x.event = e
    BY <1>1, <1>7, <1>e, GoesFacts DEF Bury
  <2>2. /\ UNCHANGED <<stream, batch, settled, marker, applied>> /\ e \in letters'
    BY <1>7, <1>e DEF Bury, observed, Buried
  <2>3. Dealt(e)'
    BY <2>2 DEF Dealt
  <2> QED
    BY <2>1, <2>2, <2>3, KeptByHand
<1>8. CASE Poison(h)
  <2>1. PICK x \in HandState : Moves(h, x) /\ x.step = "done" /\ x.event = e
    BY <1>1, <1>8, <1>e, GoesFacts DEF Poison
  <2>2. /\ UNCHANGED <<stream, batch, settled, applied>>
        /\ h \in Operators => e \in overlooked'
        /\ marker'[e] = "poison" /\ \A d \in Events : d # e => marker'[d] = marker[d]
    BY <1>2, <1>3, <1>8, <1>e DEF Poison, channels, Replaying
  <2>3. Dealt(e)
    BY <1>8, <1>e DEF Poison, Lasting, HandsKept, HandKept
  <2>4. Dealt(e)' /\ (h \in Operators => Concluded(e)')
    BY <1>2, <2>2, <2>3 DEF NothingUndone, Concluded
  <2> QED
    BY <2>1, <2>2, <2>4, KeptByHand
<1>9. CASE Ack(h) \/ Nak(h)
  <2>1. Moves(h, Idle) /\ Idle.step \notin {"done", "poison"} /\ Idle \in HandState
    BY <1>9, IdleFacts DEF Ack, Nak, Moves
  <2>2. /\ UNCHANGED <<stream, batch, marker, applied>>
        /\ settled' \subseteq settled \cup {hand[h].message}
    BY <1>9 DEF Ack, Nak, observed, channels
  <2>3. stream[hand[h].message] = e
    BY <1>1, <1>9, <1>e DEF Ack, Nak, Base, Consuming, HandsSound, MessagesOf
  <2>4. settled' = settled \/ Dealt(e)'
    <3>1. CASE Ack(h)
      <4>1. Dealt(e)
        BY <1>e, <3>1 DEF Ack, Lasting, HandsKept, HandKept
      <4> QED
        BY <1>2, <4>1 DEF NothingUndone
    <3>2. CASE Nak(h)
      BY <1>e, <3>2 DEF Nak, Buried, Dealt
    <3> QED
      BY <1>9, <3>1, <3>2
  <2> QED
    BY <2>1, <2>2, <2>3, <2>4, KeptByHand
<1> QED
  BY <1>4, <1>5, <1>6, <1>7, <1>8, <1>9 DEF Handling

\* A step that leaves the hands where they are, of an operator, a window or the broker.
LEMMA RestIsKept ==
  ASSUME Base, Lasting, NothingUndone, UNCHANGED <<outbox, stream, applied, settled, hand>>, Consuming',
         \A e \in Events : marker'[e] = marker[e] \/ marker'[e] = "none",
         \A o \in Operators : \A e \in batch'[o].replayed : e \in batch[o].replayed
  PROVE  Lasting'
<1>1. UNCHANGED input /\ \A e \in Events : Passing(e)' => Passing(e)
  BY DEF outbox, Passing
<1>2. settled' \subseteq Messages'
  BY DEF Consuming, ConsumerTyped, RecordsTyped
<1> QED
  BY <1>1, <1>2, KeptBy

LEMMA OperatorIsKept ==
  ASSUME Base, Lasting, NothingUndone, UNCHANGED <<outbox, stream>>, Consuming', NEW o \in Operators,
         \/ Select(o) \/ Replayed(o) \/ ReplayFailed(o) \/ Forget(o)
         \/ \E e \in Events : Replay(o, e)
  PROVE  Lasting'
<1>1. o \in Hands
  BY ConsumerAssumption
<1>2. batch \in [Operators -> BatchState]
  BY BatchesKnown
<1>3. CASE Select(o) \/ Forget(o)
  <2>1. UNCHANGED <<applied, settled, hand, marker>>
    BY <1>3 DEF Select, Forget, observed
  <2>2. \A p \in Operators : batch'[p].replayed \subseteq batch[p].replayed
    BY <1>2, <1>3, IdleFacts DEF Select, Forget
  <2> QED
    BY <2>1, <2>2, RestIsKept
<1>4. CASE Replayed(o)
  <2>e. PICK e : e = Event(o)
    OBVIOUS
  <2>1. Moves(o, Idle) /\ Idle \in HandState /\ Idle.step \notin {"done", "poison"}
    BY <1>4, IdleFacts DEF Replayed, Moves
  <2>2. UNCHANGED <<stream, applied, settled, marker>>
    BY <1>4 DEF Replayed, observed, channels
  <2>3. Concluded(e) /\ e \in Events
    BY <1>1, <1>4, <2>e, HandFacts DEF Replayed, Lasting, HandsKept, HandKept, In
  <2>4. Concluded(e)'
    BY <2>3 DEF NothingUndone
  <2>5. \A p \in Operators : \A d \in batch'[p].replayed : d \in batch[p].replayed \/ d = e
    BY <1>2, <1>4, <2>e DEF Replayed, BatchState
  <2>6. \A p \in Operators : \A d \in batch'[p].replayed :
          d \in batch[p].replayed \/ Concluded(d)'
    BY <2>4, <2>5 DEF Concluded
  <2> QED
    BY <1>1, <2>1, <2>2, <2>6, KeptByHand
<1>5. CASE ReplayFailed(o)
  <2>1. Moves(o, Idle) /\ Idle \in HandState /\ Idle.step \notin {"done", "poison"}
    BY <1>5, IdleFacts DEF ReplayFailed, Moves
  <2>2. UNCHANGED <<stream, applied, settled, marker, batch>>
    BY <1>5 DEF ReplayFailed, observed, channels
  <2> QED
    BY <1>1, <2>1, <2>2, KeptByHand
<1>6. ASSUME NEW e \in Events, Replay(o, e) PROVE Lasting'
  <2>1. /\ UNCHANGED <<applied, settled>>
        /\ \A p \in Operators : batch'[p].replayed = batch[p].replayed
    BY <1>2, <1>6 DEF Replay, observed, BatchState
  <2>2. CASE Begin(o, e, 0, 0)
    <3>1. 0 \in Nat /\ 0 \in 0..MaxDeliver
      BY ConsumerAssumption
    <3> QED
      BY <1>1, <2>1, <2>2, <3>1, BeginIsKept
  <2>3. CASE UNCHANGED <<hand, marker>>
    BY <2>1, <2>3, RestIsKept
  <2> QED
    BY <1>6, <2>2, <2>3 DEF Replay
<1> QED
  BY <1>3, <1>4, <1>5, <1>6

LEMMA FaultIsKept ==
  ASSUME Base, Lasting, NothingUndone, UNCHANGED <<outbox, stream>>, Consuming',
         \/ \E h \in Hands : Crash(h)
         \/ \E m \in Messages : Drop(m)
         \/ \E e \in Events : Lapse(e)
  PROVE  Lasting'
<1>1. ASSUME NEW h \in Hands, Crash(h) PROVE Lasting'
  <2>1. Moves(h, Idle) /\ Idle \in HandState /\ Idle.step \notin {"done", "poison"}
    BY <1>1, IdleFacts DEF Crash, Moves
  <2>2. UNCHANGED <<applied, settled, marker>>
    BY <1>1 DEF Crash, observed
  <2>3. \A o \in Operators : \A e \in batch'[o].replayed : e \in batch[o].replayed
    BY <1>1, IdleFacts DEF Crash
  <2> QED
    BY <2>1, <2>2, <2>3, KeptByHand
<1>2. ASSUME NEW m \in Messages, Drop(m) PROVE Lasting'
  BY <1>2, RestIsKept DEF Drop, observed
<1>3. ASSUME NEW e \in Events, Lapse(e) PROVE Lasting'
  <2>1. UNCHANGED <<applied, settled, hand, batch>>
    BY <1>3 DEF Lapse, observed
  <2>2. \A d \in Events : marker'[d] = marker[d] \/ marker'[d] = "none"
    BY <1>3 DEF Lapse, Base, Consuming, ConsumerTyped, RecordsTyped
  <2> QED
    BY <2>1, <2>2, RestIsKept
<1> QED
  BY <1>1, <1>2, <1>3

LEMMA ConsumersKeep ==
  ASSUME Base, Lasting, Consume, UNCHANGED outbox
  PROVE  Lasting'
<1>1. NothingUndone /\ Consuming' /\ UNCHANGED stream
  BY ConsumersUndoNothing, ConsumersKeepConsuming, ConsumersPublishNothing
<1>2. ASSUME NEW h \in Hands, NEW m \in Messages, Fetch(h, m) PROVE Lasting'
  <2>1. stream[m] \in Events /\ m \in Nat /\ deliveries[m] \in 0..MaxDeliver
    BY MessageFacts
  <2>2. deliveries[m] + 1 \in 0..MaxDeliver
    BY <1>2, <2>1, ConsumerAssumption DEF Fetch, Deliverable
  <2>3. /\ Begin(h, stream[m], m, deliveries[m] + 1)
        /\ UNCHANGED <<applied, settled, batch>>
    BY <1>2 DEF Fetch, observed
  <2> QED
    BY <1>1, <2>1, <2>2, <2>3, BeginIsKept
<1> QED
  BY <1>1, <1>2, HandlingIsKept, OperatorIsKept, FaultIsKept DEF Consume

\* What a relay passes on is on the stream, or too large for it and buried.
LEMMA PassingGrows ==
  ASSUME Base, OutboxNext, UNCHANGED <<consumer, observed>>, NEW e \in Events, Passing(e)'
  PROVE  Passing(e) \/ Reached(e)'
<1>1. relay \in [Relays -> RelayState]
  BY DEF Base, Posting, OutboxTyped
<1>2. ASSUME NEW d \in Events, Publish(d) PROVE Passing(e)
  <2>1. UNCHANGED relay /\ (e # d => row'[e] = row[e]) /\ row'[d] = "waiting"
    BY <1>2, PublishFacts DEF Base, Publish
  <2> QED
    BY <2>1 DEF Passing
<1>3. ASSUME NEW r \in Relays, NEW x, UNCHANGED row, relay' = [relay EXCEPT ![r] = x], x.sent = {}
      PROVE  Passing(e)
  BY <1>1, <1>3 DEF Passing
<1>4. ASSUME NEW r \in Relays, Send(r) \/ Divert(r) PROVE Passing(e) \/ Reached(e)'
  <2> DEFINE x == [relay[r] EXCEPT !.todo = Tail(@), !.sent = @ \cup {Foremost(r)}]
  <2>1. Open(r) /\ relay' = Passed(r) /\ UNCHANGED <<row, input>>
    BY <1>4 DEF Send, Divert
  <2>2. /\ relay' = [relay EXCEPT ![r] = x] /\ x.sent = relay[r].sent \cup {Foremost(r)}
        /\ Foremost(r) \in Events /\ row[Foremost(r)] = "waiting"
    BY Zenon, <2>1, PassedFacts DEF Base
  <2> HIDE DEF x
  <2>3. Passing(e) \/ e = Foremost(r)
    BY <1>1, <2>1, <2>2 DEF Passing
  <2>f. PICK f \in Events : f = Foremost(r)
    BY <2>2
  <2>4. Reached(f)'
    <3>1. CASE Send(r)
      <4>1. stream' \in Accepting(f)
        BY <2>f, <3>1 DEF Send
      <4> QED
        BY <2>2, <2>f, <4>1, AcceptingMoves DEF Base, Reached, OnStream
    <3>2. CASE Divert(r)
      BY <2>1, <2>f, <3>2 DEF Divert, Buried, Reached, Dealt
    <3> QED
      BY <1>4, <3>1, <3>2
  <2> QED
    BY <2>3, <2>4, <2>f DEF Reached, OnStream, MessagesOf, Dealt, Concluded
<1>5. ASSUME NEW r \in Relays, Claim(r) PROVE Passing(e)
  <2>1. PICK x \in RelayState : relay' = [relay EXCEPT ![r] = x] /\ x.sent = {}
    BY <1>5, ClaimFacts DEF Base
  <2> QED
    BY <1>3, <1>5, <2>1 DEF Claim
<1>6. ASSUME NEW r \in Relays, Unacknowledged(r) \/ Die(r) PROVE Passing(e)
  BY <1>3, <1>6, FreeFacts DEF Unacknowledged, Die
<1>7. ASSUME NEW r \in Relays, Mark(r) PROVE Passing(e)
  <2>1. /\ row'[e] = IF e \in relay[r].sent THEN "published" ELSE row[e]
        /\ relay'[r].sent = {} /\ \A s \in Relays : s # r => relay'[s] = relay[s]
    BY <1>7, MarkFacts, FreeFacts DEF Base
  <2> QED
    BY <2>1 DEF Passing
<1> QED
  BY <1>2, <1>4, <1>5, <1>6, <1>7 DEF OutboxNext, Deliver

LEMMA RelaysKeep ==
  ASSUME Base, Lasting, OutboxNext, UNCHANGED <<consumer, observed>>
  PROVE  Lasting'
<1>1. NothingUndone /\ UNCHANGED input
  BY RelaysUndoNothing
<1>2. \A m \in Messages : m \in Messages' /\ stream'[m] = stream[m]
  BY RelaysCarry, StreamOnlyGrows DEF Base
<1>3. UNCHANGED <<settled, hand, marker, applied, batch>>
  BY DEF consumer, observed
<1>4. settled \subseteq Messages
  BY DEF Base, Consuming, ConsumerTyped, RecordsTyped
<1>5. \A e \in Events : Passing(e)' => Passing(e) \/ Reached(e)'
  BY PassingGrows
<1> QED
  BY <1>1, <1>2, <1>3, <1>4, <1>5, KeptBy

LEMMA KeptInit == Init => Lasting
<1> SUFFICES ASSUME Init PROVE Lasting
  OBVIOUS
<1>1. MarkersKept /\ BatchesKept /\ SettledKept
  BY DEF Init, ConsumerInit, MarkersKept, BatchesKept, SettledKept, NoBatch
<1>2. HandsKept
  BY DEF Init, ConsumerInit, HandsKept, HandKept, In, Idle
<1>3. RowsKept
  BY DEF Init, OutboxInit, RowsKept, Passing, Free
<1> QED
  BY <1>1, <1>2, <1>3 DEF Lasting

LEMMA KeptStep == Base /\ Lasting /\ [Next]_vars => Lasting'
<1> SUFFICES ASSUME Base, Lasting, [Next]_vars PROVE Lasting'
  OBVIOUS
<1>1. CASE UNCHANGED vars
  BY <1>1 DEF vars, outbox, consumer, observed, channels, Lasting, MarkersKept, HandsKept, HandKept,
      BatchesKept, SettledKept, RowsKept, Concluded, Dealt, Reached, OnStream, MessagesOf, Messages,
      Passing, In, Event
<1> QED
  BY <1>1, RelaysKeep, ConsumersKeep DEF Next

\* An event that was written is in a row still waiting, on the stream unsettled, applied, with the
\* dead letters, or was overlooked by a replay: no crash, redelivery, lapse of a record or replay
\* makes the only trace of it disappear.
THEOREM EventsAreSomewhere == Spec => []NothingIsLost
<1>1. Base /\ Lasting => NothingIsLost
  <2> SUFFICES ASSUME Base, Lasting, NEW e \in Written, row[e] # "waiting",
                      MessagesOf(e) \ settled = {}
               PROVE  Dealt(e)
    BY DEF NothingIsLost, Dealt, Concluded
  <2>1. e \in Events /\ row[e] = "published"
    BY DEF Base, Posting, OutboxTyped, RowsSound, Written
  <2>2. Reached(e)
    BY <2>1 DEF Lasting, RowsKept, Passing
  <2>3. ASSUME NEW m \in MessagesOf(e) PROVE Dealt(e)
    BY DEF MessagesOf, Lasting, SettledKept
  <2> QED
    BY <2>2, <2>3 DEF Reached, OnStream
<1>2. Lasting /\ Base /\ [Next]_vars => Lasting'
  BY KeptStep
<1> QED
  BY <1>1, <1>2, KeptInit, AlwaysBase, PTL DEF Spec

\* A dead letter leaves only when its event was applied, or when the handler of a replay raised
\* for the last time.
THEOREM LettersAreAnswered == Spec => OnlyTheAnsweredLeave
<1>1. Base /\ Lasting /\ [Next]_vars => [\A e \in letters : e \notin letters'
                                            => applied[e] > 0 \/ e \in overlooked]_vars
  <2> SUFFICES ASSUME Base, Lasting, Next, NEW e \in letters, e \notin letters'
               PROVE  Concluded(e)
    BY DEF Concluded
  <2>1. CASE OutboxNext
    BY <2>1, RelaysCarry DEF Base
  <2>2. CASE Consume
    BY <2>2, ConsumersForget
  <2> QED
    BY <2>1, <2>2 DEF Next
<1> QED
  BY <1>1, KeptInit, KeptStep, AlwaysBase, PTL DEF Spec, OnlyTheAnsweredLeave

-----------------------------------------------------------------------------
(* The order within a run.  Whatever was committed before a row that a relay  *)
(* holds, of the same run, is published or held by the same relay: a claim    *)
(* takes every row of its runs, and no other relay has any of them.           *)

InTurn ==
  \A r \in Relays : \A e \in Held(r) : \A d \in Events :
    Ahead(d, e) => row[d] = "published" \/ d \in Held(r)

LEMMA AheadIsWritten ==
  ASSUME Base, NEW d, NEW e, Ahead(d, e)
  PROVE  d \in Written /\ input.runOf[d] = input.runOf[e]
BY DEF Ahead, Written

LEMMA PublishInTurn ==
  ASSUME Base, InTurn, NEW f \in Events, Publish(f)
  PROVE  InTurn'
<1>1. UNCHANGED <<input, relay>>
  BY DEF Publish
<1>2. /\ \A n \in DOMAIN written : n \in DOMAIN written' /\ written'[n] = written[n]
      /\ DOMAIN written' = DOMAIN written \cup {Len(written) + 1}
      /\ written'[Len(written) + 1] = f /\ f \notin Written
      /\ \A n \in DOMAIN written : n < Len(written) + 1
      /\ \A d \in Events : d # f => row'[d] = row[d]
  BY PublishFacts DEF Base
<1>3. DOMAIN written \subseteq Nat /\ Len(written) \in Nat
  BY DEF Base, Posting, OutboxTyped
<1>4. ASSUME NEW d, NEW e, Ahead(d, e)', e # f PROVE Ahead(d, e)
  <2>1. PICK m \in DOMAIN written', n \in DOMAIN written' :
          written'[m] = d /\ written'[n] = e /\ m < n
    BY <1>4 DEF Ahead
  <2>2. n \in DOMAIN written
    BY <1>2, <1>4, <2>1
  <2>3. m \in DOMAIN written
    BY <1>2, <1>3, <2>1, <2>2
  <2> QED
    BY <1>1, <1>2, <1>4, <2>1, <2>2, <2>3 DEF Ahead
<1>5. row[f] = "none"
  BY <1>2 DEF Base, Posting, RowsSound
<1> SUFFICES ASSUME NEW r \in Relays, NEW e \in Held(r), NEW d \in Events, Ahead(d, e)'
             PROVE  row'[d] = "published" \/ d \in Held(r)
  BY <1>1 DEF InTurn, Held
<1>6. row[e] = "waiting" /\ e # f
  BY <1>5 DEF Base, Posting, RelaysSound
<1>7. row[d] = "published" \/ d \in Held(r)
  BY <1>4, <1>6 DEF InTurn
<1> QED
  BY <1>2, <1>5, <1>7

\* A relay comes to hold x, and no other relay and no row changes.
LEMMA RelayInTurn ==
  ASSUME Base, InTurn, NEW r \in Relays, NEW x \in RelayState,
         relay' = [relay EXCEPT ![r] = x], UNCHANGED <<input, row, written>>,
         \A e \in Elements(x.todo) \cup x.sent : \A d \in Events :
           Ahead(d, e) => row[d] = "published" \/ d \in Elements(x.todo) \cup x.sent
  PROVE  InTurn'
<1>1. /\ relay'[r] = x
      /\ \A s \in Relays : s # r => relay'[s] = relay[s]
  BY DEF Base, Posting, OutboxTyped
<1> SUFFICES ASSUME NEW s \in Relays, NEW e \in Held(s)', NEW d \in Events, Ahead(d, e)'
             PROVE  row'[d] = "published" \/ d \in Held(s)'
  BY DEF InTurn
<1>2. Ahead(d, e)
  BY DEF Ahead
<1>3. CASE s = r
  BY <1>1, <1>2, <1>3 DEF Held
<1>4. CASE s # r
  BY <1>1, <1>2, <1>4 DEF Held, InTurn
<1> QED
  BY <1>3, <1>4

LEMMA ClaimInTurn ==
  ASSUME Base, InTurn, NEW r \in Relays, Claim(r)
  PROVE  InTurn'
<1>1. PICK x \in RelayState :
        /\ relay' = [relay EXCEPT ![r] = x] /\ x.sent = {}
        /\ Elements(x.todo) = {e \in Waiting : input.runOf[e] \in x.runs}
  BY ClaimFacts DEF Base
<1>2. UNCHANGED <<input, row, written>>
  BY DEF Claim
<1>3. ASSUME NEW e \in Elements(x.todo) \cup x.sent, NEW d \in Events, Ahead(d, e)
      PROVE  row[d] = "published" \/ d \in Elements(x.todo) \cup x.sent
  <2>1. d \in Written /\ input.runOf[d] = input.runOf[e]
    BY <1>3, AheadIsWritten
  <2>2. row[d] \in {"waiting", "published"}
    BY <2>1 DEF Base, Posting, OutboxTyped, RowsSound
  <2> QED
    BY <1>1, <1>3, <2>1, <2>2 DEF Waiting
<1> QED
  BY <1>1, <1>2, <1>3, RelayInTurn

LEMMA PassingInTurn ==
  ASSUME Base, InTurn, NEW r \in Relays, Send(r) \/ Divert(r)
  PROVE  InTurn'
<1> DEFINE x == [relay[r] EXCEPT !.todo = Tail(@), !.sent = @ \cup {Foremost(r)}]
<1>1. Open(r) /\ relay' = Passed(r) /\ UNCHANGED <<row, input, written>>
  BY DEF Send, Divert
<1>2. /\ x \in RelayState /\ relay' = [relay EXCEPT ![r] = x]
      /\ Elements(x.todo) \cup x.sent = Held(r)
  BY Zenon, <1>1, PassedFacts DEF Base
<1> HIDE DEF x
<1>3. \A e \in Held(r) : \A d \in Events : Ahead(d, e) => row[d] = "published" \/ d \in Held(r)
  BY DEF InTurn
<1> QED
  BY <1>1, <1>2, <1>3, RelayInTurn

LEMMA FreeingInTurn ==
  ASSUME Base, InTurn, NEW r \in Relays, Unacknowledged(r) \/ Die(r)
  PROVE  InTurn'
<1>1. relay' = [relay EXCEPT ![r] = Free] /\ UNCHANGED <<input, row, written>>
  BY DEF Unacknowledged, Die
<1> QED
  BY <1>1, FreeFacts, RelayInTurn

LEMMA MarkInTurn ==
  ASSUME Base, InTurn, NEW r \in Relays, Mark(r)
  PROVE  InTurn'
<1>1. /\ UNCHANGED <<input, written>>
      /\ \A e \in Events : row'[e] = IF e \in relay[r].sent THEN "published" ELSE row[e]
      /\ relay'[r] = Free /\ \A s \in Relays : s # r => relay'[s] = relay[s]
  BY MarkFacts DEF Base
<1> SUFFICES ASSUME NEW s \in Relays, NEW e \in Held(s)', NEW d \in Events, Ahead(d, e)'
             PROVE  row'[d] = "published" \/ d \in Held(s)'
  BY DEF InTurn
<1>2. Ahead(d, e)
  BY <1>1 DEF Ahead
<1>3. s # r
  BY <1>1, FreeFacts DEF Held
<1>4. Held(s)' = Held(s)
  BY <1>1, <1>3 DEF Held
<1>5. row[d] = "published" \/ d \in Held(s)
  BY <1>2, <1>4 DEF InTurn
<1> QED
  BY <1>1, <1>4, <1>5

LEMMA InTurnStep == Base /\ InTurn /\ [Next]_vars => InTurn'
<1> SUFFICES ASSUME Base, InTurn, [Next]_vars PROVE InTurn'
  OBVIOUS
<1>1. CASE OutboxNext
  BY <1>1, PublishInTurn, ClaimInTurn, PassingInTurn, FreeingInTurn, MarkInTurn
     DEF OutboxNext, Deliver
<1>2. CASE UNCHANGED outbox
  BY <1>2 DEF outbox, InTurn, Held, Ahead
<1> QED
  BY <1>1, <1>2 DEF Next, vars

\* The relay that first brings an event to the stream holds what is ahead of it, unless that is
\* on the stream already.
LEMMA FirstInTurn ==
  ASSUME Base, Lasting, InTurn, OutboxNext, NEW d \in Events, NEW e \in Events,
         MessagesOf(e) = {}, MessagesOf(e)' # {}, Ahead(d, e)
  PROVE  \/ d \in input.oversized \/ MessagesOf(d) # {}
         \/ \E r \in Relays : {d, e} \subseteq Claimed(r)
<1>1. PICK r \in Relays : Open(r) /\ stream' \in Accepting(Foremost(r))
  <2>1. stream' # stream
    BY DEF MessagesOf, Messages
  <2> QED
    BY <2>1 DEF OutboxNext, Deliver, Publish, Claim, Send, Divert, Mark, Unacknowledged, Die,
       channels
<1>2. Foremost(r) \in Held(r)
  BY Zenon, <1>1, PassedFacts DEF Base
<1>3. Foremost(r) = e
  <2>1. CASE stream' = stream
    BY <2>1 DEF MessagesOf, Messages
  <2>2. CASE stream' = Append(stream, Foremost(r))
    BY <2>2 DEF MessagesOf, Messages, Base, ChannelTyped
  <2> QED
    BY <1>1, <2>1, <2>2 DEF Accepting
<1>4. row[d] = "published" \/ d \in Held(r)
  BY <1>2, <1>3 DEF InTurn
<1>5. CASE row[d] = "published"
  <2>1. Passing(d)
    BY <1>5 DEF Passing
  <2> QED
    BY <2>1 DEF Lasting, RowsKept, Reached, OnStream
<1>6. CASE d \in Held(r)
  BY <1>2, <1>3, <1>6 DEF Held, Elements, Claimed
<1> QED
  BY <1>4, <1>5, <1>6

\* Whichever relays claim a run, die and claim it again, and whatever order the rows of a claim
\* come back in, an event only overtakes another of its run within one claim.
THEOREM RunsAreClaimedWhole == Spec => OnlyAClaimReorders
<1>1. Init => InTurn
  BY FreeFacts DEF Init, OutboxInit, InTurn, Held
<1>2. Base /\ Lasting /\ InTurn /\ [Next]_vars =>
        [\A d, e \in Events :
           (MessagesOf(e) = {} /\ MessagesOf(e)' # {} /\ Ahead(d, e))
             => \/ d \in input.oversized \/ MessagesOf(d) # {}
                \/ \E r \in Relays : {d, e} \subseteq Claimed(r)]_vars
  <2>1. CASE Next
    <3>1. CASE OutboxNext
      BY <3>1, FirstInTurn
    <3>2. CASE UNCHANGED stream
      BY <3>2 DEF MessagesOf, Messages
    <3> QED
      BY <2>1, <3>1, <3>2, ConsumersPublishNothing DEF Next
  <2> QED
    BY <2>1
<1> QED
  BY <1>1, <1>2, InTurnStep, KeptInit, KeptStep, AlwaysBase, PTL DEF Spec, OnlyAClaimReorders
=============================================================================
