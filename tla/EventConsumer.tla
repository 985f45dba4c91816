--------------------------- MODULE EventConsumer ---------------------------
(* One consumer group: DurableConsumer (adapters/jetstream.py) settles      *)
(* messages with the broker, IdempotentConsumer                             *)
(* (adapters/idempotent_events.py) runs the handler behind a marker in the  *)
(* idempotency store, and Replayer (adapters/dead_letters.py) puts buried   *)
(* events through the same IdempotentConsumer.                              *)
(*                                                                          *)
(* Hands are whoever is inside handle(): processes of the group, and        *)
(* operators with a replay.  A step ends at an await.  The handler and the  *)
(* marker share a transaction, as the consumer is documented to be used: a  *)
(* handler that raises leaves nothing, one that returns has marked.         *)
EXTENDS EventChannels

CONSTANTS
  Hands,
  Operators,     \* the hands that replay; the others take messages
  Subscribed,    \* the events whose subject the group's subscription selects
  None,
  MaxDeliver,    \* DurableConsumer.max_deliver, the broker's own
  MaxAttempts    \* IdempotentConsumer.max_attempts

ASSUME ConsumerAssumption ==
  /\ Operators \subseteq Hands
  /\ Subscribed \subseteq Events
  /\ None \notin Events
  /\ MaxDeliver \in Nat \ {0}
  /\ MaxAttempts \in Nat \ {0}

VARIABLES
  deliveries,  \* how often the broker has handed out each message
  settled,     \* the messages acknowledged or terminated
  hand,        \* where each hand is in handle()
  marker,      \* what the store holds under group:event
  failures,    \* how many attempts it holds under group:event:failures
  batch,       \* of each operator: what is left to replay, and what to forget
  applied,     \* observation: how often the handler's transaction committed
  raised,      \* observation: how often it raised on a delivery
  overlooked,  \* observation: buried by a replay that then forgot it
  stranded     \* observation: the messages whose last delivery died with its worker

consumer == <<deliveries, settled, hand, marker, failures, batch>>
observed == <<applied, raised, overlooked, stranded>>

Idle == [step |-> "idle", event |-> None, message |-> 0, delivery |-> 0, history |-> 0]
NoBatch == [left |-> {}, replayed |-> {}, on |-> FALSE]

ConsumerInit ==
  /\ deliveries = [n \in 1..(MaxCopies * Cardinality(Events)) |-> 0]
  /\ settled = {}
  /\ hand = [h \in Hands |-> Idle]
  /\ marker = [e \in Events |-> "none"]
  /\ failures = [e \in Events |-> 0]
  /\ batch = [o \in Operators |-> NoBatch]
  /\ applied = [e \in Events |-> 0]
  /\ raised = [e \in Events |-> 0]
  /\ overlooked = {}
  /\ stranded = {}

Workers == Hands \ Operators
Replaying(h) == h \in Operators
In(h, step) == hand[h].step = step
Goes(h, step) == [hand EXCEPT ![h].step = step]
Event(h) == hand[h].event

\* The broker hands a message out again as soon as ack_wait has passed,
\* whether or not somebody is still at it.
Deliverable(m) ==
  stream[m] \in Subscribed /\ m \notin settled /\ deliveries[m] < MaxDeliver

\* Mutant: any replay runs the handler.
SuppressedLive(h, e) == marker[e] \in {"handled", "poison"} /\ ~Replaying(h)

\* _reconsidered: the poison marker is a decision a replay overturns.
Suppressed(h, e) ==
  \/ marker[e] = "handled"
  \/ marker[e] = "poison" /\ ~Replaying(h)

\* What begin() tells a hand: the event is dealt with, somebody else has it,
\* or the handler may run.
Told(h, e) ==
  IF Suppressed(h, e) THEN "done"
  ELSE IF marker[e] = "held" THEN "refused" ELSE "handling"

\* handle() up to the handler.  A replay of a poisoned event holds no claim.
Begin(h, e, m, n) ==
  /\ In(h, "idle")
  /\ hand' = [hand EXCEPT ![h] = [step |-> Told(h, e), event |-> e, message |-> m,
                                  delivery |-> n, history |-> 0]]
  /\ marker' = [marker EXCEPT ![e] = IF @ = "none" THEN "held" ELSE @]

Fetch(h, m) ==
  /\ h \in Workers
  /\ Deliverable(m)
  /\ deliveries' = [deliveries EXCEPT ![m] = @ + 1]
  /\ Begin(h, stream[m], m, deliveries[m] + 1)
  /\ UNCHANGED <<settled, failures, batch, observed, channels>>

\* A delivery that died with its worker before begin().
Drop(m) ==
  /\ Deliverable(m)
  /\ Fault
  /\ deliveries' = [deliveries EXCEPT ![m] = @ + 1]
  /\ stranded' = IF deliveries[m] + 1 = MaxDeliver THEN stranded \cup {m} ELSE stranded
  /\ UNCHANGED <<settled, hand, marker, failures, batch, stream, letters>>
  /\ UNCHANGED <<applied, raised, overlooked>>

\* The transaction of the handler and its marker commits.
Handle(h) ==
  /\ In(h, "handling")
  /\ applied' = [applied EXCEPT ![Event(h)] = @ + 1]
  /\ marker' = [marker EXCEPT ![Event(h)] = "handled"]
  /\ hand' = Goes(h, "done")
  /\ UNCHANGED <<deliveries, settled, failures, batch, raised, overlooked, stranded, channels>>

\* The handler raises, and the transaction rolls back; _recorded_failures is
\* read, and tells whether this attempt was one too many.
Raise(h) ==
  /\ In(h, "handling")
  /\ raised' = [raised EXCEPT ![Event(h)] = IF Replaying(h) THEN @ ELSE @ + 1]
  /\ hand' = [hand EXCEPT ![h].history = failures[Event(h)] + 1,
                          ![h].step = IF failures[Event(h)] + 1 >= MaxAttempts
                                      THEN "bury" ELSE "note"]
  /\ UNCHANGED <<deliveries, settled, marker, failures, batch, applied, overlooked, stranded, channels>>

\* Mutant: the history is not written back.
NoteNothing(h) ==
  /\ In(h, "note")
  /\ hand' = Goes(h, "abandon")
  /\ UNCHANGED <<deliveries, settled, marker, failures, batch, observed, channels>>

\* _failed below the limit: the history is written, then the key let go of.
Note(h) ==
  /\ In(h, "note")
  /\ failures' = [failures EXCEPT ![Event(h)] = hand[h].history]
  /\ hand' = Goes(h, "abandon")
  /\ UNCHANGED <<deliveries, settled, marker, batch, observed, channels>>

Abandon(h) ==
  /\ In(h, "abandon")
  /\ marker' = [marker EXCEPT ![Event(h)] = "none"]
  /\ hand' = Goes(h, "refused")
  /\ UNCHANGED <<deliveries, settled, failures, batch, observed, channels>>

\* Mutant: the marker first; a worker that dies then leaves no letter.
PoisonFirst(h) ==
  /\ In(h, "bury")
  /\ marker' = [marker EXCEPT ![Event(h)] = "poison"]
  /\ hand' = Goes(h, "poison")
  /\ UNCHANGED <<deliveries, settled, failures, batch, observed, channels>>

\* _buried: the dead letter, then the poison marker; handle() returns False.
Bury(h) ==
  /\ In(h, "bury")
  /\ letters' = Buried(Event(h))
  /\ hand' = Goes(h, "poison")
  /\ UNCHANGED <<deliveries, settled, marker, failures, batch, observed, stream, faults>>

Poison(h) ==
  /\ In(h, "poison")
  /\ marker' = [marker EXCEPT ![Event(h)] = "poison"]
  /\ hand' = Goes(h, "done")
  /\ overlooked' = IF Replaying(h) THEN overlooked \cup {Event(h)} ELSE overlooked
  /\ UNCHANGED <<deliveries, settled, failures, batch, applied, raised, stranded, channels>>

\* handle() returned: the message is acknowledged.
Ack(h) ==
  /\ h \in Workers /\ In(h, "done")
  /\ settled' = settled \cup {hand[h].message}
  /\ hand' = [hand EXCEPT ![h] = Idle]
  /\ UNCHANGED <<deliveries, marker, failures, batch, observed, channels>>

\* Mutant: the last delivery is left for a redelivery like the others.
NakOnly(h) ==
  /\ h \in Workers /\ In(h, "refused")
  /\ hand' = [hand EXCEPT ![h] = Idle]
  /\ UNCHANGED <<deliveries, settled, marker, failures, batch, observed, channels>>

\* handle() raised: the message is left for redelivery, and the last
\* delivery is buried and terminated.
Nak(h) ==
  /\ h \in Workers /\ In(h, "refused")
  /\ \/ /\ hand[h].delivery < MaxDeliver
        /\ UNCHANGED <<letters, settled>>
     \/ /\ hand[h].delivery >= MaxDeliver
        /\ letters' = Buried(Event(h))
        /\ settled' = settled \cup {hand[h].message}
  /\ hand' = [hand EXCEPT ![h] = Idle]
  /\ UNCHANGED <<deliveries, marker, failures, batch, observed, stream, faults>>

\* Replayer.replay: the records of this group are read once; those of a
\* relay name no group.
Select(o) ==
  /\ ~batch[o].on
  /\ letters \cap Subscribed # {}
  /\ batch' = [batch EXCEPT ![o] = [left |-> letters \cap Subscribed, replayed |-> {},
                                    on |-> TRUE]]
  /\ UNCHANGED <<deliveries, settled, hand, marker, failures, observed, channels>>

\* _delivered: one record into handle(); or _refusal keeps it where it is.
Replay(o, e) ==
  /\ e \in batch[o].left
  /\ batch' = [batch EXCEPT ![o].left = @ \ {e}]
  /\ \/ Begin(o, e, 0, 0)
     \/ In(o, "idle") /\ UNCHANGED <<hand, marker>>
  /\ UNCHANGED <<deliveries, settled, failures, observed, channels>>

\* handle() returned, True or False: the record is one to forget.
Replayed(o) ==
  /\ o \in Operators /\ In(o, "done")
  /\ batch' = [batch EXCEPT ![o].replayed = @ \cup {Event(o)}]
  /\ hand' = [hand EXCEPT ![o] = Idle]
  /\ UNCHANGED <<deliveries, settled, marker, failures, observed, channels>>

\* Mutant: a record is one to forget whatever handle() did.
ForgetAnyway(o) ==
  /\ o \in Operators /\ In(o, "refused")
  /\ batch' = [batch EXCEPT ![o].replayed = @ \cup {Event(o)}]
  /\ hand' = [hand EXCEPT ![o] = Idle]
  /\ UNCHANGED <<deliveries, settled, marker, failures, observed, channels>>

\* handle() raised: the record stays.
ReplayFailed(o) ==
  /\ o \in Operators /\ In(o, "refused")
  /\ hand' = [hand EXCEPT ![o] = Idle]
  /\ UNCHANGED <<deliveries, settled, marker, failures, batch, observed, channels>>

Forget(o) ==
  /\ In(o, "idle") /\ batch[o].on /\ batch[o].left = {}
  /\ letters' = letters \ batch[o].replayed
  /\ batch' = [batch EXCEPT ![o] = NoBatch]
  /\ UNCHANGED <<deliveries, settled, hand, marker, failures, observed, stream, faults>>

\* The process dies; what it held stays held until its time is up.
Crash(h) ==
  /\ ~In(h, "idle") \/ (h \in Operators /\ batch[h].on)
  /\ Fault
  /\ hand' = [hand EXCEPT ![h] = Idle]
  /\ batch' = [o \in Operators |-> IF o = h THEN NoBatch ELSE batch[o]]
  /\ stranded' = IF hand[h].delivery = MaxDeliver THEN stranded \cup {hand[h].message}
                 ELSE stranded
  /\ UNCHANGED <<deliveries, settled, marker, failures, stream, letters>>
  /\ UNCHANGED <<applied, raised, overlooked>>

\* The constructor wants records to outlast the redelivery horizon, and they
\* outlast a running handler.  The consumer promises nothing beyond the
\* retention window of what it handled, and the model ends there.
MayLapse(e) ==
  /\ marker[e] # "handled"
  /\ \A m \in MessagesOf(e) : ~Deliverable(m)
  /\ \A h \in Hands : Event(h) # e

\* The history is written first and lapses first.
Lapse(e) ==
  /\ MayLapse(e)
  /\ \/ /\ failures[e] > 0
        /\ failures' = [failures EXCEPT ![e] = 0]
        /\ UNCHANGED marker
     \/ /\ failures[e] = 0 /\ marker[e] # "none"
        /\ marker' = [marker EXCEPT ![e] = "none"]
        /\ UNCHANGED failures
  /\ UNCHANGED <<deliveries, settled, hand, batch, observed, channels>>

\* What a hand does once it has a message or a record, without dying.
Handling(h) ==
  \/ Handle(h) \/ Raise(h) \/ Note(h) \/ Abandon(h)
  \/ Bury(h) \/ Poison(h) \/ Ack(h) \/ Nak(h)

=============================================================================
