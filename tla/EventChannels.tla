--------------------------- MODULE EventChannels ---------------------------
(* What the relay and the consumers of adapters/outbox.py and               *)
(* adapters/idempotent_events.py share: the stream events travel on         *)
(* (JetStream, as adapters/jetstream.py uses it) and the dead letters.      *)
(*                                                                          *)
(* A message of the stream is its position in it.  The broker collapses a   *)
(* second publish under one Nats-Msg-Id only within its dedupe window, so   *)
(* an event may have several messages.                                      *)
EXTENDS Naturals, Sequences, FiniteSets

CONSTANTS
  Events,       \* event ids
  MaxCopies,    \* bound: messages one event gets
  MaxFaults     \* bound: crashes and unacknowledged publishes in all

ASSUME ChannelAssumption ==
  IsFiniteSet(Events) /\ MaxCopies \in Nat /\ MaxFaults \in Nat

VARIABLES
  stream,    \* the events on the stream, in the order it took them
  letters,   \* the events the dead-letter store holds a record of
  faults     \* how many faults there have been

channels == <<stream, letters, faults>>

Messages == DOMAIN stream
MessagesOf(e) == {m \in Messages : stream[m] = e}

\* What the stream may be once a publish of e has been acknowledged: a copy
\* already there swallows it, unless its window has passed.
Accepting(e) ==
  (IF MessagesOf(e) = {} THEN {} ELSE {stream})
    \cup (IF Cardinality(MessagesOf(e)) < MaxCopies THEN {Append(stream, e)} ELSE {})

\* DeadLetterStore.bury: a record per event id, whoever buries it.
Buried(e) == letters \cup {e}

Fault == faults < MaxFaults /\ faults' = faults + 1

ChannelInit ==
  /\ stream = <<>>
  /\ letters = {}
  /\ faults = 0
=============================================================================
