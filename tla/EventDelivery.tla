--------------------------- MODULE EventDelivery ---------------------------
(* An event from the transaction that caused it to the effect of a          *)
(* consumer group: the outbox and its relays (Outbox), the stream and the   *)
(* dead letters (EventChannels), and the group with its operators           *)
(* (EventConsumer).                                                         *)
EXTENDS Outbox, EventConsumer

vars == <<outbox, consumer, observed, channels>>

Init == ChannelInit /\ OutboxInit /\ ConsumerInit

\* A record outlasts what the relays may still publish, too.
Remembered(e) == row[e] # "waiting"

Consume ==
  \/ \E h \in Hands : Handling(h) \/ Crash(h) \/ \E m \in Messages : Fetch(h, m)
  \/ \E m \in Messages : Drop(m)
  \/ \E o \in Operators :
       Select(o) \/ Replayed(o) \/ ReplayFailed(o) \/ Forget(o) \/ \E e \in Events : Replay(o, e)
  \/ \E e \in Events : Remembered(e) /\ Lapse(e)

Next == \/ OutboxNext /\ UNCHANGED <<consumer, observed>>
        \/ Consume /\ UNCHANGED outbox

\* Relays poll and finish what they claimed; messages are fetched, and what
\* was fetched is dealt with.  Nothing is owed by callers, operators, faults
\* or the passing of a retention window.  What relays and workers have to do
\* is finite, so that it is enough if one of them goes on.
Relaying == (\E r \in Relays : Deliver(r)) /\ UNCHANGED <<consumer, observed>>
Working ==
  /\ \E h \in Workers : Handling(h) \/ \E m \in Messages : Fetch(h, m)
  /\ UNCHANGED outbox

Spec == Init /\ [][Next]_vars /\ WF_vars(Relaying) /\ WF_vars(Working)

TypeOK ==
  /\ stream \in Seq(Events)
  /\ letters \subseteq Events
  /\ faults \in 0..MaxFaults
  /\ input \in Inputs
  /\ row \in [Events -> {"none", "waiting", "published"}]
  /\ written \in Seq(Events)
  /\ relay \in [Relays -> [runs: SUBSET Runs, todo: Seq(Events), sent: SUBSET Events]]
  /\ deliveries \in [1..(MaxCopies * Cardinality(Events)) -> 0..MaxDeliver]
  /\ settled \subseteq Messages
  /\ hand \in [Hands -> [step: {"idle", "handling", "note", "abandon", "bury", "poison",
                                "done", "refused"},
                         event: Events \cup {None},
                         message: Nat, delivery: 0..MaxDeliver, history: Nat]]
  /\ marker \in [Events -> {"none", "held", "handled", "poison"}]
  /\ failures \in [Events -> 0..MaxAttempts]
  /\ batch \in [Operators -> [left: SUBSET Events, replayed: SUBSET Events, on: BOOLEAN]]
  /\ applied \in [Events -> Nat]
  /\ raised \in [Events -> Nat]
  /\ overlooked \subseteq Events
  /\ stranded \subseteq Nat

---------------------------------------------------------------------------

Written == {written[n] : n \in DOMAIN written}
First(e) == CHOOSE m \in MessagesOf(e) : \A n \in MessagesOf(e) : m <= n

\* However often an event is published, redelivered and replayed, and
\* wherever relays and workers die, its effect takes place once: the marker
\* is in the handler's transaction and outlasts every redelivery.  It takes
\* one operator at a time: a replay of a poisoned event holds no claim.
AppliedOnce == \A e \in Events : applied[e] <= 1

\* d was committed before e, of the same run.
Ahead(d, e) ==
  /\ input.runOf[d] = input.runOf[e]
  /\ \E m, n \in DOMAIN written : written[m] = d /\ written[n] = e /\ m < n

\* docs/outbox.md: "its events cannot overtake each other."  Of two events of one run, the one
\* that was inserted first and committed first is first on the stream.
RunOrder ==
  \A d, e \in Events :
    (Ahead(d, e) /\ Id(d) < Id(e) /\ MessagesOf(e) # {})
      => (d \in input.oversized \/ (MessagesOf(d) # {} /\ First(d) < First(e)))

\* An event comes to the stream before one of its run that was committed earlier only from
\* within one claim: no second relay takes what follows a row that a first one has not
\* published, and no crash between publishing and marking lets one past (OutboxRelay).
OnlyAClaimReorders ==
  [][\A d, e \in Events :
       (MessagesOf(e) = {} /\ MessagesOf(e)' # {} /\ Ahead(d, e))
         => \/ d \in input.oversized \/ MessagesOf(d) # {}
            \/ \E r \in Relays : {d, e} \subseteq Claimed(r)]_vars

\* An event that was written is somewhere: in a row nobody has marked, on the
\* stream unsettled, applied, or in the dead letters.  The one way out is a
\* replay that fails for good: it buries the event and then forgets it.
NothingIsLost ==
  \A e \in Written :
    \/ row[e] = "waiting"
    \/ MessagesOf(e) \ settled # {}
    \/ applied[e] > 0
    \/ e \in letters
    \/ e \in overlooked

\* IdempotentConsumer "stops retrying what never works": however deliveries,
\* duplicates and crashes interleave, the handler raises no more often on an
\* event than max_attempts allows.
AttemptsAreBounded == \A e \in Events : raised[e] <= MaxAttempts

\* Every event written reaches the stream and stays dealt with: what the group subscribes to
\* is in the end applied or with the dead letters; unless its last delivery died with its
\* worker: the broker hands it to nobody again, so nobody buries it.
Stranded(e) == MessagesOf(e) \cap stranded # {}

Arrived(e) ==
  \/ applied[e] > 0 \/ e \in letters \/ e \in overlooked
  \/ Stranded(e)
  \/ e \notin Subscribed /\ MessagesOf(e) # {}

EventsArrive == <>[](\A e \in Written : Arrived(e))

\* docs/dead-letters.md: "Only a delivery the handler accepted is forgotten."  But for the
\* handler that raises on a replay for the last time, whose event is buried again and marked
\* poison, that is so.
OnlyTheAnsweredLeave ==
  [][\A e \in letters : e \notin letters' => applied[e] > 0 \/ e \in overlooked]_vars
=============================================================================
