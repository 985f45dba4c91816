------------------------------- MODULE Outbox -------------------------------
(* adapters/outbox.py: events are inserted in the transaction that caused   *)
(* them, and relays move the committed rows onto the stream.  Each await of *)
(* a relay is a step; what it does inside its transaction shows only at the *)
(* commit, except that publishing and burying are not part of it.           *)
(*                                                                          *)
(* The publisher is JetStreamEventPublisher under guaranteed delivery: a    *)
(* publish nobody acknowledged raises, and may have arrived all the same.   *)
(* prune is left out: it removes published rows, which nothing here reads.  *)
EXTENDS EventChannels

CONSTANTS
  Runs,
  Inputs,      \* what events there are: the run and the id of each, and the oversized
  Relays,
  Batch        \* how many runs one deliver takes

ASSUME OutboxAssumption ==
  /\ Inputs \subseteq [runOf: [Events -> Runs], oversized: SUBSET Events, id: [Events -> Nat]]
  /\ \A i \in Inputs : \A d, e \in Events : i.id[d] = i.id[e] => d = e
  /\ Batch \in Nat \ {0}

VARIABLES
  input,     \* one of Inputs
  row,       \* where the row of an event is: "none", "waiting" or "published"
  written,   \* the events in the order their rows were committed
  relay      \* the transaction of each relay

outbox == <<input, row, written, relay>>

\* A relay between two deliveries.
Free == [runs |-> {}, todo |-> <<>>, sent |-> {}]

OutboxInit ==
  /\ input \in Inputs
  /\ row = [e \in Events |-> "none"]
  /\ written = <<>>
  /\ relay = [r \in Relays |-> Free]

Waiting == {e \in Events : row[e] = "waiting"}

\* The number the row of an event drew when it was inserted: a transaction that commits later
\* may have drawn a smaller one.
Id(e) == input.id[e]
Oldest(run) ==
  CHOOSE n \in {Id(e) : e \in {f \in Waiting : input.runOf[f] = run}} :
    \A e \in Waiting : input.runOf[e] = run => n <= Id(e)

\* ENQUEUE, committed with the state change that caused it.
Publish(e) ==
  /\ e \notin {written[n] : n \in DOMAIN written}
  /\ row' = [row EXCEPT ![e] = "waiting"]
  /\ written' = Append(written, e)
  /\ UNCHANGED <<input, relay, channels>>

\* The runs of the candidates CTE: those with the oldest unpublished rows.
Candidates ==
  LET pending == {input.runOf[e] : e \in Waiting}
  IN  {run \in pending :
         Cardinality({other \in pending : Oldest(other) < Oldest(run)}) < Batch}

\* pg_try_advisory_xact_lock on the run.
Locked(run) == \E r \in Relays : run \in relay[r].runs

\* UPDATE ... RETURNING hands the rows back in any order, and nobody sorts them.
Returned(rows) ==
  {s \in [1..Cardinality(rows) -> rows] : {s[n] : n \in DOMAIN s} = rows}

\* What a relay has claimed and not marked.
Claimed(r) == {relay[r].todo[n] : n \in DOMAIN relay[r].todo} \cup relay[r].sent

\* Mutant: a relay passes over the rows another has claimed (SKIP LOCKED)
\* rather than over their run.
ClaimRows(r) ==
  LET taken == UNION {Claimed(o) : o \in Relays}
      rows == {e \in Waiting \ taken : input.runOf[e] \in Candidates} IN
  /\ relay[r] = Free
  /\ rows # {}
  /\ \E todo \in Returned(rows) :
       relay' = [relay EXCEPT ![r] = [runs |-> Candidates, todo |-> todo, sent |-> {}]]
  /\ UNCHANGED <<input, row, written, channels>>

\* CLAIM: every unpublished row of each run the relay got the lock of.
Claim(r) ==
  LET held == {run \in Candidates : ~Locked(run)} IN
  /\ relay[r] = Free
  /\ held # {}
  /\ \E todo \in Returned({e \in Waiting : input.runOf[e] \in held}) :
       relay' = [relay EXCEPT ![r] = [runs |-> held, todo |-> todo, sent |-> {}]]
  /\ UNCHANGED <<input, row, written, channels>>

Open(r) == relay[r].todo # <<>>
Foremost(r) == Head(relay[r].todo)
Passed(r) ==
  [relay EXCEPT ![r].todo = Tail(@), ![r].sent = @ \cup {Foremost(r)}]

\* The transport acknowledged the row.
Send(r) ==
  /\ Open(r)
  /\ Foremost(r) \notin input.oversized
  /\ stream' \in Accepting(Foremost(r))
  /\ relay' = Passed(r)
  /\ UNCHANGED <<input, row, written, letters, faults>>

\* Nothing acknowledged it: deliver raises, and the transaction rolls back.
Unacknowledged(r) ==
  /\ Open(r)
  /\ Foremost(r) \notin input.oversized
  /\ Fault
  /\ stream' \in {stream} \cup Accepting(Foremost(r))
  /\ relay' = [relay EXCEPT ![r] = Free]
  /\ UNCHANGED <<input, row, written, letters>>

\* Mutant: an oversized row is passed over without being buried.
Skip(r) ==
  /\ Open(r)
  /\ Foremost(r) \in input.oversized
  /\ relay' = Passed(r)
  /\ UNCHANGED <<input, row, written, stream, letters, faults>>

\* A row the transport would not carry goes to the dead letters instead.
Divert(r) ==
  /\ Open(r)
  /\ Foremost(r) \in input.oversized
  /\ letters' = Buried(Foremost(r))
  /\ relay' = Passed(r)
  /\ UNCHANGED <<input, row, written, stream, faults>>

\* MARK_PUBLISHED, and the commit.
Mark(r) ==
  /\ relay[r] # Free
  /\ ~Open(r)
  /\ row' = [e \in Events |-> IF e \in relay[r].sent THEN "published" ELSE row[e]]
  /\ relay' = [relay EXCEPT ![r] = Free]
  /\ UNCHANGED <<input, written, channels>>

\* The relay dies, or its connection does: the transaction rolls back.
Die(r) ==
  /\ relay[r] # Free
  /\ Fault
  /\ relay' = [relay EXCEPT ![r] = Free]
  /\ UNCHANGED <<input, row, written, stream, letters>>

Deliver(r) == Claim(r) \/ Send(r) \/ Divert(r) \/ Mark(r)

OutboxNext ==
  \/ \E e \in Events : Publish(e)
  \/ \E r \in Relays : Deliver(r) \/ Unacknowledged(r) \/ Die(r)
=============================================================================
