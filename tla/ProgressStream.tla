--------------------------- MODULE ProgressStream ---------------------------
(* runtime/progress.py and adapters/transport.py: a run numbers what        *)
(* happens to it and posts it to a sink that never makes it wait; the       *)
(* broker drains the sink into a bounded history and to whoever listens;    *)
(* a client reads, loses its connection and comes back with the last        *)
(* number it saw.  Code between two awaits is one step.  Redaction, sizes   *)
(* and heartbeats of a frame are left out.                                  *)
EXTENDS Integers, Sequences, SequencesExt

CONSTANTS
  Clients,
  Kinds,        \* "delta": text, which merges; "fact": everything else
  MaxEvents,    \* bound: the events of the run before its terminal one
  HighWater,    \* Backpressure.high_water
  History       \* RunBroker's history

ASSUME StreamAssumption ==
  /\ Kinds \subseteq {"delta", "fact"}
  /\ {MaxEvents, HighWater, History} \subseteq Nat \ {0}

VARIABLES
  emitted,     \* _next: the number of the next event
  closed,      \* the run is over
  sink,        \* what the broker has not read, as events [kind, first, last]
  history,        \* _Room.events
  roomDone,    \* _Room.done
  client       \* each client: its subscription, and what it has been told

streamVars == <<emitted, closed, sink, history, roomDone, client>>

\* after: the last number received; got: the numbers delivered or merged into
\* something delivered; gone: those a StreamGap declared missing.
NewClient == [at |-> "away", after |-> -1, backlog |-> <<>>, queue |-> <<>>,
              got |-> {}, gone |-> {}, repeated |-> FALSE]

StreamInit ==
  /\ emitted = 0
  /\ closed = FALSE
  /\ sink = <<>>
  /\ history = <<>>
  /\ roomDone = FALSE
  /\ client = [c \in Clients |-> NewClient]

\* The run is driven from the first subscription on.
Driven == \E c \in Clients : client[c] # NewClient

Over == [kind |-> "over", first |-> -1, last |-> -1]

---------------------------------------------------------------------------

\* _merged: text folds into text of its own kind at the end of the buffer.
Merges(kind) ==
  /\ Len(sink) >= HighWater
  /\ kind = "delta" /\ Last(sink).kind = "delta"

\* _Sink.emit and _admit.
Emit(kind) ==
  /\ Driven /\ ~closed
  /\ emitted < MaxEvents
  /\ emitted' = emitted + 1
  /\ sink' = IF Merges(kind)
             THEN [sink EXCEPT ![Len(sink)].last = emitted]
             ELSE Append(sink, [kind |-> kind, first |-> emitted, last |-> emitted])
  /\ UNCHANGED <<closed, history, roomDone, client>>

\* The run finishes, fails, is cancelled by a client, or stopped because the
\* sink was held unread too long.
RunEnds ==
  /\ Driven /\ ~closed
  /\ closed' = TRUE
  /\ UNCHANGED <<emitted, sink, history, roomDone, client>>

\* Mutant: a listener is registered when it has read its backlog.
ListensLate(c) == client[c].at = "live"

Listens(c) == client[c].at \in {"backlog", "live"}

Heard(events) ==
  [c \in Clients |-> IF Listens(c) THEN [client[c] EXCEPT !.queue = @ \o events] ELSE client[c]]

\* _Room.post, with a history of bounded depth.
Kept(event) ==
  LET all == Append(history, event)
  IN  IF Len(all) > History THEN Tail(all) ELSE all

\* _drain takes one event off the sink and posts it.
Drain ==
  /\ sink # <<>>
  /\ sink' = Tail(sink)
  /\ history' = Kept(Head(sink))
  /\ client' = Heard(<<Head(sink)>>)
  /\ UNCHANGED <<emitted, closed, roomDone>>

\* The terminal event, numbered after everything that was emitted, and finish.
Terminal == [kind |-> "terminal", first |-> emitted, last |-> emitted]

FinishRoom ==
  /\ closed /\ sink = <<>> /\ ~roomDone
  /\ emitted' = emitted + 1
  /\ history' = Kept(Terminal)
  /\ client' = Heard(<<Terminal, Over>>)
  /\ roomDone' = TRUE
  /\ UNCHANGED <<closed, sink>>

---------------------------------------------------------------------------

\* How many of the events kept are not after the number seen: they come first.
Seen(seen) ==
  CHOOSE n \in 0..Len(history) : \A i \in DOMAIN history : history[i].first > seen <=> i > n

\* _backlog: what the room kept after the number seen, behind a gap notice where
\* the first of it is not the next one.
Backlog(seen) ==
  LET newer == SubSeq(history, Seen(seen) + 1, Len(history))
      gap == [kind |-> "gap", first |-> seen + 1, last |-> newer[1].first - 1]
  IN  IF newer # <<>> /\ newer[1].first > seen + 1 THEN <<gap>> \o newer ELSE newer

\* subscribe: the listener first, then the backlog, in one step.
Subscribe(c) ==
  /\ client[c].at = "away"
  /\ client' = [client EXCEPT ![c].at = "backlog", ![c].queue = <<>>,
                              ![c].backlog = Backlog(client[c].after)]
  /\ UNCHANGED <<emitted, closed, sink, history, roomDone>>

\* What a client knows after an event.
Receives(known, event) ==
  LET numbers == event.first..event.last
  IN  IF event.kind = "gap"
      THEN [known EXCEPT !.after = event.first, !.gone = @ \cup numbers]
      ELSE [known EXCEPT !.after = event.first, !.got = @ \cup numbers,
                         !.repeated = @ \/ numbers \cap known.got # {} \/ event.first < known.after]

ReadMissed(c) ==
  /\ client[c].at = "backlog"
  /\ client[c].backlog # <<>>
  /\ client' = [client EXCEPT ![c] =
                  [Receives(client[c], Head(client[c].backlog)) EXCEPT !.backlog = Tail(@)]]
  /\ UNCHANGED <<emitted, closed, sink, history, roomDone>>

\* The backlog is read: where the room is done the subscription ends here, and
\* what was posted while the backlog was being read is not looked at.
TurnLive(c) ==
  /\ client[c].at = "backlog"
  /\ client[c].backlog = <<>>
  /\ client' = [client EXCEPT ![c].at = IF ~roomDone THEN "live"
                                        ELSE IF client[c].queue = <<>> THEN "ended" ELSE "cut"]
  /\ UNCHANGED <<emitted, closed, sink, history, roomDone>>

ReadLive(c) ==
  /\ client[c].at = "live"
  /\ client[c].queue # <<>>
  /\ LET event == Head(client[c].queue)
     IN  client' = [client EXCEPT ![c] =
           IF event = Over THEN [client[c] EXCEPT !.at = "ended"]
           ELSE [Receives(client[c], event) EXCEPT !.queue = Tail(@)]]
  /\ UNCHANGED <<emitted, closed, sink, history, roomDone>>

\* The connection goes, and the listener with what it had not read.
Disconnect(c) ==
  /\ client[c].at \in {"backlog", "live"}
  /\ client' = [client EXCEPT ![c].at = "away", ![c].queue = <<>>, ![c].backlog = <<>>]
  /\ UNCHANGED <<emitted, closed, sink, history, roomDone>>

StreamNext ==
  \/ RunEnds \/ Drain \/ FinishRoom
  \/ \E kind \in Kinds : Emit(kind)
  \/ \E c \in Clients :
       Subscribe(c) \/ ReadMissed(c) \/ TurnLive(c) \/ ReadLive(c) \/ Disconnect(c)

StreamSpec == StreamInit /\ [][StreamNext]_streamVars

StreamTypeOK ==
  /\ emitted \in 0..(MaxEvents + 1)
  /\ closed \in BOOLEAN /\ roomDone \in BOOLEAN
  /\ \A e \in ToSet(sink) \cup ToSet(history) : e.first \in Nat /\ e.last \in Nat
  /\ \A c \in Clients :
       /\ client[c].at \in {"away", "backlog", "live", "ended", "cut"}
       /\ client[c].after \in -1..MaxEvents
       /\ client[c].got \subseteq 0..MaxEvents /\ client[c].gone \subseteq 0..MaxEvents

---------------------------------------------------------------------------

\* docs/transports.md: a client that comes back "receives either the events it
\* missed, in order, or ... a StreamGap first".  No client is given anything
\* twice or out of order, and one whose subscription came to its end has had,
\* or been told it will not have, every event up to the terminal one: through
\* merges, evictions and any number of reconnections.  Not so ("cut") where
\* the run ended while a backlog was being read.
NothingIsMissedUnsaid ==
  \A c \in Clients :
    /\ ~client[c].repeated
    /\ client[c].at = "ended" => 0..(emitted - 1) = client[c].got \cup client[c].gone
=============================================================================
