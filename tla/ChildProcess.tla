----------------------------- MODULE ChildProcess -----------------------------
(* StdioTransport of adapters/mcp_transport.py: requests of one MCP server   *)
(* that is a child process.  The spawn, the gate, the wait for a reply and   *)
(* the steps of close are awaits; a child may answer late, end its output    *)
(* before its exit is known, and exit at any time.  What a message holds and *)
(* the tail of stderr are left out.                                          *)
EXTENDS Integers, FiniteSets

CONSTANTS
  Requests,
  Spawns,         \* bound: the children that may be started
  MaxInFlight

ASSUME ChildAssumption == Spawns \in Nat \ {0} /\ MaxInFlight \in Nat \ {0}

VARIABLES
  request,    \* how far it got, under which id, sent to which child, whose reply it got
  child,      \* per child: whether its exit is known, whether it is read, what it was asked
  process,    \* _process, 0 for none
  lastId,     \* _next
  closing     \* how far close got, with the child and the reader it waits for

childVars == <<request, child, process, lastId, closing>>

NewRequest == [at |-> "idle", id |-> 0, on |-> 0, got |-> {}]
Unborn == [is |-> "unborn", read |-> FALSE, asked |-> {}]
NotClosing == [at |-> "open", child |-> 0, reader |-> 0]

ChildInit ==
  /\ request = [q \in Requests |-> NewRequest]
  /\ child = [k \in 1..Spawns |-> Unborn]
  /\ process = 0
  /\ lastId = 0
  /\ closing = NotClosing

Waiting == {q \in Requests : request[q].at = "waiting"}
Moves(q, at) == request' = [request EXCEPT ![q].at = at]

\* _fail_pending: everybody who waits, on whichever child.
AllFailed == [q \in Requests |-> IF q \in Waiting THEN [request[q] EXCEPT !.at = "failed"]
                                                  ELSE request[q]]

\* open looks for a child; without one it begins a spawn, and so does the next
\* caller who looks before that is done.
LookForChild(q) ==
  /\ request[q].at = "idle"
  /\ Moves(q, CASE process # 0 -> "opened"
                [] process = 0 /\ closing.at = "open" -> "spawning"
                [] OTHER -> "failed")
  /\ UNCHANGED <<child, process, lastId, closing>>

\* The spawn is done: the newer child takes the place of the older.
Spawned(q) ==
  /\ request[q].at = "spawning"
  /\ \E k \in 1..Spawns :
       /\ child[k].is = "unborn"
       /\ \A j \in 1..(k - 1) : child[j].is # "unborn"
       /\ child' = [child EXCEPT ![k] = [is |-> "running", read |-> TRUE, asked |-> {}]]
       /\ process' = k
  /\ Moves(q, "opened")
  /\ UNCHANGED <<lastId, closing>>

SpawnFails(q) ==
  /\ request[q].at = "spawning"
  /\ Moves(q, "failed")
  /\ UNCHANGED <<child, process, lastId, closing>>

\* Mutant: the lowest number nobody waits under.
LowestFree == CHOOSE n \in 1..(Cardinality(Requests) + 1) :
                /\ \A q \in Waiting : request[q].id # n
                /\ \A m \in 1..(n - 1) : \E q \in Waiting : request[q].id = m

NextId == lastId + 1

\* Through the gate: the request is registered and written, unless the child's
\* exit is known.  A write may break on a child that has gone unnoticed.
Send(q) ==
  /\ request[q].at = "opened"
  /\ Cardinality(Waiting) < MaxInFlight
  /\ lastId' = NextId
  /\ \/ /\ child[process].is = "running"
        /\ request' = [request EXCEPT ![q] = [@ EXCEPT !.at = "waiting", !.id = NextId,
                                                       !.on = process]]
        /\ child' = [child EXCEPT ![process].asked = @ \cup {<<NextId, q>>}]
     \/ Moves(q, "failed") /\ UNCHANGED child
  /\ UNCHANGED <<process, closing>>

\* The reader takes a reply in: it is for whoever waits under its id, if
\* anybody does.  What was written before an exit is read after it.
Reply(k, ask) ==
  /\ child[k].read
  /\ ask \in child[k].asked
  /\ child' = [child EXCEPT ![k].asked = @ \ {ask}]
  /\ request' = [q \in Requests |->
       IF q \in Waiting /\ request[q].id = ask[1]
       THEN [request[q] EXCEPT !.at = "answered", !.got = {ask[2]}] ELSE request[q]]
  /\ UNCHANGED <<process, lastId, closing>>

\* The read deadline passes, or the caller is cancelled: its id is taken out.
GivesUp(q) ==
  /\ q \in Waiting
  /\ Moves(q, "failed")
  /\ UNCHANGED <<child, process, lastId, closing>>

\* _read comes to the end of the output, or to a message past the ceiling.
ReaderEnds(k) ==
  /\ child[k].read
  /\ child' = [child EXCEPT ![k].read = FALSE]
  /\ request' = AllFailed
  /\ UNCHANGED <<process, lastId, closing>>

ChildExits(k) ==
  /\ child[k].is = "running"
  /\ child' = [child EXCEPT ![k].is = "exited"]
  /\ UNCHANGED <<request, process, lastId, closing>>

---------------------------------------------------------------------------

Close ==
  /\ closing.at = "open"
  /\ closing' = IF process = 0 THEN [NotClosing EXCEPT !.at = "closed"]
                               ELSE [at |-> "exit", child |-> process, reader |-> 0]
  /\ UNCHANGED <<request, child, process, lastId>>

\* Terminated or killed, the child is gone; whose reader is waited for is what
\* the transport holds by now.
Reaped ==
  /\ closing.at = "exit"
  /\ child' = [child EXCEPT ![closing.child].is = "exited"]
  /\ closing' = [closing EXCEPT !.at = "readers", !.reader = process]
  /\ UNCHANGED <<request, process, lastId>>

\* The reader is over, or cancelled; whoever still waits is failed.
CloseReturns ==
  /\ closing.at = "readers"
  /\ child' = [child EXCEPT ![closing.reader].read = FALSE]
  /\ request' = AllFailed
  /\ closing' = [closing EXCEPT !.at = "closed"]
  /\ UNCHANGED <<process, lastId>>

ChildNext ==
  \/ \E q \in Requests :
       LookForChild(q) \/ Spawned(q) \/ SpawnFails(q) \/ Send(q) \/ GivesUp(q)
  \/ \E k \in 1..Spawns :
       ReaderEnds(k) \/ ChildExits(k) \/ \E ask \in child[k].asked : Reply(k, ask)
  \/ Close \/ Reaped \/ CloseReturns

ChildSpec == ChildInit /\ [][ChildNext]_childVars

ChildTypeOK ==
  /\ \A q \in Requests :
       /\ request[q].at \in {"idle", "spawning", "opened", "waiting", "answered", "failed"}
       /\ request[q].id \in 0..lastId /\ request[q].on \in 0..Spawns
       /\ request[q].got \subseteq Requests
  /\ \A k \in 1..Spawns :
       /\ child[k].is \in {"unborn", "running", "exited"}
       /\ child[k].read \in BOOLEAN
       /\ child[k].asked \subseteq (1..lastId) \X Requests
  /\ process \in 0..Spawns /\ lastId \in Nat
  /\ closing \in [at: {"open", "exit", "readers", "closed"}, child: 0..Spawns, reader: 0..Spawns]

---------------------------------------------------------------------------

\* Whatever replies come late, whichever child they come from and however opens
\* and close overlap: a request that is answered has its own reply, and when
\* close has returned nobody waits for the child it closed ("Stop reading, fail
\* anything outstanding, and make sure the child is gone").
RequestsEndTruly ==
  /\ \A q \in Requests : request[q].at = "answered" => request[q].got = {q}
  /\ closing.at = "closed" => \A q \in Waiting : request[q].on # closing.child
==============================================================================
