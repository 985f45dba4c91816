------------------------------ MODULE ClientPool ------------------------------
(* ClientPool of models/pool.py: the clients of one process, shared by key,  *)
(* and what goes out on them.  A block borrows a client for its length; a    *)
(* request of a provider (models/providers/_http.py) borrows none: it retires *)
(* the key of the provider's last credential and sends on the client of this *)
(* one.  To close a client is an await; a process may fork.  The counters    *)
(* and the waits for a connection inside a client are left out.              *)
EXTENDS Integers

CONSTANTS
  Senders,       \* blocks that borrow, and requests of one provider
  Credentials,
  MaxClients     \* bound: the clients that are opened

ASSUME PoolAssumption == Credentials # {} /\ MaxClients \in Nat

VARIABLES
  httpClient,    \* per client: where it is, its key, its process, _borrowed
  sender,        \* how far it got, on which client or with which key
  secret,        \* the credential the provider would resolve now
  lastKey,       \* the provider's _key
  pid,           \* the process the pool is used in: 1, then 2 after a fork
  poolClosed     \* _closed

poolVars == <<httpClient, sender, secret, lastKey, pid, poolClosed>>

HttpClients == 1..MaxClients
NoClient == [is |-> "unborn", key |-> {}, owner |-> 0, borrowed |-> 0]
NotSending == [at |-> "idle", on |-> 0, key |-> {}]

PoolInit ==
  /\ httpClient = [i \in HttpClients |-> NoClient]
  /\ sender = [s \in Senders |-> NotSending]
  /\ secret = CHOOSE k \in Credentials : TRUE
  /\ lastKey = {}
  /\ pid = 1
  /\ poolClosed = FALSE

Those(where) == {i \in HttpClients : httpClient[i].is = where}
HeldUnder(key) == {i \in Those("held") : httpClient[i].key = key}
Own(key) == {i \in HeldUnder(key) : httpClient[i].owner = pid}
Fresh == {i \in Those("unborn") : \A j \in Those("unborn") : i <= j}

\* _client: the one held under the key, or a new one.  One that another process
\* opened is forgotten, not closed.
Handed(key) == IF Own(key) # {} THEN Own(key) ELSE Fresh

With(key, i) ==
  IF i \in Own(key) THEN httpClient
  ELSE [j \in HttpClients |->
         IF j = i THEN [is |-> "held", key |-> key, owner |-> pid, borrowed |-> 0]
         ELSE IF j \in HeldUnder(key) THEN [httpClient[j] EXCEPT !.is = "forgotten"]
         ELSE httpClient[j]]

Borrow(s, key) ==
  /\ sender[s].at = "idle" /\ ~poolClosed
  /\ \E i \in Handed(key) :
       /\ httpClient' = [With(key, i) EXCEPT ![i].borrowed = @ + 1]
       /\ sender' = [sender EXCEPT ![s] = [at |-> "borrowing", on |-> i, key |-> {}]]
  /\ UNCHANGED <<secret, lastKey, pid, poolClosed>>

\* The last borrower of a retiring client closes it.
GiveBack(s) ==
  /\ sender[s].at = "borrowing"
  /\ LET i == sender[s].on
     IN  httpClient' = [httpClient EXCEPT ![i].borrowed = @ - 1,
                                          ![i].is = IF @ = "retiring" /\ httpClient[i].borrowed = 1
                                                    THEN "closed" ELSE @]
  /\ sender' = [sender EXCEPT ![s] = NotSending]
  /\ UNCHANGED <<secret, lastKey, pid, poolClosed>>

\* Mutant: a retired client is closed, whoever has it.
RetiredAtOnce(key) ==
  [i \in HttpClients |-> IF i \in HeldUnder(key) THEN [httpClient[i] EXCEPT !.is = "closed"]
                                               ELSE httpClient[i]]

\* _retire_key: handed out no more, and closed unless somebody borrows it.
Retired(key) ==
  [i \in HttpClients |->
    IF i \in HeldUnder(key)
    THEN [httpClient[i] EXCEPT !.is = IF httpClient[i].borrowed > 0 THEN "retiring"
                                                                    ELSE "closed"]
    ELSE httpClient[i]]

Retire(key) ==
  /\ HeldUnder(key) # {}
  /\ httpClient' = Retired(key)
  /\ UNCHANGED <<sender, secret, lastKey, pid, poolClosed>>

\* What a request goes out on; a closed pool raises.
GoesOut(s) ==
  IF poolClosed THEN sender' = [sender EXCEPT ![s] = NotSending] /\ UNCHANGED httpClient
  ELSE \E i \in Handed({secret}) :
         /\ httpClient' = With({secret}, i)
         /\ sender' = [sender EXCEPT ![s] = [at |-> "sending", on |-> i, key |-> {}]]

\* A request of the provider, with nothing held under another last key.
SendOut(s) ==
  /\ sender[s].at = "idle"
  /\ lastKey \in {{}, {secret}} \/ HeldUnder(lastKey) = {}
  /\ GoesOut(s)
  /\ lastKey' = {secret}
  /\ UNCHANGED <<secret, pid, poolClosed>>

\* _current finds that the credential has moved, and retires what the last one
\* opened.  (Where that is borrowed there is nothing to await, and others get
\* in between only in the model.)
RetireLast(s) ==
  /\ sender[s].at = "idle"
  /\ lastKey \notin {{}, {secret}} /\ HeldUnder(lastKey) # {}
  /\ httpClient' = Retired(lastKey)
  /\ sender' = [sender EXCEPT ![s] = [at |-> "retiring", on |-> 0, key |-> {secret}]]
  /\ UNCHANGED <<secret, lastKey, pid, poolClosed>>

\* It goes on with the key it had looked up, and the credential of by now.
SendAfter(s) ==
  /\ sender[s].at = "retiring"
  /\ GoesOut(s)
  /\ lastKey' = sender[s].key
  /\ UNCHANGED <<secret, pid, poolClosed>>

\* An answer, or an error: what it went out on may have been closed under it.
SendReturns(s) ==
  /\ sender[s].at = "sending"
  /\ sender' = [sender EXCEPT ![s] = NotSending]
  /\ UNCHANGED <<httpClient, secret, lastKey, pid, poolClosed>>

Rotate ==
  /\ secret' \in Credentials \ {secret}
  /\ UNCHANGED <<httpClient, sender, lastKey, pid, poolClosed>>

\* aclose empties its lists first and then closes one client after the other.
ClosePool ==
  /\ ~poolClosed
  /\ poolClosed' = TRUE
  /\ httpClient' = [i \in HttpClients |-> IF i \in Those("held") \cup Those("retiring")
                                      THEN [httpClient[i] EXCEPT !.is = "closing"]
                                      ELSE httpClient[i]]
  /\ UNCHANGED <<sender, secret, lastKey, pid>>

CloseClient(i) ==
  /\ i \in Those("closing")
  /\ httpClient' = [httpClient EXCEPT ![i].is = "closed"]
  /\ UNCHANGED <<sender, secret, lastKey, pid, poolClosed>>

\* The child has the pool as it was, and none of the tasks.
Fork ==
  /\ pid = 1
  /\ pid' = 2
  /\ sender' = [s \in Senders |-> NotSending]
  /\ UNCHANGED <<httpClient, secret, lastKey, poolClosed>>

PoolNext ==
  \/ \E s \in Senders :
       \/ GiveBack(s) \/ SendOut(s) \/ RetireLast(s) \/ SendAfter(s) \/ SendReturns(s)
       \/ \E k \in Credentials : Borrow(s, {k})
  \/ \E k \in Credentials : Retire({k})
  \/ \E i \in HttpClients : CloseClient(i)
  \/ Rotate \/ ClosePool \/ Fork

PoolSpec == PoolInit /\ [][PoolNext]_poolVars

PoolTypeOK ==
  /\ \A i \in HttpClients :
       /\ httpClient[i].is \in {"unborn", "held", "retiring", "closing", "closed", "forgotten"}
       /\ httpClient[i].key \subseteq Credentials
       /\ httpClient[i].owner \in 0..2 /\ httpClient[i].borrowed \in Nat
  /\ \A s \in Senders :
       /\ sender[s].at \in {"idle", "borrowing", "retiring", "sending"}
       /\ sender[s].on \in 0..MaxClients /\ sender[s].key \subseteq Credentials
  /\ secret \in Credentials /\ lastKey \subseteq Credentials
  /\ pid \in {1, 2} /\ poolClosed \in BOOLEAN

---------------------------------------------------------------------------

\* docs/connection-pooling.md, of a credential that changes: the old client
\* "closes once the requests already on it have finished.  Nothing in flight is
\* cut off".  No request is out on a client that was closed while the pool is
\* open.  It fails: a request borrows nothing, so retire, or the provider's next
\* request once the credential has changed, closes the client under it.
RotationSparesRequests ==
  \A s \in Senders :
    sender[s].at \in {"borrowing", "sending"} /\ ~poolClosed => httpClient[sender[s].on].is # "closed"

\* What _borrowed_client says of a block, which no provider of the kit uses:
\* "rotation cannot close it underneath", and "the last borrower out closes it".
\* Whatever is rotated, retired or inherited meanwhile, who borrows has an open
\* client of this process until the pool itself is closed, and a client that is
\* retired and still open has a borrower who will close it.
RotationSparesBorrowers ==
  /\ \A s \in Senders : sender[s].at = "borrowing" /\ ~poolClosed =>
       LET lent == httpClient[sender[s].on]
       IN  lent.owner = pid /\ lent.is \in {"held", "retiring"}
  /\ \A i \in Those("retiring") : httpClient[i].owner = pid =>
       \E s \in Senders : sender[s].at = "borrowing" /\ sender[s].on = i
=============================================================================
