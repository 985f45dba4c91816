----------------------------- MODULE WorkerThreads -----------------------------
(* WorkerPool of runtime/blocking.py: a call waits for one of `size` turns,  *)
(* hands its body to an executor with as many threads, and gives the turn    *)
(* back when it stops waiting.  A thread cannot be interrupted: the body of a *)
(* call that is cancelled runs on.  The context that is copied per call and   *)
(* the monitor of the event loop are left out.                               *)
EXTENDS Integers, FiniteSets

CONSTANTS BlockingCalls, PoolSize

ASSUME ThreadsAssumption == PoolSize \in Nat \ {0}

VARIABLES
  blocking,    \* how far a call got
  body,        \* where its body is: nowhere, queued in the executor, on a thread, done
  turns,       \* the value of the semaphore
  shut         \* _closed, and the executor shut down

threadVars == <<blocking, body, turns, shut>>

ThreadsInit ==
  /\ blocking = [c \in BlockingCalls |-> "idle"]
  /\ body = [c \in BlockingCalls |-> "none"]
  /\ turns = PoolSize
  /\ shut = FALSE

InTurn == {c \in BlockingCalls : blocking[c] = "inside"}
OnThreads == {c \in BlockingCalls : body[c] = "running"}

CallRefused(c) ==
  /\ blocking[c] = "idle" /\ shut
  /\ blocking' = [blocking EXCEPT ![c] = "over"]
  /\ UNCHANGED <<body, turns, shut>>

\* The check for a closed pool is passed; the turn may be long in coming.
AskForTurn(c) ==
  /\ blocking[c] = "idle" /\ ~shut
  /\ blocking' = [blocking EXCEPT ![c] = "waiting"]
  /\ UNCHANGED <<body, turns, shut>>

\* The body goes to the executor.  One that was shut down meanwhile raises, and
\* the turn is given back on the way out.
TakeTurn(c) ==
  /\ blocking[c] = "waiting" /\ turns > 0
  /\ IF shut THEN blocking' = [blocking EXCEPT ![c] = "over"] /\ UNCHANGED <<body, turns>>
     ELSE /\ blocking' = [blocking EXCEPT ![c] = "inside"]
          /\ body' = [body EXCEPT ![c] = "queued"]
          /\ turns' = turns - 1
  /\ UNCHANGED shut

\* Mutant: the turn is given back by whoever leaves, with or without one.
LeavesWithOne(c) == turns + 1

TurnsAfterWaiting(c) == turns

\* queue_seconds are over, or the caller is cancelled while it waits.
GiveUpTurn(c) ==
  /\ blocking[c] = "waiting"
  /\ blocking' = [blocking EXCEPT ![c] = "over"]
  /\ turns' = TurnsAfterWaiting(c)
  /\ UNCHANGED <<body, shut>>

\* A thread that is free takes a body from the queue, shut down or not.
StartBody(c) ==
  /\ body[c] = "queued" /\ Cardinality(OnThreads) < PoolSize
  /\ body' = [body EXCEPT ![c] = "running"]
  /\ UNCHANGED <<blocking, turns, shut>>

EndBody(c) ==
  /\ body[c] = "running"
  /\ body' = [body EXCEPT ![c] = "done"]
  /\ UNCHANGED <<blocking, turns, shut>>

ReturnBody(c) ==
  /\ c \in InTurn /\ body[c] = "done"
  /\ blocking' = [blocking EXCEPT ![c] = "over"]
  /\ turns' = turns + 1
  /\ UNCHANGED <<body, shut>>

\* The caller is cancelled: a body that has not started never will, any other
\* is abandoned; the turn is given back in both cases.
CancelCall(c) ==
  /\ c \in InTurn
  /\ blocking' = [blocking EXCEPT ![c] = "over"]
  /\ body' = [body EXCEPT ![c] = IF @ = "queued" THEN "none" ELSE @]
  /\ turns' = turns + 1
  /\ UNCHANGED shut

ShutPool ==
  /\ ~shut
  /\ shut' = TRUE
  /\ UNCHANGED <<blocking, body, turns>>

ThreadsNext ==
  \/ \E c \in BlockingCalls :
       \/ CallRefused(c) \/ AskForTurn(c) \/ TakeTurn(c) \/ GiveUpTurn(c) \/ StartBody(c)
       \/ EndBody(c) \/ ReturnBody(c) \/ CancelCall(c)
  \/ ShutPool

ThreadsSpec == ThreadsInit /\ [][ThreadsNext]_threadVars

ThreadsTypeOK ==
  /\ blocking \in [BlockingCalls -> {"idle", "waiting", "inside", "over"}]
  /\ body \in [BlockingCalls -> {"none", "queued", "running", "done"}]
  /\ turns \in 0..PoolSize /\ shut \in BOOLEAN

---------------------------------------------------------------------------

Abandoned == {c \in OnThreads : blocking[c] # "inside"}
QueuedBehind == {c \in BlockingCalls : body[c] = "queued"}

\* docs/async-and-sync.md: the pool is bounded, a body waits for a worker in the
\* queue that refuses it, and a cancelled one is abandoned.  A call that has its
\* turn and finds every thread taken waits behind bodies that were abandoned,
\* one for each at most, and behind nothing else.
OnlyTheAbandonedHoldUp ==
  Cardinality(OnThreads) = PoolSize => Cardinality(QueuedBehind) <= Cardinality(Abandoned)
=============================================================================
