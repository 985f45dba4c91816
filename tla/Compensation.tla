---------------------------- MODULE Compensation ----------------------------
(* workflows/compensation.py and runtime/compensation.py: a saga writes a   *)
(* step down, makes the call and writes down what came back; an unwind       *)
(* takes the applied steps back, newest first.  Legs of one saga run        *)
(* concurrently, with each other and with an unwind, and two unwinds may    *)
(* overlap.  Every await is a place where another takes a step.             *)
EXTENDS Integers, FiniteSets, Sequences, SequencesExt

CONSTANTS
  Tools,          \* the steps of the saga, each under its own key
  Sagas,          \* what a saga may be: the irreversible tools, those paired with
                  \* a reversal, and whether an IdempotencyStore is there to ask
  Attempts,       \* how often one reversal is tried
  Unwinds         \* bound: the calls of unwind

ASSUME CompensationAssumption ==
  /\ Sagas \subseteq [irreversible: SUBSET Tools, paired: SUBSET Tools, queried: BOOLEAN]
  /\ Attempts \in Nat \ {0}

VARIABLES
  saga,        \* one of Sagas
  forward,     \* how far each forward call is
  inWorld,     \* the steps whose effect the outside world holds
  kept,        \* the steps whose outcome the IdempotencyStore has
  sagaStep,    \* the keys, in the order of their Applied.step
  applied,     \* the CompensationLedger: what is known of each step it holds
  unwinding    \* each unwind: what it still has to walk, and what it said

sagaVars == <<saga, forward, inWorld, kept, sagaStep, applied, unwinding>>

NoWalk == [at |-> "no", todo |-> <<>>, tries |-> 0, over |-> {}]

SagaInit ==
  /\ saga \in Sagas
  /\ forward = [t \in Tools |-> "no"]
  /\ inWorld = {}
  /\ kept = {}
  /\ sagaStep = <<>>
  /\ applied = [t \in Tools |-> "none"]
  /\ unwinding = [u \in Unwinds |-> NoWalk]

\* Saga.apply writes the step down before the call.  An irreversible one gets
\* here only with an approval.
Record(t) ==
  /\ forward[t] = "no"
  /\ forward' = [forward EXCEPT ![t] = "called"]
  /\ sagaStep' = Append(sagaStep, t)
  /\ applied' = [applied EXCEPT ![t] = "unknown"]
  /\ UNCHANGED <<saga, inWorld, kept, unwinding>>

\* The call takes effect, perhaps after its caller gave it up.
TakeEffect(t) ==
  /\ forward[t] \in {"called", "cut"}
  /\ forward' = [forward EXCEPT ![t] = IF @ = "called" THEN "effective" ELSE "adrift"]
  /\ inWorld' = inWorld \cup {t}
  /\ UNCHANGED <<saga, kept, sagaStep, applied, unwinding>>

\* The tool's own idempotency record of what the call returned.
KeepOutcome(t) ==
  /\ forward[t] = "effective"
  /\ t \notin kept
  /\ kept' = kept \cup {t}
  /\ UNCHANGED <<saga, forward, inWorld, sagaStep, applied, unwinding>>

\* apply's second record; it writes the step down again if an unwind has
\* dropped it in the meantime.
Return(t) ==
  /\ forward[t] = "effective"
  /\ forward' = [forward EXCEPT ![t] = "returned"]
  /\ applied' = [applied EXCEPT ![t] = "known"]
  /\ UNCHANGED <<saga, inWorld, kept, sagaStep, unwinding>>

\* The call raises, or its task is cancelled: the step stays as it was recorded.
CutShort(t) ==
  /\ forward[t] \in {"called", "effective"}
  /\ forward' = [forward EXCEPT ![t] = IF @ = "called" THEN "cut" ELSE "adrift"]
  /\ UNCHANGED <<saga, inWorld, kept, sagaStep, applied, unwinding>>

\* MemoryCompensationLedger.outstanding, newest first: the n-th newest of the
\* steps has all but n of them before it.
OpenSteps == {i \in DOMAIN sagaStep : applied[sagaStep[i]] # "none"}

Newest(n) ==
  CHOOSE i \in OpenSteps : Cardinality({j \in OpenSteps : j < i}) = Cardinality(OpenSteps) - n

Outstanding == [n \in 1..Cardinality(OpenSteps) |-> sagaStep[Newest(n)]]

\* _walk: what is outstanding now, as it is recorded now.
Unwind(u) ==
  /\ unwinding[u].at = "no"
  /\ unwinding' = [unwinding EXCEPT ![u] =
       [NoWalk EXCEPT !.at = "walking",
                      !.todo = [i \in DOMAIN Outstanding |->
                        [tool |-> Outstanding[i], known |-> applied[Outstanding[i]] = "known"]]]]
  /\ UNCHANGED <<saga, forward, inWorld, kept, sagaStep, applied>>

Walking(u) == unwinding[u].at = "walking" /\ unwinding[u].todo # <<>>

\* Mutant: an attempt drops the step from the ledger, whatever became of it.
MarkedOff(t, settled) == [applied EXCEPT ![t] = "none"]

\* mark: the ledger drops what the world let go, and nothing else.
Marked(t, settled) == IF settled THEN [applied EXCEPT ![t] = "none"] ELSE applied

\* The reversal of the first step of the list is settled one way or the other.
Account(u, settled) ==
  /\ applied' = Marked(Head(unwinding[u].todo).tool, settled)
  /\ unwinding' = [unwinding EXCEPT ![u].todo = Tail(@), ![u].tries = 0,
                                    ![u].at = "walking"]

\* _decided: the result came back, or the IdempotencyStore has it.
Decided(u) ==
  LET one == Head(unwinding[u].todo)
  IN  one.known \/ (saga.queried /\ one.tool \in kept)

\* _reverse: irreversible, or nothing can say whether it ran, or unpaired.
LeaveStanding(u) ==
  /\ Walking(u)
  /\ LET t == Head(unwinding[u].todo).tool
     IN  t \in saga.irreversible \/ ~Decided(u) \/ t \notin saga.paired
  /\ Account(u, FALSE)
  /\ UNCHANGED <<saga, forward, inWorld, kept, sagaStep>>

Reversible(u) ==
  /\ Walking(u)
  /\ Head(unwinding[u].todo).tool \in saga.paired \ saga.irreversible
  /\ Decided(u)

\* _tried: one attempt of compensate, which takes the effect back ...
Reversed(u) ==
  /\ Reversible(u)
  /\ unwinding[u].tries < Attempts
  /\ inWorld' = inWorld \ {Head(unwinding[u].todo).tool}
  /\ unwinding' = [unwinding EXCEPT ![u].at = "reversed"]
  /\ UNCHANGED <<saga, forward, kept, sagaStep, applied>>

\* Mutant: the attempts are counted from nought to the limit, both included.
OneTryTooMany(u) ==
  /\ Reversible(u)
  /\ unwinding[u].tries <= Attempts
  /\ inWorld' \in {inWorld, inWorld \ {Head(unwinding[u].todo).tool}}
  /\ unwinding' = [unwinding EXCEPT ![u].tries = @ + 1]
  /\ UNCHANGED <<saga, forward, kept, sagaStep, applied>>

\* ... or raises, before or after it did.
ReversalRaised(u) ==
  /\ Reversible(u)
  /\ unwinding[u].tries < Attempts
  /\ inWorld' \in {inWorld, inWorld \ {Head(unwinding[u].todo).tool}}
  /\ unwinding' = [unwinding EXCEPT ![u].tries = @ + 1]
  /\ UNCHANGED <<saga, forward, kept, sagaStep, applied>>

\* mark, after the reversal returned or was given up.
MarkReversed(u) ==
  /\ unwinding[u].at = "reversed"
  /\ Account(u, TRUE)
  /\ UNCHANGED <<saga, forward, inWorld, kept, sagaStep>>

GiveUp(u) ==
  /\ Reversible(u)
  /\ unwinding[u].tries = Attempts
  /\ Account(u, FALSE)
  /\ UNCHANGED <<saga, forward, inWorld, kept, sagaStep>>

\* The store that is asked raises: _reverse does not catch it, and the walk is
\* over with the rest of its list never tried.
QueryRaises(u) ==
  /\ Walking(u)
  /\ saga.queried
  /\ Head(unwinding[u].todo).tool \notin saga.irreversible
  /\ ~Head(unwinding[u].todo).known
  /\ unwinding' = [unwinding EXCEPT ![u].at = "raised"]
  /\ UNCHANGED <<saga, forward, inWorld, kept, sagaStep, applied>>

\* _walk reads the ledger once more and says how the run ended.
Conclude(u) ==
  /\ unwinding[u].at = "walking"
  /\ unwinding[u].todo = <<>>
  /\ unwinding' = [unwinding EXCEPT
       ![u].at = IF Outstanding = <<>> THEN "CompensatedFailure" ELSE "CompensationIncomplete",
       ![u].over = ToSet(sagaStep)]
  /\ UNCHANGED <<saga, forward, inWorld, kept, sagaStep, applied>>

SagaNext ==
  \/ \E t \in Tools : Record(t) \/ TakeEffect(t) \/ KeepOutcome(t) \/ Return(t) \/ CutShort(t)
  \/ \E u \in Unwinds :
       \/ Unwind(u) \/ LeaveStanding(u) \/ Reversed(u) \/ ReversalRaised(u)
       \/ MarkReversed(u) \/ GiveUp(u) \/ QueryRaises(u) \/ Conclude(u)

SagaSpec == SagaInit /\ [][SagaNext]_sagaVars

SagaTypeOK ==
  /\ saga \in Sagas
  /\ forward \in [Tools -> {"no", "called", "effective", "returned", "cut", "adrift"}]
  /\ inWorld \subseteq Tools /\ kept \subseteq Tools
  /\ sagaStep \in Seq(Tools)
  /\ applied \in [Tools -> {"none", "unknown", "known"}]
  /\ unwinding \in [Unwinds ->
       [at: {"no", "walking", "reversed", "raised",
             "CompensatedFailure", "CompensationIncomplete"},
        todo: Seq([tool: Tools, known: BOOLEAN]), tries: 0..Attempts, over: SUBSET Tools]]

---------------------------------------------------------------------------

\* docs/compensation.md: of a CompensatedFailure, "the world holds nothing of
\* this run any more".  Of the steps written down by the time it was returned
\* the world holds none, then and later: not one whose call was still under
\* way, whose reversal raised, or that an overlapping unwind walked as well.
CleanMeansClean ==
  \A u \in Unwinds :
    unwinding[u].at = "CompensatedFailure" => unwinding[u].over \cap inWorld = {}
=============================================================================
