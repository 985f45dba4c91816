--------------------------- MODULE PlanExecution ---------------------------
(* runtime/planner.py: a plan is validated, every step of it cleared, and    *)
(* then its steps are run one by one, each under the idempotency key of its *)
(* tool and arguments, with the progress written down after each.  Several  *)
(* executors may carry one plan, one after another or at the same time.     *)
(* Every await is a place where another takes a step.  The keys outlive the *)
(* run (ttl_seconds is a day); what the planner and the autonomy ladder say *)
(* is left open.                                                            *)
EXTENDS Integers, FiniteSets

CONSTANTS
  Steps,        \* of the plan, as numbers in the order it was written
  PlanInputs,   \* plans: [after, key], what a step waits for and its key
  Keys,
  NoKey,        \* a key that cannot be derived
  Executors,
  MaxEntries    \* bound: the calls of execute and resume

ASSUME PlanAssumption ==
  /\ Steps = 1..Cardinality(Steps) /\ IsFiniteSet(Steps)
  /\ PlanInputs \subseteq [after: [Steps -> SUBSET Steps], key: [Steps -> Keys \cup {NoKey}]]
  /\ NoKey \notin Keys
  /\ MaxEntries \in Nat

VARIABLES
  plan,
  planRow,     \* the PlanStore: whether there is a record, and its results
  keyState,    \* the IdempotencyStore
  executor,    \* each executor: where it is, and its results
  effects,     \* how often each step took effect
  regretted,   \* how often its tool raised afterwards
  entries

planVars == <<plan, planRow, keyState, executor, effects, regretted, entries>>

Away == [at |-> "away", done |-> {}]

PlanInit ==
  /\ plan \in PlanInputs
  /\ planRow = [there |-> FALSE, done |-> {}]
  /\ keyState = [k \in Keys |-> "free"]
  /\ executor = [e \in Executors |-> Away]
  /\ effects = [s \in Steps |-> 0]
  /\ regretted = [s \in Steps |-> 0]
  /\ entries = 0

---------------------------------------------------------------------------

\* _sorted: the steps placed after n rounds, each round placing those that
\* wait for nothing unplaced.
Placed[n \in Nat] ==
  IF n = 0 THEN {} ELSE {s \in Steps : plan.after[s] \subseteq Placed[n - 1]}

Round(s) == CHOOSE n \in 1..Cardinality(Steps) : s \in Placed[n] /\ s \notin Placed[n - 1]

\* _looped.
Looped == Steps \ Placed[Cardinality(Steps)]

\* _ordered: by round, and within a round as the plan was written.
Precedes(s, t) == Round(s) < Round(t) \/ (Round(s) = Round(t) /\ s < t)

Remaining(e) == Steps \ executor[e].done

NextStep(e) == CHOOSE s \in Remaining(e) : \A t \in Remaining(e) \ {s} : Precedes(s, t)

KeyOf(e) == plan.key[NextStep(e)]

---------------------------------------------------------------------------

\* execute, or resume, which reads what was written down.  Validation refuses
\* a loop; it may also refuse a step, by the contracts and scope of now.
StartPlan(e, results) ==
  /\ executor[e].at = "away"
  /\ entries < MaxEntries
  /\ entries' = entries + 1
  /\ Looped = {}
  /\ executor' = [executor EXCEPT ![e] = [at |-> "clearing", done |-> results]]
  /\ UNCHANGED <<plan, planRow, keyState, effects, regretted>>

Execute(e) == StartPlan(e, {})

Resume(e) == planRow.there /\ StartPlan(e, planRow.done)

Goes(e, at) == executor' = [executor EXCEPT ![e].at = at]

\* _cleared: somebody declined a step, a grant refused it, or there was nobody
\* to ask.  Nothing runs.
Declined(e) ==
  /\ executor[e].at = "clearing"
  /\ executor' = [executor EXCEPT ![e] = Away]
  /\ UNCHANGED <<plan, planRow, keyState, effects, regretted, entries>>

\* Every remaining step is cleared, and the plan written down.
Cleared(e) ==
  /\ executor[e].at = "clearing"
  /\ planRow' = [there |-> TRUE, done |-> executor[e].done]
  /\ Goes(e, IF Remaining(e) = {} THEN "complete" ELSE "ready")
  /\ UNCHANGED <<plan, keyState, effects, regretted, entries>>

\* Mutant: the refusal of a key somebody else holds releases that key.
RefusalAbandons == "abandoning"

\* IndeterminateOutcomeError leaves _executed before its try.
AfterRefusal == "failed"

Finished(e) == [executor[e] EXCEPT !.at = "written", !.done = @ \cup {NextStep(e)}]

\* _claimed: the key is taken, or its outcome is known, or it is in flight.
ClaimKey(e) ==
  /\ executor[e].at = "ready"
  /\ IF KeyOf(e) = NoKey
     THEN Goes(e, "calling") /\ UNCHANGED keyState
     ELSE CASE keyState[KeyOf(e)] = "free" ->
                 keyState' = [keyState EXCEPT ![KeyOf(e)] = "flying"] /\ Goes(e, "calling")
            [] keyState[KeyOf(e)] = "flying" -> UNCHANGED keyState /\ Goes(e, AfterRefusal)
            [] keyState[KeyOf(e)] = "recorded" ->
                 UNCHANGED keyState /\ executor' = [executor EXCEPT ![e] = Finished(e)]
  /\ UNCHANGED <<plan, planRow, effects, regretted, entries>>

\* The tool takes effect ...
StepLands(e) ==
  /\ executor[e].at = "calling"
  /\ effects' = [effects EXCEPT ![NextStep(e)] = @ + 1]
  /\ Goes(e, "landed")
  /\ UNCHANGED <<plan, planRow, keyState, regretted, entries>>

\* ... or raises, before it did or after; or the executor's task is cancelled.
StepRaises(e) ==
  /\ executor[e].at \in {"calling", "landed"}
  /\ regretted' = IF executor[e].at = "calling" THEN regretted
                  ELSE [regretted EXCEPT ![NextStep(e)] = @ + 1]
  /\ Goes(e, "abandoning")
  /\ UNCHANGED <<plan, planRow, keyState, effects, entries>>

\* _abandon.
Abandon(e) ==
  /\ executor[e].at = "abandoning"
  /\ keyState' = IF KeyOf(e) = NoKey THEN keyState ELSE [keyState EXCEPT ![KeyOf(e)] = "free"]
  /\ Goes(e, "failed")
  /\ UNCHANGED <<plan, planRow, effects, regretted, entries>>

\* _record.
RecordOutcome(e) ==
  /\ executor[e].at = "landed"
  /\ keyState' = IF KeyOf(e) = NoKey THEN keyState ELSE [keyState EXCEPT ![KeyOf(e)] = "recorded"]
  /\ executor' = [executor EXCEPT ![e] = Finished(e)]
  /\ UNCHANGED <<plan, planRow, effects, regretted, entries>>

\* record raised: the key stays in flight, with the effect made.
RecordFails(e) ==
  /\ executor[e].at = "landed"
  /\ KeyOf(e) # NoKey
  /\ Goes(e, "failed")
  /\ UNCHANGED <<plan, planRow, keyState, effects, regretted, entries>>

\* The write after each step, also one that failed: the results as this
\* executor has them.
WriteProgress(e) ==
  /\ executor[e].at \in {"written", "failed"}
  /\ planRow' = [there |-> TRUE, done |-> executor[e].done]
  /\ executor' = [executor EXCEPT ![e] =
       IF executor[e].at = "failed" THEN Away
       ELSE [@ EXCEPT !.at = IF Remaining(e) = {} THEN "complete" ELSE "ready"]]
  /\ UNCHANGED <<plan, keyState, effects, regretted, entries>>

\* The process dies, or the plan cannot be written.
ExecutorDies(e) ==
  /\ executor[e].at \notin {"away", "complete"}
  /\ executor' = [executor EXCEPT ![e] = Away]
  /\ UNCHANGED <<plan, planRow, keyState, effects, regretted, entries>>

\* PlanStore.forget.
ForgetPlan ==
  /\ planRow.there
  /\ planRow' = [there |-> FALSE, done |-> {}]
  /\ UNCHANGED <<plan, keyState, executor, effects, regretted, entries>>

PlanNext ==
  \/ ForgetPlan
  \/ \E e \in Executors :
       \/ Execute(e) \/ Resume(e) \/ Declined(e) \/ Cleared(e) \/ ClaimKey(e) \/ StepLands(e)
       \/ StepRaises(e) \/ Abandon(e) \/ RecordOutcome(e) \/ RecordFails(e)
       \/ WriteProgress(e) \/ ExecutorDies(e)

PlanSpec == PlanInit /\ [][PlanNext]_planVars

PlanTypeOK ==
  /\ plan \in PlanInputs
  /\ planRow \in [there: BOOLEAN, done: SUBSET Steps]
  /\ keyState \in [Keys -> {"free", "flying", "recorded"}]
  /\ executor \in [Executors ->
       [at: {"away", "clearing", "ready", "calling", "landed", "abandoning", "failed",
             "written", "complete"}, done: SUBSET Steps]]
  /\ effects \in [Steps -> Nat] /\ regretted \in [Steps -> Nat]
  /\ entries \in 0..MaxEntries

---------------------------------------------------------------------------

\* The steps that are one side effect to the store: same tool, same arguments.
Alike(s) == {t \in Steps : t = s \/ (plan.key[s] # NoKey /\ plan.key[t] = plan.key[s])}

TookEffect(s) == \E t \in Alike(s) : effects[t] > 0

\* docs/planning.md: "A repeat returns the recorded outcome".  Whoever carries
\* the plan, and whatever an executor that fell behind writes over the record,
\* a keyed step takes effect once, unless its tool raised after it did, and
\* only after the steps it waits for; a plan reported complete has taken effect
\* in every step, two alike counting as one.
PlanLandsOnce ==
  /\ \A s \in Steps :
       /\ plan.key[s] # NoKey =>
            Cardinality({t \in Alike(s) : effects[t] > regretted[t]}) <= 1
            /\ effects[s] <= regretted[s] + 1
       /\ effects[s] > 0 => \A d \in plan.after[s] : TookEffect(d)
  /\ \A e \in Executors : executor[e].at = "complete" => \A s \in Steps : TookEffect(s)
=============================================================================
