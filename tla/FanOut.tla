-------------------------------- MODULE FanOut --------------------------------
(* Branches of one fan-out and the run whose budget they spend: fan_out of   *)
(* runtime/parallel.py, Supervisor.delegate, and the budgets that child and  *)
(* sliced of core/budget.py hand to a branch.  One dimension of the ceiling  *)
(* stands for all; a call of a branch is estimated before and charged after, *)
(* and a branch's run has a model call out, or a batch of tool calls.        *)
(* Routing, scopes, the guardrails over an answer and the aggregation rule   *)
(* read what is here and change none of it.                                  *)
EXTENDS Integers, FiniteSets, FiniteSetsExt

CONSTANTS
  Branches,         \* 1..n, in the order they were declared
  FanInputs,        \* per branch: its worker, the key it writes, its slice
  NoWrite,          \* the key of a branch that writes none
  MaxConcurrency,
  MaxFanOut,
  RunCeiling,
  CallEstimate,
  CallCosts,
  MaxParallelCalls  \* max_parallel_tool_calls of a branch's run

ASSUME FanAssumption ==
  /\ Branches = 1..Cardinality(Branches) /\ IsFiniteSet(Branches)
  /\ {MaxConcurrency, MaxFanOut, RunCeiling, CallEstimate, MaxParallelCalls} \subseteq Nat \ {0}
  /\ CallCosts \subseteq Nat /\ \E most \in CallCosts : \A cost \in CallCosts : cost <= most
  /\ \A input \in FanInputs : \A b \in Branches :
       input[b].slice \in Nat /\ input[b].own \in BOOLEAN

VARIABLES
  fanInput,   \* slice 0: neither branch nor worker states one; own: the branch does
  branch,     \* how far it got; what its budget has seen spent, its limit; calls out
  runSpent,   \* the run's own total
  drained,    \* _InFlight.drained
  stopped,    \* the supervisor's switch
  claims,     \* per key, who may write it
  handed      \* delegations made

fanVars == <<fanInput, branch, runSpent, drained, stopped, claims, handed>>

WriteKeys == {input[b].writes : input \in FanInputs, b \in Branches} \ {NoWrite}
FanWorkers == {input[b].worker : input \in FanInputs, b \in Branches}

FanInit ==
  /\ fanInput \in FanInputs
  /\ branch = [b \in Branches |-> [at |-> "queued", used |-> 0, limit |-> 0, out |-> 0]]
  /\ runSpent = 0 /\ handed = 0
  /\ drained = FALSE /\ stopped = FALSE
  /\ claims = [k \in WriteKeys |-> {}]

\* "asking" has a model call out; "breached" and "failing" have met what ends
\* their run, and stop the tool calls that are still out.
InFlight == {b \in Branches : branch[b].at \in {"running", "asking", "breached", "failing"}}
Unfinished == InFlight \cup {b \in Branches : branch[b].at = "queued"}
Sliced(b) == fanInput[b].slice > 0

Ends(b, at) == branch' = [branch EXCEPT ![b].at = at, ![b].out = 0]

\* Past the gate, which lets branches in as they were declared.
Through(b) ==
  /\ branch[b].at = "queued"
  /\ \A c \in Branches : branch[c].at = "queued" => b <= c
  /\ Cardinality(InFlight) < MaxConcurrency

\* What the shared ledger, or the caller's switch, no longer lets start.
NotStarted(b) ==
  /\ Through(b)
  /\ drained \/ stopped
  /\ Ends(b, IF drained THEN "exhausted" ELSE "cancelled")
  /\ UNCHANGED <<fanInput, runSpent, drained, stopped, claims, handed>>

Clash(b) ==
  fanInput[b].writes # NoWrite /\ claims[fanInput[b].writes] \ {fanInput[b].worker} # {}

Claimed(b) ==
  IF fanInput[b].writes = NoWrite THEN claims
  ELSE [claims EXCEPT ![fanInput[b].writes] = {fanInput[b].worker}]

\* delegate refuses: the key is another's, or the run may hand out no more;
\* the second leaves the claim.
DelegateRefuses(b) ==
  /\ Through(b) /\ ~drained /\ ~stopped
  /\ Clash(b) \/ handed = MaxFanOut
  /\ claims' = IF Clash(b) THEN claims ELSE Claimed(b)
  /\ Ends(b, "failed")
  /\ UNCHANGED <<fanInput, runSpent, drained, stopped, handed>>

\* The branch is handed over, with its allowance cut.
HandedOver(b) ==
  /\ Through(b) /\ ~drained /\ ~stopped
  /\ ~Clash(b) /\ handed < MaxFanOut
  /\ claims' = Claimed(b)
  /\ handed' = handed + 1
  /\ UNCHANGED <<fanInput, runSpent, drained, stopped>>

Left == IF runSpent < RunCeiling THEN RunCeiling - runSpent ELSE 0

HandOver(b) ==
  /\ HandedOver(b)
  /\ Sliced(b) => Left > 0
  /\ branch' = [branch EXCEPT ![b] =
       IF Sliced(b)
       THEN [at |-> "running", used |-> 0, limit |-> Min({fanInput[b].slice, Left}), out |-> 0]
       ELSE [at |-> "running", used |-> runSpent, limit |-> RunCeiling, out |-> 0]]

CutOff(r) == [r EXCEPT !.at = "cut", !.out = 0]

\* A slice of nothing is no valid limit: what sliced raises leaves _branch, and
\* the task group takes every branch that is not over with it.
GroupBreaks(b) ==
  /\ HandedOver(b)
  /\ Sliced(b) /\ Left = 0
  /\ branch' = [c \in Branches |-> IF c \in Unfinished THEN CutOff(branch[c]) ELSE branch[c]]

---------------------------------------------------------------------------

Becomes(b, at, used, out) ==
  branch' = [branch EXCEPT ![b].at = at, ![b].used = used, ![b].out = out]

Charged(cost) == runSpent' = runSpent + cost

\* reserve, before a call.
MayStart(b) == branch[b].used + CallEstimate <= branch[b].limit

\* Mutant: a child adds to what it saw and does not look at its parent again.
AbsorbedAlone(b, cost) == branch[b].used + cost

\* _absorb: a child sees what the whole run has spent, a slice its own.
Absorbed(b, cost) == IF Sliced(b) THEN branch[b].used + cost ELSE runSpent + cost

\* What a broken ceiling makes of a branch: of the failures of one batch the
\* first in the order of the calls tells how the run ended.
Breaks(b) == {"breached"} \cup ({branch[b].at} \cap {"failing"})

AskModel(b) ==
  /\ branch[b].at = "running" /\ branch[b].out = 0
  /\ IF MayStart(b) THEN Becomes(b, "asking", branch[b].used, 1)
                    ELSE Becomes(b, "breached", branch[b].used, 0)
  /\ UNCHANGED <<fanInput, runSpent, drained, stopped, claims, handed>>

\* An answer, or a failure, which is charged as estimated.
ModelReturns(b, cost) ==
  /\ branch[b].at = "asking"
  /\ Charged(cost)
  /\ \E at \in IF Absorbed(b, cost) > branch[b].limit THEN {"breached"}
                                                      ELSE {"running", "ok", "failing"} :
       Becomes(b, at, Absorbed(b, cost), 0)
  /\ UNCHANGED <<fanInput, drained, stopped, claims, handed>>

\* _invoke, as far as the tool: what the call may cost is held, and the call
\* counted, which charges nothing here but looks at the whole run again and
\* lets the hold go.  Nothing comes between the two.
CallTool(b) ==
  /\ branch[b].at \in {"running", "failing"} /\ branch[b].out < MaxParallelCalls
  /\ IF MayStart(b)
     THEN IF Absorbed(b, 0) > branch[b].limit
          THEN \E at \in Breaks(b) : Becomes(b, at, Absorbed(b, 0), branch[b].out)
          ELSE Becomes(b, branch[b].at, Absorbed(b, 0), branch[b].out + 1)
     ELSE \E at \in Breaks(b) : Becomes(b, at, branch[b].used, branch[b].out)
  /\ UNCHANGED <<fanInput, runSpent, drained, stopped, claims, handed>>

\* A result is back: the charge stands whatever it breaks, and also when a
\* sibling of the batch has broken the ceiling just before.
ToolAnswers(b, cost) ==
  /\ branch[b].at \in {"running", "breached", "failing"} /\ branch[b].out > 0
  /\ Charged(cost)
  /\ \E at \in IF Absorbed(b, cost) > branch[b].limit THEN Breaks(b) ELSE {branch[b].at} :
       Becomes(b, at, Absorbed(b, cost), branch[b].out - 1)
  /\ UNCHANGED <<fanInput, drained, stopped, claims, handed>>

\* A tool that failed charges nothing, whether or not it ends the run.
ToolFails(b) ==
  /\ branch[b].at \in {"running", "breached", "failing"} /\ branch[b].out > 0
  /\ \E at \in {branch[b].at, "failing"} : Becomes(b, at, branch[b].used, branch[b].out - 1)
  /\ UNCHANGED <<fanInput, runSpent, drained, stopped, claims, handed>>

\* The delegate returns: what was out is cut, and a branch without a slice of
\* its own that ran out tells those that wait.
BranchOver(b) ==
  /\ \/ branch[b].at = "breached" /\ Ends(b, "exhausted") /\ drained' = (drained \/ ~fanInput[b].own)
     \/ branch[b].at = "failing" /\ Ends(b, "failed") /\ UNCHANGED drained
  /\ UNCHANGED <<fanInput, runSpent, stopped, claims, handed>>

StopFanOut ==
  /\ ~stopped /\ Unfinished # {}
  /\ stopped' = TRUE
  /\ UNCHANGED <<fanInput, branch, runSpent, drained, claims, handed>>

\* A branch notices the switch; a model call it has out is charged as estimated
\* (_settle_the_hold), a tool call not at all.
BranchCancelled(b) ==
  /\ stopped /\ b \in InFlight
  /\ branch[b].at \in {"running", "asking"} \/ branch[b].out > 0
  /\ Ends(b, "cancelled")
  /\ Charged(IF branch[b].at = "asking" THEN CallEstimate ELSE 0)
  /\ UNCHANGED <<fanInput, drained, stopped, claims, handed>>

FanNext ==
  \/ \E b \in Branches :
       \/ NotStarted(b) \/ DelegateRefuses(b) \/ HandOver(b) \/ GroupBreaks(b)
       \/ AskModel(b) \/ CallTool(b) \/ ToolFails(b) \/ BranchOver(b) \/ BranchCancelled(b)
       \/ \E cost \in CallCosts \cup {CallEstimate} : ModelReturns(b, cost)
       \/ \E cost \in CallCosts : ToolAnswers(b, cost)
  \/ StopFanOut

FanSpec == FanInit /\ [][FanNext]_fanVars

FanTypeOK ==
  /\ fanInput \in FanInputs
  /\ branch \in [Branches ->
       [at: {"queued", "running", "asking", "breached", "failing",
             "ok", "failed", "exhausted", "cancelled", "cut"},
        used: Nat, limit: 0..RunCeiling, out: 0..MaxParallelCalls]]
  /\ runSpent \in Nat /\ handed \in 0..MaxFanOut
  /\ drained \in BOOLEAN /\ stopped \in BOOLEAN
  /\ claims \in [WriteKeys -> SUBSET FanWorkers]
  /\ \A k \in WriteKeys : Cardinality(claims[k]) <= 1

---------------------------------------------------------------------------

\* What one call may cost: a cancelled one is charged as estimated.
CostliestCall == Max(CallCosts \cup {CallEstimate})

\* What the calls cost that a branch may have out at once.
FullBatch == MaxParallelCalls * CostliestCall

\* What a branch may still spend when the run's ceiling is passed: a batch, or
\* what is left of its slice and the last batch beyond it.
Reach(b) == FullBatch + (IF Sliced(b) THEN fanInput[b].slice - CallEstimate ELSE 0)

\* docs/parallel.md has branches that each respect the run's ceiling breach it
\* together.  However they interleave, they pass it by no more than the
\* branches that can be in flight at once can have out, each a full batch of
\* calls that were all estimated on the same budget, since a hold is gone as
\* soon as the call is counted: a child sees what the whole run spent when it
\* counts a call and when it charges one, and whoever starts later starts with
\* nothing left.
OverrunIsBounded ==
  \E last \in SUBSET Branches :
    /\ Cardinality(last) <= MaxConcurrency
    /\ runSpent <= RunCeiling + MapThenSumSet(Reach, last)
==============================================================================
