------------------------------ MODULE RunLoop ------------------------------
(***************************************************************************)
(* One durable run of an agent (runtime/loop.py), the workers that drive   *)
(* it one after another or at the same time, and the stores that outlive   *)
(* them: the frontier (runtime/checkpoint.py), the idempotency records     *)
(* (core/idempotency.py), the suspension that waits for a human            *)
(* (runtime/suspension.py) and the world the tools act on.                 *)
(*                                                                         *)
(* A worker makes one attempt: `run` for the first, `resume` or            *)
(* `resume_with_decision` for the others.  It asks the model, clears the   *)
(* calls of the answer one by one, fans them out, merges what came back,   *)
(* and goes round.  It may die between any two steps.                      *)
(*                                                                         *)
(* A call stands for a tool with its arguments, which is what a key, an    *)
(* approval and a repeat are told apart by.                                *)
(***************************************************************************)
EXTENDS Naturals, Sequences, FiniteSets

CONSTANTS
    Workers,        \* the attempts that may be made at the run
    Calls,          \* the tool calls the model can ask for
    Keyed,          \* tools declaring `idempotent` or `effectful`: a key is held
    Effectful,      \* tools declaring `effectful`
    Repeatable,     \* tools in the agent's `idempotent_tools`
    Transient,      \* tools that may raise a ToolError that says it is retryable
    Gated,          \* tools that need a human's approval
    Serial,         \* tools that are not `parallel_safe`
    Replies,        \* the batches of calls a model answer can carry
    MaxIterations,  \* bound: `max_iterations` of the runner
    MaxRetries,     \* bound: retries one tool may consume in a run, `max_tool_attempts`
    MaxBatches,     \* bound: batches of calls the model asks for in all
    NoCall,         \* stands for no call
    NoOne           \* stands for no worker

ASSUME CallsAssumption ==
    /\ Effectful \subseteq Keyed /\ Keyed \subseteq Calls
    /\ Repeatable \subseteq Calls /\ Transient \subseteq Calls
    /\ Gated \subseteq Calls /\ Serial \subseteq Calls
    /\ NoCall \notin Calls /\ NoOne \notin Workers
ASSUME RepliesAssumption ==
    \A r \in Replies : /\ r \in Seq(Calls) /\ Len(r) > 0
                       /\ \A i, j \in 1..Len(r) : r[i] = r[j] => i = j
ASSUME LimitsAssumption == MaxIterations \in Nat \ {0} /\ MaxRetries \in Nat /\ MaxBatches \in Nat

VARIABLES
    attempt,     \* worker -> where it is in the loop, and what its Run object holds
    call,        \* worker -> call -> how far the call of the present batch got
    body,        \* worker -> call -> a tool body that may still change the world
    key,         \* call -> its idempotency record
    claim,       \* who holds `resume:<run>`
    checkpoint,  \* the stored frontier
    asked,       \* the stored suspension
    landed,      \* call -> how often its effect took place in the world
    granted,     \* call -> how many times a human said yes to it
    batches      \* how many batches of calls the model has asked for

vars == <<attempt, call, body, key, claim, checkpoint, asked, landed, granted, batches>>
stores == <<key, claim, checkpoint, asked>>
world == <<landed, granted, batches>>

----------------------------------------------------------------------------
(* Frontiers, suspensions, decisions *)

Boundaries == {"nothing", "after_model_call", "after_tool_result", "before_approval"}

\* `open` is the calls of the conversation no tool message answers yet.
Frontier(boundary, iteration, pending, open) ==
    [boundary |-> boundary, iteration |-> iteration, pending |-> pending, open |-> open]
NoFrontier == Frontier("nothing", 0, NoCall, {})

\* A checkpoint too large or refused by its store is not written, and the run goes on.
Recorded(frontier) == checkpoint' \in {checkpoint, frontier}

NoQuestion == [call |-> NoCall, spent |-> TRUE]
NoDecision == [call |-> NoCall, yes |-> FALSE]

Idle == [step |-> "idle", iteration |-> 0, batch |-> <<>>, at |-> 0,
         tries |-> [c \in Calls |-> 0],
         open |-> {}, decided |-> NoDecision, named |-> {}, mine |-> {},
         unreported |-> {}, cancelled |-> FALSE, outcome |-> "none",
         frontier |-> NoFrontier]
Begun == [Idle EXCEPT !.step = "turn", !.iteration = 1]

Init ==
    /\ \E first \in Workers :
         attempt = [w \in Workers |-> IF w = first THEN Begun ELSE Idle]
    /\ call = [w \in Workers |-> [c \in Calls |-> "none"]]
    /\ body = [w \in Workers |-> [c \in Calls |-> FALSE]]
    /\ key = [c \in Calls |-> "free"]
    /\ claim = NoOne
    /\ checkpoint = NoFrontier
    /\ asked = NoQuestion
    /\ landed = [c \in Calls |-> 0]
    /\ granted = [c \in Calls |-> 0]
    /\ batches = 0

----------------------------------------------------------------------------
(* The end of an attempt *)

NoBatch(w) == call' = [call EXCEPT ![w] = [c \in Calls |-> "none"]]

\* _terminate: the run is in its last state; its frontier is still to be forgotten.
Ended(w, outcome) ==
    /\ attempt' = [attempt EXCEPT ![w] =
           [Idle EXCEPT !.step = "ending", !.outcome = outcome, !.named = attempt[w].named,
                        !.mine = attempt[w].mine, !.unreported = attempt[w].unreported]]
    /\ NoBatch(w)

\* The worker is done with the run, and what it held in memory is gone.
Over(w, outcome) ==
    /\ attempt' = [attempt EXCEPT ![w] = [Idle EXCEPT !.step = "over", !.outcome = outcome]]
    /\ NoBatch(w)

\* _terminate names the tools whose effect outlived a run that did not complete.
ToCompensate(w) ==
    IF attempt[w].outcome = "completed" THEN {} ELSE attempt[w].named \ Repeatable

Forget(w) ==
    /\ attempt[w].step = "ending"
    /\ checkpoint' = NoFrontier
    /\ attempt' = [attempt EXCEPT ![w].step = "over"]
    /\ UNCHANGED <<call, body, key, claim, asked, world>>

----------------------------------------------------------------------------
(* One turn of the loop: the model is asked, and the frontier is written    *)
(* before its answer joins the conversation.                                *)

NextTurn(a) ==
    [a EXCEPT !.step = "turn", !.iteration = a.iteration + 1, !.batch = <<>>, !.at = 0,
              !.frontier = NoFrontier]

\* Cancelled, out of iterations or budget, refused by a hook, or no model answered.
GiveUp(w) ==
    /\ attempt[w].step = "turn"
    /\ Ended(w, IF attempt[w].cancelled THEN "cancelled" ELSE "failed")
    /\ UNCHANGED <<body, stores, world>>

MayAsk(a) == a.step = "turn" /\ ~a.cancelled /\ a.iteration <= MaxIterations

AskedForCalls(w) ==
    LET a == attempt[w] IN
    /\ MayAsk(a)
    /\ batches < MaxBatches /\ batches' = batches + 1
    /\ Recorded(Frontier("after_model_call", a.iteration, NoCall, a.open))
    /\ \E reply \in Replies :
         attempt' = [attempt EXCEPT ![w] =
             [a EXCEPT !.step = "clearing", !.batch = reply, !.at = 1,
                       !.open = a.open \cup {reply[i] : i \in 1..Len(reply)}]]
    /\ UNCHANGED <<call, body, key, claim, asked, landed, granted>>

\* A final answer; one that fails validation is sent back for repair.
Answered(w) ==
    LET a == attempt[w] IN
    /\ MayAsk(a)
    /\ \/ /\ Ended(w, "completed")
          /\ Recorded(Frontier("after_model_call", a.iteration, NoCall, a.open))
       \/ /\ attempt' = [attempt EXCEPT ![w] = NextTurn(a)]
          /\ \E boundary \in {"after_model_call", "after_tool_result"} :
               Recorded(Frontier(boundary, a.iteration, NoCall, a.open))
          /\ UNCHANGED call
    /\ UNCHANGED <<body, key, claim, asked, world>>

----------------------------------------------------------------------------
(* Clearing a batch: each call in the model's order, before any goes out. *)

Clearing(w) == attempt[w].step = "clearing"
AtCall(w) == attempt[w].batch[attempt[w].at]

\* The call is decided; the next is looked at, or the batch goes out.
Past(w, decided) ==
    LET a == attempt[w] IN
    [a EXCEPT !.at = a.at + 1, !.decided = decided,
              !.step = IF a.at = Len(a.batch) THEN "fanning" ELSE "clearing"]

Settles(w, state) == call' = [call EXCEPT ![w][AtCall(w)] = state]

ClearUngated(w) ==
    /\ Clearing(w) /\ AtCall(w) \notin Gated
    /\ Settles(w, "cleared")
    /\ attempt' = [attempt EXCEPT ![w] = Past(w, attempt[w].decided)]
    /\ UNCHANGED <<body, stores, world>>

\* The allowlist, the run's authority, a hook, the autonomy gate or the audit refuse it.
RefuseBatch(w) ==
    /\ Clearing(w)
    /\ Ended(w, "failed")
    /\ UNCHANGED <<body, stores, world>>

\* A decision that came with the resume is used once, for the call it names.
UseDecision(w) ==
    LET a == attempt[w] IN
    /\ Clearing(w) /\ AtCall(w) \in Gated /\ a.decided.call = AtCall(w)
    /\ Settles(w, IF a.decided.yes THEN "cleared" ELSE "declined")
    /\ attempt' = [attempt EXCEPT ![w] = Past(w, NoDecision)]
    /\ UNCHANGED <<body, stores, world>>

MustAsk(w) ==
    Clearing(w) /\ AtCall(w) \in Gated /\ attempt[w].decided.call # AtCall(w)

\* The transport carries the answer back in its own reply.
AnsweredInline(w) ==
    /\ MustAsk(w)
    /\ \E yes \in BOOLEAN :
         /\ Settles(w, IF yes THEN "cleared" ELSE "declined")
         /\ granted' = [granted EXCEPT ![AtCall(w)] = @ + (IF yes THEN 1 ELSE 0)]
    /\ attempt' = [attempt EXCEPT ![w] = Past(w, attempt[w].decided)]
    /\ UNCHANGED <<body, stores, landed, batches>>

CancelledWaiting(w) ==
    /\ MustAsk(w) /\ attempt[w].cancelled
    /\ Ended(w, "cancelled")
    /\ UNCHANGED <<body, stores, world>>

\* The gate defers: the frontier is written, with the held call pending on it ...
Defer(w) ==
    LET a == attempt[w] IN
    /\ MustAsk(w)
    /\ Recorded(Frontier("before_approval", a.iteration, AtCall(w), a.open))
    /\ attempt' = [attempt EXCEPT ![w].step = "deferred"]
    /\ UNCHANGED <<call, body, key, claim, asked, world>>

\* ... then the suspension, and the run is let go of.
Suspend(w) ==
    /\ attempt[w].step = "deferred"
    /\ asked' = [call |-> AtCall(w), spent |-> FALSE]
    /\ Over(w, "suspended")
    /\ UNCHANGED <<body, key, claim, checkpoint, world>>

----------------------------------------------------------------------------
(* The fan-out *)

\* Mutant: a call counts as over once its tool was called.
SettledOnceCalled == {"inside", "declined", "answered", "failed", "aborted", "cut", "never"}

Settled == {"declined", "answered", "failed", "aborted", "cut", "never"}
Lost == {"failed", "aborted"}
InBatch(w) == {attempt[w].batch[i] : i \in 1..Len(attempt[w].batch)}
Fanning(w) == attempt[w].step = "fanning"

\* Phases: a serial call runs alone, after all that precedes it and before what follows.
MayEnter(w, c) ==
    \E i \in 1..Len(attempt[w].batch) :
        /\ attempt[w].batch[i] = c
        /\ \A j \in 1..(i - 1) :
             \/ call[w][attempt[w].batch[j]] \in Settled
             \/ {c, attempt[w].batch[j]} \cap Serial = {}

Enter(w, c) ==
    /\ Fanning(w) /\ c \in InBatch(w) /\ call[w][c] = "cleared" /\ MayEnter(w, c)
    /\ call' = [call EXCEPT ![w][c] = "entered"]
    /\ UNCHANGED <<attempt, body, stores, world>>

At(w, c, state) == Fanning(w) /\ call[w][c] = state
Becomes(w, c, state) == call' = [call EXCEPT ![w][c] = state]
Names(w, c) == attempt' = [attempt EXCEPT ![w].named = @ \cup {c}]
Quiet(w, c) == body' = [body EXCEPT ![w][c] = FALSE]

\* A key nobody holds is taken; a tool that declares nothing holds none.
Takes(w, c) ==
    /\ At(w, c, "entered")
    /\ c \in Keyed => key[c] = "free"
    /\ key' = IF c \in Keyed THEN [key EXCEPT ![c] = "held"] ELSE key

\* Mutant: the outcome is recorded before there is one.
RecordFirst(w, c) ==
    /\ At(w, c, "entered") /\ c \in Keyed /\ key[c] = "free" /\ ~attempt[w].cancelled
    /\ key' = [key EXCEPT ![c] = "done"]
    /\ Becomes(w, c, "inside")
    /\ body' = [body EXCEPT ![w][c] = TRUE]
    /\ UNCHANGED <<attempt, claim, checkpoint, asked, world>>

\* _holding then _spent: the key is taken and the call charged before it goes out.
Dispatch(w, c) ==
    /\ Takes(w, c) /\ ~attempt[w].cancelled
    /\ Becomes(w, c, "inside")
    /\ body' = [body EXCEPT ![w][c] = TRUE]
    /\ UNCHANGED <<attempt, claim, checkpoint, asked, world>>

\* The budget refuses the charge: the tool does not run, and its key stays held.
OverBudget(w, c) ==
    /\ Takes(w, c)
    /\ Becomes(w, c, "failed")
    /\ UNCHANGED <<attempt, body, claim, checkpoint, asked, world>>

\* Cancelled before the tool was called: reported as indeterminate all the same.
Forestall(w, c) ==
    /\ Takes(w, c) /\ attempt[w].cancelled
    /\ Becomes(w, c, "aborted")
    /\ Names(w, c)
    /\ UNCHANGED <<body, claim, checkpoint, asked, world>>

\* The record of a call that already ran answers this one.
Deduplicate(w, c) ==
    /\ At(w, c, "entered") /\ c \in Keyed /\ key[c] = "done"
    /\ Becomes(w, c, "answered")
    /\ UNCHANGED <<attempt, body, stores, world>>

\* Mutant: a call whose key another holds goes on waiting.
PollForEver(w, c) ==
    /\ At(w, c, "entered") /\ c \in Keyed /\ key[c] = "free"
    /\ Becomes(w, c, "failed")
    /\ Names(w, c)
    /\ UNCHANGED <<body, stores, world>>

\* The key's holder never said, or the store cannot be reached: nobody may guess.
Undecidable(w, c) ==
    /\ At(w, c, "entered") /\ c \in Keyed /\ key[c] # "done"
    /\ Becomes(w, c, "failed")
    /\ Names(w, c)
    /\ UNCHANGED <<body, stores, world>>

\* The tool's effect takes place, whether or not anyone still waits for it.
Land(w, c) ==
    /\ body[w][c]
    /\ landed' = [landed EXCEPT ![c] = @ + 1]
    /\ Quiet(w, c)
    /\ attempt' = [attempt EXCEPT ![w].mine = @ \cup {c}]
    /\ UNCHANGED <<call, stores, granted, batches>>

\* Arguments refused, or a ToolRefusal: nothing ran, so the key is let go.  What an
\* earlier try did is not reported.
Declined(w, c) ==
    /\ At(w, c, "inside") /\ body[w][c]
    /\ key' = IF c \in Keyed THEN [key EXCEPT ![c] = "free"] ELSE key
    /\ Quiet(w, c)
    /\ \E state \in {"answered", "failed"} : Becomes(w, c, state)
    /\ attempt' = [attempt EXCEPT ![w].unreported =
           IF attempt[w].tries[c] > 0 THEN @ \cup {c} ELSE @]
    /\ UNCHANGED <<claim, checkpoint, asked, world>>

\* The tool raised, before or after its effect.  It is tried again on its declaration
\* or when its error says so, an effectful one never.
BackOff(w, c) ==
    /\ At(w, c, "inside") /\ c \in (Repeatable \cup Transient) \ Effectful
    /\ attempt[w].tries[c] < MaxRetries
    /\ Becomes(w, c, "waiting")
    /\ Quiet(w, c)
    /\ attempt' = [attempt EXCEPT ![w].tries[c] = @ + 1]
    /\ UNCHANGED <<stores, world>>

Again(w, c) ==
    /\ At(w, c, "waiting") /\ ~attempt[w].cancelled
    /\ Becomes(w, c, "inside")
    /\ body' = [body EXCEPT ![w][c] = TRUE]
    /\ UNCHANGED <<attempt, stores, world>>

\* Cancelled while it waits: only the cancellation is recorded, not the call.
CancelledBackingOff(w, c) ==
    /\ At(w, c, "waiting") /\ attempt[w].cancelled
    /\ Becomes(w, c, "aborted")
    /\ attempt' = [attempt EXCEPT ![w].unreported = @ \cup {c}]
    /\ UNCHANGED <<body, stores, world>>

\* Mutant: whatever raised lets its key go.
RaiseAndRelease(w, c) ==
    /\ At(w, c, "inside")
    /\ \E state \in IF c \in Effectful THEN {"failed"} ELSE {"failed", "answered"} :
         Becomes(w, c, state)
    /\ Names(w, c)
    /\ Quiet(w, c)
    /\ key' = IF c \in Keyed THEN [key EXCEPT ![c] = "free"] ELSE key
    /\ UNCHANGED <<claim, checkpoint, asked, world>>

Raise(w, c) ==
    /\ At(w, c, "inside")
    /\ \E state \in IF c \in Effectful THEN {"failed"} ELSE {"failed", "answered"} :
         Becomes(w, c, state)
    /\ Names(w, c)
    /\ Quiet(w, c)
    /\ UNCHANGED <<stores, world>>

\* Mutant: a call given up on is not reported.
AbortUnnamed(w, c) ==
    /\ At(w, c, "inside")
    /\ Becomes(w, c, "aborted")
    /\ UNCHANGED <<attempt, body, stores, world>>

\* Cancelled or out of time: the call is indeterminate, its body perhaps still running.
Abort(w, c) ==
    /\ At(w, c, "inside")
    /\ Becomes(w, c, "aborted")
    /\ Names(w, c)
    /\ UNCHANGED <<body, stores, world>>

Returned(w, c) == At(w, c, "inside") /\ ~body[w][c]
Recording(c) == key' = IF c \in Keyed THEN [key EXCEPT ![c] = "done"] ELSE key

\* The tool returned: its outcome is recorded, its result charged and reported.
Return(w, c) ==
    /\ Returned(w, c)
    /\ Recording(c)
    /\ Becomes(w, c, "answered")
    /\ Names(w, c)
    /\ UNCHANGED <<body, claim, checkpoint, asked, world>>

\* The result breaks a ceiling: the run ends before TOOL_RESULT is recorded.
Overdraw(w, c) ==
    /\ Returned(w, c)
    /\ Recording(c)
    /\ Becomes(w, c, "failed")
    /\ attempt' = [attempt EXCEPT ![w].unreported = @ \cup {c}]
    /\ UNCHANGED <<body, claim, checkpoint, asked, world>>

\* The outcome cannot be recorded: it landed and nothing remembers it.
Unrecorded(w, c) ==
    /\ Returned(w, c) /\ c \in Keyed
    /\ Becomes(w, c, "failed")
    /\ Names(w, c)
    /\ UNCHANGED <<body, stores, world>>

\* A sibling ended the batch, or the caller cancelled: what waits for its lane never
\* goes out, and what went out is indeterminate.
StopShort(w) ==
    LET losing == \E c \in InBatch(w) : call[w][c] \in Lost
        stopped == {c \in InBatch(w) : /\ call[w][c] \notin Settled
                                       /\ losing \/ MayEnter(w, c)}
    IN
    /\ Fanning(w) /\ (losing \/ attempt[w].cancelled) /\ stopped # {}
    /\ call' = [call EXCEPT ![w] = [c \in Calls |->
           IF c \notin stopped THEN @[c]
           ELSE IF @[c] = "cleared" THEN "never" ELSE "cut"]]
    /\ attempt' = [attempt EXCEPT ![w].named = @ \cup stopped]
    /\ UNCHANGED <<body, stores, world>>

\* Every call came back.  The first that ended the run says how; otherwise the results
\* join the conversation and the loop writes the frontier.  A resume that dispatched the
\* call its frontier held goes on to the loop without writing one.
Merge(w) ==
    LET a == attempt[w]
        lost == {i \in 1..Len(a.batch) : call[w][a.batch[i]] \in Lost}
        first == CHOOSE i \in lost : \A j \in lost : i <= j
        merged == [a EXCEPT !.open = @ \ InBatch(w)]
    IN
    /\ Fanning(w)
    /\ \A c \in InBatch(w) : call[w][c] \in Settled
    /\ \/ /\ lost # {}
          /\ Ended(w, IF call[w][a.batch[first]] = "aborted" THEN "cancelled" ELSE "failed")
          /\ UNCHANGED checkpoint
       \/ /\ lost = {}    \* a hook refuses what came back
          /\ Ended(w, "failed")
          /\ UNCHANGED checkpoint
       \/ /\ lost = {}
          /\ IF a.frontier = NoFrontier
             THEN Recorded(Frontier("after_tool_result", a.iteration, NoCall, merged.open))
             ELSE UNCHANGED checkpoint
          /\ attempt' = [attempt EXCEPT ![w] = NextTurn(merged)]
          /\ NoBatch(w)
    /\ UNCHANGED <<body, key, claim, asked, world>>

----------------------------------------------------------------------------
(* Carrying the run on *)

\* Mutant: a token answers as often as it is shown.
RedeemTwice(w) ==
    /\ attempt[w].step = "idle" /\ asked.call # NoCall
    /\ asked' = [asked EXCEPT !.spent = TRUE]
    /\ \E yes \in BOOLEAN :
         /\ granted' = [granted EXCEPT ![asked.call] =
                @ + (IF yes /\ ~asked.spent THEN 1 ELSE 0)]
         /\ attempt' = [attempt EXCEPT ![w].step = "resuming",
                ![w].decided = [call |-> asked.call, yes |-> yes]]
    /\ UNCHANGED <<call, body, key, claim, checkpoint, landed, batches>>

\* The token is redeemed first, once.  A moved model then refuses to go on.
Redeem(w) ==
    /\ attempt[w].step = "idle" /\ ~asked.spent
    /\ asked' = [asked EXCEPT !.spent = TRUE]
    /\ \E yes \in BOOLEAN :
         /\ granted' = [granted EXCEPT ![asked.call] = @ + (IF yes THEN 1 ELSE 0)]
         /\ \/ /\ attempt' = [attempt EXCEPT ![w].step = "resuming",
                           ![w].decided = [call |-> asked.call, yes |-> yes]]
               /\ UNCHANGED call
            \/ Over(w, "refused")
    /\ UNCHANGED <<body, key, claim, checkpoint, landed, batches>>

\* The frontier is read before the run is claimed.
ReadFrontier(w, from) ==
    /\ attempt[w].step = from
    /\ checkpoint # NoFrontier
    /\ attempt' = [attempt EXCEPT ![w].step = "claiming", ![w].frontier = checkpoint]
    /\ UNCHANGED <<call, body, stores, world>>

NothingToResume(w) ==
    /\ attempt[w].step = "resuming" /\ checkpoint = NoFrontier
    /\ Over(w, "refused")
    /\ UNCHANGED <<body, stores, world>>

\* The loop only ever writes pending calls as not dispatched, so the plan is to
\* dispatch the held call, through clearing, and otherwise to ask the model again.
Claim(w) ==
    LET a == attempt[w]
        f == a.frontier
        restored == [a EXCEPT !.iteration = f.iteration, !.open = f.open]
    IN
    /\ a.step = "claiming" /\ claim = NoOne
    /\ claim' = w
    /\ attempt' = [attempt EXCEPT ![w] =
           IF f.pending = NoCall THEN NextTurn(restored)
           ELSE [restored EXCEPT !.step = "clearing", !.batch = <<f.pending>>, !.at = 1,
                                 !.open = f.open \cup {f.pending}]]
    /\ UNCHANGED <<call, body, key, checkpoint, asked, world>>

Conflict(w) ==
    /\ attempt[w].step = "claiming" /\ claim # NoOne
    /\ Over(w, "conflict")
    /\ UNCHANGED <<body, stores, world>>

----------------------------------------------------------------------------
(* What happens to a worker *)

Live(w) == attempt[w].step \notin {"idle", "over"}

Cancel(w) ==
    /\ attempt[w].step \in {"turn", "clearing", "fanning"} /\ ~attempt[w].cancelled
    /\ attempt' = [attempt EXCEPT ![w].cancelled = TRUE]
    /\ UNCHANGED <<call, body, stores, world>>

Crash(w) ==
    /\ Live(w)
    /\ Over(w, "crashed")
    /\ UNCHANGED <<body, stores, world>>

\* Nobody records or abandons the claim: five minutes on, it lapses.
ClaimLapses ==
    /\ claim # NoOne
    /\ claim' = NoOne
    /\ UNCHANGED <<attempt, call, body, key, checkpoint, asked, world>>

CallStep(w, c) ==
    \/ Enter(w, c) \/ Dispatch(w, c) \/ OverBudget(w, c) \/ Forestall(w, c)
    \/ Deduplicate(w, c) \/ Undecidable(w, c) \/ Declined(w, c)
    \/ BackOff(w, c) \/ Again(w, c) \/ CancelledBackingOff(w, c) \/ Raise(w, c) \/ Abort(w, c)
    \/ Return(w, c) \/ Overdraw(w, c) \/ Unrecorded(w, c)

Step(w) ==
    \/ GiveUp(w) \/ AskedForCalls(w) \/ Answered(w)
    \/ ClearUngated(w) \/ RefuseBatch(w) \/ UseDecision(w) \/ AnsweredInline(w)
    \/ CancelledWaiting(w) \/ Defer(w) \/ Suspend(w)
    \/ \E c \in Calls : CallStep(w, c)
    \/ StopShort(w) \/ Merge(w) \/ Forget(w)
    \/ ReadFrontier(w, "resuming") \/ NothingToResume(w) \/ Claim(w) \/ Conflict(w)

Next ==
    \/ \E w \in Workers :
         \/ Step(w) \/ Redeem(w) \/ ReadFrontier(w, "idle") \/ Cancel(w) \/ Crash(w)
         \/ \E c \in Calls : Land(w, c)
    \/ ClaimLapses

Spec == Init /\ [][Next]_vars

\* A worker goes on, but a lane is given it by whoever is in it (Lanes): entering one is
\* the step it cannot take by itself.
GoesOn(w) == Step(w) /\ ~\E c \in Calls : Enter(w, c)
FairSpec == Spec /\ \A w \in Workers : WF_vars(GoesOn(w))
----------------------------------------------------------------------------
(* What must hold *)

Steps == {"idle", "resuming", "claiming", "turn", "clearing", "deferred", "fanning",
          "ending", "over"}
Outcomes == {"none", "completed", "failed", "cancelled", "suspended", "conflict",
             "refused", "crashed"}
CallStates == {"none", "cleared", "entered", "inside", "waiting"} \cup Settled
Frontiers == [boundary : Boundaries, iteration : Nat, pending : Calls \cup {NoCall},
              open : SUBSET Calls]
Attempts ==
    [step : Steps, iteration : Nat, batch : Seq(Calls), at : Nat, tries : [Calls -> Nat],
     open : SUBSET Calls, decided : [call : Calls \cup {NoCall}, yes : BOOLEAN],
     named : SUBSET Calls, mine : SUBSET Calls, unreported : SUBSET Calls,
     cancelled : BOOLEAN, outcome : Outcomes, frontier : Frontiers]

\* Every variable is of its type, and a worker clearing a batch is at one of its calls.
TypeOK ==
    /\ attempt \in [Workers -> Attempts]
    /\ call \in [Workers -> [Calls -> CallStates]]
    /\ body \in [Workers -> [Calls -> BOOLEAN]]
    /\ key \in [Calls -> {"free", "held", "done"}]
    /\ claim \in Workers \cup {NoOne}
    /\ checkpoint \in Frontiers
    /\ asked \in [call : Calls \cup {NoCall}, spent : BOOLEAN]
    /\ landed \in [Calls -> Nat] /\ granted \in [Calls -> Nat] /\ batches \in Nat
    /\ \A w \in Workers :
         attempt[w].step \in {"clearing", "deferred"} => attempt[w].at \in 1..Len(attempt[w].batch)

\* An effectful call changes the world at most once in a run, however often its workers
\* die, are cancelled, give up on it or drive the run at the same time
\* (_holding, _release, _refuse_to_repeat_an_effect).
EffectsLandOnce == \A c \in Effectful : landed[c] <= 1

\* A record that answers a repeat stands for an effect that took place: nobody is told
\* "already executed" of a call that never ran (_record, _already_done).
RecordsAreTrue == \A c \in Keyed : key[c] = "done" => landed[c] > 0

\* One decision buys one action: a gated call that may not be retried on its own word took effect at most as often as a human said yes to it (_approved, redeem).
EffectsWereApproved == \A c \in Gated \ (Repeatable \cup Transient) : landed[c] <= granted[c]

Ends(w) == attempt[w].step = "over" /\ attempt[w].outcome \in {"failed", "cancelled"}
Outliving(w) == attempt[w].mine \ Repeatable

\* An attempt that ends in failure or cancellation names every call whose effect it let
\* into the world, except those whose result broke the budget and those that were cancelled
\* or refused after a first try (_to_compensate).
NamedUnlessUnreported ==
    \A w \in Workers :
        Ends(w) => Outliving(w) \subseteq ToCompensate(w) \cup attempt[w].unreported

\* A worker that let a run go to wait for a human left nothing of its own running.
SuspendedRunsHoldNothing ==
    \A w \in Workers : attempt[w].outcome = "suspended" => \A c \in Calls : ~body[w][c]

\* The model is only asked with a conversation every call of which was answered: a resumed
\* attempt enters the loop "already carrying whatever its outstanding calls returned"
\* (_drive), and a frontier holds the "calls outstanding at the boundary" (Checkpoint).
EveryCallCameBack == \A w \in Workers : attempt[w].step = "turn" => attempt[w].open = {}

\* A frontier written for a call that waits for a human has no other call unanswered.
NothingLeftBehind ==
    checkpoint.boundary = "before_approval" => checkpoint.open \subseteq {checkpoint.pending}

AtLane(w, c) == Fanning(w) /\ call[w][c] = "cleared" /\ MayEnter(w, c)

\* A worker that goes on taking steps ends its attempt, if none of its calls waits for ever
\* for its lane, and then too once it is cancelled: nothing else is waited on for ever, a key
\* or a sibling.  The wait for a lane is outside every deadline of a call (_one_call).
AttemptsEnd ==
    \A w \in Workers :
        /\ (\A c \in Calls : []<>~AtLane(w, c)) => (Live(w) ~> ~Live(w))
        /\ (Live(w) /\ attempt[w].cancelled) ~> ~Live(w)
=============================================================================
