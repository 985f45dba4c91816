--------------------------- MODULE RunLoopProofs ---------------------------
(* Proofs about RunLoop, for any workers, tools, replies and limits. *)
EXTENDS RunLoop, FiniteSetTheorems, TLAPS

-----------------------------------------------------------------------------
(* The strengthening.  EffectsLandOnce and RecordsAreTrue are not inductive: *)
(* what keeps a second effect out is that an effectful call has one user at  *)
(* most, and that its key is free only while it has none.                    *)

\* A worker waits for the call, or the tool's body may still act for one that left.
Uses(w, c) == call[w][c] = "inside" \/ body[w][c]

\* A worker waits for a call whose tool is no longer running.
Awaits(w, c) == call[w][c] = "inside" /\ ~body[w][c]

\* A tool that came back took effect, and so did whatever a record answers for.
Truthful(c) ==
    /\ \A w \in Workers : Awaits(w, c) => landed[c] > 0
    /\ c \in Keyed /\ key[c] = "done" => landed[c] > 0

\* The key of an effectful call is free before its effect only, and the call is never
\* about to be tried again.
Exclusive(c) ==
    /\ key[c] = "free" => landed[c] = 0 /\ \A w \in Workers : ~Uses(w, c)
    /\ \A v, w \in Workers : Uses(v, c) /\ Uses(w, c) => v = w
    /\ \A w \in Workers : body[w][c] => landed[c] = 0
    /\ \A w \in Workers : call[w][c] # "waiting"
    /\ landed[c] <= 1

CallsType ==
    /\ call \in [Workers -> [Calls -> CallStates]]
    /\ body \in [Workers -> [Calls -> BOOLEAN]]
    /\ key \in [Calls -> {"free", "held", "done"}]
    /\ landed \in [Calls -> Nat]

IInv ==
    /\ CallsType
    /\ \A c \in Calls : Truthful(c)
    /\ \A c \in Effectful : Exclusive(c)

-----------------------------------------------------------------------------
(* Steps that dispatch nothing: whatever they do to the batch, no call that   *)
(* was not at its tool gets there.                                            *)

Calm ==
    /\ call' \in [Workers -> [Calls -> CallStates]]
    /\ \A w \in Workers, c \in Calls : 
         call'[w][c] \in {"inside", "waiting"} => call'[w][c] = call[w][c]
    /\ UNCHANGED <<body, key, landed>>

LEMMA CalmKeeps == IInv /\ Calm => IInv'
<1> SUFFICES ASSUME IInv, Calm PROVE IInv'
  OBVIOUS
<1>1. CallsType'
  BY DEF IInv, CallsType, Calm
<1>2. ASSUME NEW c \in Calls PROVE Truthful(c)'
  BY DEF IInv, Truthful, Awaits, Calm
<1>3. ASSUME NEW c \in Effectful PROVE Exclusive(c)'
  <2>1. c \in Calls
    BY CallsAssumption
  <2>2. \A w \in Workers : Uses(w, c)' => Uses(w, c)
    BY <2>1 DEF Uses, Calm
  <2>3. \A w \in Workers : call'[w][c] # "waiting"
    BY <2>1 DEF IInv, Exclusive, Calm
  <2> QED
    BY <2>1, <2>2, <2>3 DEF IInv, Exclusive, Calm
<1> QED
  BY <1>1, <1>2, <1>3 DEF IInv

\* Moving one call of one worker's batch.
LEMMA BecomesMoves ==
  ASSUME CallsType, NEW w \in Workers, NEW c \in Calls, NEW s \in CallStates,
         Becomes(w, c, s)
  PROVE  /\ call' \in [Workers -> [Calls -> CallStates]]
         /\ call'[w][c] = s
         /\ \A v \in Workers, d \in Calls :
              v # w \/ d # c => call'[v][d] = call[v][d]
BY DEF CallsType, Becomes

LEMMA QuietMoves ==
  ASSUME CallsType, NEW w \in Workers, NEW c \in Calls, Quiet(w, c)
  PROVE  /\ body' \in [Workers -> [Calls -> BOOLEAN]]
         /\ body'[w][c] = FALSE
         /\ \A v \in Workers, d \in Calls :
              v # w \/ d # c => body'[v][d] = body[v][d]
BY DEF CallsType, Quiet

\* A call that moves, but not to its tool, while nothing else does.
LEMMA CalmBecomes ==
  ASSUME CallsType, NEW w \in Workers, NEW c \in Calls, NEW s \in CallStates \ {"inside", "waiting"},
         Becomes(w, c, s), UNCHANGED <<body, key, landed>>
  PROVE  Calm
<1>1. s \in CallStates /\ s \notin {"inside", "waiting"}
  OBVIOUS
<1>2. /\ call' \in [Workers -> [Calls -> CallStates]]
      /\ call'[w][c] = s
      /\ \A v \in Workers, d \in Calls : v # w \/ d # c => call'[v][d] = call[v][d]
  BY <1>1, BecomesMoves
<1> QED
  BY <1>1, <1>2 DEF Calm

LEMMA CalmNoBatch ==
  ASSUME CallsType, NEW w \in Workers, NoBatch(w), UNCHANGED <<body, key, landed>>
  PROVE  Calm
BY DEF CallsType, NoBatch, Calm, CallStates

LEMMA CalmUnchanged ==
  ASSUME CallsType, UNCHANGED <<call, body, key, landed>>
  PROVE  Calm
BY DEF CallsType, Calm

-----------------------------------------------------------------------------
(* Steps of one call at its tool.                                             *)

\* All that a step of call c of worker w may touch.
Local(w, c) ==
    /\ CallsType'
    /\ \A v \in Workers, d \in Calls : v # w \/ d # c =>
         call'[v][d] = call[v][d] /\ body'[v][d] = body[v][d]
    /\ \A d \in Calls : d # c => key'[d] = key[d] /\ landed'[d] = landed[d]

LEMMA LocalKeeps ==
  ASSUME IInv, NEW w \in Workers, NEW c \in Calls, Local(w, c),
         Truthful(c)', c \in Effectful => Exclusive(c)'
  PROVE  IInv'
<1>1. ASSUME NEW d \in Calls, d # c PROVE Truthful(d)'
  BY <1>1 DEF IInv, Local, Truthful, Awaits
<1>2. ASSUME NEW d \in Effectful, d # c PROVE Exclusive(d)'
  <2>1. d \in Calls
    BY CallsAssumption
  <2> QED
    BY <1>2, <2>1 DEF IInv, Local, Exclusive, Uses
<1> QED
  BY <1>1, <1>2 DEF IInv, Local

LEMMA DispatchKeeps ==
  ASSUME IInv, NEW w \in Workers, NEW c \in Calls, Dispatch(w, c)
  PROVE  IInv'
<1>1. CallsType
  BY DEF IInv
<1>2. /\ call' \in [Workers -> [Calls -> CallStates]]
      /\ call'[w][c] = "inside"
      /\ \A v \in Workers, d \in Calls : v # w \/ d # c => call'[v][d] = call[v][d]
  BY <1>1, BecomesMoves DEF Dispatch, CallStates
<1>3. /\ body' \in [Workers -> [Calls -> BOOLEAN]]
      /\ body'[w][c] = TRUE
      /\ \A v \in Workers, d \in Calls : v # w \/ d # c => body'[v][d] = body[v][d]
  BY <1>1 DEF CallsType, Dispatch
<1>4. /\ key' \in [Calls -> {"free", "held", "done"}]
      /\ \A d \in Calls : d # c => key'[d] = key[d]
      /\ c \in Keyed => key[c] = "free" /\ key'[c] = "held"
  BY <1>1 DEF CallsType, Dispatch, Takes
<1>5. landed' = landed
  BY DEF Dispatch, world
<1>6. Local(w, c)
  BY <1>1, <1>2, <1>3, <1>4, <1>5 DEF Local, CallsType
<1>7. Truthful(c)'
  BY <1>2, <1>3, <1>4, <1>5 DEF IInv, Truthful, Awaits
<1>8. ASSUME c \in Effectful PROVE Exclusive(c)'
  <2>1. c \in Keyed
    BY <1>8, CallsAssumption
  <2>2. landed[c] = 0 /\ \A v \in Workers : ~Uses(v, c)
    BY <1>4, <1>8, <2>1 DEF IInv, Exclusive
  <2>3. \A v \in Workers : Uses(v, c)' => v = w
    BY <1>2, <1>3, <2>2 DEF Uses
  <2> QED
    BY <1>2, <1>4, <1>5, <1>8, <2>1, <2>2, <2>3 DEF IInv, Exclusive
<1> QED
  BY <1>6, <1>7, <1>8, LocalKeeps

\* The key is taken, or none is needed, and the tool does not run after all.
LEMMA TakesKeeps ==
  ASSUME IInv, NEW w \in Workers, NEW c \in Calls, OverBudget(w, c) \/ Forestall(w, c)
  PROVE  IInv'
<1>1. CallsType
  BY DEF IInv
<1>2. PICK s \in {"failed", "aborted"} : Becomes(w, c, s)
  BY DEF OverBudget, Forestall
<1>3. /\ call' \in [Workers -> [Calls -> CallStates]]
      /\ call'[w][c] \notin {"inside", "waiting"}
      /\ \A v \in Workers, d \in Calls : v # w \/ d # c => call'[v][d] = call[v][d]
  BY <1>1, <1>2, BecomesMoves DEF CallStates, Settled
<1>4. /\ key' \in [Calls -> {"free", "held", "done"}]
      /\ \A d \in Calls : d # c => key'[d] = key[d]
      /\ c \in Keyed => key'[c] = "held"
  BY <1>1 DEF CallsType, OverBudget, Forestall, Takes
<1>5. UNCHANGED <<body, landed>>
  BY DEF OverBudget, Forestall, world
<1>6. Local(w, c)
  BY <1>1, <1>3, <1>4, <1>5 DEF Local, CallsType
<1>7. Truthful(c)'
  BY <1>3, <1>4, <1>5 DEF IInv, Truthful, Awaits
<1>8. ASSUME c \in Effectful PROVE Exclusive(c)'
  <2>1. c \in Keyed
    BY <1>8, CallsAssumption
  <2>2. \A v \in Workers : Uses(v, c)' => Uses(v, c)
    BY <1>3, <1>5 DEF Uses
  <2> QED
    BY <1>3, <1>4, <1>5, <1>8, <2>1, <2>2 DEF IInv, Exclusive
<1> QED
  BY <1>6, <1>7, <1>8, LocalKeeps

LEMMA LandKeeps ==
  ASSUME IInv, NEW w \in Workers, NEW c \in Calls, Land(w, c)
  PROVE  IInv'
<1>1. CallsType
  BY DEF IInv
<1>2. /\ body' \in [Workers -> [Calls -> BOOLEAN]]
      /\ body'[w][c] = FALSE
      /\ \A v \in Workers, d \in Calls : v # w \/ d # c => body'[v][d] = body[v][d]
  BY <1>1, QuietMoves DEF Land
<1>3. UNCHANGED <<call, key>>
  BY DEF Land, stores
<1>4. /\ landed' \in [Calls -> Nat]
      /\ landed'[c] = landed[c] + 1
      /\ \A d \in Calls : d # c => landed'[d] = landed[d]
  BY <1>1 DEF CallsType, Land
<1>5. Local(w, c)
  BY <1>1, <1>2, <1>3, <1>4 DEF Local, CallsType
<1>6. landed[c] \in Nat
  BY <1>1 DEF CallsType
<1>7. Truthful(c)'
  BY <1>4, <1>6 DEF Truthful
<1>8. ASSUME c \in Effectful PROVE Exclusive(c)'
  <2>1. body[w][c]
    BY DEF Land
  <2>2. landed[c] = 0 /\ key[c] # "free"
    BY <1>8, <2>1 DEF IInv, Exclusive, Uses
  <2>3. \A v \in Workers : Uses(v, c)' => Uses(v, c)
    BY <1>2, <1>3 DEF Uses
  <2>4. \A v \in Workers : ~body'[v][c]
    BY <1>2, <1>8, <2>1 DEF IInv, Exclusive, Uses
  <2> QED
    BY <1>3, <1>4, <1>8, <2>2, <2>3, <2>4 DEF IInv, Exclusive
<1> QED
  BY <1>5, <1>7, <1>8, LocalKeeps

LEMMA DeclinedKeeps ==
  ASSUME IInv, NEW w \in Workers, NEW c \in Calls, Declined(w, c)
  PROVE  IInv'
<1>1. CallsType
  BY DEF IInv
<1>2. PICK s \in {"answered", "failed"} : Becomes(w, c, s)
  BY DEF Declined
<1>3. /\ call' \in [Workers -> [Calls -> CallStates]]
      /\ call'[w][c] \notin {"inside", "waiting"}
      /\ \A v \in Workers, d \in Calls : v # w \/ d # c => call'[v][d] = call[v][d]
  BY <1>1, <1>2, BecomesMoves DEF CallStates, Settled
<1>4. /\ body' \in [Workers -> [Calls -> BOOLEAN]]
      /\ body'[w][c] = FALSE
      /\ \A v \in Workers, d \in Calls : v # w \/ d # c => body'[v][d] = body[v][d]
  BY <1>1, QuietMoves DEF Declined
<1>5. /\ key' \in [Calls -> {"free", "held", "done"}]
      /\ \A d \in Calls : d # c => key'[d] = key[d]
      /\ c \in Keyed => key'[c] = "free"
  BY <1>1 DEF CallsType, Declined
<1>6. landed' = landed
  BY DEF Declined, world
<1>7. Local(w, c)
  BY <1>1, <1>3, <1>4, <1>5, <1>6 DEF Local, CallsType
<1>8. Truthful(c)'
  BY <1>3, <1>4, <1>5, <1>6 DEF IInv, Truthful, Awaits
<1>9. ASSUME c \in Effectful PROVE Exclusive(c)'
  <2>1. body[w][c] /\ Uses(w, c)
    BY DEF Declined, Uses
  <2>2. landed[c] = 0 /\ \A v \in Workers : Uses(v, c) => v = w
    BY <1>9, <2>1 DEF IInv, Exclusive
  <2>3. \A v \in Workers : ~Uses(v, c)'
    BY <1>3, <1>4, <2>2 DEF Uses
  <2> QED
    BY <1>3, <1>6, <1>9, <2>2, <2>3 DEF IInv, Exclusive, Uses
<1> QED
  BY <1>7, <1>8, <1>9, LocalKeeps

LEMMA AgainKeeps ==
  ASSUME IInv, NEW w \in Workers, NEW c \in Calls, Again(w, c), c \notin Effectful
  PROVE  IInv'
<1>1. CallsType
  BY DEF IInv
<1>2. /\ call' \in [Workers -> [Calls -> CallStates]]
      /\ \A v \in Workers, d \in Calls : v # w \/ d # c => call'[v][d] = call[v][d]
  BY <1>1, BecomesMoves DEF Again, CallStates
<1>3. /\ body' \in [Workers -> [Calls -> BOOLEAN]]
      /\ body'[w][c] = TRUE
      /\ \A v \in Workers, d \in Calls : v # w \/ d # c => body'[v][d] = body[v][d]
  BY <1>1 DEF CallsType, Again
<1>4. UNCHANGED <<key, landed>>
  BY DEF Again, stores, world
<1>5. Local(w, c)
  BY <1>1, <1>2, <1>3, <1>4 DEF Local, CallsType
<1>6. Truthful(c)'
  BY <1>2, <1>3, <1>4 DEF IInv, Truthful, Awaits
<1> QED
  BY <1>5, <1>6, LocalKeeps

\* The tool raised, and nothing of it runs on.
LEMMA RaiseKeeps ==
  ASSUME IInv, NEW w \in Workers, NEW c \in Calls, Raise(w, c) \/ BackOff(w, c)
  PROVE  IInv'
<1>1. CallsType
  BY DEF IInv
<1>2. PICK s \in {"answered", "failed", "waiting"} : Becomes(w, c, s) /\ (c \in Effectful => s # "waiting")
  BY DEF Raise, BackOff
<1>3. /\ call' \in [Workers -> [Calls -> CallStates]]
      /\ call'[w][c] # "inside"
      /\ c \in Effectful => call'[w][c] # "waiting"
      /\ \A v \in Workers, d \in Calls : v # w \/ d # c => call'[v][d] = call[v][d]
  BY <1>1, <1>2, BecomesMoves DEF CallStates, Settled
<1>4. /\ body' \in [Workers -> [Calls -> BOOLEAN]]
      /\ body'[w][c] = FALSE
      /\ \A v \in Workers, d \in Calls : v # w \/ d # c => body'[v][d] = body[v][d]
  BY <1>1, QuietMoves DEF Raise, BackOff
<1>5. UNCHANGED <<key, landed>>
  BY DEF Raise, BackOff, stores, world
<1>6. Local(w, c)
  BY <1>1, <1>3, <1>4, <1>5 DEF Local, CallsType
<1>7. Truthful(c)'
  BY <1>3, <1>4, <1>5 DEF IInv, Truthful, Awaits
<1>8. ASSUME c \in Effectful PROVE Exclusive(c)'
  <2>1. \A v \in Workers : /\ Uses(v, c)' => Uses(v, c)
                           /\ body'[v][c] => body[v][c]
    BY <1>3, <1>4 DEF Uses
  <2> QED
    BY <1>3, <1>5, <1>8, <2>1 DEF IInv, Exclusive
<1> QED
  BY <1>6, <1>7, <1>8, LocalKeeps

\* The record is written for a tool that came back, so for one that took effect.
LEMMA ReturnKeeps ==
  ASSUME IInv, NEW w \in Workers, NEW c \in Calls, Return(w, c) \/ Overdraw(w, c)
  PROVE  IInv'
<1>1. CallsType
  BY DEF IInv
<1>2. PICK s \in {"answered", "failed"} : Becomes(w, c, s)
  BY DEF Return, Overdraw
<1>3. /\ call' \in [Workers -> [Calls -> CallStates]]
      /\ call'[w][c] \notin {"inside", "waiting"}
      /\ \A v \in Workers, d \in Calls : v # w \/ d # c => call'[v][d] = call[v][d]
  BY <1>1, <1>2, BecomesMoves DEF CallStates, Settled
<1>4. /\ key' \in [Calls -> {"free", "held", "done"}]
      /\ \A d \in Calls : d # c => key'[d] = key[d]
      /\ c \in Keyed => key'[c] = "done"
  BY <1>1 DEF CallsType, Return, Overdraw, Recording
<1>5. UNCHANGED <<body, landed>>
  BY DEF Return, Overdraw, world
<1>6. Local(w, c)
  BY <1>1, <1>3, <1>4, <1>5 DEF Local, CallsType
<1>7. landed[c] > 0
  BY DEF Return, Overdraw, Returned, At, IInv, Truthful, Awaits
<1>8. Truthful(c)'
  BY <1>5, <1>7 DEF Truthful
<1>9. ASSUME c \in Effectful PROVE Exclusive(c)'
  <2>1. c \in Keyed
    BY <1>9, CallsAssumption
  <2>2. \A v \in Workers : Uses(v, c)' => Uses(v, c)
    BY <1>3, <1>5 DEF Uses
  <2> QED
    BY <1>3, <1>4, <1>5, <1>9, <2>1, <2>2 DEF IInv, Exclusive
<1> QED
  BY <1>6, <1>8, <1>9, LocalKeeps

-----------------------------------------------------------------------------
(* Every other step is calm.                                                  *)

LEMMA EndingIsCalm ==
  ASSUME CallsType, NEW w \in Workers, NEW outcome, Ended(w, outcome) \/ Over(w, outcome),
         UNCHANGED <<body, key, landed>>
  PROVE  Calm
BY CalmNoBatch DEF Ended, Over

LEMMA TurnsAreCalm ==
  ASSUME CallsType, NEW w \in Workers,
         GiveUp(w) \/ AskedForCalls(w) \/ Answered(w) \/ Forget(w)
  PROVE  Calm
<1>1. CASE GiveUp(w)
  BY <1>1, EndingIsCalm DEF GiveUp, stores, world
<1>2. CASE AskedForCalls(w)
  BY <1>2, CalmUnchanged DEF AskedForCalls
<1>3. CASE Answered(w)
  BY <1>3, CalmUnchanged, EndingIsCalm DEF Answered, world
<1>4. CASE Forget(w)
  BY <1>4, CalmUnchanged DEF Forget, world
<1> QED
  BY <1>1, <1>2, <1>3, <1>4

\* A worker that clears a batch settles one of its calls.
LEMMA SettlingIsCalm ==
  ASSUME CallsType, NEW w \in Workers, NEW s \in {"cleared", "declined"},
         Settles(w, s), UNCHANGED <<body, key, landed>>
  PROVE  Calm
<1>1. s \in CallStates \ {"inside", "waiting"}
  BY DEF CallStates, Settled
<1>2. CASE AtCall(w) \in Calls
  <2>1. Becomes(w, AtCall(w), s)
    BY DEF Settles, Becomes
  <2> QED
    BY <1>1, <1>2, <2>1, CalmBecomes
<1>3. CASE AtCall(w) \notin Calls
  <2>1. call' = call
    BY <1>3 DEF Settles, CallsType
  <2> QED
    BY <2>1, CalmUnchanged
<1> QED
  BY <1>2, <1>3

LEMMA ClearingIsCalm ==
  ASSUME CallsType, NEW w \in Workers,
         \/ ClearUngated(w) \/ RefuseBatch(w) \/ UseDecision(w) \/ AnsweredInline(w)
         \/ CancelledWaiting(w) \/ Defer(w) \/ Suspend(w)
  PROVE  Calm
<1>1. CASE ClearUngated(w)
  BY <1>1, SettlingIsCalm DEF ClearUngated, stores, world
<1>2. CASE RefuseBatch(w)
  BY <1>2, EndingIsCalm DEF RefuseBatch, stores, world
<1>3. CASE UseDecision(w)
  BY <1>3, SettlingIsCalm DEF UseDecision, stores, world
<1>4. CASE AnsweredInline(w)
  <2>1. PICK yes \in BOOLEAN : Settles(w, IF yes THEN "cleared" ELSE "declined")
    BY <1>4 DEF AnsweredInline
  <2>2. UNCHANGED <<body, key, landed>>
    BY <1>4 DEF AnsweredInline, stores
  <2> QED
    BY <2>1, <2>2, SettlingIsCalm
<1>5. CASE CancelledWaiting(w)
  BY <1>5, EndingIsCalm DEF CancelledWaiting, stores, world
<1>6. CASE Defer(w)
  BY <1>6, CalmUnchanged DEF Defer, world
<1>7. CASE Suspend(w)
  BY <1>7, EndingIsCalm DEF Suspend, world
<1> QED
  BY <1>1, <1>2, <1>3, <1>4, <1>5, <1>6, <1>7

LEMMA QuietCallsAreCalm ==
  ASSUME CallsType, NEW w \in Workers, NEW c \in Calls,
         \/ Enter(w, c) \/ Deduplicate(w, c) \/ Undecidable(w, c) \/ Abort(w, c)
         \/ CancelledBackingOff(w, c) \/ Unrecorded(w, c)
  PROVE  Calm
<1>1. PICK s \in {"entered", "answered", "failed", "aborted"} : Becomes(w, c, s)
  BY DEF Enter, Deduplicate, Undecidable, Abort, CancelledBackingOff,
    Unrecorded, Becomes
<1>2. UNCHANGED <<body, key, landed>>
  BY DEF Enter, Deduplicate, Undecidable, Abort, CancelledBackingOff,
    Unrecorded, stores, world
<1>3. s \in CallStates \ {"inside", "waiting"}
  BY DEF CallStates, Settled
<1> QED
  BY <1>1, <1>2, <1>3, CalmBecomes

LEMMA BatchEndIsCalm ==
  ASSUME CallsType, NEW w \in Workers, StopShort(w) \/ Merge(w)
  PROVE  Calm
<1>1. CASE StopShort(w)
  <2>1. PICK stopped : call' = [call EXCEPT ![w] = [c \in Calls |->
           IF c \notin stopped THEN call[w][c]
           ELSE IF call[w][c] = "cleared" THEN "never" ELSE "cut"]]
    BY <1>1 DEF StopShort
  <2>2. {"never", "cut"} \subseteq CallStates \ {"inside", "waiting"}
    BY DEF CallStates, Settled
  <2>3. /\ call' \in [Workers -> [Calls -> CallStates]]
        /\ \A v \in Workers, c \in Calls :
             call'[v][c] \in {"inside", "waiting"} => call'[v][c] = call[v][c]
    BY <2>1, <2>2 DEF CallsType
  <2> QED
    BY <1>1, <2>3 DEF StopShort, Calm, stores, world
<1>2. CASE Merge(w)
  <2>1. NoBatch(w) /\ UNCHANGED <<body, key, landed>>
    BY <1>2 DEF Merge, Ended, world
  <2> QED
    BY <2>1, CalmNoBatch
<1> QED
  BY <1>1, <1>2

LEMMA ResumingIsCalm ==
  ASSUME CallsType, NEW w \in Workers,
         \/ Redeem(w) \/ ReadFrontier(w, "idle") \/ ReadFrontier(w, "resuming")
         \/ NothingToResume(w) \/ Claim(w) \/ Conflict(w) \/ Cancel(w) \/ Crash(w)
  PROVE  Calm
<1>1. CASE Redeem(w)
  BY <1>1, CalmUnchanged, EndingIsCalm DEF Redeem
<1>2. CASE ReadFrontier(w, "idle") \/ ReadFrontier(w, "resuming")
  BY <1>2, CalmUnchanged DEF ReadFrontier, stores, world
<1>3. CASE NothingToResume(w) \/ Conflict(w) \/ Crash(w)
  BY <1>3, EndingIsCalm DEF NothingToResume, Conflict, Crash, stores, world
<1>4. CASE Claim(w) \/ Cancel(w)
  BY <1>4, CalmUnchanged DEF Claim, Cancel, stores, world
<1> QED
  BY <1>1, <1>2, <1>3, <1>4

-----------------------------------------------------------------------------
(* The invariant.                                                             *)

LEMMA InitIInv == Init => IInv
<1> SUFFICES ASSUME Init PROVE IInv
  OBVIOUS
<1>1. CallsType
  BY DEF Init, CallsType, CallStates
<1>2. ASSUME NEW c \in Calls PROVE Truthful(c)
  BY DEF Init, Truthful, Awaits
<1>3. ASSUME NEW c \in Effectful PROVE Exclusive(c)
  BY CallsAssumption DEF Init, Exclusive, Uses
<1> QED
  BY <1>1, <1>2, <1>3 DEF IInv

LEMMA WaitingIsRepeatable ==
  ASSUME IInv, NEW w \in Workers, NEW c \in Calls, Again(w, c)
  PROVE  c \notin Effectful
BY DEF IInv, Exclusive, Again, At

LEMMA CallStepKeeps ==
  ASSUME IInv, NEW w \in Workers, NEW c \in Calls, CallStep(w, c)
  PROVE  IInv'
<1>1. CallsType
  BY DEF IInv
<1>2. CASE \/ Enter(w, c) \/ Deduplicate(w, c) \/ Undecidable(w, c) \/ Abort(w, c)
           \/ CancelledBackingOff(w, c) \/ Unrecorded(w, c)
  BY <1>1, <1>2, QuietCallsAreCalm, CalmKeeps
<1>3. CASE Dispatch(w, c)
  BY <1>3, DispatchKeeps
<1>4. CASE OverBudget(w, c) \/ Forestall(w, c)
  BY <1>4, TakesKeeps
<1>5. CASE Declined(w, c)
  BY <1>5, DeclinedKeeps
<1>6. CASE Again(w, c)
  BY <1>6, WaitingIsRepeatable, AgainKeeps
<1>7. CASE Raise(w, c) \/ BackOff(w, c)
  BY <1>7, RaiseKeeps
<1>8. CASE Return(w, c) \/ Overdraw(w, c)
  BY <1>8, ReturnKeeps
<1> QED
  BY <1>2, <1>3, <1>4, <1>5, <1>6, <1>7, <1>8 DEF CallStep

LEMMA NextIInv == IInv /\ [Next]_vars => IInv'
<1> SUFFICES ASSUME IInv, [Next]_vars PROVE IInv'
  OBVIOUS
<1>1. CallsType
  BY DEF IInv
<1>2. ASSUME NEW w \in Workers, NEW c \in Calls, CallStep(w, c) \/ Land(w, c) PROVE IInv'
  BY <1>2, CallStepKeeps, LandKeeps
<1>3. ASSUME NEW w \in Workers, Step(w) PROVE IInv'
  BY <1>1, <1>2, <1>3, TurnsAreCalm, ClearingIsCalm, BatchEndIsCalm, ResumingIsCalm,
     CalmKeeps DEF Step
<1>4. ASSUME NEW w \in Workers, Redeem(w) \/ ReadFrontier(w, "idle") \/ Cancel(w) \/ Crash(w)
      PROVE IInv'
  BY <1>1, <1>4, ResumingIsCalm, CalmKeeps
<1>5. CASE ClaimLapses \/ UNCHANGED vars
  BY <1>1, <1>5, CalmUnchanged, CalmKeeps DEF ClaimLapses, vars, world
<1> QED
  BY <1>2, <1>3, <1>4, <1>5 DEF Next

LEMMA Invariance == Spec => []IInv
  BY InitIInv, NextIInv, PTL DEF Spec

-----------------------------------------------------------------------------
(* The theorems.                                                              *)

\* An effectful call takes effect at most once, whatever crashes, cancellations, retries,
\* resumptions and concurrent drivers the run meets.
THEOREM EffectsHappenOnce == Spec => []EffectsLandOnce
<1>1. IInv => EffectsLandOnce
  BY DEF IInv, Exclusive, EffectsLandOnce
<1> QED
  BY <1>1, Invariance, PTL

\* A record that answers a repeated call stands for an effect that took place.
THEOREM RecordsStayTrue == Spec => []RecordsAreTrue
<1>1. IInv => RecordsAreTrue
  BY CallsAssumption DEF IInv, Truthful, RecordsAreTrue
<1> QED
  BY <1>1, Invariance, PTL

-----------------------------------------------------------------------------
(* Types: those of the variables the proofs above do not need.                *)

\* A worker that clears a batch is at one of its calls.
AtACall(a) == a.step \in {"clearing", "deferred"} => a.at \in 1..Len(a.batch)

AttemptsType ==
    /\ attempt \in [Workers -> Attempts]
    /\ \A w \in Workers : AtACall(attempt[w])

StoresType ==
    /\ claim \in Workers \cup {NoOne}
    /\ checkpoint \in Frontiers
    /\ asked \in [call : Calls \cup {NoCall}, spent : BOOLEAN]
    /\ granted \in [Calls -> Nat]
    /\ batches \in Nat

Types == AttemptsType /\ StoresType

-----------------------------------------------------------------------------
(* Attempts.                                                                  *)

LEMMA Nothings == /\ NoDecision \in [call : Calls \cup {NoCall}, yes : BOOLEAN]
                  /\ NoFrontier \in Frontiers
                  /\ Idle \in Attempts
<1>1. /\ NoDecision \in [call : Calls \cup {NoCall}, yes : BOOLEAN]
      /\ NoFrontier \in Frontiers
  BY DEF NoDecision, NoFrontier, Frontiers, Frontier, Boundaries
<1> QED
  BY <1>1 DEF Idle, Attempts, Steps, Outcomes

\* A step that gives one worker's attempt a new value of the right kind.
LEMMA Updates ==
  ASSUME AttemptsType, NEW w \in Workers, NEW a \in Attempts, AtACall(a),
         attempt' = [attempt EXCEPT ![w] = a]
  PROVE  AttemptsType'
BY DEF AttemptsType

LEMMA ReportsKeepTypes ==
  ASSUME AttemptsType, NEW w \in Workers, NEW c \in Calls,
         \/ attempt' = [attempt EXCEPT ![w].named = @ \cup {c}]
         \/ attempt' = [attempt EXCEPT ![w].mine = @ \cup {c}]
         \/ attempt' = [attempt EXCEPT ![w].unreported = @ \cup {c}]
         \/ attempt' = [attempt EXCEPT ![w].unreported =
                          IF attempt[w].tries[c] > 0 THEN @ \cup {c} ELSE @]
         \/ attempt' = [attempt EXCEPT ![w].tries[c] = @ + 1]
         \/ UNCHANGED attempt
  PROVE  AttemptsType'
<1> DEFINE a == attempt[w]
<1>1. a \in Attempts /\ AtACall(a)
  BY DEF AttemptsType
<1>2. CASE attempt' = [attempt EXCEPT ![w].named = @ \cup {c}]
  <2> DEFINE b == [a EXCEPT !.named = @ \cup {c}]
  <2>1. attempt' = [attempt EXCEPT ![w] = b]
    BY <1>2
  <2>2. b \in Attempts /\ AtACall(b)
    BY <1>1 DEF Attempts, AtACall
  <2> QED
    BY <2>1, <2>2, Updates
<1>3. CASE attempt' = [attempt EXCEPT ![w].mine = @ \cup {c}]
  <2> DEFINE b == [a EXCEPT !.mine = @ \cup {c}]
  <2>1. attempt' = [attempt EXCEPT ![w] = b]
    BY <1>3
  <2>2. b \in Attempts /\ AtACall(b)
    BY <1>1 DEF Attempts, AtACall
  <2> QED
    BY <2>1, <2>2, Updates
<1>4. CASE attempt' = [attempt EXCEPT ![w].unreported = @ \cup {c}]
  <2> DEFINE b == [a EXCEPT !.unreported = @ \cup {c}]
  <2>1. attempt' = [attempt EXCEPT ![w] = b]
    BY <1>4
  <2>2. b \in Attempts /\ AtACall(b)
    BY <1>1 DEF Attempts, AtACall
  <2> QED
    BY <2>1, <2>2, Updates
<1>5. CASE attempt' = [attempt EXCEPT ![w].unreported =
                         IF attempt[w].tries[c] > 0 THEN @ \cup {c} ELSE @]
  <2> DEFINE b == [a EXCEPT !.unreported = IF a.tries[c] > 0 THEN @ \cup {c} ELSE @]
  <2>1. attempt' = [attempt EXCEPT ![w] = b]
    BY <1>5
  <2>2. b \in Attempts /\ AtACall(b)
    BY <1>1 DEF Attempts, AtACall
  <2> QED
    BY <2>1, <2>2, Updates
<1>6. CASE attempt' = [attempt EXCEPT ![w].tries[c] = @ + 1]
  <2> DEFINE t == [a.tries EXCEPT ![c] = @ + 1]
             b == [a EXCEPT !.tries = t]
  <2>1. attempt' = [attempt EXCEPT ![w] = b]
    BY <1>6
  <2>2. t \in [Calls -> Nat]
    BY <1>1 DEF Attempts
  <2>3. b \in Attempts /\ AtACall(b)
    BY <1>1, <2>2 DEF Attempts, AtACall
  <2> QED
    BY <2>1, <2>3, Updates
<1>7. CASE UNCHANGED attempt
  BY <1>7 DEF AttemptsType
<1> QED
  BY <1>2, <1>3, <1>4, <1>5, <1>6, <1>7

LEMMA StoppingShortKeepsTypes ==
  ASSUME AttemptsType, NEW w \in Workers, StopShort(w)
  PROVE  AttemptsType'
<1>1. attempt[w] \in Attempts /\ AtACall(attempt[w])
  BY DEF AttemptsType
<1>2. InBatch(w) \subseteq Calls
  BY <1>1 DEF InBatch, Attempts
<1>3. PICK stopped \in SUBSET InBatch(w) :
        attempt' = [attempt EXCEPT ![w] = [attempt[w] EXCEPT !.named = @ \cup stopped]]
  BY DEF StopShort
<1> DEFINE b == [attempt[w] EXCEPT !.named = @ \cup stopped]
<1>4. b \in Attempts /\ AtACall(b)
  BY <1>1, <1>2 DEF Attempts, AtACall
<1> QED
  BY <1>3, <1>4, Updates

LEMMA EndingKeepsTypes ==
  ASSUME AttemptsType, NEW w \in Workers, NEW outcome \in Outcomes,
         Ended(w, outcome) \/ Over(w, outcome)
  PROVE  AttemptsType'
<1>1. attempt[w] \in Attempts
  BY DEF AttemptsType
<1>2. CASE Ended(w, outcome)
  <2> DEFINE b == [Idle EXCEPT !.step = "ending", !.outcome = outcome,
                     !.named = attempt[w].named, !.mine = attempt[w].mine,
                     !.unreported = attempt[w].unreported]
  <2>1. b \in Attempts /\ b.step = "ending"
    BY <1>1, Nothings DEF Attempts, Steps
  <2>2. AtACall(b)
    BY <2>1 DEF AtACall
  <2> QED
    BY <1>2, <2>1, <2>2, Updates DEF Ended
<1>3. CASE Over(w, outcome)
  <2> DEFINE b == [Idle EXCEPT !.step = "over", !.outcome = outcome]
  <2>1. b \in Attempts /\ b.step = "over"
    BY Nothings DEF Attempts, Steps
  <2>2. AtACall(b)
    BY <2>1 DEF AtACall
  <2> QED
    BY <1>3, <2>1, <2>2, Updates DEF Over
<1> QED
  BY <1>2, <1>3

LEMMA NextTurnType ==
  ASSUME NEW a \in Attempts
  PROVE  NextTurn(a) \in Attempts /\ AtACall(NextTurn(a))
<1> DEFINE i == a.iteration + 1
           b == [a EXCEPT !.step = "turn", !.iteration = i, !.batch = <<>>, !.at = 0,
                          !.frontier = NoFrontier]
<1>1. i \in Nat /\ <<>> \in Seq(Calls) /\ "turn" \in Steps /\ NoFrontier \in Frontiers
  BY Nothings DEF Attempts, Steps
<1>2. b \in Attempts /\ b.step = "turn"
  <2> HIDE DEF i
  <2> QED
    BY <1>1 DEF Attempts
<1> QED
  BY <1>2 DEF NextTurn, AtACall

LEMMA PastType ==
  ASSUME AttemptsType, NEW w \in Workers, Clearing(w),
         NEW d \in [call : Calls \cup {NoCall}, yes : BOOLEAN]
  PROVE  Past(w, d) \in Attempts /\ AtACall(Past(w, d))
<1> DEFINE a == attempt[w]
           n == a.at + 1
           s == IF a.at = Len(a.batch) THEN "fanning" ELSE "clearing"
           b == [a EXCEPT !.at = n, !.decided = d, !.step = s]
<1>1. a \in Attempts /\ a.at \in 1..Len(a.batch)
  BY DEF AttemptsType, AtACall, Clearing
<1>2. Len(a.batch) \in Nat
  BY <1>1 DEF Attempts
<1>3. n \in Nat /\ s \in Steps /\ (s = "clearing" => n \in 1..Len(a.batch)) /\ s # "deferred"
  BY <1>1, <1>2 DEF Steps
<1>4. b \in Attempts /\ b.step = s /\ b.at = n /\ b.batch = a.batch
  <2> HIDE DEF n, s
  <2> QED
    BY <1>1, <1>3 DEF Attempts
<1>5. AtACall(b)
  BY <1>3, <1>4 DEF AtACall
<1> QED
  BY <1>4, <1>5 DEF Past

\* A step from one place of the loop to another that is not at a call.
LEMMA StepsKeepTypes ==
  ASSUME AttemptsType, NEW w \in Workers, NEW s \in Steps \ {"clearing", "deferred"},
         attempt' = [attempt EXCEPT ![w].step = s]
  PROVE  AttemptsType'
<1> DEFINE b == [attempt[w] EXCEPT !.step = s]
<1>1. attempt' = [attempt EXCEPT ![w] = b]
  OBVIOUS
<1>2. attempt[w] \in Attempts
  BY DEF AttemptsType
<1>3. b \in Attempts /\ b.step = s
  BY <1>2 DEF Attempts
<1>4. AtACall(b)
  BY <1>3 DEF AtACall
<1> QED
  BY <1>1, <1>3, <1>4, Updates

-----------------------------------------------------------------------------
(* The steps, group by group.                                                 *)

LEMMA FrontierType ==
  ASSUME NEW boundary \in Boundaries, NEW i \in Nat, NEW c \in Calls \cup {NoCall},
         NEW open \in SUBSET Calls
  PROVE  Frontier(boundary, i, c, open) \in Frontiers
BY DEF Frontier, Frontiers

LEMMA TurnsKeepTypes ==
  ASSUME Types, NEW w \in Workers,
         GiveUp(w) \/ AskedForCalls(w) \/ Answered(w) \/ Forget(w)
  PROVE  Types'
<1> DEFINE a == attempt[w]
<1>1. a \in Attempts /\ AttemptsType /\ StoresType
  BY DEF Types, AttemptsType
<1>2. a.iteration \in Nat /\ a.open \in SUBSET Calls
  BY <1>1 DEF Attempts
<1>3. \A boundary \in Boundaries :
        Frontier(boundary, a.iteration, NoCall, a.open) \in Frontiers
  BY <1>2, FrontierType
<1>4. CASE GiveUp(w)
  <2>1. PICK outcome \in {"cancelled", "failed"} : Ended(w, outcome)
    BY <1>4 DEF GiveUp
  <2>2. AttemptsType'
    BY <1>1, <2>1, EndingKeepsTypes DEF Outcomes
  <2> QED
    BY <1>1, <1>4, <2>2 DEF GiveUp, Types, StoresType, stores, world
<1>5. CASE AskedForCalls(w)
  <2>1. PICK reply \in Replies : attempt' = [attempt EXCEPT ![w] =
             [a EXCEPT !.step = "clearing", !.batch = reply, !.at = 1,
                       !.open = a.open \cup {reply[i] : i \in 1..Len(reply)}]]
    BY <1>5 DEF AskedForCalls
  <2>2. reply \in Seq(Calls) /\ Len(reply) \in Nat /\ Len(reply) > 0
    BY RepliesAssumption
  <2> DEFINE more == a.open \cup {reply[i] : i \in 1..Len(reply)}
             b == [a EXCEPT !.step = "clearing", !.batch = reply, !.at = 1, !.open = more]
  <2>3. more \in SUBSET Calls
    BY <1>2, <2>2
  <2>4. b \in Attempts /\ b.at = 1 /\ b.batch = reply
    <3>1. "clearing" \in Steps
      BY DEF Steps
    <3> HIDE DEF more
    <3> QED
      BY <1>1, <2>2, <2>3, <3>1 DEF Attempts
  <2>5. AtACall(b)
    BY <2>2, <2>4 DEF AtACall
  <2>6. AttemptsType'
    BY <1>1, <2>1, <2>4, <2>5, Updates
  <2>7. checkpoint' \in Frontiers
    <3>1. Recorded(Frontier("after_model_call", a.iteration, NoCall, a.open))
      BY <1>5 DEF AskedForCalls
    <3> QED
      BY <1>1, <1>3, <3>1 DEF Recorded, Boundaries, StoresType
  <2>8. batches' = batches + 1 /\ UNCHANGED <<claim, asked, granted>>
    BY <1>5 DEF AskedForCalls
  <2> QED
    BY <1>1, <2>6, <2>7, <2>8 DEF Types, StoresType
<1>6. CASE Answered(w)
  <2>1. checkpoint' \in Frontiers
    BY <1>1, <1>3, <1>6 DEF Answered, Recorded, Boundaries, StoresType
  <2>2. CASE Ended(w, "completed")
    <3>1. AttemptsType'
      BY <1>1, <2>2, EndingKeepsTypes DEF Outcomes
    <3> QED
      BY <1>1, <1>6, <2>1, <3>1 DEF Answered, Types, StoresType, world
  <2>3. CASE attempt' = [attempt EXCEPT ![w] = NextTurn(a)]
    <3>1. AttemptsType'
      BY <1>1, <2>3, NextTurnType, Updates
    <3> QED
      BY <1>1, <1>6, <2>1, <3>1 DEF Answered, Types, StoresType, world
  <2> QED
    BY <1>6, <2>2, <2>3 DEF Answered
<1>7. CASE Forget(w)
  <2>1. AttemptsType'
    BY <1>1, <1>7, StepsKeepTypes DEF Forget, Steps
  <2> QED
    BY <1>1, <1>7, <2>1, Nothings DEF Forget, Types, StoresType, world
<1> QED
  BY <1>4, <1>5, <1>6, <1>7

LEMMA CallAtHand ==
  ASSUME AttemptsType, NEW w \in Workers, attempt[w].step \in {"clearing", "deferred"}
  PROVE  AtCall(w) \in Calls
<1>1. attempt[w] \in Attempts /\ attempt[w].at \in 1..Len(attempt[w].batch)
  BY DEF AttemptsType, AtACall
<1>2. attempt[w].batch \in Seq(Calls)
  BY <1>1 DEF Attempts
<1> QED
  BY <1>1, <1>2 DEF AtCall

LEMMA ClearingKeepsTypes ==
  ASSUME Types, NEW w \in Workers,
         \/ ClearUngated(w) \/ RefuseBatch(w) \/ UseDecision(w) \/ AnsweredInline(w)
         \/ CancelledWaiting(w) \/ Defer(w) \/ Suspend(w)
  PROVE  Types'
<1> DEFINE a == attempt[w]
<1>1. a \in Attempts /\ AttemptsType /\ StoresType /\ AtACall(a)
  BY DEF Types, AttemptsType
<1>2. AtCall(w) \in Calls
  BY <1>1, CallAtHand DEF ClearUngated, RefuseBatch, UseDecision, AnsweredInline,
     CancelledWaiting, Defer, Suspend, MustAsk, Clearing
<1>3. a.decided \in [call : Calls \cup {NoCall}, yes : BOOLEAN]
  BY <1>1 DEF Attempts
<1>4. CASE ClearUngated(w)
  <2>1. AttemptsType'
    BY <1>1, <1>3, <1>4, PastType, Updates DEF ClearUngated
  <2> QED
    BY <1>1, <1>4, <2>1 DEF ClearUngated, Types, StoresType, stores, world
<1>5. CASE RefuseBatch(w)
  <2>1. AttemptsType'
    BY <1>1, <1>5, EndingKeepsTypes DEF RefuseBatch, Outcomes
  <2> QED
    BY <1>1, <1>5, <2>1 DEF RefuseBatch, Types, StoresType, stores, world
<1>6. CASE UseDecision(w)
  <2>1. attempt' = [attempt EXCEPT ![w] = Past(w, NoDecision)] /\ Clearing(w)
    BY <1>6 DEF UseDecision
  <2>2. AttemptsType'
    BY <1>1, <2>1, Nothings, PastType, Updates
  <2> QED
    BY <1>1, <1>6, <2>2 DEF UseDecision, Types, StoresType, stores, world
<1>7. CASE AnsweredInline(w)
  <2>1. attempt' = [attempt EXCEPT ![w] = Past(w, a.decided)] /\ Clearing(w)
    BY <1>7 DEF AnsweredInline, MustAsk
  <2>2. AttemptsType'
    BY <1>1, <1>3, <2>1, PastType, Updates
  <2>3. PICK n \in {0, 1} : granted' = [granted EXCEPT ![AtCall(w)] = @ + n]
    BY <1>7 DEF AnsweredInline
  <2>4. granted' \in [Calls -> Nat]
    BY <1>1, <1>2, <2>3 DEF StoresType
  <2> QED
    BY <1>1, <1>7, <2>2, <2>4 DEF AnsweredInline, Types, StoresType, stores
<1>8. CASE CancelledWaiting(w)
  <2>1. AttemptsType'
    BY <1>1, <1>8, EndingKeepsTypes DEF CancelledWaiting, Outcomes
  <2> QED
    BY <1>1, <1>8, <2>1 DEF CancelledWaiting, Types, StoresType, stores, world
<1>9. CASE Defer(w)
  <2> DEFINE b == [a EXCEPT !.step = "deferred"]
  <2>1. attempt' = [attempt EXCEPT ![w] = b]
    BY <1>9 DEF Defer
  <2>2. b \in Attempts /\ b.at = a.at /\ b.batch = a.batch
    BY <1>1 DEF Attempts, Steps
  <2>3. AtACall(b)
    BY <1>1, <1>9, <2>2 DEF AtACall, Defer, MustAsk, Clearing
  <2>4. AttemptsType'
    BY <1>1, <2>1, <2>2, <2>3, Updates
  <2>5. a.iteration \in Nat /\ a.open \in SUBSET Calls
    BY <1>1 DEF Attempts
  <2>6. Frontier("before_approval", a.iteration, AtCall(w), a.open) \in Frontiers
    BY <1>2, <2>5, FrontierType DEF Boundaries
  <2>7. Recorded(Frontier("before_approval", a.iteration, AtCall(w), a.open))
    BY <1>9 DEF Defer
  <2>8. checkpoint' \in Frontiers
    BY <1>1, <2>6, <2>7 DEF Recorded, StoresType
  <2> QED
    BY <1>1, <1>9, <2>4, <2>8 DEF Defer, Types, StoresType, world
<1>10. CASE Suspend(w)
  <2>1. AttemptsType'
    BY <1>1, <1>10, EndingKeepsTypes DEF Suspend, Outcomes
  <2> QED
    BY <1>1, <1>2, <1>10, <2>1 DEF Suspend, Types, StoresType, world
<1> QED
  BY <1>4, <1>5, <1>6, <1>7, <1>8, <1>9, <1>10

LEMMA CallStepKeepsTypes ==
  ASSUME Types, NEW w \in Workers, NEW c \in Calls, CallStep(w, c) \/ Land(w, c)
  PROVE  Types'
<1>1. AttemptsType /\ StoresType
  BY DEF Types
<1>2. UNCHANGED <<claim, checkpoint, asked, granted, batches>>
  BY DEF CallStep, Land, Enter, Dispatch, OverBudget, Forestall, Deduplicate, Undecidable,
    Declined, BackOff, Again, CancelledBackingOff, Raise, Abort, Return, Overdraw,
    Unrecorded, stores, world
<1>3. \/ attempt' = [attempt EXCEPT ![w].named = @ \cup {c}]
      \/ attempt' = [attempt EXCEPT ![w].mine = @ \cup {c}]
      \/ attempt' = [attempt EXCEPT ![w].unreported = @ \cup {c}]
      \/ attempt' = [attempt EXCEPT ![w].unreported =
                       IF attempt[w].tries[c] > 0 THEN @ \cup {c} ELSE @]
      \/ attempt' = [attempt EXCEPT ![w].tries[c] = @ + 1]
      \/ UNCHANGED attempt
  BY DEF CallStep, Land, Enter, Dispatch, OverBudget, Forestall, Deduplicate, Undecidable,
    Declined, BackOff, Again, CancelledBackingOff, Raise, Abort, Return, Overdraw,
    Unrecorded, Names
<1>4. AttemptsType'
  BY <1>1, <1>3, ReportsKeepTypes
<1> QED
  BY <1>1, <1>2, <1>4 DEF Types, StoresType

LEMMA BatchEndKeepsTypes ==
  ASSUME Types, NEW w \in Workers, StopShort(w) \/ Merge(w)
  PROVE  Types'
<1> DEFINE a == attempt[w]
           merged == [a EXCEPT !.open = @ \ InBatch(w)]
<1>1. a \in Attempts /\ AttemptsType /\ StoresType
  BY DEF Types, AttemptsType
<1>2. CASE StopShort(w)
  <2>1. AttemptsType'
    BY <1>1, <1>2, StoppingShortKeepsTypes
  <2> QED
    BY <1>1, <1>2, <2>1 DEF StopShort, Types, StoresType, stores, world
<1>3. CASE Merge(w)
  <2>1. UNCHANGED <<claim, asked, granted, batches>>
    BY <1>3 DEF Merge, world
  <2>2. CASE \E outcome \in {"cancelled", "failed"} : Ended(w, outcome) /\ UNCHANGED checkpoint
    <3>1. AttemptsType'
      BY <1>1, <2>2, EndingKeepsTypes DEF Outcomes
    <3> QED
      BY <1>1, <2>1, <2>2, <3>1 DEF Types, StoresType
  <2>3. CASE /\ \/ Recorded(Frontier("after_tool_result", a.iteration, NoCall, merged.open))
                \/ UNCHANGED checkpoint
             /\ attempt' = [attempt EXCEPT ![w] = NextTurn(merged)]
    <3>1. merged \in Attempts
      BY <1>1 DEF Attempts
    <3>2. AttemptsType'
      BY <1>1, <2>3, <3>1, NextTurnType, Updates
    <3>3. a.iteration \in Nat /\ merged.open \in SUBSET Calls
      BY <1>1, <3>1 DEF Attempts
    <3>4. Frontier("after_tool_result", a.iteration, NoCall, merged.open) \in Frontiers
      BY <3>3, FrontierType DEF Boundaries
    <3>5. checkpoint' \in Frontiers
      BY <1>1, <2>3, <3>4 DEF Recorded, StoresType
    <3> QED
      BY <1>1, <2>1, <3>2, <3>5 DEF Types, StoresType
  <2> QED
    BY <1>3, <2>2, <2>3 DEF Merge
<1> QED
  BY <1>2, <1>3

LEMMA RedeemingKeepsTypes ==
  ASSUME Types, NEW w \in Workers, Redeem(w)
  PROVE  Types'
<1>1. attempt[w] \in Attempts /\ AttemptsType /\ StoresType
  BY DEF Types, AttemptsType
<1>2. PICK yes \in BOOLEAN :
        /\ granted' = [granted EXCEPT ![asked.call] = @ + (IF yes THEN 1 ELSE 0)]
        /\ \/ attempt' = [attempt EXCEPT ![w].step = "resuming",
                            ![w].decided = [call |-> asked.call, yes |-> yes]]
           \/ Over(w, "refused")
  BY DEF Redeem
<1>3. asked.call \in Calls \cup {NoCall}
  BY <1>1 DEF StoresType
<1>4. AttemptsType'
  <2>1. CASE Over(w, "refused")
    BY <1>1, <2>1, EndingKeepsTypes DEF Outcomes
  <2>2. CASE attempt' = [attempt EXCEPT ![w].step = "resuming",
                            ![w].decided = [call |-> asked.call, yes |-> yes]]
    <3> DEFINE d == [call |-> asked.call, yes |-> yes]
               b == [attempt[w] EXCEPT !.step = "resuming", !.decided = d]
    <3>1. attempt' = [attempt EXCEPT ![w] = b]
      BY <2>2
    <3>2. d \in [call : Calls \cup {NoCall}, yes : BOOLEAN] /\ "resuming" \in Steps
      BY <1>3 DEF Steps
    <3>3. b \in Attempts /\ b.step = "resuming"
      <4> HIDE DEF d
      <4> QED
        BY <1>1, <3>2 DEF Attempts
    <3>4. AtACall(b)
      BY <3>3 DEF AtACall
    <3> QED
      BY <1>1, <3>1, <3>3, <3>4, Updates
  <2> QED
    BY <1>2, <2>1, <2>2
<1>5. PICK n \in {0, 1} : granted' = [granted EXCEPT ![asked.call] = @ + n]
  BY <1>2
<1>6. granted' \in [Calls -> Nat]
  <2>1. CASE asked.call \in Calls
    BY <1>1, <1>5, <2>1 DEF StoresType
  <2>2. CASE asked.call \notin Calls
    <3>1. granted' = granted
      BY <1>1, <1>5, <2>2 DEF StoresType
    <3> QED
      BY <1>1, <3>1 DEF StoresType
  <2> QED
    BY <2>1, <2>2
<1>7. asked' \in [call : Calls \cup {NoCall}, spent : BOOLEAN]
  BY <1>1 DEF Redeem, StoresType
<1> QED
  BY <1>1, <1>4, <1>6, <1>7 DEF Redeem, Types, StoresType

LEMMA ResumingKeepsTypes ==
  ASSUME Types, NEW w \in Workers,
         \/ ReadFrontier(w, "idle") \/ ReadFrontier(w, "resuming") \/ NothingToResume(w)
         \/ Claim(w) \/ Conflict(w) \/ Cancel(w) \/ Crash(w)
  PROVE  Types'
<1> DEFINE a == attempt[w]
           f == a.frontier
<1>1. a \in Attempts /\ AttemptsType /\ StoresType
  BY DEF Types, AttemptsType
<1>2. CASE ReadFrontier(w, "idle") \/ ReadFrontier(w, "resuming")
  <2> DEFINE b == [a EXCEPT !.step = "claiming", !.frontier = checkpoint]
  <2>1. attempt' = [attempt EXCEPT ![w] = b]
    BY <1>2 DEF ReadFrontier
  <2>2. b \in Attempts /\ b.step = "claiming"
    BY <1>1 DEF Attempts, Steps, StoresType
  <2>3. AtACall(b)
    BY <2>2 DEF AtACall
  <2>4. AttemptsType'
    BY <1>1, <2>1, <2>2, <2>3, Updates
  <2> QED
    BY <1>1, <1>2, <2>4 DEF ReadFrontier, Types, StoresType, stores, world
<1>3. CASE NothingToResume(w) \/ Conflict(w) \/ Crash(w)
  <2>1. PICK outcome \in {"refused", "conflict", "crashed"} : Over(w, outcome)
    BY <1>3 DEF NothingToResume, Conflict, Crash
  <2>2. AttemptsType'
    BY <1>1, <2>1, EndingKeepsTypes DEF Outcomes
  <2> QED
    BY <1>1, <1>3, <2>2 DEF NothingToResume, Conflict, Crash, Types, StoresType, stores, world
<1>4. CASE Claim(w)
  <2> DEFINE restored == [a EXCEPT !.iteration = f.iteration, !.open = f.open]
             only == <<f.pending>>
             more == f.open \cup {f.pending}
             b == [restored EXCEPT !.step = "clearing", !.batch = only, !.at = 1,
                                   !.open = more]
  <2>1. f \in Frontiers
    BY <1>1 DEF Attempts
  <2>2. restored \in Attempts
    BY <1>1, <2>1, Nothings DEF Attempts, Frontiers
  <2>3. ASSUME f.pending = NoCall PROVE AttemptsType'
    <3>1. attempt' = [attempt EXCEPT ![w] = NextTurn(restored)]
      BY <1>4, <2>3 DEF Claim
    <3>2. NextTurn(restored) \in Attempts /\ AtACall(NextTurn(restored))
      BY <2>2, NextTurnType
    <3> HIDE DEF restored
    <3> QED
      BY <1>1, <3>1, <3>2, Updates
  <2>4. ASSUME f.pending # NoCall PROVE AttemptsType'
    <3>1. attempt' = [attempt EXCEPT ![w] = b]
      BY <1>4, <2>4 DEF Claim
    <3>2. f.pending \in Calls /\ f.open \in SUBSET Calls
      BY <2>1, <2>4 DEF Frontiers
    <3>3. only \in Seq(Calls) /\ Len(only) = 1 /\ more \in SUBSET Calls
      BY <3>2
    <3>4. b \in Attempts /\ b.at = 1 /\ b.batch = only
      <4>1. "clearing" \in Steps
        BY DEF Steps
      <4> HIDE DEF restored, only, more
      <4> QED
        BY <2>2, <3>3, <4>1 DEF Attempts
    <3>5. AtACall(b)
      BY <3>3, <3>4 DEF AtACall
    <3> HIDE DEF b
    <3> QED
      BY <1>1, <3>1, <3>4, <3>5, Updates
  <2>5. AttemptsType'
    BY <2>3, <2>4
  <2>6. UNCHANGED <<checkpoint, asked, granted, batches>> /\ claim' = w
    BY <1>4 DEF Claim, world
  <2> QED
    BY <1>1, <2>5, <2>6 DEF Types, StoresType
<1>5. CASE Cancel(w)
  <2> DEFINE b == [a EXCEPT !.cancelled = TRUE]
  <2>1. attempt' = [attempt EXCEPT ![w] = b]
    BY <1>5 DEF Cancel
  <2>2. b \in Attempts /\ AtACall(b)
    BY <1>1 DEF Attempts, AttemptsType, AtACall
  <2>3. AttemptsType'
    BY <1>1, <2>1, <2>2, Updates
  <2> QED
    BY <1>1, <1>5, <2>3 DEF Cancel, Types, StoresType, stores, world
<1> QED
  BY <1>2, <1>3, <1>4, <1>5

-----------------------------------------------------------------------------
(* The theorem.                                                               *)

LEMMA InitTypes == Init => Types
<1> SUFFICES ASSUME Init PROVE Types
  OBVIOUS
<1>1. StoresType
  BY Nothings DEF Init, StoresType, NoQuestion
<1>2. Begun \in Attempts /\ AtACall(Begun) /\ Idle \in Attempts /\ AtACall(Idle)
  <2>1. Idle \in Attempts
    BY Nothings
  <2>2. Begun \in Attempts /\ Begun.step = "turn" /\ Idle.step = "idle"
    BY <2>1 DEF Begun, Attempts, Steps, Idle
  <2> QED
    BY <2>1, <2>2 DEF AtACall
<1>3. AttemptsType
  BY <1>2 DEF Init, AttemptsType
<1> QED
  BY <1>1, <1>3 DEF Types

LEMMA NextTypes == Types /\ [Next]_vars => Types'
<1> SUFFICES ASSUME Types, [Next]_vars PROVE Types'
  OBVIOUS
<1>1. ASSUME NEW w \in Workers, Step(w) PROVE Types'
  BY <1>1, TurnsKeepTypes, ClearingKeepsTypes, CallStepKeepsTypes, BatchEndKeepsTypes,
     ResumingKeepsTypes DEF Step
<1>2. ASSUME NEW w \in Workers,
             Redeem(w) \/ ReadFrontier(w, "idle") \/ Cancel(w) \/ Crash(w)
      PROVE Types'
  BY <1>2, RedeemingKeepsTypes, ResumingKeepsTypes
<1>3. ASSUME NEW w \in Workers, NEW c \in Calls, Land(w, c) PROVE Types'
  BY <1>3, CallStepKeepsTypes
<1>4. CASE ClaimLapses \/ UNCHANGED vars
  BY <1>4 DEF ClaimLapses, vars, world, Types, AttemptsType, StoresType
<1> QED
  BY <1>1, <1>2, <1>3, <1>4 DEF Next

\* Every variable keeps its type, and a worker that clears a batch is at one of its calls.
THEOREM TypeCorrect == Spec => []TypeOK
<1>1. Types /\ IInv => TypeOK
  BY DEF Types, AttemptsType, AtACall, StoresType, IInv, CallsType, TypeOK
<1>2. Spec => []Types
  BY InitTypes, NextTypes, PTL DEF Spec
<1> QED
  BY <1>1, <1>2, Invariance, PTL

-----------------------------------------------------------------------------
(* What an attempt leaves behind: the tools still running for it, and the     *)
(* effects it has to name.                                                    *)

BatchOf(a) == {a.batch[i] : i \in 1..Len(a.batch)}
Reported(a) == a.named \cup a.unreported \cup Repeatable

\* Calls have a state while their batch is cleared or out, and are at their tools while it is out.
Placed(a, k) ==
    \A c \in Calls : k[c] # "none" =>
        /\ a.step \in {"clearing", "deferred", "fanning"} /\ c \in BatchOf(a)
        /\ k[c] \notin {"cleared", "declined"} => a.step = "fanning"

\* A call was cut short by the caller or by a sibling that ended the batch.
Halting(a, k) == (\E c \in Calls : k[c] = "cut") => a.cancelled \/ \E c \in Calls : k[c] \in Lost

\* A tool runs for a call that is out or was given up on: then the attempt is cancelled or ends.
Running(a, k, b) ==
    \A c \in Calls : b[c] =>
        \/ k[c] \in {"inside", "aborted", "cut"}
        \/ a.step = "turn" /\ a.cancelled
        \/ a.step \in {"ending", "over"} /\ a.outcome # "suspended"

Unended(a) == a.step \notin {"ending", "over"} => a.outcome = "none"

\* What took effect, or still may, is reported, or out; or the attempt does not end by itself.
Covered(a, k, b) ==
    \A c \in Calls : c \in a.mine \/ b[c] =>
        \/ c \in Reported(a) \/ k[c] \in {"inside", "waiting"}
        \/ a.step = "over" /\ a.outcome \notin {"failed", "cancelled"}

\* What took effect unreported and is at its tool again is there for another try.
Tried(a, k, b) ==
    \A c \in Calls :
        /\ k[c] = "waiting" => a.tries[c] > 0
        /\ k[c] = "inside" /\ b[c] /\ c \in a.mine /\ c \notin Reported(a) => a.tries[c] > 0

Sane(a, k, b) ==
    /\ Placed(a, k) /\ Halting(a, k) /\ Running(a, k, b) /\ Unended(a)
    /\ Covered(a, k, b) /\ Tried(a, k, b)

Books == \A w \in Workers : Sane(attempt[w], call[w], body[w])

\* A step of one worker that leaves its own books sane.
LEMMA OwnBooks ==
  ASSUME Types, CallsType, Books, NEW w \in Workers, NEW a, NEW k, NEW b,
         attempt' = [attempt EXCEPT ![w] = a], call' = [call EXCEPT ![w] = k],
         body' = [body EXCEPT ![w] = b], Sane(a, k, b)
  PROVE  Books'
<1>1. /\ attempt'[w] = a /\ call'[w] = k /\ body'[w] = b
      /\ \A v \in Workers : v # w =>
           attempt'[v] = attempt[v] /\ call'[v] = call[v] /\ body'[v] = body[v]
  BY DEF Types, AttemptsType, CallsType
<1> QED
  BY <1>1 DEF Books

\* The same where the calls, the tools or the attempt do not move.
LEMMA Rests ==
  ASSUME Types, CallsType, NEW w \in Workers
  PROVE  /\ UNCHANGED attempt => attempt' = [attempt EXCEPT ![w] = attempt[w]]
         /\ UNCHANGED call => call' = [call EXCEPT ![w] = call[w]]
         /\ UNCHANGED body => body' = [body EXCEPT ![w] = body[w]]
BY DEF Types, AttemptsType, CallsType

LEMMA Fields ==
  ASSUME Types, CallsType, NEW w \in Workers
  PROVE  /\ attempt[w] \in Attempts /\ attempt[w].tries \in [Calls -> Nat]
         /\ call[w] \in [Calls -> CallStates] /\ body[w] \in [Calls -> BOOLEAN]
         /\ attempt[w].cancelled \in BOOLEAN
BY DEF Types, AttemptsType, CallsType, Attempts

\* An attempt ends, is over or starts a turn: its calls have no state any more.
LEMMA EndingBooks ==
  ASSUME Types, CallsType, Books, NEW w \in Workers, NEW outcome \in Outcomes \ {"suspended"},
         Ended(w, outcome) \/ (Over(w, outcome) /\ outcome \notin {"failed", "cancelled"}),
         UNCHANGED body,
         Ended(w, outcome) => \A c \in Calls : call[w][c] \notin {"inside", "waiting"},
         Ended(w, outcome) => attempt[w].step # "over"
  PROVE  Books'
<1> DEFINE k == [c \in Calls |-> "none"]
<1>1. /\ attempt[w] \in Attempts /\ Sane(attempt[w], call[w], body[w])
      /\ body' = [body EXCEPT ![w] = body[w]]
  BY Fields, Rests DEF Books
<1>2. call' = [call EXCEPT ![w] = k]
  BY DEF Ended, Over, NoBatch
<1>3. CASE Ended(w, outcome)
  <2> DEFINE a == [Idle EXCEPT !.step = "ending", !.outcome = outcome, !.named = attempt[w].named,
                        !.mine = attempt[w].mine, !.unreported = attempt[w].unreported]
  <2>1. /\ a.step = "ending" /\ a.outcome = outcome /\ a.named = attempt[w].named
        /\ a.mine = attempt[w].mine /\ a.unreported = attempt[w].unreported
    BY DEF Idle
  <2>2. attempt' = [attempt EXCEPT ![w] = a]
    BY <1>3 DEF Ended
  <2> HIDE DEF a
  <2>3. Covered(a, k, body[w])
    BY <1>1, <1>3, <2>1 DEF Sane, Covered, Reported
  <2>4. Placed(a, k) /\ Halting(a, k) /\ Running(a, k, body[w]) /\ Unended(a) /\ Tried(a, k, body[w])
    BY <2>1 DEF Placed, Halting, Running, Unended, Tried
  <2> QED
    BY <1>1, <1>2, <2>2, <2>3, <2>4, OwnBooks DEF Sane
<1>4. CASE Over(w, outcome) /\ outcome \notin {"failed", "cancelled"}
  <2> DEFINE a == [Idle EXCEPT !.step = "over", !.outcome = outcome]
  <2>1. a.step = "over" /\ a.outcome = outcome
    BY DEF Idle
  <2>2. attempt' = [attempt EXCEPT ![w] = a]
    BY <1>4 DEF Over
  <2> HIDE DEF a
  <2>3. Sane(a, k, body[w])
    BY <1>4, <2>1 DEF Sane, Placed, Halting, Running, Unended, Tried, Covered
  <2> QED
    BY <1>1, <1>2, <2>2, <2>3, OwnBooks
<1> QED
  BY <1>3, <1>4

\* One call of one worker moves, its tool runs or not, and its attempt reports it or not.
OneCall(w, c, a, k, b) ==
    /\ attempt' = [attempt EXCEPT ![w] = a] /\ call' = [call EXCEPT ![w] = k]
    /\ body' = [body EXCEPT ![w] = b]
    /\ \A d \in Calls : d # c => k[d] = call[w][d] /\ b[d] = body[w][d]
    /\ a.step = attempt[w].step /\ a.batch = attempt[w].batch
    /\ a.cancelled = attempt[w].cancelled /\ a.outcome = attempt[w].outcome
    /\ attempt[w].named \subseteq a.named /\ attempt[w].unreported \subseteq a.unreported
    /\ a.mine \subseteq attempt[w].mine \cup {c}
    /\ \A d \in Calls : d # c => a.tries[d] = attempt[w].tries[d]
    /\ k[c] # "none" => /\ a.step \in {"clearing", "deferred", "fanning"} /\ c \in BatchOf(a)
                        /\ k[c] \notin {"cleared", "declined"} => a.step = "fanning"
    /\ k[c] = "cut" => call[w][c] = "cut"
    /\ call[w][c] \in Lost => k[c] \in Lost
    /\ b[c] => \/ k[c] \in {"inside", "aborted", "cut"}
               \/ a.step = "turn" /\ a.cancelled
               \/ a.step \in {"ending", "over"} /\ a.outcome # "suspended"
    /\ c \in a.mine \/ b[c] =>
           \/ c \in Reported(a) \/ k[c] \in {"inside", "waiting"}
           \/ a.step = "over" /\ a.outcome \notin {"failed", "cancelled"}
    /\ k[c] = "waiting" => a.tries[c] > 0
    /\ k[c] = "inside" /\ b[c] /\ c \in a.mine /\ c \notin Reported(a) => a.tries[c] > 0

LEMMA CallBooks ==
  ASSUME Types, CallsType, Books, NEW w \in Workers, NEW c \in Calls,
         NEW a, NEW k, NEW b, OneCall(w, c, a, k, b)
  PROVE  Books'
<1>1. Sane(attempt[w], call[w], body[w])
  BY DEF Books
<1>2. BatchOf(a) = BatchOf(attempt[w])
  BY DEF BatchOf, OneCall
<1>3. Placed(a, k)
  BY <1>1, <1>2 DEF Sane, Placed, OneCall
<1>4. Halting(a, k)
  BY <1>1 DEF Sane, Halting, OneCall
<1>5. Running(a, k, b)
  BY <1>1 DEF Sane, Running, OneCall
<1>6. Unended(a)
  BY <1>1 DEF Sane, Unended, OneCall
<1>7. Reported(attempt[w]) \subseteq Reported(a)
  BY DEF Reported, OneCall
<1>8. Covered(a, k, b)
  BY <1>1, <1>7 DEF Sane, Covered, OneCall
<1>9. Tried(a, k, b)
  BY <1>1, <1>7 DEF Sane, Tried, OneCall
<1> QED
  BY <1>3, <1>4, <1>5, <1>6, <1>8, <1>9, OwnBooks DEF Sane, OneCall

\* A call that moves at its tool is out.
LEMMA CallOut ==
  ASSUME Types, CallsType, Books, NEW w \in Workers, NEW c \in Calls, NEW s, At(w, c, s), s # "none"
  PROVE  /\ attempt[w].step = "fanning" /\ c \in BatchOf(attempt[w])
         /\ call[w][c] = s
         /\ s \notin {"inside", "waiting"} /\ c \in attempt[w].mine => c \in Reported(attempt[w])
         /\ body[w][c] => s \in {"inside", "aborted", "cut"}
         /\ s = "waiting" => attempt[w].tries[c] > 0
         /\ s = "inside" /\ body[w][c] /\ c \in attempt[w].mine /\ c \notin Reported(attempt[w])
              => attempt[w].tries[c] > 0
<1>1. Sane(attempt[w], call[w], body[w]) /\ attempt[w].step = "fanning" /\ call[w][c] = s
  BY DEF Books, At, Fanning
<1> QED
  BY <1>1 DEF Sane, Placed, Covered, Running, Tried

LEMMA CallMoves ==
  ASSUME Types, CallsType, NEW w \in Workers, NEW c \in Calls, NEW s, Becomes(w, c, s)
  PROVE  \E k : /\ call' = [call EXCEPT ![w] = k] /\ k[c] = s
                /\ \A d \in Calls : d # c => k[d] = call[w][d]
<1> DEFINE k == [call[w] EXCEPT ![c] = s]
<1>1. call[w] \in [Calls -> CallStates]
  BY Fields
<1>2. call' = [call EXCEPT ![w] = k]
  BY DEF Becomes
<1>3. k[c] = s /\ \A d \in Calls : d # c => k[d] = call[w][d]
  BY <1>1
<1> HIDE DEF k
<1> QED
  BY <1>2, <1>3

LEMMA BodyMoves ==
  ASSUME Types, CallsType, NEW w \in Workers, NEW c \in Calls
  PROVE  /\ Quiet(w, c) =>
              \E b : /\ body' = [body EXCEPT ![w] = b] /\ ~b[c]
                     /\ \A d \in Calls : d # c => b[d] = body[w][d]
         /\ body' = [body EXCEPT ![w][c] = TRUE] =>
              \E b : /\ body' = [body EXCEPT ![w] = b] /\ b[c]
                     /\ \A d \in Calls : d # c => b[d] = body[w][d]
<1>1. body[w] \in [Calls -> BOOLEAN]
  BY Fields
<1>2. ASSUME Quiet(w, c)
      PROVE  \E b : /\ body' = [body EXCEPT ![w] = b] /\ ~b[c]
                    /\ \A d \in Calls : d # c => b[d] = body[w][d]
  <2> DEFINE b == [body[w] EXCEPT ![c] = FALSE]
  <2>1. body' = [body EXCEPT ![w] = b]
    BY <1>2 DEF Quiet
  <2>2. ~b[c] /\ \A d \in Calls : d # c => b[d] = body[w][d]
    BY <1>1
  <2> HIDE DEF b
  <2> QED
    BY <2>1, <2>2
<1>3. ASSUME body' = [body EXCEPT ![w][c] = TRUE]
      PROVE  \E b : /\ body' = [body EXCEPT ![w] = b] /\ b[c]
                    /\ \A d \in Calls : d # c => b[d] = body[w][d]
  <2> DEFINE b == [body[w] EXCEPT ![c] = TRUE]
  <2>1. body' = [body EXCEPT ![w] = b]
    BY <1>3
  <2>2. b[c] /\ \A d \in Calls : d # c => b[d] = body[w][d]
    BY <1>1
  <2> HIDE DEF b
  <2> QED
    BY <2>1, <2>2
<1> QED
  BY <1>2, <1>3

\* What a step of a call does to the attempt: it names it, counts it as the attempt's own,
\* sets it apart, counts a try, or none of these.
Marks(w, c, a) ==
    /\ attempt' = [attempt EXCEPT ![w] = a]
    /\ a.step = attempt[w].step /\ a.batch = attempt[w].batch
    /\ a.cancelled = attempt[w].cancelled /\ a.outcome = attempt[w].outcome
    /\ attempt[w].named \subseteq a.named /\ attempt[w].unreported \subseteq a.unreported
    /\ a.mine \subseteq attempt[w].mine \cup {c}
    /\ \A d \in Calls : d # c => a.tries[d] = attempt[w].tries[d]

LEMMA MarkMoves ==
  ASSUME Types, CallsType, NEW w \in Workers, NEW c \in Calls
  PROVE  /\ UNCHANGED attempt => \E a : Marks(w, c, a) /\ a = attempt[w]
         /\ Names(w, c) => \E a : /\ Marks(w, c, a) /\ c \in a.named
                                  /\ a.mine = attempt[w].mine /\ a.tries = attempt[w].tries
         /\ attempt' = [attempt EXCEPT ![w].mine = @ \cup {c}] =>
              \E a : /\ Marks(w, c, a) /\ a.tries = attempt[w].tries
                     /\ a.named = attempt[w].named /\ a.unreported = attempt[w].unreported
         /\ attempt' = [attempt EXCEPT ![w].unreported = @ \cup {c}] =>
              \E a : /\ Marks(w, c, a) /\ c \in a.unreported
                     /\ a.mine = attempt[w].mine /\ a.tries = attempt[w].tries
         /\ attempt' = [attempt EXCEPT ![w].tries[c] = @ + 1] =>
              \E a : /\ Marks(w, c, a) /\ a.tries[c] > 0 /\ a.mine = attempt[w].mine
                     /\ a.named = attempt[w].named /\ a.unreported = attempt[w].unreported
<1>1. /\ attempt[w] \in Attempts /\ attempt[w].tries \in [Calls -> Nat]
      /\ attempt' = attempt => attempt' = [attempt EXCEPT ![w] = attempt[w]]
  BY Fields, Rests
<1>2. ASSUME NEW S, attempt' = [attempt EXCEPT ![w].named = @ \cup {c}]
      PROVE  \E a : /\ Marks(w, c, a) /\ c \in a.named
                    /\ a.mine = attempt[w].mine /\ a.tries = attempt[w].tries
  <2> DEFINE a == [attempt[w] EXCEPT !.named = @ \cup {c}]
  <2>1. attempt' = [attempt EXCEPT ![w] = a]
    BY <1>2
  <2>2. Marks(w, c, a) /\ c \in a.named /\ a.mine = attempt[w].mine /\ a.tries = attempt[w].tries
    BY <1>1, <2>1 DEF Attempts, Marks
  <2> HIDE DEF a
  <2> QED
    BY <2>2
<1>3. ASSUME attempt' = [attempt EXCEPT ![w].mine = @ \cup {c}]
      PROVE  \E a : /\ Marks(w, c, a) /\ a.tries = attempt[w].tries
                    /\ a.named = attempt[w].named /\ a.unreported = attempt[w].unreported
  <2> DEFINE a == [attempt[w] EXCEPT !.mine = @ \cup {c}]
  <2>1. attempt' = [attempt EXCEPT ![w] = a]
    BY <1>3
  <2>2. /\ Marks(w, c, a) /\ a.tries = attempt[w].tries
        /\ a.named = attempt[w].named /\ a.unreported = attempt[w].unreported
    BY <1>1, <2>1 DEF Attempts, Marks
  <2> HIDE DEF a
  <2> QED
    BY <2>2
<1>4. ASSUME NEW S \in {{}, {c}}, attempt' = [attempt EXCEPT ![w].unreported = @ \cup S]
      PROVE  \E a : /\ Marks(w, c, a) /\ a.unreported = attempt[w].unreported \cup S
                    /\ a.mine = attempt[w].mine /\ a.tries = attempt[w].tries
  <2> DEFINE a == [attempt[w] EXCEPT !.unreported = @ \cup S]
  <2>1. attempt' = [attempt EXCEPT ![w] = a]
    BY <1>4
  <2>2. /\ Marks(w, c, a) /\ a.unreported = attempt[w].unreported \cup S
        /\ a.mine = attempt[w].mine /\ a.tries = attempt[w].tries
    BY <1>1, <2>1 DEF Attempts, Marks
  <2> HIDE DEF a
  <2> QED
    BY <2>2
<1>5. ASSUME attempt' = [attempt EXCEPT ![w].tries[c] = @ + 1]
      PROVE  \E a : /\ Marks(w, c, a) /\ a.tries[c] > 0 /\ a.mine = attempt[w].mine
                    /\ a.named = attempt[w].named /\ a.unreported = attempt[w].unreported
  <2> DEFINE t == [attempt[w].tries EXCEPT ![c] = @ + 1]
             a == [attempt[w] EXCEPT !.tries = t]
  <2>1. attempt' = [attempt EXCEPT ![w] = a]
    BY <1>5
  <2>2. t[c] > 0 /\ \A d \in Calls : d # c => t[d] = attempt[w].tries[d]
    BY <1>1
  <2>3. /\ Marks(w, c, a) /\ a.tries[c] > 0 /\ a.mine = attempt[w].mine
        /\ a.named = attempt[w].named /\ a.unreported = attempt[w].unreported
    <3> HIDE DEF t
    <3> QED
      BY <1>1, <2>1, <2>2 DEF Attempts, Marks
  <2> HIDE DEF a
  <2> QED
    BY <2>3
<1>6. UNCHANGED attempt => \E a : Marks(w, c, a) /\ a = attempt[w]
  BY <1>1 DEF Marks
<1>7. ASSUME attempt' = [attempt EXCEPT ![w].unreported = @ \cup {c}]
      PROVE  \E a : /\ Marks(w, c, a) /\ c \in a.unreported
                    /\ a.mine = attempt[w].mine /\ a.tries = attempt[w].tries
  BY <1>4, <1>7
<1> QED
  BY <1>2, <1>3, <1>5, <1>6, <1>7 DEF Names

\* A call that is out moves on.
Moves(w, c, s, t, a, b) ==
    /\ At(w, c, s) /\ s \notin Lost \cup {"none"} /\ t \notin {"none", "cut"}
    /\ Becomes(w, c, t) /\ Marks(w, c, a) /\ a.mine = attempt[w].mine
    /\ body' = [body EXCEPT ![w] = b] /\ \A d \in Calls : d # c => b[d] = body[w][d]
    /\ b[c] => t \in {"inside", "aborted"}
    /\ t \notin {"inside", "waiting"} /\ (c \in a.mine \/ b[c]) => c \in Reported(a)
    /\ t = "waiting" => a.tries[c] > 0
    /\ t = "inside" /\ b[c] /\ c \in a.mine /\ c \notin Reported(a) => a.tries[c] > 0

LEMMA MovesOn ==
  ASSUME Types, CallsType, Books, NEW w \in Workers, NEW c \in Calls, NEW s, NEW t, NEW a, NEW b,
         Moves(w, c, s, t, a, b)
  PROVE  Books'
<1>1. PICK k : /\ call' = [call EXCEPT ![w] = k] /\ k[c] = t
               /\ \A d \in Calls : d # c => k[d] = call[w][d]
  BY CallMoves DEF Moves
<1>2. attempt[w].step = "fanning" /\ c \in BatchOf(attempt[w]) /\ call[w][c] = s
  BY CallOut DEF Moves
<1>3. a.step = "fanning" /\ c \in BatchOf(a)
  BY <1>2 DEF Moves, Marks, BatchOf
<1>4. OneCall(w, c, a, k, b)
  BY <1>1, <1>2, <1>3 DEF Moves, Marks, OneCall
<1> QED
  BY <1>4, CallBooks

LEMMA DispatchBooks ==
  ASSUME Types, CallsType, Books, NEW w \in Workers, NEW c \in Calls, Dispatch(w, c)
  PROVE  Books'
<1>1. PICK b : /\ body' = [body EXCEPT ![w] = b] /\ b[c]
               /\ \A d \in Calls : d # c => b[d] = body[w][d]
  BY BodyMoves DEF Dispatch
<1>2. PICK a : Marks(w, c, a) /\ a = attempt[w]
  BY MarkMoves DEF Dispatch
<1>3. At(w, c, "entered") /\ "entered" \notin Lost \cup {"none"} /\ Becomes(w, c, "inside")
  BY DEF Dispatch, Takes, Lost
<1>4. c \in a.mine => c \in Reported(a)
  BY <1>2, <1>3, CallOut
<1>5. Moves(w, c, "entered", "inside", a, b)
  BY <1>1, <1>2, <1>3, <1>4 DEF Moves
<1> QED
  BY <1>5, MovesOn

\* An attempt that gives up on a call, at its door or inside, says so.
LEMMA NamingBooks ==
  ASSUME Types, CallsType, Books, NEW w \in Workers, NEW c \in Calls,
         \/ Forestall(w, c) \/ Undecidable(w, c) \/ Abort(w, c) \/ Unrecorded(w, c)
         \/ Return(w, c) \/ Raise(w, c)
  PROVE  Books'
<1>1. PICK b : /\ body' = [body EXCEPT ![w] = b]
               /\ \A d \in Calls : d # c => b[d] = body[w][d]
               /\ (b[c] => (body[w][c] /\ ~Raise(w, c)))
  <2>1. CASE Raise(w, c)
    BY <2>1, BodyMoves DEF Raise
  <2>2. CASE ~Raise(w, c)
    BY <2>2, Rests DEF Forestall, Undecidable, Abort, Unrecorded, Return
  <2> QED
    BY <2>1, <2>2
<1>2. PICK a : Marks(w, c, a) /\ c \in a.named /\ a.mine = attempt[w].mine
  BY MarkMoves DEF Forestall, Undecidable, Abort, Unrecorded, Return, Raise
<1>3. PICK s \in {"entered", "inside"}, t \in {"aborted", "failed", "answered"} :
        /\ At(w, c, s) /\ Becomes(w, c, t)
        /\ (s = "inside" /\ t # "aborted" => (Raise(w, c) \/ ~body[w][c]))
  BY DEF Forestall, Undecidable, Abort, Unrecorded, Return, Raise, Takes, Returned
<1>4. s \notin Lost \cup {"none"}
  BY DEF Lost
<1>5. body[w][c] => s = "inside"
  BY <1>3, <1>4, CallOut
<1>6. b[c] => t = "aborted"
  BY <1>1, <1>3, <1>5
<1>7. c \in Reported(a)
  BY <1>2 DEF Reported
<1>8. Moves(w, c, s, t, a, b)
  BY <1>1, <1>2, <1>3, <1>4, <1>6, <1>7 DEF Moves
<1> QED
  BY <1>8, MovesOn

\* A call that moves at its door leaves nothing new to report.
LEMMA DoorBooks ==
  ASSUME Types, CallsType, Books, NEW w \in Workers, NEW c \in Calls,
         Enter(w, c) \/ OverBudget(w, c) \/ Deduplicate(w, c)
  PROVE  Books'
<1> DEFINE a == attempt[w]
           b == body[w]
<1>1. Marks(w, c, a)
  BY MarkMoves DEF Enter, OverBudget, Deduplicate
<1>2. body' = [body EXCEPT ![w] = b]
  BY Rests DEF Enter, OverBudget, Deduplicate
<1>3. PICK s \in {"cleared", "entered"}, t \in {"entered", "failed", "answered"} :
        At(w, c, s) /\ Becomes(w, c, t)
  <2>1. Enter(w, c) => At(w, c, "cleared") /\ Becomes(w, c, "entered")
    BY DEF Enter, At, Becomes
  <2> QED
    BY <2>1 DEF OverBudget, Deduplicate, Takes
<1>4. s \notin Lost \cup {"none"}
  BY DEF Lost
<1>5. ~b[c] /\ (c \in a.mine => c \in Reported(a))
  BY <1>3, <1>4, CallOut
<1>6. Moves(w, c, s, t, a, b)
  BY <1>1, <1>2, <1>3, <1>4, <1>5 DEF Moves
<1> QED
  BY <1>6, MovesOn

\* A tool that refused ran before, if at all, and then the call is set apart.
LEMMA DeclinedBooks ==
  ASSUME Types, CallsType, Books, NEW w \in Workers, NEW c \in Calls, Declined(w, c)
  PROVE  Books'
<1>1. PICK b : /\ body' = [body EXCEPT ![w] = b] /\ ~b[c]
               /\ \A d \in Calls : d # c => b[d] = body[w][d]
  BY BodyMoves DEF Declined
<1>2. PICK a : /\ Marks(w, c, a) /\ (attempt[w].tries[c] > 0 => c \in a.unreported)
               /\ a.mine = attempt[w].mine
  <2>1. CASE attempt[w].tries[c] > 0
    <3>1. attempt' = [attempt EXCEPT ![w].unreported = @ \cup {c}]
      BY <2>1 DEF Declined
    <3> QED
      BY <3>1, MarkMoves
  <2>2. CASE ~(attempt[w].tries[c] > 0)
    <3>1. attempt' = attempt
      BY <2>2, Fields DEF Declined, Types, AttemptsType, Attempts
    <3> QED
      BY <2>2, <3>1, MarkMoves
  <2> QED
    BY <2>1, <2>2
<1>3. PICK t \in {"answered", "failed"} : Becomes(w, c, t)
  BY DEF Declined
<1>4. At(w, c, "inside") /\ body[w][c] /\ "inside" \notin Lost \cup {"none"}
  BY DEF Declined, Lost
<1>5. c \in attempt[w].mine /\ c \notin Reported(attempt[w]) => attempt[w].tries[c] > 0
  BY <1>4, CallOut
<1>6. c \in a.mine => c \in Reported(a)
  BY <1>2, <1>5 DEF Reported, Marks
<1>7. Moves(w, c, "inside", t, a, b)
  BY <1>1, <1>2, <1>3, <1>4, <1>6 DEF Moves
<1> QED
  BY <1>7, MovesOn

\* A call that waits for another try, and one that gets it.
LEMMA RetryBooks ==
  ASSUME Types, CallsType, Books, NEW w \in Workers, NEW c \in Calls,
         BackOff(w, c) \/ Again(w, c)
  PROVE  Books'
<1>1. CASE BackOff(w, c)
  <2>1. PICK b : /\ body' = [body EXCEPT ![w] = b] /\ ~b[c]
                 /\ \A d \in Calls : d # c => b[d] = body[w][d]
    BY <1>1, BodyMoves DEF BackOff
  <2>2. PICK a : Marks(w, c, a) /\ a.tries[c] > 0 /\ a.mine = attempt[w].mine
    <3>1. attempt' = [attempt EXCEPT ![w].tries[c] = @ + 1]
      BY <1>1 DEF BackOff
    <3> QED
      BY <3>1, MarkMoves
  <2>3. At(w, c, "inside") /\ "inside" \notin Lost \cup {"none"} /\ Becomes(w, c, "waiting")
    BY <1>1 DEF BackOff, Lost
  <2>4. Moves(w, c, "inside", "waiting", a, b)
    BY <2>1, <2>2, <2>3 DEF Moves
  <2> QED
    BY <2>4, MovesOn
<1>2. CASE Again(w, c)
  <2>1. PICK b : /\ body' = [body EXCEPT ![w] = b] /\ b[c]
                 /\ \A d \in Calls : d # c => b[d] = body[w][d]
    BY <1>2, BodyMoves DEF Again
  <2>2. PICK a : Marks(w, c, a) /\ a = attempt[w]
    BY <1>2, MarkMoves DEF Again
  <2>3. At(w, c, "waiting") /\ "waiting" \notin Lost \cup {"none"} /\ Becomes(w, c, "inside")
    BY <1>2 DEF Again, Lost
  <2>4. a.tries[c] > 0
    BY <2>2, <2>3, CallOut
  <2>5. Moves(w, c, "waiting", "inside", a, b)
    BY <2>1, <2>2, <2>3, <2>4 DEF Moves
  <2> QED
    BY <2>5, MovesOn
<1> QED
  BY <1>1, <1>2

\* A call cancelled between two tries, or whose result broke the budget, is set apart.
LEMMA SetApartBooks ==
  ASSUME Types, CallsType, Books, NEW w \in Workers, NEW c \in Calls,
         CancelledBackingOff(w, c) \/ Overdraw(w, c)
  PROVE  Books'
<1> DEFINE b == body[w]
<1>1. body' = [body EXCEPT ![w] = b]
  BY Rests DEF CancelledBackingOff, Overdraw
<1>2. PICK a : Marks(w, c, a) /\ c \in a.unreported /\ a.mine = attempt[w].mine
  BY MarkMoves DEF CancelledBackingOff, Overdraw
<1>3. PICK s \in {"waiting", "inside"}, t \in {"aborted", "failed"} :
        At(w, c, s) /\ Becomes(w, c, t) /\ (s = "inside" => ~body[w][c])
  BY DEF CancelledBackingOff, Overdraw, Returned
<1>4. s \notin Lost \cup {"none"}
  BY DEF Lost
<1>5. ~b[c]
  BY <1>3, <1>4, CallOut
<1>6. c \in Reported(a)
  BY <1>2 DEF Reported
<1>7. Moves(w, c, s, t, a, b)
  BY <1>1, <1>2, <1>3, <1>4, <1>5, <1>6 DEF Moves
<1> QED
  BY <1>7, MovesOn

\* An effect joins what the attempt did; that it may was accounted for while its tool ran.
LEMMA LandBooks ==
  ASSUME Types, CallsType, Books, NEW w \in Workers, NEW c \in Calls, Land(w, c)
  PROVE  Books'
<1> DEFINE k == call[w]
<1>1. PICK b : /\ body' = [body EXCEPT ![w] = b] /\ ~b[c]
               /\ \A d \in Calls : d # c => b[d] = body[w][d]
  BY BodyMoves DEF Land
<1>2. PICK a : /\ Marks(w, c, a) /\ a.tries = attempt[w].tries
               /\ a.named = attempt[w].named /\ a.unreported = attempt[w].unreported
  BY MarkMoves DEF Land
<1>3. call' = [call EXCEPT ![w] = k]
  BY Rests DEF Land
<1>4. Sane(attempt[w], k, body[w]) /\ body[w][c]
  BY DEF Books, Land
<1>5. Reported(a) = Reported(attempt[w]) /\ BatchOf(a) = BatchOf(attempt[w])
  BY <1>2 DEF Reported, BatchOf, Marks
<1>6. /\ k[c] # "none" => /\ a.step \in {"clearing", "deferred", "fanning"} /\ c \in BatchOf(a)
                          /\ k[c] \notin {"cleared", "declined"} => a.step = "fanning"
      /\ k[c] = "waiting" => a.tries[c] > 0
  BY <1>2, <1>4, <1>5 DEF Sane, Placed, Tried, Marks
<1>7. \/ c \in Reported(a) \/ k[c] \in {"inside", "waiting"}
      \/ a.step = "over" /\ a.outcome \notin {"failed", "cancelled"}
  BY <1>2, <1>4, <1>5 DEF Sane, Covered, Marks
<1>8. OneCall(w, c, a, k, b)
  BY <1>1, <1>2, <1>3, <1>6, <1>7 DEF OneCall, Marks
<1> QED
  BY <1>8, CallBooks

LEMMA CallStepBooks ==
  ASSUME Types, CallsType, Books, NEW w \in Workers, NEW c \in Calls,
         CallStep(w, c) \/ Land(w, c)
  PROVE  Books'
BY DispatchBooks, NamingBooks, DoorBooks, DeclinedBooks, RetryBooks, SetApartBooks, LandBooks
   DEF CallStep

\* What is short of the batch's end when a sibling or the caller ends it is named.
LEMMA StopShortBooks ==
  ASSUME Types, CallsType, Books, NEW w \in Workers, StopShort(w)
  PROVE  Books'
<1> DEFINE losing == \E c \in InBatch(w) : call[w][c] \in Lost
           stopped == {c \in InBatch(w) : /\ call[w][c] \notin Settled
                                          /\ losing \/ MayEnter(w, c)}
           a == [attempt[w] EXCEPT !.named = @ \cup stopped]
           k == [c \in Calls |-> IF c \notin stopped THEN call[w][c]
                                 ELSE IF call[w][c] = "cleared" THEN "never" ELSE "cut"]
           b == body[w]
<1>1. /\ Fanning(w) /\ (losing \/ attempt[w].cancelled)
      /\ call' = [call EXCEPT ![w] = k] /\ attempt' = [attempt EXCEPT ![w] = a]
  BY DEF StopShort
<1>2. body' = [body EXCEPT ![w] = b]
  BY Rests DEF StopShort
<1>3. /\ attempt[w] \in Attempts /\ Sane(attempt[w], call[w], body[w]) /\ attempt[w].step = "fanning"
  BY <1>1, Fields DEF Books, Fanning
<1>4. \A c \in stopped : c \in BatchOf(attempt[w]) /\ call[w][c] \notin Settled
  BY DEF InBatch, BatchOf
<1>5. /\ a.step = "fanning" /\ a.batch = attempt[w].batch /\ a.cancelled = attempt[w].cancelled
      /\ a.outcome = attempt[w].outcome /\ a.mine = attempt[w].mine
      /\ a.unreported = attempt[w].unreported /\ a.tries = attempt[w].tries
      /\ a.named = attempt[w].named \cup stopped
  <2> HIDE DEF stopped
  <2> QED
    BY <1>3 DEF Attempts
<1>6. /\ \A c \in Calls \ stopped : k[c] = call[w][c]
      /\ \A c \in stopped \cap Calls : k[c] \in {"never", "cut"} /\ (k[c] = "never" => call[w][c] = "cleared")
  <2> HIDE DEF stopped
  <2> QED
    OBVIOUS
<1>7. (\E c \in Calls : call[w][c] \in Lost /\ c \notin stopped) \/ ~losing
  <2>1. InBatch(w) \subseteq Calls
    BY <1>3 DEF InBatch, Attempts
  <2> QED
    BY <2>1, <1>4 DEF Lost, Settled
<1>8. \A c \in Calls : call[w][c] \in Lost => c \notin stopped
  BY <1>4 DEF Lost, Settled
<1> HIDE DEF stopped, a, k, b, losing
<1>9. Placed(a, k)
  BY <1>3, <1>4, <1>5, <1>6 DEF Sane, Placed, BatchOf
<1>10. Halting(a, k)
  BY <1>1, <1>3, <1>5, <1>6, <1>7, <1>8 DEF Sane, Halting
<1>11. Running(a, k, b)
  <2>1. ASSUME NEW c \in Calls, b[c] PROVE k[c] \in {"inside", "aborted", "cut"}
    <3>1. call[w][c] \in {"inside", "aborted", "cut"}
      BY <1>3, <2>1 DEF Sane, Running, b
    <3> QED
      BY <1>6, <3>1
  <2> QED
    BY <2>1 DEF Running
<1>12. Unended(a) /\ Covered(a, k, b) /\ Tried(a, k, b)
  <2>1. Reported(a) = Reported(attempt[w]) \cup stopped
    BY <1>5 DEF Reported
  <2>2. Covered(a, k, b)
    BY <1>3, <1>5, <1>6, <2>1 DEF Sane, Covered, b
  <2>3. Tried(a, k, b)
    BY <1>3, <1>5, <1>6, <2>1 DEF Sane, Tried, b
  <2> QED
    BY <1>3, <1>5, <2>2, <2>3 DEF Sane, Unended
<1> QED
  BY <1>1, <1>2, <1>9, <1>10, <1>11, <1>12, OwnBooks DEF Sane

\* An attempt without a batch goes from one place to another.
Goes(w, a) ==
    /\ attempt' = [attempt EXCEPT ![w] = a]
    /\ a.mine = attempt[w].mine /\ a.named = attempt[w].named
    /\ a.unreported = attempt[w].unreported
    /\ a.cancelled = attempt[w].cancelled /\ a.outcome = attempt[w].outcome
    /\ attempt[w].step \in {"idle", "resuming", "claiming", "turn"}
    /\ a.step \notin {"ending", "over"}
    /\ attempt[w].step = "turn" => a.step = "turn" \/ ~a.cancelled

LEMMA GoesBooks ==
  ASSUME Types, CallsType, Books, NEW w \in Workers, NEW a, Goes(w, a), UNCHANGED <<call, body>>
  PROVE  Books'
<1> DEFINE k == call[w]
           b == body[w]
<1>1. call' = [call EXCEPT ![w] = k] /\ body' = [body EXCEPT ![w] = b]
  BY Rests
<1>2. Sane(attempt[w], k, b) /\ attempt' = [attempt EXCEPT ![w] = a]
  BY DEF Books, Goes
<1>3. \A c \in Calls : k[c] = "none"
  BY <1>2 DEF Sane, Placed, Goes
<1>4. \A c \in Calls : b[c] => a.step = "turn" /\ a.cancelled
  BY <1>2, <1>3 DEF Sane, Running, Goes
<1>5. Reported(a) = Reported(attempt[w])
  BY DEF Reported, Goes
<1>6. Covered(a, k, b)
  BY <1>2, <1>3, <1>5 DEF Sane, Covered, Goes
<1>7. Unended(a)
  BY <1>2 DEF Sane, Unended, Goes
<1> HIDE DEF k, b
<1>8. Placed(a, k) /\ Halting(a, k) /\ Running(a, k, b) /\ Tried(a, k, b)
  BY <1>3, <1>4 DEF Placed, Halting, Running, Tried
<1>9. Sane(a, k, b)
  BY <1>6, <1>7, <1>8 DEF Sane
<1> QED
  BY <1>1, <1>2, <1>9, OwnBooks

\* The model's turn: no call has a state, and none of the tools runs unless the caller cancelled.
LEMMA TurnBooks ==
  ASSUME Types, CallsType, Books, NEW w \in Workers,
         GiveUp(w) \/ AskedForCalls(w) \/ Answered(w)
  PROVE  Books'
<1> DEFINE a == attempt[w]
<1>1. a \in Attempts /\ Sane(a, call[w], body[w]) /\ a.step = "turn"
  BY Fields DEF Books, GiveUp, AskedForCalls, Answered, MayAsk
<1>2. \A c \in Calls : call[w][c] = "none"
  BY <1>1 DEF Sane, Placed
<1>3. CASE GiveUp(w)
  <2>1. PICK outcome \in {"failed", "cancelled"} : Ended(w, outcome)
    BY <1>3 DEF GiveUp
  <2>2. outcome \in Outcomes \ {"suspended"} /\ UNCHANGED body
    BY <1>3 DEF Outcomes, GiveUp
  <2> QED
    BY <1>1, <1>2, <2>1, <2>2, EndingBooks
<1>4. CASE AskedForCalls(w)
  <2>1. PICK reply \in Replies : attempt' = [attempt EXCEPT ![w] =
             [a EXCEPT !.step = "clearing", !.batch = reply, !.at = 1,
                       !.open = a.open \cup {reply[i] : i \in 1..Len(reply)}]]
    BY <1>4 DEF AskedForCalls
  <2> DEFINE more == a.open \cup {reply[i] : i \in 1..Len(reply)}
             n == [a EXCEPT !.step = "clearing", !.batch = reply, !.at = 1, !.open = more]
  <2>2. /\ n.step = "clearing" /\ n.mine = a.mine /\ n.named = a.named
        /\ n.unreported = a.unreported /\ n.cancelled = a.cancelled /\ n.outcome = a.outcome
    <3> HIDE DEF more
    <3> QED
      BY <1>1 DEF Attempts
  <2>3. ~a.cancelled /\ UNCHANGED <<call, body>>
    BY <1>4 DEF AskedForCalls, MayAsk
  <2>4. Goes(w, n)
    BY <1>1, <2>1, <2>2, <2>3 DEF Goes
  <2> HIDE DEF n
  <2> QED
    BY <2>3, <2>4, GoesBooks
<1>5. CASE Answered(w) /\ Ended(w, "completed")
  <2>1. "completed" \in Outcomes \ {"suspended"} /\ UNCHANGED body
    BY <1>5 DEF Outcomes, Answered
  <2> QED
    BY <1>1, <1>2, <1>5, <2>1, EndingBooks
<1>6. CASE Answered(w) /\ attempt' = [attempt EXCEPT ![w] = NextTurn(a)] /\ UNCHANGED call
  <2> DEFINE n == NextTurn(a)
  <2>1. /\ n.step = "turn" /\ n.mine = a.mine /\ n.named = a.named
        /\ n.unreported = a.unreported /\ n.cancelled = a.cancelled /\ n.outcome = a.outcome
    BY <1>1 DEF Attempts, NextTurn
  <2>2. Goes(w, n) /\ UNCHANGED <<call, body>>
    BY <1>1, <1>6, <2>1 DEF Goes, Answered
  <2> HIDE DEF n
  <2> QED
    BY <2>2, GoesBooks
<1> QED
  BY <1>3, <1>4, <1>5, <1>6 DEF Answered

\* A worker that has settled a call of its batch: nothing of the batch is out yet.
LEMMA SettledBooks ==
  ASSUME Types, CallsType, Books, NEW w \in Workers, NEW s \in {"cleared", "declined"},
         NEW d, Clearing(w), Settles(w, s), attempt' = [attempt EXCEPT ![w] = Past(w, d)],
         UNCHANGED body
  PROVE  Books'
<1> DEFINE c == AtCall(w)
           a == Past(w, d)
           k == [call[w] EXCEPT ![c] = s]
           b == body[w]
           step == IF attempt[w].at = Len(attempt[w].batch) THEN "fanning" ELSE "clearing"
           next == attempt[w].at + 1
<1>1. /\ attempt[w] \in Attempts /\ Sane(attempt[w], call[w], b) /\ attempt[w].step = "clearing"
      /\ call[w] \in [Calls -> CallStates] /\ body' = [body EXCEPT ![w] = b]
  BY Fields, Rests DEF Books, Clearing
<1>2. c \in Calls /\ c \in BatchOf(attempt[w])
  <2>1. c \in Calls
    BY <1>1, CallAtHand DEF Types
  <2>2. attempt[w].at \in 1..Len(attempt[w].batch)
    BY <1>1 DEF Types, AttemptsType, AtACall
  <2> QED
    BY <2>1, <2>2 DEF BatchOf, AtCall
<1>3. call' = [call EXCEPT ![w] = k]
  BY DEF Settles
<1>4. k[c] = s /\ \A e \in Calls : e # c => k[e] = call[w][e]
  BY <1>1, <1>2
<1>5. /\ a.step = step /\ a.batch = attempt[w].batch /\ a.mine = attempt[w].mine
      /\ a.named = attempt[w].named /\ a.unreported = attempt[w].unreported
      /\ a.outcome = attempt[w].outcome
  <2>1. a = [attempt[w] EXCEPT !.at = next, !.decided = d, !.step = step]
    BY DEF Past
  <2> HIDE DEF a, step, next
  <2> QED
    BY <1>1, <2>1 DEF Attempts
<1>6. a.step \in {"clearing", "fanning"}
  BY <1>5
<1>7. BatchOf(a) = BatchOf(attempt[w]) /\ Reported(a) = Reported(attempt[w])
  BY <1>5 DEF BatchOf, Reported
<1> HIDE DEF a, b, k, c
<1>8. \A e \in Calls : call[w][e] \in {"none", "cleared", "declined"}
  BY <1>1 DEF Sane, Placed
<1>9. \A e \in Calls : k[e] \in {"none", "cleared", "declined"} /\ ~b[e]
  <2>1. \A e \in Calls : k[e] \in {"none", "cleared", "declined"}
    BY <1>4, <1>8
  <2>2. \A e \in Calls : ~b[e]
    BY <1>1, <1>8 DEF Sane, Running
  <2> QED
    BY <2>1, <2>2
<1>10. Placed(a, k)
  BY <1>1, <1>2, <1>4, <1>6, <1>7, <1>9 DEF Sane, Placed
<1>11. Halting(a, k) /\ Running(a, k, b) /\ Tried(a, k, b)
  BY <1>9 DEF Halting, Running, Tried
<1>12. Unended(a)
  BY <1>1, <1>5 DEF Sane, Unended
<1>13. Covered(a, k, b)
  BY <1>1, <1>5, <1>7, <1>8, <1>9 DEF Sane, Covered
<1> QED
  BY <1>1, <1>3, <1>10, <1>11, <1>12, <1>13, OwnBooks DEF Sane, a

LEMMA ClearingBooks ==
  ASSUME Types, CallsType, Books, NEW w \in Workers,
         \/ ClearUngated(w) \/ UseDecision(w) \/ AnsweredInline(w)
         \/ RefuseBatch(w) \/ CancelledWaiting(w)
  PROVE  Books'
<1>1. CASE ClearUngated(w)
  BY <1>1, SettledBooks DEF ClearUngated
<1>2. CASE UseDecision(w)
  BY <1>2, SettledBooks DEF UseDecision
<1>3. CASE AnsweredInline(w)
  BY <1>3, SettledBooks DEF AnsweredInline, MustAsk
<1>4. CASE RefuseBatch(w) \/ CancelledWaiting(w)
  <2>1. PICK outcome \in {"failed", "cancelled"} : Ended(w, outcome)
    BY <1>4 DEF RefuseBatch, CancelledWaiting
  <2>2. outcome \in Outcomes \ {"suspended"} /\ UNCHANGED body /\ attempt[w].step = "clearing"
    BY <1>4 DEF Outcomes, RefuseBatch, CancelledWaiting, MustAsk, Clearing
  <2>3. \A c \in Calls : call[w][c] \notin {"inside", "waiting"}
    BY <2>2 DEF Books, Sane, Placed
  <2> QED
    BY <2>1, <2>2, <2>3, EndingBooks
<1> QED
  BY <1>1, <1>2, <1>3, <1>4

\* Every call of the batch came back, so none is at its tool, and a tool that still runs
\* runs for a call that was cut short: the attempt ends, or the caller cancelled it.
LEMMA MergeBooks ==
  ASSUME Types, CallsType, Books, NEW w \in Workers, Merge(w)
  PROVE  Books'
<1> DEFINE o == attempt[w]
           k == [c \in Calls |-> "none"]
           b == body[w]
<1>1. /\ o \in Attempts /\ Sane(o, call[w], b) /\ o.step = "fanning"
      /\ body' = [body EXCEPT ![w] = b] /\ UNCHANGED body
  BY Fields, Rests DEF Books, Merge, Fanning
<1>2. \A c \in Calls : call[w][c] \in Settled \cup {"none"}
  BY <1>1 DEF Sane, Placed, Merge, InBatch, BatchOf
<1>3. \A c \in Calls : call[w][c] \notin {"inside", "waiting"}
  BY <1>2 DEF Settled
<1>4. CASE Ended(w, "cancelled") \/ Ended(w, "failed")
  <2>1. PICK outcome \in {"failed", "cancelled"} : Ended(w, outcome)
    BY <1>4
  <2>2. outcome \in Outcomes \ {"suspended"}
    BY DEF Outcomes
  <2> QED
    BY <1>1, <1>3, <2>1, <2>2, EndingBooks
<1>5. CASE ~(Ended(w, "cancelled") \/ Ended(w, "failed"))
  <2> DEFINE lost == {i \in 1..Len(o.batch) : call[w][o.batch[i]] \in Lost}
             merged == [o EXCEPT !.open = @ \ InBatch(w)]
             n == NextTurn(merged)
  <2>1. /\ lost = {} /\ attempt' = [attempt EXCEPT ![w] = n]
        /\ call' = [call EXCEPT ![w] = k]
    BY <1>5 DEF Merge, NoBatch
  <2>2. /\ n.step = "turn" /\ n.mine = o.mine /\ n.named = o.named
        /\ n.unreported = o.unreported /\ n.cancelled = o.cancelled /\ n.outcome = o.outcome
    <3>1. merged \in Attempts /\ merged.mine = o.mine /\ merged.named = o.named
          /\ merged.unreported = o.unreported /\ merged.cancelled = o.cancelled
          /\ merged.outcome = o.outcome
      BY <1>1 DEF Attempts
    <3> HIDE DEF merged
    <3> QED
      BY <3>1 DEF Attempts, NextTurn
  <2>3. \A c \in Calls : call[w][c] \notin Lost
    BY <1>1, <2>1 DEF Sane, Placed, BatchOf, Lost
  <2>4. ASSUME NEW c \in Calls, b[c] PROVE n.cancelled
    <3>1. call[w][c] \in {"inside", "aborted", "cut"}
      BY <1>1, <2>4 DEF Sane, Running
    <3>2. call[w][c] = "cut"
      BY <1>3, <2>3, <3>1 DEF Lost
    <3> QED
      BY <1>1, <2>2, <2>3, <3>2 DEF Sane, Halting
  <2>5. Reported(n) = Reported(o)
    BY <2>2 DEF Reported
  <2> HIDE DEF n, lost
  <2>6. Covered(n, k, b)
    <3>1. \A c \in Calls : c \in o.mine \/ b[c] => c \in Reported(o)
      BY <1>1, <1>3 DEF Sane, Covered
    <3> HIDE DEF k
    <3> QED
      BY <2>2, <2>5, <3>1 DEF Covered
  <2>7. Placed(n, k) /\ Halting(n, k) /\ Tried(n, k, b)
    BY DEF Placed, Halting, Tried
  <2>8. Unended(n)
    BY <1>1, <2>2 DEF Sane, Unended
  <2>9. Running(n, k, b)
    BY <2>2, <2>4 DEF Running
  <2> QED
    BY <1>1, <2>1, <2>6, <2>7, <2>8, <2>9, OwnBooks DEF Sane
<1> QED
  BY <1>4, <1>5

\* A worker that lets the run go while a call waits for its approval has no tool running.
LEMMA SuspendBooks ==
  ASSUME Types, CallsType, Books, NEW w \in Workers, Defer(w) \/ Suspend(w)
  PROVE  Books'
<1> DEFINE o == attempt[w]
           b == body[w]
<1>1. /\ o \in Attempts /\ Sane(o, call[w], b) /\ body' = [body EXCEPT ![w] = b]
      /\ o.step \in {"clearing", "deferred"}
  BY Fields, Rests DEF Books, Defer, Suspend, MustAsk, Clearing
<1>2. \A c \in Calls : call[w][c] \in {"none", "cleared", "declined"}
  BY <1>1 DEF Sane, Placed
<1>3. \A c \in Calls : ~b[c]
  BY <1>1, <1>2 DEF Sane, Running
<1>4. CASE Defer(w)
  <2> DEFINE n == [o EXCEPT !.step = "deferred"]
             k == call[w]
  <2>1. /\ n.step = "deferred" /\ n.mine = o.mine /\ n.named = o.named /\ n.batch = o.batch
        /\ n.unreported = o.unreported /\ n.outcome = o.outcome
    BY <1>1 DEF Attempts
  <2>2. attempt' = [attempt EXCEPT ![w] = n] /\ call' = [call EXCEPT ![w] = k]
    BY <1>4, Rests DEF Defer
  <2>3. BatchOf(n) = BatchOf(o) /\ Reported(n) = Reported(o)
    BY <2>1 DEF BatchOf, Reported
  <2> HIDE DEF n, k
  <2>4. \A c \in Calls : k[c] \in {"none", "cleared", "declined"}
    BY <1>2 DEF k
  <2>5. Placed(n, k)
    BY <1>1, <2>1, <2>3, <2>4 DEF Sane, Placed, k
  <2>6. Halting(n, k) /\ Running(n, k, b) /\ Tried(n, k, b)
    BY <1>3, <2>4 DEF Halting, Running, Tried
  <2>7. Unended(n)
    BY <1>1, <2>1 DEF Sane, Unended
  <2>8. Covered(n, k, b)
    BY <1>1, <1>3, <2>1, <2>3, <2>4 DEF Sane, Covered, k
  <2> QED
    BY <1>1, <2>2, <2>5, <2>6, <2>7, <2>8, OwnBooks DEF Sane
<1>5. CASE Suspend(w)
  <2> DEFINE n == [Idle EXCEPT !.step = "over", !.outcome = "suspended"]
             k == [c \in Calls |-> "none"]
  <2>1. n.step = "over" /\ n.outcome = "suspended" /\ n.mine = {}
    BY DEF Idle
  <2>2. attempt' = [attempt EXCEPT ![w] = n] /\ call' = [call EXCEPT ![w] = k]
    BY <1>5 DEF Suspend, Over, NoBatch
  <2> HIDE DEF n
  <2>3. Placed(n, k) /\ Halting(n, k) /\ Tried(n, k, b)
    BY DEF Placed, Halting, Tried
  <2>4. Unended(n) /\ Running(n, k, b) /\ Covered(n, k, b)
    BY <1>3, <2>1 DEF Unended, Running, Covered
  <2> QED
    BY <1>1, <2>2, <2>3, <2>4, OwnBooks DEF Sane
<1> QED
  BY <1>4, <1>5

\* The last step of an attempt, and the caller's cancellation.
LEMMA ForgetBooks ==
  ASSUME Types, CallsType, Books, NEW w \in Workers, Forget(w) \/ Cancel(w)
  PROVE  Books'
<1> DEFINE o == attempt[w]
           k == call[w]
           b == body[w]
<1>1. /\ o \in Attempts /\ Sane(o, k, b) /\ body' = [body EXCEPT ![w] = b]
      /\ call' = [call EXCEPT ![w] = k]
  BY Fields, Rests DEF Books, Forget, Cancel
<1>2. CASE Forget(w)
  <2> DEFINE n == [o EXCEPT !.step = "over"]
  <2>1. /\ n.step = "over" /\ n.mine = o.mine /\ n.named = o.named /\ n.tries = o.tries
        /\ n.unreported = o.unreported /\ n.outcome = o.outcome /\ n.cancelled = o.cancelled
    BY <1>1 DEF Attempts
  <2>2. attempt' = [attempt EXCEPT ![w] = n] /\ o.step = "ending"
    BY <1>2 DEF Forget
  <2>3. Reported(n) = Reported(o)
    BY <2>1 DEF Reported
  <2> HIDE DEF n, k, b
  <2>4. \A c \in Calls : k[c] = "none"
    BY <1>1, <2>2 DEF Sane, Placed
  <2>5. Placed(n, k) /\ Halting(n, k) /\ Unended(n) /\ Tried(n, k, b)
    BY <2>1, <2>4 DEF Placed, Halting, Unended, Tried
  <2>6. Running(n, k, b)
    BY <1>1, <2>1, <2>2, <2>4 DEF Sane, Running
  <2>7. Covered(n, k, b)
    BY <1>1, <2>1, <2>2, <2>3 DEF Sane, Covered
  <2>8. Sane(n, k, b)
    BY <2>5, <2>6, <2>7 DEF Sane
  <2> QED
    BY <1>1, <2>2, <2>8, OwnBooks
<1>3. CASE Cancel(w)
  <2> DEFINE n == [o EXCEPT !.cancelled = TRUE]
  <2>1. /\ n.step = o.step /\ n.mine = o.mine /\ n.named = o.named /\ n.tries = o.tries
        /\ n.unreported = o.unreported /\ n.outcome = o.outcome /\ n.cancelled
        /\ n.batch = o.batch
    BY <1>1 DEF Attempts
  <2>2. attempt' = [attempt EXCEPT ![w] = n]
    BY <1>3 DEF Cancel
  <2>3. Reported(n) = Reported(o) /\ BatchOf(n) = BatchOf(o)
    BY <2>1 DEF Reported, BatchOf
  <2> HIDE DEF n, k, b
  <2>4. Placed(n, k)
    BY <1>1, <2>1, <2>3 DEF Sane, Placed
  <2>5. Halting(n, k) /\ Unended(n)
    BY <1>1, <2>1 DEF Sane, Halting, Unended
  <2>6. Running(n, k, b)
    BY <1>1, <2>1 DEF Sane, Running
  <2>7. Covered(n, k, b) /\ Tried(n, k, b)
    BY <1>1, <2>1, <2>3 DEF Sane, Covered, Tried
  <2>8. Sane(n, k, b)
    BY <2>4, <2>5, <2>6, <2>7 DEF Sane
  <2> QED
    BY <1>1, <2>2, <2>8, OwnBooks
<1> QED
  BY <1>2, <1>3

\* Picking the run up again: this worker has nothing running.
LEMMA ResumingBooks ==
  ASSUME Types, CallsType, Books, NEW w \in Workers,
         \/ Redeem(w) \/ ReadFrontier(w, "idle") \/ ReadFrontier(w, "resuming")
         \/ NothingToResume(w) \/ Claim(w) \/ Conflict(w) \/ Crash(w)
  PROVE  Books'
<1> DEFINE o == attempt[w]
<1>1. o \in Attempts
  BY Fields
<1>2. CASE \E outcome \in {"refused", "conflict", "crashed"} :
             Over(w, outcome) /\ UNCHANGED body
  <2>1. PICK outcome \in {"refused", "conflict", "crashed"} :
          Over(w, outcome) /\ UNCHANGED body
    BY <1>2
  <2>2. outcome \in Outcomes \ {"suspended"} /\ outcome \notin {"failed", "cancelled"}
    BY DEF Outcomes
  <2>3. ~Ended(w, outcome)
    <3>1. attempt'[w].step = "over"
      BY <2>1 DEF Over, Idle, Types, AttemptsType
    <3>2. Ended(w, outcome) => attempt'[w].step = "ending"
      BY DEF Ended, Idle, Types, AttemptsType
    <3> QED
      BY <3>1, <3>2
  <2> QED
    BY <2>1, <2>2, <2>3, EndingBooks
<1>3. CASE NothingToResume(w) \/ Conflict(w) \/ Crash(w)
  BY <1>2, <1>3 DEF NothingToResume, Conflict, Crash
<1>4. CASE Redeem(w)
  <2>1. CASE Over(w, "refused")
    BY <1>2, <1>4, <2>1 DEF Redeem
  <2>2. CASE ~Over(w, "refused")
    <3>1. PICK yes \in BOOLEAN : attempt' = [attempt EXCEPT ![w].step = "resuming",
                           ![w].decided = [call |-> asked.call, yes |-> yes]]
      BY <1>4, <2>2 DEF Redeem
    <3> DEFINE d == [call |-> asked.call, yes |-> yes]
               n == [o EXCEPT !.step = "resuming", !.decided = d]
    <3>2. attempt' = [attempt EXCEPT ![w] = n]
      BY <3>1
    <3>3. /\ n.step = "resuming" /\ n.mine = o.mine /\ n.named = o.named
          /\ n.unreported = o.unreported /\ n.outcome = o.outcome /\ n.cancelled = o.cancelled
      <4> HIDE DEF d
      <4> QED
        BY <1>1 DEF Attempts
    <3>4. o.step = "idle" /\ UNCHANGED <<call, body>>
      BY <1>4, <2>2 DEF Redeem
    <3> HIDE DEF n
    <3>5. Goes(w, n)
      BY <3>2, <3>3, <3>4 DEF Goes
    <3> QED
      BY <3>4, <3>5, GoesBooks
  <2> QED
    BY <2>1, <2>2
<1>5. CASE ReadFrontier(w, "idle") \/ ReadFrontier(w, "resuming")
  <2> DEFINE n == [o EXCEPT !.step = "claiming", !.frontier = checkpoint]
  <2>1. attempt' = [attempt EXCEPT ![w] = n]
    BY <1>5 DEF ReadFrontier
  <2>2. /\ n.step = "claiming" /\ n.mine = o.mine /\ n.named = o.named
        /\ n.unreported = o.unreported /\ n.outcome = o.outcome /\ n.cancelled = o.cancelled
    BY <1>1 DEF Attempts
  <2>3. o.step \in {"idle", "resuming"} /\ UNCHANGED <<call, body>>
    BY <1>5 DEF ReadFrontier
  <2> HIDE DEF n
  <2>4. Goes(w, n)
    BY <2>1, <2>2, <2>3 DEF Goes
  <2> QED
    BY <2>3, <2>4, GoesBooks
<1>6. CASE Claim(w)
  <2> DEFINE f == o.frontier
             restored == [o EXCEPT !.iteration = f.iteration, !.open = f.open]
             more == f.open \cup {f.pending}
             only == <<f.pending>>
             held == [restored EXCEPT !.step = "clearing", !.batch = only, !.at = 1, !.open = more]
             n == IF f.pending = NoCall THEN NextTurn(restored) ELSE held
  <2>1. attempt' = [attempt EXCEPT ![w] = n]
    BY <1>6 DEF Claim
  <2>2. restored \in Attempts /\ restored.mine = o.mine /\ restored.named = o.named
        /\ restored.unreported = o.unreported /\ restored.outcome = o.outcome
        /\ restored.cancelled = o.cancelled
    <3>1. f \in Frontiers
      BY <1>1 DEF Attempts
    <3> QED
      BY <1>1, <3>1, Nothings DEF Attempts, Frontiers
  <2>3. /\ n.step \in {"clearing", "turn"} /\ n.mine = o.mine /\ n.named = o.named
        /\ n.unreported = o.unreported /\ n.outcome = o.outcome /\ n.cancelled = o.cancelled
    <3> HIDE DEF restored, f, more, only
    <3> QED
      BY <2>2 DEF Attempts, NextTurn
  <2>4. o.step = "claiming" /\ UNCHANGED <<call, body>>
    BY <1>6 DEF Claim
  <2> HIDE DEF n
  <2>5. Goes(w, n)
    BY <2>1, <2>3, <2>4 DEF Goes
  <2> QED
    BY <2>4, <2>5, GoesBooks
<1> QED
  BY <1>3, <1>4, <1>5, <1>6

LEMMA InitBooks == Init => Books
<1> SUFFICES ASSUME Init, NEW w \in Workers PROVE Sane(attempt[w], call[w], body[w])
  BY DEF Books
<1> DEFINE a == attempt[w]
           k == call[w]
           b == body[w]
<1>1. a = Begun \/ a = Idle
  BY DEF Init
<1>2. a.step \in {"turn", "idle"} /\ a.outcome = "none" /\ a.mine = {}
  <2>1. Idle.step = "idle" /\ Idle.outcome = "none" /\ Idle.mine = {} /\ Idle \in Attempts
    BY Nothings DEF Idle
  <2>2. Begun.step = "turn" /\ Begun.outcome = "none" /\ Begun.mine = {}
    BY <2>1 DEF Begun, Attempts
  <2> HIDE DEF a
  <2> QED
    BY <1>1, <2>1, <2>2
<1>3. \A c \in Calls : k[c] = "none" /\ ~b[c]
  BY DEF Init
<1> HIDE DEF a, b, k
<1>4. Placed(a, k) /\ Halting(a, k) /\ Running(a, k, b) /\ Unended(a) /\ Tried(a, k, b)
  BY <1>2, <1>3 DEF Placed, Halting, Running, Unended, Tried
<1>5. Covered(a, k, b)
  BY <1>2, <1>3 DEF Covered
<1>6. Sane(a, k, b)
  BY <1>4, <1>5 DEF Sane
<1> QED
  BY <1>6 DEF a, b, k

LEMMA NextBooks == Types /\ CallsType /\ Books /\ [Next]_vars => Books'
<1> SUFFICES ASSUME Types, CallsType, Books, [Next]_vars PROVE Books'
  OBVIOUS
<1>1. ASSUME NEW w \in Workers, Step(w) PROVE Books'
  BY <1>1, TurnBooks, ClearingBooks, SuspendBooks, CallStepBooks, StopShortBooks, MergeBooks,
     ForgetBooks, ResumingBooks DEF Step
<1>2. ASSUME NEW w \in Workers,
             Redeem(w) \/ ReadFrontier(w, "idle") \/ Cancel(w) \/ Crash(w)
      PROVE Books'
  BY <1>2, ResumingBooks, ForgetBooks
<1>3. ASSUME NEW w \in Workers, NEW c \in Calls, Land(w, c) PROVE Books'
  BY <1>3, CallStepBooks
<1>4. CASE ClaimLapses \/ UNCHANGED vars
  BY <1>4 DEF ClaimLapses, vars, Books
<1> QED
  BY <1>1, <1>2, <1>3, <1>4 DEF Next

LEMMA BooksHold == Spec => [](Types /\ IInv /\ Books)
<1>1. IInv => CallsType
  BY DEF IInv
<1>2. Init => Types /\ IInv /\ Books
  BY InitTypes, InitIInv, InitBooks
<1>3. Types /\ IInv /\ Books /\ [Next]_vars => (Types /\ IInv /\ Books)'
  BY <1>1, NextTypes, NextIInv, NextBooks
<1> QED
  BY <1>2, <1>3, PTL DEF Spec

\* An attempt that ends in failure or cancellation names every call whose effect it let into
\* the world, whatever order its calls landed, were cut short and came back in, but those
\* set apart: a result that broke the budget, a cancellation or a refusal after a first try.
THEOREM EndsAreReported == Spec => []NamedUnlessUnreported
<1>1. Types /\ Books => NamedUnlessUnreported
  <2> SUFFICES ASSUME Types, Books, NEW w \in Workers, Ends(w)
               PROVE  Outliving(w) \subseteq ToCompensate(w) \cup attempt[w].unreported
    BY DEF NamedUnlessUnreported
  <2> DEFINE a == attempt[w]
  <2>1. /\ Covered(a, call[w], body[w]) /\ Placed(a, call[w])
        /\ a.step = "over" /\ a.outcome \in {"failed", "cancelled"}
    BY DEF Books, Sane, Ends
  <2>2. \A c \in Calls : c \in a.mine => c \in Reported(a)
    BY <2>1 DEF Covered, Placed
  <2>3. a.mine \subseteq Calls
    BY DEF Types, AttemptsType, Attempts
  <2> QED
    BY <2>1, <2>2, <2>3 DEF Outliving, ToCompensate, Reported
<1> QED
  BY <1>1, BooksHold, PTL

\* A worker that let the run go to wait for a human left none of its tools running.
THEOREM SuspensionsHoldNothing == Spec => []SuspendedRunsHoldNothing
<1>1. Books => SuspendedRunsHoldNothing
  <2> SUFFICES ASSUME Books, NEW w \in Workers, attempt[w].outcome = "suspended", NEW c \in Calls,
                      body[w][c]
               PROVE  FALSE
    BY DEF SuspendedRunsHoldNothing
  <2>1. Running(attempt[w], call[w], body[w]) /\ Unended(attempt[w]) /\ Placed(attempt[w], call[w])
    BY DEF Books, Sane
  <2>2. attempt[w].step \in {"ending", "over"}
    BY <2>1 DEF Unended
  <2>3. call[w][c] = "none"
    BY <2>1, <2>2 DEF Placed
  <2> QED
    BY <2>1, <2>2, <2>3 DEF Running
<1> QED
  BY <1>1, BooksHold, PTL

-----------------------------------------------------------------------------
(* What a human's yes was spent on: a decision a worker still carries, a call *)
(* cleared on one, a tool running on one, or an effect.                       *)

Vetted == Gated \ (Repeatable \cup Transient)

Carriers(c) == {w \in Workers : attempt[w].decided = [call |-> c, yes |-> TRUE]}
Admitted(c) == {w \in Workers : call[w][c] \in {"cleared", "entered"}}
Acting(c) == {w \in Workers : body[w][c]}

Spent(c) == Cardinality(Carriers(c)) + Cardinality(Admitted(c)) + Cardinality(Acting(c))

Bought(c) ==
    /\ IsFiniteSet(Carriers(c)) /\ IsFiniteSet(Admitted(c)) /\ IsFiniteSet(Acting(c))
    /\ landed[c] + Spent(c) <= granted[c]
    /\ \A w \in Workers : call[w][c] # "waiting"

Purchases == \A c \in Vetted : Bought(c)

\* A set that lost an element, or gained at most one.
LEMMA Shrinks ==
  ASSUME NEW A, IsFiniteSet(A), NEW B, B \subseteq A
  PROVE  IsFiniteSet(B) /\ Cardinality(B) \in Nat /\ Cardinality(B) <= Cardinality(A)
BY FS_Subset, FS_CardinalityType

LEMMA Loses ==
  ASSUME NEW A, IsFiniteSet(A), NEW x \in A, NEW B, B \subseteq A \ {x}
  PROVE  IsFiniteSet(B) /\ Cardinality(B) \in Nat /\ Cardinality(B) + 1 <= Cardinality(A)
<1>1. IsFiniteSet(A \ {x}) /\ Cardinality(A \ {x}) = Cardinality(A) - 1
  BY FS_RemoveElement
<1>2. IsFiniteSet(B) /\ Cardinality(B) \in Nat /\ Cardinality(B) <= Cardinality(A \ {x})
  BY <1>1, Shrinks
<1>3. Cardinality(A) \in Nat
  BY FS_CardinalityType
<1> QED
  BY <1>1, <1>2, <1>3

LEMMA Gains ==
  ASSUME NEW A, IsFiniteSet(A), NEW x, NEW B, B \subseteq A \cup {x}
  PROVE  IsFiniteSet(B) /\ Cardinality(B) \in Nat /\ Cardinality(B) <= Cardinality(A) + 1
<1>1. IsFiniteSet(A \cup {x}) /\ Cardinality(A) \in Nat
      /\ (Cardinality(A \cup {x}) = Cardinality(A) \/ Cardinality(A \cup {x}) = Cardinality(A) + 1)
  BY FS_AddElement, FS_CardinalityType
<1>2. IsFiniteSet(B) /\ Cardinality(B) \in Nat /\ Cardinality(B) <= Cardinality(A \cup {x})
  BY <1>1, Shrinks
<1> QED
  BY <1>1, <1>2

Counts(c) == landed[c] \in Nat /\ granted[c] \in Nat

\* What the decisions, the clearances and the tools of a call gain or lose is bought or spent.
LEMMA Balance ==
  ASSUME NEW c, Counts(c), Counts(c)', Bought(c), NEW p \in Int, NEW q \in Int, NEW r \in Int,
         IsFiniteSet(Carriers(c)'), Cardinality(Carriers(c)') <= Cardinality(Carriers(c)) + p,
         IsFiniteSet(Admitted(c)'), Cardinality(Admitted(c)') <= Cardinality(Admitted(c)) + q,
         IsFiniteSet(Acting(c)'), Cardinality(Acting(c)') <= Cardinality(Acting(c)) + r,
         (landed[c])' + p + q + r + granted[c] <= landed[c] + (granted[c])',
         \A w \in Workers : call'[w][c] # "waiting"
  PROVE  Bought(c)'
<1>1. /\ Cardinality(Carriers(c)') \in Nat /\ Cardinality(Carriers(c)) \in Nat
      /\ Cardinality(Admitted(c)') \in Nat /\ Cardinality(Admitted(c)) \in Nat
      /\ Cardinality(Acting(c)') \in Nat /\ Cardinality(Acting(c)) \in Nat
  BY FS_CardinalityType DEF Bought
<1>2. landed'[c] + Spent(c)' <= granted'[c]
  BY <1>1 DEF Bought, Spent, Counts
<1> QED
  BY <1>2 DEF Bought

\* A step that lets no decision, clearance or tool of the call come to be.
Tame(c) ==
    /\ Carriers(c)' \subseteq Carriers(c) /\ Admitted(c)' \subseteq Admitted(c)
    /\ Acting(c)' \subseteq Acting(c)
    /\ \A w \in Workers : call'[w][c] # "waiting"
    /\ landed'[c] = landed[c] /\ granted'[c] \in Nat /\ granted'[c] >= granted[c]

LEMMA TameKeeps ==
  ASSUME NEW c, Counts(c), Bought(c), Tame(c)
  PROVE  Bought(c)'
<1>1. /\ IsFiniteSet(Carriers(c)') /\ Cardinality(Carriers(c)') \in Nat
      /\ Cardinality(Carriers(c)') <= Cardinality(Carriers(c)) /\ Cardinality(Carriers(c)) \in Nat
  BY Shrinks, FS_CardinalityType DEF Bought, Tame
<1>2. /\ IsFiniteSet(Admitted(c)') /\ Cardinality(Admitted(c)') \in Nat
      /\ Cardinality(Admitted(c)') <= Cardinality(Admitted(c)) /\ Cardinality(Admitted(c)) \in Nat
  BY Shrinks, FS_CardinalityType DEF Bought, Tame
<1>3. /\ IsFiniteSet(Acting(c)') /\ Cardinality(Acting(c)') \in Nat
      /\ Cardinality(Acting(c)') <= Cardinality(Acting(c)) /\ Cardinality(Acting(c)) \in Nat
  BY Shrinks, FS_CardinalityType DEF Bought, Tame
<1>4. landed'[c] + Spent(c)' <= granted'[c]
  BY <1>1, <1>2, <1>3 DEF Bought, Tame, Spent, Counts
<1> QED
  BY <1>1, <1>2, <1>3, <1>4 DEF Bought, Tame

\* No decision comes to be.
Undecided == \A w \in Workers : attempt'[w].decided \in {attempt[w].decided, NoDecision}

\* A call is let in, once cleared; and no call waits.
Unadmitted(c) ==
    \A w \in Workers : /\ call'[w][c] \in {"cleared", "entered"} => call[w][c] \in {"cleared", "entered"}
                       /\ call'[w][c] = "waiting" => call[w][c] = "waiting"

LEMMA Tames ==
  ASSUME NEW c \in Calls, Counts(c), Bought(c), Undecided, Unadmitted(c),
         \A w \in Workers : body'[w][c] => body[w][c],
         landed'[c] = landed[c], granted'[c] = granted[c]
  PROVE  Tame(c)
<1>1. NoDecision # [call |-> c, yes |-> TRUE]
  BY CallsAssumption DEF NoDecision
<1>2. Carriers(c)' \subseteq Carriers(c)
  BY <1>1 DEF Carriers, Undecided
<1>3. Admitted(c)' \subseteq Admitted(c)
  BY DEF Admitted, Unadmitted
<1>4. Acting(c)' \subseteq Acting(c)
  BY DEF Acting
<1>5. granted[c] \in Nat /\ granted[c] >= granted[c]
  BY DEF Counts
<1> QED
  BY <1>2, <1>3, <1>4, <1>5 DEF Tame, Unadmitted, Bought

LEMMA UndecidedUpdate ==
  ASSUME AttemptsType, NEW w \in Workers, NEW a, attempt' = [attempt EXCEPT ![w] = a],
         a.decided \in {attempt[w].decided, NoDecision}
  PROVE  Undecided
BY DEF AttemptsType, Undecided

LEMMA EndingDecidesNothing ==
  ASSUME AttemptsType, NEW w \in Workers, NEW outcome, Ended(w, outcome) \/ Over(w, outcome)
  PROVE  Undecided
<1>1. CASE Ended(w, outcome)
  <2> DEFINE a == [Idle EXCEPT !.step = "ending", !.outcome = outcome, !.named = attempt[w].named,
                        !.mine = attempt[w].mine, !.unreported = attempt[w].unreported]
  <2>1. a.decided = NoDecision /\ attempt' = [attempt EXCEPT ![w] = a]
    BY <1>1 DEF Idle, Ended
  <2> HIDE DEF a
  <2> QED
    BY <2>1, UndecidedUpdate
<1>2. CASE Over(w, outcome)
  <2> DEFINE a == [Idle EXCEPT !.step = "over", !.outcome = outcome]
  <2>1. a.decided = NoDecision /\ attempt' = [attempt EXCEPT ![w] = a]
    BY <1>2 DEF Idle, Over
  <2> HIDE DEF a
  <2> QED
    BY <2>1, UndecidedUpdate
<1> QED
  BY <1>1, <1>2

LEMMA ReportsDecideNothing ==
  ASSUME AttemptsType, NEW w \in Workers, NEW c \in Calls,
         \/ attempt' = [attempt EXCEPT ![w].named = @ \cup {c}]
         \/ attempt' = [attempt EXCEPT ![w].mine = @ \cup {c}]
         \/ attempt' = [attempt EXCEPT ![w].unreported = @ \cup {c}]
         \/ attempt' = [attempt EXCEPT ![w].unreported =
                          IF attempt[w].tries[c] > 0 THEN @ \cup {c} ELSE @]
         \/ attempt' = [attempt EXCEPT ![w].tries[c] = @ + 1]
         \/ UNCHANGED attempt
  PROVE  Undecided
<1>1. attempt[w] \in Attempts
  BY DEF AttemptsType
<1>2. attempt'[w].decided = attempt[w].decided
  <2>1. CASE attempt' = [attempt EXCEPT ![w].named = @ \cup {c}]
    BY <1>1, <2>1 DEF AttemptsType, Attempts
  <2>2. CASE attempt' = [attempt EXCEPT ![w].mine = @ \cup {c}]
    BY <1>1, <2>2 DEF AttemptsType, Attempts
  <2>3. CASE attempt' = [attempt EXCEPT ![w].unreported = @ \cup {c}]
    BY <1>1, <2>3 DEF AttemptsType, Attempts
  <2>4. CASE attempt' = [attempt EXCEPT ![w].unreported =
                          IF attempt[w].tries[c] > 0 THEN @ \cup {c} ELSE @]
    BY <1>1, <2>4 DEF AttemptsType, Attempts
  <2>5. CASE attempt' = [attempt EXCEPT ![w].tries[c] = @ + 1]
    BY <1>1, <2>5 DEF AttemptsType, Attempts
  <2> QED
    BY <2>1, <2>2, <2>3, <2>4, <2>5
<1>3. \A v \in Workers : v # w => attempt'[v] = attempt[v]
  BY DEF AttemptsType
<1> QED
  BY <1>2, <1>3 DEF Undecided

\* What a step of one call does to the state of that call, and of no other.
LEMMA CallDoors ==
  ASSUME Types, CallsType, NEW w \in Workers, NEW d \in Calls, NEW c \in Vetted, c \in Calls,
         CallStep(w, d) \/ Land(w, d), call[w][c] # "waiting"
  PROVE  Unadmitted(c)
<1>1. CASE UNCHANGED call
  BY <1>1 DEF Unadmitted
<1>2. CASE Enter(w, d)
  <2>1. /\ call'[w][d] = "entered" /\ call[w][d] = "cleared"
        /\ \A v \in Workers, e \in Calls : v # w \/ e # d => call'[v][e] = call[v][e]
    BY <1>2 DEF Enter, CallsType
  <2> QED
    BY <2>1 DEF Unadmitted
<1>3. CASE BackOff(w, d)
  <2>1. d # c
    BY <1>3 DEF BackOff, Vetted
  <2>2. \A v \in Workers : call'[v][c] = call[v][c]
    BY <1>3, <2>1 DEF BackOff, Becomes, CallsType
  <2> QED
    BY <2>2 DEF Unadmitted
<1>4. CASE ~(Enter(w, d) \/ BackOff(w, d) \/ Land(w, d))
  <2>1. PICK t \in {"inside", "failed", "aborted", "answered"} : Becomes(w, d, t)
    BY <1>4 DEF CallStep, Dispatch, OverBudget, Forestall, Deduplicate, Undecidable, Declined,
       Again, CancelledBackingOff, Raise, Abort, Return, Overdraw, Unrecorded
  <2>2. /\ call'[w][d] = t
        /\ \A v \in Workers, e \in Calls : v # w \/ e # d => call'[v][e] = call[v][e]
    BY <2>1 DEF Becomes, CallsType
  <2> QED
    BY <2>2 DEF Unadmitted
<1>5. CASE Land(w, d)
  BY <1>1, <1>5 DEF Land
<1> QED
  BY <1>2, <1>3, <1>4, <1>5

LEMMA CallStepDecidesNothing ==
  ASSUME Types, NEW w \in Workers, NEW d \in Calls, CallStep(w, d) \/ Land(w, d)
  PROVE  Undecided /\ UNCHANGED granted
<1>1. AttemptsType
  BY DEF Types
<1>2. \/ attempt' = [attempt EXCEPT ![w].named = @ \cup {d}]
      \/ attempt' = [attempt EXCEPT ![w].mine = @ \cup {d}]
      \/ attempt' = [attempt EXCEPT ![w].unreported = @ \cup {d}]
      \/ attempt' = [attempt EXCEPT ![w].unreported =
                       IF attempt[w].tries[d] > 0 THEN @ \cup {d} ELSE @]
      \/ attempt' = [attempt EXCEPT ![w].tries[d] = @ + 1]
      \/ UNCHANGED attempt
  BY DEF CallStep, Land, Enter, Dispatch, OverBudget, Forestall, Deduplicate, Undecidable,
    Declined, BackOff, Again, CancelledBackingOff, Raise, Abort, Return, Overdraw,
    Unrecorded, Names
<1>3. UNCHANGED granted
  BY DEF CallStep, Land, Enter, Dispatch, OverBudget, Forestall, Deduplicate, Undecidable,
    Declined, BackOff, Again, CancelledBackingOff, Raise, Abort, Return, Overdraw,
    Unrecorded, stores, world
<1> QED
  BY <1>1, <1>2, <1>3, ReportsDecideNothing

\* Going out spends the clearance, and the effect spends the call that went out.
LEMMA CallStepBuys ==
  ASSUME Types, CallsType, NEW c \in Vetted, c \in Calls, Counts(c), Counts(c)', Bought(c),
         NEW w \in Workers, NEW d \in Calls, CallStep(w, d) \/ Land(w, d)
  PROVE  Bought(c)'
<1>1. Undecided /\ UNCHANGED granted /\ Unadmitted(c)
  BY CallStepDecidesNothing, CallDoors DEF Bought
<1>2. \A v \in Workers : call'[v][c] # "waiting"
  BY <1>1 DEF Unadmitted, Bought
<1>3. /\ Carriers(c)' \subseteq Carriers(c)
      /\ Admitted(c)' \subseteq Admitted(c)
  <2>1. NoDecision # [call |-> c, yes |-> TRUE]
    BY CallsAssumption DEF NoDecision
  <2>2. Carriers(c)' \subseteq Carriers(c)
    BY <1>1, <2>1 DEF Carriers, Undecided
  <2> QED
    BY <1>1, <2>2 DEF Admitted, Unadmitted
<1>4. /\ IsFiniteSet(Carriers(c)') /\ Cardinality(Carriers(c)') <= Cardinality(Carriers(c)) + 0
      /\ IsFiniteSet(Admitted(c)') /\ Cardinality(Admitted(c)') <= Cardinality(Admitted(c)) + 0
  BY <1>3, Shrinks, FS_CardinalityType DEF Bought
<1>5. CASE Dispatch(w, d) /\ d = c
  <2>1. w \in Admitted(c)
    BY <1>5 DEF Dispatch, Takes, At, Admitted
  <2>2. call'[w][c] = "inside" /\ landed' = landed
    BY <1>5 DEF Dispatch, Becomes, CallsType, world
  <2>3. Admitted(c)' \subseteq Admitted(c) \ {w}
    BY <1>3, <2>2 DEF Admitted
  <2>4. IsFiniteSet(Admitted(c)') /\ Cardinality(Admitted(c)') <= Cardinality(Admitted(c)) + (-1)
    BY <2>1, <2>3, Loses, FS_CardinalityType DEF Bought
  <2>5. Acting(c)' \subseteq Acting(c) \cup {w}
    BY <1>5 DEF Acting, Dispatch, CallsType
  <2>6. IsFiniteSet(Acting(c)') /\ Cardinality(Acting(c)') <= Cardinality(Acting(c)) + 1
    BY <2>5, Gains DEF Bought
  <2>7. (landed[c])' + 0 + (-1) + 1 + granted[c] <= landed[c] + (granted[c])'
    BY <1>1, <2>2 DEF Counts
  <2> QED
    BY <1>2, <1>4, <2>4, <2>6, <2>7, Balance
<1>6. CASE Land(w, d) /\ d = c
  <2>1. w \in Acting(c) /\ landed'[c] = landed[c] + 1 /\ UNCHANGED call
    BY <1>6 DEF Land, Acting, CallsType
  <2>2. Acting(c)' \subseteq Acting(c) \ {w}
    BY <1>6 DEF Acting, Land, Quiet, CallsType
  <2>3. IsFiniteSet(Acting(c)') /\ Cardinality(Acting(c)') <= Cardinality(Acting(c)) + (-1)
    BY <2>1, <2>2, Loses, FS_CardinalityType DEF Bought
  <2>4. (landed[c])' + 0 + 0 + (-1) + granted[c] <= landed[c] + (granted[c])'
    BY <1>1, <2>1 DEF Counts
  <2> QED
    BY <1>2, <1>4, <2>3, <2>4, Balance
<1>7. CASE d # c \/ ~(Dispatch(w, d) \/ Land(w, d))
  <2>1. landed'[c] = landed[c]
    BY <1>7 DEF CallStep, Land, Enter, Dispatch, OverBudget, Forestall, Deduplicate, Undecidable,
      Declined, BackOff, Again, CancelledBackingOff, Raise, Abort, Return, Overdraw,
      Unrecorded, world, CallsType
  <2>2. ~(Again(w, d) /\ d = c)
    BY DEF Again, At, Bought
  <2>3. \A v \in Workers : body'[v][c] => body[v][c]
    <3>1. CASE body' = [body EXCEPT ![w][d] = TRUE] /\ d # c
      BY <3>1 DEF CallsType
    <3>2. CASE Quiet(w, d) \/ UNCHANGED body
      BY <3>2 DEF CallsType, Quiet
    <3>3. (body' = [body EXCEPT ![w][d] = TRUE] /\ d # c) \/ Quiet(w, d) \/ UNCHANGED body
      BY <1>7, <2>2 DEF CallStep, Land, Enter, Dispatch, OverBudget, Forestall, Deduplicate,
        Undecidable, Declined, BackOff, Again, CancelledBackingOff, Raise, Abort, Return,
        Overdraw, Unrecorded
    <3> QED
      BY <3>1, <3>2, <3>3
  <2>4. Tame(c)
    BY <1>1, <2>1, <2>3, Tames
  <2> QED
    BY <2>4, TameKeeps
<1> QED
  BY <1>5, <1>6, <1>7

\* Steps that decide nothing: those of the loop between two batches, and of a worker's life.
LEMMA LoopDecidesNothing ==
  ASSUME Types, NEW w \in Workers,
         \/ GiveUp(w) \/ AskedForCalls(w) \/ Answered(w) \/ Forget(w) \/ ClearUngated(w)
         \/ RefuseBatch(w) \/ CancelledWaiting(w) \/ Defer(w) \/ Suspend(w) \/ StopShort(w)
         \/ Merge(w) \/ ReadFrontier(w, "idle") \/ ReadFrontier(w, "resuming")
         \/ NothingToResume(w) \/ Claim(w) \/ Conflict(w) \/ Cancel(w) \/ Crash(w)
  PROVE  Undecided
<1> DEFINE o == attempt[w]
<1>1. o \in Attempts /\ AttemptsType
  BY DEF Types, AttemptsType
<1>2. ASSUME NEW outcome, Ended(w, outcome) \/ Over(w, outcome) PROVE Undecided
  BY <1>1, <1>2, EndingDecidesNothing
<1>3. CASE GiveUp(w) \/ RefuseBatch(w) \/ CancelledWaiting(w) \/ Suspend(w)
           \/ NothingToResume(w) \/ Conflict(w) \/ Crash(w)
  BY <1>2, <1>3 DEF GiveUp, RefuseBatch, CancelledWaiting, Suspend, NothingToResume, Conflict, Crash
<1>4. ASSUME NEW a, attempt' = [attempt EXCEPT ![w] = a], a.decided = o.decided PROVE Undecided
  BY <1>1, <1>4, UndecidedUpdate
<1>5. \A a \in Attempts : NextTurn(a).decided = a.decided
  BY DEF NextTurn, Attempts
<1>6. CASE AskedForCalls(w)
  <2>1. PICK reply \in Replies : attempt' = [attempt EXCEPT ![w] =
             [o EXCEPT !.step = "clearing", !.batch = reply, !.at = 1,
                       !.open = o.open \cup {reply[i] : i \in 1..Len(reply)}]]
    BY <1>6 DEF AskedForCalls
  <2> DEFINE more == o.open \cup {reply[i] : i \in 1..Len(reply)}
             n == [o EXCEPT !.step = "clearing", !.batch = reply, !.at = 1, !.open = more]
  <2>2. n.decided = o.decided
    <3> HIDE DEF more
    <3> QED
      BY <1>1 DEF Attempts
  <2>3. attempt' = [attempt EXCEPT ![w] = n]
    BY <2>1
  <2> HIDE DEF n
  <2> QED
    BY <1>4, <2>2, <2>3
<1>7. CASE Answered(w)
  BY <1>1, <1>2, <1>4, <1>5, <1>7 DEF Answered
<1>8. CASE Forget(w) \/ Defer(w) \/ Cancel(w)
  <2>1. PICK a \in {[o EXCEPT !.step = "over"], [o EXCEPT !.step = "deferred"],
                    [o EXCEPT !.cancelled = TRUE]} : attempt' = [attempt EXCEPT ![w] = a]
    BY <1>8 DEF Forget, Defer, Cancel
  <2>2. a.decided = o.decided
    BY <1>1 DEF Attempts
  <2> QED
    BY <1>4, <2>1, <2>2
<1>9. CASE ClearUngated(w)
  <2> DEFINE n == Past(w, o.decided)
  <2>1. n.decided = o.decided
    <3> DEFINE at == o.at + 1
               step == IF o.at = Len(o.batch) THEN "fanning" ELSE "clearing"
               m == [o EXCEPT !.at = at, !.decided = o.decided, !.step = step]
    <3>1. n = m
      BY DEF Past
    <3>2. m.decided = o.decided
      <4> HIDE DEF at, step
      <4> QED
        BY <1>1 DEF Attempts
    <3> HIDE DEF n, m
    <3> QED
      BY <3>1, <3>2
  <2>2. attempt' = [attempt EXCEPT ![w] = n]
    BY <1>9 DEF ClearUngated
  <2> HIDE DEF n
  <2> QED
    BY <1>4, <2>1, <2>2
<1>10. CASE StopShort(w)
  <2>1. PICK stopped : attempt' = [attempt EXCEPT ![w] = [o EXCEPT !.named = @ \cup stopped]]
    BY <1>10 DEF StopShort
  <2> DEFINE n == [o EXCEPT !.named = @ \cup stopped]
  <2>2. n.decided = o.decided
    BY <1>1 DEF Attempts
  <2> HIDE DEF n
  <2> QED
    BY <1>4, <2>1, <2>2 DEF n
<1>11. CASE Merge(w)
  <2> DEFINE merged == [o EXCEPT !.open = @ \ InBatch(w)]
  <2>1. merged \in Attempts /\ merged.decided = o.decided
    BY <1>1 DEF Attempts
  <2>2. (\E outcome : Ended(w, outcome)) \/ attempt' = [attempt EXCEPT ![w] = NextTurn(merged)]
    BY <1>11 DEF Merge
  <2>3. NextTurn(merged).decided = o.decided
    BY <1>5, <2>1
  <2> HIDE DEF merged
  <2> QED
    BY <1>2, <1>4, <2>2, <2>3
<1>12. CASE ReadFrontier(w, "idle") \/ ReadFrontier(w, "resuming")
  <2> DEFINE n == [o EXCEPT !.step = "claiming", !.frontier = checkpoint]
  <2>1. attempt' = [attempt EXCEPT ![w] = n] /\ n.decided = o.decided
    BY <1>1, <1>12 DEF ReadFrontier, Attempts
  <2> HIDE DEF n
  <2> QED
    BY <1>4, <2>1
<1>13. CASE Claim(w)
  <2> DEFINE f == o.frontier
             restored == [o EXCEPT !.iteration = f.iteration, !.open = f.open]
             more == f.open \cup {f.pending}
             only == <<f.pending>>
             held == [restored EXCEPT !.step = "clearing", !.batch = only, !.at = 1, !.open = more]
             n == IF f.pending = NoCall THEN NextTurn(restored) ELSE held
  <2>1. attempt' = [attempt EXCEPT ![w] = n]
    BY <1>13 DEF Claim
  <2>2. restored \in Attempts /\ restored.decided = o.decided
    <3>1. f \in Frontiers
      BY <1>1 DEF Attempts
    <3> QED
      BY <1>1, <3>1, Nothings DEF Attempts, Frontiers
  <2>3. n.decided = o.decided
    <3>1. held.decided = restored.decided
      <4> HIDE DEF restored, f, more, only
      <4> QED
        BY <2>2 DEF Attempts
    <3> HIDE DEF restored, held, f
    <3> QED
      BY <1>5, <2>2, <3>1
  <2> HIDE DEF n
  <2> QED
    BY <1>4, <2>1, <2>3
<1> QED
  BY <1>3, <1>6, <1>7, <1>8, <1>9, <1>10, <1>11, <1>12, <1>13

\* Those steps let no gated call in.
LEMMA LoopAdmitsNothing ==
  ASSUME Types, CallsType, NEW w \in Workers, NEW c \in Vetted, c \in Calls,
         \/ GiveUp(w) \/ AskedForCalls(w) \/ Answered(w) \/ Forget(w) \/ ClearUngated(w)
         \/ RefuseBatch(w) \/ CancelledWaiting(w) \/ Defer(w) \/ Suspend(w) \/ StopShort(w)
         \/ Merge(w) \/ ReadFrontier(w, "idle") \/ ReadFrontier(w, "resuming")
         \/ NothingToResume(w) \/ Claim(w) \/ Conflict(w) \/ Cancel(w) \/ Crash(w)
  PROVE  Unadmitted(c) /\ UNCHANGED <<body, landed, granted>>
<1>1. UNCHANGED <<body, landed, granted>>
  BY DEF GiveUp, AskedForCalls, Answered, Forget, ClearUngated, RefuseBatch, CancelledWaiting,
    Defer, Suspend, StopShort, Merge, ReadFrontier, NothingToResume, Claim, Conflict, Cancel,
    Crash, stores, world
<1>2. ASSUME NoBatch(w) PROVE Unadmitted(c)
  BY <1>2 DEF NoBatch, CallsType, Unadmitted
<1>3. ASSUME UNCHANGED call PROVE Unadmitted(c)
  BY <1>3 DEF Unadmitted
<1>4. CASE ClearUngated(w)
  <2>1. AtCall(w) # c /\ AtCall(w) \in Calls
    BY <1>4, CallAtHand DEF ClearUngated, Vetted, Types, Clearing
  <2>2. \A v \in Workers : call'[v][c] = call[v][c]
    BY <1>4, <2>1 DEF ClearUngated, Settles, CallsType
  <2> QED
    BY <1>1, <2>2 DEF Unadmitted
<1>5. CASE StopShort(w)
  <2>1. PICK stopped : call' = [call EXCEPT ![w] = [e \in Calls |->
           IF e \notin stopped THEN call[w][e]
           ELSE IF call[w][e] = "cleared" THEN "never" ELSE "cut"]]
    BY <1>5 DEF StopShort
  <2> QED
    BY <1>1, <2>1 DEF CallsType, Unadmitted
<1>6. CASE ~(ClearUngated(w) \/ StopShort(w))
  <2>1. NoBatch(w) \/ UNCHANGED call
    BY <1>6 DEF GiveUp, AskedForCalls, Answered, Forget, RefuseBatch, CancelledWaiting,
      Defer, Suspend, Merge, ReadFrontier, NothingToResume, Claim, Conflict, Cancel,
      Crash, Ended, Over
  <2> QED
    BY <1>1, <1>2, <1>3, <2>1
<1> QED
  BY <1>1, <1>4, <1>5, <1>6

\* A decision used clears its call; an inline yes clears the call it is about; a redeemed
\* yes is carried by the worker that redeemed it.
LEMMA DecisionsBuy ==
  ASSUME Types, CallsType, NEW c \in Vetted, c \in Calls, Counts(c), Counts(c)', Bought(c),
         NEW w \in Workers, UseDecision(w) \/ AnsweredInline(w)
  PROVE  Bought(c)'
<1> DEFINE o == attempt[w]
           d == AtCall(w)
<1>1. o \in Attempts /\ AttemptsType /\ d \in Calls /\ UNCHANGED <<body, landed>>
  BY CallAtHand DEF Types, AttemptsType, UseDecision, AnsweredInline, MustAsk, Clearing, world
<1>2. \A m : Past(w, m).decided = m
  <2> TAKE m
  <2> DEFINE at == o.at + 1
             step == IF o.at = Len(o.batch) THEN "fanning" ELSE "clearing"
             b == [o EXCEPT !.at = at, !.decided = m, !.step = step]
  <2>1. b.decided = m
    <3> HIDE DEF at, step
    <3> QED
      BY <1>1 DEF Attempts
  <2> QED
    BY <2>1 DEF Past
<1>3. PICK s \in {"cleared", "declined"}, m \in {o.decided, NoDecision} :
        /\ Settles(w, s) /\ attempt' = [attempt EXCEPT ![w] = Past(w, m)]
        /\ UseDecision(w) => m = NoDecision /\ (s = "cleared" => o.decided.yes)
  BY DEF UseDecision, AnsweredInline
<1>4. /\ attempt'[w].decided = m
      /\ \A v \in Workers : v # w => attempt'[v] = attempt[v]
  BY <1>1, <1>2, <1>3 DEF AttemptsType
<1>5. NoDecision # [call |-> c, yes |-> TRUE]
  BY CallsAssumption DEF NoDecision
<1>6. Carriers(c)' \subseteq Carriers(c)
  BY <1>3, <1>4, <1>5 DEF Carriers
<1>7. /\ call'[w][d] = s
      /\ \A v \in Workers, e \in Calls : v # w \/ e # d => call'[v][e] = call[v][e]
  BY <1>1, <1>3 DEF Settles, CallsType
<1>8. \A v \in Workers : call'[v][c] # "waiting"
  BY <1>7 DEF Bought
<1>9. Admitted(c)' \subseteq Admitted(c) \cup {w}
  BY <1>7 DEF Admitted
<1>10. Acting(c)' \subseteq Acting(c)
  BY <1>1 DEF Acting
<1>11. /\ IsFiniteSet(Acting(c)') /\ Cardinality(Acting(c)') <= Cardinality(Acting(c)) + 0
       /\ IsFiniteSet(Admitted(c)') /\ Cardinality(Admitted(c)') <= Cardinality(Admitted(c)) + 1
       /\ IsFiniteSet(Carriers(c)') /\ Cardinality(Carriers(c)') <= Cardinality(Carriers(c)) + 0
  <2>1. IsFiniteSet(Acting(c)') /\ Cardinality(Acting(c)') <= Cardinality(Acting(c)) + 0
    BY <1>10, Shrinks, FS_CardinalityType DEF Bought
  <2>2. IsFiniteSet(Admitted(c)') /\ Cardinality(Admitted(c)') <= Cardinality(Admitted(c)) + 1
    BY <1>9, Gains DEF Bought
  <2>3. IsFiniteSet(Carriers(c)') /\ Cardinality(Carriers(c)') <= Cardinality(Carriers(c)) + 0
    BY <1>6, Shrinks, FS_CardinalityType DEF Bought
  <2> QED
    BY <2>1, <2>2, <2>3
<1>12. CASE s = "declined" \/ d # c
  <2>1. Admitted(c)' \subseteq Admitted(c)
    BY <1>7, <1>12 DEF Admitted
  <2>2. granted'[c] \in Nat /\ granted'[c] >= granted[c]
    BY <1>1 DEF UseDecision, AnsweredInline, Counts, world, Types, StoresType
  <2>3. Tame(c)
    BY <1>1, <1>6, <1>8, <1>10, <2>1, <2>2 DEF Tame
  <2> QED
    BY <2>3, TameKeeps
<1>13. CASE s = "cleared" /\ d = c /\ UseDecision(w)
  <2>1. o.decided = [call |-> c, yes |-> TRUE]
    <3>1. o.decided.call = c /\ o.decided.yes
      BY <1>3, <1>13 DEF UseDecision
    <3> QED
      BY <1>1, <3>1 DEF Attempts
  <2>2. w \in Carriers(c) /\ Carriers(c)' \subseteq Carriers(c) \ {w}
    BY <1>3, <1>4, <1>5, <1>6, <1>13, <2>1 DEF Carriers
  <2>3. IsFiniteSet(Carriers(c)') /\ Cardinality(Carriers(c)') <= Cardinality(Carriers(c)) + (-1)
    BY <2>2, Loses, FS_CardinalityType DEF Bought
  <2>4. (landed[c])' + (-1) + 1 + 0 + granted[c] <= landed[c] + (granted[c])'
    BY <1>1, <1>13 DEF Counts, UseDecision, world
  <2> QED
    BY <1>8, <1>11, <2>3, <2>4, Balance
<1>14. CASE s = "cleared" /\ d = c /\ AnsweredInline(w) /\ ~UseDecision(w)
  <2>1. PICK yes \in BOOLEAN :
          /\ Settles(w, IF yes THEN "cleared" ELSE "declined")
          /\ granted' = [granted EXCEPT ![d] = @ + (IF yes THEN 1 ELSE 0)]
    BY <1>14 DEF AnsweredInline
  <2>2. call'[w][d] = IF yes THEN "cleared" ELSE "declined"
    BY <1>1, <2>1 DEF Settles, CallsType
  <2>3. yes
    BY <1>7, <1>14, <2>2
  <2>4. granted'[c] = granted[c] + 1
    BY <1>1, <1>14, <2>1, <2>3 DEF Types, StoresType
  <2>5. (landed[c])' + 0 + 1 + 0 + granted[c] <= landed[c] + (granted[c])'
    BY <1>1, <2>4 DEF Counts
  <2> QED
    BY <1>8, <1>11, <2>5, Balance
<1> QED
  BY <1>3, <1>12, <1>13, <1>14

LEMMA RedemptionBuys ==
  ASSUME Types, CallsType, NEW c \in Vetted, c \in Calls, Counts(c), Counts(c)', Bought(c),
         NEW w \in Workers, Redeem(w)
  PROVE  Bought(c)'
<1> DEFINE o == attempt[w]
           d == asked.call
<1>1. o \in Attempts /\ AttemptsType /\ StoresType /\ UNCHANGED <<body, landed>>
  BY DEF Types, AttemptsType, Redeem
<1>2. PICK yes \in BOOLEAN :
         /\ granted' = [granted EXCEPT ![d] = @ + (IF yes THEN 1 ELSE 0)]
         /\ \/ /\ attempt' = [attempt EXCEPT ![w].step = "resuming",
                           ![w].decided = [call |-> d, yes |-> yes]]
               /\ UNCHANGED call
            \/ Over(w, "refused")
  BY DEF Redeem
<1>3. NoBatch(w) \/ UNCHANGED call
  BY <1>2 DEF Over
<1>4. Unadmitted(c)
  BY <1>3 DEF NoBatch, CallsType, Unadmitted
<1>5. /\ Admitted(c)' \subseteq Admitted(c) /\ Acting(c)' \subseteq Acting(c)
      /\ \A v \in Workers : call'[v][c] # "waiting"
  BY <1>1, <1>4 DEF Admitted, Acting, Unadmitted, Bought
<1>6. granted'[c] = granted[c] + (IF yes /\ d = c THEN 1 ELSE 0)
  BY <1>1, <1>2 DEF StoresType
<1>7. CASE Over(w, "refused")
  <2>1. Undecided
    BY <1>1, <1>7, EndingDecidesNothing
  <2>2. NoDecision # [call |-> c, yes |-> TRUE]
    BY CallsAssumption DEF NoDecision
  <2>3. Carriers(c)' \subseteq Carriers(c)
    BY <2>1, <2>2 DEF Carriers, Undecided
  <2>4. Tame(c)
    BY <1>1, <1>5, <1>6, <2>3 DEF Tame, Counts
  <2> QED
    BY <2>4, TameKeeps
<1>8. CASE attempt' = [attempt EXCEPT ![w].step = "resuming",
                         ![w].decided = [call |-> d, yes |-> yes]]
  <2> DEFINE m == [call |-> d, yes |-> yes]
             n == [o EXCEPT !.step = "resuming", !.decided = m]
  <2>1. n.decided = m
    <3> HIDE DEF m
    <3> QED
      BY <1>1 DEF Attempts
  <2>2. attempt'[w].decided = m /\ \A v \in Workers : v # w => attempt'[v] = attempt[v]
    <3>1. attempt' = [attempt EXCEPT ![w] = n]
      BY <1>8
    <3> HIDE DEF n, m
    <3> QED
      BY <1>1, <2>1, <3>1 DEF AttemptsType
  <2>3. CASE yes /\ d = c
    <3>1. Carriers(c)' \subseteq Carriers(c) \cup {w}
      BY <2>2 DEF Carriers
    <3>2. /\ IsFiniteSet(Acting(c)') /\ Cardinality(Acting(c)') <= Cardinality(Acting(c)) + 0
          /\ IsFiniteSet(Admitted(c)') /\ Cardinality(Admitted(c)') <= Cardinality(Admitted(c)) + 0
          /\ IsFiniteSet(Carriers(c)') /\ Cardinality(Carriers(c)') <= Cardinality(Carriers(c)) + 1
      <4>1. IsFiniteSet(Acting(c)') /\ Cardinality(Acting(c)') <= Cardinality(Acting(c)) + 0
        BY <1>5, Shrinks, FS_CardinalityType DEF Bought
      <4>2. IsFiniteSet(Admitted(c)') /\ Cardinality(Admitted(c)') <= Cardinality(Admitted(c)) + 0
        BY <1>5, Shrinks, FS_CardinalityType DEF Bought
      <4>3. IsFiniteSet(Carriers(c)') /\ Cardinality(Carriers(c)') <= Cardinality(Carriers(c)) + 1
        BY <3>1, Gains DEF Bought
      <4> QED
        BY <4>1, <4>2, <4>3
    <3>3. (landed[c])' + 1 + 0 + 0 + granted[c] <= landed[c] + (granted[c])'
      BY <1>1, <1>6, <2>3 DEF Counts
    <3> QED
      BY <1>5, <3>2, <3>3, Balance
  <2>4. CASE ~(yes /\ d = c)
    <3>1. m # [call |-> c, yes |-> TRUE]
      BY <2>4
    <3>2. Carriers(c)' \subseteq Carriers(c)
      BY <2>2, <3>1 DEF Carriers
    <3>3. Tame(c)
      BY <1>1, <1>5, <1>6, <2>4, <3>2 DEF Tame, Counts
    <3> QED
      BY <3>3, TameKeeps
  <2> QED
    BY <2>3, <2>4
<1> QED
  BY <1>2, <1>7, <1>8

LEMMA InitPurchases == Init => Purchases
<1> SUFFICES ASSUME Init, NEW c \in Vetted PROVE Bought(c)
  BY DEF Purchases
<1>1. c \in Calls
  BY CallsAssumption DEF Vetted
<1>2. NoDecision # [call |-> c, yes |-> TRUE]
  BY <1>1, CallsAssumption DEF NoDecision
<1>3. \A w \in Workers : attempt[w].decided = NoDecision
  <2>1. Idle.decided = NoDecision /\ Idle \in Attempts
    BY Nothings DEF Idle
  <2>2. Begun.decided = NoDecision
    BY <2>1 DEF Begun, Attempts
  <2> QED
    BY <2>1, <2>2 DEF Init
<1>4. Carriers(c) = {}
  BY <1>2, <1>3 DEF Carriers
<1>5. Admitted(c) = {} /\ Acting(c) = {}
  BY <1>1 DEF Init, Admitted, Acting
<1>6. Spent(c) = 0
  BY <1>4, <1>5, FS_EmptySet DEF Spent
<1> QED
  BY <1>1, <1>4, <1>5, <1>6, FS_EmptySet DEF Init, Bought

LEMMA NextPurchases ==
  Types /\ Types' /\ CallsType /\ CallsType' /\ Purchases /\ [Next]_vars => Purchases'
<1> SUFFICES ASSUME Types, Types', CallsType, CallsType', Purchases, [Next]_vars,
                    NEW c \in Vetted
             PROVE  Bought(c)'
  BY DEF Purchases
<1>1. c \in Calls
  BY CallsAssumption DEF Vetted
<1>2. Counts(c) /\ Counts(c)' /\ Bought(c)
  BY <1>1 DEF Counts, Types, StoresType, CallsType, Purchases
<1>3. ASSUME NEW w \in Workers, NEW d \in Calls, CallStep(w, d) \/ Land(w, d) PROVE Bought(c)'
  BY <1>1, <1>2, <1>3, CallStepBuys
<1>4. ASSUME NEW w \in Workers, UseDecision(w) \/ AnsweredInline(w) PROVE Bought(c)'
  BY <1>1, <1>2, <1>4, DecisionsBuy
<1>5. ASSUME NEW w \in Workers, Redeem(w) PROVE Bought(c)'
  BY <1>1, <1>2, <1>5, RedemptionBuys
<1>6. ASSUME NEW w \in Workers,
             \/ GiveUp(w) \/ AskedForCalls(w) \/ Answered(w) \/ Forget(w) \/ ClearUngated(w)
             \/ RefuseBatch(w) \/ CancelledWaiting(w) \/ Defer(w) \/ Suspend(w) \/ StopShort(w)
             \/ Merge(w) \/ ReadFrontier(w, "idle") \/ ReadFrontier(w, "resuming")
             \/ NothingToResume(w) \/ Claim(w) \/ Conflict(w) \/ Cancel(w) \/ Crash(w)
      PROVE  Bought(c)'
  <2>1. Undecided
    BY <1>6, LoopDecidesNothing
  <2>2. Unadmitted(c) /\ UNCHANGED <<body, landed, granted>>
    BY <1>1, <1>6, LoopAdmitsNothing
  <2>3. Tame(c)
    BY <1>1, <1>2, <2>1, <2>2, Tames
  <2> QED
    BY <1>2, <2>3, TameKeeps
<1>7. CASE ClaimLapses \/ UNCHANGED vars
  <2>1. UNCHANGED <<attempt, call, body, landed, granted>>
    BY <1>7 DEF ClaimLapses, vars, world
  <2>2. Undecided /\ Unadmitted(c)
    BY <2>1 DEF Undecided, Unadmitted
  <2>3. Tame(c)
    BY <1>1, <1>2, <2>1, <2>2, Tames
  <2> QED
    BY <1>2, <2>3, TameKeeps
<1>8. ASSUME NEW w \in Workers, Step(w) PROVE Bought(c)'
  BY <1>3, <1>4, <1>6, <1>8 DEF Step
<1> QED
  BY <1>3, <1>5, <1>6, <1>7, <1>8 DEF Next

\* One decision buys one action: however often a token is redeemed, a run resumed or its
\* workers overlap, a gated call that may not be retried takes effect at most as often as a
\* human said yes to it.
THEOREM ApprovalsCoverEffects == Spec => []EffectsWereApproved
<1>1. Types /\ IInv => CallsType
  BY DEF IInv
<1>2. Init => Types /\ IInv /\ Purchases
  BY InitTypes, InitIInv, InitPurchases
<1>3. Types /\ IInv /\ Purchases /\ [Next]_vars => (Types /\ IInv /\ Purchases)'
  <2>1. Types /\ IInv /\ [Next]_vars => Types' /\ IInv'
    BY NextTypes, NextIInv
  <2>2. IInv => CallsType
    BY DEF IInv
  <2>3. IInv' => CallsType'
    BY DEF IInv
  <2> QED
    BY <2>1, <2>2, <2>3, NextPurchases
<1>4. Types /\ IInv /\ Purchases => EffectsWereApproved
  <2> SUFFICES ASSUME Types, IInv, Purchases, NEW c \in Vetted PROVE landed[c] <= granted[c]
    BY DEF EffectsWereApproved, Vetted
  <2>1. landed[c] \in Nat /\ granted[c] \in Nat /\ Bought(c)
    BY CallsAssumption DEF Vetted, IInv, CallsType, Types, StoresType, Purchases
  <2>2. Spent(c) \in Nat
    BY <2>1, FS_CardinalityType DEF Bought, Spent
  <2> QED
    BY <2>1, <2>2 DEF Bought
<1> QED
  BY <1>2, <1>3, <1>4, PTL DEF Spec

-----------------------------------------------------------------------------
(* What a frontier leaves unanswered.  While no suspension leaves siblings of *)
(* the call it holds behind, what is open is in the batch being worked on.    *)

Told(f) ==
    /\ f.boundary # "before_approval" => f.open = {}
    /\ f.boundary = "before_approval" => f.open \subseteq {f.pending}

\* The model asks for a call a human has to approve by itself.
GatesAlone == \A r \in Replies : \A i \in 1..Len(r) : r[i] \in Gated => Len(r) = 1

HeldAlone(a) == \A c \in BatchOf(a) \cap Gated : BatchOf(a) = {c}

OpenInBatch(a) ==
    /\ Told(a.frontier)
    /\ GatesAlone /\ a.step \in {"clearing", "deferred", "fanning"} => HeldAlone(a)
    /\ a.step \in {"clearing", "deferred", "fanning"} => a.open \subseteq BatchOf(a)
    /\ a.step \notin {"clearing", "deferred", "fanning"} => a.open = {}

AllTold == Told(checkpoint) /\ \A w \in Workers : OpenInBatch(attempt[w])

LEMMA TellsOn ==
  ASSUME Types, AllTold, NEW w \in Workers, NEW a, OpenInBatch(a),
         attempt' = [attempt EXCEPT ![w] = a], Told(checkpoint')
  PROVE  AllTold'
<1>1. /\ attempt'[w] = a /\ \A v \in Workers : v # w => attempt'[v] = attempt[v]
  BY DEF Types, AttemptsType
<1>2. \A v \in Workers : OpenInBatch(attempt'[v])
  BY <1>1 DEF AllTold
<1> QED
  BY <1>2 DEF AllTold

\* What is open stays so where neither it, the batch nor the place in the loop changes.
LEMMA SameOpen ==
  ASSUME Types, AllTold, NEW w \in Workers, NEW a, attempt' = [attempt EXCEPT ![w] = a],
         a.open = attempt[w].open, a.batch = attempt[w].batch, a.frontier = attempt[w].frontier,
         \/ a.step = attempt[w].step
         \/ {a.step, attempt[w].step} \subseteq {"clearing", "deferred", "fanning"}
         \/ {a.step, attempt[w].step} \cap {"clearing", "deferred", "fanning"} = {},
         Told(checkpoint')
  PROVE  AllTold'
<1>1. OpenInBatch(attempt[w])
  BY DEF AllTold
<1>2. BatchOf(a) = BatchOf(attempt[w])
  BY DEF BatchOf
<1>3. OpenInBatch(a)
  BY <1>1, <1>2 DEF OpenInBatch, HeldAlone
<1> QED
  BY <1>3, TellsOn

LEMMA EndingTells ==
  ASSUME Types, AllTold, NEW w \in Workers, NEW outcome,
         Ended(w, outcome) \/ Over(w, outcome), Told(checkpoint')
  PROVE  AllTold'
<1>1. Told(NoFrontier)
  BY DEF Told, NoFrontier, Frontier
<1>2. \E a : a.step \in {"ending", "over"} /\ a.open = {} /\ a.frontier = NoFrontier
             /\ attempt' = [attempt EXCEPT ![w] = a]
  BY DEF Ended, Over, Idle
<1>3. PICK a : a.step \in {"ending", "over"} /\ a.open = {} /\ a.frontier = NoFrontier
               /\ attempt' = [attempt EXCEPT ![w] = a]
  BY <1>2
<1>4. OpenInBatch(a)
  BY <1>1, <1>3 DEF OpenInBatch
<1> QED
  BY <1>3, <1>4, TellsOn

\* A frontier written of what an attempt holds is told, or as the hypothesis has it.
LEMMA RecordedTells ==
  ASSUME Told(checkpoint), NEW boundary, NEW i, NEW c, NEW open,
         Recorded(Frontier(boundary, i, c, open)),
         boundary # "before_approval" => open = {}, NothingLeftBehind'
  PROVE  Told(checkpoint')
<1>1. CASE checkpoint' = checkpoint
  BY <1>1
<1>2. CASE checkpoint' = Frontier(boundary, i, c, open)
  BY <1>2 DEF Frontier, Told, NothingLeftBehind
<1> QED
  BY <1>1, <1>2 DEF Recorded

LEMMA TurnsTell ==
  ASSUME Types, AllTold, NothingLeftBehind', NEW w \in Workers,
         GiveUp(w) \/ AskedForCalls(w) \/ Answered(w) \/ Forget(w)
  PROVE  AllTold'
<1> DEFINE a == attempt[w]
<1>1. a \in Attempts /\ OpenInBatch(a) /\ Told(checkpoint)
  BY DEF Types, AttemptsType, AllTold
<1>2. CASE GiveUp(w)
  <2>1. PICK outcome : Ended(w, outcome)
    BY <1>2 DEF GiveUp
  <2>2. Told(checkpoint')
    BY <1>1, <1>2 DEF GiveUp, stores
  <2> QED
    BY <2>1, <2>2, EndingTells
<1>3. CASE AskedForCalls(w)
  <2>1. a.open = {}
    BY <1>1, <1>3 DEF AskedForCalls, MayAsk, OpenInBatch
  <2>2. Told(checkpoint')
    BY <1>1, <1>3, <2>1, RecordedTells DEF AskedForCalls
  <2>3. PICK reply \in Replies : attempt' = [attempt EXCEPT ![w] =
             [a EXCEPT !.step = "clearing", !.batch = reply, !.at = 1,
                       !.open = a.open \cup {reply[i] : i \in 1..Len(reply)}]]
    BY <1>3 DEF AskedForCalls
  <2> DEFINE more == a.open \cup {reply[i] : i \in 1..Len(reply)}
             b == [a EXCEPT !.step = "clearing", !.batch = reply, !.at = 1, !.open = more]
  <2>4. b.step = "clearing" /\ b.batch = reply /\ b.open = more /\ b.frontier = a.frontier
    <3> HIDE DEF more
    <3> QED
      BY <1>1 DEF Attempts
  <2>5. OpenInBatch(b)
    <3>1. more = BatchOf(b) /\ BatchOf(b) = {reply[i] : i \in 1..Len(reply)}
      BY <2>1, <2>4 DEF BatchOf
    <3>2. GatesAlone => HeldAlone(b)
      <4> SUFFICES ASSUME GatesAlone, NEW c \in BatchOf(b) \cap Gated PROVE BatchOf(b) = {c}
        BY DEF HeldAlone
      <4>1. PICK i \in 1..Len(reply) : c = reply[i]
        BY <3>1
      <4>2. Len(reply) = 1
        BY <4>1 DEF GatesAlone
      <4>3. i = 1 /\ {reply[j] : j \in 1..Len(reply)} = {reply[1]}
        BY <4>1, <4>2
      <4> HIDE DEF b
      <4> QED
        BY <3>1, <4>1, <4>3
    <3> HIDE DEF b
    <3> QED
      BY <1>1, <2>4, <3>1, <3>2 DEF OpenInBatch
  <2> HIDE DEF b
  <2> QED
    BY <2>2, <2>3, <2>5, TellsOn DEF b
<1>4. CASE Answered(w)
  <2>1. a.open = {} /\ a.step = "turn"
    BY <1>1, <1>4 DEF Answered, MayAsk, OpenInBatch
  <2>2. Told(checkpoint')
    <3>1. PICK boundary \in {"after_model_call", "after_tool_result"} :
            Recorded(Frontier(boundary, a.iteration, NoCall, a.open))
      BY <1>4 DEF Answered
    <3> QED
      BY <1>1, <2>1, <3>1, RecordedTells
  <2>3. CASE Ended(w, "completed")
    BY <2>2, <2>3, EndingTells
  <2>4. CASE attempt' = [attempt EXCEPT ![w] = NextTurn(a)]
    <3>1. NextTurn(a).step = "turn" /\ NextTurn(a).open = {}
          /\ NextTurn(a).frontier = NoFrontier
      BY <1>1, <2>1 DEF NextTurn, Attempts
    <3>2. OpenInBatch(NextTurn(a))
      BY <3>1 DEF OpenInBatch, Told, NoFrontier, Frontier
    <3> QED
      BY <2>2, <2>4, <3>2, TellsOn
  <2> QED
    BY <1>4, <2>3, <2>4 DEF Answered
<1>5. CASE Forget(w)
  <2> DEFINE b == [a EXCEPT !.step = "over"]
  <2>1. Told(checkpoint')
    BY <1>5 DEF Forget, Told, NoFrontier, Frontier
  <2>2. /\ attempt' = [attempt EXCEPT ![w] = b] /\ b.step = "over" /\ a.step = "ending"
        /\ b.open = a.open /\ b.batch = a.batch /\ b.frontier = a.frontier
    BY <1>1, <1>5 DEF Forget, Attempts
  <2> HIDE DEF b
  <2> QED
    BY <2>1, <2>2, SameOpen
<1> QED
  BY <1>2, <1>3, <1>4, <1>5

LEMMA ClearingTells ==
  ASSUME Types, AllTold, NothingLeftBehind', NEW w \in Workers,
         \/ ClearUngated(w) \/ RefuseBatch(w) \/ UseDecision(w) \/ AnsweredInline(w)
         \/ CancelledWaiting(w) \/ Defer(w) \/ Suspend(w)
  PROVE  AllTold'
<1> DEFINE a == attempt[w]
<1>1. a \in Attempts /\ OpenInBatch(a) /\ Told(checkpoint)
  BY DEF Types, AttemptsType, AllTold
<1>2. CASE RefuseBatch(w) \/ CancelledWaiting(w) \/ Suspend(w)
  <2>1. PICK outcome : Ended(w, outcome) \/ Over(w, outcome)
    BY <1>2 DEF RefuseBatch, CancelledWaiting, Suspend
  <2>2. Told(checkpoint')
    BY <1>1, <1>2 DEF RefuseBatch, CancelledWaiting, Suspend, stores
  <2> QED
    BY <2>1, <2>2, EndingTells
<1>3. CASE ClearUngated(w) \/ UseDecision(w) \/ AnsweredInline(w)
  <2>1. PICK d : attempt' = [attempt EXCEPT ![w] = Past(w, d)]
    BY <1>3 DEF ClearUngated, UseDecision, AnsweredInline
  <2>2. a.step = "clearing" /\ Told(checkpoint')
    BY <1>1, <1>3 DEF ClearUngated, UseDecision, AnsweredInline, MustAsk, Clearing, stores
  <2>3. /\ Past(w, d).step \in {"fanning", "clearing"} /\ Past(w, d).open = a.open
        /\ Past(w, d).batch = a.batch /\ Past(w, d).frontier = a.frontier
    BY <1>1 DEF Past, Attempts
  <2> QED
    BY <2>1, <2>2, <2>3, SameOpen
<1>4. CASE Defer(w)
  <2> DEFINE b == [a EXCEPT !.step = "deferred"]
  <2>1. Told(checkpoint')
    BY <1>1, <1>4, RecordedTells DEF Defer
  <2>2. /\ attempt' = [attempt EXCEPT ![w] = b] /\ b.step = "deferred" /\ a.step = "clearing"
        /\ b.open = a.open /\ b.batch = a.batch /\ b.frontier = a.frontier
    BY <1>1, <1>4 DEF Defer, MustAsk, Clearing, Attempts
  <2> HIDE DEF b
  <2> QED
    BY <2>1, <2>2, SameOpen
<1> QED
  BY <1>2, <1>3, <1>4

LEMMA CallStepTells ==
  ASSUME Types, AllTold, NEW w \in Workers, NEW c \in Calls, CallStep(w, c) \/ Land(w, c)
  PROVE  AllTold'
<1> DEFINE a == attempt[w]
<1>1. a \in Attempts /\ attempt \in [Workers -> Attempts] /\ Told(checkpoint)
  BY DEF Types, AttemptsType, AllTold
<1>2. UNCHANGED checkpoint
  BY DEF CallStep, Land, Enter, Dispatch, OverBudget, Forestall, Deduplicate, Undecidable,
    Declined, BackOff, Again, CancelledBackingOff, Raise, Abort, Return, Overdraw,
    Unrecorded, stores, world
<1>3. \/ \E s : attempt' = [attempt EXCEPT ![w] = [a EXCEPT !.named = s]]
      \/ \E s : attempt' = [attempt EXCEPT ![w] = [a EXCEPT !.mine = s]]
      \/ \E s : attempt' = [attempt EXCEPT ![w] = [a EXCEPT !.unreported = s]]
      \/ \E s : attempt' = [attempt EXCEPT ![w] = [a EXCEPT !.tries = s]]
      \/ UNCHANGED attempt
  BY DEF CallStep, Land, Enter, Dispatch, OverBudget, Forestall, Deduplicate, Undecidable,
    Declined, BackOff, Again, CancelledBackingOff, Raise, Abort, Return, Overdraw,
    Unrecorded, Names
<1>4. ASSUME NEW b, attempt' = [attempt EXCEPT ![w] = b], b.open = a.open, b.batch = a.batch,
             b.frontier = a.frontier, b.step = a.step
      PROVE  AllTold'
  BY <1>1, <1>2, <1>4, SameOpen
<1>5. ASSUME NEW s, attempt' = [attempt EXCEPT ![w] = [a EXCEPT !.named = s]] PROVE AllTold'
  <2> DEFINE b == [a EXCEPT !.named = s]
  <2>1. b.open = a.open /\ b.batch = a.batch /\ b.frontier = a.frontier /\ b.step = a.step
    BY <1>1 DEF Attempts
  <2> HIDE DEF b
  <2> QED
    BY <1>4, <1>5, <2>1 DEF b
<1>6. ASSUME NEW s, attempt' = [attempt EXCEPT ![w] = [a EXCEPT !.mine = s]] PROVE AllTold'
  <2> DEFINE b == [a EXCEPT !.mine = s]
  <2>1. b.open = a.open /\ b.batch = a.batch /\ b.frontier = a.frontier /\ b.step = a.step
    BY <1>1 DEF Attempts
  <2> HIDE DEF b
  <2> QED
    BY <1>4, <1>6, <2>1 DEF b
<1>7. ASSUME NEW s, attempt' = [attempt EXCEPT ![w] = [a EXCEPT !.unreported = s]] PROVE AllTold'
  <2> DEFINE b == [a EXCEPT !.unreported = s]
  <2>1. b.open = a.open /\ b.batch = a.batch /\ b.frontier = a.frontier /\ b.step = a.step
    BY <1>1 DEF Attempts
  <2> HIDE DEF b
  <2> QED
    BY <1>4, <1>7, <2>1 DEF b
<1>8. ASSUME NEW s, attempt' = [attempt EXCEPT ![w] = [a EXCEPT !.tries = s]] PROVE AllTold'
  <2> DEFINE b == [a EXCEPT !.tries = s]
  <2>1. b.open = a.open /\ b.batch = a.batch /\ b.frontier = a.frontier /\ b.step = a.step
    BY <1>1 DEF Attempts
  <2> HIDE DEF b
  <2> QED
    BY <1>4, <1>8, <2>1 DEF b
<1>9. CASE UNCHANGED attempt
  <2>1. attempt' = [attempt EXCEPT ![w] = a]
    BY <1>1, <1>9
  <2> QED
    BY <1>4, <2>1
<1> QED
  BY <1>3, <1>5, <1>6, <1>7, <1>8, <1>9

LEMMA BatchEndTells ==
  ASSUME Types, AllTold, NothingLeftBehind', NEW w \in Workers, StopShort(w) \/ Merge(w)
  PROVE  AllTold'
<1> DEFINE a == attempt[w]
           merged == [a EXCEPT !.open = @ \ InBatch(w)]
<1>1. a \in Attempts /\ OpenInBatch(a) /\ Told(checkpoint)
  BY DEF Types, AttemptsType, AllTold
<1>2. CASE StopShort(w)
  <2>1. PICK s : attempt' = [attempt EXCEPT ![w] = [a EXCEPT !.named = s]]
    BY <1>2 DEF StopShort
  <2> DEFINE b == [a EXCEPT !.named = s]
  <2>2. b.open = a.open /\ b.batch = a.batch /\ b.frontier = a.frontier /\ b.step = a.step
    BY <1>1 DEF Attempts
  <2>3. Told(checkpoint')
    BY <1>1, <1>2 DEF StopShort, stores
  <2> HIDE DEF b
  <2> QED
    BY <2>1, <2>2, <2>3, SameOpen DEF b
<1>3. CASE Merge(w)
  <2>1. CASE \E outcome \in {"cancelled", "failed"} : Ended(w, outcome) /\ UNCHANGED checkpoint
    BY <1>1, <2>1, EndingTells
  <2>2. CASE /\ \/ Recorded(Frontier("after_tool_result", a.iteration, NoCall, merged.open))
                \/ UNCHANGED checkpoint
             /\ attempt' = [attempt EXCEPT ![w] = NextTurn(merged)]
    <3>1. merged.open = {} /\ merged \in Attempts
      <4>1. a.open \subseteq InBatch(w)
        BY <1>1, <1>3 DEF Merge, Fanning, OpenInBatch, BatchOf, InBatch
      <4> QED
        BY <1>1, <4>1 DEF Attempts
    <3>2. Told(checkpoint')
      BY <1>1, <2>2, <3>1, RecordedTells
    <3> HIDE DEF merged
    <3>3. /\ NextTurn(merged).step = "turn" /\ NextTurn(merged).open = {}
          /\ NextTurn(merged).frontier = NoFrontier
      BY <3>1 DEF NextTurn, Attempts
    <3>4. OpenInBatch(NextTurn(merged))
      BY <3>3 DEF OpenInBatch, Told, NoFrontier, Frontier
    <3> QED
      BY <2>2, <3>2, <3>4, TellsOn
  <2> QED
    BY <1>3, <2>1, <2>2 DEF Merge
<1> QED
  BY <1>2, <1>3

LEMMA ResumingTells ==
  ASSUME Types, AllTold, NEW w \in Workers,
         \/ Redeem(w) \/ ReadFrontier(w, "idle") \/ ReadFrontier(w, "resuming")
         \/ NothingToResume(w) \/ Claim(w) \/ Conflict(w) \/ Cancel(w) \/ Crash(w)
  PROVE  AllTold'
<1> DEFINE a == attempt[w]
           f == a.frontier
<1>1. a \in Attempts /\ OpenInBatch(a) /\ Told(checkpoint)
  BY DEF Types, AttemptsType, AllTold
<1>2. Told(checkpoint')
  BY <1>1 DEF Redeem, ReadFrontier, NothingToResume, Claim, Conflict, Cancel, Crash, stores
<1>3. CASE NothingToResume(w) \/ Conflict(w) \/ Crash(w) \/ Over(w, "refused")
  <2>1. PICK outcome : Over(w, outcome)
    BY <1>3 DEF NothingToResume, Conflict, Crash
  <2> QED
    BY <1>2, <2>1, EndingTells
<1>4. CASE Redeem(w)
  <2>1. CASE Over(w, "refused")
    BY <1>3, <2>1
  <2>2. CASE \E d : attempt' = [attempt EXCEPT ![w] = [a EXCEPT !.step = "resuming", !.decided = d]]
    <3>1. PICK d : attempt' = [attempt EXCEPT ![w] = [a EXCEPT !.step = "resuming", !.decided = d]]
      BY <2>2
    <3> DEFINE b == [a EXCEPT !.step = "resuming", !.decided = d]
    <3>2. /\ b.step = "resuming" /\ a.step = "idle"
          /\ b.open = a.open /\ b.batch = a.batch /\ b.frontier = a.frontier
      BY <1>1, <1>4 DEF Redeem, Attempts
    <3> HIDE DEF b
    <3> QED
      BY <1>2, <3>1, <3>2, SameOpen DEF b
  <2> QED
    BY <1>4, <2>1, <2>2 DEF Redeem
<1>5. CASE ReadFrontier(w, "idle") \/ ReadFrontier(w, "resuming")
  <2> DEFINE b == [a EXCEPT !.step = "claiming", !.frontier = checkpoint]
  <2>1. /\ attempt' = [attempt EXCEPT ![w] = b] /\ b.step = "claiming" /\ b.open = a.open
        /\ b.frontier = checkpoint /\ a.step \in {"idle", "resuming"}
    BY <1>1, <1>5 DEF ReadFrontier, Attempts
  <2> HIDE DEF b
  <2>2. OpenInBatch(b)
    BY <1>1, <2>1 DEF OpenInBatch
  <2> QED
    BY <1>2, <2>1, <2>2, TellsOn
<1>6. CASE Claim(w)
  <2> DEFINE restored == [a EXCEPT !.iteration = f.iteration, !.open = f.open]
             only == <<f.pending>>
             more == f.open \cup {f.pending}
             b == [restored EXCEPT !.step = "clearing", !.batch = only, !.at = 1,
                                   !.open = more]
  <2>1. f \in Frontiers /\ Told(f) /\ Told(NoFrontier)
    BY <1>1 DEF Attempts, OpenInBatch, Told, NoFrontier, Frontier
  <2>2. f.open \in SUBSET Calls /\ f.open \subseteq {f.pending}
    BY <2>1 DEF Frontiers, Told
  <2>3. restored \in Attempts /\ restored.open = f.open /\ restored.frontier = f
    BY <1>1, <2>1, Nothings DEF Attempts, Frontiers
  <2>4. CASE f.pending = NoCall
    <3>1. attempt' = [attempt EXCEPT ![w] = NextTurn(restored)]
      BY <1>6, <2>4 DEF Claim
    <3>2. f.open = {}
      BY <2>2, <2>4, CallsAssumption
    <3> HIDE DEF restored
    <3>3. /\ NextTurn(restored).step = "turn" /\ NextTurn(restored).open = {}
          /\ NextTurn(restored).frontier = NoFrontier
      BY <2>3, <3>2 DEF NextTurn, Attempts
    <3>4. OpenInBatch(NextTurn(restored))
      BY <2>1, <3>3 DEF OpenInBatch
    <3> QED
      BY <1>2, <3>1, <3>4, TellsOn
  <2>5. CASE f.pending # NoCall
    <3>1. attempt' = [attempt EXCEPT ![w] = b]
      BY <1>6, <2>5 DEF Claim
    <3>2. b.step = "clearing" /\ b.batch = only /\ b.open = more /\ b.frontier = f
      <4> HIDE DEF restored, only, more
      <4> QED
        BY <2>3 DEF Attempts
    <3> HIDE DEF b
    <3>3. BatchOf(b) = {f.pending}
      BY <3>2 DEF BatchOf
    <3>4. OpenInBatch(b)
      BY <2>1, <2>2, <3>2, <3>3 DEF OpenInBatch, HeldAlone
    <3> QED
      BY <1>2, <3>1, <3>4, TellsOn
  <2> QED
    BY <2>4, <2>5
<1>7. CASE Cancel(w)
  <2> DEFINE b == [a EXCEPT !.cancelled = TRUE]
  <2>1. /\ attempt' = [attempt EXCEPT ![w] = b] /\ b.step = a.step
        /\ b.open = a.open /\ b.batch = a.batch /\ b.frontier = a.frontier
    BY <1>1, <1>7 DEF Cancel, Attempts
  <2> HIDE DEF b
  <2> QED
    BY <1>2, <2>1, SameOpen
<1> QED
  BY <1>3, <1>4, <1>5, <1>6, <1>7

LEMMA InitTells == Init => AllTold
<1> SUFFICES ASSUME Init PROVE AllTold
  OBVIOUS
<1>1. Told(NoFrontier)
  BY DEF Told, NoFrontier, Frontier
<1>2. /\ Begun.step = "turn" /\ Begun.open = {} /\ Begun.frontier = NoFrontier
      /\ Idle.step = "idle" /\ Idle.open = {} /\ Idle.frontier = NoFrontier
  BY DEF Begun, Idle
<1>3. OpenInBatch(Begun) /\ OpenInBatch(Idle)
  BY <1>1, <1>2 DEF OpenInBatch
<1>4. \A w \in Workers : attempt[w] = Begun \/ attempt[w] = Idle
  BY DEF Init
<1>5. \A w \in Workers : OpenInBatch(attempt[w])
  BY <1>3, <1>4
<1> QED
  BY <1>1, <1>5 DEF Init, AllTold

LEMMA NextTells == Types /\ AllTold /\ NothingLeftBehind' /\ [Next]_vars => AllTold'
<1> SUFFICES ASSUME Types, AllTold, NothingLeftBehind', [Next]_vars PROVE AllTold'
  OBVIOUS
<1>1. ASSUME NEW w \in Workers, Step(w) PROVE AllTold'
  BY <1>1, TurnsTell, ClearingTells, CallStepTells, BatchEndTells, ResumingTells DEF Step
<1>2. ASSUME NEW w \in Workers, Redeem(w) \/ ReadFrontier(w, "idle") \/ Cancel(w) \/ Crash(w)
      PROVE AllTold'
  BY <1>2, ResumingTells
<1>3. ASSUME NEW w \in Workers, NEW c \in Calls, Land(w, c) PROVE AllTold'
  BY <1>3, CallStepTells
<1>4. CASE ClaimLapses \/ UNCHANGED vars
  BY <1>4 DEF ClaimLapses, vars, AllTold
<1> QED
  BY <1>1, <1>2, <1>3, <1>4 DEF Next

\* A model that asks for gated calls one at a time has no sibling to leave behind.
LEMMA NothingIsLeft ==
  ASSUME GatesAlone, Types, AllTold, [Next]_vars
  PROVE  NothingLeftBehind'
<1> DEFINE Held(f) == f.boundary = "before_approval" => f.open \subseteq {f.pending}
<1>1. Held(checkpoint)
  BY DEF AllTold, Told
<1>2. ASSUME NEW w \in Workers, Defer(w) PROVE Held(checkpoint')
  <2> DEFINE a == attempt[w]
             c == AtCall(w)
  <2>1. /\ a.step = "clearing" /\ c \in Gated /\ OpenInBatch(a) /\ a \in Attempts
        /\ Recorded(Frontier("before_approval", a.iteration, c, a.open))
    BY <1>2 DEF Defer, MustAsk, Clearing, AllTold, Types, AttemptsType
  <2>2. c \in BatchOf(a)
    BY <2>1 DEF Types, AttemptsType, AtACall, AtCall, BatchOf
  <2>3. a.open \subseteq {c}
    BY <2>1, <2>2 DEF OpenInBatch, HeldAlone
  <2>4. Held(Frontier("before_approval", a.iteration, c, a.open))
    BY <2>3 DEF Frontier
  <2> QED
    BY <1>1, <2>1, <2>4 DEF Recorded
<1>3. ASSUME NEW boundary \in Boundaries \ {"before_approval"}, NEW i, NEW open,
             Recorded(Frontier(boundary, i, NoCall, open))
      PROVE  Held(checkpoint')
  BY <1>1, <1>3 DEF Recorded, Frontier
<1>4. ASSUME NEW w \in Workers, AskedForCalls(w) \/ Answered(w) \/ Merge(w)
      PROVE  Held(checkpoint')
  <2>1. CASE UNCHANGED checkpoint
    BY <1>1, <2>1
  <2>2. CASE ~UNCHANGED checkpoint
    <3>1. \E boundary \in {"after_model_call", "after_tool_result"} :
            \E i, open : Recorded(Frontier(boundary, i, NoCall, open))
      BY <1>4, <2>2 DEF AskedForCalls, Answered, Merge
    <3> QED
      BY <1>3, <3>1 DEF Boundaries
  <2> QED
    BY <2>1, <2>2
<1>5. ASSUME NEW w \in Workers, Forget(w) PROVE Held(checkpoint')
  BY <1>5 DEF Forget, NoFrontier, Frontier
<1>6. ASSUME NEW w \in Workers,
             \/ GiveUp(w) \/ ClearUngated(w) \/ RefuseBatch(w) \/ UseDecision(w)
             \/ AnsweredInline(w) \/ CancelledWaiting(w) \/ Suspend(w) \/ StopShort(w)
             \/ ReadFrontier(w, "idle") \/ ReadFrontier(w, "resuming") \/ NothingToResume(w)
             \/ Claim(w) \/ Conflict(w) \/ Redeem(w) \/ Cancel(w) \/ Crash(w)
      PROVE  Held(checkpoint')
  <2>1. UNCHANGED checkpoint
    BY <1>6 DEF GiveUp, ClearUngated, RefuseBatch, UseDecision, AnsweredInline, CancelledWaiting,
       Suspend, StopShort, ReadFrontier, NothingToResume, Claim, Conflict, Redeem, Cancel, Crash,
       stores
  <2> QED
    BY <1>1, <2>1
<1>7. ASSUME NEW w \in Workers, NEW c \in Calls, CallStep(w, c) \/ Land(w, c)
      PROVE  Held(checkpoint')
  <2>1. UNCHANGED checkpoint
    BY <1>7 DEF CallStep, Land, Enter, Dispatch, OverBudget, Forestall, Deduplicate, Undecidable,
       Declined, BackOff, Again, CancelledBackingOff, Raise, Abort, Return, Overdraw,
       Unrecorded, stores, world
  <2> QED
    BY <1>1, <2>1
<1>8. ASSUME ClaimLapses \/ UNCHANGED vars PROVE Held(checkpoint')
  <2>1. UNCHANGED checkpoint
    BY <1>8 DEF ClaimLapses, vars
  <2> QED
    BY <1>1, <2>1
<1>9. Held(checkpoint')
  <2> HIDE DEF Held
  <2>1. ASSUME NEW w \in Workers, Step(w) PROVE Held(checkpoint')
    BY <1>2, <1>4, <1>5, <1>6, <1>7, <2>1 DEF Step
  <2>2. CASE ClaimLapses \/ UNCHANGED vars
    BY <1>8, <2>2
  <2>3. CASE \E w \in Workers : Step(w)
    BY <2>1, <2>3
  <2>4. CASE \E w \in Workers : Redeem(w) \/ ReadFrontier(w, "idle") \/ Cancel(w) \/ Crash(w)
    BY <1>6, <2>4
  <2>5. CASE \E w \in Workers : \E c \in Calls : Land(w, c)
    BY <1>7, <2>5
  <2> QED
    BY <2>2, <2>3, <2>4, <2>5 DEF Next
<1> QED
  BY <1>9 DEF NothingLeftBehind

\* The siblings a suspension leaves behind are the only calls the model is ever asked without
\* the answers of: while none is left behind, EveryCallCameBack holds, whatever is cancelled,
\* cut short, raised, crashed, left unwritten or carried on by several workers.
THEOREM CallsComeBackUnlessLeftBehind == Spec /\ []NothingLeftBehind => []EveryCallCameBack
<1>1. AllTold => EveryCallCameBack
  BY DEF AllTold, OpenInBatch, EveryCallCameBack
<1>2. Types /\ AllTold /\ NothingLeftBehind' /\ [Next]_vars => Types' /\ AllTold'
  BY NextTypes, NextTells
<1> QED
  BY <1>1, <1>2, InitTypes, InitTells, PTL DEF Spec

\* Where the model asks for gated calls one at a time, it is never asked again before every
\* call it made came back.
THEOREM LoneGatesComeBack == ASSUME GatesAlone PROVE Spec => []EveryCallCameBack
<1>1. Types /\ AllTold /\ [Next]_vars => Types' /\ AllTold'
  BY NextTypes, NextTells, NothingIsLeft
<1>2. AllTold => EveryCallCameBack
  BY DEF AllTold, OpenInBatch, EveryCallCameBack
<1> QED
  BY <1>1, <1>2, InitTypes, InitTells, PTL DEF Spec
=============================================================================
