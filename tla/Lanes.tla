------------------------------- MODULE Lanes -------------------------------
(* runtime/fanout.py, and _one_call of runtime/loop.py: a tool call stands  *)
(* in four lanes, its tenant's, its turn's, its tool's across the runner    *)
(* and its tool's within the turn, and takes them in that order.  A call    *)
(* made by a sub-agent started in another call's body spends the tenant and *)
(* tool lanes its callers already hold.  Who of those waiting for a lane is *)
(* let in first is left open.                                               *)
EXTENDS Integers, FiniteSets

CONSTANTS
  LaneCalls,
  LaneLoads,     \* what the calls are: [above, turn, tenant, tool]
  LaneTurns, LaneTenants, LaneTools,
  TenantWidth,   \* ConcurrencyConfig.per_tenant
  BatchWidth,    \* ConcurrencyConfig.max_concurrent_tools
  ToolWidth,     \* ConcurrencyConfig.per_tool of the runner
  TurnToolWidth  \* the same, as the agent narrowed it

\* above[c]: the calls in whose bodies c is made, the direct caller and its own.
\* A turn is of one run, and a nested run goes with the tenant of its caller
\* (delegation.py passes it on, and tenant_scope refuses another).
ASSUME LaneAssumption ==
  /\ IsFiniteSet(LaneCalls)
  /\ LaneLoads \subseteq [above: [LaneCalls -> SUBSET LaneCalls],
                          turn: [LaneCalls -> LaneTurns],
                          tenant: [LaneCalls -> LaneTenants],
                          tool: [LaneCalls -> LaneTools]]
  /\ \A load \in LaneLoads : \A c \in LaneCalls :
       /\ c \notin load.above[c]
       /\ \A a \in load.above[c] :
            load.above[a] \subseteq load.above[c] /\ load.tenant[a] = load.tenant[c]
       /\ \A d \in LaneCalls : load.turn[d] = load.turn[c] =>
            load.above[d] = load.above[c] /\ load.tenant[d] = load.tenant[c]
  /\ {TenantWidth, BatchWidth} \subseteq Nat \ {0}
  /\ ToolWidth \in [LaneTools -> Nat \ {0}]
  /\ TurnToolWidth \in [LaneTools -> Nat \ {0}]

VARIABLES
  laneLoad,
  laneAt      \* 0: not made; 1..4: at that lane; 5: let in; 6: over

laneVars == <<laneLoad, laneAt>>

LanesInit ==
  /\ laneLoad \in LaneLoads
  /\ laneAt = [c \in LaneCalls |-> 0]

Below(c) == {d \in LaneCalls : c \in laneLoad.above[d]}

\* The lanes of held(), in the order of its async with.
Lane(c, k) ==
  CASE k = 1 -> <<"tenant", laneLoad.tenant[c]>>
    [] k = 2 -> <<"batch", laneLoad.turn[c]>>
    [] k = 3 -> <<"tool", laneLoad.tool[c]>>
    [] k = 4 -> <<"narrowed", laneLoad.turn[c], laneLoad.tool[c]>>

Width(c, k) ==
  CASE k = 1 -> TenantWidth
    [] k = 2 -> BatchWidth
    [] k = 3 -> ToolWidth[laneLoad.tool[c]]
    [] k = 4 -> TurnToolWidth[laneLoad.tool[c]]

\* Mutant: nested work asks for a second place in the lane its caller holds.
AskedForAgain(c, k) == FALSE

\* _held: the keyed lanes some caller of c is standing in.
Inherited(c, k) == k \in {1, 3} /\ \E a \in laneLoad.above[c] : Lane(a, k) = Lane(c, k)

\* The calls that have a place of their own in this lane.
Standing(lane) ==
  {c \in LaneCalls : \E k \in 1..4 :
     laneAt[c] \in (k + 1)..5 /\ Lane(c, k) = lane /\ ~Inherited(c, k)}

LetIn(c) ==
  LET k == laneAt[c]
  IN  Inherited(c, k) \/ Cardinality(Standing(Lane(c, k))) < Width(c, k)

\* _one_phase starts a task for the call, in the body of its caller.
Make(c) ==
  /\ laneAt[c] = 0
  /\ \A a \in laneLoad.above[c] : laneAt[a] = 5
  /\ laneAt' = [laneAt EXCEPT ![c] = 1]
  /\ UNCHANGED laneLoad

Enter(c) ==
  /\ laneAt[c] \in 1..4
  /\ LetIn(c)
  /\ laneAt' = [laneAt EXCEPT ![c] = @ + 1]
  /\ UNCHANGED laneLoad

\* The body returns, with the sub-agent's calls made, or not needed.
Finish(c) ==
  /\ laneAt[c] = 5
  /\ \A d \in Below(c) : laneAt[d] \in {0, 6}
  /\ laneAt' = [laneAt EXCEPT ![c] = 6]
  /\ UNCHANGED laneLoad

\* A sibling ended the run, the token was cancelled, or the tool's time is up:
\* the task is cancelled, with the nested run in it, and leaves its lanes.
StopShort(c) ==
  /\ laneAt[c] \in 1..5
  /\ laneAt' = [d \in LaneCalls |->
                  IF d = c \/ (d \in Below(c) /\ laneAt[d] \in 1..5) THEN 6 ELSE laneAt[d]]
  /\ UNCHANGED laneLoad

LanesNext == \E c \in LaneCalls : Make(c) \/ Enter(c) \/ Finish(c) \/ StopShort(c)

LanesSpec == LanesInit /\ [][LanesNext]_laneVars

LanesTypeOK == laneLoad \in LaneLoads /\ laneAt \in [LaneCalls -> 0..6]

---------------------------------------------------------------------------

\* Every call under way waits: for a lane, or for the nested calls it made.
Jammed ==
  /\ \E c \in LaneCalls : laneAt[c] \in 1..5
  /\ \A c \in LaneCalls :
       /\ laneAt[c] = 0 => \E a \in laneLoad.above[c] : laneAt[a] # 5
       /\ laneAt[c] \in 1..4 => ~LetIn(c)
       /\ laneAt[c] = 5 => \E d \in Below(c) : laneAt[d] \in 1..5

\* c, inside another call's body, waits for a tool lane that a caller of d holds.
WaitsForACallerOf(c, d) ==
  /\ laneLoad.above[c] # {}
  /\ laneAt[c] = 3
  /\ laneLoad.above[d] \cap Standing(Lane(c, 3)) # {}

\* fanout.py: "The order is the same for every call, so two calls cannot each
\* hold a lane the other is waiting for."  True of the four lanes of one call,
\* and of a call and what is nested in it; a call's order starts again in the
\* body of another, though, and nested calls may cross: each waits for the tool
\* that a caller of another holds.  That is the only way the lanes jam.
JamsAreCrossings ==
  Jammed => \E ring \in SUBSET LaneCalls \ {{}} :
              \A c \in ring : \E d \in ring \ {c} : WaitsForACallerOf(c, d)
=============================================================================
