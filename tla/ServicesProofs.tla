--------------------------- MODULE ServicesProofs ---------------------------
(* Proofs about the parts of Services, each for any value of its constants:  *)
(* run leases, the runs and the sessions of the state store, spend ledgers,  *)
(* the credentials of a run, the cache of answers, the threads of blocking   *)
(* bodies, the clients of the model providers, a child process, the lanes of *)
(* tool calls, sagas, the branches of a fan-out, how plans are carried, and *)
(* what the clients of a run's progress stream are told.                    *)
EXTENDS Services, FiniteSetLemmas, TLAPS

-----------------------------------------------------------------------------
(* Run leases.                                                               *)

LEMMA LeaseTyped == LeaseSpec => []LeaseTypeOK
<1>1. LeaseInit => LeaseTypeOK
  BY LeaseAssumption DEF LeaseInit, LeaseTypeOK, NoLease, NoHold
<1>2. LeaseTypeOK /\ [LeaseNext]_leaseVars => LeaseTypeOK'
  <2> SUFFICES ASSUME LeaseTypeOK, [LeaseNext]_leaseVars PROVE LeaseTypeOK'
    OBVIOUS
  <2> USE LeaseAssumption DEF LeaseTypeOK
  <2>1. CASE LeaseTick
    BY <2>1 DEF LeaseTick
  <2>2. ASSUME NEW w \in LeaseWorkers, Acquire(w) \/ AcquireUnheard(w) PROVE LeaseTypeOK'
    <3>1. Taken(w) \in [holder: LeaseWorkers \cup {Nobody}, fence: 0..MaxFence,
                        expires: 0..(LeaseHorizon + LeaseTtl)]
      BY <2>2 DEF Taken, Acquire, AcquireUnheard
    <3> QED
      BY <2>2, <3>1 DEF Acquire, AcquireUnheard
  <2>3. ASSUME NEW w \in LeaseWorkers, Carry(w) \/ LeaveHeld(w) PROVE LeaseTypeOK'
    BY <2>3 DEF Carry, LeaveHeld, NoHold
  <2>4. ASSUME NEW w \in LeaseWorkers, Keep(w) PROVE LeaseTypeOK'
    <3>1. leaseTime + LeaseTtl \in 0..(LeaseHorizon + LeaseTtl)
      OBVIOUS
    <3> QED
      BY <2>4, <3>1 DEF Keep
  <2>5. ASSUME NEW w \in LeaseWorkers, LetGo(w) PROVE LeaseTypeOK'
    <3>1. Released(w) \in [holder: LeaseWorkers \cup {Nobody}, fence: 0..MaxFence,
                           expires: 0..(LeaseHorizon + LeaseTtl)]
      <4>1. leaseStore \in {"memory", "redis", "postgres"}
        OBVIOUS
      <4>2. /\ NoLease \in [holder: LeaseWorkers \cup {Nobody}, fence: 0..MaxFence,
                            expires: 0..(LeaseHorizon + LeaseTtl)]
            /\ 0 \in 0..(LeaseHorizon + LeaseTtl)
        BY DEF NoLease
      <4> QED
        BY <4>1, <4>2 DEF Released
    <3> QED
      BY <2>5, <3>1 DEF LetGo, NoHold
  <2>6. CASE UNCHANGED leaseVars
    BY <2>6 DEF leaseVars
  <2> QED
    BY <2>1, <2>2, <2>3, <2>4, <2>5, <2>6 DEF LeaseNext
<1> QED
  BY <1>1, <1>2, PTL DEF LeaseSpec

\* Who believes in a lease that has not run out has the row, for as long as the
\* row says: nobody else gets it before then, and a release of what is not one's
\* own leaves it.
HoldersHave ==
  leaseStore # "memory" =>
    \A w \in LeaseWorkers : Believes(w) => Current(w) /\ hold[w].expires = leaseRow.expires

\* A worker at a time carries a run on under a lease that has not run out.
THEOREM OneWorkerCarries == LeaseSpec => []OneCarriesTheRun
<1>1. LeaseInit => HoldersHave
  BY DEF LeaseInit, HoldersHave, Believes, NoHold
<1>2. LeaseTypeOK /\ HoldersHave /\ [LeaseNext]_leaseVars => HoldersHave'
  <2> SUFFICES ASSUME LeaseTypeOK, HoldersHave, [LeaseNext]_leaseVars, leaseStore' # "memory",
                      NEW v \in LeaseWorkers, Believes(v)'
               PROVE  (Current(v) /\ hold[v].expires = leaseRow.expires)'
    BY DEF HoldersHave
  <2> USE LeaseAssumption DEF LeaseTypeOK, HoldersHave, Believes, Current, HeldAt
  <2>0. leaseStore' = leaseStore
    BY DEF LeaseNext, LeaseTick, Acquire, AcquireUnheard, Carry, LeaveHeld, Keep, LetGo, leaseVars
  <2>1. CASE LeaseTick
    BY <2>0, <2>1 DEF LeaseTick
  <2>2. ASSUME NEW w \in LeaseWorkers, Acquire(w) \/ AcquireUnheard(w)
        PROVE  (Current(v) /\ hold[v].expires = leaseRow.expires)'
    <3>1. CASE v = w
      BY <2>2, <3>1 DEF Acquire, AcquireUnheard, Taken
    <3>2. CASE v # w
      <4>1. Believes(v)
        BY <2>2, <3>2 DEF Acquire, AcquireUnheard
      <4>2. Refused(w)
        BY <2>0, <4>1, <3>2 DEF Refused
      <4> QED
        BY <2>2, <4>2 DEF Acquire, AcquireUnheard
    <3> QED
      BY <3>1, <3>2
  <2>3. ASSUME NEW w \in LeaseWorkers, Carry(w) \/ LeaveHeld(w)
        PROVE  (Current(v) /\ hold[v].expires = leaseRow.expires)'
    BY <2>0, <2>3 DEF Carry, LeaveHeld, NoHold
  <2>4. ASSUME NEW w \in LeaseWorkers, Keep(w)
        PROVE  (Current(v) /\ hold[v].expires = leaseRow.expires)'
    <3>1. CASE v = w
      BY <2>4, <3>1 DEF Keep
    <3>2. CASE v # w
      <4>1. Believes(v) /\ ~Current(w)
        BY <2>0, <2>4, <3>2 DEF Keep
      <4> QED
        BY <2>0, <2>4, <3>2, <4>1 DEF Keep
    <3> QED
      BY <3>1, <3>2
  <2>5. ASSUME NEW w \in LeaseWorkers, LetGo(w)
        PROVE  (Current(v) /\ hold[v].expires = leaseRow.expires)'
    <3>1. v # w
      BY <2>5 DEF LetGo, NoHold
    <3>2. Believes(v) /\ ~Current(w)
      BY <2>0, <2>5, <3>1 DEF LetGo
    <3>3. Released(w) = leaseRow
      BY <2>0, <3>2 DEF Released
    <3> QED
      BY <2>0, <2>5, <3>1, <3>2, <3>3 DEF LetGo
  <2>6. CASE UNCHANGED leaseVars
    BY <2>6 DEF leaseVars
  <2> QED
    BY <2>1, <2>2, <2>3, <2>4, <2>5, <2>6 DEF LeaseNext
<1>3. HoldersHave => OneCarriesTheRun
  BY DEF HoldersHave, OneCarriesTheRun, Current
<1> QED
  BY <1>1, <1>2, <1>3, LeaseTyped, PTL DEF LeaseSpec

-----------------------------------------------------------------------------
(* The runs of the state store.                                              *)

\* What MaxLanded patches to each version come to.
LEMMA CostsGrow ==
  ASSUME NEW v \in Nat
  PROVE  /\ MaxLanded * v \in Nat
         /\ MaxLanded * (v + 1) = MaxLanded * v + MaxLanded
         /\ MaxLanded * 0 = 0
         /\ v <= MaxVersion => MaxLanded * v <= MaxLanded * MaxVersion
BY StateAssumption

\* A cost is bounded by the version it was read or written at, in every store
\* and however often the run was deleted and made again.
CostsFit ==
  /\ record.version \in Nat
  /\ record.version = 0 => record = NoRecord
  /\ record.version > 0 => record.cost <= MaxLanded * (record.version - 1) + landed
  /\ \A w \in StateWorkers :
       copy[w] # Unread => /\ copy[w].version \in Nat
                           /\ copy[w].cost <= MaxLanded * copy[w].version

LEMMA StateTyped == StateSpec => [](StateTypeOK /\ CostsFit)
<1>0. NoRecord \in Records /\ Unread \in Records /\ NoRecord.version = 0
  <2>1. MaxLanded * MaxVersion \in Nat
    BY StateAssumption, CostsGrow
  <2> QED
    BY <2>1, StateAssumption DEF NoRecord, Unread, Records
<1>1. StateInit => StateTypeOK /\ CostsFit
  <2>1. StateInit => StateTypeOK
    <3>1. 0 \in 0..MaxLanded
      BY StateAssumption
    <3> QED
      BY <1>0, <3>1, Zenon DEF StateInit, StateTypeOK
  <2>2. StateInit => CostsFit
    BY <1>0 DEF StateInit, CostsFit
  <2> QED
    BY <2>1, <2>2
<1>2. StateTypeOK /\ CostsFit /\ [StateNext]_stateVars => StateTypeOK' /\ CostsFit'
  <2> SUFFICES ASSUME StateTypeOK, CostsFit, [StateNext]_stateVars
               PROVE  StateTypeOK' /\ CostsFit'
    OBVIOUS
  <2> USE StateAssumption DEF StateTypeOK, CostsFit
  <2>1. CASE DeleteRun
    BY <2>1, CostsGrow DEF DeleteRun, NoRecord, Records
  <2>2. ASSUME NEW w \in StateWorkers, GetRun(w) PROVE StateTypeOK' /\ CostsFit'
    <3>1. record.cost <= MaxLanded * record.version
      BY CostsGrow DEF Records, NoRecord
    <3> QED
      BY <2>2, <3>1 DEF GetRun
  <2>3. ASSUME NEW w \in StateWorkers, PutRun(w) PROVE StateTypeOK' /\ CostsFit'
    BY <2>3, CostsGrow DEF PutRun, Written, Records, Unread
  <2>4. ASSUME NEW w \in StateWorkers, Conflict(w) PROVE StateTypeOK' /\ CostsFit'
    BY <1>0, <2>4 DEF Conflict
  <2>5. ASSUME NEW w \in StateWorkers, PatchRun(w) PROVE StateTypeOK' /\ CostsFit'
    <3> DEFINE v == record.version
    <3>1. /\ record.cost \in Nat /\ landed \in Nat /\ landed + 1 \in 0..MaxLanded
          /\ v \in Nat \ {0} /\ v + 1 \in 1..MaxVersion
          /\ record.cost <= MaxLanded * (v - 1) + landed
      BY <2>5 DEF PatchRun, Records, NoRecord
    <3>2. MaxLanded * v = MaxLanded * (v - 1) + MaxLanded
      BY <3>1, CostsGrow
    <3>3. /\ MaxLanded * (v - 1) \in Nat /\ MaxLanded * v \in Nat
          /\ MaxLanded * (v + 1) = MaxLanded * v + MaxLanded
          /\ MaxLanded * v <= MaxLanded * MaxVersion /\ MaxLanded * MaxVersion \in Nat
      BY <3>1, CostsGrow
    <3>4. /\ Patched \in Records
          /\ Patched.version \in {v, v + 1}
          /\ Patched.cost <= MaxLanded * (v - 1) + (landed + 1)
          /\ Patched.cost <= MaxLanded * v
      BY <3>1, <3>2, <3>3 DEF Patched, Records
    <3>5. /\ Patched.version \in Nat \ {0}
          /\ Patched.cost <= MaxLanded * (Patched.version - 1) + (landed + 1)
          /\ Patched.cost <= MaxLanded * Patched.version
      BY <3>1, <3>2, <3>3, <3>4 DEF Records
    <3> QED
      BY <2>5, <3>1, <3>4, <3>5 DEF PatchRun
  <2>6. CASE UNCHANGED stateVars
    BY <2>6 DEF stateVars
  <2> QED
    BY <2>1, <2>2, <2>3, <2>4, <2>5, <2>6 DEF StateNext
<1> QED
  BY <1>1, <1>2, PTL DEF StateSpec

\* What a durable store holds of a run nobody deleted, and every copy of it: a
\* copy of the version the record has is a copy of the record.
CopiesAreTrue ==
  stateStore # "memory" /\ ~deleted =>
    /\ record.cost = landed
    /\ record.version = 0 => landed = 0
    /\ \A w \in StateWorkers : copy[w] # Unread =>
         /\ copy[w].version <= record.version
         /\ copy[w].version = record.version => copy[w].cost = record.cost

\* No addition is taken back by a record that was read before it.
THEOREM AdditionsStay == StateSpec => []SpendAddsUp
<1>1. StateInit => CopiesAreTrue
  BY DEF StateInit, CopiesAreTrue, NoRecord
<1>2. /\ StateTypeOK /\ CostsFit /\ CopiesAreTrue
      /\ [StateNext]_stateVars
      => CopiesAreTrue'
  <2> SUFFICES ASSUME StateTypeOK, CostsFit, CopiesAreTrue, [StateNext]_stateVars,
                      stateStore' # "memory", ~deleted'
               PROVE  CopiesAreTrue'
    BY DEF CopiesAreTrue
  <2>0. stateStore # "memory" /\ ~deleted
    BY DEF StateTypeOK, StateNext, DeleteRun, GetRun, PutRun, Conflict, PatchRun, stateVars
  <2> USE StateAssumption, <2>0 DEF StateTypeOK, CostsFit, CopiesAreTrue
  <2>1. CASE DeleteRun
    BY <2>1 DEF DeleteRun
  <2>2. ASSUME NEW w \in StateWorkers, GetRun(w) \/ Conflict(w) PROVE CopiesAreTrue'
    BY <2>2 DEF GetRun, Conflict
  <2>3. ASSUME NEW w \in StateWorkers, PutRun(w) PROVE CopiesAreTrue'
    <3>1. copy[w].version = record.version /\ copy[w].cost = record.cost
      BY <2>3 DEF PutRun, Commits, NoRecord, Records
    <3> QED
      BY <2>3, <3>1 DEF PutRun, Written, Records, NoRecord
  <2>4. ASSUME NEW w \in StateWorkers, PatchRun(w) PROVE CopiesAreTrue'
    BY <2>4 DEF PatchRun, Patched, Records
  <2>5. CASE UNCHANGED stateVars
    BY <2>5 DEF stateVars
  <2> QED
    BY <2>1, <2>2, <2>3, <2>4, <2>5 DEF StateNext
<1>3. CopiesAreTrue => SpendAddsUp
  BY DEF CopiesAreTrue, SpendAddsUp
<1> QED
  BY <1>1, <1>2, <1>3, StateTyped, PTL DEF StateSpec

-----------------------------------------------------------------------------
(* The sessions of the state store.                                          *)

LEMMA SessionsTyped == SessionsSpec => []SessionsTypeOK
<1>1. SessionsInit => SessionsTypeOK
  BY DEF SessionsInit, SessionsTypeOK, NoSuchRun, NotDeleting, Joinable
<1>2. SessionsTypeOK /\ [SessionsNext]_sessionVars => SessionsTypeOK'
  <2> SUFFICES ASSUME SessionsTypeOK, [SessionsNext]_sessionVars PROVE SessionsTypeOK'
    OBVIOUS
  <2> USE DEF SessionsTypeOK
  <2>1. ASSUME NEW s \in SessionKeys, PutSession(s) \/ SessionExpires(s)
        PROVE  SessionsTypeOK'
    BY <2>1 DEF PutSession, SessionExpires, Joinable
  <2>2. ASSUME NEW s \in SessionKeys, NEW gone \in SUBSET SessionKeys,
               NEW runs \in SUBSET RunKeys, SessionEnds(s, gone, runs)
        PROVE  /\ sessions' \subseteq SessionKeys /\ ended' \subseteq SessionKeys
               /\ sessionRun' \in [RunKeys -> [is: {"absent", "live", "over"},
                                               of: SUBSET SessionKeys]]
               /\ \A k \in RunKeys : sessionRun'[k].of \in Joinable(k)
               /\ late' \subseteq RunKeys /\ moved' \subseteq RunKeys /\ misplaced' \subseteq RunKeys
    BY <2>2 DEF SessionEnds, NoSuchRun, Joinable
  <2>3. ASSUME NEW s \in SessionKeys, NEW cascade \in BOOLEAN, DeleteSession(s, cascade)
        PROVE  SessionsTypeOK'
    <3>1. (IF cascade THEN Listed(s) ELSE {}) \in SUBSET RunKeys
      <4>1. sessionStore \in {"memory", "redis", "postgres"}
        BY SessionsAssumption
      <4> QED
        BY <4>1 DEF Listed, OwnRuns
    <3> QED
      BY <2>2, <2>3, <3>1 DEF DeleteSession, Joinable
  <2>4. ASSUME NEW s \in SessionKeys, NEW d \in Deleters, NEW cascade \in BOOLEAN,
               BeginDelete(d, s, cascade)
        PROVE  SessionsTypeOK'
    BY <2>4 DEF BeginDelete, OwnRuns, Joinable
  <2>5. ASSUME NEW s \in SessionKeys, NEW d \in Deleters, EndDelete(d, s)
        PROVE  SessionsTypeOK'
    <3>1. ASSUME NEW runs, NEW gone
          PROVE  Unseen(runs, gone)
            \in [Deleters -> [of: SUBSET SessionKeys, cascade: BOOLEAN,
                             found: SUBSET SessionKeys, runs: SUBSET RunKeys, live: BOOLEAN]]
      <4>1. ASSUME NEW r \in [of: SUBSET SessionKeys, cascade: BOOLEAN,
                              found: SUBSET SessionKeys, runs: SUBSET RunKeys, live: BOOLEAN]
            PROVE  [r EXCEPT !.runs = @ \ runs, !.found = @ \ gone]
                     \in [of: SUBSET SessionKeys, cascade: BOOLEAN,
                          found: SUBSET SessionKeys, runs: SUBSET RunKeys, live: BOOLEAN]
        BY ZenonT(30)
      <4> QED
        BY Zenon, <4>1 DEF Unseen
    <3>2. PICK seen \in [Deleters -> [of: SUBSET SessionKeys, cascade: BOOLEAN,
                                      found: SUBSET SessionKeys, runs: SUBSET RunKeys,
                                      live: BOOLEAN]] :
            deletion' = [seen EXCEPT ![d] = NotDeleting]
      BY Zenon, <2>5, <3>1 DEF EndDelete
    <3>3. deletion' \in [Deleters -> [of: SUBSET SessionKeys, cascade: BOOLEAN,
                                      found: SUBSET SessionKeys, runs: SUBSET RunKeys,
                                      live: BOOLEAN]]
      BY <3>2 DEF NotDeleting
    <3>4. /\ deletion[d].found \in SUBSET SessionKeys
          /\ deletion[d].runs \cap OwnRuns(s) \in SUBSET RunKeys
          /\ SessionEnds(s, deletion[d].found, deletion[d].runs \cap OwnRuns(s))
          /\ sessionStore' = sessionStore /\ runIndex' = runIndex
      BY <2>5 DEF EndDelete
    <3> HIDE DEF SessionsTypeOK
    <3>5. sessionStore \in SessionStores /\ runIndex \in [SessionKeys -> SUBSET RunKeys]
      BY DEF SessionsTypeOK
    <3>6. /\ sessions' \subseteq SessionKeys /\ ended' \subseteq SessionKeys
          /\ sessionRun' \in [RunKeys -> [is: {"absent", "live", "over"},
                                          of: SUBSET SessionKeys]]
          /\ \A k \in RunKeys : sessionRun'[k].of \in Joinable(k)
          /\ late' \subseteq RunKeys /\ moved' \subseteq RunKeys /\ misplaced' \subseteq RunKeys
      BY <2>2, <3>4
    <3> QED
      BY Zenon, <3>3, <3>4, <3>5, <3>6 DEF SessionsTypeOK, Joinable
  <2>6. ASSUME NEW d \in Deleters, DeleteRefused(d) PROVE SessionsTypeOK'
    BY <2>6 DEF DeleteRefused, NotDeleting, Joinable
  <2>7. ASSUME NEW k \in RunKeys, DeleteRunOf(k) PROVE SessionsTypeOK'
    BY Zenon, <2>7 DEF DeleteRunOf, Unseen, NoSuchRun, Joinable
  <2>8. ASSUME NEW k \in RunKeys, NEW is \in {"live", "over"}, NEW of \in Joinable(k),
               PutRunOf(k, is, of)
        PROVE  SessionsTypeOK'
    BY <2>8 DEF PutRunOf, Indexed, Joinable
  <2>9. CASE UNCHANGED sessionVars
    BY <2>9 DEF sessionVars, Joinable
  <2> QED
    BY <2>1, <2>3, <2>4, <2>5, <2>6, <2>7, <2>8, <2>9 DEF SessionsNext
<1> QED
  BY <1>1, <1>2, PTL DEF SessionsSpec

\* The set Redis keeps beside a session lists runs of that session, or that were
\* moved, and every one of the session that is live.
IndexServes ==
  sessionStore = "redis" =>
    \A s \in SessionKeys, k \in RunKeys :
      /\ k \in runIndex[s] => sessionRun[k].of = {s} \/ k \in moved
      /\ sessionRun[k].of = {s} /\ sessionRun[k].is = "live" => k \in runIndex[s]

\* A statement of PostgreSQL that is under way has seen every run of its session
\* but those that came since.
StatementsSee ==
  \A d \in Deleters, s \in SessionKeys :
    s \in deletion[d].of =>
      /\ deletion[d].of = {s}
      /\ \A k \in RunKeys : sessionRun[k].of = {s} => k \in deletion[d].runs \cup late

NoStatement == sessionStore # "postgres" => \A d \in Deleters : deletion[d].of = {}

RunsAreKept ==
  /\ ended \cap sessions = {}
  /\ \A s \in ended : LiveOf(OwnRuns(s)) \subseteq late
  /\ sessionStore = "postgres" => misplaced = {}
  /\ sessionStore = "redis" => misplaced \subseteq moved
  /\ \A k \in RunKeys : sessionRun[k].is = "absent" => sessionRun[k] = NoSuchRun
  /\ IndexServes
  /\ StatementsSee
  /\ NoStatement

\* A deleted session leaves no live run, but those that came since, and takes none
\* but its own, or on Redis one that has moved.
THEOREM SessionsTake == SessionsSpec => []SessionsTakeTheirRuns
<1>1. SessionsInit => RunsAreKept
  BY DEF SessionsInit, RunsAreKept, IndexServes, StatementsSee, NoStatement, NotDeleting,
         LiveOf, OwnRuns, NoSuchRun
<1>2. SessionsTypeOK /\ RunsAreKept /\ [SessionsNext]_sessionVars => RunsAreKept'
  <2> SUFFICES ASSUME SessionsTypeOK, RunsAreKept, [SessionsNext]_sessionVars
               PROVE  RunsAreKept'
    OBVIOUS
  <2> USE DEF SessionsTypeOK, RunsAreKept, NoStatement, LiveOf, OwnRuns
  <2>0. sessionStore' = sessionStore /\ sessionStore \in {"memory", "redis", "postgres"}
    BY SessionsAssumption
    DEF SessionsNext, PutSession, SessionExpires, DeleteSession, BeginDelete, EndDelete,
        DeleteRefused, DeleteRunOf, PutRunOf, sessionVars
  <2>1. ASSUME NEW s \in SessionKeys, PutSession(s) PROVE RunsAreKept'
    <3>1. IndexServes'
      BY <2>1 DEF PutSession, IndexServes
    <3>2. StatementsSee'
      <4> SUFFICES ASSUME NEW d \in Deleters, NEW u \in SessionKeys, u \in deletion[d].of,
                          NEW k \in RunKeys, sessionRun[k].of = {u}, k \in late
                   PROVE  k \in late'
        BY <2>1 DEF PutSession, StatementsSee
      <4>1. u \in Going
        BY DEF Going
      <4> QED
        BY <2>1, <4>1 DEF PutSession
    <3> QED
      BY <2>1, <3>1, <3>2 DEF PutSession
  <2>2. ASSUME NEW s \in SessionKeys, SessionExpires(s) PROVE RunsAreKept'
    BY <2>2 DEF SessionExpires, IndexServes, StatementsSee
  <2>3. ASSUME NEW s \in SessionKeys, NEW cascade \in BOOLEAN, DeleteSession(s, cascade)
        PROVE  RunsAreKept'
    <3>1. LiveOf(OwnRuns(s)) \subseteq Listed(s)
      BY <2>0, <2>3 DEF DeleteSession, Listed, IndexServes, NoSuchRun
    <3>2. sessionStore = "redis" => Listed(s) \subseteq OwnRuns(s) \cup moved
      BY <2>0, <2>3 DEF Listed, IndexServes
    <3> DEFINE runs == IF cascade THEN Listed(s) ELSE {}
    <3>3. runs \subseteq RunKeys /\ LiveOf(OwnRuns(s)) \subseteq runs
      BY <2>0, <2>3, <3>1 DEF DeleteSession, Listed
    <3>4. \A k \in RunKeys : sessionRun'[k] = IF k \in runs THEN NoSuchRun ELSE sessionRun[k]
      BY <2>3 DEF DeleteSession, SessionEnds
    <3>5. IndexServes'
      <4> SUFFICES ASSUME sessionStore = "redis", NEW u \in SessionKeys, NEW k \in RunKeys
                   PROVE  /\ k \in runIndex'[u] => sessionRun'[k].of = {u} \/ k \in moved'
                          /\ sessionRun'[k].of = {u} /\ sessionRun'[k].is = "live"
                               => k \in runIndex'[u]
        BY <2>0 DEF IndexServes
      <4>1. runIndex'[u] = IF u = s THEN {} ELSE runIndex[u]
        BY <2>3 DEF DeleteSession
      <4>2. /\ k \in runIndex[u] => sessionRun[k].of = {u} \/ k \in moved
            /\ sessionRun[k].of = {u} /\ sessionRun[k].is = "live" => k \in runIndex[u]
        BY DEF IndexServes
      <4>3. moved' = moved /\ (k \in runs => sessionRun[k].of = {s} \/ k \in moved)
        BY <2>3, <3>2 DEF DeleteSession, SessionEnds
      <4>4. sessionRun[k].of = {s} /\ sessionRun[k].is = "live" => k \in runs
        BY <3>3
      <4>5. NoSuchRun.of = {}
        BY DEF NoSuchRun
      <4> QED
        BY <3>4, <4>1, <4>2, <4>3, <4>4, <4>5
    <3>6. StatementsSee'
      BY <2>0, <2>3, <3>4 DEF DeleteSession, StatementsSee, NotDeleting
    <3>7. ended' \cap sessions' = {}
      BY <2>3 DEF DeleteSession, SessionEnds
    <3>8. \A t \in ended' : LiveOf(OwnRuns(t))' \subseteq late'
      BY <2>3, <3>3, <3>4 DEF DeleteSession, SessionEnds, NoSuchRun
    <3>9. /\ sessionStore' = "postgres" => misplaced' = {}
          /\ sessionStore' = "redis" => misplaced' \subseteq moved'
      BY <2>0, <2>3, <3>2 DEF DeleteSession, SessionEnds
    <3> QED
      BY <2>3, <3>4, <3>5, <3>6, <3>7, <3>8, <3>9 DEF DeleteSession, NoSuchRun
  <2>4. ASSUME NEW s \in SessionKeys, NEW d \in Deleters, NEW cascade \in BOOLEAN,
               BeginDelete(d, s, cascade)
        PROVE  RunsAreKept'
    <3>1. StatementsSee'
      BY <2>0, <2>4 DEF BeginDelete, StatementsSee
    <3> QED
      BY <2>0, <2>4, <3>1 DEF BeginDelete, IndexServes
  <2>5. ASSUME NEW s \in SessionKeys, NEW d \in Deleters, EndDelete(d, s)
        PROVE  RunsAreKept'
    <3> DEFINE runs == deletion[d].runs \cap OwnRuns(s)
    <3>1. /\ sessionStore = "postgres" /\ runs \subseteq OwnRuns(s)
          /\ OwnRuns(s) \ runs \subseteq late
      BY <2>0, <2>5 DEF EndDelete, StatementsSee, NotDeleting
    <3>2. \A k \in RunKeys : sessionRun'[k] = IF k \in runs THEN NoSuchRun ELSE sessionRun[k]
      BY <2>5 DEF EndDelete, SessionEnds
    <3>3. late' = late \ runs
      BY <2>5 DEF EndDelete, SessionEnds
    <3>4. \A e \in Deleters : /\ deletion'[e].of \in {{}, deletion[e].of}
                              /\ deletion'[e].of # {} => deletion'[e].runs = deletion[e].runs \ runs
      BY Zenon, <2>5 DEF EndDelete, Unseen, NotDeleting
    <3>5. StatementsSee'
      <4> SUFFICES ASSUME NEW e \in Deleters, NEW u \in SessionKeys, u \in deletion'[e].of
                   PROVE  /\ deletion'[e].of = {u}
                          /\ \A j \in RunKeys :
                               sessionRun'[j].of = {u} => j \in deletion'[e].runs \cup late'
        BY DEF StatementsSee
      <4>1. /\ deletion[e].of = {u}
            /\ \A j \in RunKeys : sessionRun[j].of = {u} => j \in deletion[e].runs \cup late
        BY <3>4 DEF StatementsSee
      <4>2. NoSuchRun.of = {}
        BY DEF NoSuchRun
      <4> QED
        BY <3>2, <3>3, <3>4, <4>1, <4>2
    <3>6. ended' \cap sessions' = {}
      BY <2>5 DEF EndDelete, SessionEnds
    <3>7. \A t \in ended' : LiveOf(OwnRuns(t))' \subseteq late'
      BY <2>5, <3>1, <3>2, <3>3 DEF EndDelete, SessionEnds, NoSuchRun
    <3>8. misplaced' = misplaced
      BY <2>5, <3>1 DEF EndDelete, SessionEnds
    <3> QED
      BY <2>0, <3>1, <3>2, <3>5, <3>6, <3>7, <3>8 DEF NoSuchRun, IndexServes
  <2>6. ASSUME NEW d \in Deleters, DeleteRefused(d) PROVE RunsAreKept'
    <3>1. StatementsSee'
      BY <2>0, <2>6 DEF DeleteRefused, StatementsSee, NotDeleting
    <3> QED
      BY <2>0, <2>6, <3>1 DEF DeleteRefused, IndexServes, NotDeleting
  <2>7. ASSUME NEW k \in RunKeys, DeleteRunOf(k) PROVE RunsAreKept'
    <3>1. IndexServes'
      BY <2>0, <2>7 DEF DeleteRunOf, IndexServes, NoSuchRun
    <3>2. \A e \in Deleters : /\ deletion'[e].of = deletion[e].of
                              /\ deletion'[e].runs = deletion[e].runs \ {k}
      BY Zenon, <2>7 DEF DeleteRunOf, Unseen
    <3>4. StatementsSee'
      <4> SUFFICES ASSUME NEW e \in Deleters, NEW u \in SessionKeys, u \in deletion'[e].of
                   PROVE  /\ deletion'[e].of = {u}
                          /\ \A j \in RunKeys :
                               sessionRun'[j].of = {u} => j \in deletion'[e].runs \cup late'
        BY DEF StatementsSee
      <4>1. /\ deletion[e].of = {u}
            /\ \A j \in RunKeys : sessionRun[j].of = {u} => j \in deletion[e].runs \cup late
        BY <3>2 DEF StatementsSee
      <4>2. /\ late' = late \ {k} /\ sessionRun'[k].of = {}
            /\ \A j \in RunKeys \ {k} : sessionRun'[j] = sessionRun[j]
        BY <2>7 DEF DeleteRunOf, NoSuchRun
      <4> QED
        BY <3>2, <4>1, <4>2
    <3> QED
      BY <2>7, <3>1, <3>2, <3>4 DEF DeleteRunOf, NoSuchRun
  <2>8. ASSUME NEW k \in RunKeys, NEW is \in {"live", "over"}, NEW of \in Joinable(k),
               PutRunOf(k, is, of)
        PROVE  RunsAreKept'
    <3>1. /\ \A j \in RunKeys : j # k => sessionRun'[j] = sessionRun[j]
          /\ sessionRun'[k].is = is /\ sessionRun'[k].of = of
          /\ moved \subseteq moved' /\ (k \in moved' \/ sessionRun[k].of \subseteq of)
          /\ of = {} \/ \E s \in SessionKeys : of = {s}
      BY <2>8 DEF PutRunOf, Joinable
    <3>2. sessionStore = "redis" =>
            \A s \in SessionKeys : runIndex'[s] = IF of = {s} THEN runIndex[s] \cup {k}
                                                            ELSE runIndex[s]
      BY <2>8, <3>1 DEF PutRunOf, Indexed
    <3>3. IndexServes'
      <4> SUFFICES ASSUME sessionStore = "redis", NEW u \in SessionKeys, NEW j \in RunKeys
                   PROVE  /\ j \in runIndex'[u] => sessionRun'[j].of = {u} \/ j \in moved'
                          /\ sessionRun'[j].of = {u} /\ sessionRun'[j].is = "live"
                               => j \in runIndex'[u]
        BY <2>0 DEF IndexServes
      <4>1. /\ j \in runIndex[u] => sessionRun[j].of = {u} \/ j \in moved
            /\ sessionRun[j].of = {u} /\ sessionRun[j].is = "live" => j \in runIndex[u]
        BY DEF IndexServes
      <4>2. runIndex'[u] = IF of = {u} THEN runIndex[u] \cup {k} ELSE runIndex[u]
        BY <3>2
      <4>3. CASE j = k
        BY <3>1, <4>1, <4>2, <4>3
      <4>4. CASE j # k
        BY <3>1, <4>1, <4>2, <4>4
      <4> QED
        BY <4>3, <4>4
    <3>4. late' = IF of \subseteq sessions \ Going THEN late \ {k} ELSE late \cup {k}
      BY <2>8 DEF PutRunOf
    <3>5. StatementsSee'
      <4> SUFFICES ASSUME NEW e \in Deleters, NEW u \in SessionKeys, u \in deletion'[e].of
                   PROVE  /\ deletion'[e].of = {u}
                          /\ \A j \in RunKeys :
                               sessionRun'[j].of = {u} => j \in deletion'[e].runs \cup late'
        BY DEF StatementsSee
      <4>1. /\ deletion[e].of = {u}
            /\ \A j \in RunKeys : sessionRun[j].of = {u} => j \in deletion[e].runs \cup late
        BY <2>8 DEF StatementsSee, PutRunOf
      <4>2. u \in Going
        BY <4>1 DEF Going
      <4>3. deletion' = deletion
        BY <2>8 DEF PutRunOf
      <4>4. ASSUME NEW j \in RunKeys
            PROVE  sessionRun'[j].of = {u} => j \in deletion[e].runs \cup late'
        BY <3>1, <3>4, <4>1, <4>2
      <4> QED
        BY <4>1, <4>3, <4>4
    <3> QED
      BY <2>0, <2>8, <3>1, <3>3, <3>4, <3>5 DEF PutRunOf
  <2>9. CASE UNCHANGED sessionVars
    BY <2>9 DEF sessionVars, IndexServes, StatementsSee
  <2> QED
    BY <2>1, <2>2, <2>3, <2>4, <2>5, <2>6, <2>7, <2>8, <2>9 DEF SessionsNext
<1>3. RunsAreKept => SessionsTakeTheirRuns
  BY DEF RunsAreKept, SessionsTakeTheirRuns
<1> QED
  BY <1>1, <1>2, <1>3, SessionsTyped, PTL DEF SessionsSpec

-----------------------------------------------------------------------------
(* Spend ledgers.                                                            *)

\* A hold that is kept, the charge, and what the run got through: while the hold is
\* open nothing is charged, and once it is closed what was told is what is charged,
\* unless the hold went with the hash it was in.
Agrees(entered, charge, said, gone) ==
  /\ charge.times <= 1
  /\ charge.times = 0 => charge.amount = 0
  /\ entered.open => charge.times = 0 /\ said = entered.progress
  /\ ~entered.open => charge.amount = said \/ (charge.times = 0 /\ gone)

BooksAgree ==
  \A r \in Payers :
    /\ Agrees(held[r], charged[r], told[r], Forgettable(r))
    /\ payer[r].step \in {"new", "asking"} => ~held[r].open /\ charged[r].times = 0 /\ told[r] = 0
    /\ held[r].open => held[r].amount = payer[r].amount
    /\ payer[r].at <= ledgerTime
    /\ payer[r].step = "asking" => ledgerStore = "postgres"
    /\ held[r].open /\ ledgerStore = "redis" => payer[r].at + 2 * WindowLength <= heldUntil

Holds == [open: BOOLEAN, amount: Nat, expires: Nat, progress: Nat]
Charges == [times: Nat, amount: Nat, at: Nat]
Reservations == [step: {"new", "asking", "spending", "done"}, amount: Amounts \cup {0},
                 lease: HoldLeases \cup {0}, at: Nat]

LEMMA AskedAreNumbers ==
  /\ Amounts \cup {0} \subseteq Nat
  /\ HoldLeases \cup {0} \subseteq Nat
  /\ \A who \in Reservations : who.amount \in Nat /\ who.lease \in Nat /\ who.at \in Nat
<1>1. Amounts \subseteq Nat /\ HoldLeases \subseteq Nat /\ 0 \in Nat
  BY LedgerAssumption
<1>2. Amounts \cup {0} \subseteq Nat /\ HoldLeases \cup {0} \subseteq Nat
  BY <1>1
<1>3. ASSUME NEW who \in Reservations PROVE who.amount \in Nat /\ who.lease \in Nat /\ who.at \in Nat
  <2>1. who.amount \in Amounts \cup {0} /\ who.lease \in HoldLeases \cup {0} /\ who.at \in Nat
    BY DEF Reservations
  <2> QED
    BY <1>2, <2>1
<1> QED
  BY <1>2, <1>3

LEMMA LedgerTypes ==
  ASSUME LedgerTypeOK
  PROVE  /\ held \in [Payers -> Holds] /\ charged \in [Payers -> Charges]
         /\ payer \in [Payers -> Reservations] /\ told \in [Payers -> Nat]
         /\ ledgerTime \in Nat /\ heldUntil \in Nat /\ ledgerStore \in LedgerStores
         /\ WindowLength \in Nat /\ Ceiling \in Nat
         /\ \A r \in Payers : payer[r].amount \in Nat /\ payer[r].lease \in Nat
<1>1. /\ held \in [Payers -> Holds] /\ charged \in [Payers -> Charges]
      /\ payer \in [Payers -> Reservations] /\ told \in [Payers -> Nat]
      /\ ledgerTime \in Nat /\ heldUntil \in Nat /\ ledgerStore \in LedgerStores
      /\ WindowLength \in Nat /\ Ceiling \in Nat
  BY LedgerAssumption DEF LedgerTypeOK, Holds, Charges, Reservations
<1> QED
  BY <1>1, AskedAreNumbers

LEMMA Settling ==
  ASSUME LedgerTypeOK, NEW r \in Payers, held[r].open,
         Agrees(held[r], charged[r], told[r], Forgettable(r)), NEW n \in Nat
  PROVE  ChargeOf(r, n) \in Charges /\ ChargeOf(r, n).times = 1 /\ ChargeOf(r, n).amount = n
<1>1. charged[r].times = 0 /\ charged[r].amount = 0
  BY DEF Agrees
<1>2. payer[r].at \in Nat /\ ledgerTime \in Nat
  BY LedgerTypes DEF Reservations
<1> QED
  BY <1>1, <1>2 DEF ChargeOf, Charges

\* A sweep, however late, keeps every book in order.
LEMMA Sweeping ==
  ASSUME LedgerTypeOK, BooksAgree
  PROVE  /\ SweptHolds \in [Payers -> Holds]
         /\ SweptCharges \in [Payers -> Charges]
         /\ \A r \in Payers : /\ Agrees(SweptHolds[r], SweptCharges[r], told[r], Forgettable(r))
                              /\ ~held[r].open => /\ SweptHolds[r] = held[r]
                                                  /\ SweptCharges[r] = charged[r]
                              /\ SweptHolds[r].open => SweptHolds[r] = held[r]
                              /\ r \notin Lapsed => /\ SweptHolds[r] = held[r]
                                                    /\ SweptCharges[r] = charged[r]
<1> SUFFICES ASSUME NEW r \in Payers
             PROVE  /\ SweptHolds[r] \in Holds /\ SweptCharges[r] \in Charges
                    /\ Agrees(SweptHolds[r], SweptCharges[r], told[r], Forgettable(r))
                    /\ ~held[r].open => /\ SweptHolds[r] = held[r]
                                        /\ SweptCharges[r] = charged[r]
                    /\ SweptHolds[r].open => SweptHolds[r] = held[r]
                    /\ r \notin Lapsed => /\ SweptHolds[r] = held[r]
                                          /\ SweptCharges[r] = charged[r]
  BY DEF SweptHolds, SweptCharges
<1>1. /\ held[r] \in Holds /\ charged[r] \in Charges
      /\ Agrees(held[r], charged[r], told[r], Forgettable(r))
  BY LedgerTypes DEF BooksAgree
<1>2. CASE r \in Lapsed
  <2>1. held[r].open /\ SweptHolds[r] = NoHeld
    BY <1>2 DEF SweptHolds, Lapsed, Open
  <2>2. NoHeld \in Holds /\ ~NoHeld.open
    BY DEF NoHeld, Holds
  <2>3. CASE held[r].progress > 0
    <3>1. SweptCharges[r] = ChargeOf(r, held[r].progress)
      BY <1>2, <2>3 DEF SweptCharges
    <3>2. held[r].progress \in Nat
      BY <1>1 DEF Holds
    <3>3. /\ SweptCharges[r] \in Charges /\ SweptCharges[r].times = 1
          /\ SweptCharges[r].amount = held[r].progress
      BY <1>1, <2>1, <3>1, <3>2, Settling
    <3> QED
      BY <1>1, <1>2, <2>1, <2>2, <3>3 DEF Agrees
  <2>4. CASE ~(held[r].progress > 0)
    <3>1. SweptCharges[r] = charged[r]
      BY <1>2, <2>4 DEF SweptCharges
    <3>2. held[r].progress = 0
      BY <1>1, <2>4 DEF Holds
    <3> QED
      BY <1>1, <1>2, <2>1, <2>2, <3>1, <3>2 DEF Agrees
  <2> QED
    BY <2>3, <2>4
<1>3. CASE r \notin Lapsed
  BY <1>1, <1>3 DEF SweptHolds, SweptCharges
<1> QED
  BY <1>2, <1>3

LEMMA BooksKept == LedgerSpec => [](LedgerTypeOK /\ BooksAgree)
<1>1. LedgerInit => LedgerTypeOK /\ BooksAgree
  BY LedgerAssumption DEF LedgerInit, LedgerTypeOK, BooksAgree, Agrees, NoHeld, NoCharge, NoPayer
<1>2. LedgerTypeOK /\ BooksAgree /\ [LedgerNext]_ledgerVars => LedgerTypeOK' /\ BooksAgree'
  <2> SUFFICES ASSUME LedgerTypeOK, BooksAgree, [LedgerNext]_ledgerVars
               PROVE  LedgerTypeOK' /\ BooksAgree'
    OBVIOUS
  <2>0. /\ held \in [Payers -> Holds] /\ charged \in [Payers -> Charges]
        /\ payer \in [Payers -> Reservations] /\ told \in [Payers -> Nat]
        /\ ledgerTime \in Nat /\ heldUntil \in Nat /\ ledgerStore \in LedgerStores
        /\ WindowLength \in Nat
        /\ \A r \in Payers : payer[r].amount \in Nat /\ payer[r].lease \in Nat
    BY LedgerTypes
  <2>a. ledgerTime \in 0..LedgerHorizon
    BY DEF LedgerTypeOK
  <2>b. /\ SweptHolds \in [Payers -> Holds] /\ SweptCharges \in [Payers -> Charges]
        /\ \A r \in Payers : /\ Agrees(SweptHolds[r], SweptCharges[r], told[r], Forgettable(r))
                             /\ ~held[r].open => /\ SweptHolds[r] = held[r]
                                                 /\ SweptCharges[r] = charged[r]
                             /\ SweptHolds[r].open => SweptHolds[r] = held[r]
                             /\ r \notin Lapsed => /\ SweptHolds[r] = held[r]
                                                   /\ SweptCharges[r] = charged[r]
    BY Sweeping
  \* A step that keeps the types and the time, and every book in order.
  <2>c. ASSUME held' \in [Payers -> Holds], charged' \in [Payers -> Charges],
               payer' \in [Payers -> Reservations], told' \in [Payers -> Nat], heldUntil' \in Nat,
               ledgerTime' = ledgerTime, ledgerStore' = ledgerStore
        PROVE  LedgerTypeOK'
    BY <2>a, <2>c, <2>0 DEF LedgerTypeOK, Holds, Charges, Reservations
  <2>d. ASSUME NEW r \in Payers, ledgerTime' = ledgerTime, ledgerStore' = ledgerStore,
               payer'[r].at = payer[r].at
        PROVE  Forgettable(r)' <=> Forgettable(r)
    BY <2>d DEF Forgettable
  <2>10. ASSUME NEW r \in Payers, NEW amount \in Amounts \cup {0}, NEW lease \in HoldLeases \cup {0},
                payer[r].step \in {"new", "asking"}, payer'[r].step = "spending",
                held' = Taking(SweptHolds, r, amount, lease), charged' = SweptCharges, told' = told,
                payer' \in [Payers -> Reservations],
                \A p \in Payers \ {r} : payer'[p] = payer[p],
                payer'[r].amount = amount, payer'[r].at <= ledgerTime,
                heldUntil' \in Nat, ledgerTime' = ledgerTime, ledgerStore' = ledgerStore,
                ledgerStore = "redis" => heldUntil' = ledgerTime + 2 * WindowLength
         PROVE  LedgerTypeOK' /\ BooksAgree'
    <3> DEFINE taken == [open |-> TRUE, amount |-> amount, expires |-> ledgerTime + lease,
                         progress |-> 0]
    <3>0. amount \in Nat /\ lease \in Nat
      BY AskedAreNumbers
    <3>1. taken \in Holds /\ held' = [SweptHolds EXCEPT ![r] = taken]
      BY <2>0, <2>10, <3>0 DEF Taking, Holds
    <3>2. taken.open /\ taken.amount = amount /\ taken.progress = 0
      OBVIOUS
    <3> HIDE DEF taken
    <3>3. SweptCharges[r].times = 0 /\ told[r] = 0
      BY <2>b, <2>10 DEF BooksAgree
    <3>4. Agrees(taken, SweptCharges[r], told[r], Forgettable(r)')
      BY <2>b, <3>2, <3>3 DEF Agrees
    <3>5. held' \in [Payers -> Holds] /\ charged' \in [Payers -> Charges]
      BY <2>b, <2>10, <3>1
    <3>6. LedgerTypeOK'
      BY <2>0, <2>c, <2>10, <3>5
    <3>7. ASSUME NEW p \in Payers
          PROVE  /\ Agrees(held[p], charged[p], told[p], Forgettable(p))'
                 /\ payer'[p].step \in {"new", "asking"} =>
                      ~held'[p].open /\ charged'[p].times = 0 /\ told'[p] = 0
                 /\ held'[p].open => held'[p].amount = payer'[p].amount
                 /\ payer'[p].at <= ledgerTime'
                 /\ payer'[p].step = "asking" => ledgerStore' = "postgres"
                 /\ held'[p].open /\ ledgerStore' = "redis" =>
                      payer'[p].at + 2 * WindowLength <= heldUntil'
      <4>1. payer'[p].at \in Nat /\ payer'[p].at <= ledgerTime'
        <5>1. payer'[p] \in Reservations
          BY <2>10
        <5> QED
          BY <2>10, <5>1 DEF BooksAgree, Reservations
      <4>2. ledgerStore' = "redis" => payer'[p].at + 2 * WindowLength <= heldUntil'
        BY <2>0, <2>10, <4>1
      <4>3. CASE p = r
        BY <2>10, <3>1, <3>2, <3>4, <2>b, <4>1, <4>2, <4>3
      <4>4. CASE p # r
        <5>1. held'[p] = SweptHolds[p] /\ charged'[p] = SweptCharges[p] /\ payer'[p] = payer[p]
          BY <2>b, <2>10, <3>1, <4>4
        <5>2. Agrees(held[p], charged[p], told[p], Forgettable(p))'
          BY <2>b, <2>d, <2>10, <5>1 DEF Agrees
        <5>3. payer[p].step \in {"new", "asking"} =>
                ~SweptHolds[p].open /\ SweptCharges[p].times = 0 /\ told[p] = 0
          BY <2>b DEF BooksAgree
        <5>4. SweptHolds[p].open => SweptHolds[p].amount = payer[p].amount
          BY <2>b DEF BooksAgree
        <5>5. payer[p].step = "asking" => ledgerStore = "postgres"
          BY DEF BooksAgree
        <5> QED
          BY <2>10, <4>1, <4>2, <5>1, <5>2, <5>3, <5>4, <5>5
      <4> QED
        BY <4>3, <4>4
    <3> QED
      BY <3>6, <3>7 DEF BooksAgree
  \* A step that closes holds, or leaves them as they are.
  <2>11. ASSUME ledgerTime' = ledgerTime, ledgerStore' = ledgerStore, heldUntil' = heldUntil,
                held' \in [Payers -> Holds], charged' \in [Payers -> Charges],
                told' \in [Payers -> Nat], payer' \in [Payers -> Reservations],
                \A p \in Payers :
                  /\ Agrees(held'[p], charged'[p], told'[p], Forgettable(p))
                  /\ payer'[p].at = payer[p].at
                  /\ held'[p].open => /\ held[p].open /\ held'[p].amount = held[p].amount
                                      /\ payer'[p].amount = payer[p].amount
                  /\ payer'[p].step \in {"new", "asking"} =>
                       /\ payer'[p].step = payer[p].step
                       /\ ~held'[p].open /\ charged'[p].times = 0 /\ told'[p] = 0
         PROVE  LedgerTypeOK' /\ BooksAgree'
    <3>1. LedgerTypeOK'
      BY <2>0, <2>c, <2>11
    <3>2. ASSUME NEW p \in Payers
          PROVE  /\ Agrees(held[p], charged[p], told[p], Forgettable(p))'
                 /\ payer'[p].step \in {"new", "asking"} =>
                      ~held'[p].open /\ charged'[p].times = 0 /\ told'[p] = 0
                 /\ held'[p].open => held'[p].amount = payer'[p].amount
                 /\ payer'[p].at <= ledgerTime'
                 /\ payer'[p].step = "asking" => ledgerStore' = "postgres"
                 /\ held'[p].open /\ ledgerStore' = "redis" =>
                      payer'[p].at + 2 * WindowLength <= heldUntil'
      <4>1. Agrees(held[p], charged[p], told[p], Forgettable(p))'
        BY <2>d, <2>11 DEF Agrees
      <4> QED
        BY <2>11, <4>1 DEF BooksAgree
    <3> QED
      BY <3>1, <3>2 DEF BooksAgree
  <2>12. \A p \in Payers : /\ SweptHolds[p].open => held[p].open /\ SweptHolds[p].amount = held[p].amount
                           /\ payer[p].step \in {"new", "asking"} =>
                                ~SweptHolds[p].open /\ SweptCharges[p].times = 0 /\ told[p] = 0
    BY <2>b DEF BooksAgree
  <2>1. ASSUME NEW r \in Payers, NEW amount \in Amounts, NEW lease \in HoldLeases,
               LedgerReserve(r, amount, lease)
        PROVE  LedgerTypeOK' /\ BooksAgree'
    <3>0. /\ charged' = SweptCharges /\ told' = told /\ payer[r].step = "new"
          /\ ledgerTime' = ledgerTime /\ ledgerStore' = ledgerStore
      BY <2>1 DEF LedgerReserve
    <3>1. CASE held' = SweptHolds /\ payer' = payer /\ heldUntil' = heldUntil
      BY <2>0, <2>b, <2>11, <2>12, <3>0, <3>1
    <3>2. CASE /\ held' = Taking(SweptHolds, r, amount, lease)
               /\ heldUntil' = ledgerTime + 2 * WindowLength
               /\ payer' = [payer EXCEPT ![r] = Reservation("spending", amount, lease)]
      <4>1. /\ Reservation("spending", amount, lease) \in Reservations
            /\ Reservation("spending", amount, lease).step = "spending"
            /\ Reservation("spending", amount, lease).amount = amount
            /\ Reservation("spending", amount, lease).at = ledgerTime
        BY <2>0 DEF Reservation, Reservations
      <4>2. /\ payer' \in [Payers -> Reservations]
            /\ \A p \in Payers \ {r} : payer'[p] = payer[p]
            /\ payer'[r] = Reservation("spending", amount, lease)
        BY <2>0, <3>2, <4>1
      <4> QED
        BY <2>0, <2>10, <3>0, <3>2, <4>1, <4>2
    <3> QED
      BY <2>1, <3>1, <3>2 DEF LedgerReserve
  <2>2. ASSUME NEW r \in Payers, NEW amount \in Amounts, NEW lease \in HoldLeases,
               AskPostgres(r, amount, lease)
        PROVE  LedgerTypeOK' /\ BooksAgree'
    <3>1. /\ Reservation("asking", amount, lease) \in Reservations
          /\ Reservation("asking", amount, lease).step = "asking"
          /\ Reservation("asking", amount, lease).at = ledgerTime
      BY <2>0 DEF Reservation, Reservations
    <3>2. /\ payer' \in [Payers -> Reservations]
          /\ \A p \in Payers \ {r} : payer'[p] = payer[p]
          /\ payer'[r] = Reservation("asking", amount, lease)
          /\ payer[r].step = "new" /\ ledgerStore = "postgres"
          /\ UNCHANGED <<ledgerStore, ledgerTime, held, heldUntil, charged, told>>
      BY <2>0, <2>2, <3>1 DEF AskPostgres
    <3>3. LedgerTypeOK'
      BY <2>0, <2>c, <3>2
    <3>4. ASSUME NEW p \in Payers
          PROVE  /\ Agrees(held[p], charged[p], told[p], Forgettable(p))'
                 /\ payer'[p].step \in {"new", "asking"} =>
                      ~held'[p].open /\ charged'[p].times = 0 /\ told'[p] = 0
                 /\ held'[p].open => held'[p].amount = payer'[p].amount
                 /\ payer'[p].at <= ledgerTime'
                 /\ payer'[p].step = "asking" => ledgerStore' = "postgres"
      <4>1. CASE p = r
        <5>1. ~held[r].open /\ charged[r].times = 0 /\ told[r] = 0 /\ charged[r].amount = 0
          BY <3>2 DEF BooksAgree, Agrees
        <5> QED
          BY <2>0, <3>1, <3>2, <4>1, <5>1 DEF Agrees
      <4>2. CASE p # r
        BY <2>d, <3>2, <4>2 DEF BooksAgree, Agrees
      <4> QED
        BY <4>1, <4>2
    <3> QED
      BY <3>2, <3>3, <3>4 DEF BooksAgree
  <2>3. ASSUME NEW r \in Payers, LandPostgres(r) PROVE LedgerTypeOK' /\ BooksAgree'
    <3>1. /\ payer[r].step = "asking" /\ payer[r] \in Reservations
          /\ held' = Taking(SweptHolds, r, payer[r].amount, payer[r].lease)
          /\ charged' = SweptCharges /\ payer' = [payer EXCEPT ![r].step = "spending"]
          /\ UNCHANGED <<ledgerStore, ledgerTime, heldUntil, told>>
      BY <2>0, <2>3 DEF LandPostgres
    <3>2. /\ payer[r].amount \in Amounts \cup {0} /\ payer[r].lease \in HoldLeases \cup {0}
      BY <3>1 DEF Reservations
    <3>3. /\ payer' \in [Payers -> Reservations]
          /\ \A p \in Payers \ {r} : payer'[p] = payer[p]
          /\ payer'[r].step = "spending" /\ payer'[r].amount = payer[r].amount
          /\ payer'[r].at = payer[r].at
      BY <2>0, <3>1 DEF Reservations
    <3>4. ledgerStore # "redis" /\ payer[r].at <= ledgerTime
      BY <3>1 DEF BooksAgree
    <3> QED
      BY <2>0, <2>10, <3>1, <3>2, <3>3, <3>4
  <2>4. ASSUME NEW r \in Payers, PayerDies(r) PROVE LedgerTypeOK' /\ BooksAgree'
    <3>1. /\ payer' = [payer EXCEPT ![r].step = "done"]
          /\ UNCHANGED <<ledgerStore, ledgerTime, held, heldUntil, charged, told>>
      BY <2>4 DEF PayerDies
    <3>2. /\ payer' \in [Payers -> Reservations]
          /\ \A p \in Payers : /\ payer'[p].step \in {payer[p].step, "done"}
                               /\ payer'[p].at = payer[p].at /\ payer'[p].amount = payer[p].amount
      BY <2>0, <3>1 DEF Reservations
    <3> QED
      BY <2>0, <2>11, <3>1, <3>2 DEF BooksAgree
  <2>5. ASSUME NEW r \in Payers, NEW spent \in 0..MaxCharge, LedgerProgress(r, spent)
        PROVE  LedgerTypeOK' /\ BooksAgree'
    <3>0. spent \in Nat
      BY LedgerAssumption
    <3>1. /\ held[r].open /\ payer[r].step = "spending"
          /\ held' = [held EXCEPT ![r].progress = spent] /\ told' = [told EXCEPT ![r] = spent]
          /\ UNCHANGED <<ledgerStore, ledgerTime, heldUntil, charged, payer>>
      BY <2>5 DEF LedgerProgress
    <3>2. /\ held' \in [Payers -> Holds] /\ told' \in [Payers -> Nat]
          /\ \A p \in Payers : held'[p].open = held[p].open /\ held'[p].amount = held[p].amount
      BY <2>0, <3>0, <3>1 DEF Holds
    <3>3. /\ held'[r].progress = spent /\ told'[r] = spent
          /\ \A p \in Payers \ {r} : held'[p] = held[p] /\ told'[p] = told[p]
      BY <2>0, <3>1 DEF Holds
    <3>4. \A p \in Payers : Agrees(held'[p], charged'[p], told'[p], Forgettable(p))
      BY <3>1, <3>2, <3>3 DEF BooksAgree, Agrees
    <3>5. \A p \in Payers : payer'[p].step \in {"new", "asking"} =>
                              ~held'[p].open /\ charged'[p].times = 0 /\ told'[p] = 0
      BY <3>1, <3>2, <3>3 DEF BooksAgree
    <3> QED
      BY <2>0, <2>11, <3>1, <3>2, <3>4, <3>5
  <2>6. ASSUME NEW r \in Payers, NEW spent \in 0..MaxCharge, LedgerSettle(r, spent)
        PROVE  LedgerTypeOK' /\ BooksAgree'
    <3>0. /\ BookHolds \in [Payers -> Holds] /\ BookCharges \in [Payers -> Charges]
          /\ \A p \in Payers :
               /\ Agrees(BookHolds[p], BookCharges[p], told[p], Forgettable(p))
               /\ BookHolds[p].open => held[p].open /\ BookHolds[p].amount = held[p].amount
               /\ payer[p].step \in {"new", "asking"} =>
                    ~BookHolds[p].open /\ BookCharges[p].times = 0 /\ told[p] = 0
      BY <2>0, <2>b, <2>12 DEF BookHolds, BookCharges, BooksAgree
    <3>a. /\ UNCHANGED <<ledgerStore, ledgerTime, heldUntil>> /\ payer[r].step = "spending"
          /\ payer' \in {payer, [payer EXCEPT ![r].step = "done"]}
      BY <2>6 DEF LedgerSettle
    <3>b. /\ payer' \in [Payers -> Reservations]
          /\ \A p \in Payers : /\ payer'[p].step \in {payer[p].step, "done"}
                               /\ payer'[p].at = payer[p].at /\ payer'[p].amount = payer[p].amount
      BY <2>0, <3>a DEF Reservations
    <3>1. CASE Closable(r)
      <4>1. held[r].open /\ BookHolds[r] = held[r] /\ BookCharges[r] = charged[r]
        BY <2>b, <3>1 DEF Closable, BookHolds, BookCharges
      <4>2. spent \in Nat
        BY LedgerAssumption
      <4>3. /\ ChargeOf(r, spent) \in Charges
            /\ ChargeOf(r, spent).times = 1 /\ ChargeOf(r, spent).amount = spent
        BY <4>1, <4>2, Settling DEF BooksAgree
      <4>4. /\ held' = [BookHolds EXCEPT ![r] = NoHeld] /\ told' = [told EXCEPT ![r] = spent]
            /\ charged' = IF spent = 0 THEN BookCharges
                          ELSE [BookCharges EXCEPT ![r] = ChargeOf(r, spent)]
        BY <2>6, <3>1 DEF LedgerSettle
      <4>5. NoHeld \in Holds /\ ~NoHeld.open
        BY DEF NoHeld, Holds
      <4>6. /\ held' \in [Payers -> Holds] /\ charged' \in [Payers -> Charges]
            /\ told' \in [Payers -> Nat]
        BY <2>0, <3>0, <4>2, <4>3, <4>4, <4>5
      <4>7. Agrees(NoHeld, charged'[r], spent, Forgettable(r))
        BY <3>0, <4>1, <4>3, <4>4, <4>5 DEF Agrees
      <4>8. ASSUME NEW p \in Payers
            PROVE  /\ Agrees(held'[p], charged'[p], told'[p], Forgettable(p))
                   /\ held'[p].open => held[p].open /\ held'[p].amount = held[p].amount
                   /\ payer'[p].step \in {"new", "asking"} =>
                        ~held'[p].open /\ charged'[p].times = 0 /\ told'[p] = 0
        <5>1. CASE p = r
          BY <2>0, <3>a, <3>b, <3>0, <4>4, <4>5, <4>7, <5>1
        <5>2. CASE p # r
          BY <2>0, <3>0, <3>b, <4>4, <5>2
        <5> QED
          BY <5>1, <5>2
      <4>9. \A p \in Payers : payer'[p].step \in {"new", "asking"} => payer'[p].step = payer[p].step
        BY <3>b
      <4> QED
        BY <2>11, <3>a, <3>b, <4>6, <4>8, <4>9
    <3>2. CASE ~Closable(r)
      <4>1. held' = BookHolds /\ charged' = BookCharges /\ told' = told
        BY <2>6, <3>2 DEF LedgerSettle
      <4>2. \A p \in Payers : payer'[p].step \in {"new", "asking"} => payer'[p].step = payer[p].step
        BY <3>b
      <4> QED
        BY <2>0, <2>11, <3>0, <3>a, <3>b, <4>1, <4>2
    <3> QED
      BY <3>1, <3>2
  <2>7. CASE Reconcile
    BY <2>0, <2>7, <2>b, <2>11, <2>12 DEF Reconcile
  <2>8. CASE LedgerTick
    <3>1. /\ ledgerTime' = ledgerTime + 1 /\ ledgerTime < LedgerHorizon
          /\ held' = IF ledgerStore = "redis" /\ heldUntil <= ledgerTime'
                     THEN [r \in Payers |-> NoHeld] ELSE held
          /\ UNCHANGED <<ledgerStore, heldUntil, charged, payer, told>>
      BY <2>8 DEF LedgerTick
    <3>2. NoHeld \in Holds /\ ~NoHeld.open
      BY DEF NoHeld, Holds
    <3>3. held' \in [Payers -> Holds]
      BY <2>0, <3>1, <3>2
    <3>4. LedgerTypeOK'
      BY <2>0, <2>a, <3>1, <3>3, LedgerAssumption DEF LedgerTypeOK, Holds, Charges, Reservations
    <3>5. ASSUME NEW p \in Payers
          PROVE  /\ Agrees(held[p], charged[p], told[p], Forgettable(p))'
                 /\ held'[p].open => held'[p] = held[p]
                 /\ payer[p].at \in Nat
      <4>1. payer[p].at \in Nat
        BY <2>0 DEF Reservations
      <4>2. Forgettable(p) => Forgettable(p)'
        BY <2>0, <3>1, <4>1 DEF Forgettable
      <4>3. CASE held'[p] = held[p]
        BY <3>1, <4>1, <4>2, <4>3 DEF BooksAgree, Agrees
      <4>4. CASE held'[p] # held[p]
        <5>1. held'[p] = NoHeld /\ ledgerStore = "redis" /\ heldUntil <= ledgerTime'
          BY <3>1, <4>4
        <5>2. CASE held[p].open
          <6>1. Forgettable(p)'
            BY <2>0, <3>1, <4>1, <5>1, <5>2 DEF BooksAgree, Forgettable
          <6>2. charged[p].times = 0 /\ charged[p].times <= 1 /\ charged[p].amount = 0
            BY <5>2 DEF BooksAgree, Agrees
          <6> QED
            BY <3>1, <3>2, <4>1, <5>1, <6>1, <6>2 DEF Agrees
        <5>3. CASE ~held[p].open
          BY <3>1, <3>2, <4>1, <4>2, <5>1, <5>3 DEF BooksAgree, Agrees
        <5> QED
          BY <5>2, <5>3
      <4> QED
        BY <4>3, <4>4
    <3> QED
      BY <2>0, <3>1, <3>4, <3>5 DEF BooksAgree
  <2>9. CASE UNCHANGED ledgerVars
    BY <2>9 DEF ledgerVars, LedgerTypeOK, BooksAgree, Forgettable
  <2> QED
    BY <2>1, <2>2, <2>3, <2>4, <2>5, <2>6, <2>7, <2>8, <2>9 DEF LedgerNext
<1> QED
  BY <1>1, <1>2, PTL DEF LedgerSpec

\* What is charged of a closed hold is what its run got through, once, but for what
\* Redis has forgotten.
THEOREM ChargesAreAsTold == LedgerSpec => []ChargedAsTold
<1>1. BooksAgree => ChargedAsTold
  BY DEF BooksAgree, Agrees, ChargedAsTold
<1> QED
  BY <1>1, BooksKept, PTL

-----------------------------------------------------------------------------
(* The ceiling.  A sum of amounts is the number of the units they are made   *)
(* of, so that what the library proves of finite sets holds of sums.         *)

SumOf(c, S) == MapThenSumSet(LAMBDA r : c[r].amount, S)

\* What MapThenSumSet computes.
LEMMA AmountsCountUnits ==
  ASSUME NEW S, NEW f \in [S -> Nat], IsFiniteSet(S), NEW c, \A x \in S : c[x].amount = f[x]
  PROVE  SumOf(c, S) = Cardinality(Units(f, S))
<1> DEFINE Adding(g) ==
             [T \in SUBSET S |-> IF T = {} THEN 0 ELSE c[Whatever(T)].amount + g[T \ {Whatever(T)}]]
           sum == CHOOSE g : g = Adding(g)
<1>1. \A T \in SUBSET S : T # {} => Whatever(T) \in S /\ c[Whatever(T)].amount = f[Whatever(T)]
  BY DEF Whatever
<1>2. \A g : Adding(g) = Summing(f, S, g)
  BY <1>1 DEF Summing
<1> HIDE DEF Adding
<1>3. \E g : g = Adding(g)
  BY <1>2, SumsCountUnits
<1>4. sum = Adding(sum)
  BY <1>3
<1>5. sum[S] = Cardinality(Units(f, S))
  BY <1>2, <1>4, SumsCountUnits
<1>6. SumOf(c, S) = sum[S]
  BY DEF SumOf, MapThenSumSet, MapThenFoldSet, Adding, Whatever
<1> QED
  BY <1>5, <1>6

\* What each run commits: what it holds, or else what is charged to it in the window.
CountedAt(now, charges) ==
  {r \in Payers : charges[r].times > 0 /\ charges[r].at >= now - WindowLength}

Share(now, holds, charges) ==
  [r \in Payers |-> IF holds[r].open THEN holds[r].amount
                    ELSE IF r \in CountedAt(now, charges) THEN charges[r].amount ELSE 0]

Weight(now, holds, charges) == Cardinality(Units(Share(now, holds, charges), Payers))

LEMMA SharesAddUp ==
  ASSUME NEW now \in Nat, NEW holds \in [Payers -> Holds], NEW charges \in [Payers -> Charges],
         \A r \in Payers : holds[r].open => charges[r].times = 0
  PROVE  LET reserved == {r \in Payers : holds[r].open}
         IN  SumOf(charges, CountedAt(now, charges)) + SumOf(holds, reserved)
               = Weight(now, holds, charges)
<1> DEFINE counted == CountedAt(now, charges)
           reserved == {r \in Payers : holds[r].open}
           spent == [r \in counted |-> charges[r].amount]
           hoarded == [r \in reserved |-> holds[r].amount]
           share == Share(now, holds, charges)
<1>1. /\ counted \in SUBSET Payers /\ reserved \in SUBSET Payers
      /\ counted \cap reserved = {}
  BY DEF CountedAt
<1>2. IsFiniteSet(counted) /\ IsFiniteSet(reserved)
  BY <1>1, FS_Subset, LedgerAssumption
<1>3. spent \in [counted -> Nat] /\ hoarded \in [reserved -> Nat]
  BY DEF CountedAt, Holds, Charges
<1>4. /\ \A r \in counted : charges[r].amount = spent[r]
      /\ \A r \in reserved : holds[r].amount = hoarded[r]
  OBVIOUS
<1>5. Units(share, Payers) = Units(spent, counted) \cup Units(hoarded, reserved)
  BY <1>1 DEF Units, Share
<1>6. Units(spent, counted) \cap Units(hoarded, reserved) = {}
  BY <1>1 DEF Units
<1> HIDE DEF counted, reserved, spent, hoarded, share
<1>7. /\ SumOf(charges, counted) = Cardinality(Units(spent, counted))
      /\ SumOf(holds, reserved) = Cardinality(Units(hoarded, reserved))
  BY <1>2, <1>3, <1>4, AmountsCountUnits
<1>8. IsFiniteSet(Units(spent, counted)) /\ IsFiniteSet(Units(hoarded, reserved))
  BY <1>2, <1>3, UnitsAreFinite
<1>9. Cardinality(Units(share, Payers))
        = Cardinality(Units(spent, counted)) + Cardinality(Units(hoarded, reserved))
  <2>1. Cardinality(Units(spent, counted)) \in Nat /\ Cardinality(Units(hoarded, reserved)) \in Nat
    BY <1>8, FS_CardinalityType
  <2>2. Cardinality(Units(share, Payers))
          = Cardinality(Units(spent, counted)) + Cardinality(Units(hoarded, reserved))
              - Cardinality(Units(spent, counted) \cap Units(hoarded, reserved))
    BY <1>5, <1>8, FS_Union
  <2>3. Cardinality(Units(spent, counted) \cap Units(hoarded, reserved)) = 0
    BY <1>6, FS_EmptySet
  <2> QED
    BY <2>1, <2>2, <2>3
<1> QED
  BY <1>7, <1>9 DEF Weight, counted, reserved, share

\* What a store other than Postgres sums up.
LEMMA CommittedIsWeight ==
  ASSUME LedgerTypeOK, ledgerStore # "postgres",
         NEW holds \in [Payers -> Holds], NEW charges \in [Payers -> Charges],
         \A r \in Payers : holds[r].open => charges[r].times = 0
  PROVE  Committed(holds, charges) = Weight(ledgerTime, holds, charges)
<1>1. ledgerTime \in Nat
  BY LedgerAssumption DEF LedgerTypeOK
<1>2. {r \in Payers : holds[r].open /\ (ledgerStore = "postgres" => Counts(payer[r].at))}
        = {r \in Payers : holds[r].open}
  OBVIOUS
<1>3. {r \in Payers : charges[r].times > 0 /\ Counts(charges[r].at)}
        = CountedAt(ledgerTime, charges)
  BY DEF CountedAt, Counts
<1>4. Committed(holds, charges)
        = SumOf(charges, CountedAt(ledgerTime, charges))
            + SumOf(holds, {r \in Payers : holds[r].open})
  BY <1>2, <1>3 DEF Committed, SumOf
<1> QED
  BY <1>1, <1>4, SharesAddUp

LEMMA SharesTyped ==
  ASSUME NEW now \in Nat, NEW holds \in [Payers -> Holds], NEW charges \in [Payers -> Charges]
  PROVE  Share(now, holds, charges) \in [Payers -> Nat]
BY DEF Share, Holds, Charges

LEMMA CappedTyped ==
  ASSUME NEW charges \in [Payers -> Charges], NEW payers \in [Payers -> Reservations]
  PROVE  /\ UpToReserved(charges, payers) \in [Payers -> Charges]
         /\ \A r \in Payers :
              /\ UpToReserved(charges, payers)[r].times = charges[r].times
              /\ UpToReserved(charges, payers)[r].at = charges[r].at
              /\ UpToReserved(charges, payers)[r].amount \in Nat
              /\ UpToReserved(charges, payers)[r].amount <= charges[r].amount
              /\ UpToReserved(charges, payers)[r].amount <= payers[r].amount
<1> DEFINE Capped(r) == [charges[r] EXCEPT !.amount = IF @ > payers[r].amount THEN payers[r].amount
                                                      ELSE @]
<1>1. ASSUME NEW r \in Payers
      PROVE  /\ Capped(r) \in Charges
             /\ Capped(r).times = charges[r].times /\ Capped(r).at = charges[r].at
             /\ Capped(r).amount \in Nat
             /\ Capped(r).amount <= charges[r].amount /\ Capped(r).amount <= payers[r].amount
  <2>1. charges[r] \in Charges /\ payers[r] \in Reservations
    OBVIOUS
  <2>2. payers[r].amount \in Nat
    BY <2>1, AskedAreNumbers
  <2> QED
    BY <2>1, <2>2 DEF Charges
<1>2. UpToReserved(charges, payers) = [r \in Payers |-> Capped(r)]
  BY DEF UpToReserved
<1> HIDE DEF Capped
<1> QED
  BY <1>1, <1>2

\* What each run commits, its charge up to what it reserved.
Backed(now, holds, charges, payers) == Share(now, holds, UpToReserved(charges, payers))

LEMMA BackedIs ==
  ASSUME NEW now \in Nat, NEW holds \in [Payers -> Holds], NEW charges \in [Payers -> Charges],
         NEW payers \in [Payers -> Reservations], NEW r \in Payers
  PROVE  /\ Backed(now, holds, charges, payers) \in [Payers -> Nat]
         /\ holds[r].open => Backed(now, holds, charges, payers)[r] = holds[r].amount
         /\ ~holds[r].open => Backed(now, holds, charges, payers)[r] <= payers[r].amount
         /\ ~holds[r].open /\ (charges[r].times = 0 \/ ~(charges[r].at >= now - WindowLength)) =>
              Backed(now, holds, charges, payers)[r] = 0
         /\ Backed(now, holds, charges, payers)[r] <= Share(now, holds, charges)[r]
<1> DEFINE capped == UpToReserved(charges, payers)
<1>1. /\ capped \in [Payers -> Charges]
      /\ capped[r].times = charges[r].times /\ capped[r].at = charges[r].at
      /\ capped[r].amount \in Nat
      /\ capped[r].amount <= charges[r].amount /\ capped[r].amount <= payers[r].amount
  BY CappedTyped
<1>2. payers[r].amount \in Nat /\ holds[r].amount \in Nat /\ charges[r].amount \in Nat
      /\ charges[r].times \in Nat
  <2>1. payers[r] \in Reservations /\ holds[r] \in Holds /\ charges[r] \in Charges
    OBVIOUS
  <2> QED
    BY <2>1, AskedAreNumbers DEF Holds, Charges
<1>3. r \in CountedAt(now, capped) <=> r \in CountedAt(now, charges)
  BY <1>1 DEF CountedAt
<1>4. r \in CountedAt(now, charges) <=> charges[r].times > 0 /\ charges[r].at >= now - WindowLength
  BY DEF CountedAt
<1>5. Backed(now, holds, charges, payers) = Share(now, holds, capped)
  BY DEF Backed
<1> HIDE DEF capped
<1>6. Share(now, holds, capped)[r]
        = IF holds[r].open THEN holds[r].amount
          ELSE IF r \in CountedAt(now, charges) THEN capped[r].amount ELSE 0
  BY <1>3 DEF Share
<1>7. Share(now, holds, charges)[r]
        = IF holds[r].open THEN holds[r].amount
          ELSE IF r \in CountedAt(now, charges) THEN charges[r].amount ELSE 0
  BY DEF Share
<1>8. Backed(now, holds, charges, payers) \in [Payers -> Nat]
  BY <1>1, <1>5, SharesTyped
<1> QED
  BY <1>1, <1>2, <1>4, <1>5, <1>6, <1>7, <1>8

\* What the tenant's runs have committed of what they reserved.
Commitments(now, holds, charges, payers) ==
  Cardinality(Units(Backed(now, holds, charges, payers), Payers))

\* The ceiling as it is kept.
WithinCeiling ==
  ledgerStore # "postgres" => Commitments(ledgerTime, held, charged, payer) <= Ceiling

\* Sweeping gives back what was held and not spent.
LEMMA SweptBacksNoMore ==
  ASSUME LedgerTypeOK, BooksAgree, NEW r \in Payers
  PROVE  Backed(ledgerTime, SweptHolds, SweptCharges, payer)[r]
           <= Backed(ledgerTime, held, charged, payer)[r]
<1>1. /\ SweptHolds \in [Payers -> Holds] /\ SweptCharges \in [Payers -> Charges]
      /\ r \notin Lapsed => SweptHolds[r] = held[r] /\ SweptCharges[r] = charged[r]
  BY Sweeping
<1>2. /\ ledgerTime \in Nat /\ held \in [Payers -> Holds] /\ charged \in [Payers -> Charges]
      /\ payer \in [Payers -> Reservations]
  BY LedgerTypes
<1>3. CASE r \in Lapsed
  <2>1. held[r].open /\ SweptHolds[r] = NoHeld
    BY <1>3 DEF SweptHolds, Lapsed, Open
  <2>2. Backed(ledgerTime, held, charged, payer)[r] = payer[r].amount
    BY <1>2, <2>1, BackedIs DEF BooksAgree
  <2>3. Backed(ledgerTime, SweptHolds, SweptCharges, payer)[r] <= payer[r].amount
    BY <1>1, <1>2, <2>1, BackedIs DEF NoHeld
  <2> QED
    BY <2>2, <2>3
<1>4. CASE r \notin Lapsed
  <2>1. UpToReserved(SweptCharges, payer)[r] = UpToReserved(charged, payer)[r]
    BY <1>1, <1>4 DEF UpToReserved
  <2>2. Backed(ledgerTime, SweptHolds, SweptCharges, payer)[r]
          = Backed(ledgerTime, held, charged, payer)[r]
    BY <1>1, <1>4, <2>1 DEF Backed, Share, CountedAt
  <2>3. Backed(ledgerTime, held, charged, payer)[r] \in Nat
    BY <1>2, BackedIs
  <2> QED
    BY <2>2, <2>3
<1> QED
  BY <1>3, <1>4

\* A book in which no run commits more than in another commits no more.
LEMMA NoMoreCommitted ==
  ASSUME NEW f \in [Payers -> Nat], NEW g \in [Payers -> Nat], \A r \in Payers : g[r] <= f[r]
  PROVE  /\ Cardinality(Units(g, Payers)) <= Cardinality(Units(f, Payers))
         /\ Cardinality(Units(g, Payers)) \in Nat /\ Cardinality(Units(f, Payers)) \in Nat
<1>1. IsFiniteSet(Units(f, Payers)) /\ IsFiniteSet(Units(g, Payers))
  BY UnitsAreFinite, LedgerAssumption
<1> QED
  BY <1>1, LessIsLess, LedgerAssumption, FS_CardinalityType

\* No allowance is granted twice, on a store that decides and holds at once: neither
\* reservations, sweeps and late settlements nor the clock take the tenant past the
\* ceiling, but for what runs spend above their own reservations.
THEOREM CeilingIsKept == LedgerSpec => []CeilingHolds
<1>1. LedgerInit /\ LedgerTypeOK /\ BooksAgree => WithinCeiling
  <2> SUFFICES ASSUME LedgerInit, LedgerTypeOK, BooksAgree PROVE WithinCeiling
    OBVIOUS
  <2>0. /\ ledgerTime \in Nat /\ held \in [Payers -> Holds] /\ charged \in [Payers -> Charges]
        /\ payer \in [Payers -> Reservations] /\ Ceiling \in Nat
    BY LedgerTypes
  <2>1. ASSUME NEW r \in Payers PROVE Backed(ledgerTime, held, charged, payer)[r] = 0
    <3>1. ~held[r].open /\ charged[r].times = 0
      BY DEF LedgerInit, NoHeld, NoCharge
    <3> QED
      BY <2>0, <3>1, BackedIs
  <2>2. Units(Backed(ledgerTime, held, charged, payer), Payers) = {}
    BY <2>1 DEF Units
  <2> QED
    BY <2>0, <2>2, FS_EmptySet DEF WithinCeiling, Commitments
<1>2. /\ LedgerTypeOK /\ BooksAgree /\ WithinCeiling
      /\ LedgerTypeOK' /\ BooksAgree' /\ [LedgerNext]_ledgerVars
      => WithinCeiling'
  <2> SUFFICES ASSUME LedgerTypeOK, BooksAgree, WithinCeiling,
                      LedgerTypeOK', BooksAgree', [LedgerNext]_ledgerVars
               PROVE  WithinCeiling'
    OBVIOUS
  <2>0. /\ ledgerTime \in Nat /\ held \in [Payers -> Holds] /\ charged \in [Payers -> Charges]
        /\ payer \in [Payers -> Reservations] /\ WindowLength \in Nat /\ Ceiling \in Nat
        /\ SweptHolds \in [Payers -> Holds] /\ SweptCharges \in [Payers -> Charges]
    BY LedgerTypes, Sweeping
  <2>a. /\ ledgerTime' \in Nat /\ held' \in [Payers -> Holds] /\ charged' \in [Payers -> Charges]
        /\ payer' \in [Payers -> Reservations]
    BY LedgerAssumption DEF LedgerTypeOK, Holds, Charges, Reservations
  <2>1. \A r \in Payers : Backed(ledgerTime, SweptHolds, SweptCharges, payer)[r]
                            <= Backed(ledgerTime, held, charged, payer)[r]
    BY SweptBacksNoMore
  <2>b. /\ Backed(ledgerTime, held, charged, payer) \in [Payers -> Nat]
        /\ Backed(ledgerTime, SweptHolds, SweptCharges, payer) \in [Payers -> Nat]
        /\ Backed(ledgerTime', held', charged', payer') \in [Payers -> Nat]
    <3>1. ASSUME NEW r \in Payers
          PROVE  /\ Backed(ledgerTime, held, charged, payer) \in [Payers -> Nat]
                 /\ Backed(ledgerTime, SweptHolds, SweptCharges, payer) \in [Payers -> Nat]
                 /\ Backed(ledgerTime', held', charged', payer') \in [Payers -> Nat]
      BY <2>0, <2>a, BackedIs
    <3>2. /\ UpToReserved(charged, payer) \in [Payers -> Charges]
          /\ UpToReserved(SweptCharges, payer) \in [Payers -> Charges]
          /\ UpToReserved(charged', payer') \in [Payers -> Charges]
      BY <2>0, <2>a, CappedTyped
    <3> QED
      BY <2>0, <2>a, <3>2, SharesTyped DEF Backed
  <2>2. ASSUME \A r \in Payers : Backed(ledgerTime', held', charged', payer')[r]
                                   <= Backed(ledgerTime, held, charged, payer)[r],
               ledgerStore' = ledgerStore
        PROVE  WithinCeiling'
    <3>1. /\ Commitments(ledgerTime', held', charged', payer')
               <= Commitments(ledgerTime, held, charged, payer)
          /\ Commitments(ledgerTime', held', charged', payer') \in Nat
          /\ Commitments(ledgerTime, held, charged, payer) \in Nat
      BY <2>2, <2>b, NoMoreCommitted DEF Commitments
    <3> QED
      BY <2>0, <2>2, <3>1 DEF WithinCeiling
  <2>c. ASSUME NEW r \in Payers, held'[r] = held[r], charged'[r] = charged[r],
               payer'[r].amount = payer[r].amount, ledgerTime' = ledgerTime
        PROVE  Backed(ledgerTime', held', charged', payer')[r] = Backed(ledgerTime, held, charged, payer)[r]
    <3>1. UpToReserved(charged', payer')[r] = UpToReserved(charged, payer)[r]
      BY <2>c DEF UpToReserved
    <3> QED
      BY <2>c, <3>1 DEF Backed, Share, CountedAt
  \* The same of what a sweep has left.
  <2>d. ASSUME NEW r \in Payers, held'[r] = SweptHolds[r], charged'[r] = SweptCharges[r],
               payer'[r].amount = payer[r].amount, ledgerTime' = ledgerTime
        PROVE  Backed(ledgerTime', held', charged', payer')[r]
                 = Backed(ledgerTime, SweptHolds, SweptCharges, payer)[r]
    <3>1. UpToReserved(charged', payer')[r] = UpToReserved(SweptCharges, payer)[r]
      BY <2>d DEF UpToReserved
    <3> QED
      BY <2>d, <3>1 DEF Backed, Share, CountedAt
  <2>3. ASSUME NEW r \in Payers, NEW amount \in Amounts, NEW lease \in HoldLeases,
               LedgerReserve(r, amount, lease)
        PROVE  WithinCeiling'
    <3>0. /\ charged' = SweptCharges /\ ledgerTime' = ledgerTime /\ ledgerStore' = ledgerStore
          /\ payer[r].step = "new" /\ ledgerStore # "postgres"
      BY <2>3 DEF LedgerReserve
    <3>1. CASE held' = SweptHolds /\ payer' = payer
      <4>1. \A p \in Payers : Backed(ledgerTime', held', charged', payer')[p]
                                = Backed(ledgerTime, SweptHolds, SweptCharges, payer)[p]
        BY <2>d, <3>0, <3>1
      <4> QED
        BY <2>1, <2>2, <3>0, <4>1
    <3>2. CASE /\ Fits(SweptHolds, SweptCharges, amount)
               /\ held' = Taking(SweptHolds, r, amount, lease)
               /\ payer' = [payer EXCEPT ![r] = Reservation("spending", amount, lease)]
      <4>1. Committed(SweptHolds, SweptCharges) = Weight(ledgerTime, SweptHolds, SweptCharges)
        <5>1. \A p \in Payers : SweptHolds[p].open => SweptCharges[p].times = 0
          BY Sweeping DEF Agrees
        <5> QED
          BY <2>0, <3>0, <5>1, CommittedIsWeight
      <4>2. /\ held'[r].open /\ held'[r].amount = amount
            /\ \A p \in Payers \ {r} : held'[p] = SweptHolds[p] /\ payer'[p] = payer[p]
        BY <2>0, <3>2 DEF Taking
      <4>3. ~SweptHolds[r].open /\ SweptCharges[r].times = 0
        <5>1. ~held[r].open /\ charged[r].times = 0
          BY <3>0 DEF BooksAgree
        <5> QED
          BY <5>1, Sweeping
      <4>4. /\ Backed(ledgerTime, SweptHolds, SweptCharges, payer)[r] = 0
            /\ Backed(ledgerTime', held', charged', payer')[r] = amount
            /\ \A p \in Payers \ {r} : Backed(ledgerTime', held', charged', payer')[p]
                                         = Backed(ledgerTime, SweptHolds, SweptCharges, payer)[p]
        BY <2>0, <2>a, <2>d, <3>0, <4>2, <4>3, BackedIs
      <4>5. Commitments(ledgerTime', held', charged', payer')
              = amount + Commitments(ledgerTime, SweptHolds, SweptCharges, payer)
        BY <2>b, <4>4, OneMoreIsMore, LedgerAssumption DEF Commitments
      <4>6. \A p \in Payers : Backed(ledgerTime, SweptHolds, SweptCharges, payer)[p]
                                <= Share(ledgerTime, SweptHolds, SweptCharges)[p]
        BY <2>0, BackedIs
      <4>7. /\ Commitments(ledgerTime, SweptHolds, SweptCharges, payer)
                 <= Weight(ledgerTime, SweptHolds, SweptCharges)
            /\ Commitments(ledgerTime, SweptHolds, SweptCharges, payer) \in Nat
            /\ Weight(ledgerTime, SweptHolds, SweptCharges) \in Nat
        BY <2>0, <2>b, <4>6, SharesTyped, NoMoreCommitted DEF Commitments, Weight
      <4>8. amount \in Nat
        BY LedgerAssumption
      <4>9. Weight(ledgerTime, SweptHolds, SweptCharges) + amount <= Ceiling
        BY <3>2, <4>1 DEF Fits
      <4> QED
        BY <2>0, <4>5, <4>7, <4>8, <4>9 DEF WithinCeiling
    <3> QED
      BY <2>3, <3>1, <3>2 DEF LedgerReserve
  <2>4. ASSUME NEW r \in Payers, NEW amount \in Amounts, NEW lease \in HoldLeases,
               AskPostgres(r, amount, lease)
        PROVE  WithinCeiling'
    BY <2>4 DEF AskPostgres, WithinCeiling
  <2>5. ASSUME NEW r \in Payers, LandPostgres(r) PROVE WithinCeiling'
    <3>1. ledgerStore = "postgres" /\ ledgerStore' = ledgerStore
      BY <2>5 DEF LandPostgres, BooksAgree
    <3> QED
      BY <3>1 DEF WithinCeiling
  <2>6. ASSUME NEW r \in Payers, PayerDies(r) PROVE WithinCeiling'
    <3>1. /\ UNCHANGED <<ledgerStore, ledgerTime, held, charged>>
          /\ payer' = [payer EXCEPT ![r].step = "done"]
      BY <2>6 DEF PayerDies
    <3>2. \A p \in Payers : payer'[p].amount = payer[p].amount
      BY <2>0, <3>1 DEF Reservations
    <3>3. \A p \in Payers : Backed(ledgerTime', held', charged', payer')[p]
                              = Backed(ledgerTime, held, charged, payer)[p]
      BY <2>c, <3>1, <3>2
    <3>4. \A p \in Payers : Backed(ledgerTime', held', charged', payer')[p]
                              <= Backed(ledgerTime, held, charged, payer)[p]
      BY <2>b, <3>3
    <3> QED
      BY <2>2, <3>1, <3>4
  <2>7. ASSUME NEW r \in Payers, NEW spent \in 0..MaxCharge, LedgerProgress(r, spent)
        PROVE  WithinCeiling'
    <3>1. /\ held' = [held EXCEPT ![r].progress = spent]
          /\ UNCHANGED <<ledgerStore, ledgerTime, charged, payer>>
      BY <2>7 DEF LedgerProgress
    <3>2. \A p \in Payers : held'[p].open = held[p].open /\ held'[p].amount = held[p].amount
      BY <2>0, <3>1 DEF Holds
    <3>3. \A p \in Payers : Backed(ledgerTime', held', charged', payer')[p]
                              = Backed(ledgerTime, held, charged, payer)[p]
      BY <3>1, <3>2 DEF Backed, Share
    <3>4. \A p \in Payers : Backed(ledgerTime', held', charged', payer')[p]
                              <= Backed(ledgerTime, held, charged, payer)[p]
      BY <2>b, <3>3
    <3> QED
      BY <2>2, <3>1, <3>4
  <2>8. ASSUME NEW r \in Payers, NEW spent \in 0..MaxCharge, LedgerSettle(r, spent)
        PROVE  WithinCeiling'
    <3>1. /\ UNCHANGED <<ledgerStore, ledgerTime>>
          /\ payer' \in {payer, [payer EXCEPT ![r].step = "done"]}
      BY <2>8 DEF LedgerSettle
    <3>2. \A p \in Payers : payer'[p].amount = payer[p].amount
      BY <2>0, <3>1 DEF Reservations
    <3>3. ASSUME NEW p \in Payers, held'[p] = BookHolds[p], charged'[p] = BookCharges[p]
          PROVE  Backed(ledgerTime', held', charged', payer')[p] <= Backed(ledgerTime, held, charged, payer)[p]
      <4>1. CASE ledgerStore = "memory"
        BY <2>1, <2>d, <3>1, <3>2, <3>3, <4>1 DEF BookHolds, BookCharges
      <4>2. CASE ledgerStore # "memory"
        <5>1. Backed(ledgerTime', held', charged', payer')[p] = Backed(ledgerTime, held, charged, payer)[p]
          BY <2>c, <3>1, <3>2, <3>3, <4>2 DEF BookHolds, BookCharges
        <5> QED
          BY <2>b, <5>1
      <4> QED
        BY <4>1, <4>2
    <3>4. /\ BookHolds \in [Payers -> Holds] /\ BookCharges \in [Payers -> Charges]
      BY <2>0 DEF BookHolds, BookCharges
    <3>5. CASE Closable(r)
      <4>1. held[r].open
        BY <3>5 DEF Closable
      <4>2. /\ held' = [BookHolds EXCEPT ![r] = NoHeld]
            /\ charged' = IF spent = 0 THEN BookCharges
                          ELSE [BookCharges EXCEPT ![r] = ChargeOf(r, spent)]
        BY <2>8, <3>5 DEF LedgerSettle
      <4>3. ~held'[r].open
        BY <3>4, <4>2 DEF NoHeld
      <4>4. /\ Backed(ledgerTime, held, charged, payer)[r] = payer[r].amount
            /\ Backed(ledgerTime', held', charged', payer')[r] <= payer[r].amount
        <5>1. /\ Backed(ledgerTime, held, charged, payer)[r] = held[r].amount
              /\ held[r].amount = payer[r].amount
          BY <2>0, <4>1, BackedIs DEF BooksAgree
        <5>2. Backed(ledgerTime', held', charged', payer')[r] <= payer'[r].amount
          BY <2>a, <4>3, BackedIs
        <5> QED
          BY <3>2, <5>1, <5>2
      <4>5. \A p \in Payers \ {r} : held'[p] = BookHolds[p] /\ charged'[p] = BookCharges[p]
        BY <3>4, <4>2
      <4>6. \A p \in Payers : Backed(ledgerTime', held', charged', payer')[p]
                                <= Backed(ledgerTime, held, charged, payer)[p]
        BY <3>3, <4>4, <4>5
      <4> QED
        BY <2>2, <3>1, <4>6
    <3>6. CASE ~Closable(r)
      <4>1. held' = BookHolds /\ charged' = BookCharges
        BY <2>8, <3>6 DEF LedgerSettle
      <4> QED
        BY <2>2, <3>1, <3>3, <4>1
    <3> QED
      BY <3>5, <3>6
  <2>9. CASE Reconcile
    <3>1. held' = SweptHolds /\ charged' = SweptCharges /\ UNCHANGED <<ledgerStore, ledgerTime, payer>>
      BY <2>9 DEF Reconcile
    <3>2. \A p \in Payers : Backed(ledgerTime', held', charged', payer')[p]
                              = Backed(ledgerTime, SweptHolds, SweptCharges, payer)[p]
      BY <2>d, <3>1
    <3> QED
      BY <2>1, <2>2, <3>1, <3>2
  <2>10. CASE LedgerTick
    <3>1. /\ ledgerTime' = ledgerTime + 1 /\ UNCHANGED <<ledgerStore, charged, payer>>
          /\ \A p \in Payers : held'[p] \in {held[p], NoHeld}
      BY <2>0, <2>10 DEF LedgerTick
    <3>2. ASSUME NEW p \in Payers
          PROVE  Backed(ledgerTime', held', charged', payer')[p] <= Backed(ledgerTime, held, charged, payer)[p]
      <4>1. Backed(ledgerTime, held, charged, payer)[p] \in Nat
        BY <2>b
      <4>2. CASE held'[p].open
        <5>1. held'[p] = held[p]
          BY <3>1, <4>2 DEF NoHeld
        <5> QED
          <6>1. Backed(ledgerTime', held', charged', payer')[p] = held'[p].amount
            BY <2>a, <4>2, BackedIs
          <6>2. Backed(ledgerTime, held, charged, payer)[p] = held[p].amount
            BY <2>0, <4>2, <5>1, BackedIs
          <6> QED
            BY <4>1, <5>1, <6>1, <6>2
      <4>3. CASE ~held'[p].open /\ held[p].open
        <5>1. charged[p].times = 0
          BY <4>3 DEF BooksAgree, Agrees
        <5>2. Backed(ledgerTime', held', charged', payer')[p] = 0
          BY <2>a, <3>1, <4>3, <5>1, BackedIs
        <5> QED
          BY <4>1, <5>2
      <4>4. CASE ~held'[p].open /\ ~held[p].open
        <5>0. charged[p].at \in Nat
          BY <2>0 DEF Charges
        <5>1. CASE charged[p].at >= ledgerTime' - WindowLength
          <6>1. charged[p].at >= ledgerTime - WindowLength
            BY <2>0, <3>1, <5>0, <5>1
          <6>2. /\ UpToReserved(charged', payer') = UpToReserved(charged, payer)
                /\ UpToReserved(charged, payer)[p].at = charged[p].at
            BY <2>0, <3>1, CappedTyped
          <6>3. p \in CountedAt(ledgerTime', UpToReserved(charged, payer))
                  <=> p \in CountedAt(ledgerTime, UpToReserved(charged, payer))
            BY <5>1, <6>1, <6>2 DEF CountedAt
          <6>4. Backed(ledgerTime', held', charged', payer')[p] = Backed(ledgerTime, held, charged, payer)[p]
            BY <4>4, <6>2, <6>3 DEF Backed, Share
          <6> QED
            BY <4>1, <6>4
        <5>2. CASE ~(charged[p].at >= ledgerTime' - WindowLength)
          <6>1. Backed(ledgerTime', held', charged', payer')[p] = 0
            BY <2>a, <3>1, <4>4, <5>2, BackedIs
          <6> QED
            BY <4>1, <6>1
        <5> QED
          BY <5>1, <5>2
      <4> QED
        BY <4>2, <4>3, <4>4
    <3> QED
      BY <2>2, <3>1, <3>2
  <2>11. CASE UNCHANGED ledgerVars
    BY <2>11 DEF ledgerVars, WithinCeiling
  <2> QED
    BY <2>3, <2>4, <2>5, <2>6, <2>7, <2>8, <2>9, <2>10, <2>11 DEF LedgerNext
<1>3. LedgerTypeOK /\ BooksAgree /\ WithinCeiling => CeilingHolds
  <2> SUFFICES ASSUME LedgerTypeOK, BooksAgree, WithinCeiling, ledgerStore # "postgres"
               PROVE  Committed(held, UpToReserved(charged, payer)) <= Ceiling
    BY DEF CeilingHolds
  <2>1. /\ held \in [Payers -> Holds] /\ charged \in [Payers -> Charges]
        /\ payer \in [Payers -> Reservations]
    BY LedgerTypes
  <2>2. /\ UpToReserved(charged, payer) \in [Payers -> Charges]
        /\ \A r \in Payers : UpToReserved(charged, payer)[r].times = charged[r].times
    BY <2>1, CappedTyped
  <2>3. \A r \in Payers : held[r].open => UpToReserved(charged, payer)[r].times = 0
    BY <2>2 DEF BooksAgree, Agrees
  <2>4. Committed(held, UpToReserved(charged, payer))
          = Weight(ledgerTime, held, UpToReserved(charged, payer))
    BY <2>1, <2>2, <2>3, CommittedIsWeight
  <2> QED
    BY <2>4 DEF WithinCeiling, Commitments, Weight, Backed
<1> QED
  BY <1>1, <1>2, <1>3, BooksKept, PTL DEF LedgerSpec

-----------------------------------------------------------------------------
(* Credentials of a run.                                                     *)

LEMMA CredentialsTyped == CredentialsSpec => []CredentialsTypeOK
<1>1. CredentialsInit => CredentialsTypeOK
  <2> SUFFICES ASSUME CredentialsInit PROVE CredentialsTypeOK
    OBVIOUS
  <2>1. \A c \in Callers :
          caller[c] \in [at: {"idle", "waiting", "asking", "minting", "calling", "refused"},
                        audience: Audiences, again: BOOLEAN]
    BY DEF CredentialsInit
  <2> QED
    BY <2>1 DEF CredentialsInit, CredentialsTypeOK
<1>2. CredentialsTypeOK /\ [CredentialsNext]_credentialVars => CredentialsTypeOK'
  <2> SUFFICES ASSUME CredentialsTypeOK, [CredentialsNext]_credentialVars
               PROVE  CredentialsTypeOK'
    OBVIOUS
  <2> USE DEF CredentialsTypeOK
  <2>1. CASE Suspend
    BY <2>1 DEF Suspend
  <2>2. ASSUME NEW x \in Audiences, Expires(x) PROVE CredentialsTypeOK'
    BY <2>2 DEF Expires
  <2>3. ASSUME NEW c \in Callers,
               \/ ForCall(c) \/ FindMinted(c) \/ AskAuthority(c) \/ TurnedAway(c)
               \/ Reauthorised(c) \/ RefreshFails(c) \/ Halt(c) \/ CallReturns(c)
               \/ Invalidate(c)
        PROVE  CredentialsTypeOK'
    <3>1. CASE \/ ForCall(c) \/ FindMinted(c) \/ AskAuthority(c) \/ Reauthorised(c)
      BY <3>1 DEF ForCall, Served, FindMinted, AskAuthority, Reauthorised
    <3>2. CASE TurnedAway(c) \/ RefreshFails(c) \/ CallReturns(c)
      BY <3>2 DEF TurnedAway, RefreshFails, CallReturns
    <3>3. CASE Halt(c)
      BY <3>3 DEF Halt
    <3>4. CASE Invalidate(c)
      BY <3>4 DEF Invalidate
    <3> QED
      BY <2>3, <3>1, <3>2, <3>3, <3>4
  <2>4. ASSUME NEW c \in Callers, Minted(c) PROVE CredentialsTypeOK'
    BY <2>4 DEF Minted
  <2>5. CASE UNCHANGED credentialVars
    BY <2>5 DEF credentialVars
  <2> QED
    BY <2>1, <2>2, <2>3, <2>4, <2>5 DEF CredentialsNext
<1> QED
  BY <1>1, <1>2, PTL DEF CredentialsSpec

Refreshing(c) == caller[c].at \in {"asking", "minting"}

\* The lock of an audience has one caller in it.  Before the halt nothing was
\* minted after it; from then on who still refreshes for an audience is the one
\* whose credential has not come, and nobody else will begin.
OneLastMint ==
  /\ \A c, d \in Callers :
       Refreshing(c) /\ Refreshing(d) /\ caller[c].audience = caller[d].audience => c = d
  /\ ~halted => \A x \in Audiences : mintedSince[x] = 0
  /\ \A c \in Callers : Refreshing(c) => mintedSince[caller[c].audience] = 0
  /\ HaltLatches

\* A halt is for good: of each audience one more credential can come at most,
\* and none is held but that one.
THEOREM HaltsLatch == CredentialsSpec => []HaltLatches
<1>1. CredentialsInit => OneLastMint
  BY DEF CredentialsInit, OneLastMint, HaltLatches, Refreshing
<1>2. CredentialsTypeOK /\ OneLastMint /\ [CredentialsNext]_credentialVars => OneLastMint'
  <2> SUFFICES ASSUME CredentialsTypeOK, OneLastMint, [CredentialsNext]_credentialVars
               PROVE  OneLastMint'
    OBVIOUS
  <2> USE DEF CredentialsTypeOK, OneLastMint, HaltLatches, Refreshing, Usable
  <2>1. CASE Suspend
    BY <2>1 DEF Suspend
  <2>2. ASSUME NEW x \in Audiences, Expires(x) PROVE OneLastMint'
    BY <2>2 DEF Expires
  <2>3. ASSUME NEW c \in Callers,
               \/ ForCall(c) \/ FindMinted(c) \/ TurnedAway(c) \/ RefreshFails(c)
               \/ CallReturns(c)
        PROVE  OneLastMint'
    BY <2>3 DEF ForCall, Served, FindMinted, TurnedAway, RefreshFails, CallReturns
  <2>4. ASSUME NEW c \in Callers, AskAuthority(c) PROVE OneLastMint'
    BY <2>4 DEF AskAuthority, LockFree, Locked, MayRefresh
  <2>5. ASSUME NEW c \in Callers, Reauthorised(c) PROVE OneLastMint'
    BY <2>5 DEF Reauthorised
  <2>6. ASSUME NEW c \in Callers, Halt(c) PROVE OneLastMint'
    BY <2>6 DEF Halt
  <2>7. ASSUME NEW c \in Callers, Minted(c) PROVE OneLastMint'
    BY <2>7 DEF Minted
  <2>8. ASSUME NEW c \in Callers, Invalidate(c) PROVE OneLastMint'
    BY <2>8 DEF Invalidate
  <2>9. CASE UNCHANGED credentialVars
    BY <2>9 DEF credentialVars
  <2> QED
    BY <2>1, <2>2, <2>3, <2>4, <2>5, <2>6, <2>7, <2>8, <2>9 DEF CredentialsNext
<1>3. OneLastMint => HaltLatches
  BY DEF OneLastMint
<1> QED
  BY <1>1, <1>2, <1>3, CredentialsTyped, PTL DEF CredentialsSpec

-----------------------------------------------------------------------------
(* The cache of answers.                                                     *)

AskerType == [at: {"idle", "looking", "dropping", "calling", "waiting", "storing", "answered",
                   "failed"}, key: Digests, behind: Askers \cup {Nothing}]

LEMMA SettledTyped ==
  ASSUME CacheTypeOK, NEW c \in Askers, NEW leads \in {"storing", "failed"},
         NEW waits \in {"answered", "failed"}
  PROVE  Settled(c, leads, waits) \in [Askers -> AskerType]
<1>1. ASSUME NEW d \in Askers PROVE Settled(c, leads, waits)[d] \in AskerType
  BY DEF CacheTypeOK, AskerType, Settled
<1> QED
  BY <1>1 DEF Settled

LEMMA JoiningTyped ==
  ASSUME CacheTypeOK, NEW c \in Askers, Joins(c)
  PROVE  /\ asker' \in [Askers -> AskerType]
         /\ inflight' \in [Digests -> Askers \cup {Nothing}]
<1> USE DEF CacheTypeOK, AskerType
<1>1. CASE inflight[asker[c].key] = Nothing
  BY <1>1 DEF Joins, AskerGoes
<1>2. CASE inflight[asker[c].key] # Nothing
  <2>1. inflight[asker[c].key] \in Askers \cup {Nothing}
    OBVIOUS
  <2> QED
    BY <1>2, <2>1 DEF Joins, AskerGoes
<1> QED
  BY <1>1, <1>2

LEMMA CacheTyped == CacheSpec => []CacheTypeOK
<1>1. CacheInit => CacheTypeOK
  <2> SUFFICES ASSUME CacheInit PROVE CacheTypeOK
    OBVIOUS
  <2>1. (CHOOSE k \in Digests : TRUE) \in Digests
    BY CacheAssumption
  <2> QED
    BY <2>1 DEF CacheInit, CacheTypeOK, NotAsking
<1>2. CacheTypeOK /\ [CacheNext]_cacheVars => CacheTypeOK'
  <2> SUFFICES ASSUME CacheTypeOK, [CacheNext]_cacheVars PROVE CacheTypeOK'
    OBVIOUS
  <2> SUFFICES /\ asker' \in [Askers -> AskerType]
               /\ entry' \in [Digests -> {"none", "fresh", "expired"}]
               /\ inflight' \in [Digests -> Askers \cup {Nothing}]
    BY DEF CacheTypeOK, AskerType
  <2>0. /\ asker \in [Askers -> AskerType]
        /\ entry \in [Digests -> {"none", "fresh", "expired"}]
        /\ inflight \in [Digests -> Askers \cup {Nothing}]
        /\ \A c \in Askers : asker[c].key \in Digests
    BY DEF CacheTypeOK, AskerType
  <2>1. ASSUME NEW c \in Askers, NEW k \in Digests, Ask(c, k)
        PROVE  asker' \in [Askers -> AskerType]
    <3>1. [NotAsking(k) EXCEPT !.at = "looking"] \in AskerType
      BY DEF NotAsking, AskerType
    <3> QED
      BY <2>0, <2>1, <3>1 DEF Ask
  <2>2. ASSUME NEW c \in Askers, Hit(c) \/ WaiterGivesUp(c)
        PROVE  asker' \in [Askers -> AskerType]
    BY <2>0, <2>2 DEF Hit, WaiterGivesUp, AskerGoes, AskerType
  <2>3. ASSUME NEW c \in Askers, Store(c)
        PROVE  asker' \in [Askers -> AskerType]
    BY <2>0, <2>3 DEF Store, AskerGoes, AskerType
  <2>4. ASSUME NEW c \in Askers, ModelAnswers(c) \/ ModelFails(c)
        PROVE  asker' \in [Askers -> AskerType]
    BY <2>4, SettledTyped DEF ModelAnswers, ModelFails, Failing
  <2>5. ASSUME NEW c \in Askers, Miss(c) \/ Drop(c)
        PROVE  /\ asker' \in [Askers -> AskerType]
               /\ inflight' \in [Digests -> Askers \cup {Nothing}]
    BY <2>5, JoiningTyped DEF Miss, Drop
  <2>6. asker' \in [Askers -> AskerType]
    BY <2>0, <2>1, <2>2, <2>3, <2>4, <2>5 DEF CacheNext, Expire, ForgetEntries, cacheVars
  <2>7. ASSUME NEW c \in Askers, Miss(c) \/ Drop(c) \/ Hit(c) \/ WaiterGivesUp(c) \/ Store(c)
        PROVE  /\ entry' \in [Digests -> {"none", "fresh", "expired"}]
               /\ inflight' \in [Digests -> Askers \cup {Nothing}]
    BY <2>0, <2>5, <2>7 DEF Miss, Drop, Hit, WaiterGivesUp, Store
  <2>8. ASSUME NEW c \in Askers,
               ModelAnswers(c) \/ ModelFails(c) \/ (\E k \in Digests : Ask(c, k))
        PROVE  /\ entry' \in [Digests -> {"none", "fresh", "expired"}]
               /\ inflight' \in [Digests -> Askers \cup {Nothing}]
    BY <2>0, <2>8 DEF ModelAnswers, ModelFails, LeadOver, Ask
  <2> QED
    BY <2>0, <2>6, <2>7, <2>8 DEF CacheNext, Expire, ForgetEntries, cacheVars
<1> QED
  BY <1>1, <1>2, PTL DEF CacheSpec

\* One call at a time is shared for a key, and nobody waits behind one that is
\* over, whoever is cancelled, fails or asks again.
THEOREM KeysAreShared == CacheSpec => []NoKeyIsWedged
<1>1. CacheInit => NoKeyIsWedged
  BY DEF CacheInit, NoKeyIsWedged, Calling, NotAsking
<1>2. CacheTypeOK /\ NoKeyIsWedged /\ [CacheNext]_cacheVars => NoKeyIsWedged'
  <2> SUFFICES ASSUME CacheTypeOK, NoKeyIsWedged, [CacheNext]_cacheVars
               PROVE  NoKeyIsWedged'
    OBVIOUS
  <2> USE CacheAssumption DEF CacheTypeOK, NoKeyIsWedged, Calling
  <2>1. ASSUME NEW c \in Askers, NEW k \in Digests, Ask(c, k) PROVE NoKeyIsWedged'
    BY <2>1 DEF Ask, NotAsking
  <2>2. ASSUME NEW c \in Askers, Hit(c) \/ WaiterGivesUp(c) \/ Store(c) PROVE NoKeyIsWedged'
    BY <2>2 DEF Hit, WaiterGivesUp, Store, AskerGoes
  <2>3. ASSUME NEW c \in Askers, Miss(c) \/ Drop(c) PROVE NoKeyIsWedged'
    <3>1. asker[c].at \in {"looking", "dropping"} /\ Joins(c)
      BY <2>3 DEF Miss, Drop
    <3>2. CASE inflight[asker[c].key] = Nothing
      BY <3>1, <3>2 DEF Joins, AskerGoes
    <3>3. CASE inflight[asker[c].key] # Nothing
      BY <3>1, <3>3 DEF Joins, AskerGoes
    <3> QED
      BY <3>2, <3>3
  <2>4. ASSUME NEW c \in Askers, ModelAnswers(c) \/ ModelFails(c) PROVE NoKeyIsWedged'
    <3>1. PICK leads \in {"storing", "failed"}, waits \in {"answered", "failed"} :
            asker' = Settled(c, leads, waits)
      BY <2>4 DEF ModelAnswers, ModelFails, Failing
    <3>2. /\ asker[c].at = "calling"
          /\ inflight' = [inflight EXCEPT ![asker[c].key] = Nothing]
      BY <2>4 DEF ModelAnswers, ModelFails, LeadOver
    <3>3. \A d \in Askers :
            /\ asker'[d].key = asker[d].key /\ asker'[d].behind = asker[d].behind
            /\ asker'[d].at = IF d = c THEN leads
                              ELSE IF asker[d].at = "waiting" /\ asker[d].behind = c THEN waits
                              ELSE asker[d].at
      BY <3>1 DEF Settled
    <3> QED
      BY <3>2, <3>3
  <2>5. CASE (\E k \in Digests : Expire(k)) \/ ForgetEntries \/ UNCHANGED cacheVars
    BY <2>5 DEF Expire, ForgetEntries, cacheVars
  <2> QED
    BY <2>1, <2>2, <2>3, <2>4, <2>5 DEF CacheNext
<1> QED
  BY <1>1, <1>2, CacheTyped, PTL DEF CacheSpec

-----------------------------------------------------------------------------
(* The threads of blocking bodies.                                           *)

ThreadKinds ==
  /\ blocking \in [BlockingCalls -> {"idle", "waiting", "inside", "over"}]
  /\ body \in [BlockingCalls -> {"none", "queued", "running", "done"}]
  /\ turns \in Nat /\ shut \in BOOLEAN

\* Every turn is there to be taken or is somebody's, whose body alone may be
\* queued; and no more bodies run than there are threads.
TurnsAreKept ==
  /\ ThreadKinds
  /\ IsFiniteSet(InTurn) /\ turns + Cardinality(InTurn) = PoolSize
  /\ IsFiniteSet(OnThreads) /\ Cardinality(OnThreads) <= PoolSize
  /\ \A c \in BlockingCalls :
       /\ body[c] = "queued" => blocking[c] = "inside"
       /\ blocking[c] \in {"idle", "waiting"} => body[c] = "none"

LEMMA TurnsKept == ThreadsSpec => []TurnsAreKept
<1>1. ThreadsInit => TurnsAreKept
  <2> SUFFICES ASSUME ThreadsInit PROVE TurnsAreKept
    OBVIOUS
  <2>1. InTurn = {} /\ OnThreads = {}
    BY DEF ThreadsInit, InTurn, OnThreads
  <2>2. /\ IsFiniteSet(InTurn) /\ Cardinality(InTurn) = 0
        /\ IsFiniteSet(OnThreads) /\ Cardinality(OnThreads) = 0
    BY <2>1, FS_EmptySet
  <2>3. ThreadKinds
    BY ThreadsAssumption DEF ThreadsInit, ThreadKinds
  <2> QED
    BY <2>2, <2>3, ThreadsAssumption DEF ThreadsInit, TurnsAreKept
<1>2. TurnsAreKept /\ [ThreadsNext]_threadVars => TurnsAreKept'
  <2> SUFFICES ASSUME TurnsAreKept, [ThreadsNext]_threadVars PROVE TurnsAreKept'
    OBVIOUS
  <2> USE ThreadsAssumption DEF TurnsAreKept, ThreadKinds
  <2>1. ASSUME NEW c \in BlockingCalls, CallRefused(c) \/ AskForTurn(c) \/ GiveUpTurn(c)
        PROVE  TurnsAreKept'
    <3>1. InTurn' = InTurn /\ OnThreads' = OnThreads
      BY <2>1 DEF CallRefused, AskForTurn, GiveUpTurn, InTurn, OnThreads
    <3> QED
      BY <2>1, <3>1 DEF CallRefused, AskForTurn, GiveUpTurn, TurnsAfterWaiting
  <2>2. ASSUME NEW c \in BlockingCalls, TakeTurn(c) PROVE TurnsAreKept'
    <3>1. OnThreads' = OnThreads /\ c \notin InTurn
      BY <2>2 DEF TakeTurn, InTurn, OnThreads
    <3>2. CASE shut
      <4>1. InTurn' = InTurn
        BY <2>2, <3>2 DEF TakeTurn, InTurn
      <4> QED
        BY <2>2, <3>1, <3>2, <4>1 DEF TakeTurn
    <3>3. CASE ~shut
      <4>1. InTurn' = InTurn \cup {c}
        BY <2>2, <3>3 DEF TakeTurn, InTurn
      <4>2. IsFiniteSet(InTurn)' /\ (turns + Cardinality(InTurn) = PoolSize)'
        <5>1. turns' = turns - 1 /\ turns > 0
          BY <2>2, <3>3 DEF TakeTurn
        <5>2. /\ IsFiniteSet(InTurn \cup {c}) /\ Cardinality(InTurn) \in Nat
              /\ Cardinality(InTurn \cup {c}) = Cardinality(InTurn) + 1
          BY <3>1, OneMore
        <5> QED
          BY <4>1, <5>1, <5>2
      <4> QED
        BY <2>2, <3>1, <3>3, <4>2 DEF TakeTurn
    <3> QED
      BY <3>2, <3>3
  <2>3. ASSUME NEW c \in BlockingCalls, StartBody(c) PROVE TurnsAreKept'
    <3>1. InTurn' = InTurn /\ OnThreads' = OnThreads \cup {c} /\ c \notin OnThreads
      BY <2>3 DEF StartBody, InTurn, OnThreads
    <3>2. (IsFiniteSet(OnThreads) /\ Cardinality(OnThreads) <= PoolSize)'
      <4>1. Cardinality(OnThreads) < PoolSize
        BY <2>3 DEF StartBody
      <4>2. /\ IsFiniteSet(OnThreads \cup {c}) /\ Cardinality(OnThreads) \in Nat
            /\ Cardinality(OnThreads \cup {c}) = Cardinality(OnThreads) + 1
        BY <3>1, OneMore
      <4> QED
        BY <3>1, <4>1, <4>2
    <3> QED
      BY <2>3, <3>1, <3>2 DEF StartBody
  <2>4. ASSUME NEW c \in BlockingCalls, EndBody(c) PROVE TurnsAreKept'
    <3>1. InTurn' = InTurn /\ OnThreads' = OnThreads \ {c} /\ c \in OnThreads
      BY <2>4 DEF EndBody, InTurn, OnThreads
    <3>2. (IsFiniteSet(OnThreads) /\ Cardinality(OnThreads) <= PoolSize)'
      <4>1. /\ IsFiniteSet(OnThreads \ {c}) /\ Cardinality(OnThreads) \in Nat
            /\ Cardinality(OnThreads \ {c}) = Cardinality(OnThreads) - 1
        BY <3>1, OneLess
      <4> QED
        BY <3>1, <4>1
    <3> QED
      BY <2>4, <3>1, <3>2 DEF EndBody
  <2>5. ASSUME NEW c \in BlockingCalls, ReturnBody(c) \/ CancelCall(c) PROVE TurnsAreKept'
    <3>1. InTurn' = InTurn \ {c} /\ OnThreads' = OnThreads /\ c \in InTurn
      BY <2>5 DEF ReturnBody, CancelCall, InTurn, OnThreads
    <3>2. IsFiniteSet(InTurn)' /\ (turns + Cardinality(InTurn) = PoolSize)'
      <4>1. turns' = turns + 1
        BY <2>5 DEF ReturnBody, CancelCall
      <4>2. /\ IsFiniteSet(InTurn \ {c}) /\ Cardinality(InTurn) \in Nat
            /\ Cardinality(InTurn \ {c}) = Cardinality(InTurn) - 1
        BY <3>1, OneLess
      <4> QED
        BY <3>1, <4>1, <4>2
    <3> QED
      BY <2>5, <3>1, <3>2 DEF ReturnBody, CancelCall
  <2>6. CASE ShutPool \/ UNCHANGED threadVars
    <3>1. InTurn' = InTurn /\ OnThreads' = OnThreads
      BY <2>6 DEF ShutPool, threadVars, InTurn, OnThreads
    <3> QED
      BY <2>6, <3>1 DEF ShutPool, threadVars
  <2> QED
    BY <2>1, <2>2, <2>3, <2>4, <2>5, <2>6 DEF ThreadsNext
<1> QED
  BY <1>1, <1>2, PTL DEF ThreadsSpec

LEMMA ThreadsTyped == ThreadsSpec => []ThreadsTypeOK
<1>1. TurnsAreKept => ThreadsTypeOK
  <2> SUFFICES ASSUME TurnsAreKept PROVE ThreadsTypeOK
    OBVIOUS
  <2>1. Cardinality(InTurn) \in Nat
    BY FS_CardinalityType DEF TurnsAreKept
  <2> QED
    BY <2>1, ThreadsAssumption DEF TurnsAreKept, ThreadKinds, ThreadsTypeOK
<1> QED
  BY <1>1, TurnsKept, PTL

\* When every thread is taken, what waits in the queue waits for bodies that
\* were abandoned, one for each at most.
THEOREM WaitsAreForTheAbandoned == ThreadsSpec => []OnlyTheAbandonedHoldUp
<1>1. TurnsAreKept => OnlyTheAbandonedHoldUp
  <2> SUFFICES ASSUME TurnsAreKept, Cardinality(OnThreads) = PoolSize
               PROVE  Cardinality(QueuedBehind) <= Cardinality(Abandoned)
    BY DEF OnlyTheAbandonedHoldUp
  <2> DEFINE minded == OnThreads \cap InTurn
  <2>1. /\ QueuedBehind \in SUBSET InTurn /\ minded \in SUBSET InTurn
        /\ Abandoned \in SUBSET OnThreads
        /\ QueuedBehind \cap minded = {} /\ Abandoned \cap minded = {}
        /\ Abandoned \cup minded = OnThreads
    BY DEF QueuedBehind, InTurn, OnThreads, Abandoned, TurnsAreKept
  <2>2. /\ IsFiniteSet(InTurn) /\ IsFiniteSet(OnThreads)
        /\ turns + Cardinality(InTurn) = PoolSize /\ turns \in Nat
    BY DEF TurnsAreKept, ThreadKinds
  <2> HIDE DEF minded
  <2>3. IsFiniteSet(QueuedBehind) /\ IsFiniteSet(minded) /\ IsFiniteSet(Abandoned)
    BY <2>1, <2>2, FS_Subset
  <2>4. Cardinality(QueuedBehind \cup minded) = Cardinality(QueuedBehind) + Cardinality(minded)
    BY <2>1, <2>3, DisjointSets
  <2>5. Cardinality(QueuedBehind \cup minded) <= Cardinality(InTurn)
    <3>1. QueuedBehind \cup minded \in SUBSET InTurn
      BY <2>1
    <3> QED
      BY <2>2, <3>1, FS_Subset
  <2>6. Cardinality(OnThreads) = Cardinality(Abandoned) + Cardinality(minded)
    BY <2>1, <2>3, DisjointSets
  <2>7. /\ Cardinality(QueuedBehind) \in Nat /\ Cardinality(minded) \in Nat
        /\ Cardinality(Abandoned) \in Nat /\ Cardinality(InTurn) \in Nat
    BY <2>2, <2>3, FS_CardinalityType
  <2> QED
    BY <2>2, <2>4, <2>5, <2>6, <2>7, ThreadsAssumption
<1> QED
  BY <1>1, TurnsKept, PTL

-----------------------------------------------------------------------------
(* The clients of the model providers.                                       *)

HttpClientType ==
  [is: {"unborn", "held", "retiring", "closing", "closed", "forgotten"},
   key: SUBSET Credentials, owner: 0..2, borrowed: Nat]

SenderType ==
  [at: {"idle", "borrowing", "retiring", "sending"}, on: 0..MaxClients,
   key: SUBSET Credentials]

PoolKinds ==
  /\ httpClient \in [HttpClients -> HttpClientType]
  /\ sender \in [Senders -> SenderType]
  /\ secret \in Credentials /\ lastKey \in SUBSET Credentials
  /\ pid \in {1, 2} /\ poolClosed \in BOOLEAN

\* What handing out a client does to each of them.
HandsOut(given, i) ==
  /\ i \in HttpClients
  /\ given \in [HttpClients -> HttpClientType]
  /\ given[i].is = "held" /\ given[i].owner = pid
  /\ \/ httpClient[i].is = "unborn" /\ given[i].borrowed = 0
     \/ /\ httpClient[i].is = "held" /\ httpClient[i].owner = pid
        /\ given[i] = httpClient[i]
  /\ \A j \in HttpClients \ {i} :
       /\ given[j].owner = httpClient[j].owner
       /\ given[j].borrowed = httpClient[j].borrowed
       /\ \/ given[j].is = httpClient[j].is
          \/ httpClient[j].owner # pid /\ given[j].is = "forgotten"

LEMMA HandingOut ==
  ASSUME PoolKinds, NEW key \in SUBSET Credentials, NEW i \in Handed(key)
  PROVE  HandsOut(With(key, i), i)
<1> USE DEF PoolKinds
<1>1. i \in HttpClients
  BY DEF Handed, Own, HeldUnder, Those, Fresh
<1>2. CASE i \in Own(key)
  <2>1. With(key, i) = httpClient
    BY <1>2 DEF With
  <2> QED
    BY <1>1, <1>2, <2>1 DEF HandsOut, Own, HeldUnder, Those
<1>3. CASE i \notin Own(key)
  <2>1. Own(key) = {} /\ httpClient[i].is = "unborn"
    BY <1>3 DEF Handed, Fresh, Those
  <2>2. With(key, i) =
          [j \in HttpClients |->
            IF j = i THEN [is |-> "held", key |-> key, owner |-> pid, borrowed |-> 0]
            ELSE IF j \in HeldUnder(key) THEN [httpClient[j] EXCEPT !.is = "forgotten"]
            ELSE httpClient[j]]
    BY <1>3 DEF With
  <2>3. \A j \in HttpClients : With(key, i)[j] \in HttpClientType
    BY <2>2 DEF HttpClientType
  <2>4. \A j \in HeldUnder(key) : httpClient[j].owner # pid
    BY <2>1 DEF Own
  <2>5. With(key, i)[i] = [is |-> "held", key |-> key, owner |-> pid, borrowed |-> 0]
    BY <1>1, <2>2
  <2>6. \A j \in HttpClients \ {i} :
          /\ With(key, i)[j].owner = httpClient[j].owner
          /\ With(key, i)[j].borrowed = httpClient[j].borrowed
          /\ \/ With(key, i)[j].is = httpClient[j].is
             \/ httpClient[j].owner # pid /\ With(key, i)[j].is = "forgotten"
    BY <2>2, <2>4 DEF HttpClientType
  <2>7. With(key, i) \in [HttpClients -> HttpClientType]
    BY <2>2, <2>3
  <2> QED
    BY <1>1, <2>1, <2>5, <2>6, <2>7 DEF HandsOut
<1> QED
  BY <1>2, <1>3

\* What retiring a key does to each client.
LEMMA Retiring ==
  ASSUME PoolKinds, NEW key
  PROVE  /\ Retired(key) \in [HttpClients -> HttpClientType]
         /\ \A j \in HttpClients :
              /\ Retired(key)[j].owner = httpClient[j].owner
              /\ Retired(key)[j].borrowed = httpClient[j].borrowed
              /\ \/ Retired(key)[j].is = httpClient[j].is
                 \/ /\ httpClient[j].is = "held" /\ httpClient[j].borrowed > 0
                    /\ Retired(key)[j].is = "retiring"
                 \/ /\ httpClient[j].is = "held" /\ httpClient[j].borrowed = 0
                    /\ Retired(key)[j].is = "closed"
<1>1. \A j \in HttpClients : Retired(key)[j] \in HttpClientType
  BY DEF PoolKinds, HttpClientType, Retired
<1>2. ASSUME NEW j \in HttpClients
      PROVE  /\ Retired(key)[j].owner = httpClient[j].owner
             /\ Retired(key)[j].borrowed = httpClient[j].borrowed
             /\ \/ Retired(key)[j].is = httpClient[j].is
                \/ /\ httpClient[j].is = "held" /\ httpClient[j].borrowed > 0
                   /\ Retired(key)[j].is = "retiring"
                \/ /\ httpClient[j].is = "held" /\ httpClient[j].borrowed = 0
                   /\ Retired(key)[j].is = "closed"
  BY DEF PoolKinds, HttpClientType, Retired, HeldUnder, Those
<1> QED
  BY <1>1, <1>2 DEF Retired

Borrowers(i) == {s \in Senders : sender[s].at = "borrowing" /\ sender[s].on = i}

\* A client of this process counts its borrowers, and one that is retiring has
\* some; who borrows has a client of this process, open until the pool is closed.
\* No client is of a process that is still to come.
LoansAreCounted ==
  /\ PoolKinds
  /\ \A i \in HttpClients :
       /\ httpClient[i].owner <= pid
       /\ httpClient[i].is = "unborn" => httpClient[i].owner = 0
       /\ httpClient[i].owner = pid =>
            /\ IsFiniteSet(Borrowers(i))
            /\ httpClient[i].borrowed = Cardinality(Borrowers(i))
            /\ httpClient[i].is = "retiring" => httpClient[i].borrowed > 0
  /\ \A s \in Senders : sender[s].at = "borrowing" =>
       /\ sender[s].on \in HttpClients
       /\ httpClient[sender[s].on].owner = pid
       /\ ~poolClosed => httpClient[sender[s].on].is \in {"held", "retiring"}

\* Nobody's borrowing has changed, and no client's but one that is not unborn or
\* comes to be of this process with nobody on it.
LEMMA LoansStay ==
  ASSUME LoansAreCounted, PoolKinds', pid' = pid, poolClosed' = poolClosed,
         \A s \in Senders : \/ sender'[s] = sender[s]
                            \/ sender[s].at # "borrowing" /\ sender'[s].at # "borrowing",
         \A i \in HttpClients :
           \/ /\ httpClient'[i].owner = httpClient[i].owner
              /\ httpClient'[i].borrowed = httpClient[i].borrowed
              /\ \/ httpClient'[i].is = httpClient[i].is
                 \/ httpClient[i].owner # pid /\ httpClient'[i].is = "forgotten"
                 \/ /\ httpClient[i].is = "held" /\ httpClient[i].borrowed > 0
                    /\ httpClient'[i].is = "retiring"
                 \/ /\ httpClient[i].is = "held" /\ httpClient[i].borrowed = 0
                    /\ httpClient'[i].is = "closed"
           \/ /\ httpClient[i].is = "unborn"
              /\ httpClient'[i].is = "held" /\ httpClient'[i].owner = pid
              /\ httpClient'[i].borrowed = 0
  PROVE  LoansAreCounted'
<1> USE DEF LoansAreCounted
<1>1. \A i \in HttpClients : Borrowers(i)' = Borrowers(i)
  BY DEF Borrowers
<1>2. ASSUME NEW s \in Senders, sender[s].at = "borrowing"
      PROVE  httpClient[sender[s].on].owner = pid /\ httpClient[sender[s].on].borrowed > 0
  <2>1. sender[s].on \in HttpClients /\ httpClient[sender[s].on].owner = pid
    BY <1>2
  <2>2. s \in Borrowers(sender[s].on)
    BY <1>2 DEF Borrowers
  <2>3. /\ IsFiniteSet(Borrowers(sender[s].on))
        /\ httpClient[sender[s].on].borrowed = Cardinality(Borrowers(sender[s].on))
    BY <2>1
  <2>4. Cardinality(Borrowers(sender[s].on)) > 0
    BY <2>2, <2>3, OneLess
  <2> QED
    BY <2>1, <2>3, <2>4
<1>3. ASSUME NEW i \in HttpClients
      PROVE  /\ httpClient'[i].owner <= pid
             /\ httpClient'[i].is = "unborn" => httpClient'[i].owner = 0
             /\ httpClient'[i].owner = pid =>
                  /\ IsFiniteSet(Borrowers(i))
                  /\ httpClient'[i].borrowed = Cardinality(Borrowers(i))
                  /\ httpClient'[i].is = "retiring" => httpClient'[i].borrowed > 0
  <2>0. pid \in {1, 2} /\ httpClient[i].owner <= pid /\ httpClient[i].borrowed \in Nat
    BY DEF PoolKinds, HttpClientType
  <2>1. CASE httpClient[i].is = "unborn" /\ httpClient'[i].is = "held"
    <3>1. httpClient[i].owner = 0
      BY <2>1
    <3>2. Borrowers(i) = {}
      BY <1>2, <2>0, <3>1 DEF Borrowers
    <3>3. IsFiniteSet(Borrowers(i)) /\ Cardinality(Borrowers(i)) = 0
      BY <3>2, FS_EmptySet
    <3> QED
      BY <2>0, <2>1, <3>3
  <2>2. CASE ~(httpClient[i].is = "unborn" /\ httpClient'[i].is = "held")
    BY <2>0, <2>2
  <2> QED
    BY <2>1, <2>2
<1>4. ASSUME NEW s \in Senders, sender'[s].at = "borrowing"
      PROVE  /\ sender'[s].on \in HttpClients
             /\ httpClient'[sender'[s].on].owner = pid
             /\ ~poolClosed => httpClient'[sender'[s].on].is \in {"held", "retiring"}
  <2>1. sender'[s] = sender[s]
    BY <1>4
  <2>2. PICK i \in HttpClients : i = sender[s].on
    BY <1>4, <2>1
  <2>3. /\ httpClient[i].owner = pid /\ httpClient[i].borrowed > 0
        /\ ~poolClosed => httpClient[i].is \in {"held", "retiring"}
    BY <1>2, <1>4, <2>1, <2>2
  <2>4. pid # 0 /\ httpClient[i].is # "unborn"
    BY <2>3 DEF PoolKinds
  <2>5. /\ httpClient'[i].owner = pid
        /\ ~poolClosed => httpClient'[i].is \in {"held", "retiring"}
    BY <2>3, <2>4
  <2> QED
    BY <2>1, <2>2, <2>5
<1> QED
  BY <1>1, <1>3, <1>4

\* What goes out is sent on a client of this process, or not at all.
LEMMA GoingOut ==
  ASSUME LoansAreCounted, NEW s \in Senders, sender[s].at \in {"idle", "retiring"}, GoesOut(s),
         secret' = secret, lastKey' \in SUBSET Credentials, pid' = pid,
         poolClosed' = poolClosed
  PROVE  LoansAreCounted'
<1>0. PoolKinds
  BY DEF LoansAreCounted
<1>1. CASE poolClosed
  <2>1. httpClient' = httpClient /\ sender' = [sender EXCEPT ![s] = NotSending]
    BY <1>1 DEF GoesOut
  <2>2. NotSending \in SenderType
    BY PoolAssumption DEF NotSending, SenderType
  <2>3. PoolKinds'
    BY <1>0, <2>1, <2>2 DEF PoolKinds
  <2>4. \A t \in Senders : \/ sender'[t] = sender[t]
                           \/ sender[t].at # "borrowing" /\ sender'[t].at # "borrowing"
    BY <1>0, <2>1 DEF PoolKinds, NotSending
  <2> QED
    BY <2>1, <2>3, <2>4, LoansStay
<1>2. CASE ~poolClosed
  <2>1. PICK i \in Handed({secret}) :
          /\ httpClient' = With({secret}, i)
          /\ sender' = [sender EXCEPT ![s] = [at |-> "sending", on |-> i, key |-> {}]]
    BY <1>2 DEF GoesOut
  <2>2. {secret} \in SUBSET Credentials
    BY <1>0 DEF PoolKinds
  <2>3. HandsOut(httpClient', i)
    BY <1>0, <2>1, <2>2, HandingOut
  <2>4. [at |-> "sending", on |-> i, key |-> {}] \in SenderType
    BY <2>3, PoolAssumption DEF HandsOut, SenderType, HttpClients
  <2>5. PoolKinds'
    BY <1>0, <2>1, <2>3, <2>4 DEF HandsOut, PoolKinds
  <2>6. \A t \in Senders : \/ sender'[t] = sender[t]
                           \/ sender[t].at # "borrowing" /\ sender'[t].at # "borrowing"
    BY <1>0, <2>1 DEF PoolKinds
  <2> QED
    BY <2>3, <2>5, <2>6, LoansStay DEF HandsOut
<1> QED
  BY <1>1, <1>2

LEMMA LoansKept == PoolSpec => []LoansAreCounted
<1>1. PoolInit => LoansAreCounted
  <2> SUFFICES ASSUME PoolInit PROVE LoansAreCounted
    OBVIOUS
  <2>1. NoClient \in HttpClientType /\ NotSending \in SenderType
    BY PoolAssumption DEF NoClient, NotSending, HttpClientType, SenderType
  <2>2. secret \in Credentials
    BY PoolAssumption DEF PoolInit
  <2>3. PoolKinds
    BY <2>1, <2>2 DEF PoolInit, PoolKinds
  <2> QED
    BY <2>3 DEF PoolInit, LoansAreCounted, NoClient, NotSending
<1>2. LoansAreCounted /\ [PoolNext]_poolVars => LoansAreCounted'
  <2> SUFFICES ASSUME LoansAreCounted, [PoolNext]_poolVars PROVE LoansAreCounted'
    OBVIOUS
  <2>0. PoolKinds
    BY DEF LoansAreCounted
  <2>00. NotSending \in SenderType
    BY PoolAssumption DEF NotSending, SenderType
  <2>1. ASSUME NEW s \in Senders, NEW k \in Credentials, Borrow(s, {k})
        PROVE  LoansAreCounted'
    <3>1. PICK i \in Handed({k}) :
            /\ httpClient' = [With({k}, i) EXCEPT ![i].borrowed = @ + 1]
            /\ sender' = [sender EXCEPT ![s] = [at |-> "borrowing", on |-> i, key |-> {}]]
      BY <2>1 DEF Borrow
    <3>2. /\ sender[s].at = "idle" /\ ~poolClosed
          /\ secret' = secret /\ lastKey' = lastKey /\ pid' = pid /\ poolClosed' = poolClosed
      BY <2>1 DEF Borrow
    <3>3. PICK given : given = With({k}, i)
      OBVIOUS
    <3>4. HandsOut(given, i)
      <4>1. {k} \in SUBSET Credentials
        OBVIOUS
      <4> QED
        BY <2>0, <3>3, <4>1, HandingOut
    <3>5. /\ httpClient' \in [HttpClients -> HttpClientType]
          /\ httpClient'[i].is = "held" /\ httpClient'[i].owner = pid
          /\ httpClient'[i].borrowed = given[i].borrowed + 1
          /\ \A j \in HttpClients \ {i} : httpClient'[j] = given[j]
      <4>1. httpClient' = [given EXCEPT ![i].borrowed = @ + 1]
        BY <3>1, <3>3
      <4>2. given \in [HttpClients -> HttpClientType] /\ i \in HttpClients
            /\ given[i].is = "held" /\ given[i].owner = pid
        BY <3>4 DEF HandsOut
      <4> QED
        BY <4>1, <4>2 DEF HttpClientType
    <3>6. /\ sender' \in [Senders -> SenderType]
          /\ sender'[s].at = "borrowing" /\ sender'[s].on = i
          /\ \A t \in Senders \ {s} : sender'[t] = sender[t]
      <4>1. [at |-> "borrowing", on |-> i, key |-> {}] \in SenderType
        BY <3>4, PoolAssumption DEF HandsOut, SenderType, HttpClients
      <4> QED
        BY <2>0, <3>1, <4>1 DEF PoolKinds
    <3>7. PoolKinds'
      BY <2>0, <3>2, <3>5, <3>6 DEF PoolKinds
    <3>8. /\ Borrowers(i)' = Borrowers(i) \cup {s} /\ s \notin Borrowers(i)
          /\ \A j \in HttpClients \ {i} : Borrowers(j)' = Borrowers(j)
      BY <3>2, <3>6 DEF Borrowers
    <3>9. /\ IsFiniteSet(Borrowers(i)) /\ Cardinality(Borrowers(i)) = given[i].borrowed
      <4>1. CASE httpClient[i].is = "unborn"
        <5>1. httpClient[i].owner = 0 /\ pid # 0
          BY <2>0, <3>4, <4>1 DEF HandsOut, LoansAreCounted, PoolKinds
        <5>2. Borrowers(i) = {}
          BY <5>1 DEF LoansAreCounted, Borrowers
        <5> QED
          BY <3>4, <4>1, <5>2, FS_EmptySet DEF HandsOut
      <4>2. CASE httpClient[i].is # "unborn"
        BY <3>4, <4>2 DEF HandsOut, LoansAreCounted
      <4> QED
        BY <4>1, <4>2
    <3>10. IsFiniteSet(Borrowers(i))' /\ Cardinality(Borrowers(i))' = httpClient'[i].borrowed
      BY <3>5, <3>8, <3>9, OneMore
    <3>11. ASSUME NEW j \in HttpClients
           PROVE  /\ httpClient'[j].owner <= pid
                  /\ httpClient'[j].is = "unborn" => httpClient'[j].owner = 0
                  /\ httpClient'[j].owner = pid =>
                       /\ IsFiniteSet(Borrowers(j))'
                       /\ httpClient'[j].borrowed = Cardinality(Borrowers(j))'
                       /\ httpClient'[j].is = "retiring" => httpClient'[j].borrowed > 0
      <4>1. CASE j = i
        BY <2>0, <3>5, <3>10, <4>1 DEF PoolKinds
      <4>2. CASE j # i
        BY <3>4, <3>5, <3>8, <4>2 DEF HandsOut, LoansAreCounted
      <4> QED
        BY <4>1, <4>2
    <3>12. ASSUME NEW t \in Senders, sender'[t].at = "borrowing"
           PROVE  /\ sender'[t].on \in HttpClients
                  /\ httpClient'[sender'[t].on].owner = pid
                  /\ httpClient'[sender'[t].on].is \in {"held", "retiring"}
      <4>1. CASE t = s
        BY <3>4, <3>5, <3>6, <4>1 DEF HandsOut
      <4>2. CASE t # s
        <5>1. PICK j \in HttpClients : j = sender[t].on
          BY <3>6, <3>12, <4>2 DEF LoansAreCounted
        <5>2. /\ sender'[t].on = j /\ httpClient[j].owner = pid
              /\ httpClient[j].is \in {"held", "retiring"}
          BY <3>2, <3>6, <3>12, <4>2, <5>1 DEF LoansAreCounted
        <5>3. httpClient'[j].owner = pid /\ httpClient'[j].is \in {"held", "retiring"}
          BY <3>4, <3>5, <5>2 DEF HandsOut
        <5> QED
          BY <5>2, <5>3
      <4> QED
        BY <4>1, <4>2
    <3> QED
      BY <3>2, <3>7, <3>11, <3>12 DEF LoansAreCounted
  <2>2. ASSUME NEW s \in Senders, GiveBack(s) PROVE LoansAreCounted'
    <3>1. PICK i \in HttpClients : i = sender[s].on
      BY <2>2 DEF GiveBack, LoansAreCounted
    <3>2. /\ sender[s].at = "borrowing"
          /\ httpClient' = [httpClient EXCEPT
                 ![i].borrowed = @ - 1,
                 ![i].is = IF @ = "retiring" /\ httpClient[i].borrowed = 1 THEN "closed" ELSE @]
          /\ sender' = [sender EXCEPT ![s] = NotSending]
          /\ secret' = secret /\ lastKey' = lastKey /\ pid' = pid /\ poolClosed' = poolClosed
      BY <2>2, <3>1 DEF GiveBack
    <3>3. /\ IsFiniteSet(Borrowers(i)) /\ httpClient[i].borrowed = Cardinality(Borrowers(i))
          /\ httpClient[i].owner = pid /\ s \in Borrowers(i)
      BY <3>1, <3>2 DEF LoansAreCounted, Borrowers
    <3>4. httpClient[i].borrowed > 0
      BY <3>3, OneLess
    <3>5. /\ httpClient' \in [HttpClients -> HttpClientType]
          /\ httpClient'[i].owner = pid
          /\ httpClient'[i].borrowed = httpClient[i].borrowed - 1
          /\ httpClient'[i].is = IF httpClient[i].is = "retiring" /\ httpClient[i].borrowed = 1
                                 THEN "closed" ELSE httpClient[i].is
          /\ \A j \in HttpClients \ {i} : httpClient'[j] = httpClient[j]
      <4>1. httpClient[i] \in HttpClientType /\ httpClient[i].borrowed - 1 \in Nat
        BY <2>0, <3>4 DEF PoolKinds, HttpClientType
      <4>2. httpClient'[i] = [httpClient[i] EXCEPT
                                !.borrowed = @ - 1,
                                !.is = IF @ = "retiring" /\ httpClient[i].borrowed = 1
                                       THEN "closed" ELSE @]
        BY <2>0, <3>2 DEF PoolKinds
      <4>3. \A j \in HttpClients \ {i} : httpClient'[j] = httpClient[j]
        BY <2>0, <3>2 DEF PoolKinds
      <4>4. httpClient'[i] \in HttpClientType
        BY <4>1, <4>2 DEF HttpClientType
      <4>5. httpClient' \in [HttpClients -> HttpClientType]
        BY <2>0, <3>2, <4>3, <4>4 DEF PoolKinds
      <4> QED
        BY <3>3, <4>1, <4>2, <4>3, <4>5 DEF HttpClientType
    <3>6. /\ sender' \in [Senders -> SenderType] /\ sender'[s].at = "idle"
          /\ \A t \in Senders \ {s} : sender'[t] = sender[t]
      BY <2>0, <2>00, <3>2 DEF PoolKinds, NotSending
    <3>7. PoolKinds'
      BY <2>0, <3>2, <3>5, <3>6 DEF PoolKinds
    <3>8. /\ Borrowers(i)' = Borrowers(i) \ {s}
          /\ \A j \in HttpClients \ {i} : Borrowers(j)' = Borrowers(j)
      BY <3>1, <3>6 DEF Borrowers
    <3>9. IsFiniteSet(Borrowers(i))' /\ Cardinality(Borrowers(i))' = httpClient'[i].borrowed
      BY <3>3, <3>5, <3>8, OneLess
    <3>10. ASSUME NEW j \in HttpClients
           PROVE  /\ httpClient'[j].owner <= pid
                  /\ httpClient'[j].is = "unborn" => httpClient'[j].owner = 0
                  /\ httpClient'[j].owner = pid =>
                       /\ IsFiniteSet(Borrowers(j))'
                       /\ httpClient'[j].borrowed = Cardinality(Borrowers(j))'
                       /\ httpClient'[j].is = "retiring" => httpClient'[j].borrowed > 0
      <4>1. CASE j = i
        <5>1. httpClient[i].borrowed \in Nat /\ pid \in {1, 2}
          BY <2>0 DEF PoolKinds, HttpClientType
        <5>2. httpClient[i].is # "unborn"
          BY <3>3, <5>1 DEF LoansAreCounted
        <5> QED
          BY <3>4, <3>5, <3>9, <4>1, <5>1, <5>2
      <4>2. CASE j # i
        BY <3>5, <3>8, <4>2 DEF LoansAreCounted
      <4> QED
        BY <4>1, <4>2
    <3>11. ASSUME NEW t \in Senders, sender'[t].at = "borrowing"
           PROVE  /\ sender'[t].on \in HttpClients
                  /\ httpClient'[sender'[t].on].owner = pid
                  /\ ~poolClosed => httpClient'[sender'[t].on].is \in {"held", "retiring"}
      <4>1. t # s /\ sender'[t] = sender[t]
        BY <3>6, <3>11
      <4>2. PICK j \in HttpClients : j = sender[t].on
        BY <3>11, <4>1 DEF LoansAreCounted
      <4>3. /\ sender'[t].on = j /\ httpClient[j].owner = pid
            /\ ~poolClosed => httpClient[j].is \in {"held", "retiring"}
        BY <3>11, <4>1, <4>2 DEF LoansAreCounted
      <4>4. CASE j = i
        <5>1. t \in Borrowers(i) \ {s}
          BY <3>11, <4>1, <4>2, <4>4 DEF Borrowers
        <5>2. httpClient[i].borrowed # 1
          BY <3>3, <5>1, FS_Singleton
        <5> QED
          BY <3>5, <4>3, <4>4, <5>2
      <4>5. CASE j # i
        BY <3>5, <4>3, <4>5
      <4> QED
        BY <4>4, <4>5
    <3> QED
      BY <3>2, <3>7, <3>10, <3>11 DEF LoansAreCounted
  <2>3. ASSUME NEW key, httpClient' = Retired(key), secret' = secret, lastKey' = lastKey,
               pid' = pid, poolClosed' = poolClosed,
               \/ sender' = sender
               \/ \E s \in Senders :
                    /\ sender[s].at = "idle"
                    /\ sender' = [sender EXCEPT ![s] = [at |-> "retiring", on |-> 0,
                                                        key |-> {secret}]]
        PROVE  LoansAreCounted'
    <3>1. [at |-> "retiring", on |-> 0, key |-> {secret}] \in SenderType
      BY <2>0, PoolAssumption DEF PoolKinds, SenderType
    <3>2. sender' \in [Senders -> SenderType]
      BY <2>0, <2>3, <3>1 DEF PoolKinds
    <3>3. \A t \in Senders : \/ sender'[t] = sender[t]
                             \/ sender[t].at # "borrowing" /\ sender'[t].at # "borrowing"
      BY <2>0, <2>3 DEF PoolKinds
    <3>4. /\ httpClient' \in [HttpClients -> HttpClientType]
          /\ \A j \in HttpClients :
               /\ httpClient'[j].owner = httpClient[j].owner
               /\ httpClient'[j].borrowed = httpClient[j].borrowed
               /\ \/ httpClient'[j].is = httpClient[j].is
                  \/ /\ httpClient[j].is = "held" /\ httpClient[j].borrowed > 0
                     /\ httpClient'[j].is = "retiring"
                  \/ /\ httpClient[j].is = "held" /\ httpClient[j].borrowed = 0
                     /\ httpClient'[j].is = "closed"
      BY <2>0, <2>3, Retiring
    <3>5. PoolKinds'
      BY <2>0, <2>3, <3>2, <3>4 DEF PoolKinds
    <3> QED
      BY <2>3, <3>3, <3>4, <3>5, LoansStay
  <2>4. ASSUME NEW k \in Credentials, Retire({k}) PROVE LoansAreCounted'
    BY <2>3, <2>4 DEF Retire
  <2>5. ASSUME NEW s \in Senders, RetireLast(s) PROVE LoansAreCounted'
    BY <2>3, <2>5 DEF RetireLast
  <2>6. ASSUME NEW s \in Senders, SendOut(s) PROVE LoansAreCounted'
    <3>1. lastKey' \in SUBSET Credentials
      BY <2>0, <2>6 DEF SendOut, PoolKinds
    <3> QED
      BY <2>6, <3>1, GoingOut DEF SendOut
  <2>7. ASSUME NEW s \in Senders, SendAfter(s) PROVE LoansAreCounted'
    <3>1. lastKey' \in SUBSET Credentials
      BY <2>0, <2>7 DEF SendAfter, PoolKinds, SenderType
    <3> QED
      BY <2>7, <3>1, GoingOut DEF SendAfter
  <2>8. ASSUME NEW s \in Senders, SendReturns(s) PROVE LoansAreCounted'
    <3>1. PoolKinds'
      BY <2>0, <2>00, <2>8 DEF SendReturns, PoolKinds
    <3>2. \A t \in Senders : \/ sender'[t] = sender[t]
                             \/ sender[t].at # "borrowing" /\ sender'[t].at # "borrowing"
      BY <2>0, <2>8 DEF SendReturns, PoolKinds, NotSending
    <3> QED
      BY <2>8, <3>1, <3>2, LoansStay DEF SendReturns
  <2>9. CASE Rotate \/ UNCHANGED poolVars
    <3>1. PoolKinds'
      BY <2>0, <2>9 DEF Rotate, poolVars, PoolKinds
    <3> QED
      BY <2>9, <3>1, LoansStay DEF Rotate, poolVars
  <2>10. CASE ClosePool
    <3>1. /\ httpClient' \in [HttpClients -> HttpClientType]
          /\ \A j \in HttpClients :
               /\ httpClient'[j].owner = httpClient[j].owner
               /\ httpClient'[j].borrowed = httpClient[j].borrowed
               /\ httpClient'[j].is = IF httpClient[j].is \in {"held", "retiring"} THEN "closing"
                                      ELSE httpClient[j].is
      <4>1. \A j \in HttpClients : httpClient'[j] \in HttpClientType
        BY <2>0, <2>10 DEF ClosePool, PoolKinds, HttpClientType
      <4> QED
        BY <2>0, <2>10, <4>1 DEF ClosePool, PoolKinds, HttpClientType, Those
    <3>2. /\ sender' = sender /\ pid' = pid /\ poolClosed' = TRUE
          /\ secret' = secret /\ lastKey' = lastKey
      BY <2>10 DEF ClosePool
    <3>3. PoolKinds'
      BY <2>0, <3>1, <3>2 DEF PoolKinds
    <3>4. \A j \in HttpClients : Borrowers(j)' = Borrowers(j)
      BY <3>2 DEF Borrowers
    <3> QED
      BY <3>1, <3>2, <3>3, <3>4 DEF LoansAreCounted
  <2>11. ASSUME NEW i \in HttpClients, CloseClient(i) PROVE LoansAreCounted'
    <3>1. /\ httpClient[i].is = "closing"
          /\ httpClient' \in [HttpClients -> HttpClientType]
          /\ \A j \in HttpClients :
               /\ httpClient'[j].owner = httpClient[j].owner
               /\ httpClient'[j].borrowed = httpClient[j].borrowed
               /\ httpClient'[j].is = IF j = i THEN "closed" ELSE httpClient[j].is
      BY <2>0, <2>11 DEF CloseClient, PoolKinds, HttpClientType, Those
    <3>2. /\ sender' = sender /\ pid' = pid /\ poolClosed' = poolClosed
          /\ secret' = secret /\ lastKey' = lastKey
      BY <2>11 DEF CloseClient
    <3>3. PoolKinds'
      BY <2>0, <3>1, <3>2 DEF PoolKinds
    <3>4. \A j \in HttpClients : Borrowers(j)' = Borrowers(j)
      BY <3>2 DEF Borrowers
    <3> QED
      BY <3>1, <3>2, <3>3, <3>4 DEF LoansAreCounted
  <2>12. CASE Fork
    <3>1. /\ pid = 1 /\ pid' = 2 /\ httpClient' = httpClient /\ poolClosed' = poolClosed
          /\ secret' = secret /\ lastKey' = lastKey
          /\ sender' \in [Senders -> SenderType]
          /\ \A s \in Senders : sender'[s].at = "idle"
      BY <2>00, <2>12 DEF Fork, NotSending
    <3>2. PoolKinds'
      BY <2>0, <3>1 DEF PoolKinds
    <3>3. \A i \in HttpClients : httpClient[i].owner \in 0..2
      BY <2>0 DEF PoolKinds, HttpClientType
    <3> QED
      BY <3>1, <3>2, <3>3 DEF LoansAreCounted
  <2> QED
    BY <2>1, <2>2, <2>4, <2>5, <2>6, <2>7, <2>8, <2>9, <2>10, <2>11, <2>12 DEF PoolNext
<1> QED
  BY <1>1, <1>2, PTL DEF PoolSpec

LEMMA PoolTyped == PoolSpec => []PoolTypeOK
<1>1. LoansAreCounted => PoolTypeOK
  BY DEF LoansAreCounted, PoolKinds, HttpClientType, SenderType, PoolTypeOK
<1> QED
  BY <1>1, LoansKept, PTL

\* Rotation, retirement and a fork leave whoever borrows an open client of its
\* own process, and a retired client that is still open has somebody to close it.
THEOREM BorrowersAreSpared == PoolSpec => []RotationSparesBorrowers
<1>1. LoansAreCounted => RotationSparesBorrowers
  <2> SUFFICES ASSUME LoansAreCounted PROVE RotationSparesBorrowers
    OBVIOUS
  <2>1. ASSUME NEW i \in Those("retiring"), httpClient[i].owner = pid
        PROVE  \E s \in Senders : sender[s].at = "borrowing" /\ sender[s].on = i
    <3>1. i \in HttpClients /\ httpClient[i].is = "retiring"
      BY DEF Those
    <3>2. /\ IsFiniteSet(Borrowers(i))
          /\ httpClient[i].borrowed = Cardinality(Borrowers(i)) /\ httpClient[i].borrowed > 0
      BY <2>1, <3>1 DEF LoansAreCounted
    <3>3. Borrowers(i) # {}
      BY <3>2, FS_EmptySet
    <3> QED
      BY <3>3 DEF Borrowers
  <2> QED
    BY <2>1 DEF LoansAreCounted, RotationSparesBorrowers
<1> QED
  BY <1>1, LoansKept, PTL

-----------------------------------------------------------------------------
(* A child process of a tool server.                                         *)

RequestType ==
  [at: {"idle", "spawning", "opened", "waiting", "answered", "failed"}, id: Nat,
   on: 0..Spawns, got: SUBSET Requests]

ChildType == [is: {"unborn", "running", "exited"}, read: BOOLEAN, asked: SUBSET (Nat \X Requests)]

ChildKinds ==
  /\ request \in [Requests -> RequestType]
  /\ child \in [1..Spawns -> ChildType]
  /\ process \in 0..Spawns /\ lastId \in Nat
  /\ closing \in [at: {"open", "exit", "readers", "closed"}, child: 0..Spawns, reader: 0..Spawns]

\* Ids are given out once: what a child was asked under the id that a request
\* waits with is that request's.
IdsAreTheirs ==
  /\ \A q \in Requests :
       /\ request[q].id <= lastId
       /\ request[q].at = "opened" => process # 0
       /\ request[q].at = "waiting" => request[q].on # 0
       /\ request[q].at = "answered" => request[q].got = {q}
  /\ \A k \in 1..Spawns : \A ask \in child[k].asked :
       /\ 0 < ask[1] /\ ask[1] <= lastId
       /\ \A q \in Waiting : request[q].id = ask[1] => ask[2] = q

\* The child that close goes for is there, and once gone it is sent nothing.
ClosedForGood ==
  /\ closing.at \in {"exit", "readers"} => closing.child # 0 /\ process # 0
  /\ closing.at = "readers" => closing.reader # 0
  /\ closing.at \in {"readers", "closed"} /\ closing.child # 0 =>
       child[closing.child].is = "exited"
  /\ closing.at = "closed" => \A q \in Waiting : request[q].on # closing.child

\* Failing everybody who waits changes nothing else.
LEMMA FailingAll ==
  ASSUME ChildKinds
  PROVE  /\ AllFailed \in [Requests -> RequestType]
         /\ \A q \in Requests :
              /\ AllFailed[q].id = request[q].id /\ AllFailed[q].on = request[q].on
              /\ AllFailed[q].got = request[q].got
              /\ AllFailed[q].at = IF request[q].at = "waiting" THEN "failed" ELSE request[q].at
<1>1. \A q \in Requests : AllFailed[q] \in RequestType
  BY DEF ChildKinds, AllFailed, RequestType
<1>2. \A q \in Requests :
        /\ AllFailed[q].id = request[q].id /\ AllFailed[q].on = request[q].on
        /\ AllFailed[q].got = request[q].got
        /\ AllFailed[q].at = IF request[q].at = "waiting" THEN "failed" ELSE request[q].at
  BY DEF ChildKinds, AllFailed, RequestType, Waiting
<1> QED
  BY <1>1, <1>2 DEF AllFailed

LEMMA ChildKindsKept == ChildSpec => []ChildKinds
<1>1. ChildInit => ChildKinds
  <2> SUFFICES ASSUME ChildInit PROVE ChildKinds
    OBVIOUS
  <2>1. NewRequest \in RequestType /\ Unborn \in ChildType /\ 0 \in 0..Spawns
    BY ChildAssumption DEF NewRequest, RequestType, Unborn, ChildType
  <2> QED
    BY <2>1 DEF ChildInit, ChildKinds, NotClosing
<1>2. ChildKinds /\ [ChildNext]_childVars => ChildKinds'
  <2> SUFFICES ASSUME ChildKinds, [ChildNext]_childVars PROVE ChildKinds'
    OBVIOUS
  <2>1. request \in [Requests -> RequestType]
    BY DEF ChildKinds
  <2>2. child \in [1..Spawns -> ChildType]
    BY DEF ChildKinds
  <2>3. /\ process \in 0..Spawns /\ lastId \in Nat
        /\ closing \in [at: {"open", "exit", "readers", "closed"}, child: 0..Spawns,
                       reader: 0..Spawns]
    BY DEF ChildKinds
  <2>4. NextId \in Nat
    BY <2>3 DEF NextId
  <2>5. request' \in [Requests -> RequestType]
    <3>1. ASSUME NEW q \in Requests, NEW at \in {"opened", "spawning", "failed"}, Moves(q, at)
          PROVE  request' \in [Requests -> RequestType]
      BY <2>1, <3>1 DEF Moves, RequestType
    <3>2. ASSUME NEW q \in Requests, LookForChild(q) \/ Spawned(q) \/ SpawnFails(q) \/ GivesUp(q)
          PROVE  \E at \in {"opened", "spawning", "failed"} : Moves(q, at)
      BY <3>2 DEF LookForChild, Spawned, SpawnFails, GivesUp
    <3>3. ASSUME NEW q \in Requests, Send(q) PROVE request' \in [Requests -> RequestType]
      <4>1. CASE Moves(q, "failed")
        BY <3>1, <4>1
      <4>2. CASE request' = [request EXCEPT ![q] = [@ EXCEPT !.at = "waiting", !.id = NextId,
                                                             !.on = process]]
        <5>1. request[q] \in RequestType
          BY <2>1
        <5>2. [request[q] EXCEPT !.at = "waiting", !.id = NextId, !.on = process] \in RequestType
          BY <2>3, <2>4, <5>1 DEF RequestType
        <5> QED
          BY <2>1, <4>2, <5>2
      <4> QED
        BY <3>3, <4>1, <4>2 DEF Send
    <3>4. ASSUME NEW k \in 1..Spawns, NEW ask \in child[k].asked, Reply(k, ask)
          PROVE  request' \in [Requests -> RequestType]
      <4>1. ask[2] \in Requests
        BY <2>2 DEF ChildType
      <4>2. \A q \in Requests : request'[q] \in RequestType
        BY Zenon, <2>1, <3>4, <4>1 DEF Reply, RequestType
      <4> QED
        BY Zenon, <3>4, <4>2 DEF Reply
    <3>5. AllFailed \in [Requests -> RequestType]
      BY FailingAll
    <3> QED
      BY <2>1, <3>1, <3>2, <3>3, <3>4, <3>5
         DEF ChildNext, ReaderEnds, ChildExits, Close, Reaped, CloseReturns, childVars
  <2>6. child' \in [1..Spawns -> ChildType] /\ process' \in 0..Spawns
    <3>1. ASSUME NEW q \in Requests, Spawned(q)
          PROVE  child' \in [1..Spawns -> ChildType] /\ process' \in 0..Spawns
      <4>1. [is |-> "running", read |-> TRUE, asked |-> {}] \in ChildType
        BY DEF ChildType
      <4> QED
        BY <2>2, <3>1, <4>1 DEF Spawned
    <3>2. ASSUME NEW q \in Requests, Send(q) PROVE child' \in [1..Spawns -> ChildType]
      <4>1. CASE child' = child
        BY <2>2, <4>1
      <4>2. CASE child' = [child EXCEPT ![process].asked = @ \cup {<<NextId, q>>}]
        <5>1. \A r \in ChildType : [r EXCEPT !.asked = @ \cup {<<NextId, q>>}] \in ChildType
          <6>1. <<NextId, q>> \in Nat \X Requests
            BY <2>4
          <6> QED
            BY <6>1 DEF ChildType
        <5> QED
          BY <2>2, <4>2, <5>1
      <4> QED
        BY <3>2, <4>1, <4>2 DEF Send
    <3>3. ASSUME NEW k \in 1..Spawns, ReaderEnds(k) \/ ChildExits(k)
          PROVE  child' \in [1..Spawns -> ChildType]
      <4>1. \A r \in ChildType : /\ [r EXCEPT !.read = FALSE] \in ChildType
                                /\ [r EXCEPT !.is = "exited"] \in ChildType
        BY DEF ChildType
      <4>2. CASE child' = [child EXCEPT ![k].read = FALSE]
        BY <2>2, <4>1, <4>2
      <4>3. CASE child' = [child EXCEPT ![k].is = "exited"]
        BY <2>2, <4>1, <4>3
      <4> QED
        BY <3>3, <4>2, <4>3 DEF ReaderEnds, ChildExits
    <3>4. ASSUME NEW k \in 1..Spawns, NEW ask \in child[k].asked, Reply(k, ask)
          PROVE  child' \in [1..Spawns -> ChildType]
      <4>1. child' = [child EXCEPT ![k].asked = @ \ {ask}]
        BY Zenon, <3>4 DEF Reply
      <4>2. \A r \in ChildType : [r EXCEPT !.asked = @ \ {ask}] \in ChildType
        BY DEF ChildType
      <4> QED
        BY <2>2, <4>1, <4>2
    <3>5. ASSUME Reaped \/ CloseReturns PROVE child' \in [1..Spawns -> ChildType]
      <4>1. \A r \in ChildType : /\ [r EXCEPT !.read = FALSE] \in ChildType
                                /\ [r EXCEPT !.is = "exited"] \in ChildType
        BY DEF ChildType
      <4>2. CASE child' = [child EXCEPT ![closing.reader].read = FALSE]
        BY <2>2, <4>1, <4>2
      <4>3. CASE child' = [child EXCEPT ![closing.child].is = "exited"]
        BY <2>2, <4>1, <4>3
      <4> QED
        BY <3>5, <4>2, <4>3 DEF Reaped, CloseReturns
    <3>6. ASSUME NEW q \in Requests, LookForChild(q) \/ SpawnFails(q) \/ GivesUp(q)
          PROVE  child' = child /\ process' = process
      BY <3>6 DEF LookForChild, SpawnFails, GivesUp
    <3>7. ~(\E q \in Requests : Spawned(q)) => process' = process
      BY Zenon, <3>6 DEF ChildNext, Send, Reply, ReaderEnds, ChildExits, Close, Reaped, CloseReturns,
                  childVars
    <3>8. Close \/ UNCHANGED childVars => child' = child
      BY DEF Close, childVars
    <3> QED
      BY <2>2, <2>3, <3>1, <3>2, <3>3, <3>4, <3>5, <3>6, <3>7, <3>8 DEF ChildNext
  <2>7. lastId' \in Nat
    BY Zenon, <2>3, <2>4 DEF ChildNext, LookForChild, Spawned, SpawnFails, GivesUp, Send, Reply, ReaderEnds,
                      ChildExits, Close, Reaped, CloseReturns, childVars
  <2>8. closing' \in [at: {"open", "exit", "readers", "closed"}, child: 0..Spawns,
                      reader: 0..Spawns]
    <3>1. CASE Close
      BY <2>3, <3>1, ChildAssumption DEF Close, NotClosing
    <3>2. CASE Reaped \/ CloseReturns
      BY <2>3, <3>2 DEF Reaped, CloseReturns
    <3> QED
      BY Zenon, <2>3, <3>1, <3>2 DEF ChildNext, LookForChild, Spawned, SpawnFails, GivesUp, Send, Reply,
                              ReaderEnds, ChildExits, childVars
  <2> QED
    BY <2>5, <2>6, <2>7, <2>8 DEF ChildKinds
<1> QED
  BY <1>1, <1>2, PTL DEF ChildSpec

\* A request that only gets further, without beginning to wait or being answered.
LEMMA GettingOn ==
  ASSUME ChildKinds, ChildKinds', IdsAreTheirs, ClosedForGood, lastId <= lastId',
         process' = process \/ process' # 0,
         \A q \in Requests :
           /\ request'[q].id = request[q].id /\ request'[q].on = request[q].on
           /\ request'[q].got = request[q].got
           /\ \/ request'[q].at = request[q].at
              \/ request'[q].at \in {"spawning", "failed"}
              \/ request'[q].at = "opened" /\ process' # 0,
         \A k \in 1..Spawns :
           /\ child'[k].asked \subseteq child[k].asked
           /\ child[k].is = "exited" => child'[k].is = "exited",
         closing' = closing
  PROVE  IdsAreTheirs' /\ ClosedForGood'
<1>1. \A q \in Waiting' : q \in Waiting /\ q \in Requests
  BY DEF Waiting
<1>2. ASSUME NEW q \in Requests
      PROVE  /\ request'[q].id <= lastId'
             /\ request'[q].at = "opened" => process' # 0
             /\ request'[q].at = "waiting" => request'[q].on # 0
             /\ request'[q].at = "answered" => request'[q].got = {q}
  <2>1. request[q].id \in Nat /\ lastId \in Nat /\ lastId' \in Nat
    BY DEF ChildKinds, RequestType
  <2> QED
    BY <2>1 DEF IdsAreTheirs
<1>3. ASSUME NEW k \in 1..Spawns, NEW ask \in child'[k].asked
      PROVE  /\ 0 < ask[1] /\ ask[1] <= lastId'
             /\ \A q \in Waiting' : request'[q].id = ask[1] => ask[2] = q
  <2>1. ask \in child[k].asked
    OBVIOUS
  <2>2. ask \in Nat \X Requests
    <3>1. child[k] \in ChildType
      BY DEF ChildKinds
    <3> QED
      BY <2>1, <3>1 DEF ChildType
  <2>3. lastId \in Nat /\ lastId' \in Nat
    BY DEF ChildKinds
  <2> QED
    BY <1>1, <2>1, <2>2, <2>3 DEF IdsAreTheirs
<1>4. IdsAreTheirs'
  BY <1>2, <1>3 DEF IdsAreTheirs
<1>5. ClosedForGood'
  BY <1>1 DEF ClosedForGood, ChildKinds, Waiting
<1> QED
  BY <1>4, <1>5

\* The steps of a request before it is sent, its failing, and a child's exit.
LEMMA OnTheWay ==
  ASSUME ChildKinds, ChildKinds', IdsAreTheirs, ClosedForGood,
         \/ \E q \in Requests :
              \/ LookForChild(q) \/ Spawned(q) \/ SpawnFails(q) \/ GivesUp(q)
              \/ Send(q) /\ Moves(q, "failed") /\ child' = child
         \/ \E k \in 1..Spawns : ReaderEnds(k) \/ ChildExits(k)
         \/ UNCHANGED childVars
  PROVE  IdsAreTheirs' /\ ClosedForGood'
<1>1. /\ request \in [Requests -> RequestType]
      /\ child \in [1..Spawns -> ChildType] /\ lastId \in Nat
  BY DEF ChildKinds
<1>2. closing' = closing
  BY Zenon DEF LookForChild, Spawned, SpawnFails, GivesUp, Send, ReaderEnds, ChildExits, childVars
<1>3. lastId <= lastId'
  <2>1. lastId' = lastId \/ lastId' = NextId
    BY Zenon DEF LookForChild, Spawned, SpawnFails, GivesUp, Send, ReaderEnds, ChildExits, childVars
  <2> QED
    BY <1>1, <2>1 DEF NextId
<1>4. process' = process \/ process' # 0
  <2>1. ASSUME NEW q \in Requests, Spawned(q) PROVE process' # 0
    BY <2>1 DEF Spawned
  <2> QED
    BY Zenon, <2>1 DEF LookForChild, SpawnFails, GivesUp, Send, ReaderEnds, ChildExits, childVars
<1>5. /\ \A q \in Requests :
           /\ request'[q].id = request[q].id /\ request'[q].on = request[q].on
           /\ request'[q].got = request[q].got
           /\ \/ request'[q].at = request[q].at
              \/ request'[q].at \in {"spawning", "failed"}
              \/ request'[q].at = "opened" /\ process' # 0
  <2>1. ASSUME NEW q \in Requests, NEW at \in {"spawning", "failed", "opened"}, Moves(q, at),
               at = "opened" => process' # 0
        PROVE  \A p \in Requests :
           /\ request'[p].id = request[p].id /\ request'[p].on = request[p].on
           /\ request'[p].got = request[p].got
           /\ \/ request'[p].at = request[p].at
              \/ request'[p].at \in {"spawning", "failed"}
              \/ request'[p].at = "opened" /\ process' # 0
    BY <1>1, <2>1 DEF Moves, RequestType
  <2>2. ASSUME NEW q \in Requests,
               \/ LookForChild(q) \/ Spawned(q) \/ SpawnFails(q) \/ GivesUp(q)
               \/ Send(q) /\ Moves(q, "failed")
        PROVE  \/ Moves(q, "spawning") \/ Moves(q, "failed")
               \/ Moves(q, "opened") /\ process' # 0
    <3>1. CASE LookForChild(q)
      <4>1. CASE process # 0
        <5>1. Moves(q, "opened") /\ process' = process
          BY <3>1, <4>1 DEF LookForChild
        <5> QED
          BY <4>1, <5>1
      <4>2. CASE process = 0 /\ closing.at = "open"
        <5>1. Moves(q, "spawning")
          BY <3>1, <4>2 DEF LookForChild
        <5> QED
          BY <5>1
      <4>3. CASE process = 0 /\ closing.at # "open"
        <5>1. Moves(q, "failed")
          BY <3>1, <4>3 DEF LookForChild
        <5> QED
          BY <5>1
      <4> QED
        BY <4>1, <4>2, <4>3
    <3>2. CASE Spawned(q)
      <4>1. Moves(q, "opened")
        BY <3>2 DEF Spawned
      <4>2. process' # 0
        BY <3>2 DEF Spawned
      <4> QED
        BY <4>1, <4>2
    <3>3. CASE SpawnFails(q) \/ GivesUp(q)
      <4>1. Moves(q, "failed")
        BY <3>3 DEF SpawnFails, GivesUp
      <4> QED
        BY <4>1
    <3> QED
      BY <2>2, <3>1, <3>2, <3>3
  <2>3. CASE request' = AllFailed
    BY <2>3, FailingAll
  <2>4. CASE request' = request
    BY <2>4
  <2> QED
    BY <2>1, <2>2, <2>3, <2>4 DEF ReaderEnds, ChildExits, childVars
<1>6. \A k \in 1..Spawns : /\ child'[k].asked \subseteq child[k].asked
                           /\ child[k].is = "exited" => child'[k].is = "exited"
  <2>1. ASSUME NEW q \in Requests, Spawned(q)
        PROVE  \A k \in 1..Spawns : /\ child'[k].asked \subseteq child[k].asked
                                    /\ child[k].is = "exited" => child'[k].is = "exited"
    BY <1>1, <2>1 DEF Spawned
  <2>2. ASSUME NEW j \in 1..Spawns, ReaderEnds(j) \/ ChildExits(j)
        PROVE  \A k \in 1..Spawns : /\ child'[k].asked \subseteq child[k].asked
                                    /\ child[k].is = "exited" => child'[k].is = "exited"
    <3>1. CASE ReaderEnds(j)
      BY <1>1, <3>1 DEF ReaderEnds, ChildType
    <3>2. CASE ChildExits(j)
      BY <1>1, <3>2 DEF ChildExits, ChildType
    <3> QED
      BY <2>2, <3>1, <3>2
  <2> QED
    BY <2>1, <2>2 DEF LookForChild, SpawnFails, GivesUp, childVars
<1> QED
  BY <1>2, <1>3, <1>4, <1>5, <1>6, GettingOn

LEMMA SentUnderNewId ==
  ASSUME ChildKinds, ChildKinds', IdsAreTheirs, ClosedForGood, NEW q \in Requests, Send(q),
         child[process].is = "running",
         request' = [request EXCEPT ![q] = [@ EXCEPT !.at = "waiting", !.id = NextId,
                                                     !.on = process]],
         child' = [child EXCEPT ![process].asked = @ \cup {<<NextId, q>>}]
  PROVE  IdsAreTheirs' /\ ClosedForGood'
<1>1. /\ request \in [Requests -> RequestType]
      /\ child \in [1..Spawns -> ChildType] /\ lastId \in Nat /\ process \in 0..Spawns
  BY DEF ChildKinds
<1>2. /\ lastId' = lastId + 1 /\ process' = process /\ closing' = closing
      /\ request[q].at = "opened"
  BY DEF Send, NextId
<1>3. process # 0 /\ process \in 1..Spawns
  BY <1>1, <1>2 DEF IdsAreTheirs
<1>4. /\ request'[q].at = "waiting" /\ request'[q].id = lastId + 1 /\ request'[q].on = process
      /\ \A p \in Requests \ {q} : request'[p] = request[p]
  BY <1>1 DEF RequestType, NextId
<1>5. /\ child'[process].asked = child[process].asked \cup {<<lastId + 1, q>>}
      /\ \A k \in 1..Spawns : child'[k].is = child[k].is
      /\ \A k \in (1..Spawns) \ {process} : child'[k] = child[k]
  BY <1>1, <1>3 DEF ChildType, NextId
<1>6. Waiting' = Waiting \cup {q}
  BY <1>4 DEF Waiting
<1>7. ASSUME NEW p \in Requests
      PROVE  /\ request'[p].id <= lastId'
             /\ request'[p].at = "opened" => process' # 0
             /\ request'[p].at = "waiting" => request'[p].on # 0
             /\ request'[p].at = "answered" => request'[p].got = {p}
  <2>1. request[p].id \in Nat
    BY <1>1 DEF RequestType
  <2> QED
    BY <1>1, <1>2, <1>3, <1>4, <2>1 DEF IdsAreTheirs
<1>8. ASSUME NEW k \in 1..Spawns, NEW ask \in child'[k].asked
      PROVE  /\ 0 < ask[1] /\ ask[1] <= lastId'
             /\ \A p \in Waiting' : request'[p].id = ask[1] => ask[2] = p
  <2>1. CASE ask \in child[k].asked
    <3>1. /\ 0 < ask[1] /\ ask[1] <= lastId
          /\ \A p \in Waiting : request[p].id = ask[1] => ask[2] = p
      BY <2>1 DEF IdsAreTheirs
    <3>2. ask[1] \in Nat
      <4>1. ask \in Nat \X Requests
        BY <1>1, <2>1 DEF ChildType
      <4> QED
        BY <4>1
    <3>3. ask[1] # lastId + 1
      BY <1>1, <3>1, <3>2
    <3> QED
      BY <1>1, <1>2, <1>4, <1>6, <3>1, <3>2, <3>3
  <2>2. CASE ask = <<lastId + 1, q>>
    <3>1. \A p \in Waiting : p \in Requests /\ request[p].id \in Nat /\ request[p].id <= lastId
      BY <1>1 DEF Waiting, IdsAreTheirs, RequestType
    <3>2. \A p \in Waiting \ {q} : request'[p].id # lastId + 1
      BY <1>1, <1>4, <3>1
    <3> QED
      BY <1>1, <1>2, <1>6, <2>2, <3>2
  <2> QED
    BY <1>5, <2>1, <2>2
<1>9. IdsAreTheirs'
  BY <1>7, <1>8 DEF IdsAreTheirs
<1>10. ClosedForGood'
  <2>1. closing.at \in {"readers", "closed"} => closing.child # process
    BY <1>3 DEF ClosedForGood
  <2>2. \A p \in Waiting \ {q} : request'[p].on = request[p].on
    BY <1>4 DEF Waiting
  <2>3. closing.child \in 0..Spawns
    BY DEF ChildKinds
  <2> QED
    BY <1>2, <1>3, <1>4, <1>5, <1>6, <2>1, <2>2, <2>3 DEF ClosedForGood
<1> QED
  BY <1>9, <1>10

LEMMA RepliedInTurn ==
  ASSUME ChildKinds, ChildKinds', IdsAreTheirs, ClosedForGood, NEW k \in 1..Spawns,
         NEW ask \in child[k].asked, Reply(k, ask)
  PROVE  IdsAreTheirs' /\ ClosedForGood'
<1>1. /\ request \in [Requests -> RequestType]
      /\ child \in [1..Spawns -> ChildType] /\ lastId \in Nat
  BY DEF ChildKinds
<1>2. lastId' = lastId /\ process' = process /\ closing' = closing
  BY Zenon DEF Reply
<1>3. \A j \in 1..Spawns : child'[j].is = child[j].is /\ child'[j].asked \subseteq child[j].asked
  BY Zenon, <1>1 DEF Reply, ChildType
<1>4. ASSUME NEW q \in Requests
      PROVE  /\ request'[q].id = request[q].id /\ request'[q].on = request[q].on
             /\ \/ request'[q] = request[q]
                \/ q \in Waiting /\ request'[q].at = "answered" /\ request'[q].got = {q}
  <2>1. CASE q \in Waiting /\ request[q].id = ask[1]
    <3>1. ask[2] = q
      BY <2>1 DEF IdsAreTheirs
    <3>2. request'[q] = [request[q] EXCEPT !.at = "answered", !.got = {ask[2]}]
      BY Zenon, <2>1 DEF Reply
    <3>3. request[q] \in RequestType
      BY <1>1
    <3> QED
      BY <2>1, <3>1, <3>2, <3>3 DEF RequestType
  <2>2. CASE ~(q \in Waiting /\ request[q].id = ask[1])
    BY Zenon, <2>2 DEF Reply
  <2> QED
    BY <2>1, <2>2
<1>5. \A q \in Waiting' : q \in Waiting /\ q \in Requests
  BY <1>4 DEF Waiting
<1>6. IdsAreTheirs'
  <2>1. \A q \in Requests :
          /\ request'[q].id <= lastId'
          /\ request'[q].at = "opened" => process' # 0
          /\ request'[q].at = "waiting" => request'[q].on # 0
          /\ request'[q].at = "answered" => request'[q].got = {q}
    BY <1>2, <1>4 DEF IdsAreTheirs
  <2>2. \A j \in 1..Spawns : \A a \in child'[j].asked :
          /\ 0 < a[1] /\ a[1] <= lastId'
          /\ \A q \in Waiting' : request'[q].id = a[1] => a[2] = q
    BY <1>2, <1>3, <1>4, <1>5 DEF IdsAreTheirs
  <2> QED
    BY <2>1, <2>2 DEF IdsAreTheirs
<1>7. ClosedForGood'
  <2>1. closing.child \in 0..Spawns
    BY DEF ChildKinds
  <2> QED
    BY <1>2, <1>3, <1>4, <1>5, <2>1 DEF ClosedForGood
<1> QED
  BY <1>6, <1>7

LEMMA IdsKept == ChildSpec => [](ChildKinds /\ IdsAreTheirs /\ ClosedForGood)
<1>1. ChildInit => IdsAreTheirs /\ ClosedForGood
  BY DEF ChildInit, IdsAreTheirs, ClosedForGood, NewRequest, Unborn, NotClosing, Waiting
<1>2. /\ ChildKinds /\ ChildKinds' /\ IdsAreTheirs /\ ClosedForGood /\ [ChildNext]_childVars
      => IdsAreTheirs' /\ ClosedForGood'
  <2> SUFFICES ASSUME ChildKinds, ChildKinds', IdsAreTheirs, ClosedForGood, [ChildNext]_childVars
               PROVE  IdsAreTheirs' /\ ClosedForGood'
    OBVIOUS
  <2>1. ASSUME NEW q \in Requests, Send(q) PROVE IdsAreTheirs' /\ ClosedForGood'
    <3>1. CASE Moves(q, "failed") /\ child' = child
      BY <2>1, <3>1, OnTheWay
    <3>2. CASE /\ child[process].is = "running"
               /\ request' = [request EXCEPT ![q] = [@ EXCEPT !.at = "waiting", !.id = NextId,
                                                              !.on = process]]
               /\ child' = [child EXCEPT ![process].asked = @ \cup {<<NextId, q>>}]
      BY Zenon, <2>1, <3>2, SentUnderNewId
    <3> QED
      BY <2>1, <3>1, <3>2 DEF Send
  <2>2. CASE Close
    <3>1. /\ request' = request /\ child' = child /\ process' = process /\ lastId' = lastId
          /\ \/ /\ process = 0 /\ closing'.at = "closed" /\ closing'.child = 0
                /\ closing'.reader = 0
             \/ process # 0 /\ closing'.at = "exit" /\ closing'.child = process
      BY <2>2 DEF Close, NotClosing
    <3>2. Waiting' = Waiting
      BY <3>1 DEF Waiting
    <3>3. IdsAreTheirs'
      BY <3>1, <3>2 DEF IdsAreTheirs
    <3>4. ClosedForGood'
      BY <3>1, <3>2 DEF ClosedForGood, IdsAreTheirs, Waiting
    <3> QED
      BY <3>3, <3>4
  <2>3. CASE Reaped
    <3>1. child \in [1..Spawns -> ChildType] /\ closing.child \in 0..Spawns
      BY DEF ChildKinds
    <3>2. closing.child \in 1..Spawns /\ process # 0
      BY <2>3, <3>1 DEF Reaped, ClosedForGood
    <3>3. /\ request' = request /\ process' = process /\ lastId' = lastId
          /\ closing'.at = "readers" /\ closing'.reader = process
          /\ closing'.child = closing.child
      BY <2>3 DEF Reaped, ChildKinds
    <3>4. /\ child'[closing.child].is = "exited"
          /\ \A k \in 1..Spawns : child'[k].asked = child[k].asked
      BY <2>3, <3>1, <3>2 DEF Reaped, ChildType
    <3>5. Waiting' = Waiting
      BY <3>3 DEF Waiting
    <3>6. IdsAreTheirs'
      BY <3>3, <3>4, <3>5 DEF IdsAreTheirs
    <3>7. ClosedForGood'
      BY <3>2, <3>3, <3>4 DEF ClosedForGood
    <3> QED
      BY <3>6, <3>7
  <2>4. CASE CloseReturns
    <3>1. child \in [1..Spawns -> ChildType] /\ closing.child \in 0..Spawns
      BY DEF ChildKinds
    <3>2. /\ request' = AllFailed /\ process' = process /\ lastId' = lastId
          /\ closing.at = "readers" /\ closing'.at = "closed"
          /\ closing'.child = closing.child
      BY <2>4 DEF CloseReturns, ChildKinds
    <3>3. \A k \in 1..Spawns : child'[k].asked = child[k].asked /\ child'[k].is = child[k].is
      BY <2>4, <3>1 DEF CloseReturns, ChildType
    <3>4. \A q \in Requests :
            /\ request'[q].id = request[q].id /\ request'[q].on = request[q].on
            /\ request'[q].got = request[q].got
            /\ request'[q].at = IF request[q].at = "waiting" THEN "failed" ELSE request[q].at
      BY <3>2, FailingAll
    <3>5. Waiting' = {}
      BY <3>4 DEF Waiting
    <3>6. IdsAreTheirs'
      BY <3>2, <3>3, <3>4, <3>5 DEF IdsAreTheirs
    <3>7. ClosedForGood'
      BY <3>1, <3>2, <3>3, <3>5 DEF ClosedForGood
    <3> QED
      BY <3>6, <3>7
  <2>5. ASSUME NEW q \in Requests, LookForChild(q) \/ Spawned(q) \/ SpawnFails(q) \/ GivesUp(q)
        PROVE  IdsAreTheirs' /\ ClosedForGood'
    BY <2>5, OnTheWay
  <2>6. ASSUME NEW k \in 1..Spawns, ReaderEnds(k) \/ ChildExits(k)
        PROVE  IdsAreTheirs' /\ ClosedForGood'
    BY <2>6, OnTheWay
  <2>7. ASSUME NEW k \in 1..Spawns, NEW ask \in child[k].asked, Reply(k, ask)
        PROVE  IdsAreTheirs' /\ ClosedForGood'
    BY <2>7, RepliedInTurn
  <2>8. CASE UNCHANGED childVars
    BY <2>8, OnTheWay
  <2> QED
    BY <2>1, <2>2, <2>3, <2>4, <2>5, <2>6, <2>7, <2>8 DEF ChildNext
<1> QED
  BY <1>1, <1>2, ChildKindsKept, PTL DEF ChildSpec

LEMMA ChildTyped == ChildSpec => []ChildTypeOK
<1>1. ChildKinds /\ IdsAreTheirs => ChildTypeOK
  <2> SUFFICES ASSUME ChildKinds, IdsAreTheirs PROVE ChildTypeOK
    OBVIOUS
  <2>1. ASSUME NEW q \in Requests
        PROVE  /\ request[q].at \in {"idle", "spawning", "opened", "waiting", "answered", "failed"}
               /\ request[q].id \in 0..lastId /\ request[q].on \in 0..Spawns
               /\ request[q].got \subseteq Requests
    <3>1. request[q] \in RequestType /\ lastId \in Nat /\ request[q].id <= lastId
      BY DEF ChildKinds, IdsAreTheirs
    <3> QED
      BY <3>1 DEF RequestType
  <2>2. ASSUME NEW k \in 1..Spawns
        PROVE  /\ child[k].is \in {"unborn", "running", "exited"}
               /\ child[k].read \in BOOLEAN
               /\ child[k].asked \subseteq (1..lastId) \X Requests
    <3>1. child[k] \in ChildType /\ lastId \in Nat
      BY DEF ChildKinds
    <3>2. ASSUME NEW ask \in child[k].asked PROVE ask \in (1..lastId) \X Requests
      <4>1. ask \in Nat \X Requests
        BY <3>1 DEF ChildType
      <4>2. 0 < ask[1] /\ ask[1] <= lastId
        BY DEF IdsAreTheirs
      <4> QED
        BY <3>1, <4>1, <4>2
    <3> QED
      BY <3>1, <3>2 DEF ChildType
  <2> QED
    BY <2>1, <2>2 DEF ChildKinds, ChildTypeOK
<1> QED
  BY <1>1, IdsKept, PTL

\* Who is answered has its own reply, and who waits for a child that close has
\* seen to is answered or failed, for any requests, spawns and closes.
THEOREM RequestsEnd == ChildSpec => []RequestsEndTruly
<1>1. IdsAreTheirs /\ ClosedForGood => RequestsEndTruly
  BY DEF IdsAreTheirs, ClosedForGood, RequestsEndTruly
<1> QED
  BY <1>1, IdsKept, PTL

-----------------------------------------------------------------------------
(* The lanes of tool calls.                                                  *)

LEMMA LanesTyped == LanesSpec => []LanesTypeOK
<1>1. LanesInit => LanesTypeOK
  BY DEF LanesInit, LanesTypeOK
<1>2. LanesTypeOK /\ [LanesNext]_laneVars => LanesTypeOK'
  BY DEF LanesTypeOK, LanesNext, Make, Enter, Finish, StopShort, laneVars
<1> QED
  BY <1>1, <1>2, PTL DEF LanesSpec

\* A call is under way only inside calls that are let in.
CallersAreIn ==
  \A c \in LaneCalls : laneAt[c] \in 1..5 => \A a \in laneLoad.above[c] : laneAt[a] = 5

LEMMA LoadsNest ==
  ASSUME LanesTypeOK
  PROVE  /\ laneAt \in [LaneCalls -> 0..6]
         /\ \A c \in LaneCalls :
              /\ laneLoad.above[c] \subseteq LaneCalls
              /\ c \notin laneLoad.above[c]
              /\ \A a \in laneLoad.above[c] :
                   laneLoad.above[a] \subseteq laneLoad.above[c]
                   /\ laneLoad.tenant[a] = laneLoad.tenant[c]
              /\ \A d \in LaneCalls : laneLoad.turn[d] = laneLoad.turn[c] =>
                   laneLoad.above[d] = laneLoad.above[c] /\ laneLoad.tenant[d] = laneLoad.tenant[c]
              /\ laneLoad.tool[c] \in LaneTools
<1>1. laneLoad \in LaneLoads /\ laneAt \in [LaneCalls -> 0..6]
  BY DEF LanesTypeOK
<1>2. laneLoad \in [above: [LaneCalls -> SUBSET LaneCalls],
                    turn: [LaneCalls -> LaneTurns],
                    tenant: [LaneCalls -> LaneTenants],
                    tool: [LaneCalls -> LaneTools]]
  BY <1>1, LaneAssumption
<1>3. /\ laneLoad.above \in [LaneCalls -> SUBSET LaneCalls]
      /\ laneLoad.tool \in [LaneCalls -> LaneTools]
  BY <1>2
<1> QED
  BY <1>1, <1>3, LaneAssumption

LEMMA CallersStayIn == LanesSpec => [](LanesTypeOK /\ CallersAreIn)
<1>1. LanesInit => CallersAreIn
  BY DEF LanesInit, CallersAreIn
<1>2. LanesTypeOK /\ CallersAreIn /\ [LanesNext]_laneVars => CallersAreIn'
  <2> SUFFICES ASSUME LanesTypeOK, CallersAreIn, [LanesNext]_laneVars PROVE CallersAreIn'
    OBVIOUS
  <2>1. ASSUME NEW c \in LaneCalls, Make(c) PROVE CallersAreIn'
    BY <2>1, LoadsNest DEF Make, CallersAreIn
  <2>2. ASSUME NEW c \in LaneCalls, Enter(c) PROVE CallersAreIn'
    <3>1. laneAt'[c] \in 1..5 /\ laneAt[c] \in 1..4
      BY <2>2, LoadsNest DEF Enter
    <3> QED
      BY <2>2, <3>1, LoadsNest DEF Enter, CallersAreIn
  <2>3. ASSUME NEW c \in LaneCalls, Finish(c) PROVE CallersAreIn'
    BY <2>3, LoadsNest DEF Finish, CallersAreIn, Below
  <2>4. ASSUME NEW c \in LaneCalls, StopShort(c) PROVE CallersAreIn'
    BY <2>4, LoadsNest DEF StopShort, CallersAreIn, Below
  <2>5. CASE UNCHANGED laneVars
    BY <2>5 DEF laneVars, CallersAreIn
  <2> QED
    BY <2>1, <2>2, <2>3, <2>4, <2>5 DEF LanesNext
<1> QED
  BY <1>1, <1>2, LanesTyped, PTL DEF LanesSpec

\* Who waits for a lane waits for somebody who is past it, and whose own it is.
LEMMA WaitsForAHolder ==
  ASSUME LanesTypeOK, NEW c \in LaneCalls, laneAt[c] \in 1..4, ~LetIn(c)
  PROVE  /\ ~Inherited(c, laneAt[c])
         /\ \E h \in LaneCalls :
              /\ laneAt[h] \in (laneAt[c] + 1)..5
              /\ Lane(h, laneAt[c]) = Lane(c, laneAt[c])
              /\ ~Inherited(h, laneAt[c])
              /\ h \in Standing(Lane(c, laneAt[c]))
<1> DEFINE k == laneAt[c]
           there == Standing(Lane(c, k))
<1>1. ~Inherited(c, k) /\ ~(Cardinality(there) < Width(c, k))
  BY DEF LetIn
<1>2. Width(c, k) \in Nat \ {0}
  BY LoadsNest, LaneAssumption DEF Width
<1>3. there # {}
  BY <1>1, <1>2, FS_EmptySet
<1>4. PICK h \in there : TRUE
  BY <1>3
<1>5. h \in LaneCalls
  BY <1>4 DEF Standing
<1>6. PICK j \in 1..4 : laneAt[h] \in (j + 1)..5 /\ Lane(h, j) = Lane(c, k) /\ ~Inherited(h, j)
  BY <1>4 DEF Standing
<1>7. j = k
  BY <1>6 DEF Lane
<1> QED
  BY <1>1, <1>4, <1>5, <1>6, <1>7

\* What the lanes of two calls say of them when they are the same.
LEMMA SameLane ==
  ASSUME LanesTypeOK, NEW c \in LaneCalls, NEW h \in LaneCalls
  PROVE  /\ Lane(h, 2) = Lane(c, 2) => laneLoad.above[h] = laneLoad.above[c]
         /\ Lane(h, 4) = Lane(c, 4) => /\ laneLoad.above[h] = laneLoad.above[c]
                                       /\ Lane(h, 3) = Lane(c, 3)
                                       /\ Inherited(h, 3) <=> Inherited(c, 3)
         /\ laneLoad.above[c] # {} => Inherited(c, 1)
<1>1. Lane(h, 2) = Lane(c, 2) => laneLoad.above[h] = laneLoad.above[c]
  BY LoadsNest DEF Lane
<1>2. Lane(h, 4) = Lane(c, 4) => /\ laneLoad.above[h] = laneLoad.above[c]
                                 /\ laneLoad.tool[h] = laneLoad.tool[c]
  BY LoadsNest DEF Lane
<1>3. laneLoad.tool[h] = laneLoad.tool[c] => Lane(h, 3) = Lane(c, 3)
  BY DEF Lane
<1>4. \A a \in laneLoad.above[c] : Lane(a, 1) = Lane(c, 1)
  BY LoadsNest DEF Lane
<1>5. laneLoad.above[h] = laneLoad.above[c] /\ Lane(h, 3) = Lane(c, 3)
        => (Inherited(h, 3) <=> Inherited(c, 3))
  BY DEF Inherited
<1> QED
  BY <1>1, <1>2, <1>3, <1>4, <1>5 DEF Inherited

\* The nested calls that wait for a tool.
NestedAtTool == {c \in LaneCalls : laneAt[c] = 3 /\ laneLoad.above[c] # {}}

\* In a jam a call that is let in has a nested call that waits for a tool: of those
\* under way inside it, one of the deepest, or one that holds the place among the
\* turn's own which that one waits for.
LEMMA InsideWaitsForATool ==
  ASSUME LanesTypeOK, CallersAreIn, Jammed, NEW y \in LaneCalls, laneAt[y] = 5
  PROVE  \E d \in NestedAtTool : y \in laneLoad.above[d]
<1> DEFINE inside == {d \in LaneCalls : y \in laneLoad.above[d] /\ laneAt[d] \in 1..5}
           depths == {n \in 0..Cardinality(LaneCalls) :
                        \E d \in inside : n = Cardinality(laneLoad.above[d])}
<1>1. inside # {}
  BY DEF Jammed, Below
<1>2. \A d \in LaneCalls : /\ IsFiniteSet(laneLoad.above[d])
                           /\ Cardinality(laneLoad.above[d]) \in 0..Cardinality(LaneCalls)
  <2> TAKE d \in LaneCalls
  <2>1. /\ IsFiniteSet(laneLoad.above[d])
        /\ Cardinality(laneLoad.above[d]) <= Cardinality(LaneCalls)
    BY LoadsNest, LaneAssumption, FS_Subset
  <2>2. Cardinality(laneLoad.above[d]) \in Nat /\ Cardinality(LaneCalls) \in Nat
    BY <2>1, LaneAssumption, FS_CardinalityType
  <2> QED
    BY <2>1, <2>2
<1>3. \A n \in depths : n \in Nat
  OBVIOUS
<1>4. IsFiniteSet(depths)
  <2>1. 0 \in Int /\ Cardinality(LaneCalls) \in Int
    BY LaneAssumption, FS_CardinalityType
  <2>2. IsFiniteSet(0..Cardinality(LaneCalls))
    BY <2>1, FS_Interval
  <2>3. depths \in SUBSET (0..Cardinality(LaneCalls))
    OBVIOUS
  <2> QED
    BY <2>2, <2>3, FS_Subset
<1>5. depths # {}
  BY <1>1, <1>2
<1>6. \E n \in depths : \A m \in depths : m <= n
  <2> HIDE DEF depths
  <2> QED
    BY <1>3, <1>4, <1>5, GreatestNatural
<1>7. PICK d \in inside : \A e \in inside :
        Cardinality(laneLoad.above[e]) <= Cardinality(laneLoad.above[d])
  BY <1>2, <1>6
<1>8. ASSUME NEW h \in inside, laneLoad.above[h] = laneLoad.above[d], laneAt[h] = 5 PROVE FALSE
  <2>1. PICK e \in Below(h) : laneAt[e] \in 1..5
    BY <1>8 DEF Jammed
  <2>2. e \in LaneCalls /\ h \in laneLoad.above[e]
    BY <2>1 DEF Below
  <2>3. laneLoad.above[h] \subseteq laneLoad.above[e] /\ h \notin laneLoad.above[h]
    BY <2>2, LoadsNest
  <2>4. e \in inside
    BY <2>1, <2>2, <2>3
  <2>5. /\ Cardinality(laneLoad.above[h] \cup {h}) = Cardinality(laneLoad.above[h]) + 1
        /\ Cardinality(laneLoad.above[h]) \in Nat
    BY <1>2, <2>3, OneMore
  <2>6. Cardinality(laneLoad.above[h] \cup {h}) <= Cardinality(laneLoad.above[e])
    BY <1>2, <2>2, <2>3, FS_Subset
  <2>7. Cardinality(laneLoad.above[e]) <= Cardinality(laneLoad.above[d])
    BY <1>7, <2>4
  <2>8. Cardinality(laneLoad.above[e]) \in Nat
    BY <1>2, <2>2
  <2> QED
    BY <1>8, <2>5, <2>6, <2>7, <2>8
<1> HIDE DEF depths
<1>9. ASSUME NEW h \in inside, laneLoad.above[h] = laneLoad.above[d], laneAt[h] = 4 PROVE FALSE
  <2>1. ~LetIn(h)
    BY <1>9 DEF Jammed
  <2>2. PICK g \in LaneCalls : laneAt[g] \in 5..5 /\ Lane(g, 4) = Lane(h, 4)
    BY <1>9, <2>1, WaitsForAHolder
  <2>3. laneLoad.above[g] = laneLoad.above[d]
    BY <1>9, <2>2, SameLane
  <2> QED
    BY <1>8, <2>2, <2>3
<1>10. laneAt[d] \in 1..3 /\ ~LetIn(d)
  BY <1>8, <1>9 DEF Jammed
<1>11. d \in LaneCalls /\ laneLoad.above[d] # {}
  OBVIOUS
<1>12. laneAt[d] # 1
  BY <1>10, <1>11, SameLane, WaitsForAHolder
<1>13. CASE laneAt[d] = 3
  BY <1>11, <1>13 DEF NestedAtTool
<1>14. CASE laneAt[d] = 2
  <2>1. PICK h \in LaneCalls : laneAt[h] \in 3..5 /\ Lane(h, 2) = Lane(d, 2)
    BY <1>10, <1>11, <1>14, WaitsForAHolder
  <2>2. laneLoad.above[h] = laneLoad.above[d]
    BY <1>11, <2>1, SameLane
  <2>3. h \in inside
    BY <2>1, <2>2
  <2>4. laneAt[h] = 3
    BY <1>8, <1>9, <2>1, <2>2, <2>3
  <2> QED
    BY <1>11, <2>2, <2>4 DEF NestedAtTool
<1> QED
  BY <1>10, <1>12, <1>13, <1>14

\* In a jam some call was let in: the call that got furthest would have nobody to
\* wait for.
LEMMA SomebodyIsIn ==
  ASSUME LanesTypeOK, Jammed
  PROVE  \E y \in LaneCalls : laneAt[y] = 5
<1> SUFFICES ASSUME \A y \in LaneCalls : laneAt[y] # 5 PROVE FALSE
  OBVIOUS
<1>1. ASSUME NEW c \in LaneCalls, laneAt[c] \in 1..4
      PROVE  \E h \in LaneCalls : laneAt[h] \in (laneAt[c] + 1)..4
  <2>1. ~LetIn(c)
    BY <1>1 DEF Jammed
  <2>2. PICK h \in LaneCalls : laneAt[h] \in (laneAt[c] + 1)..5
    BY <1>1, <2>1, WaitsForAHolder
  <2> QED
    BY <2>2
<1>2. \A c \in LaneCalls : laneAt[c] \notin 1..4
  <2>1. \A c \in LaneCalls : laneAt[c] # 4
    BY <1>1
  <2>2. \A c \in LaneCalls : laneAt[c] # 3
    BY <1>1, <2>1
  <2>3. \A c \in LaneCalls : laneAt[c] # 2
    BY <1>1, <2>1, <2>2
  <2>4. \A c \in LaneCalls : laneAt[c] # 1
    BY <1>1, <2>1, <2>2, <2>3
  <2> QED
    BY <2>1, <2>2, <2>3, <2>4
<1> QED
  BY <1>2 DEF Jammed

\* The lanes jam only where nested calls cross, for any calls, however they nest,
\* and any widths: the calls in a ring each wait for a tool that a caller of another
\* of them holds.
THEOREM OnlyCrossingsJam == LanesSpec => []JamsAreCrossings
<1>1. ASSUME LanesTypeOK, CallersAreIn PROVE JamsAreCrossings
  <2> SUFFICES ASSUME Jammed
               PROVE  \E ring \in SUBSET LaneCalls \ {{}} :
                        \A c \in ring : \E d \in ring \ {c} : WaitsForACallerOf(c, d)
    BY DEF JamsAreCrossings
  <2>1. NestedAtTool \in SUBSET LaneCalls /\ NestedAtTool # {}
    <3>1. PICK y \in LaneCalls : laneAt[y] = 5
      BY <1>1, SomebodyIsIn
    <3>2. \E d \in NestedAtTool : y \in laneLoad.above[d]
      BY <1>1, <3>1, InsideWaitsForATool
    <3> QED
      BY <3>2 DEF NestedAtTool
  <2>2. ASSUME NEW c \in NestedAtTool
        PROVE  \E d \in NestedAtTool \ {c} : WaitsForACallerOf(c, d)
    <3>1. c \in LaneCalls /\ laneAt[c] = 3 /\ laneLoad.above[c] # {} /\ ~LetIn(c)
      BY DEF NestedAtTool, Jammed
    <3>2. PICK h \in LaneCalls : /\ laneAt[h] \in 4..5 /\ Lane(h, 3) = Lane(c, 3)
                                 /\ ~Inherited(h, 3) /\ h \in Standing(Lane(c, 3))
      BY <1>1, <3>1, WaitsForAHolder
    <3>3. ~Inherited(c, 3)
      BY <1>1, <3>1, WaitsForAHolder
    <3>4. \E y \in LaneCalls : /\ laneAt[y] = 5 /\ Lane(y, 3) = Lane(c, 3)
                               /\ y \in Standing(Lane(c, 3))
      <4>1. CASE laneAt[h] = 5
        BY <3>2, <4>1
      <4>2. CASE laneAt[h] = 4
        <5>1. ~LetIn(h)
          BY <4>2 DEF Jammed
        <5>2. PICK g \in LaneCalls : laneAt[g] \in 5..5 /\ Lane(g, 4) = Lane(h, 4)
          BY <1>1, <4>2, <5>1, WaitsForAHolder
        <5>3. Lane(g, 3) = Lane(c, 3) /\ ~Inherited(g, 3)
          BY <1>1, <3>2, <5>2, SameLane
        <5>4. g \in Standing(Lane(c, 3))
          BY <5>2, <5>3 DEF Standing
        <5> QED
          BY <5>2, <5>3, <5>4
      <4> QED
        BY <3>2, <4>1, <4>2
    <3>5. PICK y \in LaneCalls : /\ laneAt[y] = 5 /\ Lane(y, 3) = Lane(c, 3)
                                 /\ y \in Standing(Lane(c, 3))
      BY <3>4
    <3>6. y \notin laneLoad.above[c]
      BY <3>3, <3>5 DEF Inherited
    <3>7. PICK d \in NestedAtTool : y \in laneLoad.above[d]
      BY <1>1, <3>5, InsideWaitsForATool
    <3>8. WaitsForACallerOf(c, d)
      BY <3>1, <3>5, <3>7 DEF WaitsForACallerOf
    <3> QED
      BY <3>6, <3>7, <3>8
  <2> QED
    BY <2>1, <2>2
<1>2. LanesTypeOK /\ CallersAreIn => JamsAreCrossings
  BY <1>1
<1> QED
  BY <1>2, CallersStayIn, PTL

-----------------------------------------------------------------------------
(* Compensation.                                                             *)

\* What outstanding lists: steps that are still open, and all of them when there
\* is none it lists.
LEMMA OutstandingSteps ==
  ASSUME SagaTypeOK
  PROVE  /\ Outstanding \in Seq(Tools)
         /\ Outstanding = <<>> => \A i \in DOMAIN sagaStep : applied[sagaStep[i]] = "none"
<1>1. /\ OpenSteps \in SUBSET Nat /\ OpenSteps \in SUBSET (1..Len(sagaStep))
      /\ \A i \in OpenSteps : sagaStep[i] \in Tools
  BY DEF SagaTypeOK, OpenSteps
<1>2. IsFiniteSet(OpenSteps)
  <2>1. Len(sagaStep) \in Nat
    BY DEF SagaTypeOK
  <2> QED
    BY <1>1, <2>1, CountUpTo, FS_Subset
<1>3. Cardinality(OpenSteps) \in Nat
  BY <1>2, FS_CardinalityType
<1>4. ASSUME NEW n \in 1..Cardinality(OpenSteps) PROVE sagaStep[Newest(n)] \in Tools
  <2> DEFINE k == Cardinality(OpenSteps) - n
  <2>1. k \in Nat /\ k < Cardinality(OpenSteps)
    BY <1>3
  <2>2. \E i \in OpenSteps : Cardinality({j \in OpenSteps : j < i}) = k
    <3> HIDE DEF k
    <3> QED
      BY <1>1, <1>2, <2>1, RankedElement
  <2>3. Newest(n) \in OpenSteps
    BY <2>2 DEF Newest
  <2> QED
    BY <1>1, <2>3
<1>5. Outstanding \in Seq(Tools)
  BY <1>3, <1>4 DEF Outstanding
<1>6. ASSUME Outstanding = <<>> PROVE OpenSteps = {}
  <2>1. DOMAIN Outstanding = 1..Cardinality(OpenSteps)
    BY DEF Outstanding
  <2>2. DOMAIN Outstanding = {}
    BY <1>6
  <2>3. Cardinality(OpenSteps) = 0
    BY <1>3, <2>1, <2>2
  <2> QED
    BY <1>2, <2>3, FS_EmptySet
<1> QED
  BY <1>5, <1>6 DEF OpenSteps

Walks == [at: {"no", "walking", "reversed", "raised",
               "CompensatedFailure", "CompensationIncomplete"},
          todo: Seq([tool: Tools, known: BOOLEAN]), tries: 0..Attempts, over: SUBSET Tools]

\* What an action of an unwind may make of it.
LEMMA WalksTyped ==
  ASSUME NEW w \in Walks
  PROVE  /\ w.todo # <<>> => /\ Tail(w.todo) \in Seq([tool: Tools, known: BOOLEAN])
                             /\ Head(w.todo) \in [tool: Tools, known: BOOLEAN]
                             /\ [w EXCEPT !.todo = Tail(@), !.tries = 0, !.at = "walking"] \in Walks
         /\ \A s \in Seq([tool: Tools, known: BOOLEAN]) :
              [NoWalk EXCEPT !.at = "walking", !.todo = s] \in Walks
         /\ [w EXCEPT !.at = "reversed"] \in Walks
         /\ [w EXCEPT !.at = "raised"] \in Walks
         /\ w.tries < Attempts => [w EXCEPT !.tries = @ + 1] \in Walks
         /\ \A over \in SUBSET Tools :
              /\ [w EXCEPT !.at = "CompensatedFailure", !.over = over] \in Walks
              /\ [w EXCEPT !.at = "CompensationIncomplete", !.over = over] \in Walks
<1>1. Attempts \in Nat /\ 0 \in 0..Attempts
  BY CompensationAssumption
<1>2. /\ w.todo # <<>> => /\ Tail(w.todo) \in Seq([tool: Tools, known: BOOLEAN])
                          /\ Head(w.todo) \in [tool: Tools, known: BOOLEAN]
                          /\ [w EXCEPT !.todo = Tail(@), !.tries = 0, !.at = "walking"] \in Walks
  <2>1. w.todo \in Seq([tool: Tools, known: BOOLEAN])
    BY DEF Walks
  <2>2. w.todo # <<>> => /\ Tail(w.todo) \in Seq([tool: Tools, known: BOOLEAN])
                         /\ Head(w.todo) \in [tool: Tools, known: BOOLEAN]
    <3>1. \A S : \A s \in Seq(S) : s # <<>> => Tail(s) \in Seq(S) /\ Head(s) \in S
      OBVIOUS
    <3> QED
      BY <2>1, <3>1
  <2> QED
    BY <1>1, <2>2 DEF Walks
<1>3. \A s \in Seq([tool: Tools, known: BOOLEAN]) :
              [NoWalk EXCEPT !.at = "walking", !.todo = s] \in Walks
  BY <1>1 DEF Walks, NoWalk
<1>4. [w EXCEPT !.at = "reversed"] \in Walks /\ [w EXCEPT !.at = "raised"] \in Walks
  BY DEF Walks
<1>5. w.tries < Attempts => [w EXCEPT !.tries = @ + 1] \in Walks
  BY <1>1 DEF Walks
<1>6. \A over \in SUBSET Tools :
              /\ [w EXCEPT !.at = "CompensatedFailure", !.over = over] \in Walks
              /\ [w EXCEPT !.at = "CompensationIncomplete", !.over = over] \in Walks
  BY DEF Walks
<1> QED
  BY Zenon, <1>2, <1>3, <1>4, <1>5, <1>6

\* The outstanding steps, as an unwind notes them down.
LEMMA NotedDown ==
  ASSUME SagaTypeOK
  PROVE  [i \in DOMAIN Outstanding |->
            [tool |-> Outstanding[i], known |-> applied[Outstanding[i]] = "known"]]
           \in Seq([tool: Tools, known: BOOLEAN])
<1>1. Outstanding \in Seq(Tools)
  BY OutstandingSteps
<1>2. DOMAIN Outstanding = 1..Len(Outstanding) /\ Len(Outstanding) \in Nat
  BY <1>1
<1>3. \A i \in DOMAIN Outstanding :
        [tool |-> Outstanding[i], known |-> applied[Outstanding[i]] = "known"]
          \in [tool: Tools, known: BOOLEAN]
  BY <1>1
<1> HIDE DEF Outstanding
<1> QED
  BY <1>2, <1>3

\* The effect of a step came before its call was over, and the world let it go.
Gone(t) == forward[t] \in {"effective", "returned", "adrift"} /\ t \notin inWorld

\* What keeps a clean unwind clean: what is known of a step, in the ledger, in
\* the list of an unwind or in the IdempotencyStore, was found out after its call
\* took effect, and so nothing takes effect again once a reversal did.
SagaKept ==
  /\ \A t \in Tools : applied[t] = "known" => forward[t] = "returned"
  /\ \A t \in kept : forward[t] \in {"effective", "returned", "adrift"}
  /\ \A u \in Unwinds : \A i \in DOMAIN unwinding[u].todo :
       unwinding[u].todo[i].known => forward[unwinding[u].todo[i].tool] = "returned"
  /\ \A u \in Unwinds : unwinding[u].at = "reversed" =>
       unwinding[u].todo # <<>> /\ Gone(Head(unwinding[u].todo).tool)
  /\ \A i \in DOMAIN sagaStep : applied[sagaStep[i]] = "none" => Gone(sagaStep[i])
  /\ \A u \in Unwinds : unwinding[u].at = "CompensatedFailure" =>
       \A t \in unwinding[u].over : Gone(t)

LEMMA SagaTypesStep ==
  ASSUME SagaTypeOK, SagaKept, [SagaNext]_sagaVars
  PROVE  SagaTypeOK'
<1>0. /\ saga \in Sagas
      /\ forward \in [Tools -> {"no", "called", "effective", "returned", "cut", "adrift"}]
      /\ inWorld \subseteq Tools /\ kept \subseteq Tools
      /\ sagaStep \in Seq(Tools)
      /\ applied \in [Tools -> {"none", "unknown", "known"}]
      /\ unwinding \in [Unwinds -> Walks]
  BY DEF SagaTypeOK, Walks
<1> DEFINE Typed == /\ saga' \in Sagas
      /\ forward' \in [Tools -> {"no", "called", "effective", "returned", "cut", "adrift"}]
      /\ inWorld' \subseteq Tools /\ kept' \subseteq Tools
      /\ sagaStep' \in Seq(Tools)
      /\ applied' \in [Tools -> {"none", "unknown", "known"}]
      /\ unwinding' \in [Unwinds -> Walks]
<1> SUFFICES Typed
  BY DEF SagaTypeOK, Walks
<1>1. ASSUME NEW t \in Tools, Record(t) PROVE Typed
  BY <1>0, <1>1 DEF Record
<1>2. ASSUME NEW t \in Tools, TakeEffect(t) PROVE Typed
  BY <1>0, <1>2 DEF TakeEffect
<1>3. ASSUME NEW t \in Tools, KeepOutcome(t) PROVE Typed
  BY <1>0, <1>3 DEF KeepOutcome
<1>4. ASSUME NEW t \in Tools, Return(t) PROVE Typed
  BY <1>0, <1>4 DEF Return
<1>5. ASSUME NEW t \in Tools, CutShort(t) PROVE Typed
  BY <1>0, <1>5 DEF CutShort
<1>6. ASSUME NEW u \in Unwinds, Unwind(u) PROVE Typed
  <2>1. unwinding' \in [Unwinds -> Walks]
    BY Zenon, <1>0, <1>6, WalksTyped, NotedDown DEF Unwind
  <2> QED
    BY <1>0, <1>6, <2>1 DEF Unwind
<1>7. ASSUME NEW u \in Unwinds, NEW settled \in BOOLEAN, unwinding[u].todo # <<>>,
             Account(u, settled)
      PROVE  applied' \in [Tools -> {"none", "unknown", "known"}] /\ unwinding' \in [Unwinds -> Walks]
  <2>1. Head(unwinding[u].todo).tool \in Tools
    BY Zenon, <1>0, <1>7, WalksTyped
  <2>2. unwinding' \in [Unwinds -> Walks]
    BY Zenon, <1>0, <1>7, WalksTyped DEF Account
  <2> QED
    BY <1>0, <1>7, <2>1, <2>2 DEF Account, Marked
<1>8. ASSUME NEW u \in Unwinds, LeaveStanding(u) PROVE Typed
  BY <1>0, <1>7, <1>8 DEF LeaveStanding, Walking
<1>9. ASSUME NEW u \in Unwinds, GiveUp(u) PROVE Typed
  BY <1>0, <1>7, <1>9 DEF GiveUp, Reversible, Walking
<1>10. ASSUME NEW u \in Unwinds, MarkReversed(u) PROVE Typed
  <2>1. unwinding[u].todo # <<>>
    BY <1>10 DEF MarkReversed, SagaKept
  <2> QED
    BY <1>0, <1>7, <1>10, <2>1 DEF MarkReversed
<1>11. ASSUME NEW u \in Unwinds, Reversed(u) PROVE Typed
  <2>1. unwinding' \in [Unwinds -> Walks]
    BY Zenon, <1>0, <1>11, WalksTyped DEF Reversed
  <2> QED
    BY <1>0, <1>11, <2>1 DEF Reversed
<1>12. ASSUME NEW u \in Unwinds, ReversalRaised(u) PROVE Typed
  <2>1. unwinding' \in [Unwinds -> Walks]
    BY Zenon, <1>0, <1>12, WalksTyped DEF ReversalRaised
  <2> QED
    BY <1>0, <1>12, <2>1 DEF ReversalRaised
<1>13. ASSUME NEW u \in Unwinds, QueryRaises(u) PROVE Typed
  <2>1. unwinding' \in [Unwinds -> Walks]
    BY Zenon, <1>0, <1>13, WalksTyped DEF QueryRaises
  <2> QED
    BY <1>0, <1>13, <2>1 DEF QueryRaises
<1>14. ASSUME NEW u \in Unwinds, Conclude(u) PROVE Typed
  <2>1. ToSet(sagaStep) \in SUBSET Tools
    BY <1>0 DEF ToSet
  <2>2. unwinding' \in [Unwinds -> Walks]
    BY Zenon, <1>0, <1>14, <2>1, WalksTyped DEF Conclude
  <2> QED
    BY <1>0, <1>14, <2>2 DEF Conclude
<1>15. CASE UNCHANGED sagaVars
  BY <1>0, <1>15 DEF sagaVars
<1> QED
  <2> HIDE DEF Typed
  <2> QED
    BY <1>1, <1>2, <1>3, <1>4, <1>5, <1>6, <1>8, <1>9, <1>10, <1>11, <1>12, <1>13, <1>14, <1>15
       DEF SagaNext

\* What has happened to a call stays so.
LEMMA WhatIsGoneStaysGone ==
  ASSUME SagaTypeOK, SagaKept, [SagaNext]_sagaVars, NEW t \in Tools
  PROVE  /\ Gone(t) => Gone(t)'
         /\ forward[t] = "returned" => forward'[t] = "returned"
         /\ forward[t] \in {"effective", "returned", "adrift"} =>
              forward'[t] \in {"effective", "returned", "adrift"}
<1> USE DEF Gone
<1>1. /\ forward \in [Tools -> {"no", "called", "effective", "returned", "cut", "adrift"}]
      /\ inWorld \subseteq Tools
  BY DEF SagaTypeOK
<1>2. CASE UNCHANGED forward /\ inWorld' \subseteq inWorld
  BY <1>2
<1>3. ASSUME NEW s \in Tools, Record(s) \/ Return(s) \/ CutShort(s) \/ TakeEffect(s)
      PROVE  /\ Gone(t) => Gone(t)'
             /\ forward[t] = "returned" => forward'[t] = "returned"
             /\ forward[t] \in {"effective", "returned", "adrift"} =>
                  forward'[t] \in {"effective", "returned", "adrift"}
  BY <1>1, <1>3 DEF Record, Return, CutShort, TakeEffect
<1>4. ASSUME NEW s \in Tools, KeepOutcome(s) PROVE UNCHANGED forward /\ inWorld' \subseteq inWorld
  BY <1>4 DEF KeepOutcome
<1>5. ASSUME NEW u \in Unwinds,
             \/ Unwind(u) \/ LeaveStanding(u) \/ Reversed(u) \/ ReversalRaised(u)
             \/ MarkReversed(u) \/ GiveUp(u) \/ QueryRaises(u) \/ Conclude(u)
      PROVE  UNCHANGED forward /\ inWorld' \subseteq inWorld
  BY <1>5 DEF Unwind, LeaveStanding, Reversed, ReversalRaised, MarkReversed, GiveUp, QueryRaises,
              Conclude
<1>6. CASE UNCHANGED sagaVars
  BY <1>6 DEF sagaVars
<1> QED
  BY <1>2, <1>3, <1>4, <1>5, <1>6 DEF SagaNext

\* An unwind that goes on to the next step of its list.
LEMMA GoingOnUnwinding ==
  ASSUME SagaTypeOK, SagaKept, [SagaNext]_sagaVars, NEW u \in Unwinds, unwinding[u].todo # <<>>,
         UNCHANGED <<saga, forward, inWorld, kept, sagaStep>>, NEW settled \in BOOLEAN,
         settled => Gone(Head(unwinding[u].todo).tool), Account(u, settled)
  PROVE  SagaKept'
<1> DEFINE one == Head(unwinding[u].todo)
<1>0. sagaStep \in Seq(Tools)
  BY DEF SagaTypeOK
<1>1. /\ applied \in [Tools -> {"none", "unknown", "known"}]
      /\ unwinding \in [Unwinds -> Walks]
  BY DEF SagaTypeOK, Walks
<1>12. \A i \in DOMAIN sagaStep : sagaStep[i] \in Tools
  BY <1>0
<1>2. \A t : Gone(t)' <=> Gone(t)
  BY DEF Gone
<1>3. /\ \A t \in Tools : applied'[t] = applied[t] \/ (t = one.tool /\ settled /\ applied'[t] = "none")
  BY <1>1 DEF Account, Marked
<1>4. \A v \in Unwinds : v # u => unwinding'[v] = unwinding[v]
  BY <1>1 DEF Account
<1>5. /\ unwinding'[u].at = "walking"
      /\ unwinding'[u].todo = Tail(unwinding[u].todo)
  BY <1>1 DEF Account, Walks
<1>6. \A i \in DOMAIN unwinding'[u].todo :
        /\ i + 1 \in DOMAIN unwinding[u].todo
        /\ unwinding'[u].todo[i] = unwinding[u].todo[i + 1]
  <2>1. unwinding[u].todo \in Seq([tool: Tools, known: BOOLEAN])
    BY <1>1 DEF Walks
  <2>2. \A S : \A s \in Seq(S) : s # <<>> =>
          \A i \in DOMAIN Tail(s) : i + 1 \in DOMAIN s /\ Tail(s)[i] = s[i + 1]
    OBVIOUS
  <2> QED
    BY <1>5, <2>1, <2>2
<1> HIDE DEF one
<1>7. \A t \in Tools : applied'[t] = "known" => forward'[t] = "returned"
  BY <1>3 DEF SagaKept
<1>8. \A v \in Unwinds : \A i \in DOMAIN unwinding'[v].todo :
        unwinding'[v].todo[i].known => forward'[unwinding'[v].todo[i].tool] = "returned"
  BY <1>4, <1>6 DEF SagaKept
<1>9. \A v \in Unwinds : unwinding'[v].at = "reversed" =>
        unwinding'[v].todo # <<>> /\ Gone(Head(unwinding'[v].todo).tool)
  BY <1>4, <1>5 DEF SagaKept
<1>10. \A i \in DOMAIN sagaStep : applied'[sagaStep[i]] = "none" => Gone(sagaStep[i])
  BY <1>3, <1>12 DEF SagaKept, one
<1>11. \A v \in Unwinds : unwinding'[v].at = "CompensatedFailure" =>
         \A t \in unwinding'[v].over : Gone(t)
  BY <1>4, <1>5 DEF SagaKept
<1> QED
  BY <1>2, <1>7, <1>8, <1>9, <1>10, <1>11 DEF SagaKept

LEMMA SagaKeptStep ==
  ASSUME SagaTypeOK, SagaKept, [SagaNext]_sagaVars
  PROVE  SagaKept'
<1>0. sagaStep \in Seq(Tools)
  BY DEF SagaTypeOK
<1>1. /\ forward \in [Tools -> {"no", "called", "effective", "returned", "cut", "adrift"}]
      /\ inWorld \subseteq Tools /\ kept \subseteq Tools
      /\ applied \in [Tools -> {"none", "unknown", "known"}]
      /\ unwinding \in [Unwinds -> Walks]
  BY DEF SagaTypeOK, Walks
<1>2. /\ \A i \in DOMAIN sagaStep : sagaStep[i] \in Tools
      /\ \A u \in Unwinds : unwinding[u].over \subseteq Tools
  BY <1>0, <1>1 DEF Walks
<1>3. ASSUME NEW u \in Unwinds
      PROVE  /\ \A i \in DOMAIN unwinding[u].todo :
                  unwinding[u].todo[i].tool \in Tools /\ unwinding[u].todo[i].known \in BOOLEAN
             /\ unwinding[u].todo # <<>> =>
                  /\ 1 \in DOMAIN unwinding[u].todo
                  /\ Head(unwinding[u].todo) = unwinding[u].todo[1]
                  /\ Head(unwinding[u].todo).tool \in Tools
  <2>1. unwinding[u].todo \in Seq([tool: Tools, known: BOOLEAN])
    BY <1>1 DEF Walks
  <2>2. \A S : \A s \in Seq(S) :
          /\ \A i \in DOMAIN s : s[i] \in S
          /\ s # <<>> => 1 \in DOMAIN s /\ Head(s) = s[1]
    OBVIOUS
  <2>3. /\ \A i \in DOMAIN unwinding[u].todo :
             unwinding[u].todo[i] \in [tool: Tools, known: BOOLEAN]
        /\ unwinding[u].todo # <<>> =>
             1 \in DOMAIN unwinding[u].todo /\ Head(unwinding[u].todo) = unwinding[u].todo[1]
    BY <2>1, <2>2
  <2> QED
    BY <2>3
<1>4. \A t \in Tools :
        /\ Gone(t) => Gone(t)'
        /\ forward[t] = "returned" => forward'[t] = "returned"
        /\ forward[t] \in {"effective", "returned", "adrift"} =>
             forward'[t] \in {"effective", "returned", "adrift"}
  BY WhatIsGoneStaysGone
<1>5. ASSUME NEW t \in Tools, UNCHANGED unwinding,
             Record(t) \/ TakeEffect(t) \/ KeepOutcome(t) \/ Return(t) \/ CutShort(t)
      PROVE  SagaKept'
  <2>1. \A s \in Tools : applied'[s] = "known" => forward'[s] = "returned"
    BY <1>1, <1>4, <1>5 DEF SagaKept, Record, TakeEffect, KeepOutcome, Return, CutShort
  <2>2. \A s \in kept' : forward'[s] \in {"effective", "returned", "adrift"}
    BY <1>1, <1>4, <1>5 DEF SagaKept, Record, TakeEffect, KeepOutcome, Return, CutShort
  <2>3. \A u \in Unwinds : \A i \in DOMAIN unwinding[u].todo :
          unwinding[u].todo[i].known => forward'[unwinding[u].todo[i].tool] = "returned"
    BY <1>3, <1>4 DEF SagaKept
  <2>4. \A u \in Unwinds : unwinding[u].at = "reversed" =>
          unwinding[u].todo # <<>> /\ Gone(Head(unwinding[u].todo).tool)'
    <3>1. \A u \in Unwinds : unwinding[u].at = "reversed" =>
            unwinding[u].todo # <<>> /\ Gone(Head(unwinding[u].todo).tool)
      BY DEF SagaKept
    <3>2. \A u \in Unwinds : unwinding[u].todo # <<>> => Head(unwinding[u].todo).tool \in Tools
      BY <1>3
    <3> QED
      BY <1>4, <1>5, <3>1, <3>2 DEF Gone
  <2>5. \A i \in DOMAIN sagaStep' : applied'[sagaStep'[i]] = "none" => Gone(sagaStep[i])' 
    <3>1. CASE Record(t)
      <4>1. \A i \in DOMAIN sagaStep' :
              \/ sagaStep'[i] = t
              \/ i \in DOMAIN sagaStep /\ sagaStep'[i] = sagaStep[i]
        BY <1>0, <3>1 DEF Record
      <4>2. applied'[t] = "unknown" /\ \A s \in Tools : s # t => applied'[s] = applied[s]
        BY <1>1, <3>1 DEF Record
      <4>3. UNCHANGED inWorld
        BY <3>1 DEF Record
      <4> QED
        BY <1>2, <1>4, <4>1, <4>2, <4>3 DEF SagaKept, Gone
    <3>2. CASE TakeEffect(t) \/ KeepOutcome(t) \/ Return(t) \/ CutShort(t)
      <4>1. UNCHANGED sagaStep /\ \A s \in Tools : applied'[s] = applied[s] \/ applied'[s] = "known"
        BY <1>1, <3>2 DEF TakeEffect, KeepOutcome, Return, CutShort
      <4> QED
        BY <1>2, <1>4, <4>1 DEF SagaKept, Gone
    <3> QED
      BY <1>5, <3>1, <3>2
  <2>6. \A u \in Unwinds : unwinding[u].at = "CompensatedFailure" =>
          \A s \in unwinding[u].over : Gone(s)'
    BY <1>2, <1>4 DEF SagaKept
  <2> QED
    BY <1>5, <2>1, <2>2, <2>3, <2>4, <2>5, <2>6 DEF SagaKept, Gone
<1>6. ASSUME NEW u \in Unwinds, Unwind(u) PROVE SagaKept'
  <2>1. /\ \A v \in Unwinds : v # u => unwinding'[v] = unwinding[v]
        /\ unwinding'[u].at = "walking"
        /\ unwinding'[u].todo = [i \in DOMAIN Outstanding |->
              [tool |-> Outstanding[i], known |-> applied[Outstanding[i]] = "known"]]
    BY <1>1, <1>6 DEF Unwind, NoWalk
  <2>2. \A i \in DOMAIN Outstanding : Outstanding[i] \in Tools
    <3>1. Outstanding \in Seq(Tools)
      BY OutstandingSteps
    <3> QED
      BY <3>1
  <2> HIDE DEF Outstanding
  <2>5. /\ DOMAIN unwinding'[u].todo = DOMAIN Outstanding
        /\ \A i \in DOMAIN Outstanding :
             /\ unwinding'[u].todo[i].tool = Outstanding[i]
             /\ unwinding'[u].todo[i].known => applied[Outstanding[i]] = "known"
    <3>1. DOMAIN unwinding'[u].todo = DOMAIN Outstanding
      BY <2>1
    <3>2. ASSUME NEW i \in DOMAIN Outstanding
          PROVE  /\ unwinding'[u].todo[i].tool = Outstanding[i]
                 /\ unwinding'[u].todo[i].known => applied[Outstanding[i]] = "known"
      <4>1. unwinding'[u].todo[i]
              = [tool |-> Outstanding[i], known |-> applied[Outstanding[i]] = "known"]
        BY <2>1, Zenon
      <4>2. unwinding'[u].todo[i].tool = Outstanding[i]
        BY <4>1
      <4>3. unwinding'[u].todo[i].known => applied[Outstanding[i]] = "known"
        <5>1. CASE applied[Outstanding[i]] # "known"
          <6>1. unwinding'[u].todo[i] = [tool |-> Outstanding[i], known |-> FALSE]
            BY <4>1, <5>1
          <6> QED
            BY <6>1
        <5> QED
          BY <5>1
      <4> QED
        BY <4>2, <4>3
    <3> QED
      BY <3>1, <3>2
  <2>3. \A v \in Unwinds : \A i \in DOMAIN unwinding'[v].todo :
          unwinding'[v].todo[i].known => forward[unwinding'[v].todo[i].tool] = "returned"
    <3>1. \A v \in Unwinds \ {u} : \A i \in DOMAIN unwinding'[v].todo :
            unwinding'[v].todo[i].known => forward[unwinding'[v].todo[i].tool] = "returned"
      BY <2>1 DEF SagaKept
    <3>2. \A i \in DOMAIN Outstanding :
            applied[Outstanding[i]] = "known" => forward[Outstanding[i]] = "returned"
      BY <2>2 DEF SagaKept
    <3>3. \A i \in DOMAIN unwinding'[u].todo :
            unwinding'[u].todo[i].known => forward[unwinding'[u].todo[i].tool] = "returned"
      BY <2>5, <3>2
    <3> QED
      BY <3>1, <3>3
  <2>4. UNCHANGED <<forward, inWorld, kept, sagaStep, applied>>
    BY <1>6 DEF Unwind
  <2> QED
    BY <2>1, <2>3, <2>4 DEF SagaKept, Gone
<1>7. ASSUME NEW u \in Unwinds, LeaveStanding(u) PROVE SagaKept'
  BY <1>7, GoingOnUnwinding DEF LeaveStanding, Walking
<1>8. ASSUME NEW u \in Unwinds, GiveUp(u) PROVE SagaKept'
  BY <1>8, GoingOnUnwinding DEF GiveUp, Reversible, Walking
<1>9. ASSUME NEW u \in Unwinds, MarkReversed(u) PROVE SagaKept'
  <2>1. unwinding[u].todo # <<>> /\ Gone(Head(unwinding[u].todo).tool)
    BY <1>9 DEF MarkReversed, SagaKept
  <2> QED
    BY <1>9, <2>1, GoingOnUnwinding DEF MarkReversed
<1>10. ASSUME NEW u \in Unwinds, NEW at \in {"reversed", "walking", "raised"},
              \A v \in Unwinds : v # u => unwinding'[v] = unwinding[v],
              unwinding'[u].at = at, unwinding'[u].todo = unwinding[u].todo,
              at = "reversed" => unwinding[u].todo # <<>> /\ Gone(Head(unwinding[u].todo).tool)',
              UNCHANGED <<forward, kept, sagaStep, applied>>
       PROVE  SagaKept'
  <2>1. \A v \in Unwinds : \A i \in DOMAIN unwinding'[v].todo :
          unwinding'[v].todo[i].known => forward[unwinding'[v].todo[i].tool] = "returned"
    BY <1>10 DEF SagaKept
  <2>2. \A v \in Unwinds : unwinding'[v].at = "reversed" =>
          unwinding'[v].todo # <<>> /\ Gone(Head(unwinding[v].todo).tool)'
    <3>1. \A v \in Unwinds : unwinding[v].at = "reversed" =>
            unwinding[v].todo # <<>> /\ Gone(Head(unwinding[v].todo).tool)
      BY DEF SagaKept
    <3>2. \A v \in Unwinds : unwinding[v].todo # <<>> => Head(unwinding[v].todo).tool \in Tools
      BY <1>3
    <3> QED
      BY <1>4, <1>10, <3>1, <3>2 DEF Gone
  <2>3. \A i \in DOMAIN sagaStep : applied[sagaStep[i]] = "none" => Gone(sagaStep[i])'
    BY <1>2, <1>4, <1>10 DEF SagaKept, Gone
  <2>4. \A v \in Unwinds : unwinding'[v].at = "CompensatedFailure" =>
          \A s \in unwinding'[v].over : Gone(s)'
    BY <1>2, <1>4, <1>10 DEF SagaKept, Gone
  <2> QED
    BY <1>10, <2>1, <2>2, <2>3, <2>4 DEF SagaKept, Gone
<1>11. ASSUME NEW u \in Unwinds, Reversed(u) PROVE SagaKept'
  <2>1. /\ \A v \in Unwinds : v # u => unwinding'[v] = unwinding[v]
        /\ unwinding'[u].at = "reversed" /\ unwinding'[u].todo = unwinding[u].todo
    BY <1>1, <1>11 DEF Reversed, Walks
  <2>2. unwinding[u].todo # <<>> /\ Gone(Head(unwinding[u].todo).tool)'
    <3>1. unwinding[u].todo # <<>>
      BY <1>11 DEF Reversed, Reversible, Walking
    <3>2. forward[Head(unwinding[u].todo).tool] \in {"effective", "returned", "adrift"}
      BY <1>3, <1>11, <3>1 DEF Reversed, Reversible, Decided, SagaKept
    <3> QED
      BY <1>11, <2>1, <3>1, <3>2 DEF Reversed, Gone
  <2> QED
    BY <1>10, <1>11, <2>1, <2>2 DEF Reversed
<1>12. ASSUME NEW u \in Unwinds, ReversalRaised(u) PROVE SagaKept'
  <2>1. /\ \A v \in Unwinds : v # u => unwinding'[v] = unwinding[v]
        /\ unwinding'[u].at = "walking" /\ unwinding'[u].todo = unwinding[u].todo
    BY <1>1, <1>12 DEF ReversalRaised, Reversible, Walking, Walks
  <2> QED
    BY <1>10, <1>12, <2>1 DEF ReversalRaised
<1>13. ASSUME NEW u \in Unwinds, QueryRaises(u) PROVE SagaKept'
  <2>1. /\ \A v \in Unwinds : v # u => unwinding'[v] = unwinding[v]
        /\ unwinding'[u].at = "raised" /\ unwinding'[u].todo = unwinding[u].todo
    BY <1>1, <1>13 DEF QueryRaises, Walks
  <2> QED
    BY <1>10, <1>13, <2>1 DEF QueryRaises
<1>14. ASSUME NEW u \in Unwinds, Conclude(u) PROVE SagaKept'
  <2>1. /\ \A v \in Unwinds : v # u => unwinding'[v] = unwinding[v]
        /\ unwinding'[u].at \in {"CompensatedFailure", "CompensationIncomplete"}
        /\ unwinding'[u].todo = <<>> /\ unwinding'[u].over = ToSet(sagaStep)
        /\ unwinding'[u].at = "CompensatedFailure" => Outstanding = <<>>
    BY <1>1, <1>14 DEF Conclude, Walks
  <2>2. \A t \in ToSet(sagaStep) : unwinding'[u].at = "CompensatedFailure" => Gone(t)
    BY <2>1, OutstandingSteps DEF SagaKept, ToSet
  <2>3. DOMAIN <<>> = {}
    OBVIOUS
  <2>4. UNCHANGED <<forward, inWorld, kept, sagaStep, applied>>
    BY <1>14 DEF Conclude
  <2> QED
    BY <2>1, <2>2, <2>3, <2>4 DEF SagaKept, Gone
<1>15. CASE UNCHANGED sagaVars
  BY <1>15 DEF sagaVars, SagaKept, Gone
<1> QED
  <2>1. \A t \in Tools : Record(t) \/ TakeEffect(t) \/ KeepOutcome(t) \/ Return(t) \/ CutShort(t)
          => UNCHANGED unwinding
    BY DEF Record, TakeEffect, KeepOutcome, Return, CutShort
  <2> QED
    BY <1>5, <1>6, <1>7, <1>8, <1>9, <1>11, <1>12, <1>13, <1>14, <1>15, <2>1 DEF SagaNext

LEMMA SagaStands == SagaSpec => [](SagaTypeOK /\ SagaKept)
<1>1. SagaInit => SagaTypeOK /\ SagaKept
  <2> SUFFICES ASSUME SagaInit PROVE SagaTypeOK /\ SagaKept
    OBVIOUS
  <2>1. SagaTypeOK
    BY CompensationAssumption DEF SagaInit, SagaTypeOK, NoWalk
  <2>2. DOMAIN <<>> = {}
    OBVIOUS
  <2> QED
    BY <2>1, <2>2 DEF SagaInit, SagaKept, NoWalk, Gone
<1>2. SagaTypeOK /\ SagaKept /\ [SagaNext]_sagaVars => (SagaTypeOK /\ SagaKept)'
  BY SagaTypesStep, SagaKeptStep
<1> QED
  BY <1>1, <1>2, PTL DEF SagaSpec

\* When an unwind has said that the world holds nothing of the run any more, it
\* holds none of the steps written down by then, and never will again, for any
\* tools, any sagas and any number of unwinds that overlap.
THEOREM CleanIsClean == SagaSpec => []CleanMeansClean
<1>1. SagaTypeOK /\ SagaKept => CleanMeansClean
  BY DEF SagaKept, CleanMeansClean, Gone
<1> QED
  BY <1>1, SagaStands, PTL

-----------------------------------------------------------------------------
(* The branches of a fan-out.                                                *)

FanStages == {"queued", "running", "asking", "breached", "failing",
              "ok", "failed", "exhausted", "cancelled", "cut"}
FanBranches == [at: FanStages, used: Nat, limit: 0..RunCeiling, out: 0..MaxParallelCalls]

LEMMA BudgetsTyped ==
  ASSUME NEW f \in [Branches -> FanBranches], NEW b \in Branches
  PROVE  f[b].used \in Nat /\ f[b].limit \in Nat /\ f[b].out \in 0..MaxParallelCalls
<1>1. f[b] \in FanBranches
  OBVIOUS
<1>2. \A x \in FanBranches : x.used \in Nat /\ x.limit \in 0..RunCeiling /\ x.out \in 0..MaxParallelCalls
  BY DEF FanBranches
<1>3. 0..RunCeiling \subseteq Nat
  BY FanAssumption
<1> QED
  BY <1>1, <1>2, <1>3

LEMMA BranchesTyped == FanTypeOK => branch \in [Branches -> FanBranches]
BY DEF FanTypeOK, FanBranches, FanStages

LEMMA CostliestIsMost ==
  /\ CostliestCall \in Nat /\ CallEstimate \in Nat \ {0} /\ CallEstimate <= CostliestCall
  /\ \A cost \in CallCosts : cost \in Nat /\ cost <= CostliestCall
<1> DEFINE all == CallCosts \cup {CallEstimate}
<1>1. /\ CallEstimate \in Nat \ {0} /\ CallCosts \subseteq Nat
      /\ \E most \in CallCosts : \A cost \in CallCosts : cost <= most
  BY FanAssumption
<1>2. \E most \in all : \A cost \in all : most >= cost
  <2>1. PICK most \in CallCosts : \A cost \in CallCosts : cost <= most
    BY <1>1
  <2>2. CASE most >= CallEstimate
    <3>1. \A cost \in all : most >= cost
      BY <1>1, <2>1, <2>2
    <3> QED
      BY <2>1, <3>1
  <2>3. CASE ~(most >= CallEstimate)
    <3>1. \A cost \in all : CallEstimate >= cost
      BY <1>1, <2>1, <2>3
    <3> QED
      BY <3>1
  <2> QED
    BY <2>2, <2>3
<1>3. CostliestCall \in all /\ \A cost \in all : CostliestCall >= cost
  BY <1>2 DEF CostliestCall, Max
<1> QED
  BY <1>1, <1>3

\* What n calls may cost.
Owed(n) == n * CostliestCall

LEMMA OwedAddsUp ==
  ASSUME NEW n \in 0..MaxParallelCalls
  PROVE  /\ Owed(n) \in Nat /\ Owed(n) <= FullBatch
         /\ n > 0 => Owed(n - 1) + CostliestCall = Owed(n)
<1>1. CostliestCall \in Nat /\ MaxParallelCalls \in Nat \ {0}
  BY CostliestIsMost, FanAssumption
<1>2. ASSUME NEW c \in Nat, NEW k \in Nat, NEW more \in Nat
      PROVE  k * c \in Nat /\ k * c <= (k + more) * c /\ (k > 0 => (k - 1) * c + c = k * c)
  <2>1. (k + more) * c = k * c + more * c
    OBVIOUS
  <2>2. k * c \in Nat /\ more * c \in Nat
    OBVIOUS
  <2> QED
    BY <2>1, <2>2
<1>3. n \in Nat /\ MaxParallelCalls - n \in Nat /\ n + (MaxParallelCalls - n) = MaxParallelCalls
  BY <1>1
<1> QED
  BY <1>1, <1>2, <1>3 DEF Owed, FullBatch

LEMMA BatchTyped ==
  /\ FullBatch \in Nat /\ CostliestCall <= FullBatch /\ Owed(0) = 0
  /\ MaxParallelCalls \in Nat \ {0}
<1>1. CostliestCall \in Nat /\ MaxParallelCalls \in Nat \ {0}
  BY CostliestIsMost, FanAssumption
<1>2. 1 \in 0..MaxParallelCalls /\ MaxParallelCalls \in 0..MaxParallelCalls /\ 1 - 1 = 0
  BY <1>1
<1>3. Owed(0) = 0
  BY <1>1 DEF Owed
<1>4. Owed(1) = CostliestCall
  BY <1>1 DEF Owed
<1>5. Owed(1) <= FullBatch
  BY <1>2, OwedAddsUp
<1>6. FullBatch = Owed(MaxParallelCalls)
  BY DEF FullBatch, Owed
<1>7. Owed(MaxParallelCalls) \in Nat
  BY <1>2, OwedAddsUp
<1> QED
  BY <1>1, <1>3, <1>4, <1>5, <1>6, <1>7

LEMMA FanInputsTyped ==
  ASSUME FanTypeOK
  PROVE  \A b \in Branches : fanInput[b].slice \in Nat /\ fanInput[b].own \in BOOLEAN
BY FanAssumption DEF FanTypeOK

LEMMA FanTyped == FanSpec => []FanTypeOK
<1>1. FanInit => FanTypeOK
  <2> SUFFICES ASSUME FanInit PROVE FanTypeOK
    OBVIOUS
  <2>1. 0 \in Nat /\ 0 \in 0..RunCeiling /\ 0 \in 0..MaxFanOut /\ 0 \in 0..MaxParallelCalls
    BY FanAssumption
  <2>2. branch \in [Branches -> FanBranches]
    BY <2>1 DEF FanInit, FanBranches, FanStages
  <2>3. Cardinality({}) <= 1
    BY FS_EmptySet
  <2> QED
    BY <2>1, <2>2, <2>3 DEF FanInit, FanTypeOK, FanBranches, FanStages
<1>2. FanTypeOK /\ [FanNext]_fanVars => FanTypeOK'
  <2> SUFFICES ASSUME FanTypeOK, [FanNext]_fanVars PROVE FanTypeOK'
    OBVIOUS
  <2>0. /\ fanInput \in FanInputs /\ branch \in [Branches -> FanBranches]
        /\ runSpent \in Nat /\ handed \in 0..MaxFanOut
        /\ drained \in BOOLEAN /\ stopped \in BOOLEAN
        /\ claims \in [WriteKeys -> SUBSET FanWorkers]
        /\ \A k \in WriteKeys : Cardinality(claims[k]) <= 1
    BY DEF FanTypeOK, FanBranches, FanStages
  <2> DEFINE Typed == /\ fanInput' \in FanInputs /\ branch' \in [Branches -> FanBranches]
        /\ runSpent' \in Nat /\ handed' \in 0..MaxFanOut
        /\ drained' \in BOOLEAN /\ stopped' \in BOOLEAN
        /\ claims' \in [WriteKeys -> SUBSET FanWorkers]
        /\ \A k \in WriteKeys : Cardinality(claims'[k]) <= 1
  <2> SUFFICES Typed
    BY DEF FanTypeOK, FanBranches, FanStages
  <2>1. ASSUME NEW r \in FanBranches, NEW at \in FanStages, NEW used \in Nat,
               NEW out \in 0..MaxParallelCalls
        PROVE  /\ [r EXCEPT !.at = at, !.used = used, !.out = out] \in FanBranches
               /\ [r EXCEPT !.at = at, !.out = out] \in FanBranches
    BY DEF FanBranches
  <2>a. 0 \in 0..MaxParallelCalls /\ 1 \in 0..MaxParallelCalls
    BY FanAssumption
  <2>b. \A b \in Branches : branch[b].used \in Nat /\ branch[b].out \in 0..MaxParallelCalls
                          /\ branch[b].at \in FanStages
    BY <2>0, BudgetsTyped DEF FanBranches
  <2>2. ASSUME NEW b \in Branches, NEW at \in FanStages, Ends(b, at)
        PROVE  branch' \in [Branches -> FanBranches]
    <3>1. branch' = [branch EXCEPT ![b] = [branch[b] EXCEPT !.at = at, !.out = 0]]
      BY <2>0, <2>2 DEF Ends
    <3>2. [branch[b] EXCEPT !.at = at, !.out = 0] \in FanBranches
      BY Zenon, <2>0, <2>1, <2>a, <2>b
    <3> QED
      BY <2>0, <3>1, <3>2
  <2>c. ASSUME NEW b \in Branches, NEW at \in FanStages, NEW used \in Nat,
               NEW out \in 0..MaxParallelCalls, Becomes(b, at, used, out)
        PROVE  branch' \in [Branches -> FanBranches]
    <3>1. branch' = [branch EXCEPT ![b] = [branch[b] EXCEPT !.at = at, !.used = used, !.out = out]]
      BY <2>0, <2>c DEF Becomes
    <3>2. [branch[b] EXCEPT !.at = at, !.used = used, !.out = out] \in FanBranches
      BY Zenon, <2>0, <2>1
    <3> QED
      BY <2>0, <3>1, <3>2
  <2>d. ASSUME NEW b \in Branches, NEW cost \in Nat
        PROVE  Absorbed(b, cost) \in Nat
    BY <2>0, <2>b DEF Absorbed
  <2>e. \A b \in Branches : Breaks(b) \subseteq FanStages
    BY DEF Breaks, FanStages
  <2>3. ASSUME NEW b \in Branches
        PROVE  /\ Claimed(b) \in [WriteKeys -> SUBSET FanWorkers]
               /\ \A k \in WriteKeys : Cardinality(Claimed(b)[k]) <= 1
    <3>1. fanInput[b].writes # NoWrite => fanInput[b].writes \in WriteKeys
      BY <2>0 DEF WriteKeys
    <3>2. fanInput[b].worker \in FanWorkers
      BY <2>0 DEF FanWorkers
    <3>3. Cardinality({fanInput[b].worker}) = 1
      BY FS_Singleton
    <3>4. CASE fanInput[b].writes = NoWrite
      BY <2>0, <3>4 DEF Claimed
    <3>5. CASE fanInput[b].writes # NoWrite
      <4>1. Claimed(b) = [claims EXCEPT ![fanInput[b].writes] = {fanInput[b].worker}]
        BY <3>5 DEF Claimed
      <4>2. \A k \in WriteKeys :
              Claimed(b)[k] = IF k = fanInput[b].writes THEN {fanInput[b].worker} ELSE claims[k]
        BY <2>0, <4>1
      <4>3. Claimed(b) \in [WriteKeys -> SUBSET FanWorkers]
        BY <2>0, <3>1, <3>2, <3>5, <4>1
      <4>4. \A k \in WriteKeys : Cardinality(Claimed(b)[k]) <= 1
        BY <2>0, <3>3, <4>2
      <4> QED
        BY <4>3, <4>4
    <3> QED
      BY <3>4, <3>5
  <2>4. ASSUME NEW b \in Branches, NotStarted(b) PROVE Typed
    <3>1. Ends(b, "exhausted") \/ Ends(b, "cancelled")
      BY <2>4 DEF NotStarted
    <3>2. branch' \in [Branches -> FanBranches]
      BY <2>2, <3>1 DEF FanStages
    <3> QED
      BY <2>0, <2>4, <3>2 DEF NotStarted
  <2>5. ASSUME NEW b \in Branches, DelegateRefuses(b) PROVE Typed
    <3>1. branch' \in [Branches -> FanBranches]
      BY <2>2, <2>5 DEF DelegateRefuses, FanStages
    <3> QED
      BY <2>0, <2>3, <2>5, <3>1 DEF DelegateRefuses
  <2>6. ASSUME NEW b \in Branches, HandedOver(b), branch' \in [Branches -> FanBranches] PROVE Typed
    <3>1. handed' \in 0..MaxFanOut
      BY <2>0, <2>6, FanAssumption DEF HandedOver
    <3> QED
      BY <2>0, <2>3, <2>6, <3>1 DEF HandedOver
  <2>7. ASSUME NEW b \in Branches, HandOver(b) PROVE Typed
    <3>1. RunCeiling \in Nat \ {0} /\ fanInput[b].slice \in Nat
      BY FanAssumption, FanInputsTyped
    <3>2. Left \in 0..RunCeiling
      BY <2>0, <3>1 DEF Left
    <3>3. Min({fanInput[b].slice, Left}) \in {fanInput[b].slice, Left}
                /\ Min({fanInput[b].slice, Left}) <= Left
      <4>1. \E m \in {fanInput[b].slice, Left} : \A n \in {fanInput[b].slice, Left} : m <= n
        BY <3>1, <3>2
      <4> QED
        BY <4>1 DEF Min
    <3>4. Min({fanInput[b].slice, Left}) \in 0..RunCeiling
      BY <3>1, <3>2, <3>3
    <3>5. /\ [at |-> "running", used |-> 0, limit |-> Min({fanInput[b].slice, Left}), out |-> 0]
               \in FanBranches
          /\ [at |-> "running", used |-> runSpent, limit |-> RunCeiling, out |-> 0] \in FanBranches
      BY <2>0, <2>a, <3>1, <3>4 DEF FanBranches, FanStages
    <3>6. branch' \in [Branches -> FanBranches]
      BY <2>0, <2>7, <3>5 DEF HandOver
    <3> QED
      BY <2>6, <2>7, <3>6 DEF HandOver
  <2>8. ASSUME NEW b \in Branches, GroupBreaks(b) PROVE Typed
    <3>1. \A c \in Branches : CutOff(branch[c]) \in FanBranches
      BY Zenon, <2>0, <2>1, <2>a, <2>b DEF FanStages, CutOff
    <3>2. HandedOver(b) /\ branch' =
            [c \in Branches |-> IF c \in Unfinished THEN CutOff(branch[c]) ELSE branch[c]]
      BY <2>8 DEF GroupBreaks
    <3>3. branch' \in [Branches -> FanBranches]
      BY <2>0, <3>1, <3>2
    <3> QED
      BY <2>6, <3>2, <3>3
  <2>9. ASSUME NEW b \in Branches, AskModel(b) PROVE Typed
    <3>1. \E at \in {"asking", "breached"}, out \in {0, 1} : Becomes(b, at, branch[b].used, out)
      BY <2>9 DEF AskModel
    <3>2. branch' \in [Branches -> FanBranches]
      BY <2>a, <2>b, <2>c, <3>1 DEF FanStages
    <3> QED
      BY <2>0, <2>9, <3>2 DEF AskModel
  <2>10. ASSUME NEW b \in Branches, BranchCancelled(b) PROVE Typed
    <3>1. branch' \in [Branches -> FanBranches]
      BY <2>2, <2>10 DEF BranchCancelled, FanStages
    <3>2. runSpent' \in Nat
      BY <2>0, <2>10, CostliestIsMost DEF BranchCancelled, Charged
    <3> QED
      BY <2>0, <2>10, <3>1, <3>2 DEF BranchCancelled
  <2>11. ASSUME NEW b \in Branches, NEW cost \in CallCosts \cup {CallEstimate}, ModelReturns(b, cost)
         PROVE  Typed
    <3>1. cost \in Nat
      BY CostliestIsMost
    <3>2. \E at \in FanStages : Becomes(b, at, Absorbed(b, cost), 0)
      BY <2>11 DEF ModelReturns, FanStages
    <3>3. branch' \in [Branches -> FanBranches]
      BY <2>a, <2>c, <2>d, <3>1, <3>2
    <3>4. runSpent' \in Nat
      BY <2>0, <2>11, <3>1 DEF ModelReturns, Charged
    <3> QED
      BY <2>0, <2>11, <3>3, <3>4 DEF ModelReturns
  <2>14. ASSUME NEW b \in Branches, CallTool(b) PROVE Typed
    <3>1. \E at \in FanStages, used \in {branch[b].used, Absorbed(b, 0)},
             out \in {branch[b].out, branch[b].out + 1} \cap 0..MaxParallelCalls :
               Becomes(b, at, used, out)
      <4>1. branch[b].out \in 0..MaxParallelCalls /\ branch[b].out + 1 \in 0..MaxParallelCalls
        BY <2>b, <2>14, FanAssumption DEF CallTool
      <4> QED
        BY <2>b, <2>e, <2>14, <4>1 DEF CallTool
    <3>2. branch' \in [Branches -> FanBranches]
      BY <2>b, <2>c, <2>d, <3>1
    <3> QED
      BY <2>0, <2>14, <3>2 DEF CallTool
  <2>15. ASSUME NEW b \in Branches, NEW cost \in CallCosts, ToolAnswers(b, cost) PROVE Typed
    <3>1. cost \in Nat
      BY CostliestIsMost
    <3>2. branch[b].out - 1 \in 0..MaxParallelCalls
      BY <2>b, <2>15, FanAssumption DEF ToolAnswers
    <3>3. \E at \in FanStages : Becomes(b, at, Absorbed(b, cost), branch[b].out - 1)
      BY <2>b, <2>e, <2>15 DEF ToolAnswers
    <3>4. branch' \in [Branches -> FanBranches]
      BY <2>c, <2>d, <3>1, <3>2, <3>3
    <3>5. runSpent' \in Nat
      BY <2>0, <2>15, <3>1 DEF ToolAnswers, Charged
    <3> QED
      BY <2>0, <2>15, <3>4, <3>5 DEF ToolAnswers
  <2>16. ASSUME NEW b \in Branches, ToolFails(b) PROVE Typed
    <3>1. branch[b].out - 1 \in 0..MaxParallelCalls
      BY <2>b, <2>16, FanAssumption DEF ToolFails
    <3>2. \E at \in FanStages : Becomes(b, at, branch[b].used, branch[b].out - 1)
      BY <2>b, <2>16 DEF ToolFails, FanStages
    <3>3. branch' \in [Branches -> FanBranches]
      BY <2>b, <2>c, <3>1, <3>2
    <3> QED
      BY <2>0, <2>16, <3>3 DEF ToolFails
  <2>17. ASSUME NEW b \in Branches, BranchOver(b) PROVE Typed
    <3>1. branch' \in [Branches -> FanBranches]
      BY <2>2, <2>17 DEF BranchOver, FanStages
    <3>2. drained' \in BOOLEAN
      BY <2>0, <2>17, FanInputsTyped DEF BranchOver
    <3> QED
      BY <2>0, <2>17, <3>1, <3>2 DEF BranchOver
  <2>12. CASE StopFanOut
    BY <2>0, <2>12 DEF StopFanOut
  <2>13. CASE UNCHANGED fanVars
    BY <2>0, <2>13 DEF fanVars
  <2> HIDE DEF Typed
  <2> QED
    BY <2>4, <2>5, <2>7, <2>8, <2>9, <2>10, <2>11, <2>12, <2>13, <2>14, <2>15, <2>16, <2>17
    DEF FanNext
<1> QED
  BY <1>1, <1>2, PTL DEF FanSpec

\* What branch b may still spend: nothing, when it is over; the calls it has out,
\* when its budget refuses the next; else a batch, and before it what its slice has
\* room for.
Outlay(b) ==
  IF b \notin InFlight THEN 0
  ELSE IF MayStart(b)
       THEN FullBatch + (IF Sliced(b) THEN branch[b].limit - (branch[b].used + CallEstimate) ELSE 0)
       ELSE Owed(branch[b].out)

Outlays == [b \in Branches |-> Outlay(b)]
Reaches == [b \in Branches |-> Reach(b)]

\* The branches that were in flight when the ceiling was reached are the last that
\* spend, and what each has spent since and may still spend is within its reach.
PassedBy(last) ==
  /\ Cardinality(last) <= MaxConcurrency
  /\ \A b \in Branches \ last : Outlay(b) = 0
  /\ runSpent + Cardinality(Units(Outlays, last)) <= RunCeiling + Cardinality(Units(Reaches, last))

\* A call is out only when the limit has room for one, and a model call is a call.
OutFits(b) ==
  /\ branch[b].out > 0 => CallEstimate <= branch[b].limit
  /\ branch[b].at = "asking" => branch[b].out > 0

OutlaysAreBounded ==
  /\ \A b \in Branches : OutFits(b)
  /\ \A b \in InFlight : IF Sliced(b) THEN branch[b].limit <= fanInput[b].slice
                                      ELSE branch[b].limit = RunCeiling
  /\ Cardinality(InFlight) <= MaxConcurrency
  /\ runSpent >= RunCeiling => \E last \in SUBSET Branches : PassedBy(last)

LEMMA ReachesTyped ==
  ASSUME FanTypeOK
  PROVE  Reaches \in [Branches -> Nat]
<1>1. \A b \in Branches : Reach(b) \in Nat
  <2> TAKE b \in Branches
  <2>1. /\ CostliestCall \in Nat /\ CallEstimate \in Nat /\ CallEstimate <= CostliestCall
        /\ fanInput[b].slice \in Nat /\ FullBatch \in Nat /\ CostliestCall <= FullBatch
    BY CostliestIsMost, FanInputsTyped, OwedAddsUp, BatchTyped
  <2> QED
    BY <2>1 DEF Reach
<1> QED
  BY <1>1 DEF Reaches

LEMMA OutlaysTyped ==
  ASSUME FanTypeOK
  PROVE  Outlays \in [Branches -> Nat]
<1>1. \A b \in Branches : Outlay(b) \in Nat
  <2> TAKE b \in Branches
  <2>1. branch[b].used \in Nat /\ branch[b].limit \in Nat /\ branch[b].out \in 0..MaxParallelCalls
    BY BranchesTyped, BudgetsTyped
  <2>2. CallEstimate \in Nat /\ FullBatch \in Nat /\ Owed(branch[b].out) \in Nat
    BY <2>1, CostliestIsMost, OwedAddsUp, BatchTyped
  <2> QED
    BY <2>1, <2>2 DEF Outlay, MayStart
<1> QED
  BY <1>1 DEF Outlays

LEMMA OutlayWithinReach ==
  ASSUME FanTypeOK, OutlaysAreBounded, NEW b \in Branches
  PROVE  Outlay(b) <= Reach(b)
<1>1. branch[b].used \in Nat /\ branch[b].limit \in Nat /\ branch[b].out \in 0..MaxParallelCalls
  BY BranchesTyped, BudgetsTyped
<1>2. /\ CostliestCall \in Nat /\ CallEstimate \in Nat \ {0} /\ CallEstimate <= CostliestCall
      /\ fanInput[b].slice \in Nat
  BY CostliestIsMost, FanInputsTyped
<1>3. b \in InFlight /\ Sliced(b) => branch[b].limit <= fanInput[b].slice
  BY DEF OutlaysAreBounded
<1>4. branch[b].out > 0 => CallEstimate <= branch[b].limit
  BY DEF OutlaysAreBounded, OutFits
<1>5. /\ FullBatch \in Nat /\ CostliestCall <= FullBatch /\ Owed(0) = 0
      /\ Owed(branch[b].out) \in Nat /\ Owed(branch[b].out) <= FullBatch
  BY <1>1, OwedAddsUp, BatchTyped
<1>6. CASE b \in InFlight /\ ~MayStart(b) /\ branch[b].out > 0
  BY <1>1, <1>2, <1>3, <1>4, <1>5, <1>6 DEF Outlay, Reach
<1>7. CASE b \in InFlight /\ MayStart(b)
  BY <1>1, <1>2, <1>3, <1>5, <1>7 DEF Outlay, Reach, MayStart
<1>8. CASE b \notin InFlight \/ (~MayStart(b) /\ branch[b].out = 0)
  BY <1>1, <1>2, <1>5, <1>8 DEF Outlay, Reach
<1> QED
  BY <1>1, <1>6, <1>7, <1>8

\* What the run has spent past the ceiling, with one more spending.
LEMMA SpendingKeepsBound ==
  ASSUME FanTypeOK, FanTypeOK', OutlaysAreBounded, UNCHANGED fanInput,
         NEW b \in Branches, NEW n \in Nat, runSpent' = runSpent + n,
         n > 0 => Outlay(b) > 0,
         runSpent' >= RunCeiling =>
           /\ Outlay(b)' + n <= Outlay(b)
           /\ \A c \in Branches \ {b} : Outlay(c)' <= Outlay(c)
  PROVE  runSpent' >= RunCeiling => \E last \in SUBSET Branches : PassedBy(last)'
<1> SUFFICES ASSUME runSpent' >= RunCeiling
             PROVE  \E last \in SUBSET Branches : PassedBy(last)'
  OBVIOUS
<1> DEFINE new == Outlays'
<1>1. /\ Outlays \in [Branches -> Nat] /\ new \in [Branches -> Nat] /\ Reaches \in [Branches -> Nat]
      /\ Reaches' = Reaches
      /\ runSpent \in Nat /\ RunCeiling \in Nat
  <2>1. Outlays \in [Branches -> Nat] /\ Reaches \in [Branches -> Nat]
    BY OutlaysTyped, ReachesTyped
  <2>2. new \in [Branches -> Nat]
    <3>0. branch' \in [Branches -> FanBranches]
      BY DEF FanTypeOK, FanBranches, FanStages
    <3>1. \A c \in Branches : /\ branch'[c].used \in Nat /\ branch'[c].limit \in Nat
                              /\ branch'[c].out \in 0..MaxParallelCalls
      BY <3>0, BudgetsTyped
    <3>2. /\ CallEstimate \in Nat /\ FullBatch \in Nat
          /\ \A c \in Branches : Owed(branch'[c].out) \in Nat
      BY <3>1, CostliestIsMost, OwedAddsUp, BatchTyped
    <3>3. \A c \in Branches : Outlay(c)' \in Nat
      BY <3>1, <3>2 DEF Outlay, MayStart
    <3> QED
      BY <3>3 DEF Outlays
  <2>3. runSpent \in Nat /\ RunCeiling \in Nat
    BY FanAssumption DEF FanTypeOK
  <2>4. Reaches' = Reaches
    BY DEF Reaches, Reach, Sliced
  <2> QED
    BY <2>1, <2>2, <2>3, <2>4
<1>2. \A c \in Branches : /\ Outlays[c] = Outlay(c) /\ new[c] = Outlay(c)'
                          /\ Reaches[c] = Reach(c) /\ Outlay(c) <= Reach(c)
  BY OutlayWithinReach DEF Outlays, Reaches
<1>3. new[b] + n <= Outlays[b] /\ \A c \in Branches \ {b} : new[c] <= Outlays[c]
  BY <1>2
<1>4. \A c \in Branches : Outlays[c] = 0 => new[c] = 0
  BY <1>1, <1>3
<1> HIDE DEF new
<1>5. CASE runSpent >= RunCeiling
  <2>1. PICK last \in SUBSET Branches : PassedBy(last)
    BY <1>5 DEF OutlaysAreBounded
  <2>2. \A c \in Branches \ last : new[c] = 0
    BY <1>2, <1>4, <2>1 DEF PassedBy
  <2>3. /\ Cardinality(Units(new, last)) + n <= Cardinality(Units(Outlays, last))
        /\ Cardinality(Units(new, last)) \in Nat /\ Cardinality(Units(Outlays, last)) \in Nat
        /\ Cardinality(Units(Reaches, last)) \in Nat
    <3>1. \A c \in last : new[c] <= Outlays[c] /\ Outlays[c] <= Reaches[c]
      BY <1>1, <1>2, <1>3
    <3>2. /\ Cardinality(Units(new, last)) <= Cardinality(Units(Outlays, last))
          /\ Cardinality(Units(new, last)) \in Nat /\ Cardinality(Units(Outlays, last)) \in Nat
          /\ Cardinality(Units(Reaches, last)) \in Nat
      BY <1>1, <3>1, FanAssumption, LessOutOfAll
    <3>3. CASE b \in last
      <4>1. Cardinality(Units(new, last)) + n <= Cardinality(Units(Outlays, last))
        BY <1>1, <1>3, <3>3, FanAssumption, LessOutOfPart
      <4> QED
        BY <3>2, <4>1
    <3>4. CASE b \notin last
      <4>1. n = 0
        BY <1>2, <2>1, <3>4 DEF PassedBy
      <4> QED
        BY <3>2, <4>1
    <3> QED
      BY <3>3, <3>4
  <2>4. runSpent' + Cardinality(Units(new, last)) <= RunCeiling + Cardinality(Units(Reaches, last))
    BY <1>1, <2>1, <2>3 DEF PassedBy
  <2>5. PassedBy(last)'
    BY <1>1, <1>2, <2>1, <2>2, <2>4 DEF PassedBy, new
  <2> QED
    BY <2>5
<1>6. CASE ~(runSpent >= RunCeiling)
  <2>1. InFlight \in SUBSET Branches /\ b \in InFlight
    <3>1. n > 0
      BY <1>1, <1>6
    <3> QED
      BY <3>1 DEF InFlight, Outlay
  <2>2. \A c \in Branches \ InFlight : new[c] = 0
    BY <1>2, <1>4 DEF Outlay
  <2>3. /\ Cardinality(Units(new, InFlight)) + n <= Cardinality(Units(Outlays, InFlight))
        /\ Cardinality(Units(Outlays, InFlight)) <= Cardinality(Units(Reaches, InFlight))
        /\ Cardinality(Units(new, InFlight)) \in Nat
        /\ Cardinality(Units(Outlays, InFlight)) \in Nat
        /\ Cardinality(Units(Reaches, InFlight)) \in Nat
    <3>1. \A c \in InFlight : new[c] <= Outlays[c] /\ Outlays[c] <= Reaches[c]
      BY <1>1, <1>2, <1>3, <2>1
    <3>2. Cardinality(Units(new, InFlight)) + n <= Cardinality(Units(Outlays, InFlight))
      BY <1>1, <1>3, <2>1, FanAssumption, LessOutOfPart
    <3> QED
      BY <1>1, <2>1, <3>1, <3>2, FanAssumption, LessOutOfAll
  <2>4. runSpent' + Cardinality(Units(new, InFlight))
          <= RunCeiling + Cardinality(Units(Reaches, InFlight))
    BY <1>1, <1>6, <2>3
  <2>5. PICK those \in SUBSET Branches : those = InFlight
    BY <2>1
  <2>6. PassedBy(those)'
    BY <1>1, <1>2, <2>2, <2>4, <2>5 DEF PassedBy, new, OutlaysAreBounded
  <2> QED
    BY <2>6
<1> QED
  BY <1>5, <1>6

\* A step in which one branch gets on, or is over.
LEMMA GettingOnInFlight ==
  ASSUME FanTypeOK, FanTypeOK', OutlaysAreBounded, UNCHANGED fanInput, NEW b \in Branches,
         \A c \in Branches \ {b} : branch'[c] = branch[c],
         branch'[b].limit = branch[b].limit, b \in InFlight' => b \in InFlight,
         OutFits(b)',
         NEW n \in Nat, runSpent' = runSpent + n, n > 0 => Outlay(b) > 0,
         runSpent' >= RunCeiling => Outlay(b)' + n <= Outlay(b)
  PROVE  OutlaysAreBounded'
<1>1. \A c \in Branches \ {b} : Outlay(c)' = Outlay(c) /\ Outlay(c) \in Int
  <2>1. \A c \in Branches : Outlay(c) \in Nat
    BY OutlaysTyped DEF Outlays
  <2>2. \A c \in Branches \ {b} : Outlay(c)' = Outlay(c)
    BY DEF Outlay, InFlight, Sliced, MayStart
  <2> QED
    BY <2>1, <2>2
<1>2. runSpent' >= RunCeiling => \E last \in SUBSET Branches : PassedBy(last)'
  BY <1>1, SpendingKeepsBound
<1>3. \A c \in Branches : OutFits(c)'
  BY DEF OutlaysAreBounded, OutFits
<1>4. \A c \in InFlight' : c \in InFlight /\ branch'[c].limit = branch[c].limit
  BY DEF InFlight
<1>5. \A c \in InFlight' : IF Sliced(c) THEN branch'[c].limit <= fanInput[c].slice
                                        ELSE branch'[c].limit = RunCeiling
  BY <1>4 DEF OutlaysAreBounded
<1>6. Cardinality(InFlight') <= MaxConcurrency
  <2>1. IsFiniteSet(InFlight)
    BY FanAssumption, FS_Subset DEF InFlight
  <2>2. InFlight' \subseteq InFlight
    BY <1>4
  <2>3. /\ Cardinality(InFlight') <= Cardinality(InFlight)
        /\ Cardinality(InFlight) \in Nat /\ Cardinality(InFlight') \in Nat /\ MaxConcurrency \in Nat
    BY <2>1, <2>2, FS_Subset, FS_CardinalityType, FanAssumption
  <2> QED
    BY <2>3 DEF OutlaysAreBounded
<1>7. \A c : Sliced(c)' <=> Sliced(c)
  BY DEF Sliced
<1> QED
  BY <1>2, <1>3, <1>5, <1>6, <1>7 DEF OutlaysAreBounded

LEMMA BoundsKept == FanSpec => [](FanTypeOK /\ OutlaysAreBounded)
<1>1. FanInit => OutlaysAreBounded
  <2> SUFFICES ASSUME FanInit PROVE OutlaysAreBounded
    OBVIOUS
  <2>1. InFlight = {}
    BY DEF FanInit, InFlight
  <2>2. RunCeiling \in Nat \ {0} /\ MaxConcurrency \in Nat \ {0} /\ Cardinality({}) = 0
    BY FanAssumption, FS_EmptySet
  <2> QED
    BY <2>1, <2>2 DEF FanInit, OutlaysAreBounded, OutFits
<1>2. FanTypeOK /\ FanTypeOK' /\ OutlaysAreBounded /\ [FanNext]_fanVars => OutlaysAreBounded'
  <2> SUFFICES ASSUME FanTypeOK, FanTypeOK', OutlaysAreBounded, [FanNext]_fanVars
               PROVE  OutlaysAreBounded'
    OBVIOUS
  <2>0. /\ branch \in [Branches -> FanBranches] /\ runSpent \in Nat
        /\ \A c \in Branches : /\ branch[c].used \in Nat /\ branch[c].limit \in Nat
                               /\ branch[c].out \in 0..MaxParallelCalls
    BY BranchesTyped, BudgetsTyped DEF FanTypeOK
  <2>1. /\ CostliestCall \in Nat /\ CallEstimate \in Nat \ {0} /\ CallEstimate <= CostliestCall
        /\ RunCeiling \in Nat \ {0} /\ MaxConcurrency \in Nat
    BY CostliestIsMost, FanAssumption
  <2>2. \A c \in Branches : Outlay(c) \in Nat
    BY OutlaysTyped DEF Outlays
  <2>3. ASSUME NEW b \in Branches, NEW at \in FanStages, at \notin {"running", "asking", "breached", "failing"},
               Ends(b, at), UNCHANGED <<fanInput, runSpent>>
        PROVE  OutlaysAreBounded'
    <3>1. /\ \A c \in Branches \ {b} : branch'[c] = branch[c]
          /\ branch'[b].limit = branch[b].limit /\ branch'[b].at = at /\ branch'[b].out = 0
      BY <2>0, <2>3 DEF Ends, FanBranches
    <3>2. b \notin InFlight' /\ OutFits(b)'
      BY <2>3, <3>1 DEF InFlight, OutFits
    <3>3. Outlay(b)' + 0 <= Outlay(b)
      BY <2>2, <3>2 DEF Outlay
    <3>4. runSpent' = runSpent + 0 /\ 0 \in Nat
      BY <2>0, <2>3
    <3> QED
      BY <2>3, <3>1, <3>2, <3>3, <3>4, GettingOnInFlight
  <2>4. ASSUME NEW b \in Branches, NotStarted(b) PROVE OutlaysAreBounded'
    <3>1. Ends(b, "exhausted") \/ Ends(b, "cancelled")
      BY <2>4 DEF NotStarted
    <3> QED
      BY <2>3, <2>4, <3>1 DEF NotStarted, FanStages
  <2>5. ASSUME NEW b \in Branches, DelegateRefuses(b) PROVE OutlaysAreBounded'
    BY <2>3, <2>5 DEF DelegateRefuses, FanStages
  <2>6. ASSUME NEW b \in Branches, HandOver(b) PROVE OutlaysAreBounded'
    <3>1. /\ UNCHANGED <<fanInput, runSpent>>
          /\ branch[b].at = "queued" /\ Cardinality(InFlight) < MaxConcurrency
          /\ \A c \in Branches \ {b} : branch'[c] = branch[c]
          /\ branch'[b].at = "running" /\ branch'[b].out = 0
      BY <2>0, <2>6 DEF HandOver, HandedOver, Through
    <3>2. Sliced(b) => /\ branch'[b].limit = Min({fanInput[b].slice, Left})
                       /\ Left > 0
      BY <2>0, <2>6 DEF HandOver
    <3>3. ~Sliced(b) => branch'[b].limit = RunCeiling /\ branch'[b].used = runSpent
      BY <2>0, <2>6 DEF HandOver
    <3>4. Sliced(b) => branch'[b].limit <= fanInput[b].slice
      <4>1. fanInput[b].slice \in Nat /\ Left \in Nat
        BY <2>0, <2>1, FanInputsTyped DEF Left
      <4>2. \E m \in {fanInput[b].slice, Left} : \A k \in {fanInput[b].slice, Left} : m <= k
        BY <4>1
      <4>3. Min({fanInput[b].slice, Left}) <= fanInput[b].slice
        BY <4>2 DEF Min
      <4> QED
        BY <3>2, <4>3
    <3>5. InFlight' = InFlight \cup {b} /\ b \notin InFlight
      BY <3>1 DEF InFlight
    <3>6. Cardinality(InFlight') <= MaxConcurrency
      <4>1. IsFiniteSet(InFlight)
        BY FanAssumption, FS_Subset DEF InFlight
      <4>2. Cardinality(InFlight') = Cardinality(InFlight) + 1 /\ Cardinality(InFlight) \in Nat
        BY <3>5, <4>1, OneMore
      <4> QED
        BY <2>1, <3>1, <4>2
    <3>7. \A c \in Branches : OutFits(c)'
      BY <3>1 DEF OutlaysAreBounded, OutFits
    <3>8. \A c \in InFlight' : IF Sliced(c) THEN branch'[c].limit <= fanInput[c].slice
                                            ELSE branch'[c].limit = RunCeiling
      BY <3>1, <3>3, <3>4, <3>5 DEF OutlaysAreBounded, InFlight
    <3>9. runSpent' >= RunCeiling => \E last \in SUBSET Branches : PassedBy(last)'
      <4>1. ASSUME runSpent' >= RunCeiling PROVE Outlay(b)' + 0 <= Outlay(b)
        <5>1. ~Sliced(b)
          BY <2>0, <2>1, <3>1, <3>2, <4>1 DEF Left
        <5>2. ~(branch'[b].used + CallEstimate <= branch'[b].limit)
          BY <2>0, <2>1, <3>1, <3>3, <4>1, <5>1
        <5>3. Outlay(b)' = 0
          BY <3>1, <5>2, OwedAddsUp, BatchTyped DEF Outlay, MayStart
        <5> QED
          BY <2>2, <5>3
      <4>2. \A c \in Branches \ {b} : Outlay(c)' <= Outlay(c)
        <5>1. \A c \in Branches \ {b} : Outlay(c)' = Outlay(c)
          BY <3>1 DEF Outlay, InFlight, Sliced, MayStart
        <5> QED
          BY <2>2, <5>1
      <4>3. runSpent' = runSpent + 0 /\ 0 \in Nat /\ ~(0 > 0)
        BY <2>0, <3>1
      <4> QED
        BY <3>1, <4>1, <4>2, <4>3, SpendingKeepsBound
    <3>10. \A c : Sliced(c)' <=> Sliced(c)
      BY <3>1 DEF Sliced
    <3> QED
      BY <3>1, <3>6, <3>7, <3>8, <3>9, <3>10 DEF OutlaysAreBounded
  <2>7. ASSUME NEW b \in Branches, GroupBreaks(b) PROVE OutlaysAreBounded'
    <3>0. HandedOver(b) /\ branch' =
            [c \in Branches |-> IF c \in Unfinished THEN CutOff(branch[c]) ELSE branch[c]]
      BY <2>7 DEF GroupBreaks
    <3>1. UNCHANGED <<fanInput, runSpent>>
      BY <3>0 DEF HandedOver
    <3>a. \A c \in Branches : /\ CutOff(branch[c]).at = "cut" /\ CutOff(branch[c]).out = 0
                              /\ CutOff(branch[c]).limit = branch[c].limit
      BY <2>0 DEF CutOff, FanBranches
    <3>2. \A c \in Branches : /\ branch'[c].at \notin {"running", "asking", "breached", "failing"}
                              /\ branch'[c].limit = branch[c].limit
                              /\ branch'[c].out = branch[c].out \/ branch'[c].out = 0
      BY <3>0, <3>a DEF Unfinished, InFlight
    <3>3. InFlight' = {} /\ \A c \in Branches : Outlay(c)' = 0
      BY <3>2 DEF InFlight, Outlay
    <3>4. runSpent' >= RunCeiling => \E last \in SUBSET Branches : PassedBy(last)'
      <4>1. Outlay(b)' + 0 <= Outlay(b)
        BY <2>2, <3>3
      <4>2. \A c \in Branches \ {b} : Outlay(c)' <= Outlay(c)
        BY <2>2, <3>3
      <4>3. runSpent' = runSpent + 0 /\ 0 \in Nat /\ ~(0 > 0)
        BY <2>0, <3>1
      <4> QED
        BY <3>1, <4>1, <4>2, <4>3, SpendingKeepsBound
    <3>5. Cardinality(InFlight') <= MaxConcurrency
      BY <2>1, <3>3, FS_EmptySet
    <3>6. \A c \in Branches : OutFits(c)'
      BY <3>2 DEF OutlaysAreBounded, OutFits
    <3> QED
      BY <3>3, <3>4, <3>5, <3>6 DEF OutlaysAreBounded
  <2>a. ASSUME NEW b \in Branches
        PROVE  /\ FullBatch \in Nat /\ CostliestCall <= FullBatch /\ Owed(0) = 0
               /\ Owed(branch[b].out) \in Nat /\ Owed(branch[b].out) <= FullBatch
               /\ branch[b].out > 0 =>
                    /\ Owed(branch[b].out - 1) + CostliestCall = Owed(branch[b].out)
                    /\ Owed(branch[b].out - 1) \in Nat
               /\ branch[b].out < MaxParallelCalls =>
                    Owed(branch[b].out + 1) \in Nat /\ Owed(branch[b].out + 1) <= FullBatch
    <3>1. /\ branch[b].out \in 0..MaxParallelCalls
          /\ branch[b].out > 0 => branch[b].out - 1 \in 0..MaxParallelCalls
          /\ branch[b].out < MaxParallelCalls => branch[b].out + 1 \in 0..MaxParallelCalls
      BY <2>0, OwedAddsUp, BatchTyped
    <3> QED
      BY <3>1, OwedAddsUp, BatchTyped
  <2>b. ASSUME NEW b \in Branches, NEW at, NEW used, NEW out, Becomes(b, at, used, out)
        PROVE  /\ \A c \in Branches \ {b} : branch'[c] = branch[c]
               /\ branch'[b].limit = branch[b].limit /\ branch'[b].at = at
               /\ branch'[b].used = used /\ branch'[b].out = out
    BY <2>0, <2>b DEF Becomes, FanBranches
  <2>c. ASSUME NEW b \in Branches, b \in InFlight, branch[b].out > 0
        PROVE  /\ Outlay(b) >= CostliestCall /\ Outlay(b) >= Owed(branch[b].out) /\ Outlay(b) > 0
               /\ CallEstimate <= branch[b].limit
    <3>1. CASE MayStart(b)
      BY <2>0, <2>1, <2>a, <2>c, <3>1 DEF Outlay, MayStart, OutlaysAreBounded, OutFits
    <3>2. CASE ~MayStart(b)
      BY <2>0, <2>1, <2>a, <2>c, <3>2 DEF Outlay, OutlaysAreBounded, OutFits
    <3> QED
      BY <3>1, <3>2
  <2>d. ASSUME NEW b \in Branches, UNCHANGED fanInput
        PROVE  /\ Sliced(b)' <=> Sliced(b)
               /\ Outlay(b)' = 0 \/ Outlay(b)' = Owed(branch'[b].out) \/ MayStart(b)'
               /\ ~MayStart(b)' => Outlay(b)' = 0 \/ Outlay(b)' = Owed(branch'[b].out)
    BY <2>d DEF Outlay, Sliced
  <2>8. ASSUME NEW b \in Branches, AskModel(b) PROVE OutlaysAreBounded'
    <3>0. UNCHANGED <<fanInput, runSpent>> /\ b \in InFlight /\ branch[b].out = 0
      BY <2>8 DEF AskModel, InFlight
    <3>1. runSpent' = runSpent + 0 /\ 0 \in Nat /\ ~(0 > 0)
      BY <2>0, <3>0
    <3>2. PICK at \in {"asking", "breached"}, out \in {0, 1} :
            /\ Becomes(b, at, branch[b].used, out)
            /\ (MayStart(b) /\ out = 1) \/ (at = "breached" /\ out = 0)
      BY <2>8 DEF AskModel
    <3>3. /\ \A c \in Branches \ {b} : branch'[c] = branch[c]
          /\ branch'[b].limit = branch[b].limit /\ branch'[b].at = at
          /\ branch'[b].used = branch[b].used /\ branch'[b].out = out
      BY <2>b, <3>2
    <3>4. OutFits(b)'
      BY <2>0, <2>1, <3>2, <3>3 DEF MayStart, OutFits
    <3>5. Outlay(b)' + 0 <= Outlay(b)
      <4>1. CASE MayStart(b)
        <5>1. Outlay(b)' = Outlay(b)
          BY <3>0, <3>3, <4>1 DEF Outlay, MayStart, Sliced, InFlight
        <5> QED
          BY <2>2, <5>1
      <4>2. CASE ~MayStart(b)
        <5>1. out = branch[b].out
          BY <3>0, <3>2, <4>2
        <5>2. Outlay(b)' = Outlay(b)
          BY <3>0, <3>3, <4>2, <5>1 DEF Outlay, MayStart, Sliced, InFlight
        <5> QED
          BY <2>2, <5>2
      <4> QED
        BY <4>1, <4>2
    <3> QED
      BY <3>0, <3>1, <3>3, <3>4, <3>5, GettingOnInFlight
  <2>9. ASSUME NEW b \in Branches, BranchCancelled(b) PROVE OutlaysAreBounded'
    <3> DEFINE n == IF branch[b].at = "asking" THEN CallEstimate ELSE 0
    <3>1. /\ \A c \in Branches \ {b} : branch'[c] = branch[c]
          /\ branch'[b].limit = branch[b].limit /\ branch'[b].at = "cancelled" /\ branch'[b].out = 0
      BY <2>0, <2>9 DEF BranchCancelled, Ends, FanBranches
    <3>2. UNCHANGED fanInput /\ b \in InFlight /\ runSpent' = runSpent + n /\ n \in Nat
      BY <2>1, <2>9 DEF BranchCancelled, Charged
    <3>3. b \notin InFlight'
      BY <3>1 DEF InFlight
    <3>4. branch[b].at = "asking" => Outlay(b) >= CostliestCall
      BY <2>c, <3>2 DEF OutlaysAreBounded, OutFits
    <3>5. Outlay(b)' = 0
      BY <3>3 DEF Outlay
    <3>6. n <= Outlay(b)
      BY <2>1, <2>2, <3>4
    <3> HIDE DEF n
    <3>7. Outlay(b)' + n <= Outlay(b) /\ (n > 0 => Outlay(b) > 0)
      BY <2>2, <3>2, <3>5, <3>6
    <3>8. OutFits(b)'
      BY <3>1 DEF OutFits
    <3> QED
      BY <3>1, <3>2, <3>3, <3>7, <3>8, GettingOnInFlight
  <2>e. ASSUME NEW b \in Branches, UNCHANGED fanInput, b \in InFlight, branch[b].out > 0,
               NEW cost \in Nat, cost <= CostliestCall, runSpent' = runSpent + cost,
               \A c \in Branches \ {b} : branch'[c] = branch[c],
               branch'[b].limit = branch[b].limit, branch'[b].used = Absorbed(b, cost),
               branch'[b].out = branch[b].out - 1 \/ branch'[b].out = 0, branch'[b].at # "asking"
        PROVE  OutlaysAreBounded'
    <3>1. /\ Outlay(b) >= CostliestCall /\ Outlay(b) >= Owed(branch[b].out) /\ Outlay(b) > 0
          /\ CallEstimate <= branch[b].limit
      BY <2>c, <2>e
    <3>2. /\ Owed(branch'[b].out) \in Nat
          /\ Owed(branch'[b].out) + CostliestCall <= Owed(branch[b].out)
      <4>1. CASE branch'[b].out = branch[b].out - 1
        BY <2>1, <2>a, <2>e, <4>1
      <4>2. CASE branch'[b].out = 0
        BY <2>1, <2>a, <2>e, <4>2
      <4> QED
        BY <2>e, <4>1, <4>2
    <3>3. ASSUME runSpent' >= RunCeiling PROVE Outlay(b)' + cost <= Outlay(b)
      <4>1. CASE ~MayStart(b)'
        <5>1. Outlay(b)' = 0 \/ Outlay(b)' = Owed(branch'[b].out)
          BY <2>d, <2>e, <4>1
        <5> QED
          BY <2>1, <2>2, <2>a, <2>e, <3>1, <3>2, <5>1
      <4>2. CASE MayStart(b)'
        <5>1. Sliced(b)
          <6> SUFFICES ASSUME ~Sliced(b) PROVE FALSE
            OBVIOUS
          <6>1. branch'[b].limit = RunCeiling /\ branch'[b].used = runSpent'
            BY <2>e DEF Absorbed, OutlaysAreBounded
          <6> QED
            BY <2>0, <2>1, <2>e, <3>3, <4>2, <6>1 DEF MayStart
        <5>2. branch'[b].used = branch[b].used + cost
          BY <2>e, <5>1 DEF Absorbed
        <5>3. MayStart(b)
          BY <2>0, <2>1, <2>e, <4>2, <5>2 DEF MayStart
        <5>4. Outlay(b) = FullBatch + (branch[b].limit - (branch[b].used + CallEstimate))
          BY <2>e, <5>1, <5>3 DEF Outlay
        <5>5. \/ Outlay(b)' = 0
              \/ Outlay(b)' = FullBatch + (branch[b].limit - (branch[b].used + cost + CallEstimate))
          BY <2>d, <2>e, <4>2, <5>1, <5>2 DEF Outlay
        <5>6. branch[b].used + cost + CallEstimate <= branch[b].limit
          BY <2>e, <4>2, <5>2 DEF MayStart
        <5>7. CASE Outlay(b)' = 0
          BY <2>2, <2>e, <2>1, <3>1, <5>7
        <5>8. CASE Outlay(b)' = FullBatch + (branch[b].limit - (branch[b].used + cost + CallEstimate))
          BY <2>0, <2>1, <2>a, <2>e, <5>4, <5>8
        <5> QED
          BY <5>5, <5>7, <5>8
      <4> QED
        BY <4>1, <4>2
    <3>4. OutFits(b)'
      BY <2>e, <3>1 DEF OutFits
    <3> QED
      BY <2>e, <3>1, <3>3, <3>4, GettingOnInFlight
  <2>10. ASSUME NEW b \in Branches, NEW cost \in CallCosts \cup {CallEstimate}, ModelReturns(b, cost)
         PROVE  OutlaysAreBounded'
    <3>1. cost \in Nat /\ cost <= CostliestCall
      BY CostliestIsMost
    <3>2. UNCHANGED fanInput /\ b \in InFlight /\ runSpent' = runSpent + cost
      BY <2>10 DEF ModelReturns, Charged, InFlight
    <3>3. \E at \in FanStages \ {"asking"} : Becomes(b, at, Absorbed(b, cost), 0)
      BY <2>10 DEF ModelReturns, FanStages
    <3>4. /\ \A c \in Branches \ {b} : branch'[c] = branch[c]
          /\ branch'[b].limit = branch[b].limit /\ branch'[b].used = Absorbed(b, cost)
          /\ branch'[b].out = 0 /\ branch'[b].at # "asking"
      BY <2>b, <3>3
    <3>5. branch[b].out > 0
      BY <2>10 DEF ModelReturns, OutlaysAreBounded, OutFits
    <3> QED
      BY <2>e, <3>1, <3>2, <3>4, <3>5
  <2>12. ASSUME NEW b \in Branches, NEW cost \in CallCosts, ToolAnswers(b, cost)
         PROVE  OutlaysAreBounded'
    <3>1. cost \in Nat /\ cost <= CostliestCall
      BY CostliestIsMost
    <3>2. UNCHANGED fanInput /\ b \in InFlight /\ runSpent' = runSpent + cost /\ branch[b].out > 0
      BY <2>12 DEF ToolAnswers, Charged, InFlight
    <3>3. \E at \in FanStages \ {"asking"} : Becomes(b, at, Absorbed(b, cost), branch[b].out - 1)
      BY <2>12 DEF ToolAnswers, Breaks, FanStages
    <3>4. /\ \A c \in Branches \ {b} : branch'[c] = branch[c]
          /\ branch'[b].limit = branch[b].limit /\ branch'[b].used = Absorbed(b, cost)
          /\ branch'[b].out = branch[b].out - 1 /\ branch'[b].at # "asking"
      BY <2>b, <3>3
    <3> QED
      BY <2>e, <3>1, <3>2, <3>4
  <2>13. ASSUME NEW b \in Branches, CallTool(b) PROVE OutlaysAreBounded'
    <3>0. /\ UNCHANGED <<fanInput, runSpent>> /\ b \in InFlight
          /\ branch[b].at \in {"running", "failing"} /\ branch[b].out < MaxParallelCalls
      BY <2>13 DEF CallTool, InFlight
    <3>1. runSpent' = runSpent + 0 /\ 0 \in Nat /\ ~(0 > 0)
      BY <2>0, <3>0
    <3>2. \A at \in Breaks(b) : at \in {"breached", "failing"}
      BY DEF Breaks
    <3>3. CASE MayStart(b)
      <4>1. PICK at \in {"running", "breached", "failing"}, out \in {branch[b].out, branch[b].out + 1} :
              Becomes(b, at, Absorbed(b, 0), out)
        BY <2>13, <3>0, <3>2, <3>3 DEF CallTool
      <4>2. /\ \A c \in Branches \ {b} : branch'[c] = branch[c]
            /\ branch'[b].limit = branch[b].limit /\ branch'[b].at = at
            /\ branch'[b].used = Absorbed(b, 0) /\ branch'[b].out = out
        BY <2>b, <4>1
      <4>3. OutFits(b)'
        BY <2>0, <2>1, <3>3, <4>2 DEF MayStart, OutFits
      <4>4. ASSUME runSpent' >= RunCeiling PROVE Outlay(b)' + 0 <= Outlay(b)
        <5>1. CASE Sliced(b)
          <6>1. branch'[b].used = branch[b].used
            BY <2>0, <4>2, <5>1 DEF Absorbed
          <6>2. Outlay(b)' = Outlay(b)
            BY <3>0, <3>3, <4>2, <6>1 DEF Outlay, MayStart, Sliced, InFlight
          <6> QED
            BY <2>2, <6>2
        <5>2. CASE ~Sliced(b)
          <6>1. Outlay(b) = FullBatch /\ branch[b].limit = RunCeiling
            BY <2>a, <3>0, <3>3, <5>2 DEF Outlay, OutlaysAreBounded
          <6>2. branch'[b].used = runSpent
            BY <2>0, <4>2, <5>2 DEF Absorbed
          <6>3. ~MayStart(b)'
            BY <2>0, <2>1, <3>0, <4>2, <4>4, <6>1, <6>2 DEF MayStart
          <6>4. Outlay(b)' = 0 \/ Outlay(b)' = Owed(branch'[b].out)
            BY <2>d, <3>0, <6>3
          <6>5. Owed(branch'[b].out) \in Nat /\ Owed(branch'[b].out) <= FullBatch
            BY <2>a, <3>0, <4>2
          <6> QED
            BY <2>a, <6>1, <6>4, <6>5
        <5> QED
          BY <5>1, <5>2
      <4> QED
        BY <3>0, <3>1, <4>2, <4>3, <4>4, GettingOnInFlight
    <3>4. CASE ~MayStart(b)
      <4>1. PICK at \in {"breached", "failing"} : Becomes(b, at, branch[b].used, branch[b].out)
        BY <2>13, <3>2, <3>4 DEF CallTool
      <4>2. /\ \A c \in Branches \ {b} : branch'[c] = branch[c]
            /\ branch'[b].limit = branch[b].limit /\ branch'[b].at = at
            /\ branch'[b].used = branch[b].used /\ branch'[b].out = branch[b].out
        BY <2>b, <4>1
      <4>3. OutFits(b)'
        BY <4>2 DEF OutlaysAreBounded, OutFits
      <4>4. Outlay(b)' + 0 <= Outlay(b)
        <5>1. Outlay(b)' = Outlay(b)
          BY <3>0, <3>4, <4>2 DEF Outlay, MayStart, Sliced, InFlight
        <5> QED
          BY <2>2, <5>1
      <4> QED
        BY <3>0, <3>1, <4>2, <4>3, <4>4, GettingOnInFlight
    <3> QED
      BY <3>3, <3>4
  <2>14. ASSUME NEW b \in Branches, ToolFails(b) PROVE OutlaysAreBounded'
    <3>0. UNCHANGED <<fanInput, runSpent>> /\ b \in InFlight /\ branch[b].out > 0
      BY <2>14 DEF ToolFails, InFlight
    <3>1. runSpent' = runSpent + 0 /\ 0 \in Nat /\ ~(0 > 0)
      BY <2>0, <3>0
    <3>2. PICK at \in {branch[b].at, "failing"} : Becomes(b, at, branch[b].used, branch[b].out - 1)
      BY <2>14 DEF ToolFails
    <3>3. /\ \A c \in Branches \ {b} : branch'[c] = branch[c]
          /\ branch'[b].limit = branch[b].limit /\ branch'[b].at = at
          /\ branch'[b].used = branch[b].used /\ branch'[b].out = branch[b].out - 1
      BY <2>b, <3>2
    <3>4. OutFits(b)'
      BY <2>14, <2>c, <3>0, <3>3 DEF OutFits, ToolFails
    <3>5. Outlay(b)' + 0 <= Outlay(b)
      <4>1. CASE MayStart(b)
        <5>1. Outlay(b)' = Outlay(b)
          BY <3>0, <3>3, <4>1 DEF Outlay, MayStart, Sliced, InFlight
        <5> QED
          BY <2>2, <5>1
      <4>2. CASE ~MayStart(b)
        <5>1. ~MayStart(b)'
          BY <3>3, <4>2 DEF MayStart
        <5>2. Outlay(b)' = 0 \/ Outlay(b)' = Owed(branch[b].out - 1)
          BY <2>d, <3>0, <3>3, <5>1
        <5>3. Outlay(b) = Owed(branch[b].out)
          BY <3>0, <4>2 DEF Outlay
        <5> QED
          BY <2>1, <2>2, <2>a, <3>0, <5>2, <5>3
      <4> QED
        BY <4>1, <4>2
    <3> QED
      BY <3>0, <3>1, <3>3, <3>4, <3>5, GettingOnInFlight
  <2>15. ASSUME NEW b \in Branches, BranchOver(b) PROVE OutlaysAreBounded'
    <3>1. Ends(b, "exhausted") \/ Ends(b, "failed")
      BY <2>15 DEF BranchOver
    <3> QED
      BY <2>3, <2>15, <3>1 DEF BranchOver, FanStages
  <2>11. CASE UNCHANGED <<fanInput, branch, runSpent>>
    BY <2>11 DEF OutlaysAreBounded, PassedBy, Outlays, Reaches, Reach, Outlay, InFlight, Sliced,
                 MayStart, OutFits
  <2> QED
    BY <2>4, <2>5, <2>6, <2>7, <2>8, <2>9, <2>10, <2>11, <2>12, <2>13, <2>14, <2>15
    DEF FanNext, StopFanOut, fanVars
<1>3. FanTypeOK /\ OutlaysAreBounded /\ [FanNext]_fanVars /\ FanTypeOK' => OutlaysAreBounded'
  BY <1>2
<1> QED
  BY <1>1, <1>3, FanTyped, PTL DEF FanSpec

\* What MapThenSumSet makes of the reaches.
LEMMA ReachesAddUp ==
  ASSUME FanTypeOK, NEW last \in SUBSET Branches
  PROVE  MapThenSumSet(Reach, last) = Cardinality(Units(Reaches, last))
<1> DEFINE f == [b \in last |-> Reach(b)]
           Adding(g) ==
             [T \in SUBSET last |-> IF T = {} THEN 0 ELSE Reach(Whatever(T)) + g[T \ {Whatever(T)}]]
           sum == CHOOSE g : g = Adding(g)
<1>1. IsFiniteSet(last) /\ f \in [last -> Nat]
  BY ReachesTyped, FanAssumption, FS_Subset DEF Reaches
<1>2. \A T \in SUBSET last : T # {} => Whatever(T) \in last /\ f[Whatever(T)] = Reach(Whatever(T))
  BY DEF Whatever
<1>3. \A g : Adding(g) = Summing(f, last, g)
  <2> HIDE DEF f
  <2> QED
    BY <1>2 DEF Summing
<1>4. Units(f, last) = Units(Reaches, last)
  BY DEF Units, Reaches
<1> HIDE DEF f, Adding
<1>5. \E g : g = Adding(g)
  BY <1>1, <1>3, SumsCountUnits
<1>6. sum = Adding(sum)
  BY <1>5
<1>7. sum[last] = Cardinality(Units(f, last))
  BY <1>1, <1>3, <1>6, SumsCountUnits
<1>8. MapThenSumSet(Reach, last) = sum[last]
  BY DEF MapThenSumSet, MapThenFoldSet, Adding, Whatever
<1> QED
  BY <1>4, <1>7, <1>8

\* The run passes its ceiling by no more than the reach of as many branches as may be
\* in flight at once, for any branches, slices, ceilings and costs.
THEOREM OverrunStaysBounded == FanSpec => []OverrunIsBounded
<1>1. ASSUME FanTypeOK, OutlaysAreBounded PROVE OverrunIsBounded
  <2>1. RunCeiling \in Nat /\ runSpent \in Nat /\ MaxConcurrency \in Nat
    BY <1>1, FanAssumption DEF FanTypeOK
  <2>2. \A last \in SUBSET Branches :
          /\ MapThenSumSet(Reach, last) = Cardinality(Units(Reaches, last))
          /\ Cardinality(Units(Reaches, last)) \in Nat /\ Cardinality(Units(Outlays, last)) \in Nat
    <3> TAKE last \in SUBSET Branches
    <3>1. MapThenSumSet(Reach, last) = Cardinality(Units(Reaches, last))
      BY <1>1, ReachesAddUp
    <3>2. Reaches \in [Branches -> Nat] /\ Outlays \in [Branches -> Nat]
      BY <1>1, ReachesTyped, OutlaysTyped
    <3>3. \A c \in last : Reaches[c] <= Reaches[c] /\ Outlays[c] <= Outlays[c]
      BY <3>2
    <3> QED
      BY <3>1, <3>2, <3>3, FanAssumption, LessOutOfAll
  <2>3. CASE runSpent >= RunCeiling
    <3>1. PICK last \in SUBSET Branches : PassedBy(last)
      BY <1>1, <2>3 DEF OutlaysAreBounded
    <3>2. runSpent <= RunCeiling + MapThenSumSet(Reach, last)
      BY <2>1, <2>2, <3>1 DEF PassedBy
    <3> QED
      BY <3>1, <3>2 DEF PassedBy, OverrunIsBounded
  <2>4. CASE ~(runSpent >= RunCeiling)
    <3>1. Cardinality({}) <= MaxConcurrency
      BY <2>1, FS_EmptySet
    <3>2. runSpent <= RunCeiling + MapThenSumSet(Reach, {})
      BY <2>1, <2>2, <2>4
    <3> QED
      BY <3>1, <3>2 DEF OverrunIsBounded
  <2> QED
    BY <2>3, <2>4
<1>2. FanTypeOK /\ OutlaysAreBounded => OverrunIsBounded
  BY <1>1
<1> QED
  BY <1>2, BoundsKept, PTL

-----------------------------------------------------------------------------
(* The execution of a plan.                                                  *)

LEMMA PlacedByRound ==
  /\ Placed[0] = {}
  /\ \A n \in Nat \ {0} : Placed[n] = {s \in Steps : plan.after[s] \subseteq Placed[n - 1]}
<1>1. Placed = CHOOSE g : g = [n \in Nat |-> IF n = 0 THEN {}
                                ELSE {s \in Steps : plan.after[s] \subseteq g[n - 1]}]
  BY DEF Placed
<1>2. \E g : g = [n \in Nat |-> IF n = 0 THEN {}
                                ELSE {s \in Steps : plan.after[s] \subseteq g[n - 1]}]
  <2>1. \E g : g = Rounds(plan.after, Steps, g)
    BY ThereAreRounds
  <2> QED
    BY <2>1 DEF Rounds
<1>3. Placed = [n \in Nat |-> IF n = 0 THEN {}
                              ELSE {s \in Steps : plan.after[s] \subseteq Placed[n - 1]}]
  BY <1>1, <1>2
<1> HIDE DEF Placed
<1> QED
  BY <1>3

\* What is placed stays placed.
LEMMA PlacedGrows ==
  \A n, m \in Nat : n <= m => Placed[n] \subseteq Placed[m] /\ Placed[n] \subseteq Steps
<1> DEFINE P == Placed
<1>0. /\ P[0] = {}
      /\ \A n \in Nat \ {0} : P[n] = {s \in Steps : plan.after[s] \subseteq P[n - 1]}
  BY PlacedByRound
<1> HIDE DEF P
<1> DEFINE lost == {n \in Nat : ~(P[n] \subseteq P[n + 1])}
<1>1. lost = {}
  <2> SUFFICES ASSUME lost # {} PROVE FALSE
    OBVIOUS
  <2>1. PICK n \in lost : \A m \in lost : n <= m
    BY LeastNatural
  <2>2. n \in Nat /\ ~(P[n] \subseteq P[n + 1]) /\ n # 0
    BY <1>0
  <2>3. n - 1 \in Nat /\ n - 1 \notin lost
    <3>1. n - 1 \in Nat /\ ~(n <= n - 1)
      BY <2>2
    <3> HIDE DEF lost
    <3> QED
      BY <2>1, <3>1
  <2>4. P[n - 1] \subseteq P[n]
    BY <2>2, <2>3
  <2>5. /\ P[n] = {s \in Steps : plan.after[s] \subseteq P[n - 1]}
        /\ P[n + 1] = {s \in Steps : plan.after[s] \subseteq P[n]}
    BY <1>0, <2>2
  <2> QED
    BY <2>2, <2>4, <2>5
<1>2. ASSUME NEW n \in Nat PROVE \A m \in Nat : n <= m => P[n] \subseteq P[m]
  <2> DEFINE missing == {m \in Nat : n <= m /\ ~(P[n] \subseteq P[m])}
  <2> SUFFICES ASSUME missing # {} PROVE FALSE
    OBVIOUS
  <2>1. PICK m \in missing : \A k \in missing : m <= k
    BY LeastNatural
  <2>2. m \in Nat /\ n <= m /\ ~(P[n] \subseteq P[m]) /\ m # n
    OBVIOUS
  <2>3. m - 1 \in Nat /\ n <= m - 1 /\ m - 1 \notin missing
    <3>1. m - 1 \in Nat /\ n <= m - 1 /\ ~(m <= m - 1)
      BY <2>2
    <3> HIDE DEF missing
    <3> QED
      BY <2>1, <3>1
  <2>4. P[n] \subseteq P[m - 1]
    BY <2>3
  <2>5. P[m - 1] \subseteq P[m]
    <3>1. \A k \in Nat : P[k] \subseteq P[k + 1]
      BY <1>1
    <3>2. (m - 1) + 1 = m
      BY <2>2
    <3> QED
      BY <2>3, <3>1, <3>2
  <2> QED
    BY <2>2, <2>4, <2>5
<1>3. \A n \in Nat : P[n] \subseteq Steps
  BY <1>0
<1> QED
  BY <1>2, <1>3 DEF P

\* Where nothing waits in a loop every step has a round, after those of what it
\* waits for.
LEMMA RoundsFollow ==
  ASSUME PlanTypeOK, Looped = {}
  PROVE  /\ \A s \in Steps : Round(s) \in Nat
         /\ \A s \in Steps : \A d \in plan.after[s] : d \in Steps /\ Round(d) < Round(s)
<1> DEFINE P == Placed
           N == Cardinality(Steps)
<1>0. /\ N \in Nat /\ plan.after \in [Steps -> SUBSET Steps]
      /\ Steps \subseteq P[N]
  BY PlanAssumption, FS_CardinalityType DEF PlanTypeOK, Looped
<1>1. /\ P[0] = {} /\ \A n \in Nat \ {0} : P[n] = {s \in Steps : plan.after[s] \subseteq P[n - 1]}
      /\ \A n, m \in Nat : n <= m => P[n] \subseteq P[m]
  BY PlacedByRound, PlacedGrows
<1> HIDE DEF P
<1>2. ASSUME NEW s \in Steps
      PROVE  Round(s) \in 1..N /\ s \in P[Round(s)] /\ s \notin P[Round(s) - 1]
  <2> DEFINE placed == {n \in Nat : s \in P[n]}
  <2>1. N \in placed
    BY <1>0
  <2>2. PICK n \in placed : \A m \in placed : n <= m
    BY <2>1, LeastNatural
  <2>3. n \in Nat /\ s \in P[n] /\ n <= N /\ n # 0
    BY <1>1, <2>1, <2>2
  <2>4. n \in 1..N /\ s \notin P[n - 1]
    <3>1. n - 1 \in Nat /\ ~(n <= n - 1)
      BY <2>3
    <3>2. n - 1 \notin placed
      <4> HIDE DEF placed
      <4> QED
        BY <2>2, <3>1
    <3> QED
      BY <1>0, <2>3, <3>1, <3>2
  <2>5. Round(s) = CHOOSE k \in 1..N : s \in P[k] /\ s \notin P[k - 1]
    BY DEF Round, P
  <2> HIDE DEF placed, N
  <2> QED
    BY <2>3, <2>4, <2>5
<1>3. ASSUME NEW s \in Steps, NEW d \in plan.after[s] PROVE d \in Steps /\ Round(d) < Round(s)
  <2>1. d \in Steps
    BY <1>0
  <2>2. /\ Round(s) \in Nat \ {0} /\ Round(d) \in Nat \ {0}
        /\ s \in P[Round(s)] /\ d \notin P[Round(d) - 1]
    BY <1>0, <1>2, <2>1
  <2>3. d \in P[Round(s) - 1]
    BY <1>1, <2>2
  <2>4. ~(Round(s) - 1 <= Round(d) - 1)
    <3> SUFFICES ASSUME Round(s) - 1 <= Round(d) - 1 PROVE FALSE
      OBVIOUS
    <3>1. Round(s) - 1 \in Nat /\ Round(d) - 1 \in Nat
      BY <2>2
    <3>2. P[Round(s) - 1] \subseteq P[Round(d) - 1]
      BY <1>1, <3>1
    <3> QED
      BY <2>2, <2>3, <3>2
  <2> QED
    BY <2>1, <2>2, <2>4
<1> QED
  BY <1>0, <1>2, <1>3

\* The next step waits for nothing that is not done.
LEMMA NextStepIsFree ==
  ASSUME PlanTypeOK, Looped = {}, NEW e \in Executors, Remaining(e) # {}
  PROVE  /\ NextStep(e) \in Steps /\ NextStep(e) \notin executor[e].done
         /\ plan.after[NextStep(e)] \subseteq executor[e].done
<1>0. /\ Steps \in SUBSET Nat /\ \A s \in Steps : Round(s) \in Nat
      /\ \A s \in Steps : \A d \in plan.after[s] : d \in Steps /\ Round(d) < Round(s)
  <2>1. Steps \in SUBSET Nat
    <3>1. 1..Cardinality(Steps) \subseteq Nat
      OBVIOUS
    <3> QED
      BY <3>1, PlanAssumption
  <2> QED
    BY <2>1, RoundsFollow
<1>1. Remaining(e) \in SUBSET Steps
  BY DEF Remaining
<1>2. \E s \in Remaining(e) : \A t \in Remaining(e) \ {s} : Precedes(s, t)
  <2> DEFINE rounds == {Round(s) : s \in Remaining(e)}
  <2>1. rounds \in SUBSET Nat /\ rounds # {}
    BY <1>0, <1>1
  <2>2. PICK r \in rounds : \A n \in rounds : r <= n
    BY <2>1, LeastNatural
  <2> DEFINE first == {s \in Remaining(e) : Round(s) = r}
  <2>3. first \in SUBSET Nat /\ first # {}
    BY <1>0, <1>1, <2>1
  <2>4. PICK s \in first : \A t \in first : s <= t
    BY <2>3, LeastNatural
  <2>5. ASSUME NEW t \in Remaining(e) \ {s} PROVE Precedes(s, t)
    <3>1. /\ s \in Nat /\ t \in Nat /\ Round(s) = r /\ Round(t) \in rounds
          /\ Round(s) \in Nat /\ Round(t) \in Nat
      BY <1>0, <1>1
    <3>2. r <= Round(t)
      <4> HIDE DEF rounds
      <4> QED
        BY <2>2, <3>1
    <3>3. CASE Round(t) = r
      BY <2>4, <3>1, <3>3 DEF Precedes
    <3>4. CASE Round(t) # r
      BY <3>1, <3>2, <3>4 DEF Precedes
    <3> QED
      BY <3>3, <3>4
  <2> QED
    BY <2>5
<1> DEFINE s == NextStep(e)
<1>3. s \in Remaining(e) /\ \A t \in Remaining(e) \ {s} : Precedes(s, t)
  BY <1>2 DEF NextStep
<1> HIDE DEF s
<1>4. ASSUME NEW d \in plan.after[s] PROVE d \in executor[e].done
  <2> SUFFICES ASSUME d \notin executor[e].done PROVE FALSE
    OBVIOUS
  <2>1. d \in Steps /\ Round(d) < Round(s) /\ Round(d) \in Nat /\ Round(s) \in Nat
    BY <1>0, <1>1, <1>3
  <2>2. d \in Remaining(e) \ {s}
    BY <2>1 DEF Remaining
  <2>3. Precedes(s, d)
    BY <1>3, <2>2
  <2> QED
    BY <2>1, <2>3 DEF Precedes
<1>5. s \in Steps /\ s \notin executor[e].done /\ plan.after[s] \subseteq executor[e].done
  BY <1>3, <1>4 DEF Remaining
<1> QED
  BY <1>5 DEF s

Working(e) == executor[e].at \in {"ready", "calling", "landed", "abandoning"}

\* Who carries a plan carries one without a loop, has work left while at work, and
\* has done nothing that did not take effect.
ExecutorKept(e) ==
  /\ executor[e].at # "away" => Looped = {}
  /\ Working(e) => Remaining(e) # {}
  /\ executor[e].at = "complete" => Remaining(e) = {}
  /\ \A s \in executor[e].done : TookEffect(s)
  /\ executor[e].at = "landed" => effects[NextStep(e)] > 0

\* Between begin and record or abandon.
HasKey(e, k) == executor[e].at \in {"calling", "landed", "abandoning"} /\ KeyOf(e) = k

\* Took effect more often than it was undone by its tool raising.
Unregretted(s) == effects[s] > regretted[s]

\* A key is one executor's at a time, and in flight meanwhile; of the steps under it
\* no two have an effect that stands, and one that has keeps the key from being free.
KeyKept(k) ==
  /\ \A d, e \in Executors : HasKey(d, k) /\ HasKey(e, k) => d = e
  /\ \A e \in Executors : HasKey(e, k) =>
       /\ keyState[k] = "flying"
       /\ executor[e].at = "landed" => Unregretted(NextStep(e))
  /\ keyState[k] = "recorded" => \E s \in Steps : plan.key[s] = k /\ effects[s] > 0
  /\ \A s \in Steps : plan.key[s] = k =>
       /\ regretted[s] <= effects[s] /\ effects[s] <= regretted[s] + 1
       /\ Unregretted(s) =>
            /\ keyState[k] # "free"
            /\ \A e \in Executors : HasKey(e, k) => executor[e].at = "landed" /\ NextStep(e) = s
            /\ \A t \in Steps : plan.key[t] = k /\ Unregretted(t) => t = s

StepKept(s) == effects[s] > 0 => \A d \in plan.after[s] : TookEffect(d)

PlanKept ==
  /\ \A e \in Executors : ExecutorKept(e)
  /\ \A k \in Keys : KeyKept(k)
  /\ \A s \in Steps : StepKept(s)
  /\ \A s \in planRow.done : TookEffect(s)

PlanInv == PlanTypeOK /\ PlanKept

Stages == {"away", "clearing", "ready", "calling", "landed", "abandoning", "failed", "written",
           "complete"}

\* What an executor at work is about to do.
LEMMA AtWork ==
  ASSUME PlanInv, NEW e \in Executors, Working(e)
  PROVE  /\ NextStep(e) \in Steps /\ plan.after[NextStep(e)] \subseteq executor[e].done
         /\ KeyOf(e) \in Keys \cup {NoKey} /\ KeyOf(e) = plan.key[NextStep(e)]
<1>1. Looped = {} /\ Remaining(e) # {} /\ PlanTypeOK
  BY DEF PlanInv, PlanKept, ExecutorKept, Working
<1>2. NextStep(e) \in Steps /\ plan.after[NextStep(e)] \subseteq executor[e].done
  BY <1>1, NextStepIsFree
<1>3. plan.key \in [Steps -> Keys \cup {NoKey}]
  BY <1>1, PlanAssumption DEF PlanTypeOK
<1> QED
  BY <1>2, <1>3 DEF KeyOf

LEMMA PlanTypesStep == ASSUME PlanInv, [PlanNext]_planVars PROVE PlanTypeOK'
<1>0. /\ executor \in [Executors -> [at: Stages, done: SUBSET Steps]]
      /\ plan \in PlanInputs /\ planRow \in [there: BOOLEAN, done: SUBSET Steps]
      /\ keyState \in [Keys -> {"free", "flying", "recorded"}]
      /\ effects \in [Steps -> Nat] /\ regretted \in [Steps -> Nat]
      /\ entries \in 0..MaxEntries
  BY DEF PlanInv, PlanTypeOK, Stages
<1>1. /\ \A r \in [at: Stages, done: SUBSET Steps] : \A at \in Stages :
           [r EXCEPT !.at = at] \in [at: Stages, done: SUBSET Steps]
      /\ Away \in [at: Stages, done: SUBSET Steps]
      /\ \A at \in Stages : \A done \in SUBSET Steps :
           [at |-> at, done |-> done] \in [at: Stages, done: SUBSET Steps]
  BY DEF Away, Stages
<1>2. \A e \in Executors : \A at \in Stages :
        Goes(e, at) => executor' \in [Executors -> [at: Stages, done: SUBSET Steps]]
  <2> SUFFICES ASSUME NEW e \in Executors, NEW at \in Stages,
                      executor' = [executor EXCEPT ![e].at = at]
               PROVE  executor' \in [Executors -> [at: Stages, done: SUBSET Steps]]
    BY DEF Goes
  <2>1. executor' = [executor EXCEPT ![e] = [executor[e] EXCEPT !.at = at]]
    OBVIOUS
  <2>2. [executor[e] EXCEPT !.at = at] \in [at: Stages, done: SUBSET Steps]
    BY <1>0, <1>1
  <2> QED
    BY <1>0, <2>1, <2>2
<1>3. \A e \in Executors : \A r \in [at: Stages, done: SUBSET Steps] :
        executor' = [executor EXCEPT ![e] = r] =>
          executor' \in [Executors -> [at: Stages, done: SUBSET Steps]]
  BY <1>0
<1>4. \A e \in Executors : Working(e) => Finished(e) \in [at: Stages, done: SUBSET Steps]
  <2> SUFFICES ASSUME NEW e \in Executors, NextStep(e) \in Steps
               PROVE  Finished(e) \in [at: Stages, done: SUBSET Steps]
    BY AtWork
  <2>1. \A r \in [at: Stages, done: SUBSET Steps] : \A s \in Steps :
          [r EXCEPT !.at = "written", !.done = r.done \cup {s}]
            \in [at: Stages, done: SUBSET Steps]
    BY DEF Stages
  <2> QED
    BY Zenon, <1>0, <2>1 DEF Finished
<1> SUFFICES /\ executor' \in [Executors -> [at: Stages, done: SUBSET Steps]]
             /\ plan' \in PlanInputs /\ planRow' \in [there: BOOLEAN, done: SUBSET Steps]
             /\ keyState' \in [Keys -> {"free", "flying", "recorded"}]
             /\ effects' \in [Steps -> Nat] /\ regretted' \in [Steps -> Nat]
             /\ entries' \in 0..MaxEntries
  BY DEF PlanTypeOK, Stages
<1>5. ASSUME NEW e \in Executors, NEW results \in SUBSET Steps, StartPlan(e, results)
      PROVE  /\ executor' \in [Executors -> [at: Stages, done: SUBSET Steps]]
             /\ entries' \in 0..MaxEntries /\ UNCHANGED <<plan, planRow, keyState, effects, regretted>>
  <2>1. [at |-> "clearing", done |-> results] \in [at: Stages, done: SUBSET Steps]
    BY <1>1 DEF Stages
  <2>2. executor' \in [Executors -> [at: Stages, done: SUBSET Steps]]
    BY <1>3, <1>5, <2>1 DEF StartPlan
  <2> QED
    BY <1>0, <1>5, <2>2, PlanAssumption DEF StartPlan
<1>6. ASSUME NEW e \in Executors, Execute(e) \/ Resume(e)
      PROVE  /\ executor' \in [Executors -> [at: Stages, done: SUBSET Steps]]
             /\ entries' \in 0..MaxEntries /\ UNCHANGED <<plan, planRow, keyState, effects, regretted>>
  BY <1>0, <1>5, <1>6 DEF Execute, Resume
<1>7. ASSUME NEW e \in Executors, Declined(e) \/ ExecutorDies(e)
      PROVE  executor' \in [Executors -> [at: Stages, done: SUBSET Steps]]
  BY <1>1, <1>3, <1>7 DEF Declined, ExecutorDies
<1>8. ASSUME NEW e \in Executors, Cleared(e)
      PROVE  /\ executor' \in [Executors -> [at: Stages, done: SUBSET Steps]]
             /\ planRow' \in [there: BOOLEAN, done: SUBSET Steps]
  BY <1>0, <1>2, <1>8 DEF Cleared, Stages
<1>9. ASSUME NEW e \in Executors, ClaimKey(e)
      PROVE  /\ executor' \in [Executors -> [at: Stages, done: SUBSET Steps]]
             /\ keyState' \in [Keys -> {"free", "flying", "recorded"}]
  <2>1. KeyOf(e) \in Keys \cup {NoKey} /\ Working(e)
    BY <1>9, AtWork DEF ClaimKey, Working
  <2>2. Finished(e) \in [at: Stages, done: SUBSET Steps]
    BY <1>4, <2>1
  <2>3. "calling" \in Stages /\ AfterRefusal \in Stages
    BY DEF AfterRefusal, Stages
  <2>4. CASE KeyOf(e) = NoKey
    BY <1>0, <1>2, <1>9, <2>3, <2>4 DEF ClaimKey
  <2>5. CASE KeyOf(e) \in Keys /\ KeyOf(e) # NoKey
    <3>1. keyState[KeyOf(e)] \in {"free", "flying", "recorded"}
      BY <1>0, <2>5
    <3>2. \/ keyState' = [keyState EXCEPT ![KeyOf(e)] = "flying"] /\ Goes(e, "calling")
          \/ UNCHANGED keyState /\ Goes(e, AfterRefusal)
          \/ UNCHANGED keyState /\ executor' = [executor EXCEPT ![e] = Finished(e)]
      BY <1>9, <2>5, <3>1 DEF ClaimKey
    <3> QED
      BY <1>0, <1>2, <1>3, <2>2, <2>3, <3>2
  <2> QED
    BY <2>1, <2>4, <2>5
<1>10. ASSUME NEW e \in Executors, StepLands(e)
       PROVE  /\ executor' \in [Executors -> [at: Stages, done: SUBSET Steps]]
              /\ effects' \in [Steps -> Nat]
  <2>1. executor' \in [Executors -> [at: Stages, done: SUBSET Steps]]
    BY <1>2, <1>10 DEF StepLands, Stages
  <2>2. \A s \in Steps : effects[s] + 1 \in Nat
    BY <1>0
  <2> QED
    BY <1>0, <1>10, <2>1, <2>2 DEF StepLands
<1>11. ASSUME NEW e \in Executors, StepRaises(e)
       PROVE  /\ executor' \in [Executors -> [at: Stages, done: SUBSET Steps]]
              /\ regretted' \in [Steps -> Nat]
  <2>1. executor' \in [Executors -> [at: Stages, done: SUBSET Steps]]
    BY <1>2, <1>11 DEF StepRaises, Stages
  <2>2. \A s \in Steps : regretted[s] + 1 \in Nat
    BY <1>0
  <2> QED
    BY <1>0, <1>11, <2>1, <2>2 DEF StepRaises
<1>12. ASSUME NEW e \in Executors, Abandon(e)
       PROVE  /\ executor' \in [Executors -> [at: Stages, done: SUBSET Steps]]
              /\ keyState' \in [Keys -> {"free", "flying", "recorded"}]
  BY <1>0, <1>2, <1>12 DEF Abandon, Stages
<1>13. ASSUME NEW e \in Executors, RecordOutcome(e)
       PROVE  /\ executor' \in [Executors -> [at: Stages, done: SUBSET Steps]]
              /\ keyState' \in [Keys -> {"free", "flying", "recorded"}]
  <2>1. Finished(e) \in [at: Stages, done: SUBSET Steps]
    BY <1>4, <1>13 DEF RecordOutcome, Working
  <2> QED
    BY <1>0, <1>3, <1>13, <2>1 DEF RecordOutcome
<1>14. ASSUME NEW e \in Executors, RecordFails(e)
       PROVE  executor' \in [Executors -> [at: Stages, done: SUBSET Steps]]
  BY <1>2, <1>14 DEF RecordFails, Stages
<1>15. ASSUME NEW e \in Executors, WriteProgress(e)
       PROVE  /\ executor' \in [Executors -> [at: Stages, done: SUBSET Steps]]
              /\ planRow' \in [there: BOOLEAN, done: SUBSET Steps]
  <2> DEFINE next == IF Remaining(e) = {} THEN "complete" ELSE "ready"
             r == IF executor[e].at = "failed" THEN Away ELSE [executor[e] EXCEPT !.at = next]
  <2>1. next \in Stages
    BY DEF Stages
  <2>2. r \in [at: Stages, done: SUBSET Steps]
    <3> HIDE DEF next
    <3> QED
      BY <1>0, <1>1, <2>1
  <2>3. executor' = [executor EXCEPT ![e] = r]
    BY <1>15 DEF WriteProgress
  <2>4. executor' \in [Executors -> [at: Stages, done: SUBSET Steps]]
    <3> HIDE DEF r
    <3> QED
      BY <1>3, <2>2, <2>3
  <2>5. executor[e].done \in SUBSET Steps /\ planRow' = [there |-> TRUE, done |-> executor[e].done]
    BY <1>0, <1>15 DEF WriteProgress
  <2> QED
    BY <2>4, <2>5
<1>16. ASSUME ForgetPlan PROVE planRow' \in [there: BOOLEAN, done: SUBSET Steps]
  BY <1>16 DEF ForgetPlan
<1>17. CASE UNCHANGED planVars
  BY <1>0, <1>17 DEF planVars
<1>18. CASE ForgetPlan
  BY <1>0, <1>16, <1>18 DEF ForgetPlan
<1>19. CASE \E e \in Executors : Execute(e) \/ Resume(e)
  BY <1>0, <1>6, <1>19
<1>20. CASE \E e \in Executors : Declined(e) \/ ExecutorDies(e)
  BY <1>0, <1>7, <1>20 DEF Declined, ExecutorDies
<1>21. CASE \E e \in Executors : Cleared(e)
  BY <1>0, <1>8, <1>21 DEF Cleared
<1>22. CASE \E e \in Executors : ClaimKey(e)
  BY <1>0, <1>9, <1>22 DEF ClaimKey
<1>23. CASE \E e \in Executors : StepLands(e) \/ StepRaises(e)
  BY <1>0, <1>10, <1>11, <1>23 DEF StepLands, StepRaises
<1>24. CASE \E e \in Executors : Abandon(e) \/ RecordOutcome(e) \/ RecordFails(e)
  BY <1>0, <1>12, <1>13, <1>14, <1>24 DEF Abandon, RecordOutcome, RecordFails
<1>25. CASE \E e \in Executors : WriteProgress(e)
  BY <1>0, <1>15, <1>25 DEF WriteProgress
<1> QED
  BY <1>17, <1>18, <1>19, <1>20, <1>21, <1>22, <1>23, <1>24, <1>25 DEF PlanNext

\* What a plan says of an executor depends on its results alone, and no step changes it.
LEMMA NextStays ==
  ASSUME plan' = plan
  PROVE  /\ Looped' = Looped
         /\ \A s : Alike(s)' = Alike(s)
         /\ \A d \in Executors : executor'[d].done = executor[d].done =>
              /\ Remaining(d)' = Remaining(d) /\ NextStep(d)' = NextStep(d)
              /\ KeyOf(d)' = KeyOf(d)
<1>1. Placed' = Placed
  BY DEF Placed
<1>2. Looped' = Looped
  BY <1>1 DEF Looped
<1>3. \A s : Alike(s)' = Alike(s)
  BY DEF Alike
<1>4. ASSUME NEW d \in Executors, executor'[d].done = executor[d].done
      PROVE  /\ Remaining(d)' = Remaining(d) /\ NextStep(d)' = NextStep(d)
             /\ KeyOf(d)' = KeyOf(d)
  <2>1. Remaining(d)' = Remaining(d)
    BY <1>4 DEF Remaining
  <2>2. \A s : Round(s)' = Round(s)
    BY <1>1 DEF Round
  <2>3. \A s, t : Precedes(s, t)' <=> Precedes(s, t)
    BY <2>2 DEF Precedes
  <2>4. NextStep(d)' = NextStep(d)
    BY <2>1, <2>2 DEF NextStep, Precedes
  <2> QED
    BY <2>1, <2>4 DEF KeyOf
<1> QED
  BY <1>2, <1>3, <1>4

\* What took effect once has taken effect.
LEMMA EffectsStay ==
  ASSUME PlanTypeOK, PlanTypeOK', plan' = plan, \A s \in Steps : effects[s] <= effects'[s]
  PROVE  /\ \A s \in Steps : effects[s] > 0 => effects'[s] > 0
         /\ \A s \in Steps : TookEffect(s) => TookEffect(s)'
<1>1. \A s \in Steps : effects[s] \in Nat /\ effects'[s] \in Nat
  BY DEF PlanTypeOK
<1>2. \A s \in Steps : effects[s] > 0 => effects'[s] > 0
  BY <1>1
<1>3. \A s \in Steps : Alike(s)' = Alike(s) /\ Alike(s) \subseteq Steps
  BY DEF Alike
<1>4. ASSUME NEW s \in Steps, TookEffect(s) PROVE TookEffect(s)'
  <2>1. PICK t \in Alike(s) : effects[t] > 0
    BY <1>4 DEF TookEffect
  <2>2. t \in Alike(s)' /\ effects'[t] > 0
    BY <1>2, <1>3, <2>1
  <2> QED
    BY <2>2 DEF TookEffect
<1> QED
  BY <1>2, <1>4

\* An executor that takes no step is kept.
LEMMA ExecutorStays ==
  ASSUME PlanInv, PlanTypeOK', plan' = plan, \A s \in Steps : effects[s] <= effects'[s],
         NEW d \in Executors, executor'[d] = executor[d]
  PROVE  ExecutorKept(d)'
<1>1. ExecutorKept(d) /\ PlanTypeOK
  BY DEF PlanInv, PlanKept
<1>2. Looped' = Looped /\ Remaining(d)' = Remaining(d) /\ NextStep(d)' = NextStep(d)
  BY NextStays
<1>3. /\ \A s \in Steps : effects[s] > 0 => effects'[s] > 0
      /\ \A s \in Steps : TookEffect(s) => TookEffect(s)'
  BY <1>1, EffectsStay
<1>4. executor[d].done \subseteq Steps
  BY <1>1 DEF PlanTypeOK
<1>5. (Working(d))' <=> Working(d)
  BY DEF Working
<1>6. (executor[d].at = "landed")' => (effects[NextStep(d)] > 0)'
  <2>1. executor[d].at = "landed" => NextStep(d) \in Steps
    BY AtWork DEF Working
  <2> QED
    BY <1>1, <1>2, <1>3, <2>1 DEF ExecutorKept
<1>7. (\A s \in executor[d].done : TookEffect(s))'
  BY <1>1, <1>3, <1>4 DEF ExecutorKept
<1>8. /\ (executor[d].at # "away" => Looped = {})'
      /\ (Working(d) => Remaining(d) # {})'
      /\ (executor[d].at = "complete" => Remaining(d) = {})'
  BY <1>1, <1>2, <1>5 DEF ExecutorKept
<1> QED
  BY <1>6, <1>7, <1>8 DEF ExecutorKept

\* Which key an executor has, from one step to the next.
LEMMA KeysHeld ==
  ASSUME plan' = plan, NEW k, NEW d \in Executors, executor'[d] = executor[d]
  PROVE  HasKey(d, k)' <=> HasKey(d, k)
BY NextStays DEF HasKey

\* A key nobody takes, and under which nothing happens, is kept.
LEMMA KeyStays ==
  ASSUME PlanInv, plan' = plan, NEW k \in Keys, keyState'[k] = keyState[k],
         \A s \in Steps : plan.key[s] = k => effects'[s] = effects[s] /\ regretted'[s] = regretted[s],
         \A d \in Executors : HasKey(d, k)' => executor'[d] = executor[d]
  PROVE  KeyKept(k)'
<1>1. KeyKept(k) /\ PlanTypeOK
  BY DEF PlanInv, PlanKept
<1>2. \A d \in Executors : HasKey(d, k)' =>
        HasKey(d, k) /\ executor'[d] = executor[d] /\ NextStep(d)' = NextStep(d)
  BY KeysHeld, NextStays
<1>3. \A s \in Steps : plan.key[s] = k => (Unregretted(s)' <=> Unregretted(s))
  BY DEF Unregretted
<1>4. \A d \in Executors : HasKey(d, k) /\ executor[d].at = "landed" =>
        NextStep(d) \in Steps /\ plan.key[NextStep(d)] = k
  BY AtWork DEF HasKey, Working
<1>5. (\A d, e \in Executors : HasKey(d, k) /\ HasKey(e, k) => d = e)'
  BY <1>1, <1>2 DEF KeyKept
<1>6. ASSUME NEW e \in Executors, HasKey(e, k)'
      PROVE  /\ keyState'[k] = "flying"
             /\ executor'[e].at = "landed" => Unregretted(NextStep(e))'
  BY <1>1, <1>2, <1>3, <1>4, <1>6 DEF KeyKept, Unregretted
<1>7. (keyState[k] = "recorded" => \E s \in Steps : plan.key[s] = k /\ effects[s] > 0)'
  BY <1>1 DEF KeyKept
<1>8. ASSUME NEW s \in Steps, plan.key[s] = k
      PROVE  /\ regretted'[s] <= effects'[s] /\ effects'[s] <= regretted'[s] + 1
             /\ Unregretted(s)' =>
                  /\ keyState'[k] # "free"
                  /\ \A e \in Executors : HasKey(e, k)' =>
                       executor'[e].at = "landed" /\ (NextStep(e))' = s
                  /\ \A t \in Steps : plan.key[t] = k /\ Unregretted(t)' => t = s
  <2>1. /\ regretted'[s] <= effects'[s] /\ effects'[s] <= regretted'[s] + 1
    BY <1>1, <1>8 DEF KeyKept
  <2>2. ASSUME Unregretted(s)'
        PROVE  /\ keyState'[k] # "free"
               /\ \A e \in Executors : HasKey(e, k)' =>
                    executor'[e].at = "landed" /\ (NextStep(e))' = s
               /\ \A t \in Steps : plan.key[t] = k /\ Unregretted(t)' => t = s
    BY <1>1, <1>2, <1>3, <1>8, <2>2 DEF KeyKept
  <2> QED
    BY <2>1, <2>2
<1> QED
  BY <1>5, <1>6, <1>7, <1>8 DEF KeyKept

\* A plan stays, and what took effect.
LEMMA EffectsGrow ==
  ASSUME PlanInv, [PlanNext]_planVars
  PROVE  plan' = plan /\ \A s \in Steps : effects[s] <= effects'[s]
<1>1. \A s \in Steps : effects[s] \in Nat /\ effects[s] <= effects[s] /\ effects[s] <= effects[s] + 1
  BY DEF PlanInv, PlanTypeOK
<1>2. ASSUME UNCHANGED <<plan, effects>>
      PROVE  plan' = plan /\ \A s \in Steps : effects[s] <= effects'[s]
  BY <1>1, <1>2
<1>3. CASE \E e \in Executors : StepLands(e)
  <2>1. PICK e \in Executors : StepLands(e)
    BY <1>3
  <2>2. plan' = plan /\ effects' = [effects EXCEPT ![NextStep(e)] = effects[NextStep(e)] + 1]
    BY <2>1 DEF StepLands
  <2>3. effects \in [Steps -> Nat]
    BY DEF PlanInv, PlanTypeOK
  <2> QED
    BY <1>1, <2>2, <2>3
<1>4. CASE ~ \E e \in Executors : StepLands(e)
  <2>1. UNCHANGED <<plan, effects>>
    BY <1>4 DEF PlanNext, planVars, ForgetPlan, Execute, Resume, StartPlan, Declined, Cleared,
       ClaimKey, StepRaises, Abandon, RecordOutcome, RecordFails, WriteProgress, ExecutorDies
  <2> QED
    BY <1>2, <2>1
<1> QED
  BY <1>3, <1>4

\* One that goes from a stage to the next, its results as they are, is kept where the
\* next asks for no more.
LEMMA GoerKept ==
  ASSUME PlanInv, PlanTypeOK', plan' = plan, \A s \in Steps : effects[s] <= effects'[s],
         NEW e \in Executors, executor[e].at # "away",
         executor'[e].done = executor[e].done,
         Working(e)' => Remaining(e) # {},
         executor'[e].at = "complete" => Remaining(e) = {},
         executor'[e].at = "landed" => effects'[NextStep(e)] > 0
  PROVE  ExecutorKept(e)'
<1>1. ExecutorKept(e) /\ PlanTypeOK
  BY DEF PlanInv, PlanKept
<1>2. Looped' = Looped /\ Remaining(e)' = Remaining(e) /\ NextStep(e)' = NextStep(e)
  BY NextStays
<1>3. \A s \in Steps : TookEffect(s) => TookEffect(s)'
  BY <1>1, EffectsStay
<1>4. executor[e].done \subseteq Steps
  BY <1>1 DEF PlanTypeOK
<1>5. (\A s \in executor[e].done : TookEffect(s))'
  BY <1>1, <1>3, <1>4 DEF ExecutorKept
<1>6. (effects[NextStep(e)])' = effects'[NextStep(e)]
  BY <1>2
<1> QED
  BY <1>1, <1>2, <1>5, <1>6 DEF ExecutorKept

\* One that is away, or has just started on results that took effect, is kept.
LEMMA StarterKept ==
  ASSUME PlanInv, PlanTypeOK', plan' = plan, \A s \in Steps : effects[s] <= effects'[s],
         NEW e \in Executors, executor'[e].at \in {"away", "clearing", "written"},
         executor'[e].at # "away" => Looped = {},
         \A s \in executor'[e].done : TookEffect(s)
  PROVE  ExecutorKept(e)'
<1>1. PlanTypeOK
  BY DEF PlanInv
<1>2. Looped' = Looped
  BY NextStays
<1>3. \A s \in Steps : TookEffect(s) => TookEffect(s)'
  BY <1>1, EffectsStay
<1>4. executor'[e].done \subseteq Steps
  BY DEF PlanTypeOK
<1>5. (\A s \in executor[e].done : TookEffect(s))'
  BY <1>3, <1>4
<1>6. ~(Working(e))' /\ executor'[e].at # "complete" /\ executor'[e].at # "landed"
  BY DEF Working
<1> QED
  BY <1>2, <1>5, <1>6 DEF ExecutorKept

LEMMA ExecutorsKept ==
  ASSUME PlanInv, [PlanNext]_planVars, PlanTypeOK'
  PROVE  \A d \in Executors : ExecutorKept(d)'
<1>0. /\ plan' = plan /\ \A s \in Steps : effects[s] <= effects'[s]
      /\ executor \in [Executors -> [at: Stages, done: SUBSET Steps]]
      /\ effects \in [Steps -> Nat]
  BY EffectsGrow DEF PlanInv, PlanTypeOK, Stages
<1>1. \A e \in Executors : executor[e].done \subseteq Steps /\ ExecutorKept(e)
  BY <1>0 DEF PlanInv, PlanKept
<1>2. \A e \in Executors : \A at : Goes(e, at) =>
        executor'[e].at = at /\ executor'[e].done = executor[e].done
  BY <1>0 DEF Goes
<1>3. \A e \in Executors : \A at : Goes(e, at) =>
        \A d \in Executors : d # e => executor'[d] = executor[d]
  BY <1>0 DEF Goes
<1>4. \A e \in Executors : \A r : executor' = [executor EXCEPT ![e] = r] =>
        executor'[e] = r /\ \A d \in Executors : d # e => executor'[d] = executor[d]
  BY <1>0
<1>5. CASE UNCHANGED executor
  BY <1>0, <1>5, ExecutorStays
<1>6. ASSUME NEW e \in Executors, \A d \in Executors : d # e => executor'[d] = executor[d],
             ExecutorKept(e)'
      PROVE  \A d \in Executors : ExecutorKept(d)'
  BY <1>0, <1>6, ExecutorStays
<1>7. ASSUME NEW e \in Executors, Execute(e) \/ Resume(e) PROVE \A d \in Executors : ExecutorKept(d)'
  <2>1. PICK results \in {{}, planRow.done} : StartPlan(e, results)
    BY <1>7 DEF Execute, Resume
  <2>2. \A s \in results : TookEffect(s)
    BY <2>1 DEF PlanInv, PlanKept
  <2>3. /\ executor'[e] = [at |-> "clearing", done |-> results] /\ Looped = {}
        /\ \A d \in Executors : d # e => executor'[d] = executor[d]
    BY <1>4, <2>1 DEF StartPlan
  <2>4. ExecutorKept(e)'
    BY <1>0, <2>2, <2>3, StarterKept
  <2> QED
    BY <1>6, <2>3, <2>4
<1>8. ASSUME NEW e \in Executors, Declined(e) \/ ExecutorDies(e)
      PROVE  \A d \in Executors : ExecutorKept(d)'
  <2>1. executor'[e] = Away /\ \A d \in Executors : d # e => executor'[d] = executor[d]
    BY <1>4, <1>8 DEF Declined, ExecutorDies
  <2>2. executor'[e].at = "away" /\ executor'[e].done = {}
    BY <2>1 DEF Away
  <2>3. ExecutorKept(e)'
    BY <1>0, <2>2, StarterKept
  <2> QED
    BY <1>6, <2>1, <2>3
<1>9. ASSUME NEW e \in Executors, Cleared(e) PROVE \A d \in Executors : ExecutorKept(d)'
  <2> DEFINE next == IF Remaining(e) = {} THEN "complete" ELSE "ready"
  <2>1. Goes(e, next) /\ executor[e].at = "clearing"
    BY <1>9 DEF Cleared
  <2>2. executor'[e].at = next /\ executor'[e].done = executor[e].done
    BY <1>2, <2>1
  <2>3. /\ (Working(e))' => Remaining(e) # {}
        /\ executor'[e].at = "complete" => Remaining(e) = {}
        /\ executor'[e].at # "landed"
    BY <2>2 DEF Working
  <2>4. ExecutorKept(e)'
    BY <1>0, <2>1, <2>2, <2>3, GoerKept
  <2> QED
    BY <1>3, <1>6, <2>1, <2>4
\* What it has just finished took effect.
<1>10. ASSUME NEW e \in Executors, Working(e), executor' = [executor EXCEPT ![e] = Finished(e)],
              TookEffect(NextStep(e))
       PROVE  \A d \in Executors : ExecutorKept(d)'
  <2>1. NextStep(e) \in Steps /\ Looped = {}
    BY <1>1, <1>10, AtWork DEF ExecutorKept, Working
  <2>2. executor'[e] = Finished(e) /\ \A d \in Executors : d # e => executor'[d] = executor[d]
    BY <1>4, <1>10
  <2>3. \A r \in [at: Stages, done: SUBSET Steps] : \A s :
          LET f == [r EXCEPT !.at = "written", !.done = r.done \cup {s}] IN
          f.at = "written" /\ f.done = r.done \cup {s}
    OBVIOUS
  <2>4. executor'[e].at = "written" /\ executor'[e].done = executor[e].done \cup {NextStep(e)}
    BY <1>0, <2>2, <2>3 DEF Finished
  <2>5. \A s \in executor'[e].done : TookEffect(s)
    BY <1>1, <1>10, <2>4 DEF ExecutorKept
  <2>6. ExecutorKept(e)'
    BY <1>0, <2>1, <2>4, <2>5, StarterKept
  <2> QED
    BY <1>6, <2>2, <2>6
<1>11. ASSUME NEW e \in Executors, NEW at \in {"calling", "abandoning", "failed"}, Working(e),
              Goes(e, at)
       PROVE  \A d \in Executors : ExecutorKept(d)'
  <2>1. Remaining(e) # {} /\ executor[e].at # "away"
    BY <1>1, <1>11 DEF ExecutorKept, Working
  <2>2. executor'[e].at = at /\ executor'[e].done = executor[e].done
    BY <1>2, <1>11
  <2>3. executor'[e].at # "complete" /\ executor'[e].at # "landed"
    BY <2>2
  <2>4. ExecutorKept(e)'
    BY <1>0, <2>1, <2>2, <2>3, GoerKept
  <2> QED
    BY <1>3, <1>6, <1>11, <2>4
<1>12. ASSUME NEW e \in Executors, ClaimKey(e) PROVE \A d \in Executors : ExecutorKept(d)'
  <2>1. Working(e) /\ NextStep(e) \in Steps /\ KeyOf(e) \in Keys \cup {NoKey}
        /\ KeyOf(e) = plan.key[NextStep(e)]
    BY <1>12, AtWork DEF ClaimKey, Working
  <2>2. CASE KeyOf(e) = NoKey
    BY <1>11, <1>12, <2>1, <2>2 DEF ClaimKey
  <2>3. CASE KeyOf(e) \in Keys /\ KeyOf(e) # NoKey
    <3>1. keyState[KeyOf(e)] \in {"free", "flying", "recorded"}
      BY <2>3 DEF PlanInv, PlanTypeOK
    <3>2. \/ Goes(e, "calling")
          \/ Goes(e, "failed")
          \/ keyState[KeyOf(e)] = "recorded" /\ executor' = [executor EXCEPT ![e] = Finished(e)]
      BY <1>12, <2>3, <3>1 DEF ClaimKey, AfterRefusal
    <3>3. CASE Goes(e, "calling") \/ Goes(e, "failed")
      BY <1>11, <2>1, <3>3
    <3>4. CASE keyState[KeyOf(e)] = "recorded" /\ executor' = [executor EXCEPT ![e] = Finished(e)]
      <4>1. PICK s \in Steps : plan.key[s] = KeyOf(e) /\ effects[s] > 0
        BY <2>3, <3>4 DEF PlanInv, PlanKept, KeyKept
      <4>2. s \in Alike(NextStep(e))
        BY <2>1, <2>3, <4>1 DEF Alike
      <4> QED
        BY <1>10, <2>1, <3>4, <4>1, <4>2 DEF TookEffect
    <3> QED
      BY <3>2, <3>3, <3>4
  <2> QED
    BY <2>1, <2>2, <2>3
<1>13. ASSUME NEW e \in Executors, StepLands(e) PROVE \A d \in Executors : ExecutorKept(d)'
  <2>1. Working(e) /\ Goes(e, "landed") /\ effects' = [effects EXCEPT ![NextStep(e)] = effects[NextStep(e)] + 1]
    BY <1>13 DEF StepLands, Working
  <2>2. NextStep(e) \in Steps /\ Remaining(e) # {} /\ executor[e].at # "away"
    BY <1>1, <2>1, AtWork DEF ExecutorKept, Working
  <2>3. effects'[NextStep(e)] > 0
    BY <1>0, <2>1, <2>2
  <2>4. executor'[e].at = "landed" /\ executor'[e].done = executor[e].done
    BY <1>2, <2>1
  <2>5. ExecutorKept(e)'
    BY <1>0, <2>2, <2>3, <2>4, GoerKept
  <2> QED
    BY <1>3, <1>6, <2>1, <2>5
<1>14. ASSUME NEW e \in Executors, StepRaises(e) \/ Abandon(e) \/ RecordFails(e)
       PROVE  \A d \in Executors : ExecutorKept(d)'
  BY <1>11, <1>14 DEF StepRaises, Abandon, RecordFails, Working
<1>15. ASSUME NEW e \in Executors, RecordOutcome(e) PROVE \A d \in Executors : ExecutorKept(d)'
  <2>1. Working(e) /\ executor[e].at = "landed" /\ executor' = [executor EXCEPT ![e] = Finished(e)]
    BY <1>15 DEF RecordOutcome, Working
  <2>2. NextStep(e) \in Steps /\ effects[NextStep(e)] > 0
    BY <1>1, <2>1, AtWork DEF ExecutorKept
  <2>3. TookEffect(NextStep(e))
    BY <2>2 DEF TookEffect, Alike
  <2> QED
    BY <1>10, <2>1, <2>3
<1>16. ASSUME NEW e \in Executors, WriteProgress(e) PROVE \A d \in Executors : ExecutorKept(d)'
  <2> DEFINE next == IF Remaining(e) = {} THEN "complete" ELSE "ready"
  <2>1. CASE executor[e].at = "failed"
    <3>1. executor'[e] = Away /\ \A d \in Executors : d # e => executor'[d] = executor[d]
      BY <1>4, <1>16, <2>1 DEF WriteProgress
    <3>2. executor'[e].at = "away" /\ executor'[e].done = {}
      BY <3>1 DEF Away
    <3>3. ExecutorKept(e)'
      BY <1>0, <3>2, StarterKept
    <3> QED
      BY <1>6, <3>1, <3>3
  <2>2. CASE executor[e].at = "written"
    <3>1. executor' = [executor EXCEPT ![e] = [executor[e] EXCEPT !.at = next]]
      BY <1>16, <2>2 DEF WriteProgress
    <3>2. /\ executor'[e] = [executor[e] EXCEPT !.at = next]
          /\ \A d \in Executors : d # e => executor'[d] = executor[d]
      BY <1>4, <3>1
    <3>3. executor'[e].at = next /\ executor'[e].done = executor[e].done
      <4> HIDE DEF next
      <4> QED
        BY <1>0, <3>2
    <3>4. /\ (Working(e))' => Remaining(e) # {}
          /\ executor'[e].at = "complete" => Remaining(e) = {}
          /\ executor'[e].at # "landed"
      BY <3>3 DEF Working
    <3>5. ExecutorKept(e)'
      BY <1>0, <2>2, <3>3, <3>4, GoerKept
    <3> QED
      BY <1>6, <3>2, <3>5
  <2> QED
    BY <1>16, <2>1, <2>2 DEF WriteProgress
<1>17. CASE ForgetPlan \/ UNCHANGED planVars
  BY <1>5, <1>17 DEF ForgetPlan, planVars
<1> QED
  BY <1>7, <1>8, <1>9, <1>12, <1>13, <1>14, <1>15, <1>16, <1>17 DEF PlanNext

LEMMA KeysKept ==
  ASSUME PlanInv, [PlanNext]_planVars, PlanTypeOK'
  PROVE  \A k \in Keys : KeyKept(k)'
<1>0. /\ plan' = plan
      /\ executor \in [Executors -> [at: Stages, done: SUBSET Steps]]
      /\ effects \in [Steps -> Nat] /\ regretted \in [Steps -> Nat]
      /\ keyState \in [Keys -> {"free", "flying", "recorded"}]
      /\ \A k \in Keys : KeyKept(k)
      /\ NoKey \notin Keys
  BY EffectsGrow, PlanAssumption DEF PlanInv, PlanTypeOK, PlanKept, Stages
<1>1. \A e \in Executors : \A at : Goes(e, at) =>
        /\ executor'[e].at = at /\ executor'[e].done = executor[e].done
        /\ \A d \in Executors : d # e => executor'[d] = executor[d]
  BY <1>0 DEF Goes
<1>2. \A e \in Executors : \A r : executor' = [executor EXCEPT ![e] = r] =>
        executor'[e] = r /\ \A d \in Executors : d # e => executor'[d] = executor[d]
  BY <1>0
<1>3. \A e \in Executors : \A at : Goes(e, at) =>
        \A k : (HasKey(e, k))' <=> at \in {"calling", "landed", "abandoning"} /\ KeyOf(e) = k
  BY <1>0, <1>1, NextStays DEF HasKey
\* Nobody takes a key, and nothing happens under one.
<1>4. ASSUME UNCHANGED <<keyState, effects, regretted>>,
             \A d \in Executors : executor'[d] = executor[d] \/
                executor'[d].at \notin {"calling", "landed", "abandoning"}
      PROVE  \A k \in Keys : KeyKept(k)'
  <2>1. \A k \in Keys : \A d \in Executors : HasKey(d, k)' => executor'[d] = executor[d]
    BY <1>4 DEF HasKey
  <2> QED
    BY <1>0, <1>4, <2>1, KeyStays
\* Every key but the one of the executor that moves.
<1>5. ASSUME NEW e \in Executors, \A d \in Executors : d # e => executor'[d] = executor[d],
             NEW k \in Keys, ~(HasKey(e, k))', keyState'[k] = keyState[k],
             \A s \in Steps : plan.key[s] = k => effects'[s] = effects[s] /\ regretted'[s] = regretted[s]
      PROVE  KeyKept(k)'
  <2>1. \A d \in Executors : HasKey(d, k)' => executor'[d] = executor[d]
    BY <1>5
  <2> QED
    BY <1>0, <1>5, <2>1, KeyStays
<1>6. \A e \in Executors : \A at \in {"calling", "landed", "abandoning"} :
        executor[e].at = at /\ KeyOf(e) \in Keys =>
          HasKey(e, KeyOf(e)) /\ keyState[KeyOf(e)] = "flying"
  BY <1>0 DEF HasKey, KeyKept
<1>7. \A s \in Steps : effects[s] \in Nat /\ regretted[s] \in Nat
  BY <1>0
<1>8. ASSUME NEW e \in Executors, ClaimKey(e) PROVE \A k \in Keys : KeyKept(k)'
  <2>1. /\ Working(e) /\ NextStep(e) \in Steps /\ KeyOf(e) \in Keys \cup {NoKey}
        /\ UNCHANGED <<effects, regretted>>
    BY <1>8, AtWork DEF ClaimKey, Working
  <2>2. CASE KeyOf(e) = NoKey
    <3>1. Goes(e, "calling") /\ UNCHANGED keyState
      BY <1>8, <2>2 DEF ClaimKey
    <3>2. \A k \in Keys : ~(HasKey(e, k))'
      BY <1>0, <1>3, <2>2, <3>1
    <3> QED
      BY <1>1, <1>5, <2>1, <3>1, <3>2
  <2>3. CASE KeyOf(e) \in Keys /\ KeyOf(e) # NoKey
    <3>0. PICK k \in Keys : k = KeyOf(e)
      BY <2>3
    <3>1. keyState[k] \in {"free", "flying", "recorded"}
      BY <1>0
    <3>2. \/ /\ keyState[k] = "free" /\ Goes(e, "calling")
             /\ keyState' = [keyState EXCEPT ![k] = "flying"]
          \/ UNCHANGED keyState /\ Goes(e, "failed")
          \/ UNCHANGED keyState /\ executor' = [executor EXCEPT ![e] = Finished(e)]
      BY <1>8, <2>3, <3>0, <3>1 DEF ClaimKey, AfterRefusal
    <3>3. CASE UNCHANGED keyState /\ Goes(e, "failed")
      BY <1>1, <1>4, <2>1, <3>3
    <3>4. CASE UNCHANGED keyState /\ executor' = [executor EXCEPT ![e] = Finished(e)]
      <4>1. \A r \in [at: Stages, done: SUBSET Steps] : \A s :
              [r EXCEPT !.at = "written", !.done = r.done \cup {s}].at = "written"
        OBVIOUS
      <4>2. Finished(e).at = "written"
        BY <1>0, <4>1 DEF Finished
      <4>3. executor'[e].at = "written" /\ \A d \in Executors : d # e => executor'[d] = executor[d]
        BY <1>2, <3>4, <4>2
      <4> QED
        BY <1>4, <2>1, <3>4, <4>3
    <3>5. CASE /\ keyState[k] = "free" /\ Goes(e, "calling")
               /\ keyState' = [keyState EXCEPT ![k] = "flying"]
      <4>1. /\ \A d \in Executors : ~HasKey(d, k)
            /\ \A s \in Steps : plan.key[s] = k => ~Unregretted(s)
        BY <1>0, <2>3, <3>5 DEF KeyKept
      <4>2. /\ keyState'[k] = "flying" /\ \A j \in Keys : j # k => keyState'[j] = keyState[j]
            /\ \A d \in Executors : d # e => executor'[d] = executor[d]
            /\ executor'[e].at = "calling"
        BY <1>0, <1>1, <2>3, <3>5
      <4>3. \A d \in Executors : (HasKey(d, k))' => d = e
        BY <1>0, <4>1, <4>2, KeysHeld
      <4>4. \A s \in Steps : (Unregretted(s))' <=> Unregretted(s)
        BY <2>1 DEF Unregretted
      <4>5. KeyKept(k)'
        <5>1. (\A c, d \in Executors : HasKey(c, k) /\ HasKey(d, k) => c = d)'
          BY <4>3
        <5>2. (\A d \in Executors : HasKey(d, k) =>
                /\ keyState[k] = "flying"
                /\ executor[d].at = "landed" => Unregretted(NextStep(d)))'
          BY <4>2, <4>3
        <5>3. \A s \in Steps : plan.key[s] = k =>
                /\ regretted'[s] <= effects'[s] /\ effects'[s] <= regretted'[s] + 1
                /\ ~(Unregretted(s))'
          BY <1>0, <2>1, <2>3, <4>1, <4>4 DEF KeyKept
        <5> QED
          BY <1>0, <4>2, <5>1, <5>2, <5>3 DEF KeyKept
      <4>6. ASSUME NEW j \in Keys, j # k PROVE KeyKept(j)'
        <5>1. ~(HasKey(e, j))'
          BY <1>3, <3>0, <3>5, <4>6
        <5> QED
          BY <1>5, <2>1, <4>2, <4>6, <5>1
      <4> QED
        BY <4>5, <4>6
    <3> QED
      BY <3>2, <3>3, <3>4, <3>5
  <2> QED
    BY <2>1, <2>2, <2>3
\* The step of an executor that has a key: what else is done under it is undone.
<1>9. ASSUME NEW e \in Executors, executor[e].at \in {"calling", "landed", "abandoning"},
             NEW k \in Keys, KeyOf(e) = k
      PROVE  /\ plan.key[NextStep(e)] = k /\ keyState[k] = "flying"
             /\ \A d \in Executors : HasKey(d, k) => d = e
             /\ \A s \in Steps : plan.key[s] = k =>
                  /\ regretted[s] <= effects[s] /\ effects[s] <= regretted[s] + 1
                  /\ Unregretted(s) => executor[e].at = "landed" /\ s = NextStep(e)
             /\ executor[e].at = "landed" => Unregretted(NextStep(e))
  <2>1. plan.key[NextStep(e)] = k
    BY <1>9, AtWork DEF Working
  <2>2. HasKey(e, k) /\ KeyKept(k)
    BY <1>0, <1>9 DEF HasKey
  <2> QED
    BY <2>1, <2>2 DEF KeyKept
\* A key whose executor moves on, and under which nothing else stands.
<1>10. ASSUME NEW e \in Executors, executor[e].at \in {"calling", "landed", "abandoning"},
              NEW k \in Keys, KeyOf(e) = k, NEW n \in Steps, NextStep(e) = n,
              \A d \in Executors : d # e => executor'[d] = executor[d],
              (HasKey(e, k))' =>
                /\ keyState'[k] = "flying"
                /\ executor'[e].at = "landed" => (NextStep(e))' = n /\ effects'[n] > regretted'[n],
              keyState'[k] = "recorded" => effects'[n] > 0,
              \A s \in Steps : plan.key[s] = k =>
                /\ regretted'[s] <= effects'[s] /\ effects'[s] <= regretted'[s] + 1
                /\ effects'[s] > regretted'[s] =>
                     /\ keyState'[k] # "free" /\ s = n
                     /\ (HasKey(e, k))' => executor'[e].at = "landed" /\ (NextStep(e))' = n
       PROVE  KeyKept(k)'
  <2>1. \A d \in Executors : (HasKey(d, k))' => d = e
    BY <1>0, <1>9, <1>10, KeysHeld
  <2>2. plan.key[n] = k
    BY <1>9, <1>10
  <2>4. (\A c, d \in Executors : HasKey(c, k) /\ HasKey(d, k) => c = d)'
    BY <2>1
  <2>5. (\A d \in Executors : HasKey(d, k) =>
          /\ keyState[k] = "flying"
          /\ executor[d].at = "landed" => Unregretted(NextStep(d)))'
    BY <2>1, <1>10 DEF Unregretted
  <2>6. (keyState[k] = "recorded" => \E s \in Steps : plan.key[s] = k /\ effects[s] > 0)'
    BY <1>0, <2>2, <1>10
  <2>7. \A s \in Steps : plan'.key[s] = k =>
          /\ regretted'[s] <= effects'[s] /\ effects'[s] <= regretted'[s] + 1
          /\ (Unregretted(s))' =>
               /\ keyState'[k] # "free"
               /\ \A d \in Executors : (HasKey(d, k))' =>
                    executor'[d].at = "landed" /\ (NextStep(d))' = s
               /\ \A u \in Steps : plan'.key[u] = k /\ (Unregretted(u))' => u = s
    BY <1>0, <2>1, <1>10 DEF Unregretted
  <2> QED
    BY <2>4, <2>5, <2>6, <2>7 DEF KeyKept
\* The keys it has nothing to do with.
<1>11. ASSUME NEW e \in Executors, executor[e].at \in {"calling", "landed", "abandoning"},
              \A d \in Executors : d # e => executor'[d] = executor[d],
              \A k \in Keys : (HasKey(e, k))' => KeyOf(e) = k,
              \A k \in Keys : k # KeyOf(e) => keyState'[k] = keyState[k],
              \A s \in Steps : s # NextStep(e) => effects'[s] = effects[s] /\ regretted'[s] = regretted[s],
              KeyOf(e) \in Keys => \A k \in Keys : k = KeyOf(e) => KeyKept(k)'
       PROVE  \A k \in Keys : KeyKept(k)'
  <2> SUFFICES ASSUME NEW k \in Keys, k # KeyOf(e) PROVE KeyKept(k)'
    BY <1>11
  <2>1. plan.key[NextStep(e)] # k
    BY <1>11, AtWork DEF Working
  <2> QED
    BY <1>5, <1>11, <2>1
<1>12. ASSUME NEW e \in Executors, StepLands(e) PROVE \A k \in Keys : KeyKept(k)'
  <2>0. /\ executor[e].at = "calling" /\ Goes(e, "landed") /\ UNCHANGED <<keyState, regretted>>
        /\ effects' = [effects EXCEPT ![NextStep(e)] = effects[NextStep(e)] + 1]
    BY <1>12 DEF StepLands
  <2>1. PICK n \in Steps : n = NextStep(e)
    BY <2>0, AtWork DEF Working
  <2>2. /\ effects'[n] = effects[n] + 1 /\ \A s \in Steps : s # n => effects'[s] = effects[s]
    BY <1>0, <2>0, <2>1
  <2>3. /\ executor'[e].at = "landed" /\ \A d \in Executors : d # e => executor'[d] = executor[d]
        /\ (NextStep(e))' = n /\ \A k \in Keys : (HasKey(e, k))' => KeyOf(e) = k
    BY <1>0, <1>1, <1>3, <2>0, <2>1, NextStays
  <2>4. ASSUME NEW k \in Keys, KeyOf(e) = k PROVE KeyKept(k)'
    <3>1. /\ plan.key[n] = k /\ keyState[k] = "flying"
          /\ \A s \in Steps : plan.key[s] = k =>
               /\ regretted[s] <= effects[s] /\ effects[s] <= regretted[s] + 1 /\ ~Unregretted(s)
      BY <1>9, <2>0, <2>1, <2>4
    <3>2. \A s \in Steps : plan.key[s] = k =>
            /\ regretted'[s] <= effects'[s] /\ effects'[s] <= regretted'[s] + 1
            /\ effects'[s] > regretted'[s] => s = n
      BY <1>7, <2>0, <2>2, <3>1 DEF Unregretted
    <3>3. effects'[n] > regretted'[n] /\ keyState'[k] = "flying"
      BY <1>7, <2>0, <2>2, <3>1
    <3> QED
      BY <1>10, <2>0, <2>1, <2>3, <2>4, <3>2, <3>3
  <2> QED
    BY <1>11, <2>0, <2>1, <2>2, <2>3, <2>4
<1>13. ASSUME NEW e \in Executors, StepRaises(e) PROVE \A k \in Keys : KeyKept(k)'
  <2>0. /\ executor[e].at \in {"calling", "landed"} /\ Goes(e, "abandoning")
        /\ UNCHANGED <<keyState, effects>>
        /\ regretted' = IF executor[e].at = "calling" THEN regretted
                        ELSE [regretted EXCEPT ![NextStep(e)] = regretted[NextStep(e)] + 1]
    BY <1>13 DEF StepRaises
  <2>1. PICK n \in Steps : n = NextStep(e)
    BY <2>0, AtWork DEF Working
  <2>2. /\ executor[e].at = "calling" => UNCHANGED regretted
        /\ executor[e].at = "landed" => regretted'[n] = regretted[n] + 1
        /\ \A s \in Steps : s # n => regretted'[s] = regretted[s]
    BY <1>0, <2>0, <2>1
  <2>3. /\ executor'[e].at = "abandoning" /\ \A d \in Executors : d # e => executor'[d] = executor[d]
        /\ \A k \in Keys : (HasKey(e, k))' => KeyOf(e) = k
    BY <1>1, <1>3, <2>0
  <2>4. ASSUME NEW k \in Keys, KeyOf(e) = k PROVE KeyKept(k)'
    <3>1. /\ plan.key[n] = k /\ keyState[k] = "flying"
          /\ \A s \in Steps : plan.key[s] = k =>
               /\ regretted[s] <= effects[s] /\ effects[s] <= regretted[s] + 1
               /\ Unregretted(s) => executor[e].at = "landed" /\ s = n
          /\ executor[e].at = "landed" => Unregretted(n)
      BY <1>9, <2>0, <2>1, <2>4
    <3>2. \A s \in Steps : plan.key[s] = k =>
            /\ regretted'[s] <= effects'[s] /\ effects'[s] <= regretted'[s] + 1
            /\ ~(effects'[s] > regretted'[s])
      BY <1>7, <2>0, <2>2, <3>1 DEF Unregretted
    <3>3. keyState'[k] = "flying"
      BY <2>0, <3>1
    <3> QED
      BY <1>10, <2>0, <2>1, <2>3, <2>4, <3>2, <3>3
  <2> QED
    BY <1>11, <2>0, <2>1, <2>2, <2>3, <2>4
<1>14. ASSUME NEW e \in Executors, Abandon(e) PROVE \A k \in Keys : KeyKept(k)'
  <2>0. /\ executor[e].at = "abandoning" /\ Goes(e, "failed") /\ UNCHANGED <<effects, regretted>>
        /\ keyState' = IF KeyOf(e) = NoKey THEN keyState ELSE [keyState EXCEPT ![KeyOf(e)] = "free"]
    BY <1>14 DEF Abandon
  <2>1. PICK n \in Steps : n = NextStep(e)
    BY <2>0, AtWork DEF Working
  <2>2. \A k \in Keys : IF k = KeyOf(e) THEN keyState'[k] = "free" ELSE keyState'[k] = keyState[k]
    BY <1>0, <2>0
  <2>3. /\ \A d \in Executors : d # e => executor'[d] = executor[d]
        /\ \A k \in Keys : ~(HasKey(e, k))'
    BY <1>1, <1>3, <2>0
  <2>4. ASSUME NEW k \in Keys, KeyOf(e) = k PROVE KeyKept(k)'
    <3>1. \A s \in Steps : plan.key[s] = k =>
            /\ regretted[s] <= effects[s] /\ effects[s] <= regretted[s] + 1 /\ ~Unregretted(s)
      BY <1>9, <2>0, <2>4
    <3>2. \A s \in Steps : plan.key[s] = k =>
            /\ regretted'[s] <= effects'[s] /\ effects'[s] <= regretted'[s] + 1
            /\ ~(effects'[s] > regretted'[s])
      BY <2>0, <3>1 DEF Unregretted
    <3>3. keyState'[k] = "free"
      BY <2>2, <2>4
    <3> QED
      BY <1>10, <2>0, <2>1, <2>3, <2>4, <3>2, <3>3
  <2> QED
    BY <1>11, <2>0, <2>2, <2>3, <2>4
<1>15. ASSUME NEW e \in Executors, RecordOutcome(e) PROVE \A k \in Keys : KeyKept(k)'
  <2>0. /\ executor[e].at = "landed" /\ executor' = [executor EXCEPT ![e] = Finished(e)]
        /\ UNCHANGED <<effects, regretted>>
        /\ keyState' = IF KeyOf(e) = NoKey THEN keyState ELSE [keyState EXCEPT ![KeyOf(e)] = "recorded"]
    BY <1>15 DEF RecordOutcome
  <2>1. PICK n \in Steps : n = NextStep(e)
    BY <2>0, AtWork DEF Working
  <2>2. \A k \in Keys : IF k = KeyOf(e) THEN keyState'[k] = "recorded" ELSE keyState'[k] = keyState[k]
    BY <1>0, <2>0
  <2>3. /\ \A d \in Executors : d # e => executor'[d] = executor[d]
        /\ \A k \in Keys : ~(HasKey(e, k))'
    <3>1. \A r \in [at: Stages, done: SUBSET Steps] : \A s :
            [r EXCEPT !.at = "written", !.done = r.done \cup {s}].at = "written"
      OBVIOUS
    <3>2. Finished(e).at = "written"
      BY <1>0, <3>1 DEF Finished
    <3>3. executor'[e].at = "written" /\ \A d \in Executors : d # e => executor'[d] = executor[d]
      BY <1>2, <2>0, <3>2
    <3> QED
      BY <3>3 DEF HasKey
  <2>4. ASSUME NEW k \in Keys, KeyOf(e) = k PROVE KeyKept(k)'
    <3>1. /\ \A s \in Steps : plan.key[s] = k =>
               /\ regretted[s] <= effects[s] /\ effects[s] <= regretted[s] + 1
               /\ Unregretted(s) => s = n
          /\ Unregretted(n)
      BY <1>9, <2>0, <2>1, <2>4
    <3>2. \A s \in Steps : plan.key[s] = k =>
            /\ regretted'[s] <= effects'[s] /\ effects'[s] <= regretted'[s] + 1
            /\ effects'[s] > regretted'[s] => s = n
      BY <2>0, <3>1 DEF Unregretted
    <3>3. keyState'[k] = "recorded" /\ effects'[n] > 0
      BY <1>7, <2>0, <2>2, <2>4, <3>1 DEF Unregretted
    <3> QED
      BY <1>10, <2>0, <2>1, <2>3, <2>4, <3>2, <3>3
  <2> QED
    BY <1>11, <2>0, <2>2, <2>3, <2>4
<1>16. ASSUME NEW e \in Executors, Execute(e) \/ Resume(e) \/ Declined(e) \/ ExecutorDies(e)
       PROVE  \A k \in Keys : KeyKept(k)'
  <2>1. \/ \E results : executor' = [executor EXCEPT ![e] = [at |-> "clearing", done |-> results]]
        \/ executor' = [executor EXCEPT ![e] = Away]
    BY <1>16 DEF Execute, Resume, StartPlan, Declined, ExecutorDies
  <2>2. /\ executor'[e].at \in {"clearing", "away"}
        /\ \A d \in Executors : d # e => executor'[d] = executor[d]
    BY <1>2, <2>1 DEF Away
  <2>3. UNCHANGED <<keyState, effects, regretted>>
    BY <1>16 DEF Execute, Resume, StartPlan, Declined, ExecutorDies
  <2> QED
    BY <1>4, <2>1, <2>2, <2>3
<1>17. ASSUME NEW e \in Executors, Cleared(e) \/ RecordFails(e) PROVE \A k \in Keys : KeyKept(k)'
  <2>1. PICK at \in {"complete", "ready", "failed"} : Goes(e, at)
    BY <1>17 DEF Cleared, RecordFails
  <2> QED
    BY <1>1, <1>4, <1>17, <2>1 DEF Cleared, RecordFails
<1>18. ASSUME NEW e \in Executors, WriteProgress(e) PROVE \A k \in Keys : KeyKept(k)'
  <2> DEFINE next == IF Remaining(e) = {} THEN "complete" ELSE "ready"
             r == IF executor[e].at = "failed" THEN Away ELSE [executor[e] EXCEPT !.at = next]
  <2>1. executor' = [executor EXCEPT ![e] = r] /\ UNCHANGED <<keyState, effects, regretted>>
    BY <1>18 DEF WriteProgress
  <2>2. executor'[e] = r /\ \A d \in Executors : d # e => executor'[d] = executor[d]
    <3> HIDE DEF r
    <3> QED
      BY <1>2, <2>1
  <2>3. r.at \in {"away", "complete", "ready"}
    <3>1. next \in {"complete", "ready"}
      OBVIOUS
    <3> HIDE DEF next
    <3> QED
      BY <1>0, <3>1 DEF Away
  <2> HIDE DEF r
  <2> QED
    BY <1>4, <2>1, <2>2, <2>3
<1>19. CASE ForgetPlan \/ UNCHANGED planVars
  BY <1>4, <1>19 DEF ForgetPlan, planVars
<1> QED
  BY <1>8, <1>12, <1>13, <1>14, <1>15, <1>16, <1>17, <1>18, <1>19 DEF PlanNext

LEMMA PlanStarts == PlanInit => PlanInv
<1> SUFFICES ASSUME PlanInit PROVE PlanInv
  OBVIOUS
<1>1. PlanTypeOK
  BY PlanAssumption DEF PlanInit, PlanTypeOK, Away
<1>2. /\ \A e \in Executors : executor[e].at = "away" /\ executor[e].done = {}
      /\ \A s \in Steps : effects[s] = 0 /\ regretted[s] = 0
      /\ \A k \in Keys : keyState[k] = "free"
      /\ planRow.done = {}
  BY DEF PlanInit, Away
<1>3. \A e \in Executors : ExecutorKept(e)
  BY <1>2 DEF ExecutorKept, Working
<1>4. \A k \in Keys : KeyKept(k)
  BY <1>2 DEF KeyKept, HasKey, Unregretted
<1>5. \A s \in Steps : StepKept(s)
  BY <1>2 DEF StepKept
<1> QED
  BY <1>1, <1>2, <1>3, <1>4, <1>5 DEF PlanInv, PlanKept

LEMMA PlanStep == PlanInv /\ [PlanNext]_planVars => PlanInv'
<1> SUFFICES ASSUME PlanInv, [PlanNext]_planVars PROVE PlanInv'
  OBVIOUS
<1>1. PlanTypeOK /\ PlanTypeOK' /\ plan' = plan /\ \A s \in Steps : effects[s] <= effects'[s]
  BY PlanTypesStep, EffectsGrow DEF PlanInv
<1>2. \A s \in Steps : TookEffect(s) => TookEffect(s)'
  BY <1>1, EffectsStay
<1>3. /\ plan.after \in [Steps -> SUBSET Steps] /\ effects \in [Steps -> Nat]
      /\ planRow.done \subseteq Steps
      /\ \A e \in Executors : ExecutorKept(e) /\ executor[e].done \subseteq Steps
      /\ \A s \in Steps : StepKept(s)
  BY <1>1, PlanAssumption DEF PlanInv, PlanKept, PlanTypeOK
<1>4. ASSUME NEW s \in Steps PROVE StepKept(s)'
  <2>1. CASE effects'[s] = effects[s]
    <3>1. StepKept(s) /\ plan.after[s] \subseteq Steps
      BY <1>3
    <3> QED
      BY <1>1, <1>2, <2>1, <3>1 DEF StepKept
  <2>2. CASE effects'[s] # effects[s]
    <3>1. PICK e \in Executors : StepLands(e)
      BY <2>2 DEF PlanNext, planVars, ForgetPlan, Execute, Resume, StartPlan, Declined, Cleared,
         ClaimKey, StepRaises, Abandon, RecordOutcome, RecordFails, WriteProgress, ExecutorDies
    <3>2. Working(e) /\ effects' = [effects EXCEPT ![NextStep(e)] = effects[NextStep(e)] + 1]
      BY <3>1 DEF StepLands, Working
    <3>3. s = NextStep(e)
      BY <1>3, <2>2, <3>2
    <3>4. \A d \in plan.after[s] : d \in Steps /\ TookEffect(d)
      BY <1>3, <3>2, <3>3, AtWork DEF ExecutorKept
    <3> QED
      BY <1>1, <1>2, <3>4 DEF StepKept
  <2> QED
    BY <2>1, <2>2
<1>5. (\A s \in planRow.done : TookEffect(s))'
  <2>1. \/ UNCHANGED planRow \/ planRow'.done = {}
        \/ \E e \in Executors : planRow'.done = executor[e].done
    <3>1. CASE \E e \in Executors : Cleared(e) \/ WriteProgress(e)
      BY <3>1 DEF Cleared, WriteProgress
    <3>2. CASE ForgetPlan
      BY <3>2 DEF ForgetPlan
    <3>3. CASE ~ForgetPlan /\ ~ \E e \in Executors : Cleared(e) \/ WriteProgress(e)
      BY <3>3 DEF PlanNext, planVars, Execute, Resume, StartPlan, Declined, ClaimKey, StepLands,
         StepRaises, Abandon, RecordOutcome, RecordFails, ExecutorDies
    <3> QED
      BY <3>1, <3>2, <3>3
  <2>2. \A s \in planRow'.done : s \in Steps /\ TookEffect(s)
    BY <1>3, <2>1 DEF PlanInv, PlanKept, ExecutorKept
  <2> QED
    BY <1>2, <2>2
<1>6. (\A e \in Executors : ExecutorKept(e))'
  BY <1>1, ExecutorsKept
<1>7. (\A k \in Keys : KeyKept(k))'
  BY <1>1, KeysKept
<1> QED
  BY <1>1, <1>4, <1>5, <1>6, <1>7 DEF PlanInv, PlanKept

\* The claim of docs/planning.md, for every plan, however many executors carry it and
\* wherever they die.
THEOREM PlansLandOnce == PlanSpec => []PlanLandsOnce
<1>1. PlanInv => PlanLandsOnce
  <2> SUFFICES ASSUME PlanInv PROVE PlanLandsOnce
    OBVIOUS
  <2>0. /\ plan.key \in [Steps -> Keys \cup {NoKey}]
        /\ \A k \in Keys : KeyKept(k)
        /\ \A e \in Executors : ExecutorKept(e)
    BY PlanAssumption DEF PlanInv, PlanKept, PlanTypeOK
  <2>1. ASSUME NEW s \in Steps, plan.key[s] # NoKey
        PROVE  /\ Cardinality({t \in Alike(s) : effects[t] > regretted[t]}) <= 1
               /\ effects[s] <= regretted[s] + 1
    <3> DEFINE standing == {t \in Alike(s) : effects[t] > regretted[t]}
    <3>1. PICK k \in Keys : k = plan.key[s]
      BY <2>0, <2>1
    <3>2. \A t \in Alike(s) : t \in Steps /\ plan.key[t] = k
      BY <3>1 DEF Alike
    <3>3. \A t, u \in standing : t = u
      BY <2>0, <3>2 DEF KeyKept, Unregretted
    <3>4. CASE standing = {}
      <4>1. Cardinality(standing) = 0
        BY <3>4, FS_EmptySet
      <4> QED
        BY <2>0, <3>1, <4>1 DEF KeyKept
    <3>5. CASE standing # {}
      <4>1. PICK t \in standing : standing = {t}
        BY <3>3, <3>5
      <4>2. Cardinality({t}) = 1
        BY FS_Singleton
      <4>3. Cardinality(standing) <= 1
        <5> HIDE DEF standing
        <5> QED
          BY <4>1, <4>2
      <4> QED
        BY <2>0, <3>1, <4>3 DEF KeyKept
    <3> QED
      BY <3>4, <3>5
  <2>2. ASSUME NEW s \in Steps PROVE effects[s] > 0 => \A d \in plan.after[s] : TookEffect(d)
    BY DEF PlanInv, PlanKept, StepKept
  <2>3. ASSUME NEW e \in Executors, executor[e].at = "complete"
        PROVE  \A s \in Steps : TookEffect(s)
    BY <2>0, <2>3 DEF ExecutorKept, Remaining
  <2> QED
    BY <2>1, <2>2, <2>3 DEF PlanLandsOnce
<1> QED
  BY <1>1, PlanStarts, PlanStep, PTL DEF PlanSpec

-----------------------------------------------------------------------------
(* runtime/progress.py, adapters/transport.py: a run is posted to whoever    *)
(* listens, and to whoever comes back.                                       *)

\* The events of a stream: Over ends a queue, a gap begins a backlog.
StreamEvent == [kind: {"delta", "fact", "terminal", "over", "gap"}, first: Int, last: Int]

\* The first n of s are in order, and cover the numbers from a to b, b left out.
Covers(s, n, a, b) ==
  /\ a <= b
  /\ \A i \in 1..n : a <= s[i].first /\ s[i].first <= s[i].last /\ s[i].last < b
  /\ \A i, j \in 1..n : i < j => s[i].last < s[j].first
  /\ \A k \in a..(b - 1) : \E i \in 1..n : s[i].first <= k /\ k <= s[i].last

\* Two events are the same numbers or have none in common.
Apart(e, f) == (e.first = f.first /\ e.last = f.last) \/ e.last < f.first \/ f.last < e.first

\* An event that is news to a client, cut as the room with history h cut it.
News(got, e, h) ==
  /\ e.kind # "gap"
  /\ \A k \in got : k < e.first
  /\ \A i \in 1..Len(h) : Apart(e, h[i])

Accounted(k) == k.got \cup k.gone

\* What a listener has yet to read of what was posted, up to p: of the backlog what is
\* from n to m, of the queue its first l events from there on, and then perhaps that it
\* is over.
YetToRead(k, n, m, l, h, done, p) ==
  /\ k.after < n /\ 0..(n - 1) \subseteq Accounted(k)
  /\ Covers(k.backlog, Len(k.backlog), n, m)
  /\ Covers(k.queue, l, m, p)
  /\ \A i \in 1..Len(k.backlog) :
       \/ k.backlog[i].kind = "gap" /\ i = 1 /\ Len(k.backlog) > 1
       \/ News(k.got, k.backlog[i], h)
  /\ \A i \in 1..l : News(k.got, k.queue[i], h)
  /\ l < Len(k.queue) => done /\ k.queue[Len(k.queue)] = Over

Listening(k) == k.at \in {"backlog", "live"}

\* Everything up to the number after was had or declared missing, and nothing from the
\* first event on that the room has after it.
Knows(k, h, p) ==
  /\ ~k.repeated
  /\ -1 <= k.after /\ k.after < p
  /\ Accounted(k) \subseteq 0..(p - 1)
  /\ 0..(k.after) \subseteq Accounted(k)
  /\ \A i \in 1..Len(h) : h[i].first > k.after => \A j \in k.got : j < h[i].first

ClientKept(k, h, done, p) ==
  /\ Knows(k, h, p)
  /\ k.at = "away" /\ (\A i \in 1..Len(h) : h[i].first <= k.after) => 0..(p - 1) \subseteq Accounted(k)
  /\ Listening(k) => \E n, m \in 0..p : \E l \in 0..Len(k.queue) :
       l >= Len(k.queue) - 1 /\ YetToRead(k, n, m, l, h, done, p)
  /\ k.at = "live" => k.backlog = <<>>
  /\ k.at = "ended" => done /\ 0..(p - 1) \subseteq Accounted(k)

\* The history is the last of what was posted.
HistoryKept(h, p) ==
  /\ \E a \in 0..p : Covers(h, Len(h), a, p)
  /\ h = <<>> => p = 0
  /\ \A i \in 1..Len(h) : h[i].kind \in {"delta", "fact", "terminal"}

\* The first number that was not posted.
Posted == IF sink = <<>> THEN emitted ELSE sink[1].first

RoomKept ==
  /\ emitted <= MaxEvents + 1 /\ (~roomDone => emitted <= MaxEvents)
  /\ roomDone => closed /\ sink = <<>>
  /\ Posted \in 0..emitted /\ Covers(sink, Len(sink), Posted, emitted)
  /\ \A i \in 1..Len(sink) : sink[i].kind \in {"delta", "fact"}
  /\ HistoryKept(history, Posted)

StreamKept == RoomKept /\ \A c \in Clients : ClientKept(client[c], history, roomDone, Posted)

LEMMA CoversOfNone ==
  ASSUME NEW s, NEW a \in Int, NEW b \in Int
  PROVE  Covers(s, 0, a, b) <=> a = b
<1>1. Covers(s, 0, a, b) => a = b
  <2> SUFFICES ASSUME Covers(s, 0, a, b), a # b PROVE FALSE
    OBVIOUS
  <2>1. a \in a..(b - 1)
    BY DEF Covers
  <2>2. \E i \in 1..0 : s[i].first <= a /\ a <= s[i].last
    BY <2>1 DEF Covers
  <2> QED
    BY <2>2
<1>2. a = b => Covers(s, 0, a, b)
  BY DEF Covers
<1> QED
  BY <1>1, <1>2

\* The numbers of an event.
Numbered(s, n) == \A i \in 1..n : s[i].first \in Int /\ s[i].last \in Int

LEMMA CoversFirst ==
  ASSUME NEW s, NEW n \in Nat, n > 0, NEW a \in Int, NEW b \in Int,
         Numbered(s, n), Covers(s, n, a, b)
  PROVE  s[1].first = a /\ a <= s[1].last /\ s[1].last < b
<1>1. 1 \in 1..n /\ s[1].first \in Int /\ s[1].last \in Int
  BY DEF Numbered
<1>2. a <= s[1].first /\ s[1].first <= s[1].last /\ s[1].last < b
  BY <1>1 DEF Covers
<1>3. a \in a..(b - 1)
  BY <1>1, <1>2
<1>4. PICK i \in 1..n : s[i].first <= a /\ a <= s[i].last
  BY <1>3 DEF Covers
<1>5. CASE i = 1
  BY <1>1, <1>2, <1>4, <1>5
<1>6. CASE i # 1
  <2>1. s[1].last < s[i].first /\ s[i].first \in Int
    BY <1>1, <1>4, <1>6 DEF Covers, Numbered
  <2> QED
    BY <1>1, <1>2, <1>4, <2>1
<1> QED
  BY <1>5, <1>6

LEMMA CoversRest ==
  ASSUME NEW s, NEW t, NEW n \in Nat, n > 0, NEW a \in Int, NEW b \in Int,
         Numbered(s, n), Covers(s, n, a, b), \A i \in 1..(n - 1) : t[i] = s[i + 1]
  PROVE  Covers(t, n - 1, s[1].last + 1, b)
<1>0. /\ 1 \in 1..n /\ s[1].last \in Int /\ s[1].last < b
      /\ \A i \in 1..(n - 1) : i + 1 \in 1..n /\ 1 < i + 1
  <2>1. s[1].last < b
    BY CoversFirst
  <2>2. 1 \in 1..n /\ \A i \in 1..(n - 1) : i + 1 \in 1..n /\ 1 < i + 1
    OBVIOUS
  <2> QED
    BY <2>1, <2>2 DEF Numbered
<1>1. \A i \in 1..n : s[i].first \in Int /\ s[i].last \in Int
  BY DEF Numbered
<1>2. /\ \A i \in 1..n : a <= s[i].first /\ s[i].first <= s[i].last /\ s[i].last < b
      /\ \A i, j \in 1..n : i < j => s[i].last < s[j].first
      /\ \A k \in a..(b - 1) : \E i \in 1..n : s[i].first <= k /\ k <= s[i].last
  BY DEF Covers
<1>3. s[1].last + 1 <= b
  BY <1>0
<1>4. ASSUME NEW i \in 1..(n - 1)
      PROVE  s[1].last + 1 <= t[i].first /\ t[i].first <= t[i].last /\ t[i].last < b
  <2>1. i + 1 \in 1..n /\ 1 \in 1..n /\ 1 < i + 1 /\ t[i] = s[i + 1]
    BY <1>0
  <2>2. s[1].last < s[i + 1].first /\ s[i + 1].first <= s[i + 1].last /\ s[i + 1].last < b
    BY <1>2, <2>1
  <2>3. s[1].last + 1 <= s[i + 1].first
    BY <1>0, <1>1, <2>1, <2>2
  <2> QED
    BY <2>1, <2>2, <2>3
<1>5. ASSUME NEW i \in 1..(n - 1), NEW j \in 1..(n - 1), i < j PROVE t[i].last < t[j].first
  <2>1. i + 1 \in 1..n /\ j + 1 \in 1..n /\ i + 1 < j + 1 /\ t[i] = s[i + 1] /\ t[j] = s[j + 1]
    BY <1>0, <1>5
  <2> QED
    BY <1>2, <2>1
<1>6. ASSUME NEW k \in (s[1].last + 1)..(b - 1)
      PROVE  \E i \in 1..(n - 1) : t[i].first <= k /\ k <= t[i].last
  <2>1. k \in a..(b - 1)
    <3>1. a <= s[1].last
      BY CoversFirst
    <3> QED
      BY <1>0, <3>1
  <2>2. PICK i \in 1..n : s[i].first <= k /\ k <= s[i].last
    BY <1>2, <2>1
  <2>3. i # 1
    BY <1>0, <2>2
  <2>4. i - 1 \in 1..(n - 1) /\ (i - 1) + 1 = i
    BY <2>3
  <2>5. t[i - 1] = s[i]
    BY <2>4
  <2> QED
    BY <2>2, <2>4, <2>5
<1> QED
  BY <1>3, <1>4, <1>5, <1>6 DEF Covers

LEMMA CoversLast ==
  ASSUME NEW s, NEW n \in Nat, n > 0, NEW a \in Int, NEW b \in Int,
         Numbered(s, n), Covers(s, n, a, b)
  PROVE  s[n].last = b - 1 /\ a <= s[n].first /\ s[n].first <= s[n].last
<1>1. n \in 1..n /\ s[n].first \in Int /\ s[n].last \in Int
  BY DEF Numbered
<1>2. a <= s[n].first /\ s[n].first <= s[n].last /\ s[n].last < b
  BY <1>1 DEF Covers
<1>3. b - 1 \in a..(b - 1)
  BY <1>1, <1>2
<1>4. PICK i \in 1..n : s[i].first <= b - 1 /\ b - 1 <= s[i].last
  BY <1>3 DEF Covers
<1>5. CASE i = n
  BY <1>1, <1>2, <1>4, <1>5
<1>6. CASE i # n
  <2>1. s[i].last < s[n].first /\ s[i].last \in Int
    BY <1>1, <1>4, <1>6 DEF Covers, Numbered
  <2> QED
    BY <1>1, <1>2, <1>4, <2>1
<1> QED
  BY <1>2, <1>5, <1>6

LEMMA CoversMore ==
  ASSUME NEW s, NEW t, NEW n \in Nat, NEW a \in Int, NEW b \in Int,
         Numbered(t, n + 1), Covers(s, n, a, b), \A i \in 1..n : t[i] = s[i],
         t[n + 1].first = b, b <= t[n + 1].last
  PROVE  Covers(t, n + 1, a, t[n + 1].last + 1)
<1>0. /\ n + 1 \in 1..(n + 1) /\ t[n + 1].last \in Int
      /\ \A i \in 1..(n + 1) : i # n + 1 => i \in 1..n
      /\ \A i \in 1..n : i \in 1..(n + 1)
  BY DEF Numbered
<1>1. \A i \in 1..(n + 1) : t[i].first \in Int /\ t[i].last \in Int
  BY DEF Numbered
<1>2. /\ a <= b
      /\ \A i \in 1..n : a <= t[i].first /\ t[i].first <= t[i].last /\ t[i].last < b
      /\ \A i, j \in 1..n : i < j => t[i].last < t[j].first
      /\ \A k \in a..(b - 1) : \E i \in 1..n : t[i].first <= k /\ k <= t[i].last
  BY DEF Covers
<1>3. a <= t[n + 1].last + 1
  BY <1>0, <1>2
<1>4. ASSUME NEW i \in 1..(n + 1)
      PROVE  a <= t[i].first /\ t[i].first <= t[i].last /\ t[i].last < t[n + 1].last + 1
  <2>1. CASE i = n + 1
    BY <1>0, <1>2, <2>1
  <2>2. CASE i # n + 1
    <3>1. a <= t[i].first /\ t[i].first <= t[i].last /\ t[i].last < b /\ t[i].last \in Int
      BY <1>0, <1>1, <1>2, <2>2
    <3> QED
      BY <1>0, <3>1
  <2> QED
    BY <2>1, <2>2
<1>5. ASSUME NEW i \in 1..(n + 1), NEW j \in 1..(n + 1), i < j PROVE t[i].last < t[j].first
  <2>1. i \in 1..n /\ t[i].last < b
    BY <1>2, <1>5
  <2>2. CASE j = n + 1
    BY <2>1, <2>2
  <2>3. CASE j # n + 1
    BY <1>0, <1>2, <1>5, <2>1, <2>3
  <2> QED
    BY <2>2, <2>3
<1>6. ASSUME NEW k \in a..((t[n + 1].last + 1) - 1)
      PROVE  \E i \in 1..(n + 1) : t[i].first <= k /\ k <= t[i].last
  <2>1. CASE k < b
    <3>1. k \in a..(b - 1)
      BY <2>1
    <3> QED
      BY <1>0, <1>2, <3>1
  <2>2. CASE ~(k < b)
    <3>1. t[n + 1].first <= k /\ k <= t[n + 1].last
      BY <1>0, <2>2
    <3> QED
      BY <1>0, <3>1
  <2> QED
    BY <2>1, <2>2
<1> QED
  BY <1>3, <1>4, <1>5, <1>6 DEF Covers

\* The last of them grows at its end.
LEMMA CoversGrown ==
  ASSUME NEW s, NEW t, NEW n \in Nat, n > 0, NEW a \in Int, NEW b \in Int,
         Numbered(s, n), Covers(s, n, a, b), \A i \in 1..(n - 1) : t[i] = s[i],
         t[n].first = s[n].first, t[n].last = b
  PROVE  Covers(t, n, a, b + 1)
<1>0. /\ n \in 1..n /\ n - 1 \in Nat
      /\ \A i \in 1..n : i # n => i \in 1..(n - 1)
      /\ s[n].last = b - 1 /\ a <= s[n].first /\ s[n].first <= s[n].last
      /\ s[n].first \in Int /\ a <= b
  <2>1. s[n].last = b - 1 /\ a <= s[n].first /\ s[n].first <= s[n].last
    BY CoversLast
  <2>2. n \in 1..n /\ n - 1 \in Nat /\ \A i \in 1..n : i # n => i \in 1..(n - 1)
    OBVIOUS
  <2> QED
    BY <2>1, <2>2 DEF Numbered, Covers
<1>1. \A i \in 1..n : s[i].first \in Int /\ s[i].last \in Int
  BY DEF Numbered
<1>2. /\ \A i \in 1..n : a <= s[i].first /\ s[i].first <= s[i].last /\ s[i].last < b
      /\ \A i, j \in 1..n : i < j => s[i].last < s[j].first
      /\ \A k \in a..(b - 1) : \E i \in 1..n : s[i].first <= k /\ k <= s[i].last
  BY DEF Covers
<1>3. \A i \in 1..n : t[i].first = s[i].first /\ (i # n => t[i].last = s[i].last)
  BY <1>0
<1>4. ASSUME NEW i \in 1..n
      PROVE  a <= t[i].first /\ t[i].first <= t[i].last /\ t[i].last < b + 1
  <2>1. CASE i = n
    BY <1>0, <2>1
  <2>2. CASE i # n
    <3>1. a <= s[i].first /\ s[i].first <= s[i].last /\ s[i].last < b
          /\ s[i].first \in Int /\ s[i].last \in Int
      BY <1>1, <1>2
    <3> QED
      BY <1>3, <2>2, <3>1
  <2> QED
    BY <2>1, <2>2
<1>5. ASSUME NEW i \in 1..n, NEW j \in 1..n, i < j PROVE t[i].last < t[j].first
  <2>1. i # n
    BY <1>5
  <2> QED
    BY <1>2, <1>3, <1>5, <2>1
<1>6. ASSUME NEW k \in a..((b + 1) - 1) PROVE \E i \in 1..n : t[i].first <= k /\ k <= t[i].last
  <2>1. CASE k = b
    <3>1. t[n].first <= k /\ k <= t[n].last
      BY <1>0, <2>1
    <3> QED
      BY <1>0, <3>1
  <2>2. CASE k # b
    <3>1. k \in a..(b - 1)
      BY <2>2
    <3>2. PICK i \in 1..n : s[i].first <= k /\ k <= s[i].last
      BY <1>2, <3>1
    <3>3. CASE i = n
      BY <1>0, <3>1, <3>2, <3>3
    <3>4. CASE i # n
      BY <1>3, <3>2, <3>4
    <3> QED
      BY <3>3, <3>4
  <2> QED
    BY <2>1, <2>2
<1> QED
  BY <1>0, <1>4, <1>5, <1>6 DEF Covers

ClientStages == {"away", "backlog", "live", "ended", "cut"}

ClientSet == [at: ClientStages, after: Int, backlog: Seq(StreamEvent), queue: Seq(StreamEvent),
              got: SUBSET Int, gone: SUBSET Int, repeated: BOOLEAN]

StreamShape ==
  /\ emitted \in Nat /\ closed \in BOOLEAN /\ roomDone \in BOOLEAN
  /\ sink \in Seq(StreamEvent) /\ history \in Seq(StreamEvent)
  /\ client \in [Clients -> ClientSet]

StreamInv == StreamShape /\ StreamKept

\* What a client knows after an event that is news, and after a gap.
LEMMA ReceivedNews ==
  ASSUME NEW k \in ClientSet, ~k.repeated, NEW e \in StreamEvent, e.kind # "gap",
         \A j \in k.got : j < e.first, k.after < e.first
  PROVE  Receives(k, e) = [k EXCEPT !.after = e.first, !.got = k.got \cup (e.first..e.last)]
<1>1. e.first \in Int /\ e.last \in Int /\ k.got \in SUBSET Int /\ k.after \in Int
  BY DEF StreamEvent, ClientSet
<1>2. (e.first..e.last) \cap k.got = {} /\ ~(e.first < k.after)
  BY <1>1
<1>3. k.repeated = (k.repeated \/ (e.first..e.last) \cap k.got # {} \/ e.first < k.after)
  <2>1. k.repeated \in BOOLEAN
    BY DEF ClientSet
  <2> QED
    BY <1>2, <2>1
<1>4. Receives(k, e) = [k EXCEPT !.after = e.first, !.got = k.got \cup (e.first..e.last),
                                 !.repeated = k.repeated]
  BY <1>3, Zenon DEF Receives
<1>5. [k EXCEPT !.after = e.first, !.got = k.got \cup (e.first..e.last), !.repeated = k.repeated]
        = [k EXCEPT !.after = e.first, !.got = k.got \cup (e.first..e.last)]
  BY DEF ClientSet
<1> QED
  BY <1>4, <1>5

LEMMA ReceivedGap ==
  ASSUME NEW k, NEW e, e.kind = "gap"
  PROVE  Receives(k, e) = [k EXCEPT !.after = e.first, !.gone = k.gone \cup (e.first..e.last)]
BY DEF Receives

LEMMA EventsNumbered ==
  ASSUME NEW s \in Seq(StreamEvent), NEW n \in 0..Len(s) PROVE Numbered(s, n) /\ Len(s) \in Nat
<1>1. Len(s) \in Nat /\ \A i \in 1..Len(s) : s[i] \in StreamEvent
  OBVIOUS
<1>2. \A i \in 1..n : i \in 1..Len(s)
  BY <1>1
<1> QED
  BY <1>1, <1>2 DEF Numbered, StreamEvent

\* An event that is posted has the numbers from p to q, q left out.
IsPosted(e, p, q) ==
  e.kind \in {"delta", "fact", "terminal"} /\ e.first = p /\ e.last = q - 1 /\ p < q

\* It is put in the history, which may lose what was there.
Grown(h, h2, e) ==
  /\ \E i \in 1..Len(h2) : h2[i] = e
  /\ \A i \in 1..Len(h2) : h2[i] = e \/ \E j \in 1..Len(h) : h2[i] = h[j]

\* And in the queue of a client that listens, with a notice that it was the last.
Queued(k, k2, e, done) ==
  /\ k2.at = k.at /\ k2.after = k.after /\ k2.got = k.got /\ k2.gone = k.gone
  /\ k2.backlog = k.backlog /\ ~k2.repeated
  /\ Listening(k) =>
       /\ \A i \in 1..Len(k.queue) : k2.queue[i] = k.queue[i]
       /\ k2.queue[Len(k.queue) + 1] = e
       /\ \/ Len(k2.queue) = Len(k.queue) + 1
          \/ Len(k2.queue) = Len(k.queue) + 2 /\ done /\ k2.queue[Len(k.queue) + 2] = Over

\* What is posted is news to every client, and comes last for those who listen.
LEMMA PostedKept ==
  ASSUME NEW k \in ClientSet, NEW k2 \in ClientSet, NEW h \in Seq(StreamEvent), NEW h2 \in Seq(StreamEvent),
         NEW p \in Nat, NEW q \in Nat, NEW e \in StreamEvent,
         NEW was \in BOOLEAN, NEW done \in BOOLEAN, ~was,
         IsPosted(e, p, q), ClientKept(k, h, was, p), HistoryKept(h, p),
         Grown(h, h2, e), Queued(k, k2, e, done)
  PROVE  ClientKept(k2, h2, done, q)
<1> USE DEF IsPosted, Grown, Queued
<1>0. /\ k.after \in Int /\ k.got \subseteq Int /\ k.gone \subseteq Int
      /\ Accounted(k2) = Accounted(k) /\ k.backlog \in Seq(StreamEvent) /\ k.queue \in Seq(StreamEvent)
      /\ k2.queue \in Seq(StreamEvent)
      /\ Len(h) \in Nat /\ Len(h2) \in Nat /\ Len(k.queue) \in Nat
      /\ \A i \in 1..Len(h) : h[i] \in StreamEvent
      /\ \A i \in 1..Len(h2) : h2[i] \in StreamEvent
  BY DEF ClientSet, Accounted
<1>1. Knows(k, h, p)
  BY DEF ClientKept
<1>2. Knows(k2, h2, q)
  <2>1. -1 <= k2.after /\ k2.after < q /\ 0..(k2.after) \subseteq Accounted(k2)
    BY <1>0, <1>1 DEF Knows
  <2>2. Accounted(k2) \subseteq 0..(q - 1)
    <3>1. 0..(p - 1) \subseteq 0..(q - 1)
      OBVIOUS
    <3> QED
      BY <1>0, <1>1, <3>1 DEF Knows
  <2>3. ASSUME NEW i \in 1..Len(h2), h2[i].first > k2.after, NEW j \in k2.got
        PROVE  j < h2[i].first
    <3>1. CASE h2[i] = e
      <4>1. j \in 0..(p - 1)
        BY <1>1 DEF Knows, Accounted
      <4> QED
        BY <3>1, <4>1
    <3>2. CASE \E m \in 1..Len(h) : h2[i] = h[m]
      BY <1>1, <2>3, <3>2 DEF Knows
    <3> QED
      BY <3>1, <3>2
  <2> QED
    BY <2>1, <2>2, <2>3 DEF Knows
<1>3. ~ \A i \in 1..Len(h2) : h2[i].first <= k2.after
  BY <1>0, <1>1 DEF Knows
<1>4. k.at # "ended"
  BY DEF ClientKept
<1>5. ASSUME NEW f \in StreamEvent, News(k.got, f, h), f.last < p PROVE News(k2.got, f, h2)
  <2>1. f.last \in Int
    BY DEF StreamEvent
  <2>2. \A i \in 1..Len(h2) : Apart(f, h2[i])
    BY <1>5, <2>1 DEF News, Apart
  <2> QED
    BY <1>5, <2>2 DEF News
<1>6. News(k2.got, e, h2)
  <2>1. \A j \in k2.got : j < e.first
    BY <1>0, <1>1 DEF Knows, Accounted
  <2>2. ASSUME NEW i \in 1..Len(h2) PROVE Apart(e, h2[i])
    <3>1. CASE h2[i] = e
      BY <3>1 DEF Apart
    <3>2. CASE \E j \in 1..Len(h) : h2[i] = h[j]
      <4>1. PICK j \in 1..Len(h) : h2[i] = h[j]
        BY <3>2
      <4>2. h[j].last < p
        BY <4>1 DEF HistoryKept, Covers
      <4> QED
        BY <4>1, <4>2 DEF Apart
    <3> QED
      BY <3>1, <3>2
  <2> QED
    BY <2>1, <2>2 DEF News
<1>7. ASSUME Listening(k)
      PROVE  \E n, m \in 0..q : \E l \in 0..Len(k2.queue) :
               l >= Len(k2.queue) - 1 /\ YetToRead(k2, n, m, l, h2, done, q)
  <2>1. PICK n, m \in 0..p, l \in 0..Len(k.queue) :
          l >= Len(k.queue) - 1 /\ YetToRead(k, n, m, l, h, was, p)
    BY <1>7 DEF ClientKept
  <2>2. l = Len(k.queue)
    BY <1>0, <2>1 DEF YetToRead
  <2>3. Covers(k2.queue, l + 1, m, q)
    <3>1. Numbered(k2.queue, l + 1)
      BY <1>0, <1>7, <2>2, EventsNumbered
    <3>2. /\ Covers(k.queue, l, m, p) /\ k2.queue[l + 1] = e
          /\ \A i \in 1..l : k2.queue[i] = k.queue[i]
      BY <1>7, <2>1, <2>2 DEF YetToRead
    <3>3. Covers(k2.queue, l + 1, m, k2.queue[l + 1].last + 1)
      <4>1. l \in Nat /\ m \in Int /\ p \in Int
        BY <1>0, <2>1
      <4>2. k2.queue[l + 1].first = p /\ p <= k2.queue[l + 1].last
        BY <3>2
      <4> QED
        BY <3>1, <3>2, <4>1, <4>2, CoversMore
    <3>4. k2.queue[l + 1].last + 1 = q
      BY <3>2
    <3> QED
      BY <3>3, <3>4
  <2>4. ASSUME NEW i \in 1..Len(k2.backlog)
        PROVE  \/ k2.backlog[i].kind = "gap" /\ i = 1 /\ Len(k2.backlog) > 1
               \/ News(k2.got, k2.backlog[i], h2)
    <3>1. k.backlog[i] \in StreamEvent /\ k.backlog[i].last < m /\ k.backlog[i].last \in Int
      <4>1. i \in 1..Len(k.backlog) /\ k.backlog[i] \in StreamEvent
        BY <1>0
      <4>2. k.backlog[i].last < m
        BY <2>1, <4>1 DEF YetToRead, Covers
      <4> QED
        BY <4>1, <4>2 DEF StreamEvent
    <3>2. k.backlog[i].last < p
      BY <2>1, <3>1
    <3> QED
      BY <1>5, <2>1, <3>1, <3>2 DEF YetToRead
  <2>5. ASSUME NEW i \in 1..(l + 1) PROVE News(k2.got, k2.queue[i], h2)
    <3>1. CASE i = l + 1
      BY <1>6, <1>7, <2>2, <3>1
    <3>2. CASE i # l + 1
      <4>1. i \in 1..l /\ i \in 1..Len(k.queue)
        BY <2>1, <2>2, <3>2
      <4>2. k2.queue[i] = k.queue[i] /\ k.queue[i] \in StreamEvent /\ k.queue[i].last < p
        BY <1>0, <1>7, <2>1, <2>2, <4>1 DEF YetToRead, Covers
      <4>3. News(k.got, k.queue[i], h)
        BY <2>1, <4>1 DEF YetToRead
      <4> QED
        BY <1>5, <4>2, <4>3
    <3> QED
      BY <3>1, <3>2
  <2>6. l + 1 < Len(k2.queue) => done /\ k2.queue[Len(k2.queue)] = Over
    <3>1. CASE Len(k2.queue) = Len(k.queue) + 1
      <4>1. ~(l + 1 < Len(k2.queue))
        BY <1>0, <2>2, <3>1
      <4> QED
        BY <4>1
    <3>2. CASE Len(k2.queue) = Len(k.queue) + 2 /\ done /\ k2.queue[Len(k.queue) + 2] = Over
      BY <3>2
    <3> QED
      BY <1>7, <3>1, <3>2
  <2>7. k2.after < n /\ 0..(n - 1) \subseteq Accounted(k2) /\ Covers(k2.backlog, Len(k2.backlog), n, m)
    BY <1>0, <2>1 DEF YetToRead
  <2>8. YetToRead(k2, n, m, l + 1, h2, done, q)
    BY <2>3, <2>4, <2>5, <2>6, <2>7 DEF YetToRead
  <2>9. n \in 0..q /\ m \in 0..q /\ l + 1 \in 0..Len(k2.queue) /\ l + 1 >= Len(k2.queue) - 1
    <3>1. n \in 0..q /\ m \in 0..q
      BY <2>1
    <3>2. Len(k2.queue) \in Nat /\ (Len(k2.queue) = l + 1 \/ Len(k2.queue) = l + 2) /\ l \in Nat
      BY <1>0, <1>7, <2>1, <2>2
    <3> QED
      BY <3>1, <3>2
  <2> QED
    BY <2>8, <2>9
<1>8. k2.at = "live" => k2.backlog = <<>>
  BY DEF ClientKept
<1> QED
  BY <1>2, <1>3, <1>4, <1>7, <1>8 DEF ClientKept, Listening

\* After an event that is news: what the client knows, and what is still news to it.
LEMMA NewsKnown ==
  ASSUME NEW k \in ClientSet, NEW k2 \in ClientSet, NEW h \in Seq(StreamEvent), NEW p \in Nat,
         NEW e \in StreamEvent, NEW n \in 0..p,
         HistoryKept(h, p), Knows(k, h, p), News(k.got, e, h),
         k.after < n, 0..(n - 1) \subseteq Accounted(k),
         e.first = n, e.first <= e.last, e.last < p,
         ~k2.repeated, k2.after = e.first, k2.got = k.got \cup (e.first..e.last), k2.gone = k.gone
  PROVE  /\ Knows(k2, h, p)
         /\ k2.after < e.last + 1 /\ 0..((e.last + 1) - 1) \subseteq Accounted(k2)
         /\ \A f \in StreamEvent : News(k.got, f, h) /\ e.last < f.first => News(k2.got, f, h)
<1>0. /\ k.after \in Int /\ k.got \subseteq Int /\ k.gone \subseteq Int
      /\ e.first \in Int /\ e.last \in Int /\ e.last + 1 \in Nat
      /\ Accounted(k2) = Accounted(k) \cup (e.first..e.last)
      /\ Len(h) \in Nat /\ \A i \in 1..Len(h) : h[i].first \in Int /\ h[i].last \in Int
  <2>1. \A i \in 1..Len(h) : h[i] \in StreamEvent
    OBVIOUS
  <2> QED
    BY <2>1 DEF ClientSet, Accounted, StreamEvent
<1>1. 0..((e.last + 1) - 1) \subseteq Accounted(k2)
  <2>1. 0..((e.last + 1) - 1) \subseteq (0..(n - 1)) \cup (e.first..e.last)
    BY <1>0
  <2> QED
    BY <1>0, <2>1
<1>2. -1 <= k2.after /\ k2.after < p /\ k2.after < e.last + 1
  BY <1>0
<1>3. Accounted(k2) \subseteq 0..(p - 1)
  <2>1. (e.first..e.last) \subseteq 0..(p - 1)
    BY <1>0
  <2> QED
    BY <1>0, <2>1 DEF Knows
<1>4. 0..(k2.after) \subseteq Accounted(k2)
  <2>1. 0..(k2.after) \subseteq 0..((e.last + 1) - 1)
    BY <1>0
  <2> QED
    BY <1>1, <2>1
<1>5. ASSUME NEW i \in 1..Len(h), h[i].first > k2.after, NEW j \in k2.got PROVE j < h[i].first
  <2>1. Apart(e, h[i])
    BY DEF News
  <2>2. e.last < h[i].first
    <3>1. h[i].first <= h[i].last
      BY DEF HistoryKept, Covers
    <3> QED
      BY <1>0, <1>5, <2>1, <3>1 DEF Apart
  <2>3. CASE j \in k.got
    BY <1>0, <1>5, <2>2, <2>3 DEF News
  <2>4. CASE j \in e.first..e.last
    BY <1>0, <2>2, <2>4
  <2> QED
    BY <2>3, <2>4
<1>6. ASSUME NEW f \in StreamEvent, News(k.got, f, h), e.last < f.first PROVE News(k2.got, f, h)
  <2>1. f.first \in Int
    BY DEF StreamEvent
  <2>2. \A j \in k2.got : j < f.first
    BY <1>0, <1>6, <2>1 DEF News
  <2> QED
    BY <1>6, <2>2 DEF News
<1>7. Knows(k2, h, p)
  BY <1>2, <1>3, <1>4, <1>5 DEF Knows
<1> QED
  BY <1>1, <1>2, <1>6, <1>7

\* What an event tells.
Tells(k, k2, e) ==
  /\ k2.after = e.first
  /\ e.kind # "gap" => k2.got = k.got \cup (e.first..e.last) /\ k2.gone = k.gone
  /\ e.kind = "gap" => k2.got = k.got /\ k2.gone = k.gone \cup (e.first..e.last)

\* One that listens takes the next event off its backlog, or off its queue.
LEMMA MissedRead ==
  ASSUME NEW k \in ClientSet, NEW k2 \in ClientSet, NEW h \in Seq(StreamEvent), NEW p \in Nat,
         NEW done \in BOOLEAN, HistoryKept(h, p), ClientKept(k, h, done, p),
         k.at = "backlog", k.backlog # <<>>,
         k2.at = k.at, k2.backlog = Tail(k.backlog), k2.queue = k.queue, ~k2.repeated,
         Tells(k, k2, k.backlog[1])
  PROVE  ClientKept(k2, h, done, p)
<1> DEFINE e == k.backlog[1]
<1>0. /\ k.backlog \in Seq(StreamEvent) /\ k.queue \in Seq(StreamEvent) /\ Len(k.backlog) \in Nat
      /\ Len(k.queue) \in Nat /\ Len(k.backlog) > 0
      /\ k.after \in Int /\ k.got \subseteq Int /\ k.gone \subseteq Int /\ ~k.repeated
      /\ e \in StreamEvent /\ e.first \in Int /\ e.last \in Int /\ Head(k.backlog) = e
      /\ Knows(k, h, p)
  <2>1. k.backlog \in Seq(StreamEvent) /\ k.queue \in Seq(StreamEvent)
        /\ k.after \in Int /\ k.got \subseteq Int /\ k.gone \subseteq Int
    BY DEF ClientSet
  <2>2. Len(k.backlog) > 0 /\ Head(k.backlog) = e /\ e \in StreamEvent
    BY <2>1
  <2>3. Knows(k, h, p) /\ ~k.repeated
    BY DEF ClientKept, Knows
  <2>4. Len(k.backlog) \in Nat /\ Len(k.queue) \in Nat
    BY <2>1
  <2>5. e.first \in Int /\ e.last \in Int
    <3>1. \A f \in StreamEvent : f.first \in Int /\ f.last \in Int
      BY DEF StreamEvent
    <3> QED
      BY <2>2, <3>1
  <2> HIDE DEF e
  <2> QED
    BY <2>1, <2>2, <2>3, <2>4, <2>5
<1>1. PICK n, m \in 0..p, l \in 0..Len(k.queue) :
        l >= Len(k.queue) - 1 /\ YetToRead(k, n, m, l, h, done, p)
  BY DEF ClientKept, Listening
<1>2. e.first = n /\ n <= e.last /\ e.last < m
  <2>1. Numbered(k.backlog, Len(k.backlog)) /\ Covers(k.backlog, Len(k.backlog), n, m)
    BY <1>0, <1>1, EventsNumbered DEF YetToRead
  <2>2. e.first = n /\ e.last < m
    BY <1>0, <1>1, <2>1, CoversFirst
  <2>3. 1 \in 1..Len(k.backlog)
    BY <1>0
  <2> QED
    BY <2>1, <2>2, <2>3 DEF Covers
<1>3. Covers(Tail(k.backlog), Len(k.backlog) - 1, e.last + 1, m)
      /\ Len(Tail(k.backlog)) = Len(k.backlog) - 1
      /\ \A i \in 1..(Len(k.backlog) - 1) : Tail(k.backlog)[i] = k.backlog[i + 1]
  <2>1. Len(Tail(k.backlog)) = Len(k.backlog) - 1
        /\ \A i \in 1..(Len(k.backlog) - 1) : Tail(k.backlog)[i] = k.backlog[i + 1]
    BY <1>0
  <2>2. Numbered(k.backlog, Len(k.backlog)) /\ Covers(k.backlog, Len(k.backlog), n, m)
    BY <1>0, <1>1, EventsNumbered DEF YetToRead
  <2>3. \A t : (\A i \in 1..(Len(k.backlog) - 1) : t[i] = k.backlog[i + 1]) =>
          Covers(t, Len(k.backlog) - 1, k.backlog[1].last + 1, m)
    <3>1. n \in Int /\ m \in Int
      BY <1>1
    <3> QED
      BY <1>0, <2>2, <3>1, CoversRest
  <2> QED
    BY <2>1, <2>3
<1> HIDE DEF e
\* What comes after it is news still where it was.
<1>4. \A i \in 1..Len(Tail(k.backlog)) :
        /\ Tail(k.backlog)[i] \in StreamEvent /\ News(k.got, Tail(k.backlog)[i], h)
        /\ e.last < Tail(k.backlog)[i].first
  <2> SUFFICES ASSUME NEW i \in 1..Len(Tail(k.backlog))
               PROVE  /\ Tail(k.backlog)[i] \in StreamEvent /\ News(k.got, Tail(k.backlog)[i], h)
                      /\ e.last < Tail(k.backlog)[i].first
    OBVIOUS
  <2>1. i + 1 \in 1..Len(k.backlog) /\ i + 1 # 1 /\ Tail(k.backlog)[i] = k.backlog[i + 1]
    <3>1. i \in 1..(Len(k.backlog) - 1)
      BY <1>3
    <3>2. i + 1 \in 1..Len(k.backlog) /\ i + 1 # 1
      BY <1>0, <3>1
    <3> QED
      BY <1>3, <3>1, <3>2
  <2>2. News(k.got, k.backlog[i + 1], h)
    BY <1>1, <2>1 DEF YetToRead
  <2>3. k.backlog[i + 1] \in StreamEvent
    BY <1>0, <2>1
  <2>4. e.last + 1 <= Tail(k.backlog)[i].first
    BY <1>3 DEF Covers
  <2>5. Tail(k.backlog)[i] \in StreamEvent
    BY <2>1, <2>3
  <2>6. \A f \in StreamEvent : f.first \in Int
    BY DEF StreamEvent
  <2>7. e.last < Tail(k.backlog)[i].first
    BY <1>0, <2>4, <2>5, <2>6
  <2> QED
    BY <2>1, <2>2, <2>5, <2>7
<1>5. \A i \in 1..l :
        k.queue[i] \in StreamEvent /\ News(k.got, k.queue[i], h) /\ e.last < k.queue[i].first
  <2> SUFFICES ASSUME NEW i \in 1..l
               PROVE  k.queue[i] \in StreamEvent /\ News(k.got, k.queue[i], h) /\ e.last < k.queue[i].first
    OBVIOUS
  <2>1. k.queue[i] \in StreamEvent
    BY <1>0, <1>1
  <2>2. News(k.got, k.queue[i], h) /\ m <= k.queue[i].first
    BY <1>1 DEF YetToRead, Covers
  <2>3. \A f \in StreamEvent : f.first \in Int
    BY DEF StreamEvent
  <2>4. e.last < k.queue[i].first
    BY <1>0, <1>1, <1>2, <2>1, <2>2, <2>3
  <2> QED
    BY <2>1, <2>2, <2>4
<1>6. ASSUME Knows(k2, h, p), k2.after < e.last + 1, 0..((e.last + 1) - 1) \subseteq Accounted(k2),
             \A f \in StreamEvent : News(k.got, f, h) /\ e.last < f.first => News(k2.got, f, h)
      PROVE  ClientKept(k2, h, done, p)
  <2>1. Covers(k2.backlog, Len(k2.backlog), e.last + 1, m) /\ Covers(k2.queue, l, m, p)
    BY <1>1, <1>3, <1>6 DEF YetToRead
  <2>2. /\ \A i \in 1..Len(k2.backlog) : News(k2.got, k2.backlog[i], h)
        /\ \A i \in 1..l : News(k2.got, k2.queue[i], h)
    BY <1>4, <1>5, <1>6
  <2>3. l < Len(k2.queue) => done /\ k2.queue[Len(k2.queue)] = Over
    BY <1>1, <1>6 DEF YetToRead
  <2>4. YetToRead(k2, e.last + 1, m, l, h, done, p)
    BY <1>6, <2>1, <2>2, <2>3 DEF YetToRead
  <2>5. e.last + 1 \in 0..p
    BY <1>0, <1>1, <1>2
  <2>6. \E a, b \in 0..p : \E c \in 0..Len(k2.queue) :
          c >= Len(k2.queue) - 1 /\ YetToRead(k2, a, b, c, h, done, p)
    BY <1>1, <1>6, <2>4, <2>5
  <2> QED
    BY <1>6, <2>6 DEF ClientKept, Listening
<1>7. CASE e.kind # "gap"
  <2>1. News(k.got, e, h) /\ k.after < n /\ 0..(n - 1) \subseteq Accounted(k)
    <3>1. 1 \in 1..Len(k.backlog)
      BY <1>0
    <3> QED
      BY <1>1, <1>7, <3>1 DEF YetToRead, e
  <2>2. (\A j \in k.got : j < e.first) /\ k.after < e.first
    BY <1>2, <2>1 DEF News
  <2>4. /\ k2.after = e.first /\ k2.got = k.got \cup (e.first..e.last)
        /\ k2.gone = k.gone
    BY <1>7 DEF Tells, e
  <2>5. /\ Knows(k2, h, p)
        /\ k2.after < e.last + 1 /\ 0..((e.last + 1) - 1) \subseteq Accounted(k2)
        /\ \A f \in StreamEvent : News(k.got, f, h) /\ e.last < f.first => News(k2.got, f, h)
    <3>1. e.first <= e.last /\ e.last < p /\ ~k2.repeated
      BY <1>0, <1>1, <1>2, <2>4
    <3>2. Knows(k, h, p) /\ n \in 0..p /\ e.first = n /\ e \in StreamEvent
      BY <1>0, <1>1, <1>2
    <3>3. k2.after = e.first /\ k2.got = k.got \cup (e.first..e.last) /\ k2.gone = k.gone
      BY <2>4
    <3> QED
      BY <2>1, <3>1, <3>2, <3>3, NewsKnown
  <2> QED
    BY <1>6, <2>5
<1>8. CASE e.kind = "gap"
  <2>2. /\ k2.after = e.first /\ k2.got = k.got
        /\ k2.gone = k.gone \cup (e.first..e.last)
    BY <1>8 DEF Tells, e
  <2>3. Accounted(k2) = Accounted(k) \cup (e.first..e.last) /\ k.after < n /\ 0..(n - 1) \subseteq Accounted(k)
    BY <1>1, <2>2 DEF Accounted, YetToRead
  <2>4. k2.after < e.last + 1 /\ e.last + 1 <= p /\ -1 <= k2.after
    BY <1>0, <1>1, <1>2, <2>2
  <2>5. 0..((e.last + 1) - 1) \subseteq Accounted(k2) /\ 0..(k2.after) \subseteq Accounted(k2)
    <3>1. 0..((e.last + 1) - 1) \subseteq (0..(n - 1)) \cup (e.first..e.last)
      BY <1>0, <1>1, <1>2
    <3>2. 0..(k2.after) \subseteq 0..((e.last + 1) - 1)
      BY <1>0, <1>1, <1>2, <2>2
    <3> QED
      BY <2>3, <3>1, <3>2
  <2>6. Accounted(k2) \subseteq 0..(p - 1)
    <3>1. (e.first..e.last) \subseteq 0..(p - 1)
      BY <1>0, <1>1, <1>2
    <3> QED
      BY <1>0, <2>3, <3>1 DEF Knows
  <2>7. ASSUME NEW i \in 1..Len(h), h[i].first > k2.after, NEW j \in k2.got PROVE j < h[i].first
    <3>0. \A f \in StreamEvent : f.first \in Int
      BY DEF StreamEvent
    <3>1. h[i].first \in Int
      <4>1. h[i] \in StreamEvent
        OBVIOUS
      <4> QED
        BY <3>0, <4>1
    <3>2. h[i].first > k.after
      BY <1>0, <1>1, <1>2, <2>2, <2>3, <2>7, <3>1
    <3> QED
      BY <1>0, <2>2, <2>7, <3>2 DEF Knows
  <2>8. Knows(k2, h, p)
    <3>1. k2.after < p /\ ~k2.repeated
      BY <1>0, <1>1, <1>2, <2>2
    <3> QED
      BY <2>4, <2>5, <2>6, <2>7, <3>1 DEF Knows
  <2>9. \A f \in StreamEvent : News(k.got, f, h) /\ e.last < f.first => News(k2.got, f, h)
    BY <2>2
  <2> QED
    BY <1>6, <2>4, <2>5, <2>8, <2>9
<1> QED
  BY <1>7, <1>8

\* Who has no backlog has all that is before its queue, and all there is where that is empty.
LEMMA QueueOnly ==
  ASSUME NEW k \in ClientSet, NEW h, NEW p \in Nat, NEW done \in BOOLEAN,
         ClientKept(k, h, done, p), Listening(k), k.backlog = <<>>
  PROVE  \E n \in 0..p : \E l \in 0..Len(k.queue) :
           l >= Len(k.queue) - 1 /\ YetToRead(k, n, n, l, h, done, p) /\ (l = 0 => n = p)
<1>1. PICK n, m \in 0..p, l \in 0..Len(k.queue) :
        l >= Len(k.queue) - 1 /\ YetToRead(k, n, m, l, h, done, p)
  BY DEF ClientKept
<1>2. n = m
  <2>1. Covers(k.backlog, 0, n, m)
    BY <1>1 DEF YetToRead
  <2> QED
    BY <1>1, <2>1, CoversOfNone
<1>3. l = 0 => n = p
  <2> SUFFICES ASSUME l = 0 PROVE n = p
    OBVIOUS
  <2>1. Covers(k.queue, 0, m, p)
    BY <1>1 DEF YetToRead
  <2> QED
    BY <1>1, <1>2, <2>1, CoversOfNone
<1> QED
  BY <1>1, <1>2, <1>3

LEMMA LiveRead ==
  ASSUME NEW k \in ClientSet, NEW k2 \in ClientSet, NEW h \in Seq(StreamEvent), NEW p \in Nat,
         NEW done \in BOOLEAN, HistoryKept(h, p), ClientKept(k, h, done, p),
         k.at = "live", k.queue # <<>>, k.queue[1] # Over,
         k2.at = k.at, k2.backlog = k.backlog, k2.queue = Tail(k.queue), ~k2.repeated,
         Tells(k, k2, k.queue[1])
  PROVE  ClientKept(k2, h, done, p)
<1>1. k.backlog = <<>> /\ Listening(k) /\ k.queue \in Seq(StreamEvent) /\ Knows(k, h, p)
  BY DEF ClientKept, Listening, ClientSet
<1>2. PICK n \in 0..p, l \in 0..Len(k.queue) :
        l >= Len(k.queue) - 1 /\ YetToRead(k, n, n, l, h, done, p)
  BY <1>1, QueueOnly
<1>3. Len(k.queue) \in Nat /\ Len(k.queue) > 0 /\ l \in Nat
  BY <1>1, <1>2
<1>4. l > 0
  <2> SUFFICES ASSUME l = 0 PROVE FALSE
    BY <1>3
  <2>1. l >= Len(k.queue) - 1
    BY <1>2
  <2>2. Len(k.queue) = 1
    <3>1. \A a \in Nat : a > 0 /\ 0 >= a - 1 => a = 1
      OBVIOUS
    <3> QED
      BY <1>3, <2>1, <3>1, Zenon
  <2>3. l < Len(k.queue)
    BY <2>2
  <2> QED
    BY <1>2, <2>2, <2>3 DEF YetToRead
<1>5. PICK e \in StreamEvent : e = k.queue[1]
  BY <1>1, <1>3
<1>6. e.first \in Int /\ e.last \in Int
  <2>1. \A f \in StreamEvent : f.first \in Int /\ f.last \in Int
    BY DEF StreamEvent
  <2> QED
    BY <2>1
<1>7. /\ Numbered(k.queue, l) /\ Covers(k.queue, l, n, p)
      /\ News(k.got, e, h) /\ k.after < n /\ 0..(n - 1) \subseteq Accounted(k)
  <2>1. 1 \in 1..l
    BY <1>3, <1>4
  <2>2. Numbered(k.queue, l)
    BY <1>1, <1>2, EventsNumbered
  <2>3. News(k.got, k.queue[1], h) /\ Covers(k.queue, l, n, p)
        /\ k.after < n /\ 0..(n - 1) \subseteq Accounted(k)
    BY <1>2, <2>1 DEF YetToRead
  <2> QED
    BY <1>5, <2>2, <2>3
<1>8. e.first = n /\ e.first <= e.last /\ e.last < p
  <2>1. n \in Int /\ p \in Int
    OBVIOUS
  <2>2. e.first = n /\ n <= e.last /\ e.last < p
    BY <1>3, <1>4, <1>5, <1>7, <2>1, CoversFirst
  <2> QED
    BY <2>2
<1>9. /\ k2.after = e.first /\ k2.got = k.got \cup (e.first..e.last) /\ k2.gone = k.gone
  BY <1>5, <1>7 DEF Tells, News
<1>10. /\ Knows(k2, h, p)
       /\ k2.after < e.last + 1 /\ 0..((e.last + 1) - 1) \subseteq Accounted(k2)
       /\ \A f \in StreamEvent : News(k.got, f, h) /\ e.last < f.first => News(k2.got, f, h)
  BY <1>1, <1>7, <1>8, <1>9, NewsKnown
<1>11. PICK t \in Seq(StreamEvent) : t = Tail(k.queue)
  <2>1. \A s \in Seq(StreamEvent) : s # <<>> => Tail(s) \in Seq(StreamEvent)
    OBVIOUS
  <2> QED
    BY <1>1, <2>1
<1>12. Len(t) = Len(k.queue) - 1 /\ \A i \in 1..(Len(k.queue) - 1) : t[i] = k.queue[i + 1]
  <2>1. \A s \in Seq(StreamEvent) : s # <<>> => Len(Tail(s)) = Len(s) - 1 /\
          \A i \in 1..(Len(s) - 1) : Tail(s)[i] = s[i + 1]
    OBVIOUS
  <2> QED
    BY <1>1, <1>11, <2>1
<1>13. Covers(t, l - 1, e.last + 1, p)
  <2>1. \A i \in 1..(l - 1) : t[i] = k.queue[i + 1]
    BY <1>2, <1>3, <1>12
  <2>2. n \in Int /\ p \in Int
    OBVIOUS
  <2> QED
    BY <1>3, <1>4, <1>5, <1>7, <2>1, <2>2, CoversRest
<1>14. ASSUME NEW i \in 1..(l - 1) PROVE News(k2.got, t[i], h)
  <2>1. i + 1 \in 1..l /\ i \in 1..(Len(k.queue) - 1)
    BY <1>2, <1>3
  <2>2. t[i] = k.queue[i + 1] /\ News(k.got, t[i], h)
    BY <1>2, <1>12, <2>1 DEF YetToRead
  <2>3. t[i] \in StreamEvent /\ e.last + 1 <= t[i].first
    BY <1>12, <1>13, <2>1 DEF Covers
  <2>4. \A f \in StreamEvent : f.first \in Int
    BY DEF StreamEvent
  <2>5. e.last < t[i].first
    BY <1>6, <2>3, <2>4
  <2> QED
    BY <1>10, <2>2, <2>3, <2>5
<1>15. l - 1 < Len(t) => done /\ t[Len(t)] = Over
  <2> SUFFICES ASSUME l - 1 < Len(t) PROVE done /\ t[Len(t)] = Over
    OBVIOUS
  <2>1. l < Len(k.queue)
    BY <1>2, <1>3, <1>12
  <2>2. done /\ k.queue[Len(k.queue)] = Over
    BY <1>2, <2>1 DEF YetToRead
  <2>3. Len(t) \in 1..(Len(k.queue) - 1) /\ Len(t) + 1 = Len(k.queue)
    BY <1>2, <1>3, <1>4, <1>12, <2>1
  <2> QED
    BY <1>12, <2>2, <2>3
<1>16. YetToRead(k2, e.last + 1, e.last + 1, l - 1, h, done, p)
  <2>1. k2.backlog = <<>> /\ k2.queue = t
    BY <1>1, <1>11
  <2>2. Covers(k2.backlog, Len(k2.backlog), e.last + 1, e.last + 1)
    <3>1. e.last + 1 \in Int
      BY <1>6
    <3>2. Len(k2.backlog) = 0
      BY <2>1
    <3> QED
      BY <3>1, <3>2, CoversOfNone
  <2>3. Len(k2.backlog) = 0
    BY <2>1
  <2>4. k2.after < e.last + 1 /\ 0..((e.last + 1) - 1) \subseteq Accounted(k2)
    BY <1>10
  <2>5. /\ Covers(k2.queue, l - 1, e.last + 1, p)
        /\ \A i \in 1..(l - 1) : News(k2.got, k2.queue[i], h)
        /\ l - 1 < Len(k2.queue) => done /\ k2.queue[Len(k2.queue)] = Over
    BY <1>13, <1>14, <1>15, <2>1
  <2>6. \A i \in 1..Len(k2.backlog) : FALSE
    BY <2>3
  <2> QED
    BY <2>2, <2>4, <2>5, <2>6, Zenon DEF YetToRead
<1>17. /\ e.last + 1 \in 0..p /\ l - 1 \in 0..Len(k2.queue) /\ l - 1 >= Len(k2.queue) - 1
  BY <1>2, <1>3, <1>4, <1>6, <1>8, <1>11, <1>12
<1> QED
  BY <1>1, <1>10, <1>16, <1>17 DEF ClientKept, Listening

\* Who reads that it is over, or turns to a queue with nothing in it when it is, has had
\* everything.
LEMMA AllRead ==
  ASSUME NEW k \in ClientSet, NEW h \in Seq(StreamEvent), NEW p \in Nat, NEW done \in BOOLEAN,
         ClientKept(k, h, done, p), Listening(k), k.backlog = <<>>,
         k.queue = <<>> \/ k.queue[1] = Over
  PROVE  0..(p - 1) \subseteq Accounted(k) /\ (k.queue # <<>> => done)
<1>1. PICK n \in 0..p, l \in 0..Len(k.queue) :
        /\ l >= Len(k.queue) - 1 /\ YetToRead(k, n, n, l, h, done, p) /\ (l = 0 => n = p)
  BY QueueOnly
<1>2. k.queue \in Seq(StreamEvent) /\ Len(k.queue) \in Nat
  BY DEF ClientSet
<1>3. l = 0
  <2> SUFFICES ASSUME l > 0 PROVE FALSE
    BY <1>1, <1>2
  <2>1. 1 \in 1..l /\ k.queue # <<>>
    BY <1>1, <1>2
  <2>2. n <= k.queue[1].first
    BY <1>1, <2>1 DEF YetToRead, Covers
  <2> QED
    BY <1>1, <2>1, <2>2 DEF Over
<1>4. k.queue # <<>> => l < Len(k.queue)
  BY <1>2, <1>3
<1> QED
  BY <1>1, <1>3, <1>4 DEF YetToRead

\* Who leaves while there is more to read has not seen the last of what the room keeps.
LEMMA LeftKept ==
  ASSUME NEW k \in ClientSet, NEW k2 \in ClientSet, NEW h \in Seq(StreamEvent), NEW p \in Nat,
         NEW done \in BOOLEAN, HistoryKept(h, p), ClientKept(k, h, done, p), Listening(k),
         k2.at = "away", k2.after = k.after, k2.got = k.got, k2.gone = k.gone, ~k2.repeated
  PROVE  ClientKept(k2, h, done, p)
<1>1. PICK n, m \in 0..p, l \in 0..Len(k.queue) :
        l >= Len(k.queue) - 1 /\ YetToRead(k, n, m, l, h, done, p)
  BY DEF ClientKept
<1>2. /\ k.backlog \in Seq(StreamEvent) /\ k.queue \in Seq(StreamEvent) /\ Len(k.queue) \in Nat
      /\ Len(k.backlog) \in Nat /\ k.after \in Int /\ Len(h) \in Nat
  <2>1. k.backlog \in Seq(StreamEvent) /\ k.queue \in Seq(StreamEvent) /\ k.after \in Int
    BY DEF ClientSet
  <2> QED
    BY <2>1
<1>3. Accounted(k2) = Accounted(k) /\ Knows(k, h, p)
  BY DEF Accounted, ClientKept
<1>4. Knows(k2, h, p)
  BY <1>3 DEF Knows
<1>5. \A f \in StreamEvent : f.first \in Int /\ f.last \in Int
  BY DEF StreamEvent
\* The last of what it has not read is the last that was posted.
<1>6. ASSUME NEW f \in StreamEvent, News(k.got, f, h), k.after < f.first, f.first <= f.last, f.last = p - 1
      PROVE  ~ \A i \in 1..Len(h) : h[i].first <= k.after
  <2>0. f.first \in Int /\ f.last \in Int
    BY <1>5
  <2>1. p > 0
    <3>1. -1 <= k.after
      BY <1>3 DEF Knows
    <3> QED
      BY <1>2, <1>6, <2>0, <3>1
  <2>2. Len(h) > 0
    <3>1. h # <<>>
      BY <2>1 DEF HistoryKept
    <3> QED
      BY <3>1
  <2>3. PICK a \in 0..p : Covers(h, Len(h), a, p)
    BY DEF HistoryKept
  <2>4. PICK g \in StreamEvent : g = h[Len(h)]
    <3>1. Len(h) \in 1..Len(h)
      BY <1>2, <2>2
    <3>2. \A i \in 1..Len(h) : h[i] \in StreamEvent
      OBVIOUS
    <3> QED
      BY <3>1, <3>2
  <2>5. g.last = p - 1 /\ g.first <= g.last /\ g.first \in Int
    <3>1. Numbered(h, Len(h)) /\ a \in Int /\ p \in Int
      BY <1>2, EventsNumbered
    <3> QED
      BY <1>2, <1>5, <2>2, <2>3, <2>4, <3>1, CoversLast
  <2>6. Apart(f, g) /\ Len(h) \in 1..Len(h)
    BY <1>2, <1>6, <2>2, <2>4 DEF News
  <2>7. g.first = f.first
    BY <1>6, <2>0, <2>5, <2>6 DEF Apart
  <2>8. ~(h[Len(h)].first <= k.after)
    BY <1>2, <1>6, <2>0, <2>4, <2>7
  <2> QED
    BY <2>6, <2>8
<1>7. 0..(p - 1) \subseteq Accounted(k) \/ ~ \A i \in 1..Len(h) : h[i].first <= k.after
  <2>1. k.after < n /\ 0..(n - 1) \subseteq Accounted(k)
    BY <1>1 DEF YetToRead
  <2>2. CASE l > 0
    <3>1. l \in 1..l /\ l \in Nat /\ l \in 1..Len(k.queue)
      BY <1>1, <1>2, <2>2
    <3>2. PICK f \in StreamEvent : f = k.queue[l]
      BY <1>2, <3>1
    <3>3. Covers(k.queue, l, m, p) /\ News(k.got, f, h) /\ Covers(k.backlog, Len(k.backlog), n, m)
      BY <1>1, <3>1, <3>2 DEF YetToRead
    <3>4. Numbered(k.queue, l) /\ m \in Int /\ p \in Int
      BY <1>1, <1>2, EventsNumbered
    <3>5. f.last = p - 1 /\ m <= f.first /\ f.first <= f.last
      BY <2>2, <3>1, <3>2, <3>3, <3>4, CoversLast
    <3>6. n <= m
      BY <3>3 DEF Covers
    <3>7. k.after < f.first
      BY <1>1, <1>2, <1>5, <2>1, <3>5, <3>6
    <3> QED
      BY <1>6, <3>3, <3>5, <3>7
  <2>3. CASE l = 0 /\ Len(k.backlog) > 0
    <3>1. m = p
      <4>1. Covers(k.queue, 0, m, p)
        BY <1>1, <2>3 DEF YetToRead
      <4> QED
        BY <1>1, <4>1, CoversOfNone
    <3>2. Len(k.backlog) \in 1..Len(k.backlog)
      BY <1>2, <2>3
    <3>3. PICK f \in StreamEvent : f = k.backlog[Len(k.backlog)]
      BY <1>2, <3>2
    <3>4. Covers(k.backlog, Len(k.backlog), n, p)
      BY <1>1, <3>1 DEF YetToRead
    <3>5. News(k.got, f, h)
      <4>1. ~(Len(k.backlog) = 1 /\ Len(k.backlog) > 1)
        <5>1. \A a \in Nat : ~(a = 1 /\ a > 1)
          OBVIOUS
        <5> QED
          BY <1>2, <5>1, Zenon
      <4>2. \A i \in 1..Len(k.backlog) :
              \/ k.backlog[i].kind = "gap" /\ i = 1 /\ Len(k.backlog) > 1
              \/ News(k.got, k.backlog[i], h)
        BY <1>1 DEF YetToRead
      <4> QED
        BY <3>2, <3>3, <4>1, <4>2
    <3>6. Numbered(k.backlog, Len(k.backlog)) /\ n \in Int /\ p \in Int
      BY <1>1, <1>2, EventsNumbered
    <3>7. f.last = p - 1 /\ n <= f.first /\ f.first <= f.last
      BY <1>2, <2>3, <3>3, <3>4, <3>6, CoversLast
    <3>8. k.after < f.first
      BY <1>1, <1>2, <1>5, <2>1, <3>7
    <3> QED
      BY <1>6, <3>5, <3>7, <3>8
  <2>4. CASE l = 0 /\ ~(Len(k.backlog) > 0)
    <3>1. k.backlog = <<>>
      BY <1>2, <2>4
    <3>2. Len(k.backlog) = 0
      BY <3>1
    <3>3. Covers(k.backlog, 0, n, m) /\ Covers(k.queue, 0, m, p)
      BY <1>1, <2>4, <3>2 DEF YetToRead
    <3>4. n = m /\ m = p
      BY <1>1, <3>3, CoversOfNone
    <3> QED
      BY <2>1, <3>4
  <2>5. l > 0 \/ l = 0
    BY <1>1, <1>2
  <2> QED
    BY <2>2, <2>3, <2>4, <2>5
<1>8. ~Listening(k2) /\ k2.at # "live" /\ k2.at # "ended"
  BY DEF Listening
<1> QED
  BY <1>3, <1>4, <1>7, <1>8 DEF ClientKept

LEMMA CoversSuffix ==
  ASSUME NEW s, NEW t, NEW n \in Nat, NEW d \in Nat, d < n, NEW a \in Int, NEW b \in Int,
         Numbered(s, n), Covers(s, n, a, b), \A i \in 1..(n - d) : t[i] = s[d + i]
  PROVE  Covers(t, n - d, s[d + 1].first, b)
<1>0. /\ d + 1 \in 1..n /\ n - d \in Nat /\ 1 \in 1..(n - d)
      /\ \A i \in 1..(n - d) : d + i \in 1..n
      /\ \A i \in 1..n : i > d => i - d \in 1..(n - d) /\ d + (i - d) = i
  OBVIOUS
<1>1. \A i \in 1..n : s[i].first \in Int /\ s[i].last \in Int
  BY DEF Numbered
<1>2. /\ \A i \in 1..n : a <= s[i].first /\ s[i].first <= s[i].last /\ s[i].last < b
      /\ \A i, j \in 1..n : i < j => s[i].last < s[j].first
      /\ \A k \in a..(b - 1) : \E i \in 1..n : s[i].first <= k /\ k <= s[i].last
  BY DEF Covers
<1>3. s[d + 1].first <= b /\ s[d + 1].first \in Int /\ a <= s[d + 1].first
  BY <1>0, <1>1, <1>2
<1>4. ASSUME NEW i \in 1..(n - d)
      PROVE  s[d + 1].first <= t[i].first /\ t[i].first <= t[i].last /\ t[i].last < b
  <2>1. d + i \in 1..n /\ t[i] = s[d + i]
    BY <1>0
  <2>2. s[d + i].first <= s[d + i].last /\ s[d + i].last < b
    BY <1>2, <2>1
  <2>3. s[d + 1].first <= s[d + i].first
    <3>1. CASE i = 1
      BY <1>3, <3>1
    <3>2. CASE i # 1
      <4>1. d + 1 < d + i
        BY <3>2
      <4>2. s[d + 1].last < s[d + i].first /\ s[d + 1].first <= s[d + 1].last
        BY <1>0, <1>2, <2>1, <4>1
      <4> QED
        BY <1>0, <1>1, <2>1, <4>2
    <3> QED
      BY <3>1, <3>2
  <2> QED
    BY <2>1, <2>2, <2>3
<1>5. ASSUME NEW i \in 1..(n - d), NEW j \in 1..(n - d), i < j PROVE t[i].last < t[j].first
  <2>1. d + i \in 1..n /\ d + j \in 1..n /\ d + i < d + j /\ t[i] = s[d + i] /\ t[j] = s[d + j]
    BY <1>0, <1>5
  <2> QED
    BY <1>2, <2>1
<1>6. ASSUME NEW k \in (s[d + 1].first)..(b - 1)
      PROVE  \E i \in 1..(n - d) : t[i].first <= k /\ k <= t[i].last
  <2>1. k \in a..(b - 1)
    BY <1>3
  <2>2. PICK i \in 1..n : s[i].first <= k /\ k <= s[i].last
    BY <1>2, <2>1
  <2>3. i > d
    <3> SUFFICES ASSUME ~(i > d) PROVE FALSE
      OBVIOUS
    <3>1. i < d + 1
      OBVIOUS
    <3>2. s[i].last < s[d + 1].first /\ s[i].last \in Int
      BY <1>0, <1>1, <1>2, <3>1
    <3> QED
      BY <1>3, <2>2, <3>2
  <2>4. i - d \in 1..(n - d) /\ d + (i - d) = i
    BY <1>0, <2>3
  <2>5. t[i - d] = s[i]
    BY <2>4
  <2> QED
    BY <2>2, <2>4, <2>5
<1> QED
  BY <1>3, <1>4, <1>5, <1>6 DEF Covers

\* One more in front.
LEMMA CoversBefore ==
  ASSUME NEW s, NEW t, NEW n \in Nat, NEW a \in Int, NEW m \in Int, NEW b \in Int,
         Numbered(s, n), Covers(s, n, m, b), \A i \in 1..n : t[i + 1] = s[i],
         t[1].first = a, t[1].last = m - 1, a < m
  PROVE  Covers(t, n + 1, a, b)
<1>0. /\ 1 \in 1..(n + 1) /\ \A i \in 1..n : i + 1 \in 1..(n + 1)
      /\ \A i \in 1..(n + 1) : i # 1 => i - 1 \in 1..n /\ (i - 1) + 1 = i
  OBVIOUS
<1>1. \A i \in 1..n : s[i].first \in Int /\ s[i].last \in Int
  BY DEF Numbered
<1>2. /\ m <= b
      /\ \A i \in 1..n : m <= s[i].first /\ s[i].first <= s[i].last /\ s[i].last < b
      /\ \A i, j \in 1..n : i < j => s[i].last < s[j].first
      /\ \A k \in m..(b - 1) : \E i \in 1..n : s[i].first <= k /\ k <= s[i].last
  BY DEF Covers
<1>3. \A i \in 1..(n + 1) : i # 1 => i - 1 \in 1..n /\ t[i] = s[i - 1]
  <2> SUFFICES ASSUME NEW i \in 1..(n + 1), i # 1 PROVE i - 1 \in 1..n /\ t[i] = s[i - 1]
    OBVIOUS
  <2>1. i - 1 \in 1..n /\ (i - 1) + 1 = i
    BY <1>0
  <2> QED
    BY <2>1
<1>4. ASSUME NEW i \in 1..(n + 1)
      PROVE  a <= t[i].first /\ t[i].first <= t[i].last /\ t[i].last < b
  <2>1. CASE i = 1
    BY <1>2, <2>1
  <2>2. CASE i # 1
    <3>1. PICK j \in 1..n : t[i] = s[j]
      BY <1>3, <2>2
    <3> QED
      BY <1>1, <1>2, <3>1
  <2> QED
    BY <2>1, <2>2
<1>5. ASSUME NEW i \in 1..(n + 1), NEW j \in 1..(n + 1), i < j PROVE t[i].last < t[j].first
  <2>1. j # 1 /\ j - 1 \in 1..n /\ t[j] = s[j - 1]
    BY <1>3, <1>5
  <2>2. CASE i = 1
    BY <1>1, <1>2, <2>1, <2>2
  <2>3. CASE i # 1
    <3>1. i - 1 \in 1..n /\ t[i] = s[i - 1] /\ i - 1 < j - 1
      BY <1>3, <1>5, <2>3
    <3> QED
      BY <1>2, <2>1, <3>1
  <2> QED
    BY <2>2, <2>3
<1>6. ASSUME NEW k \in a..(b - 1) PROVE \E i \in 1..(n + 1) : t[i].first <= k /\ k <= t[i].last
  <2>1. CASE k < m
    BY <1>0, <2>1
  <2>2. CASE ~(k < m)
    <3>1. PICK i \in 1..n : s[i].first <= k /\ k <= s[i].last
      BY <1>2, <2>2
    <3> QED
      BY <1>0, <3>1
  <2> QED
    BY <2>1, <2>2
<1>7. a <= b
  BY <1>2
<1> QED
  BY <1>4, <1>5, <1>6, <1>7 DEF Covers

LEMMA EndOfSequence ==
  ASSUME NEW s \in Seq(StreamEvent), NEW d \in 0..Len(s)
  PROVE  /\ SubSeq(s, d + 1, Len(s)) \in Seq(StreamEvent)
         /\ Len(SubSeq(s, d + 1, Len(s))) = Len(s) - d
         /\ \A i \in 1..(Len(s) - d) : SubSeq(s, d + 1, Len(s))[i] = s[d + i]
<1>1. Len(s) \in Nat /\ \A i \in 1..Len(s) : s[i] \in StreamEvent
  OBVIOUS
<1> QED
  BY <1>1

LEMMA SeenFirst ==
  ASSUME NEW p \in Nat, NEW seen \in Int, history \in Seq(StreamEvent), HistoryKept(history, p)
  PROVE  /\ Seen(seen) \in 0..Len(history)
         /\ \A i \in 1..Len(history) : history[i].first > seen <=> i > Seen(seen)
<1>0. Len(history) \in Nat /\ DOMAIN history = 1..Len(history)
      /\ \A i \in 1..Len(history) : history[i].first \in Int /\ history[i].last \in Int
  <2>1. Numbered(history, Len(history)) /\ Len(history) \in Nat
    BY EventsNumbered
  <2> QED
    BY <2>1 DEF Numbered
<1>1. \A i, j \in 1..Len(history) : i < j => history[i].first < history[j].first
  <2> SUFFICES ASSUME NEW i \in 1..Len(history), NEW j \in 1..Len(history), i < j
               PROVE  history[i].first < history[j].first
    OBVIOUS
  <2>1. history[i].first <= history[i].last /\ history[i].last < history[j].first
    BY DEF HistoryKept, Covers
  <2> QED
    BY <1>0, <2>1
<1>2. \E n \in 0..Len(history) : \A i \in 1..Len(history) : history[i].first > seen <=> i > n
  <2> DEFINE newer == {i \in 1..Len(history) : history[i].first > seen}
  <2>1. CASE newer = {}
    <3>1. \A i \in 1..Len(history) : ~(history[i].first > seen) /\ ~(i > Len(history))
      BY <1>0, <2>1
    <3>2. \A i \in 1..Len(history) : history[i].first > seen <=> i > Len(history)
      BY <3>1, Zenon
    <3>3. Len(history) \in 0..Len(history)
      BY <1>0
    <3> HIDE DEF newer
    <3> QED
      BY <3>2, <3>3, Zenon
  <2>2. CASE newer # {}
    <3>1. newer \in SUBSET Nat
      BY <1>0
    <3>2. PICK m \in newer : \A i \in newer : m <= i
      BY <2>2, <3>1, LeastNatural
    <3>3. m - 1 \in 0..Len(history) /\ m \in 1..Len(history) /\ history[m].first > seen
      BY <1>0, <3>2
    <3>4. ASSUME NEW i \in 1..Len(history) PROVE history[i].first > seen <=> i > m - 1
      <4>1. CASE i < m
        <5>1. ~(i > m - 1) /\ ~(m <= i)
          BY <3>3, <4>1
        <5>2. i \notin newer
          <6> HIDE DEF newer
          <6> QED
            BY <3>2, <5>1
        <5>3. ~(history[i].first > seen)
          BY <5>2
        <5> QED
          BY <5>1, <5>3
      <4>2. CASE i = m
        BY <3>3, <4>2
      <4>3. CASE i > m
        BY <1>0, <1>1, <3>3, <4>3
      <4> QED
        BY <3>3, <4>1, <4>2, <4>3
    <3> QED
      BY <3>3, <3>4
  <2> QED
    BY <2>1, <2>2
<1> QED
  BY <1>0, <1>2 DEF Seen

LEMMA SameKnown ==
  ASSUME NEW k, NEW k2, NEW h, NEW p, Knows(k, h, p),
         k2.after = k.after, k2.got = k.got, Accounted(k2) = Accounted(k), ~k2.repeated
  PROVE  Knows(k2, h, p)
BY DEF Knows

LEMMA InFront ==
  ASSUME NEW e \in StreamEvent, NEW s \in Seq(StreamEvent)
  PROVE  \E b \in Seq(StreamEvent) :
           /\ b = <<e>> \o s /\ Len(b) = Len(s) + 1 /\ b[1] = e
           /\ \A i \in 1..Len(s) : b[i + 1] = s[i]
<1>1. <<e>> \in Seq(StreamEvent) /\ Len(<<e>>) = 1 /\ <<e>>[1] = e
  OBVIOUS
<1>2. <<e>> \o s \in Seq(StreamEvent) /\ Len(<<e>> \o s) = Len(s) + 1
  BY <1>1
<1>3. (<<e>> \o s)[1] = e
  BY <1>1
<1>4. \A i \in 1..Len(s) : (<<e>> \o s)[i + 1] = s[i]
  BY <1>1
<1> QED
  BY <1>2, <1>3, <1>4

\* What a client that comes back is given: what the room kept after the number it saw,
\* and a gap before it where that is not the next one.
LEMMA BacklogTaken ==
  ASSUME NEW p \in Nat, NEW seen \in Int, -1 <= seen,
         history \in Seq(StreamEvent), HistoryKept(history, p)
  PROVE  \E b \in Seq(StreamEvent) :
           /\ b = Backlog(seen)
           /\ \/ b = <<>> /\ \A i \in 1..Len(history) : history[i].first <= seen
              \/ /\ b # <<>> /\ Covers(b, Len(b), seen + 1, p)
                 /\ \A i \in 1..Len(b) :
                      \/ b[i].kind = "gap" /\ i = 1 /\ Len(b) > 1
                      \/ \E j \in 1..Len(history) : b[i] = history[j] /\ history[j].first > seen
<1>0. /\ Len(history) \in Nat
      /\ \A i \in 1..Len(history) : history[i] \in StreamEvent /\ history[i].first \in Int
      /\ Numbered(history, Len(history))
  <2>1. Numbered(history, Len(history)) /\ Len(history) \in Nat
    BY EventsNumbered
  <2> QED
    BY <2>1 DEF Numbered
<1>1. PICK d \in 0..Len(history) :
        d = Seen(seen) /\ \A i \in 1..Len(history) : history[i].first > seen <=> i > d
  BY SeenFirst
<1>2. PICK newer \in Seq(StreamEvent) :
        /\ newer = SubSeq(history, Seen(seen) + 1, Len(history))
        /\ Len(newer) = Len(history) - d
        /\ \A i \in 1..(Len(history) - d) : newer[i] = history[d + i]
  BY <1>1, EndOfSequence
<1>3. PICK gap : gap = [kind |-> "gap", first |-> seen + 1, last |-> newer[1].first - 1]
  OBVIOUS
<1>4. Backlog(seen) = IF newer # <<>> /\ newer[1].first > seen + 1 THEN <<gap>> \o newer ELSE newer
  BY <1>2, <1>3 DEF Backlog
<1>5. CASE d = Len(history)
  <2>1. newer = <<>>
    BY <1>0, <1>2, <1>5
  <2>2. \A i \in 1..Len(history) : history[i].first <= seen
    <3>1. \A i \in 1..Len(history) : ~(i > d)
      BY <1>0, <1>5
    <3>2. \A i \in 1..Len(history) : ~(history[i].first > seen)
      BY <1>1, <3>1, Zenon
    <3> QED
      BY <1>0, <3>2
  <2>3. Backlog(seen) = newer
    BY <1>4, <2>1, Zenon
  <2> QED
    BY <2>1, <2>2, <2>3
<1>6. CASE d # Len(history)
  <2>0. d < Len(history) /\ Len(newer) \in Nat /\ Len(newer) > 0 /\ d \in Nat
        /\ newer # <<>> /\ 1 \in 1..(Len(history) - d) /\ d + 1 \in 1..Len(history)
    BY <1>0, <1>1, <1>2, <1>6
  <2>1. newer[1] = history[d + 1] /\ newer[1].first > seen /\ newer[1].first \in Int
    <3>1. history[d + 1].first > seen
      <4>1. d + 1 > d
        BY <2>0
      <4> QED
        BY <1>1, <2>0, <4>1
    <3> QED
      BY <1>0, <1>2, <2>0, <3>1
  <2>2. Covers(newer, Len(newer), newer[1].first, p)
    <3>1. PICK a \in 0..p : Covers(history, Len(history), a, p)
      BY DEF HistoryKept
    <3>2. a \in Int /\ p \in Int
      OBVIOUS
    <3>3. Covers(newer, Len(history) - d, history[d + 1].first, p)
      BY <1>0, <1>2, <2>0, <3>1, <3>2, CoversSuffix
    <3> QED
      BY <1>2, <2>1, <3>3
  <2>3. \A i \in 1..Len(newer) :
          \E j \in 1..Len(history) : newer[i] = history[j] /\ history[j].first > seen
    <3> SUFFICES ASSUME NEW i \in 1..Len(newer)
                 PROVE  \E j \in 1..Len(history) :
                          newer[i] = history[j] /\ history[j].first > seen
      OBVIOUS
    <3>1. i \in 1..(Len(history) - d)
      BY <1>2
    <3>2. d + i \in 1..Len(history) /\ d + i > d
      BY <1>0, <3>1
    <3>3. newer[i] = history[d + i]
      BY <1>2, <3>1
    <3>4. history[d + i].first > seen
      BY <1>1, <3>2, Zenon
    <3> QED
      BY <3>2, <3>3, <3>4, Zenon
  <2>4. CASE newer[1].first > seen + 1
    <3>1. gap \in StreamEvent
      BY <1>3, <2>1 DEF StreamEvent
    <3>2. PICK b \in Seq(StreamEvent) :
            /\ b = <<gap>> \o newer /\ Len(b) = Len(newer) + 1 /\ b[1] = gap
            /\ \A i \in 1..Len(newer) : b[i + 1] = newer[i]
      BY <3>1, InFront
    <3>3. b = Backlog(seen)
      BY <1>4, <2>0, <2>4, <3>2
    <3>4. gap.kind = "gap" /\ gap.first = seen + 1 /\ gap.last = newer[1].first - 1
      BY <1>3
    <3>5. Covers(b, Len(b), seen + 1, p)
      <4>1. Numbered(newer, Len(newer))
        BY <2>0, EventsNumbered
      <4>2. seen + 1 \in Int /\ newer[1].first \in Int /\ p \in Int /\ seen + 1 < newer[1].first
        BY <2>1, <2>4
      <4>3. Covers(b, Len(newer) + 1, seen + 1, p)
        BY <2>0, <2>2, <3>2, <3>4, <4>1, <4>2, CoversBefore
      <4> QED
        BY <3>2, <4>3
    <3>6. Len(b) > 1 /\ b # <<>>
      BY <2>0, <3>2
    <3>7. \A i \in 1..Len(b) :
            \/ b[i].kind = "gap" /\ i = 1 /\ Len(b) > 1
            \/ \E j \in 1..Len(history) : b[i] = history[j] /\ history[j].first > seen
      <4> SUFFICES ASSUME NEW i \in 1..Len(b), i # 1
                   PROVE  \E j \in 1..Len(history) : b[i] = history[j] /\ history[j].first > seen
        BY <3>2, <3>4, <3>6
      <4>1. i - 1 \in 1..Len(newer) /\ (i - 1) + 1 = i
        BY <2>0, <3>2
      <4>2. b[i] = newer[i - 1]
        BY <3>2, <4>1
      <4>3. PICK j \in 1..Len(history) : newer[i - 1] = history[j] /\ history[j].first > seen
        BY <2>3, <4>1
      <4> QED
        BY <4>2, <4>3
    <3> QED
      BY <3>3, <3>5, <3>6, <3>7
  <2>5. CASE ~(newer[1].first > seen + 1)
    <3>1. newer = Backlog(seen)
      BY <1>4, <2>5, Zenon
    <3>2. newer[1].first = seen + 1
      BY <2>1, <2>5
    <3> QED
      BY <2>0, <2>2, <2>3, <3>1, <3>2
  <2> QED
    BY <2>4, <2>5
<1> QED
  BY <1>5, <1>6

LEMMA SubscribedKept ==
  ASSUME NEW k \in ClientSet, NEW k2 \in ClientSet, NEW h \in Seq(StreamEvent), NEW p \in Nat,
         NEW done \in BOOLEAN, HistoryKept(h, p), ClientKept(k, h, done, p), k.at = "away",
         k2.at = "backlog", k2.after = k.after, k2.got = k.got, k2.gone = k.gone, ~k2.repeated,
         k2.queue = <<>>, NEW b \in Seq(StreamEvent), k2.backlog = b,
         \/ b = <<>> /\ \A i \in 1..Len(h) : h[i].first <= k.after
         \/ /\ b # <<>> /\ Covers(b, Len(b), k.after + 1, p)
            /\ \A i \in 1..Len(b) :
                 \/ b[i].kind = "gap" /\ i = 1 /\ Len(b) > 1
                 \/ \E j \in 1..Len(h) : b[i] = h[j] /\ h[j].first > k.after
  PROVE  ClientKept(k2, h, done, p)
<1>0. k.after \in Int /\ Accounted(k2) = Accounted(k) /\ Knows(k, h, p) /\ Len(k2.queue) = 0
  <2>1. k.after \in Int
    BY DEF ClientSet
  <2> QED
    BY <2>1 DEF Accounted, ClientKept
<1>1. Knows(k2, h, p)
  BY <1>0, SameKnown
<1>2. /\ \A i \in 1..Len(h) : h[i] \in StreamEvent
      /\ \A f \in StreamEvent : f.first \in Int /\ f.last \in Int
  <2>1. \A i \in 1..Len(h) : h[i] \in StreamEvent
    OBVIOUS
  <2> QED
    BY <2>1 DEF StreamEvent
\* What the room kept after the number seen is news.
<1>3. ASSUME NEW j \in 1..Len(h), h[j].first > k.after PROVE News(k2.got, h[j], h)
  <2>1. h[j].kind # "gap"
    <3>1. h[j].kind \in {"delta", "fact", "terminal"}
      BY DEF HistoryKept
    <3> QED
      BY <3>1
  <2>2. \A x \in k2.got : x < h[j].first
    BY <1>0, <1>3 DEF Knows
  <2>3. ASSUME NEW i \in 1..Len(h) PROVE Apart(h[j], h[i])
    <3>1. \A x, y \in 1..Len(h) : x < y => h[x].last < h[y].first
      BY DEF HistoryKept, Covers
    <3>2. i = j \/ i < j \/ j < i
      OBVIOUS
    <3> QED
      BY <3>1, <3>2 DEF Apart
  <2> QED
    BY <2>1, <2>2, <2>3 DEF News
<1>4. \E n \in 0..p : YetToRead(k2, n, p, 0, h, done, p)
  <2>0. Covers(k2.queue, 0, p, p) /\ p \in Int
    BY CoversOfNone
  <2>1. \A i \in 1..0 : FALSE
    OBVIOUS
  <2>2. CASE b = <<>>
    <3>1. Len(k2.backlog) = 0 /\ Covers(k2.backlog, 0, p, p)
      BY <2>0, <2>2, CoversOfNone
    <3>2. 0..(p - 1) \subseteq Accounted(k2)
      BY <1>0, <2>2 DEF ClientKept
    <3>3. k2.after < p /\ \A i \in 1..Len(k2.backlog) : FALSE
      BY <1>1, <3>1 DEF Knows
    <3>4. YetToRead(k2, p, p, 0, h, done, p)
      BY <1>0, <2>0, <2>1, <3>1, <3>2, <3>3 DEF YetToRead
    <3>5. p \in 0..p
      OBVIOUS
    <3> QED
      BY <3>4, <3>5
  <2>3. CASE b # <<>>
    <3>1. k.after + 1 \in 0..p /\ k2.after < k.after + 1
      BY <1>0 DEF Knows
    <3>2. 0..((k.after + 1) - 1) \subseteq Accounted(k2)
      <4>1. (k.after + 1) - 1 = k.after
        BY <1>0
      <4> QED
        BY <1>0, <4>1 DEF Knows
    <3>3. Covers(k2.backlog, Len(k2.backlog), k.after + 1, p)
      BY <2>3
    <3>4. \A i \in 1..Len(k2.backlog) :
            \/ k2.backlog[i].kind = "gap" /\ i = 1 /\ Len(k2.backlog) > 1
            \/ News(k2.got, k2.backlog[i], h)
      BY <1>3, <2>3
    <3>5. YetToRead(k2, k.after + 1, p, 0, h, done, p)
      BY <1>0, <2>0, <2>1, <3>1, <3>2, <3>3, <3>4 DEF YetToRead
    <3> QED
      BY <3>1, <3>5
  <2> QED
    BY <2>2, <2>3
<1>5. \E n, m \in 0..p : \E l \in 0..Len(k2.queue) :
        l >= Len(k2.queue) - 1 /\ YetToRead(k2, n, m, l, h, done, p)
  <2>1. p \in 0..p /\ 0 \in 0..Len(k2.queue) /\ 0 >= Len(k2.queue) - 1
    BY <1>0
  <2> QED
    BY <1>4, <2>1
<1> QED
  BY <1>1, <1>5 DEF ClientKept

\* One whose backlog is read turns to its queue, or the subscription ends there.
LEMMA TurnedKept ==
  ASSUME NEW k \in ClientSet, NEW k2 \in ClientSet, NEW h \in Seq(StreamEvent), NEW p \in Nat,
         NEW done \in BOOLEAN, ClientKept(k, h, done, p), Listening(k), k.backlog = <<>>,
         k2.after = k.after, k2.got = k.got, k2.gone = k.gone, ~k2.repeated,
         k2.backlog = k.backlog, k2.queue = k.queue,
         \/ k2.at = "live" \/ k2.at = "cut"
         \/ k2.at = "ended" /\ done /\ (k.queue = <<>> \/ k.queue[1] = Over)
  PROVE  ClientKept(k2, h, done, p)
<1>1. Accounted(k2) = Accounted(k) /\ Knows(k, h, p)
  BY DEF Accounted, ClientKept
<1>2. Knows(k2, h, p)
  BY <1>1, SameKnown, Zenon
<1>3. \E n, m \in 0..p : \E l \in 0..Len(k2.queue) :
        l >= Len(k2.queue) - 1 /\ YetToRead(k2, n, m, l, h, done, p)
  <2>1. PICK n, m \in 0..p, l \in 0..Len(k.queue) :
          l >= Len(k.queue) - 1 /\ YetToRead(k, n, m, l, h, done, p)
    BY DEF ClientKept
  <2>2. YetToRead(k2, n, m, l, h, done, p)
    BY <1>1, <2>1 DEF YetToRead
  <2> QED
    BY <2>1, <2>2
<1>4. k2.at = "ended" => done /\ 0..(p - 1) \subseteq Accounted(k2)
  BY <1>1, AllRead
<1>5. k2.at # "away"
  OBVIOUS
<1> QED
  BY <1>2, <1>3, <1>4, <1>5 DEF ClientKept

\* What the room keeps when an event is posted.
LEMMA HistoryGrown ==
  ASSUME NEW p \in Nat, NEW q \in Nat, NEW e \in StreamEvent, history \in Seq(StreamEvent),
         HistoryKept(history, p), e.kind \in {"delta", "fact", "terminal"},
         e.first = p, e.last = q - 1, p < q
  PROVE  \E h \in Seq(StreamEvent) :
           /\ h = Kept(e) /\ HistoryKept(h, q)
           /\ \E i \in 1..Len(h) : h[i] = e
           /\ \A i \in 1..Len(h) : h[i] = e \/ \E j \in 1..Len(history) : h[i] = history[j]
<1>0. History \in Nat /\ History > 0
  BY StreamAssumption
<1>1. PICK n \in Nat : n = Len(history)
  OBVIOUS
<1>11. /\ \A i \in 1..n : i + 1 \in 1..(n + 1)
       /\ \A a \in 0..p, x \in Int, y \in Int : a <= x /\ x <= y /\ y < q => y + 1 \in 0..q
  OBVIOUS
<1>2. PICK all \in Seq(StreamEvent) :
        /\ all = Append(history, e) /\ Len(all) = n + 1 /\ all[n + 1] = e
        /\ \A i \in 1..n : all[i] = history[i]
  <2>1. \A s \in Seq(StreamEvent) : Append(s, e) \in Seq(StreamEvent) /\ Len(Append(s, e)) = Len(s) + 1 /\
          Append(s, e)[Len(s) + 1] = e /\ \A i \in 1..Len(s) : Append(s, e)[i] = s[i]
    OBVIOUS
  <2> QED
    BY <1>1, <2>1
<1>3. PICK a \in 0..p : Covers(history, n, a, p)
  BY <1>1 DEF HistoryKept
<1>4. Numbered(all, n + 1)
  <2>1. n + 1 \in 0..Len(all)
    BY <1>2
  <2> QED
    BY <2>1, EventsNumbered
<1>5. Covers(all, n + 1, a, q)
  <2>1. a \in Int /\ p \in Int /\ p <= all[n + 1].last /\ all[n + 1].first = p
    BY <1>2
  <2>2. Covers(all, n + 1, a, all[n + 1].last + 1)
    BY <1>2, <1>3, <1>4, <2>1, CoversMore
  <2>3. all[n + 1].last + 1 = q
    BY <1>2
  <2> QED
    BY <2>2, <2>3
<1>6. \A i \in 1..(n + 1) : all[i] = e \/ \E j \in 1..n : all[i] = history[j]
  BY <1>2
<1>7. \A i \in 1..(n + 1) : all[i].kind \in {"delta", "fact", "terminal"}
  <2>1. \A j \in 1..n : history[j].kind \in {"delta", "fact", "terminal"}
    BY <1>1 DEF HistoryKept
  <2> QED
    BY <1>6, <2>1
<1>8. Kept(e) = IF Len(all) > History THEN Tail(all) ELSE all
  BY <1>2 DEF Kept
<1>9. CASE ~(Len(all) > History)
  <2>1. all = Kept(e)
    BY <1>8, <1>9, Zenon
  <2>2. HistoryKept(all, q)
    <3>1. Covers(all, Len(all), a, q)
      BY <1>2, <1>5
    <3>2. all # <<>> /\ a \in 0..q
      BY <1>2
    <3>3. \A i \in 1..Len(all) : all[i].kind \in {"delta", "fact", "terminal"}
      BY <1>2, <1>7
    <3> QED
      BY <3>1, <3>2, <3>3 DEF HistoryKept
  <2>3. n + 1 \in 1..Len(all)
    BY <1>2
  <2>4. \A i \in 1..Len(all) : all[i] = e \/ \E j \in 1..Len(history) : all[i] = history[j]
    BY <1>1, <1>2, <1>6
  <2> QED
    BY <1>2, <2>1, <2>2, <2>3, <2>4
<1>10. CASE Len(all) > History
  <2>0. n > 0 /\ all # <<>>
    BY <1>0, <1>2, <1>10
  <2>1. PICK h \in Seq(StreamEvent) :
          h = Tail(all) /\ Len(h) = n /\ \A i \in 1..n : h[i] = all[i + 1]
    <3>1. \A s \in Seq(StreamEvent) : s # <<>> => /\ Tail(s) \in Seq(StreamEvent) /\ Len(Tail(s)) = Len(s) - 1
                                            /\ \A i \in 1..(Len(s) - 1) : Tail(s)[i] = s[i + 1]
      OBVIOUS
    <3>2. Len(all) - 1 = n
      BY <1>2
    <3>3. /\ Tail(all) \in Seq(StreamEvent) /\ Len(Tail(all)) = Len(all) - 1
          /\ \A i \in 1..(Len(all) - 1) : Tail(all)[i] = all[i + 1]
      BY <2>0, <3>1
    <3> QED
      BY <3>2, <3>3
  <2>2. h = Kept(e)
    BY <1>8, <1>10, <2>1, Zenon
  <2>3. Covers(h, n, all[1].last + 1, q)
    <3>1. n + 1 \in Nat /\ n + 1 > 0 /\ a \in Int /\ q \in Int /\ (n + 1) - 1 = n
      OBVIOUS
    <3>2. \A i \in 1..((n + 1) - 1) : h[i] = all[i + 1]
      BY <2>1, <3>1
    <3>3. Covers(h, (n + 1) - 1, all[1].last + 1, q)
      BY <1>4, <1>5, <3>1, <3>2, CoversRest
    <3> QED
      BY <3>1, <3>3
  <2>4. all[1].last + 1 \in 0..q
    <3>1. 1 \in 1..(n + 1) /\ all[1].last \in Int /\ all[1].first \in Int
      BY <1>4 DEF Numbered
    <3>2. a <= all[1].first /\ all[1].first <= all[1].last /\ all[1].last < q
      BY <1>5, <3>1 DEF Covers
    <3> QED
      BY <1>11, <3>1, <3>2
  <2>5. \A i \in 1..n : i + 1 \in 1..(n + 1)
    BY <1>11
  <2>6. HistoryKept(h, q)
    <3>1. h # <<>>
      <4>1. \A s \in Seq(StreamEvent) : s = <<>> => Len(s) = 0
        OBVIOUS
      <4>2. \A i \in Nat : i > 0 => i # 0
        OBVIOUS
      <4> QED
        BY <2>0, <2>1, <4>1, <4>2, Zenon
    <3>2. \A i \in 1..Len(h) : h[i].kind \in {"delta", "fact", "terminal"}
      BY <1>7, <2>1, <2>5
    <3> QED
      BY <2>1, <2>3, <2>4, <3>1, <3>2 DEF HistoryKept
  <2>7. n \in 1..Len(h) /\ h[n] = e
    BY <1>2, <2>0, <2>1
  <2>8. \A i \in 1..Len(h) : h[i] = e \/ \E j \in 1..Len(history) : h[i] = history[j]
    BY <1>1, <1>6, <2>1, <2>5
  <2> QED
    BY <2>2, <2>6, <2>7, <2>8
<1> QED
  BY <1>9, <1>10

LEMMA Posts ==
  ASSUME NEW s \in Seq(StreamEvent), NEW t \in Seq(StreamEvent), Len(t) \in {1, 2}
  PROVE  /\ Len(s \o t) = Len(s) + Len(t) /\ (s \o t)[Len(s) + 1] = t[1]
         /\ Len(t) = 2 => (s \o t)[Len(s) + 2] = t[2]
         /\ \A i \in 1..Len(s) : (s \o t)[i] = s[i]
<1>1. Len(s) \in Nat /\ Len(s \o t) = Len(s) + Len(t)
  OBVIOUS
<1>2. \A i \in 1..(Len(s) + Len(t)) :
        (s \o t)[i] = IF i <= Len(s) THEN s[i] ELSE t[i - Len(s)]
  BY <1>1
<1>3. \A n \in Nat : /\ n + 1 \in 1..(n + 1) /\ n + 1 \in 1..(n + 2) /\ n + 2 \in 1..(n + 2)
                     /\ ~(n + 1 <= n) /\ ~(n + 2 <= n) /\ (n + 1) - n = 1 /\ (n + 2) - n = 2
  OBVIOUS
<1>4. (s \o t)[Len(s) + 1] = t[1] /\ (Len(t) = 2 => (s \o t)[Len(s) + 2] = t[2])
  BY <1>1, <1>2, <1>3
<1>5. \A i \in 1..Len(s) : i \in 1..(Len(s) + Len(t)) /\ i <= Len(s)
  BY <1>1
<1>6. \A i \in 1..Len(s) : (s \o t)[i] = s[i]
  BY <1>2, <1>5
<1> QED
  BY <1>1, <1>4, <1>6

\* An event that is posted reaches every client that listens.
LEMMA HeardKept ==
  ASSUME StreamInv, StreamShape', ~roomDone, NEW e \in StreamEvent, NEW q \in Nat, NEW posted \in Seq(StreamEvent),
         e.kind \in {"delta", "fact", "terminal"}, e.first = Posted, e.last = q - 1, Posted < q,
         history' = Kept(e), client' = Heard(posted), posted[1] = e,
         Len(posted) = 1 \/ (Len(posted) = 2 /\ posted[2] = Over /\ roomDone')
  PROVE  HistoryKept(history', q) /\ \A c \in Clients : ClientKept(client'[c], history', roomDone', q)
<1>0. PICK p \in Nat : p = Posted
  BY DEF StreamInv, StreamKept, RoomKept, StreamShape
<1>4. PICK was \in BOOLEAN : was = roomDone
  BY DEF StreamInv, StreamShape
<1>5. ~was
  BY <1>4
<1>1. /\ history \in Seq(StreamEvent) /\ client \in [Clients -> ClientSet]
      /\ client' \in [Clients -> ClientSet] /\ roomDone' \in BOOLEAN
      /\ HistoryKept(history, p) /\ \A c \in Clients : ClientKept(client[c], history, was, p)
  <2> QED
    BY <1>0, <1>4 DEF StreamInv, StreamShape, StreamKept, RoomKept
<1>2. PICK h \in Seq(StreamEvent) :
        /\ h = Kept(e) /\ HistoryKept(h, q)
        /\ \E i \in 1..Len(h) : h[i] = e
        /\ \A i \in 1..Len(h) : h[i] = e \/ \E j \in 1..Len(history) : h[i] = history[j]
  BY Zenon, <1>0, <1>1, HistoryGrown
<1>3. ASSUME NEW c \in Clients PROVE ClientKept(client'[c], h, roomDone', q)
  <2>1. PICK k \in ClientSet : k = client[c]
    BY <1>1
  <2>2. PICK k2 \in ClientSet : k2 = client'[c]
    BY <1>1
  <2>3. k2 = IF Listening(k) THEN [k EXCEPT !.queue = @ \o posted] ELSE k
    BY <2>1, <2>2 DEF Heard, Listens, Listening
  <2>4. /\ k2.at = k.at /\ k2.after = k.after /\ k2.got = k.got /\ k2.gone = k.gone
        /\ k2.backlog = k.backlog /\ k2.repeated = k.repeated
        /\ Listening(k) => k2.queue = k.queue \o posted
    BY <2>3 DEF ClientSet
  <2>5. ClientKept(k, history, was, p)
    BY <1>1, <2>1
  <2>6. ~k2.repeated
    BY <2>4, <2>5, Zenon DEF ClientKept, Knows
  <2>7. PICK s \in Seq(StreamEvent) : s = k.queue
    BY DEF ClientSet
  <2>8. Listening(k) =>
          /\ \A i \in 1..Len(k.queue) : k2.queue[i] = k.queue[i]
          /\ k2.queue[Len(k.queue) + 1] = e
          /\ \/ Len(k2.queue) = Len(k.queue) + 1
             \/ Len(k2.queue) = Len(k.queue) + 2 /\ roomDone' /\ k2.queue[Len(k.queue) + 2] = Over
    <3>1. /\ Len(s \o posted) = Len(s) + Len(posted) /\ (s \o posted)[Len(s) + 1] = e
          /\ Len(posted) = 2 => (s \o posted)[Len(s) + 2] = posted[2]
          /\ \A i \in 1..Len(s) : (s \o posted)[i] = s[i]
      BY Posts
    <3>2. Listening(k) => k2.queue = s \o posted
      BY <2>4, <2>7
    <3>3. CASE Len(posted) = 1
      BY <2>7, <3>1, <3>2, <3>3
    <3>4. CASE Len(posted) = 2 /\ posted[2] = Over /\ roomDone'
      BY <2>7, <3>1, <3>2, <3>4
    <3> QED
      BY <3>3, <3>4, Zenon
  <2>9. e.first = p /\ p < q
    BY <1>0
  <2>10. PICK done \in BOOLEAN : done = roomDone'
    BY <1>1
  <2>11. Grown(history, h, e) /\ IsPosted(e, p, q)
    <3>1. Grown(history, h, e)
      BY <1>2, Zenon DEF Grown
    <3>2. IsPosted(e, p, q)
      BY <2>9, Zenon DEF IsPosted
    <3> QED
      BY <3>1, <3>2
  <2>12. Queued(k, k2, e, done)
    <3>1. Listening(k) =>
            /\ \A i \in 1..Len(k.queue) : k2.queue[i] = k.queue[i]
            /\ k2.queue[Len(k.queue) + 1] = e
            /\ \/ Len(k2.queue) = Len(k.queue) + 1
               \/ Len(k2.queue) = Len(k.queue) + 2 /\ done /\ k2.queue[Len(k.queue) + 2] = Over
      BY <2>8, <2>10
    <3> QED
      BY <2>4, <2>6, <3>1, Zenon DEF Queued
  <2>13. ClientKept(k2, h, done, q)
    <3>1. HistoryKept(history, p) /\ history \in Seq(StreamEvent)
      BY <1>1
    <3> QED
      BY <1>5, <2>5, <2>11, <2>12, <3>1, PostedKept
  <2> QED
    BY <2>2, <2>10, <2>13
<1> QED
  BY <1>2, <1>3

\* What a client that listens has next is a gap, or news.
IsNext(k, e) == e.kind = "gap" \/ (k.after < e.first /\ \A j \in k.got : j < e.first)

LEMMA MissedIsNext ==
  ASSUME NEW k \in ClientSet, NEW h, NEW p \in Nat, NEW done \in BOOLEAN,
         ClientKept(k, h, done, p), k.at = "backlog", k.backlog # <<>>
  PROVE  k.backlog[1] \in StreamEvent /\ IsNext(k, k.backlog[1])
<1>1. PICK n, m \in 0..p : k.after < n /\ Covers(k.backlog, Len(k.backlog), n, m) /\
        \A i \in 1..Len(k.backlog) :
          \/ k.backlog[i].kind = "gap" /\ i = 1 /\ Len(k.backlog) > 1
          \/ News(k.got, k.backlog[i], h)
  <2>1. PICK n, m \in 0..p, l \in 0..Len(k.queue) : YetToRead(k, n, m, l, h, done, p)
    BY DEF ClientKept, Listening
  <2> QED
    BY <2>1 DEF YetToRead
<1>2. k.backlog \in Seq(StreamEvent) /\ k.after \in Int
  BY DEF ClientSet
<1>3. 1 \in 1..Len(k.backlog) /\ k.backlog[1] \in StreamEvent
  BY <1>2
<1>4. k.backlog[1].kind = "gap" \/ News(k.got, k.backlog[1], h)
  BY <1>1, <1>3
<1>5. n <= k.backlog[1].first
  BY <1>1, <1>3 DEF Covers
<1>6. \A f \in StreamEvent : f.first \in Int
  BY DEF StreamEvent
<1>7. k.after < k.backlog[1].first
  BY <1>1, <1>2, <1>3, <1>5, <1>6
<1> QED
  BY <1>3, <1>4, <1>7 DEF IsNext, News

LEMMA LiveIsNext ==
  ASSUME NEW k \in ClientSet, NEW h, NEW p \in Nat, NEW done \in BOOLEAN,
         ClientKept(k, h, done, p), k.at = "live", k.queue # <<>>, k.queue[1] # Over
  PROVE  k.queue[1] \in StreamEvent /\ IsNext(k, k.queue[1])
<1>1. PICK n, m \in 0..p, l \in 0..Len(k.queue) :
        l >= Len(k.queue) - 1 /\ YetToRead(k, n, m, l, h, done, p)
  BY DEF ClientKept, Listening
<1>2. k.queue \in Seq(StreamEvent) /\ k.after \in Int /\ Len(k.queue) \in Nat /\ Len(k.queue) > 0
  <2>1. k.queue \in Seq(StreamEvent) /\ k.after \in Int
    BY DEF ClientSet
  <2> QED
    BY <2>1
<1>3. 1 \in 1..Len(k.queue) /\ k.queue[1] \in StreamEvent
  BY <1>2
<1>4. 1 \in 1..l
  <2> SUFFICES ASSUME l = 0 PROVE FALSE
    BY <1>1
  <2>1. Len(k.queue) = 1 /\ l < Len(k.queue)
    <3>1. \A a \in Nat : a > 0 /\ 0 >= a - 1 => a = 1 /\ 0 < a
      OBVIOUS
    <3>2. 0 >= Len(k.queue) - 1
      BY <1>1
    <3> QED
      BY <1>2, <3>1, <3>2, Zenon
  <2>2. k.queue[Len(k.queue)] = Over
    BY <1>1, <2>1 DEF YetToRead
  <2> QED
    BY <2>1, <2>2
<1>5. News(k.got, k.queue[1], h) /\ m <= k.queue[1].first /\ k.after < n /\ n <= m
  BY <1>1, <1>4 DEF YetToRead, Covers
<1>6. \A f \in StreamEvent : f.first \in Int
  BY DEF StreamEvent
<1>7. k.after < k.queue[1].first
  BY <1>1, <1>2, <1>3, <1>5, <1>6
<1> QED
  BY <1>3, <1>5, <1>7 DEF IsNext, News

\* A client receives what is next without taking it for a repetition.
LEMMA Receiving ==
  ASSUME NEW k \in ClientSet, ~k.repeated, NEW e \in StreamEvent, IsNext(k, e)
  PROVE  \E r \in ClientSet :
           /\ r = Receives(k, e) /\ ~r.repeated /\ Tells(k, r, e)
           /\ r.at = k.at /\ r.backlog = k.backlog /\ r.queue = k.queue
<1>1. e.first \in Int /\ e.last \in Int /\ k.got \in SUBSET Int /\ k.gone \in SUBSET Int
  BY DEF StreamEvent, ClientSet
<1>2. (e.first..e.last) \in SUBSET Int
  BY <1>1
<1>3. CASE e.kind = "gap"
  <2>1. PICK r : r = [k EXCEPT !.after = e.first, !.gone = k.gone \cup (e.first..e.last)]
    OBVIOUS
  <2>2. r = Receives(k, e)
    BY Zenon, <1>3, <2>1, ReceivedGap
  <2>3. r \in ClientSet
    <3>1. \A g \in SUBSET Int : [k EXCEPT !.after = e.first, !.gone = g] \in ClientSet
      BY <1>1 DEF ClientSet
    <3>2. k.gone \cup (e.first..e.last) \in SUBSET Int
      BY <1>1, <1>2
    <3> QED
      BY Zenon, <2>1, <3>1, <3>2
  <2>4. /\ r.after = e.first /\ r.gone = k.gone \cup (e.first..e.last) /\ r.got = k.got
        /\ r.at = k.at /\ r.backlog = k.backlog /\ r.queue = k.queue
    BY <2>1 DEF ClientSet
  <2>5. r.repeated = k.repeated
    BY <2>1 DEF ClientSet
  <2>6. ~r.repeated
    BY <2>5, Zenon
  <2>7. Tells(k, r, e)
    BY <1>3, <2>4 DEF Tells
  <2> QED
    BY <2>2, <2>3, <2>4, <2>6, <2>7
<1>4. CASE e.kind # "gap"
  <2>1. PICK r : r = [k EXCEPT !.after = e.first, !.got = k.got \cup (e.first..e.last)]
    OBVIOUS
  <2>2. r = Receives(k, e)
    <3>1. k.after < e.first /\ \A j \in k.got : j < e.first
      BY <1>4 DEF IsNext
    <3> QED
      BY Zenon, <1>4, <2>1, <3>1, ReceivedNews
  <2>3. r \in ClientSet
    <3>1. \A g \in SUBSET Int : [k EXCEPT !.after = e.first, !.got = g] \in ClientSet
      BY <1>1 DEF ClientSet
    <3>2. k.got \cup (e.first..e.last) \in SUBSET Int
      BY <1>1, <1>2
    <3> QED
      BY Zenon, <2>1, <3>1, <3>2
  <2>4. /\ r.after = e.first /\ r.got = k.got \cup (e.first..e.last) /\ r.gone = k.gone
        /\ r.at = k.at /\ r.backlog = k.backlog /\ r.queue = k.queue
    BY <2>1 DEF ClientSet
  <2>5. r.repeated = k.repeated
    BY <2>1 DEF ClientSet
  <2>6. ~r.repeated
    BY <2>5, Zenon
  <2>7. Tells(k, r, e)
    BY <1>4, <2>4 DEF Tells
  <2> QED
    BY <2>2, <2>3, <2>4, <2>6, <2>7
<1> QED
  BY <1>3, <1>4

-----------------------------------------------------------------------------

\* A step of one client leaves the room and the other clients as they are.
LEMMA OneClientKept ==
  ASSUME StreamInv, StreamShape', UNCHANGED <<emitted, closed, sink, history, roomDone>>,
         NEW c \in Clients, \A d \in Clients : d # c => client'[d] = client[d],
         ClientKept(client'[c], history, roomDone, Posted)
  PROVE  StreamKept'
<1>1. Posted' = Posted /\ history' = history /\ roomDone' = roomDone /\ emitted' = emitted
      /\ closed' = closed /\ sink' = sink
  BY DEF Posted
<1>2. RoomKept'
  BY <1>1 DEF StreamInv, StreamKept, RoomKept
<1>3. \A d \in Clients : ClientKept(client'[d], history', roomDone', Posted')
  BY <1>1 DEF StreamInv, StreamKept
<1> QED
  BY <1>2, <1>3 DEF StreamKept

\* What is known of a client.
LEMMA OfClient ==
  ASSUME StreamInv, NEW c \in Clients
  PROVE  \E k \in ClientSet, p \in Nat, done \in BOOLEAN :
           /\ k = client[c] /\ p = Posted /\ done = roomDone
           /\ history \in Seq(StreamEvent) /\ HistoryKept(history, p)
           /\ ClientKept(k, history, done, p) /\ ~k.repeated /\ k.after \in Int /\ -1 <= k.after
<1>1. client[c] \in ClientSet /\ roomDone \in BOOLEAN /\ history \in Seq(StreamEvent)
  BY DEF StreamInv, StreamShape
<1>2. Posted \in Nat /\ HistoryKept(history, Posted)
      /\ ClientKept(client[c], history, roomDone, Posted)
  BY DEF StreamInv, StreamKept, RoomKept, StreamShape
<1>3. ~client[c].repeated /\ -1 <= client[c].after
  BY <1>2 DEF ClientKept, Knows
<1>4. client[c].after \in Int
  BY <1>1 DEF ClientSet
<1> QED
  BY <1>1, <1>2, <1>3, <1>4

LEMMA Retold ==
  ASSUME NEW k \in ClientSet
  PROVE  /\ \A a \in ClientStages, q, b \in Seq(StreamEvent) :
              [k EXCEPT !.at = a, !.queue = q, !.backlog = b] \in ClientSet
         /\ \A a \in ClientStages : [k EXCEPT !.at = a] \in ClientSet
         /\ \A b \in Seq(StreamEvent) : [k EXCEPT !.backlog = b] \in ClientSet
         /\ \A q \in Seq(StreamEvent) : [k EXCEPT !.queue = q] \in ClientSet
BY Zenon DEF ClientSet

\* What each step makes of a client.
LEMMA SubscribeMakes ==
  ASSUME StreamInv, NEW c \in Clients, Subscribe(c)
  PROVE  \E v \in ClientSet : client' = [client EXCEPT ![c] = v]
                              /\ ClientKept(v, history, roomDone, Posted)
<1>1. PICK k \in ClientSet, p \in Nat, done \in BOOLEAN :
        /\ k = client[c] /\ p = Posted /\ done = roomDone
        /\ history \in Seq(StreamEvent) /\ HistoryKept(history, p)
        /\ ClientKept(k, history, done, p) /\ ~k.repeated /\ k.after \in Int /\ -1 <= k.after
  BY OfClient
<1>2. PICK b \in Seq(StreamEvent) :
        /\ b = Backlog(k.after)
        /\ \/ b = <<>> /\ \A i \in 1..Len(history) : history[i].first <= k.after
           \/ /\ b # <<>> /\ Covers(b, Len(b), k.after + 1, p)
              /\ \A i \in 1..Len(b) :
                   \/ b[i].kind = "gap" /\ i = 1 /\ Len(b) > 1
                   \/ \E j \in 1..Len(history) : b[i] = history[j] /\ history[j].first > k.after
  BY <1>1, BacklogTaken
<1>3. PICK v : v = [k EXCEPT !.at = "backlog", !.queue = <<>>, !.backlog = b]
  OBVIOUS
<1>4. v \in ClientSet
  <2>1. "backlog" \in ClientStages /\ <<>> \in Seq(StreamEvent)
    BY DEF ClientStages
  <2> QED
    BY Zenon, <1>3, <2>1, Retold
<1>5. /\ v.at = "backlog" /\ v.queue = <<>> /\ v.backlog = b /\ v.after = k.after
      /\ v.got = k.got /\ v.gone = k.gone /\ v.repeated = k.repeated
  BY <1>3 DEF ClientSet
<1>6. ~v.repeated
  BY <1>1, <1>5, Zenon
<1>7. k.at = "away"
  BY <1>1 DEF Subscribe
<1>8. ClientKept(v, history, done, p)
  BY <1>1, <1>2, <1>4, <1>5, <1>6, <1>7, SubscribedKept
<1>9. client' = [client EXCEPT ![c] = v]
  <2>1. client \in [Clients -> ClientSet]
    BY DEF StreamInv, StreamShape
  <2>2. client' = [client EXCEPT ![c].at = "backlog", ![c].queue = <<>>, ![c].backlog = b]
    BY <1>1, <1>2 DEF Subscribe
  <2> QED
    BY <1>1, <1>3, <2>1, <2>2
<1> QED
  BY <1>1, <1>4, <1>8, <1>9

LEMMA ReadMissedMakes ==
  ASSUME StreamInv, NEW c \in Clients, ReadMissed(c)
  PROVE  \E v \in ClientSet : client' = [client EXCEPT ![c] = v]
                              /\ ClientKept(v, history, roomDone, Posted)
<1>1. PICK k \in ClientSet, p \in Nat, done \in BOOLEAN :
        /\ k = client[c] /\ p = Posted /\ done = roomDone
        /\ history \in Seq(StreamEvent) /\ HistoryKept(history, p)
        /\ ClientKept(k, history, done, p) /\ ~k.repeated /\ k.after \in Int /\ -1 <= k.after
  BY OfClient
<1>2. k.at = "backlog" /\ k.backlog # <<>> /\ k.backlog \in Seq(StreamEvent)
  BY <1>1 DEF ReadMissed, ClientSet
<1>3. PICK e \in StreamEvent : e = k.backlog[1] /\ e = Head(k.backlog) /\ IsNext(k, e)
  BY <1>1, <1>2, MissedIsNext
<1>4. PICK r \in ClientSet :
        /\ r = Receives(k, e) /\ ~r.repeated /\ Tells(k, r, e)
        /\ r.at = k.at /\ r.backlog = k.backlog /\ r.queue = k.queue
  BY <1>1, <1>3, Receiving
<1>5. PICK v : v = [r EXCEPT !.backlog = Tail(k.backlog)]
  OBVIOUS
<1>6. v \in ClientSet
  <2>1. Tail(k.backlog) \in Seq(StreamEvent)
    BY <1>2
  <2> QED
    BY Zenon, <1>5, <2>1, Retold
<1>7. /\ v.at = k.at /\ v.queue = k.queue /\ v.backlog = Tail(k.backlog) /\ v.after = r.after
      /\ v.got = r.got /\ v.gone = r.gone /\ v.repeated = r.repeated
  BY <1>4, <1>5 DEF ClientSet
<1>8. ~v.repeated
  BY <1>4, <1>7, Zenon
<1>9. Tells(k, v, k.backlog[1])
  BY <1>3, <1>4, <1>7 DEF Tells
<1>10. ClientKept(v, history, done, p)
  BY <1>1, <1>2, <1>6, <1>7, <1>8, <1>9, MissedRead
<1>11. client' = [client EXCEPT ![c] = v]
  <2>1. client' = [client EXCEPT ![c] = [r EXCEPT !.backlog = Tail(r.backlog)]]
    BY <1>1, <1>3, <1>4, Zenon DEF ReadMissed
  <2> QED
    BY <1>4, <1>5, <2>1, Zenon
<1> QED
  BY <1>1, <1>6, <1>10, <1>11

LEMMA TurnLiveMakes ==
  ASSUME StreamInv, NEW c \in Clients, TurnLive(c)
  PROVE  \E v \in ClientSet : client' = [client EXCEPT ![c] = v]
                              /\ ClientKept(v, history, roomDone, Posted)
<1>1. PICK k \in ClientSet, p \in Nat, done \in BOOLEAN :
        /\ k = client[c] /\ p = Posted /\ done = roomDone
        /\ history \in Seq(StreamEvent) /\ HistoryKept(history, p)
        /\ ClientKept(k, history, done, p) /\ ~k.repeated /\ k.after \in Int /\ -1 <= k.after
  BY OfClient
<1>2. k.at = "backlog" /\ k.backlog = <<>> /\ Listening(k)
  BY <1>1 DEF TurnLive, Listening
<1>3. PICK a \in ClientStages :
        /\ a = IF ~roomDone THEN "live" ELSE IF client[c].queue = <<>> THEN "ended" ELSE "cut"
        /\ \/ a = "live" \/ a = "cut"
           \/ a = "ended" /\ done /\ k.queue = <<>>
  BY <1>1 DEF ClientStages
<1>4. PICK v : v = [k EXCEPT !.at = a]
  OBVIOUS
<1>5. v \in ClientSet
  BY Zenon, <1>4, Retold
<1>6. /\ v.at = a /\ v.queue = k.queue /\ v.backlog = k.backlog /\ v.after = k.after
      /\ v.got = k.got /\ v.gone = k.gone /\ v.repeated = k.repeated
  BY <1>4 DEF ClientSet
<1>7. ~v.repeated
  BY <1>1, <1>6, Zenon
<1>8. \/ v.at = "live" \/ v.at = "cut"
      \/ v.at = "ended" /\ done /\ (k.queue = <<>> \/ k.queue[1] = Over)
  BY <1>3, <1>6
<1>9. ClientKept(v, history, done, p)
  BY <1>1, <1>2, <1>5, <1>6, <1>7, <1>8, TurnedKept
<1>10. client' = [client EXCEPT ![c] = v]
  <2>1. client \in [Clients -> ClientSet]
    BY DEF StreamInv, StreamShape
  <2>2. client' = [client EXCEPT ![c].at = a]
    BY <1>1, <1>3, Zenon DEF TurnLive
  <2> QED
    BY <1>1, <1>4, <2>1, <2>2
<1> QED
  BY <1>1, <1>5, <1>9, <1>10

LEMMA ReadLiveMakes ==
  ASSUME StreamInv, NEW c \in Clients, ReadLive(c)
  PROVE  \E v \in ClientSet : client' = [client EXCEPT ![c] = v]
                              /\ ClientKept(v, history, roomDone, Posted)
<1>1. PICK k \in ClientSet, p \in Nat, done \in BOOLEAN :
        /\ k = client[c] /\ p = Posted /\ done = roomDone
        /\ history \in Seq(StreamEvent) /\ HistoryKept(history, p)
        /\ ClientKept(k, history, done, p) /\ ~k.repeated /\ k.after \in Int /\ -1 <= k.after
  BY OfClient
<1>2. /\ k.at = "live" /\ k.queue # <<>> /\ k.queue \in Seq(StreamEvent) /\ k.backlog = <<>>
      /\ Listening(k) /\ Head(k.queue) = k.queue[1]
  <2>1. k.at = "live" /\ k.queue # <<>> /\ k.queue \in Seq(StreamEvent)
    BY <1>1 DEF ReadLive, ClientSet
  <2>2. k.backlog = <<>> /\ Listening(k)
    BY <1>1, <2>1 DEF ClientKept, Listening
  <2>3. Head(k.queue) = k.queue[1]
    BY <2>1
  <2> QED
    BY <2>1, <2>2, <2>3
<1>3. CASE k.queue[1] = Over
  <2>1. PICK v : v = [k EXCEPT !.at = "ended"]
    OBVIOUS
  <2>2. v \in ClientSet
    <3>1. "ended" \in ClientStages
      BY DEF ClientStages
    <3> QED
      BY Zenon, <2>1, <3>1, Retold
  <2>3. /\ v.at = "ended" /\ v.queue = k.queue /\ v.backlog = k.backlog /\ v.after = k.after
        /\ v.got = k.got /\ v.gone = k.gone /\ v.repeated = k.repeated
    BY <2>1 DEF ClientSet
  <2>4. ~v.repeated
    BY <1>1, <2>3, Zenon
  <2>5. done
    BY <1>1, <1>2, <1>3, AllRead
  <2>6. ClientKept(v, history, done, p)
    BY <1>1, <1>2, <1>3, <2>2, <2>3, <2>4, <2>5, TurnedKept
  <2>7. client' = [client EXCEPT ![c] = v]
    BY <1>1, <1>2, <1>3, <2>1, Zenon DEF ReadLive
  <2> QED
    BY <1>1, <2>2, <2>6, <2>7
<1>4. CASE k.queue[1] # Over
  <2>1. PICK e \in StreamEvent : e = k.queue[1] /\ IsNext(k, e)
    BY <1>1, <1>2, <1>4, LiveIsNext
  <2>2. PICK r \in ClientSet :
          /\ r = Receives(k, e) /\ ~r.repeated /\ Tells(k, r, e)
          /\ r.at = k.at /\ r.backlog = k.backlog /\ r.queue = k.queue
    BY <1>1, <2>1, Receiving
  <2>3. PICK v : v = [r EXCEPT !.queue = Tail(k.queue)]
    OBVIOUS
  <2>4. v \in ClientSet
    <3>1. Tail(k.queue) \in Seq(StreamEvent)
      BY <1>2
    <3> QED
      BY Zenon, <2>3, <3>1, Retold
  <2>5. /\ v.at = k.at /\ v.backlog = k.backlog /\ v.queue = Tail(k.queue) /\ v.after = r.after
        /\ v.got = r.got /\ v.gone = r.gone /\ v.repeated = r.repeated
    BY <2>2, <2>3 DEF ClientSet
  <2>6. ~v.repeated
    BY <2>2, <2>5, Zenon
  <2>7. Tells(k, v, k.queue[1])
    BY <2>1, <2>2, <2>5 DEF Tells
  <2>8. ClientKept(v, history, done, p)
    BY <1>1, <1>2, <1>4, <2>4, <2>5, <2>6, <2>7, LiveRead
  <2>9. client' = [client EXCEPT ![c] = v]
    <3>1. client' = [client EXCEPT ![c] = [r EXCEPT !.queue = Tail(r.queue)]]
      BY <1>1, <1>2, <1>4, <2>1, <2>2, Zenon DEF ReadLive
    <3> QED
      BY <2>2, <2>3, <3>1, Zenon
  <2> QED
    BY <1>1, <2>4, <2>8, <2>9
<1> QED
  BY <1>3, <1>4

LEMMA DisconnectMakes ==
  ASSUME StreamInv, NEW c \in Clients, Disconnect(c)
  PROVE  \E v \in ClientSet : client' = [client EXCEPT ![c] = v]
                              /\ ClientKept(v, history, roomDone, Posted)
<1>1. PICK k \in ClientSet, p \in Nat, done \in BOOLEAN :
        /\ k = client[c] /\ p = Posted /\ done = roomDone
        /\ history \in Seq(StreamEvent) /\ HistoryKept(history, p)
        /\ ClientKept(k, history, done, p) /\ ~k.repeated /\ k.after \in Int /\ -1 <= k.after
  BY OfClient
<1>2. Listening(k)
  BY <1>1 DEF Disconnect, Listening
<1>3. PICK v : v = [k EXCEPT !.at = "away", !.queue = <<>>, !.backlog = <<>>]
  OBVIOUS
<1>4. v \in ClientSet
  <2>1. "away" \in ClientStages /\ <<>> \in Seq(StreamEvent)
    BY DEF ClientStages
  <2> QED
    BY Zenon, <1>3, <2>1, Retold
<1>5. /\ v.at = "away" /\ v.after = k.after
      /\ v.got = k.got /\ v.gone = k.gone /\ v.repeated = k.repeated
  BY <1>3 DEF ClientSet
<1>6. ~v.repeated
  BY <1>1, <1>5, Zenon
<1>7. ClientKept(v, history, done, p)
  BY <1>1, <1>2, <1>4, <1>5, <1>6, LeftKept
<1>8. client' = [client EXCEPT ![c] = v]
  <2>1. client \in [Clients -> ClientSet]
    BY DEF StreamInv, StreamShape
  <2>2. client' = [client EXCEPT ![c].at = "away", ![c].queue = <<>>, ![c].backlog = <<>>]
    BY DEF Disconnect
  <2> QED
    BY <1>1, <1>3, <2>1, <2>2
<1> QED
  BY <1>1, <1>4, <1>7, <1>8

LEMMA ClientStepsKeep ==
  ASSUME StreamInv, NEW c \in Clients,
         Subscribe(c) \/ ReadMissed(c) \/ TurnLive(c) \/ ReadLive(c) \/ Disconnect(c)
  PROVE  StreamInv'
<1>1. UNCHANGED <<emitted, closed, sink, history, roomDone>>
  BY DEF Subscribe, ReadMissed, TurnLive, ReadLive, Disconnect
<1>2. PICK v \in ClientSet : client' = [client EXCEPT ![c] = v]
                             /\ ClientKept(v, history, roomDone, Posted)
  BY SubscribeMakes, ReadMissedMakes, TurnLiveMakes, ReadLiveMakes, DisconnectMakes
<1>3. client \in [Clients -> ClientSet]
  BY DEF StreamInv, StreamShape
<1>4. client'[c] = v /\ (\A d \in Clients : d # c => client'[d] = client[d])
      /\ client' \in [Clients -> ClientSet]
  BY <1>2, <1>3
<1>5. StreamShape'
  BY <1>1, <1>4 DEF StreamInv, StreamShape
<1>6. ClientKept(client'[c], history, roomDone, Posted)
  BY <1>2, <1>4
<1>7. StreamKept'
  BY <1>1, <1>4, <1>5, <1>6, OneClientKept
<1> QED
  BY <1>5, <1>7 DEF StreamInv

LEMMA EventEmitted ==
  ASSUME NEW kind \in {"delta", "fact"}, NEW x \in Int
  PROVE  \E f \in StreamEvent : f = [kind |-> kind, first |-> x, last |-> x]
                           /\ f.first = x /\ f.last = x /\ f.kind = kind
<1>1. PICK f : f = [kind |-> kind, first |-> x, last |-> x]
  OBVIOUS
<1>2. f \in StreamEvent /\ f.first = x /\ f.last = x /\ f.kind = kind
  BY <1>1 DEF StreamEvent
<1> QED
  BY <1>1, <1>2

LEMMA EventGrown ==
  ASSUME NEW g \in StreamEvent, NEW x \in Int
  PROVE  \E f \in StreamEvent : f = [g EXCEPT !.last = x]
                           /\ f.first = g.first /\ f.last = x /\ f.kind = g.kind
<1>1. PICK f : f = [g EXCEPT !.last = x]
  OBVIOUS
<1>2. f \in StreamEvent /\ f.first = g.first /\ f.last = x /\ f.kind = g.kind
  BY <1>1 DEF StreamEvent
<1> QED
  BY <1>1, <1>2

\* Emitting leaves what was posted as it is.
LEMMA EmitKeeps ==
  ASSUME StreamInv, NEW kind \in Kinds, Emit(kind)
  PROVE  StreamInv'
<1>1. /\ emitted' = emitted + 1 /\ emitted \in Nat /\ emitted < MaxEvents /\ ~closed
      /\ UNCHANGED <<closed, history, roomDone, client>> /\ sink \in Seq(StreamEvent)
      /\ MaxEvents \in Nat /\ HighWater \in Nat /\ HighWater > 0
  BY StreamAssumption DEF Emit, StreamInv, StreamShape
<1>2. PICK n \in Nat : n = Len(sink)
  BY <1>1
<1>3. PICK p \in Nat : p = Posted
  BY DEF StreamInv, StreamKept, RoomKept, StreamShape
<1>4. p \in 0..emitted /\ Covers(sink, n, p, emitted) /\ ~roomDone
      /\ \A i \in 1..n : sink[i].kind \in {"delta", "fact"}
  BY <1>1, <1>2, <1>3 DEF StreamInv, StreamKept, RoomKept
<1>5. Numbered(sink, n)
  <2>1. n \in 0..Len(sink)
    BY <1>2
  <2> QED
    BY <1>1, <2>1, EventsNumbered
\* The sink after it, and the first number that was not posted.
<1>6. PICK m \in Nat : /\ sink' \in Seq(StreamEvent) /\ Len(sink') = m /\ m > 0
                       /\ Covers(sink', m, p, emitted + 1) /\ sink'[1].first = p
                       /\ \A i \in 1..m : sink'[i].kind \in {"delta", "fact"}
  <2>1. CASE Merges(kind)
    <3>1. n > 0
      BY <1>1, <1>2, <2>1 DEF Merges
    <3>2. PICK f \in StreamEvent : f = [sink[n] EXCEPT !.last = emitted] /\ f.first = sink[n].first
                             /\ f.last = emitted /\ f.kind = sink[n].kind
      <4>1. sink[n] \in StreamEvent
        BY <1>1, <1>2, <3>1
      <4>2. emitted \in Int
        BY <1>1
      <4> QED
        BY <4>1, <4>2, EventGrown
    <3>3. sink' = [sink EXCEPT ![n] = f]
      <4>1. sink' = [sink EXCEPT ![n].last = emitted]
        BY <1>2, <2>1 DEF Emit
      <4> QED
        BY <1>1, <1>2, <3>1, <3>2, <4>1
    <3>4. sink' \in Seq(StreamEvent) /\ Len(sink') = n /\ sink'[n] = f
          /\ \A i \in 1..n : i # n => sink'[i] = sink[i]
      BY <1>1, <1>2, <3>1, <3>3
    <3>5. \A i \in 1..(n - 1) : i \in 1..n /\ i # n
      OBVIOUS
    <3>6. Covers(sink', n, p, emitted + 1)
      <4>1. p \in Int /\ emitted \in Int
        BY <1>1
      <4>2. sink'[n].first = sink[n].first /\ sink'[n].last = emitted
        BY <3>2, <3>4
      <4> QED
        BY <1>4, <1>5, <3>1, <3>4, <3>5, <4>1, <4>2, CoversGrown
    <3>7. sink'[1].first = p
      <4>1. sink[1].first = p
        <5>1. p \in Int /\ emitted \in Int
          BY <1>1
        <5> QED
          BY <1>4, <1>5, <3>1, <5>1, CoversFirst
      <4>2. 1 \in 1..n
        BY <3>1
      <4> QED
        BY <3>2, <3>4, <4>1, <4>2
    <3>8. \A i \in 1..n : sink'[i].kind \in {"delta", "fact"}
      <4>1. n \in 1..n
        BY <3>1
      <4> QED
        BY <1>4, <3>2, <3>4, <4>1
    <3> QED
      BY <3>1, <3>4, <3>6, <3>7, <3>8
  <2>2. CASE ~Merges(kind)
    <3>1. kind \in {"delta", "fact"}
      BY StreamAssumption
    <3>2. PICK f \in StreamEvent : f = [kind |-> kind, first |-> emitted, last |-> emitted]
                             /\ f.first = emitted /\ f.last = emitted /\ f.kind = kind
      <4>1. emitted \in Int
        BY <1>1
      <4> QED
        BY <3>1, <4>1, EventEmitted
    <3>3. sink' = Append(sink, f)
      BY <2>2, <3>2 DEF Emit
    <3>4. sink' \in Seq(StreamEvent) /\ Len(sink') = n + 1 /\ sink'[n + 1] = f
          /\ \A i \in 1..n : sink'[i] = sink[i]
      <4>1. \A s \in Seq(StreamEvent) : Append(s, f) \in Seq(StreamEvent) /\ Len(Append(s, f)) = Len(s) + 1 /\
              Append(s, f)[Len(s) + 1] = f /\ \A i \in 1..Len(s) : Append(s, f)[i] = s[i]
        OBVIOUS
      <4> QED
        BY <1>1, <1>2, <3>3, <4>1
    <3>5. Covers(sink', n + 1, p, emitted + 1)
      <4>1. p \in Int /\ emitted \in Int
        BY <1>1
      <4>2. Numbered(sink', n + 1)
        <5>1. n + 1 \in 0..Len(sink')
          BY <3>4
        <5> QED
          BY <3>4, <5>1, EventsNumbered
      <4>3. sink'[n + 1].first = emitted /\ emitted <= sink'[n + 1].last
            /\ sink'[n + 1].last = emitted
        BY <1>1, <3>2, <3>4
      <4>4. Covers(sink', n + 1, p, sink'[n + 1].last + 1)
        BY <1>4, <3>4, <4>1, <4>2, <4>3, CoversMore
      <4> QED
        BY <4>3, <4>4
    <3>6. sink'[1].first = p
      <4>1. CASE n = 0
        <5>1. p = emitted
          <6>1. Covers(sink, 0, p, emitted) /\ p \in Int /\ emitted \in Int
            BY <1>1, <1>4, <4>1
          <6> QED
            BY <6>1, CoversOfNone
        <5> QED
          BY <3>2, <3>4, <4>1, <5>1
      <4>2. CASE n # 0
        <5>1. p \in Int /\ emitted \in Int /\ n > 0 /\ 1 \in 1..n
          BY <1>1, <4>2
        <5>2. sink[1].first = p
          BY <1>4, <1>5, <5>1, CoversFirst
        <5> QED
          BY <3>4, <5>1, <5>2
      <4> QED
        BY <4>1, <4>2
    <3>7. \A i \in 1..(n + 1) : sink'[i].kind \in {"delta", "fact"}
      BY <1>4, <3>1, <3>2, <3>4
    <3>8. n + 1 > 0
      OBVIOUS
    <3> QED
      BY <3>4, <3>5, <3>6, <3>7, <3>8
  <2> QED
    BY <2>1, <2>2
<1>7. sink' # <<>>
  <2>1. \A s \in Seq(StreamEvent) : s = <<>> => Len(s) = 0
    OBVIOUS
  <2>2. \A i \in Nat : i > 0 => i # 0
    OBVIOUS
  <2> QED
    BY <1>6, <2>1, <2>2, Zenon
<1>8. Posted' = p
  BY <1>6, <1>7 DEF Posted
<1>9. RoomKept'
  <2>1. HistoryKept(history, p)
    BY <1>3 DEF StreamInv, StreamKept, RoomKept
  <2>2. emitted' <= MaxEvents + 1 /\ (~roomDone' => emitted' <= MaxEvents)
        /\ (roomDone' => closed' /\ sink' = <<>>)
    BY <1>1, <1>4
  <2>3. Posted' \in 0..(emitted') /\ Covers(sink', Len(sink'), Posted', emitted')
    BY <1>1, <1>4, <1>6, <1>8
  <2>4. \A i \in 1..Len(sink') : sink'[i].kind \in {"delta", "fact"}
    BY <1>6
  <2>5. HistoryKept(history', Posted')
    BY <1>1, <1>8, <2>1
  <2> QED
    BY <2>2, <2>3, <2>4, <2>5 DEF RoomKept
<1>10. \A c \in Clients : ClientKept(client'[c], history', roomDone', Posted')
  <2>1. \A c \in Clients : ClientKept(client[c], history, roomDone, p)
    BY <1>3 DEF StreamInv, StreamKept
  <2> QED
    BY <1>1, <1>8, <2>1
<1>11. StreamShape'
  BY <1>1, <1>6 DEF StreamInv, StreamShape
<1> QED
  BY <1>9, <1>10, <1>11 DEF StreamInv, StreamKept

LEMMA RunEndsKeeps ==
  ASSUME StreamInv, RunEnds
  PROVE  StreamInv'
<1>1. closed' = TRUE /\ UNCHANGED <<emitted, sink, history, roomDone, client>>
  BY DEF RunEnds
<1>2. Posted' = Posted
  BY <1>1 DEF Posted
<1>3. RoomKept'
  BY <1>1, <1>2 DEF StreamInv, StreamKept, RoomKept
<1>4. \A c \in Clients : ClientKept(client'[c], history', roomDone', Posted')
  BY <1>1, <1>2 DEF StreamInv, StreamKept
<1>5. StreamShape'
  BY <1>1 DEF StreamInv, StreamShape
<1> QED
  BY <1>3, <1>4, <1>5 DEF StreamInv, StreamKept

\* Posting keeps the shape of the clients.
LEMMA HeardShape ==
  ASSUME client \in [Clients -> ClientSet], NEW posted \in Seq(StreamEvent)
  PROVE  Heard(posted) \in [Clients -> ClientSet]
<1>1. ASSUME NEW c \in Clients
      PROVE  (IF Listens(c) THEN [client[c] EXCEPT !.queue = @ \o posted] ELSE client[c]) \in ClientSet
  <2>1. PICK k \in ClientSet : k = client[c]
    OBVIOUS
  <2>2. k.queue \in Seq(StreamEvent)
    BY DEF ClientSet
  <2>3. k.queue \o posted \in Seq(StreamEvent)
    BY <2>2
  <2>4. [k EXCEPT !.queue = k.queue \o posted] \in ClientSet
    BY Zenon, <2>3, Retold
  <2> QED
    BY <2>1, <2>4
<1> QED
  BY <1>1 DEF Heard

LEMMA KeptShape ==
  ASSUME history \in Seq(StreamEvent), NEW e \in StreamEvent
  PROVE  Kept(e) \in Seq(StreamEvent)
<1>1. PICK all \in Seq(StreamEvent) : all = Append(history, e) /\ all # <<>>
  <2>1. \A s \in Seq(StreamEvent) : Append(s, e) \in Seq(StreamEvent) /\ Append(s, e) # <<>>
    OBVIOUS
  <2> QED
    BY <2>1
<1>2. Tail(all) \in Seq(StreamEvent)
  BY <1>1
<1>3. Kept(e) = IF Len(all) > History THEN Tail(all) ELSE all
  BY <1>1 DEF Kept
<1> QED
  BY <1>2, <1>3

LEMMA AlonePosted ==
  ASSUME NEW e \in StreamEvent
  PROVE  \E t \in Seq(StreamEvent) : t = <<e>> /\ t[1] = e /\ Len(t) = 1
<1>1. <<e>> \in Seq(StreamEvent) /\ <<e>>[1] = e /\ Len(<<e>>) = 1
  OBVIOUS
<1> QED
  BY <1>1, Zenon

LEMMA LastPosted ==
  ASSUME NEW e \in StreamEvent, NEW f \in StreamEvent
  PROVE  \E t \in Seq(StreamEvent) : t = <<e, f>> /\ t[1] = e /\ t[2] = f /\ Len(t) = 2
<1>1. <<e, f>> \in Seq(StreamEvent)
  OBVIOUS
<1>2. <<e, f>>[1] = e /\ <<e, f>>[2] = f /\ Len(<<e, f>>) = 2
  OBVIOUS
<1> QED
  BY <1>1, <1>2, Zenon

LEMMA DrainKeeps ==
  ASSUME StreamInv, Drain
  PROVE  StreamInv'
<1>1. /\ sink # <<>> /\ sink' = Tail(sink) /\ client' = Heard(<<Head(sink)>>)
      /\ history' = Kept(Head(sink)) /\ UNCHANGED <<emitted, closed, roomDone>>
      /\ sink \in Seq(StreamEvent) /\ history \in Seq(StreamEvent) /\ emitted \in Nat
      /\ client \in [Clients -> ClientSet] /\ roomDone \in BOOLEAN
  BY DEF Drain, StreamInv, StreamShape
<1>2. PICK n \in Nat : n = Len(sink) /\ n > 0
  BY <1>1
<1>3. PICK e \in StreamEvent : e = sink[1] /\ e = Head(sink)
  BY <1>1
<1>4. PICK p \in Nat : p = Posted
  BY DEF StreamInv, StreamKept, RoomKept, StreamShape
<1>5. /\ p = e.first /\ Covers(sink, n, p, emitted) /\ ~roomDone
      /\ \A i \in 1..n : sink[i].kind \in {"delta", "fact"}
  <2>1. p = e.first
    BY <1>1, <1>3, <1>4 DEF Posted
  <2> QED
    BY <1>1, <1>2, <1>4, <2>1 DEF StreamInv, StreamKept, RoomKept
<1>6. Numbered(sink, n)
  <2>1. n \in 0..Len(sink)
    BY <1>2
  <2> QED
    BY <1>1, <2>1, EventsNumbered
<1>7. p <= e.last /\ e.last < emitted /\ e.last \in Int
  <2>1. p \in Int /\ emitted \in Int
    BY <1>1
  <2>2. sink[1].first = p /\ p <= sink[1].last /\ sink[1].last < emitted
    BY <1>2, <1>5, <1>6, <2>1, CoversFirst
  <2>3. 1 \in 1..n
    BY <1>2
  <2> QED
    BY <1>3, <1>6, <2>2, <2>3 DEF Numbered
<1>8. PICK q \in Nat : q = e.last + 1 /\ e.last = q - 1 /\ p < q /\ q <= emitted
  BY <1>1, <1>7
\* What is left in the sink.
<1>9. PICK rest \in Seq(StreamEvent) :
        /\ rest = sink' /\ Len(rest) = n - 1 /\ \A i \in 1..(n - 1) : rest[i] = sink[i + 1]
  <2>1. \A s \in Seq(StreamEvent) : s # <<>> => /\ Tail(s) \in Seq(StreamEvent) /\ Len(Tail(s)) = Len(s) - 1
                                          /\ \A i \in 1..(Len(s) - 1) : Tail(s)[i] = s[i + 1]
    OBVIOUS
  <2> QED
    BY <1>1, <1>2, <2>1
<1>10. Covers(rest, n - 1, q, emitted)
  <2>1. p \in Int /\ emitted \in Int
    BY <1>1
  <2>2. Covers(rest, n - 1, sink[1].last + 1, emitted)
    BY <1>2, <1>5, <1>6, <1>9, <2>1, CoversRest
  <2> QED
    BY <1>3, <1>8, <2>2
<1>11. Posted' = q
  <2>1. CASE rest = <<>>
    <3>1. n - 1 = 0
      BY <1>9, <2>1
    <3>2. Covers(rest, 0, q, emitted) /\ q \in Int /\ emitted \in Int
      BY <1>1, <1>10, <3>1
    <3>3. q = emitted
      BY <3>2, CoversOfNone
    <3> QED
      BY <1>1, <1>9, <2>1, <3>3 DEF Posted
  <2>2. CASE rest # <<>>
    <3>1. n - 1 \in Nat /\ n - 1 > 0 /\ q \in Int /\ emitted \in Int
      <4>1. Len(rest) # 0 /\ Len(rest) \in Nat
        BY <2>2
      <4> QED
        BY <1>1, <1>9, <4>1
    <3>2. Numbered(rest, n - 1)
      <4>1. n - 1 \in 0..Len(rest)
        BY <1>9, <3>1
      <4> QED
        BY <4>1, EventsNumbered
    <3>3. rest[1].first = q
      BY <1>10, <3>1, <3>2, CoversFirst
    <3> QED
      BY <1>9, <2>2, <3>3 DEF Posted
  <2> QED
    BY <2>1, <2>2
<1>12. StreamShape'
  <2>1. <<Head(sink)>> \in Seq(StreamEvent)
    BY <1>3
  <2>2. client' \in [Clients -> ClientSet]
    BY <1>1, <2>1, HeardShape
  <2>3. history' \in Seq(StreamEvent)
    BY <1>1, <1>3, KeptShape
  <2> QED
    BY <1>1, <1>9, <2>2, <2>3 DEF StreamInv, StreamShape
<1>13. HistoryKept(history', q) /\ \A c \in Clients : ClientKept(client'[c], history', roomDone', q)
  <2>1. PICK posted \in Seq(StreamEvent) : posted = <<e>> /\ posted[1] = e /\ Len(posted) = 1
    BY AlonePosted
  <2>2. e.kind \in {"delta", "fact", "terminal"}
    <3>1. 1 \in 1..n
      BY <1>2
    <3> QED
      BY <1>3, <1>5, <3>1
  <2>3. e.first = Posted /\ Posted < q /\ ~roomDone
    BY <1>3, <1>4, <1>5, <1>8
  <2>4. client' = Heard(posted) /\ history' = Kept(e)
    BY <1>1, <1>3, <2>1, Zenon
  <2> QED
    BY <1>8, <1>12, <2>1, <2>2, <2>3, <2>4, HeardKept
<1>14. RoomKept'
  <2>1. emitted' <= MaxEvents + 1 /\ (~roomDone' => emitted' <= MaxEvents)
        /\ (roomDone' => closed' /\ sink' = <<>>)
    <3>1. emitted' = emitted /\ emitted <= MaxEvents + 1 /\ (~roomDone => emitted <= MaxEvents)
      BY <1>1 DEF StreamInv, StreamKept, RoomKept
    <3>2. ~roomDone'
      BY <1>1, <1>5, Zenon
    <3> QED
      BY <1>5, <3>1, <3>2
  <2>2. Posted' \in 0..(emitted') /\ Covers(sink', Len(sink'), Posted', emitted')
    <3>1. sink' = rest /\ emitted' = emitted /\ Posted' = q /\ Len(rest) = n - 1
      BY <1>1, <1>9, <1>11
    <3>2. q \in 0..emitted
      BY <1>1, <1>8
    <3> QED
      BY <1>10, <3>1, <3>2
  <2>3. \A i \in 1..Len(sink') : sink'[i].kind \in {"delta", "fact"}
    <3>1. \A i \in 1..(n - 1) : i + 1 \in 1..n
      OBVIOUS
    <3> QED
      BY <1>5, <1>9, <3>1
  <2> QED
    BY <1>11, <1>13, <2>1, <2>2, <2>3 DEF RoomKept
<1> QED
  BY <1>11, <1>12, <1>13, <1>14 DEF StreamInv, StreamKept

LEMMA FinishRoomKeeps ==
  ASSUME StreamInv, FinishRoom
  PROVE  StreamInv'
<1>1. /\ closed /\ sink = <<>> /\ ~roomDone /\ emitted' = emitted + 1
      /\ history' = Kept(Terminal) /\ client' = Heard(<<Terminal, Over>>)
      /\ UNCHANGED <<closed, sink>>
      /\ sink \in Seq(StreamEvent) /\ history \in Seq(StreamEvent) /\ emitted \in Nat
      /\ client \in [Clients -> ClientSet] /\ closed \in BOOLEAN
  BY DEF FinishRoom, StreamInv, StreamShape
<1>2. roomDone' = TRUE
  BY DEF FinishRoom
<1>3. PICK p \in Nat : p = Posted /\ p = emitted
  BY <1>1 DEF Posted
<1>4. PICK e \in StreamEvent : e = Terminal /\ e.first = p /\ e.last = p /\ e.kind = "terminal"
  <2>1. \A x \in Int : [kind |-> "terminal", first |-> x, last |-> x] \in StreamEvent
    BY DEF StreamEvent
  <2>2. Terminal \in StreamEvent
    BY <1>1, <2>1 DEF Terminal
  <2>3. Terminal.first = p /\ Terminal.last = p /\ Terminal.kind = "terminal"
    BY <1>3 DEF Terminal
  <2> QED
    BY <2>2, <2>3
<1>5. PICK over \in StreamEvent : over = Over
  <2>1. Over \in StreamEvent
    BY DEF Over, StreamEvent
  <2> QED
    BY <2>1
<1>6. PICK posted \in Seq(StreamEvent) :
        posted = <<e, over>> /\ posted[1] = e /\ posted[2] = over /\ Len(posted) = 2
  BY LastPosted
<1>7. client' = Heard(posted) /\ history' = Kept(e)
  BY <1>1, <1>4, <1>5, <1>6, Zenon
<1>8. PICK q \in Nat : q = p + 1 /\ e.last = q - 1 /\ p < q
  BY <1>4
<1>9. sink' = <<>> /\ emitted' = q /\ Posted' = q
  BY <1>1, <1>3, <1>8 DEF Posted
<1>10. StreamShape'
  <2>1. client' \in [Clients -> ClientSet]
    BY <1>1, <1>7, HeardShape
  <2>2. history' \in Seq(StreamEvent)
    BY <1>1, <1>7, KeptShape
  <2>3. emitted' \in Nat /\ sink' \in Seq(StreamEvent) /\ closed' \in BOOLEAN /\ roomDone' \in BOOLEAN
    BY <1>1, <1>2
  <2> QED
    BY <2>1, <2>2, <2>3 DEF StreamShape
<1>11. HistoryKept(history', q) /\ \A c \in Clients : ClientKept(client'[c], history', roomDone', q)
  <2>1. e.kind \in {"delta", "fact", "terminal"} /\ e.first = Posted /\ Posted < q /\ ~roomDone
    BY <1>1, <1>3, <1>4, <1>8
  <2>2. Len(posted) = 2 /\ posted[2] = Over /\ roomDone'
    BY <1>2, <1>5, <1>6
  <2> QED
    BY <1>6, <1>7, <1>8, <1>10, <2>1, <2>2, HeardKept
<1>12. RoomKept'
  <2>1. emitted' <= MaxEvents + 1
    <3>1. emitted <= MaxEvents /\ MaxEvents \in Nat
      BY <1>1, StreamAssumption DEF StreamInv, StreamKept, RoomKept
    <3> QED
      BY <1>1, <3>1
  <2>2. closed' /\ roomDone'
    BY <1>1, <1>2, Zenon
  <2>3. Posted' \in 0..(emitted') /\ Covers(sink', Len(sink'), Posted', emitted') /\ Len(sink') = 0
    <3>1. Len(sink') = 0 /\ q \in Int
      BY <1>9
    <3>2. Covers(sink', Len(sink'), q, q)
      BY <3>1, CoversOfNone
    <3> QED
      BY <1>9, <3>1, <3>2
  <2>4. \A i \in 1..Len(sink') : sink'[i].kind \in {"delta", "fact"}
    BY <2>3
  <2> QED
    BY <1>9, <1>11, <2>1, <2>2, <2>3, <2>4 DEF RoomKept
<1> QED
  BY <1>9, <1>10, <1>11, <1>12 DEF StreamInv, StreamKept

LEMMA StreamInvInit ==
  ASSUME StreamInit
  PROVE  StreamInv
<1>1. PICK k \in ClientSet : k = NewClient
  <2>1. NewClient \in ClientSet
    BY DEF NewClient, ClientSet, ClientStages
  <2> QED
    BY <2>1
<1>2. /\ emitted = 0 /\ closed = FALSE /\ sink = <<>> /\ history = <<>> /\ roomDone = FALSE
      /\ client = [c \in Clients |-> k]
  BY <1>1 DEF StreamInit
<1>3. /\ k.at = "away" /\ k.after = -1 /\ k.got = {} /\ k.gone = {}
  BY <1>1 DEF NewClient
<1>4. ~k.repeated
  BY <1>1 DEF NewClient
<1>5. StreamShape
  <2>1. 0 \in Nat /\ <<>> \in Seq(StreamEvent) /\ [c \in Clients |-> k] \in [Clients -> ClientSet]
    OBVIOUS
  <2> QED
    BY <1>2, <2>1, Zenon DEF StreamShape
<1>6. Posted = 0 /\ Len(sink) = 0 /\ Len(history) = 0
  BY <1>2 DEF Posted
<1>7. HistoryKept(history, 0)
  <2>1. Covers(history, Len(history), 0, 0) /\ 0 \in 0..0
    BY <1>6, CoversOfNone
  <2>2. \A i \in 1..Len(history) : FALSE
    BY <1>6
  <2> QED
    BY <2>1, <2>2 DEF HistoryKept
<1>8. RoomKept
  <2>1. Covers(sink, Len(sink), 0, 0)
    BY <1>6, CoversOfNone
  <2>2. \A i \in 1..Len(sink) : FALSE
    BY <1>6
  <2>3. emitted <= MaxEvents + 1 /\ emitted <= MaxEvents
    BY <1>2, StreamAssumption
  <2>4. Posted \in 0..emitted /\ Posted = 0 /\ emitted = 0 /\ ~roomDone
    BY <1>2, <1>6
  <2> QED
    BY <1>7, <2>1, <2>2, <2>3, <2>4 DEF RoomKept
<1>9. ASSUME NEW done \in BOOLEAN PROVE ClientKept(k, history, done, 0)
  <2>1. Knows(k, history, 0)
    <3>1. Accounted(k) = {} /\ 0..(k.after) = {} /\ -1 <= k.after /\ k.after < 0
      BY <1>3 DEF Accounted
    <3>2. \A i \in 1..Len(history) : FALSE
      BY <1>6
    <3> QED
      BY <1>4, <3>1, <3>2, Zenon DEF Knows
  <2>2. 0..(0 - 1) = {}
    OBVIOUS
  <2> QED
    BY <1>3, <2>1, <2>2 DEF ClientKept, Listening
<1>10. \A c \in Clients : ClientKept(client[c], history, roomDone, Posted)
  <2>1. PICK done \in BOOLEAN : done = roomDone
    BY <1>2
  <2>2. \A c \in Clients : client[c] = k
    BY <1>2
  <2> QED
    BY <1>6, <1>9, <2>1, <2>2
<1> QED
  BY <1>5, <1>8, <1>10 DEF StreamInv, StreamKept

LEMMA StreamInvNext ==
  ASSUME StreamInv, [StreamNext]_streamVars
  PROVE  StreamInv'
<1>1. CASE StreamNext
  BY <1>1, RunEndsKeeps, DrainKeeps, FinishRoomKeeps, EmitKeeps, ClientStepsKeep DEF StreamNext
<1>2. CASE UNCHANGED streamVars
  <2>1. UNCHANGED <<emitted, closed, sink, history, roomDone, client>>
    BY <1>2 DEF streamVars
  <2>2. Posted' = Posted
    BY <2>1 DEF Posted
  <2>3. StreamShape'
    BY <2>1 DEF StreamInv, StreamShape
  <2>4. RoomKept'
    BY <2>1, <2>2 DEF StreamInv, StreamKept, RoomKept
  <2>5. \A c \in Clients : ClientKept(client'[c], history', roomDone', Posted')
    BY <2>1, <2>2 DEF StreamInv, StreamKept
  <2> QED
    BY <2>3, <2>4, <2>5 DEF StreamInv, StreamKept
<1> QED
  BY <1>1, <1>2

LEMMA StreamInvariance == StreamSpec => []StreamInv
BY StreamInvInit, StreamInvNext, PTL DEF StreamSpec

\* A subscription that came to its end was given, or told it would not be given,
\* everything up to the end of the run: any number of clients and events, any depth
\* of the history, whatever merges and whoever leaves and comes back.
THEOREM StreamsHideNothing == StreamSpec => []NothingIsMissedUnsaid
<1>1. StreamInv => NothingIsMissedUnsaid
  <2> SUFFICES ASSUME StreamInv, NEW c \in Clients
               PROVE  /\ ~client[c].repeated
                      /\ client[c].at = "ended" => 0..(emitted - 1) = client[c].got \cup client[c].gone
    BY DEF NothingIsMissedUnsaid
  <2>1. PICK k \in ClientSet, p \in Nat, done \in BOOLEAN :
          /\ k = client[c] /\ p = Posted /\ done = roomDone
          /\ history \in Seq(StreamEvent) /\ HistoryKept(history, p)
          /\ ClientKept(k, history, done, p) /\ ~k.repeated /\ k.after \in Int /\ -1 <= k.after
    BY OfClient
  <2>2. ASSUME k.at = "ended" PROVE 0..(emitted - 1) = k.got \cup k.gone
    <3>1. done /\ 0..(p - 1) \subseteq Accounted(k) /\ Accounted(k) \subseteq 0..(p - 1)
      BY <2>1, <2>2 DEF ClientKept, Knows
    <3>2. p = emitted
      BY <2>1, <3>1 DEF StreamInv, StreamKept, RoomKept, Posted
    <3> QED
      BY <3>1, <3>2 DEF Accounted
  <2> QED
    BY <2>1, <2>2
<1> QED
  BY <1>1, StreamInvariance, PTL

\* Every variable of the stream keeps its type: no number passes the end of the run's, and
\* nothing a client is told of was never given out.
THEOREM StreamTyped == StreamSpec => []StreamTypeOK
<1>1. StreamInv => StreamTypeOK
  <2> SUFFICES ASSUME StreamInv PROVE StreamTypeOK
    OBVIOUS
  <2>1. /\ emitted \in Nat /\ emitted <= MaxEvents + 1 /\ MaxEvents \in Nat
        /\ closed \in BOOLEAN /\ roomDone \in BOOLEAN
        /\ sink \in Seq(StreamEvent) /\ history \in Seq(StreamEvent)
    BY StreamAssumption DEF StreamInv, StreamShape, StreamKept, RoomKept
  <2>2. PICK p \in Nat : /\ p = Posted /\ p <= emitted /\ Covers(sink, Len(sink), p, emitted)
                        /\ HistoryKept(history, p)
    BY <2>1 DEF StreamInv, StreamKept, RoomKept
  <2>3. ASSUME NEW s \in Seq(StreamEvent), NEW a \in Nat, NEW b \in Nat, Covers(s, Len(s), a, b),
               NEW e \in ToSet(s)
        PROVE  e.first \in Nat /\ e.last \in Nat
    <3>1. PICK i \in 1..Len(s) : e = s[i]
      <4>1. e \in {s[j] : j \in DOMAIN s}
        BY <2>3 DEF ToSet
      <4>2. DOMAIN s = 1..Len(s)
        OBVIOUS
      <4> QED
        BY <4>1, <4>2, Zenon
    <3>2. s[i] \in StreamEvent
      OBVIOUS
    <3>3. \A d \in StreamEvent : d.first \in Int /\ d.last \in Int
      BY DEF StreamEvent
    <3>4. s[i].first \in Int /\ s[i].last \in Int
      BY <3>2, <3>3
    <3>5. a <= s[i].first /\ s[i].first <= s[i].last
      BY <2>3 DEF Covers
    <3> QED
      BY <3>1, <3>4, <3>5
  <2>4. \A e \in ToSet(sink) : e.first \in Nat /\ e.last \in Nat
    BY <2>1, <2>2, <2>3
  <2>5. \A e \in ToSet(history) : e.first \in Nat /\ e.last \in Nat
    <3>1. PICK a \in 0..p : Covers(history, Len(history), a, p)
      BY <2>2 DEF HistoryKept
    <3>2. a \in Nat
      OBVIOUS
    <3> QED
      BY <2>1, <2>3, <3>1, <3>2
  <2>6. ASSUME NEW c \in Clients
        PROVE  /\ client[c].at \in {"away", "backlog", "live", "ended", "cut"}
               /\ client[c].after \in -1..MaxEvents
               /\ client[c].got \subseteq 0..MaxEvents /\ client[c].gone \subseteq 0..MaxEvents
    <3>1. PICK k \in ClientSet, q \in Nat, done \in BOOLEAN :
            /\ k = client[c] /\ q = Posted /\ done = roomDone
            /\ history \in Seq(StreamEvent) /\ HistoryKept(history, q)
            /\ ClientKept(k, history, done, q) /\ ~k.repeated /\ k.after \in Int /\ -1 <= k.after
      BY OfClient
    <3>2. k.after < q /\ k.got \cup k.gone \subseteq 0..(q - 1)
      BY <3>1 DEF ClientKept, Knows, Accounted
    <3>3. q <= MaxEvents + 1
      BY <2>1, <2>2, <3>1
    <3>4. 0..(q - 1) \subseteq 0..MaxEvents /\ k.after \in -1..MaxEvents
      BY <2>1, <3>1, <3>2, <3>3
    <3>5. k.at \in ClientStages
      BY DEF ClientSet
    <3> QED
      BY <3>1, <3>2, <3>4, <3>5 DEF ClientStages
  <2>7. emitted \in 0..(MaxEvents + 1)
    BY <2>1
  <2> QED
    BY <2>1, <2>4, <2>5, <2>6, <2>7 DEF StreamTypeOK
<1> QED
  BY <1>1, StreamInvariance, PTL

-----------------------------------------------------------------------------
(* The parts side by side.                                                   *)

\* Every part keeps to its own specification in Services, so that what is proved
\* of each above is true of them side by side.
THEOREM PartsAreThemselves ==
  Spec => /\ LeaseSpec /\ LedgerSpec /\ LanesSpec /\ SagaSpec
          /\ StateSpec /\ PlanSpec /\ CredentialsSpec /\ StreamSpec
          /\ FanSpec /\ ChildSpec /\ CacheSpec /\ PoolSpec
          /\ ThreadsSpec /\ SessionsSpec
<1>1. Init => /\ LeaseInit /\ LedgerInit /\ LanesInit /\ SagaInit
              /\ StateInit /\ PlanInit /\ CredentialsInit /\ StreamInit
              /\ FanInit /\ ChildInit /\ CacheInit /\ PoolInit
              /\ ThreadsInit /\ SessionsInit
  BY Zenon DEF Init
<1>2. [Next]_allVars => [LeaseNext]_leaseVars
  BY Zenon DEF Next, allVars
<1>3. [Next]_allVars => [LedgerNext]_ledgerVars
  BY Zenon DEF Next, allVars
<1>4. [Next]_allVars => [LanesNext]_laneVars
  BY Zenon DEF Next, allVars
<1>5. [Next]_allVars => [SagaNext]_sagaVars
  BY Zenon DEF Next, allVars
<1>6. [Next]_allVars => [StateNext]_stateVars
  BY Zenon DEF Next, allVars
<1>7. [Next]_allVars => [PlanNext]_planVars
  BY Zenon DEF Next, allVars
<1>8. [Next]_allVars => [CredentialsNext]_credentialVars
  BY Zenon DEF Next, allVars
<1>9. [Next]_allVars => [StreamNext]_streamVars
  BY Zenon DEF Next, allVars
<1>10. [Next]_allVars => [FanNext]_fanVars
  BY Zenon DEF Next, allVars
<1>11. [Next]_allVars => [ChildNext]_childVars
  BY Zenon DEF Next, allVars
<1>12. [Next]_allVars => [CacheNext]_cacheVars
  BY Zenon DEF Next, allVars
<1>13. [Next]_allVars => [PoolNext]_poolVars
  BY Zenon DEF Next, allVars
<1>14. [Next]_allVars => [ThreadsNext]_threadVars
  BY Zenon DEF Next, allVars
<1>15. [Next]_allVars => [SessionsNext]_sessionVars
  BY Zenon DEF Next, allVars
<1> QED
  BY <1>1, <1>2, <1>3, <1>4, <1>5, <1>6, <1>7, <1>8, <1>9, <1>10, <1>11, <1>12, <1>13, <1>14,
     <1>15, PTL
     DEF Spec, LeaseSpec, LedgerSpec, LanesSpec, SagaSpec, StateSpec, PlanSpec, CredentialsSpec,
         StreamSpec, FanSpec, ChildSpec, CacheSpec, PoolSpec, ThreadsSpec, SessionsSpec

\* Every variable of the part that moves keeps its type, whichever it is: no counter passes
\* its bound, no row, task, thread, connection, credential or walk is in a state its code has
\* no branch for.
THEOREM ServicesTypesCorrect == Spec => []ServicesTypesOK
<1>1. Spec => [](part \in Parts)
  <2>1. Init => part \in Parts
    BY Zenon DEF Init
  <2>2. part \in Parts /\ [Next]_allVars => (part \in Parts)'
    <3>1. [Next]_allVars => part' = part
      BY Zenon DEF Next, allVars
    <3> QED
      BY <3>1, Zenon
  <2> QED
    BY <2>1, <2>2, PTL DEF Spec
<1>2. PlanSpec => []PlanTypeOK
  <2>1. PlanInv => PlanTypeOK
    BY DEF PlanInv
  <2> QED
    BY <2>1, PlanStarts, PlanStep, PTL DEF PlanSpec
<1> DEFINE AllTyped ==
             /\ LeaseTypeOK /\ LedgerTypeOK /\ LanesTypeOK /\ SagaTypeOK
             /\ StateTypeOK /\ PlanTypeOK /\ CredentialsTypeOK /\ StreamTypeOK
             /\ FanTypeOK /\ ChildTypeOK /\ CacheTypeOK /\ PoolTypeOK
             /\ ThreadsTypeOK /\ SessionsTypeOK
<1>3. Spec => []AllTyped
  BY <1>2, PartsAreThemselves, LeaseTyped, BooksKept, LanesTyped, SagaStands, StateTyped,
     CredentialsTyped, StreamTyped, FanTyped, ChildTyped, CacheTyped, PoolTyped, ThreadsTyped,
     SessionsTyped, PTL
<1>4. part \in Parts /\ AllTyped => ServicesTypesOK
  BY Zenon DEF Parts, ServicesTypesOK
<1> QED
  BY <1>1, <1>3, <1>4, PTL

\* What is proved of each part holds of the parts side by side.
THEOREM ServicesKeepTheirPromises ==
  Spec => [](/\ OneCarriesTheRun /\ SpendAddsUp /\ SessionsTakeTheirRuns /\ ChargedAsTold
             /\ CeilingHolds /\ HaltLatches /\ NoKeyIsWedged /\ OnlyTheAbandonedHoldUp
             /\ RotationSparesBorrowers /\ RequestsEndTruly /\ JamsAreCrossings
             /\ CleanMeansClean /\ OverrunIsBounded /\ PlanLandsOnce /\ NothingIsMissedUnsaid)
BY PartsAreThemselves, OneWorkerCarries, AdditionsStay, SessionsTake, ChargesAreAsTold,
   CeilingIsKept, HaltsLatch, KeysAreShared, WaitsAreForTheAbandoned, BorrowersAreSpared,
   RequestsEnd, OnlyCrossingsJam, CleanIsClean, OverrunStaysBounded, PlansLandOnce, StreamsHideNothing, PTL
=============================================================================
