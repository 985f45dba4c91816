------------------------------ MODULE Services ------------------------------
(* Parts of the kit that keep state of their own and share none with each   *)
(* other: run leases, spend ledgers, the lanes of tool calls, sagas, the    *)
(* state store, plans, credentials, progress streams, the branches of a     *)
(* fan-out, a child process of a tool server, the cache of answers, the     *)
(* clients of the model providers, the threads of blocking bodies and the   *)
(* sessions of runs.  A behaviour is one of theirs, with the others at      *)
(* rest: the parts are checked side by side, not composed.                  *)
EXTENDS RunLease, SpendLedger, Lanes, Compensation, StateStore, PlanExecution,
        RunCredentials, ProgressStream, FanOut, ChildProcess, AnswerCache, ClientPool,
        WorkerThreads, SessionStore

VARIABLE part

Parts == {"lease", "ledger", "lanes", "saga", "state", "plan", "credentials", "stream",
          "fan", "child", "cache", "clients", "threads", "sessions"}

allVars == <<part, leaseVars, ledgerVars, laneVars, sagaVars, stateVars, planVars,
             credentialVars, streamVars, fanVars, childVars, cacheVars,
             poolVars, threadVars, sessionVars>>

\* A part at rest starts in one of its initial states only.
Init ==
  /\ part \in Parts
  /\ LeaseInit /\ (part # "lease" => leaseStore = CHOOSE s \in LeaseStores : TRUE)
  /\ LedgerInit /\ (part # "ledger" => ledgerStore = CHOOSE s \in LedgerStores : TRUE)
  /\ LanesInit /\ (part # "lanes" => laneLoad = CHOOSE load \in LaneLoads : TRUE)
  /\ SagaInit /\ (part # "saga" => saga = CHOOSE s \in Sagas : TRUE)
  /\ StateInit /\ (part # "state" => stateStore = CHOOSE s \in StateStores : TRUE)
  /\ PlanInit /\ (part # "plan" => plan = CHOOSE p \in PlanInputs : TRUE)
  /\ CredentialsInit
  /\ part # "credentials" =>
       LET any == CHOOSE x \in Audiences : TRUE
       IN  caller = [c \in Callers |-> [at |-> "idle", audience |-> any, again |-> FALSE]]
  /\ FanInit /\ (part # "fan" => fanInput = CHOOSE input \in FanInputs : TRUE)
  /\ SessionsInit /\ (part # "sessions" => sessionStore = CHOOSE s \in SessionStores : TRUE)
  /\ StreamInit /\ ChildInit /\ CacheInit /\ PoolInit /\ ThreadsInit

\* What each part leaves alone is everything but its own variables.
Next ==
  \/ /\ part = "lease" /\ LeaseNext
     /\ UNCHANGED <<part, ledgerVars, laneVars, sagaVars, stateVars, planVars,
                    credentialVars, streamVars, fanVars, childVars, cacheVars,
                    poolVars, threadVars, sessionVars>>
  \/ /\ part = "ledger" /\ LedgerNext
     /\ UNCHANGED <<part, leaseVars, laneVars, sagaVars, stateVars, planVars,
                    credentialVars, streamVars, fanVars, childVars, cacheVars,
                    poolVars, threadVars, sessionVars>>
  \/ /\ part = "lanes" /\ LanesNext
     /\ UNCHANGED <<part, leaseVars, ledgerVars, sagaVars, stateVars, planVars,
                    credentialVars, streamVars, fanVars, childVars, cacheVars,
                    poolVars, threadVars, sessionVars>>
  \/ /\ part = "saga" /\ SagaNext
     /\ UNCHANGED <<part, leaseVars, ledgerVars, laneVars, stateVars, planVars,
                    credentialVars, streamVars, fanVars, childVars, cacheVars,
                    poolVars, threadVars, sessionVars>>
  \/ /\ part = "state" /\ StateNext
     /\ UNCHANGED <<part, leaseVars, ledgerVars, laneVars, sagaVars, planVars,
                    credentialVars, streamVars, fanVars, childVars, cacheVars,
                    poolVars, threadVars, sessionVars>>
  \/ /\ part = "plan" /\ PlanNext
     /\ UNCHANGED <<part, leaseVars, ledgerVars, laneVars, sagaVars, stateVars,
                    credentialVars, streamVars, fanVars, childVars, cacheVars,
                    poolVars, threadVars, sessionVars>>
  \/ /\ part = "credentials" /\ CredentialsNext
     /\ UNCHANGED <<part, leaseVars, ledgerVars, laneVars, sagaVars, stateVars,
                    planVars, streamVars, fanVars, childVars, cacheVars,
                    poolVars, threadVars, sessionVars>>
  \/ /\ part = "stream" /\ StreamNext
     /\ UNCHANGED <<part, leaseVars, ledgerVars, laneVars, sagaVars, stateVars,
                    planVars, credentialVars, fanVars, childVars, cacheVars,
                    poolVars, threadVars, sessionVars>>
  \/ /\ part = "fan" /\ FanNext
     /\ UNCHANGED <<part, leaseVars, ledgerVars, laneVars, sagaVars, stateVars,
                    planVars, credentialVars, streamVars, childVars, cacheVars,
                    poolVars, threadVars, sessionVars>>
  \/ /\ part = "child" /\ ChildNext
     /\ UNCHANGED <<part, leaseVars, ledgerVars, laneVars, sagaVars, stateVars,
                    planVars, credentialVars, streamVars, fanVars, cacheVars,
                    poolVars, threadVars, sessionVars>>
  \/ /\ part = "cache" /\ CacheNext
     /\ UNCHANGED <<part, leaseVars, ledgerVars, laneVars, sagaVars, stateVars,
                    planVars, credentialVars, streamVars, fanVars, childVars,
                    poolVars, threadVars, sessionVars>>
  \/ /\ part = "clients" /\ PoolNext
     /\ UNCHANGED <<part, leaseVars, ledgerVars, laneVars, sagaVars, stateVars,
                    planVars, credentialVars, streamVars, fanVars, childVars,
                    cacheVars, threadVars, sessionVars>>
  \/ /\ part = "threads" /\ ThreadsNext
     /\ UNCHANGED <<part, leaseVars, ledgerVars, laneVars, sagaVars, stateVars,
                    planVars, credentialVars, streamVars, fanVars, childVars,
                    cacheVars, poolVars, sessionVars>>
  \/ /\ part = "sessions" /\ SessionsNext
     /\ UNCHANGED <<part, leaseVars, ledgerVars, laneVars, sagaVars, stateVars,
                    planVars, credentialVars, streamVars, fanVars, childVars,
                    cacheVars, poolVars, threadVars>>

Spec == Init /\ [][Next]_allVars

---------------------------------------------------------------------------

\* Every variable of the part that moves keeps its type.
ServicesTypesOK ==
  CASE part = "lease" -> LeaseTypeOK
    [] part = "ledger" -> LedgerTypeOK
    [] part = "lanes" -> LanesTypeOK
    [] part = "saga" -> SagaTypeOK
    [] part = "state" -> StateTypeOK
    [] part = "plan" -> PlanTypeOK
    [] part = "credentials" -> CredentialsTypeOK
    [] part = "stream" -> StreamTypeOK
    [] part = "fan" -> FanTypeOK
    [] part = "child" -> ChildTypeOK
    [] part = "cache" -> CacheTypeOK
    [] part = "clients" -> PoolTypeOK
    [] part = "threads" -> ThreadsTypeOK
    [] part = "sessions" -> SessionsTypeOK
=============================================================================
