------------------------------ MODULE RunLease ------------------------------
(* runtime/lease.py, adapters/checkpoints.py, runtime/resume.py: workers    *)
(* take one run over, one at a time.  Every call of a store is one step: a  *)
(* script, a statement, or code without an await.  What a worker knows of   *)
(* its hold, and what the store does, differ when a reply is lost and when  *)
(* the hold lapses.                                                         *)
EXTENDS Integers

CONSTANTS
  LeaseStores,     \* which of "memory", "redis" and "postgres" there may be
  LeaseWorkers,    \* each under the name it goes by
  LeaseTtl,        \* LeasePolicy.ttl_seconds
  RenewWithin,     \* LeasePolicy.renew_within
  LeaseHorizon,    \* bound: the store's clock
  MaxFence,        \* bound: acquisitions
  Nobody

ASSUME LeaseAssumption ==
  /\ LeaseStores \subseteq {"memory", "redis", "postgres"}
  /\ LeaseTtl \in Nat \ {0}
  /\ RenewWithin \in Nat
  /\ LeaseHorizon \in Nat
  /\ MaxFence \in Nat
  /\ Nobody \notin LeaseWorkers

VARIABLES
  leaseStore,
  leaseTime,    \* the store's clock, the only one that decides
  leaseRow,     \* what the store holds of the run; no row reads as NoLease
  hold          \* the lease each worker has in hand, and what it is doing

leaseVars == <<leaseStore, leaseTime, leaseRow, hold>>

NoLease == [holder |-> Nobody, fence |-> 0, expires |-> 0]
NoHold == [step |-> "away", fence |-> 0, expires |-> 0]

LeaseInit ==
  /\ leaseStore \in LeaseStores
  /\ leaseTime = 0
  /\ leaseRow = NoLease
  /\ hold = [w \in LeaseWorkers |-> NoHold]

\* RunLease.held_at.
HeldAt(expires) == leaseTime < expires

\* Whether somebody else holds the run.
Refused(w) == leaseRow.holder \notin {Nobody, w} /\ HeldAt(leaseRow.expires)

\* acquire: whoever may have the run gets it, with the next fence.
Taken(w) == [holder |-> w, fence |-> leaseRow.fence + 1, expires |-> leaseTime + LeaseTtl]

\* Resumer.resume takes the lease before it reads the frontier.
Acquire(w) ==
  /\ hold[w].step = "away"
  /\ ~Refused(w)
  /\ leaseRow.fence < MaxFence
  /\ leaseRow' = Taken(w)
  /\ hold' = [hold EXCEPT ![w] = [step |-> "resuming", fence |-> Taken(w).fence,
                                  expires |-> Taken(w).expires]]
  /\ UNCHANGED <<leaseStore, leaseTime>>

\* The store took the lease for a worker that never heard of it.
AcquireUnheard(w) ==
  /\ hold[w].step = "away"
  /\ ~Refused(w)
  /\ leaseRow.fence < MaxFence
  /\ leaseRow' = Taken(w)
  /\ UNCHANGED <<leaseStore, leaseTime, hold>>

\* The row is still the one this lease was taken in.
Current(w) == leaseRow.holder = w /\ leaseRow.fence = hold[w].fence

\* The frontier was readable and its transcript there: the turn begins.
Carry(w) ==
  /\ hold[w].step = "resuming"
  /\ hold' = [hold EXCEPT ![w].step = "turn"]
  /\ UNCHANGED <<leaseStore, leaseTime, leaseRow>>

\* CheckpointFormatError, HistoryUnavailableError, or the worker died: the
\* holder is gone, and the run stays held for what is left of the lease.
LeaveHeld(w) ==
  /\ hold[w].step # "away"
  /\ hold' = [hold EXCEPT ![w] = NoHold]
  /\ UNCHANGED <<leaseStore, leaseTime, leaseRow>>

\* Leaseholder.keep during a turn: due_to_renew, and the store extends the
\* current lease, even one that has lapsed while nobody took it.  A lease that
\* was taken is refused, which ends the turn.
Keep(w) ==
  /\ hold[w].step = "turn"
  /\ leaseTime >= hold[w].expires - RenewWithin
  /\ IF Current(w)
     THEN /\ leaseRow' = [leaseRow EXCEPT !.expires = leaseTime + LeaseTtl]
          /\ hold' = [hold EXCEPT ![w].expires = leaseTime + LeaseTtl]
     ELSE /\ hold' = [hold EXCEPT ![w].step = "lost"]
          /\ UNCHANGED leaseRow
  /\ UNCHANGED <<leaseStore, leaseTime>>

\* Mutant: a release asks no store who holds the run.
ReleasedAnyway(w) == [leaseRow EXCEPT !.holder = Nobody, !.expires = 0]

\* What release leaves: Redis and Postgres keep the fence, and give up only
\* what this holder took; the dict compares fences and deletes the record.
Released(w) ==
  CASE leaseStore = "memory" ->
         IF leaseRow.fence = hold[w].fence THEN NoLease ELSE leaseRow
    [] leaseStore = "redis" ->
         IF Current(w) THEN [leaseRow EXCEPT !.holder = Nobody, !.expires = 0] ELSE leaseRow
    [] leaseStore = "postgres" ->
         IF Current(w) THEN [leaseRow EXCEPT !.expires = 0] ELSE leaseRow

\* Leaseholder.__aexit__ at the end of a turn however it ended, or resume
\* where nothing was ever checkpointed.
LetGo(w) ==
  /\ hold[w].step # "away"
  /\ leaseRow' = Released(w)
  /\ hold' = [hold EXCEPT ![w] = NoHold]
  /\ UNCHANGED <<leaseStore, leaseTime>>

LeaseTick ==
  /\ leaseTime < LeaseHorizon
  /\ leaseTime' = leaseTime + 1
  /\ UNCHANGED <<leaseStore, leaseRow, hold>>

LeaseNext ==
  \/ LeaseTick
  \/ \E w \in LeaseWorkers :
       Acquire(w) \/ AcquireUnheard(w) \/ Carry(w) \/ LeaveHeld(w) \/ Keep(w) \/ LetGo(w)

LeaseSpec == LeaseInit /\ [][LeaseNext]_leaseVars

LeaseTypeOK ==
  /\ leaseStore \in LeaseStores
  /\ leaseTime \in 0..LeaseHorizon
  /\ leaseRow \in [holder: LeaseWorkers \cup {Nobody}, fence: 0..MaxFence,
                   expires: 0..(LeaseHorizon + LeaseTtl)]
  /\ hold \in [LeaseWorkers -> [step: {"away", "resuming", "turn", "lost"},
                                fence: 0..MaxFence,
                                expires: 0..(LeaseHorizon + LeaseTtl)]]

---------------------------------------------------------------------------

\* A worker for which its lease has not run out.
Believes(w) == hold[w].step \in {"resuming", "turn"} /\ HeldAt(hold[w].expires)

\* docs/checkpointing.md: "Two workers resuming one run is two runs."  Of the
\* workers that carry the run on under a lease that has not run out there is
\* one, whoever lapsed, died, renewed late or released twice before.  Not so
\* with the dict: deleting the record starts the fences again at one, and a
\* stale release then passes for the holder's own.
OneCarriesTheRun ==
  leaseStore # "memory" =>
    \A v, w \in LeaseWorkers : Believes(v) /\ Believes(w) => v = w
=============================================================================
