----------------------------- MODULE StateStore -----------------------------
(* runtime/state.py, adapters/state.py (RedisStateStore) and                *)
(* adapters/sql_state.py (PostgresStateStore): one run's record between     *)
(* workers that read it and write it back, at the version they read, and    *)
(* workers that add to its counters without reading it.  A script, a        *)
(* statement and a method without an await are one step; its reply may be   *)
(* lost, and the call is then made again.                                   *)
EXTENDS Integers

CONSTANTS
  StateStores,   \* which of "memory", "redis" and "postgres" there may be
  StateWorkers,
  MaxVersion,    \* bound: the versions of the record
  MaxLanded      \* bound: the patches that land

ASSUME StateAssumption ==
  /\ StateStores \subseteq {"memory", "redis", "postgres"}
  /\ MaxVersion \in Nat /\ MaxLanded \in Nat

VARIABLES
  stateStore,
  record,     \* version, and one of the counters; version 0: there is none
  copy,       \* the record as a worker has it in hand
  landed,     \* patches added to the run since it was created
  deleted     \* whether anybody has deleted the run

stateVars == <<stateStore, record, copy, landed, deleted>>

NoRecord == [version |-> 0, cost |-> 0]
Unread == [version |-> -1, cost |-> 0]

StateInit ==
  /\ stateStore \in StateStores
  /\ record = NoRecord
  /\ copy = [w \in StateWorkers |-> Unread]
  /\ landed = 0
  /\ deleted = FALSE

\* get_run; a worker that finds nothing builds a record at version zero.
GetRun(w) ==
  /\ copy' = [copy EXCEPT ![w] = record]
  /\ UNCHANGED <<stateStore, record, landed, deleted>>

\* put_run commits at the version it was read at, or is refused.  The INSERT
\* of PostgreSQL has nothing to conflict with where the run is gone, whatever
\* version the writer names.
Commits(w) ==
  \/ copy[w].version = record.version
  \/ stateStore = "postgres" /\ record = NoRecord

Written(w) == [version |-> copy[w].version + 1, cost |-> copy[w].cost]

PutRun(w) ==
  /\ copy[w] # Unread
  /\ Commits(w)
  /\ copy[w].version < MaxVersion
  /\ record' = Written(w)
  /\ landed' = IF copy[w].version = 0 THEN 0 ELSE landed
  \* written is handed back, or the reply is lost and the put made again
  /\ copy' \in {copy, [copy EXCEPT ![w] = Written(w)]}
  /\ UNCHANGED <<stateStore, deleted>>

\* StateConflictError, to a retry of a put that landed as well.
Conflict(w) ==
  /\ copy[w] # Unread
  /\ ~Commits(w)
  /\ copy' = [copy EXCEPT ![w] = Unread]
  /\ UNCHANGED <<stateStore, record, landed, deleted>>

\* Mutant: no store moves the version when it adds.
PatchedUnseen == [record EXCEPT !.cost = @ + 1]

\* patch_run adds; MemoryStateStore leaves the version as it was.
Patched ==
  [version |-> IF stateStore = "memory" THEN record.version ELSE record.version + 1,
   cost |-> record.cost + 1]

PatchRun(w) ==
  /\ record # NoRecord
  /\ landed < MaxLanded
  /\ record.version < MaxVersion
  /\ record' = Patched
  /\ landed' = landed + 1
  \* the merged record is handed back, or the reply is lost and the patch,
  \* which names no version, lands once more
  /\ copy' \in {copy, [copy EXCEPT ![w] = Patched]}
  /\ UNCHANGED <<stateStore, deleted>>

DeleteRun ==
  /\ record # NoRecord
  /\ record' = NoRecord
  /\ deleted' = TRUE
  /\ UNCHANGED <<stateStore, copy, landed>>

StateNext ==
  \/ DeleteRun
  \/ \E w \in StateWorkers : GetRun(w) \/ PutRun(w) \/ Conflict(w) \/ PatchRun(w)

StateSpec == StateInit /\ [][StateNext]_stateVars

Records == [version: -1..MaxVersion, cost: 0..(MaxLanded * MaxVersion)]

StateTypeOK ==
  /\ stateStore \in StateStores
  /\ record \in Records
  /\ copy \in [StateWorkers -> Records]
  /\ landed \in 0..MaxLanded
  /\ deleted \in BOOLEAN

---------------------------------------------------------------------------

\* docs/state.md: patches add, and a put that has missed one is refused.  The
\* counter a durable store holds is what was ever patched into the run: no
\* write of a whole record, however old the copy it was made from and however
\* often it is retried, takes an addition back.  Not so in memory, where a
\* patch leaves the version alone, nor over a run that was deleted: its
\* versions start again, and PostgreSQL lets a stale put create it anew.
SpendAddsUp ==
  stateStore # "memory" /\ ~deleted => record.cost = landed
=============================================================================
