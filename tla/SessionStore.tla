----------------------------- MODULE SessionStore -----------------------------
(* The sessions of runtime/state.py, adapters/state.py (RedisStateStore) and *)
(* adapters/sql_state.py (PostgresStateStore), and the runs they own.  A put *)
(* that is refused changes nothing, so a put here is one whose author knew   *)
(* the stored record.  Memory finds the runs of a session by its id, Redis   *)
(* by an index that puts add to, PostgreSQL by a column.                     *)
CONSTANTS
  SessionStores,   \* which of "memory", "redis" and "postgres" there may be
  SessionKeys,     \* records with a tenant and an id
  RunKeys,         \* likewise
  Deleters         \* bound: the statements under way at once

ASSUME SessionsAssumption == SessionStores \subseteq {"memory", "redis", "postgres"}

VARIABLES
  sessionStore,
  sessions,      \* the sessions there are
  sessionRun,    \* per run: whether it is absent, live or over, and whose
  runIndex,      \* Redis: the set of run ids beside a session
  deletion,      \* PostgreSQL: what a DELETE_SESSION saw when it began
  ended,         \* sessions somebody was told are deleted, and not put since
  late,          \* runs put into a session that was gone, or going
  moved,         \* runs that were put into one session and then into another, or none
  misplaced      \* runs that went with a session that was not theirs

sessionVars ==
  <<sessionStore, sessions, sessionRun, runIndex, deletion, ended, late, moved, misplaced>>

NoSuchRun == [is |-> "absent", of |-> {}]
NotDeleting == [of |-> {}, cascade |-> FALSE, found |-> {}, runs |-> {}, live |-> FALSE]

SessionsInit ==
  /\ sessionStore \in SessionStores
  /\ sessions = {}
  /\ sessionRun = [k \in RunKeys |-> NoSuchRun]
  /\ runIndex = [s \in SessionKeys |-> {}]
  /\ deletion = [d \in Deleters |-> NotDeleting]
  /\ ended = {} /\ late = {} /\ moved = {} /\ misplaced = {}

Joinable(k) == {{}} \cup {{s} : s \in {t \in SessionKeys : t.tenant = k.tenant}}
OwnRuns(s) == {k \in RunKeys : sessionRun[k].of = {s}}
LiveOf(runs) == {k \in runs : sessionRun[k].is = "live"}
Going == UNION {deletion[d].of : d \in Deleters}

\* Whose runs a store takes for a session's.
Listed(s) ==
  CASE sessionStore = "memory" -> {k \in RunKeys : \E o \in sessionRun[k].of : o.id = s.id}
    [] sessionStore = "redis" -> {k \in runIndex[s] : sessionRun[k] # NoSuchRun}
    [] sessionStore = "postgres" -> OwnRuns(s)

PutSession(s) ==
  /\ sessions' = sessions \cup {s}
  /\ ended' = ended \ {s}
  /\ late' = IF s \in Going THEN late ELSE late \ OwnRuns(s)
  /\ UNCHANGED <<sessionStore, sessionRun, runIndex, deletion, moved, misplaced>>

\* Mutant: a run is put into its session's set when it is made, and not again.
IndexedAtBirth(k, of) ==
  [s \in SessionKeys |->
    IF s \in of /\ sessionRun[k] = NoSuchRun THEN runIndex[s] \cup {k} ELSE runIndex[s]]

Indexed(k, of) ==
  [s \in SessionKeys |-> IF s \in of THEN runIndex[s] \cup {k} ELSE runIndex[s]]

\* What is put names any session, whatever the run was in before; Redis leaves
\* it in the set of that one.
PutRunOf(k, is, of) ==
  /\ sessionRun' = [sessionRun EXCEPT ![k] = [is |-> is, of |-> of]]
  /\ runIndex' = IF sessionStore = "redis" THEN Indexed(k, of) ELSE runIndex
  /\ late' = IF of \subseteq sessions \ Going THEN late \ {k} ELSE late \cup {k}
  /\ moved' = IF sessionRun[k].of \subseteq of THEN moved ELSE moved \cup {k}
  /\ UNCHANGED <<sessionStore, sessions, deletion, ended, misplaced>>

\* A statement under way finds none of the rows that others delete meanwhile.
Unseen(runs, gone) ==
  [d \in Deleters |-> [deletion[d] EXCEPT !.runs = @ \ runs, !.found = @ \ gone]]

DeleteRunOf(k) ==
  /\ sessionRun[k] # NoSuchRun
  /\ sessionRun' = [sessionRun EXCEPT ![k] = NoSuchRun]
  /\ runIndex' = [s \in SessionKeys |->
                   IF s \in sessionRun[k].of THEN runIndex[s] \ {k} ELSE runIndex[s]]
  /\ deletion' = Unseen({k}, {})
  /\ late' = late \ {k}
  /\ UNCHANGED <<sessionStore, sessions, ended, moved, misplaced>>

\* s, if it is among those that go, and the runs that go with it.
SessionEnds(s, gone, runs) ==
  /\ sessions' = sessions \ gone
  /\ sessionRun' = [k \in RunKeys |-> IF k \in runs THEN NoSuchRun ELSE sessionRun[k]]
  /\ ended' = ended \cup ({s} \ sessions')
  /\ late' = late \ runs
  /\ misplaced' = misplaced \cup {k \in runs : sessionRun[k].of # {s}}
  /\ UNCHANGED moved

\* delete_session in memory and the script of Redis.  Memory looks no further
\* where there is no such session; Redis drops the index as well.
DeleteSession(s, cascade) ==
  /\ sessionStore # "postgres"
  /\ sessionStore = "memory" => s \in sessions
  /\ cascade \/ LiveOf(Listed(s)) = {}
  /\ SessionEnds(s, {s}, IF cascade THEN Listed(s) ELSE {})
  /\ runIndex' = [runIndex EXCEPT ![s] = {}]
  /\ UNCHANGED <<sessionStore, deletion>>

\* DELETE_SESSION of PostgreSQL begins: what its snapshot shows.
BeginDelete(d, s, cascade) ==
  /\ sessionStore = "postgres"
  /\ deletion[d] = NotDeleting
  /\ deletion' = [deletion EXCEPT ![d] =
       [of |-> {s}, cascade |-> cascade, found |-> sessions \cap {s},
        runs |-> OwnRuns(s), live |-> LiveOf(OwnRuns(s)) # {}]]
  /\ UNCHANGED <<sessionStore, sessions, sessionRun, runIndex, ended, late, moved, misplaced>>

\* It deletes the rows it saw, cascade or not, unless one of them was live; of
\* a row that has changed since, it looks again whose it is.
EndDelete(d, s) ==
  /\ deletion[d].of = {s}
  /\ deletion[d].cascade \/ ~deletion[d].live
  /\ SessionEnds(s, deletion[d].found, deletion[d].runs \cap OwnRuns(s))
  /\ deletion' = [Unseen(deletion[d].runs \cap OwnRuns(s), deletion[d].found)
                   EXCEPT ![d] = NotDeleting]
  /\ UNCHANGED <<sessionStore, runIndex>>

\* StateInUseError
DeleteRefused(d) ==
  /\ deletion[d].live /\ ~deletion[d].cascade
  /\ deletion' = [deletion EXCEPT ![d] = NotDeleting]
  /\ UNCHANGED <<sessionStore, sessions, sessionRun, runIndex, ended, late, moved, misplaced>>

\* A session of Redis that was not written for session_ttl_seconds.
SessionExpires(s) ==
  /\ sessionStore = "redis"
  /\ s \in sessions
  /\ sessions' = sessions \ {s}
  /\ UNCHANGED <<sessionStore, sessionRun, runIndex, deletion, ended, late, moved, misplaced>>

SessionsNext ==
  \/ \E s \in SessionKeys :
       \/ PutSession(s) \/ SessionExpires(s)
       \/ \E cascade \in BOOLEAN :
            DeleteSession(s, cascade) \/ \E d \in Deleters : BeginDelete(d, s, cascade)
       \/ \E d \in Deleters : EndDelete(d, s)
  \/ \E d \in Deleters : DeleteRefused(d)
  \/ \E k \in RunKeys :
       \/ DeleteRunOf(k)
       \/ \E is \in {"live", "over"}, of \in Joinable(k) : PutRunOf(k, is, of)

SessionsSpec == SessionsInit /\ [][SessionsNext]_sessionVars

SessionsTypeOK ==
  /\ sessionStore \in SessionStores
  /\ sessions \subseteq SessionKeys /\ ended \subseteq SessionKeys
  /\ sessionRun \in [RunKeys -> [is: {"absent", "live", "over"}, of: SUBSET SessionKeys]]
  /\ \A k \in RunKeys : sessionRun[k].of \in Joinable(k)
  /\ runIndex \in [SessionKeys -> SUBSET RunKeys]
  /\ deletion \in [Deleters -> [of: SUBSET SessionKeys, cascade: BOOLEAN,
                                found: SUBSET SessionKeys, runs: SUBSET RunKeys,
                                live: BOOLEAN]]
  /\ late \subseteq RunKeys /\ moved \subseteq RunKeys /\ misplaced \subseteq RunKeys

---------------------------------------------------------------------------

\* docs/state.md: "Deleting one that still has unfinished runs raises", because
\* a live run whose session is gone becomes work nothing will ever reap; and a
\* cascade removes "its runs".  Once a session is said to be deleted there is no
\* live run of it but one that was put into it since, or, in PostgreSQL, while
\* the statement ran.  In PostgreSQL no run goes with a session that is not its
\* own, and in Redis none but one that was moved, which the set of the session
\* it left still lists; in memory a session's id is taken for its own in every
\* tenant.
SessionsTakeTheirRuns ==
  /\ \A s \in ended : LiveOf(OwnRuns(s)) \subseteq late
  /\ sessionStore = "postgres" => misplaced = {}
  /\ sessionStore = "redis" => misplaced \subseteq moved
=============================================================================
