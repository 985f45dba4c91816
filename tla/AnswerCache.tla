----------------------------- MODULE AnswerCache ------------------------------
(* CachingProvider of models/cache.py: callers of one process look a key up  *)
(* in the store, wait for whoever is already calling the model for it, or    *)
(* call and store the answer.  Looking up, dropping an expired entry, the    *)
(* call and the store are awaits; the table of calls in flight is looked at  *)
(* and changed between them.  Refused calls and the semantic tier are left   *)
(* out: the first touch nothing, the second only reads more.                 *)
EXTENDS FiniteSets

CONSTANTS Askers, Digests, Nothing

ASSUME CacheAssumption == Nothing \notin Askers /\ Digests # {}

VARIABLES
  asker,      \* how far a caller got, for which key, behind which caller
  entry,      \* the store: no entry, one that is servable, one that has expired
  inflight    \* _inflight: per key, who calls the model

cacheVars == <<asker, entry, inflight>>

NotAsking(k) == [at |-> "idle", key |-> k, behind |-> Nothing]

CacheInit ==
  /\ asker = [c \in Askers |-> NotAsking(CHOOSE k \in Digests : TRUE)]
  /\ entry = [k \in Digests |-> "none"]
  /\ inflight = [k \in Digests |-> Nothing]

AskerGoes(c, at) == asker' = [asker EXCEPT ![c].at = at]

Ask(c, k) ==
  /\ asker[c].at \in {"idle", "answered", "failed"}
  /\ asker' = [asker EXCEPT ![c] = [NotAsking(k) EXCEPT !.at = "looking"]]
  /\ UNCHANGED <<entry, inflight>>

\* _served finds something; what has expired is dropped first.
Hit(c) ==
  /\ asker[c].at = "looking"
  /\ entry[asker[c].key] # "none"
  /\ AskerGoes(c, IF entry[asker[c].key] = "fresh" THEN "answered" ELSE "dropping")
  /\ UNCHANGED <<entry, inflight>>

\* _live: the caller leads, unless somebody does already.
Joins(c) ==
  LET leader == inflight[asker[c].key]
  IN  IF leader = Nothing
      THEN /\ AskerGoes(c, "calling")
           /\ inflight' = [inflight EXCEPT ![asker[c].key] = c]
      ELSE /\ asker' = [asker EXCEPT ![c].at = "waiting", ![c].behind = leader]
           /\ UNCHANGED inflight

\* Nothing is there, or the store cannot say.
Miss(c) ==
  /\ asker[c].at = "looking"
  /\ Joins(c)
  /\ UNCHANGED entry

\* _drop purges whatever the store has by now, or fails to.
Drop(c) ==
  /\ asker[c].at = "dropping"
  /\ entry' \in {entry, [entry EXCEPT ![asker[c].key] = "none"]}
  /\ Joins(c)

\* The future is settled: the leader goes on, and so do those behind it.
Settled(c, leads, waits) ==
  [d \in Askers |->
     IF d = c THEN [asker[d] EXCEPT !.at = leads]
     ELSE IF asker[d].at = "waiting" /\ asker[d].behind = c THEN [asker[d] EXCEPT !.at = waits]
     ELSE asker[d]]

LeadOver(c) == inflight' = [inflight EXCEPT ![asker[c].key] = Nothing]

ModelAnswers(c) ==
  /\ asker[c].at = "calling"
  /\ asker' = Settled(c, "storing", "answered")
  /\ LeadOver(c)
  /\ UNCHANGED entry

\* Mutant: a leader that is cancelled takes its key out and settles nothing.
LeftUnsettled(c) == [asker EXCEPT ![c].at = "failed"]

\* Whatever the call raises, a cancellation of the leader included, goes to
\* those who wait as well.
Failing(c) == Settled(c, "failed", "failed")

ModelFails(c) ==
  /\ asker[c].at = "calling"
  /\ asker' = Failing(c)
  /\ LeadOver(c)
  /\ UNCHANGED entry

\* _stored, or an outage of the store.
Store(c) ==
  /\ asker[c].at = "storing"
  /\ entry' \in {entry, [entry EXCEPT ![asker[c].key] = "fresh"]}
  /\ AskerGoes(c, "answered")
  /\ UNCHANGED inflight

\* Who waits may be cancelled; the shield keeps the call going.
WaiterGivesUp(c) ==
  /\ asker[c].at = "waiting"
  /\ AskerGoes(c, "failed")
  /\ UNCHANGED <<entry, inflight>>

Expire(k) ==
  /\ entry[k] = "fresh"
  /\ entry' = [entry EXCEPT ![k] = "expired"]
  /\ UNCHANGED <<asker, inflight>>

\* forget: the entries go; a call in flight goes on.
ForgetEntries ==
  /\ entry' = [k \in Digests |-> "none"]
  /\ entry' # entry
  /\ UNCHANGED <<asker, inflight>>

CacheNext ==
  \/ \E c \in Askers :
       \/ Hit(c) \/ Miss(c) \/ Drop(c) \/ ModelAnswers(c) \/ ModelFails(c)
       \/ Store(c) \/ WaiterGivesUp(c)
       \/ \E k \in Digests : Ask(c, k)
  \/ \E k \in Digests : Expire(k)
  \/ ForgetEntries

CacheSpec == CacheInit /\ [][CacheNext]_cacheVars

CacheTypeOK ==
  /\ asker \in [Askers -> [at: {"idle", "looking", "dropping", "calling", "waiting", "storing",
                                "answered", "failed"},
                           key: Digests, behind: Askers \cup {Nothing}]]
  /\ entry \in [Digests -> {"none", "fresh", "expired"}]
  /\ inflight \in [Digests -> Askers \cup {Nothing}]

---------------------------------------------------------------------------

Calling(k) == {c \in Askers : asker[c].at = "calling" /\ asker[c].key = k}

\* docs/response-caching.md: concurrent callers of a cold key wait on one call,
\* and a failed one "does not leave the key wedged".  Whoever is cancelled, fails
\* or asks again, one call at a time is shared for a key, the table names its
\* caller, and nobody waits behind a call that is over.
NoKeyIsWedged ==
  /\ \A k \in Digests : Calling(k) = {inflight[k]} \ {Nothing}
  /\ \A c \in Askers : asker[c].at = "waiting" => asker[c].behind \in Calling(asker[c].key)
==============================================================================
