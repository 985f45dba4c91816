--------------------------- MODULE RunCredentials ---------------------------
(* runtime/credentials.py: the credentials of one run, shared by its        *)
(* concurrent tool calls.  A call takes the one held for its audience or,   *)
(* under the lock of the audience, asks what authority the run still has    *)
(* and mints one.  Audiences refresh at the same time.  Code between two    *)
(* awaits is one step; the waits of a retried mint are part of the mint.    *)
EXTENDS Naturals

CONSTANTS Callers, Audiences

VARIABLES
  halted,       \* _halted
  credential,   \* _held: per audience none, one near its expiry, or a usable one
  caller,       \* each call: where it stands, for which audience, and whether it
                \* is being made again
  mintedSince   \* how many credentials of an audience came after the halt

credentialVars == <<halted, credential, caller, mintedSince>>

CredentialsInit ==
  /\ halted = FALSE
  /\ credential = [a \in Audiences |-> "none"]
  /\ caller \in [Callers -> [at: {"idle"}, audience: Audiences, again: {FALSE}]]
  /\ mintedSince = [a \in Audiences |-> 0]

Usable(a) == credential[a] = "usable"

\* _usable: a live credential serves the call if its scopes are wide enough for
\* what this call needs, which differs from call to call: where one is held, a
\* call may take it or find it too narrow.
Served(c) ==
  {"waiting"} \cup {at \in {"calling"} : Usable(caller[c].audience)}

\* for_call asks for nothing else where the credential held serves the call.
ForCall(c) ==
  /\ caller[c].at \in {"idle", "refused"}
  /\ \E at \in Served(c) : caller' = [caller EXCEPT ![c].at = at]
  /\ UNCHANGED <<halted, credential, mintedSince>>

Locked(a) == \E c \in Callers : caller[c].audience = a /\ caller[c].at \in {"asking", "minting"}

\* Mutant: a refresh does not look at whether the run is halted.
RefreshesAnyway == TRUE

\* _current refuses a halted run before it asks anything.
MayRefresh == ~halted

LockFree(c) == caller[c].at = "waiting" /\ ~Locked(caller[c].audience)

\* _refresh with the lock in hand looks again: another caller may have minted
\* one that serves this call as well ...
FindMinted(c) ==
  /\ LockFree(c)
  /\ Usable(caller[c].audience)
  /\ caller' = [caller EXCEPT ![c].at = "calling"]
  /\ UNCHANGED <<halted, credential, mintedSince>>

\* ... and if not, or if it is too narrow, goes to the reauthoriser,
AskAuthority(c) ==
  /\ LockFree(c)
  /\ MayRefresh
  /\ caller' = [caller EXCEPT ![c].at = "asking"]
  /\ UNCHANGED <<halted, credential, mintedSince>>

\* unless the run is halted.
TurnedAway(c) ==
  /\ LockFree(c)
  /\ ~MayRefresh
  /\ caller' = [caller EXCEPT ![c].at = "idle", ![c].again = FALSE]
  /\ UNCHANGED <<halted, credential, mintedSince>>

\* The authority came back, wide enough for the call: the mint is asked.
Reauthorised(c) ==
  /\ caller[c].at = "asking"
  /\ caller' = [caller EXCEPT ![c].at = "minting"]
  /\ UNCHANGED <<halted, credential, mintedSince>>

\* The authority is too narrow, the reauthoriser or the mint cannot be
\* reached, or the task is cancelled: the lock goes, with nothing kept.
RefreshFails(c) ==
  /\ caller[c].at \in {"waiting", "asking", "minting"}
  /\ caller' = [caller EXCEPT ![c].at = "idle", ![c].again = FALSE]
  /\ UNCHANGED <<halted, credential, mintedSince>>

\* _halt: the authority was withdrawn, or the mint refused.
Halt(c) ==
  /\ caller[c].at \in {"asking", "minting"}
  /\ halted' = TRUE
  /\ credential' = [a \in Audiences |-> "none"]
  /\ caller' = [caller EXCEPT ![c].at = "idle", ![c].again = FALSE]
  /\ UNCHANGED mintedSince

\* The mint answers: what came is held, whatever has become of the run.
Minted(c) ==
  /\ caller[c].at = "minting"
  /\ credential' = [credential EXCEPT ![caller[c].audience] = "usable"]
  /\ caller' = [caller EXCEPT ![c].at = "calling"]
  /\ mintedSince' = IF halted THEN [mintedSince EXCEPT ![caller[c].audience] = @ + 1]
                              ELSE mintedSince
  /\ UNCHANGED halted

\* The call is over: it returned, raised, or was refused as expired either for
\* the second time or without an idempotency key.
CallReturns(c) ==
  /\ caller[c].at = "calling"
  /\ caller' = [caller EXCEPT ![c].at = "idle", ![c].again = FALSE]
  /\ UNCHANGED <<halted, credential, mintedSince>>

\* The far side refuses what it was shown as expired: whatever is held by now
\* is dropped, and a call with an idempotency key asks again, once.
Invalidate(c) ==
  /\ caller[c].at = "calling" /\ ~caller[c].again
  /\ credential' = [credential EXCEPT ![caller[c].audience] = "none"]
  /\ caller' = [caller EXCEPT ![c].at = "refused", ![c].again = TRUE]
  /\ UNCHANGED <<halted, mintedSince>>

\* suspend.
Suspend ==
  /\ credential' = [a \in Audiences |-> "none"]
  /\ UNCHANGED <<halted, caller, mintedSince>>

\* What is held comes within skew_seconds of its expiry.
Expires(a) ==
  /\ Usable(a)
  /\ credential' = [credential EXCEPT ![a] = "near"]
  /\ UNCHANGED <<halted, caller, mintedSince>>

CredentialsNext ==
  \/ Suspend
  \/ \E a \in Audiences : Expires(a)
  \/ \E c \in Callers :
       \/ ForCall(c) \/ FindMinted(c) \/ AskAuthority(c) \/ TurnedAway(c) \/ Reauthorised(c)
       \/ RefreshFails(c) \/ Halt(c) \/ Minted(c) \/ CallReturns(c) \/ Invalidate(c)

CredentialsSpec == CredentialsInit /\ [][CredentialsNext]_credentialVars

CredentialsTypeOK ==
  /\ halted \in BOOLEAN
  /\ credential \in [Audiences -> {"none", "near", "usable"}]
  /\ caller \in [Callers -> [at: {"idle", "waiting", "asking", "minting", "calling",
                                  "refused"}, audience: Audiences, again: BOOLEAN]]
  /\ mintedSince \in [Audiences -> Nat]

---------------------------------------------------------------------------

\* docs/credential-refresh.md: when the run halts, "Held credentials are
\* dropped, `halted` latches true, and every later call raises".  Of what was
\* held nothing is left, and of each audience one more credential can come, if
\* its mint was under way when another audience halted the run; it is handed
\* out until it nears its expiry and is never replaced.
HaltLatches ==
  halted => \A a \in Audiences :
              /\ mintedSince[a] <= 1
              /\ Usable(a) => mintedSince[a] = 1
=============================================================================
