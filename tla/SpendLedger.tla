---------------------------- MODULE SpendLedger ----------------------------
(* adapters/ledger.py: what one tenant may spend in a rolling window, shared *)
(* by replicas.  A run holds an allowance, says what it has spent so far,    *)
(* settles or gives the hold back; a hold whose lease lapsed is swept.       *)
(* InMemoryLedger works under a lock and RedisLedger in scripts, so that     *)
(* each call is one step.  A RESERVE of PostgresLedger is one statement, but *)
(* under READ COMMITTED it decides on the rows it could see when it began.   *)
(*                                                                           *)
(* Left out: calendar windows and shards, which change what is summed and    *)
(* not when; degraded mode, which is off unless a deployment asks for it;    *)
(* and replicas whose clocks differ.                                         *)
EXTENDS Integers, FiniteSets, FiniteSetsExt

CONSTANTS
  LedgerStores,     \* which of "memory", "redis" and "postgres" there may be
  Payers,           \* runs, each with a hold of its own
  Amounts,          \* what a run may ask for
  Ceiling,
  WindowLength,
  HoldLeases,       \* lease_seconds, which each reservation chooses
  MaxCharge,        \* bound: what a run spends, above its hold or not
  LedgerHorizon     \* bound: the ledger's clock

ASSUME LedgerAssumption ==
  /\ LedgerStores \subseteq {"memory", "redis", "postgres"}
  /\ IsFiniteSet(Payers)
  /\ Amounts \subseteq Nat \ {0}
  /\ HoldLeases \subseteq Nat
  /\ {Ceiling, WindowLength, MaxCharge, LedgerHorizon} \subseteq Nat

VARIABLES
  ledgerStore,
  ledgerTime,    \* _now, which never reads earlier than it has
  held,          \* the book of holds
  heldUntil,     \* when Redis drops the hash they are in
  charged,       \* the entries, by the hold they come from
  payer,         \* what each run is doing, and the Reservation it has
  told           \* what a run got through to the ledger of its spend

ledgerVars == <<ledgerStore, ledgerTime, held, heldUntil, charged, payer, told>>

NoHeld == [open |-> FALSE, amount |-> 0, expires |-> 0, progress |-> 0]
NoCharge == [times |-> 0, amount |-> 0, at |-> 0]
NoPayer == [step |-> "new", amount |-> 0, lease |-> 0, at |-> 0]

LedgerInit ==
  /\ ledgerStore \in LedgerStores
  /\ ledgerTime = 0
  /\ held = [r \in Payers |-> NoHeld]
  /\ heldUntil = 0
  /\ charged = [r \in Payers |-> NoCharge]
  /\ payer = [r \in Payers |-> NoPayer]
  /\ told = [r \in Payers |-> 0]

---------------------------------------------------------------------------

Open == {r \in Payers : held[r].open}

Lapsed == {r \in Open : held[r].expires <= ledgerTime}

\* A charge counts from when it is written; a row of Postgres from when the
\* hold was taken.
ChargeOf(r, amount) ==
  [times |-> charged[r].times + 1,
   amount |-> charged[r].amount + amount,
   at |-> IF ledgerStore = "postgres" THEN payer[r].at ELSE ledgerTime]

\* Mutant: a swept hold is released whatever its run had spent by then.
ChargesForgotten == charged

\* _sweep, `swept`, RECONCILE: lapsed holds close, for what their runs said.
SweptHolds == [r \in Payers |-> IF r \in Lapsed THEN NoHeld ELSE held[r]]
SweptCharges ==
  [r \in Payers |-> IF r \in Lapsed /\ held[r].progress > 0 THEN ChargeOf(r, held[r].progress)
                                                            ELSE charged[r]]

Counts(at) == at >= ledgerTime - WindowLength

\* _window, over given holds and charges.
Committed(holds, charges) ==
  LET entries == {r \in Payers : charges[r].times > 0 /\ Counts(charges[r].at)}
      reserved == {r \in Payers : holds[r].open
                                  /\ (ledgerStore = "postgres" => Counts(payer[r].at))}
  IN  MapThenSumSet(LAMBDA r : charges[r].amount, entries)
        + MapThenSumSet(LAMBDA r : holds[r].amount, reserved)

Taking(holds, r, amount, lease) ==
  [holds EXCEPT ![r] = [open |-> TRUE, amount |-> amount, expires |-> ledgerTime + lease,
                        progress |-> 0]]

\* What a run is handed.
Reservation(step, amount, lease) ==
  [step |-> step, amount |-> amount, lease |-> lease, at |-> ledgerTime]

\* Mutant: what is held and not yet spent is left out of the ceiling check.
SettledFits(holds, charges, amount) ==
  Committed([r \in Payers |-> NoHeld], charges) + amount <= Ceiling

Fits(holds, charges, amount) == Committed(holds, charges) + amount <= Ceiling

---------------------------------------------------------------------------

\* reserve, in memory and in RESERVE: sweep, check and hold at once.  A grant
\* puts off the end of the hash of holds (EXPIRE).
LedgerReserve(r, amount, lease) ==
  /\ payer[r].step = "new"
  /\ ledgerStore # "postgres"
  /\ charged' = SweptCharges
  /\ IF Fits(SweptHolds, SweptCharges, amount)
     THEN /\ held' = Taking(SweptHolds, r, amount, lease)
          /\ heldUntil' = ledgerTime + 2 * WindowLength
          /\ payer' = [payer EXCEPT ![r] = Reservation("spending", amount, lease)]
     ELSE /\ held' = SweptHolds
          /\ UNCHANGED <<heldUntil, payer>>
  /\ UNCHANGED <<ledgerStore, ledgerTime, told>>

\* RESERVE_SQL begins: window_now sums the rows as they are, lapsed holds in
\* full.
AskPostgres(r, amount, lease) ==
  /\ payer[r].step = "new"
  /\ ledgerStore = "postgres"
  /\ Fits(held, charged, amount)
  /\ payer' = [payer EXCEPT ![r] = Reservation("asking", amount, lease)]
  /\ UNCHANGED <<ledgerStore, ledgerTime, held, heldUntil, charged, told>>

\* RESERVE_SQL commits: what it swept, and the row it decided to insert.
LandPostgres(r) ==
  /\ payer[r].step = "asking"
  /\ charged' = SweptCharges
  /\ held' = Taking(SweptHolds, r, payer[r].amount, payer[r].lease)
  /\ payer' = [payer EXCEPT ![r].step = "spending"]
  /\ UNCHANGED <<ledgerStore, ledgerTime, heldUntil, told>>

\* record_progress: an open hold takes it, lapsed or not, more than it holds
\* or not.
LedgerProgress(r, spent) ==
  /\ payer[r].step = "spending"
  /\ held[r].open
  /\ told[r] < spent
  /\ held' = [held EXCEPT ![r].progress = spent]
  /\ told' = [told EXCEPT ![r] = spent]
  /\ UNCHANGED <<ledgerStore, ledgerTime, heldUntil, charged, payer>>

\* Whether the hold is still there to close: _claim sweeps first, SETTLE_SQL
\* asks for an unexpired row, SETTLE of Redis for one nobody swept.
Closable(r) == held[r].open /\ (ledgerStore = "redis" \/ r \notin Lapsed)

\* What a call that sweeps first makes of the book.
BookHolds == IF ledgerStore = "memory" THEN SweptHolds ELSE held
BookCharges == IF ledgerStore = "memory" THEN SweptCharges ELSE charged

\* settle and release (which is settling nothing), and their reply: the run is
\* done, or it never hears and will ask again.  A refusal
\* (BudgetUnavailableError) ends it as well.  What is settled may be more than
\* was held.
LedgerSettle(r, actual) ==
  /\ payer[r].step = "spending"
  /\ actual = 0 \/ told[r] <= actual
  /\ IF Closable(r)
     THEN /\ held' = [BookHolds EXCEPT ![r] = NoHeld]
          /\ charged' = IF actual = 0 THEN BookCharges
                                      ELSE [BookCharges EXCEPT ![r] = ChargeOf(r, actual)]
          /\ told' = [told EXCEPT ![r] = actual]
          /\ payer' \in {payer, [payer EXCEPT ![r].step = "done"]}
     ELSE /\ held' = BookHolds
          /\ charged' = BookCharges
          /\ payer' = [payer EXCEPT ![r].step = "done"]
          /\ UNCHANGED told
  /\ UNCHANGED <<ledgerStore, ledgerTime, heldUntil>>

\* reconcile.
Reconcile ==
  /\ Lapsed # {}
  /\ held' = SweptHolds
  /\ charged' = SweptCharges
  /\ UNCHANGED <<ledgerStore, ledgerTime, heldUntil, payer, told>>

\* The replica of a run dies, leaving its hold to the sweep.
PayerDies(r) ==
  /\ payer[r].step # "done"
  /\ payer' = [payer EXCEPT ![r].step = "done"]
  /\ UNCHANGED <<ledgerStore, ledgerTime, held, heldUntil, charged, told>>

\* A statement is over before the clock moves on.  Redis drops the hash of
\* holds, unswept, two windows after the last grant.
LedgerTick ==
  /\ ledgerTime < LedgerHorizon
  /\ \A r \in Payers : payer[r].step # "asking"
  /\ ledgerTime' = ledgerTime + 1
  /\ held' = IF ledgerStore = "redis" /\ heldUntil <= ledgerTime' THEN [r \in Payers |-> NoHeld]
                                                                  ELSE held
  /\ UNCHANGED <<ledgerStore, heldUntil, charged, payer, told>>

LedgerNext ==
  \/ Reconcile \/ LedgerTick
  \/ \E r \in Payers :
       \/ LandPostgres(r) \/ PayerDies(r)
       \/ \E amount \in Amounts, lease \in HoldLeases :
            LedgerReserve(r, amount, lease) \/ AskPostgres(r, amount, lease)
       \/ \E spent \in 0..MaxCharge : LedgerProgress(r, spent) \/ LedgerSettle(r, spent)

LedgerSpec == LedgerInit /\ [][LedgerNext]_ledgerVars

LedgerTypeOK ==
  /\ ledgerStore \in LedgerStores
  /\ ledgerTime \in 0..LedgerHorizon
  /\ held \in [Payers -> [open: BOOLEAN, amount: Nat, expires: Nat, progress: Nat]]
  /\ heldUntil \in Nat
  /\ charged \in [Payers -> [times: Nat, amount: Nat, at: Nat]]
  /\ payer \in [Payers -> [step: {"new", "asking", "spending", "done"}, amount: Amounts \cup {0},
                           lease: HoldLeases \cup {0}, at: Nat]]
  /\ told \in [Payers -> Nat]

---------------------------------------------------------------------------

\* Charges, each up to what its run reserved.
UpToReserved(charges, payers) ==
  [r \in Payers |->
     [charges[r] EXCEPT !.amount = IF @ > payers[r].amount THEN payers[r].amount ELSE @]]

\* What has been charged within the window and what is held pass the ceiling
\* by no more than runs spent above their own reservations, whatever lapses,
\* is swept, settled late or asked for again: settle takes any amount
\* (tests/test_ledger.py:74), but no allowance is granted twice.  Not so on
\* Postgres, where two statements each decide without seeing the row the
\* other inserts.
CeilingHolds ==
  ledgerStore # "postgres" => Committed(held, UpToReserved(charged, payer)) <= Ceiling

\* docs/ledger.md: the window is "neither permanently reduced by a dead
\* replica nor credited with spend that did happen".  A hold that is closed
\* was charged what its run last got through, once: not again by a retry of
\* the settlement, nor by the sweep it raced.  Redis forgets that spend where
\* nobody swept the hold before its hash went, two windows after it was taken.
Forgettable(r) == ledgerStore = "redis" /\ payer[r].at + 2 * WindowLength <= ledgerTime

ChargedAsTold ==
  \A r \in Payers :
    /\ charged[r].times <= 1
    /\ ~held[r].open => charged[r].amount = told[r] \/ (charged[r].times = 0 /\ Forgettable(r))
=============================================================================
