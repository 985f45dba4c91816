-------------------------- MODULE CoalescingLedger --------------------------
(* adapters/ledger.py, CoalescingLedger: allowance is taken from an          *)
(* InMemoryLedger in blocks and drawn down locally.  A block is a hold of    *)
(* SpendLedger; other payers of the window reserve from it directly.  Every  *)
(* call runs under the lock: one step.                                       *)
EXTENDS SpendLedger

CONSTANTS
  Blocks,       \* of the Payers, those this ledger takes
  BlockSize,
  Draws,
  NoBlock

VARIABLES
  current,    \* _blocks[name], which may be a block already given back
  block,      \* left and spent of each block
  draw        \* outstanding: the block and the amount of each draw

blockVars == <<ledgerVars, current, block, draw>>

NoDraw == [block |-> NoBlock, amount |-> 0]

BlocksInit ==
  /\ LedgerInit
  /\ current = NoBlock
  /\ block = [b \in Blocks |-> [left |-> 0, spent |-> 0]]
  /\ draw = [d \in Draws |-> NoDraw]

Room(amount) == current # NoBlock /\ block[current].left >= amount

\* reserve where the block has room left, which asks the ledger nothing.
DrawDown(d, amount) ==
  /\ draw[d] = NoDraw
  /\ Room(amount)
  /\ block' = [block EXCEPT ![current].left = @ - amount]
  /\ draw' = [draw EXCEPT ![d] = [block |-> current, amount |-> amount]]
  /\ UNCHANGED <<ledgerVars, current>>

\* _give_back: settling the current block for what it spent, where its hold
\* has not lapsed; otherwise that raises, and leaves the block where it is.
GivenBack ==
  IF current = NoBlock \/ block[current].spent = 0
  THEN SweptCharges
  ELSE [SweptCharges EXCEPT ![current] = ChargeOf(current, block[current].spent)]

Returnable == current # NoBlock => Closable(current)

BookWithout == [SweptHolds EXCEPT ![current] = NoHeld]
Remaining == IF current = NoBlock THEN SweptHolds ELSE BookWithout

\* reserve where it has not: the block goes back, draws outstanding or not,
\* and another is taken.
DrawAnew(d, amount, lease, b) ==
  /\ draw[d] = NoDraw
  /\ amount <= BlockSize
  /\ ~Room(amount)
  /\ Returnable
  /\ payer[b].step = "new"
  /\ charged' = GivenBack
  /\ IF Fits(Remaining, GivenBack, BlockSize)
     THEN /\ held' = Taking(Remaining, b, BlockSize, lease)
          /\ payer' = [payer EXCEPT ![b] = Reservation("spending", BlockSize, lease)]
          /\ current' = b
          /\ block' = [block EXCEPT ![b] = [left |-> BlockSize - amount, spent |-> 0]]
          /\ draw' = [draw EXCEPT ![d] = [block |-> b, amount |-> amount]]
     ELSE /\ held' = Remaining
          /\ UNCHANGED <<payer, current, block, draw>>
  /\ UNCHANGED <<ledgerStore, ledgerTime, heldUntil, told>>

\* settle and release of a draw of the current block; one of a block that has
\* been replaced is settled with the ledger, which has never heard of it.
DrawSettle(d, actual) ==
  /\ draw[d] # NoDraw
  /\ block' = IF draw[d].block # current THEN block
              ELSE [block EXCEPT ![current].left = @ + draw[d].amount - actual,
                                 ![current].spent = @ + actual]
  /\ draw' = [draw EXCEPT ![d] = NoDraw]
  /\ UNCHANGED <<ledgerVars, current>>

\* record_progress of a draw of the current block.
DrawProgress(d, spent) ==
  /\ draw[d] # NoDraw
  /\ draw[d].block = current
  /\ held[current].open
  /\ held' = [held EXCEPT ![current].progress = block[current].spent + spent]
  /\ UNCHANGED <<ledgerStore, ledgerTime, heldUntil, charged, payer, told, current, block, draw>>

\* flush.
Flush ==
  /\ current # NoBlock
  /\ Returnable
  /\ held' = BookWithout
  /\ charged' = GivenBack
  /\ current' = NoBlock
  /\ UNCHANGED <<ledgerStore, ledgerTime, heldUntil, payer, told, block, draw>>

\* Here no run spends above what it holds or has drawn: the ceiling is not
\* passed for that.
BlocksNext ==
  \/ Flush
  \/ \E d \in Draws, amount \in Amounts, lease \in HoldLeases :
       DrawDown(d, amount) \/ \E b \in Blocks : DrawAnew(d, amount, lease, b)
  \/ \E d \in Draws : \E spent \in 0..draw[d].amount : DrawSettle(d, spent) \/ DrawProgress(d, spent)
  \/ /\ \/ Reconcile \/ LedgerTick
        \/ \E r \in Payers \ Blocks :
             \/ \E amount \in Amounts, lease \in HoldLeases : LedgerReserve(r, amount, lease)
             \/ \E spent \in 0..held[r].amount : LedgerSettle(r, spent)
     /\ UNCHANGED <<current, block, draw>>

BlocksSpec == BlocksInit /\ [][BlocksNext]_blockVars

---------------------------------------------------------------------------

\* docs/ledger.md: "The block is held in the underlying ledger for its whole
\* life, so no other replica can spend it and the ceiling still holds."  What
\* has been charged, what is held, and the draws some run may still spend
\* although their block is no longer held, stay under the ceiling.
Unheld == {d \in Draws : draw[d] # NoDraw /\ ~held[draw[d].block].open}

DrawsFitTheCeiling ==
  Committed(held, charged) + MapThenSumSet(LAMBDA d : draw[d].amount, Unheld) <= Ceiling
=============================================================================
