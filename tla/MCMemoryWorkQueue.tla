------------------------- MODULE MCMemoryWorkQueue -------------------------
(* Small instances of MemoryWorkQueue.                                      *)
EXTENDS MemoryWorkQueue, TLC

CONSTANTS i1, i2, i3, k1

\* Two of one tenant's items are the same logical job; the third item, where
\* there is one, is another tenant's.
TwoTenants == [i \in Items |-> IF i = i3 THEN 2 ELSE 1]
SharedKey == [i \in Items |-> IF i = i3 THEN None ELSE k1]
SecondIsUrgent == [i \in Items |-> IF i = i2 THEN 1 ELSE 0]

\* An item nobody has tried, and a dead letter sent again as it was read.
Fresh == [attempts |-> 0, available_at |-> 0, first_claimed_at |-> None]
SentAgain == [attempts |-> 2, available_at |-> 1, first_claimed_at |-> 0]
FreshOrSentAgain == {Fresh, SentAgain}

WorkerSymmetry == Permutations(Workers)
=============================================================================
