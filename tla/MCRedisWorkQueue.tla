-------------------------- MODULE MCRedisWorkQueue --------------------------
(* Small instances of RedisWorkQueue.                                       *)
EXTENDS RedisWorkQueue, TLC

CONSTANTS i1, i2, i3, k1

\* Every client claims under a name of its own, which is its own.
OwnName == [c \in Clients |-> c]

\* Items of one tenant; the same with the third another's.
OneTenant == [i \in Items |-> 1]
TwoTenants == [i \in Items |-> IF i = i3 THEN 2 ELSE 1]

\* The first two items are one logical job; or every item is its own.
SharedKey == [i \in Items |-> IF i = i3 THEN None ELSE k1]
NoKeys == [i \in Items |-> None]

SecondIsUrgent == [i \in Items |-> IF i = i2 THEN 1 ELSE 0]

\* An item nobody has tried, and a dead letter sent again as it was read.
Fresh == [attempts |-> 0, available_at |-> 0, first_claimed_at |-> None]
SentAgain == [attempts |-> 2, available_at |-> 1, first_claimed_at |-> 0]
OnlyFresh == {Fresh}
OnlySentAgain == {SentAgain}
FreshOrSentAgain == {Fresh, SentAgain}

AnyCall == Calls
TheClaim == {"claim"}

ClientSymmetry == Permutations(Clients)
=============================================================================
