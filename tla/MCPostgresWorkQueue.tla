------------------------ MODULE MCPostgresWorkQueue ------------------------
(* Small instances of PostgresWorkQueue.                                    *)
EXTENDS PostgresWorkQueue, TLC

CONSTANTS i1, i2, k1

\* Every client claims under a name of its own, which is its own.
OwnName == [c \in Clients |-> c]

OneTenant == [i \in Items |-> 1]

\* Both items are one logical job; or every item is its own.
SharedKey == [i \in Items |-> k1]
NoKeys == [i \in Items |-> None]

SecondIsUrgent == [i \in Items |-> IF i = i2 THEN 1 ELSE 0]

\* An item nobody has tried, and a dead letter sent again as it was read.
Fresh == [attempts |-> 0, available_at |-> 0, first_claimed_at |-> None]
SentAgain == [attempts |-> 2, available_at |-> 1, first_claimed_at |-> 0]
FreshOrSentAgain == {Fresh, SentAgain}

\* Where a client may stop.
WorkersCalls == {"claim", "complete", "fail"}
=============================================================================
