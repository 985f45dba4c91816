-------------------------- MODULE MCEventDelivery --------------------------
(* Small instances of EventDelivery.                                        *)
EXTENDS EventDelivery, TLC

CONSTANTS e1, e2

\* Two events of one run; or of two, of which the transport will not carry
\* the second, and whose ids are drawn in either order.
OneRun == [runOf |-> [e \in Events |-> 1], oversized |-> {},
           id |-> [e \in Events |-> IF e = e1 THEN 1 ELSE 2]]
TwoRuns(first) ==
  [runOf |-> [e \in Events |-> IF e = e1 THEN 1 ELSE 2], oversized |-> {e2},
   id |-> [e \in Events |-> IF e = first THEN 1 ELSE 2]]
Either == {OneRun} \cup {TwoRuns(first) : first \in Events}
=============================================================================
