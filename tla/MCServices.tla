----------------------------- MODULE MCServices -----------------------------
(* Small instances of the parts of Services.                                *)
EXTENDS Services

CONSTANTS c1, c2, c3, c4, c5, tx, ty, a, b

\* What five calls are: above whom, in which turn, whose, of which tool.
Load(above, turn, tenant, tool) ==
  [above |-> [c \in LaneCalls |-> above[c]], turn |-> [c \in LaneCalls |-> turn[c]],
   tenant |-> [c \in LaneCalls |-> tenant[c]], tool |-> [c \in LaneCalls |-> tool[c]]]

Five(v, w, x, y, z) ==
  [c \in LaneCalls |-> CASE c = c1 -> v [] c = c2 -> w [] c = c3 -> x [] c = c4 -> y [] c = c5 -> z]

\* Two runs whose nested calls cross; a call nested in a nested call, beside
\* siblings that want its tool; and the nested calls of two siblings.
SmallLoads ==
  {Load(Five({}, {}, {c1}, {c2}, {}), Five("r1", "r2", "n1", "n2", "r3"),
        Five("t", "t", "t", "t", "u"), Five(tx, ty, ty, tx, tx)),
   Load(Five({}, {c1}, {c1, c2}, {}, {}), Five("r1", "n1", "n2", "r1", "r1"),
        Five("t", "t", "t", "t", "t"), Five(tx, ty, tx, ty, tx)),
   Load(Five({}, {}, {c1}, {c1}, {c2}), Five("r1", "r1", "n1", "n1", "n2"),
        Five("t", "t", "t", "t", "t"), Five(tx, tx, ty, ty, tx))}

OneEach == [t \in LaneTools |-> 1]

\* Both tools paired, with a store to ask and without; one that nothing takes
\* back; and one that no reversal is paired with.
SmallSagas ==
  {[irreversible |-> {}, paired |-> {a, b}, queried |-> q] : q \in BOOLEAN}
    \cup {[irreversible |-> {b}, paired |-> {a, b}, queried |-> TRUE],
          [irreversible |-> {}, paired |-> {a}, queried |-> FALSE]}

\* A chain whose last step is its first over again; one written out of order,
\* with a step that has no key; and one that waits for itself.
Three(x, y, z) == [s \in Steps |-> CASE s = 1 -> x [] s = 2 -> y [] s = 3 -> z]

SmallPlans ==
  {[after |-> Three({}, {1}, {1, 2}), key |-> Three("k", "l", "k")],
   [after |-> Three({3}, {}, {}), key |-> Three("k", "none", "l")],
   [after |-> Three({3}, {}, {1}), key |-> Three("k", "l", "k")]}

\* Three branches without a slice; two with slices, one of them its worker's,
\* that write one key beside another worker's; and a key two workers want, with
\* a slice that may find nothing left.
Task(worker, writes, slice, own) ==
  [worker |-> worker, writes |-> writes, slice |-> slice, own |-> own]

SmallFans ==
  {<<Task("x", "none", 0, FALSE), Task("y", "none", 0, FALSE), Task("x", "none", 0, FALSE)>>,
   <<Task("x", "k", 2, TRUE), Task("x", "k", 2, FALSE), Task("y", "k", 0, FALSE)>>,
   <<Task("x", "none", 2, FALSE), Task("y", "k", 0, FALSE), Task("z", "k", 3, TRUE)>>,
   <<Task("x", "none", 0, FALSE), Task("y", "none", 0, FALSE), Task("z", "none", 3, TRUE)>>}

\* Two sessions of one tenant, and one of another that has the id of the first.
TenantSessions ==
  {[tenant |-> "t", id |-> "s"], [tenant |-> "t", id |-> "z"], [tenant |-> "u", id |-> "s"]}

TenantRuns == {[tenant |-> "t", id |-> "r"], [tenant |-> "u", id |-> "r"]}
=============================================================================
