-------------------------- MODULE FiniteSetLemmas --------------------------
(* Facts about finite sets and natural numbers that several components'     *)
(* proofs rest on.  Induction is by sets of exceptions: a set that has no   *)
(* least element is empty.                                                  *)
EXTENDS Integers, FiniteSets, FiniteSetTheorems, WellFoundedInduction, TLAPS

\* Induction over the subsets of a finite set: a property whose exceptions do not
\* include the empty set, and of which each has a smaller one, has none.
LEMMA LeastException ==
  ASSUME NEW S, IsFiniteSet(S), NEW bad \in SUBSET (SUBSET S), {} \notin bad,
         \A T \in bad : \E x \in T : T \ {x} \in bad
  PROVE  bad = {}
<1> SUFFICES ASSUME bad # {} PROVE FALSE
  OBVIOUS
<1>1. bad \subseteq FiniteSubsetsOf(S)
  BY FS_FiniteSubsetsOfFinite
<1>2. PICK T \in bad : \A U \in bad : <<U, T>> \notin StrictSubsetOrdering(S)
  BY <1>1, FS_StrictSubsetOrderingWellFounded, WFMin
<1>3. PICK x \in T : T \ {x} \in bad
  BY <1>2
<1>4. <<T \ {x}, T>> \in StrictSubsetOrdering(S)
  BY <1>2, <1>3 DEF StrictSubsetOrdering
<1> QED
  BY <1>2, <1>3, <1>4

LEMMA CountUpTo == \A n \in Nat : IsFiniteSet(1..n) /\ Cardinality(1..n) = n
<1> TAKE n \in Nat
<1>1. 1 \in Int /\ n \in Int
  OBVIOUS
<1>2. IsFiniteSet(1..n) /\ Cardinality(1..n) = IF 1 > n THEN 0 ELSE n - 1 + 1
  BY <1>1, FS_Interval
<1> QED
  BY <1>2

\* A set of natural numbers has a least one.
LEMMA LeastNatural ==
  ASSUME NEW S \in SUBSET Nat, S # {}
  PROVE  \E m \in S : \A n \in S : m <= n
<1>1. \E m \in S : \A n \in S : <<n, m>> \notin OpToRel(<, Nat)
  BY NatLessThanWellFounded, WFMin
<1>2. PICK m \in S : \A n \in S : ~(n < m)
  BY <1>1 DEF OpToRel
<1>3. m \in Nat /\ \A n \in S : n \in Nat
  BY <1>2
<1> QED
  BY <1>2, <1>3

\* A finite set that is totally ordered has a first element.
LEMMA FirstElement ==
  ASSUME NEW S, IsFiniteSet(S), S # {}, NEW before,
         \A x, y \in S : x # y => <<x, y>> \in before \/ <<y, x>> \in before,
         \A x, y, z \in S : <<x, y>> \in before /\ <<y, z>> \in before => <<x, z>> \in before
  PROVE  \E x \in S : \A y \in S \ {x} : <<x, y>> \in before
<1> DEFINE Leads(x, T) == x \in T /\ \A y \in T \ {x} : <<x, y>> \in before
           bad == {T \in SUBSET S : T # {} /\ \A x \in T : ~Leads(x, T)}
<1>1. {} \notin bad
  OBVIOUS
<1>2. ASSUME NEW T \in bad PROVE \E x \in T : T \ {x} \in bad
  <2>1. T \in SUBSET S /\ T # {} /\ \A x \in T : ~Leads(x, T)
    OBVIOUS
  <2>2. PICK x \in T : TRUE
    BY <2>1
  <2>3. T \ {x} # {}
    BY <2>1, <2>2
  <2>4. ASSUME NEW z \in T \ {x}, Leads(z, T \ {x}) PROVE FALSE
    <3>1. x \in S /\ z \in S /\ z # x
      BY <2>1, <2>2
    <3>2. CASE <<z, x>> \in before
      <4>1. Leads(z, T)
        BY <2>4, <3>2
      <4> QED
        BY <2>1, <4>1
    <3>3. CASE <<x, z>> \in before
      <4>1. ASSUME NEW y \in T \ {x} PROVE <<x, y>> \in before
        <5>1. CASE y = z
          BY <3>3, <5>1
        <5>2. CASE y # z
          BY <2>1, <2>4, <3>1, <3>3, <5>2
        <5> QED
          BY <5>1, <5>2
      <4>2. Leads(x, T)
        BY <2>2, <4>1
      <4> QED
        BY <2>1, <2>2, <4>2
    <3> QED
      BY <3>1, <3>2, <3>3
  <2> HIDE DEF Leads
  <2> QED
    BY <2>1, <2>2, <2>3, <2>4
<1>3. bad \in SUBSET (SUBSET S)
  OBVIOUS
<1>4. bad = {}
  <2> HIDE DEF bad
  <2> QED
    BY <1>1, <1>2, <1>3, LeastException
<1>5. S \notin bad
  BY <1>4
<1> QED
  BY <1>5

\* A finite set of numbers has a greatest one.
LEMMA GreatestNatural ==
  ASSUME NEW S, \A n \in S : n \in Nat, IsFiniteSet(S), S # {}
  PROVE  \E m \in S : \A n \in S : n <= m
<1> DEFINE above == {p \in S \X S : p[1] > p[2]}
<1>1. \A x, y \in S : x # y => <<x, y>> \in above \/ <<y, x>> \in above
  OBVIOUS
<1>2. \A x, y, z \in S : <<x, y>> \in above /\ <<y, z>> \in above => <<x, z>> \in above
  OBVIOUS
<1> HIDE DEF above
<1>3. \E m \in S : \A n \in S \ {m} : <<m, n>> \in above
  BY <1>1, <1>2, FirstElement, SMT
<1>4. PICK m \in S : \A n \in S \ {m} : m > n
  BY <1>3 DEF above
<1>5. m \in Nat /\ \A n \in S : n \in Nat
  OBVIOUS
<1> QED
  BY <1>4, <1>5

\* The elements of a finite set of numbers can be counted off in order: for each
\* rank there is the element that has as many below it.
LEMMA RankedElement ==
  ASSUME NEW S \in SUBSET Nat, IsFiniteSet(S), NEW k \in Nat, k < Cardinality(S)
  PROVE  \E t \in S : Cardinality({u \in S : u < t}) = k
<1> DEFINE Below(T, t) == {u \in T : u < t}
           bad == {T \in SUBSET S : /\ k < Cardinality(T)
                                    /\ \A t \in T : Cardinality(Below(T, t)) # k}
<1>1. {} \notin bad
  BY FS_EmptySet
<1>2. ASSUME NEW T \in bad PROVE \E x \in T : T \ {x} \in bad
  <2>1. /\ T \in SUBSET S /\ T \in SUBSET Nat /\ k < Cardinality(T) /\ T # {}
        /\ \A t \in T : Cardinality(Below(T, t)) # k
    BY FS_EmptySet
  <2>2. IsFiniteSet(T)
    BY <2>1, FS_Subset
  <2>3. PICK m \in T : \A n \in T : n <= m
    BY <2>1, <2>2, GreatestNatural
  <2>4. Below(T, m) = T \ {m}
    <3>1. \A n \in T : n \in Nat /\ m \in Nat /\ n <= m
      BY <2>1, <2>3
    <3>2. \A n \in T : n < m <=> n # m
      BY <3>1
    <3> QED
      BY <3>2
  <2>5. IsFiniteSet(T \ {m}) /\ Cardinality(T \ {m}) = Cardinality(T) - 1
    BY <2>2, <2>3, FS_RemoveElement
  <2>6. Cardinality(T) \in Nat
    BY <2>2, FS_CardinalityType
  <2>7. Cardinality(T \ {m}) # k
    BY <2>1, <2>3, <2>4
  <2>8. k < Cardinality(T \ {m})
    BY <2>1, <2>5, <2>6, <2>7
  <2>9. \A t \in T \ {m} : Below(T \ {m}, t) = Below(T, t)
    BY <2>1, <2>3
  <2>10. \A t \in T \ {m} : Cardinality(Below(T \ {m}, t)) # k
    BY <2>1, <2>9
  <2> QED
    BY <2>1, <2>3, <2>8, <2>10
<1>3. bad \in SUBSET (SUBSET S)
  OBVIOUS
<1>4. bad = {}
  <2> HIDE DEF bad
  <2> QED
    BY <1>1, <1>2, <1>3, LeastException
<1>5. S \notin bad
  BY <1>4
<1> QED
  BY <1>5

\* Two sets that share nothing count for what they are together.
LEMMA DisjointSets ==
  ASSUME NEW S, NEW T, IsFiniteSet(S), IsFiniteSet(T), S \cap T = {}
  PROVE  /\ IsFiniteSet(S \cup T)
         /\ Cardinality(S \cup T) = Cardinality(S) + Cardinality(T)
<1>1. Cardinality(S) \in Nat /\ Cardinality(T) \in Nat
  BY FS_CardinalityType
<1>2. Cardinality(S \cap T) = 0
  BY FS_EmptySet
<1>3. /\ IsFiniteSet(S \cup T)
      /\ Cardinality(S \cup T) = Cardinality(S) + Cardinality(T) - Cardinality(S \cap T)
  BY FS_Union
<1> QED
  BY <1>1, <1>2, <1>3

\* A set with one more, and with one fewer.
LEMMA OneMore ==
  ASSUME NEW S, NEW x, IsFiniteSet(S), x \notin S
  PROVE  /\ IsFiniteSet(S \cup {x}) /\ Cardinality(S) \in Nat
         /\ Cardinality(S \cup {x}) = Cardinality(S) + 1
  BY FS_AddElement, FS_CardinalityType

LEMMA OneLess ==
  ASSUME NEW S, NEW x, IsFiniteSet(S), x \in S
  PROVE  /\ IsFiniteSet(S \ {x}) /\ Cardinality(S) \in Nat
         /\ Cardinality(S \ {x}) = Cardinality(S) - 1
         /\ Cardinality(S) > 0
<1>1. Cardinality(S) # 0
  BY FS_EmptySet
<1> QED
  BY <1>1, FS_RemoveElement, FS_CardinalityType

-----------------------------------------------------------------------------
(* Sums over finite sets: a sum of amounts is the number of the units they   *)
(* are made of, so that what the library proves of cardinalities holds of it.*)

Units(f, S) == {u \in S \X Nat : u[2] < f[u[1]]}

LEMMA UnitsOfOneMore ==
  ASSUME NEW f, NEW S, NEW x \in S, f[x] \in Nat, IsFiniteSet(Units(f, S \ {x}))
  PROVE  /\ IsFiniteSet(Units(f, S))
         /\ Cardinality(Units(f, S)) = f[x] + Cardinality(Units(f, S \ {x}))
<1> DEFINE n == f[x]
           column == {x} \X (0..(n - 1))
           rest == Units(f, S \ {x})
<1>1. IsFiniteSet(column) /\ Cardinality(column) = n
  <2>1. IsFiniteSet(0..(n - 1)) /\ Cardinality(0..(n - 1)) = n
    <3>1. 0 \in Int /\ n - 1 \in Int /\ n \in Nat
      OBVIOUS
    <3>2. /\ IsFiniteSet(0..(n - 1))
          /\ Cardinality(0..(n - 1)) = IF 0 > n - 1 THEN 0 ELSE n - 1 - 0 + 1
      BY <3>1, FS_Interval
    <3> QED
      BY <3>1, <3>2
  <2>2. IsFiniteSet({x}) /\ Cardinality({x}) = 1
    BY FS_Singleton
  <2>3. IsFiniteSet(column) /\ Cardinality(column) = 1 * n
    <3> HIDE DEF n
    <3> QED
      BY <2>1, <2>2, FS_Product
  <2>4. 1 * n = n
    OBVIOUS
  <2> QED
    BY <2>3, <2>4
<1>2. Units(f, S) = rest \cup column
  BY DEF Units
<1>3. rest \cap column = {}
  BY DEF Units
<1>4. Cardinality(rest) \in Nat
  BY FS_CardinalityType
<1>5. IsFiniteSet(rest) /\ n \in Nat
  OBVIOUS
<1> HIDE DEF column, rest, n
<1>6. /\ IsFiniteSet(rest \cup column)
      /\ Cardinality(rest \cup column)
           = Cardinality(rest) + Cardinality(column) - Cardinality(rest \cap column)
  BY <1>1, <1>5, FS_Union
<1>7. Cardinality(rest \cap column) = 0
  BY <1>3, FS_EmptySet
<1>8. Cardinality(rest \cup column) = n + Cardinality(rest)
  BY <1>1, <1>4, <1>5, <1>6, <1>7
<1> QED
  BY <1>2, <1>6, <1>8 DEF rest, n

LEMMA UnitsAreFinite ==
  ASSUME NEW S, NEW f \in [S -> Nat], IsFiniteSet(S)
  PROVE  \A T \in SUBSET S : IsFiniteSet(Units(f, T))
<1> DEFINE bad == {T \in SUBSET S : ~IsFiniteSet(Units(f, T))}
<1>1. {} \notin bad
  <2>1. Units(f, {}) = {}
    BY DEF Units
  <2> QED
    BY <2>1, FS_EmptySet
<1>2. ASSUME NEW T \in bad PROVE \E x \in T : T \ {x} \in bad
  <2>1. PICK x \in T : TRUE
    BY <1>1
  <2>2. x \in S /\ T \ {x} \in SUBSET S
    OBVIOUS
  <2> QED
    BY <2>1, <2>2, UnitsOfOneMore
<1>3. bad \in SUBSET (SUBSET S)
  OBVIOUS
<1> HIDE DEF bad
<1>4. bad = {}
  BY <1>1, <1>2, <1>3, LeastException
<1> QED
  BY <1>4 DEF bad

\* An element of a set, as the folds of the library choose it.
Whatever(S) == CHOOSE x \in S : TRUE

\* What a sum over S is of the sums over its subsets.
Summing(f, S, g) ==
  [T \in SUBSET S |-> IF T = {} THEN 0 ELSE f[Whatever(T)] + g[T \ {Whatever(T)}]]

\* There is such a sum, and it counts the units.
LEMMA SumsCountUnits ==
  ASSUME NEW S, NEW f \in [S -> Nat], IsFiniteSet(S)
  PROVE  /\ \E g : g = Summing(f, S, g)
         /\ \A g : g = Summing(f, S, g) => g[S] = Cardinality(Units(f, S))
<1> DEFINE count == [T \in SUBSET S |-> Cardinality(Units(f, T))]
<1>1. \A T \in SUBSET S : IsFiniteSet(Units(f, T))
  BY UnitsAreFinite
<1>2. ASSUME NEW T \in SUBSET S
      PROVE  count[T] = IF T = {} THEN 0 ELSE f[Whatever(T)] + count[T \ {Whatever(T)}]
  <2>1. CASE T = {}
    <3>1. Units(f, {}) = {}
      BY DEF Units
    <3> QED
      BY <2>1, <3>1, FS_EmptySet
  <2>2. CASE T # {}
    <3>1. Whatever(T) \in T
      BY <2>2 DEF Whatever
    <3>2. T \ {Whatever(T)} \in SUBSET S
      BY <3>1
    <3>3. \A x \in T : IsFiniteSet(Units(f, T \ {x})) =>
            Cardinality(Units(f, T)) = f[x] + Cardinality(Units(f, T \ {x}))
      BY UnitsOfOneMore, SMT
    <3> QED
      BY <1>1, <2>2, <3>1, <3>2, <3>3
  <2> QED
    BY <2>1, <2>2
<1>3. count = Summing(f, S, count)
  BY <1>2 DEF Summing
<1>4. ASSUME NEW g, g = Summing(f, S, g) PROVE g[S] = count[S]
  <2> DEFINE bad == {T \in SUBSET S : g[T] # count[T]}
  <2> HIDE DEF count
  <2>1. \A T \in SUBSET S :
          /\ g[T] = IF T = {} THEN 0 ELSE f[Whatever(T)] + g[T \ {Whatever(T)}]
          /\ count[T] = IF T = {} THEN 0 ELSE f[Whatever(T)] + count[T \ {Whatever(T)}]
    BY <1>2, <1>4 DEF Summing
  <2>2. {} \notin bad
    BY <2>1
  <2>3. ASSUME NEW T \in bad PROVE \E x \in T : T \ {x} \in bad
    <3>1. T \in SUBSET S /\ T # {} /\ g[T] # count[T]
      BY <2>2
    <3>2. Whatever(T) \in T
      BY <3>1 DEF Whatever
    <3>3. T \ {Whatever(T)} \in SUBSET S
      BY <3>1
    <3> QED
      BY <2>1, <3>1, <3>2, <3>3
  <2>4. bad \in SUBSET (SUBSET S)
    OBVIOUS
  <2>5. bad = {}
    <3> HIDE DEF bad
    <3> QED
      BY <2>2, <2>3, <2>4, LeastException
  <2> QED
    BY <2>5
<1> QED
  BY <1>3, <1>4

\* Less of each is less of all.
LEMMA LessIsLess ==
  ASSUME NEW S, NEW f \in [S -> Nat], NEW g \in [S -> Nat], IsFiniteSet(S),
         \A x \in S : g[x] <= f[x]
  PROVE  Cardinality(Units(g, S)) <= Cardinality(Units(f, S))
<1>1. IsFiniteSet(Units(f, S))
  BY UnitsAreFinite
<1>2. Units(g, S) \in SUBSET Units(f, S)
  BY DEF Units
<1> QED
  BY <1>1, <1>2, FS_Subset

\* Where there was nothing, what is added is what is there.
LEMMA OneMoreIsMore ==
  ASSUME NEW S, NEW f \in [S -> Nat], NEW g \in [S -> Nat], IsFiniteSet(S), NEW x \in S,
         f[x] = 0, \A y \in S \ {x} : g[y] = f[y]
  PROVE  Cardinality(Units(g, S)) = g[x] + Cardinality(Units(f, S))
<1>1. IsFiniteSet(Units(f, S))
  BY UnitsAreFinite
<1>2. Units(g, S \ {x}) = Units(f, S)
  BY DEF Units
<1> QED
  BY <1>1, <1>2, UnitsOfOneMore, SMT

\* Where something was taken from one and nothing came to the others, so much less
\* is left.
LEMMA TakenFromOne ==
  ASSUME NEW S, NEW f \in [S -> Nat], NEW g \in [S -> Nat], IsFiniteSet(S), NEW x \in S,
         NEW n \in Nat, g[x] + n <= f[x], \A y \in S \ {x} : g[y] <= f[y]
  PROVE  Cardinality(Units(g, S)) + n <= Cardinality(Units(f, S))
<1> DEFINE rest == S \ {x}
<1>1. IsFiniteSet(rest)
  BY FS_RemoveElement
<1>2. IsFiniteSet(Units(f, rest)) /\ IsFiniteSet(Units(g, rest))
  BY UnitsAreFinite
<1>3. Units(g, rest) \in SUBSET Units(f, rest)
  BY DEF Units
<1>4. Cardinality(Units(g, rest)) <= Cardinality(Units(f, rest))
  BY <1>2, <1>3, FS_Subset
<1>5. /\ Cardinality(Units(f, S)) = f[x] + Cardinality(Units(f, rest))
      /\ Cardinality(Units(g, S)) = g[x] + Cardinality(Units(g, rest))
  BY <1>2, UnitsOfOneMore
<1>6. /\ Cardinality(Units(f, rest)) \in Nat /\ Cardinality(Units(g, rest)) \in Nat
      /\ f[x] \in Nat /\ g[x] \in Nat
  BY <1>2, FS_CardinalityType
<1> QED
  BY <1>4, <1>5, <1>6

\* Taking an amount from one of the parts, and nothing to the others.
LEMMA LessOutOfPart ==
  ASSUME NEW S, IsFiniteSet(S), NEW old \in [S -> Nat], NEW new \in [S -> Nat],
         NEW last \in SUBSET S, NEW b \in last, NEW n \in Nat,
         new[b] + n <= old[b], \A c \in S \ {b} : new[c] <= old[c]
  PROVE  Cardinality(Units(new, last)) + n <= Cardinality(Units(old, last))
<1> DEFINE was == [c \in last |-> old[c]]
           is == [c \in last |-> new[c]]
<1>1. Units(new, last) = Units(is, last) /\ Units(old, last) = Units(was, last)
  BY DEF Units
<1>2. IsFiniteSet(last)
  BY FS_Subset
<1>3. was \in [last -> Nat] /\ is \in [last -> Nat] /\ is[b] + n <= was[b]
  OBVIOUS
<1>4. \A c \in last \ {b} : is[c] <= was[c]
  OBVIOUS
<1> HIDE DEF was, is
<1>5. Cardinality(Units(is, last)) + n <= Cardinality(Units(was, last))
  BY <1>2, <1>3, <1>4, TakenFromOne
<1> QED
  BY <1>1, <1>5

LEMMA LessOutOfAll ==
  ASSUME NEW S, IsFiniteSet(S), NEW old \in [S -> Nat], NEW new \in [S -> Nat],
         NEW last \in SUBSET S, \A c \in last : new[c] <= old[c]
  PROVE  /\ Cardinality(Units(new, last)) <= Cardinality(Units(old, last))
         /\ Cardinality(Units(new, last)) \in Nat /\ Cardinality(Units(old, last)) \in Nat
<1> DEFINE was == [c \in last |-> old[c]]
           is == [c \in last |-> new[c]]
<1>1. Units(new, last) = Units(is, last) /\ Units(old, last) = Units(was, last)
  BY DEF Units
<1>2. IsFiniteSet(last)
  BY FS_Subset
<1>3. was \in [last -> Nat] /\ is \in [last -> Nat] /\ \A c \in last : is[c] <= was[c]
  OBVIOUS
<1> HIDE DEF was, is
<1>4. Cardinality(Units(is, last)) <= Cardinality(Units(was, last))
  BY <1>2, <1>3, LessIsLess
<1>5. IsFiniteSet(Units(is, last)) /\ IsFiniteSet(Units(was, last))
  <2>1. last \in SUBSET last
    OBVIOUS
  <2> QED
    BY <1>2, <1>3, <2>1, UnitsAreFinite
<1> QED
  BY <1>1, <1>4, <1>5, FS_CardinalityType

-----------------------------------------------------------------------------
(* Functions of the natural numbers that are defined step by step.           *)

\* Rounds that each place what waits for nothing the round before has not placed.
Rounds(after, S, g) ==
  [n \in Nat |-> IF n = 0 THEN {} ELSE {s \in S : after[s] \subseteq g[n - 1]}]

LEMMA ThereAreRounds == \A after, S : \E g : g = Rounds(after, S, g)
<1> TAKE after, S
<1> DEFINE Up(n, h) == /\ h \in [0..n -> SUBSET S] /\ h[0] = {}
                       /\ \A i \in 1..n : h[i] = {s \in S : after[s] \subseteq h[i - 1]}
           short == {n \in Nat : ~ \E h : Up(n, h)}
<1>1. short = {}
  <2> SUFFICES ASSUME short # {} PROVE FALSE
    OBVIOUS
  <2>1. PICK m \in short : \A n \in short : m <= n
    BY LeastNatural
  <2>2. m \in Nat /\ ~ \E h : Up(m, h)
    OBVIOUS
  <2>3. m # 0
    <3>1. Up(0, [i \in 0..0 |-> {}])
      OBVIOUS
    <3> QED
      BY <2>2, <3>1
  <2>4. m - 1 \in Nat /\ m - 1 \notin short
    <3>1. m - 1 \in Nat /\ ~(m <= m - 1)
      BY <2>2, <2>3
    <3> HIDE DEF short
    <3> QED
      BY <2>1, <3>1
  <2>5. PICK h : Up(m - 1, h)
    BY <2>4
  <2> DEFINE k == [i \in 0..m |-> IF i = m THEN {s \in S : after[s] \subseteq h[m - 1]} ELSE h[i]]
  <2>6. k \in [0..m -> SUBSET S]
    <3>1. \A i \in 0..m : i # m => i \in 0..(m - 1)
      BY <2>2
    <3> QED
      BY <2>5, <3>1
  <2>7. k[0] = {}
    BY <2>2, <2>3, <2>5
  <2>8. ASSUME NEW i \in 1..m PROVE k[i] = {s \in S : after[s] \subseteq k[i - 1]}
    <3>1. i - 1 \in 0..m /\ i - 1 # m /\ k[i - 1] = h[i - 1]
      BY <2>2
    <3>2. CASE i = m
      BY <2>2, <3>1, <3>2
    <3>3. CASE i # m
      <4>1. i \in 1..(m - 1) /\ i \in 0..m
        BY <2>2, <3>3
      <4> QED
        BY <2>5, <3>1, <3>3, <4>1
    <3> QED
      BY <3>2, <3>3
  <2> HIDE DEF k
  <2>9. Up(m, k)
    BY <2>6, <2>7, <2>8
  <2> HIDE DEF Up
  <2> QED
    BY <2>2, <2>9
<1>2. ASSUME NEW n \in Nat, NEW m \in Nat, n <= m, NEW h, NEW k, Up(n, h), Up(m, k)
      PROVE  \A i \in 0..n : h[i] = k[i]
  <2> DEFINE differ == {i \in 0..n : h[i] # k[i]}
  <2> SUFFICES ASSUME differ # {} PROVE FALSE
    OBVIOUS
  <2>1. differ \in SUBSET Nat
    OBVIOUS
  <2>2. PICK i \in differ : \A j \in differ : i <= j
    BY <2>1, LeastNatural
  <2>3. i \in 0..n /\ h[i] # k[i] /\ i # 0
    BY <1>2
  <2>4. i - 1 \in 0..n /\ i - 1 \notin differ /\ i \in 1..n /\ i \in 1..m
    BY <1>2, <2>2, <2>3
  <2>5. /\ h[i] = {s \in S : after[s] \subseteq h[i - 1]}
        /\ k[i] = {s \in S : after[s] \subseteq k[i - 1]}
    BY <1>2, <2>4
  <2>6. h[i - 1] = k[i - 1]
    BY <2>4
  <2> QED
    BY <2>3, <2>5, <2>6
<1> DEFINE g == [n \in Nat |-> (CHOOSE h : Up(n, h))[n]]
<1>3. ASSUME NEW n \in Nat PROVE g[n] = IF n = 0 THEN {} ELSE {s \in S : after[s] \subseteq g[n - 1]}
  <2> DEFINE h == CHOOSE f : Up(n, f)
             k == CHOOSE f : Up(n - 1, f)
  <2>1. Up(n, h) /\ g[n] = h[n]
    BY <1>1
  <2>2. CASE n = 0
    BY <2>1, <2>2
  <2>3. CASE n # 0
    <3>1. n - 1 \in Nat /\ n - 1 <= n /\ n - 1 \in 0..(n - 1) /\ n \in 1..n
      BY <2>3
    <3>2. Up(n - 1, k) /\ g[n - 1] = k[n - 1]
      BY <1>1, <3>1
    <3>3. k[n - 1] = h[n - 1]
      <4> HIDE DEF Up, h, k
      <4> QED
        BY <1>2, <2>1, <3>1, <3>2
    <3>4. h[n] = {s \in S : after[s] \subseteq h[n - 1]}
      <4> HIDE DEF h
      <4> QED
        BY <2>1, <3>1
    <3>5. g[n] = h[n] /\ g[n - 1] = h[n - 1]
      BY <2>1, <3>2, <3>3, Zenon
    <3> HIDE DEF g, h
    <3> QED
      BY <2>3, <3>4, <3>5
  <2> QED
    BY <2>2, <2>3
<1>4. g = Rounds(after, S, g)
  <2> HIDE DEF g
  <2>1. g = [n \in Nat |-> g[n]]
    BY DEF g
  <2> QED
    BY <1>3, <2>1 DEF Rounds
<1> QED
  BY <1>4

=============================================================================
