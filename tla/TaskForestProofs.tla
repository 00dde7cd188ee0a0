--------------------------- MODULE TaskForestProofs ---------------------------
(***************************************************************************)
(* What the walks of TaskForest and TaskScheduler compute, for any forest. *)
(*                                                                         *)
(* A recursive definition is known only by its equation, and only once a   *)
(* function that satisfies it exists.  Both this and what follows from the *)
(* equation are shown by a least counterexample: parents are older than    *)
(* their children, so a walk up goes to smaller ids, and a walk down to    *)
(* greater ones.                                                           *)
(***************************************************************************)
EXTENDS TaskScheduler, FiniteSetTheorems, WellFoundedInduction, TLAPS

\* What every forest that the task events build satisfies.
WellFormed(f) ==
    /\ \E m \in Nat : DOMAIN f \subseteq 1..m
    /\ \A n \in DOMAIN f : f[n].parent \in Nat /\ f[n].parent < n /\ f[n].priority \in Int

-----------------------------------------------------------------------------
(* Induction *)

\* Every set of naturals that is not empty has a least member.
LEMMA LeastNat ==
    ASSUME NEW S, S \subseteq Nat, S # {}
    PROVE  \E x \in S : \A y \in S : x <= y
<1> DEFINE R == OpToRel(<, Nat)
<1>1. IsWellFoundedOn(R, Nat)
  BY NatLessThanWellFounded
<1>2. \A x, y \in Nat : ~ (<<y, x>> \in R) => x <= y
  BY DEF OpToRel
<1> HIDE DEF R
<1>3. \E x \in S : \A y \in S : ~ (<<y, x>> \in R)
  BY <1>1, WFMin
<1> QED
  BY <1>2, <1>3

\* And, when it is bounded, a greatest.
LEMMA GreatestNat ==
    ASSUME NEW m \in Nat, NEW S, S \subseteq 1..m, S # {}
    PROVE  \E x \in S : \A y \in S : y <= x
<1> DEFINE T == {m - y : y \in S}
<1>1. T \subseteq Nat /\ T # {}
  <2>1. \A y \in S : m - y \in Nat
    OBVIOUS
  <2> QED
    BY <2>1
<1>2. PICK z \in T : \A y \in T : z <= y
  BY <1>1, LeastNat
<1>3. PICK x \in S : z = m - x
  OBVIOUS
<1>4. ASSUME NEW y \in S PROVE y <= x
  <2>1. m - x <= m - y
    BY <1>2, <1>3
  <2> QED
    BY <2>1
<1> QED
  BY <1>4

LEMMA EldestFacts ==
    ASSUME NEW S, S \subseteq Nat, S # {}
    PROVE  Eldest(S) \in S /\ \A y \in S : Eldest(S) <= y
  BY LeastNat DEF Eldest, Min

LEMMA IdsAreNats ==
    ASSUME NEW f, WellFormed(f)
    PROVE  DOMAIN f \subseteq Nat \ {0} /\ NoTask \notin DOMAIN f /\ IsFiniteSet(DOMAIN f)
<1>1. PICK m \in Nat : DOMAIN f \subseteq 1..m
  BY DEF WellFormed
<1>2. IsFiniteSet(DOMAIN f)
  <2>1. IsFiniteSet(1..m)
    BY <1>1, FS_Interval
  <2> QED
    BY <1>1, <2>1, FS_Subset
<1> QED
  BY <1>1, <1>2 DEF NoTask

-----------------------------------------------------------------------------
(* Walks up: depth, root_of and the line of ancestors *)

Parent(f, n) == f[n].parent

LEMMA ParentFacts ==
    ASSUME NEW f, WellFormed(f), NEW n \in DOMAIN f, ~ is_root(f, n)
    PROVE  Parent(f, n) \in DOMAIN f /\ Parent(f, n) < n /\ Parent(f, n) \in Nat
  BY DEF is_root, WellFormed, Parent

\* A walk up, with the value of a root and the value of a child from its parent's, has
\* values on the nodes up to m.
WalkTo(f, base, comb, m, V, g) ==
    /\ g \in [{k \in DOMAIN f : k <= m} -> V]
    /\ \A n \in DOMAIN f : n <= m =>
         g[n] = IF is_root(f, n) THEN base[n] ELSE comb[<<n, g[Parent(f, n)]>>]

LEMMA WalkExtends ==
    ASSUME NEW f, WellFormed(f), NEW V, NEW base \in [DOMAIN f -> V],
           NEW comb \in [(DOMAIN f) \X V -> V],
           NEW m \in Nat, NEW g, WalkTo(f, base, comb, m, V, g)
    PROVE  \E h : WalkTo(f, base, comb, m + 1, V, h)
<1>0. DOMAIN f \subseteq Nat
  BY IdsAreNats
<1> DEFINE Low  == {k \in DOMAIN f : k <= m}
           High == {k \in DOMAIN f : k <= m + 1}
           value(n) == IF is_root(f, n) THEN base[n] ELSE comb[<<n, g[Parent(f, n)]>>]
           h == [n \in High |-> value(n)]
<1>1. g \in [Low -> V] /\ \A n \in Low : g[n] = value(n)
  BY <1>0 DEF WalkTo
<1>2. \A n \in High : ~ is_root(f, n) => Parent(f, n) \in Low
  BY <1>0, ParentFacts
<1>3. ASSUME NEW n \in High PROVE value(n) \in V
  <2>1. CASE is_root(f, n)
    BY <2>1
  <2>2. CASE ~ is_root(f, n)
    <3>1. g[Parent(f, n)] \in V
      BY <1>1, <1>2, <2>2
    <3>2. <<n, g[Parent(f, n)]>> \in (DOMAIN f) \X V
      BY <3>1
    <3> QED
      BY <2>2, <3>2
  <2> QED
    BY <2>1, <2>2
<1>4. Low \subseteq High
  BY <1>0
<1> HIDE DEF value
<1>5. h \in [High -> V] /\ \A n \in Low : h[n] = g[n]
  BY <1>1, <1>3, <1>4
<1>6. ASSUME NEW n \in High
      PROVE  h[n] = IF is_root(f, n) THEN base[n] ELSE comb[<<n, h[Parent(f, n)]>>]
  <2>1. h[n] = value(n)
    OBVIOUS
  <2>2. ~ is_root(f, n) => h[Parent(f, n)] = g[Parent(f, n)]
    BY <1>2, <1>5
  <2> HIDE DEF h
  <2> QED
    BY <2>1, <2>2 DEF value
<1> HIDE DEF h
<1>7. WalkTo(f, base, comb, m + 1, V, h)
  BY <1>5, <1>6 DEF WalkTo
<1> QED
  BY <1>7

\* The values of roots and of children are those of a walk, and g is that walk.
Values(f, V, base, comb) == base \in [DOMAIN f -> V] /\ comb \in [(DOMAIN f) \X V -> V]
Walk(f, V, base, comb, g) ==
    /\ g \in [DOMAIN f -> V]
    /\ \A n \in DOMAIN f :
         g[n] = IF is_root(f, n) THEN base[n] ELSE comb[<<n, g[Parent(f, n)]>>]

LEMMA WalkExists ==
    ASSUME NEW f, WellFormed(f), NEW V, NEW base, NEW comb, Values(f, V, base, comb)
    PROVE  \E g : Walk(f, V, base, comb, g)
<1> DEFINE Bad == {m \in Nat : ~ \E g : WalkTo(f, base, comb, m, V, g)}
<1>0. PICK top \in Nat : DOMAIN f \subseteq 1..top
  BY DEF WellFormed
<1>1. SUFFICES ASSUME Bad # {} PROVE FALSE
  <2>1. PICK g : WalkTo(f, base, comb, top, V, g)
    BY <1>1
  <2>2. \A k \in DOMAIN f : k <= top
    BY <1>0
  <2>3. {k \in DOMAIN f : k <= top} = DOMAIN f
    BY <2>2
  <2> QED
    BY <2>1, <2>2, <2>3 DEF WalkTo, Walk
<1>2. PICK m \in Bad : \A k \in Bad : m <= k
  BY <1>1, LeastNat
<1>3. m # 0
  <2>1. \A k \in DOMAIN f : ~ (k <= 0)
    BY <1>0
  <2> DEFINE g == [n \in {} |-> 0]
  <2>2. g \in [{} -> V]
    OBVIOUS
  <2> HIDE DEF g
  <2>3. {k \in DOMAIN f : k <= 0} = {}
    BY <2>1
  <2>4. WalkTo(f, base, comb, 0, V, g)
    BY <2>1, <2>2, <2>3 DEF WalkTo
  <2> QED
    BY <2>4
<1>4. m - 1 \in Nat /\ m - 1 \notin Bad
  BY <1>2, <1>3
<1>5. PICK g : WalkTo(f, base, comb, m - 1, V, g)
  BY <1>4
<1>6. \E h : WalkTo(f, base, comb, (m - 1) + 1, V, h)
  BY <1>4, <1>5, WalkExtends DEF Values
<1>7. (m - 1) + 1 = m
  BY <1>2
<1> QED
  BY <1>2, <1>6, <1>7

\* depth, one step at a time.
LEMMA DepthUnfolds ==
    ASSUME NEW f, WellFormed(f), NEW t \in DOMAIN f
    PROVE  depth(f, t) = IF is_root(f, t) THEN 1 ELSE 1 + depth(f, Parent(f, t))
<1> DEFINE table(g) == g = [n \in DOMAIN f |-> IF is_root(f, n) THEN 1 ELSE 1 + g[f[n].parent]]
           up == CHOOSE g : table(g)
           V == Nat
           base == [n \in DOMAIN f |-> 1]
           comb == [p \in (DOMAIN f) \X V |-> 1 + p[2]]
<1>1. \E g : table(g)
  <2>1. Values(f, V, base, comb)
    BY DEF Values
  <2> HIDE DEF V, base, comb
  <2>2. PICK g : Walk(f, V, base, comb, g)
    BY <2>1, WalkExists
  <2>3. \A n \in DOMAIN f : g[n] = IF is_root(f, n) THEN 1 ELSE 1 + g[f[n].parent]
    BY <2>2, ParentFacts DEF Walk, Parent, V, base, comb
  <2>4. table(g)
    BY <2>2, <2>3 DEF Walk
  <2> QED
    BY <2>4
<1>2. table(up)
  BY <1>1
<1>3. \A n : depth(f, n) = IF n \in DOMAIN f THEN up[n] ELSE 0
  BY DEF depth
<1> HIDE DEF up
<1>4. up[t] = IF is_root(f, t) THEN 1 ELSE 1 + up[Parent(f, t)]
  BY <1>2 DEF Parent
<1> QED
  BY <1>3, <1>4, ParentFacts

\* The nodes from t up to its root.
LineOf(f, t) ==
    LET line[n \in DOMAIN f] == {n} \cup IF is_root(f, n) THEN {} ELSE line[f[n].parent]
    IN  line[t]

LEMMA LineUnfolds ==
    ASSUME NEW f, WellFormed(f), NEW t \in DOMAIN f
    PROVE  LineOf(f, t) = {t} \cup IF is_root(f, t) THEN {} ELSE LineOf(f, Parent(f, t))
<1> DEFINE table(g) == g = [n \in DOMAIN f |->
                              {n} \cup IF is_root(f, n) THEN {} ELSE g[f[n].parent]]
           up == CHOOSE g : table(g)
           V == SUBSET DOMAIN f
           base == [n \in DOMAIN f |-> {n}]
           comb == [p \in (DOMAIN f) \X V |-> {p[1]} \cup p[2]]
<1>1. \E g : table(g)
  <2>1. Values(f, V, base, comb)
    BY DEF Values
  <2> HIDE DEF V, base, comb
  <2>2. PICK g : Walk(f, V, base, comb, g)
    BY <2>1, WalkExists
  <2>3. \A n \in DOMAIN f : g[n] = {n} \cup IF is_root(f, n) THEN {} ELSE g[f[n].parent]
    BY <2>2, ParentFacts DEF Walk, Parent, V, base, comb
  <2>4. table(g)
    BY <2>2, <2>3 DEF Walk
  <2> QED
    BY <2>4
<1>2. table(up)
  BY <1>1
<1>3. \A n : LineOf(f, n) = up[n]
  BY DEF LineOf
<1> HIDE DEF up
<1>4. up[t] = {t} \cup IF is_root(f, t) THEN {} ELSE up[Parent(f, t)]
  BY <1>2 DEF Parent
<1> QED
  BY <1>3, <1>4

LEMMA RootUnfolds ==
    ASSUME NEW f, WellFormed(f), NEW t \in DOMAIN f
    PROVE  root_of(f, t) = IF is_root(f, t) THEN t ELSE root_of(f, Parent(f, t))
<1> DEFINE table(g) == g = [n \in DOMAIN f |-> IF is_root(f, n) THEN n ELSE g[f[n].parent]]
           up == CHOOSE g : table(g)
           V == DOMAIN f
           base == [n \in DOMAIN f |-> n]
           comb == [p \in (DOMAIN f) \X V |-> p[2]]
<1>1. \E g : table(g)
  <2>1. Values(f, V, base, comb)
    BY DEF Values
  <2> HIDE DEF V, base, comb
  <2>2. PICK g : Walk(f, V, base, comb, g)
    BY <2>1, WalkExists
  <2>3. \A n \in DOMAIN f : g[n] = IF is_root(f, n) THEN n ELSE g[f[n].parent]
    BY <2>2, ParentFacts DEF Walk, Parent, V, base, comb
  <2>4. table(g)
    BY <2>2, <2>3 DEF Walk
  <2> QED
    BY <2>4
<1>2. table(up)
  BY <1>1
<1>3. \A n : root_of(f, n) = IF n \in DOMAIN f THEN up[n] ELSE NoTask
  BY DEF root_of
<1> HIDE DEF up
<1>4. up[t] = IF is_root(f, t) THEN t ELSE up[Parent(f, t)]
  BY <1>2 DEF Parent
<1> QED
  BY <1>3, <1>4, ParentFacts

-----------------------------------------------------------------------------
(* The line of ancestors *)

\* A line is made of t and of nodes older than t.
LEMMA LineBounds ==
    ASSUME NEW f, WellFormed(f)
    PROVE  \A t \in DOMAIN f : /\ LineOf(f, t) \subseteq DOMAIN f /\ t \in LineOf(f, t)
                               /\ \A a \in LineOf(f, t) : a <= t
<1> DEFINE Good(t) == /\ LineOf(f, t) \subseteq DOMAIN f /\ t \in LineOf(f, t)
                      /\ \A a \in LineOf(f, t) : a <= t
           Bad == {t \in DOMAIN f : ~ Good(t)}
<1>1. SUFFICES ASSUME Bad # {} PROVE FALSE
  OBVIOUS
<1>2. PICK t \in Bad : \A k \in Bad : t <= k
  BY <1>1, IdsAreNats, LeastNat
<1>3. t \in DOMAIN f /\ t \in Nat /\ ~ Good(t)
  BY <1>2, IdsAreNats
<1>4. CASE is_root(f, t)
  <2>1. LineOf(f, t) = {t}
    BY <1>3, <1>4, LineUnfolds
  <2> QED
    BY <1>3, <2>1
<1>5. CASE ~ is_root(f, t)
  <2> DEFINE p == Parent(f, t)
  <2>1. p \in DOMAIN f /\ p < t /\ p \in Nat
    BY <1>3, <1>5, ParentFacts
  <2>2. p \notin Bad
    BY <1>2, <1>3, <2>1
  <2>3. Good(p)
    BY <2>1, <2>2
  <2>4. LineOf(f, t) = {t} \cup LineOf(f, p)
    BY <1>3, <1>5, LineUnfolds
  <2>5. \A a \in LineOf(f, p) : a \in Nat /\ a <= t
    BY <1>3, <2>1, <2>3, IdsAreNats
  <2> HIDE DEF p, Bad
  <2> QED
    BY <1>3, <2>3, <2>4, <2>5
<1> QED
  BY <1>4, <1>5

\* The line of an ancestor is part of the line.
LEMMA LineTransitive ==
    ASSUME NEW f, WellFormed(f)
    PROVE  \A t \in DOMAIN f : \A a \in LineOf(f, t) : LineOf(f, a) \subseteq LineOf(f, t)
<1> DEFINE Good(t) == \A a \in LineOf(f, t) : LineOf(f, a) \subseteq LineOf(f, t)
           Bad == {t \in DOMAIN f : ~ Good(t)}
<1>1. SUFFICES ASSUME Bad # {} PROVE FALSE
  OBVIOUS
<1>2. PICK t \in Bad : \A k \in Bad : t <= k
  BY <1>1, IdsAreNats, LeastNat
<1>3. t \in DOMAIN f /\ t \in Nat /\ ~ Good(t)
  BY <1>2, IdsAreNats
<1>4. CASE is_root(f, t)
  BY <1>3, <1>4, LineUnfolds
<1>5. CASE ~ is_root(f, t)
  <2>1. Parent(f, t) \in DOMAIN f /\ Parent(f, t) \notin Bad
    BY <1>2, <1>3, <1>5, ParentFacts
  <2>2. LineOf(f, t) = {t} \cup LineOf(f, Parent(f, t))
    BY <1>3, <1>5, LineUnfolds
  <2> QED
    BY <1>3, <2>1, <2>2
<1> QED
  BY <1>4, <1>5

\* Of two ancestors one is an ancestor of the other.
LEMMA LineIsChain ==
    ASSUME NEW f, WellFormed(f)
    PROVE  \A t \in DOMAIN f : \A a, b \in LineOf(f, t) :
             a \in LineOf(f, b) \/ b \in LineOf(f, a)
<1> DEFINE Good(t) == \A a, b \in LineOf(f, t) : a \in LineOf(f, b) \/ b \in LineOf(f, a)
           Bad == {t \in DOMAIN f : ~ Good(t)}
<1>1. SUFFICES ASSUME Bad # {} PROVE FALSE
  OBVIOUS
<1>2. PICK t \in Bad : \A k \in Bad : t <= k
  BY <1>1, IdsAreNats, LeastNat
<1>3. t \in DOMAIN f /\ t \in Nat /\ ~ Good(t) /\ t \in LineOf(f, t)
  BY <1>2, IdsAreNats, LineBounds
<1>4. CASE is_root(f, t)
  BY <1>3, <1>4, LineUnfolds
<1>5. CASE ~ is_root(f, t)
  <2>1. Parent(f, t) \in DOMAIN f /\ Parent(f, t) \notin Bad
    BY <1>2, <1>3, <1>5, ParentFacts
  <2>2. LineOf(f, t) = {t} \cup LineOf(f, Parent(f, t))
    BY <1>3, <1>5, LineUnfolds
  <2> QED
    BY <1>3, <2>1, <2>2
<1> QED
  BY <1>4, <1>5

\* A line has one root, which root_of finds, and as many nodes as depth says.
LEMMA LineRoot ==
    ASSUME NEW f, WellFormed(f)
    PROVE  \A t \in DOMAIN f : /\ root_of(f, t) \in LineOf(f, t) /\ is_root(f, root_of(f, t))
                               /\ depth(f, t) = Cardinality(LineOf(f, t))
                               /\ IsFiniteSet(LineOf(f, t))
<1> DEFINE Good(t) == /\ root_of(f, t) \in LineOf(f, t) /\ is_root(f, root_of(f, t))
                      /\ depth(f, t) = Cardinality(LineOf(f, t))
                      /\ IsFiniteSet(LineOf(f, t))
           Bad == {t \in DOMAIN f : ~ Good(t)}
<1>1. SUFFICES ASSUME Bad # {} PROVE FALSE
  OBVIOUS
<1>2. PICK t \in Bad : \A k \in Bad : t <= k
  BY <1>1, IdsAreNats, LeastNat
<1>3. t \in DOMAIN f /\ t \in Nat /\ ~ Good(t) /\ t \in LineOf(f, t)
  BY <1>2, IdsAreNats, LineBounds
<1>4. CASE is_root(f, t)
  <2>1. LineOf(f, t) = {t} /\ root_of(f, t) = t /\ depth(f, t) = 1
    BY <1>3, <1>4, LineUnfolds, RootUnfolds, DepthUnfolds
  <2>2. IsFiniteSet({t}) /\ Cardinality({t}) = 1
    BY FS_Singleton
  <2> QED
    BY <1>3, <1>4, <2>1, <2>2
<1>5. CASE ~ is_root(f, t)
  <2> DEFINE p == Parent(f, t)
  <2>1. p \in DOMAIN f /\ p \notin Bad /\ p \in Nat /\ p < t
    BY <1>2, <1>3, <1>5, ParentFacts
  <2>2. /\ LineOf(f, t) = LineOf(f, p) \cup {t} /\ root_of(f, t) = root_of(f, p)
        /\ depth(f, t) = 1 + depth(f, p)
    BY <1>3, <1>5, LineUnfolds, RootUnfolds, DepthUnfolds
  <2>3. Good(p)
    BY <2>1
  <2>4. t \notin LineOf(f, p)
    BY <1>3, <2>1, LineBounds
  <2>5. /\ IsFiniteSet(LineOf(f, p) \cup {t})
        /\ Cardinality(LineOf(f, p) \cup {t}) = Cardinality(LineOf(f, p)) + 1
        /\ Cardinality(LineOf(f, p)) \in Nat
    BY <2>3, <2>4, FS_AddElement, FS_CardinalityType
  <2> HIDE DEF p, Bad
  <2> QED
    BY <1>3, <2>2, <2>3, <2>5
<1> QED
  BY <1>4, <1>5

LEMMA DepthPositive ==
    ASSUME NEW f, WellFormed(f)
    PROVE  \A t \in DOMAIN f : depth(f, t) \in Nat \ {0}
  BY LineRoot, LineBounds, FS_CardinalityType, FS_EmptySet

LEMMA RootsOfLine ==
    ASSUME NEW f, WellFormed(f), NEW t \in DOMAIN f, NEW r \in LineOf(f, t), is_root(f, r)
    PROVE  r = root_of(f, t) /\ \A a \in LineOf(f, t) : r \in LineOf(f, a)
<1>1. ASSUME NEW a \in LineOf(f, t) PROVE r \in LineOf(f, a)
  <2>1. a \in DOMAIN f /\ r \in DOMAIN f
    BY LineBounds
  <2>2. LineOf(f, r) = {r}
    BY <2>1, LineUnfolds
  <2>3. r \in LineOf(f, a) \/ a \in LineOf(f, r)
    BY <1>1, LineIsChain
  <2> QED
    BY <2>1, <2>2, <2>3, LineBounds
<1>2. root_of(f, t) \in LineOf(f, t) /\ is_root(f, root_of(f, t))
  BY LineRoot
<1>3. LineOf(f, root_of(f, t)) = {root_of(f, t)}
  BY <1>2, LineBounds, LineUnfolds
<1> QED
  BY <1>1, <1>2, <1>3

LEMMA ChildFacts ==
    ASSUME NEW f, WellFormed(f), NEW n \in DOMAIN f, NEW c \in children(f, n)
    PROVE  /\ c \in DOMAIN f /\ ~ is_root(f, c) /\ Parent(f, c) = n /\ n < c /\ c \in Nat
           /\ LineOf(f, c) = {c} \cup LineOf(f, n)
<1>1. c \in DOMAIN f /\ ~ is_root(f, c) /\ Parent(f, c) = n
  BY DEF children, is_root, Parent
<1> QED
  BY <1>1, ParentFacts, LineUnfolds, IdsAreNats

\* Below n a line goes through one child of n.
LEMMA LineThroughChild ==
    ASSUME NEW f, WellFormed(f)
    PROVE  \A t \in DOMAIN f : \A n \in LineOf(f, t) \ {t} :
             \E c \in children(f, n) : c \in LineOf(f, t)
<1> DEFINE Good(t) == \A n \in LineOf(f, t) \ {t} : \E c \in children(f, n) : c \in LineOf(f, t)
           Bad == {t \in DOMAIN f : ~ Good(t)}
<1>1. SUFFICES ASSUME Bad # {} PROVE FALSE
  OBVIOUS
<1>2. PICK t \in Bad : \A k \in Bad : t <= k
  BY <1>1, IdsAreNats, LeastNat
<1>3. t \in DOMAIN f /\ t \in Nat /\ ~ Good(t) /\ t \in LineOf(f, t)
  BY <1>2, IdsAreNats, LineBounds
<1>4. CASE is_root(f, t)
  BY <1>3, <1>4, LineUnfolds
<1>5. CASE ~ is_root(f, t)
  <2> DEFINE p == Parent(f, t)
  <2>1. p \in DOMAIN f /\ p \notin Bad
    BY <1>2, <1>3, <1>5, ParentFacts
  <2>2. LineOf(f, t) = {t} \cup LineOf(f, p)
    BY <1>3, <1>5, LineUnfolds
  <2>3. t \in children(f, p)
    BY <1>3 DEF children, Parent
  <2>4. Good(p)
    BY <2>1
  <2> HIDE DEF p
  <2> QED
    BY <1>3, <2>2, <2>3, <2>4
<1> QED
  BY <1>4, <1>5

LEMMA OneChildOnLine ==
    ASSUME NEW f, WellFormed(f), NEW n \in DOMAIN f, NEW t \in DOMAIN f,
           NEW c \in children(f, n), NEW d \in children(f, n),
           c \in LineOf(f, t), d \in LineOf(f, t)
    PROVE  c = d
<1>1. /\ n < c /\ c \in Nat /\ LineOf(f, c) = {c} \cup LineOf(f, n)
      /\ n < d /\ d \in Nat /\ LineOf(f, d) = {d} \cup LineOf(f, n)
  BY ChildFacts
<1>2. c \notin LineOf(f, n) /\ d \notin LineOf(f, n)
  BY <1>1, IdsAreNats, LineBounds
<1> QED
  BY <1>1, <1>2, LineIsChain

-----------------------------------------------------------------------------
(* The order of the walk *)

\* a and b are roots, or children of one node.
Siblings(f, a, b) ==
    \/ is_root(f, a) /\ is_root(f, b)
    \/ ~ is_root(f, a) /\ ~ is_root(f, b) /\ Parent(f, a) = Parent(f, b)

Ahead(f, a, b) ==
    \/ is_root(f, a) /\ is_root(f, b) /\ RootBefore(f, a, b)
    \/ /\ ~ is_root(f, a) /\ ~ is_root(f, b)
       /\ Parent(f, a) = Parent(f, b) /\ a < b

\* t comes before u: where their lines part, that of t goes on with the elder sibling or
\* the better root.
Before(f, t, u) ==
    \E a \in LineOf(f, t) \ LineOf(f, u), b \in LineOf(f, u) \ LineOf(f, t) : Ahead(f, a, b)

\* Lines part once: the node of one line that has a sibling on the other is the only one.
LEMMA PartOnce ==
    ASSUME NEW f, WellFormed(f), NEW t \in DOMAIN f, NEW u \in DOMAIN f,
           NEW x \in LineOf(f, t) \ LineOf(f, u), NEW z \in LineOf(f, u), Siblings(f, x, z),
           NEW y \in LineOf(f, t) \ LineOf(f, u), NEW w \in LineOf(f, u), Siblings(f, y, w)
    PROVE  x = y
<1>1. \A a, c : /\ a \in LineOf(f, t) \ LineOf(f, u) /\ c \in LineOf(f, u) /\ Siblings(f, a, c)
                => \A b \in LineOf(f, t) \ LineOf(f, u) : b \in LineOf(f, a) => b = a
  <2> SUFFICES ASSUME NEW a \in LineOf(f, t) \ LineOf(f, u), NEW c \in LineOf(f, u),
                      Siblings(f, a, c), NEW b \in LineOf(f, t) \ LineOf(f, u),
                      b \in LineOf(f, a), b # a
               PROVE  FALSE
    OBVIOUS
  <2>1. a \in DOMAIN f /\ c \in DOMAIN f
    BY LineBounds
  <2>2. ~ is_root(f, a)
    BY <2>1, LineUnfolds
  <2>3. ~ is_root(f, c) /\ Parent(f, a) = Parent(f, c)
    BY <2>2 DEF Siblings
  <2>4. b \in LineOf(f, Parent(f, a))
    BY <2>1, <2>2, LineUnfolds
  <2>5. LineOf(f, Parent(f, c)) \subseteq LineOf(f, c) /\ LineOf(f, c) \subseteq LineOf(f, u)
    BY <2>1, <2>3, LineUnfolds, LineTransitive
  <2> QED
    BY <2>3, <2>4, <2>5
<1> QED
  BY <1>1, LineIsChain

LEMMA AheadFacts ==
    ASSUME NEW f, WellFormed(f), NEW a \in DOMAIN f, NEW b \in DOMAIN f, Ahead(f, a, b)
    PROVE  Siblings(f, a, b) /\ Siblings(f, b, a) /\ ~ Ahead(f, b, a)
<1>1. Siblings(f, a, b) /\ Siblings(f, b, a)
  BY DEF Ahead, Siblings
<1>2. a \in Nat /\ b \in Nat /\ f[a].priority \in Int /\ f[b].priority \in Int
  BY IdsAreNats DEF WellFormed
<1> QED
  BY <1>1, <1>2 DEF Ahead, RootBefore

LEMMA BeforeAsymmetric ==
    ASSUME NEW f, WellFormed(f), NEW t \in DOMAIN f, NEW u \in DOMAIN f,
           Before(f, t, u), Before(f, u, t)
    PROVE  FALSE
<1>1. PICK a \in LineOf(f, t) \ LineOf(f, u), b \in LineOf(f, u) \ LineOf(f, t) : Ahead(f, a, b)
  BY DEF Before
<1>2. PICK y \in LineOf(f, u) \ LineOf(f, t), x \in LineOf(f, t) \ LineOf(f, u) : Ahead(f, y, x)
  BY DEF Before
<1>3. a \in DOMAIN f /\ b \in DOMAIN f /\ x \in DOMAIN f /\ y \in DOMAIN f
  BY LineBounds
<1>4. Siblings(f, a, b) /\ Siblings(f, b, a) /\ Siblings(f, x, y) /\ Siblings(f, y, x)
  BY <1>1, <1>2, <1>3, AheadFacts
<1>5. a = x
  BY <1>4, PartOnce
<1>6. b = y
  BY <1>4, PartOnce
<1> QED
  BY <1>1, <1>2, <1>3, <1>5, <1>6, AheadFacts

\* The first of a set of nodes in the order of the walk.
First(f, S) ==
    IF S = {} THEN NoTask ELSE CHOOSE t \in S : \A u \in S \ {t} : Before(f, t, u)

LEMMA FirstIs ==
    ASSUME NEW f, WellFormed(f), NEW S, S \subseteq DOMAIN f, NEW t \in S,
           \A u \in S \ {t} : Before(f, t, u)
    PROVE  First(f, S) = t
<1>1. ASSUME NEW v \in S, \A u \in S \ {v} : Before(f, v, u)
      PROVE  v = t
  <2>1. v # t => Before(f, v, t) /\ Before(f, t, v)
    BY <1>1
  <2> QED
    BY <2>1, BeforeAsymmetric
<1> QED
  BY <1>1 DEF First

-----------------------------------------------------------------------------
(* The walk down: runnable_in_subtree *)

\* The children of n in whose subtree the walk found something.
Hits(f, n, g) == {c \in children(f, n) : g[c] # NoTask}

\* What the walk finds below n, from what it found below the children of n.
Finds(f, exclude, n, g) ==
    IF pruned(f, n, exclude) THEN NoTask
    ELSE IF Hits(f, n, g) # {} THEN g[Eldest(Hits(f, n, g))]
    ELSE IF workable(f, n) THEN n
    ELSE NoTask

\* What the walk finds depends on the children of n only.
LEMMA FindsLocal ==
    ASSUME NEW f, WellFormed(f), NEW exclude, NEW n \in DOMAIN f, NEW g, NEW h,
           \A c \in children(f, n) : g[c] = h[c]
    PROVE  Finds(f, exclude, n, g) = Finds(f, exclude, n, h)
<1>1. Hits(f, n, g) = Hits(f, n, h)
  BY DEF Hits
<1>2. Hits(f, n, g) # {} => Eldest(Hits(f, n, g)) \in children(f, n)
  <2>1. Hits(f, n, g) \subseteq Nat /\ Hits(f, n, g) \subseteq children(f, n)
    BY IdsAreNats DEF Hits, children
  <2> QED
    BY <2>1, EldestFacts
<1> QED
  BY <1>1, <1>2 DEF Finds

\* A table of the walk for the nodes from low on.
TableFrom(f, exclude, low, g) ==
    g = [n \in {k \in DOMAIN f : k >= low} |-> Finds(f, exclude, n, g)]

LEMMA TableExtends ==
    ASSUME NEW f, WellFormed(f), NEW exclude, NEW low \in Nat, NEW g,
           TableFrom(f, exclude, low + 1, g)
    PROVE  \E h : TableFrom(f, exclude, low, h)
<1>0. DOMAIN f \subseteq Nat
  BY IdsAreNats
<1> DEFINE Old == {k \in DOMAIN f : k >= low + 1}
           New == {k \in DOMAIN f : k >= low}
           h == [n \in New |-> Finds(f, exclude, n, g)]
<1>1. \A n \in Old : g[n] = Finds(f, exclude, n, g)
  BY DEF TableFrom
<1>2. \A n \in Old : n \in New /\ h[n] = g[n]
  BY <1>0, <1>1
<1>3. h = [n \in New |-> h[n]]
  OBVIOUS
<1>4. \A n \in New : h[n] = Finds(f, exclude, n, g)
  OBVIOUS
<1> HIDE DEF h
<1>5. ASSUME NEW n \in New PROVE h[n] = Finds(f, exclude, n, h)
  <2>1. \A c \in children(f, n) : c \in Old
    BY <1>0, ChildFacts
  <2>2. \A c \in children(f, n) : g[c] = h[c]
    BY <1>2, <2>1
  <2> QED
    BY <1>4, <2>2, FindsLocal
<1>6. h = [n \in New |-> Finds(f, exclude, n, h)]
  BY <1>3, <1>5
<1>7. TableFrom(f, exclude, low, h)
  BY <1>6 DEF TableFrom
<1> QED
  BY <1>7

LEMMA TableExists ==
    ASSUME NEW f, WellFormed(f), NEW exclude
    PROVE  \E g : TableFrom(f, exclude, 0, g)
<1>0. PICK top \in Nat : DOMAIN f \subseteq 1..top
  BY DEF WellFormed
<1> DEFINE Good == {low \in Nat : \E g : TableFrom(f, exclude, low, g)}
<1>1. top + 1 \in Good
  <2>1. \A k \in DOMAIN f : ~ (k >= top + 1)
    BY <1>0
  <2>2. {k \in DOMAIN f : k >= top + 1} = {}
    BY <2>1
  <2> DEFINE g == [n \in {} |-> 0]
  <2>3. g = [n \in {} |-> Finds(f, exclude, n, g)]
    OBVIOUS
  <2> HIDE DEF g
  <2>4. TableFrom(f, exclude, top + 1, g)
    BY <2>2, <2>3 DEF TableFrom
  <2>5. top + 1 \in Nat
    OBVIOUS
  <2> QED
    BY <2>4, <2>5
<1>2. PICK low \in Good : \A k \in Good : low <= k
  BY <1>1, LeastNat
<1>3. low \in Nat
  OBVIOUS
<1>4. low = 0
  <2> SUFFICES ASSUME low # 0 PROVE FALSE
    OBVIOUS
  <2>1. low - 1 \in Nat /\ (low - 1) + 1 = low
    BY <1>3
  <2>2. PICK g : TableFrom(f, exclude, (low - 1) + 1, g)
    BY <1>2, <2>1
  <2>3. \E h : TableFrom(f, exclude, low - 1, h)
    BY <2>1, <2>2, TableExtends
  <2>4. low - 1 \in Good
    BY <2>1, <2>3
  <2> HIDE DEF Good
  <2> QED
    BY <1>2, <1>3, <2>1, <2>4
<1> QED
  BY <1>2, <1>4

\* runnable_in_subtree, one step at a time.
LEMMA FoundUnfolds ==
    ASSUME NEW f, WellFormed(f), NEW exclude, NEW n \in DOMAIN f
    PROVE  runnable_in_subtree(f, exclude)[n] = Finds(f, exclude, n, runnable_in_subtree(f, exclude))
<1> DEFINE table(g) == g = [k \in DOMAIN f |-> Finds(f, exclude, k, g)]
           found == CHOOSE g : table(g)
<1>1. \E g : table(g)
  <2>1. PICK g : TableFrom(f, exclude, 0, g)
    BY TableExists
  <2>2. \A k \in DOMAIN f : k >= 0
    BY IdsAreNats
  <2>3. {k \in DOMAIN f : k >= 0} = DOMAIN f
    BY <2>2
  <2>4. table(g)
    BY <2>1, <2>3 DEF TableFrom
  <2> QED
    BY <2>4
<1>2. table(found)
  BY <1>1
<1>3. runnable_in_subtree(f, exclude) = found
  BY DEF runnable_in_subtree, Finds, Hits
<1> HIDE DEF found
<1> QED
  BY <1>2, <1>3

-----------------------------------------------------------------------------
(* What the walk finds *)

\* The nodes at or below n that have work and that no node from n down to them cuts off.
Sub(f, exclude, n) ==
    {t \in DOMAIN f : /\ n \in LineOf(f, t)
                      /\ \A a \in LineOf(f, t) : n \in LineOf(f, a) => ~ pruned(f, a, exclude)
                      /\ workable(f, t)}

LEMMA SubFacts ==
    ASSUME NEW f, WellFormed(f), NEW exclude, NEW n \in DOMAIN f, NEW t \in Sub(f, exclude, n)
    PROVE  /\ t \in DOMAIN f /\ t # NoTask /\ n \in LineOf(f, t) /\ workable(f, t)
           /\ ~ pruned(f, n, exclude)
  BY IdsAreNats, LineBounds DEF Sub

LEMMA SubSplits ==
    ASSUME NEW f, WellFormed(f), NEW exclude, NEW n \in DOMAIN f,
           NEW t \in Sub(f, exclude, n), t # n
    PROVE  \E c \in children(f, n) : t \in Sub(f, exclude, c)
<1>1. t \in DOMAIN f /\ n \in LineOf(f, t) /\ workable(f, t)
  BY SubFacts
<1>2. PICK c \in children(f, n) : c \in LineOf(f, t)
  BY <1>1, LineThroughChild
<1>3. n \in LineOf(f, c)
  BY ChildFacts, LineBounds
<1>4. ASSUME NEW a \in LineOf(f, t), c \in LineOf(f, a) PROVE ~ pruned(f, a, exclude)
  <2>1. a \in DOMAIN f
    BY <1>1, LineBounds
  <2>2. n \in LineOf(f, a)
    BY <1>3, <1>4, <2>1, LineTransitive
  <2> QED
    BY <2>2, <1>4 DEF Sub
<1> QED
  BY <1>1, <1>2, <1>4 DEF Sub

LEMMA SubJoins ==
    ASSUME NEW f, WellFormed(f), NEW exclude, NEW n \in DOMAIN f, ~ pruned(f, n, exclude),
           NEW c \in children(f, n), NEW t \in Sub(f, exclude, c)
    PROVE  t \in Sub(f, exclude, n)
<1>1. c \in DOMAIN f /\ LineOf(f, c) = {c} \cup LineOf(f, n)
  BY ChildFacts
<1>2. t \in DOMAIN f /\ c \in LineOf(f, t) /\ workable(f, t)
  BY <1>1, SubFacts
<1>3. n \in LineOf(f, t)
  BY <1>1, <1>2, LineBounds, LineTransitive
<1>4. ASSUME NEW a \in LineOf(f, t), n \in LineOf(f, a) PROVE ~ pruned(f, a, exclude)
  <2>1. CASE c \in LineOf(f, a)
    BY <1>4, <2>1 DEF Sub
  <2>2. CASE a \in LineOf(f, n)
    <3>1. a \in DOMAIN f /\ a <= n /\ n <= a /\ a \in Nat /\ n \in Nat
      BY <1>4, <2>2, LineBounds, IdsAreNats
    <3> QED
      BY <3>1
  <2>3. CASE a \in LineOf(f, c)
    BY <1>1, <2>1, <2>2, <2>3, LineBounds
  <2> QED
    BY <1>2, <1>4, <2>1, <2>3, LineIsChain
<1> QED
  BY <1>2, <1>3, <1>4 DEF Sub

LEMMA SubTop ==
    ASSUME NEW f, WellFormed(f), NEW exclude, NEW n \in DOMAIN f, ~ pruned(f, n, exclude),
           workable(f, n)
    PROVE  n \in Sub(f, exclude, n)
<1>1. ASSUME NEW a \in LineOf(f, n), n \in LineOf(f, a) PROVE a = n
  <2>1. a \in DOMAIN f /\ a <= n /\ n <= a /\ a \in Nat /\ n \in Nat
    BY <1>1, LineBounds, IdsAreNats
  <2> QED
    BY <2>1
<1> QED
  BY <1>1, LineBounds DEF Sub

\* The walk below n finds the first of the nodes that have work there.
FoundIn(f, exclude, n) ==
    LET t == runnable_in_subtree(f, exclude)[n]
    IN  IF t = NoTask THEN Sub(f, exclude, n) = {}
        ELSE t \in Sub(f, exclude, n) /\ \A u \in Sub(f, exclude, n) \ {t} : Before(f, t, u)

\* One step of the walk, its children's subtrees done.
LEMMA FoundStep ==
    ASSUME NEW f, WellFormed(f), NEW exclude, NEW n \in DOMAIN f,
           \A c \in children(f, n) : FoundIn(f, exclude, c)
    PROVE  FoundIn(f, exclude, n)
<1> DEFINE F == runnable_in_subtree(f, exclude)
           hits == Hits(f, n, F)
<1>1. F[n] = Finds(f, exclude, n, F)
  BY FoundUnfolds
<1>2. \A c \in children(f, n) : F[c] = NoTask => Sub(f, exclude, c) = {}
  BY DEF FoundIn
<1>3. \A c \in children(f, n) : F[c] # NoTask =>
        /\ F[c] \in Sub(f, exclude, c)
        /\ \A u \in Sub(f, exclude, c) \ {F[c]} : Before(f, F[c], u)
  BY DEF FoundIn
<1>4. /\ F[n] = NoTask => Sub(f, exclude, n) = {}
      /\ F[n] # NoTask => /\ F[n] \in Sub(f, exclude, n)
                          /\ \A u \in Sub(f, exclude, n) \ {F[n]} : Before(f, F[n], u)
      => FoundIn(f, exclude, n)
  BY DEF FoundIn
<1>5. hits \subseteq children(f, n) /\ \A c \in children(f, n) : c \in hits <=> F[c] # NoTask
  BY DEF Hits
<1> HIDE DEF F, hits
<1>6. ASSUME NEW u \in Sub(f, exclude, n), u # n
      PROVE  \E c \in hits : u \in Sub(f, exclude, c)
  BY <1>2, <1>5, <1>6, SubSplits
<1>7. CASE pruned(f, n, exclude)
  <2>1. F[n] = NoTask
    BY <1>1, <1>7 DEF Finds
  <2>2. Sub(f, exclude, n) = {}
    BY <1>7, SubFacts
  <2> QED
    BY <1>4, <2>1, <2>2
<1>8. CASE ~ pruned(f, n, exclude) /\ hits # {}
  <2> DEFINE c == Eldest(hits)
  <2>1. c \in hits /\ \A d \in hits : c <= d
    <3>1. hits \subseteq Nat
      BY <1>5, ChildFacts
    <3> QED
      BY <1>8, <3>1, EldestFacts
  <2>2. F[n] = F[c]
    BY <1>1, <1>8 DEF Finds, hits
  <2> HIDE DEF c
  <2>3. /\ c \in children(f, n) /\ F[c] # NoTask /\ F[c] \in Sub(f, exclude, c)
        /\ \A u \in Sub(f, exclude, c) \ {F[c]} : Before(f, F[c], u)
    BY <1>3, <1>5, <2>1
  <2>4. F[n] \in Sub(f, exclude, n)
    BY <1>8, <2>2, <2>3, SubJoins
  <2>5. ~ workable(f, n)
    <3>1. ~ is_terminal(f[c].status)
      BY <2>3, ChildFacts, SubFacts DEF pruned
    <3> QED
      BY <2>3, <3>1 DEF workable, is_leaf, synthesis_ready
  <2>6. ASSUME NEW u \in Sub(f, exclude, n), u # F[n] PROVE Before(f, F[n], u)
    <3>1. u # n
      BY <2>5, <2>6, SubFacts
    <3>2. PICK d \in hits : u \in Sub(f, exclude, d)
      BY <1>6, <3>1
    <3>3. CASE d = c
      BY <2>2, <2>3, <2>6, <3>2, <3>3
    <3>4. CASE d # c
      <4>1. d \in children(f, n) /\ d \in DOMAIN f /\ c \in DOMAIN f
        BY <1>5, <2>3, ChildFacts
      <4>2. /\ u \in DOMAIN f /\ d \in LineOf(f, u)
            /\ F[n] \in DOMAIN f /\ c \in LineOf(f, F[n])
        BY <2>2, <2>3, <3>2, <4>1, SubFacts
      <4>3. c \notin LineOf(f, u) /\ d \notin LineOf(f, F[n])
        BY <2>3, <3>4, <4>1, <4>2, OneChildOnLine
      <4>4. c <= d /\ c \in Nat /\ d \in Nat
        BY <2>1, <4>1, IdsAreNats
      <4>5. Ahead(f, c, d)
        BY <2>3, <3>4, <4>1, <4>4, ChildFacts DEF Ahead
      <4> QED
        BY <4>2, <4>3, <4>5 DEF Before
    <3> QED
      BY <3>3, <3>4
  <2> QED
    BY <1>4, <2>2, <2>3, <2>4, <2>6
<1>9. CASE ~ pruned(f, n, exclude) /\ hits = {} /\ workable(f, n)
  <2>1. F[n] = n /\ n # NoTask
    BY <1>1, <1>9, IdsAreNats DEF Finds, hits
  <2> QED
    BY <1>4, <1>6, <1>9, <2>1, SubTop
<1>10. CASE ~ pruned(f, n, exclude) /\ hits = {} /\ ~ workable(f, n)
  <2>1. F[n] = NoTask
    BY <1>1, <1>10 DEF Finds, hits
  <2>2. Sub(f, exclude, n) = {}
    BY <1>6, <1>10, SubFacts
  <2> QED
    BY <1>4, <2>1, <2>2
<1> QED
  BY <1>7, <1>8, <1>9, <1>10

LEMMA FoundFirst ==
    ASSUME NEW f, WellFormed(f), NEW exclude
    PROVE  \A n \in DOMAIN f : FoundIn(f, exclude, n)
<1> DEFINE Bad == {n \in DOMAIN f : ~ FoundIn(f, exclude, n)}
<1>0. PICK m \in Nat : DOMAIN f \subseteq 1..m
  BY DEF WellFormed
<1>1. SUFFICES ASSUME Bad # {} PROVE FALSE
  OBVIOUS
<1>2. PICK n \in Bad : \A k \in Bad : k <= n
  <2>1. Bad \subseteq 1..m
    BY <1>0
  <2> HIDE DEF Bad
  <2> QED
    BY <1>1, <2>1, GreatestNat
<1>3. n \in DOMAIN f /\ n \in Nat /\ ~ FoundIn(f, exclude, n)
  BY <1>2, IdsAreNats
<1>4. ASSUME NEW c \in children(f, n) PROVE FoundIn(f, exclude, c)
  <2>1. c \in DOMAIN f /\ n < c /\ c \in Nat
    BY <1>3, ChildFacts
  <2> QED
    BY <1>2, <1>3, <2>1
<1> QED
  BY <1>3, <1>4, FoundStep

-----------------------------------------------------------------------------
(* The choice between trees: FirstRunnable *)

\* Of every set of nodes that is not empty, one comes first as a root.
LEMMA FirstRoot ==
    ASSUME NEW f, WellFormed(f), NEW S, S \subseteq DOMAIN f, S # {}
    PROVE  \E r \in S : \A s \in S \ {r} : RootBefore(f, r, s)
<1> DEFINE first(T) == \E r \in T : \A s \in T \ {r} : RootBefore(f, r, s)
           Good(m) == \A T \in SUBSET DOMAIN f : T \subseteq 1..m /\ T # {} => first(T)
           Bad == {m \in Nat : ~ Good(m)}
<1>0. PICK top \in Nat : DOMAIN f \subseteq 1..top
  BY DEF WellFormed
<1>1. \A n \in DOMAIN f : n \in Nat /\ f[n].priority \in Int
  BY IdsAreNats DEF WellFormed
<1>2. SUFFICES ASSUME Bad # {} PROVE FALSE
  <2>1. Good(top)
    BY <1>2
  <2>2. S \in SUBSET DOMAIN f /\ S \subseteq 1..top
    BY <1>0
  <2> QED
    BY <2>1, <2>2
<1>3. PICK m \in Bad : \A k \in Bad : m <= k
  <2>1. Bad \subseteq Nat
    OBVIOUS
  <2> HIDE DEF Bad
  <2> QED
    BY <1>2, <2>1, LeastNat
<1>4. m \in Nat /\ ~ Good(m)
  BY <1>3
<1>5. PICK T \in SUBSET DOMAIN f : T \subseteq 1..m /\ T # {} /\ ~ first(T)
  BY <1>4
<1>6. m # 0
  <2>1. PICK k \in T : TRUE
    BY <1>5
  <2>2. k \in 1..m
    BY <1>5
  <2> QED
    BY <1>4, <2>2
<1>7. m - 1 \in Nat /\ Good(m - 1)
  <2>1. m - 1 \in Nat /\ ~ (m <= m - 1)
    BY <1>4, <1>6
  <2>2. \A k \in Nat : k \notin Bad => Good(k)
    OBVIOUS
  <2> HIDE DEF Good, Bad
  <2>3. m - 1 \notin Bad
    BY <1>3, <2>1
  <2> QED
    BY <2>1, <2>2, <2>3
<1>8. m \in T
  <2>1. SUFFICES ASSUME m \notin T PROVE FALSE
    OBVIOUS
  <2>2. \A k \in T : k \in 1..(m - 1)
    BY <1>4, <1>5, <2>1
  <2>3. T \subseteq 1..(m - 1)
    BY <2>2
  <2> QED
    BY <1>5, <1>7, <2>3
<1> DEFINE U == T \ {m}
<1>9. U # {}
  <2>1. U = {} => first(T)
    BY <1>8
  <2> QED
    BY <1>5, <2>1
<1>10. first(U)
  <2>1. \A k \in U : k \in 1..(m - 1)
    BY <1>4, <1>5
  <2>2. U \in SUBSET DOMAIN f /\ U \subseteq 1..(m - 1)
    BY <2>1
  <2> HIDE DEF U, first
  <2> QED
    BY <1>7, <1>9, <2>2
<1>11. PICK r \in U : \A s \in U \ {r} : RootBefore(f, r, s)
  BY <1>10
<1>12. CASE RootBefore(f, r, m)
  <2>1. \A s \in T \ {r} : RootBefore(f, r, s)
    BY <1>11, <1>12
  <2> QED
    BY <1>5, <2>1
<1>13. CASE ~ RootBefore(f, r, m)
  <2>1. RootBefore(f, m, r)
    BY <1>1, <1>8, <1>13 DEF RootBefore
  <2>2. \A s \in U \ {r} : RootBefore(f, m, s)
    BY <1>1, <1>8, <1>11, <2>1 DEF RootBefore
  <2>3. \A s \in T \ {m} : RootBefore(f, m, s)
    BY <2>1, <2>2
  <2> QED
    BY <1>5, <1>8, <2>3
<1> QED
  BY <1>12, <1>13

\* FirstRunnable answers with the first of the nodes that have work in the given trees.
LEMMA FirstRunnableIs ==
    ASSUME NEW f, WellFormed(f), NEW exclude, NEW trees, trees \subseteq roots(f)
    PROVE  FirstRunnable(f, trees, exclude)
             = First(f, {t \in DOMAIN f : \E r \in trees : t \in Sub(f, exclude, r)})
<1> DEFINE F == runnable_in_subtree(f, exclude)
           hits == {r \in trees : F[r] # NoTask}
           S == {t \in DOMAIN f : \E r \in trees : t \in Sub(f, exclude, r)}
<1>1. \A r \in trees : r \in DOMAIN f /\ is_root(f, r)
  BY DEF roots
<1>2. \A r \in trees : F[r] = NoTask => Sub(f, exclude, r) = {}
  BY <1>1, FoundFirst DEF FoundIn
<1>3. \A r \in trees : F[r] # NoTask =>
        /\ F[r] \in Sub(f, exclude, r)
        /\ \A u \in Sub(f, exclude, r) \ {F[r]} : Before(f, F[r], u)
  BY <1>1, FoundFirst DEF FoundIn
<1>4. FirstRunnable(f, trees, exclude) =
        IF hits = {} THEN NoTask
        ELSE F[CHOOSE r \in hits : \A s \in hits \ {r} : RootBefore(f, r, s)]
  BY DEF FirstRunnable
<1>5. \A t : t \in S <=> t \in DOMAIN f /\ \E r \in trees : t \in Sub(f, exclude, r)
  OBVIOUS
<1>6. \A r : r \in hits <=> r \in trees /\ F[r] # NoTask
  OBVIOUS
<1> HIDE DEF F, hits, S
<1>7. CASE hits = {}
  <2>1. S = {}
    BY <1>2, <1>5, <1>6, <1>7
  <2> QED
    BY <1>4, <1>7, <2>1 DEF First, S
<1>8. CASE hits # {}
  <2> DEFINE r == CHOOSE r \in hits : \A s \in hits \ {r} : RootBefore(f, r, s)
  <2>1. r \in hits /\ \A s \in hits \ {r} : RootBefore(f, r, s)
    <3>1. hits \subseteq DOMAIN f
      BY <1>1, <1>6
    <3>2. \E q \in hits : \A s \in hits \ {q} : RootBefore(f, q, s)
      BY <1>8, <3>1, FirstRoot
    <3> QED
      BY <3>2
  <2>2. FirstRunnable(f, trees, exclude) = F[r]
    BY <1>4, <1>8
  <2> HIDE DEF r
  <2> DEFINE t == F[r]
  <2>3. /\ r \in trees /\ r \in DOMAIN f /\ is_root(f, r) /\ t \in Sub(f, exclude, r)
        /\ \A u \in Sub(f, exclude, r) \ {t} : Before(f, t, u)
    BY <1>1, <1>3, <1>6, <2>1
  <2> HIDE DEF t
  <2>4. t \in DOMAIN f /\ r \in LineOf(f, t) /\ t \in S
    BY <1>5, <2>3, SubFacts
  <2>5. ASSUME NEW u \in S, u # t PROVE Before(f, t, u)
    <3>1. PICK q \in trees : u \in Sub(f, exclude, q)
      BY <1>5
    <3>2. q \in hits /\ q \in DOMAIN f /\ is_root(f, q)
      BY <1>1, <1>2, <1>6, <3>1
    <3>3. CASE q = r
      BY <2>3, <2>5, <3>1, <3>3
    <3>4. CASE q # r
      <4>1. u \in DOMAIN f /\ q \in LineOf(f, u)
        BY <3>1, <3>2, SubFacts
      <4>2. r \notin LineOf(f, u)
        BY <2>3, <3>2, <3>4, <4>1, RootsOfLine
      <4>3. q \notin LineOf(f, t)
        BY <2>3, <2>4, <3>2, <3>4, RootsOfLine
      <4>4. Ahead(f, r, q)
        BY <2>1, <2>3, <3>2, <3>4 DEF Ahead
      <4> QED
        BY <2>4, <4>1, <4>2, <4>3, <4>4 DEF Before
    <3> QED
      BY <3>3, <3>4
  <2>6. S \subseteq DOMAIN f
    BY <1>5
  <2>7. First(f, S) = t
    BY <2>4, <2>5, <2>6, FirstIs
  <2> QED
    BY <2>2, <2>7 DEF S, t
<1> QED
  BY <1>7, <1>8

\* The chosen node is the first of its tree, and no better tree has work.
LEMMA ChosenFacts ==
    ASSUME NEW f, WellFormed(f), NEW exclude, NEW trees, trees \subseteq roots(f)
    PROVE  LET t == FirstRunnable(f, trees, exclude)
           IN  \/ t = NoTask /\ \A r \in trees : Sub(f, exclude, r) = {}
               \/ \E r \in trees :
                    /\ t # NoTask /\ t \in Sub(f, exclude, r)
                    /\ \A u \in Sub(f, exclude, r) \ {t} : Before(f, t, u)
                    /\ \A s \in trees : Sub(f, exclude, s) # {} => s = r \/ RootBefore(f, r, s)
<1> DEFINE F == runnable_in_subtree(f, exclude)
           hits == {r \in trees : F[r] # NoTask}
           r == CHOOSE r \in hits : \A s \in hits \ {r} : RootBefore(f, r, s)
<1>1. \A s \in trees : s \in DOMAIN f /\ is_root(f, s)
  BY DEF roots
<1>2. \A s \in trees : F[s] = NoTask => Sub(f, exclude, s) = {}
  BY <1>1, FoundFirst DEF FoundIn
<1>3. \A s \in trees : F[s] # NoTask => /\ F[s] \in Sub(f, exclude, s)
                                       /\ \A u \in Sub(f, exclude, s) \ {F[s]} : Before(f, F[s], u)
  BY <1>1, FoundFirst DEF FoundIn
<1>4. FirstRunnable(f, trees, exclude) = IF hits = {} THEN NoTask ELSE F[r]
  BY DEF FirstRunnable
<1>5. \A s \in trees : s \in hits <=> F[s] # NoTask
  OBVIOUS
<1>6. hits \subseteq trees /\ hits \subseteq DOMAIN f
  BY <1>1
<1>7. hits # {} => r \in hits /\ \A s \in hits \ {r} : RootBefore(f, r, s)
  <2> HIDE DEF hits
  <2>1. hits # {} => \E q \in hits : \A s \in hits \ {q} : RootBefore(f, q, s)
    BY <1>6, FirstRoot
  <2> QED
    BY <2>1
<1> HIDE DEF F, hits, r
<1>8. CASE hits = {}
  BY <1>2, <1>4, <1>5, <1>8
<1>9. CASE hits # {}
  <2>1. r \in trees /\ F[r] # NoTask
    BY <1>5, <1>6, <1>7, <1>9
  <2>2. \A s \in trees : Sub(f, exclude, s) # {} => s = r \/ RootBefore(f, r, s)
    BY <1>2, <1>5, <1>7, <1>9
  <2> QED
    BY <1>3, <1>4, <1>9, <2>1, <2>2
<1> QED
  BY <1>8, <1>9

-----------------------------------------------------------------------------
(* Forests of one shape *)

SameShape(f, g) ==
    DOMAIN g = DOMAIN f /\ \A n \in DOMAIN f : Parent(g, n) = Parent(f, n)

LEMMA ShapeFacts ==
    ASSUME NEW f, NEW g, SameShape(f, g)
    PROVE  /\ \A n \in DOMAIN f : is_root(g, n) <=> is_root(f, n)
           /\ roots(g) = roots(f)
           /\ \A n : children(g, n) = children(f, n)
  BY DEF SameShape, is_root, roots, children, Parent

\* Lines depend on the shape alone.
LEMMA SameLines ==
    ASSUME NEW f, WellFormed(f), NEW g, WellFormed(g), SameShape(f, g)
    PROVE  \A t \in DOMAIN f : LineOf(g, t) = LineOf(f, t)
<1> DEFINE Bad == {t \in DOMAIN f : LineOf(g, t) # LineOf(f, t)}
<1>1. SUFFICES ASSUME Bad # {} PROVE FALSE
  OBVIOUS
<1>2. PICK t \in Bad : \A k \in Bad : t <= k
  BY <1>1, IdsAreNats, LeastNat
<1>3. /\ t \in DOMAIN f /\ t \in DOMAIN g /\ t \in Nat
      /\ is_root(g, t) <=> is_root(f, t)
      /\ Parent(g, t) = Parent(f, t)
  BY <1>2, IdsAreNats, ShapeFacts DEF SameShape
<1>4. CASE is_root(f, t)
  BY <1>2, <1>3, <1>4, LineUnfolds
<1>5. CASE ~ is_root(f, t)
  <2>1. Parent(f, t) \in DOMAIN f /\ Parent(f, t) < t /\ Parent(f, t) \in Nat
    BY <1>3, <1>5, ParentFacts
  <2>2. LineOf(g, Parent(f, t)) = LineOf(f, Parent(f, t))
    BY <1>2, <1>3, <2>1
  <2>3. LineOf(g, t) = {t} \cup LineOf(g, Parent(f, t))
    BY <1>3, <1>5, LineUnfolds
  <2>4. LineOf(f, t) = {t} \cup LineOf(f, Parent(f, t))
    BY <1>3, <1>5, LineUnfolds
  <2> QED
    BY <1>2, <2>2, <2>3, <2>4
<1> QED
  BY <1>4, <1>5

-----------------------------------------------------------------------------
(* The list of live_descendants *)

\* What the walk writes for a node itself.
Own(f, c) == IF is_terminal(f[c].status) THEN <<>> ELSE <<c>>

\* What the walk writes for some siblings, from what it writes for younger nodes.
Lists(f, S, g) ==
    IF S = {} THEN <<>> ELSE Own(f, Min(S)) \o g[children(f, Min(S))] \o g[S \ {Min(S)}]

Later(f, low) == {k \in DOMAIN f : k >= low}

ListFrom(f, low, g) == g = [S \in SUBSET Later(f, low) |-> Lists(f, S, g)]

\* The two lists a list is made of are of younger nodes.
LEMMA MinSplits ==
    ASSUME NEW f, WellFormed(f), NEW low \in Nat, NEW S \in SUBSET Later(f, low), S # {}
    PROVE  /\ Min(S) \in S /\ Min(S) \in DOMAIN f /\ \A y \in S : Min(S) <= y
           /\ children(f, Min(S)) \in SUBSET Later(f, low + 1)
           /\ S \ {Min(S)} \in SUBSET Later(f, low + 1)
<1> DEFINE c == Min(S)
<1>1. S \subseteq Nat /\ S \subseteq DOMAIN f /\ \A y \in S : y >= low
  BY IdsAreNats DEF Later
<1>2. c \in S /\ \A y \in S : c <= y
  BY <1>1, EldestFacts DEF Eldest
<1> HIDE DEF c
<1>3. \A d \in children(f, c) : d \in DOMAIN f /\ d \in Nat /\ c < d
  BY <1>1, <1>2, ChildFacts
<1>4. c \in Nat /\ c >= low
  BY <1>1, <1>2
<1>5. \A d \in children(f, c) \cup (S \ {c}) : d \in DOMAIN f /\ d \in Nat /\ c < d
  <2>1. \A d \in S \ {c} : d \in DOMAIN f /\ d \in Nat /\ c < d
    BY <1>1, <1>2, <1>4
  <2> QED
    BY <1>3, <2>1
<1>6. \A d \in children(f, c) \cup (S \ {c}) : d \in Later(f, low + 1)
  BY <1>4, <1>5 DEF Later
<1> QED
  BY <1>1, <1>2, <1>6 DEF c

LEMMA ListExtends ==
    ASSUME NEW f, WellFormed(f), NEW low \in Nat, NEW g, ListFrom(f, low + 1, g)
    PROVE  \E h : ListFrom(f, low, h)
<1> DEFINE Old == SUBSET Later(f, low + 1)
           New == SUBSET Later(f, low)
           h == [S \in New |-> Lists(f, S, g)]
<1>1. \A S \in Old : g[S] = Lists(f, S, g)
  BY DEF ListFrom
<1>2. Later(f, low + 1) \subseteq Later(f, low)
  BY IdsAreNats DEF Later
<1>3. \A S \in Old : S \in New /\ h[S] = g[S]
  BY <1>1, <1>2
<1>4. h = [S \in New |-> h[S]]
  OBVIOUS
<1>5. \A S \in New : h[S] = Lists(f, S, g)
  OBVIOUS
<1> HIDE DEF h
<1>6. ASSUME NEW S \in New PROVE h[S] = Lists(f, S, h)
  <2>1. CASE S = {}
    BY <1>5, <2>1 DEF Lists
  <2>2. CASE S # {}
    <3>1. children(f, Min(S)) \in Old /\ S \ {Min(S)} \in Old
      BY <2>2, MinSplits
    <3>2. /\ h[children(f, Min(S))] = g[children(f, Min(S))]
          /\ h[S \ {Min(S)}] = g[S \ {Min(S)}]
      BY <1>3, <3>1
    <3> QED
      BY <1>5, <3>2 DEF Lists
  <2> QED
    BY <2>1, <2>2
<1>7. h = [S \in New |-> Lists(f, S, h)]
  BY <1>4, <1>6
<1>8. ListFrom(f, low, h)
  BY <1>7 DEF ListFrom
<1> QED
  BY <1>8

LEMMA ListExists ==
    ASSUME NEW f, WellFormed(f)
    PROVE  \E g : ListFrom(f, 0, g)
<1>0. PICK top \in Nat : DOMAIN f \subseteq 1..top
  BY DEF WellFormed
<1> DEFINE Good == {low \in Nat : \E g : ListFrom(f, low, g)}
<1>1. top + 1 \in Good
  <2>1. \A k \in DOMAIN f : ~ (k >= top + 1)
    BY <1>0
  <2>2. SUBSET Later(f, top + 1) = {{}}
    BY <2>1 DEF Later
  <2> DEFINE g == [S \in {{}} |-> <<>>]
  <2>3. g = [S \in {{}} |-> Lists(f, S, g)]
    BY DEF Lists
  <2> HIDE DEF g
  <2>4. ListFrom(f, top + 1, g)
    BY <2>2, <2>3 DEF ListFrom
  <2>5. top + 1 \in Nat
    OBVIOUS
  <2> QED
    BY <2>4, <2>5
<1>2. PICK low \in Good : \A k \in Good : low <= k
  BY <1>1, LeastNat
<1>3. low \in Nat
  OBVIOUS
<1>4. low = 0
  <2> SUFFICES ASSUME low # 0 PROVE FALSE
    OBVIOUS
  <2>1. low - 1 \in Nat /\ (low - 1) + 1 = low
    BY <1>3
  <2>2. PICK g : ListFrom(f, (low - 1) + 1, g)
    BY <1>2, <2>1
  <2>3. \E h : ListFrom(f, low - 1, h)
    BY <2>1, <2>2, ListExtends
  <2>4. low - 1 \in Good
    BY <2>1, <2>3
  <2> HIDE DEF Good
  <2> QED
    BY <1>2, <1>3, <2>1, <2>4
<1> QED
  BY <1>2, <1>4

\* The walk of live_descendants over siblings.
Listed(f, S) ==
    LET walk[siblings \in SUBSET DOMAIN f] ==
          IF siblings = {} THEN <<>>
          ELSE LET c == Min(siblings)
               IN  (IF is_terminal(f[c].status) THEN <<>> ELSE <<c>>)
                   \o walk[children(f, c)] \o walk[siblings \ {c}]
    IN  walk[S]

LEMMA LiveIsListed ==
    ASSUME NEW f, NEW t
    PROVE  live_descendants(f, t) = Listed(f, children(f, t))
  BY DEF live_descendants, Listed

\* live_descendants, one sibling at a time.
LEMMA ListedUnfolds ==
    ASSUME NEW f, WellFormed(f), NEW S \in SUBSET DOMAIN f
    PROVE  Listed(f, S) = IF S = {} THEN <<>>
                          ELSE Own(f, Min(S)) \o Listed(f, children(f, Min(S)))
                                              \o Listed(f, S \ {Min(S)})
<1> DEFINE table(g) == g = [K \in SUBSET DOMAIN f |-> Lists(f, K, g)]
           walk == CHOOSE g : table(g)
<1>1. \E g : table(g)
  <2>1. PICK g : ListFrom(f, 0, g)
    BY ListExists
  <2>2. \A k \in DOMAIN f : k >= 0
    BY IdsAreNats
  <2>3. Later(f, 0) = DOMAIN f
    BY <2>2 DEF Later
  <2>4. table(g)
    BY <2>1, <2>3 DEF ListFrom
  <2> QED
    BY <2>4
<1>2. table(walk)
  BY <1>1
<1>3. \A K : Listed(f, K) = walk[K]
  BY DEF Listed, Lists, Own
<1> HIDE DEF walk
<1>4. walk[S] = Lists(f, S, walk)
  BY <1>2
<1>5. CASE S = {}
  BY <1>3, <1>4, <1>5 DEF Lists
<1>6. CASE S # {}
  <2> DEFINE kids == children(f, Min(S))
             rest == S \ {Min(S)}
  <2>1. walk[S] = Own(f, Min(S)) \o walk[kids] \o walk[rest]
    BY <1>4, <1>6 DEF Lists
  <2>2. Listed(f, S) = walk[S] /\ Listed(f, kids) = walk[kids] /\ Listed(f, rest) = walk[rest]
    BY <1>3
  <2> HIDE DEF kids, rest
  <2>3. Listed(f, S) = Own(f, Min(S)) \o Listed(f, kids) \o Listed(f, rest)
    BY <2>1, <2>2
  <2> QED
    BY <1>6, <2>3 DEF kids, rest
<1> QED
  BY <1>5, <1>6

\* x is above y, or on a branch that is walked earlier.
Precedes(f, x, y) == x \in LineOf(f, y) \ {y} \/ Before(f, x, y)

InOrder(f, s) == \A i, j \in DOMAIN s : i < j => Precedes(f, s[i], s[j])

\* The live nodes below, or among, the nodes of S.
LiveUnder(f, S) ==
    {d \in DOMAIN f : ~ is_terminal(f[d].status) /\ \E c \in S : c \in LineOf(f, d)}

Complete(f, S, s) == ToSet(s) = LiveUnder(f, S) /\ InOrder(f, s)

LEMMA JoinedLists ==
    ASSUME NEW f, NEW a \in Seq(DOMAIN f), NEW b \in Seq(DOMAIN f)
    PROVE  /\ a \o b \in Seq(DOMAIN f)
           /\ ToSet(a \o b) = ToSet(a) \cup ToSet(b)
           /\ /\ InOrder(f, a) /\ InOrder(f, b)
              /\ \A x \in ToSet(a), y \in ToSet(b) : Precedes(f, x, y)
              => InOrder(f, a \o b)
<1> DEFINE s == a \o b
           m == Len(a)
<1>1. /\ m \in Nat /\ Len(b) \in Nat /\ s \in Seq(DOMAIN f) /\ Len(s) = m + Len(b)
      /\ \A i \in 1..m : s[i] = a[i]
      /\ \A i \in 1..Len(b) : s[m + i] = b[i]
  OBVIOUS
<1>2. DOMAIN a = 1..m /\ DOMAIN b = 1..Len(b) /\ DOMAIN s = 1..Len(s)
  BY <1>1
<1>3. \A i \in DOMAIN s : \/ i \in DOMAIN a /\ s[i] = a[i]
                          \/ i - m \in DOMAIN b /\ s[i] = b[i - m] /\ i > m
  <2> SUFFICES ASSUME NEW i \in DOMAIN s, ~ (i \in 1..m)
               PROVE  i - m \in DOMAIN b /\ s[i] = b[i - m] /\ i > m
    BY <1>1, <1>2
  <2>1. i \in Nat /\ i > m /\ i - m \in 1..Len(b) /\ i = m + (i - m)
    BY <1>1, <1>2
  <2> QED
    BY <1>1, <1>2, <2>1
<1>4. \A i \in DOMAIN b : m + i \in DOMAIN s /\ s[m + i] = b[i]
  BY <1>1, <1>2
<1>5. \A i \in DOMAIN a : i \in DOMAIN s /\ s[i] = a[i]
  BY <1>1, <1>2
<1> HIDE DEF s, m
<1>6. ToSet(s) = ToSet(a) \cup ToSet(b)
  <2>1. \A x : x \in ToSet(s) => x \in ToSet(a) \cup ToSet(b)
    BY <1>3 DEF ToSet
  <2>2. \A x : x \in ToSet(a) \cup ToSet(b) => x \in ToSet(s)
    BY <1>4, <1>5 DEF ToSet
  <2> QED
    BY <2>1, <2>2
<1>7. ASSUME InOrder(f, a), InOrder(f, b), \A x \in ToSet(a), y \in ToSet(b) : Precedes(f, x, y)
      PROVE  InOrder(f, s)
  <2> SUFFICES ASSUME NEW i \in DOMAIN s, NEW j \in DOMAIN s, i < j
               PROVE  Precedes(f, s[i], s[j])
    BY DEF InOrder
  <2>0. i \in Nat /\ j \in Nat
    BY <1>1, <1>2
  <2>1. CASE i \in DOMAIN a /\ s[i] = a[i] /\ j \in DOMAIN a /\ s[j] = a[j]
    BY <1>7, <2>1 DEF InOrder
  <2>2. CASE i \in DOMAIN a /\ s[i] = a[i] /\ j - m \in DOMAIN b /\ s[j] = b[j - m]
    BY <1>7, <2>2 DEF ToSet
  <2>3. CASE /\ i - m \in DOMAIN b /\ s[i] = b[i - m] /\ i > m
             /\ j - m \in DOMAIN b /\ s[j] = b[j - m]
    <3>1. i - m < j - m
      BY <1>1, <2>0
    <3> QED
      BY <1>7, <2>3, <3>1 DEF InOrder
  <2>4. ~ (i > m /\ j \in DOMAIN a)
    BY <1>1, <1>2, <2>0
  <2> QED
    BY <1>3, <2>1, <2>2, <2>3, <2>4
<1> QED
  BY <1>1, <1>6, <1>7 DEF s

\* The list over the children of a node holds what lives below the node, parents first and
\* elder branches before younger.
LEMMA ListedFacts ==
    ASSUME NEW f, WellFormed(f)
    PROVE  \A S \in SUBSET DOMAIN f :
             /\ Listed(f, S) \in Seq(DOMAIN f)
             /\ \A n \in DOMAIN f : S \subseteq children(f, n) => Complete(f, S, Listed(f, S))
<1> DEFINE Good(S) == /\ Listed(f, S) \in Seq(DOMAIN f)
                      /\ \A n \in DOMAIN f :
                           S \subseteq children(f, n) => Complete(f, S, Listed(f, S))
           Bad == {low \in DOMAIN f : \E S \in SUBSET DOMAIN f :
                                        S # {} /\ Min(S) = low /\ ~ Good(S)}
<1>0. DOMAIN f \subseteq Nat
  BY IdsAreNats
<1>1. Good({})
  <2>1. Listed(f, {}) = <<>>
    BY ListedUnfolds
  <2>2. LiveUnder(f, {}) = {}
    BY DEF LiveUnder
  <2>3. ToSet(<<>>) = {} /\ InOrder(f, <<>>) /\ <<>> \in Seq(DOMAIN f)
    BY DEF ToSet, InOrder
  <2> QED
    BY <2>1, <2>2, <2>3 DEF Complete
<1>2. \A S \in SUBSET DOMAIN f : S # {} => Min(S) \in S /\ Min(S) \in DOMAIN f
  BY <1>0, EldestFacts DEF Eldest
<1>3. SUFFICES ASSUME Bad # {} PROVE FALSE
  BY <1>1, <1>2
<1>4. PICK low \in Bad : \A k \in Bad : k <= low
  <2>1. PICK top \in Nat : DOMAIN f \subseteq 1..top
    BY DEF WellFormed
  <2> QED
    BY <1>3, <2>1, GreatestNat
<1>5. PICK S \in SUBSET DOMAIN f : S # {} /\ Min(S) = low /\ ~ Good(S)
  BY <1>4
<1>6. low \in DOMAIN f /\ low \in S /\ low \in Nat
  BY <1>0, <1>2, <1>5
<1>7. ASSUME NEW K \in SUBSET DOMAIN f, \A k \in K : k > low PROVE Good(K)
  <2>1. CASE K = {}
    BY <1>1, <2>1
  <2>2. CASE K # {}
    <3>1. Min(K) \in DOMAIN f /\ Min(K) > low
      BY <1>2, <1>7, <2>2
    <3>2. Min(K) \notin Bad
      BY <1>0, <1>4, <1>6, <3>1
    <3> QED
      BY <2>2, <3>1, <3>2
  <2> QED
    BY <2>1, <2>2
<1> DEFINE kids == children(f, low)
           rest == S \ {low}
           own  == Own(f, low)
           A    == Listed(f, kids)
           B    == Listed(f, rest)
<1>8. \A k \in kids : k > low /\ k \in DOMAIN f
  BY <1>6, ChildFacts
<1>9. \A k \in rest : k > low
  <2>1. \A y \in S : low <= y
    BY <1>0, <1>5, EldestFacts DEF Eldest
  <2> QED
    BY <1>0, <1>6, <2>1
<1>10. Good(kids) /\ Good(rest)
  BY <1>7, <1>8, <1>9
<1>11. Listed(f, S) = own \o A \o B
  BY <1>5, ListedUnfolds
<1>12. own \in Seq(DOMAIN f)
  <2>1. <<>> \in Seq(DOMAIN f) /\ <<low>> \in Seq(DOMAIN f)
    BY <1>6
  <2> QED
    BY <2>1 DEF Own
<1>13. /\ A \in Seq(DOMAIN f) /\ B \in Seq(DOMAIN f) /\ Complete(f, kids, A)
  BY <1>6, <1>10
<1>14. own \o A \in Seq(DOMAIN f) /\ Listed(f, S) \in Seq(DOMAIN f)
  BY <1>11, <1>12, <1>13, JoinedLists
<1>15. ASSUME NEW n \in DOMAIN f, S \subseteq children(f, n)
       PROVE  Complete(f, S, Listed(f, S))
  <2>1. rest \subseteq children(f, n) /\ low \in children(f, n)
    BY <1>6, <1>15
  <2>2. Complete(f, rest, B)
    BY <1>10, <2>1
  <2>3. ToSet(own) = IF is_terminal(f[low].status) THEN {} ELSE {low}
    BY DEF Own, ToSet
  <2>4. InOrder(f, own)
    BY DEF Own, InOrder
  <2>5. ASSUME NEW d \in DOMAIN f
        PROVE  low \in LineOf(f, d) <=> d = low \/ \E k \in kids : k \in LineOf(f, d)
    <3>1. d = low => low \in LineOf(f, d)
      BY LineBounds
    <3>2. ASSUME NEW k \in kids, k \in LineOf(f, d) PROVE low \in LineOf(f, d)
      <4>1. low \in LineOf(f, k)
        BY <1>6, ChildFacts, LineBounds
      <4> QED
        BY <3>2, <4>1, LineTransitive
    <3>3. low \in LineOf(f, d) /\ d # low => \E k \in kids : k \in LineOf(f, d)
      BY LineThroughChild
    <3> QED
      BY <3>1, <3>2, <3>3
  <2> HIDE DEF own, A, B
  <2>6. ToSet(Listed(f, S)) = LiveUnder(f, S)
    <3>1. ToSet(Listed(f, S)) = (ToSet(own) \cup ToSet(A)) \cup ToSet(B)
      <4>1. ToSet(own \o A) = ToSet(own) \cup ToSet(A)
        BY <1>12, <1>13, JoinedLists
      <4> DEFINE both == own \o A
      <4>2. both \in Seq(DOMAIN f) /\ B \in Seq(DOMAIN f)
        BY <1>13, <1>14
      <4> HIDE DEF both
      <4>3. ToSet(both \o B) = ToSet(both) \cup ToSet(B)
        BY <4>2, JoinedLists
      <4> QED
        BY <1>11, <4>1, <4>3 DEF both
    <3>2. ToSet(A) = LiveUnder(f, kids) /\ ToSet(B) = LiveUnder(f, rest)
      BY <1>13, <2>2 DEF Complete
    <3>3. ASSUME NEW d \in DOMAIN f, ~ is_terminal(f[d].status)
          PROVE  (\E c \in S : c \in LineOf(f, d))
                   <=> \/ d = low \/ \E k \in kids : k \in LineOf(f, d)
                       \/ \E k \in rest : k \in LineOf(f, d)
      BY <1>6, <2>5
    <3> HIDE DEF kids, rest
    <3>4. \A d : d \in LiveUnder(f, S) <=> d \in ToSet(own) \cup ToSet(A) \cup ToSet(B)
      BY <1>6, <2>3, <3>2, <3>3 DEF LiveUnder
    <3> QED
      BY <3>1, <3>4
  <2>7. ASSUME NEW x \in ToSet(own), NEW y \in ToSet(A) PROVE Precedes(f, x, y)
    <3>1. x = low
      BY <2>3
    <3>2. y \in DOMAIN f /\ \E k \in kids : k \in LineOf(f, y)
      BY <1>13 DEF Complete, LiveUnder
    <3>3. low \in LineOf(f, y)
      BY <2>5, <3>2
    <3>4. y # low
      <4>1. PICK k \in kids : k \in LineOf(f, y)
        BY <3>2
      <4>2. k <= y /\ k > low /\ k \in Nat
        BY <1>0, <1>8, <3>2, <4>1, LineBounds
      <4> QED
        BY <1>6, <4>2
    <3> QED
      BY <3>1, <3>3, <3>4 DEF Precedes
  <2>8. ASSUME NEW x \in ToSet(own) \cup ToSet(A), NEW y \in ToSet(B) PROVE Precedes(f, x, y)
    <3>1. x \in DOMAIN f /\ low \in LineOf(f, x)
      <4>1. CASE x \in ToSet(own)
        BY <1>6, <2>3, <4>1, LineBounds
      <4>2. CASE x \in ToSet(A)
        BY <1>13, <2>5, <4>2 DEF Complete, LiveUnder
      <4> QED
        BY <4>1, <4>2
    <3>2. PICK k \in rest : y \in DOMAIN f /\ k \in LineOf(f, y)
      BY <2>2 DEF Complete, LiveUnder
    <3>3. k \in children(f, n) /\ k # low /\ low < k
      BY <1>9, <2>1, <3>2
    <3>4. low \notin LineOf(f, y) /\ k \notin LineOf(f, x)
      BY <2>1, <3>1, <3>2, <3>3, OneChildOnLine
    <3>5. Ahead(f, low, k)
      BY <2>1, <3>3, ChildFacts DEF Ahead
    <3> QED
      BY <3>1, <3>2, <3>4, <3>5 DEF Precedes, Before
  <2>9. InOrder(f, own \o A) /\ ToSet(own \o A) = ToSet(own) \cup ToSet(A)
    BY <1>12, <1>13, <2>4, <2>7, JoinedLists DEF Complete
  <2>10. InOrder(f, Listed(f, S))
    BY <1>11, <1>13, <1>14, <2>2, <2>8, <2>9, JoinedLists DEF Complete
  <2> QED
    BY <2>6, <2>10 DEF Complete
<1> QED
  BY <1>5, <1>14, <1>15

\* What live_descendants returns.
LEMMA LiveDescendantsAre ==
    ASSUME NEW f, WellFormed(f), NEW t \in DOMAIN f
    PROVE  /\ live_descendants(f, t) \in Seq(DOMAIN f)
           /\ InOrder(f, live_descendants(f, t))
           /\ ToSet(live_descendants(f, t)) =
                {d \in DOMAIN f : t \in LineOf(f, d) \ {d} /\ ~ is_terminal(f[d].status)}
<1> DEFINE S == children(f, t)
<1>1. S \in SUBSET DOMAIN f
  BY DEF children
<1>2. Listed(f, S) \in Seq(DOMAIN f) /\ Complete(f, S, Listed(f, S))
  BY <1>1, ListedFacts
<1>3. ASSUME NEW d \in DOMAIN f
      PROVE  (\E c \in S : c \in LineOf(f, d)) <=> t \in LineOf(f, d) \ {d}
  <2>1. t \in LineOf(f, d) \ {d} => \E c \in S : c \in LineOf(f, d)
    BY LineThroughChild
  <2>2. ASSUME NEW c \in S, c \in LineOf(f, d) PROVE t \in LineOf(f, d) \ {d}
    <3>1. t \in LineOf(f, c) /\ t < c /\ c <= d
      BY <1>1, <2>2, ChildFacts, LineBounds
    <3>2. t \in Nat /\ c \in Nat /\ d \in Nat
      BY <1>1, IdsAreNats
    <3>3. t \in LineOf(f, d)
      BY <1>1, <2>2, <3>1, LineTransitive
    <3> QED
      BY <3>1, <3>2, <3>3
  <2> QED
    BY <2>1, <2>2
<1> HIDE DEF S
<1>4. \A d : d \in LiveUnder(f, S) <=>
               d \in DOMAIN f /\ t \in LineOf(f, d) \ {d} /\ ~ is_terminal(f[d].status)
  BY <1>3 DEF LiveUnder
<1>5. LiveUnder(f, S) =
        {d \in DOMAIN f : t \in LineOf(f, d) \ {d} /\ ~ is_terminal(f[d].status)}
  BY <1>4
<1>6. live_descendants(f, t) = Listed(f, S)
  BY LiveIsListed DEF S
<1> QED
  BY <1>2, <1>5, <1>6 DEF Complete
=============================================================================
