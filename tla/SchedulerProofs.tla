--------------------------- MODULE SchedulerProofs ---------------------------
(***************************************************************************)
(* The safety of pkg/scheduler for every set of nodes, every graph, every  *)
(* number of workers and either failure mode.                              *)
(***************************************************************************)
EXTENDS Scheduler, FiniteSetTheorems, WellFoundedInduction, TLAPS

-----------------------------------------------------------------------------
(***************************************************************************)
(* Facts about the graph operators of DependencyGraph, for every finite    *)
(* set of nodes.                                                           *)
(***************************************************************************)

(***************************************************************************)
(* The head of a sorted, non-empty ready queue exists: First(S) is a       *)
(* member of S and no member sorts before it.                              *)
(***************************************************************************)
LEMMA FirstIsLeast ==
  ASSUME NEW S \in SUBSET Node, S # {}
  PROVE  First(S) \in S /\ \A m \in S : Rank[First(S)] <= Rank[m]
<1> DEFINE Below(x) == {y \in S : Rank[y] < Rank[x]}
           T == {Below(x) : x \in S}
<1>1. IsFiniteSet(S)
  BY NodeAssumption, FS_Subset
<1>2. T \subseteq FiniteSubsetsOf(S) /\ T # {}
  <2>1. FiniteSubsetsOf(S) = SUBSET S
    BY <1>1, FS_FiniteSubsetsOfFinite
  <2>2. ASSUME NEW B \in T PROVE B \in SUBSET S
    OBVIOUS
  <2>3. \E x \in S : Below(x) \in T
    OBVIOUS
  <2> HIDE DEF T
  <2> QED  BY <2>1, <2>2, <2>3
<1>3. PICK B \in T : \A C \in T : <<C, B>> \notin StrictSubsetOrdering(S)
  <2> HIDE DEF T
  <2> QED  BY <1>2, FS_StrictSubsetOrderingWellFounded, WFMin
<1>4. PICK x \in S : B = Below(x)
  OBVIOUS
<1>5. \A m \in S : Rank[x] <= Rank[m]
  <2> SUFFICES ASSUME NEW m \in S, Rank[m] < Rank[x]
               PROVE  FALSE
    BY RankAssumption
  <2>1. Below(m) \subseteq Below(x) /\ m \in Below(x) /\ m \notin Below(m)
    BY RankAssumption
  <2>2. <<Below(m), Below(x)>> \in StrictSubsetOrdering(S)
    BY <2>1 DEF StrictSubsetOrdering
  <2> QED  BY <2>2, <1>3, <1>4
<1> QED  BY <1>5 DEF First

(***************************************************************************)
(* skipBlocked reaches only pending nodes.                                 *)
(***************************************************************************)
LEMMA WithinSubset ==
  ASSUME NEW g, NEW n, NEW P
  PROVE  DependentsWithin(g, n, P) \subseteq P
BY DEF DependentsWithin

(***************************************************************************)
(* skipBlocked leaves none out: a pending dependent of the node it starts  *)
(* from, or of a node it skips, is skipped.                                *)
(***************************************************************************)
LEMMA WithinClosed ==
  ASSUME NEW g, NEW n, NEW P,
         NEW x \in {n} \cup DependentsWithin(g, n, P),
         NEW y \in Dependents(g, x) \cap P
  PROVE  y \in DependentsWithin(g, n, P)
BY DEF DependentsWithin

(***************************************************************************)
(* skipBlocked skips nothing else: each node it skips depends directly on  *)
(* the node it starts from or on another node it skips.                    *)
(***************************************************************************)
LEMMA WithinJustified ==
  ASSUME NEW g, NEW n, NEW P,
         NEW m \in DependentsWithin(g, n, P)
  PROVE  \E x \in {n} \cup DependentsWithin(g, n, P) : m \in Dependents(g, x)
<1> DEFINE D == DependentsWithin(g, n, P)
           S == D \ {m}
<1> SUFFICES ASSUME \A x \in {n} \cup D : m \notin Dependents(g, x)
             PROVE  FALSE
  OBVIOUS
<1>1. S \in SUBSET P
  BY WithinSubset
<1>2. \A x \in {n} \cup S : Dependents(g, x) \cap P \subseteq S
  BY WithinClosed
<1>3. m \in S
  BY <1>1, <1>2 DEF DependentsWithin
<1> QED  BY <1>3

(***************************************************************************)
(* A node reached through pending nodes is reached in the whole graph.     *)
(***************************************************************************)
LEMMA WithinMonotone ==
  ASSUME NEW g, NEW n, NEW P, NEW Q, P \subseteq Q
  PROVE  DependentsWithin(g, n, P) \subseteq DependentsWithin(g, n, Q)
<1> SUFFICES ASSUME NEW m \in DependentsWithin(g, n, P),
                    NEW S \in SUBSET Q,
                    \A x \in {n} \cup S : Dependents(g, x) \cap Q \subseteq S
             PROVE  m \in S
  BY DEF DependentsWithin
<1>1. S \cap P \in SUBSET P
  OBVIOUS
<1>2. \A x \in {n} \cup (S \cap P) : Dependents(g, x) \cap P \subseteq S \cap P
  OBVIOUS
<1> QED  BY <1>1, <1>2 DEF DependentsWithin
-----------------------------------------------------------------------------
(***************************************************************************)
(* Kahn's algorithm.  Its sequences are defined by recursion on their      *)
(* length; induction is by the least counterexample.                       *)
(***************************************************************************)
LEMMA LeastNatural ==
  ASSUME NEW S \in SUBSET Nat, S # {}
  PROVE  \E n \in S : \A m \in S : n <= m
<1>1. IsWellFoundedOn(OpToRel(<, Nat), Nat)
  BY NatLessThanWellFounded
<1>2. PICK n \in S : \A m \in S : <<m, n>> \notin OpToRel(<, Nat)
  BY <1>1, WFMin
<1>3. \A m \in S : ~(m < n)
  BY <1>2 DEF OpToRel
<1> QED  BY <1>3

(***************************************************************************)
(* A function on the naturals defined by recursion exists and does what    *)
(* its definition says: it starts with x and goes on with next.            *)
(***************************************************************************)
Iterates(x, next, f) == f = [k \in Nat |-> IF k = 0 THEN x ELSE next[f[k - 1]]]

IteratesUpTo(x, next, n, h) == h = [k \in 0 .. n |-> IF k = 0 THEN x ELSE next[h[k - 1]]]

LEMMA IterationUpToExists ==
  ASSUME NEW x, NEW next, NEW n \in Nat
  PROVE  \E h : IteratesUpTo(x, next, n, h)
<1> DEFINE Bad == {m \in Nat : ~\E h : IteratesUpTo(x, next, m, h)}
<1> SUFFICES ASSUME Bad # {} PROVE FALSE
  OBVIOUS
<1>1. PICK m \in Bad : \A k \in Bad : m <= k
  <2> HIDE DEF Bad
  <2>1. Bad \subseteq Nat
    BY DEF Bad
  <2> QED  BY <2>1, LeastNatural
<1>2. m # 0
  <2>1. IteratesUpTo(x, next, 0, [k \in 0 .. 0 |-> x])
    BY DEF IteratesUpTo
  <2> QED  BY <2>1
<1>3. PICK h : IteratesUpTo(x, next, m - 1, h)
  BY <1>1, <1>2
<1> DEFINE e == [k \in 0 .. m |-> IF k = m THEN next[h[m - 1]] ELSE h[k]]
<1>4. \A k \in 0 .. m - 1 : h[k] = IF k = 0 THEN x ELSE next[h[k - 1]]
  BY <1>3 DEF IteratesUpTo
<1>5. \A k \in 0 .. m : e[k] = IF k = 0 THEN x ELSE next[e[k - 1]]
  <2> SUFFICES ASSUME NEW k \in 0 .. m
               PROVE  e[k] = IF k = 0 THEN x ELSE next[e[k - 1]]
    OBVIOUS
  <2>1. CASE k = 0
    BY <2>1, <1>2, <1>4
  <2>2. CASE k # 0
    <3>1. k - 1 \in 0 .. m - 1 /\ k - 1 # m
      BY <2>2
    <3>2. e[k - 1] = h[k - 1]
      BY <3>1
    <3>3. e[k] = next[h[k - 1]]
      BY <2>2, <1>4
    <3> QED  BY <2>2, <3>2, <3>3
  <2> QED  BY <2>1, <2>2
<1>6. IteratesUpTo(x, next, m, e)
  <2>1. e = [k \in 0 .. m |-> e[k]]
    OBVIOUS
  <2> HIDE DEF e
  <2> QED  BY <1>5, <2>1 DEF IteratesUpTo
<1> QED  BY <1>1, <1>6

LEMMA IterationUpToAgree ==
  ASSUME NEW x, NEW next, NEW m \in Nat, NEW n \in Nat, NEW h, NEW e,
         IteratesUpTo(x, next, m, h), IteratesUpTo(x, next, n, e),
         NEW k \in Nat, k <= m, k <= n
  PROVE  h[k] = e[k]
<1> DEFINE Bad == {i \in Nat : i <= k /\ h[i] # e[i]}
<1> SUFFICES ASSUME Bad # {} PROVE FALSE
  OBVIOUS
<1>1. PICK i \in Bad : \A j \in Bad : i <= j
  <2> HIDE DEF Bad
  <2>1. Bad \subseteq Nat
    BY DEF Bad
  <2> QED  BY <2>1, LeastNatural
<1>2. /\ h[i] = IF i = 0 THEN x ELSE next[h[i - 1]]
      /\ e[i] = IF i = 0 THEN x ELSE next[e[i - 1]]
  BY DEF IteratesUpTo
<1>3. i # 0 => h[i - 1] = e[i - 1]
  BY <1>1
<1> QED  BY <1>1, <1>2, <1>3

LEMMA IterationExists ==
  ASSUME NEW x, NEW next
  PROVE  \E f : Iterates(x, next, f)
<1> DEFINE H(n) == CHOOSE h : IteratesUpTo(x, next, n, h)
           f == [k \in Nat |-> H(k)[k]]
<1>1. \A n \in Nat : IteratesUpTo(x, next, n, H(n))
  BY IterationUpToExists
<1> HIDE DEF H
<1>2. \A k \in Nat : f[k] = IF k = 0 THEN x ELSE next[f[k - 1]]
  <2> SUFFICES ASSUME NEW k \in Nat
               PROVE  f[k] = IF k = 0 THEN x ELSE next[f[k - 1]]
    OBVIOUS
  <2>1. H(k)[k] = IF k = 0 THEN x ELSE next[H(k)[k - 1]]
    <3>1. k \in 0 .. k
      OBVIOUS
    <3> QED  BY <1>1, <3>1 DEF IteratesUpTo
  <2>2. k # 0 => H(k)[k - 1] = H(k - 1)[k - 1]
    BY <1>1, IterationUpToAgree
  <2> QED  BY <2>1, <2>2
<1>3. f = [k \in Nat |-> f[k]]
  OBVIOUS
<1> HIDE DEF f
<1>4. Iterates(x, next, f)
  BY <1>2, <1>3 DEF Iterates
<1> QED  BY <1>4

\* What holds of x and is kept by next holds of all of it.
LEMMA IterationStays ==
  ASSUME NEW S, NEW x \in S, NEW next, \A y \in S : next[y] \in S,
         NEW f, Iterates(x, next, f), NEW k \in Nat
  PROVE  f[k] \in S
<1> DEFINE Bad == {i \in Nat : f[i] \notin S}
<1> SUFFICES ASSUME Bad # {} PROVE FALSE
  OBVIOUS
<1>1. PICK i \in Bad : \A j \in Bad : i <= j
  <2> HIDE DEF Bad
  <2>1. Bad \subseteq Nat
    BY DEF Bad
  <2> QED  BY <2>1, LeastNatural
<1>2. f[i] = IF i = 0 THEN x ELSE next[f[i - 1]]
  BY DEF Iterates
<1>3. i # 0 => f[i - 1] \in S
  BY <1>1
<1> QED  BY <1>2, <1>3

\* What one turn of the loop makes of the sequence, and the recursion itself.
KahnStep(g, seq) ==
  IF Ready(g, seq) = {} THEN seq ELSE Append(seq, First(Ready(g, seq)))

IsKahn(g, f) == f = [k \in Nat |-> IF k = 0 THEN << >> ELSE KahnStep(g, f[k - 1])]

LEMMA KahnExists ==
  ASSUME NEW g
  PROVE  \E f : IsKahn(g, f)
<1> DEFINE next == [s \in Seq(Node) |-> KahnStep(g, s)]
<1>1. \A s \in Seq(Node) : KahnStep(g, s) \in Seq(Node)
  <2> SUFFICES ASSUME NEW s \in Seq(Node), Ready(g, s) # {}
               PROVE  Append(s, First(Ready(g, s))) \in Seq(Node)
    BY DEF KahnStep
  <2>1. First(Ready(g, s)) \in Node
    BY FirstIsLeast DEF Ready
  <2> QED  BY <2>1
<1>2. \A s \in Seq(Node) : next[s] = KahnStep(g, s) /\ next[s] \in Seq(Node)
  BY <1>1
<1> HIDE DEF next
<1>3. PICK f : Iterates(<< >>, next, f)
  BY IterationExists
<1>4. \A k \in Nat : f[k] \in Seq(Node)
  <2>1. << >> \in Seq(Node)
    OBVIOUS
  <2> QED  BY <1>2, <1>3, <2>1, IterationStays
<1>5. \A k \in Nat : f[k] = IF k = 0 THEN << >> ELSE KahnStep(g, f[k - 1])
  <2> SUFFICES ASSUME NEW k \in Nat
               PROVE  f[k] = IF k = 0 THEN << >> ELSE KahnStep(g, f[k - 1])
    OBVIOUS
  <2>1. f[k] = IF k = 0 THEN << >> ELSE next[f[k - 1]]
    BY <1>3 DEF Iterates
  <2>2. k # 0 => f[k - 1] \in Seq(Node)
    BY <1>4
  <2> QED  BY <1>2, <2>1, <2>2
<1>6. f = [k \in Nat |-> f[k]]
  BY <1>3 DEF Iterates
<1> QED  BY <1>5, <1>6 DEF IsKahn

LEMMA TopologicalIsKahn ==
  ASSUME NEW g
  PROVE  \E f : IsKahn(g, f) /\ Topological(g) = f[Cardinality(Node)]
<1> DEFINE K == CHOOSE f : IsKahn(g, f)
<1>1. IsKahn(g, K)
  BY KahnExists
<1>2. Topological(g) = K[Cardinality(Node)]
  BY DEF Topological, IsKahn, KahnStep
<1> QED  BY <1>1, <1>2

-----------------------------------------------------------------------------
(* What the sequences of Kahn's algorithm are like.                        *)

Before(s, i) == {s[j] : j \in 1 .. i - 1}

\* Each member is new, comes after its dependencies, and sorts before all others
\* that could have been taken.
Greedy(g, s) ==
  \A i \in 1 .. Len(s) :
    /\ s[i] \notin Before(s, i)
    /\ g[s[i]] \subseteq Before(s, i)
    /\ \A n \in Node \ Before(s, i) : g[n] \subseteq Before(s, i) => Rank[s[i]] <= Rank[n]

KahnSequence(g, s, k) ==
  /\ s \in Seq(Node) /\ Len(s) = k
  /\ Cardinality(Placed(s)) = k
  /\ Greedy(g, s)

\* While there are nodes to place, one is ready, unless there is a cycle.
LEMMA SomeNodeIsReady ==
  ASSUME NEW g \in Graph, Acyclic(g), NEW s, Placed(s) \subseteq Node, Placed(s) # Node
  PROVE  Ready(g, s) # {}
<1>1. PICK n \in Node \ Placed(s) : g[n] \cap (Node \ Placed(s)) = {}
  BY DEF Acyclic
<1>2. g[n] \subseteq Placed(s)
  BY <1>1 DEF Graph
<1> QED  BY <1>1, <1>2 DEF Ready

LEMMA KahnStepIsGreedy ==
  ASSUME NEW g \in Graph, NEW k \in Nat, NEW s, KahnSequence(g, s, k), Ready(g, s) # {}
  PROVE  KahnSequence(g, KahnStep(g, s), k + 1)
<1> DEFINE n == First(Ready(g, s))
           t == Append(s, n)
<1>1. s \in Seq(Node) /\ Len(s) = k /\ Cardinality(Placed(s)) = k /\ Greedy(g, s)
  BY DEF KahnSequence
<1>2. n \in Ready(g, s) /\ \A m \in Ready(g, s) : Rank[n] <= Rank[m]
  BY FirstIsLeast DEF Ready
<1>3. n \in Node /\ n \notin Placed(s) /\ g[n] \subseteq Placed(s)
  BY <1>2 DEF Ready
<1> HIDE DEF n
<1>4. t \in Seq(Node) /\ Len(t) = k + 1 /\ t[k + 1] = n /\ \A i \in 1 .. k : t[i] = s[i]
  BY <1>1, <1>3
<1> HIDE DEF t
<1>5. Placed(s) = {s[i] : i \in 1 .. k} /\ Placed(t) = {t[i] : i \in 1 .. k + 1}
  BY <1>1, <1>4 DEF Placed
<1>6. Placed(t) = Placed(s) \cup {n}
  BY <1>4, <1>5
<1>7. \A i \in 1 .. k : Before(t, i) = Before(s, i)
  BY <1>4 DEF Before
<1>8. Before(t, k + 1) = Placed(s)
  BY <1>4, <1>5 DEF Before
<1>9. Cardinality(Placed(t)) = k + 1
  <2>1. IsFiniteSet(Placed(s))
    <3>1. Placed(s) \subseteq Node
      BY <1>1, <1>5
    <3> QED  BY <3>1, NodeAssumption, FS_Subset
  <2>2. Cardinality(Placed(s) \cup {n}) = Cardinality(Placed(s)) + 1
    BY <2>1, <1>3, FS_AddElement
  <2> QED  BY <2>2, <1>1, <1>6
<1>10. ASSUME NEW i \in 1 .. Len(t)
       PROVE  /\ t[i] \notin Before(t, i)
              /\ g[t[i]] \subseteq Before(t, i)
              /\ \A m \in Node \ Before(t, i) : g[m] \subseteq Before(t, i) => Rank[t[i]] <= Rank[m]
  <2>1. CASE i = k + 1
    BY <2>1, <1>2, <1>3, <1>4, <1>8 DEF Ready
  <2>2. CASE i # k + 1
    <3>1. i \in 1 .. k
      BY <2>2, <1>4
    <3> QED  BY <3>1, <1>1, <1>4, <1>7 DEF Greedy
  <2> QED  BY <2>1, <2>2
<1>11. KahnStep(g, s) = t
  BY DEF KahnStep, t, n
<1> QED  BY <1>4, <1>9, <1>10, <1>11 DEF KahnSequence, Greedy

LEMMA KahnIsGreedy ==
  ASSUME NEW g \in Graph, Acyclic(g), NEW f, IsKahn(g, f), NEW k \in Nat, k <= Cardinality(Node)
  PROVE  KahnSequence(g, f[k], k)
<1> DEFINE Bad == {i \in Nat : i <= k /\ ~KahnSequence(g, f[i], i)}
<1> SUFFICES ASSUME Bad # {} PROVE FALSE
  OBVIOUS
<1>0. Cardinality(Node) \in Nat
  BY NodeAssumption, FS_CardinalityType
<1>1. PICK i \in Bad : \A j \in Bad : i <= j
  <2> HIDE DEF Bad
  <2>1. Bad \subseteq Nat
    BY DEF Bad
  <2> QED  BY <2>1, LeastNatural
<1>2. f[i] = IF i = 0 THEN << >> ELSE KahnStep(g, f[i - 1])
  BY DEF IsKahn
<1>3. KahnSequence(g, << >>, 0)
  <2>1. Placed(<< >>) = {}
    BY DEF Placed
  <2>2. Cardinality(Placed(<< >>)) = 0
    BY <2>1, FS_EmptySet
  <2>3. Len(<< >>) = 0 /\ << >> \in Seq(Node)
    OBVIOUS
  <2>4. Greedy(g, << >>)
    BY <2>3 DEF Greedy
  <2> QED  BY <2>2, <2>3, <2>4 DEF KahnSequence
<1>4. i # 0
  BY <1>1, <1>2, <1>3
<1>5. i - 1 \in Nat /\ i - 1 < Cardinality(Node) /\ (i - 1) + 1 = i
  BY <1>0, <1>4
<1>6. KahnSequence(g, f[i - 1], i - 1)
  BY <1>1, <1>5
<1>7. Placed(f[i - 1]) \subseteq Node /\ Placed(f[i - 1]) # Node
  <2>1. f[i - 1] \in Seq(Node) /\ Cardinality(Placed(f[i - 1])) = i - 1
    BY <1>6 DEF KahnSequence
  <2>2. Placed(f[i - 1]) \subseteq Node
    BY <2>1 DEF Placed
  <2>3. i - 1 # Cardinality(Node)
    BY <1>0, <1>5
  <2> QED  BY <2>1, <2>2, <2>3
<1>8. KahnSequence(g, KahnStep(g, f[i - 1]), (i - 1) + 1)
  BY <1>5, <1>6, <1>7, SomeNodeIsReady, KahnStepIsGreedy
<1> QED  BY <1>1, <1>2, <1>4, <1>5, <1>8

(***************************************************************************)
(* TopologicalSort places every node of an acyclic graph exactly once and  *)
(* after the nodes it depends on, each time the one that sorts first among *)
(* those that could come next.                                             *)
(***************************************************************************)
THEOREM TopologicalOrder ==
  ASSUME NEW g \in Graph, Acyclic(g)
  PROVE  LET order == Topological(g)
         IN  /\ order \in Seq(Node) /\ Len(order) = Cardinality(Node)
             /\ \A n \in Node : \E i \in 1 .. Len(order) : order[i] = n
             /\ \A i, j \in 1 .. Len(order) : order[i] = order[j] => i = j
             /\ \A i, j \in 1 .. Len(order) : order[i] \in g[order[j]] => i < j
             /\ Greedy(g, order)
<1> DEFINE order == Topological(g)
<1>0. Cardinality(Node) \in Nat
  BY NodeAssumption, FS_CardinalityType
<1>1. KahnSequence(g, order, Cardinality(Node))
  BY <1>0, TopologicalIsKahn, KahnIsGreedy
<1> HIDE DEF order
<1>2. order \in Seq(Node) /\ Len(order) = Cardinality(Node) /\ Greedy(g, order)
  BY <1>1 DEF KahnSequence
<1>3. Placed(order) = Node
  <2>1. Placed(order) \subseteq Node
    BY <1>2 DEF Placed
  <2>2. Cardinality(Placed(order)) = Cardinality(Node)
    BY <1>1 DEF KahnSequence
  <2> QED  BY <2>1, <2>2, NodeAssumption, FS_Subset
<1>4. \A n \in Node : \E i \in 1 .. Len(order) : order[i] = n
  BY <1>2, <1>3 DEF Placed
<1>5. \A i, j \in 1 .. Len(order) : j < i => order[j] \in Before(order, i)
  BY <1>2 DEF Before
<1>6. \A i, j \in 1 .. Len(order) : order[i] = order[j] => i = j
  <2> SUFFICES ASSUME NEW i \in 1 .. Len(order), NEW j \in 1 .. Len(order), order[i] = order[j],
                      j < i
               PROVE  FALSE
    BY <1>2
  <2> QED  BY <1>2, <1>5 DEF Greedy
<1>7. \A i, j \in 1 .. Len(order) : order[i] \in g[order[j]] => i < j
  <2> SUFFICES ASSUME NEW i \in 1 .. Len(order), NEW j \in 1 .. Len(order),
                      order[i] \in g[order[j]]
               PROVE  i < j
    OBVIOUS
  <2>1. order[i] \in Before(order, j)
    BY <1>2 DEF Greedy
  <2>2. PICK k \in 1 .. j - 1 : order[k] = order[i]
    BY <2>1 DEF Before
  <2>3. k \in 1 .. Len(order)
    OBVIOUS
  <2>4. k = i
    BY <1>6, <2>2, <2>3
  <2> QED  BY <2>4
<1> QED  BY <1>2, <1>4, <1>6, <1>7 DEF order

-----------------------------------------------------------------------------
(***************************************************************************)
(* Types.                                                                  *)
(***************************************************************************)

\* The statuses the package declares are what they are whatever others there may be.
LEMMA StatusFacts ==
  /\ {"succeeded", "failed", "skipped"} \subseteq Status
  /\ Status \cap {"", "none", "pending", "running"} = {}
  /\ OtherStatus = Status \ {"succeeded", "failed", "skipped"}
BY StatusAssumption DEF Status, Declared

\* What normalizeResult returns is a result, whatever Dispatch returned.
LEMMA NormalizeResultType ==
  ASSUME NEW n \in Node, NEW ret \in DispatchReturn
  PROVE  NormalizeResult(n, ret) \in Result
BY StatusFacts DEF NormalizeResult, DispatchReturn, Result, Blame

\* A skip is a result, whatever it blames.
LEMMA SkipType ==
  ASSUME NEW m, NEW b \in Blame
  PROVE  Skip(m, b) \in Result
BY StatusFacts DEF Skip, Result

\* A worker that holds a node holds one of the graph, and its result is one.
LEMMA WorkerStateShape ==
  ASSUME NEW s \in WorkerState
  PROVE  /\ s.phase \in {"idle", "exited", "taken", "dispatching", "reporting"}
         /\ s.phase \notin {"idle", "exited"} => s.node \in Node
         /\ s.phase = "reporting" => s.result \in Result
         /\ s.phase = "idle" => s = Idle
         /\ s.phase = "exited" => s = Exited
BY DEF WorkerState, Idle, Exited

\* The phases a busy worker goes through are worker states.
LEMMA BusyWorkerTypes ==
  ASSUME NEW n \in Node, NEW r \in Result
  PROVE  /\ Idle \in WorkerState
         /\ Exited \in WorkerState
         /\ [phase |-> "taken", node |-> n] \in WorkerState
         /\ [phase |-> "dispatching", node |-> n] \in WorkerState
         /\ [phase |-> "reporting", node |-> n, result |-> r] \in WorkerState
BY DEF WorkerState, Idle, Exited

\* While the run goes on the queue is within the graph.
LEMMA QueueSubset ==
  ASSUME TypeOK
  PROVE  Queue \in SUBSET Node
BY DEF TypeOK, Queue

\* The sets that Run counts are finite.
LEMMA FiniteParts ==
  ASSUME NEW S \in SUBSET Node
  PROVE  IsFiniteSet(S) /\ Cardinality(S) \in Nat
BY NodeAssumption, FS_Subset, FS_CardinalityType

(***************************************************************************)
(* Every variable keeps its type, from the initial state on.               *)
(***************************************************************************)
LEMMA InitTyping == Init => TypeOK
<1> SUFFICES ASSUME Init PROVE TypeOK
  OBVIOUS
<1>1. deps \in Graph
  BY SchedulerAssumption DEF Init
<1>2. inDegree \in [Node -> Int]
  <2>1. \A n \in Node : Cardinality(deps[n]) \in Int
    BY <1>1, FiniteParts DEF Graph
  <2> QED  BY <2>1 DEF Init
<1>3. worker \in [Worker -> WorkerState]
  BY DEF Init, WorkerState
<1>4. aggregate.err \in SUBSET Node
  BY DEF Init, NoAggregate
<1>5. results \in [Node -> Result \cup {NoResult}]
  BY DEF Init
<1>6. ready \subseteq Node
  BY DEF Init, Roots
<1>7. states \in [Node -> {"pending", "running", "finished"}]
  BY DEF Init
<1>8. cancelled \in BOOLEAN /\ stopping \in BOOLEAN
  BY Zenon DEF Init
<1>9. /\ running \in Int /\ finished \in Int
      /\ pc \in {"validate", "loop", "closed", "returned", "rejected"}
  BY SMT DEF Init
<1> QED  BY <1>1, <1>2, <1>3, <1>4, <1>5, <1>6, <1>7, <1>8, <1>9 DEF TypeOK

LEMMA StepTyping == TypeOK /\ [Next]_vars => TypeOK'
<1> SUFFICES ASSUME TypeOK, [Next]_vars PROVE TypeOK'
  OBVIOUS
<1>1. CASE CancelContext
  BY <1>1 DEF CancelContext, TypeOK, runLocals
<1>2. CASE Validate
  BY <1>2 DEF Validate, TypeOK, runLocals
<1>3. ASSUME NEW w \in Worker, Offer(w) PROVE TypeOK'
  <2>1. First(Queue) \in Node
    BY <1>3, QueueSubset, FirstIsLeast DEF Offer, Peek
  <2>2. [phase |-> "taken", node |-> First(Queue)] \in WorkerState
    BY <2>1 DEF WorkerState
  <2>3. ready' \subseteq Node
    BY <1>3, QueueSubset DEF Offer, Peek
  <2> QED  BY <1>3, <2>1, <2>2, <2>3 DEF Offer, Peek, TypeOK
<1>4. ASSUME NEW w \in Worker, Receive(w) PROVE TypeOK'
  <2> DEFINE n == worker[w].node
             result == worker[w].result
             skipped == SkippedBy(n, result)
  <2>1. n \in Node /\ result \in Result
    BY <1>4, WorkerStateShape DEF Receive, TypeOK
  <2>2. skipped \in SUBSET Node
    BY WithinSubset DEF SkippedBy, Pending, NodesIn
  <2>3. Cardinality(skipped) \in Nat
    BY <2>2, FiniteParts
  <2>4. results' \in [Node -> Result \cup {NoResult}]
    <3>1. \A m \in Node : Skip(m, n) \in Result
      BY <2>1, SkipType DEF Blame
    <3> QED  BY <1>4, <2>1, <3>1 DEF Receive, TypeOK
  <2>5. states' \in [Node -> {"pending", "running", "finished"}]
    BY <1>4 DEF Receive, TypeOK
  <2>6. inDegree' \in [Node -> Int] /\ ready' \subseteq Node
    BY <1>4, QueueSubset DEF Receive, RecordEvent, Queued, Released, Pending, NodesIn, TypeOK
  <2>7. finished' \in Int /\ running' \in Int /\ stopping' \in BOOLEAN
    BY <1>4, <2>3 DEF Receive, TypeOK
  <2>8. worker' \in [Worker -> WorkerState]
    BY <1>4 DEF Receive, TypeOK, WorkerState
  <2> QED  BY <1>4, <2>4, <2>5, <2>6, <2>7, <2>8 DEF Receive, TypeOK
<1>5. CASE ObserveCancel
  <2>1. Cardinality(Pending) \in Nat
    BY FiniteParts DEF Pending, NodesIn
  <2>2. results' \in [Node -> Result \cup {NoResult}]
    <3>1. \A m \in Node : Skip(m, Context) \in Result
      BY SkipType DEF Blame
    <3> QED  BY <1>5, <3>1 DEF ObserveCancel, NotStarted, TypeOK
  <2>3. states' \in [Node -> {"pending", "running", "finished"}]
    BY <1>5 DEF ObserveCancel, NotStarted, TypeOK
  <2>4. finished' \in Int /\ ready' \subseteq Node
    BY <1>5, <2>1, QueueSubset DEF ObserveCancel, NotStarted, TypeOK
  <2> QED  BY <1>5, <2>2, <2>3, <2>4 DEF ObserveCancel, NotStarted, TypeOK
<1>6. ASSUME NEW w \in Worker, StartNode(w) PROVE TypeOK'
  <2>1. worker[w].node \in Node
    BY <1>6, WorkerStateShape DEF StartNode, TypeOK
  <2>2. [phase |-> "dispatching", node |-> worker[w].node] \in WorkerState
    BY <2>1 DEF WorkerState
  <2> QED  BY <1>6, <2>2 DEF StartNode, TypeOK, runLocals
<1>7. ASSUME NEW w \in Worker, FinishNode(w) PROVE TypeOK'
  <2>1. worker[w].node \in Node
    BY <1>7, WorkerStateShape DEF FinishNode, TypeOK
  <2>2. PICK ret \in DispatchReturn :
          worker' = [worker EXCEPT ![w] =
                       [phase |-> "reporting", node |-> worker[w].node,
                        result |-> NormalizeResult(worker[w].node, ret)]]
    BY <1>7 DEF FinishNode
  <2>3. [phase |-> "reporting", node |-> worker[w].node,
         result |-> NormalizeResult(worker[w].node, ret)] \in WorkerState
    BY <2>1, NormalizeResultType DEF WorkerState
  <2> QED  BY <1>7, <2>2, <2>3 DEF FinishNode, TypeOK, runLocals
<1>8. ASSUME NEW w \in Worker, ExitWorker(w) PROVE TypeOK'
  BY <1>8 DEF ExitWorker, TypeOK, WorkerState, runLocals
<1>9. CASE CloseWork
  BY <1>9 DEF CloseWork, TypeOK, runLocals
<1>10. CASE ReturnAggregate
  BY <1>10 DEF ReturnAggregate, TypeOK, runLocals, AggregateError
<1>11. CASE UNCHANGED vars
  BY <1>11 DEF vars, runLocals, TypeOK
<1> QED
  BY <1>1, <1>2, <1>3, <1>4, <1>5, <1>6, <1>7, <1>8, <1>9, <1>10, <1>11
     DEF Next, Run, WorkerLoop, Stopped

(***************************************************************************)
(* Type correctness of the scheduler's state.                              *)
(***************************************************************************)
THEOREM Typing == Spec => []TypeOK
BY InitTyping, StepTyping, PTL DEF Spec

-----------------------------------------------------------------------------
(***************************************************************************)
(* The inductive invariant: the checked invariants, and how Run's maps go  *)
(* together.                                                               *)
(***************************************************************************)
Shape ==
  /\ \A n \in Node : states[n] = "finished" => results[n] \in Result
  /\ \A n \in Node : states[n] # "finished" => results[n] = NoResult
  /\ pc \in {"loop", "closed", "returned"} => Valid
  /\ pc \in {"validate", "loop"} => \A w \in Worker : worker[w] # Exited
  /\ \A w \in Worker : worker[w].phase = "reporting" /\ worker[w].result.status # "succeeded"
       => worker[w].result.err = worker[w].node

IInv ==
  /\ TypeOK
  /\ Shape
  /\ DependencyOrder
  /\ NothingBlockedIsPending
  /\ ReadyIsExact
  /\ CountersAgree
  /\ StopIsFinal
  /\ SkipsAreJustified

\* A node without a result has no status of its own.
LEMMA NoResultFacts ==
  /\ NoResult \notin Result
  /\ NoResult.status = "none"
  /\ NoResult.err = None
  /\ \A r \in Result : r.status \in Status /\ r.err \in Blame
BY StatusFacts DEF NoResult, Result

\* A skip says so.
LEMMA SkipFacts ==
  ASSUME NEW m, NEW b
  PROVE  Skip(m, b).status = "skipped" /\ Skip(m, b).err = b
BY DEF Skip

(***************************************************************************)
(* As long as the run goes on, dropping stale heads changes nothing.       *)
(***************************************************************************)
LEMMA QueueIsReady ==
  ASSUME TypeOK, ReadyIsExact, ~stopping
  PROVE  Queue = ready /\ ready \subseteq Pending
<1>1. ready \subseteq Pending
  BY DEF ReadyIsExact
<1>2. StaleHeads = {}
  <2> SUFFICES ASSUME NEW n \in StaleHeads PROVE FALSE
    OBVIOUS
  <2>1. n \in ready /\ Rank[n] <= Rank[n]
    BY RankAssumption DEF StaleHeads, TypeOK
  <2> QED  BY <1>1, <2>1 DEF StaleHeads, Pending, NodesIn
<1> QED  BY <1>1, <1>2 DEF Queue

(***************************************************************************)
(* The node offered to a worker is pending and all it needs has succeeded. *)
(***************************************************************************)
LEMMA OfferFacts ==
  ASSUME IInv, NEW w \in Worker, Offer(w)
  PROVE  LET next == First(Queue)
         IN  /\ next \in Pending
             /\ next \in ready
             /\ \A d \in deps[next] : StatusOf(d) = "succeeded"
             /\ Queue = ready
<1> DEFINE next == First(Queue)
           waiting == {d \in deps[next] : StatusOf(d) # "succeeded"}
<1>1. ~stopping /\ Queue # {}
  BY DEF Offer, Peek, HasRoom
<1>2. Queue = ready /\ ready \subseteq Pending
  BY <1>1, QueueIsReady DEF IInv
<1>3. next \in ready
  BY <1>1, <1>2, QueueSubset, FirstIsLeast DEF IInv
<1>4. next \in Pending /\ next \in Node
  BY <1>2, <1>3 DEF Pending, NodesIn
<1>5. inDegree[next] = 0
  BY <1>1, <1>3 DEF IInv, ReadyIsExact
<1>6. inDegree[next] = Cardinality(waiting)
  BY <1>4 DEF IInv, ReadyIsExact
<1>7. waiting \in SUBSET Node
  BY <1>4 DEF IInv, TypeOK, Graph
<1>8. waiting = {}
  BY <1>5, <1>6, <1>7, FiniteParts, FS_EmptySet
<1> QED  BY <1>2, <1>3, <1>4, <1>8

(***************************************************************************)
(* What a received event does to the maps: the node of the event was       *)
(* running and gets its result, some pending nodes are skipped, and the    *)
(* rest is untouched.                                                      *)
(***************************************************************************)
Event(w) == worker[w].result
EventNode(w) == worker[w].node
GivenUp(w) == SkippedBy(EventNode(w), Event(w))

LEMMA ReceiveFacts ==
  ASSUME IInv, NEW w \in Worker, Receive(w)
  PROVE  /\ EventNode(w) \in Node
         /\ Event(w) \in Result
         /\ states[EventNode(w)] = "running"
         /\ results[EventNode(w)] = NoResult
         /\ w \in Busy
         /\ Event(w).status # "succeeded" => Event(w).err = EventNode(w)
         /\ GivenUp(w) \subseteq Pending
         /\ \A m \in GivenUp(w) : m \in Node /\ m # EventNode(w) /\ results[m] = NoResult
         /\ Event(w).status = "succeeded" => GivenUp(w) = {}
         /\ Pending' = Pending \ GivenUp(w)
         /\ results'[EventNode(w)] = Event(w)
         /\ \A m \in GivenUp(w) : results'[m] = Skip(m, EventNode(w))
         /\ \A m \in Node \ ({EventNode(w)} \cup GivenUp(w)) :
              results'[m] = results[m] /\ states'[m] = states[m]
         /\ \A m \in {EventNode(w)} \cup GivenUp(w) : states'[m] = "finished"
<1> DEFINE n == EventNode(w)
           S == GivenUp(w)
<1>1. n \in Node /\ Event(w) \in Result /\ w \in Busy
  BY WorkerStateShape DEF IInv, TypeOK, Receive, Busy, EventNode, Event
<1>2. states[n] = "running"
  BY <1>1 DEF IInv, CountersAgree, NodesIn, EventNode
<1>3. results[n] = NoResult
  BY <1>1, <1>2 DEF IInv, Shape
<1>4. S \subseteq Pending
  BY WithinSubset DEF GivenUp, SkippedBy
<1>5. \A m \in S : m \in Node /\ m # n /\ results[m] = NoResult
  BY <1>2, <1>4 DEF Pending, NodesIn, IInv, Shape
<1>6. Event(w).status = "succeeded" => S = {}
  BY DEF GivenUp, SkippedBy
<1>7. Event(w).status # "succeeded" => Event(w).err = n
  BY DEF IInv, Shape, Receive, Event, EventNode
<1>8. /\ states' = [m \in Node |-> IF m \in {n} \cup S THEN "finished" ELSE states[m]]
      /\ results' = [m \in Node |-> IF m = n THEN Event(w)
                                    ELSE IF m \in S THEN Skip(m, n) ELSE results[m]]
  BY DEF Receive, EventNode, Event, GivenUp
<1> HIDE DEF S, n
<1>9. Pending' = Pending \ S
  BY <1>2, <1>4, <1>8 DEF Pending, NodesIn
<1>10. /\ results'[n] = Event(w)
       /\ \A m \in S : results'[m] = Skip(m, n)
       /\ \A m \in Node \ ({n} \cup S) : results'[m] = results[m] /\ states'[m] = states[m]
       /\ \A m \in {n} \cup S : states'[m] = "finished"
  BY <1>1, <1>5, <1>8
<1> QED  BY <1>1, <1>2, <1>3, <1>4, <1>5, <1>6, <1>7, <1>9, <1>10 DEF n, S

-----------------------------------------------------------------------------
(***************************************************************************)
(* Each part of the invariant is kept by the three cases of Run's select.  *)
(***************************************************************************)
LEMMA OfferKeeps ==
  ASSUME IInv, TypeOK', NEW w \in Worker, Offer(w)
  PROVE  IInv'
<1> DEFINE next == First(Queue)
<1>1. /\ next \in Pending /\ next \in ready /\ next \in Node
      /\ \A d \in deps[next] : StatusOf(d) = "succeeded"
      /\ Queue = ready /\ ready \subseteq Pending
  BY OfferFacts, QueueIsReady DEF Pending, NodesIn, Offer, HasRoom, IInv
<1>2. /\ ready' = ready \ {next}
      /\ states' = [states EXCEPT ![next] = "running"]
      /\ worker' = [worker EXCEPT ![w] = [phase |-> "taken", node |-> next]]
      /\ running' = running + 1
      /\ UNCHANGED <<deps, cancelled, pc, results, inDegree, finished, stopping>>
      /\ worker[w] = Idle /\ pc = "loop" /\ ~stopping
  BY <1>1 DEF Offer, Peek, Looping, HasRoom
<1> HIDE DEF next
<1>3. /\ states[next] = "pending" /\ states'[next] = "running"
      /\ \A m \in Node \ {next} : states'[m] = states[m]
      /\ Pending' = Pending \ {next}
      /\ NodesIn("running")' = NodesIn("running") \cup {next}
      /\ NodesIn("finished")' = NodesIn("finished")
  BY <1>1, <1>2 DEF Pending, NodesIn, IInv, TypeOK
<1>4. Shape'
  <2>1. [phase |-> "taken", node |-> next] # Exited
    BY DEF Exited
  <2>2. \A v \in Worker : v # w => worker'[v] = worker[v]
    BY <1>2 DEF IInv, TypeOK
  <2>3. worker'[w] = [phase |-> "taken", node |-> next]
    BY <1>2 DEF IInv, TypeOK
  <2>4. \A m \in Node : states'[m] = "finished" <=> states[m] = "finished"
    BY <1>3
  <2> QED  BY <1>2, <2>1, <2>2, <2>3, <2>4 DEF IInv, Shape, Valid
<1>5. DependencyOrder'
  BY <1>1, <1>2, <1>3 DEF IInv, DependencyOrder, StatusOf
<1>6. NothingBlockedIsPending'
  BY <1>2, <1>3 DEF IInv, NothingBlockedIsPending, StatusOf
<1>7. ReadyIsExact'
  BY <1>2, <1>3 DEF IInv, ReadyIsExact, StatusOf
<1>8. CountersAgree'
  <2>1. w \notin Busy /\ Busy' = Busy \cup {w}
    BY <1>2 DEF Busy, Idle, IInv, TypeOK
  <2>2. IsFiniteSet(Busy) /\ Busy \subseteq Worker
    <3>1. IsFiniteSet(Worker) /\ Busy \in SUBSET Worker
      <4>1. WorkerCount \in Int
        BY SchedulerAssumption, FiniteParts DEF WorkerCount, NodeCount
      <4> QED  BY <4>1, FS_Interval DEF Worker, Busy
    <3> QED  BY <3>1, FS_Subset
  <2>3. Cardinality(Busy') = running'
    BY <1>2, <2>1, <2>2, FS_AddElement DEF IInv, CountersAgree
  <2>4. \A v \in Busy : worker'[v] = worker[v] /\ worker[v].node # next
    BY <1>2, <1>3, <2>1, <2>2 DEF IInv, CountersAgree, NodesIn, TypeOK
  <2>5. worker'[w].node = next
    BY <1>2 DEF IInv, TypeOK
  <2>6. NodesIn("running")' = {worker'[v].node : v \in Busy'}
    BY <1>3, <2>1, <2>4, <2>5 DEF IInv, CountersAgree
  <2>7. \A u, v \in Busy' : worker'[u].node = worker'[v].node => u = v
    BY <2>1, <2>4, <2>5 DEF IInv, CountersAgree
  <2>8. /\ finished' = Cardinality(NodesIn("finished")')
        /\ NodesIn("finished")' = {n \in Node : results'[n] # NoResult}
    BY <1>2, <1>3 DEF IInv, CountersAgree
  <2> QED  BY <2>3, <2>6, <2>7, <2>8 DEF CountersAgree
<1>9. StopIsFinal'
  BY <1>2 DEF IInv, StopIsFinal, StatusOf
<1>10. SkipsAreJustified'
  BY <1>2 DEF IInv, SkipsAreJustified, StatusOf
<1> QED  BY <1>4, <1>5, <1>6, <1>7, <1>8, <1>9, <1>10 DEF IInv

\* The workers are finitely many, and so are the busy ones.
LEMMA FiniteBusy == IsFiniteSet(Busy) /\ Busy \subseteq Worker /\ Cardinality(Busy) \in Nat
<1>1. WorkerCount \in Int
  BY SchedulerAssumption, FiniteParts DEF WorkerCount, NodeCount
<1>2. IsFiniteSet(Worker) /\ Busy \in SUBSET Worker
  BY <1>1, FS_Interval DEF Worker, Busy
<1> QED  BY <1>2, FS_Subset, FS_CardinalityType

\* Nothing is given up for a success or a status of the dispatcher's own; without
\* fail-fast, or after a skip, exactly what the node blocks is.
LEMMA GivenUpFacts ==
  ASSUME IInv, NEW w \in Worker, Receive(w)
  PROVE  /\ Event(w).status \notin {"failed", "skipped"} => GivenUp(w) = {}
         /\ Event(w).status \in {"failed", "skipped"} =>
              \/ FailFast /\ Event(w).status = "failed" /\ GivenUp(w) = Pending
              \/ GivenUp(w) = DependentsWithin(deps, EventNode(w), Pending)
BY DEF GivenUp, SkippedBy

LEMMA ReceiveKeepsOrder ==
  ASSUME IInv, TypeOK', NEW w \in Worker, Receive(w)
  PROVE  Shape' /\ DependencyOrder' /\ NothingBlockedIsPending' /\ StopIsFinal'
<1> DEFINE n == EventNode(w)
           S == GivenUp(w)
<1>1. UNCHANGED <<deps, cancelled, pc>> /\ worker' = [worker EXCEPT ![w] = Idle]
  BY DEF Receive
<1>2. Shape'
  <2>1. \A m \in S : Skip(m, n) \in Result
    BY ReceiveFacts, SkipType DEF Blame
  <2>2. \A m \in Node : states'[m] = "finished" => results'[m] \in Result
    BY <2>1, ReceiveFacts DEF IInv, Shape
  <2>3. \A m \in Node : states'[m] # "finished" => results'[m] = NoResult
    BY ReceiveFacts DEF IInv, Shape
  <2>4. pc' \in {"validate", "loop"} => \A v \in Worker : worker'[v] # Exited
    BY <1>1 DEF IInv, Shape, TypeOK, Idle, Exited
  <2>5. pc' \in {"loop", "closed", "returned"} => Valid'
    BY <1>1 DEF IInv, Shape, Valid
  <2>6. \A v \in Worker : v # w => worker'[v] = worker[v]
    BY <1>1 DEF IInv, TypeOK
  <2>7. worker'[w].phase = "idle"
    BY <1>1 DEF IInv, TypeOK, Idle
  <2> QED  BY <2>2, <2>3, <2>4, <2>5, <2>6, <2>7 DEF IInv, Shape
<1>3. \A m \in Node \ {n} : StatusOf(m)' = "succeeded" <=> StatusOf(m) = "succeeded"
  BY ReceiveFacts, NoResultFacts, SkipFacts DEF StatusOf
<1>4. StatusOf(n) = "none"
  BY ReceiveFacts, NoResultFacts DEF StatusOf
<1>5. DependencyOrder'
  <2> SUFFICES ASSUME NEW m \in Node, (states[m] = "running" \/ StatusOf(m) = "succeeded")',
                      NEW d \in deps[m]
               PROVE  StatusOf(d)' = "succeeded"
    BY <1>1 DEF DependencyOrder
  <2>1. states[m] = "running" \/ StatusOf(m) = "succeeded"
    BY <1>3, ReceiveFacts DEF Pending, NodesIn
  <2>2. StatusOf(d) = "succeeded" /\ d \in Node
    BY <2>1 DEF IInv, DependencyOrder, TypeOK, Graph
  <2> QED  BY <2>2, <1>3, <1>4
<1>6. NothingBlockedIsPending'
  <2> SUFFICES ASSUME NEW m \in Pending', NEW d \in deps[m],
                      StatusOf(d)' \in {"failed", "skipped"}
               PROVE  FALSE
    BY <1>1 DEF NothingBlockedIsPending
  <2>1. m \in Pending /\ m \notin S /\ m \in Node /\ d \in Node /\ m \in Dependents(deps, d)
    BY ReceiveFacts DEF Pending, NodesIn, Dependents, IInv, TypeOK, Graph
  <2>2. StatusOf(d) \notin {"failed", "skipped"}
    BY <2>1 DEF IInv, NothingBlockedIsPending
  <2>3. d \in {n} \cup S /\ Event(w).status \in {"failed", "skipped"}
    BY <2>1, <2>2, ReceiveFacts, GivenUpFacts DEF StatusOf
  <2>4. S = DependentsWithin(deps, n, Pending)
    BY <2>1, <2>3, GivenUpFacts
  <2>5. m \in DependentsWithin(deps, n, Pending)
    BY <2>1, <2>3, <2>4, WithinClosed
  <2> QED  BY <2>1, <2>4, <2>5
<1>7. StopIsFinal'
  <2>1. stopping' = (stopping \/ (FailFast /\ Event(w).status = "failed"))
    BY DEF Receive, Event
  <2>2. stopping' => Pending' = {}
    BY <2>1, ReceiveFacts DEF IInv, StopIsFinal, GivenUp, SkippedBy
  <2>3. FailFast /\ (\E m \in Node : StatusOf(m)' = "failed") => stopping'
    <3> SUFFICES ASSUME FailFast, NEW m \in Node, results'[m].status = "failed"
                 PROVE  stopping'
      BY DEF StatusOf
    <3>1. CASE m = n
      BY <2>1, <3>1, ReceiveFacts
    <3>2. CASE m # n
      <4>1. results'[m] = results[m]
        BY <3>2, ReceiveFacts, SkipFacts
      <4> QED  BY <2>1, <4>1 DEF IInv, StopIsFinal, StatusOf
    <3> QED  BY <3>1, <3>2
  <2> QED  BY <2>2, <2>3 DEF StopIsFinal
<1> QED  BY <1>2, <1>5, <1>6, <1>7

LEMMA ReceiveKeepsReady ==
  ASSUME IInv, TypeOK', NEW w \in Worker, Receive(w)
  PROVE  ReadyIsExact'
<1> DEFINE n == EventNode(w)
           S == GivenUp(w)
           released == Released(n, Event(w))
           Missing(m) == {d \in deps[m] : StatusOf(d) # "succeeded"}
<1>1. /\ deps' = deps
      /\ inDegree' = [m \in Node |-> IF m \in released THEN inDegree[m] - 1 ELSE inDegree[m]]
      /\ ready' = Queue \cup {m \in released : inDegree[m] = 1}
  BY DEF Receive, RecordEvent, Queued, EventNode, Event
<1>2. released = IF Event(w).status = "succeeded" THEN Dependents(deps, n) \cap Pending ELSE {}
  BY DEF Released
<1>3. \A m \in Node \ {n} : StatusOf(m)' = "succeeded" <=> StatusOf(m) = "succeeded"
  BY ReceiveFacts, NoResultFacts, SkipFacts DEF StatusOf
<1>4. StatusOf(n) = "none" /\ results'[n].status = Event(w).status
  BY ReceiveFacts, NoResultFacts DEF StatusOf
<1>5. \A m \in Pending :
       deps[m] \subseteq Node /\ Missing(m) \in SUBSET Node /\ inDegree[m] = Cardinality(Missing(m))
  BY DEF IInv, ReadyIsExact, Pending, NodesIn, TypeOK, Graph
<1>6. ASSUME NEW m \in Pending'
      PROVE  inDegree'[m] = Cardinality({d \in deps[m] : StatusOf(d)' # "succeeded"})
  <2>1. m \in Pending /\ m \in Node
    BY <1>6, ReceiveFacts DEF Pending, NodesIn
  <2>2. CASE m \in released
    <3>1. n \in deps[m] /\ Event(w).status = "succeeded"
      BY <2>2, <1>2 DEF Dependents
    <3>2. {d \in deps[m] : StatusOf(d)' # "succeeded"} = Missing(m) \ {n}
      BY <3>1, <1>3, <1>4, <1>5, <2>1 DEF StatusOf
    <3>3. n \in Missing(m)
      BY <3>1, <1>4
    <3>4. Cardinality(Missing(m) \ {n}) = Cardinality(Missing(m)) - 1
      BY <3>3, <1>5, <2>1, FiniteParts, FS_RemoveElement
    <3>5. inDegree'[m] = inDegree[m] - 1
      BY <2>1, <2>2, <1>1
    <3>6. inDegree[m] = Cardinality(Missing(m))
      BY <1>5, <2>1
    <3> QED  BY <3>2, <3>4, <3>5, <3>6
  <2>3. CASE m \notin released
    <3>1. n \notin deps[m] \/ Event(w).status # "succeeded"
      BY <2>1, <2>3, <1>2 DEF Dependents
    <3>2. {d \in deps[m] : StatusOf(d)' # "succeeded"} = Missing(m)
      BY <3>1, <1>3, <1>4, <1>5, <2>1 DEF StatusOf
    <3> QED  BY <3>2, <2>1, <2>3, <1>1, <1>5
  <2> QED  BY <2>2, <2>3
<1>7. ASSUME ~stopping' PROVE ready' = {m \in Pending' : inDegree'[m] = 0}
  <2>1. ~stopping /\ ~(FailFast /\ Event(w).status = "failed")
    BY <1>7 DEF Receive, Event
  <2>2. Queue = ready /\ ready = {m \in Pending : inDegree[m] = 0}
    <3>1. Queue = ready
      BY <2>1, QueueIsReady DEF IInv
    <3> QED  BY <3>1, <2>1 DEF IInv, ReadyIsExact
  <2>3. \A m \in S : inDegree[m] # 0
    <3> SUFFICES ASSUME NEW m \in S, inDegree[m] = 0 PROVE FALSE
      OBVIOUS
    <3>1. Event(w).status # "succeeded" /\ m \in Pending /\ m \in Node
      BY ReceiveFacts DEF Pending, NodesIn
    <3>2. S = DependentsWithin(deps, n, Pending)
      BY <3>1, <2>1, GivenUpFacts
    <3>3. PICK x \in {n} \cup S : m \in Dependents(deps, x)
      BY <3>2, WithinJustified
    <3>4. StatusOf(x) = "none" /\ x \in deps[m]
      BY <3>3, ReceiveFacts, NoResultFacts DEF StatusOf, Dependents
    <3>5. Missing(m) \in SUBSET Node /\ Cardinality(Missing(m)) = 0
      BY <3>1, <1>5
    <3>6. Missing(m) = {}
      BY <3>5, FiniteParts, FS_EmptySet
    <3> QED  BY <3>4, <3>6
  <2>4. \A m \in Pending : m \in released => inDegree[m] # 0
    <3> SUFFICES ASSUME NEW m \in Pending, m \in released, inDegree[m] = 0 PROVE FALSE
      OBVIOUS
    <3>1. n \in Missing(m)
      BY <1>2, <1>4 DEF Dependents
    <3>2. Missing(m) \in SUBSET Node /\ Cardinality(Missing(m)) = 0
      BY <1>5
    <3> QED  BY <3>1, <3>2, FiniteParts, FS_EmptySet
  <2>5. released # {} => S = {}
    BY <1>2, ReceiveFacts
  <2>6. Pending' = Pending \ S /\ released \subseteq Pending /\ Pending \subseteq Node
    BY <1>2, ReceiveFacts DEF Pending, NodesIn
  <2>7. inDegree \in [Node -> Int]
    BY DEF IInv, TypeOK
  <2> HIDE DEF S, released
  <2> QED  BY <2>2, <2>3, <2>4, <2>5, <2>6, <2>7, <1>1
<1> QED  BY <1>1, <1>6, <1>7 DEF ReadyIsExact

LEMMA ReceiveKeepsCounters ==
  ASSUME IInv, TypeOK', NEW w \in Worker, Receive(w)
  PROVE  CountersAgree'
<1> DEFINE n == EventNode(w)
           S == GivenUp(w)
<1>1. /\ worker' = [worker EXCEPT ![w] = Idle]
      /\ running' = running - 1
      /\ finished' = finished + 1 + Cardinality(S)
  BY DEF Receive, GivenUp, EventNode, Event
<1>2. w \in Busy /\ Busy' = Busy \ {w} /\ \A v \in Busy' : worker'[v] = worker[v]
  BY <1>1, ReceiveFacts DEF Busy, Idle, IInv, TypeOK
<1>3. running' = Cardinality(Busy')
  BY <1>1, <1>2, FiniteBusy, FS_RemoveElement DEF IInv, CountersAgree
<1>4. \A m \in Node : states'[m] = "running" <=> states[m] = "running" /\ m # n
  BY ReceiveFacts DEF Pending, NodesIn
<1>5. NodesIn("running")' = {worker'[v].node : v \in Busy'}
  <2>1. NodesIn("running")' = NodesIn("running") \ {n}
    BY <1>4 DEF NodesIn
  <2>2. NodesIn("running") = {worker[v].node : v \in Busy}
    BY DEF IInv, CountersAgree
  <2>3. \A v \in Busy : worker[v].node = n <=> v = w
    BY <1>2 DEF IInv, CountersAgree, EventNode
  <2> QED  BY <2>1, <2>2, <2>3, <1>2
<1>6. \A u, v \in Busy' : worker'[u].node = worker'[v].node => u = v
  BY <1>2 DEF IInv, CountersAgree
<1>7. finished' = Cardinality(NodesIn("finished")')
  <2> DEFINE F == NodesIn("finished")
             G == F \cup {n}
  <2>1. F \in SUBSET Node /\ n \in Node /\ n \notin F /\ S \in SUBSET Node
    BY ReceiveFacts DEF NodesIn
  <2>2. G \cap S = {}
    BY ReceiveFacts DEF NodesIn, Pending
  <2>3. NodesIn("finished")' = G \cup S
    BY ReceiveFacts DEF NodesIn
  <2>4. finished = Cardinality(F)
    BY DEF IInv, CountersAgree
  <2>5. IsFiniteSet(F) /\ IsFiniteSet(S) /\ Cardinality(F) \in Nat /\ Cardinality(S) \in Nat
    BY <2>1, FiniteParts
  <2> HIDE DEF F, S
  <2>6. IsFiniteSet(G) /\ Cardinality(G) = Cardinality(F) + 1
    BY <2>1, <2>5, FS_AddElement
  <2>7. Cardinality(G \cup S) = Cardinality(G) + Cardinality(S)
    <3>1. Cardinality(G \cup S) = Cardinality(G) + Cardinality(S) - Cardinality(G \cap S)
      BY <2>5, <2>6, FS_Union
    <3>2. Cardinality(G \cap S) = 0
      BY <2>2, FS_EmptySet
    <3>3. Cardinality(G) \in Nat
      BY <2>5, <2>6
    <3> HIDE DEF G
    <3> QED  BY <2>5, <3>1, <3>2, <3>3
  <2> QED  BY <1>1, <2>3, <2>4, <2>5, <2>6, <2>7
<1>8. NodesIn("finished")' = {m \in Node : results'[m] # NoResult}
  BY ReceiveKeepsOrder, NoResultFacts DEF Shape, NodesIn
<1> QED  BY <1>3, <1>5, <1>6, <1>7, <1>8 DEF CountersAgree

LEMMA ReceiveKeepsSkips ==
  ASSUME IInv, TypeOK', NEW w \in Worker, Receive(w)
  PROVE  SkipsAreJustified'
<1> DEFINE n == EventNode(w)
           S == GivenUp(w)
<1>1. UNCHANGED <<deps, cancelled>>
  BY DEF Receive
<1>2. PICK x \in Node : x = n
  BY ReceiveFacts
<1>3. PICK r \in Result : r = Event(w) /\ (r.status # "succeeded" => r.err = x)
  BY <1>2, ReceiveFacts
<1>4. results'[x] = r /\ results[x] = NoResult
  BY <1>2, <1>3, ReceiveFacts
<1>5. r.status \in {"failed", "skipped"} => r \in [status : {"failed", "skipped"}, err : {x}]
  BY <1>3 DEF Result
<1> SUFFICES ASSUME NEW m \in Node, results'[m].status = "skipped"
             PROVE  LET cause == results'[m].err
                    IN  \/ cause = Context /\ cancelled
                        \/ /\ cause \in Node
                           /\ results'[cause] \in [status : {"failed", "skipped"}, err : {cause}]
                           /\ \/ cause = m
                              \/ FailFast /\ results'[cause].status = "failed"
                              \/ m \in DependentsWithin(deps, cause, Node)
  BY <1>1 DEF SkipsAreJustified, StatusOf
<1>6. CASE m = x
  BY <1>3, <1>4, <1>5, <1>6
<1>7. CASE m \in S
  <2>1. results'[m].err = x /\ r.status \in {"failed", "skipped"}
    BY <1>2, <1>3, <1>7, ReceiveFacts, GivenUpFacts, SkipFacts
  <2>2. \/ FailFast /\ r.status = "failed"
        \/ m \in DependentsWithin(deps, x, Pending)
    BY <1>2, <1>3, <1>7, <2>1, GivenUpFacts
  <2>3. DependentsWithin(deps, x, Pending) \subseteq DependentsWithin(deps, x, Node)
    BY WithinMonotone DEF Pending, NodesIn
  <2> QED  BY <1>4, <1>5, <2>1, <2>2, <2>3
<1>8. CASE m # x /\ m \notin S
  <2> DEFINE cause == results[m].err
  <2>1. results'[m] = results[m]
    BY <1>2, <1>8, ReceiveFacts
  <2>2. CASE cause = Context /\ cancelled
    BY <2>1, <2>2
  <2>3. CASE ~(cause = Context /\ cancelled)
    <3>1. /\ cause \in Node
          /\ results[cause] \in [status : {"failed", "skipped"}, err : {cause}]
          /\ \/ cause = m
             \/ FailFast /\ results[cause].status = "failed"
             \/ m \in DependentsWithin(deps, cause, Node)
      BY <2>1, <2>3 DEF IInv, SkipsAreJustified, StatusOf
    <3>2. results[cause] # NoResult
      BY <3>1, NoResultFacts
    <3>3. results'[cause] = results[cause]
      BY <1>2, <1>4, <3>1, <3>2, ReceiveFacts
    <3> QED  BY <2>1, <3>1, <3>3
  <2> QED  BY <2>2, <2>3
<1> QED  BY <1>6, <1>7, <1>8

LEMMA CancelKeeps ==
  ASSUME IInv, TypeOK', ObserveCancel
  PROVE  IInv'
<1> DEFINE P == Pending
<1>1. /\ UNCHANGED <<deps, cancelled, pc, inDegree, running, worker>>
      /\ cancelled /\ stopping'
      /\ states' = [m \in Node |-> IF m \in P THEN "finished" ELSE states[m]]
      /\ results' = [m \in Node |-> IF m \in P THEN Skip(m, Context) ELSE results[m]]
      /\ finished' = finished + Cardinality(P)
  BY DEF ObserveCancel, NotStarted
<1>2. P \subseteq Node /\ \A m \in P : states[m] = "pending" /\ results[m] = NoResult
  BY DEF Pending, NodesIn, IInv, Shape
<1>3. /\ \A m \in P : states'[m] = "finished" /\ results'[m] = Skip(m, Context)
      /\ \A m \in Node \ P : states'[m] = states[m] /\ results'[m] = results[m]
  BY <1>1, <1>2
<1>4. Pending' = {}
  BY <1>1 DEF Pending, NodesIn
<1> HIDE DEF P
<1>5. \A m \in Node : StatusOf(m)' = "succeeded" <=> StatusOf(m) = "succeeded"
  BY <1>2, <1>3, NoResultFacts, SkipFacts DEF StatusOf
<1>6. \A m \in Node : states'[m] = "running" <=> states[m] = "running"
  BY <1>2, <1>3
<1>7. Shape'
  <2>1. \A m \in P : Skip(m, Context) \in Result
    BY SkipType DEF Blame
  <2>2. \A m \in Node : states'[m] = "finished" => results'[m] \in Result
    BY <1>2, <1>3, <2>1 DEF IInv, Shape
  <2>3. \A m \in Node : states'[m] # "finished" => results'[m] = NoResult
    BY <1>3 DEF IInv, Shape
  <2> QED  BY <1>1, <2>2, <2>3 DEF IInv, Shape, Valid
<1>8. DependencyOrder'
  <2> SUFFICES ASSUME NEW m \in Node, (states[m] = "running" \/ StatusOf(m) = "succeeded")',
                      NEW d \in deps[m]
               PROVE  StatusOf(d)' = "succeeded"
    BY <1>1 DEF DependencyOrder
  <2>1. StatusOf(d) = "succeeded" /\ d \in Node
    BY <1>5, <1>6 DEF IInv, DependencyOrder, TypeOK, Graph
  <2> QED  BY <2>1, <1>5
<1>9. NothingBlockedIsPending' /\ ReadyIsExact'
  BY <1>1, <1>4 DEF NothingBlockedIsPending, ReadyIsExact
<1>10. CountersAgree'
  <2>1. Busy' = Busy
    BY <1>1 DEF Busy
  <2>2. NodesIn("running")' = NodesIn("running")
    BY <1>6 DEF NodesIn
  <2>3. NodesIn("finished")' = {m \in Node : results'[m] # NoResult}
    BY <1>7, NoResultFacts DEF Shape, NodesIn
  <2>4. finished' = Cardinality(NodesIn("finished")')
    <3> DEFINE F == NodesIn("finished")
    <3>1. F \in SUBSET Node /\ P \in SUBSET Node /\ F \cap P = {}
      BY <1>2 DEF NodesIn
    <3>2. NodesIn("finished")' = F \cup P
      BY <1>2, <1>3 DEF NodesIn
    <3>3. finished = Cardinality(F)
      BY DEF IInv, CountersAgree
    <3> HIDE DEF F
    <3>4. /\ Cardinality(F) \in Nat /\ IsFiniteSet(F)
          /\ Cardinality(P) \in Nat /\ IsFiniteSet(P)
      BY <3>1, FiniteParts
    <3>5. Cardinality(F \cup P) = Cardinality(F) + Cardinality(P)
      <4>1. Cardinality(F \cup P) = Cardinality(F) + Cardinality(P) - Cardinality(F \cap P)
        BY <3>4, FS_Union
      <4>2. Cardinality(F \cap P) = 0
        BY <3>1, FS_EmptySet
      <4> QED  BY <3>4, <4>1, <4>2
    <3>6. finished' = finished + Cardinality(P)
      BY <1>1
    <3> QED  BY <3>2, <3>3, <3>5, <3>6
  <2>5. /\ running' = Cardinality(Busy')
        /\ NodesIn("running")' = {worker'[v].node : v \in Busy'}
        /\ \A u, v \in Busy' : worker'[u].node = worker'[v].node => u = v
    BY <1>1, <2>1, <2>2 DEF IInv, CountersAgree
  <2> QED  BY <2>3, <2>4, <2>5 DEF CountersAgree
<1>11. StopIsFinal'
  BY <1>1, <1>4 DEF StopIsFinal
<1>12. SkipsAreJustified'
  <2> SUFFICES ASSUME NEW m \in Node, results'[m].status = "skipped"
               PROVE  LET cause == results'[m].err
                      IN  \/ cause = Context /\ cancelled
                          \/ /\ cause \in Node
                             /\ results'[cause] \in [status : {"failed", "skipped"}, err : {cause}]
                             /\ \/ cause = m
                                \/ FailFast /\ results'[cause].status = "failed"
                                \/ m \in DependentsWithin(deps, cause, Node)
    BY <1>1 DEF SkipsAreJustified, StatusOf
  <2>1. CASE m \in P
    BY <1>1, <1>3, <2>1, SkipFacts
  <2>2. CASE m \notin P
    <3> DEFINE cause == results[m].err
    <3>1. results'[m] = results[m]
      BY <1>3, <2>2
    <3>2. CASE cause = Context /\ cancelled
      BY <3>1, <3>2
    <3>3. CASE ~(cause = Context /\ cancelled)
      <4>1. /\ cause \in Node
            /\ results[cause] \in [status : {"failed", "skipped"}, err : {cause}]
            /\ \/ cause = m
               \/ FailFast /\ results[cause].status = "failed"
               \/ m \in DependentsWithin(deps, cause, Node)
        BY <3>1, <3>3 DEF IInv, SkipsAreJustified, StatusOf
      <4>2. results[cause] # NoResult
        BY <4>1, NoResultFacts
      <4>3. results'[cause] = results[cause]
        BY <1>2, <1>3, <4>1, <4>2
      <4> QED  BY <3>1, <4>1, <4>3
    <3> QED  BY <3>2, <3>3
  <2> QED  BY <2>1, <2>2
<1> QED  BY <1>7, <1>8, <1>9, <1>10, <1>11, <1>12 DEF IInv

(***************************************************************************)
(* Steps that leave Run's maps alone keep the invariant when the busy      *)
(* workers go on holding what they held.                                   *)
(***************************************************************************)
LEMMA WorkerStepKeeps ==
  ASSUME IInv, TypeOK', UNCHANGED <<deps, runLocals>>,
         cancelled => cancelled',
         Shape',
         Busy' = Busy,
         \A w \in Busy : worker'[w].node = worker[w].node
  PROVE  IInv'
<1>1. UNCHANGED <<deps, states, results, inDegree, ready, running, finished, stopping>>
  BY DEF runLocals
<1>2. DependencyOrder' /\ NothingBlockedIsPending' /\ ReadyIsExact' /\ StopIsFinal'
  BY <1>1 DEF IInv, DependencyOrder, NothingBlockedIsPending, ReadyIsExact, StopIsFinal,
              StatusOf, Pending, NodesIn
<1>3. CountersAgree'
  <2>1. CountersAgree
    BY DEF IInv
  <2>2. NodesIn("running")' = NodesIn("running") /\ NodesIn("finished")' = NodesIn("finished")
    BY <1>1 DEF NodesIn
  <2> QED  BY <1>1, <2>1, <2>2 DEF CountersAgree
<1>4. SkipsAreJustified'
  BY <1>1 DEF IInv, SkipsAreJustified, StatusOf
<1> QED  BY <1>2, <1>3, <1>4 DEF IInv

LEMMA InitIInv == Init => IInv
<1> SUFFICES ASSUME Init PROVE IInv
  OBVIOUS
<1>1. TypeOK
  BY InitTyping
<1>2. /\ \A n \in Node : states[n] = "pending" /\ results[n] = NoResult
      /\ \A w \in Worker : worker[w] = Idle
      /\ pc = "validate" /\ running = 0 /\ finished = 0
  BY DEF Init
<1>3. Shape
  BY <1>2 DEF Shape, Idle, Exited
<1>4. DependencyOrder /\ NothingBlockedIsPending /\ SkipsAreJustified
  <2>1. \A n \in Node : deps[n] \subseteq Node /\ StatusOf(n) = "none" /\ states[n] = "pending"
    BY <1>1, <1>2, NoResultFacts DEF TypeOK, Graph, StatusOf
  <2>2. DependencyOrder
    BY <2>1 DEF DependencyOrder
  <2>3. NothingBlockedIsPending
    BY <2>1 DEF NothingBlockedIsPending, Pending, NodesIn
  <2>4. SkipsAreJustified
    BY <2>1 DEF SkipsAreJustified
  <2> QED  BY <2>2, <2>3, <2>4
<1>5. ReadyIsExact
  <2>1. \A n \in Node : deps[n] \in SUBSET Node
    BY <1>1 DEF TypeOK, Graph
  <2>2. \A n \in Node : inDegree[n] = Cardinality(deps[n])
    BY DEF Init
  <2>3. \A n \in Node : {d \in deps[n] : StatusOf(d) # "succeeded"} = deps[n]
    BY <1>2, <2>1, NoResultFacts DEF StatusOf
  <2>4. \A n \in Node : inDegree[n] = 0 <=> deps[n] = {}
    BY <2>1, <2>2, FiniteParts, FS_EmptySet
  <2>5. ready = {n \in Pending : inDegree[n] = 0}
    BY <1>2, <2>4 DEF Init, Roots, Pending, NodesIn
  <2> QED  BY <2>2, <2>3, <2>5 DEF ReadyIsExact, Pending, NodesIn
<1>6. CountersAgree
  <2>1. Busy = {} /\ NodesIn("running") = {} /\ NodesIn("finished") = {}
    BY <1>2 DEF Busy, Idle, NodesIn
  <2>2. {n \in Node : results[n] # NoResult} = {}
    BY <1>2
  <2> QED  BY <1>2, <2>1, <2>2, FS_EmptySet DEF CountersAgree
<1>7. StopIsFinal
  <2>1. ~stopping
    BY DEF Init
  <2>2. \A n \in Node : StatusOf(n) # "failed"
    BY <1>2, NoResultFacts DEF StatusOf
  <2> QED  BY <2>1, <2>2 DEF StopIsFinal
<1> QED  BY <1>1, <1>3, <1>4, <1>5, <1>6, <1>7 DEF IInv

LEMMA StepIInv == IInv /\ [Next]_vars => IInv'
<1> SUFFICES ASSUME IInv, [Next]_vars PROVE IInv'
  OBVIOUS
<1>1. TypeOK'
  BY StepTyping DEF IInv
<1>2. CASE CancelContext
  <2>1. Shape'
    BY <1>2 DEF CancelContext, runLocals, IInv, Shape, Valid
  <2> QED  BY <1>1, <1>2, <2>1, WorkerStepKeeps DEF CancelContext, Busy
<1>3. CASE Validate
  <2>1. Shape'
    BY <1>3 DEF Validate, runLocals, IInv, Shape, Valid
  <2> QED  BY <1>1, <1>3, <2>1, WorkerStepKeeps DEF Validate, Busy
<1>4. ASSUME NEW w \in Worker, Offer(w) PROVE IInv'
  BY <1>1, <1>4, OfferKeeps
<1>5. ASSUME NEW w \in Worker, Receive(w) PROVE IInv'
  BY <1>1, <1>5, ReceiveKeepsOrder, ReceiveKeepsReady, ReceiveKeepsCounters, ReceiveKeepsSkips
     DEF IInv
<1>6. CASE ObserveCancel
  BY <1>1, <1>6, CancelKeeps
<1>7. ASSUME NEW w \in Worker, StartNode(w) PROVE IInv'
  <2>1. worker' = [worker EXCEPT ![w] = [phase |-> "dispatching", node |-> worker[w].node]]
    BY <1>7 DEF StartNode
  <2>2. Busy' = Busy /\ \A v \in Busy : worker'[v].node = worker[v].node
    BY <1>7, <2>1 DEF StartNode, Busy, IInv, TypeOK
  <2>3. Shape'
    BY <1>7, <2>1 DEF StartNode, runLocals, IInv, Shape, Valid, TypeOK, Exited
  <2> QED  BY <1>1, <1>7, <2>2, <2>3, WorkerStepKeeps DEF StartNode
<1>8. ASSUME NEW w \in Worker, FinishNode(w) PROVE IInv'
  <2> DEFINE n == worker[w].node
  <2>1. PICK ret \in DispatchReturn :
          worker' = [worker EXCEPT ![w] =
                       [phase |-> "reporting", node |-> n, result |-> NormalizeResult(n, ret)]]
    BY <1>8 DEF FinishNode
  <2>2. Busy' = Busy /\ \A v \in Busy : worker'[v].node = worker[v].node
    BY <1>8, <2>1 DEF FinishNode, Busy, IInv, TypeOK
  <2>3. NormalizeResult(n, ret).status # "succeeded" => NormalizeResult(n, ret).err = n
    BY DEF NormalizeResult
  <2>4. Shape'
    BY <1>8, <2>1, <2>3 DEF FinishNode, runLocals, IInv, Shape, Valid, TypeOK, Exited
  <2> QED  BY <1>1, <1>8, <2>2, <2>4, WorkerStepKeeps DEF FinishNode
<1>9. ASSUME NEW w \in Worker, ExitWorker(w) PROVE IInv'
  <2>1. worker' = [worker EXCEPT ![w] = Exited] /\ worker[w] = Idle
    BY <1>9 DEF ExitWorker
  <2>2. Busy' = Busy /\ \A v \in Busy : worker'[v].node = worker[v].node
    BY <2>1 DEF Busy, IInv, TypeOK, Idle, Exited
  <2>3. Shape'
    BY <1>9, <2>1 DEF ExitWorker, runLocals, IInv, Shape, Valid, TypeOK, Exited
  <2> QED  BY <1>1, <1>9, <2>2, <2>3, WorkerStepKeeps DEF ExitWorker
<1>10. CASE CloseWork
  <2>1. Shape'
    BY <1>10 DEF CloseWork, runLocals, IInv, Shape, Valid
  <2> QED  BY <1>1, <1>10, <2>1, WorkerStepKeeps DEF CloseWork, Busy
<1>11. CASE ReturnAggregate
  <2>1. Shape'
    BY <1>11 DEF ReturnAggregate, runLocals, IInv, Shape, Valid
  <2> QED  BY <1>1, <1>11, <2>1, WorkerStepKeeps DEF ReturnAggregate, Busy
<1>12. CASE UNCHANGED vars
  <2>1. Shape'
    BY <1>12 DEF vars, runLocals, IInv, Shape, Valid
  <2> QED  BY <1>1, <1>12, <2>1, WorkerStepKeeps DEF vars, Busy
<1> QED
  BY <1>2, <1>3, <1>4, <1>5, <1>6, <1>7, <1>8, <1>9, <1>10, <1>11, <1>12
     DEF Next, Run, WorkerLoop, Stopped

-----------------------------------------------------------------------------
(***************************************************************************)
(* The inductive invariant holds in every reachable state.                 *)
(***************************************************************************)
THEOREM Invariance == Spec => []IInv
BY InitIInv, StepIInv, PTL DEF Spec

(***************************************************************************)
(* No node is handed to a worker, or succeeds, before everything it        *)
(* depends on has succeeded, whatever the graph, the number of workers,    *)
(* the failures and the moment of a cancellation.                          *)
(***************************************************************************)
THEOREM DependencyOrderHolds == Spec => []DependencyOrder
<1>1. IInv => DependencyOrder
  BY DEF IInv
<1> QED  BY <1>1, Invariance, PTL

(***************************************************************************)
(* skipBlocked is complete: no pending node ever has a dependency that     *)
(* failed or was skipped.                                                  *)
(***************************************************************************)
THEOREM NothingBlockedIsPendingHolds == Spec => []NothingBlockedIsPending
<1>1. IInv => NothingBlockedIsPending
  BY DEF IInv
<1> QED  BY <1>1, Invariance, PTL

(***************************************************************************)
(* The in-degrees and the ready queue are exact, so that Run's loop that   *)
(* drops stale queue heads never drops one.                                *)
(***************************************************************************)
THEOREM ReadyIsExactHolds == Spec => []ReadyIsExact
<1>1. IInv => ReadyIsExact
  BY DEF IInv
<1> QED  BY <1>1, Invariance, PTL

(***************************************************************************)
(* Run's counters agree with its maps and with the workers.                *)
(***************************************************************************)
THEOREM CountersAgreeHolds == Spec => []CountersAgree
<1>1. IInv => CountersAgree
  BY DEF IInv
<1> QED  BY <1>1, Invariance, PTL

(***************************************************************************)
(* After a stop nothing is left that could start, and fail-fast stops at   *)
(* the first failure.                                                      *)
(***************************************************************************)
THEOREM StopIsFinalHolds == Spec => []StopIsFinal
<1>1. IInv => StopIsFinal
  BY DEF IInv
<1> QED  BY <1>1, Invariance, PTL

(***************************************************************************)
(* Every skip names the cancelled context or the dispatched node that      *)
(* caused it.                                                              *)
(***************************************************************************)
THEOREM SkipsAreJustifiedHolds == Spec => []SkipsAreJustified
<1>1. IInv => SkipsAreJustified
  BY DEF IInv
<1> QED  BY <1>1, Invariance, PTL

(***************************************************************************)
(* Run waits for an event nobody will send only behind a status of the     *)
(* dispatcher's own: else, with no node running and work left, an acyclic  *)
(* graph has a ready node and the pool a free worker.                      *)
(***************************************************************************)
LEMMA IInvNeverStuck == IInv => NeverStuck
<1> SUFFICES ASSUME IInv, Looping, running = 0, ~Stranded
             PROVE  Queue # {} /\ HasRoom /\ \E w \in Worker : worker[w] = Idle
  BY DEF NeverStuck
<1>1. NodesIn("running") = {} /\ Busy = {}
  <2>1. Busy = {}
    BY FiniteBusy, FS_EmptySet DEF IInv, CountersAgree
  <2> QED  BY <2>1 DEF IInv, CountersAgree
<1>2. Pending # {}
  <2> SUFFICES ASSUME Pending = {} PROVE FALSE
    OBVIOUS
  <2>1. NodesIn("finished") = Node
    BY <1>1 DEF IInv, TypeOK, Pending, NodesIn
  <2> QED  BY <2>1, FiniteParts DEF IInv, CountersAgree, Looping, NodeCount
<1>3. ~stopping
  BY <1>2 DEF IInv, StopIsFinal
<1>4. Acyclic(deps) /\ MaxConcurrency > 0
  BY DEF IInv, Shape, Looping, Valid
<1>5. PICK n \in Pending : deps[n] \cap Pending = {}
  BY <1>2, <1>4 DEF Acyclic, Pending, NodesIn
<1>6. \A d \in deps[n] : StatusOf(d) = "succeeded"
  <2> SUFFICES ASSUME NEW d \in deps[n] PROVE StatusOf(d) = "succeeded"
    OBVIOUS
  <2>1. d \in Node /\ d \notin Pending
    BY <1>5 DEF IInv, TypeOK, Graph, Pending, NodesIn
  <2>2. states[d] = "finished"
    BY <2>1, <1>1 DEF IInv, TypeOK, Pending, NodesIn
  <2>3. results[d] \in Result
    BY <2>1, <2>2 DEF IInv, Shape
  <2>4. StatusOf(d) \notin {"failed", "skipped"} \cup OtherStatus
    BY <1>5 DEF IInv, NothingBlockedIsPending, Stranded
  <2> QED  BY <2>3, <2>4, NoResultFacts, StatusFacts DEF StatusOf
<1>7. n \in ready
  <2>1. {d \in deps[n] : StatusOf(d) # "succeeded"} = {}
    BY <1>6
  <2>2. inDegree[n] = 0
    BY <2>1, FS_EmptySet DEF IInv, ReadyIsExact
  <2> QED  BY <1>3, <2>2 DEF IInv, ReadyIsExact
<1>8. Queue # {}
  BY <1>3, <1>7, QueueIsReady DEF IInv
<1>9. WorkerCount > 0 /\ WorkerCount \in Int
  <2>1. NodeCount \in Nat /\ finished \in Nat
    BY FiniteParts DEF NodeCount, IInv, CountersAgree, NodesIn
  <2> QED  BY <1>4, <2>1, SchedulerAssumption DEF WorkerCount, Looping
<1>10. HasRoom
  BY <1>3, <1>9 DEF HasRoom
<1>11. worker[1] = Idle /\ 1 \in Worker
  <2>1. 1 \in Worker
    BY <1>9 DEF Worker
  <2>2. worker[1].phase \in {"idle", "exited"} /\ worker[1] \in WorkerState
    BY <1>1, <2>1 DEF Busy, IInv, TypeOK
  <2>3. worker[1] # Exited
    BY <2>1 DEF IInv, Shape, Looping
  <2> QED  BY <2>1, <2>2, <2>3, WorkerStateShape
<1> QED  BY <1>8, <1>10, <1>11

\* On an acyclic graph the loop of Run always has a node running or one to offer,
\* unless a status of the dispatcher's own strands what depends on it.
THEOREM NeverStuckHolds == Spec => []NeverStuck
BY IInvNeverStuck, Invariance, PTL

(***************************************************************************)
(* A node never goes back, ends with the result its worker reported, and   *)
(* keeps that result for good.                                             *)
(***************************************************************************)
LEMMA StepIsOneWay == IInv /\ [Next]_vars => [OneWay]_vars
<1> SUFFICES ASSUME IInv, [Next]_vars PROVE OneWay
  OBVIOUS
<1>1. ASSUME NEW w \in Worker, Offer(w) PROVE OneWay
  <2> DEFINE next == First(Queue)
  <2>1. next \in Pending /\ states' = [states EXCEPT ![next] = "running"] /\ results' = results
    BY <1>1, OfferFacts DEF Offer, Peek
  <2> HIDE DEF next
  <2> QED  BY <2>1 DEF OneWay, Pending, NodesIn, IInv, TypeOK
<1>2. ASSUME NEW w \in Worker, Receive(w) PROVE OneWay
  <2> DEFINE n == EventNode(w)
             S == GivenUp(w)
  <2>1. /\ n \in Node /\ worker[w].phase = "reporting" /\ worker[w].node = n
        /\ results[n] = NoResult /\ results'[n] = worker[w].result /\ states'[n] = "finished"
    BY <1>2, ReceiveFacts DEF EventNode, Event, Receive
  <2>2. \A m \in S : states[m] = "pending" /\ results[m] = NoResult /\ states'[m] = "finished"
    BY <1>2, ReceiveFacts DEF Pending, NodesIn
  <2>3. \A m \in Node \ ({n} \cup S) : states'[m] = states[m] /\ results'[m] = results[m]
    BY <1>2, ReceiveFacts
  <2> HIDE DEF n, S
  <2> QED  BY <2>1, <2>2, <2>3 DEF OneWay
<1>3. CASE ObserveCancel
  BY <1>3 DEF ObserveCancel, NotStarted, OneWay, Pending, NodesIn, IInv, Shape
<1>4. CASE states' = states /\ results' = results
  BY <1>4 DEF OneWay
<1>5. \/ \E w \in Worker : Offer(w) \/ Receive(w)
      \/ ObserveCancel
      \/ states' = states /\ results' = results
  BY DEF Next, Run, WorkerLoop, Stopped, CancelContext, Validate, StartNode, FinishNode,
         ExitWorker, CloseWork, ReturnAggregate, vars, runLocals
<1> QED  BY <1>1, <1>2, <1>3, <1>4, <1>5

\* What a node came to is never changed, nor is it dispatched again.
THEOREM ResultsAreFinalHolds == Spec => ResultsAreFinal
BY Invariance, StepIsOneWay, PTL DEF Spec, ResultsAreFinal

-----------------------------------------------------------------------------
(***************************************************************************)
(* What is handed to workers, and when.                                    *)
(***************************************************************************)

\* No step but an offer hands a node to a worker: a skip has another's error.
LEMMA NewlyDispatched ==
  ASSUME IInv, [Next]_vars, NEW n \in Node, Dispatched(n)', ~Dispatched(n)
  PROVE  \E w \in Worker : Offer(w) /\ n = First(Queue)
<1>1. ASSUME NEW w \in Worker, Receive(w)
      PROVE  FALSE
  <2> DEFINE e == EventNode(w)
             S == GivenUp(w)
  <2>1. /\ e \in Node /\ states[e] = "running"
        /\ \A m \in S : results'[m] = Skip(m, e) /\ m # e /\ states'[m] = "finished"
        /\ \A m \in Node \ ({e} \cup S) : results'[m] = results[m] /\ states'[m] = states[m]
    BY <1>1, ReceiveFacts
  <2> HIDE DEF e, S
  <2> QED  BY <2>1, SkipFacts, SchedulerAssumption DEF Dispatched
<1>2. ASSUME ObserveCancel
      PROVE  FALSE
  <2>1. CASE n \in NotStarted
    <3>1. states'[n] = "finished" /\ results'[n] = Skip(n, Context)
      BY <1>2, <2>1 DEF ObserveCancel
    <3> QED  BY <3>1, SkipFacts, SchedulerAssumption DEF Dispatched
  <2>2. CASE n \notin NotStarted
    <3>1. states'[n] = states[n] /\ results'[n] = results[n]
      BY <1>2, <2>2 DEF ObserveCancel
    <3> QED  BY <3>1 DEF Dispatched
  <2> QED  BY <2>1, <2>2
<1>3. ASSUME NEW w \in Worker, Offer(w), n # First(Queue)
      PROVE  FALSE
  <2>1. states' = [states EXCEPT ![First(Queue)] = "running"] /\ results' = results
    BY <1>3 DEF Offer, Peek
  <2> QED  BY <1>3, <2>1 DEF Dispatched, IInv, TypeOK
<1>4. ASSUME states' = states, results' = results
      PROVE  FALSE
  BY <1>4 DEF Dispatched
<1>5. \/ \E w \in Worker : Offer(w) \/ Receive(w)
      \/ ObserveCancel
      \/ states' = states /\ results' = results
  BY DEF Next, Run, WorkerLoop, Stopped, CancelContext, Validate, StartNode, FinishNode,
         ExitWorker, CloseWork, ReturnAggregate, vars, runLocals
<1> QED  BY <1>1, <1>2, <1>3, <1>4, <1>5

\* No step changes the graph.
LEMMA GraphStays == [Next]_vars => deps' = deps
BY DEF Next, Run, Validate, Offer, Receive, ObserveCancel, CloseWork, ReturnAggregate, Looping,
    WorkerLoop, StartNode, FinishNode, ExitWorker, CancelContext, Stopped, vars, runLocals

\* DependencyOrder, for what was handed to a worker and came back without success too.
DispatchedInOrder ==
  \A n \in Node : Dispatched(n) => \A d \in deps[n] : StatusOf(d) = "succeeded"

LEMMA StepDispatchesInOrder ==
  IInv /\ DispatchedInOrder /\ [Next]_vars => DispatchedInOrder'
<1> SUFFICES ASSUME IInv, DispatchedInOrder, [Next]_vars,
                    NEW n \in Node, Dispatched(n)', NEW d \in deps'[n]
             PROVE  results'[d].status = "succeeded"
  BY DEF DispatchedInOrder, StatusOf
<1>1. deps' = deps /\ d \in Node
  BY GraphStays DEF IInv, TypeOK, Graph
<1>2. results[d].status = "succeeded"
  <2>1. CASE Dispatched(n)
    BY <1>1, <2>1 DEF DispatchedInOrder, StatusOf
  <2>2. CASE ~Dispatched(n)
    BY <1>1, <2>2, NewlyDispatched, OfferFacts DEF StatusOf
  <2> QED  BY <2>1, <2>2
<1>3. results[d] # NoResult
  BY <1>2, NoResultFacts
<1>4. [OneWay]_vars
  BY StepIsOneWay
<1>5. results'[d] = results[d]
  BY <1>1, <1>3, <1>4 DEF OneWay, vars, runLocals
<1> QED  BY <1>2, <1>5

(***************************************************************************)
(* Whatever was handed to a worker, whatever came of it, everything that   *)
(* it depends on had succeeded.                                            *)
(***************************************************************************)
THEOREM DispatchedInOrderHolds == Spec => []DispatchedInOrder
<1>1. Init => DispatchedInOrder
  BY DEF Init, DispatchedInOrder, Dispatched
<1> QED  BY <1>1, StepDispatchesInOrder, Invariance, PTL DEF Spec

-----------------------------------------------------------------------------
(***************************************************************************)
(* What Run returns.                                                       *)
(***************************************************************************)

\* orderedResults leaves none out when every node has a result.
IsOrdered(order, h) ==
  h = [i \in 0 .. Len(order) |->
         IF i = 0 THEN << >>
         ELSE IF results[order[i]] = NoResult THEN h[i - 1] ELSE Append(h[i - 1], order[i])]

LEMMA AllResultsAreOrdered ==
  ASSUME Topological(deps) \in Seq(Node), \A n \in Node : results[n] # NoResult
  PROVE  OrderedResults = Topological(deps)
<1> DEFINE order == Topological(deps)
           N == Len(order)
           prefix(i) == [j \in 1 .. i |-> order[j]]
           H == CHOOSE h : IsOrdered(order, h)
<1>1. OrderedResults = H[N]
  BY DEF OrderedResults, IsOrdered
<1>2. order \in Seq(Node) /\ N \in Nat /\ \A i \in 1 .. N : results[order[i]] # NoResult
  OBVIOUS
<1> HIDE DEF order
<1>3. \A i \in 1 .. N : prefix(i) = Append(prefix(i - 1), order[i])
  <2> SUFFICES ASSUME NEW i \in 1 .. N PROVE prefix(i) = Append(prefix(i - 1), order[i])
    OBVIOUS
  <2>1. prefix(i - 1) \in Seq(Node) /\ Len(prefix(i - 1)) = i - 1 /\ order[i] \in Node
    BY <1>2
  <2>2. prefix(i) \in Seq(Node) /\ Len(prefix(i)) = i
    BY <1>2
  <2>3. \A j \in 1 .. i : prefix(i)[j] = Append(prefix(i - 1), order[i])[j]
    BY <2>1
  <2>4. Append(prefix(i - 1), order[i]) \in Seq(Node) /\ Len(Append(prefix(i - 1), order[i])) = i
    BY <2>1
  <2> HIDE DEF prefix
  <2> QED  BY <2>2, <2>3, <2>4
<1>4. prefix(0) = << >>
  OBVIOUS
<1> DEFINE P == [i \in 0 .. N |-> prefix(i)]
<1>5. IsOrdered(order, P)
  <2> HIDE DEF prefix
  <2>1. \A i \in 0 .. N :
          P[i] = IF i = 0 THEN << >>
                 ELSE IF results[order[i]] = NoResult THEN P[i - 1] ELSE Append(P[i - 1], order[i])
    <3> SUFFICES ASSUME NEW i \in 0 .. N, i # 0 PROVE P[i] = Append(P[i - 1], order[i])
      BY <1>2, <1>4
    <3>1. i - 1 \in 0 .. N /\ i \in 1 .. N
      BY <1>2
    <3> QED  BY <3>1, <1>3
  <2>2. P = [i \in 0 .. N |-> P[i]]
    OBVIOUS
  <2> HIDE DEF P
  <2> QED  BY <2>1, <2>2 DEF IsOrdered
<1>6. IsOrdered(order, H)
  BY <1>5
<1> HIDE DEF H, prefix
<1>a. H = [i \in 0 .. N |->
             IF i = 0 THEN << >>
             ELSE IF results[order[i]] = NoResult THEN H[i - 1] ELSE Append(H[i - 1], order[i])]
  BY <1>6 DEF IsOrdered
<1>b. N \in Nat
  BY <1>2
<1> HIDE DEF N
<1>7. \A i \in 0 .. N : H[i] = prefix(i)
  <2> DEFINE Bad == {i \in Nat : i <= N /\ H[i] # prefix(i)}
  <2> SUFFICES ASSUME Bad # {} PROVE FALSE
    BY <1>b
  <2>1. PICK i \in Bad : \A j \in Bad : i <= j
    <3> HIDE DEF Bad
    <3>1. Bad \subseteq Nat
      BY DEF Bad
    <3> QED  BY <3>1, LeastNatural
  <2>2. H[i] = IF i = 0 THEN << >>
               ELSE IF results[order[i]] = NoResult THEN H[i - 1] ELSE Append(H[i - 1], order[i])
    <3>1. i \in 0 .. N
      BY <1>b, <2>1
    <3> QED  BY <1>a, <3>1
  <2>3. i # 0
    BY <1>4, <2>1, <2>2
  <2>4. i \in 1 .. N /\ H[i - 1] = prefix(i - 1)
    BY <1>b, <2>1, <2>3
  <2> QED  BY <1>2, <1>3, <2>1, <2>2, <2>3, <2>4
<1>8. prefix(N) = order
  BY <1>2 DEF N, prefix
<1> QED  BY <1>1, <1>b, <1>7, <1>8 DEF order

\* How Run ends: workCh is closed when every node is accounted for, and the
\* aggregate is that of the maps when the workers are gone.
Ended ==
  /\ pc \in {"closed", "returned"} => finished >= NodeCount
  /\ pc = "returned" =>
       /\ \A w \in Worker : worker[w] = Exited
       /\ aggregate = [results |-> OrderedResults, err |-> AggregateError]

LEMMA StepEnds == IInv /\ Ended /\ [Next]_vars => Ended'
<1> SUFFICES ASSUME IInv, Ended, [Next]_vars PROVE Ended'
  OBVIOUS
<1>1. CASE pc' \notin {"closed", "returned"}
  BY <1>1 DEF Ended
<1>2. CASE CloseWork
  BY <1>2 DEF CloseWork, Ended, runLocals
<1>3. CASE ReturnAggregate
  BY <1>3 DEF ReturnAggregate, Ended, runLocals, OrderedResults, AggregateError
<1>4. ASSUME pc' \in {"closed", "returned"}, ~CloseWork, ~ReturnAggregate
      PROVE  Ended'
  <2>1. pc' = pc /\ UNCHANGED <<deps, results, finished, aggregate>>
    BY <1>4 DEF Next, Run, Validate, Offer, Receive, ObserveCancel, Looping, WorkerLoop, StartNode,
                FinishNode, ExitWorker, CancelContext, Stopped, vars, runLocals
  <2>2. pc = "returned" => worker' = worker
    <3> SUFFICES ASSUME pc = "returned" PROVE worker' = worker
      OBVIOUS
    <3>1. \A w \in Worker : worker[w] = Exited
      BY DEF Ended
    <3> QED  BY <3>1 DEF Next, Run, Validate, Offer, Receive, ObserveCancel, CloseWork,
                ReturnAggregate, Looping, WorkerLoop, StartNode, FinishNode, ExitWorker, Exited,
                CancelContext, Stopped, vars, runLocals
  <2> QED  BY <1>4, <2>1, <2>2 DEF Ended, OrderedResults, AggregateError
<1> QED  BY <1>1, <1>2, <1>3, <1>4

\* Every node has a result then.
LEMMA EndedHasResults ==
  ASSUME IInv, Ended, pc \in {"closed", "returned"}
  PROVE  \A n \in Node : states[n] = "finished" /\ results[n] \in Result
<1>1. finished >= NodeCount /\ finished = Cardinality(NodesIn("finished"))
  BY DEF Ended, IInv, CountersAgree
<1>2. NodesIn("finished") \in SUBSET Node /\ NodeCount = Cardinality(Node)
  BY DEF NodesIn, NodeCount
<1>3. NodesIn("finished") = Node
  BY <1>1, <1>2, NodeAssumption, FS_Subset, FS_CardinalityType
<1> QED  BY <1>3 DEF NodesIn, IInv, Shape

LEMMA EndedIsComplete == IInv /\ Ended => ReturnIsComplete
<1> SUFFICES ASSUME IInv, Ended, pc = "returned"
             PROVE  ReturnIsComplete
  BY DEF ReturnIsComplete
<1>1. \A n \in Node : states[n] = "finished" /\ results[n] \in Result
  BY EndedHasResults
<1>2. deps \in Graph /\ Acyclic(deps)
  BY DEF IInv, TypeOK, Shape, Valid
<1>3. aggregate.results = Topological(deps)
  <2>1. \A n \in Node : results[n] # NoResult
    BY <1>1, NoResultFacts
  <2>2. Topological(deps) \in Seq(Node)
    BY <1>2, TopologicalOrder
  <2> QED  BY <2>1, <2>2, AllResultsAreOrdered DEF Ended
<1>4. \A n \in Node : StatusOf(n) \in Status
  BY <1>1, NoResultFacts DEF StatusOf
<1>5. aggregate.err = AggregateError
  BY DEF Ended
<1>6. /\ \A n \in Node : StatusOf(n) \notin {"succeeded", "skipped"} => n \in aggregate.err
      /\ (aggregate.err = {}) = (\A n \in Node : StatusOf(n) = "succeeded")
  BY <1>4, <1>5 DEF AggregateError, StatusOf
<1>7. Busy = {}
  BY DEF Ended, Busy, Exited
<1> DEFINE order == Topological(deps)
<1>8. /\ order \in Seq(Node) /\ Len(order) = NodeCount
      /\ \A n \in Node : \E i \in 1 .. Len(order) : order[i] = n
      /\ \A i, j \in 1 .. Len(order) : order[i] \in deps[order[j]] => i < j
  BY <1>2, TopologicalOrder DEF NodeCount
<1> HIDE DEF order
<1>9. DOMAIN order = 1 .. Len(order)
  BY <1>8
<1>10. aggregate.results = order
  BY <1>3 DEF order
<1> QED  BY <1>6, <1>7, <1>8, <1>9, <1>10 DEF ReturnIsComplete

(***************************************************************************)
(* When Run returns, the aggregate has every node once, after the nodes it *)
(* depends on; the error names every node that failed or ended in a status *)
(* of its own, there is one unless all succeeded, and no worker is left.   *)
(***************************************************************************)
THEOREM ReturnIsCompleteHolds == Spec => []ReturnIsComplete
<1>1. Init => Ended
  BY DEF Init, Ended
<1> QED  BY <1>1, StepEnds, EndedIsComplete, Invariance, PTL DEF Spec

\* A success carries no error, and what is neither success nor skip blames nobody else.
BlameIsOwn ==
  /\ \A n \in Node : StatusOf(n) = "succeeded" => results[n].err = None
  /\ \A n \in Node : StatusOf(n) \notin {"none", "succeeded", "skipped"} => results[n].err = n
  /\ \A w \in Worker : worker[w].phase = "reporting" /\ worker[w].result.status = "succeeded"
       => worker[w].result.err = None

LEMMA InitBlame == Init => BlameIsOwn
BY DEF Init, BlameIsOwn, StatusOf, NoResult, Idle

LEMMA StepKeepsBlame == IInv /\ BlameIsOwn /\ [Next]_vars => BlameIsOwn'
<1> SUFFICES ASSUME IInv, BlameIsOwn, [Next]_vars PROVE BlameIsOwn'
  OBVIOUS
<1>1. ASSUME NEW w \in Worker, Offer(w) PROVE BlameIsOwn'
  BY <1>1 DEF Offer, BlameIsOwn, StatusOf, IInv, TypeOK
<1>2. ASSUME NEW w \in Worker, Receive(w) PROVE BlameIsOwn'
  <2> DEFINE n == EventNode(w)
             S == GivenUp(w)
  <2>1. /\ n \in Node /\ results'[n] = Event(w)
        /\ \A m \in S : results'[m] = Skip(m, n)
        /\ \A m \in Node \ ({n} \cup S) : results'[m] = results[m]
    BY <1>2, ReceiveFacts
  <2>2. /\ Event(w).status = "succeeded" => Event(w).err = None
        /\ Event(w).status # "succeeded" => Event(w).err = n
    BY <1>2, ReceiveFacts DEF Receive, Event, BlameIsOwn
  <2>3. worker' = [worker EXCEPT ![w] = Idle]
    BY <1>2 DEF Receive
  <2>4. \A v \in Worker : worker'[v].phase = "reporting" => worker'[v] = worker[v]
    BY <2>3 DEF Idle, IInv, TypeOK
  <2> HIDE DEF n, S
  <2> QED  BY <2>1, <2>2, <2>4, SkipFacts DEF BlameIsOwn, StatusOf
<1>3. CASE ObserveCancel
  <2>1. \A m \in Node : results'[m] = results[m] \/ results'[m] = Skip(m, Context)
    BY <1>3 DEF ObserveCancel
  <2> QED  BY <1>3, <2>1, SkipFacts DEF ObserveCancel, BlameIsOwn, StatusOf
<1>4. ASSUME NEW w \in Worker, FinishNode(w) PROVE BlameIsOwn'
  <2>1. PICK ret \in DispatchReturn :
          worker' = [worker EXCEPT ![w] =
                       [phase |-> "reporting", node |-> worker[w].node,
                        result |-> NormalizeResult(worker[w].node, ret)]]
    BY <1>4 DEF FinishNode
  <2>2. NormalizeResult(worker[w].node, ret).status = "succeeded" =>
          NormalizeResult(worker[w].node, ret).err = None
    BY DEF NormalizeResult
  <2> QED  BY <1>4, <2>1, <2>2 DEF FinishNode, BlameIsOwn, StatusOf, runLocals, IInv, TypeOK
<1>5. ASSUME NEW w \in Worker, StartNode(w) \/ ExitWorker(w) PROVE BlameIsOwn'
  BY <1>5 DEF StartNode, ExitWorker, Exited, BlameIsOwn, StatusOf, runLocals, IInv, TypeOK
<1>6. CASE results' = results /\ worker' = worker
  BY <1>6 DEF BlameIsOwn, StatusOf
<1> QED
  BY <1>1, <1>2, <1>3, <1>4, <1>5, <1>6 DEF Next, Run, WorkerLoop, Stopped, CancelContext, Validate,
    CloseWork, ReturnAggregate, vars, runLocals

-----------------------------------------------------------------------------
(***************************************************************************)
(* What a failure does to the other nodes.                                 *)
(***************************************************************************)

\* Once Run has stopped it starts nothing.
LEMMA NothingStartsOnceStopped ==
  ASSUME IInv, [Next]_vars, stopping
  PROVE  NodesIn("running")' \subseteq NodesIn("running")
<1> SUFFICES ASSUME NEW n \in Node, states'[n] = "running", states[n] # "running"
             PROVE  FALSE
  BY DEF NodesIn
<1>1. IInv'
  BY StepIInv
<1>2. states[n] = "finished"
  BY DEF IInv, StopIsFinal, Pending, NodesIn, TypeOK
<1>3. results[n] # NoResult
  BY <1>2, NoResultFacts DEF IInv, Shape
<1>4. results'[n] = results[n]
  <2>1. [OneWay]_vars
    BY StepIsOneWay
  <2>2. CASE OneWay
    BY <1>3, <2>2 DEF OneWay
  <2>3. CASE UNCHANGED vars
    BY <2>3 DEF vars, runLocals
  <2> QED  BY <2>1, <2>2, <2>3
<1>5. results'[n] = NoResult
  BY <1>1 DEF IInv, Shape, NoResult
<1> QED  BY <1>3, <1>4, <1>5

\* Who depends on a node that did not succeed, however indirectly, depends
\* directly on one that did not succeed.
LEMMA LossIsNear ==
  ASSUME IInv, NEW c \in Node, StatusOf(c) # "succeeded", NEW n \in DependentsWithin(deps, c, Node)
  PROVE  \E d \in deps[n] : StatusOf(d) # "succeeded"
<1> DEFINE S == {m \in Node : \E d \in deps[m] : StatusOf(d) # "succeeded"}
<1>1. \A x \in {c} \cup S : StatusOf(x) # "succeeded"
  BY DEF IInv, DependencyOrder
<1>2. \A x \in {c} \cup S : Dependents(deps, x) \cap Node \subseteq S
  BY <1>1 DEF Dependents
<1>3. S \in SUBSET Node
  OBVIOUS
<1> HIDE DEF S
<1>4. n \in S
  BY <1>2, <1>3 DEF DependentsWithin
<1> QED  BY <1>4 DEF S

\* Without fail-fast and cancellation, a node is given up only for a dependency.
LEMMA UnblockedIsDispatched ==
  ASSUME IInv, BlameIsOwn, Ended, pc = "returned", ~FailFast, ~cancelled,
         NEW n \in Node, \A d \in deps[n] : StatusOf(d) = "succeeded"
  PROVE  results[n].err \in {None, n}
<1>1. StatusOf(n) # "none"
  BY EndedHasResults, NoResultFacts, StatusFacts DEF StatusOf
<1>2. CASE StatusOf(n) # "skipped"
  BY <1>1, <1>2 DEF BlameIsOwn
<1>3. CASE StatusOf(n) = "skipped"
  <2> DEFINE c == results[n].err
  <2>1. \/ c = n
        \/ /\ c \in Node /\ results[c] \in [status : {"failed", "skipped"}, err : {c}]
           /\ n \in DependentsWithin(deps, c, Node)
    BY <1>3 DEF IInv, SkipsAreJustified
  <2> HIDE DEF c
  <2>2. CASE c # n
    <3>1. StatusOf(c) # "succeeded"
      BY <2>1, <2>2 DEF StatusOf
    <3> QED  BY <2>1, <2>2, <3>1, LossIsNear
  <2> QED  BY <2>2 DEF c
<1> QED  BY <1>1, <1>2, <1>3

-----------------------------------------------------------------------------
(***************************************************************************)
(* One worker.                                                             *)
(***************************************************************************)

\* A pending node whose dependencies all finished in a declared status is in the queue.
LEMMA UnblockedIsReady ==
  ASSUME IInv, ~stopping, NEW n \in Pending,
         \A d \in deps[n] : states[d] = "finished" /\ StatusOf(d) \notin OtherStatus
  PROVE  n \in ready
<1>1. n \in Node /\ deps[n] \subseteq Node
  BY DEF Pending, NodesIn, IInv, TypeOK, Graph
<1>2. \A d \in deps[n] : StatusOf(d) = "succeeded"
  <2> SUFFICES ASSUME NEW d \in deps[n] PROVE StatusOf(d) = "succeeded"
    OBVIOUS
  <2>1. results[d] \in Result
    BY <1>1 DEF IInv, Shape
  <2>2. StatusOf(d) \notin {"failed", "skipped"}
    BY DEF IInv, NothingBlockedIsPending
  <2> QED  BY <2>1, <2>2, NoResultFacts, StatusFacts DEF StatusOf
<1>3. {d \in deps[n] : StatusOf(d) # "succeeded"} = {}
  BY <1>2
<1>4. inDegree[n] = 0
  BY <1>3, FS_EmptySet DEF IInv, ReadyIsExact
<1> QED  BY <1>4 DEF IInv, ReadyIsExact

\* The worker is handed the first pending node in topological order.
LEMMA OfferIsSequential ==
  ASSUME IInv, BlameIsOwn, SequentialOrder, WorkerCount = 1, Acyclic(deps),
         \A n \in Node : StatusOf(n) \notin OtherStatus,
         NEW w \in Worker, Offer(w),
         NEW j \in 1 .. Len(Topological(deps)), Topological(deps)[j] = First(Queue),
         NEW i \in 1 .. j - 1
  PROVE  states[Topological(deps)[i]] # "pending"
<1> DEFINE order == Topological(deps)
           next == First(Queue)
           Late == {k \in Nat : k \in 1 .. j - 1 /\ states[order[k]] = "pending"}
<1>0. /\ order \in Seq(Node)
      /\ \A n \in Node : \E k \in 1 .. Len(order) : order[k] = n
      /\ \A k, l \in 1 .. Len(order) : order[k] = order[l] => k = l
      /\ \A k, l \in 1 .. Len(order) : order[k] \in deps[order[l]] => k < l
      /\ Greedy(deps, order)
  BY TopologicalOrder DEF IInv, TypeOK
<1>1. /\ next \in Pending /\ next \in ready /\ Queue = ready /\ ~stopping
      /\ \A d \in deps[next] : StatusOf(d) = "succeeded"
  BY OfferFacts DEF Offer, HasRoom
<1>2. \A m \in ready : Rank[next] <= Rank[m]
  BY <1>1, FirstIsLeast DEF IInv, TypeOK
<1>3. next \in Node /\ deps[next] \subseteq Node
  BY <1>1 DEF Pending, NodesIn, IInv, TypeOK, Graph
<1>4. \A n \in Node : states[n] \in {"pending", "finished"}
  <2>1. running < 1 /\ running = Cardinality(Busy)
    BY DEF Offer, HasRoom, IInv, CountersAgree
  <2>2. Busy = {}
    <3>1. IsFiniteSet(Busy) /\ Cardinality(Busy) \in Nat
      BY FiniteBusy, FS_CardinalityType
    <3>2. Cardinality(Busy) = 0
      BY <2>1, <3>1
    <3> QED  BY <3>1, <3>2, FS_EmptySet
  <2>3. NodesIn("running") = {}
    BY <2>2 DEF IInv, CountersAgree
  <2> QED  BY <2>3 DEF NodesIn, IInv, TypeOK
<1>5. order[j] = next /\ j \in 1 .. Len(order) /\ Len(order) \in Nat
  BY <1>0
<1>6. pc # "rejected"
  BY DEF Offer, Looping
<1>7. \A l \in 1 .. Len(order) : Dispatched(order[l]) =>
        \A k \in 1 .. l - 1 : states[order[k]] # "pending"
  <2>1. DOMAIN order = 1 .. Len(order)
    BY <1>0
  <2> QED  BY <1>6, <2>1 DEF SequentialOrder
<1> HIDE DEF order, next
<1> SUFFICES ASSUME Late # {} PROVE FALSE
  BY DEF order
<1>8. PICK k \in Late : \A l \in Late : k <= l
  <2> HIDE DEF Late
  <2>1. Late \subseteq Nat
    BY DEF Late
  <2> QED  BY <2>1, LeastNatural
<1>9. k \in 1 .. Len(order) /\ k < j /\ order[k] \in Node /\ order[k] \in Pending
  <2>1. k \in Nat /\ k \in 1 .. j - 1 /\ states[order[k]] = "pending"
    BY <1>8
  <2>2. k \in 1 .. Len(order) /\ k < j
    BY <1>5, <2>1
  <2> QED  BY <1>0, <2>1, <2>2 DEF Pending, NodesIn
<1>10. \A l \in 1 .. k - 1 : states[order[l]] = "finished"
  <2> SUFFICES ASSUME NEW l \in 1 .. k - 1 PROVE states[order[l]] = "finished"
    OBVIOUS
  <2>1. l \in Nat /\ l \in 1 .. j - 1 /\ l \in 1 .. Len(order) /\ ~(k <= l)
    BY <1>5, <1>9
  <2>2. l \notin Late
    BY <1>8, <2>1
  <2>3. states[order[l]] # "pending"
    BY <2>1, <2>2
  <2>4. order[l] \in Node
    BY <1>0, <2>1
  <2> QED  BY <1>4, <2>3, <2>4
<1>11. order[k] \in ready
  <2>1. deps[order[k]] \subseteq Before(order, k)
    BY <1>0, <1>9 DEF Greedy
  <2>2. \A d \in deps[order[k]] : states[d] = "finished" /\ StatusOf(d) \notin OtherStatus
    BY <1>9, <1>10, <2>1 DEF Before, IInv, TypeOK, Graph
  <2> QED  BY <1>1, <1>9, <2>2, UnblockedIsReady
<1>12. deps[next] \subseteq Before(order, k)
  <2> SUFFICES ASSUME NEW d \in deps[next] PROVE d \in Before(order, k)
    OBVIOUS
  <2>1. PICK l \in 1 .. Len(order) : order[l] = d
    BY <1>0, <1>3
  <2>2. StatusOf(d) = "succeeded" /\ results[d].err = None
    BY <1>1, <1>3 DEF BlameIsOwn
  <2>3. states[d] = "finished"
    BY <1>3, <2>2, NoResultFacts DEF IInv, Shape, StatusOf
  <2>4. Dispatched(d)
    BY <2>2, <2>3 DEF Dispatched
  <2>5. ~(k < l)
    BY <1>7, <1>9, <2>1, <2>4 DEF Pending, NodesIn
  <2>6. k # l
    BY <1>9, <2>1, <2>3 DEF Pending, NodesIn
  <2>7. l \in 1 .. k - 1
    BY <1>9, <2>5, <2>6
  <2> QED  BY <2>1, <2>7 DEF Before
<1>13. next \notin Before(order, k)
  <2> SUFFICES ASSUME NEW l \in 1 .. k - 1, order[l] = next PROVE FALSE
    BY DEF Before
  <2>1. l \in 1 .. Len(order) /\ l # j
    BY <1>5, <1>9
  <2> QED  BY <1>0, <1>5, <2>1
<1>14. Rank[order[k]] <= Rank[next]
  BY <1>0, <1>3, <1>9, <1>12, <1>13 DEF Greedy
<1>15. Rank[order[k]] = Rank[next]
  BY <1>2, <1>3, <1>9, <1>11, <1>14, RankAssumption
<1>16. order[k] = next
  BY <1>3, <1>9, <1>15, RankAssumption
<1>17. k = j
  BY <1>0, <1>5, <1>9, <1>16
<1> QED  BY <1>5, <1>9, <1>17

LEMMA StepIsSequential ==
  IInv /\ BlameIsOwn /\ SequentialOrder /\ [Next]_vars => SequentialOrder'
<1> SUFFICES ASSUME IInv, BlameIsOwn, SequentialOrder, [Next]_vars,
                    WorkerCount = 1, pc' # "rejected", Acyclic(deps)',
                    \A n \in Node : results'[n].status \notin OtherStatus,
                    NEW j \in DOMAIN Topological(deps)', Dispatched(Topological(deps)[j])',
                    NEW i \in 1 .. j - 1
             PROVE  states'[Topological(deps)'[i]] # "pending"
  BY DEF SequentialOrder, StatusOf
<1>1. deps' = deps /\ pc # "rejected"
  <2>1. pc = "rejected" => pc' = "rejected"
    BY DEF Next, Run, Validate, Offer, Receive, ObserveCancel, CloseWork, ReturnAggregate, Looping,
      WorkerLoop, StartNode, FinishNode, ExitWorker, CancelContext, Stopped, vars, runLocals
  <2> QED  BY <2>1, GraphStays
<1>0. \A n \in Node : StatusOf(n) \notin OtherStatus
  <2>1. OneWay \/ results' = results
    BY StepIsOneWay DEF vars, runLocals
  <2>2. NoResult.status \notin OtherStatus
    BY NoResultFacts, StatusFacts
  <2> QED  BY <2>1, <2>2 DEF OneWay, StatusOf
<1> DEFINE order == Topological(deps)
<1>2. /\ order \in Seq(Node) /\ Acyclic(deps)
      /\ \A k, l \in 1 .. Len(order) : order[k] = order[l] => k = l
  BY <1>1, TopologicalOrder DEF IInv, TypeOK
<1>3. Topological(deps)' = order
  BY <1>1
<1>4. j \in 1 .. Len(order) /\ i \in 1 .. Len(order) /\ order[i] \in Node /\ order[j] \in Node
  BY <1>2, <1>3
<1>5. Dispatched(order[j]) => states[order[i]] # "pending"
  BY <1>0, <1>1, <1>2, <1>4 DEF SequentialOrder
<1>6. PICK n \in Node : n = order[j]
  BY <1>4
<1>7. Dispatched(n)'
  BY <1>3, <1>6 DEF Dispatched
<1> HIDE DEF order
<1>8. states'[order[i]] = "pending" => states[order[i]] = "pending"
  <2>1. [OneWay]_vars
    BY StepIsOneWay
  <2>2. OneWay \/ states' = states
    BY <2>1 DEF vars, runLocals
  <2>3. states[order[i]] # "pending" => states'[order[i]] # "pending"
    BY <1>4, <2>2 DEF OneWay
  <2> QED  BY <2>3
<1>9. CASE Dispatched(n)
  BY <1>3, <1>5, <1>6, <1>8, <1>9 DEF order
<1>10. CASE ~Dispatched(n)
  <2>1. PICK w \in Worker : Offer(w) /\ n = First(Queue)
    BY <1>7, <1>10, NewlyDispatched
  <2>2. states[order[i]] # "pending"
    BY <1>0, <1>2, <1>4, <1>6, <2>1, OfferIsSequential DEF order
  <2> QED  BY <1>3, <1>8, <2>2 DEF order
<1> QED  BY <1>9, <1>10

(***************************************************************************)
(* With one worker nothing is handed out before everything that comes      *)
(* before it in the order of the aggregate has been handed out or given up *)
(* (as long as every node ends in a declared status).                      *)
(***************************************************************************)
THEOREM SequentialOrderHolds == Spec => []SequentialOrder
<1>1. Init => BlameIsOwn
  BY InitBlame
<1>2. Init => SequentialOrder
  <2> SUFFICES ASSUME Init, Acyclic(deps), NEW j \in DOMAIN Topological(deps)
               PROVE  ~Dispatched(Topological(deps)[j])
    BY DEF SequentialOrder
  <2>1. deps \in Graph
    BY SchedulerAssumption DEF Init
  <2>2. Topological(deps)[j] \in Node
    BY <2>1, TopologicalOrder
  <2> QED  BY <2>2 DEF Init, Dispatched
<1> QED  BY <1>1, <1>2, StepKeepsBlame, StepIsSequential, Invariance, PTL DEF Spec

-----------------------------------------------------------------------------
(***************************************************************************)
(* Refinement: what callers see of Run is a behaviour of DagExecution.     *)
(***************************************************************************)

\* The nodes seen as running or pending are those in Run's maps.
LEMMA OutcomeFacts ==
  ASSUME IInv
  PROVE  /\ \A m \in Node : Outcome[m] = "running" <=> states[m] = "running"
         /\ \A m \in Node : Outcome[m] = "pending" <=> states[m] = "pending"
         /\ \A m \in Node : StatusOf(m) \in Status => Outcome[m] = StatusOf(m)
         /\ \A m \in Node : Outcome[m] \in Status => Outcome[m] = StatusOf(m)
         /\ Dag!With("running") = NodesIn("running")
         /\ Dag!With("pending") = Pending
<1>1. \A m \in Node : /\ states[m] \in {"pending", "running", "finished"}
                      /\ Outcome[m] = IF states[m] = "finished" THEN StatusOf(m) ELSE states[m]
  BY DEF IInv, TypeOK, Outcome
<1>2. \A m \in Node : states[m] = "finished" => StatusOf(m) \in Status
  BY NoResultFacts DEF IInv, Shape, StatusOf
<1>3. \A m \in Node : states[m] # "finished" => StatusOf(m) = "none"
  BY NoResultFacts DEF IInv, Shape, StatusOf
<1> QED  BY <1>1, <1>2, <1>3, StatusFacts DEF Dag!With, Pending, NodesIn

\* No more nodes run than there are busy workers.
LEMMA RunningBound ==
  ASSUME IInv
  PROVE  Cardinality(NodesIn("running")) <= running
<1> DEFINE held == [w \in Busy |-> worker[w].node]
<1>1. held \in Surjection(Busy, NodesIn("running"))
  BY DEF IInv, CountersAgree, Surjection
<1>2. Cardinality(NodesIn("running")) <= Cardinality(Busy)
  BY <1>1, FiniteBusy, FS_Surjection
<1> QED  BY <1>2 DEF IInv, CountersAgree

LEMMA InitRefines == Init => Dag!Init
<1> SUFFICES ASSUME Init PROVE Dag!Init
  OBVIOUS
<1>1. Outcome = [n \in Node |-> "pending"]
  BY DEF Init, Outcome
<1>2. stopping = FALSE /\ deps \in Graphs
  BY DEF Init
<1> QED  BY <1>1, <1>2 DEF Dag!Init

\* Handing a node to a worker starts it.
LEMMA OfferRefines ==
  ASSUME IInv, NEW w \in Worker, Offer(w)
  PROVE  Dag!Next
<1> DEFINE next == First(Queue)
<1>1. /\ next \in Pending /\ \A d \in deps[next] : StatusOf(d) = "succeeded"
  BY OfferFacts
<1>2. /\ states' = [states EXCEPT ![next] = "running"]
      /\ results' = results /\ deps' = deps /\ stopping' = stopping
      /\ ~stopping /\ running < WorkerCount
  BY DEF Offer, Peek, HasRoom
<1> HIDE DEF next
<1> SUFFICES Dag!Start(next)
  BY <1>1 DEF Dag!Next, Pending, NodesIn
<1>3. Outcome[next] = "pending" /\ next \in Node
  BY <1>1, OutcomeFacts DEF Pending, NodesIn
<1>4. \A d \in deps[next] : Outcome[d] = "succeeded"
  BY <1>1, <1>3, OutcomeFacts, StatusFacts DEF IInv, TypeOK, Graph
<1>5. Cardinality(Dag!With("running")) < WorkerCount
  <2>1. Cardinality(NodesIn("running")) <= running
    BY RunningBound
  <2>2. Cardinality(NodesIn("running")) \in Nat /\ WorkerCount \in Int /\ running \in Int
    BY FiniteParts, SchedulerAssumption DEF NodesIn, WorkerCount, NodeCount, IInv, TypeOK
  <2>3. running < WorkerCount
    BY <1>2
  <2> QED  BY <2>1, <2>2, <2>3, OutcomeFacts
<1>6. Outcome' = [Outcome EXCEPT ![next] = "running"]
  BY <1>1, <1>2 DEF Outcome, StatusOf, IInv, TypeOK
<1> QED  BY <1>2, <1>3, <1>4, <1>5, <1>6 DEF Dag!Start, Cardinality, Dag!Cardinality

\* A received event ends its node, and gives up what that blocks or, at a
\* fail-fast stop, everything that waits.
LEMMA ReceiveRefines ==
  ASSUME IInv, IInv', NEW w \in Worker, Receive(w)
  PROVE  Dag!Next
<1>1. PICK n \in Node : n = EventNode(w)
  BY ReceiveFacts
<1>2. PICK e \in Status : e = Event(w).status
  BY ReceiveFacts, NoResultFacts
<1>3. PICK S \in SUBSET Pending : S = GivenUp(w)
  BY ReceiveFacts
<1>4. Outcome[n] = "running"
  BY <1>1, ReceiveFacts, OutcomeFacts
<1>5. S \in SUBSET Dag!With("pending")
  BY OutcomeFacts
<1>6. Outcome' = Dag!GivingUp(n, e, S)
  <2>1. \A m \in Node : states'[m] = IF m \in {n} \cup S THEN "finished" ELSE states[m]
    BY <1>1, <1>3, ReceiveFacts
  <2>2. \A m \in Node : results'[m].status =
          IF m = n THEN e ELSE IF m \in S THEN "skipped" ELSE results[m].status
    BY <1>1, <1>2, <1>3, ReceiveFacts, SkipFacts
  <2> QED  BY <2>1, <2>2 DEF Outcome, StatusOf, Dag!GivingUp
<1>7. deps' = deps /\ stopping' = (stopping \/ (FailFast /\ e = "failed"))
  BY <1>2 DEF Receive, Event
<1>8. CASE FailFast /\ e = "failed"
  <2>1. S = Dag!With("pending")
    BY <1>2, <1>3, <1>8, OutcomeFacts DEF GivenUp, SkippedBy
  <2>2. stopping' = TRUE
    BY <1>7, <1>8
  <2> QED  BY <1>4, <1>6, <1>7, <1>8, <2>1, <2>2 DEF Dag!FinishAndHalt, Dag!Next
<1>9. CASE ~(FailFast /\ e = "failed")
  <2>1. stopping' = stopping
    BY <1>7, <1>9 DEF IInv, TypeOK
  <2>2. ASSUME NEW m \in S PROVE \E d \in deps[m] : Outcome'[d] \in Dag!Lost
    <3>1. e \in {"failed", "skipped"}
      BY <1>2, <1>3, GivenUpFacts
    <3>2. S = DependentsWithin(deps, n, Pending)
      BY <1>1, <1>2, <1>3, <1>9, <3>1, GivenUpFacts
    <3>3. PICK x \in {n} \cup S : m \in Dependents(deps, x)
      BY <3>2, WithinJustified
    <3>4. x \in deps[m] /\ x \in Node
      BY <3>3 DEF Dependents, Pending, NodesIn
    <3>5. Outcome'[x] \in {"failed", "skipped"}
      BY <1>6, <3>1, <3>3, <3>4 DEF Dag!GivingUp
    <3> QED  BY <3>4, <3>5 DEF Dag!Lost
  <2>3. ASSUME NEW m \in Dag!With("pending") \ S, NEW d \in deps[m]
        PROVE  Outcome'[d] \notin Dag!Lost
    <3>1. m \in Pending' /\ d \in Node
      BY <1>3, ReceiveFacts, OutcomeFacts DEF IInv, TypeOK, Graph, Pending, NodesIn
    <3>2. results'[d].status \notin {"failed", "skipped"}
      BY <1>7, <3>1 DEF IInv, NothingBlockedIsPending, StatusOf
    <3>3. Outcome'[d] = IF states'[d] = "finished" THEN results'[d].status ELSE states'[d]
      BY <3>1 DEF Outcome, StatusOf
    <3>4. states'[d] \in {"pending", "running", "finished"}
      BY <3>1 DEF IInv, TypeOK
    <3> QED  BY <3>2, <3>3, <3>4 DEF Dag!Lost
  <2>4. Dag!Blocked(Outcome', S)
    BY <2>2, <2>3 DEF Dag!Blocked
  <2>5. e \in Dag!Ended
    BY StatusFacts DEF Dag!Ended
  <2>6. Dag!Finish(n)
    BY <1>4, <1>5, <1>6, <1>7, <2>1, <2>4, <2>5 DEF Dag!Finish
  <2> QED  BY <2>6 DEF Dag!Next
<1> QED  BY <1>8, <1>9

LEMMA CancelRefines ==
  ASSUME IInv, ObserveCancel
  PROVE  Dag!Next
<1>1. ~stopping /\ stopping' = TRUE /\ deps' = deps
  BY DEF ObserveCancel, NotStarted
<1>2. Outcome' = [m \in Node |-> IF Outcome[m] = "pending" THEN "skipped" ELSE Outcome[m]]
  <2>1. \A m \in Node : Outcome[m] = "pending" <=> m \in Pending
    BY OutcomeFacts DEF Pending, NodesIn
  <2>2. \A m \in Node : states'[m] = IF m \in Pending THEN "finished" ELSE states[m]
    BY DEF ObserveCancel, NotStarted
  <2>3. \A m \in Node : results'[m].status = IF m \in Pending THEN "skipped" ELSE results[m].status
    BY SkipFacts DEF ObserveCancel, NotStarted
  <2> QED  BY <2>1, <2>2, <2>3 DEF Outcome, StatusOf
<1> QED  BY <1>1, <1>2 DEF Dag!Halt, Dag!Next

\* Everything else is invisible to a caller.
LEMMA StepRefines == IInv /\ IInv' /\ [Next]_vars => [Dag!Next]_Dag!dagVars
<1> SUFFICES ASSUME IInv, IInv', [Next]_vars
             PROVE  Dag!Next \/ UNCHANGED Dag!dagVars
  BY DEF Dag!dagVars
<1>1. ASSUME NEW w \in Worker, Offer(w) PROVE Dag!Next
  BY <1>1, OfferRefines
<1>2. ASSUME NEW w \in Worker, Receive(w) PROVE Dag!Next
  BY <1>2, ReceiveRefines
<1>3. CASE ObserveCancel
  BY <1>3, CancelRefines
<1>4. CASE UNCHANGED <<deps, states, results, stopping>>
  BY <1>4 DEF Dag!dagVars, Outcome, StatusOf
<1>5. \/ \E w \in Worker : Offer(w) \/ Receive(w)
      \/ ObserveCancel
      \/ UNCHANGED <<deps, states, results, stopping>>
  BY DEF Next, Run, WorkerLoop, Stopped, CancelContext, Validate, StartNode, FinishNode,
         ExitWorker, CloseWork, ReturnAggregate, vars, runLocals
<1> QED  BY <1>1, <1>2, <1>3, <1>4, <1>5

(***************************************************************************)
(* The scheduler implements its promise (the safety half).                 *)
(***************************************************************************)
THEOREM Implementation == Spec => ImplementsDag
BY Invariance, InitRefines, StepRefines, PTL DEF Spec, ImplementsDag, Dag!Safe
=============================================================================
