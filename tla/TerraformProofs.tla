---------------------------- MODULE TerraformProofs ----------------------------
(***************************************************************************)
(* The order of the stacks survives selection, contraction, the rebuild    *)
(* and the reversal of the graph, for any stacks and any request.          *)
(***************************************************************************)
EXTENDS TerraformRun, TerraformLocks, SchedulerProofs

-----------------------------------------------------------------------------
(***************************************************************************)
(* What Within returns.  It is defined by recursion on the hops.           *)
(***************************************************************************)
Edges == [Component -> SUBSET Component]

Image(edges, X) == UNION {edges[c] : c \in X}
Hop(edges, X) == X \cup Image(edges, X)

LEMMA ImageMembers ==
  ASSUME NEW edges, NEW X, NEW d
  PROVE  d \in Image(edges, X) <=> \E c \in X : d \in edges[c]
BY DEF Image

IsReach(edges, from, f) ==
  f = [k \in Nat |-> IF k = 0 THEN from ELSE Hop(edges, f[k - 1])]

LEMMA HopType ==
  ASSUME NEW edges \in Edges, NEW X \in SUBSET Component
  PROVE  Hop(edges, X) \in SUBSET Component
BY ImageMembers DEF Hop, Edges

LEMMA ReachExists ==
  ASSUME NEW edges \in Edges, NEW from \in SUBSET Component
  PROVE  \E f : IsReach(edges, from, f)
<1> DEFINE next == [X \in SUBSET Component |-> Hop(edges, X)]
<1>1. \A X \in SUBSET Component : next[X] = Hop(edges, X) /\ next[X] \in SUBSET Component
  BY HopType
<1> HIDE DEF next
<1>2. PICK f : Iterates(from, next, f)
  BY IterationExists
<1>3. \A k \in Nat : f[k] \in SUBSET Component
  <2> DEFINE S == SUBSET Component
  <2>1. from \in S /\ \A X \in S : next[X] \in S
    BY <1>1
  <2> HIDE DEF S
  <2>2. \A k \in Nat : f[k] \in S
    BY <1>2, <2>1, IterationStays
  <2> QED  BY <2>2 DEF S
<1>4. ASSUME NEW k \in Nat
      PROVE  f[k] = IF k = 0 THEN from ELSE Hop(edges, f[k - 1])
  <2>1. f[k] = IF k = 0 THEN from ELSE next[f[k - 1]]
    BY <1>2 DEF Iterates
  <2>2. k # 0 => f[k - 1] \in SUBSET Component
    BY <1>3
  <2> QED  BY <1>1, <2>1, <2>2
<1>5. f = [k \in Nat |-> f[k]]
  BY <1>2 DEF Iterates
<1> QED  BY <1>4, <1>5 DEF IsReach

LEMMA WithinIsReach ==
  ASSUME NEW edges \in Edges, NEW from \in SUBSET Component
  PROVE  \E f : IsReach(edges, from, f) /\ \A k \in Nat : Within(edges, from, k) = f[k]
<1> DEFINE R == CHOOSE f : IsReach(edges, from, f)
<1>1. IsReach(edges, from, R)
  BY ReachExists
<1>2. \A k \in Nat : Within(edges, from, k) = R[k]
  BY DEF Within, IsReach, Hop, Image
<1> QED  BY <1>1, <1>2

\* Induction on the hops: what holds at first and is kept by a hop.
LEMMA WithinStays ==
  ASSUME NEW edges \in Edges, NEW from \in SUBSET Component,
         NEW S, from \in S, \A X \in S : Hop(edges, X) \in S, NEW k \in Nat
  PROVE  Within(edges, from, k) \in S
<1>1. PICK f : IsReach(edges, from, f) /\ \A j \in Nat : Within(edges, from, j) = f[j]
  BY WithinIsReach
<1> DEFINE Bad == {j \in Nat : f[j] \notin S}
<1>2. Bad = {}
  <2> SUFFICES ASSUME Bad # {} PROVE FALSE
    OBVIOUS
  <2>1. PICK i \in Bad : \A j \in Bad : i <= j
    <3> HIDE DEF Bad
    <3>1. Bad \subseteq Nat
      BY DEF Bad
    <3> QED  BY <3>1, LeastNatural
  <2>2. f[i] = IF i = 0 THEN from ELSE Hop(edges, f[i - 1])
    BY <1>1 DEF IsReach
  <2>3. i # 0 => f[i - 1] \in S
    BY <2>1
  <2> QED  BY <2>1, <2>2, <2>3
<1> QED  BY <1>1, <1>2

(***************************************************************************)
(* As many hops as there are components reach everything there is to       *)
(* reach: each hop adds something, until one adds nothing.                 *)
(***************************************************************************)
LEMMA WithinCloses ==
  ASSUME NEW edges \in Edges, NEW n \in Component
  PROVE  LET W == Within(edges, {n}, Cardinality(Component))
         IN  n \in W /\ W \subseteq Component /\ Hop(edges, W) = W
<1>1. IsFiniteSet(Component) /\ Cardinality(Component) \in Nat
  BY TerraformRunAssumption, FS_CardinalityType
<1>2. PICK f : IsReach(edges, {n}, f) /\ \A k \in Nat : Within(edges, {n}, k) = f[k]
  BY WithinIsReach
<1>3. \A k \in Nat : f[k] \in SUBSET Component /\ n \in f[k]
  <2> DEFINE S == {X \in SUBSET Component : n \in X}
  <2>1. {n} \in S /\ {n} \in SUBSET Component /\ \A X \in S : Hop(edges, X) \in S
    BY HopType DEF Hop
  <2>2. \A k \in Nat : Within(edges, {n}, k) \in S
    <3> HIDE DEF S
    <3> QED  BY <2>1, WithinStays
  <2> QED  BY <1>2, <2>2
<1>4. \A k \in Nat : IsFiniteSet(f[k]) /\ Cardinality(f[k]) \in Nat
                     /\ Cardinality(f[k]) <= Cardinality(Component)
  BY <1>1, <1>3, FS_Subset, FS_CardinalityType
<1> DEFINE Bad == {k \in Nat : Hop(edges, f[k]) # f[k] /\ Cardinality(f[k]) < k + 1}
<1>5. Bad = {}
  <2> SUFFICES ASSUME Bad # {} PROVE FALSE
    OBVIOUS
  <2>1. PICK k \in Bad : \A j \in Bad : k <= j
    <3> HIDE DEF Bad
    <3>1. Bad \subseteq Nat
      BY DEF Bad
    <3> QED  BY <3>1, LeastNatural
  <2>2. k # 0
    <3>1. f[0] = {n}
      BY <1>2 DEF IsReach
    <3>2. Cardinality(f[0]) = 1
      BY <3>1, FS_Singleton
    <3>3. Cardinality(f[k]) < k + 1
      BY <2>1
    <3> QED  BY <3>2, <3>3
  <2>3. k - 1 \in Nat /\ k - 1 \notin Bad
    BY <2>1, <2>2
  <2>4. f[k] = Hop(edges, f[k - 1])
    BY <1>2, <2>1, <2>2 DEF IsReach
  <2>5. Hop(edges, f[k - 1]) # f[k - 1]
    BY <2>1, <2>4
  <2>6. Cardinality(f[k - 1]) >= k
    BY <1>4, <2>3, <2>5
  <2>7. f[k - 1] \subseteq f[k] /\ f[k - 1] # f[k]
    BY <2>4, <2>5 DEF Hop
  <2>8. Cardinality(f[k - 1]) < Cardinality(f[k])
    <3> DEFINE A == f[k - 1]
               B == f[k]
    <3>1. IsFiniteSet(B) /\ A \in SUBSET B /\ A # B
      BY <1>4, <2>1, <2>7
    <3>2. Cardinality(A) \in Nat /\ Cardinality(B) \in Nat
      BY <1>4, <2>1, <2>3
    <3> HIDE DEF A, B
    <3>3. Cardinality(A) <= Cardinality(B) /\ Cardinality(A) # Cardinality(B)
      BY <3>1, FS_Subset
    <3>4. Cardinality(A) < Cardinality(B)
      BY <3>2, <3>3
    <3> QED  BY <3>4 DEF A, B
  <2>9. Cardinality(f[k]) \in Nat /\ Cardinality(f[k - 1]) \in Nat /\ k \in Nat
    BY <1>4, <2>1, <2>3
  <2> QED  BY <2>1, <2>6, <2>8, <2>9
<1>6. Hop(edges, f[Cardinality(Component)]) = f[Cardinality(Component)]
  <2>1. Cardinality(Component) \notin Bad
    BY <1>5
  <2>2. ~(Cardinality(f[Cardinality(Component)]) < Cardinality(Component) + 1)
        => FALSE
    BY <1>1, <1>4
  <2> QED  BY <1>1, <2>1, <2>2
<1> QED  BY <1>1, <1>2, <1>3, <1>6

-----------------------------------------------------------------------------
(***************************************************************************)
(* The graph that is handed to the scheduler.                              *)
(***************************************************************************)

\* What contractionWalk looks through, and where it gets from n.
Through(r) == [c \in Component |-> r.declares[c] \cap Dropped(r)]
Walked(r, n) == Within(Through(r), {n}, Cardinality(Component))

\* The selected components are the nodes that run.
Selection(r) == r \in Requests /\ Included(r) = Node

LEMMA RequestFacts ==
  ASSUME NEW r, Selection(r)
  PROVE  /\ r.declares \in Edges /\ r.destroy \in BOOLEAN
         /\ Through(r) \in Edges
         /\ Node \subseteq Component /\ IsFiniteSet(Component)
         /\ Node \cap Dropped(r) = {}
<1>1. r \in Request /\ Node \subseteq Component /\ IsFiniteSet(Component)
  BY TerraformRunAssumption DEF Selection
<1>2. r.declares \in Edges /\ r.destroy \in BOOLEAN
  BY <1>1 DEF Request, Edges
<1>3. Through(r) \in Edges
  BY <1>2 DEF Through, Edges
<1>4. Node \cap Dropped(r) = {}
  BY DEF Dropped, Selection
<1> QED  BY <1>1, <1>2, <1>3, <1>4

\* The dependencies of n in the graph before it is turned round.
LEMMA EdgesOfNode ==
  ASSUME NEW r, Selection(r), NEW n \in Node
  PROVE  Both(Direct(r), Contracted(r))[n] =
           (r.declares[n] \cap Node)
             \cup (Image(r.declares, Walked(r, n) \ {n}) \cap (Node \ {n}))
<1>1. n \in Included(r) /\ Included(r) = Node
  BY DEF Selection
<1>2. DOMAIN Direct(r) = Node /\ Direct(r)[n] = r.declares[n] \cap Node
  BY <1>1 DEF Direct
<1>3. Contracted(r)[n] = Image(r.declares, Walked(r, n) \ {n}) \cap (Node \ {n})
  <2>1. Contracted(r) =
          [p \in Included(r) |->
             Image(r.declares, Walked(r, p) \ {p}) \cap (Included(r) \ {p})]
    BY DEF Contracted, Walked, Through, Image
  <2> QED  BY <1>1, <2>1
<1> QED  BY <1>2, <1>3 DEF Both

LEMMA GraphIsTyped ==
  ASSUME NEW r, Selection(r)
  PROVE  /\ Both(Direct(r), Contracted(r)) \in Graph
         /\ Direct(r) \in Graph
         /\ Prepared(r) \in Graph
<1>1. DOMAIN Direct(r) = Node /\ Direct(r) \in Graph
  BY DEF Direct, Selection, Graph
<1>2. /\ Both(Direct(r), Contracted(r)) = [n \in Node |-> Both(Direct(r), Contracted(r))[n]]
      /\ DOMAIN Both(Direct(r), Contracted(r)) = Node
  BY <1>1 DEF Both
<1>3. ASSUME NEW n \in Node
      PROVE  Both(Direct(r), Contracted(r))[n] \in SUBSET Node
  <2>1. Both(Direct(r), Contracted(r))[n] =
           (r.declares[n] \cap Node)
             \cup (Image(r.declares, Walked(r, n) \ {n}) \cap (Node \ {n}))
    BY EdgesOfNode
  <2> QED  BY <2>1
<1>4. Both(Direct(r), Contracted(r)) \in Graph
  BY <1>2, <1>3 DEF Graph
<1>5. Prepared(r) \in Graph
  BY <1>2, <1>4 DEF Prepared, InOrderFor, Mirrored, Graph
<1> QED  BY <1>1, <1>4, <1>5

(***************************************************************************)
(* A component that n leads to by way of dropped ones is a dependency of   *)
(* n in the graph: contractionWalk gets to the last of them.               *)
(***************************************************************************)
LEMMA LeadsToEdge ==
  ASSUME Selection(request), NEW n \in Node, NEW m \in Node, m # n,
         LeadsTo(n, m, Dropped(request))
  PROVE  m \in Both(Direct(request), Contracted(request))[n]
<1> DEFINE D == Dropped(request)
           T == Through(request)
           W == Walked(request, n)
           S == Image(request.declares, W) \cap (D \cup {m})
<1>1. /\ request.declares \in Edges /\ T \in Edges /\ n \in Component /\ m \notin D
      /\ \A c \in Component : T[c] = request.declares[c] \cap D
  BY RequestFacts DEF Through
<1>2. n \in W /\ W \subseteq Component /\ Hop(T, W) = W
  <2> HIDE DEF T
  <2> QED  BY <1>1, WithinCloses DEF Walked, T
<1> HIDE DEF D, T, W
<1>3. \A c \in W : request.declares[c] \cap D \subseteq W
  BY <1>1, <1>2, ImageMembers DEF Hop
<1>4. \A c \in S \ {m} : c \in D /\ \E b \in W : c \in request.declares[b]
  BY ImageMembers
<1>5. \A c \in {n} \cup (S \ {m}) : c \in W
  BY <1>2, <1>3, <1>4
<1>6. S \in SUBSET (D \cup {m})
  OBVIOUS
<1>7. ASSUME NEW c \in {n} \cup (S \ {m})
      PROVE  request.declares[c] \cap (D \cup {m}) \subseteq S
  <2>1. c \in W
    BY <1>5
  <2> QED  BY <2>1, ImageMembers
<1>8. m \in S
  <2> HIDE DEF S
  <2> QED  BY <1>6, <1>7 DEF LeadsTo, D
<1>9. PICK c \in W : m \in request.declares[c]
  BY <1>8, ImageMembers
<1>10. Both(Direct(request), Contracted(request))[n] =
         (request.declares[n] \cap Node)
           \cup (Image(request.declares, W \ {n}) \cap (Node \ {n}))
  BY EdgesOfNode DEF W
<1> HIDE DEF S
<1>11. CASE c = n
  BY <1>9, <1>10, <1>11
<1>12. CASE c # n
  BY <1>9, <1>10, <1>12, ImageMembers
<1> QED  BY <1>11, <1>12

\* Whatever must come before n is a dependency of n in the graph that runs.
LEMMA OrderIsPrepared ==
  ASSUME Selection(request), NEW n \in Node, NEW m \in Node, m # n,
         IF request.destroy THEN LeadsTo(m, n, Dropped(request))
                            ELSE LeadsTo(n, m, Dropped(request))
  PROVE  m \in Prepared(request)[n]
<1> DEFINE B == Both(Direct(request), Contracted(request))
<1>1. B \in Graph
  BY GraphIsTyped
<1>2. CASE request.destroy
  <2>1. n \in B[m]
    BY <1>2, LeadsToEdge
  <2> HIDE DEF B
  <2> QED  BY <1>1, <1>2, <2>1 DEF Prepared, InOrderFor, Mirrored, Graph, B
<1>3. CASE ~request.destroy
  BY <1>3, LeadsToEdge DEF Prepared, InOrderFor
<1> QED  BY <1>2, <1>3

-----------------------------------------------------------------------------
(***************************************************************************)
(* Cycles in the graph come from cycles in the stacks.                     *)
(***************************************************************************)

\* A cycle, as Acyclic sees it: each member has an edge to a member.
Cyclic(edges, S) == S # {} /\ \A c \in S : edges[c] \cap S # {}

LEMMA CyclicExists ==
  ASSUME NEW g, ~Acyclic(g)
  PROVE  \E S \in SUBSET Node : Cyclic(g, S)
BY DEF Acyclic, Cyclic

(***************************************************************************)
(* A graph turned round has cycles only where the graph has: of the sets   *)
(* in which each member has an edge from a member, a least one is a cycle. *)
(***************************************************************************)
LEMMA MirroredCycle ==
  ASSUME NEW g \in Graph, NEW S \in SUBSET Node, Cyclic(Mirrored(g), S)
  PROVE  \E C \in SUBSET Node : Cyclic(g, C)
<1> DEFINE Led(C) == C # {} /\ \A n \in C : \E m \in C : n \in g[m]
           Sizes == {k \in Nat : \E C \in SUBSET Node : Led(C) /\ Cardinality(C) = k}
<1>1. \A C \in SUBSET Node : IsFiniteSet(C) /\ Cardinality(C) \in Nat
  BY NodeAssumption, FS_Subset, FS_CardinalityType
<1>2. Led(S)
  BY DEF Cyclic, Mirrored, Graph
<1>3. PICK k \in Sizes : \A j \in Sizes : k <= j
  <2>1. Sizes \subseteq Nat /\ Sizes # {}
    BY <1>1, <1>2
  <2> HIDE DEF Sizes
  <2> QED  BY <2>1, LeastNatural
<1>4. PICK C \in SUBSET Node : Led(C) /\ Cardinality(C) = k
  BY <1>3
<1>5. ASSUME NEW n \in C, g[n] \cap C = {}
      PROVE  FALSE
  <2>1. Led(C \ {n})
    BY <1>4, <1>5
  <2>2. C \ {n} \in SUBSET Node /\ Cardinality(C \ {n}) \in Sizes
    BY <1>1, <2>1
  <2>3. Cardinality(C \ {n}) = Cardinality(C) - 1
    BY <1>1, <1>5, FS_RemoveElement
  <2>4. Cardinality(C \ {n}) \in Nat /\ Cardinality(C) \in Nat
    BY <1>1, <2>2
  <2> HIDE DEF Sizes
  <2> QED  BY <1>3, <1>4, <2>2, <2>3, <2>4
<1> QED  BY <1>4, <1>5 DEF Cyclic

(***************************************************************************)
(* A cycle over contracted edges is one in the stacks: those dropped from  *)
(* which it can be reached close it.                                       *)
(***************************************************************************)
LEMMA ContractedCycle ==
  ASSUME NEW r, Selection(r), NEW S \in SUBSET Node,
         Cyclic(Both(Direct(r), Contracted(r)), S)
  PROVE  \E C \in SUBSET Component : Cyclic(r.declares, C)
<1> DEFINE D == Dropped(r)
           T == Through(r)
           Closed(X) == /\ S \subseteq X
                        /\ \A c \in Component \cap D : r.declares[c] \cap X # {} => c \in X
           C == {c \in Component : \A X \in SUBSET Component : Closed(X) => c \in X}
<1>1. /\ r.declares \in Edges /\ T \in Edges /\ S \subseteq Component
      /\ \A c \in Component : T[c] = r.declares[c] \cap D
  BY RequestFacts DEF Through
<1>2. S \subseteq C /\ C \in SUBSET Component
  BY <1>1
<1>3. ASSUME NEW c \in Component \cap D, r.declares[c] \cap C # {}
      PROVE  c \in C
  <2> SUFFICES ASSUME NEW X \in SUBSET Component, Closed(X) PROVE c \in X
    OBVIOUS
  <2>1. r.declares[c] \cap X # {}
    BY <1>3
  <2> QED  BY <2>1
<1>4. ASSUME NEW c \in C \ S, r.declares[c] \cap C = {}
      PROVE  FALSE
  <2>1. S \subseteq C \ {c} /\ C \ {c} \in SUBSET Component
    BY <1>2, <1>4
  <2>2. ASSUME NEW d \in Component \cap D, r.declares[d] \cap (C \ {c}) # {}
        PROVE  d \in C \ {c}
    <3>1. d \in C
      BY <1>3, <2>2
    <3> QED  BY <1>4, <2>2, <3>1
  <2>3. Closed(C \ {c})
    BY <2>1, <2>2
  <2> QED  BY <1>4, <2>1, <2>3
<1> HIDE DEF C
<1>5. ASSUME NEW n \in S
      PROVE  r.declares[n] \cap C # {}
  <2> DEFINE Q == {X \in SUBSET Component :
                     \A c \in X : r.declares[c] \cap C # {} => r.declares[n] \cap C # {}}
  <2>1. n \in Component /\ n \in Node
    BY <1>1
  <2>2. {n} \in Q /\ {n} \in SUBSET Component
    BY <2>1
  <2>3. ASSUME NEW X \in Q PROVE Hop(T, X) \in Q
    <3>1. X \in SUBSET Component /\ Hop(T, X) \in SUBSET Component
      BY <1>1, HopType
    <3>2. ASSUME NEW c \in Hop(T, X), r.declares[c] \cap C # {}
          PROVE  r.declares[n] \cap C # {}
      <4>1. CASE c \in X
        BY <3>2, <4>1
      <4>2. CASE c \notin X
        <5>1. PICK d \in X : c \in T[d]
          BY <3>2, <4>2, ImageMembers DEF Hop
        <5>2. c \in Component \cap D /\ c \in r.declares[d]
          BY <1>1, <3>1, <5>1 DEF Edges
        <5>3. c \in C
          BY <1>3, <3>2, <5>2
        <5> QED  BY <5>1, <5>2, <5>3
      <4> QED  BY <4>1, <4>2
    <3> QED  BY <3>1, <3>2
  <2>4. Walked(r, n) \in Q
    <3>1. Cardinality(Component) \in Nat
      BY TerraformRunAssumption, FS_CardinalityType
    <3> HIDE DEF Q, T
    <3> QED  BY <1>1, <2>2, <2>3, <3>1, WithinStays DEF Walked, T
  <2>5. PICK m \in S : m \in Both(Direct(r), Contracted(r))[n]
    BY DEF Cyclic
  <2>6. CASE m \in r.declares[n]
    BY <1>2, <2>6
  <2>7. CASE m \notin r.declares[n]
    <3>1. PICK c \in Walked(r, n) : m \in r.declares[c]
      <4>1. m \in Image(r.declares, Walked(r, n) \ {n})
        BY <2>1, <2>5, <2>7, EdgesOfNode
      <4> QED  BY <4>1, ImageMembers
    <3>2. r.declares[c] \cap C # {}
      BY <1>2, <3>1
    <3> QED  BY <2>4, <3>1, <3>2
  <2> QED  BY <2>6, <2>7
<1>6. \A c \in C : r.declares[c] \cap C # {}
  BY <1>4, <1>5
<1>7. C # {}
  BY <1>2 DEF Cyclic
<1> QED  BY <1>2, <1>6, <1>7 DEF Cyclic

-----------------------------------------------------------------------------
(***************************************************************************)
(* A Terraform run is a run of the scheduler, which is why what is proved  *)
(* of the scheduler holds of it.                                           *)
(***************************************************************************)
THEOREM TerraformRunsScheduler == TerraformSpec => Spec
<1>1. TerraformInit => Init
  BY DEF TerraformInit
<1>2. [TerraformNext]_<<request, plan, vars>> => [Next]_vars
  BY DEF TerraformNext, Plan, Execute, Refused
<1> QED  BY <1>1, <1>2, PTL DEF TerraformSpec, Spec

(***************************************************************************)
(* The graph that runs is the one planned; nothing is handed out before    *)
(* the plan and the scheduler accept it, and neither refuses without a     *)
(* cycle in one of the graphs.                                             *)
(***************************************************************************)
PlanIsKept ==
  /\ Selection(request)
  /\ deps = Prepared(request)
  /\ plan \in {"open", "runs", "refused"}
  /\ plan # "runs" => pc = "validate"
  /\ plan = "refused" => ~Built(request)
  /\ pc \in {"validate", "rejected"} => \A n \in Node : states[n] = "pending"
  /\ pc = "rejected" => ~Acyclic(Prepared(request))

LEMMA InitKeepsPlan == TerraformInit => PlanIsKept
BY DEF TerraformInit, Init, PlanIsKept, Selection

LEMMA StepKeepsPlan ==
  PlanIsKept /\ [TerraformNext]_<<request, plan, vars>> => PlanIsKept'
<1> SUFFICES ASSUME PlanIsKept, [TerraformNext]_<<request, plan, vars>>
             PROVE  PlanIsKept'
  OBVIOUS
<1> USE DEF PlanIsKept
<1>1. CASE Plan
  <2>1. request' = request /\ pc' = pc /\ deps' = deps /\ states' = states
    BY <1>1 DEF Plan, vars, runLocals
  <2>2. plan' \in {"runs", "refused"} /\ (plan' = "refused" => ~Built(request)) /\ pc = "validate"
    BY <1>1 DEF Plan
  <2> QED  BY <2>1, <2>2
<1>2. CASE Execute
  <2>1. /\ plan = "runs" /\ plan' = plan /\ request' = request
        /\ Next
    BY <1>2 DEF Execute
  <2>2. deps' = deps
    BY <2>1, GraphStays
  <2>3. CASE Validate
    <3>1. /\ states' = states /\ pc = "validate" /\ pc' \in {"loop", "rejected"}
          /\ pc' = "rejected" => ~Valid
      BY <2>3 DEF Validate, runLocals
    <3>2. pc' = "rejected" => ~Acyclic(deps)
      BY <3>1, TerraformRunAssumption DEF Valid
    <3> QED  BY <2>1, <2>2, <3>1, <3>2
  <2>4. CASE ~Validate
    <3>1. /\ pc' \in {"validate", "rejected"} => pc' = pc /\ states' = states
      BY <2>1, <2>4 DEF Next, Run, Offer, Receive, ObserveCancel, CloseWork, ReturnAggregate,
        Looping, WorkerLoop, StartNode, FinishNode, ExitWorker, CancelContext,
        Stopped, vars, runLocals
    <3> QED  BY <2>1, <2>2, <3>1
  <2> QED  BY <2>3, <2>4
<1>3. CASE UNCHANGED <<request, plan, vars>>
  BY <1>3 DEF vars, runLocals
<1> QED  BY <1>1, <1>2, <1>3 DEF TerraformNext, Refused

\* The graph that runs is the one prepared for the request, unless that was refused.
THEOREM PlanIsAlwaysKept == TerraformSpec => []PlanIsKept
BY InitKeepsPlan, StepKeepsPlan, PTL DEF TerraformSpec

(***************************************************************************)
(* What is selected runs after everything selected that it depends on,     *)
(* directly or by way of any number of dropped components, and before it   *)
(* to destroy.                                                             *)
(***************************************************************************)
THEOREM OrderSurvivesSelectionHolds == TerraformSpec => []OrderSurvivesSelection
<1>1. PlanIsKept /\ DispatchedInOrder => OrderSurvivesSelection
  <2> SUFFICES ASSUME PlanIsKept, DispatchedInOrder, NEW n \in Node, Dispatched(n),
                      NEW m \in Node, m # n,
                      IF request.destroy THEN LeadsTo(m, n, Dropped(request))
                                         ELSE LeadsTo(n, m, Dropped(request))
               PROVE  StatusOf(m) = "succeeded"
    BY DEF OrderSurvivesSelection
  <2>1. m \in deps[n]
    BY OrderIsPrepared DEF PlanIsKept
  <2> QED  BY <2>1 DEF DispatchedInOrder
<1> QED  BY <1>1, TerraformRunsScheduler, DispatchedInOrderHolds, PlanIsAlwaysKept, PTL

\* What a builder refuses has a cycle in the stacks.
LEMMA RefusedHasCycle ==
  ASSUME NEW r, Selection(r), ~Built(r) \/ ~Acyclic(Prepared(r))
  PROVE  \E C \in SUBSET Component : Cyclic(r.declares, C)
<1>1. r.declares \in Edges /\ Node \subseteq Component
  BY RequestFacts
<1>2. CASE ~Acyclic(Direct(r))
  <2>1. PICK S \in SUBSET Node : Cyclic(Direct(r), S)
    BY <1>2, CyclicExists
  <2>2. Cyclic(r.declares, S)
    BY <2>1 DEF Cyclic, Direct, Selection
  <2> QED  BY <1>1, <2>2
<1>3. CASE ~Acyclic(Prepared(r))
  <2>1. PICK S \in SUBSET Node : Cyclic(Prepared(r), S)
    BY <1>3, CyclicExists
  <2>2. \E C \in SUBSET Node : Cyclic(Both(Direct(r), Contracted(r)), C)
    <3> DEFINE B == Both(Direct(r), Contracted(r))
    <3>1. CASE r.destroy
      <4>1. Cyclic(Mirrored(B), S)
        BY <2>1, <3>1 DEF Prepared, InOrderFor
      <4>2. B \in Graph
        BY GraphIsTyped
      <4> HIDE DEF B
      <4>3. \E C \in SUBSET Node : Cyclic(B, C)
        BY <4>1, <4>2, MirroredCycle
      <4> QED  BY <4>3 DEF B
    <3>2. CASE ~r.destroy
      BY <2>1, <3>2 DEF Prepared, InOrderFor
    <3> QED  BY <3>1, <3>2
  <2> QED  BY <2>2, ContractedCycle
<1> QED  BY <1>2, <1>3 DEF Built

(***************************************************************************)
(* Stacks without a cycle can be run and destroyed, whatever part of them  *)
(* is selected.                                                            *)
(***************************************************************************)
THEOREM OnlyCyclesAreRefusedHolds == TerraformSpec => []OnlyCyclesAreRefused
<1>1. PlanIsKept => OnlyCyclesAreRefused
  <2> SUFFICES ASSUME PlanIsKept, plan = "refused" \/ pc = "rejected"
               PROVE  /\ \A n \in Node : ~Dispatched(n)
                      /\ \E S \in SUBSET Component :
                           S # {} /\ \A c \in S : request.declares[c] \cap S # {}
    BY DEF OnlyCyclesAreRefused
  <2>1. \A n \in Node : states[n] = "pending"
    BY DEF PlanIsKept
  <2>2. \E C \in SUBSET Component : Cyclic(request.declares, C)
    BY RefusedHasCycle DEF PlanIsKept
  <2> QED  BY <2>1, <2>2 DEF Dispatched, Cyclic
<1> QED  BY <1>1, PlanIsAlwaysKept, PTL

-----------------------------------------------------------------------------
(***************************************************************************)
(* The mutexes of TerraformDispatcher keep nodes out of each other's       *)
(* directories, for any nodes and any directories.                         *)
(***************************************************************************)

\* The keys that a node has locked.
Has(n) ==
  IF phase[n] = "work" THEN {NextKey(n, left) : left \in 1 .. Rounds(n)}
  ELSE IF phase[n] \in {"look", "wait"} /\ Rounds(n) = 2 /\ todo[n] = 1 THEN {SourceKey(n)}
  ELSE {}

\* A node that locks has some of its keys left.
TodoIsRight ==
  \A n \in Node : phase[n] \in {"look", "wait"} => todo[n] \in 1 .. Rounds(n)

\* Everybody who waits has found the mutex of the registry.
FoundIsRegistered ==
  \A n \in Node : phase[n] = "wait" =>
    /\ found[n] \in Node
    /\ found[n] = registry[NextKey(n, todo[n])]

\* Who holds a mutex has locked its key, and it is the mutex of the registry.
HeldIsLocked ==
  \A k \in Key, m, h \in Node : holder[k][m] = h => m = registry[k] /\ k \in Has(h)

\* Who has locked a key holds its mutex.
LockedIsHeld ==
  \A n \in Node : \A k \in Has(n) :
    registry[k] \in Node /\ holder[k][registry[k]] = n

LocksInv ==
  /\ LocksTypeOK
  /\ TodoIsRight
  /\ FoundIsRegistered
  /\ HeldIsLocked
  /\ LockedIsHeld

-----------------------------------------------------------------------------
\* The keys of nodes are keys, those of workdirs are the node's own.
LEMMA KeyFacts ==
  /\ \A n \in Node : SourceKey(n) \in Key /\ WorkdirKey(n) \in Key /\ ResourceKey(n) \in Key
  /\ \A m, n \in Node : SourceKey(m) # WorkdirKey(n)
  /\ \A m, n \in Node : WorkdirKey(m) = WorkdirKey(n) => m = n
BY DEF Key, SourceKey, WorkdirKey, ResourceKey

\* A node locks one key or two, and each is a key of it.
LEMMA RoundFacts ==
  ASSUME NEW n \in Node
  PROVE  /\ Rounds(n) \in {1, 2}
         /\ Rounds(n) = 2 => n \in InWorkdir
         /\ \A left : NextKey(n, left) \in {SourceKey(n), ResourceKey(n)}
         /\ \A left : NextKey(n, left) \in Key
BY KeyFacts DEF Rounds, LocksSourceFirst, NextKey

\* What a node has locked are keys of it.
LEMMA HasFacts ==
  ASSUME NEW n \in Node
  PROVE  Has(n) \subseteq {SourceKey(n), ResourceKey(n)} /\ Has(n) \subseteq Key
BY KeyFacts, RoundFacts DEF Has

LEMMA LocksInitInv == LocksInit => LocksInv
<1> SUFFICES ASSUME LocksInit PROVE LocksInv
  OBVIOUS
<1>1. LocksTypeOK
  BY DEF LocksInit, LocksTypeOK
<1>2. \A n \in Node : Has(n) = {}
  BY DEF LocksInit, Has
<1>3. TodoIsRight /\ FoundIsRegistered /\ LockedIsHeld
  BY <1>2 DEF LocksInit, TodoIsRight, FoundIsRegistered, LockedIsHeld
<1>4. HeldIsLocked
  <2>1. \A k \in Key, m \in Node : holder[k][m] = NoNode
    BY DEF LocksInit
  <2> QED
    BY <2>1, TerraformLocksAssumption DEF HeldIsLocked
<1> QED
  BY <1>1, <1>3, <1>4 DEF LocksInv

\* What a node has locked depends on nothing but its own phase and todo.
LEMMA HasUnchanged ==
  ASSUME NEW n \in Node,
         phase'[n] = phase[n], todo'[n] = todo[n], UNCHANGED <<deploys, verifies>>
  PROVE  Has(n)' = Has(n)
BY DEF Has, Rounds, LocksSourceFirst, NextKey, SourceKey, ResourceKey, WorkdirKey

\* Neither do the rounds of a node ever change.
LEMMA RoundsUnchanged ==
  ASSUME NEW n \in Node, UNCHANGED <<deploys, verifies>>
  PROVE  Rounds(n)' = Rounds(n)
BY DEF Rounds, LocksSourceFirst

\* An action of one node that leaves the mutexes alone and does not change what
\* the node has locked keeps the facts about holders.
LEMMA HoldersUnchanged ==
  ASSUME LocksTypeOK, HeldIsLocked, LockedIsHeld,
         UNCHANGED <<registry, holder>>,
         \A m \in Node : Has(m)' = Has(m)
  PROVE  HeldIsLocked' /\ LockedIsHeld'
<1>1. HeldIsLocked'
  BY DEF HeldIsLocked
<1>2. LockedIsHeld'
  BY DEF LockedIsHeld
<1> QED
  BY <1>1, <1>2

LEMMA LocksStepInv == LocksInv /\ [LocksNext]_lockVars => LocksInv'
<1> SUFFICES ASSUME LocksInv, [LocksNext]_lockVars PROVE LocksInv'
  OBVIOUS
<1> USE DEF LocksInv
<1>0. NoNode \notin Node
  BY TerraformLocksAssumption
<1>1. CASE UNCHANGED lockVars
  <2>1. \A m \in Node : Has(m)' = Has(m) /\ Rounds(m)' = Rounds(m)
    BY <1>1, HasUnchanged, RoundsUnchanged DEF lockVars
  <2>2. HeldIsLocked' /\ LockedIsHeld'
    BY <1>1, <2>1, HoldersUnchanged DEF lockVars
  <2>3. LocksTypeOK'
    BY <1>1 DEF lockVars, LocksTypeOK
  <2> QED
    BY <1>1, <2>1, <2>2, <2>3 DEF lockVars, TodoIsRight, FoundIsRegistered
<1>2. ASSUME NEW n \in Node, PassOver(n) PROVE LocksInv'
  <2>1. LocksTypeOK'
    BY <1>2 DEF PassOver, Goto, LocksTypeOK
  <2>2. \A m \in Node : Has(m)' = Has(m) /\ Rounds(m)' = Rounds(m)
    <3> TAKE m \in Node
    <3>1. Rounds(m)' = Rounds(m)
      BY <1>2, RoundsUnchanged DEF PassOver
    <3>2. CASE m = n
      BY <1>2, <3>1, <3>2 DEF PassOver, Goto, LocksTypeOK, Has
    <3>3. CASE m # n
      BY <1>2, <3>1, <3>3, HasUnchanged DEF PassOver, Goto, LocksTypeOK
    <3> QED
      BY <3>1, <3>2, <3>3
  <2>3. HeldIsLocked' /\ LockedIsHeld'
    BY <1>2, <2>2, HoldersUnchanged DEF PassOver
  <2> QED
    BY <1>2, <2>1, <2>2, <2>3 DEF PassOver, Goto, LocksTypeOK, TodoIsRight, FoundIsRegistered
<1>3. ASSUME NEW n \in Node, Dispatch(n) PROVE LocksInv'
  <2>1. LocksTypeOK'
    BY <1>3, RoundFacts DEF Dispatch, Goto, LocksTypeOK
  <2>2. \A m \in Node : Has(m)' = Has(m) /\ Rounds(m)' = Rounds(m)
    <3> TAKE m \in Node
    <3>1. Rounds(m)' = Rounds(m)
      BY <1>3, RoundsUnchanged DEF Dispatch
    <3>2. CASE m = n
      <4>1. Has(m) = {}
        BY <1>3, <3>2 DEF Dispatch, Has
      <4>2. phase'[m] = "look" /\ todo'[m] = Rounds(m)
        BY <1>3, <3>2 DEF Dispatch, Goto, LocksTypeOK
      <4>3. Has(m)' = {}
        BY <3>1, <4>2 DEF Has
      <4> QED
        BY <3>1, <4>1, <4>3
    <3>3. CASE m # n
      BY <1>3, <3>1, <3>3, HasUnchanged DEF Dispatch, Goto, LocksTypeOK
    <3> QED
      BY <3>2, <3>3
  <2>3. HeldIsLocked' /\ LockedIsHeld'
    BY <1>3, <2>2, HoldersUnchanged DEF Dispatch
  <2>4. TodoIsRight'
    BY <1>3, <2>2, RoundFacts DEF Dispatch, Goto, LocksTypeOK, TodoIsRight
  <2>5. FoundIsRegistered'
    BY <1>3 DEF Dispatch, Goto, LocksTypeOK, FoundIsRegistered
  <2> QED
    BY <2>1, <2>3, <2>4, <2>5
<1>4. ASSUME NEW n \in Node, LookUp(n) PROVE LocksInv'
  <2> DEFINE k == NextKey(n, todo[n])
  <2>1. k \in Key /\ Made(n, k) \in Node
    BY <1>0, RoundFacts DEF Made, LocksTypeOK
  <2>2. registry'[k] = Made(n, k) /\ \A j \in Key \ {k} : registry'[j] = registry[j]
    BY <1>4, <2>1 DEF LookUp, LocksTypeOK
  <2>3. \A j \in Key : registry[j] # NoNode => registry'[j] = registry[j]
    BY <2>2 DEF Made
  <2> HIDE DEF k
  <2>4. LocksTypeOK'
    BY <1>4, <2>1 DEF LookUp, Goto, LocksTypeOK, k
  <2>5. \A m \in Node : Has(m)' = Has(m) /\ Rounds(m)' = Rounds(m)
    <3> TAKE m \in Node
    <3>1. Rounds(m)' = Rounds(m)
      BY <1>4, RoundsUnchanged DEF LookUp
    <3>2. CASE m = n
      BY <1>4, <3>1, <3>2 DEF LookUp, Goto, LocksTypeOK, Has
    <3>3. CASE m # n
      BY <1>4, <3>1, <3>3, HasUnchanged DEF LookUp, Goto, LocksTypeOK
    <3> QED
      BY <3>2, <3>3
  <2>6. TodoIsRight'
    BY <1>4, <2>5 DEF LookUp, Goto, LocksTypeOK, TodoIsRight
  <2>7. FoundIsRegistered'
    <3> SUFFICES ASSUME NEW m \in Node, phase'[m] = "wait"
                 PROVE  found'[m] \in Node /\ found'[m] = registry'[NextKey(m, todo'[m])]
      BY DEF FoundIsRegistered
    <3>1. todo'[m] = todo[m]
      BY <1>4 DEF LookUp
    <3>2. CASE m = n
      BY <1>4, <2>1, <2>2, <3>1, <3>2 DEF LookUp, LocksTypeOK, k
    <3>3. CASE m # n
      <4>1. phase[m] = "wait" /\ found'[m] = found[m]
        BY <1>4, <3>3 DEF LookUp, Goto, LocksTypeOK
      <4>2. found[m] \in Node /\ found[m] = registry[NextKey(m, todo[m])]
        BY <4>1 DEF FoundIsRegistered
      <4>3. NextKey(m, todo[m]) \in Key
        BY RoundFacts
      <4> QED
        BY <1>0, <2>3, <3>1, <4>1, <4>2, <4>3
    <3> QED
      BY <3>2, <3>3
  <2>8. HeldIsLocked'
    <3> SUFFICES ASSUME NEW j \in Key, NEW m \in Node, NEW h \in Node, holder'[j][m] = h
                 PROVE  m = registry'[j] /\ j \in Has(h)'
      BY DEF HeldIsLocked
    <3>1. m = registry[j] /\ j \in Has(h)
      BY <1>4 DEF LookUp, HeldIsLocked
    <3> QED
      BY <1>0, <2>3, <2>5, <3>1
  <2>9. LockedIsHeld'
    <3> SUFFICES ASSUME NEW m \in Node, NEW j \in Has(m)'
                 PROVE  registry'[j] \in Node /\ holder'[j][registry'[j]] = m
      BY DEF LockedIsHeld
    <3>1. j \in Has(m) /\ j \in Key
      BY <2>5, HasFacts
    <3>2. registry[j] \in Node /\ holder[j][registry[j]] = m
      BY <3>1 DEF LockedIsHeld
    <3> QED
      BY <1>0, <1>4, <2>3, <3>1, <3>2 DEF LookUp
  <2> QED
    BY <2>4, <2>6, <2>7, <2>8, <2>9
<1>5. ASSUME NEW n \in Node, Acquire(n) PROVE LocksInv'
  <2> DEFINE k == NextKey(n, todo[n])
  <2>1. /\ k \in Key
        /\ found[n] \in Node /\ found[n] = registry[k]
        /\ holder[k][registry[k]] = NoNode
        /\ todo[n] \in 1 .. Rounds(n)
    BY <1>5, RoundFacts DEF Acquire, FoundIsRegistered, TodoIsRight
  <2>2. /\ holder'[k][registry[k]] = n
        /\ \A j \in Key, m \in Node :
             j # k \/ m # registry[k] => holder'[j][m] = holder[j][m]
    BY <1>5, <2>1 DEF Acquire, LocksTypeOK
  <2>3. registry' = registry
    BY <1>5 DEF Acquire
  <2>4. /\ todo[n] = 2 => phase'[n] = "look" /\ todo'[n] = 1
        /\ todo[n] = 1 => phase'[n] = "work" /\ todo'[n] = 0
        /\ \A m \in Node \ {n} :
             phase'[m] = phase[m] /\ todo'[m] = todo[m] /\ found'[m] = found[m]
    BY <1>5 DEF Acquire, Goto, LocksTypeOK
  <2>5. LocksTypeOK'
    BY <1>5, <2>1 DEF Acquire, Goto, LocksTypeOK
  <2>6. \A m \in Node : Rounds(m)' = Rounds(m)
    BY <1>5, RoundsUnchanged DEF Acquire
  <2>7. Has(n)' = Has(n) \cup {k}
    <3>1. phase[n] = "wait" /\ Rounds(n) \in {1, 2}
      BY <1>5, RoundFacts DEF Acquire
    <3>2. CASE todo[n] = 2
      <4>1. Rounds(n) = 2
        BY <2>1, <3>1, <3>2
      <4>2. Has(n) = {} /\ Has(n)' = {SourceKey(n)}
        BY <2>4, <2>6, <3>1, <3>2, <4>1 DEF Has
      <4> QED
        BY <3>2, <4>2 DEF NextKey
    <3>3. CASE todo[n] = 1
      <4>1. Has(n)' = {NextKey(n, left) : left \in 1 .. Rounds(n)}
        BY <2>4, <2>6, <3>3 DEF Has
      <4>2. CASE Rounds(n) = 1
        BY <3>1, <3>3, <4>1, <4>2 DEF Has
      <4>3. CASE Rounds(n) = 2
        <5>1. Has(n) = {NextKey(n, 2)}
          BY <3>1, <3>3, <4>3 DEF Has, NextKey
        <5> QED
          BY <3>3, <4>1, <4>3, <5>1
      <4> QED
        BY <3>1, <4>2, <4>3
    <3> QED
      BY <2>1, <3>1, <3>2, <3>3
  <2>8. \A m \in Node \ {n} : Has(m)' = Has(m)
    BY <1>5, <2>4, HasUnchanged DEF Acquire
  <2> HIDE DEF k
  <2>9. TodoIsRight'
    BY <2>1, <2>4, <2>6, RoundFacts DEF TodoIsRight
  <2>10. FoundIsRegistered'
    BY <2>1, <2>3, <2>4, RoundFacts DEF FoundIsRegistered
  <2>11. HeldIsLocked'
    <3> SUFFICES ASSUME NEW j \in Key, NEW m \in Node, NEW h \in Node, holder'[j][m] = h
                 PROVE  m = registry'[j] /\ j \in Has(h)'
      BY DEF HeldIsLocked
    <3>1. CASE j = k /\ m = registry[k]
      BY <2>2, <2>3, <2>7, <3>1
    <3>2. CASE j # k \/ m # registry[k]
      <4>1. m = registry[j] /\ j \in Has(h)
        BY <2>2, <3>2 DEF HeldIsLocked
      <4> QED
        BY <2>3, <2>7, <2>8, <4>1
    <3> QED
      BY <3>1, <3>2
  <2>12. LockedIsHeld'
    <3> SUFFICES ASSUME NEW m \in Node, NEW j \in Has(m)'
                 PROVE  registry'[j] \in Node /\ holder'[j][registry'[j]] = m
      BY DEF LockedIsHeld
    <3>1. CASE j \in Has(m)
      <4>1. j \in Key
        BY <3>1, HasFacts
      <4>2. registry[j] \in Node /\ holder[j][registry[j]] = m
        BY <3>1 DEF LockedIsHeld
      <4>3. j # k
        BY <1>0, <2>1, <4>2
      <4> QED
        BY <2>2, <2>3, <4>1, <4>2, <4>3
    <3>2. CASE j \notin Has(m)
      <4>1. m = n /\ j = k
        BY <2>7, <2>8, <3>2
      <4> QED
        BY <2>1, <2>2, <2>3, <4>1
    <3> QED
      BY <3>1, <3>2
  <2> QED
    BY <2>5, <2>9, <2>10, <2>11, <2>12
<1>6. ASSUME NEW n \in Node, Finish(n) PROVE LocksInv'
  <2>1. LocksTypeOK'
    BY <1>6, <1>0 DEF Finish, Goto, LocksTypeOK
  <2>2. /\ registry' = registry
        /\ \A j \in Key, m \in Node : holder'[j][m] =
             IF holder[j][m] = n THEN NoNode ELSE holder[j][m]
    BY <1>6 DEF Finish
  <2>3. Has(n)' = {}
    BY <1>6 DEF Finish, Goto, LocksTypeOK, Has
  <2>4. \A m \in Node \ {n} : Has(m)' = Has(m)
    BY <1>6, HasUnchanged DEF Finish, Goto, LocksTypeOK
  <2>5. TodoIsRight'
    BY <1>6, RoundsUnchanged DEF Finish, Goto, LocksTypeOK, TodoIsRight
  <2>6. FoundIsRegistered'
    BY <1>6 DEF Finish, Goto, LocksTypeOK, FoundIsRegistered
  <2>7. HeldIsLocked'
    <3> SUFFICES ASSUME NEW j \in Key, NEW m \in Node, NEW h \in Node, holder'[j][m] = h
                 PROVE  m = registry'[j] /\ j \in Has(h)'
      BY DEF HeldIsLocked
    <3>1. h # n /\ holder[j][m] = h
      BY <1>0, <2>2
    <3>2. m = registry[j] /\ j \in Has(h)
      BY <3>1 DEF HeldIsLocked
    <3> QED
      BY <2>2, <2>4, <3>1, <3>2
  <2>8. LockedIsHeld'
    <3> SUFFICES ASSUME NEW m \in Node, NEW j \in Has(m)'
                 PROVE  registry'[j] \in Node /\ holder'[j][registry'[j]] = m
      BY DEF LockedIsHeld
    <3>1. m # n /\ j \in Has(m)
      BY <2>3, <2>4
    <3>2. j \in Key /\ registry[j] \in Node /\ holder[j][registry[j]] = m
      BY <3>1, HasFacts DEF LockedIsHeld
    <3> QED
      BY <2>2, <3>1, <3>2
  <2> QED
    BY <2>1, <2>5, <2>6, <2>7, <2>8
<1> QED
  BY <1>1, <1>2, <1>3, <1>4, <1>5, <1>6 DEF LocksNext

-----------------------------------------------------------------------------
\* The inductive invariant holds in every state.
THEOREM LocksInvariance == LocksSpec => []LocksInv
<1>1. LocksInit => LocksInv
  BY LocksInitInv
<1>2. LocksInv /\ [LocksNext]_lockVars => LocksInv'
  BY LocksStepInv
<1> QED
  BY <1>1, <1>2, PTL DEF LocksSpec

\* Two nodes that work have locked the directories that they work in, and a
\* mutex has one holder.
LEMMA InvExclusion == LocksInv => DirectoriesAreExclusive
<1> SUFFICES ASSUME LocksInv,
                    NEW m \in Node, NEW n \in Node, m # n,
                    phase[m] = "work", phase[n] = "work",
                    NEW k \in Directories(m) \cap Directories(n)
             PROVE  FALSE
  BY DEF DirectoriesAreExclusive
<1>1. ASSUME NEW x \in Node, phase[x] = "work" PROVE Directories(x) \subseteq Has(x)
  <2>1. Rounds(x) \in {1, 2}
    BY RoundFacts
  <2>2. Has(x) = {NextKey(x, left) : left \in 1 .. Rounds(x)}
    BY <1>1 DEF Has
  <2>3. ResourceKey(x) = NextKey(x, 1)
    BY DEF NextKey
  <2>4. CASE deploys /\ verifies /\ x \in InWorkdir
    <3>1. Rounds(x) = 2 /\ SourceKey(x) = NextKey(x, 2)
      BY <2>4 DEF Rounds, LocksSourceFirst, NextKey
    <3> QED
      BY <2>2, <2>3, <3>1 DEF Directories
  <2>5. CASE x \notin InWorkdir
    <3>1. SourceKey(x) = ResourceKey(x)
      BY <2>5 DEF ResourceKey
    <3> QED
      BY <2>1, <2>2, <2>3, <3>1 DEF Directories
  <2>6. CASE ~(deploys /\ verifies)
    BY <2>1, <2>2, <2>3, <2>6 DEF Directories
  <2> QED
    BY <2>4, <2>5, <2>6
<1>2. k \in Has(m) /\ k \in Has(n)
  BY <1>1
<1>3. holder[k][registry[k]] = m /\ holder[k][registry[k]] = n
  BY <1>2 DEF LocksInv, LockedIsHeld
<1> QED
  BY <1>3

\* Two nodes never work in the same directory at the same time.
THEOREM ExclusionHolds == LocksSpec => []DirectoriesAreExclusive
BY LocksInvariance, InvExclusion, PTL

\* The holder of a mutex that somebody waits for works, or has locked its
\* source directory and is about to lock the workdir that only it locks.
LEMMA InvProceed == LocksInv => HoldersProceed
<1> SUFFICES ASSUME LocksInv, NEW n \in Node, Blocked(n)
             PROVE  LET m == holder[NextKey(n, todo[n])][found[n]]
                    IN  phase[m] \in {"look", "wait", "work"} /\ ~Blocked(m)
  BY DEF HoldersProceed
<1> DEFINE k == NextKey(n, todo[n])
<1> DEFINE m == holder[k][found[n]]
<1>1. k \in Key /\ found[n] \in Node
  BY RoundFacts DEF LocksInv, FoundIsRegistered, Blocked
<1>2. m \in Node /\ m # NoNode
  BY <1>1 DEF LocksInv, LocksTypeOK, Blocked
<1>3. k \in Has(m)
  BY <1>1, <1>2 DEF LocksInv, HeldIsLocked
<1> HIDE DEF k, m
<1>4. phase[m] \in {"look", "wait", "work"}
  BY <1>3 DEF Has
<1>5. ASSUME Blocked(m) PROVE FALSE
  <2>1. phase[m] = "wait" /\ Rounds(m) = 2 /\ todo[m] = 1 /\ Has(m) = {SourceKey(m)}
    BY <1>3, <1>5 DEF Blocked, Has
  <2>2. m \in InWorkdir /\ NextKey(m, todo[m]) = WorkdirKey(m)
    BY <1>2, <2>1, RoundFacts DEF NextKey, ResourceKey
  <2> DEFINE x == holder[WorkdirKey(m)][found[m]]
  <2>3. found[m] \in Node /\ WorkdirKey(m) \in Key
    BY <1>2, <2>1, KeyFacts DEF LocksInv, FoundIsRegistered
  <2>4. x \in Node /\ x # NoNode
    BY <1>5, <2>2, <2>3 DEF LocksInv, LocksTypeOK, Blocked
  <2>5. WorkdirKey(m) \in Has(x)
    BY <2>3, <2>4 DEF LocksInv, HeldIsLocked
  <2> HIDE DEF x
  <2>6. WorkdirKey(m) \in {SourceKey(x), ResourceKey(x)}
    BY <2>4, <2>5, HasFacts
  <2>7. WorkdirKey(m) = WorkdirKey(x)
    BY <1>2, <2>4, <2>6, KeyFacts DEF ResourceKey
  <2>8. x = m
    BY <1>2, <2>4, <2>7, KeyFacts
  <2> QED
    BY <1>2, <2>1, <2>5, <2>8, KeyFacts
<1> QED
  BY <1>4, <1>5 DEF k, m

\* Nobody waits for a node that waits itself.
THEOREM HoldersProceedHolds == LocksSpec => []HoldersProceed
BY LocksInvariance, InvProceed, PTL

\* Type correctness.
THEOREM LocksTyping == LocksSpec => []LocksTypeOK
<1>1. LocksInv => LocksTypeOK
  BY DEF LocksInv
<1> QED
  BY <1>1, LocksInvariance, PTL
=============================================================================
