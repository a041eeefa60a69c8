--------------------------- MODULE TerraformLocks ---------------------------
(***************************************************************************)
(* pkg/scheduler/adapters: TerraformDispatcher.Dispatch is called by the   *)
(* workers of the scheduler for different nodes at the same time, and      *)
(* keeps nodes that work in the same directory apart by mutexes.           *)
(*                                                                         *)
(* The mutexes are made on demand, and found in a registry by a key.  A    *)
(* node locks the directory that it works in; one that deploys from a      *)
(* workdir may before that have to lock its source directory too, where    *)
(* the verification of its planfile works.                                 *)
(*                                                                         *)
(* A mutex is identified by its key and the node on whose behalf it was    *)
(* made.                                                                   *)
(***************************************************************************)

EXTENDS DependencyGraph

CONSTANTS
  Source,    \* Source[n] : the source directory of node n
  InWorkdir, \* the nodes for which provWorkdir.IsWorkdirEnabled holds
  NoNode     \* stands for none of them

ASSUME TerraformLocksAssumption ==
  /\ InWorkdir \subseteq Node
  /\ NoNode \notin Node

VARIABLES
  deploys,   \* SubCommand is deploy
  verifies,  \* lockDeploySourceDir
  registry,  \* for which node the mutex of each key was made
  holder,    \* who holds each mutex
  phase,     \* where the Dispatch of each node is
  todo,      \* how many of its keys each node has yet to lock
  found      \* the node whose mutex it has found for the next of them

lockVars == <<deploys, verifies, registry, holder, phase, todo, found>>

-----------------------------------------------------------------------------
SourceKey(n) == [kind |-> "source", of |-> Source[n]]
WorkdirKey(n) == [kind |-> "workdir", of |-> n]
Key == {SourceKey(n) : n \in Node} \cup {WorkdirKey(n) : n \in Node}

ResourceKey(n) == IF n \in InWorkdir THEN WorkdirKey(n) ELSE SourceKey(n)

\* Variant with a bug: nodes that have no workdir lock their source twice.
LocksAnySource(n) == deploys /\ verifies

LocksSourceFirst(n) == deploys /\ verifies /\ n \in InWorkdir

Rounds(n) == IF LocksSourceFirst(n) THEN 2 ELSE 1

\* The key to lock when so many are left.
NextKey(n, left) == IF left = 2 THEN SourceKey(n) ELSE ResourceKey(n)

LocksInit ==
  /\ deploys \in BOOLEAN
  /\ verifies \in BOOLEAN
  /\ registry = [k \in Key |-> NoNode]
  /\ holder = [k \in Key |-> [m \in Node |-> NoNode]]
  /\ phase = [n \in Node |-> "new"]
  /\ todo = [n \in Node |-> 0]
  /\ found = [n \in Node |-> NoNode]

Goto(n, to) == phase' = [phase EXCEPT ![n] = to]

\* The context is done, the query does not select the node, or it is a dry run.
PassOver(n) ==
  /\ phase[n] = "new"
  /\ Goto(n, "done")
  /\ UNCHANGED <<deploys, verifies, registry, holder, todo, found>>

\* lockTerraformResource
Dispatch(n) ==
  /\ phase[n] = "new"
  /\ Goto(n, "look")
  /\ todo' = [todo EXCEPT ![n] = Rounds(n)]
  /\ UNCHANGED <<deploys, verifies, registry, holder, found>>

\* Variant with a bug: a mutex is made for every node.
MadeAnew(n, k) == n

Made(n, k) == IF registry[k] = NoNode THEN n ELSE registry[k]

\* terraformResourceLocks.Lock, while it holds the mutex of the registry.
LookUp(n) ==
  LET k == NextKey(n, todo[n])
  IN  /\ phase[n] = "look"
      /\ registry' = [registry EXCEPT ![k] = Made(n, k)]
      /\ found' = [found EXCEPT ![n] = Made(n, k)]
      /\ Goto(n, "wait")
      /\ UNCHANGED <<deploys, verifies, holder, todo>>

\* Its wait for the mutex, which no context ends.
Acquire(n) ==
  LET k == NextKey(n, todo[n])
  IN  /\ phase[n] = "wait"
      /\ holder[k][found[n]] = NoNode
      /\ holder' = [holder EXCEPT ![k][found[n]] = n]
      /\ IF todo[n] = 2
         THEN Goto(n, "look") /\ todo' = [todo EXCEPT ![n] = 1]
         ELSE Goto(n, "work") /\ todo' = [todo EXCEPT ![n] = 0]
      /\ found' = [found EXCEPT ![n] = NoNode]
      /\ UNCHANGED <<deploys, verifies, registry>>

\* Hooks and the executor return, in whatever way, and all is unlocked.
Finish(n) ==
  /\ phase[n] = "work"
  /\ holder' = [k \in Key |-> [m \in Node |->
       IF holder[k][m] = n THEN NoNode ELSE holder[k][m]]]
  /\ Goto(n, "done")
  /\ UNCHANGED <<deploys, verifies, registry, todo, found>>

LocksNext == \E n \in Node :
  PassOver(n) \/ Dispatch(n) \/ LookUp(n) \/ Acquire(n) \/ Finish(n)

LocksSpec == LocksInit /\ [][LocksNext]_lockVars

-----------------------------------------------------------------------------
LocksTypeOK ==
  /\ deploys \in BOOLEAN
  /\ verifies \in BOOLEAN
  /\ registry \in [Key -> Node \cup {NoNode}]
  /\ holder \in [Key -> [Node -> Node \cup {NoNode}]]
  /\ phase \in [Node -> {"new", "look", "wait", "work", "done"}]
  /\ todo \in [Node -> 0 .. 2]
  /\ found \in [Node -> Node \cup {NoNode}]

\* The directories that a node works in.
Directories(n) ==
  {ResourceKey(n)} \cup (IF deploys /\ verifies THEN {SourceKey(n)} ELSE {})

\* Two nodes never work in the same directory at the same time, whichever of
\* their keys they share and in whatever order the mutexes were made.
DirectoriesAreExclusive ==
  \A m, n \in Node :
    m # n /\ phase[m] = "work" /\ phase[n] = "work" =>
      Directories(m) \cap Directories(n) = {}

Blocked(n) == phase[n] = "wait" /\ holder[NextKey(n, todo[n])][found[n]] # NoNode

\* A node that waits for a mutex waits for one that does not wait itself: the
\* fixed order of the two keys of a node, and a workdir that is its own, rule out
\* a deadlock.
HoldersProceed ==
  \A n \in Node :
    Blocked(n) =>
      LET m == holder[NextKey(n, todo[n])][found[n]]
      IN  phase[m] \in {"look", "wait", "work"} /\ ~Blocked(m)
=============================================================================
