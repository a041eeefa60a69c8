# A TLA+ model of the concurrent core of Atmos

Atmos orchestrates Terraform, Helmfile, Packer and workflows. Most of its source
merges configuration and talks to other programs. This directory models the part
whose correctness depends on interleavings, cancellation and partial failure:
the scheduler of dependency graphs, the code that feeds it (task graphs, parallel and
matrix steps, Terraform runs), the file lock and the ordered batch, and what is built on
those: vendoring transactions and the HTTP cache proxy.

Files: one module per component, an `MC*` module and `.cfg` files that
instantiate it for TLC, a `*Proofs` module with its theorems where it has some, and `PROJECT.json`
with the index (components, runs, mutants, the source lines of every definition,
hazards and theorems). `*.cfg` files name their bounds.

    tlc -workers 2 -config SchedulerKeepGoing.cfg MCScheduler
    tlapm SchedulerProofs.tla

## 1. Inventory

### Modelled

**DAG scheduler** (`src/pkg/scheduler/scheduler.go`).
*State*: locals of `Run` (`states`, `results`, `inDegree`, `ready`, `running`,
`finished`, `stopping`), which only its goroutine touches, and the position of each
worker. *Operations*: `Run` validates, offers ready nodes, receives events, sees the
cancellation, closes `workCh`, waits and aggregates; a worker receives, dispatches and
reports. *Interaction*: two unbuffered channels and the caller's context; the
dispatcher is a callback. *Hard*: a select of three ready cases, results that arrive
after a stop, skips that travel along several paths, statuses that the package does not
declare. *Correct if*: dependency order, exact release, each node counted once, justified
skips, a complete aggregate, and no hang for want of bookkeeping.

**Dependency graph** (`src/pkg/dependency/{graph,builder,types}.go`).
*State*: nodes with mirrored `Dependencies` and `Dependents`. A plain value; modelled
by what its operations return.

**Task graph** (`src/pkg/taskgraph/taskgraph.go`).
*State*: the visited set, the graph under construction. *Operations*: `Run` resolves the
closure of the direct references, builds a graph, picks one fail mode and runs the
scheduler. *Hard*: one scheduler policy derived from many per-reference wishes, recursion
that a cycle ends silently, a default that meets another component's default.
*Correct if*: nothing runs unless all resolves, and the mode decides who runs and what
is returned.

**File lock** (`src/pkg/filelock/filelock.go`).
*State*: per process and path, a reader count, a writer flag and a queue of waiters under
one mutex; the operating system's advisory lock. *Operations*: `WithShared`,
`WithExclusive`. *Interaction*: the vendoring transactions, the HTTP cache proxy and the
cache locks call it. *Hard*: a grant that races the cancellation of its waiter, a waiter
whose departure must wake others, two locks of which neither suffices. *Correct if*:
exclusion across goroutines and processes, nothing leaked, no lost wake-up, first come
first served within a process, and no caller stuck once its context is done.

**Ordered batch** (`src/pkg/vendoring/ordered/ordered.go`).
*State*: the commit and scheduling positions, a buffered jobs channel, one result channel
per job, the workers. *Operations*: schedule ahead, commit in order, dispose, close.
*Interaction*: `install.InstallBatch` supplies Prepare, Commit, Dispose and the barriers.
*Hard*: window against channel capacity, barriers, a result that arrives as the context
ends, workers that outlive the decision to stop. *Correct if*: ordered commits, barriers
that see their predecessors' writes, bounded retention, every prepared value disposed of
exactly once, and a return without leftovers.

**Parallel and matrix steps** (`src/pkg/workflow/control.go`).
*State*: what became of each child, an atomic count of failures, a cancellable context, and
the scheduler's. *Operations*: `ExecuteControlStep` validates needs, builds a graph, runs it
with a dispatcher that resolves and executes a child and may cancel the others. *Hard*:
children that end together; validation that sees other edges than the scheduler does, and
accepts matrices whose graph cannot be built.
*Correct if*: the group is cancelled at the threshold and not before, rows of a matrix do
not affect each other, and the result tells what happened.

**Terraform runs** (`src/pkg/scheduler/adapters/terraform.go`, `src/pkg/dependency/filter.go`).
*State*: the stacks' dependencies, the selection, the graph, a registry of mutexes by
directory. *Operations*: select components and closures of them, contract what is dropped
between them, rebuild and perhaps reverse the graph, run it; lock the directories of a node.
*Hard*: order between components whose connection is not run; two mutexes per deploying
node, taken by several workers. *Correct if*: the order of the stacks survives selection,
only cycles are refused, nodes in one directory exclude each other, and nobody deadlocks.

**HTTP cache proxy** (`src/pkg/http/proxy/{server,flow,store}.go`). *State*: an object file and
a sidecar file per key, a lock file (none on Windows), and per process the fill in flight,
handlers, callers and the progress of `Shutdown`. *Operations*: hit, miss, fill, commit,
shutdown. *Interaction*: processes share the directory through the lock file. *Hard*: hits take
no lock and the two files are replaced one after the other; a fill outlives the request that
started it; looking at a file, opening it and locking may fail. *Correct if*: `Shutdown` leaves
nothing behind and every request is answered; and, where there are lock files, a hit is no
older than it was judged to be and artifacts are fetched once.

**Vendoring transactions** (`src/pkg/vendoring/lockfile/{transaction,rollback,lockfile}.go`,
`src/pkg/vendoring/install/{batch,install}.go`).
*State*: the files of projects, the receipts of lockfiles, two lock files, the pull's list of
what is needed. *Operations*: preflight, recheck, materialize (lock twice, snapshot, copy,
prune, save, or restore), clean. *Interaction*: `InstallBatch` runs on the ordered batch.
*Hard*: failures in every step of a transaction and in its undoing, crashes, decisions made
before the lock is held, lockfiles shared by projects. *Correct if*: a transaction is all or
nothing, no receipt is lost, the last declaration of a file wins, everyone comes to an end.

### Not modelled

| Component | Why |
| --- | --- |
| Levels, paths, connected components, `Filter` (`src/pkg/dependency/{sort,filter}.go`) | sequential algorithms on a value, without a caller in the modelled parts; `Filter` is `FilterSelection` without dropped nodes |
| Task graph adapters, `src/pkg/taskgraph/adapters/cobra_command.go` | one mutex per command, never nested; what must be put back is data of the Cobra library |
| The rest of the cache locks, `src/pkg/cache/filelock_{unix,windows}.go` | `WithLockContext` is in `CacheProxy`; `WithLock` is a bounded wait around the file lock, and the reader that goes on without it reads a file that is replaced by a rename |
| Provider prefetching, `src/pkg/terraform/registry/mirror.go` | `DownloadInto` takes the lock of a key and looks again before it fetches, as a fill of `CacheProxy` does, with nobody to answer |
| Background steps, `src/pkg/background/registry.go` | a map and a list under one mutex |
| Download watchdog, `src/pkg/toolchain/artifact_download_watchdog.go` | one timer and one timestamp under a mutex |
| Retry, `src/pkg/retry/retry.go` | a sequential loop whose risk is floating-point arithmetic, which TLC does not have |
| Execution records, workflow interpreter, Starlark scripts, credential broker, authentication, stack processing, commands, configuration and output | sequential code around the parts above, data transformation or I/O against external services; `PROJECT.json` gives the reason for each |

These stay outside because a model would restate them: they have one actor, or one mutex,
or their difficulty is in the data.

## 2. Modules

    DependencyGraph            graphs as values; the order of node IDs
      |-- Scheduler            Run and its workers   --implements-->  DagExecution
      |     |-- MCScheduler, SchedulerProofs
      |     |-- TaskGraph      two INSTANCEs of Scheduler, one per fail mode;  MCTaskGraph, TaskGraphProofs
      |     |-- ControlStep    likewise, with its own dispatcher;  MCControlStep, ControlStepProofs
      |     '-- TerraformRun   EXTENDS Scheduler;  MCTerraformRun, TerraformProofs
      '-- TerraformLocks       the nodes of a graph;  MCTerraformLocks, TerraformProofs
    FileLock                   --implements-->  ReadWriteLock;  MCFileLock, FileLockProofs
    OrderedBatch               --implements-->  OrderedCommit;  MCOrderedBatch, OrderedBatchProofs
    CacheProxy                 MCCacheProxy, CacheProxyProofs
    VendorInstall              MCVendorInstall, VendorInstallProofs

### DependencyGraph and Scheduler

A graph is a function from a node to the set it depends on; `Rank` is the order
`sort.Strings` gives the IDs. `Acyclic`, `DependentsWithin` (what `skipBlocked` reaches)
and `Topological` (Kahn's algorithm with a sorted queue, as a recursive function) say what
the Go functions return.

A send on an unbuffered channel and its receive happen together, so a rendezvous is one
action:

| Action | Code |
| --- | --- |
| `Validate` | `validate`, before anything else |
| `Offer(w)` | `case out <- nextID`, with the filtering of stale queue heads before it |
| `Receive(w)` | `case event := <-eventCh`: `recordEvent`, then `skipBlocked` or, with fail-fast, `skipPending` |
| `ObserveCancel` | `case <-done`, which also sets `done = nil` |
| `StartNode(w)`, `FinishNode(w)` | the dispatch and its return, with `normalizeResult` |
| `CloseWork`, `ExitWorker(w)`, `ReturnAggregate` | `close(workCh)`, the end of the worker's range loop, `workers.Wait` and the aggregate |
| `CancelContext` | the caller's context ends, at any time |

`Status` is an open string type. A dispatch returns any of the three statuses that the package
declares, none, or one of its own (`OtherStatus`), with or without an error. `normalizeResult`
keeps one of its own if no error came with it: the node counts as failed in the aggregate, but what
depends on it is neither released nor skipped. It is `Stranded`, and `Run` waits for ever unless
it is cancelled or fails fast elsewhere. No dispatcher in the repository does this;
`NeverStuck`, `SequentialOrder` and `Terminates` name it as the exception it is. Hooks
are left out: they change no state of the scheduler. `DagExecution` is the promise without
queues, counters or workers: a node starts only after what it depends on succeeded, at
most `Limit` run at once, a node is given up exactly if something it depends on was lost or
the run halts; a node that ends in a stray status does neither to those behind it. The
refinement mapping shows of a node its state or final status.

### TaskGraph

The variables of the scheduler plus the request (`direct` references, what is `declared`,
what can be `found`), the phase and the result. `BuildGraph` is the visitor and the builder:
it fails on a reference that is unknown or has no lookup or runner (one condition,
`found`), on a self-reference and on a cycle. `Schedule` is a step of the Scheduler module
with the fail mode and the concurrency that `Run` passes on; `Return` applies
`best_effort`. The dispatcher of the code returns an empty status and an error; the model
keeps the Scheduler's more liberal one.

### FileLock

Every critical section of the process lock's mutex is one action. A waiter sleeps in a
select on its grant and on its context (`TakeGrant`, `SeeCancel`), and a waiter that saw its
context end can still be granted the lock before it gets the mutex back (`Withdraw`). Then it
polls the operating system's lock (`GetOSLock`, `AbandonOSLock`, `FailOSLock`), runs its
callback, unlocks and releases. `Grants(k, ...)` characterises how many waiters
`grantWaiters` serves. The operating system's lock is external: it separates processes and
is assumed not to separate the goroutines of one, which is why the code has the process lock.
A release is assumed to give up the caller's own hold only.

`ReadWriteLock` is the promise: a callback runs alone or with other shared ones, and a call
may return without having run it.

### OrderedBatch

`Begin`, `Loop`, `Schedule`, `SeeCancel`/`ReceiveResult`, `CommitReturns`, `Unwind`, `Drain`
are the places of `Run`; `TakeJob`, `StartPrepare`, `FinishPrepare`, `ExitWorker` those of a
worker. Jobs are sent in order through one channel, so it is represented by two indices.
`concurrency` is what the caller asks for, zero included. `prepared` and `committed` record
history for the properties. `OrderedCommit` is the promise: preparation within the window,
barriers after their predecessors, commits in input order, none after a failure, the rest
discarded.

### ControlStep

The nodes of the Scheduler are pairs of a row and a step; a parallel group is taken as a
matrix whose rows are alike. `Validate` is `validateNeedsGraph`. `Build` is
`buildControlGraph`, which fails if an axis of a matrix repeats a value: the rows are then alike, and
`AddNode` takes no second node of a name. The step returns that error before its mode is
looked at, so a `best_effort` step fails too. Otherwise `ControlGraph` is the graph, with the
implied edges of a matrix, and `Schedule` a step of the Scheduler that is
not part of a dispatch. A dispatch is several steps: `Resolve` (templates), `Succeed` or
`Fail` (the executor returns and the count is taken, atomically), `CancelGroup` (the cancel
function, after the count), `DispatchReturns`. So children that fail together interleave
between counting and cancelling. `CancelParent` is the caller's context, `Return` the result.
Output, summaries and the order in which completions are printed are left out.

### TerraformRun and TerraformLocks

`TerraformRun` follows `ExecuteTerraform`. A request has what the stacks declare, the
candidates, those whose tags and labels match, and the depths that the flags and a
precomputed selection ask for. `Included` and `Dropped` are `collectSelection`, `Contracted`
is `contractDroppedEdges`, `Prepared` the graph after the rebuild and, to destroy, the
reversal; `Plan` is refused where a builder finds a cycle. What remains runs on the
Scheduler. The nodes of the Scheduler are the components selected, so initial states are the
requests that select those. All targets exist and are enabled, and that a dependency is
optional is left out: it does not change the order.

What is *not* kept in order, because the code does not: two selected components whose only
connection is a candidate with other tags, when no closure over dependents is asked for.
`types.go:84` says of dependent seeds that are no seeds that "ordering is contracted around
them", without that condition. `OrderSurvivesSelection` is stated for what the code counts as dropped.

`TerraformLocks` is the locking of one `Dispatch` per node: look a mutex up under the
registry's own mutex (`LookUp`), then wait for it (`Acquire`), once or twice, work, release
all (`Finish`). A mutex is identified by its key and the node for which it was made, so
that a second mutex for one key would be seen. Any nodes may be dispatched together, which
is more than the scheduler does.

### CacheProxy

One key; an object is represented by the number of the fetch that returned it. A handler
stats the object and reads the sidecar (`Arrive`, `ReadSidecar`, where a sidecar that cannot be
read leaves the object's own time, and a stat that fails is a miss), opens the object
(`ServeStored`), or registers a caller with the fill group (`StartFill`); the caller joins the
singleflight call of its process or begins one (`Join`). The call takes the lock file,
looks again, fetches, renames the object, renames the sidecar or fails to, and hands its
result to the callers it has: that the object is stored, or something "other", an error or a
response to be replayed. A file that cannot be opened makes a miss of a hit; after a fill
the answer is an error. `Recheck` may fail to see what is there, and the fill is then `blind`: it
fetches all the same. A request is "over" when it is answered or nobody waits for an answer.
`Close`, `CancelBase`, `Drain` and `WaitForFills` are the
steps of `Shutdown`, of which the latter two may expire. `Exit` is the end of a process at
any point. Requests that are passed through keep no state.

`platform` is the build of `pkg/cache`. On unix the lock file is a mutual exclusion that the end of a
process releases (what `FileLock` promises); waiting for it ends with baseCtx, and taking it
may fail for another reason (`LockFails`). On Windows `WithLockContext` runs the fill without
any lock, even if the context is done: "Cache writes are intentionally best-effort on Windows".
Fills of two processes then overlap, and neither `HitsAreFresh` nor `ArtifactFetchedOnce` holds: both
are stated for unix. `ShutdownWaits` and `EveryRequestEnds` are about one process at a time and
hold of both.

### VendorInstall

A process pulls or cleans. `Preflight` decides which packages are needed under both locks, but
releases them before anything is prepared, so that its answer may be old by then;
`Recheck` repeats that for packages that looked up to date, when the barriers of the ordered
batch let it; commits happen in declaration order, each a transaction with one action per
step of `Materialize` and one more for its failure: `Lock`, `Snapshot`, `Copy`, `Prune`,
`Save`, `Restore`, `LeaveTorn`. The order of preparation and commits is that of
`OrderedCommit`; preparation itself reads nothing that changes. `Clean` is the other writer.
Files hold the package and the version they come from, an edit or nothing. Local packages,
which are barriers as well, are not told apart.

## 3. What is checked

Each property of each run also has a mutant in `PROJECT.json`: a variant of a modelled
definition (kept next to it under "Variant with a bug") that breaks the property.

| Run | Instance | Shows |
| --- | --- | --- |
| `sched_keep_going` | all graphs on 3 nodes, cyclic ones too; 2 workers; failures skip only what they block; a fourth status | `DependencyOrder`, `NothingBlockedIsPending`, `ReadyIsExact`, `SkipsAreJustified`, `ReturnIsComplete`, `ImplementsDag`; with fairness `Terminates` and `FulfilsDag` |
| `sched_sequential` | 4 Terraform components run of 6, one worker, fail-fast: all 4-node shapes with edges along, and against, the name order, and selections with 1 or 2 components between them; apply and destroy | `SequentialOrder`, `StopIsFinal`, `OrderSurvivesSelection`, `OnlyCyclesAreRefused` |
| `tf_locks` | 4 nodes, 2 source directories, 3 workdirs | `DirectoriesAreExclusive`, `HoldersProceed` |
| `tasks` | 3 references, any declarations of two of them, every set of unknown ones, every mix of fail modes, 2 workers | `ResolvedBeforeRun`, `SiblingsComplete`, `FailFastStops` |
| `tasks_default` | 2 references, no `WithMaxConcurrency` | a counterexample to `ConcurrentByDefault`, see below |
| `control` | 2 rows of 2 steps, 2 workers, every mode, thresholds 0 to 2, axes that repeat a value or not | `CancelledAtThreshold`, `RowsAreIndependent`, `ReturnTellsFailure` |
| `control_needs` | 1 row of 2 steps | a counterexample to `ValidNeedsAreExecuted`, see below |
| `lock_safety` | 3 goroutines of one process, 1 of another | `HoldersAreCounted`, `NobodyServable`, `NoOvertaking`, `ImplementsReadWriteLock` |
| `lock_live` | 2 goroutines of one process, 1 of another | `EveryCallReturns`, `ContextBoundsTheWait` |
| `batch` | 7 jobs, barriers 6 and 7, concurrency 0 to 3 | `SendNeverBlocks`, `SerialReadsItsWrites`, `DisposedExactlyOnce`, `ReturnIsComplete`, `ImplementsOrderedCommit`, `Terminates` |
| `cache` | 2 processes, one of which may be shut down or killed; 3 requests; a clock that outruns the window; artifacts and metadata with lock files, artifacts without | `HitsAreFresh`, `ShutdownWaits`, `ArtifactFetchedOnce`, `EveryRequestEnds` |
| `vendor` | 2 processes, 2 packages that overlap in 2 files, 3 layouts of projects and lockfiles | `LastDeclarationWins`, `AllOrNothing`, `ReceiptsAreKept`, `EveryProcessEnds` |

**Why the bounds suffice.** Scheduler: three nodes have the chain, the fork, the join and
every cycle; two workers and a third node make an event, an idle worker and a cancellation
ready at once; four nodes with one worker add the diamond. Safety is proved for every graph
anyway. Lock: overtaking and a lost wake-up need a holder and two waiters of one process,
exclusion across processes needs one caller of another; each caller calls again for ever.
Two callers per queue are enough for `lock_live`, since `NobodyServable` and `NoOvertaking`
cover what three can do to each other. Batch: five jobs before the first barrier exceed a
window of four, so that scheduling stops for the window, for a barrier, and for the end; the
two barriers are adjacent and one is the last job. Task graph: three references have a
reference that is declared twice, one nobody else needs, and a pair that run side by side.
Terraform: components dropped one behind the other need two of them, a closure that ends on
the way needs depths 1 and 2, and a contracted edge beside a declared one needs three that
run. Control: two rows can fail together, and a threshold of 2 needs both. Cache: two
requests of one process share a call while a third comes from a process with a lock of its
own; one tick of the clock separates fresh from stale. Vendoring: two files and two packages
have a file that changes hands, one that is pruned and one that stays; a third process adds
nothing to two locks that are always taken in one order. Locks of Terraform: three nodes share
a source, so that one waits while another is between its two mutexes; any number is proved.

Where there are no lock files no property depends on the age of a key, so artifacts, for which
the clock stands still, are enough there (`Cases`). The clock of `CacheProxy` is bounded by
`MaxTime` in the guard of `Tick`; requests there and packages in `VendorInstall` happen once
each. All other state spaces are finite as they are. Deadlock is checked except in `tf_locks`,
`cache` and `vendor`, where the system stops once every node, request or process is done; the
others that end have an explicit step for it.

**Fairness.** Weak fairness of a goroutine's next step: the Go runtime runs what can run,
callbacks (a dispatch, Prepare, Commit, a locked callback) end, and a poll comes round
every 10ms. Nobody is ever obliged to cancel, to call or to fail. The operating system's
lock gets weak fairness only, for it is polled: a caller that finds it taken at each poll
waits on. So `EveryCallReturns` supposes that the other processes leave the lock alone from
some time on. Without that a writer can be starved by the readers of another process until
its context ends, which is what the code does, and `ContextBoundsTheWait` is the bound it has.
In `CacheProxy` some goroutine goes on as long as one can (which suffices, as none runs for
ever), upstream answers or the fetch is cancelled, and nobody is obliged to shut down, to exit
or to stay, nor a lock to fail. `Terminates` of the scheduler is an "until": Run returns, or
a node is stranded behind a status of the dispatcher's own. In `VendorInstall` a process that has
begun goes on, and only steps that go right, or undo what went wrong, are fair: `CopyFails`,
`Crash` and the like may never happen. Its locks are polled; weak fairness suffices because
every process takes them a bounded number of times.

**Findings.** `WithMaxConcurrency` documents that unset "means unbounded -- concurrent by
default" (`src/pkg/taskgraph/taskgraph.go:34`). `Run` then passes nothing on, and
`scheduler.New` has set one worker, so dependencies of a command or workflow run one after
the other; neither caller in the repository sets a bound. `tasks_default` shows a reference
that could start and has no worker. No run or test shows a wrong result from it.

In a matrix, a step without `needs` follows the one above it, even if that one needs *it*.
`validateNeedsGraph` looks only at declared needs and lets this pass; the scheduler then
rejects the graph as cyclic and nothing is executed, which `best_effort` reports as success.
`website/docs/steps/type/matrix.mdx:73` says that steps "run in declared order unless they
use `needs` to depend on a sibling". `control_needs` has the two steps.

Three more things the code does differently from what one may read or expect. They are part of the
model, and the properties are stated for the code, but no run is about them:

- `website/docs/steps/type/parallel.mdx:93` says that `max_failures` is the "Number of child
  failures tolerated before `fail_fast` cancels the group. `0` (default) means no limit", and
  line 86 that `wait_all` will "let running children finish". `shouldCancelControl`
  (`src/pkg/workflow/control.go:488`) cancels *at* that number, so it tolerates one fewer, does so in
  `wait_all` too, and takes 0 to be 1 in `fail_fast` (as `test.mdx:60` says).
  `TestControlConfigurationDefaultsAndCancellationThresholds` asserts this for `wait_all`
  (`control_test.go:322`). `CancelledAtThreshold` says exactly when a group is cancelled, which
  is what the code and its test have, not that page.
- A matrix with an axis that repeats a value passes `validateControlMatrix` and then fails as a
  whole, in `best_effort` too, with nothing executed (`ReturnTellsFailure`).
- A dispatcher that returns a status of its own without an error strands what depends on the
  node (`Stranded`).

## 4. What is proved

TLAPS checks the following for every value of the constants: any finite set of nodes or
callers, any graph, any number of workers, processes, jobs and packages. Each `*Proofs`
module begins with the parts of its inductive invariant, has a lemma for each action, or
each few that do alike, and ends with the theorems. What is assumed of the constants is in
the `ASSUME` of the component's module, and TLC evaluates it in the runs.

**Scheduler** (`SchedulerProofs`, which begins with the facts about graphs). Assumed: `Node`
is finite, `Rank` is injective, `MaxConcurrency` an integer, `Graphs` are graphs, `None`
and `Context`, the errors that blame no node, are two values that are no nodes, and `OtherStatus`,
any set, has none of the names that the model uses itself. The inductive invariant is

    IInv = TypeOK /\ Shape /\ DependencyOrder /\ NothingBlockedIsPending
           /\ ReadyIsExact /\ CountersAgree /\ StopIsFinal /\ SkipsAreJustified

`Shape` ties the state of a node to its result and to the one worker that has it.
`DependencyOrder` alone is not inductive: a node is offered because it is in the ready queue,
which is right only because in-degrees count the dependencies without success
(`ReadyIsExact`), which needs that a result arrives once (`Shape`) and that skipped nodes
leave nothing pending behind them (`NothingBlockedIsPending`). From it: each of its parts,
`NeverStuck` (on an acyclic graph Run's loop always has something to wait for or to offer,
unless a node is stranded),
`ResultsAreFinal`, `ImplementsDag`, and `DispatchedInOrder` (also a node that failed had all
of its dependencies succeed first).

`ReturnIsComplete` and `SequentialOrder` rest on Kahn's algorithm as well. `Topological` is a
recursive function on the natural numbers. That the function exists, and that what each step
keeps holds of all, is shown by looking at the least number for which it would not: a set of
naturals has a least element (`LeastNatural`), which needs no induction rule with an operator
for a parameter. `Iterates` and its lemmas do this once for any function built by iteration,
and `TopologicalOrder` concludes that the sort of an acyclic graph has every node once, after
its dependencies, each time the first by `Rank` of those that could come next. A graph
without a next node would have a set of nodes with a cycle. With that,

- `ReturnIsComplete`: `Ended`, which relates the phases of the end of `Run` to the states of
  the nodes, and `AllResultsAreOrdered`, as `orderedResults` filters the sort;
- `SequentialOrder`, as long as nodes end in declared statuses: with one worker nothing runs
  while a node is offered. The first node of the sort that is still pending has all of its
  dependencies finished, so it is ready; what is offered, if it came later, would by greed of
  the sort not have a lower `Rank`.

**Terraform runs** (`TerraformProofs`). Assumed: finitely many components, requests of the
right type in which no component depends on itself (the parser rejects that), one worker or
more (`effectiveTerraformMaxConcurrency`). `TerraformRunsScheduler` shows that a Terraform
run is a run of the scheduler, so all theorems above hold of it. `Within`, what a walk of
`k` steps reaches, is shown to stay in every closed set, and to be closed once it has made as
many steps as there are components. From it `OrderSurvivesSelection`: a chain of dropped
components of any length between two selected ones is an edge of the prepared graph, and
`DispatchedInOrder` does the rest. `OnlyCyclesAreRefused` is the converse: each contracted
edge stands for a path, so a cycle of the prepared graph, or of its mirror image, is one of
the stacks.

**Task graphs** (`TaskGraphProofs`). Assumed: declarations are graphs, direct references are
references with a fail mode, and a bound, if given, is natural. Nothing keeps the declarations
from having cycles or unknown references. The module takes `SchedulerProofs` twice, for a
scheduler that fails fast and for one that does not, as the model has two of them, and shows
first that their actions are those of the model's instances. The direct references do not
change, so neither does the mode, and each step is one of the scheduler of that mode or
leaves it alone: `RunsScheduler`, and with it all theorems above. The inductive invariant
is that scheduler's, with `Ended` and `BlameIsOwn` (a success blames nobody, a failure
only itself), and `ResolvedFirst`: the scheduler has the graph that was declared, and all
is resolved or nothing has begun. From it:

- `ResolvedBeforeRun`: the scheduler rejects only cycles and a bad bound, and has neither;
- `SiblingsComplete`: what is skipped depends, directly or not, on a node that did not succeed
  (`SkipsAreJustified`). The nodes with a direct dependency that did not succeed are closed
  under dependents by `DependencyOrder`, so each node skipped is one of them (`LossIsNear`);
- `FailFastStops`: a recorded failure has stopped `Run` (`StopIsFinal`), nothing is pending then,
  and what is finished keeps its result (`ResultsAreFinal`), so that nothing starts any more.

**Control steps** (`ControlStepProofs`). Assumed: rows and steps are there and children are
their pairs (the step's validation rejects empty ones), needs are among the steps, thresholds
and `max_concurrency` are natural. The module takes `SchedulerProofs` twice as well. First
come lemmas that the actions of the four instances are the same where the fail mode plays no
part.
Each step of the control step is then one of its scheduler's or leaves it alone (cancelling the
group is the scheduler's caller cancelling, which may come late but never after `Run` has
returned, since a child is still being dispatched), so the scheduler's invariant, `Ended` and
`DispatchedInOrder` hold until the control step returns. `RunEffect` says what a step of `Run`
does to nodes and workers in either mode. The rest of the invariant is `Followed` (what the
scheduler has as the result of a node is what became of the child, and a child it never
dispatched waits) and `Counted`:

- `CancelledAtThreshold` is not inductive. A child that reached the threshold cancels the group
  in a later step than it counts itself, and others may fail in between. `Counted` adds that
  the counter is the number of children that failed or are about to cancel, and that as long as
  one is about to, all but one of the failures that are needed are in.
- `RowsAreIndependent`: the children with a dependency that did not succeed are closed under
  dependents by `DependencyOrder`, and `SkipsAreJustified` puts what is skipped in the least
  such set; `DispatchedInOrder` is the converse; the edges of `ControlGraph` stay in a row.
- `ReturnTellsFailure`: a graph that cannot be built leaves every child waiting; else
  `Followed` at the end of `Run`, with its `ReturnIsComplete`. When the scheduler rejects the
  graph no child has moved, and there is one.

**FileLock** (`FileLockProofs`). Assumed: finitely many callers, each of one process. The
inductive invariant says that every process lock accounts for its holders and its queue
(`Account`), the queue is the set of those who wait, nobody in it could be served, only
callers on their way hold a grant, and whoever is inside holds the operating system's lock,
compatibly with the others. `GrantAccurate` is the heart: whatever the number of waiters
served, the account stays right and the next waiter cannot be served. From it:
`Exclusion`, `HoldersAreCounted`, `QueueIsExact`, `NobodyServable`,
`ImplementsReadWriteLock`, and the action property `NoOvertaking`: `grantWaiters` serves
from the head, a waiter that leaves keeps the order of the others, and one that arrives is
only served at once when nobody waits.

**TerraformLocks** (in `TerraformProofs` too). Assumed: nodes with a workdir are nodes. The
inductive invariant says where a node is by how many keys it has yet to lock, that the mutex
it found is the registered one, that a key's registered mutex never changes, and that the
holder of a mutex is exactly a node past it: one that works, or one between its two keys. So
nobody who holds its last key waits, and one who waits for its workdir waits for a key that
no other node uses. From it: `DirectoriesAreExclusive` and `HoldersProceed` for any number
of nodes and any sharing of directories.

**OrderedBatch** (`OrderedBatchProofs`). Assumed: numbers are numbers and barriers are jobs.
The inductive invariant orders the three positions (`PositionsAgree`: what is committed was
taken, scheduling is ahead by the window at most and stops at a barrier), keeps each job in
one place (`OnePlace`), and says what has been committed, what `ret` stands for and when
workers are gone. `Accounted` gives the number of disposals of every job as a function of
where it is: 1 if it was prepared and is neither a result nor being committed. A weaker
statement, that it is at most 1, is not inductive, for a result that is received is disposed
of without looking. From it: `SendNeverBlocks`, `SerialReadsItsWrites`,
`DisposedExactlyOnce`, `ReturnIsComplete` and the refinement `ImplementsOrderedCommit`,
where preparation within the promised window comes from `PositionsAgree` and what is
discarded from the places of the jobs.

**CacheProxy** (`CacheProxyProofs`). Assumed: finitely many requests, each of one process,
the string that stands for an unlocked file is no process, and time is natural. The parts of the
invariant about files are conditional on `LocksExclude`, that is, on unix; the others hold on every
platform. On unix a fill past its lock holds the lock file; bodies are numbered by fetches, with
`sidecar.body <= object.body <= fetches` across the two renames and every crash between
them; what a fill is about to store is newer than the object. `HitsAreFresh` follows, since what
a handler judged was the object or a sidecar, neither of which was ahead of the object.
`ArtifactFetchedOnce` needs that a fill that fetches an artifact saw it missing and has held
the lock since, or is blind, and exempts only the steps of a blind one. `ShutdownWaits`, on both
platforms, needs that a call has a caller, a caller a handler before it, and that none starts
once the server is closed.

**VendorInstall** (`VendorInstallProofs`). Assumed: each package has its files before and
after, layouts give each process a project and a lockfile, and the string for an unlocked file
is no process. Whoever changes files or receipts holds the locks, a pull has yet to install or
to check every package that it has not reached, and `TxProgress` says for each step of a
transaction what it has changed of what it found. That makes `AllOrNothing` and
`ReceiptsAreKept` properties of single steps; the latter exempts the step that ends a clean,
and no other step of a cleaner. `LastDeclarationWins` has its own part, `WinnersWillWin`: if a
pull is settled, each file is that of the last package that declares it, or some active process
has this package still before it, to install or to check again. A transaction of an earlier
package that overwrites the file is in a pull that has not come to the last one yet, and a
restore puts back what satisfied the invariant before.

The type invariants of these components, `Exclusion` of the file lock and the
inductive invariants' other parts are proved, and not model-checked in the runs.

**Only model-checked.** All liveness (`Terminates`, `FulfilsDag`, `EveryCallReturns`,
`ContextBoundsTheWait`, `EveryRequestEnds`, `EveryProcessEnds`), which TLAPS cannot do. Every
other property that a passing run checks is also a theorem.

## 5. Plan

Every safety property, action property and refinement of the passing runs is proved. Left to prove
are abstract specifications that no run has yet: a vendoring transaction as one atomic step,
and the cache proxy as a store whose hits are fresh, each with a refinement mapping.

What could be modelled next, at small gain: the Cobra command locks, the background registry,
the watchdog's timer.
