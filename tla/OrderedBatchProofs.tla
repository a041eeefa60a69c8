------------------------ MODULE OrderedBatchProofs -------------------------
(***************************************************************************)
(* Proofs about module OrderedBatch, for any number of jobs, any barriers  *)
(* and any concurrency.                                                    *)
(***************************************************************************)
EXTENDS OrderedBatch, FiniteSetTheorems, TLAPS

Busy == {w \in Worker : worker[w].doing \in {"taken", "preparing"}}
Unwinding == pc \in {"unwind", "join", "returned"}

\* How far the three positions can be apart.
PositionsAgree ==
  /\ commit <= taken
  /\ next <= commit + Window
  /\ \A i \in Barrier : i < next => i <= commit
  /\ pc = "begin" => next = 1

\* A job is at most in one place: in the channel, with one worker, or prepared.
OnePlace ==
  /\ \A i \in prepared : i < taken
  /\ \A w \in Busy : worker[w].job < taken /\ worker[w].job \notin prepared
  /\ \A v, w \in Busy : worker[v].job = worker[w].job => v = w

\* Commits have been made in order, of what was prepared and received.
CommittedInOrder ==
  /\ committed = 1 .. commit - 1 \cup (IF ret = "commit" THEN {commit} ELSE {})
  /\ committed \subseteq prepared \ results
  /\ Committing \subseteq prepared \ results

\* What Run returns tells why it unwinds.
ReturnTells ==
  /\ ret # "nil" => Unwinding
  /\ ret = "commit" => commit \in Job
  /\ Unwinding /\ ret = "nil" => commit = Count + 1
  /\ pc \in {"schedule", "commit", "committing"} => commit \in Job

\* Workers exit when the channel is closed, and nothing is left after them.
NothingLeft ==
  /\ \A w \in Worker : worker[w] = Exited => pc \in {"join", "returned"}
  /\ pc = "returned" => WorkersDone /\ results = {}

\* What was prepared is disposed of, unless it waits for its commit to be over.
Accounted ==
  \A i \in Job :
    disposals[i] = IF i \in prepared \ (results \cup Committing) THEN 1 ELSE 0

IInv ==
  /\ TypeOK
  /\ PositionsAgree
  /\ OnePlace
  /\ CommittedInOrder
  /\ ReturnTells
  /\ NothingLeft
  /\ Accounted

-----------------------------------------------------------------------------
LEMMA InitInv == Init => IInv
<1> SUFFICES ASSUME Init PROVE IInv
  OBVIOUS
<1> USE OptionsAssumption
<1>1. Busy = {} /\ Committing = {} /\ ~Unwinding
  BY DEF Init, Busy, Committing, Unwinding, Doing, Idle
<1>2. Width \in Nat /\ Window \in Nat
  BY DEF Init, Width, Window
<1>3. TypeOK
  <2>1. commit \in 1 .. Count + 1 /\ next \in 1 .. Count + 1 /\ taken \in 1 .. next
    BY DEF Init
  <2>2. worker \in [Worker -> {Idle}] /\ disposals \in [Job -> Nat]
    BY DEF Init
  <2>3. worker \in [Worker -> {Idle, Exited}
                             \cup [doing : {"taken", "preparing"}, job : Job]]
    BY <2>2
  <2> QED
    BY <2>1, <2>2, <2>3 DEF Init, TypeOK
<1>4. PositionsAgree
  BY <1>2 DEF Init, PositionsAgree
<1>5. OnePlace
  BY <1>1 DEF Init, OnePlace
<1>6. CommittedInOrder
  BY <1>1 DEF Init, CommittedInOrder
<1>7. ReturnTells
  BY <1>1 DEF Init, ReturnTells
<1>8. NothingLeft
  BY DEF Init, NothingLeft, Doing, Idle, Exited
<1>9. Accounted
  BY DEF Init, Accounted
<1> QED
  BY <1>3, <1>4, <1>5, <1>6, <1>7, <1>8, <1>9 DEF IInv

\* The window is at least one job, and fits into the channel, if there are jobs.
LEMMA WindowFacts ==
  ASSUME TypeOK
  PROVE  /\ Width \in Nat
         /\ Window \in Nat
         /\ concurrency = 1 => Window = 1
         /\ concurrency # 1 => Window <= 2 * concurrency
         /\ Count > 0 => Window <= 2 * Width
BY OptionsAssumption DEF TypeOK, Width, Window

\* What a worker does at each place.
LEMMA WorkerFacts ==
  /\ Idle # Exited
  /\ \A d, i : Doing(d, i).doing = d /\ Doing(d, i).job = i
  /\ \A d \in {"taken", "preparing"} : \A i : Doing(d, i) # Idle /\ Doing(d, i) # Exited
  /\ Idle.doing = "idle" /\ Exited.doing = "exited"
BY DEF Doing, Idle, Exited

\* A busy worker has a job.
LEMMA BusyFacts ==
  ASSUME TypeOK
  PROVE  /\ \A w \in Busy : worker[w].job \in Job
         /\ \A w \in Worker :
              worker[w] = Idle \/ worker[w] = Exited <=> w \notin Busy
         /\ \A w \in Worker : worker[w].doing = "preparing"
              => worker[w] = Doing("preparing", worker[w].job)
BY WorkerFacts DEF TypeOK, Busy, Doing, Idle, Exited

\* Nothing in the invariant depends on whether the context is done.
LEMMA CancelInv ==
  ASSUME IInv, CancelContext \/ UNCHANGED vars
  PROVE  IInv'
<1> USE DEF CancelContext, vars, runLocals, Worker, Width
<1>1. UNCHANGED <<concurrency, pc, commit, next, taken, worker, results, prepared,
                  committed, disposals, ret>> /\ cancelled' \in BOOLEAN
  BY DEF IInv, TypeOK
<1> QED
  BY <1>1 DEF IInv, TypeOK, PositionsAgree, OnePlace, CommittedInOrder, ReturnTells,
              NothingLeft, Accounted, Window, Busy, Unwinding, Committing, WorkersDone

\* Run goes from one place to another, and leaves jobs and workers alone.
LEMMA RunMovesInv ==
  ASSUME IInv, Begin \/ Loop \/ SeeCancel \/ Unwind
  PROVE  IInv'
<1> USE OptionsAssumption
<1>1. UNCHANGED <<concurrency, commit, next, taken, worker,
                  results, prepared, committed, disposals>>
  BY DEF Begin, Loop, SeeCancel, Unwind
<1>2. Committing = {} /\ Committing' = {}
  BY DEF Begin, Loop, SeeCancel, Unwind, Committing
<1>3. Width' = Width /\ Worker' = Worker /\ Window' = Window /\ Busy' = Busy
  BY <1>1 DEF Width, Worker, Window, Busy
<1>4. TypeOK'
  BY <1>1, <1>3 DEF IInv, TypeOK, Begin, Loop, SeeCancel, Unwind, ContextErr
<1>5. PositionsAgree'
  BY <1>1, <1>3 DEF IInv, PositionsAgree, Begin, Loop, SeeCancel, Unwind
<1>6. OnePlace'
  BY <1>1, <1>3 DEF IInv, OnePlace
<1>7. (ret = "commit") = (ret' = "commit")
  BY DEF IInv, ReturnTells, Begin, Loop, SeeCancel, Unwind, ContextErr, Unwinding
<1>8. CommittedInOrder'
  BY <1>1, <1>2, <1>7 DEF IInv, CommittedInOrder
<1>9. ReturnTells'
  BY <1>1, <1>7 DEF IInv, TypeOK, ReturnTells, Begin, Loop, SeeCancel, Unwind, ContextErr,
                    Unwinding, Job, Width
<1>10. NothingLeft'
  <2>1. CASE Begin
    <3>1. \A w \in Worker : worker[w] # Exited
      BY <2>1 DEF IInv, NothingLeft, Begin
    <3>2. results = {}
      BY <2>1 DEF IInv, TypeOK, PositionsAgree, OnePlace, Begin, Job
    <3>3. pc' = "returned" => Worker = {}
      BY <2>1 DEF IInv, TypeOK, Begin, Width, Worker
    <3> QED
      BY <1>1, <1>3, <3>1, <3>2, <3>3 DEF NothingLeft, WorkersDone
  <2>2. CASE ~Begin
    BY <1>1, <1>3, <2>2 DEF IInv, NothingLeft, Loop, SeeCancel, Unwind
  <2> QED
    BY <2>1, <2>2
<1>11. Accounted'
  BY <1>1, <1>2 DEF IInv, Accounted
<1> QED
  BY <1>4, <1>5, <1>6, <1>8, <1>9, <1>10, <1>11 DEF IInv

LEMMA ScheduleInv ==
  ASSUME IInv, Schedule
  PROVE  IInv'
<1> USE OptionsAssumption
<1>1. UNCHANGED <<concurrency, cancelled, commit, taken, worker, results, prepared, committed,
                  disposals, ret>>
  BY DEF Schedule
<1>2. Committing = {} /\ Committing' = {}
  BY DEF Schedule, Committing
<1>3. Width' = Width /\ Worker' = Worker /\ Window' = Window /\ Busy' = Busy
  BY <1>1 DEF Width, Worker, Window, Busy
<1>4. pc = "schedule" /\ pc' \in {"schedule", "commit"}
  BY DEF Schedule
<1>5. next' = next \/ (next' = next + 1 /\ Ahead)
  BY DEF Schedule
<1>6. TypeOK'
  BY <1>1, <1>3, <1>4, <1>5 DEF IInv, TypeOK, Ahead
<1>7. PositionsAgree'
  BY <1>1, <1>3, <1>4, <1>5, WindowFacts DEF IInv, TypeOK, PositionsAgree, Ahead
<1>8. OnePlace'
  BY <1>1, <1>3 DEF IInv, OnePlace
<1>9. CommittedInOrder'
  BY <1>1, <1>2 DEF IInv, CommittedInOrder
<1>10. ReturnTells'
  BY <1>1, <1>4 DEF IInv, ReturnTells, Unwinding
<1>11. NothingLeft'
  BY <1>1, <1>3, <1>4 DEF IInv, NothingLeft
<1>12. Accounted'
  BY <1>1, <1>2 DEF IInv, Accounted
<1> QED
  BY <1>6, <1>7, <1>8, <1>9, <1>10, <1>11, <1>12 DEF IInv

LEMMA ReceiveResultInv ==
  ASSUME IInv, ReceiveResult
  PROVE  IInv'
<1> USE OptionsAssumption
<1>1. UNCHANGED <<concurrency, cancelled, commit, next, taken, worker, prepared, committed>>
  BY DEF ReceiveResult
<1>2. pc = "commit" /\ commit \in results /\ results' = results \ {commit}
  BY DEF ReceiveResult
<1>3. Width' = Width /\ Worker' = Worker /\ Window' = Window /\ Busy' = Busy
  BY <1>1 DEF Width, Worker, Window, Busy
<1>4. commit \in prepared /\ commit \in Job /\ ret = "nil" /\ ret' \in {"nil", "context"}
  BY <1>2 DEF IInv, TypeOK, ReturnTells, Unwinding, ReceiveResult
<1>5. \/ /\ pc' = "unwind" /\ ret' = "context" /\ Committing' = {}
         /\ disposals' = [i \in Job |-> IF i = commit THEN disposals[i] + 1 ELSE disposals[i]]
      \/ /\ pc' = "committing" /\ ret' = ret /\ Committing' = {commit}
         /\ disposals' = disposals
  BY <1>1, <1>4 DEF ReceiveResult, DisposedLate, Disposed, Committing
<1>6. TypeOK'
  BY <1>1, <1>2, <1>3, <1>5 DEF IInv, TypeOK
<1>7. PositionsAgree'
  BY <1>1, <1>3, <1>5 DEF IInv, PositionsAgree
<1>8. OnePlace'
  BY <1>1, <1>3 DEF IInv, OnePlace
<1>9. CommittedInOrder'
  BY <1>1, <1>2, <1>4, <1>5 DEF IInv, CommittedInOrder
<1>10. ReturnTells'
  BY <1>1, <1>4, <1>5 DEF IInv, ReturnTells, Unwinding
<1>11. NothingLeft'
  BY <1>1, <1>2, <1>3, <1>5 DEF IInv, NothingLeft
<1>12. Accounted'
  <2>1. Committing = {}
    BY <1>2 DEF Committing
  <2> QED
    BY <1>1, <1>2, <1>4, <1>5, <2>1 DEF IInv, TypeOK, Accounted
<1> QED
  BY <1>6, <1>7, <1>8, <1>9, <1>10, <1>11, <1>12 DEF IInv

LEMMA CommitReturnsInv ==
  ASSUME IInv, CommitReturns
  PROVE  IInv'
<1> USE OptionsAssumption
<1>1. UNCHANGED <<concurrency, cancelled, next, taken, worker, results, prepared>>
  BY DEF CommitReturns
<1>2. /\ pc = "committing" /\ Committing = {commit} /\ Committing' = {}
      /\ committed' = committed \cup {commit}
      /\ disposals' = [i \in Job |-> IF i = commit THEN disposals[i] + 1 ELSE disposals[i]]
  BY DEF IInv, ReturnTells, CommitReturns, Disposed, Committing
<1>3. Width' = Width /\ Worker' = Worker /\ Window' = Window /\ Busy' = Busy
  BY <1>1 DEF Width, Worker, Window, Busy
<1>4. commit \in prepared /\ commit \notin results /\ commit \in Job /\ ret = "nil"
  BY <1>2 DEF IInv, ReturnTells, CommittedInOrder, Unwinding
<1>5. \/ pc' = "unwind" /\ ret' = "commit" /\ commit' = commit
      \/ pc' = "loop" /\ ret' = ret /\ commit' = commit + 1
  BY DEF CommitReturns
<1>6. commit < taken
  BY <1>4 DEF IInv, OnePlace
<1>7. TypeOK'
  BY <1>1, <1>2, <1>3, <1>4, <1>5 DEF IInv, TypeOK, Job
<1>8. PositionsAgree'
  BY <1>1, <1>3, <1>5, <1>6, WindowFacts DEF IInv, TypeOK, PositionsAgree
<1>9. OnePlace'
  BY <1>1, <1>3 DEF IInv, OnePlace
<1>10. CommittedInOrder'
  <2>1. committed = 1 .. commit - 1
    BY <1>4 DEF IInv, CommittedInOrder
  <2>2. committed' = 1 .. commit' - 1 \cup (IF ret' = "commit" THEN {commit'} ELSE {})
    BY <1>2, <1>4, <1>5, <2>1 DEF Job
  <2> QED
    BY <1>1, <1>2, <1>4, <2>2 DEF IInv, CommittedInOrder
<1>11. ReturnTells'
  BY <1>4, <1>5 DEF IInv, ReturnTells, Unwinding
<1>12. NothingLeft'
  BY <1>1, <1>2, <1>3, <1>5 DEF IInv, NothingLeft
<1>13. Accounted'
  BY <1>1, <1>2, <1>4 DEF IInv, TypeOK, Accounted
<1> QED
  BY <1>7, <1>8, <1>9, <1>10, <1>11, <1>12, <1>13 DEF IInv

LEMMA DrainInv ==
  ASSUME IInv, Drain
  PROVE  IInv'
<1>1. UNCHANGED <<concurrency, cancelled, commit, next, taken, worker, prepared, committed, ret>>
  BY DEF Drain
<1>2. /\ pc = "join" /\ WorkersDone /\ pc' = "returned" /\ results' = {}
      /\ disposals' = [i \in Job |-> IF i \in results THEN disposals[i] + 1 ELSE disposals[i]]
      /\ Committing = {} /\ Committing' = {}
  BY DEF Drain, Disposed, Committing
<1>3. Width' = Width /\ Worker' = Worker /\ Window' = Window /\ Busy' = Busy
  BY <1>1 DEF Width, Worker, Window, Busy
<1>4. TypeOK'
  BY <1>1, <1>2, <1>3 DEF IInv, TypeOK
<1>5. PositionsAgree'
  BY <1>1, <1>2, <1>3 DEF IInv, PositionsAgree
<1>6. OnePlace'
  BY <1>1, <1>3 DEF IInv, OnePlace
<1>7. CommittedInOrder'
  BY <1>1, <1>2 DEF IInv, CommittedInOrder
<1>8. ReturnTells'
  BY <1>1, <1>2 DEF IInv, ReturnTells, Unwinding
<1>9. NothingLeft'
  BY <1>1, <1>2, <1>3 DEF NothingLeft, WorkersDone
<1>10. Accounted'
  BY <1>1, <1>2 DEF IInv, TypeOK, Accounted
<1> QED
  BY <1>4, <1>5, <1>6, <1>7, <1>8, <1>9, <1>10 DEF IInv

-----------------------------------------------------------------------------
\* A step of a worker leaves what Run holds alone.
LEMMA WorkerLeavesRunAlone ==
  ASSUME NEW w, TakeJob(w) \/ StartPrepare(w) \/ FinishPrepare(w) \/ ExitWorker(w)
  PROVE  /\ UNCHANGED <<concurrency, cancelled, pc, commit, next, ret, committed, disposals>>
         /\ Width' = Width /\ Worker' = Worker /\ Window' = Window
         /\ Unwinding' = Unwinding /\ Committing' = Committing
<1>1. UNCHANGED <<concurrency, cancelled, pc, commit, next, ret, committed, disposals>>
  BY DEF TakeJob, StartPrepare, FinishPrepare, ExitWorker, runLocals
<1> QED
  BY <1>1 DEF Width, Worker, Window, Unwinding, Committing

LEMMA TakeJobInv ==
  ASSUME IInv, NEW w \in Worker, TakeJob(w)
  PROVE  IInv'
<1>1. /\ UNCHANGED <<concurrency, cancelled, pc, commit, next, ret, results, prepared, committed,
                     disposals>>
      /\ Worker' = Worker /\ Window' = Window /\ Unwinding' = Unwinding
      /\ Committing' = Committing
  BY WorkerLeavesRunAlone DEF TakeJob
<1>2. /\ worker[w] = Idle /\ taken < next /\ taken' = taken + 1
      /\ worker' = [worker EXCEPT ![w] = Doing("taken", taken)]
  BY DEF TakeJob
<1>3. taken \in Job /\ taken' \in 1 .. next'
  BY <1>1, <1>2, OptionsAssumption DEF IInv, TypeOK, Job
<1>4. /\ worker'[w].doing = "taken" /\ worker'[w].job = taken /\ worker'[w] # Exited
      /\ \A v \in Worker \ {w} : worker'[v] = worker[v]
  BY <1>2, WorkerFacts DEF IInv, TypeOK
<1>5. Busy' = Busy \cup {w} /\ w \notin Busy
  BY <1>1, <1>2, <1>4, WorkerFacts DEF Busy
<1>6. TypeOK'
  <2>1. Doing("taken", taken) \in [doing : {"taken", "preparing"}, job : Job]
    BY <1>3 DEF Doing
  <2>2. worker' \in [Worker -> {Idle, Exited} \cup [doing : {"taken", "preparing"}, job : Job]]
    BY <1>2, <2>1 DEF IInv, TypeOK
  <2> QED
    BY <1>1, <1>3, <2>2 DEF IInv, TypeOK
<1>7. PositionsAgree'
  BY <1>1, <1>2, <1>3 DEF IInv, TypeOK, PositionsAgree, Job
<1>8. OnePlace'
  <2>1. \A v \in Busy : worker[v].job < taken
    BY DEF IInv, OnePlace
  <2>2. \A i \in prepared : i < taken /\ i \in Nat /\ i # taken
    BY <1>3 DEF IInv, OnePlace, TypeOK, Job
  <2>3. \A v \in Busy : worker'[v] = worker[v] /\ worker[v].job \in Job
    BY <1>4, <1>5, BusyFacts DEF IInv, Busy
  <2> QED
    BY <1>1, <1>2, <1>3, <1>4, <1>5, <2>1, <2>2, <2>3 DEF IInv, OnePlace, Job
<1>9. CommittedInOrder'
  BY <1>1 DEF IInv, CommittedInOrder
<1>10. ReturnTells'
  BY <1>1 DEF IInv, ReturnTells
<1>11. NothingLeft'
  BY <1>1, <1>2, <1>4, WorkerFacts DEF IInv, NothingLeft, WorkersDone
<1>12. Accounted'
  BY <1>1 DEF IInv, Accounted
<1> QED
  BY <1>6, <1>7, <1>8, <1>9, <1>10, <1>11, <1>12 DEF IInv

LEMMA StartPrepareInv ==
  ASSUME IInv, NEW w \in Worker, StartPrepare(w)
  PROVE  IInv'
<1>1. /\ UNCHANGED <<concurrency, cancelled, pc, commit, next, taken, ret, results, prepared,
                     committed, disposals>>
      /\ Worker' = Worker /\ Window' = Window /\ Unwinding' = Unwinding
      /\ Committing' = Committing
  BY WorkerLeavesRunAlone DEF StartPrepare
<1>2. w \in Busy /\ worker[w].job \in Job
  BY BusyFacts DEF IInv, Busy, StartPrepare
<1>3. /\ worker'[w] \in {Idle, Doing("preparing", worker[w].job)}
      /\ \A v \in Worker \ {w} : worker'[v] = worker[v]
  BY DEF IInv, TypeOK, StartPrepare
<1>4. /\ worker'[w] # Exited
      /\ worker'[w] = Idle \/ worker'[w].job = worker[w].job
  BY <1>3, WorkerFacts
<1>5. Busy' \subseteq Busy /\ (w \in Busy' => worker'[w].job = worker[w].job)
  <2>1. w \in Busy' => worker'[w] # Idle
    BY WorkerFacts DEF Busy
  <2> QED
    BY <1>1, <1>2, <1>3, <1>4, <2>1 DEF Busy
<1>6. TypeOK'
  <2>1. Doing("preparing", worker[w].job) \in [doing : {"taken", "preparing"}, job : Job]
    BY <1>2 DEF Doing
  <2>2. worker' \in [Worker -> {Idle, Exited} \cup [doing : {"taken", "preparing"}, job : Job]]
    BY <2>1 DEF IInv, TypeOK, StartPrepare
  <2> QED
    BY <1>1, <2>2 DEF IInv, TypeOK
<1>7. PositionsAgree'
  BY <1>1 DEF IInv, PositionsAgree
<1>8. OnePlace'
  <2>1. \A v \in Busy' : v \in Busy /\ worker'[v].job = worker[v].job
    BY <1>3, <1>5 DEF Busy
  <2> QED
    BY <1>1, <2>1 DEF IInv, OnePlace
<1>9. CommittedInOrder'
  BY <1>1 DEF IInv, CommittedInOrder
<1>10. ReturnTells'
  BY <1>1 DEF IInv, ReturnTells
<1>11. NothingLeft'
  <2>1. worker[w] # Exited
    BY WorkerFacts DEF StartPrepare
  <2> QED
    BY <1>1, <1>3, <1>4, <2>1 DEF IInv, NothingLeft, WorkersDone
<1>12. Accounted'
  BY <1>1 DEF IInv, Accounted
<1> QED
  BY <1>6, <1>7, <1>8, <1>9, <1>10, <1>11, <1>12 DEF IInv

LEMMA FinishPrepareInv ==
  ASSUME IInv, NEW w \in Worker, FinishPrepare(w)
  PROVE  IInv'
<1> DEFINE i == worker[w].job
<1>1. /\ UNCHANGED <<concurrency, cancelled, pc, commit, next, taken, ret, committed, disposals>>
      /\ Worker' = Worker /\ Window' = Window /\ Unwinding' = Unwinding
      /\ Committing' = Committing
  BY WorkerLeavesRunAlone DEF FinishPrepare
<1>2. w \in Busy /\ i \in Job
  BY BusyFacts DEF IInv, Busy, FinishPrepare
<1>3. i < taken /\ i \notin prepared /\ i \notin results /\ i \notin committed
  BY <1>2 DEF IInv, TypeOK, OnePlace, CommittedInOrder
<1>4. /\ worker'[w] = Idle
      /\ \A v \in Worker \ {w} : worker'[v] = worker[v]
      /\ results' = results \cup {i} /\ prepared' = prepared \cup {i}
  BY DEF IInv, TypeOK, FinishPrepare
<1> HIDE DEF i
<1>5. Busy' = Busy \ {w}
  BY <1>1, <1>4, WorkerFacts DEF Busy
<1>6. TypeOK'
  <2>1. worker' \in [Worker -> {Idle, Exited} \cup [doing : {"taken", "preparing"}, job : Job]]
    BY DEF IInv, TypeOK, FinishPrepare
  <2> QED
    BY <1>1, <1>2, <1>4, <2>1 DEF IInv, TypeOK
<1>7. PositionsAgree'
  BY <1>1 DEF IInv, PositionsAgree
<1>8. OnePlace'
  <2>1. \A v \in Busy' : v \in Busy /\ v # w /\ worker'[v] = worker[v]
    BY <1>4, <1>5 DEF Busy
  <2>2. \A v \in Busy' : worker'[v].job # i
    BY <1>2, <2>1 DEF IInv, OnePlace, i
  <2> QED
    BY <1>1, <1>3, <1>4, <2>1, <2>2 DEF IInv, OnePlace
<1>9. CommittedInOrder'
  BY <1>1, <1>3, <1>4 DEF IInv, CommittedInOrder
<1>10. ReturnTells'
  BY <1>1 DEF IInv, ReturnTells
<1>11. NothingLeft'
  <2>1. ~WorkersDone
    BY <1>2, WorkerFacts DEF WorkersDone, Busy
  <2> QED
    BY <1>1, <1>4, <2>1, WorkerFacts DEF IInv, NothingLeft
<1>12. Accounted'
  BY <1>1, <1>3, <1>4 DEF IInv, Accounted
<1> QED
  BY <1>6, <1>7, <1>8, <1>9, <1>10, <1>11, <1>12 DEF IInv

LEMMA ExitWorkerInv ==
  ASSUME IInv, NEW w \in Worker, ExitWorker(w)
  PROVE  IInv'
<1>1. /\ UNCHANGED <<concurrency, cancelled, pc, commit, next, taken, ret, results, prepared,
                     committed, disposals>>
      /\ Worker' = Worker /\ Window' = Window /\ Unwinding' = Unwinding
      /\ Committing' = Committing
  BY WorkerLeavesRunAlone DEF ExitWorker
<1>2. /\ pc = "join" /\ worker[w] = Idle /\ worker'[w] = Exited
      /\ \A v \in Worker \ {w} : worker'[v] = worker[v]
  BY DEF IInv, TypeOK, ExitWorker
<1>3. Busy' = Busy /\ w \notin Busy
  BY <1>1, <1>2, WorkerFacts DEF Busy
<1>4. TypeOK'
  <2>1. worker' \in [Worker -> {Idle, Exited} \cup [doing : {"taken", "preparing"}, job : Job]]
    BY DEF IInv, TypeOK, ExitWorker
  <2> QED
    BY <1>1, <2>1 DEF IInv, TypeOK
<1>5. PositionsAgree'
  BY <1>1 DEF IInv, PositionsAgree
<1>6. OnePlace'
  <2>1. \A v \in Busy : worker'[v] = worker[v]
    BY <1>2, <1>3 DEF Busy
  <2> QED
    BY <1>1, <1>3, <2>1 DEF IInv, OnePlace
<1>7. CommittedInOrder'
  BY <1>1 DEF IInv, CommittedInOrder
<1>8. ReturnTells'
  BY <1>1 DEF IInv, ReturnTells
<1>9. NothingLeft'
  BY <1>1, <1>2 DEF IInv, NothingLeft
<1>10. Accounted'
  BY <1>1 DEF IInv, Accounted
<1> QED
  BY <1>4, <1>5, <1>6, <1>7, <1>8, <1>9, <1>10 DEF IInv

LEMMA StepInv == IInv /\ [Next]_vars => IInv'
<1> SUFFICES ASSUME IInv, [Next]_vars PROVE IInv'
  OBVIOUS
<1>1. CASE Run
  BY <1>1, RunMovesInv, ScheduleInv, ReceiveResultInv, CommitReturnsInv, DrainInv DEF Run
<1>2. ASSUME NEW w \in Worker, Prepare(w) PROVE IInv'
  BY <1>2, TakeJobInv, StartPrepareInv, FinishPrepareInv, ExitWorkerInv DEF Prepare
<1>3. CASE CancelContext \/ Stopped \/ UNCHANGED vars
  BY <1>3, CancelInv DEF Stopped
<1> QED
  BY <1>1, <1>2, <1>3 DEF Next

(***************************************************************************)
(* Every reachable state satisfies the inductive invariant, and with it    *)
(* the type invariant.                                                     *)
(***************************************************************************)
THEOREM Invariance == Spec => [](IInv /\ TypeOK)
<1>1. IInv => TypeOK
  BY DEF IInv
<1> QED
  BY <1>1, InitInv, StepInv, PTL DEF Spec

-----------------------------------------------------------------------------
(***************************************************************************)
(* Run never blocks on the jobs channel: everything committed was received *)
(* from it, so that what is in it lies within the window.                  *)
(***************************************************************************)
THEOREM SendingNeverBlocks == Spec => []SendNeverBlocks
<1>1. ASSUME IInv PROVE SendNeverBlocks
  <2> SUFFICES ASSUME Ahead PROVE next - taken < 2 * Width
    BY DEF SendNeverBlocks, ChannelHasRoom
  <2>1. next \in Nat /\ taken \in Nat /\ commit \in Nat /\ Count > 0
    BY <1>1, OptionsAssumption DEF IInv, TypeOK, Ahead
  <2>2. next < commit + Window /\ commit <= taken
    BY <1>1 DEF Ahead, IInv, PositionsAgree
  <2> QED
    BY <1>1, <2>1, <2>2, WindowFacts DEF IInv
<1> QED
  BY <1>1, Invariance, PTL

(***************************************************************************)
(* With one worker a job is prepared after everything before it has been   *)
(* committed: the window of one keeps it next to the commit.               *)
(***************************************************************************)
THEOREM SerialBatchReadsItsWrites == Spec => []SerialReadsItsWrites
<1>1. ASSUME IInv, concurrency = 1, NEW i \in Preparing \cup prepared, NEW j \in 1 .. i - 1
      PROVE  j \in committed
  <2>1. i \in Job /\ i < taken
    BY <1>1, WorkerFacts DEF IInv, TypeOK, OnePlace, Preparing, Busy
  <2>2. i <= commit
    BY <1>1, <2>1, WindowFacts DEF IInv, TypeOK, PositionsAgree, Job
  <2> QED
    BY <1>1, <2>1, <2>2 DEF IInv, TypeOK, CommittedInOrder, Job
<1>2. IInv => SerialReadsItsWrites
  BY <1>1 DEF SerialReadsItsWrites
<1> QED
  BY <1>2, Invariance, PTL

(***************************************************************************)
(* Whatever Prepare returned is disposed of once, after its commit if it   *)
(* has one, and before Run returns.                                        *)
(***************************************************************************)
THEOREM EveryValueIsDisposedOf == Spec => []DisposedExactlyOnce
<1>1. IInv => DisposedExactlyOnce
  BY DEF IInv, TypeOK, CommittedInOrder, NothingLeft, Accounted, Committing, DisposedExactlyOnce
<1> QED
  BY <1>1, Invariance, PTL

(***************************************************************************)
(* When Run returns nothing of it is left, and nil means that all jobs are *)
(* committed.                                                              *)
(***************************************************************************)
THEOREM ReturnsAreComplete == Spec => []ReturnIsComplete
<1>1. IInv => ReturnIsComplete
  BY OptionsAssumption DEF IInv, TypeOK, CommittedInOrder, ReturnTells, NothingLeft, WorkersDone,
        Unwinding, ReturnIsComplete, Job
<1> QED
  BY <1>1, Invariance, PTL

-----------------------------------------------------------------------------
(* The refinement: Run keeps what OrderedCommit promises.                  *)

\* The states that the refinement mapping gives to a job are told apart by where
\* the job is.
StatesTellPlaces ==
  \A i \in Job :
    /\ StateOf(i) \in Promise!State
    /\ StateOf(i) = "committed" <=> i \in committed
    /\ StateOf(i) = "prepared" <=> i \in results \cup Committing
    /\ StateOf(i) = "preparing" <=> i \in Preparing
    /\ StateOf(i) = "discarded" <=> i \in prepared \ (committed \cup results \cup Committing)
    /\ StateOf(i) = "new" <=> i \notin prepared \cup Preparing

LEMMA Places == IInv => StatesTellPlaces
<1> SUFFICES ASSUME IInv, NEW i \in Job
             PROVE  /\ StateOf(i) \in Promise!State
                    /\ StateOf(i) = "committed" <=> i \in committed
                    /\ StateOf(i) = "prepared" <=> i \in results \cup Committing
                    /\ StateOf(i) = "preparing" <=> i \in Preparing
                    /\ StateOf(i) = "discarded"
                          <=> i \in prepared \ (committed \cup results \cup Committing)
                    /\ StateOf(i) = "new" <=> i \notin prepared \cup Preparing
  BY DEF StatesTellPlaces
<1>1. /\ committed \subseteq prepared /\ results \subseteq prepared /\ Committing \subseteq prepared
      /\ i \notin committed \cap results /\ i \notin results \cap Committing
  BY DEF IInv, TypeOK, CommittedInOrder
<1>2. i \in Committing => i \notin committed
  BY DEF IInv, TypeOK, CommittedInOrder, ReturnTells, Unwinding, Committing, Job
<1>3. i \in Preparing => i \notin prepared
  BY WorkerFacts DEF IInv, OnePlace, Preparing, Busy
<1> QED
  BY <1>1, <1>2, <1>3 DEF StateOf, Promise!State

Jobs == [i \in Job |-> StateOf(i)]

\* The promise allows the step.
Kept == UNCHANGED <<concurrency, Jobs, Unwinding>> \/ Promise!Next

\* A step that moves no job is none, or the end of the commits, in the promise.
LEMMA NothingMoves ==
  ASSUME UNCHANGED <<concurrency, committed, prepared>>,
         Preparing' = Preparing, (results \cup Committing)' = results \cup Committing,
         Unwinding => Unwinding'
  PROVE  Kept
<1>1. \A i \in Job : StateOf(i)' = StateOf(i)
  BY DEF StateOf
<1>2. Jobs' = Jobs
  BY <1>1 DEF Job, Jobs
<1>3. Unwinding' = Unwinding \/ Unwinding' = TRUE
  BY DEF Unwinding
<1> QED
  BY <1>2, <1>3 DEF Promise!Next, Promise!Halt, Unwinding, Jobs, Kept

\* Any prepared jobs are discarded.
LEMMA Discards ==
  ASSUME StatesTellPlaces, StatesTellPlaces', NEW S \in SUBSET (results \cup Committing),
         UNCHANGED <<concurrency, committed, prepared>>, Preparing' = Preparing,
         (results \cup Committing)' = (results \cup Committing) \ S,
         Unwinding'
  PROVE  Kept
<1>1. Jobs' \in [Job -> Promise!State]
  BY DEF StatesTellPlaces, Jobs, Job
<1>2. ASSUME NEW i \in Job, Jobs'[i] # Jobs[i]
      PROVE  Jobs[i] = "prepared" /\ Jobs'[i] = "discarded"
  <2>1. Jobs[i] = StateOf(i) /\ Jobs'[i] = StateOf(i)'
    BY DEF Jobs, Job
  <2>2. i \notin committed /\ i \notin Preparing /\ i \in prepared
    BY <1>2, <2>1 DEF StatesTellPlaces, Promise!State
  <2>3. i \in S
    BY <1>2, <2>1, <2>2 DEF StatesTellPlaces, Promise!State
  <2> QED
    BY <2>1, <2>2, <2>3 DEF StatesTellPlaces
<1> QED
  BY <1>1, <1>2 DEF Promise!Next, Promise!Discard, Promise!Job, Unwinding, Jobs, Kept, Job

LEMMA RunRefines ==
  ASSUME IInv, StatesTellPlaces, StatesTellPlaces', Run
  PROVE  Kept
<1>1. CASE Begin \/ Loop \/ SeeCancel \/ Unwind \/ Schedule
  <2>1. UNCHANGED <<concurrency, committed, prepared, results, worker>>
    BY <1>1 DEF Begin, Loop, SeeCancel, Unwind, Schedule
  <2>2. Committing = {} /\ Committing' = {} /\ (Unwinding => Unwinding')
    BY <1>1 DEF Begin, Loop, SeeCancel, Unwind, Schedule, Committing, Unwinding
  <2>3. Preparing' = Preparing
    BY <2>1 DEF Preparing, Worker, Width
  <2> QED
    BY <2>1, <2>2, <2>3, NothingMoves
<1>2. CASE ReceiveResult
  <2>1. /\ UNCHANGED <<concurrency, committed, prepared, worker, commit>>
        /\ pc = "commit" /\ commit \in results /\ results' = results \ {commit}
        /\ Committing = {}
    BY <1>2 DEF ReceiveResult, Committing
  <2>2. Preparing' = Preparing
    BY <2>1 DEF Preparing, Worker, Width
  <2>3. CASE pc' = "committing"
    <3>1. Committing' = {commit}
      BY <2>1, <2>3 DEF Committing, IInv, TypeOK
    <3> QED
      BY <2>1, <2>2, <3>1, NothingMoves DEF Unwinding
  <2>4. CASE pc' = "unwind"
    <3>1. Committing' = {} /\ Unwinding'
      BY <2>4 DEF Committing, Unwinding
    <3>2. /\ {commit} \in SUBSET (results \cup Committing)
          /\ (results \cup Committing)' = (results \cup Committing) \ {commit}
      BY <2>1, <3>1
    <3> QED
      BY <2>1, <2>2, <3>1, <3>2, Discards
  <2> QED
    BY <1>2, <2>3, <2>4 DEF ReceiveResult
<1>3. CASE CommitReturns
  <2>1. /\ UNCHANGED <<concurrency, prepared, worker, results>>
        /\ Committing = {commit} /\ Committing' = {} /\ commit \in Job /\ ~Unwinding
        /\ committed' = committed \cup {commit}
    BY <1>3 DEF CommitReturns, Committing, IInv, ReturnTells, Unwinding
  <2>2. Preparing' = Preparing
    BY <2>1 DEF Preparing, Worker, Width
  <2>3. /\ commit \notin results
        /\ \A j \in 1 .. commit - 1 : j \in committed /\ j \in Job
    BY <2>1 DEF IInv, TypeOK, CommittedInOrder, Job
  <2>4. Jobs' = [Jobs EXCEPT ![commit] = "committed"]
    <3>1. ASSUME NEW i \in Job, i # commit PROVE StateOf(i)' = StateOf(i)
      <4>1. i \in committed' <=> i \in committed
        BY <2>1, <3>1
      <4>2. i \in (results \cup Committing)' <=> i \in results \cup Committing
        BY <2>1, <3>1
      <4> QED
        BY <2>1, <2>2, <4>1, <4>2 DEF StatesTellPlaces, Promise!State
    <3>2. \A i \in Job : i = commit => StateOf(i)' = "committed"
      BY <2>1 DEF StatesTellPlaces
    <3>3. /\ Jobs' = [i \in Job |-> StateOf(i)']
          /\ Jobs = [i \in Job |-> StateOf(i)]
      BY DEF Jobs, Job
    <3> QED
      BY <3>1, <3>2, <3>3
  <2>5. Jobs[commit] = "prepared" /\ \A j \in 1 .. commit - 1 : Jobs[j] = "committed"
    BY <2>1, <2>3 DEF StatesTellPlaces, Jobs
  <2>6. Promise!Commit(commit)
    BY <2>1, <2>4, <2>5 DEF Promise!Commit, Unwinding, Jobs
  <2> QED
    BY <2>1, <2>6 DEF Promise!Next, Promise!Job, Kept, Job
<1>4. CASE Drain
  <2>1. /\ UNCHANGED <<concurrency, committed, prepared, worker>>
        /\ Committing = {} /\ Committing' = {} /\ results' = {} /\ Unwinding'
    BY <1>4 DEF Drain, Committing, Unwinding
  <2>2. Preparing' = Preparing
    BY <2>1 DEF Preparing, Worker, Width
  <2> QED
    BY <2>1, <2>2, Discards
<1> QED
  BY <1>1, <1>2, <1>3, <1>4 DEF Run

\* Fewer jobs are being prepared than there are workers, while one is not preparing.
LEMMA PreparingBound ==
  ASSUME IInv, NEW w \in Worker, worker[w].doing # "preparing"
  PROVE  /\ IsFiniteSet(Preparing)
         /\ Cardinality(Preparing) < Width
<1> DEFINE S == {v \in Worker : worker[v].doing = "preparing"}
<1> DEFINE f == [v \in S |-> worker[v].job]
<1>1. /\ \A v \in S : worker[v] = Doing("preparing", worker[v].job) /\ worker[v].job \in Job
      /\ \A v \in Worker, i \in Job : worker[v] = Doing("preparing", i)
           => v \in S /\ worker[v].job = i
  BY BusyFacts, WorkerFacts DEF IInv, Busy
<1>2. f \in [S -> Preparing]
  BY <1>1 DEF Preparing
<1>3. \A i \in Preparing : \E v \in S : f[v] = i
  BY <1>1 DEF Preparing
<1>4. f \in Surjection(S, Preparing)
  BY <1>2, <1>3 DEF Surjection
<1>5. /\ Width \in Nat /\ IsFiniteSet(1 .. Width) /\ Cardinality(1 .. Width) = Width
      /\ S \in SUBSET (1 .. Width) /\ S # 1 .. Width
  <2>1. Width \in Nat
    BY WindowFacts DEF IInv
  <2>2. IsFiniteSet(1 .. Width) /\ Cardinality(1 .. Width) = Width
    BY <2>1, FS_Interval
  <2> QED
    BY <2>1, <2>2 DEF Worker
<1>6. IsFiniteSet(S) /\ Cardinality(S) \in Nat /\ Cardinality(S) < Width
  <2> HIDE DEF S
  <2>1. IsFiniteSet(S) /\ Cardinality(S) <= Width /\ Cardinality(S) # Width
    BY <1>5, FS_Subset
  <2>2. Cardinality(S) \in Nat
    BY <2>1, FS_CardinalityType
  <2> QED
    BY <1>5, <2>1, <2>2
<1>7. IsFiniteSet(Preparing) /\ Cardinality(Preparing) <= Cardinality(S)
  BY <1>4, <1>6, FS_Surjection
<1> QED
  BY <1>5, <1>6, <1>7, FS_CardinalityType

\* What is retained lies between the commit and the next job to be sent, and so
\* does the job that a worker is about to prepare.
LEMMA RetainedBound ==
  ASSUME IInv, NEW w \in Worker, worker[w].doing = "taken"
  PROVE  Cardinality(Preparing \cup results \cup Committing) < Window
<1> DEFINE S == Preparing \cup results \cup Committing
           i == worker[w].job
<1>1. w \in Busy /\ i \in Job /\ i \notin prepared /\ i < taken
  BY BusyFacts DEF IInv, OnePlace, Busy
<1>2. i \notin Preparing
  <2> SUFFICES ASSUME NEW v \in Worker, worker[v] = Doing("preparing", i) PROVE FALSE
    BY DEF Preparing
  <2>1. v \in Busy /\ worker[v].job = i /\ v # w
    BY WorkerFacts DEF Busy
  <2> QED
    BY <1>1, <2>1 DEF IInv, OnePlace
<1>3. /\ S \subseteq Job \ committed
      /\ \A j \in S : j < taken
  <2>1. \A j \in Preparing : j \in Job /\ j < taken /\ j \notin prepared
    BY WorkerFacts DEF Preparing, Busy, IInv, OnePlace
  <2>2. \A j \in results \cup Committing : j \in Job /\ j < taken /\ j \notin committed
    BY DEF IInv, TypeOK, OnePlace, CommittedInOrder, ReturnTells, Unwinding, Committing, Job
  <2> QED
    BY <2>1, <2>2 DEF IInv, CommittedInOrder
<1>4. /\ commit \in Nat /\ next \in Nat /\ Window \in Nat /\ next - 1 \in Int
      /\ taken <= next /\ taken \in Nat /\ next <= commit + Window
  BY WindowFacts, OptionsAssumption DEF IInv, TypeOK, PositionsAgree
<1>5. 1 .. commit - 1 \subseteq committed /\ committed \subseteq prepared
  BY DEF IInv, CommittedInOrder
<1>6. S \cup {i} \subseteq commit .. next - 1
  BY <1>1, <1>3, <1>4, <1>5 DEF Job
<1> HIDE DEF i
<1>7. S # commit .. next - 1 /\ S \in SUBSET (commit .. next - 1)
  BY <1>1, <1>2, <1>6 DEF IInv, TypeOK, CommittedInOrder
<1> HIDE DEF S
<1>8. /\ IsFiniteSet(commit .. next - 1)
      /\ Cardinality(commit .. next - 1) <= Window
  <2> DEFINE last == next - 1
  <2>1. last \in Int /\ last - commit + 1 <= Window /\ 0 <= Window
    BY <1>4
  <2> HIDE DEF last
  <2>2. /\ IsFiniteSet(commit .. last)
        /\ Cardinality(commit .. last) = IF commit > last THEN 0 ELSE last - commit + 1
    BY <1>4, <2>1, FS_Interval
  <2> QED
    BY <2>1, <2>2 DEF last
<1>9. /\ Cardinality(S) <= Cardinality(commit .. next - 1)
      /\ Cardinality(S) # Cardinality(commit .. next - 1)
      /\ Cardinality(S) \in Nat /\ Cardinality(commit .. next - 1) \in Nat
  BY <1>7, <1>8, FS_Subset, FS_CardinalityType
<1>10. Cardinality(S) < Window
  BY <1>4, <1>8, <1>9
<1> QED
  BY <1>10 DEF S

\* A worker that is not done with a Prepare changes at most what is being prepared.
LEMMA PreparingChanges ==
  ASSUME IInv, IInv', NEW w \in Worker, Worker' = Worker,
         \A v \in Worker \ {w} : worker'[v] = worker[v]
  PROVE  \A i \in Job :
           /\ worker[w].job # i /\ worker'[w].job # i => (i \in Preparing' <=> i \in Preparing)
           /\ worker[w].doing # "preparing" /\ worker'[w].doing # "preparing"
                => (i \in Preparing' <=> i \in Preparing)
BY WorkerFacts DEF Preparing

\* When a worker starts to prepare a job, the promise has room for it.
LEMMA StartPrepareRefines ==
  ASSUME IInv, IInv', StatesTellPlaces, StatesTellPlaces', NEW w \in Worker, StartPrepare(w)
  PROVE  Kept
<1> DEFINE i == worker[w].job
<1>1. /\ UNCHANGED <<concurrency, cancelled, pc, commit, next, taken, results, prepared, committed>>
      /\ Worker' = Worker /\ Unwinding' = Unwinding /\ Committing' = Committing
      /\ (results \cup Committing)' = results \cup Committing
  BY WorkerLeavesRunAlone DEF StartPrepare
<1>2. /\ worker[w].doing = "taken" /\ w \in Busy /\ i \in Job /\ i \notin prepared /\ i < taken
      /\ \A v \in Worker \ {w} : worker'[v] = worker[v]
  BY BusyFacts DEF IInv, TypeOK, OnePlace, Busy, StartPrepare
<1>3. CASE worker'[w] = Idle
  <2>1. Preparing' = Preparing
    BY <1>1, <1>2, <1>3, PreparingChanges, WorkerFacts DEF Preparing, Job
  <2> QED
    BY <1>1, <2>1, NothingMoves
<1>4. CASE worker'[w] = Doing("preparing", i)
  <2>1. i \notin Preparing /\ i \in Preparing'
    <3>1. \A v \in Worker : worker[v] # Doing("preparing", i)
      BY <1>2, WorkerFacts DEF IInv, OnePlace, Busy
    <3> QED
      BY <1>1, <1>2, <1>4, <3>1 DEF Preparing, Job
  <2> HIDE DEF i
  <2>2. \A j \in Job \ {i} : j \in Preparing' <=> j \in Preparing
    BY <1>1, <1>2, <1>4, PreparingChanges, WorkerFacts DEF i
  <2>3. ASSUME NEW j \in Job \ {i} PROVE StateOf(j)' = StateOf(j)
    <3>1. j \in Preparing' <=> j \in Preparing
      BY <2>2
    <3> QED
      BY <1>1, <3>1 DEF StatesTellPlaces, Promise!State
  <2>4. ASSUME NEW j \in Job, j = i PROVE StateOf(j)' = "preparing" /\ StateOf(j) = "new"
    BY <1>2, <2>1, <2>4 DEF StatesTellPlaces
  <2>5. Jobs[i] = "new" /\ Jobs' = [Jobs EXCEPT ![i] = "preparing"]
    <3>1. /\ Jobs' = [j \in Job |-> StateOf(j)']
          /\ Jobs = [j \in Job |-> StateOf(j)]
      BY DEF Jobs, Job
    <3> QED
      BY <1>2, <2>3, <2>4, <3>1
  <2>6. i \in Barrier => \A j \in 1 .. i - 1 : Jobs[j] = "committed"
    <3> SUFFICES ASSUME i \in Barrier, NEW j \in 1 .. i - 1 PROVE Jobs[j] = "committed"
      OBVIOUS
    <3>1. i <= commit
      BY <1>2 DEF IInv, TypeOK, PositionsAgree, Job
    <3>2. j \in 1 .. commit - 1 /\ j \in Job
      <4>1. i \in Nat /\ i <= Count /\ commit \in Nat
        BY <1>2, OptionsAssumption DEF IInv, TypeOK, Job
      <4> QED
        BY <3>1, <4>1, OptionsAssumption DEF Job
    <3> QED
      BY <3>2 DEF IInv, CommittedInOrder, StatesTellPlaces, Jobs
  <2>7. /\ Promise!Are("preparing") = Preparing
        /\ Promise!Are("prepared") = results \cup Committing
    <3>1. Preparing \subseteq Job /\ results \cup Committing \subseteq Job
      BY DEF IInv, TypeOK, Preparing, Committing
    <3> QED
      BY <3>1 DEF StatesTellPlaces, Promise!Are, Promise!Job, Job
  <2>8. Cardinality(Preparing) < concurrency
    <3>1. Cardinality(Preparing) < Width /\ Cardinality(Preparing) \in Nat
      BY <1>2, PreparingBound, FS_CardinalityType
    <3>2. Width <= concurrency /\ Width \in Nat /\ concurrency \in Nat
      BY OptionsAssumption DEF IInv, TypeOK, Width
    <3> QED
      BY <3>1, <3>2
  <2>9. Cardinality(Preparing \cup (results \cup Committing)) < Promise!Window
    <3>1. Preparing \cup (results \cup Committing) = Preparing \cup results \cup Committing
      OBVIOUS
    <3>2. Cardinality(Preparing \cup results \cup Committing) < Window
      BY <1>2, RetainedBound
    <3>3. IsFiniteSet(Preparing \cup results \cup Committing)
      <4>1. Preparing \cup results \cup Committing \in SUBSET (1 .. Count)
        BY DEF IInv, TypeOK, Preparing, Committing, Job
      <4>2. IsFiniteSet(1 .. Count)
        BY OptionsAssumption, FS_Interval
      <4> QED
        BY <4>1, <4>2, FS_Subset
    <3>4. Cardinality(Preparing \cup results \cup Committing) \in Nat
      BY <3>3, FS_CardinalityType
    <3>5. Window <= Promise!Window /\ Window \in Nat /\ Promise!Window \in Nat
      BY WindowFacts, OptionsAssumption DEF IInv, TypeOK, Promise!Window
    <3> QED
      BY <3>1, <3>2, <3>4, <3>5
  <2>10. Promise!Prepare(i)
    BY <1>1, <2>5, <2>6, <2>7, <2>8, <2>9
       DEF Promise!Prepare, Jobs, Unwinding, Cardinality, Promise!Cardinality
  <2> QED
    BY <1>1, <1>2, <2>10 DEF Kept, Promise!Next, Promise!Job, Job, i
<1> QED
  BY <1>3, <1>4 DEF StartPrepare, IInv, TypeOK

LEMMA FinishPrepareRefines ==
  ASSUME IInv, IInv', StatesTellPlaces, StatesTellPlaces', NEW w \in Worker, FinishPrepare(w)
  PROVE  Kept
<1> DEFINE i == worker[w].job
<1>1. /\ UNCHANGED <<concurrency, committed>>
      /\ Worker' = Worker /\ Unwinding' = Unwinding /\ Committing' = Committing
      /\ results' = results \cup {i} /\ prepared' = prepared \cup {i}
  BY WorkerLeavesRunAlone DEF FinishPrepare
<1>2. /\ worker[w] = Doing("preparing", i) /\ i \in Job
      /\ worker'[w] = Idle
      /\ \A v \in Worker \ {w} : worker'[v] = worker[v]
  BY BusyFacts DEF IInv, TypeOK, Busy, FinishPrepare
<1>3. i \in Preparing
  BY <1>2 DEF Preparing
<1>4. \A j \in Job \ {i} : j \in Preparing' <=> j \in Preparing
  BY <1>1, <1>2, WorkerFacts DEF Preparing
<1> HIDE DEF i
<1>5. ASSUME NEW j \in Job \ {i} PROVE StateOf(j)' = StateOf(j)
  <2>1. j \in Preparing' <=> j \in Preparing
    BY <1>4
  <2>2. /\ j \in (results \cup Committing)' <=> j \in results \cup Committing
        /\ j \in prepared' <=> j \in prepared
    BY <1>1
  <2> QED
    BY <1>1, <2>1, <2>2 DEF StatesTellPlaces, Promise!State
<1>6. ASSUME NEW j \in Job, j = i PROVE StateOf(j)' = "prepared" /\ StateOf(j) = "preparing"
  BY <1>1, <1>3, <1>6 DEF StatesTellPlaces
<1>7. Jobs[i] = "preparing" /\ Jobs' = [Jobs EXCEPT ![i] = "prepared"]
  <2>1. /\ Jobs' = [j \in Job |-> StateOf(j)']
        /\ Jobs = [j \in Job |-> StateOf(j)]
    BY DEF Jobs, Job
  <2> QED
    BY <1>2, <1>5, <1>6, <2>1
<1>8. Promise!Prepared(i)
  BY <1>1, <1>7 DEF Promise!Prepared, Jobs, Unwinding
<1> QED
  BY <1>1, <1>2, <1>8 DEF Kept, Promise!Next, Promise!Job, Job

LEMMA WorkerRefines ==
  ASSUME IInv, IInv', StatesTellPlaces, StatesTellPlaces', NEW w \in Worker, Prepare(w)
  PROVE  Kept
<1>1. CASE TakeJob(w) \/ ExitWorker(w)
  <2>1. /\ UNCHANGED <<concurrency, committed, prepared, results>>
        /\ Worker' = Worker /\ Unwinding' = Unwinding /\ Committing' = Committing
    BY <1>1, WorkerLeavesRunAlone DEF TakeJob, ExitWorker
  <2>2. /\ worker[w] = Idle /\ worker'[w].doing # "preparing"
        /\ \A v \in Worker \ {w} : worker'[v] = worker[v]
    BY <1>1, WorkerFacts DEF TakeJob, ExitWorker, IInv, TypeOK
  <2>3. Preparing' = Preparing
    BY <2>1, <2>2, PreparingChanges, WorkerFacts DEF Preparing, Job
  <2> QED
    BY <2>1, <2>3, NothingMoves
<1> QED
  BY <1>1, StartPrepareRefines, FinishPrepareRefines DEF Prepare

LEMMA InitRefines == Init => Promise!Init
<1> SUFFICES ASSUME Init PROVE Promise!Init
  OBVIOUS
<1>1. Preparing = {} /\ Committing = {}
  BY WorkerFacts DEF Init, Preparing, Committing
<1>2. \A i \in Job : StateOf(i) = "new"
  BY <1>1 DEF Init, StateOf
<1> QED
  BY <1>2, OptionsAssumption DEF Init, Promise!Init, Promise!Job, Job

LEMMA StepRefines ==
  IInv /\ IInv' /\ StatesTellPlaces /\ StatesTellPlaces' /\ [Next]_vars => Kept
<1> SUFFICES ASSUME IInv, IInv', StatesTellPlaces, StatesTellPlaces', [Next]_vars PROVE Kept
  OBVIOUS
<1>1. CASE CancelContext \/ Stopped \/ UNCHANGED vars
  <2>1. UNCHANGED <<concurrency, pc, commit, worker, results, prepared, committed>>
    BY <1>1 DEF CancelContext, Stopped, vars, runLocals
  <2>2. Preparing' = Preparing /\ Committing' = Committing /\ Unwinding' = Unwinding
    BY <2>1 DEF Preparing, Committing, Unwinding, Worker, Width
  <2> QED
    BY <2>1, <2>2, NothingMoves
<1> QED
  BY <1>1, RunRefines, WorkerRefines DEF Next

(***************************************************************************)
(* Run implements OrderedCommit: however preparation, commits, failures    *)
(* and the end of the context interleave, jobs are prepared within the     *)
(* bounds and after the barriers before them, committed in input order and *)
(* never after a failure, and what was prepared in vain is discarded.      *)
(***************************************************************************)
THEOREM Refinement == Spec => ImplementsOrderedCommit
<1>1. Kept => [Promise!Next]_<<concurrency, Jobs, Unwinding>>
  BY DEF Kept
<1>2. [Promise!Next]_<<concurrency, Jobs, Unwinding>>
        => [Promise!Next]_<<concurrency, [i \in Job |-> StateOf(i)],
                            pc \in {"unwind", "join", "returned"}>>
  BY DEF Jobs, Unwinding
<1> QED
  BY <1>1, <1>2, Invariance, Places, InitRefines, StepRefines, PTL
     DEF Spec, ImplementsOrderedCommit, Promise!Spec
=============================================================================
