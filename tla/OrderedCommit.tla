---------------------------- MODULE OrderedCommit ----------------------------
(***************************************************************************)
(* What pkg/vendoring/ordered promises: jobs are prepared concurrently,    *)
(* within bounds, and committed one after the other in input order; what   *)
(* was prepared in vain is discarded.                                      *)
(***************************************************************************)
EXTENDS Integers, FiniteSets

CONSTANTS Count, Barrier

VARIABLES
  concurrency,  \* how many jobs may be prepared at the same time
  job,          \* what has become of each job
  halted        \* no more commits

Job == 1 .. Count
State == {"new", "preparing", "prepared", "committed", "discarded"}
Are(state) == {i \in Job : job[i] = state}

\* How many may be prepared or being prepared; a single one at a time if serial.
Window == IF concurrency = 1 THEN 1 ELSE 2 * concurrency

Init ==
  /\ concurrency \in Nat
  /\ job = [i \in Job |-> "new"]
  /\ halted = FALSE

\* A barrier is prepared only after its predecessors are committed.
Prepare(i) ==
  /\ job[i] = "new"
  /\ i \in Barrier => \A j \in 1 .. i - 1 : job[j] = "committed"
  /\ Cardinality(Are("preparing")) < concurrency
  /\ Cardinality(Are("preparing") \cup Are("prepared")) < Window
  /\ job' = [job EXCEPT ![i] = "preparing"]
  /\ UNCHANGED halted

Prepared(i) ==
  /\ job[i] = "preparing"
  /\ job' = [job EXCEPT ![i] = "prepared"]
  /\ UNCHANGED halted

\* The commit of a job may fail, and then it is the last one.
Commit(i) ==
  /\ ~halted
  /\ job[i] = "prepared"
  /\ \A j \in 1 .. i - 1 : job[j] = "committed"
  /\ job' = [job EXCEPT ![i] = "committed"]
  /\ halted' \in BOOLEAN

\* Run stops, when all is committed or earlier.
Halt == halted' = TRUE /\ UNCHANGED job

\* Any of the prepared jobs are discarded.
Discard ==
  /\ job' \in [Job -> State]
  /\ \A i \in Job : job'[i] # job[i] => job[i] = "prepared" /\ job'[i] = "discarded"
  /\ halted' = TRUE

Next ==
  /\ \/ \E i \in Job : Prepare(i) \/ Prepared(i) \/ Commit(i)
     \/ Halt
     \/ Discard
  /\ UNCHANGED concurrency

Spec == Init /\ [][Next]_<<concurrency, job, halted>>
=============================================================================
