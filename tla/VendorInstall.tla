---------------------------- MODULE VendorInstall ----------------------------
(***************************************************************************)
(* pkg/vendoring/install and pkg/vendoring/lockfile: processes that pull   *)
(* the vendored packages of a project, and clean them, at the same time.   *)
(*                                                                         *)
(* A pull first finds out which packages are needed, then prepares them    *)
(* concurrently and installs them in declaration order (pkg/vendoring/     *)
(* ordered, module OrderedBatch).  To install a package is a transaction   *)
(* over the files of the project and the receipts of the lockfile, under   *)
(* a lock file for each of the two; a snapshot undoes one that fails.      *)
(* Any step on files may fail, and a process may crash at any point.       *)
(*                                                                         *)
(* Packages are numbered in declaration order.  Each has two versions: the *)
(* one that an earlier pull installed, and the one that is declared now.   *)
(* The content of a file is abstracted to the package and the version that *)
(* it comes from, a receipt to its version.  Paths and receipts are        *)
(* relative to the project, as in the code.                                *)
(***************************************************************************)
EXTENDS Integers, FiniteSets, FiniteSetsExt

CONSTANTS
  Process,  \* the processes
  Count,    \* how many packages are declared
  Path,     \* the files that packages may consist of
  Files,    \* Files[i][v] : the files of version v of package i
  Layouts   \* which project and which lockfile each process may work on

Package == 1 .. Count
Old == 1
Declared == 2
Nobody == "nobody"

ASSUME VendorInstallAssumption ==
  /\ Count \in Nat
  /\ Nobody \notin Process
  /\ Files \in [Package -> [{Old, Declared} -> SUBSET Path]]
  /\ \A layout \in Layouts : {"project", "lockfile"} \subseteq DOMAIN layout

VARIABLES
  layout,       \* the project and the lockfile of each process
  disk,         \* the files of each project
  receipts,     \* the version in each receipt of each lockfile, 0 for no receipt
  projectLock,  \* who holds .atmos/vendor-mutation.lock of each project
  receiptLock,  \* who holds the lock of each lockfile
  pc,           \* where each process is
  prep,         \* what each of its packages waits for
  commit,       \* the package that it commits
  tx,           \* its transaction, while it holds the locks
  settled       \* the pulls that began after the last failure of any process

files == <<disk, receipts>>
locks == <<projectLock, receiptLock>>
vars == <<layout, files, locks, pc, prep, commit, tx, settled>>

-----------------------------------------------------------------------------
Absent == <<0, "absent">>
Edited == <<0, "edited">>
Content(i, version) == <<i, version>>
FilesIn(i, version) == IF version = 0 THEN {} ELSE Files[i][version]

NoTx == [left |-> {}]
NoPrep == [i \in Package |-> "none"]

Project(p) == layout.project[p]
Lockfile(p) == layout.lockfile[p]
Disk(p) == disk[Project(p)]
Receipts(p) == receipts[Lockfile(p)]

\* An earlier pull installed some packages, and users may have edited or
\* removed any files since.
Init ==
  /\ layout \in Layouts
  /\ receipts \in [{layout.lockfile[p] : p \in Process} -> [Package -> {0, Old}]]
  /\ disk \in [{layout.project[p] : p \in Process} -> [Path ->
       {Absent, Edited} \cup {Content(i, Old) : i \in Package}]]
  /\ \A p \in Process, f \in Path, i \in Package :
       disk[layout.project[p]][f] = Content(i, Old) =>
         f \in FilesIn(i, receipts[layout.lockfile[p]][i])
  /\ projectLock = [b \in DOMAIN disk |-> Nobody]
  /\ receiptLock = [l \in DOMAIN receipts |-> Nobody]
  /\ pc = [p \in Process |-> "idle"]
  /\ prep = [p \in Process |-> NoPrep]
  /\ commit = [p \in Process |-> 1]
  /\ tx = [p \in Process |-> NoTx]
  /\ settled = {}

At(p, label) == pc[p] = label
Goto(p, label) == pc' = [pc EXCEPT ![p] = label]

-----------------------------------------------------------------------------
(* lockfile.WithMutation: the lock of the project, then the lock of the    *)
(* lockfile.                                                               *)

\* Variant with a bug: the project is not locked.
AnyProject(p) == Project(p) \in DOMAIN projectLock

ProjectFree(p) == projectLock[Project(p)] = Nobody

\* Variant with a bug: the lockfile is not locked.
AnyLockfile(p) == Lockfile(p) \in DOMAIN receiptLock

ReceiptsFree(p) == receiptLock[Lockfile(p)] = Nobody

LockProject(p) ==
  /\ ProjectFree(p)
  /\ projectLock' = [projectLock EXCEPT ![Project(p)] = p]

LockReceipts(p) ==
  /\ ReceiptsFree(p)
  /\ receiptLock' = [receiptLock EXCEPT ![Lockfile(p)] = p]

\* Variant with a bug: the lock of the project stays behind.
UnlockReceiptsOnly(p) ==
  /\ projectLock' = projectLock
  /\ receiptLock' = [l \in DOMAIN receiptLock |->
       IF receiptLock[l] = p THEN Nobody ELSE receiptLock[l]]

Unlock(p) ==
  /\ projectLock' = [b \in DOMAIN projectLock |->
       IF projectLock[b] = p THEN Nobody ELSE projectLock[b]]
  /\ receiptLock' = [l \in DOMAIN receiptLock |->
       IF receiptLock[l] = p THEN Nobody ELSE receiptLock[l]]

-----------------------------------------------------------------------------
(* lockfile.IsMaterialized, and what filterPending and prepare make of it. *)

\* Each check reads all it reads under both locks, which are not held between
\* two checks: one step each.
CanCheck(p) == ProjectFree(p) /\ ReceiptsFree(p)

Materialized(p, i) ==
  /\ Receipts(p)[i] = Declared
  /\ \A f \in Files[i][Declared] : Disk(p)[f] = Content(i, Declared)

Uninstalled(p, i) ==
  /\ Receipts(p)[i] = Declared
  /\ \A f \in Files[i][Declared] : Disk(p)[f] = Absent

Drifted(p) == {i \in Package : ~Materialized(p, i) /\ ~Uninstalled(p, i)}

\* What is needed is fetched to staging directories, which nobody else sees: it
\* is ready when it is to be committed, unless fetching it fails.
StartBatch(p, needed) ==
  /\ At(p, "idle")
  /\ Goto(p, "run")
  /\ prep' = [prep EXCEPT ![p] =
       [i \in Package |-> IF i \in needed THEN "ready" ELSE "recheck"]]
  /\ settled' = settled \cup {p}
  /\ UNCHANGED <<layout, files, locks, commit, tx>>

Preflight(p) == CanCheck(p) /\ StartBatch(p, {i \in Package : ~Materialized(p, i)})

\* With RefreshLock everything is installed and nothing is read.
PreflightOfRefresh(p) == StartBatch(p, Package)

\* Strict lock enforcement refuses the batch.
PreflightRefuses(p) ==
  /\ At(p, "idle")
  /\ CanCheck(p)
  /\ Drifted(p) # {}
  /\ Goto(p, "ended")
  /\ UNCHANGED <<layout, files, locks, prep, commit, tx, settled>>

Rechecked(p) == {i \in Package : prep[p][i] = "recheck"}

\* Variant with a bug: packages are checked again at any time.
NoBarrier(p) == {}

\* Packages to be checked again wait for what is installed before them.
Barrier(p) == Rechecked(p)

\* What is no longer as declared is fetched like the others.
Recheck(p) ==
  /\ CanCheck(p)
  /\ \E i \in Rechecked(p) :
       /\ i \in Barrier(p) => At(p, "run") /\ commit[p] = i
       /\ prep' = [prep EXCEPT ![p][i] =
            IF Materialized(p, i) THEN "unchanged" ELSE "ready"]
  /\ UNCHANGED <<layout, files, locks, pc, commit, tx, settled>>

-----------------------------------------------------------------------------
(* batchInstaller.commit, called by the loop of ordered.Run.               *)

\* The loop goes on with the next package, however the commit ends.
Proceed(p) ==
  /\ Goto(p, "run")
  /\ prep' = [prep EXCEPT ![p][commit[p]] = "none"]
  /\ commit' = [commit EXCEPT ![p] = @ + 1]
  /\ tx' = [tx EXCEPT ![p] = NoTx]
  /\ UNCHANGED layout

Done(p) == Proceed(p) /\ UNCHANGED settled
Failed(p) == Proceed(p) /\ settled' = {}

Commits(p, waitsFor) ==
  At(p, "run") /\ commit[p] \in Package /\ prep[p][commit[p]] = waitsFor

CommitUnchanged(p) == Commits(p, "unchanged") /\ Done(p) /\ UNCHANGED <<files, locks>>

\* A package could not be fetched or checked.
CommitFailed(p) ==
  /\ Commits(p, "ready") \/ Commits(p, "recheck")
  /\ Failed(p)
  /\ UNCHANGED <<files, locks>>

\* WithMutation has the lock of the project and waits for that of the lockfile.
Lock(p) ==
  /\ Commits(p, "ready")
  /\ LockProject(p)
  /\ Goto(p, "locking")
  /\ UNCHANGED <<layout, files, receiptLock, prep, commit, tx, settled>>

-----------------------------------------------------------------------------
(* PreparedRecord.Materialize, from here on regardless of the context.     *)

\* Variant with a bug: what only the previous receipt owns is not backed up.
RootsOfRecord(p, i) == Files[i][Declared]

\* The targets of the new and of the previous receipt.
Roots(p, i) == Files[i][Declared] \cup FilesIn(i, Receipts(p)[i])

\* `before` records what the transaction finds, to state its properties.
Snapshot(p) ==
  /\ At(p, "locking")
  /\ LockReceipts(p)
  /\ tx' = [tx EXCEPT ![p] =
       [left     |-> Files[commit[p]][Declared],
        snapshot |-> [f \in Roots(p, commit[p]) |-> Disk(p)[f]],
        loaded   |-> Receipts(p),
        before   |-> [disk |-> Disk(p), receipts |-> Receipts(p)]]]
  /\ Goto(p, "copy")
  /\ UNCHANGED <<layout, files, projectLock, prep, commit, settled>>

SnapshotFails(p) ==
  /\ At(p, "locking")
  /\ ReceiptsFree(p)
  /\ Unlock(p)
  /\ Failed(p)
  /\ UNCHANGED files

Write(p, written) == disk' = [disk EXCEPT ![Project(p)] = written]

Copy(p) ==
  /\ At(p, "copy")
  /\ \E f \in tx[p].left :
       /\ Write(p, [Disk(p) EXCEPT ![f] = Content(commit[p], Declared)])
       /\ tx' = [tx EXCEPT ![p].left = @ \ {f}]
  /\ UNCHANGED <<layout, receipts, locks, pc, prep, commit, settled>>

CopyFails(p) ==
  /\ At(p, "copy")
  /\ Goto(p, "restore")
  /\ UNCHANGED <<layout, files, locks, prep, commit, tx, settled>>

\* Variant with a bug: only the receipt of the package itself is looked at.
OwnedByNobody(p, i) == {}

OwnedByOthers(p, i) == UNION {FilesIn(j, Receipts(p)[j]) : j \in Package \ {i}}

Stale(p, i) ==
  {f \in FilesIn(i, Receipts(p)[i]) \ (Files[i][Declared] \cup OwnedByOthers(p, i)) :
     Disk(p)[f] # Absent}

Modified(p, i) == {f \in Stale(p, i) : Disk(p)[f] # Content(i, Receipts(p)[i])}

Without(p, paths) == [f \in Path |-> IF f \in paths THEN Absent ELSE Disk(p)[f]]

\* replaceUnlocked loads the lockfile and prunes; it refuses a modified file.
Prune(p) ==
  /\ At(p, "copy")
  /\ tx[p].left = {}
  /\ Modified(p, commit[p]) = {}
  /\ Write(p, Without(p, Stale(p, commit[p])))
  /\ tx' = [tx EXCEPT ![p].loaded = Receipts(p)]
  /\ Goto(p, "save")
  /\ UNCHANGED <<layout, receipts, locks, prep, commit, settled>>

\* It refuses, or a file cannot be removed, after some are.
PruneFails(p) ==
  /\ At(p, "copy")
  /\ tx[p].left = {}
  /\ \E pruned \in SUBSET (Stale(p, commit[p]) \ Modified(p, commit[p])) :
       Write(p, Without(p, pruned))
  /\ Goto(p, "restore")
  /\ UNCHANGED <<layout, receipts, locks, prep, commit, tx, settled>>

\* The lockfile is replaced by a rename, the backup removed, the locks released.
\* A backup that cannot be removed is an error, although all is installed.
Save(p) ==
  /\ At(p, "save")
  /\ receipts' = [receipts EXCEPT ![Lockfile(p)] =
       [tx[p].loaded EXCEPT ![commit[p]] = Declared]]
  /\ Unlock(p)
  /\ Done(p) \/ Failed(p)
  /\ UNCHANGED disk

SaveFails(p) ==
  /\ At(p, "save")
  /\ Goto(p, "restore")
  /\ UNCHANGED <<layout, files, locks, prep, commit, tx, settled>>

Restored(p, paths) ==
  [f \in Path |-> IF f \in paths THEN tx[p].snapshot[f] ELSE Disk(p)[f]]

Restore(p) ==
  /\ At(p, "restore")
  /\ Write(p, Restored(p, DOMAIN tx[p].snapshot))
  /\ Unlock(p)
  /\ Failed(p)
  /\ UNCHANGED receipts

\* Some targets cannot be restored; the backup is kept.
RestoreFails(p) ==
  /\ At(p, "restore")
  /\ \E paths \in SUBSET DOMAIN tx[p].snapshot : Write(p, Restored(p, paths))
  /\ Goto(p, "torn")
  /\ UNCHANGED <<layout, receipts, locks, prep, commit, tx, settled>>

LeaveTorn(p) ==
  /\ At(p, "torn")
  /\ Unlock(p)
  /\ Failed(p)
  /\ UNCHANGED files

-----------------------------------------------------------------------------
(* How a batch ends.                                                       *)

\* The process is gone, and its locks are released.
Gone(p, label) ==
  /\ Unlock(p)
  /\ Goto(p, label)
  /\ prep' = [prep EXCEPT ![p] = NoPrep]
  /\ commit' = [commit EXCEPT ![p] = 1]
  /\ tx' = [tx EXCEPT ![p] = NoTx]
  /\ UNCHANGED <<layout, files>>

End(p) ==
  /\ At(p, "run")
  /\ commit[p] \notin Package
  /\ Gone(p, "ended")
  /\ UNCHANGED settled

\* The context ends: between two commits, or waiting for a lock.  A transaction
\* that has both locks goes on, and the end of the context is seen after it.
Cancelled(p) ==
  /\ At(p, "run") \/ At(p, "locking")
  /\ commit[p] \in Package
  /\ Gone(p, "ended")
  /\ settled' = {}

\* A process crashes, and the operating system releases its locks.
Crash(p) ==
  /\ pc[p] \notin {"idle", "ended", "crashed"}
  /\ Gone(p, "crashed")
  /\ settled' = {}

-----------------------------------------------------------------------------
(* lockfile.CleanSelectedContext, instead of a pull.                       *)

LockForClean(p) ==
  /\ At(p, "idle")
  /\ LockProject(p)
  /\ Goto(p, "cleaning")
  /\ UNCHANGED <<layout, files, receiptLock, prep, commit, tx, settled>>

\* The files that receipts of the selected packages own and no others do.
Removable(p, selected) ==
  (UNION {FilesIn(i, Receipts(p)[i]) : i \in selected})
    \ (UNION {FilesIn(i, Receipts(p)[i]) : i \in Package \ selected})

Conflict(p, selected, f) ==
  /\ Disk(p)[f] # Absent
  /\ \E i \in selected :
       /\ f \in FilesIn(i, Receipts(p)[i])
       /\ Disk(p)[f] # Content(i, Receipts(p)[i])

\* All files are removed, and with PruneLock the receipts; or removing fails
\* after some, with the receipts as they were.
Clean(p) ==
  /\ At(p, "cleaning")
  /\ ReceiptsFree(p)
  /\ \E selected \in (SUBSET Package) \ {{}}, force \in BOOLEAN :
       /\ force \/ \A f \in Removable(p, selected) : ~Conflict(p, selected, f)
       /\ \/ /\ Write(p, Without(p, Removable(p, selected)))
             /\ receipts' \in {receipts, [receipts EXCEPT ![Lockfile(p)] =
                  [i \in Package |-> IF i \in selected THEN 0 ELSE @[i]]]}
          \/ /\ \E removed \in SUBSET Removable(p, selected) :
                  Write(p, Without(p, removed))
             /\ UNCHANGED receipts
  /\ Unlock(p)
  /\ Goto(p, "ended")
  /\ settled' = {}
  /\ UNCHANGED <<layout, prep, commit, tx>>

Begin(p) == Preflight(p) \/ PreflightOfRefresh(p) \/ PreflightRefuses(p) \/ LockForClean(p)

Proceeds(p) ==
  \/ Recheck(p) \/ CommitUnchanged(p) \/ Lock(p) \/ Snapshot(p) \/ Copy(p) \/ Prune(p)
  \/ PruneFails(p) \/ Save(p) \/ Restore(p) \/ LeaveTorn(p) \/ End(p) \/ Clean(p)

Mishap(p) ==
  \/ CommitFailed(p) \/ SnapshotFails(p) \/ CopyFails(p) \/ SaveFails(p) \/ RestoreFails(p)
  \/ Cancelled(p) \/ Crash(p)

Next == \E p \in Process : Begin(p) \/ Proceeds(p) \/ Mishap(p)

Spec == Init /\ [][Next]_vars

\* A process that has begun goes on, whether or not something goes wrong.
FairSpec == Spec /\ \A p \in Process : WF_vars(Proceeds(p))

-----------------------------------------------------------------------------
\* Active processes are between their first step and their end.
Active(p) == pc[p] \notin {"idle", "ended", "crashed"}

Claimants(f) == {i \in Package : f \in Files[i][Declared]}

\* Once all processes are done, and some pull began after whatever went
\* wrong, every file is that of the last package that declares it: packages are
\* installed in declaration order, and those that looked up to date are checked
\* again after all before them.
LastDeclarationWins ==
  \A p \in settled :
    (\A q \in Process : Project(q) = Project(p) => ~Active(q)) =>
      \A f \in Path : Claimants(f) # {} => Disk(p)[f] = Content(Max(Claimants(f)), Declared)

\* The files and receipts found by the transaction with all of its effect.
Installed(p) ==
  LET i == commit[p]
      before == tx[p].before
      owned == UNION {FilesIn(j, before.receipts[j]) : j \in Package \ {i}}
  IN  /\ Receipts(p)' = [before.receipts EXCEPT ![i] = Declared]
      /\ \A f \in Path :
           IF f \in Files[i][Declared] THEN Disk(p)'[f] = Content(i, Declared)
           ELSE \/ Disk(p)'[f] = before.disk[f]
                \/ Disk(p)'[f] = Absent /\ f \notin owned

\* A transaction that ends, whichever of its steps fail, has either installed the
\* package without touching what other packages own, or left the files of the
\* project and the receipts as it found them; it can only be torn when the restore
\* fails too, which keeps the backup.
AllOrNothing ==
  [][\A p \in Process :
       tx[p] # NoTx /\ pc'[p] = "run" =>
         \/ Installed(p)
         \/ Disk(p)' = tx[p].before.disk /\ Receipts(p)' = tx[p].before.receipts
         \/ At(p, "torn")]_vars

\* The receipt of a package that was installed stays in the lockfile, whatever
\* other processes with the same lockfile write, until a clean forgets it in
\* the step that ends it.
ReceiptsAreKept ==
  [][\A l \in DOMAIN receipts, i \in Package :
       receipts[l][i] = Declared =>
         \/ receipts'[l][i] = Declared
         \/ \E p \in Process :
              At(p, "cleaning") /\ pc'[p] = "ended" /\ Lockfile(p) = l]_vars

\* Every process that has begun comes to an end, although each waits for one
\* lock while it holds another.
EveryProcessEnds == \A p \in Process : []<>(~Active(p))
=============================================================================
