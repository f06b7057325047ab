# Formal models of the staging orchestrator

The repository builds a set of sector ranking pipelines and a portfolio on top
of them.  Hundreds of batch programs do the computing; what decides whether
their results may be trusted is the code that runs them: the machine-wide
orchestration lock, the cross-sector master `orchestration/run_all.py` and its
catch-up mode, the nightly wrapper, the provider ingestion, the portfolio
pipeline's runner, and the transaction that puts a machinery model into
production.  That code is concurrent (threads, subprocesses, several masters
and dispatchers on one machine), survives kills and restarts through files, and
is what these TLA+ modules model.

`PROJECT.json` maps every definition to the lines it models, lists the runs, the
mutants that show each property can fail, the hazards and the theorems.

## 1. The system

### Components, their state and their operations

| Component | Source | State | Operations | Makes it correct |
|---|---|---|---|---|
| Orchestration lock | `orchestration/run_all.py` 1413-1734 | lock file (pid, start, children), its descriptor, the recovery mutex file | create, recover a stale lock, write, register and unregister children, release | one owner at a time; only lapsed locks are removed; a stale lock goes away |
| Its two other owners | `industrials/machinery/stage12_activation_transaction.py` 116-166, `portfolio_layer/orchestration/18_run_portfolio_pipeline.py` 142-227 | the same file | create or refuse, borrow from the parent, release | never beside another owner; the owner's child is let in |
| Master run | `run_all.py` 2426-3268, 3427-3678 | results, network semaphore, `master_manifest.json`, published artifacts | lanes, retries, checkpoints, gate, downstream jobs, freshness, seal, resume, reconcile | a sealed PASS is earned; records are opened and closed once; resume skips only what passed; the run ends |
| Catch-up | `run_all.py` 735-982, 1183-1325, 2052-2092, 2460-2617, 3396-3424 | dated artifacts, the sector's root, `backfill_gap_markers.json` | plan, prerequisites, backfill groups, target, bookkeeping, operator's markers | accepted means on the target; gaps are closed or given up; operator's decisions stand |
| Nightly wrapper | `orchestration/run_nightly.py` | nightly manifest | close abandoned nights, defer to a running orchestrator, reconcile, run a master, reconcile, seal | a PASS is its own master's; the master runs whatever became of the reconciliation |
| Late statement reconciliation | `orchestration/reconcile_late_ib_statements.py` | the two metas of a recovery, ledger, book | ledger run, coverage audit, run of what follows the ledger | a missing ledger is not silent |
| Provider ingestion | `portfolio_layer/provider_ingestion/run_due.py`, `capture.py`, `store.py` | dispatch attempts and capture runs in SQLite, two file locks, artifacts on disk | sweep, choose, dispatch, capture, seal, verify | a phase that passed was captured; captures form one chain; a clean exit misses nothing |
| Portfolio pipeline | `portfolio_layer/orchestration/18_run_portfolio_pipeline.py`, `portfolio_layer/core/artifacts.py`, `contracts.py` | the run directory with its sealed manifests, the orchestration meta | plan a cadence, skip sealed stages, force, recover, invalidate, seal | an accepted stage was built from what is there; an unfinished folder can be finished |
| Stage 12 activation | `industrials/machinery/stage12_activation_transaction.py`, `stage12_activation.py` | portfolio config and its backup, live dashboard and its snapshot, record, activation state, result | prepare, commit, publish, smoke, activate, roll back | the scorer applies only what was smoked; the reported verdict is true |
| Sector packages, portfolio models, research, parsers, reports | the other directories | their own databases and outputs | batch programs | out of reach, see section 7 |

### How they interact

* Master, activation and direct portfolio run compete for **one lock file**.
  Only the master recovers a stale one, under an OS advisory mutex.
* The owner starts children with its pid in `STAGING_ORCHESTRATOR_PID`; a
  portfolio child compares it with the pid in the file and **borrows** the lock.
  Owners rewrite the file in place as children come and go.
* Inside a master each database group is a **lane** (a thread).  Lanes share a
  network semaphore, the results dictionary and the manifest file, under a lock.
* Tier-1 jobs run in the main thread behind the **gate** over Tier-0.
* Manifests are read by **later masters**, to close runs that died and to
  resume, and by the **nightly**, which takes the newest one that was not there
  before it started its master.
* Lanes of a catch-up master share the **marker file** under a thread lock; the
  operator's `--mark-gap` and `--clear-gap` write it from another process.
* A nightly runs the reconciler before and after its master; the reconciler
  starts **portfolio runs** of its own, with lists of groups, on the lock.
* Dispatchers start **captures** as children and wait for them with a timeout;
  captures, migrations and dispatchers share a database under a writer lock.
* The stages of a portfolio run talk through **sealed manifests** in one dated
  directory: the runner accepts or rebuilds a stage by them, and a stage that
  is rebuilt unlinks those of its dependents.
* A daily **scorer** reads the files of the activation transaction without a
  lock, and applies the machinery model or not.

### What is hard

Interleaving (three reads and an unlink in recovery; truncation and write of
the lock seen by a borrower; the marker file's two kinds of writer; two
dispatchers between a read of the store and a write; an activation checked
before its lock is taken), crashes (between Popen and registration, between two
checkpoints, between a backfill and the target, between two unlinks of an
invalidation, anywhere in a transaction), timeouts against late answers (a child
cut off after it stored its capture), exceptions that leave through `finally` or
a repair, state computed early and used late (`overall`, the resume records, the
flags of a transaction, sealed manifests over files that were rebuilt since), and
counters with thresholds.  `PROJECT.json` lists each hazard at its line, with
the property that watches it or the reason why none does.

## 2. Modules

| Module | Models |
|---|---|
| `OrchestrationLock` | the lock file, its three kinds of owner and its borrowers |
| `RunRecord` | what a set of run records promises: opened once, only added to, closed once |
| `MasterRun` | daily masters one after another, from lanes to seal, with resume and reconciliation; implements `RunRecord` |
| `CatchUp` | catch-up masters night after night, from plan to bookkeeping, with the operator and crashes |
| `Nightly` | nightlies, their masters and reconcilers, and operators' masters, on the lock |
| `ProviderDispatch` | dispatchers, captures and a migration over one store, for a day |
| `PortfolioPipeline` | portfolio runs over one dated directory |
| `ActivationTransaction` | the Stage 12 transactions of one cycle, and the scorer |
| `MC...` | instances for TLC: definitions of functions and lists, and symmetry |
| `...Proofs` | inductive invariants and theorems of `OrchestrationLock`, `MasterRun`, `CatchUp`, `ProviderDispatch`, `Nightly`, `PortfolioPipeline`, `ActivationTransaction` |

`MasterRun`, `CatchUp`, `Nightly`, `PortfolioPipeline` and
`ActivationTransaction` use the lock as `OrchestrationLock` shows it to work: one
owner at a time, and none while a recorded child of a dead owner runs.

Operators named `X_Variant` are not part of a model: each is `X` with one
plausible bug, and a property of a run is shown to depend on `X` by putting it
in `X`'s place.

### OrchestrationLock

A process is one incarnation of a program: `_holder_alive` compares creation
times, so on Windows a recycled pid does not impersonate an owner (on POSIX
there is no such check, and recycling is left out; children's pids are probed
without it, and recycling is left out there too).  Since a process creates at
most one file, `path` names the file at the lock's path by its creator, and
`text`, `rec`, `aged`, `fd` describe every file, the one at the path and those
already unlinked.

| State | Code |
|---|---|
| `pc` | where the process is in `__enter__`, in its body, in `__exit__` |
| `path`, `text`, `rec`, `aged` | the file: `torn` between `ftruncate` and `write` |
| `fd` | the open descriptor; a direct run closes its own after the first write |
| `mutex` | `_RecoveryMutex` |
| `look` | `recorded_pid` and `alive`, locals of the inspection |
| `guarded` | ghost: the masters that created their file inside the mutex |
| `children`, `lane`, `live`, `borrow` | `_children`, the lane around `Popen`, the processes, what a portfolio child found |

`TryCreate` is the first `O_EXCL`; `EnterMutex` to `Recreate` are the recovery,
one action per read or write of the file system; `Judge` joins the read of the
children and of the age, which is all that decides.  `WriteState` and
`WriteFails` cover the three owners, which differ in what they clean up.
`UnlinkOpen` tells the platforms apart: on Windows a file that a process has
open cannot be unlinked.  `ProbeMayFail` lets `_pid_alive` answer None.

### MasterRun and RunRecord

A run is a master process.  The lock is taken as OrchestrationLock grants it:
when the owner is gone and none of its children is alive.  Each lane is a small
state machine, `pick`, `queued`, `running`, `ok` or `failed`; the Tier-1 jobs
are one more lane, `MainLane`, run by the main thread.  `AttemptEnds` is
`_run_one`'s loop: return code 0 goes on to the next command, 78 and 124 end the
sector, any other is retried.  `Publishes` lets the entry command write any
artifact, good or bad, whatever it returns; what verifies is abstracted to
`Valid`, and two valid contents stand for two hashes.  `Checkpoint` is
`record_progress`: results and manifest under one lock.  `LaneRaises` has two
cases, before the row is in `results` and after (when the manifest cannot be
written).  `Interrupt` is an exception in the main thread; `Kill` skips the
`finally` and leaves children running.

`opt[r].after` and `fresh` are ghosts: which runs were over when a run was
started, and which evaluated their probes without a block.

`Reconcile` closes one dead master's manifest at a time, and a sweep may pass any
of them by: `_holder_alive` can answer None, and a manifest may be unreadable.
`OpenManifest` then writes the run's own; a kill in between leaves it absent.

`RunRecord` knows nothing of lanes or locks: a record is absent, RUNNING with
growing rows, or closed.  It is opened while every other RUNNING record is that
of a run that died; a dead run's record stays RUNNING or is marked ABORTED with
its rows; only a run that was cut short may close on fewer rows than were
checkpointed.  `MasterRun` implements it (`RecordKept`), under the mapping `acc`
to the manifest's acceptance, `rows` to its rows, `cut` to `interrupted`, and
`gone` to the dead.

### CatchUp

Sessions are numbers.  `good` are the sessions whose artifact is there and
verifies; `healthy` are those whose own health manifest is PASS, in the `Dated`
sectors, whose manifest path has a `{date}`.  The other sectors have one manifest
for all sessions: `root` is the session it and the mutable tables are on, 0 when
it is not PASS; `Stamped` sectors write that session into it, as
`verify_published_artifact_for_date` expects, the technology sectors leave it empty.
`Strict` sectors are those with `historical_health_manifest_required`.

The code asks four questions of a session, and they are four operators:
`Verifies`, of the target, with its manifest; `Complete`, in the gap report, with
a dated manifest where history requires one; `Stands`, right after a backfill;
and `Resolved`, when the marker file is tidied, without any manifest.  A command,
whether it returns 0 or not, may replace what is published of the sessions it
rebuilds with anything (`Rebuild`).  `BookLoad`/`BookSave` and
`TidyLoad`/`TidySave` are the two critical sections of `_GAP_MARKER_LOCK`;
`CliLoad`/`CliSave` are the operator's program, which takes no lock.  `misses`
is a ghost that counts recorded failures independently of the file, since the
session's artifact last verified or the operator last spoke.  Masters
exclude each other by the orchestration lock, so there is one run at a time.
A target is sampled at the start of a run, so a session that completes during
a run belongs to the next one.

### Nightly

A nightly, its master and its reconciler are three processes.  `night[n].pc`
follows `main`: `scan`, `probe` and `close` are the sweep of abandoned
manifests, one read, one probe and one write per manifest, or a `Skip` where the
manifest cannot be read or the probe cannot tell; then the look at an
active orchestrator, the validation of the providers, the pass before, the
master, the pass after, the seal.  `recon` is the reconciler with the portfolio
run it waits for: the ledger alone, the audit, and the run that rebuilds what
follows it.  `ledger`, `recovery` and `rebuilt` are what those leave on disk,
from which the next pass makes its plan.  A master is reduced to its life and its
manifest; once it has the lock (`locked`) it closes dead masters' manifests one by
one, or not, and opens its own.  `newer` relates two manifests when the first was
written after the second, which is how the newest one is picked.  `accepted` and
`gone` are ghosts: the passes that returned 0, and the nightlies that were dead
when this one started, but for those it skipped.  So a dead nightly may say RUNNING
for as long as no sweep can read its manifest and judge its process.

### ProviderDispatch

The clock counts polling intervals.  A dispatcher (`disp`) takes its time once,
at its start, and decides by it: it sweeps stale attempts, reads the accepted
captures (`Look`) and then today's dispatches (`Choose`), records an attempt,
launches the child, waits, and seals.  Each of these is an action, as another
dispatcher may act between them.  A child goes through the capture lock, the
pull, the writer lock, the read of the accepted head, the insertion, and the
sealing with a backup and a verification; it may be cut off by its dispatcher's
timeout, killed, or outlive its dispatcher.  An operator captures by hand, and a
migration appends legacy runs.  A SQLite transaction is one step; a run's digest
is its position.  `vouched` is a ghost: the phases that had passed when an
invocation that returned 0 was started.

### PortfolioPipeline

A stage is what one sealed manifest stands for; a group is a sequence of
scripts, some of which only build.  `dir` holds for each stage its files, the
seal, and whether the seal is the one of the files; `outdated` is a ghost: the
stages whose inputs were rebuilt after them, and `torn` those with a seal over
files it does not certify.  `Begin` plans a cadence or takes a
group list; `NextGroup` decides about partial-step recovery; `Skip` is
`step_resume_skip`; `Succeed` and `Fail` run a script, which first removes what
it rebuilds and, in the order of `invalidate_dependents`, the manifests of its
dependents; `Stop` cuts it off after any number of those unlinks, by a kill or an
interrupt.  `Dependencies` is the table of `core/artifacts.py`, `Reads` what each
seal hashes: they are two tables in the code, and the properties relate them.
`Files` is `CONSUMER_FILES` in the order of `sorted`, so that `Unlinked(s, n)` are
the gates that are gone when the invalidation has come to its n-th file.

The group lists are data: two cadences in `config.yaml`, and those of the
reconciler.  `PlanOf` turns one into a plan, with the ledger and the macro contract
put in or left out.  `PlansAssumption` states what the real lists have in common
and the properties need, about the plans alone: a script comes after all it needs
and after whatever solved the book again (`Supplied`), what a script takes from an
earlier stage is planned again after it (`Completing`), a ledger is planned where
one can be read or built (`LedgerPlanned`), and the macro contract does not precede
the optimizer.  The run `pipeline` evaluates it for the real lists.

### ActivationTransaction

One action per step of `execute_activation`: the checks before the lock
(`Start`, `Lock`), the repeated checks (`Recheck`), the refresh of the candidate,
the backup and commit of the config with the handler around it (`Settle`,
`Uncommit`), the snapshot of the dashboard, its publication file by file
(`Publish`, `Undo`), the record, the smoke run, the activation state and the
report.  `Raise` is an exception or an interrupt at any of them; the rollback is
`RollBackConfig`, `Restore` file by file, `CheckRestored`, `RollBackState` and
`SealFailure`, each of which may fail (`RollbackFails`) and be noted in `errors`.
`committed`, `published` and `written` are the code's flags, set after the writes
they speak of.  `Recover` is a later master that removes a dead owner's lock,
`Score` the scorer.  `smoked`, `stranded`, `before` and `held` are ghosts: the
model passed its smoke; a publication whose record or repair failed is on the
dashboard without its transaction knowing; the dashboard and the state that the
transaction found.

## 3. Runs

All runs are finite: every unbounded counter has a named bound.

| Run | Instance | Checks | Distinct states |
|---|---|---|---|
| `lock_windows` | 2 masters, 1 activation with a child, 1 direct run, Windows, failing probes, symmetry | TypeOK, KeepersExclusive, BorrowedFromTheOnlyOwner, OverrideJustified | 2.5 M |
| `lock_posix` | 3 masters, 1 child, POSIX, fairness | RecoveryNeverUndone, ContendersSettle, StaleLockIsRecovered | 213 k |
| `master` | 2 lanes, 3 sectors, 1 job, 1 network slot, 2 attempts, 1 fault, fairness | TypeOK, PassIsEarned, MasterSettles | 105 k |
| `master_resume` | 2 `--resume` masters, 2 lanes, 2 sectors, 2 faults | RecordKept, SkipIsSound, ResumeRecovers | 1.8 M |
| `catchup` | 1 sector with dated manifests, 3 sessions, operator, 1 fault, fairness | TypeOK, CleanPassClosesGaps, OperatorMarksStand, GapsAreSettled | 555 k |
| `catchup_lanes` | 2 stamped sectors, one strict, 2 sessions, weekly prerequisite, covering backfill, no operator, 2 faults | GapsAreGivenUp, AcceptedOnTarget | 1.3 M |
| `nightly` | 2 nightlies, 1 operator's master, 2 faults, symmetry | TypeOK, PassIsOwn, MasterRanAnyway, DeadNightliesAreClosed, MissingLedgerIsReported | 3.6 M |
| `provider` | 2 dispatchers, 1 phase, 2 attempts, a migration, ticks to 4, 1 fault | TypeOK, PassedIsCaptured, ChainHolds, LiveAttemptsStand, CleanExitIsCovered | 3.5 M |
| `provider_live` | 1 dispatcher, 2 phases, a capture by hand, ticks to 5, 1 fault, fairness | StartedIsSettled, InvocationsEnd | 356 k |
| `pipeline` | 3 runs over one directory, 2 faults, both cadences, 2 late lists | TypeOK, AcceptedIsCurrent, ReportIsCurrent, PassCoversPlan, ResumeCompletes | 686 k |
| `activation` | 3 transactions, both modes, 2 faults, symmetry | TypeOK, ReaderAgrees, ConfigIsRecoverable, VerdictIsTrue | 1.5 M |
| `master_interrupt` | as `master` | CheckpointsSurviveInterrupts, which the code violates | 16 k |

`CHECK_DEADLOCK FALSE` everywhere: processes, runs, nights and days come to an
end.

Why the bounds are enough.  *Lock*: a lost race needs an old owner, a
recovering master and a newcomer; two masters, an activation and a direct run
give every pair of roles and one more, three masters a queue at the mutex.  One
child is enough, as children of different owners only meet in the lock file.
*Master*: two sectors in one lane and one in another give order inside a lane
and competition for the only slot; two attempts a retry that fails; the selection
`{a, p}` leaves a required sector out; one post step a second command; two
runs one that dies and one that follows.  *Catch-up*: two failures to a
tombstone and three sessions let a session fail, be given up, and leave the
window; window 1 puts a session on its edge; one run has the manifests of
sessions apart from their artifacts, the other the manifest that tells which
session the tables are on.  The operator is in the first run; that `GapsAreGivenUp`
also holds beside one is proved (`GapsAreFinite`).  *Nightly*: two nightlies overlap,
die and sweep each other, the operator's master takes the lock or the newest
manifest; one kill for each of two processes.  *Provider*: two attempts of a
phase, the first of which may be swept, cut off or lost with its dispatcher; four
ticks cover the phase, its grace, the child's timeout and the staleness limit;
two phases in the second run make a dispatcher choose.  *Pipeline*: a first run,
one that is cut off in a rebuild, and one that has to make do with what is left;
the lists are the real ones, read from `config.yaml` and from
`reconcile_late_ib_statements.py`.  *Activation*: one transaction dies or
strands files, a second runs over them, and a third waits with outdated checks.

### Where the code departs from its own words

`master_interrupt` checks what the docstring of `record_progress` says, that the
checkpoint is the "load-bearing crash-resume record" (`run_all.py:3079-3081`), and
TLC refutes it: Ctrl+C in Tier 0 leaves main's `results` empty, and `finally`
writes that.  The other divergences were met while modelling; the passing
properties are stated so that they say what does hold.

| Words | What happens | What holds |
|---|---|---|
| recovery fails "instead of ever deleting" a contender's lock (`run_all.py:1613-1615`) | the inspected owner leaves, a direct portfolio run takes the lock and closes its descriptor; the pid read earlier is now dead, and recovery unlinks the new file | `RecoveryNeverUndone`: locks taken inside the mutex stay |
| a legitimate child is not rejected for a transient read (`18_run_portfolio_pipeline.py:160-162`) | only OSError is retried, and the child may read the file empty between truncation and write | `BorrowedFromTheOnlyOwner` |
| required probes fail closed (`run_all.py:2376-2377`) | `overall` is PASS before the probes run; Ctrl+C during them seals it | `PassIsEarned`, for runs that were not interrupted |
| only "a later success clears the record" (`run_all.py:872-873`) | a failed weekly prerequisite leaves planned dates out of the failures, and their records are cleared | `GapsAreGivenUp`, without weekly prerequisites |
| without a tombstone a date that always fails "would be retried every night" (`run_all.py:870-872`) | the gap report and the backfill check require a dated manifest (`947-963`, `2528-2536`), the tidying of the marker file does not (`2079-2084`): a session with a good artifact and a manifest that is not PASS is booked and forgotten in one run, and never gets its tombstone (transportation, consumer_defensive, portfolio_layer, index_correlations) | `GapsAreGivenUp` and `GapsAreSettled`, of sessions whose artifact does not verify; `CleanPassClosesGaps`, of the manifest too: such a session is never passed over in silence |
| the final rebuild leaves every root on the target (`run_all.py:2478-2479`) | after a crash before it the next run sees nothing to do for a sector whose root manifest has no date | `AcceptedOnTarget`, for dated root manifests |
| a partial recovery "is retried" (`reconcile_late_ib_statements.py:107-108`) | cut off after the ledger run and before the meta of the run that follows, the accepted ledger hides it from later passes | `MissingLedgerIsReported` speaks of the ledger alone |
| only a provably dead nightly's manifest is amended (`run_nightly.py:114-118`) | the manifest is read, the pid probed and the copy written: a nightly that seals and exits in between has its verdict overwritten | `DeadNightliesAreClosed`: no nightly that still runs is closed |
| an overlap is "an explicit deferred success" (`run_nightly.py:193`) | the lock is looked at once; an orchestrator that starts later makes the nightly's master exit, and the verdict is FAIL_MASTER | `PassIsOwn` |
| a PASS "certifies a same-date, drift-free seal" (`18_run_portfolio_pipeline.py:499-501`) | a forced rebuild of ledger, sleeves or exits removes its files and keeps its old manifest until it seals; cut off in between, the next run skips the stage or cannot finish | `AcceptedIsCurrent` speaks of inputs, `ResumeCompletes` leaves that case out |
| "a crash during invalidation must never leave the old report looking current" (`core/artifacts.py:101-102`) | callers unlink their own manifest before they call it | `ReportIsCurrent`, for scores, risk and the final book |
| every dependent is invalidated (`core/artifacts.py:96`) | rotation hashes the cost book and is not among the dependents of costs, nor the optimizer among those of liquidity | `AcceptedIsCurrent`, without `NotInvalidated` |
| "any failure restores the exact portfolio config and shadow dashboard bytes" (`machinery/README.md:112-113`) | the record is written after the handler that restores the dashboard and before the flag of the publication: when that write fails the dashboard stays published | `VerdictIsTrue`, unless `stranded` |
| the snapshot is the "pre-activation state" (`stage12_activation.py:177`) | after a kill past the publication a forced transaction of a replacement cycle seals the published files as the snapshot | `VerdictIsTrue` is about what the transaction itself found |
| the lock is the "fail-closed owner" during activation (`stage12_activation_transaction.py:117`) | a rival that passed its checks before the lock fails under it and overwrites the PASS result with its own failure | `ReaderAgrees`: the scorer goes on applying the model |

## 4. Fairness

* `OrchestrationLock`: weak fairness of `Step(p)`, what a started process does
  next unless it dies.  Starting, ending one's work (`Release`), failing and
  ageing are not fair.  `ContendersSettle` needs no more: inside the mutex some
  step is always enabled, and each process passes through it once.
  `StaleLockIsRecovered` (a master that finds a stale lock is not refused over
  it) is a safety property; with `ContendersSettle` it says that the stale lock
  goes away unless the master itself dies.
* `MasterRun`: weak fairness of the main thread, strong fairness of each lane.
  A child ends by itself or is killed at `timeout_sec`, so `AttemptEnds` is
  fair; `threading.Semaphore` hands slots to whoever asks, and a lane waiting
  for one is served as others free them.
* `CatchUp`: runs are started every night and come to an end; lanes are threads
  of a live process, and `_GAP_MARKER_LOCK` is held only for a load and a save.
  The calendar is not fair: the last session may stay the last.
* `ProviderDispatch`: the scheduled task is started for ever, processes that run
  go on, and time passes.  A provider may answer slowly for ever, so a pull is
  not fair: its end is the dispatcher's timeout.

## 5. Theorems

TLAPS proves the following for every value of the constants that the modules'
assumptions admit.  Each module of proofs has an inductive invariant `IInv`
(`JInv` on top of it in `PortfolioPipelineResumeProofs`), one step per action
under each of its conjuncts, and the theorems from it.

### OrchestrationLockProofs

For any processes and children and for both platforms, from `ProcAssumption` (the
roles are disjoint) and `PlatformAssumption`: `Invariance`, `TypeCorrect`,
`OpenFileStays` (`OpenFileIsAtPath`), `MutualExclusion` (`KeepersExclusive`),
`BorrowersAreSafe` (`BorrowedFromTheOnlyOwner`), `OverridesAreJustified`
(`OverrideJustified`), `RecoveriesStand` (`RecoveryNeverUndone`),
`StaleLocksAreRecovered` (`StaleLockIsRecovered`).

Neither exclusion nor the recovery properties are inductive.

* *Exclusion* rests on the descriptor: an owner that keeps its descriptor open
  keeps its file at the path where open files cannot be unlinked
  (`OpenFileIsAtPath`), and a keeper that holds has it open (`Descriptors`);
  two holders would both be at the one path.
* *Recovery* rests on the mutex (`MutexInv`: only its holder is past the wait)
  and on what each read of the inspection leaves true (`LookInv`): the pid
  read is that of the file seen; a file taken inside the mutex can only be the
  file seen, as nobody else is inside; a pid once found dead stays dead, so the
  children read later are final; a file whose text is torn and that is aged
  belongs to a process that is gone (`AgedInv`).  `NoFileYet`, `FilesExist` and
  `OwnKids` tie names to files.
* *A stale lock* stays stale as long as it is there: its owner is gone, so its file
  is not written and its children only end.  `Unhindered` follows one master over
  it from the first read on: each read finds what lets the master override, and the
  unlink cannot be denied, as nobody has the file open.

### MasterRunProofs

For any runs, sectors, jobs, lanes, slots, attempts and faults: `Invariance`,
`TypeCorrect`, `SlotsConserved` (`NetworkSlotsConserved`), `PassesAreEarned`
(`PassIsEarned`), `JobsStayBehindGate` (`JobsBehindGate`), `SkipsAreSound`
(`SkipIsSound`), `ResumesRecover` (`ResumeRecovers`) and `RecordIsKept`
(`RecordKept`: the refinement of `RunRecord`).

* `OwnerInv` and `LaneInv` place the work: the run that owns the lock is the one
  that executes, a busy lane works for it, in a phase that lets it, on a unit
  without a result; without an owner only orphans run.  `SlotInv` counts: the
  free slots and the lanes that hold one add up.
* `ManifestInv` and `RowsInv` tie the manifest to the run's phase: a run that has
  opened it and lives has it open, a run that ended has closed it, and its rows are
  results.  With them each action is an `Open`, `Extend`, `CutShort`, `Close`,
  `Die` or `Abort` of `RunRecord`, or a stutter.  `Open` is the delicate one: a
  manifest that is RUNNING beside the new one is that of a dead run, since the
  owner of the lock is the only run at work (`OwnerInv`).
* `VerdictInv` carries the gate from its evaluation to the seal.  `RecordsInv`
  (what was loaded stands in another run's results), `ValidInv` (a PASS row was
  recorded over an artifact that verified) and `AfterInv` (a run that waits has
  loaded all that was settled when it was started) give the two resume theorems.

### CatchUpProofs

For any sectors, sessions, window, threshold and faults: `Invariance`,
`TypeCorrect`, `GapsAreFinite` (`GapsAreGivenUp`), `CleanPassesCloseGaps`
(`CleanPassClosesGaps`), `AcceptedIsOnTarget` (`AcceptedOnTarget`) and
`OperatorMarksAreKept` (`OperatorMarksStand`).

* `MarkerInv` and `MissInv` say what the file counts: what is recorded as failed
  in a row of a session without a good artifact is at most the count in the file
  and in the copy a lane is about to save (`Counts`), a count that reached the threshold is a tombstone (`Formed`),
  and a session a lane may still fail has a count below the threshold.  The copy
  can be trusted because of `RunInv`: who saves holds the file's lock.
* `PlanInv` divides a lane's window: each session is complete, planned or given
  up, and each that was planned is built, failed or left.  `ReportInv` draws from
  it what a status means once the lane has booked.

A group is the earliest sessions of what is left, and ends with its latest one,
so the module first proves that a set of sessions has both (`LeastIn`,
`LatestIn`) and that a group is a part of what is left, and not an empty one
(`GroupPart`).  Of `CatchUpAssumption` one part is about the registry: a backfill
that covers the target is one command for the whole window.

### ProviderDispatchProofs

For any dispatchers, phases, attempts, manual captures, migrations and faults:
`Invariance`, `TypeCorrect`, `ChainIsLinked` (`ChainHolds`), `PassesAreCaptured`
(`PassedIsCaptured`), `CleanExitsAreCovered` (`CleanExitIsCovered`), and
`LiveAttemptsAreSafe` (`LiveAttemptsStand`).

* `WriterInv` (who reads the head or appends holds the writer lock) makes
  `HeadInv` inductive: the head that was read is the head that is there, hence
  the chain.
* `StoredInv` follows a capture from its insertion over the child's return code to
  the row: what is reported as passed is in the store.  `AttemptInv` keeps a row
  with the dispatcher that recorded it.
* `LiveAttemptsAreSafe` has a hypothesis: `ChildTimeout + 2 * Slack <= StaleAfter`,
  with `Slack` the time that may pass over a dispatcher's own steps before the
  launch and after the child's end.  `TimeInv` bounds the age of a live attempt by
  it.  The code demands `ChildTimeout < StaleAfter` only, which does not suffice
  for lock waits of half the difference; the instance of the run has the margin.

### NightlyProofs

For any nightlies, operators and faults: `NightlyInvariance`, `PassesAreOwn`
(`PassIsOwn`), `MastersRunAnyway` (`MasterRanAnyway`), `DeadOnesAreClosed`
(`DeadNightliesAreClosed`), and from a larger invariant `Invariance`,
`TypeCorrect` and `MissingLedgersAreReported` (`MissingLedgerIsReported`).

* `VerdictInv` follows a nightly from its master to its verdict: the manifest it
  picks may be another master's, its own master's return code is not.  `SweepInv`
  says that a nightly that was found dead is still to be looked at, closed, or
  was skipped.  `PassInv` adds that what a sweep is about to close has ended, from
  the probe to the write, whatever other sweeps do.
* `OrderInv`: of two manifests one is the newer, so the newest one can be picked.
* The missing ledger is a property of several nightlies.  `PassInv` says of each
  what its pass and its verdict have to do with the ledger.  A ledger that was
  there and is gone was taken away by a pass that fails or dies, and that pass
  may be another nightly's: `LedgerInv` says that if a nightly counts on a ledger
  that is not there, then some nightly is `Spoiled`, and will not say PASS.

### PortfolioPipelineProofs

For any group lists that satisfy `PlansAssumption`, any number of runs and any
faults: `Invariance`, `TypeCorrect`, `AcceptedGatesAreCurrent`
(`AcceptedIsCurrent`) and `AcceptedReportsAreCurrent` (`ReportIsCurrent`).

The directory has to be sound after every prefix of what a script does, since it
may be cut off there and another run begins with what is left.  `DirInv` is shown
for one operator after the other (`WithoutInv`, `MarkInv`, `InvalidatedInv`,
`ClearedInv`, `PreparedInv`, `AnnouncedInv`, `BegunInv`, `SealedInv`):

* `Current` is the property for the gates the orchestrator does not hash again;
  for the others it is what `Accepts` looks at.
* It is not inductive, as a builder may write without `--force` where it finds no
  file of its own.  `Backed` says that no kept gate reads files whose builder left
  nothing, and `Whole` that a sealed stage has them, unless it is `torn`.
* `Ranked` and `Reported` use the order of the unlinks: risk is the last that the
  liquidity audit takes from the report's chain, and the marker goes first.
* `Seated` is about the run: past the builder of a stage nothing kept reads that
  stage.  `Solved` and `Ordered` close the one gap between the tables: the macro
  gate hashes an optimizer's book that it does not ask for, so the book must have
  been there, which is where the assumption on plans is used.

### PortfolioPipelineResumeProofs

Under the same assumption: `PlanInvariance`, `PassesCoverTheirPlan`
(`PassCoversPlan`) and `ResumesComplete` (`ResumeCompletes`).

* `Affects(s, d, e)` bounds what a script changes however far it gets: the stages
  it spares (`Spared`) keep gate and freshness, no gate appears but its own, and
  what it leaves torn is its own.  `StartedAffects`, `CompletedAffects`,
  `CutShortAffects` and `FailedAffects` show it for the ways a script ends.
* `Standing` is the centre of the invariant: what the plan, read as a list, lets
  stand after the scripts that are done, the directory has.  A script that is
  skipped or done adds its gate, and takes no more than the plan counts as undone.
  At the end of the plan it is the coverage (`PlanCovered`).
* For a resumed run: a script that is not skipped is never refused over its files
  (`NeverRefused`, from the relaunch with `--force`), and has what it needs
  (`ReadyAlways`), from `Standing`, from `Backing` (its builder's files are there),
  from `Mended` (a run that began on a directory without torn stages tears only the
  one it is about to seal) and from `Ledgered` (the ledger the plan was made for is
  the one on disk).

### ActivationTransactionProofs

For any transactions and faults: `Invariance`, `TypeCorrect`, `ReadersAgree`
(`ReaderAgrees`), `VerdictsAreTrue` (`VerdictIsTrue`), `ConfigsAreRecoverable`
(`ConfigIsRecoverable`).

* `OwnerInv`: one transaction is live, the one in the lock.
* `Stage(t)` says for each step what the flags mean: before the config nothing has
  changed (`EarlyInv`); from the snapshot to the report `committed`, `published`
  and `written` tell how far it got (`LateInv`); in the repairs and in the
  rollback the files up to the n-th are those of the snapshot (`UndoInv`,
  `RestoreInv`, with `Back`), and an empty list of errors means that what was
  changed has been put back (`HandlerInv`, `EndInv`).
* `Claim` and `PassInv` are about others: an activation state is that of a
  transaction that was smoked and not reported undone; after a PASS every live
  transaction is on its way to a refusal (`Blocked`).  This is where the checks
  that are repeated under the lock are needed.

### Only model-checked

Liveness under fairness (`ContendersSettle`, `MasterSettles`, `GapsAreSettled`,
`StartedIsSettled`, `InvocationsEnd`), which these provers do not reach.

## 6. Plan

Done: the lock, the master with its refinement of `RunRecord`, catch-up, the
provider ingestion, the nightly with the reconciliation, the pipeline's stage
graph, the activation transaction; proofs of every safety property of the runs.

1. `MachineOwner`, the abstract lock: an owner, its lapsed successor, and the
   borrowers; `OrchestrationLock` implements it under Windows semantics
   (refinement mapping: the owner is the keeper that holds), from `IInv`.
2. `CapitalReservation`: the commitment of capital between the pipeline and its
   late reconciliation; the IBKR capacity lock, as lines of a budget that clients
   take and give back.

## 7. What is not modelled

The modules stand for the code that coordinates.  It is a small part of the
repository: most of its 700 000 lines are batch programs over dataframes and
databases that compute scores, fundamentals, calibrations, optimizations and
reports in one process, without state shared between processes beyond the lock
and the manifests.  A model of them would be a model of floating-point
arithmetic, which a model checker does not decide; to the modules here a sector
is a command that returns a code and may publish, and a pipeline stage a script
that reads, writes and seals.

Of the modelled components, these parts are left out:

* *Master*: repair and backfill modes and `--dry-run`, which are the same lanes
  with other command lists and no acceptance of their own; the contents of
  manifests beyond acceptance, gate and the rows' status, hash and script version.
* *Catch-up*: sessions before a sector's first publication, the exemption of the
  portfolio job from the target replay (its history is date-partitioned), and
  exceptions inside a lane, which end like a crash of that lane.
* *Nightly and reconciliation*: an indeterminate lock that is old enough to be
  overridden while its owner lives (OrchestrationLock has the ages); more than one statement date, undated statement
  files, the choice of the target session; what the dashboard and the providers'
  validation compute.
* *Provider ingestion*: the directories an attempt leaves on disk, which are counted
  with its rows (`run_due.py:837-845`); the universes, the contents of requests and payloads, the
  reading side (expectations monitor), more than one day.
* *Portfolio pipeline*: `--continue-on-fail` and `--skip`; a prior ledger is taken
  to be available; the group lists of a late reconciliation are forced, as their
  caller does; scripts that leave nothing in the run directory (04, and the macro
  layer's 20a and 20); drift of the configuration and `--dry-run`.  Stages in which
  one script writes and seals are one step.  Two gates take less than the code
  hashes: `FinalReads` leaves out the layers that the shipped configuration keeps in
  shadow (`20_compose_final_target_book.py:283-327`, `423-474`, `539-545`), and
  `UniverseReads` the ledger's files (`39_sync_monitor_universe.py:579-580`) and the
  final book taken when there is no bootstrap book (`391-400`): the code is the
  stricter one.
* *Activation*: one cycle and one date; the snapshot is one step; the evidence
  that lets a smoke run be resumed and the smoke's own outputs; the rollback of a
  legacy state without snapshot, and an operator's repairs by hand; the lineage
  file, which is restored like the other three; the preflight.  An interrupt
  between the return of a call and the assignment of the flag that records it
  (`stage12_activation_transaction.py:1018-1019`, `1036-1037`, `1135-1136`) is left
  out: it acts like the failing record write, which is in.
* *Lock*: recycled pids, clock jumps, a lock file changed by hand.  The other
  locks of the repository (Form 4, IBKR capacity, industrials refresh) wrap one
  operating-system lock each.
