# A verification model of Mending

Mending is a fork of desloppify: a scanner that finds maintainability issues in
a code base and keeps them in a state file, a review that adds findings an agent
made, a queue of reviewed repairs published as GitHub issues, and a scheduled
command that hands one approved repair at a time to a coding host, within limits
and an authority an operator set. The last part, the *repair cycle*, runs
unattended, calls things that fail, may be killed at any instruction and must
still never have two workers, spend twice or lose a failure. This directory
holds the TLA+ model of the cycle and of the parts it rests on, the checks of
TLC and the proofs of TLAPS.

## 1. The system

### 1.1 Components

| Component | State it keeps | Operations | Here |
|---|---|---|---|
| Scheduler record, `engine/repair_cycle.py` | `repair_cycle` in the state file: lease, receipt, dispatch record, failure, disposition, budget, history | begin, admit, settle, park, fail, dispose, with_references | `CycleState` |
| Cycle command, `app/commands/repair_cycle.py` | none between runs; a copy of the record in a run | one run: observe, gate, scan, publish, select, lease, dispatch, settle; dispose | `RepairCycle` |
| Host adapter, `app/commands/repair_cycle_host.py` | the process tree it started | launch, watch, stop, cancel; find references, read pull requests | `HostRun`; the lookups in `RepairCycle` |
| Authority, `engine/repair_authority.py` | the operator's configuration | check_authority | `Authorize` in `RepairCycle` |
| Repair queue, `app/commands/repair_queue.py`, `engine/repair_queue.py` | links, pending and revalidation records on work items | revalidate, sync, recover | `RepairQueue` |
| Selection, brief, evidence check, manifest, `engine/repair_*.py` | none | pure | as outcomes, in `RepairQueue` and `RepairCycle` |
| State file, `engine/_state/persistence.py`, `recovery.py` | `state.json`, `.bak`, `.corrupted`, `.lock` | load, save, state_lock | `StateStore` |
| Scan and issue merge, `engine/planning/scan.py`, `languages/_framework`, `engine/_state/merge*.py` | work items and caches in the state file | phases, merge, resolve | `ScanMerge` |
| Review batch runner, `app/commands/review`, `app/commands/runner` | threads, processes, run files | run batches, watch, stop, retry, collect, import | `BatchAttempts`, `BatchRun` |
| Plan, work queue, triage, `engine/_plan`, `engine/_work_queue` | `plan.json` | cluster, skip, reconcile, rank | not modelled |
| Scoring, analyses of the detectors, languages, narrative, CLI | none or derived | pure analyses and rendering | not modelled |

### 1.2 How they interact

The timer (or an operator) starts `repair-cycle`. It takes the *cycle lock*
(`flock`, without waiting) for the whole run. It takes the *state lock*, loads
the state file, and if the recorded attempt is not settled spends one bounded
observation on it: is a worker with the attempt's marker alive, which pull
requests are on its branch, are they open, are they within the approval. If that
leaves the attempt unsettled the run ends. Otherwise it gates new work
(configuration, an undisposed failure, the window), saves, and *releases the
state lock*, because `scan` and `repair-queue sync` write the same file
themselves. It then reloads under the lock, gates again, selects a repair,
leases an attempt (saved), rechecks the authority, records the intent and the
reserved budget (saved), and runs the coding host while it holds the lock. When
the host is gone it saves the outcome, the charge and any failure, looks up the
references and settles by their state.

Shared state is the file. The cycle and the queue change it under the lock; the
scan and most other commands load it and save it whole with no lock at all. The
coding host and its pull requests are outside: they go on when the run is
killed. GitHub is outside too: it may carry a request out after its sender was
told that it failed, and its search lags behind its issues.

### 1.3 What is hard

* A kill between any two steps; the host outlives it, the memory does not.
* Lookups fail or time out, at any point of an observation, for ever.
* Time passes between the check and the use of an approval and a deadline.
* The state lock is released in the middle of a run; others write the file.
* Two runs at once; a scan left over from a killed run; two syncs with stale
  lists of candidates.
* A create whose answer is lost: the issue may exist, and cannot be found yet.
* Workers fork, leave the group and drop the marker while `/proc` is read, and
  cancellation signals arrive at every step of launch, watch and stop.
* The file is damaged, a copy to the backup is torn, a load without the lock
  moves the file aside.
* A scan's phases read the code while it changes, tools fail, results are cached.
* A batch runner is stopped as silent while its answer is on the way.
* Usage is measured late, partly or not at all, and may overshoot its ceiling.
* Everything must nonetheless end.

`PROJECT.json` lists each hazard at its line with the properties that cover it.

### 1.4 What makes each part correct

* Cycle: one live worker, the file knows it; one lease per window; one dispatch
  per attempt; an undisposed failure blocks; what is settled is finished; the
  budget is never understated; a launch is authorized at the time; attempts end.
* Host adapter: the tree is stopped on every exit path; a tree said to be gone
  is; no signal leaves the host running; the run ends.
* Queue: at most one issue per concern key and lane and one unresolved repair at
  a time, however creation and search behave; what was sent is not forgotten; a
  link is the item's own; what was published is linked in the end.
* State file: a locked section is atomic; a damage costs at most one update.
* Scan: what is in the code stays open, what left it is closed, a cached result
  is current, a detector that did not run resolves nothing.
* Batch runner: a runner is stopped only for cause; an answer counts however its
  runner ended; every batch and every run ends; a batch is imported or asked for
  again; the summary of a run is true.

## 2. The modules

Each component's module is extended by an `MC` module that gives TLC its sets
(`BatchAttempts` has numbers only and needs none) and by a `Proofs` module where
there are theorems. Abstract specifications are `OneRepair` (the cycle),
`PublishOnce` (the queue) and `AtomicStore` (the state file); the detailed
modules instantiate them under a refinement mapping and state the implementation
as a property.

| Module | Models | Instance for TLC | Proofs |
|---|---|---|---|
| `CycleState` | the record and its methods | through `RepairCycle` | `RepairCycleProofs` |
| `RepairCycle` | runs, file, host, reviewers, operator, foreign scans | `MCRepairCycle` | `RepairCycleProofs`, `LeaseProofs` |
| `OneRepair` | abstract: one repair at a time | | |
| `HostRun` | one run of the coding host | `MCHostRun` | `HostRunProofs` |
| `RepairQueue` | syncs, revalidate, recover, GitHub | `MCRepairQueue` | `RepairQueueProofs` |
| `PublishOnce` | abstract: one issue for a key | | |
| `StateStore` | load, save, fallback, lock | `MCStateStore` | `StateStoreProofs` |
| `AtomicStore` | abstract: a register with atomic updates | | |
| `ScanMerge` | the phases of a scan, cache, merge | `MCScanMerge` | `ScanMergeProofs` |
| `BatchAttempts` | one batch: runner, watch, stop, retry | itself | `BatchAttemptsProofs` |
| `BatchRun` | the batches of a run, and runs | `MCBatchRun` | `BatchRunProofs` |

They meet as follows. What `HostRun` may return, and leave behind, is what
`HostReturn`, `HostParked` and `Crash` of `RepairCycle` choose from. The
publication between the cycle's sections is a sync of `RepairQueue`; its alarm is
`Kill` there and `RefreshRefused` in the cycle. The locked sections of both are
`StateStore`'s sections, whose atomicity (`ImplementsAtomicStore`) is what lets
the cycle and the queue treat a save as one step; the copies that `RepairCycle`,
`RepairQueue` and `StateStore` let other commands put back are the same unlocked
scan. What a scan may do to an item of the queue (`Rescan`, `Resolve`) is what
`ScanMerge` does to its status. A task of `BatchRun` ends as `BatchAttempts` may
end.

Operators named *Fault* in their comments are variants of the operator that
follows, with a bug one could plausibly write. Nothing uses them: they exist to
show that each property can fail (`mutants` in `PROJECT.json`).

Every module states its domains in `TypeOK`. It is checked as a property in
`CycleRecovery`; in the other modules it documents the variables, and was
checked on the same instances while they were written.

### 2.1 CycleState and RepairCycle

| Variable | Code |
|---|---|
| `disk` | the value under `repair_cycle` in the state file |
| `pc[p]` | where process `p` is: `idle`; in a section under the state lock (`gate` ... `running`); between the sections (`refresh`, `scanning`, `scanned`) |
| `mem[p]` | the `CycleState` object of the run; in `scanning` the scan's copy of the file |
| `mode[p]` | whether the steps lookup/read/recheck belong to an observation or to the run's own dispatch |
| `cfg[p]` | the configuration the run decoded at its start |
| `stamp[p]` | the reading of the clock the second section uses throughout |
| `now`, `config`, `host`, `opened`, `open`, `scans`, `crashes` | clock, configuration file, worker trees, pull requests, copies held by scans, kills so far |
| `begun`, `intents` | history only: the window of each attempt, dispatches recorded for each |

A step of a section changes `mem` alone; `disk` changes where the code calls
`_persist_before_external_call` or leaves a section cleanly (`End`). A
kill (`Crash`) resets the process and releases its locks, nothing else.

`StartRun` to `ObservationTimeout` are the first section: `_run_cycle`,
`_observe`, `_observe_once`, `_replay_dispatch`, `_check_pull_requests`,
`_recheck_active`. An action ends where the code makes an external call or can
be interrupted with a different record. `ScanLoad` to `Relock` are the part
without the lock. `SelectNothing` to `HostReturn` are `_begin_and_dispatch`,
`_dispatch_host`, `_authorized_request` and `_settle_run`; the references and
pull requests of the run's own dispatch are then read by the same actions as in
an observation, with `mode` telling them apart, as the code shares
`_add_references` and `_check_pull_requests`.

Abstractions:

* Time is ticks; a window is `WindowLength` of them, keyed by its number.
* `parked_reason` is "one is set"; no branch reads which.
* A work item is bound or not; the source of the bound repair is current,
  unreadable, changed or unavailable, chosen afresh at each check (`Sources`).
* The approval is one of six states; its files are fixed, and a pull request is
  inside them or in `OutOfScope`. Which repair is selected is not modelled, nor
  is the record of the selection, which nothing reads.
* A reading of pull requests is atomic with the decision on it, but may be far
  from the lookup that found them.
* The scan changes the record only by restoring the copy it loaded.
* A lock is free or held: waiting for the state lock is blocking, and a run
  that gives up after 30 seconds has done nothing a kill does not do.

Assumed of the environment:

* "Verified empty" is true of a *run* (`HostRun` says in which sense). The
  *probe* of an observation may be wrong in either direction.
* `--confirm-stopped` is the operator's word and is kept.
* GitHub lists all pull requests of a branch, or the lookup fails. A closed pull
  request stays closed.
* The clock does not go back. The limits of the configuration do not change
  (the code copies them into the lease).
* Ids of attempts are fresh (`uuid4`): `FreshId` numbers them.

### 2.2 HostRun

One run of `ClaudeHostAdapter`. `pc` is where it is: `Launch`, `Popen` and `Arm`
are `_launch` with the cancellation armed after `Popen`; `Watch` is `_watch`;
`ListProc`, `ReadProc`, `ScanDone`, `GroupCheck` and `SignalTree` are
`_stop_tree` with `_marked_pids`, `_tree_alive`, `_settled` and `_signal_tree`,
for SIGTERM and then SIGKILL (`round`); `Drain` is what is left of `run`. A scan
of `/proc` lists the pids at one moment (`listing`, `known`) and reads their
environments one by one (`found`). `Cancel` is `_Cancellation.handle`, at any
point: recorded before the run is armed, raised at once after. Workers fork,
exit, leave the group or drop the marker between any two steps (`Fork`, `Exit`,
`LeaveGroup`, `DropMarker`); one that does both is excluded by ADR 0010, and
`Unkillable` are those no signal reaches. The grace periods and the deadline are
one flag, `late`, that may be set at any time.

### 2.3 RepairQueue

A transaction under the state lock (`Revalidate`, `DropStale`, `WriteLink`,
`CreateLocked`, `Recover`) is one action; what a sync reads without the lock, the
state it starts from (`seen`) and its searches, is kept and used later. `pc`
follows one candidate through `_sync_one`: `ReadLink`, `ReadPeerLink` and `View`
for a link that is there, `SearchFor` and `Search` before a create, `Select` for
the one repair of a sync, `CreateLocked`, `CreateReturns` and `Confirm` for
`_create_once` with its call outside the lock, `RecordSelection` for the end.
`req` holds requests GitHub may still carry out (`GitHubCreates`,
`RequestIsLost`), also of a sync that was killed; `indexed` are the issues search
finds. `Rescan`, `Resolve`, `Commit`, `LoadCopy` and `SaveCopy` are the scans,
resolutions, commits and unlocked saves around it.

A behaviour begins by choosing a `setup`: which items there are and which keys
they share, which are findings, and the bounds on evidence, commits, scans,
recovers and kills. One run of TLC so covers several small worlds, each chosen
for one kind of conflict, where their product would be out of reach.

### 2.4 StateStore

What a state holds is the set of processes whose update it has, and the source
of its inventory (a scan, the saved plan, nothing). `Exists` to `MoveAside` are
`_load_state_reporting_fallback`: a file read, or one that cannot be decoded
replaced by the backup, moved aside, or answered with a fresh state marked as a
fallback. Every load ends in `Reconstructed`, the recovery from the plan. The
state lock is not the plan's, and plan commands give `plan.json` work, empty it
or break it at any time, so each load finds the plan live or not, at a choice of
its own (`Loads`). A state that no scan made is then replaced by one built from
the plan, or, when the plan is gone, by a fresh one. `Update` is the body of a
section, refused on a fallback (`MayUpdate`); `CopyOpen` to `Replace` are
`save_state`, with the copy to the backup torn where a kill falls into it.
`Unlocked` processes load, and may save, without the lock. `Fail` ends a process
at any step; `Damage` and `CopyFails` are counted by `MaxFaults`.

Four histories say what a state lacks and why: `saved` (whose save was
complete), `dropped` (updates a writer's load found in a state without a scan and
did not take over), `strayed` (processes that moved a file aside that decodes) and
`meddled` (a process without the lock has begun to save).

### 2.5 ScanMerge

An item stands for one defect; `present` are those in the code, `status` what the
state file says. A scan begins (`Begin`) with or without external tools, over a
scope, and may start bandit in the background (`Prefetch`). The phases differ in
how they count as run, which is what the merge trusts:

* `RunDupes` runs in the process and counts always.
* `RunLint` is a phase of `make_tool_phase`. A tool that is missing, times out or
  fails with nothing to parse has not answered and does not count; one that fails
  after some findings has, and reports a part. An answer counts when it has
  findings, and an empty one when the parser knows how much was looked at
  (`potential`), as `LintCounts` says.
* `RunSecurity` is `phase_security` up to bandit: it looks itself, takes the
  fingerprint of the files and looks into the cache. `RunBandit` takes the
  prefetched result or runs the tool now, and caches what it got under the
  fingerprint taken *before* (`mark`). The phase counts whatever became of bandit.

`Confirmed` and `Suspect` are the detectors the merge believes and those it does
not, `Upserted` and `Closes` are `upsert_issues` and `verify_disappeared`. In a
`calm` behaviour no commit falls into a scan and a tool that answers reports all
there is; in the others both go as they like (`Answers`). `steady` is history:
what was there since the scan began; `missed`, too: what was there and was left
out of an answer a phase worked with.

### 2.6 BatchAttempts and BatchRun

`BatchAttempts` is one batch: the loop of `run_codex_batch` and
`run_batch_attempt` (`Start`, `Poll`, `SeesExit`, `Stopped`, `DecideStopped`,
`DecideExited`) around a runner that prints, writes its file in part or whole,
and exits as it likes; what it leaves behind may go on writing
(`LeftoverWrites`). Time counts polls. `wrote` and `age` are history.

A prompt of more than 16000 characters (any prompt on Windows) is written to the
runner's stdin before the threads that read its output and the watch are started
(`feeding`). That write blocks until the runner, or what it left, takes the prompt
(`Reads`) or nobody is there to (`FeedFails`); it has no timeout of its own, and the
attempt's is not looked at meanwhile (`FeedLasts`).

An answer is what the code takes for one: any JSON object in the output file, of
an earlier attempt too. The watch compares the file's size and the second of its
time, so a write within a second of the last it noticed may go unseen (`Noticed`,
`Second`). The exit code of a runner that failed is returned as it is, 124
included (`Codes`).

`BatchRun` takes a batch as a task that ends with a code and a file. The file has
an answer that parses and normalizes, or something that does not, or nothing; code
0 only excludes the last. A pool, or the main thread alone, starts the tasks
(`StartTask`) and takes what is done (`Take`); a report sets the status and may then
raise (`Report`). `Collect` reads every file, failed or not, and settles the
statuses (`Reconciled`). The run then gives up (`GiveUp`), imports (`Import`), or
fails to (`Refuse`): the coverage gate, the validation, a skipped issue or the
guard of pending scores raises. `Interrupt` and `LeavePool` are a Ctrl-C. A run is
followed by another of everything or by the retry it asked for (`Begin`,
`asked`). `imported` is what came in since the whole packet was run last, and
`kept` says that since then no run left an answer unused.

`Finished` and `Over` are the end of a program: they change nothing.

## 3. Runs

Twelve runs, two of which show a disagreement. Each cfg has the name of its run.

| cfg | Instance | Shows |
|---|---|---|
| `CycleRecovery` | 2 symmetric processes, 2 attempts, 2 kills, 2 observations, 2 windows | `TypeOK`, `LiveHostIsRecorded`, `LiveHostIsCharged`, `HistoryIsFinished`, `OneLeasePerWindow`, `ImplementsOneRepair`: wherever overlapping runs are killed, the file accounts for the one live host |
| `CycleVerdict` | 1 attempt, a pull request in scope and one out of it, the four states of the approval that act differently, which expires before the lease does, usage below, at and past each ceiling or unmeasured | `SettledIsFinished`, `OverrunIsFailure`, `FailureIsKept`, `LaunchIsAuthorized` |
| `CycleEnds` | 1 attempt, 1 kill, a clock that stands still, scans from outside that put old copies back | `DispatchedOnce` whatever those put back; `AttemptIsResolved` by the timer alone; `EveryAttemptEnds` with an operator and reviewers |
| `CycleUnconfirmed` | 1 attempt | violates `ReportedActiveIsComplete` (finding 1) |
| `QueueSyncs` | 2 symmetric syncs; setups `OneItem` (changing evidence, a kill, a recover, a lagging index), `SharedKey` (two items of a key, one may be resolved), `OwnKeys` (two findings) | `OneIssuePerKey`, `OnePendingRepair`, `LinksAreOwn`, `LinkIsForGood`, `NothingForgotten`, `OneLanePerItem`, `ImplementsPublishOnce` |
| `QueueRecovers` | 1 sync; setups `Recovering` (kill, lag, commit, recover) and `PutBack` (a concern, a finding, an unlocked copy of the file) | `OnePendingRepair`, `LinksAreOwn`, `PublishedIsLinked` |
| `HostTree` | the host and two workers, one unkillable, sessions allowed | `VerifiedIsEmpty`, `HostIsStopped`, `RunEnds` |
| `StoreSections` | 3 locked writers, one unlocked process, one fault | `LossIsBounded`, `ImplementsAtomicStore`, `EverySectionEnds` |
| `MergeScans` | an item of each kind of phase but `Dupes` and a review's, scopes all or part, one commit | `CacheIsCurrent`, `SteadyIsOpen`, `Converges` |
| `BatchWatch` | 2 attempts, a timeout of 5 polls, a stall of 3, a second of 1 | `StallIsQuiet`, `AnswerDecides`, `BatchEnds` |
| `BatchPool` | 3 batches, 2 workers, 3 runs | `NoBatchIsDropped`, `StatusIsTrue`, `WholeOrNothing`, `RunEnds` |
| `BatchRetry` | 3 batches, 2 workers, 2 runs | violates `RetryCompletes` (finding 2) |

Passing runs of the cycle start from a fresh file and from each record an
earlier version may have left (`LegacyCycles`). Deadlock is checked everywhere
but in `HostTree` and `StoreSections`, whose processes really end.

### 3.1 Bounds

*Cycle.* `MaxAttempts` 2 is enough for what relates an attempt to the next
(replacement, history, windows); nothing looks two attempts back but the
history, which is only appended to. `MaxTime` spans two windows and the deadline
and expiry of an attempt; in `CycleEnds` it is 0, since nothing there waits for the
clock and a deadline that passes only records a failure, which is one of the ends
`AttemptIsResolved` allows. `CycleVerdict` leaves out an approval that is mismatched,
which acts as a revoked one, and one that is unusable, whose effects are among
those of an absent one. `MaxCrashes` 2 allows a kill of the dispatching run and
one of a run that observes it. `ObservationLimit` 1 or 2 reaches exhaustion with
and without a verdict that resets the count. `CostCap` and `CallLimit` 1 leave
room for nothing, all and too much (`MeasuredCosts`, `MeasuredCalls` go one
past). Two copies held by scans are never needed: one stale copy suffices,
besides that of a killed run.

*Queue.* Two items are the least that compete for a key or for the one repair;
two syncs the least that interleave. `MaxIssues` 2 allows the duplicate that
`OneIssuePerKey` excludes. Evidence changes at most once, which makes a stale
candidate, and one kill leaves one request unanswered.

*Host.* The host, a worker that may leave the group and one that ignores signals
are enough to have a process listed, one forked after the listing and one out of
reach at once.

*Store.* Three locked sections, of which two can load what another saved, and one
process without the lock; a fault is a damage of the file or a failed copy.
`LossIsBounded` counts the faults and the processes that moved a decodable file
aside (`strayed`). Without the second count it holds for the three writers of the
run and fails for four: a load without the lock reads a damaged file, a locked
section repairs and saves it, and the load then moves that good file aside, which
costs the updates since the last backup. The proof covers every number of writers
and faults.

*Scan.* One item for each way a detector counts as run. `Dupes`, the in-process
phase for all files, counts like the `Lint` phase but cannot fail; it is part of
the module and left out of the instance, which it makes too large. For the same
reason nobody resolves the review's item (`Disposable`).

*Batches.* A timeout of five polls leaves room for a stall and for output that
restarts its clock; a second attempt is the least for a retry. Three batches are
one more than the workers, so one waits; three runs are a run, its retry and the
retry's retry, or a run of everything in between.

*Symmetry* is declared for the processes of `CycleRecovery` and the syncs of
`QueueSyncs`, which differ in nothing; both runs check safety only.

### 3.2 Fairness

*Cycle.* `TimerFairness`: the timer starts runs again and again (weak fairness of
`StartRun`), and a started run takes its steps, because every external call in
it has a time bound (`_call_within`, `subprocess` timeouts, the deadline of the
host). Nothing is assumed of the success of a lookup. `EveryAttemptEnds` has two
premises of its own: that scans from outside stop at some time, and `Attended`: a
worker nobody watches ends, reviewers close what is open, and the operator, who
can dispose only between two runs and so is enabled again and again rather than
always, is strongly fair. Ticks, edits of the configuration and scans are not
fair.

*Queue.* A sync that is running takes its steps (weak fairness of `Sync`). In the
refresh of a cycle its calls have timeouts; in a `repair-queue sync` of its own they
have none (`_call`, engine/repair_queue.py:438), and there the assumption is that
`gh` returns. GitHub's index catches up (weak fairness of `Index`). That
it succeeds is only assumed of what is tried again and again: that an item
whose creation looked uncertain is some time searched for, found in a search and
written (strong fairness of `SearchFor`, of the finding `Search` and of the
writing `WriteLink`), since any of these may fail each time.

*Host.* The program takes its steps (`Mending`) and deadlines pass
(`TimePasses`). Workers, signals and exits are not fair.

*Store.* A process in a section takes its steps. The lock is handed out fairly
(strong fairness of `Acquire`), which is more than polling for a `flock` gives:
`state_lock` gives up after 30 seconds, which `GiveUp` has, and either way the
section ends.

*Scan.* Phases are run (weak fairness of `Phase`); a scan of everything with the
external tools is begun again and again (strong fairness); scans are not killed
for ever. Commits end by `MaxEdits`.

*Batches.* The watching loop goes on (`Loop`), which polls with a bounded sleep.
Runners are not fair: they may hang, and need not take their prompt, so `BatchEnds`
has the premise that the batch is out of `feeding` again and again. The main thread
and the pool go on and tasks end (`Work`), which is `BatchEnds` and shares its
premise.

### 3.3 Findings

1. *`reported_active` is incomplete when the lookup after a failed run failed*
   (`CycleUnconfirmed`; engine/repair_cycle.py:425): the attempt can then be
   disposed without `--confirm-stopped` while a pull request it opened is open.
   docs/systemd/repair-cycle.md:241-249 has the rule as the code has it; the
   docstring says more.
2. *A retry is imported without the batches it does not retry* (`BatchRetry`;
   execution_phases.py:588-592). The coverage gate is skipped for it because "the
   original run already covered the remaining dimensions". A run without
   `--allow-partial` that misses an answer raises before it imports anything, and
   the retry command it prints merges and imports the retried batches only: the
   answers of the others stay in the files of the first run.

### 3.4 Conditions of the properties

The models show where a promise ends. These are in the code and stated as
conditions of the properties. No sentence in the repository that we found promises
the opposite, but for the two findings and where the text below quotes one.

* *Unlocked writers of the queue's file.* `OneIssuePerKey`, `NothingForgotten`,
  `LinkIsForGood` and the refinement assume that no other command puts an old copy
  back (`Locked`). `OnePendingRepair` and `LinksAreOwn` hold also when one does
  between two syncs.
* *Recover.* An operator who attests that an issue does not exist while a create
  is on its way, or not yet found by search, makes a second one possible. The
  setups have `alone`: a recover falls when no sync or request is under way and
  the index is complete. `OneLanePerItem` and `NothingForgotten` hold only up to a
  recover.
* *The worker tree.* A worker forked after the last listing of `/proc` that leaves
  the group is missed; `VerifiedIsEmpty` says exactly that.
* *Unlocked writers of the cycle's file.* A scan by hand that overlaps a run puts
  the record from before the lease back, and the window gets a second lease.
  docs/systemd/repair-cycle.md:158-160 forbids such a scan while the unit is active.
  The scan of an invocation that was killed outlives it (a child process,
  repair_cycle.py:210) and can do the same; outside systemd nothing stops it.
  `OneLeasePerWindow` is about behaviours with neither (`ForeignScans`);
  `CycleEnds` has both.
* *The state file.* A load without the lock may move a good file aside under a
  locked section (counted by `strayed`). A process without the lock that saves puts
  its own old copy over the file: from when it begins to (`meddled`) nothing is
  said. A state that no scan made lives as long as the plan does: built from the
  plan, saved with updates, it is built anew by the next load, or replaced by a
  fresh state once plan commands have emptied or broken `plan.json`
  (persistence.py:125-137), and the updates are gone. That is what the code means
  such a state to be, and it takes no fault; `dropped` counts those updates, and
  both `LossIsBounded` and `ImplementsAtomicStore` name them. Of a state a scan
  made nothing is ever dropped.

* *Scans.* Two kinds of phase count as run where their answer is not whole, and
  close what is still in the code. Bandit: one that is missing, times out or writes
  no report counts as one that found nothing, and its result is cached until the
  files change. A linter that fails after some findings counts as whole
  (tool_runner.py:183). A result that was read before a commit misses what the commit
  added. `SteadyIsOpen` is about all items in calm behaviours, where the linter
  may still not answer, and otherwise about all that no answer left out
  (`missed`); `Converges` has Bandit's items in calm behaviours only.
  The fingerprint is taken before the tool runs, so a commit in the middle of
  its run is cached under the earlier fingerprint, which no later scan asks for;
  a *prefetched* result may be older than the fingerprint it is cached under.
  `CacheIsCurrent` is therefore about calm behaviours. A rewrite of the same size
  within the clock's resolution counts as no change. A deleted file's item stays
  open while its detector is suspect, because that test comes first in
  `verify_disappeared`; `Converges` is of the detectors that report. The lint
  phase mostly counts by its findings: when it finds nothing and does not know how
  much it looked at, it closes nothing.

* *Batches.* A stall is measured from the last change of the output file's size
  or second, which a leftover of an earlier attempt may renew; `AnswerDecides`
  therefore assumes that no process was left, and `StallIsQuiet` allows the second.
  A runner that does not take a long prompt from its stdin keeps the batch for
  ever, though io.py:196-198 says that the caller's timeout kills what the stall
  check spares: `BatchEnds` has it as a premise. `NoBatchIsDropped` says nothing
  once a run was interrupted, its import was refused, or it gave up on answers it
  had (finding 2): none of these asks for the batches it leaves out. An
  interrupted run leaves the batches that did not end marked as they were. Without
  a pool, a failed report of a failure clears it (`failures.discard`, serial.py:69),
  against "return failed index list" of `execute_batches`: the summary then says
  `succeeded` of a runner that failed, or `parse_failed`. `StatusIsTrue` names the
  exception (`unreported`). `_run_via_subprocess`, the runner without a live log,
  a second Ctrl-C and one that falls into the queueing of the tasks are left out.

* *The clock.* It does not go back; a window repeated when summer time ends is
  not covered.

## 4. Proofs

Thirty theorems, each for all values of the constants under the assumptions
the modules declare: `ConfigAssumption` (the positive bounds
`CycleConfig.from_mapping` insists on) and `EnvironmentAssumption`,
`HostAssumption` (the host is one of the processes and can be killed),
`StoreAssumption`, `QueueAssumption` (the setups are ones a state file can have),
`ScanAssumption` (an issue is of one detector, which is part of its id),
`BatchAssumption` and `RunAssumption`. TLC evaluates each of them in a run. Every
safety property of a passing run is stated by a theorem.

| Theorem | States |
|---|---|
| `TypeCorrect` (`RepairCycleProofs`) | `Spec => []TypeOK` |
| `OverrunCorrect` (`RepairCycleProofs`) | `Spec => []OverrunIsFailure` |
| `DispatchedOnceCorrect` (`RepairCycleProofs`) | `Spec => []DispatchedOnce` |
| `LaunchInTimeCorrect` (`RepairCycleProofs`) | `Spec => LaunchIsInTime` |
| `LiveHostCorrect` (`RepairCycleProofs`) | `~ForeignScans` entails `Spec => []LiveHostIsRecorded` |
| `LiveHostChargedCorrect` (`RepairCycleProofs`) | `~ForeignScans` entails `Spec => []LiveHostIsCharged` |
| `FailureKeptCorrect` (`RepairCycleProofs`) | `~ForeignScans` entails `Spec => FailureIsKept` |
| `LaunchAuthorizedCorrect` (`RepairCycleProofs`) | `~ForeignScans` entails `Spec => LaunchIsAuthorized` |
| `OneLeasePerWindowCorrect` (`LeaseProofs`) | `~ForeignScans` entails `Spec => []OneLeasePerWindow` |
| `SettledFinishedCorrect`, `HistoryFinishedCorrect` (`LeaseProofs`) | `~ForeignScans` entails `Spec => []SettledIsFinished`, `Spec => []HistoryIsFinished` |
| `OneRepairCorrect` (`LeaseProofs`) | `~ForeignScans` entails `Spec => ImplementsOneRepair` |
| `VerifiedCorrect`, `HostStoppedCorrect` (`HostRunProofs`) | `Spec => []VerifiedIsEmpty`, `Spec => []HostIsStopped` |
| `OnePendingCorrect`, `LinksOwnCorrect` (`RepairQueueProofs`) | `Spec => []OnePendingRepair`, `Spec => []LinksAreOwn` |
| `NothingForgottenCorrect`, `OneLaneCorrect` (`RepairQueueProofs`) | `Spec => []NothingForgotten`, `Spec => []OneLanePerItem` |
| `OneIssueCorrect`, `LinkForGoodCorrect` (`RepairQueueProofs`) | `Attested` entails `Spec => []OneIssuePerKey`, `Spec => LinkIsForGood` |
| `PublishOnceCorrect` (`RepairQueueProofs`) | `Attested` entails `Spec => ImplementsPublishOnce` |
| `StoreCorrect`, `LossCorrect` (`StateStoreProofs`) | `Spec => ImplementsAtomicStore`, `Spec => []LossIsBounded` |
| `CacheCorrect`, `SteadyCorrect` (`ScanMergeProofs`) | `Spec => []CacheIsCurrent`, `Spec => SteadyIsOpen` |
| `StallCorrect`, `AnswerCorrect` (`BatchAttemptsProofs`) | `Spec => StallIsQuiet`, `Spec => []AnswerDecides` |
| `StatusCorrect`, `DroppedCorrect`, `WholeCorrect` (`BatchRunProofs`) | `Spec => StatusIsTrue`, `Spec => []NoBatchIsDropped`, `Spec => WholeOrNothing` |

`~ForeignScans` says that no command outside the cycle lock rewrites the state
file. Without it TLC finds two leases in one window (3.4): it is the condition on
which the code rests. The scans a run starts
itself are inside the lock and are covered; one that outlives its killed run
counts as foreign. Three theorems need no such condition and say what a foreign scan
cannot undo: `OverrunIsFailure`, since every copy that can be put back satisfies it
too, and `DispatchedOnce` and `LaunchIsInTime`, which rest on what the run holds in
memory.

`Attested` says that `recover` runs when no sync or request is under way and the
index is complete (`alone` in every setup), which is what its operator states
with `--confirm-not-created`. Without it TLC finds a second issue for a key. The
properties of the queue that survive a false attestation, and `OnePendingRepair`
and `LinksAreOwn` even with unlocked writers, are proved without it.

**Types.** `RepairCycleProofs` shows that every operation of the record returns a
record. `TypeOK` is not inductive: a lookup applies `opened` to the attempt of
the record, which is an attempt only where the record has a lease. `TypeInv` adds
that (`Attached`).

**Overruns.** A record is over a ceiling only by `Settle` with a measured usage,
which sets the failure in the same step, and no operation clears a failure short
of a new attempt. `AccountedInv` says so of every copy there is: the file, what
runs hold, what scans hold.

**One live host.** `LiveHostIsRecorded` speaks of the file; what endangers it is
a section's unsaved copy, which a clean exit writes over the file. `LiveInv` says
of the file *and* of the copy that while a host is up the record satisfies
`MayBeLive`: its dispatch is intended, unknown, or returned with an unknown
outcome (or it has only the active receipt of an earlier version), and it is not
disposed. It also says that one invocation runs at a time; that the steps which
act on the file's record really hold it (`CopyIsCurrent`); that nothing runs
between lease and launch (`NothingRunsYet`); and that a run reads the pull
requests of its own dispatch only after its host completed
(`DispatchIsReturned`), which is why a verdict cannot settle under a live host.
The core facts are that `MayBeLive` excludes `Settled` and entails
`ReportedActive` (`SettledIsNotLive`), so neither the gate nor an unconfirmed
disposal gets past it, and that parking, failing, counting and adding references
say the same of the attempt (`SameAttempt`). `OnlyOneMoves` reduces each step to
the process that takes it.

**What the record keeps.** Charge and failure need more of the copy than that it
names the attempt. `KeptInv`, on top of `LiveInv`, says that the file and the copy
of a section both cover the live host's reserve, that the copy has the failure
the file has, and that the record is fully charged from the launch on. A charge
is replaced by a smaller one only when the host is gone, and a failure only with
its attempt.

**One lease per window.** `LeaseInv` says that windows rise strictly along
`begun`, that none is later than the clock, that the file's lease carries the
last of them, and that the clock reading a run selects with is at least as late
as every lease. `LeaseKept` shows that no other step changes the lease, with
`LiveInv` for the copies.

**What a launch rests on.** `ApprovedInv` carries what the recheck read, an approval
that is held, from the lease to the launch; the deadline of the request is the
earlier of the lease's and the approval's, so the launch's own comparison with
the clock gives the rest. `OnlyLaunchStarts` shows that no other step starts a host.
None of this reads the file after the lease, so `LaunchIsInTime`, which says it of
the lease the run holds instead of the file's, is proved with foreign scans as well.

**What a foreign scan cannot undo.** An old copy put back can make a run lease a
window again, but under a fresh id. The attempt it leased is dispatched by that run
or by none, since a run that finds a lease in the file observes it and never
launches for it. `DispatchInv` says that ids which were not given out have no
dispatch, that an attempt between its lease and its intent has none, and from
there to the return of its host exactly one; one run at a time does this.
`DispatchSteps` sorts the steps: all but the lease, the intent and the launch leave
dispatches alone and change a host only as it ends.

**Settled and replaced attempts.** `Ends` says of a record what is true of the
hosts and pull requests it speaks of: settled, it leaves nothing open; what it
archived is over. `FinishedInv` says so of the file and of the copies of sections,
and that a verdict is reached only on all pull requests the attempt ever opened
(`ReadAll`). A pull request that is opened later cannot contradict it: its host
runs, so by `LiveInv` the record of its attempt is neither settled nor archived
and no verdict on it is being read (`OpenFinishes`); and `EndsLater` says that
hosts that end and pull requests that are closed change nothing of it.

**One repair at a time.** `OneRepairCorrect` is the refinement of `OneRepair`, under
the mapping `RepairState`. A section saves several steps of its copy at once, so
`PromiseInv` says that the copy is always one the file *leads to*: `Leads` is
what `OneRepair` calls progress of an attempt, or none, and it is transitive.
What a run observes is never settled (`PromiseInv` for the reads, `FinishedInv`
before them), and from an unsettled record every change that keeps the lease, the
disposal and the first failure leads on (`UnsettledLeads`). The lease itself is
`LeaseAttempt`, its window new by `LeaseInv`; the intent is `DispatchOnce`, from
a record that is `JustLeased`.

**The worker tree.** A scan of `/proc` takes many steps while workers fork and
move. `ScanInv` says of every process what the scan has established at its point:
one that was listed and passed over is gone, or is in the group for good (a
process that leaves the group keeps the marker, `TreeInv`, which is what ADR 0010
asks of workers). `LeaderInv` carries the promise about the host through the two
rounds of signals, `SignalInv` through a cancellation at any step.

**The store.** `StoreCorrect` is the refinement: each step of load, save, fallback
and lock is a step of `AtomicStore` or leaves its variables alone. `LockInv` says
that a writer between its start and its end holds the lock; `SoundInv` that as
long as nothing but locked sections wrote and no load dropped an update, the file
is there or was never saved, nobody recovers it, and a writer that has loaded it
has in memory the updates that are in it still, with its own once made. A plan
that comes and goes changes what a load makes of a state without a scan, and
`dropped` is what it leaves out.

`LossCorrect` counts. `Harm` is the faults and the strayed processes so far, `Kept`
the saved updates that no load dropped, and `Covers` says that a state lacks at
most so many of them. `BoundInv`
gives each place what it may lack: the file and what a locked section holds in
memory lack at most the harm; the backup, one save older, one update more, but not
that one where it is about to matter: when the file is no state, and when the
next save is about to replace the file. So a fallback is paid for by the fault,
or the process, that took the file away. `MoveAside` is the step that pays for a
process. It all holds until a process without the lock begins to save (`meddled`),
as the property says.

**One issue per key.** The danger is a sync that searched, found nothing and is on
its way to a create. `RecordStep` sorts all steps by what they do to records and to
GitHub: only a link, a create under the lock and a recover change a record.
`OnceInv` says of every key and lane that issues and requests are one at most,
that a request has a record in the state file, and that an issue has one too, or
is `Found`: it is in the index and no sync is `Headed` for its creation. The record
bars the create (`MayCreate`); a recover, which takes it away, happens only when
the other alternative holds, and from then on every search verifies the issue
(`FoundStays`). `LinkInv` says that every link stored, copied, read or about to be
written names an issue of its key and lane; as no issue goes away, neither the lock
nor the attestation is needed for it. With `OnceInv` it gives `LinkIsForGood`: what
a sync stores names the only issue there is. `RecordInv` says that until a recover
all records of a key are in one lane, which is why a link written from an old read,
after the item changed its classification and back, cannot give it both. The refinement
reads the same invariant: `OnceStep` is `PublishOnce` on what the queue shows.

**One pending repair.** `PendingInv` says it of the file and of the copy an unlocked
command holds, so that putting the copy back adds nothing to it.

**Scans.** `CacheInv` says that in a calm behaviour each result, prefetched, of the
run under way or cached, is what the tool finds in its revision, and that none is
of a later one than the present. `ReportInv` says that the detectors that ran have
reported every item in scope that stayed in the code, but for those that an answer
left out, which in a calm behaviour are none; `Merge` then has no ground to close
one. That an item is of one detector is needed there: the
run of another must not count for it.

**Batches.** `WatchInv` relates the clocks of the watch to the last change of the
output; `DecideInv` follows a code from the check of the file to the end.
`FailuresInv` says that what the main thread knows of the tasks it took is what
became of them, but for a failure that could not be reported without a pool; with
it each status that `Collect` writes follows from the task's code and file.
`DroppedInv` says that a run stands for what the last one asked for: until it is
over its batches and the imported ones are all of the packet, and from the
collection on what it asks for is what it found no answer of. Its tasks have all
ended by then, so no file changes under the import. `WholeCorrect` needs no
invariant: that nothing of an incomplete run is imported holds step by step.

**Left to TLC.** Liveness, out of the prover's reach: `AttemptIsResolved`,
`EveryAttemptEnds`, `PublishedIsLinked`, `RunEnds`, `EverySectionEnds`,
`Converges`, `BatchEnds`.

## 5. Not modelled

* *The living plan* (`engine/_plan`): clusters, skips, reconciliation of
  `plan.json` with the state. Commands rewrite it whole and without a lock; what
  must hold between plan and state is nowhere stated as one promise, so a model
  would have to make it up. Reading and running the code showed cases where the
  two part:
  * `plan skip --permanent` of an item that is skipped temporarily already leaves
    its status `deferred`, while the plan's entry says permanent and the command
    prints "Wontfixed 1 item(s)" (`app/commands/plan/override/skip.py`);
  * an item that was superseded once and is skipped again is pruned from the
    skips by `_prune_existing_superseded_references` at the next reconciliation
    (entries are kept 90 days), which leaves it deferred with no skip;
  * resetting, promoting or reordering a deferred item removes its skip and does
    not reopen it;
  * a kill between the two saves of `save_plan_state_transactional`, or between a
    scan's save of the plan and its last save of the state, leaves an item
    deferred that no skip will bring back.
* *Work queue*, *scoring*, *narrative*: computed from plan and state at each call,
  with no state that outlives it. Unit tests reach them.
* *Triage stages*: a staged protocol whose steps validate text an agent wrote.
* *Packets, prompts and the import text* of review batches: data, not control. What is
  imported, and when, is in `BatchRun`.
* *The analyses of the detectors and languages*, which are most of the code: pure
  functions of source text. `ScanMerge` has what a scan makes of their results.
* *Rendering, configuration, command line, repository scripts.*
* Inside the modelled parts: the checkout fast-forward of the cycle, the preflight
  of the host adapter, the text of briefs and manifests, the rank of the
  selection, the record of the selection (nothing reads it), decoding of damaged
  records (one outcome). `PROJECT.json` notes this for each component.

## 6. Plan

Done: the cycle (`CycleState`, `RepairCycle`, `OneRepair`), `HostRun`,
`RepairQueue`, `StateStore`, `ScanMerge`, `BatchAttempts`, `BatchRun`.

Next, in order:

1. Theorems about the abstract specifications themselves, carried to the code's
   modules by the refinements.
2. The life of a skip between plan and state, once the code settles which of the
   two decides.
