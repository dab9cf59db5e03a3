# Verification of code_runner

code_runner drives AI coding sessions through the issues of a milestone (a
*wave*): `orchestrator-api` schedules the issues, prompts the sessions, runs the
gates and the internal review and merges with plain Python; `agent-runner`, a
container of its own, executes what the sessions ask for; `orchestrator-ui` shows
it. This directory holds TLA+ models of the engine, the TLC runs that check them
and the theorems TLAPS proves about them. Paths below are relative to
`src/orchestrator-api/app/` unless they say otherwise.

## The system

| Component | State | Operations | What is hard | What makes it correct |
|---|---|---|---|---|
| Wave scheduler, `engine/scheduler.py` | `_done`, `_cap`, semaphore, a lock per repository, pause and done events | `run_wave`, `pause`, `resume`, `step_down_cap` | five awaits per task, an event that is replaced after it is set, cancellation at any of them | one issue per repository, permits conserved, dependencies first, no lost wake-up, every wave returns |
| Run controller, `engine/run_manager.py`, `routers/runs.py` | table `runs`, `_active_run_id`, `_active_task` | start, stop, pause, resume, complete, fail, recovery at construction | restart between any two calls, calls on older runs, commands that outlive a run | row and id agree, a driven wave can be stopped, an ended run stays ended |
| Issue pipeline, `engine/wave_driver.py`, `implement_loop.py`, `review_cycle.py` | local counters, the repository, markers, blockers | implement, gate, fix, review, feed back, merge, park | death or exception between any two steps, leftovers of earlier runs, three bounds in nested loops | sessions on their own branch, only reviewed work merged, parked work on record, termination |
| Git wrapper and branches, `git/` | the repository | create, diff, merge, discard, create or reuse | dirty trees, refused checkouts, conflicts | as above |
| Markers and blockers, `engine/markers.py`, `blockers/store.py` | two tables | write, read, record, resolve | writes that leave a column, crash between git and the table | the marker never runs ahead of git |
| Gates, `gates/runner.py` | none | `run_gates` | the tree they test is not what is merged | see findings |
| Crash recovery, `engine/recovery.py`, `git/recovery.py` | none of its own | `evaluate_recovery`, `classify`, `discard_and_restart` | marker and git disagree; merged, empty and unmerged branches look alike | no work lost, no half-written work kept |
| Usage control, `usage/` | scheduler cap, override, snapshot cache, pause rows | `check`, `apply_cap_step`, `evaluate`, `wait_for_resume` | stale snapshots, failing reader, operator and monitor on the same row, a waiter asleep meanwhile | a pause keeps its meter, holds the scheduler, and ends |
| Notifications and Telegram commands, `notifications/` | update offset | poll, route, reply | offset before handling, restart, redelivery | no command lost or repeated |
| Provider adapters, `providers/`, executor, `src/agent-runner/app/` | messages, audit log; running commands | `run_session`, tool calls, `derive_artifacts` | calls that are denied, fail, or run without an answer; git read in four pieces | the audit is what ran, the artifacts are what changed |
| Observability, `observability/` | capture files, rollup rows, aggregated ids | write, aggregate, prune, report | torn files, a shared connection, crash between two statements, a deletion that fails half way | nothing counted twice, oldest captures go first |
| Wave reading and assembly, `wave/` | none | `read_wave`, `topological_sort` | duplicate and missing dependencies, coinciding numbers | a linear extension, or a cycle that exists |
| Hand-off, `handoff/`, `github/client.py` | pull requests | push and open | once per repository, errors passed over, a second run | what a pull request says is true |
| Notion mirror and social context, `sync/`, `notion/client.py` | rows, a page | `sync`, `update` | lost answers, retries, others who edit meanwhile | idempotent; a page is whole |
| Progress bus, `progress/bus.py` | bounded queues, last run state | subscribe, publish, close | full queues | every stream ends |
| State store, `db/` | schema version | migrations | crash inside a migration | restart completes it |
| Authentication, `auth/` | sessions, attempts | login, rate limit | sliding window | bounded attempts per window |
| Configuration, personas, skills, renderer, profile, secrets, UI | files, external services | load, compose, call | - | ordinary tests |

**Interactions.** `POST /runs/start` inserts a row, creates an asyncio task for
the wave and hands it to the controller, with no await between. The task reads
the wave from GitHub, orders it, checks out the agent branch in every repository and gives
`WaveScheduler.run_wave` one coroutine per issue. Each prompts sessions; a session
sends its tool calls over HTTP to the agent-runner and waits. When the issues are over
the agent branches are pushed and a pull request is opened for each. Beside the wave a
monitor reads the provider's meters and steps the scheduler down or pauses the run, and a
Telegram poll lets the operator do the same. Captures of the sessions are rolled up into
reports, issues are mirrored to Notion. The orchestrator is
one event loop, so code between two awaits is atomic with respect to other
coroutines, not with respect to the death of the process, nor to a command that
is executing in the other container.

## Modules

| Module | Models | Composes |
|---|---|---|
| `WaveContract` | what the engine promises of a wave, with no queue, event or lock | - |
| `WaveScheduler`, `MCWaveScheduler` | `WaveScheduler`, one action per stretch between two suspensions; a wave for TLC | implements `WaveContract` |
| `RunController` | the class `RunController` under any calls and restarts | - |
| `RunLifecycle` | the four routes, the waves, their commands and crashes | extends `RunController` |
| `IssuePipeline`, `MCIssuePipeline` | `execute_issue`, both loops, branches, markers and blockers for one repository, through interrupted runs; two issues and their symmetry | - |
| `BranchRecovery` | crash, `classify`, `evaluate_recovery`, `discard_and_restart` on a graph of commits | - |
| `UsageControl` | the monitor's cycle, cap steps, policy, pause rows, `wait_for_resume` | - |
| `OperatorChannel` | the Telegram poll, its offset, restarts | extends `UsageControl` |
| `ProviderSession` | a session of an adapter and the agent-runner it talks to | - |
| `EfficiencyReports` | the reports as operators on rows | - |
| `Observability`, `MCObservability` | captures, rollup, pruning; three sessions | extends `EfficiencyReports` |
| `WaveRun`, `MCWaveRun` | a wave from GitHub's listing to the pull requests; every dependency relation on three issues | - |
| `NotionMirror` | the mirror of issues and the page of the social context | - |
| `StoreProofs` | theorems about what SQLite keeps: rows of runs, rollups of sessions | extends `RunLifecycle` and `Observability` |
| `WaveSchedulerProofs`, `UsageProofs`, `BranchRecoveryProofs`, `IssuePipelineProofs`, `ProviderSessionProofs`, `NotionMirrorProofs`, `WaveRunProofs` | theorems | extend the modules they are about |

A definition that begins with the comment `Mutant:` is a plausible mistake in the one that
follows it; no specification uses it. It shows that the property it is listed with could fail.

### WaveScheduler

`pc[t]` is where `_run_task(t)` is suspended: `awaitDone`, `awaitResume`,
`awaitPermit`, `awaitLock`, or woken from one of these and not yet run. `done`,
`paused`, `cap`, `permits` and `locked` are the fields of the same purpose; an
event keeps no waiters of its own, they are the tasks whose `pc` says so. `Check`
is one round of `_wait_for_dependencies` and whatever follows without
suspending; `LeavePauseGate`, `TakePermit` and `TakeLock` are the resumptions;
`Finish` is the return or exception of `execute` with the whole `finally` block;
`Cancel` and `Unwind` are the cancellation of the task that awaits `run_wave`.
The semaphore is that of Python 3.12 and later: a newcomer queues behind every
task still waiting or woken, and a woken taker hands on the permits that came free
meanwhile. Waiters are served in any order, which includes asyncio's first come,
first served; what holds of the model holds of the code.

`Contract == INSTANCE WaveContract` maps `executing` to running, the verdicts to
themselves and every other `pc` to waiting; `ImplementsContract` is checked and
proved.

### RunController, RunLifecycle

`status` is the table, `activeRun` and `activeTask` the two fields, `task` the
state of the asyncio tasks. No method awaits and each commits at most one
statement, so each is one action, and `Restart` may come between two.
`RunLifecycle` extends it by `command`, a command of each run that the agent-runner
executes; neither a stop nor a crash reaches it. Its `Crash` is `Restart`, and its
routes are the methods with the task they create, so that each step is one of the class
by construction. The application is taken to have a wave function, as `bootstrap.py` gives it.

### IssuePipeline

An engine step runs from one call that touches git, the markers or the blockers
to the next, so that an interruption can fall between any two: `CheckoutAgent`,
`Merge`, `DeleteMergedBranch` and `MarkMerged` are the four steps of an approval,
`Escalate`, `DiscardCheckout` and `DiscardBranch` those of parking. Content is the
set of changes that sessions have made, one by the implementing sessions of an
issue, one by its feedback sessions and one, an aside, by the sessions that were to make none;
`tree` are the uncommitted ones, `agent` and `feature[i]` the committed ones. `gated` and `unseen`
have no counterpart in the code: they record what the gates saw and what was committed behind
the back of the engine after the diff was taken, for `MergeIsEarned`. Which sessions can change
anything depends on `Adapter`: Claude offers the model only the allowed tools, Codex runs full-auto whatever
`allowed_tools` and the role say (`codex.py` 139), and Gemini is read-only for the reviewer alone (`gemini.py` 150),
so that the session that writes the body of the pull request can commit as well (`Unrestrained`). Checking out a branch carries
uncommitted changes along or, where they are in its way, is refused.
`Interrupt` is the death of the process or the cancellation by a stop;
`BeginRun` starts the next run, with a new id and therefore no markers and no
blockers, in the repository as it is.

Abstracted: the text of prompts, diffs and bodies (the reviewer is shown the
first 8000 characters of a diff; the model takes it to be shown all of it), the
rendered instruction files `write_to` puts into the tree before the first
session, session capture, notifications. A session is taken to stay in the
repository of its issue and on the branch it finds, although the executor works in one
directory (`/workspace`) and could do otherwise. One command that outlives its
session is followed at a time, for the one thing it does last, and only of the sessions in
`Leaving`; at most `MaxUnasked` changes that nobody asked for, asides and those of such commands, are there
in a behaviour.

### UsageControl, OperatorChannel

`used` is what the provider has metered. A check (`UsageMonitor.check`) is answered from
`cache`, or awaits the reader (`BeginRead`, `EndRead`, `ReadFails`), which returns what the
OAuth endpoint reports, what the status line says (no resets) or the estimate (no meter);
`Judge` is the rest of the check, with no await in it: `ApplyCapStep` on the governing meter, then
`UsagePolicy.evaluate`, then the pause row. `row` is the row of `usage_pauses`, `held` and
`cap` belong to the scheduler the monitor was given. `waiter` is where
`wait_for_resume` is suspended: asleep until a reset it read earlier (`alarm`), or backing off before a probe, which
fails at once (`ProbeFails`).
Time is relative: a stored `resets_at` is ahead, passed, or unknown, and `WindowEnds` turns one
into the other everywhere at once, in the cache, the row and the sleeper.
`OperatorChannel` adds the bot's server (`sent`, `confirmed`), the offset and the batch of a poll.
The override route and the commands of `CommandRouter` are the actions of the operator. `Restart`
loses the offset, the override, the cache and the waiter and keeps the row. Left out: the
intervals of polls and back-off, peak hours and the human reserve (they change only
the text of the answer THROTTLE), the parsing of the readers.

### BranchRecovery

`parents` and `history` are the commits, `tip` the branches, so that `commits_between` and
`was_merged_into` are what `git log base..branch` and its merge commits say. An issue passes
through the stages of the pipeline, reduced to what changes commits, the tree or the marker, one git command
a step: the checkout, merge, abort and deletion of `merge_into_agent`, and the cleaning, checkout and deletion of
`discard_and_restart` are steps of their own. A `Crash` may come between any two, and while `down` every
branch for which `evaluate_recovery` answers "reset" is discarded before the engine works again. The sessions
that can commit are those of `IssuePipeline`, by `Adapter`. `unmerged`, `mergedTip` and `half` are history. The application has no caller of these two helpers: that somebody acts on their
answers is how they are documented, and an assumption of this module.

### ProviderSession

A Claude session alternates `ModelAsks` and the answers to a batch of calls: `PostCall`, and then the
agent-runner denies or executes, and `AnswerArrives` or `CallFails`, in any order, also when nobody
listens any more. A command-line session (Codex, Gemini) prints lines and exits; the outcome is judged as
`_parse_output` and `run_session` do. Both end in `derive_artifacts`, four questions
to git (`tree`, `index`, `commits`, `untracked`) with a wait between each. A command may write,
stage or commit. The adapter has only the text of an answer to tell a denial by (`ReadsLikeADenial`), and an
executed command may print what begins like one (`RunnerExecutes` with `"echo"`, kept in `echoed`).

### Observability, EfficiencyReports

`file` and `months` are the directories of captures, `store` what SQLite has committed and `conn`
what the shared connection sees, so that a commit of any other component commits a half-done
aggregation too. `Upsert`, `InsertId` and `CommitSession` are `aggregate_session`; `StoreCrash`, `InsertFails` and
`CommitFails` come between. When only the insert of the id is undone the upsert stays pending; `strays` counts how
often, and `upserts` keeps each upsert beside the rows, both as history. Files are torn or unreadable, and ids astray,
only with the captures and on the days in `Mishaps`, and ids at most `MaxStrays` times. A prune ages, then caps, a month at a time, and a deletion may stop half way.
`EfficiencyReports` has the report as operators on rows; `ReportFromRollups` compares the
report of the rollup with the same report of the sessions. Its definitions are named apart from those
of `RunLifecycle` (`ObservabilitySpec`, `observabilityVars`), so that `StoreProofs` can extend both.

### WaveRun

`ReadRepo` is `read_wave` for one repository; `BeginSort`, `TakeFirst` and `EndSort` are Kahn's algorithm
with the counters it keeps, `NextStart`, `Follow` and `NoCycleFound` the search for the cycle it reports,
with `path` as its stack. `ExecuteIssue` stands for all of `IssuePipeline`,
`BeginHandOff`, `Push`, `OpenPull` and their failures for the hand-off, `RunAgain` for the next run of the same wave.

### NotionMirror

`sync` lists the open issues, then the closed ones, then queries the rows, then writes what differs; a listing is the
first page of the issues and pull requests of its state (`FirstPage`), without the pull requests (`Listed`);
`update` reads the children of a page, deletes them and appends the new ones in batches. Any
request may fail, before or after it has taken effect; a `NotionError` of a row is recorded, anything else
ends the job. GitHub's issues and the rows change between any two requests.

## Runs

All passing runs are exhaustive for their constants.

| Run | Instance | Question |
|---|---|---|
| `scheduler` | 5 issues, 3 repositories, one issue that waits for its sibling and for one of another repository, cap 2 | type, one issue per repository, permits, dependencies, wake-ups, refinement of the contract; every wave returns, a pause drains |
| `run_controller` | 3 rows | row, id and task agree through every call and restart; no ended run comes back |
| `run_lifecycle` | 3 runs | a driven wave can be stopped, a stopped run sends nothing more and falls silent |
| `pipeline_restart` | 2 issues, 2 runs, 1 fix attempt, 1 checkpoint, 2 review cycles, Codex, 1 change nobody asked for | branches, blockers, markers and merges through interruption anywhere |
| `pipeline_bounds` | 2 issues, 1 run, the default limits 3, 3 and 2 | checkpoint count, termination |
| `usage_control` | 2 meters at 75 and 80 percent, threshold 80, 2 messages | an open pause keeps its meter and reset, the monitor pauses run and scheduler together, updates are handled once and in order, a wait ends unless the run stays paused without a reset |
| `branch_recovery` | 2 issues, 4 commits, Codex | undelivered work is seen, a merged branch is recognised, a session cut short is reset |
| `provider_session` | 2 files, 4 calls, batches of 2 | audit, artifacts and outcome tell what happened |
| `observability` | 3 sessions, months of 2 days, 3 days, a cap of one file, mishaps with 1 capture on the first day, 1 stray id, figures that make a median zero | sessions counted once but for stray ids, a report of rollups is the report of what was counted, pruning order |
| `wave_run` | 2 repositories, 3 issues with up to 2 dependencies each, 2 runs | order and cycle, truth of the pull requests |
| `notion_mirror` | 2 issues, a pull request between them, listings of 2 items, pages of 2 batches, 4 jobs, 2 changes by others, 4 rows | a clean sync matches, no second row, a whole page |

Bounds. A cap below the number of repositories and two issues in one repository
are what it takes for a task to hold a permit while it waits for a lock, and for
several permits to come free during one hand-over. Three rows are a run, the
one after it and an older one to confuse them with. Two runs are an interrupted
one and one that meets its leftovers; a third finds nothing the second could not
have left. The small limits of `pipeline_restart` still reach both
ends of each loop; the loops are taken at their real length in `pipeline_bounds`.
Issues of `pipeline_restart` are interchangeable and enter no CHOOSE, so its states
are taken up to symmetry; no liveness is checked under symmetry.
The two levels of `usage_control` are the highest cap step and the threshold itself, where the two decisions could
come apart; two meters are what it takes for another one to govern while a pause is open.
Four commits are the work and the merge of one issue and of another after it. One change that nobody asked for is an
aside or the act of a left command; the runs take Codex, whose sessions can do all that those of the other adapters can, and
the proofs take every adapter. Listings of two items are full with one issue and the pull request, which keeps the
other issue out of reach. Two calls in a batch are
one that has run when the other fails. Three sessions are two of one key and one beside
them, or three keys with a median; two months are one to prune and one to keep. Every dependency list of
up to two entries over three issues and one outside the wave has every cycle, diamond and repetition there is among three.
Four jobs are two syncs that fail or miss, one that repeats, and one that is clean; the row bound
stops a sync that would exceed it and is above the number of issues that can be doubled.
Deadlock is not checked where the system stops for good: a wave that has returned, the last
run or job a behaviour may start, a session that is over.

Fairness. `FairSpec` of the scheduler: the event loop runs every ready coroutine
(WF of each task's step), and `execute` ends. `FairLifecycle`: a command ends by its
timeout (`src/agent-runner/app/executor.py`, 300 s). `FairSpec` of the
pipeline: the engine takes its next step; gates have a timeout, and a session is
taken to end, which is an assumption on the model provider because
`run_session` bounds neither its turns nor its time. `FairSpec` of the operator's channel: windows end and
timers fire (WF); no probe is taken to succeed. No lever, route, message, check, session command
or interruption is ever obliged to happen, and `WaveReturns` is stated for waves
that are not left paused.

### What the documentation says and the code does not do

`pipeline_uncommitted` ends in a counterexample: the gates pass on work that no commit
contains, so neither the review nor the merge sees it; PROJECT.json quotes the sentence it refutes.
The others below are visible in the actions, and have no run of their own.

Scheduler and runs:
- The pause gate is looked at once: a task past it is admitted while the scheduler is paused
  (`AskForPermit`, `TakePermit`; `scheduler.py` 70-76).
- `pause_run` changes a row and nothing else, so the wave of a paused run goes on (`PauseRun`).
- A command of a stopped run may execute beside one of its successor (`StopRoute`, `StartRoute`).
- `StepDownCap` leaves the permits of the running wave alone, so a lowered cap limits no admission (`scheduler.py`
  104-114). `AskForPermit` comes before the lock, so issues that queue for one repository
  hold permits an idle one would need (`scheduler.py` 73-76). An explicit cap of 0 admits nobody, ever.
- `Finish` enters an issue that raised into `done`, so its dependents start (`scheduler.py` 79-83).
- `CompleteRun` and `FailRun` are no part of `RunLifecycle`: nothing calls them, and a run whose wave is over
  stays running; nor does anything drive a run that `Restart` has recovered.
- The monitor is given a scheduler of its own (`bootstrap.py` 115), not the one `wave_driver.py` 97 makes for the wave.

Issue pipeline:
- Uncommitted work of a discarded issue stays in the tree and is merged with the next one (`DiscardCheckout`; `feature_branch.py` 70).
- The branch an interrupted run has left makes its issue fail in the next (`CreateFails`).
- `MergeConflicts` ends in an exception, where `merge_into_agent` promises that the caller can park the issue.
- One exception takes every merged issue off the hand-off (`EndWave`, and `Completed` of `WaveRun`; `wave_driver.py` 242).
- `MergeIsEarned` allows for three things. A reviewer's feedback is committed and merged without another
  run of the gates (`review_cycle.py` 145-173); what a stray command has committed on a branch is
  merged with it; and so is what the body session of Codex or Gemini, or the review session of Codex, has
  committed, although `review_and_merge` gives it `allowed_tools=[]`, outside the approved diff or after the gates
  (`SessionWrites`, `SessionCommits`; `review_cycle.py` 66-73, 98-105). Nothing else reaches the agent branch unless the
  gates passed on it and it is in the approved diff; with Claude and no stray command, nothing at all does
  (`HeedingMergesAreStrict`), feedback apart.

Usage control and the operator's channel:
- The scheduler is paused at the threshold whatever the override says (`ApplyCapStep` and `SaysPause`), and nothing resumes
  that scheduler: `set_resumed` changes the row alone.
- The sleeper resumes the run after the reset without another look at its row, which by then may be another
  pause, a manual one too (`WakeAfterReset`, `pause.py` 162-164).
- A probe never succeeds: `_probe_model` runs the adapter in a `TemporaryDirectory`, where `GitRepo` raises for want of
  `.git` (`git/repo.py` 12-13) and the exception counts as unavailable. A run that is paused without a reset time goes on only when the
  operator or another waiter resumes it, where `src/docs/specification.md` 234 lets a probe do so (`ProbeFails`). `WaitEnds`
  therefore excepts the waiter that finds its run paused without a reset again and again.
- A snapshot read before a reset is served from the cache after it and pauses the run again (`CheckFromCache`).
- After a restart the row is still open and the scheduler, which is new, is not held (`Restart`).
- The offset is kept in memory: an update that was not confirmed before a restart is handled again, and an
  override is toggled back. An exception of a handler loses the rest of its batch (`HandlerRaises`).
- `governing_meter` settles a tie by the greatest name. `clear_for_new_run`, the poll, `UsageMonitor.check` and `wait_for_resume` have no caller;
  `routers/runs.py` 119 gives `switch_reader` the monitor's own reader.

Crash recovery:
- A leftover branch with nothing of its own, whose tip is the first parent of a later merge of another issue,
  is classified as merged (`was_merged_into` takes either parent).
- The commits of a body or review session that a crash cuts short are resumed (`ResumeStage`), where Codex or Gemini let it commit:
  the markers `internal_pr` and `review` are resumed whatever is on the branch. `HalfSessionIsReset` is about every session
  with Claude and about those that are allowed tools with the others.
- A crash between a merge that stops at a conflict and `merge --abort` leaves the conflict in the tree. The agent branch is
  checked out then, and `discard_and_restart` cleans the tree of a feature branch only, so that no issue goes on
  (`AbortMerge`, `RestartCleans`, `Create`, `Resume`).
- `evaluate_recovery` answers RESUME for a branch that was merged and not deleted, and for a dirty
  one without commits, where sections 18.2 and 18.4 of the specification have other answers. `discard_and_restart` leaves the marker as it is.

Provider sessions:
- The audit records of a batch in which one call fails are lost with the calls that did run (`CallFails`).
- A call that was executed is audited as blocked when its output begins like a denial, since `claude.py` 218 looks at
  nothing else; `AuditMatchesExecution` excepts these.
- A response that stops at `max_tokens` with a tool call in it ends the session as completed, its call unanswered.
- A command that outlives its request can move a file from one place to another while `derive_artifacts` reads them, so
  that it is in no answer (`overlapped`).

Observability:
- A torn capture raises an exception that is no `CaptureError` and aborts the whole pass, where `rollup.py` 106 says that read errors are
  skipped (`AbortPass`).
- When the insert of a session's id fails and SQLite undoes it alone, the upsert stays pending: the next commit on the
  connection counts the session without its id, and the next pass counts it again (`InsertFails`), where
  `aggregate_session` says idempotent (`rollup.py` 42). `RollupCountsOnce` counts these.
- A report fails with a division by zero when the median of the skills' average input is zero and one is above it
  (`DividesByZero`, `reports.py` 294).
- A prune may delete a month that was never aggregated, or the current one; nothing calls aggregation or pruning.
- `_model_cost_suggestions` compares a model only with those after it in the order of the names; with two skills
  none can exceed twice the median. `retry_count` is never set by the writer.

Wave, hand-off and mirror:
- A dependency listed twice counts twice and is released once (`InDegree`, `TakeFirst`): the wave is refused for a cycle that does not exist.
- Of issues of two repositories with the same number one is dropped (`by_number`). An issue of a repository without a checkout
  raises, and no issue of the wave is handed off as completed.
- Listings are read up to the first 100, pull requests among them: what comes after is neither in a wave nor mirrored
  (`FirstPage`, `github/client.py` 165). `MirrorMatches` is about the issues that a listing reaches. A second run whose pull request exists is refused, which is passed over,
  and the body stays that of the first. `cleanup_after_merge` has no caller.
- An issue that is closed between the two lists of a sync is created twice (`doubled`), where `mirror.py` 38 says idempotent; one that is reopened is missed.
- A timeout is no `NotionError` and ends the sync. An update that fails leaves the page half deleted. `_sync_trackers` does not call the mirror.

## Proofs

TLAPS proves, for every finite wave, every repository assignment, dependency relation
and positive cap (`TasksAssumption`, `DepAssumption`, `CapAssumption`):

- `TypeCorrect`: types.
- `DependenciesAreOver`, from `DependencyInv`: whoever is past
  `_wait_for_dependencies` has only ended dependencies. `DependenciesOver` alone is not
  inductive, since a task may have passed the wait long before it executes.
- `PermitsAreConserved`, inductive with the types; `InFlightIsWithinCap` follows.
- `RepoIsSequential`, from `LockInv`: who executes has the lock of its repository, a
  woken waiter is alone and finds it free, a held lock has a holder. Without the
  woken waiters in it, a newcomer and a woken one could both enter.
- `NoWakeupIsLost`, from the two invariants and the conservation of permits: a
  queue with no owner in front of it would leave permits over, which a taker
  always hands on.
- `WaveStopsOnlyAtACycle`, from `NoLostWakeup` and `DoneInv` (until a cancellation every ended task is in `_done`): who waits
  for a lock waits for a task that executes or is woken, who waits for a permit for one that owns it; if
  none of these is there, every task that is left waits for one that is left, which is a circle of dependencies.
- `TasksAlwaysAdvance`: a task goes back only to look at its dependencies, after another one has ended. So the
  unended tasks, then the places before all tasks (`Ahead`), fall with every step of a task and never rise.
- `SchedulerImplementsContract`: every step maps to a step of the contract or to a
  stutter. Entering `execute` is `Start`, which needs all of the above; `Finish`,
  `Unwind`, `Cancel` and the returns map to their namesakes.

For every number of runs (`MaxRunsAssumption`):

- `ControllerTypeCorrect`, `ActiveRunIsLive`, `StopReachesTheTask` from one inductive invariant,
  which adds that the task of a live run is the active one (else `stop_run` could cancel
  another) and that the controller holds no task of a run that has not started;
  `EndedRunStaysEnded` from it.
- `LifecycleTypeCorrect`; what holds of the class carries over, since each route is a call of it or leaves it alone
  (`RoutesAreCalls`, which is so by the way the routes are written).
- `DrivenWaveCanBeStopped`, and from it `StoppedRunIsSilent`.

For any finite set of sessions, any captures whose figures are integers, any days, limits and months
(`ObservabilityAssumption`), from one inductive invariant (`StoreInv`):

- `EverySessionCountsOnce`, from `RollupInv`: the committed rows group and add up (`Groups`) the committed upserts, which are one of each
  session with an id and those whose ids went astray (`Numbered`), and what the connection sees adds up those and the
  upsert the pass has made and has not listed yet (`Unlisted`). The second part is what makes the first inductive, since every commit, also of another component,
  commits what the connection sees. One upsert adds exactly itself (`UpsertAdds`), and a row
  stays what it was because the capture of a counted session is written before it is counted (`RowsStay`).
- `RollupsReportTheSame`: `Groups` is kept by taking the rows and the upserts of one wave, month, skill or model
  (`GroupsOfSlices`) and gives the same totals and the same values (`SameTotal`, `SameValues`), of which every figure
  of a report is made. The invariant is needed for `conn`, not only for `store`, as a report reads the connection.
- `OldestCapturesGoFirst`, from `PruneInv`: the months come in ascending order, and every month there is
  lies ahead in the list or has failed to be deleted. A capture is no younger than the last day of its month (`DayInMonth`).
- `CountedForGood`, an action property: ids stay, and the count of a row never falls, whatever is pruned.

A sum over a set is a fold of the community modules, which choose the elements one by one. `SumUnfolds` shows that the
function this recursion defines exists, by a least counterexample in the number of elements instead of an induction
theorem; from it follow that any element can be taken out first (`SumTakesOut`), that only the
elements summed count (`SumAgrees`), and that sums of groups add up (`SumOfTwo`, `SumOfGroups`). `SortedIs` says the same of
`Sorted`: the ranks of distinct elements differ, so that there is one for each place.

For any meters, levels, threshold and number of messages (`UsageAssumption`, `ChannelAssumption`):

- `UsageTypeCorrect`. What needs an argument is that a utilisation below the threshold finds a cap: among
  the floors it has passed one is the highest (`CapIsAStep`).
- `PauseIsKeptUntilClosed` and `PauseHoldsTheScheduler`, action properties that need no invariant: each
  action is looked at, and those of the channel are steps of usage control, leave it alone, or restart it.
- `UpdatesAreHandledOnce`, from `ChannelInv`: what is left of a batch is below the offset and above the last
  update handled. Updates are numbered from 1, and `UpdatesFrom` returns them in that order.

For any issues, adapter and number of commits (`RecoveryAssumption`), from one inductive invariant (`IInv`):

- `RecoveryTypeCorrect`.
- `UnmergedWorkIsNeverPassedOver`, from `WorkInv`: undelivered commits are in the history of their own branch
  and of no other. It is inductive only together with `GraphInv` (a new commit is in no older history)
  and with `StageInv`, by which the engine deletes a branch only after it has been delivered.
- `MergedBranchIsRecognised`, from `MergedInv`: the agent branch has all of the merged branch and keeps, through later
  merges, a commit with two parents one of which is its tip.
- `HalfSessionIsAlwaysReset`, from `StageInv`: a session runs under the marker written before it, and whoever
  writes the next marker has ended the session. Of a session without allowed tools that holds only where it cannot
  commit, hence the two cases of the property.

For any finite set of issues, positive limits, any number of interrupted runs, every adapter, with and without stray commands
(`IssuesAssumption`, `LimitsAssumption`), from one inductive invariant (`IInv`) whose conjuncts say what each step of
the issue at work may rely on:

- `PipelineTypes`.
- `SessionsStayOnTheirBranch`, from `BranchInv`: what `pc` says of `head` and `branches`.
- `MarkerFollowsTheMerge`, an action property: that a marker says merged only of a branch that is gone is from
  `MarkerInv`, by which an issue whose turn has not come in this run has no marker, so none that an earlier run left can
  say merged. That no commit goes with the branch is from `KeepInv`: a branch is deleted while the agent branch is checked
  out, and has all of it unless a blocker of the issue is on record; a branch that is gone has no changes left that
  its next creation could drop.
- `CheckpointsAreCounted`, from `LimitInv`: the steps that take one off a counter find one left.
- `ParkingIsRecorded`, from `BlockerInv`: while the branch of a parked issue is being discarded the blocker is on
  record already, and nobody else's is.
- `MergesAreEarned`, an action property, from `ContentInv`: from the passed gates to the merge the branch and the tree have
  only what the gates saw, what the reviewer asked for, or what a stray command or a session without allowed tools did,
  and what was committed since the diff was taken and is not in it is in `unseen`.
- `HeedingMergesAreStrict`, from `HeedingInv`: with Claude and no command left behind the exceptions are empty.
- `WaveAlwaysAdvances`: the issues waiting, the stage of the one at work, the tries of this stage and the checkpoints or
  steps before the next try fall in this order of weight (`EndLowers`, `StepLowers`), which is why the three limits
  together bound a wave.

For any files, calls and size of a batch (`SessionAssumption`), again from one `IInv`:

- `AuditIsTrue`, from `CallInv` (a record stands at the place of its call's number; with those not yet answered they
  are all that were asked for) and `RunnerInv`: the agent-runner has at most one call, later
  than all it has executed, and in the loop it is the one awaited. Without the second, a call that comes too late could belong to
  a record already written. What an entry says follows the first words of the answer, so the theorem is exact up to
  `echoed`, the calls that ran and print a denial.
- `ArtifactsAreComplete`, from `ArtifactInv`: the answers so far are those of the places asked about so far.
- `CompletedIsClean`, from `CliInv`: a verdict of completed has a line of success after every line of failure.

For any finite sets of issues and pull requests, sizes of a listing and a page and number of jobs, failures and outside changes (`MirrorAssumption`):

- `MirrorTypes`.
- `PageIsAlwaysWhole`, from `PageInv`: while deleting the page is as long as what is left to delete, while
  appending it has only blocks of this job.
- `NeverASecondRow`, from `IndexInv` and `UniqueInv`: while rows are written, an issue that is still to be done and has a
  row has it in the index. `NoSecondRow` alone is not inductive, since the second row is written by a step that sees
  only the index.
- `SyncedMeansMirrored`, from `CalmInv`: undisturbed, an issue that a listing reaches is still on the list or has its row, unless a write has failed.

For any repositories, any listings with any dependencies in them, doubles and cycles included, and any number of
runs (`WaveAssumption`):

- `WaveTypes`.
- `HandOffIsAlwaysTrue`, from four parts. `ReadInv`: past the reading, `issues` has all that is listed, repository by repository. `HomeInv`: so
  an issue is merged in the last repository that lists its number, the same one in each run. `StateInv`: a completed
  issue is merged. `HandOffInv`: the pull requests of this run are of repositories already passed.
- `OrderIsAlwaysSound`. The order is from `SortInv`: the count of an issue is at least the number of mentions
  of those not in the order yet, so at zero none is left (`MentionsShrink`, `ZeroIsReady`). The cycle is from the same
  count being exact without doubles: when the queue is empty, every candidate names another one
  (`CandidatesAwait`). So the search never retreats from a node, `visited` is the path, and the node it meets
  again is on the path (`PathInv`, `FollowPath`). No induction over the dependency relation is needed: the proof follows the
  counters and the stack of the code, not the graph.
- `OrderingAlwaysAdvances`: a number that is taken was a candidate until then (`TakeFirstShrinks`). The search lowers the starts
  left, the candidates not visited, the length of the path and the dependencies left at its end, in this order
  of weight (`FollowSearch`). That each is a natural number (`Measured`) needs the types of the search, `SearchInv`, with doubles as
  well, where `PathInv` says nothing.

`Sorted` gives each element the place of its rank, and the least element of a set of numbers comes from the
well-foundedness of the natural numbers (`LeastElement`), as in `StoreProofs`
(`RanksDiffer`, `SortedIs`).

Only model-checked: all liveness (`WaveReturns`, `PauseDrains`, `StoppedRunFallsSilent`, `WaveEnds`, `WaitEnds`), because
fairness needs ENABLED, which the prover does not handle. For `WaveReturns` and `WaveEnds` all but this step is proved:
that a measure falls (`TasksAlwaysAdvance`, `WaveAlwaysAdvances`) and, for the first, that some task can go on
(`WaveStopsOnlyAtACycle`). These three, `HeedingMergesAreStrict`, `OrderingAlwaysAdvances` and `CountedForGood` state action
properties or invariants that are defined with their proofs and are part of no run. No module has a `RECURSIVE` operator.

## Not modelled

The plan for proofs is done. What could follow, once the prover handles ENABLED, are the five liveness properties.

Not modelled: the progress bus (nothing publishes run events to it yet), migrations (applied once, before anything
else runs), authentication (a sliding window over timestamps), profile generation (a
sequence of questions to a model), and the readers' parsing of the provider's answers.
Configuration, personas, skills, rendering, secrets and the user interface keep no state the engine's
correctness rests on and are left to ordinary tests.
