# A verification model of spec-kitty-orchestrator

`spec-kitty-orchestrator` drives the work packages (WPs) of one mission through
implementation and review by running agent CLIs in git worktrees. The lanes of the WPs belong
to a host (`spec-kitty orchestrator-api`), which the orchestrator only reaches through calls.
This directory holds TLA+ modules that model the orchestrator, TLC configurations that check
them on small instances, and TLAPS proofs for every instance. Paths below are relative to
`src/src/spec_kitty_orchestrator/` unless they start with `src/`.

## 1. Inventory

| Component | State | Operations | Talks to | Hard behaviour | Correct when |
|---|---|---|---|---|---|
| Poll loop (`loop.py`) | `empty_ready_streak`, `driven_ids`, active tasks | recover reviews, poll, schedule, complete, stall | host, scheduler, run state, tasks | two host reads per poll; streak, active set and driven set decide together when to stop | it ends, not while a task is in flight, and what it reports is true |
| WP task (`loop.py: execute_and_advance`) | the coroutine's position, `output_base` | implement, retry, fall back, commit, submit, review, rework, block | executor, host, monitor, run state | interleaves with loop and other tasks at each `await`; a crash between any two calls | only reviewed output becomes done; each exit frees its slot once |
| Scheduler (`scheduler.py`) | semaphore, active set | select WPs and agents, acquire, release | loop, tasks | adoption of WPs left by an earlier run | no WP is run twice at once, none is forgotten |
| Host client (`host/client.py`, `host/models.py`) | none | ten calls; maps error codes to exceptions | host | a call may be applied and its answer lost | each failure reaches the handler meant for it |
| Run state (`state.py`) | records in memory and in a file | new, load, save | loop, tasks, CLI | one file, saved whole by every task | never forgets what a run decided |
| Failure monitor (`monitor.py`) | none | classify, should_retry | tasks | three counters, three limits | retries end |
| Executor (`executor.py`) | child processes, worktrees | ensure worktree, spawn, time out, kill, commit | git, agents | orphans, time-out racing exit, shared lanes | one agent per worktree; output is that WP's |
| CLI (`cli/main.py`), lock (`run_lock.py`), config (`config.py`) | lock file, state file | orchestrate, resume, status, abort | everything | several processes, lock against state file | one live orchestrator; resume goes on where the last stopped |
| Power, policy, agent invokers | sleep inhibitor | acquire, release; build commands | OS | none | released when the run ends |
| Task scripts (`src/.kittify/scripts/tasks`) | WP files, activity logs | move, rollback, accept, merge | git | one step of several fails | the log and the lane agree |

`PROJECT.json` lists every component, modelled or not, and under `hazards` what in this code is
hard to test, line by line, with the properties that watch it.

The program is one asyncio thread and its host calls block. Between two awaits (an agent run,
a back-off, the poll pause) a coroutine is alone; but a crash can fall between any two host
calls, and other identities act on the host at any moment.

## 2. Modules and plan

| Module | Models | State |
|---|---|---|
| `WPLifecycle` | what orchestration promises of each WP | abstract |
| `Orchestration`, `MCOrchestration` | loop, tasks, scheduler, host as the client sees it, run state, processes one after the other; refines `WPLifecycle` | done, four proof modules |
| `RunCustody` | what the run lock promises | abstract |
| `RunSession` | the commands as processes that overlap: kernel lock, owner file, state file, interrupts; refines `RunCustody` | done, proved in `SessionProofs` |
| `LaneWork`, `MCLaneWork` | WPs that share one lane worktree: spawn, time-out, kill, commit gate, agents | done, proved in `LaneWorkProofs` |
| `TaskFiles`, `MCTaskFiles` | task tools: update, history, rollback, accept | done, proved in `TaskFilesProofs` |
| `FeatureMerge`, `MCFeatureMerge` | task tools: merge | done, proved in `MergeProofs` |

How they fit: `Orchestration` runs one orchestrator at a time and gives every WP a branch of its
own. `RunSession` is what justifies the first (and says when it fails to protect the state file),
`LaneWork` is what the second leaves out. `TaskFiles` and `FeatureMerge` are the tools agents
and people run beside the orchestrator; they share nothing with it but git.

Left in the plan: the classification of failures and the error map of the host client as
operators, checked against reference definitions.

## 3. Modules

### WPLifecycle
`lane`, `owner` (who moved the WP last) and `commits` of every WP: none on the lane branch,
some the reviewer has not been offered ("new"), or all offered. Actions are the steps a reader
expects (Start, Produce, Submit, OpenReview, Approve, ReturnToWork, Requeue, Block, and moves of
other identities). Its promises: a planned WP starts only when what it depends on is done, a WP
goes to review only with output, it becomes done only through a review opened on all its
commits, nothing is committed while the orchestrator's review is open, and done is final.

### Orchestration
| Model | Code |
|---|---|
| `phase` | where `run_orchestration_loop` is (`start recover poll read schedule sleep`) or how the process ended (`down complete stalled failed`) |
| `ready`, `todo`, `parked` | `ready_wps`, the WPs this pass has still to handle, those whose `state_lanes` entry is `for_review` |
| `streak`, `driven` | `empty_ready_streak`, `driven_ids` |
| `active`, `slots` | `ConcurrencyManager._active`, `_semaphore` |
| `pc[w]` | where the task of `w` is: an await (`begin begin_review implementing backoff reviewing reworking`) or a point between two calls of one segment |
| `mem`, `disk` | the `WPExecution` records in memory and in the state file |
| `tree`, `ahead`, `commits` | what is in the worktree, whether the branch has commits past `output_base`, how far they were offered for review |
| `stray` | agents that outlived a killed orchestrator |
| `faults starts kills moves` | what was used of the bounds |

Each action is one handler segment: the guard is the code's condition, the effect is everything
the code does up to its next await or its next host call, saves included. `CanResume` is the
event loop: a coroutine that awaits goes on only while nobody holds it. A task at a
`HoldingPCs` label holds it, so no other coroutine runs, but `Kill` and the other identities do.
`select_implementer` returns the first agent not tried; the agent of a running task is always
that one, so `impl_agent_id` needs no variable.

The proof modules are `OrchestrationProofs` (types, slots, how a process ends), `ReviewProofs`
(what was reviewed, recovery), `RunStateProofs` (records, the state file, what a stall reports)
and `LifecycleProofs` (refinement).

### RunSession and RunCustody
A process runs one command (`Orchestrate`, `Resume`, `AbortCleanup`; a plain abort and status
change nothing). `pc[p]` is its place in `cli/main.py` and `orchestration_lock`; `run_state[p]` the
`RunState` it has in memory; `guard` the kernel lock (`orchestrator.lock.guard`), `lock_file` the owner
JSON beside it, `state_file` the run state on disk; `blamed` whom a refused process was told of.
A `RunState` is the run it belongs to and a set of records, each named after the process that made
it. `save_state` replaces the file atomically and so is one step; `resume` reads the file, configures
itself and only then asks for the lock. Ctrl-C is three actions: inside the `with` it unwinds the
lock first (`InterruptLoop`); within `orchestration_lock` itself (`InterruptLock`: acquiring, around
`write_text`, in the `finally` block) it skips what is left of it, so that the owner file may stay; in
the handler it loses the save (`InterruptSave`). The handler saves after the lock is gone.
`overlapped` is history: some process started while another was alive; so is `torn`: processes interrupted
within the lock while the owner file had their name. In `RunCustody` a process is out, driving,
refused or over.

### LaneWork
| Model | Code |
|---|---|
| `lane_branch` | whether the host names one (contract 1.1.0); without it there is no commit gate |
| `head` | what the directory is: absent, plain, a detached worktree, on the lane branch |
| `dirty`, `staged` | whose edits are in the directory and in the index |
| `task[w]` | the step and locals of `execute_and_advance`; `based` is `output_base`, `output` says whether commits lie in `output_base..HEAD` |
| `child`, `holders` | the agent process, and what it left on the pipes |

The gate is five git commands (`CheckBranch`, `AddAll`, `DiffCached`, `CommitStaged`, `CountOutput`), each an
action, since agents act between them while the event loop does not (`LoopFree`). A time-out is
two actions: `TimesOut` (terminate) and `TermEnds` (exit or kill). Agents edit, commit, detach
or switch back the branch, exit or hang, and may leave processes behind. A WP adopted in
`for_review` starts with its review, in a worktree nobody checked. Any git command of the gate
may fail (`GitFails`), and a failing `git diff` counts as staged edits. `worked` and `intruded` are
history: whether commits since the last base hold the WP's own work, and whether another WP
touched the tree meanwhile.

### TaskFiles
A WP file is its lane, the lanes of its activity log, and its encoding; `file`, `index` and
`head` hold it in the directory, the index and HEAD. A new one has the log of
`task-prompt-template.md`, whose four example entries `activity_entries` takes for entries (`Examples`).
Every command locates a WP by two reads (`ReadsLane`, `ReadsText`), writes by emptying and filling the
file (`OpenForWriting`, `Fill`), and stages it (`AddFile`). `rollback_command` reads the log, then
runs update, which reads again. `accept` reads each file (log, then lane), then git status, writes and
stages `meta.json`, and commits the index. With `--normalize-encoding` a file that does not decode
sends it through `normalize_feature_encoding`, file by file: read (`ReadsBytes`), emptied (`Empties`),
filled (`Rewrites`); then it reads all again. In a file of mixed encodings, UTF-8 but for some bytes,
this garbles the separators of the log entries (`Normalized`). `status` and `verify` do the same and
are an accept that stops after reading.

`logged`, `damaged` and `stale` are history: all that was ever logged; WPs whose commands or repairs overlapped
or were killed while writing, or that were repaired from mixed encodings; and accepting processes
whose view is out of date. Without the exception for `damaged`, `LaneMatchesLog` is false: the two
reads of `locate_work_package` race with a write.

Also seen here, with no property of their own: an acceptance whose commit fails leaves
`meta.json` changed, and is refused when it is run again until somebody commits; a repair rewrites
files and so makes the same run find the repository dirty.

### FeatureMerge
A branch is the set of pieces of work on it. `merge_command` walks through `Steps`, one action per git
command or check; `on`, `merging` and `conflict` are HEAD, MERGE_HEAD and an unmerged index of the
primary checkout, which merges of several features share. `Fails` stops a command anywhere and
undoes nothing; the checkout of the target drops a MERGE_HEAD that an earlier merge left; agents edit and commit in their worktrees, people in the primary, others push to
the remote. `late[f]` is history: work that reached the checkouts of f's merge after it was started.

## 4. What is assumed

About the host, from how the code uses it:
- it accepts the lane edges `LaneEdges`, and any edge may be refused by a guard; a
  forced move is refused only in a terminal lane;
- `start-implementation` takes a planned WP, and is idempotent for the actor that started it;
- any call may be applied although its answer is lost (`Lost`);
- another identity may start a planned WP, open, reject or approve a review, and cancel a WP at any
  time; an operator sets a blocked or canceled WP back to planned only while no process runs.

About the rest:
- in `Orchestration`, WPs have a branch each whose HEAD can be read (shared lanes and a base that
  cannot be measured: `LaneWork`), and one orchestrator runs
  at a time (lock: `RunSession`);
- a reviewer does not commit; an implementer may edit, and may commit by itself;
- an exception from `append-history`, from `spawn_agent` or out of a host call that is no
  rejection ends the task (`TaskRaises`, `Lost`);
- Ctrl-C arrives at an await (`Orchestration`; elsewhere in the command line: `RunSession`).
- What an earlier run left is any lane per WP in any identity's hands, with the commits that
  lane implies; a `planned` WP was never moved by this orchestrator.

- `LaneWork`: the host refuses to start an implementation in a worktree with uncommitted work
  (`src/tests/test_resume_orphaned.py:254` has the refusal, LANE_ALLOCATION_FAILED) and creates the
  worktree on the lane branch or only names its path; `resolve-workspace` checks nothing. SIGKILL,
  which `execute_with_timeout` sends without waiting again (`executor.py:289-294`), takes effect before
  the loop goes on with the WP.
- `FeatureMerge`: nobody switches the branch of the primary checkout while a merge runs; a merge is
  started at the root of its checkout.

Fairness (`Orchestration`): the loop's next step is weakly fair, since asyncio always runs it again
after its pause. Task steps are strongly fair: a task is able to go on only while
nobody holds the event loop, which the loop takes again and again, and asyncio's first-in
first-out queue serves a ready coroutine all the same. Agents are weakly fair: a time-out ends
those that hang. Nothing is assumed of crashes, restarts, other identities or the operator.
`LaneWork` assumes less: weak fairness of the event loop as a whole, which does not stop while some
task can go on or some timer can fire. Agents and what they leave behind may hang for ever.
The other modules have safety properties only.

`CHECK_DEADLOCK FALSE` everywhere, because an orchestrator process does stop, and its number of
starts is bounded.

## 5. Runs

| Run | Instance | Checks | Shows |
|---|---|---|---|
| `adopt` | chain of 2 WPs (one without branch) in any lanes and hands, 2 slots, 2 processes, 1 kill, 1 fault, 1 foreign move | `SlotsConserved`, `DoneIsReviewed`, `NoReviewForgotten`, `ReviewCyclesBounded`, `RefinesLifecycle`, `StallExplainedBarFaults`, `LoopEndsIdle`, `EndsOnlyWithoutWork` | the program implements `WPLifecycle`; how a process ends agrees with what is in flight, what is recorded and what could still be scheduled |
| `termination` | chain of 2, retries, fallback, 3 processes with other settings for `resume`, 1 kill that spares the agents, 1 fault, fair | `TypeOK`, `RunStateNeverForgets`, `TerminatesUnlessStarved` | the state file never loses a struck agent or a rejection; each process ends, unless from some moment on a WP with no agent left is there to be scheduled |
| `completion` | chain of 2 in any lanes, good agents, fair | `AllDone` | every mixture of lanes this identity left is driven to done |
| `session` | 3 processes, one record each | `TypeOK`, `OwnerFileTruthful`, `KeepsCustody`, `OnlyLateSavesIntrude`, `SerialRunsForgetNothing` | the lock works through crashes and interrupts; what it does not protect is the state file |
| `lanework` | 2 WPs in one worktree, the first retried and reworked once, adopted or new, with lingering processes; fair | `TypeOK`, `AttemptsDoNotOverlap`, `FeatCommitsAreClean`, `AdvancesOnOwnWork`, `TasksEnd` | an undisturbed WP commits and advances on its own work only; every task ends |
| `tasks` | 2 processes, 2 files (new, done, or by hand, in 3 encodings), 3 commands | `TypeOK`, `LaneMatchesLog`, `NoEntryLost`, `RollbackToPriorLane`, `AcceptsWhatItChecked` | what a command promises holds as far as none overlaps it |
| `merge` | 2 features, 2 pieces of work, 2 merges, 4 command lines | `TypeOK`, `DropsOnlyLateWork`, `PushedBeforeCleanup`, `MergesItsFeature` | a merge destroys and mixes in only what came after its own checks |
| `livelock` | 1 WP, resolved by the operator after its agents were struck off | `Termination` violated | finding 1 |
| `lost_output` | 1 WP, kill and resume | `NeverStalls` violated | finding 2 |
| `silent_death` | 1 WP, one exception in a task | `StallExplained` violated | finding 3 |
| `stale_resume` | as `session` | `RunsForgetNothing` violated | finding 4 |
| `shared_lane` | as `lanework` | `NoAdvanceWithoutOutput` violated | finding 5 |

Bounds. Two WPs are needed, and enough, for a dependency, for two tasks at once and for one WP
at rest while another runs; tasks of different WPs interact only through the slots, the state
file and the loop, all of which two exercise. Two agents give a fallback and its exhaustion;
`MaxRetries` 0 or 1 reaches each limit from both sides. Three processes allow a crash, a resume
and a fresh start. One kill, one fault and one foreign move at a time can fall at every point of
every behaviour. A threshold of 3 empty polls passes through every case of the streak.
In `session` three processes are one that drives, one that was interrupted and one that resumes;
the proofs lift the bound. In `lanework` the bounds on attempts and reworks differ between the
WPs, so that one runs on while the other is at its limit. In `tasks` an overlap takes two commands,
and the third meets what they left behind; `Targets` is one lane, since init and log bring the others.
In `merge` two pieces of work are what is merged and what comes late. The constants named
`Max...`, `InReview`, `Lingering`, `Targets` and `Options` are bounds and nothing else.
`tasks` and `merge` use symmetry; they check no liveness.

Three pairs of properties are checked with and without an exception: `StallExplainedBarFaults` and
`StallExplained`, `SerialRunsForgetNothing` and `RunsForgetNothing`, `AdvancesOnOwnWork` and
`NoAdvanceWithoutOutput`. The first of each holds, and its exception is the cause of the finding.
(`StallExplainedBarFaults` has another exception: without any reviewer configured a task goes to its
end and records no error.)

Findings (details and lines in `PROJECT.json`):
1. A WP with no agent left is polled forever, neither quarantined nor counted as idle.
2. A crash between commit and `for_review` makes the resumed run refuse finished work.
3. An exception in a task leaves no cause for the stall report.
4. `resume` reads the state file before it holds the lock, and interrupted commands save without it:
   either may overwrite what the running process recorded.
5. In a shared lane worktree, a WP passes the commit gate on another WP's commits.

Known besides, without a run: `--max-concurrent 0` polls forever (`Termination` with no slot);
a WP with a null lane does not hold up completion (`MissionOver` skips it, as `loop.py:809` does); agents
outlive an orchestrator that is killed alone (`KillReachesAgents = FALSE` in run `termination`),
although recovery takes it that none is alive (`loop.py:722`).

Disagreements of the task tools with their help, which the model has and the properties exempt by name,
without a run of their own (paths below `src/.kittify/scripts/tasks/`):
- `rollback`, "Return a work package to its prior lane" (`tasks_cli.py:768`): `activity_entries`
  (`task_helpers_shared.py:515-523`) also matches the four example entries of the template
  (`src/.kittify/missions/software-dev/templates/task-prompt-template.md:108-111`), so the entry before
  the first own one (123) is done, and a rollback of a WP nobody has moved makes it done.
  `RollbackToPriorLane` without its condition on the length of the log is violated by that one command.
- `history`, "Append a history entry without changing lanes" (`tasks_cli.py:753`): with `--lane` it sets
  the lane of the WP as well (`tasks_cli.py:219-220`). This keeps `LaneMatchesLog`; a history that
  left the lane alone while it logged another would break it.
- `--normalize-encoding`, "Automatically repair non-UTF-8 artifact files" (`tasks_cli.py:786`): a UTF-8 file
  with a single foreign byte is decoded as cp1252 from first byte to last (`acceptance_core.py:809-816`),
  so that the dashes in its log entries are garbled and no entry is found again. `Rewrites` marks
  such a WP `damaged`; without that, `NoEntryLost` is violated.

## 6. What is proved

For every set of WPs, dependencies, agents, settings and bounds satisfying the modules'
assumptions (`WPs` finite, `MaxRetries` natural, and so on):

- `TypeCorrect`: `TypeOK` is inductive as it stands. It is more than a typing: a record's retry
  count stays within `0..MaxRetries` because `should_retry` tests before the loop counts,
  and `slots` stays natural because `Dispatch` happens only under `has_slot`, so that
  `acquire` never waits.
- `SlotsAreConserved`: `SlotsInv` adds that no WP about to be dispatched is active and that
  nothing is active during recovery, when `todo` holds arbitrary WPs. Without the first,
  a second dispatch of a WP would take a slot and leave the active set as it was.
- `OnlyReviewedIsDone`, if `KillReachesAgents`: `WPInv` says of each WP, from its lane and the
  position of its task, whether it has commits and whether all were offered; while a review
  of this orchestrator is open nothing commits, since the only agent in the worktree is the
  reviewer. `HeldOnlyAsleep` (a task holds the event loop only while the loop sleeps) and
  `TodoInv` (what the loop's lists may hold) carry it across the loop's steps.
- `FileNeverForgets`: memory never remembers less than the file (`MemoryInv`), a step other than a
  start or a kill only adds to memory, and what it saves is memory before or after it. Saving is
  never of an old copy, so tasks cannot undo each other's records.
- `ReviewsAreBounded`: `CyclesInv` says that a process that may still reject a review of a WP is at
  least one rejection below the bound; a WP enters that position only undriven, at a process
  start that raises the bound, or for a rework within the limit.
- `StallsAreExplained`: `ExplainedInv` says that without faults and with a reviewer configured, a
  driven WP whose task is over is in a terminal lane or has its error recorded. Nobody takes
  a WP out of a terminal lane while the process lives, and memory does not forget errors.
- `ReviewsAreRecovered`: a WP in this orchestrator's review is either waiting in recovery's
  `todo` or driven by this process, whatever kills came before.
- `EndsIdle`: from `SlotsInv`, since only `Completes` and `Stalls` end a process in order.
- `EndsWithoutWork`: the lanes that `Completes` and `Stalls` test are those of the moment, the ready
  WPs are of an earlier host read. `EndsInv` says that they still include every planned WP whose
  dependencies this orchestrator made done: tasks run only while the loop sleeps
  (`HeldOnlyAsleep`), and others only move WPs away from there between the two reads.
- `ImplementsLifecycle`, if `KillReachesAgents`: with `QueueInv` (a WP waiting for dispatch is
  not in our review and its dependencies are done) and `TaskInv` (no implementer runs on a WP in
  our review), each step of the program is a step of `WPLifecycle` or leaves its variables alone.
  The refinement mapping is the identity on `lane`, `owner`, `commits`. `QueueInv` is what
  makes the two host reads of a poll harmless: a dependency that is done stays done.
- `PromisesAreKept`, if `KillReachesAgents`: what `WPLifecycle` says of single steps, carried over to the
  program by the refinement: the order of dependencies, no review without commits, done is final.

The assumption `KillReachesAgents` is real: an agent that outlives its orchestrator can commit
behind the reviewer's back.

For any number of processes and records (`SessionProofs`):

- `SessionTypeCorrect`: `TypeOK` of `RunSession`, with `HasRunInv`: a loop always has a run state, so that
  what it saves names a run.
- `OwnerFileIsTruthful` and `CommandLineKeepsCustody` rest on `GuardInv`: whoever is past the lock holds
  the guard, and the guard is held inside the lock or by a process interrupted within the code of
  the lock. The first says too that a stale name in the owner file was left by a crash or by such a
  Ctrl-C (`torn`). Each step then is a step of `RunCustody` or a stutter.
- `OneProcessDrives`: `RunCustody` has one driver at most, and so has what implements it.
- `IntrudersAreLateSaves`: while p loops it holds the guard, so of the other steps that write the
  state file only a late save can add records; creating a run or removing the file adds none to p's.
- `NothingForgottenInSeries`: `SerialInv` says that while nobody overlapped one process at most is
  alive and its run state is what the file holds; `NameInv` that nothing exists yet of a run not
  created, so that a new run forgets nothing of itself.

For any number of WPs in one worktree, attempts and reworks (`LaneWorkProofs`):

- `LaneTypeCorrect`: the counters of attempts and reworks keep to their limits.
- `AttemptsNeverOverlap`: from `OneGate` (the gate runs between two awaits, so that `LoopFree`
  keeps a second task out of it) and, in `WPInv`, that a WP has a child only while its task
  waits for one. Processes an agent leaves behind hold the pipes, so its task waits for them.
- `UndisturbedCommitsAreClean` and `UndisturbedAdvanceIsEarned` rest on `Alone`: as long as nobody
  has touched the worktree in the window of a WP, all edits and everything staged are its own,
  and `output` or `on_lane` is set only by commits that hold work of it. A `Window` is open
  while the task runs; what `intruded` records is just what breaks `Alone`.

For any features, command lines and amount of work (`MergeProofs`):

- `MergeTypeCorrect` needs `FeatureInv` too: a branch is deleted only past the amend, when no merge of
  it is in progress any more.
- `CleanupIsSafe`, `MergeBringsItsFeature` and `OnlyLateWorkIsLost`: `FeatureInv` says where the work of
  a feature is at each step of its command. Before the merge the checkouts hold late work only;
  from the merge to the commit, what was read is on the target or staged in the primary, whoever
  commits first; from there it is on the target, and past the push on the remote; and
  what is on the branch but was not read is late. Other commands and people keep this
  (`OtherKeeps`): they add to the target, commit what is staged, or add what is late by
  definition. `ShapeInv` says whether a running command has its worktree still.

For any number of processes and WPs, any lanes asked for and any length of the logs
(`TaskFilesProofs`):

- `TypeCorrect` needs to know of each command what its step says it has read (`TypeInv`).
- `LanesMatchLogs`, `EntriesAreKept` and `RollbacksGoBack` rest on `FilesInv`, for each WP that is not
  `damaged`: one command or repair at most has it open, and what that command has read (`Informed`) is what
  the file holds, so that the file it writes adds one entry to the log and agrees with it. Lane
  and log agree in the index and in HEAD because every way there is a copy of an agreeing file.
  `RollbacksGoBack` also needs `PreviousIsPrior`: when the lane asked for is not the one the WP is in,
  the entry before the last is what the history says the WP was in before.
- `AcceptanceIsSound`: `View` says that what an accepting process has found of the files so far still
  holds, and after git status that directory, index and HEAD are one. Whatever breaks the
  view of a process makes it `stale`; a new acceptance starts with a fresh one.

Only model-checked: the liveness properties `TerminatesUnlessStarved`, `AllDone` and `TasksEnd`, which
are out of reach of the prover. Every other property of the passing runs is proved.

## 7. Not modelled

- Texts of prompts, notes, evidence and prompt files; logging; exit codes and messages.
- The agents' command lines and parsers, and which exit code or text is which kind of failure:
  pure functions, whose results are nondeterministic outcomes in the models.
- The JSON envelope of the host, its error-code map, and the comparison of contract versions.
- The power assertion (no state), `workspaces.py` (nothing calls it), policy metadata (constant).
- Task tools: commands that only read (list, dry runs), the legacy directory layout
  (update refuses it), metadata fields other than the lane, documents checked by accept. Merge:
  the rebase strategy and `--dry-run`, which stop before the merge, and the hash and the last 20
  entries of the history in `meta.json`.
- The repair of encodings in documents other than WP files.
- Mission templates, but for the activity log a WP file begins with; the encoding and dashboard scripts.

## 8. Running

`tlc -config adopt.cfg MCOrchestration`, and likewise for the other configurations with the module
`PROJECT.json` names; each takes up to two minutes with two workers. `tlapm M.tla` for each of the
eight modules `*Proofs.tla`.
