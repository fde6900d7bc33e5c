------------------------------ MODULE LaneWork ------------------------------
(***************************************************************************)
(* The worktree of one lane and the work packages (WPs) that use it        *)
(* (executor.py, and the agent phases of loop.py).  The host gives every   *)
(* WP of a lane the same directory and the scheduler does not look at      *)
(* lanes, so agents of several WPs edit one index and one HEAD.            *)
(*                                                                         *)
(* A task of the event loop spawns an agent, waits for it with a timeout,  *)
(* and after an implementation passes the commit gate: check the branch,   *)
(* add, diff, commit, count.  The gate is synchronous: no other task moves *)
(* meanwhile, but agent processes do.  Edits are abstracted to the WP they *)
(* are of, and the history to what each WP's commit gate asks of it:       *)
(* whether there are commits in output_base..HEAD.                         *)
(***************************************************************************)
EXTENDS Naturals, FiniteSets

CONSTANTS WPs,
          InReview,       \* bound: WPs that may be adopted in for_review
          Lingering,      \* bound: WPs whose agents may leave a process behind
          MaxAttempts,    \* bound of each WP: its implementation attempts
          MaxReworks      \* bound of each WP: its review cycles that reject

ASSUME BoundsAssumption ==
  /\ InReview \subseteq WPs /\ Lingering \subseteq WPs
  /\ MaxAttempts \in [WPs -> Nat] /\ MaxReworks \in [WPs -> Nat]

VARIABLES
  lane_branch,  \* the host names a lane branch (contract >= 1.1.0)
  head,         \* "absent" | "plain" | "detached" | "lane"
  dirty,        \* WPs with edits in the directory that are not in the index
  staged,       \* WPs with edits in the index that are not committed
  task,         \* step and local variables of the task of each WP
  child,        \* its agent process: "none" | "running" | "exited"
  holders       \* WPs with a background process of an agent on the pipes

tree == <<lane_branch, head, dirty, staged>>
procs == <<child, holders>>
vars == <<tree, task, procs>>

Gate == {"check", "add", "diff", "commit", "count"}
Over == {"approved", "blocked", "failed", "dead"}

(* The locals of a task: based when HEAD could be read as output_base,     *)
(* output when there are commits in output_base..HEAD, and on_lane when    *)
(* the lane branch has such commits.  Two are history: worked, edits of    *)
(* its own were committed since the task began or last went to review, and *)
(* intruded, another WP has touched the worktree meanwhile, or had left    *)
(* edits in it.  They all go when the task ends.                           *)
Fresh(step) == [at |-> step, role |-> "implement", attempts |-> 0, reworks |-> 0,
                based |-> FALSE, output |-> FALSE, on_lane |-> FALSE,
                worked |-> FALSE, intruded |-> FALSE]

Init ==
  /\ lane_branch \in BOOLEAN
  /\ head \in {"absent", "detached", "lane"}
  /\ dirty = {} /\ staged = {}
  /\ task = [w \in WPs |-> Fresh("idle")]
  /\ child = [w \in WPs |-> "none"]
  /\ holders = {}

-----------------------------------------------------------------------------
(* The event loop: one task at a time, and a gate runs to its end.         *)

LoopFree == \A w \in WPs : task[w].at \notin Gate
At(w, steps) == task[w].at \in steps
Sets(w, locals) == task' = [task EXCEPT ![w] = locals]
Goes(w, step) == Sets(w, [task[w] EXCEPT !.at = step])
Ends(w, how) == Sets(w, Fresh(how))

HasAgent(w) == child[w] = "running" \/ w \in holders
Window(w) == task[w].at \notin {"idle"} \cup Over

(* Whatever WP w does to the worktree falls into the windows of the others.*)
Touched(tasks, w) ==
  [v \in WPs |-> IF v # w /\ Window(v) THEN [tasks[v] EXCEPT !.intruded = TRUE] ELSE tasks[v]]

(* current_lane_head: the task measures its output from HEAD, if there is  *)
(* a HEAD to read.                                                         *)
Rebased(locals, at) ==
  [locals EXCEPT !.based = lane_branch /\ at \in {"lane", "detached"},
                 !.output = FALSE, !.on_lane = FALSE]

(* The host allocates the lane worktree, creates it on the lane branch or  *)
(* (older hosts) only names the path, and refuses a dirty one; the task    *)
(* then takes its base.  A WP adopted in for_review starts with its review,*)
(* in whatever state the worktree is.                                      *)
Allocate(w) ==
  /\ LoopFree
  /\ At(w, {"idle"})
  /\ \E role \in {"implement"} \cup (IF w \in InReview THEN {"review"} ELSE {}) :
       /\ \/ UNCHANGED head
          \/ role = "implement" /\ head = "absent" /\ lane_branch /\ head' = "lane"
       /\ role = "implement" => dirty = {} /\ staged = {}
       /\ Sets(w, Rebased([Fresh("ready") EXCEPT !.role = role,
                                              !.intruded = (dirty \cup staged) \ {w} # {}], head'))
  /\ UNCHANGED <<lane_branch, dirty, staged, procs>>

(* ensure_working_dir: a missing directory becomes a detached worktree, or *)
(* a plain directory when the root is no repository.                       *)
ensure_working_dir ==
  IF head = "absent" THEN head' \in {"detached", "plain"} ELSE UNCHANGED head

spawn_agent(w) ==
  /\ LoopFree
  /\ At(w, {"ready"})
  /\ ensure_working_dir
  /\ child' = [child EXCEPT ![w] = "running"]
  /\ Goes(w, "run")
  /\ UNCHANGED <<lane_branch, dirty, staged, holders>>

(* ProcessSpawnError (no worktree, no executable) leaves through           *)
(* execute_and_advance: the task dies and the WP keeps its lane.           *)
SpawnError(w) ==
  /\ LoopFree
  /\ At(w, {"ready"})
  /\ ensure_working_dir \/ UNCHANGED head
  /\ Ends(w, "dead")
  /\ UNCHANGED <<lane_branch, dirty, staged, procs>>

(* Variant: every rejection leads to another rework.                       *)
FailsUnbounded(w) ==
  IF task[w].role = "review"
  THEN Sets(w, [task[w] EXCEPT !.at = "ready", !.role = "rework", !.reworks = @ + 1])
  ELSE Ends(w, "failed")

(* What a run that did not succeed leads to: an implementation is retried, *)
(* falls back or fails; a review counts as a rejection, whatever ended it, *)
(* up to its limit; a rework is blocked at once.                           *)
Fails(w) ==
  LET my == task[w] IN
  \/ /\ my.role = "implement" /\ my.attempts + 1 < MaxAttempts[w]
     /\ Sets(w, [my EXCEPT !.at = "ready", !.attempts = @ + 1])
  \/ /\ my.role = "implement"
     /\ Ends(w, "failed")
  \/ /\ my.role = "review" /\ my.reworks < MaxReworks[w]
     /\ Sets(w, [my EXCEPT !.at = "ready", !.role = "rework", !.reworks = @ + 1])
  \/ /\ my.role = "review" /\ my.reworks >= MaxReworks[w]
     /\ Ends(w, "blocked")
  \/ /\ my.role = "rework"
     /\ Ends(w, "blocked")

Succeeds(w) == IF task[w].role = "review" THEN Ends(w, "approved") ELSE Goes(w, "check")

(* communicate() returns: the agent has exited and no process of its own   *)
(* holds the pipes any more.  The exit code is whatever the agent chose.   *)
Collect(w) ==
  /\ LoopFree
  /\ At(w, {"run"})
  /\ child[w] = "exited" /\ w \notin holders
  /\ child' = [child EXCEPT ![w] = "none"]
  /\ Succeeds(w) \/ Fails(w)
  /\ UNCHANGED <<tree, holders>>

(* wait_for gives up: terminate, then wait for the grace period.           *)
TimesOut(w) ==
  /\ LoopFree
  /\ At(w, {"run"})
  /\ HasAgent(w)
  /\ Goes(w, "term")
  /\ UNCHANGED <<tree, procs>>

(* Variants: the grace period ends without a kill; or the pipes are read   *)
(* to their end after it.                                                  *)
TermEndsNoKill(w) ==
  /\ LoopFree
  /\ At(w, {"term"})
  /\ child' = [child EXCEPT ![w] = IF @ = "exited" THEN "none" ELSE @]
  /\ Fails(w)
  /\ UNCHANGED <<tree, holders>>

TermEndsAfterPipes(w) ==
  /\ LoopFree
  /\ At(w, {"term"}) /\ w \notin holders
  /\ child' = [child EXCEPT ![w] = "none"]
  /\ Fails(w)
  /\ UNCHANGED <<tree, holders>>

(* The agent is gone, or killed at the end of the grace period; either way *)
(* exit code and output are lost.  What it left in the background stays.   *)
(* Assumed: SIGKILL, which is not waited for, takes effect before the loop *)
(* goes on with the WP.                                                    *)
TermEnds(w) ==
  /\ LoopFree
  /\ At(w, {"term"})
  /\ child' = [child EXCEPT ![w] = "none"]
  /\ Fails(w)
  /\ UNCHANGED <<tree, holders>>

-----------------------------------------------------------------------------
(* The commit gate: _commit_implementation and commit_lane_work.           *)

(* A commit that is refused or fails: the caller does not advance the WP.  *)
NotCommitted(w) == Ends(w, IF task[w].role = "implement" THEN "failed" ELSE "blocked")

ToReview(locals) ==
  [locals EXCEPT !.at = "ready", !.role = "review", !.attempts = 0, !.worked = FALSE]

(* Variant: the base is not captured again.                                *)
AdvanceOnOldBase(w) ==
  Sets(w, ToReview(task[w]))

(* The gate is passed: the WP goes to review, measured from here on.       *)
Advance(w) ==
  Sets(w, Rebased(ToReview(task[w]), head))

(* Variant: the branch of the worktree is not checked.                     *)
CheckNothing(w) ==
  /\ At(w, {"check"})
  /\ IF lane_branch THEN Goes(w, "add") ELSE Advance(w)
  /\ UNCHANGED <<tree, procs>>

(* Without a lane branch there is nothing to commit and no gate.           *)
CheckBranch(w) ==
  /\ At(w, {"check"})
  /\ \/ ~lane_branch /\ Advance(w)
     \/ lane_branch /\ head = "lane" /\ Goes(w, "add")
     \/ lane_branch /\ head # "lane" /\ NotCommitted(w)
  /\ UNCHANGED <<tree, procs>>

AddAll(w) ==
  /\ At(w, {"add"})
  /\ staged' = staged \cup dirty
  /\ dirty' = {}
  /\ Goes(w, "diff")
  /\ UNCHANGED <<lane_branch, head, procs>>

(* A diff that fails counts as staged edits.  Without a base the staged    *)
(* edits decide alone.                                                     *)
DiffCached(w) ==
  /\ At(w, {"diff"})
  /\ \/ Goes(w, "commit")
     \/ staged = {} /\ task[w].based /\ Goes(w, "count")
     \/ staged = {} /\ ~task[w].based /\ NotCommitted(w)
  /\ UNCHANGED <<tree, procs>>

(* A commit of content joins HEAD, and the lane branch if HEAD is on it:   *)
(* it is output of every WP whose window is open.                          *)
Recorded(content) ==
  [w \in WPs |->
    IF ~(Window(w) /\ lane_branch) THEN task[w]
    ELSE [task[w] EXCEPT !.output = TRUE,
                         !.on_lane = @ \/ head = "lane",
                         !.worked = @ \/ w \in content]]

CommitStaged(w) ==
  /\ At(w, {"commit"})
  /\ staged # {}
  /\ task' = [Touched(Recorded(staged), w) EXCEPT ![w].at = "count"]
  /\ staged' = {}
  /\ UNCHANGED <<lane_branch, head, dirty, procs>>

(* CommitError: an agent's git holds the lock of the index, a hook refuses *)
(* the commit, the disk is full, nothing is left to commit, ...            *)
GitFails(w) ==
  /\ lane_branch
  /\ At(w, {"check", "add", "commit", "count"})
  /\ NotCommitted(w)
  /\ UNCHANGED <<tree, procs>>

(* rev-list --count; without a base, whatever was committed counts.        *)
CountOutput(w) ==
  /\ At(w, {"count"})
  /\ IF task[w].based => task[w].output THEN Advance(w) ELSE NotCommitted(w)
  /\ UNCHANGED <<tree, procs>>

-----------------------------------------------------------------------------
(* The agents and what they leave in the background (external).            *)

AgentEdits(w) ==
  /\ HasAgent(w)
  /\ w \notin dirty
  /\ dirty' = dirty \cup {w}
  /\ task' = Touched(task, w)
  /\ UNCHANGED <<lane_branch, head, staged, procs>>

AgentCommits(w) ==
  /\ HasAgent(w)
  /\ head \in {"lane", "detached"}
  /\ dirty \cup staged # {}
  /\ task' = Touched(Recorded(dirty \cup staged), w)
  /\ dirty' = {} /\ staged' = {}
  /\ UNCHANGED <<lane_branch, head, procs>>

(* git checkout of a detached HEAD, or of the lane branch: what was only   *)
(* on the detached HEAD is gone from it.                                   *)
AgentSwitches(w) ==
  /\ HasAgent(w)
  /\ \/ head = "lane" /\ head' = "detached" /\ task' = Touched(task, w)
     \/ /\ head = "detached" /\ head' = "lane"
        /\ task' = Touched([v \in WPs |-> [task[v] EXCEPT !.output = task[v].on_lane]], w)
  /\ UNCHANGED <<lane_branch, dirty, staged, procs>>

AgentExits(w) ==
  /\ child[w] = "running"
  /\ child' = [child EXCEPT ![w] = "exited"]
  /\ holders' \in {holders, holders \cup ({w} \cap Lingering)}
  /\ UNCHANGED <<tree, task>>

HolderExits(w) ==
  /\ w \in holders
  /\ holders' = holders \ {w}
  /\ UNCHANGED <<tree, task, child>>

-----------------------------------------------------------------------------
execute_agent(w) ==
  spawn_agent(w) \/ SpawnError(w) \/ Collect(w) \/ TimesOut(w) \/ TermEnds(w)

commit_lane_work(w) ==
  CheckBranch(w) \/ AddAll(w) \/ DiffCached(w) \/ CommitStaged(w) \/ GitFails(w) \/ CountOutput(w)

Agent(w) ==
  AgentEdits(w) \/ AgentCommits(w) \/ AgentSwitches(w) \/ AgentExits(w) \/ HolderExits(w)

Next == \E w \in WPs : Allocate(w) \/ execute_agent(w) \/ commit_lane_work(w) \/ Agent(w)

(* The event loop does not stop while a task of its can go on or a timer   *)
(* can fire, whichever it serves first; the agents and what they leave     *)
(* behind may hang for ever.                                               *)
Fairness == WF_vars(\E w \in WPs : execute_agent(w) \/ commit_lane_work(w))

Spec == Init /\ [][Next]_vars
FairSpec == Spec /\ Fairness

-----------------------------------------------------------------------------
Locals == [at : {"idle", "ready", "run", "term"} \cup Gate \cup Over,
           role : {"implement", "review", "rework"},
           attempts : Nat, reworks : Nat,
           based : BOOLEAN, output : BOOLEAN, on_lane : BOOLEAN,
           worked : BOOLEAN, intruded : BOOLEAN]

(* Types of the worktree, the tasks and the processes; attempts and        *)
(* reworks keep to their limits.                                           *)
TypeOK ==
  /\ lane_branch \in BOOLEAN
  /\ head \in {"absent", "plain", "detached", "lane"}
  /\ dirty \subseteq WPs /\ staged \subseteq WPs
  /\ task \in [WPs -> Locals]
  /\ \A w \in WPs : task[w].attempts <= MaxAttempts[w] /\ task[w].reworks <= MaxReworks[w]
  /\ child \in [WPs -> {"none", "running", "exited"}]
  /\ holders \subseteq WPs

(* No agent outlives its attempt: when the loop retries, falls back, runs  *)
(* the gate or starts the reviewer, the agent it waited for is gone, and   *)
(* only one gate is under way (execute_with_timeout, run_loop).            *)
AttemptsDoNotOverlap ==
  /\ \A w \in WPs : child[w] # "none" => At(w, {"run", "term"})
  /\ Cardinality({w \in WPs : At(w, Gate)}) <= 1

(* The gate commits the edits of w only, and onto the lane branch, unless  *)
(* another WP worked in the worktree during w's window, or a review was    *)
(* adopted among edits another had left: the branch check, the add and the *)
(* commit are separate commands (commit_lane_work).                        *)
FeatCommitsAreClean ==
  [][\A w \in WPs : CommitStaged(w) /\ ~task[w].intruded => head = "lane" /\ staged = {w}]_vars

Advances(w) == lane_branch /\ At(w, Gate) /\ task'[w].role = "review"

(* The gate lets a WP advance to review, first time and after every        *)
(* rework, only when commits made since then hold work of its own, unless  *)
(* another WP worked in the worktree meanwhile (_commit_implementation).   *)
AdvancesOnOwnWork ==
  [][\A w \in WPs : Advances(w) /\ ~task[w].intruded => task[w].worked]_vars

(* The same without the exception: "the core 'no done without a commit'    *)
(* guarantee" of tests/test_commit_lane.py.                                *)
NoAdvanceWithoutOutput == [][\A w \in WPs : Advances(w) => task[w].worked]_vars

(* Every attempt is decided, and so every task ends, however long agents   *)
(* and their background processes hang (execute_with_timeout).             *)
TasksEnd == []<>(\A w \in WPs : ~Window(w))
=============================================================================
