--------------------------- MODULE Orchestration ---------------------------
(***************************************************************************)
(* The orchestrator: the poll loop (run_orchestration_loop), one task per  *)
(* dispatched WP (execute_and_advance), the host they drive through        *)
(* HostClient, the provider-local run state in memory and on disk, and the *)
(* processes that crash, are interrupted and are started again.            *)
(*                                                                         *)
(* The program is single-threaded asyncio and its host calls are blocking, *)
(* so what runs between two awaits (agent run, back-off, poll pause) is    *)
(* atomic for the other coroutines; a crash can still fall between any two *)
(* host calls of it. pc[w] and phase therefore distinguish the points      *)
(* where a coroutine awaits from those where it holds the event loop.      *)
(***************************************************************************)
EXTENDS Integers, Sequences, FiniteSets, WPLifecycle

CONSTANTS
    Agents,             \* agent identifiers
    Config,             \* Config[c]: what load_config yields for command c
    MaxRetries,         \* max_retries of the agent selection
    LoopDeadlockThreshold,  \* DEADLOCK_THRESHOLD
    AgentOutcomes,      \* how an implementer may exit: "ok" (work done),
                        \* "idle" (exit 0, nothing done), "fail", "auth"
    Verdicts,           \* how a review may end: "approve", "reject", "crash"
    KillReachesAgents,  \* a killed orchestrator takes its agents with it
    MaxStarts,          \* bound: orchestrator processes
    MaxKills,           \* bound: kills and keyboard interrupts
    MaxFaults,          \* bound: failed host calls, git calls and spawns
    MaxMoves            \* bound: lane moves by other identities

Commands == {"orchestrate", "resume"}

ASSUME ConfigAssumption ==
    Config \in [Commands -> [implementers : Seq(Agents),
                             has_reviewer : BOOLEAN,
                             max_concurrent : Nat]]
ASSUME WPsAssumption == IsFiniteSet(WPs)
ASSUME BoundsAssumption ==
    /\ MaxRetries \in Nat            /\ LoopDeadlockThreshold \in Nat \ {0}
    /\ MaxStarts \in Nat             /\ MaxKills \in Nat
    /\ MaxFaults \in Nat             /\ MaxMoves \in Nat
    /\ KillReachesAgents \in BOOLEAN

VARIABLES
    tree,       \* tree[w]: the WP's work is "todo", "edited" or "clean" (committed)
    ahead,      \* ahead[w]: the branch has commits past output_base
    mem, disk,  \* the WPExecution records: in memory, in the state file
    phase,      \* where the loop is, or how the last process ended
    command,    \* the command the live (or last) process runs
    ready,      \* ready_work_packages of this poll
    todo,       \* WPs this pass has still to recover or schedule
    parked,     \* those whose state_lanes entry is for_review
    streak,     \* empty_ready_streak
    driven,     \* driven_ids
    active,     \* ConcurrencyManager._active
    slots,      \* value of ConcurrencyManager._semaphore
    pc,         \* pc[w]: where the task of w is
    stray,      \* agents that outlived a killed orchestrator
    faults, starts, kills, moves    \* what has been used of the bounds

host      == <<lane, owner>>
worktree  == <<commits, tree, ahead>>
runState  == <<mem, disk>>
loopState == <<phase, command, ready, todo, parked, streak, driven>>
slotState == <<active, slots>>
bounds    == <<faults, starts, kills, moves>>
vars == <<host, worktree, runState, loopState, slotState, pc, stray, bounds>>

(* Live phases in which the loop holds the event loop; "sleep" is its only *)
(* await.                                                                  *)
Segments == {"start", "recover", "poll", "read", "schedule"}
Stopped  == {"down", "complete", "stalled", "failed"}
Phases   == Segments \cup {"sleep"} \cup Stopped

AgentPCs   == {"implementing", "reviewing", "reworking"}
AwaitPCs   == {"begin", "begin_review", "backoff"} \cup AgentPCs
HoldingPCs == {"gate_failed", "exhausted", "submit", "review", "verdict",
               "rework_failed", "finish"}
PCs        == {"idle"} \cup AwaitPCs \cup HoldingPCs

RESUMABLE_LANES == {"claimed", "in_progress", "for_review"}

WPExecution == [implementation_retries : 0..MaxRetries,
                fallback_agents_tried : SUBSET Agents,
                review_retries : Nat,
                last_error : BOOLEAN]

NewWPExecution == [implementation_retries |-> 0, fallback_agents_tried |-> {},
                   review_retries |-> 0, last_error |-> FALSE]

(* Every WP's record as get_or_create_wp would first return it.            *)
NewRunState == [w \in WPs |-> NewWPExecution]

-----------------------------------------------------------------------------
(* Decisions                                                               *)

(* Variant: orphaned WPs are not adopted.                                  *)
SelectReadyOnly(readyWPs, stateLanes, activeIds, drivenIds) ==
    {w \in WPs : w \in readyWPs /\ w \notin activeIds /\ w \notin drivenIds}

(* The planned WPs that are ready and the WPs a former run left in a lane  *)
(* this one can resume, less those this process has on its hands or had.   *)
select_schedulable_wp_ids(readyWPs, stateLanes, activeIds, drivenIds) ==
    {w \in WPs : /\ w \in readyWPs \/ stateLanes[w] \in RESUMABLE_LANES
                 /\ w \notin activeIds
                 /\ w \notin drivenIds}

Implementers == Config[command].implementers

Untried(tried) == {i \in DOMAIN Implementers : Implementers[i] \notin tried}

(* The first configured agent not tried, if there is one. The agent a task *)
(* runs (impl_agent_id) always is this one: the task alone changes the set *)
(* of tried agents, and selects again whenever it does.                    *)
select_implementer(tried) ==
    {Implementers[i] : i \in {j \in Untried(tried) : \A k \in Untried(tried) : j <= k}}

(* Variant: off by one.                                                    *)
RetryOneTooMany(failure, retries) == failure # "auth" /\ retries <= MaxRetries

should_retry(failure, retries) == failure # "auth" /\ retries < MaxRetries

(* Variant: off by one.                                                    *)
ReviewLimitOneTooMany(retries) == retries > MaxRetries + 1

ReviewLimitExceeded(retries) == retries > MaxRetries

(* all(lane in terminal_lanes for lane in all_lanes if lane)               *)
MissionOver(lanes) ==
    \A w \in WPs : lanes[w] # "none" => lanes[w] \in TerminalLanes

has_slot == slots > 0
-----------------------------------------------------------------------------
(* The event loop, the run state and the concurrency manager               *)

Holding == {w \in WPs : pc[w] \in HoldingPCs}

(* A coroutine that awaits can go on: nobody holds the event loop.         *)
CanResume == phase = "sleep" /\ Holding = {}

GoTo(w, label) == pc' = [pc EXCEPT ![w] = label]

save_state(state) == disk' = state

(* Variant: the state file is taken for unreadable.                        *)
LoadNothing == NewRunState

load_state == disk

(* Variant: the error is only logged.                                      *)
FailedUnrecorded(state, w) == state

(* _mark_failed, and the other places that set last_error.                 *)
Failed(state, w) == [state EXCEPT ![w].last_error = TRUE]

(* Variant: release is forgotten.                                          *)
LeaveKeepingSlot(w) ==
    /\ GoTo(w, "idle")
    /\ active' = active \ {w}
    /\ UNCHANGED slots

(* The finally block of _run_wp_task.                                      *)
Leave(w) ==
    /\ GoTo(w, "idle")
    /\ active' = active \ {w}
    /\ slots' = slots + 1

(* mark_active, acquire (never blocks: has_slot was just true), create_task *)
Dispatch(w, label) ==
    /\ GoTo(w, label)
    /\ active' = active \cup {w}
    /\ slots' = slots - 1

(* Variant: no quarantine.                                                 *)
DriveForgetting(w) == UNCHANGED driven

(* driven_ids.add                                                          *)
Drive(w) == driven' = driven \cup {w}
-----------------------------------------------------------------------------
(* The host, as the calls of HostClient see it                             *)

Fault   == faults < MaxFaults /\ faults' = faults + 1
NoFault == UNCHANGED faults

(* The transitions the program asks for and the host accepts.              *)
LaneEdges == {<<"in_progress", "for_review">>, <<"in_progress", "blocked">>,
              <<"in_review", "done">>, <<"in_review", "in_progress">>,
              <<"in_review", "blocked">>}

Legal(w, to) == <<lane[w], to>> \in LaneEdges

Accepted(w, to) == Legal(w, to) /\ Move(w, to, "self") /\ NoFault

(* TransitionRejectedError: the lane does not allow it, or a host guard    *)
(* (unfinished subtasks, missing evidence) does not.                       *)
Rejected(w, to) ==
    /\ Legal(w, to) => Fault
    /\ ~Legal(w, to) => NoFault
    /\ UNCHANGED host

(* The host moved the WP but its answer was lost: the client raises.       *)
Lost(w, to) == Legal(w, to) /\ Move(w, to, "self") /\ Fault

(* list-ready: planned WPs whose dependencies are done.                    *)
ReadyWPs == {w \in WPs : /\ lane[w] = "planned"
                         /\ \A d \in Deps[w] : lane[d] = "done"}

(* start-implementation takes a planned WP, and is idempotent on a WP its  *)
(* actor already started.                                                  *)
Startable(w) ==
    \/ lane[w] = "planned"
    \/ lane[w] \in {"claimed", "in_progress"} /\ owner[w] = "self"
-----------------------------------------------------------------------------
(* Processes: the CLI commands, and how a process ends                     *)

AtRest ==
    /\ pc' = [w \in WPs |-> "idle"]
    /\ active' = {}
    /\ ready' = {} /\ todo' = {} /\ parked' = {}

Stop(how) ==
    /\ phase' = how
    /\ AtRest
    /\ slots' = Config[command].max_concurrent
    /\ streak' = 0
    /\ UNCHANGED <<command, driven>>

StartProcess(c) ==
    /\ phase \in Stopped
    /\ starts < MaxStarts /\ starts' = starts + 1
    /\ phase' = "start" /\ command' = c
    /\ AtRest
    /\ slots' = Config[c].max_concurrent
    /\ streak' = 0 /\ driven' = {}
    /\ UNCHANGED <<host, worktree, stray, faults, kills, moves>>

(* orchestrate begins a new run and overwrites the state file.             *)
Orchestrate ==
    /\ StartProcess("orchestrate")
    /\ mem' = NewRunState
    /\ save_state(NewRunState)

(* resume goes on from the state file, there from the first run on.        *)
Resume ==
    /\ starts > 0
    /\ StartProcess("resume")
    /\ mem' = load_state
    /\ UNCHANGED disk

(* The orchestrator is killed at any moment; its memory is gone. Agents it *)
(* was waiting for survive unless the kill reaches them too.               *)
Kill ==
    /\ phase \notin Stopped
    /\ kills < MaxKills /\ kills' = kills + 1
    /\ Stop("down")
    /\ mem' = disk
    /\ stray' = IF KillReachesAgents THEN stray
                ELSE stray \cup {<<w, pc[w]>> : w \in {v \in WPs : pc[v] \in AgentPCs}}
    /\ UNCHANGED <<host, worktree, disk, faults, starts, moves>>

(* Ctrl-C: every task is cancelled at its await, agents get the signal     *)
(* too, and the command saves the run state before it exits.               *)
Interrupt ==
    /\ CanResume
    /\ kills < MaxKills /\ kills' = kills + 1
    /\ Stop("down")
    /\ save_state(mem)
    /\ UNCHANGED <<host, worktree, mem, stray, faults, starts, moves>>

(* mission-state or list-ready fails: the exception leaves the loop, and   *)
(* asyncio.run cancels the tasks in flight.                                *)
HostReadFails ==
    /\ phase \in {"start", "poll", "read"} \/ CanResume
    /\ Fault
    /\ Stop("failed")
    /\ UNCHANGED <<host, worktree, runState, stray, starts, kills, moves>>
-----------------------------------------------------------------------------
(* _recover_orphaned_reviews                                               *)

LoopFrame == UNCHANGED <<worktree, runState, command, slotState, pc, stray, bounds>>

(* Variant: the actor test is inverted.                                    *)
OrphansOfOthers == {w \in WPs : lane[w] = "in_review" /\ owner[w] = "other"}

(* Reviews this actor had open; the lock proves nobody conducts them.      *)
OrphanedReviews == {w \in WPs : lane[w] = "in_review" /\ owner[w] = "self"}

ReadOrphans ==
    /\ phase = "start"
    /\ phase' = "recover"
    /\ todo' = OrphanedReviews
    /\ UNCHANGED <<host, ready, parked, streak, driven>> /\ LoopFrame

(* A forced transition skips the guards; only a terminal lane refuses it.  *)
RecoverReview(w) ==
    /\ phase = "recover" /\ w \in todo
    /\ lane[w] \notin TerminalLanes
    /\ Move(w, "for_review", "self")
    /\ todo' = todo \ {w}
    /\ UNCHANGED <<phase, ready, parked, streak, driven>> /\ LoopFrame

(* One recovery fails: OrchestrationError, the process exits. The host may *)
(* have applied the transition all the same.                               *)
RecoveryFails(w) ==
    /\ phase = "recover" /\ w \in todo
    /\ \/ lane[w] \in TerminalLanes /\ UNCHANGED host /\ NoFault
       \/ UNCHANGED host /\ Fault
       \/ lane[w] \notin TerminalLanes /\ Move(w, "for_review", "self") /\ Fault
    /\ Stop("failed")
    /\ UNCHANGED <<worktree, runState, stray, starts, kills, moves>>

RecoveryEnds ==
    /\ phase = "recover" /\ todo = {}
    /\ phase' = "poll"
    /\ UNCHANGED <<host, ready, todo, parked, streak, driven>> /\ LoopFrame
-----------------------------------------------------------------------------
(* One iteration of run_orchestration_loop                                 *)

ListReady ==
    /\ phase = "poll" \/ CanResume
    /\ phase' = "read"
    /\ ready' = ReadyWPs
    /\ UNCHANGED <<host, todo, parked, streak, driven>> /\ LoopFrame

Schedulable == select_schedulable_wp_ids(ready, lane, active, driven)

(* Variant: tasks in flight are forgotten.                                 *)
NothingToDoIgnoringActive == Schedulable = {}

NothingToDo == Schedulable = {} /\ active = {}

(* mission-state, and what the loop decides from it: there is work, or the *)
(* mission is over, or another empty poll is counted.                      *)
HasWork ==
    /\ phase = "read" /\ ~NothingToDo
    /\ phase' = "schedule"
    /\ todo' = Schedulable
    /\ parked' = {w \in Schedulable : lane[w] = "for_review"}
    /\ streak' = 0
    /\ UNCHANGED <<host, ready, driven>> /\ LoopFrame

Completes ==
    /\ phase = "read" /\ NothingToDo
    /\ MissionOver(lane)
    /\ Stop("complete")
    /\ save_state(mem)
    /\ UNCHANGED <<host, worktree, mem, stray, bounds>>

EmptyPoll ==
    /\ phase = "read" /\ NothingToDo
    /\ ~MissionOver(lane)
    /\ streak + 1 < LoopDeadlockThreshold
    /\ phase' = "sleep" /\ streak' = streak + 1 /\ ready' = {}
    /\ UNCHANGED <<host, todo, parked, driven>> /\ LoopFrame

(* DeadlockError                                                           *)
Stalls ==
    /\ phase = "read" /\ NothingToDo
    /\ ~MissionOver(lane)
    /\ streak + 1 >= LoopDeadlockThreshold
    /\ Stop("stalled")
    /\ UNCHANGED <<host, worktree, runState, stray, bounds>>

(* Ready WPs come before resumable ones.                                   *)
Scheduling(w) ==
    /\ phase = "schedule" /\ has_slot
    /\ w \in todo
    /\ todo \cap ready # {} => w \in ready
    /\ todo' = todo \ {w}
    /\ UNCHANGED <<worktree, phase, command, ready, parked, streak, stray,
                   starts, kills, moves>>

NoAgent(w) == select_implementer(mem[w].fallback_agents_tried) = {}

SkipNoAgent(w) ==
    /\ Scheduling(w)
    /\ NoAgent(w)
    /\ UNCHANGED <<host, runState, driven, slotState, pc, faults>>

(* A WP parked in for_review goes straight to review in its own worktree.  *)
AdoptReview(w) ==
    /\ Scheduling(w) /\ w \in parked
    /\ ~NoAgent(w)
    /\ Drive(w)
    /\ Dispatch(w, "begin_review")
    /\ UNCHANGED <<host, runState, faults>>

StartImplementation(w) ==
    /\ Scheduling(w) /\ w \notin parked
    /\ ~NoAgent(w)
    /\ Startable(w)
    /\ Move(w, "in_progress", "self")
    /\ Drive(w)
    /\ Dispatch(w, "begin")
    /\ UNCHANGED <<runState, faults>>

(* resolve-workspace or start-implementation raises: the error is recorded *)
(* and the WP is not tried again by this process. The host may have moved  *)
(* it some of the way.                                                     *)
Quarantine(w) ==
    /\ Scheduling(w)
    /\ ~NoAgent(w)
    /\ \/ Fault /\ UNCHANGED host
       \/ w \notin parked /\ ~Startable(w) /\ NoFault /\ UNCHANGED host
       \/ /\ w \notin parked /\ Startable(w) /\ Fault
          /\ \E to \in {"claimed", "in_progress"} : Move(w, to, "self")
    /\ mem' = Failed(mem, w)
    /\ save_state(mem')
    /\ Drive(w)
    /\ UNCHANGED <<slotState, pc>>

EndSchedule ==
    /\ phase = "schedule"
    /\ todo = {} \/ ~has_slot
    /\ phase' = "sleep"
    /\ ready' = {} /\ todo' = {} /\ parked' = {}
    /\ UNCHANGED <<host, streak, driven>> /\ LoopFrame
-----------------------------------------------------------------------------
(* Agents at work in a worktree: those a task waits for, and strays        *)

Implementing(w) ==
    \/ pc[w] \in {"implementing", "reworking"}
    \/ <<w, "implementing">> \in stray \/ <<w, "reworking">> \in stray

AgentFrame == UNCHANGED <<host, runState, loopState, slotState, pc, bounds>>

AgentEdits(w) ==
    /\ Implementing(w)
    /\ tree[w] = "todo"
    /\ tree' = [tree EXCEPT ![w] = "edited"]
    /\ UNCHANGED <<commits, ahead, stray>>
    /\ AgentFrame

(* An agent may commit on the lane branch by itself.                       *)
AgentCommits(w) ==
    /\ Implementing(w) /\ w \in LaneWPs
    /\ tree[w] # "clean"
    /\ tree' = [tree EXCEPT ![w] = "clean"]
    /\ commits' = [commits EXCEPT ![w] = "new"]
    /\ ahead' = [ahead EXCEPT ![w] = TRUE]
    /\ UNCHANGED stray
    /\ AgentFrame

StrayEnds ==
    /\ \E a \in stray : stray' = stray \ {a}
    /\ UNCHANGED worktree
    /\ AgentFrame
-----------------------------------------------------------------------------
(* _commit_implementation: everything in the worktree is committed, and    *)
(* there must be a commit past output_base                                 *)

(* Variant: any exit 0 counts as output.                                   *)
OutputAssumed(w) == TRUE

HasOutput(w) == tree[w] = "edited" \/ ahead[w]

GatePasses(w) ==
    IF w \in LaneWPs
    THEN /\ HasOutput(w)
         /\ tree' = [tree EXCEPT ![w] = IF @ = "edited" THEN "clean" ELSE @]
         /\ commits' = [commits EXCEPT ![w] = IF tree[w] = "edited" THEN "new" ELSE @]
         /\ ahead' = [ahead EXCEPT ![w] = FALSE]
    ELSE UNCHANGED worktree

(* No output, or git failed: before the commit, or after it when commits   *)
(* are counted.                                                            *)
GateRefuses(w) ==
    /\ w \in LaneWPs
    /\ \/ ~HasOutput(w) /\ NoFault /\ UNCHANGED worktree
       \/ HasOutput(w) /\ Fault /\ UNCHANGED worktree
       \/ /\ tree[w] = "edited" /\ Fault
          /\ tree' = [tree EXCEPT ![w] = "clean"]
          /\ commits' = [commits EXCEPT ![w] = "new"]
          /\ ahead' = [ahead EXCEPT ![w] = TRUE]

(* A diligent agent exits 0 only when its work is done.                    *)
ExitsClean(w) == tree[w] # "todo" \/ "idle" \in AgentOutcomes
-----------------------------------------------------------------------------
(* execute_and_advance: the implementation phase                           *)

TaskFrame == UNCHANGED <<loopState, stray, starts, kills, moves>>

(* The task goes on: it keeps its slot.                                    *)
Continue(w, label) == GoTo(w, label) /\ UNCHANGED slotState

(* The task starts: the run state is saved, output_base is the lane's HEAD *)
(* (read without fail here; LaneWork has the rest) and the prompt is read, *)
(* which may fail.                                                         *)
Begin(w) ==
    /\ CanResume /\ pc[w] \in {"begin", "begin_review"}
    /\ \/ /\ NoFault
          /\ Continue(w, IF pc[w] = "begin" THEN "implementing" ELSE "review")
          /\ UNCHANGED mem
       \/ /\ Fault
          /\ Continue(w, "finish")
          /\ mem' = Failed(mem, w)
    /\ save_state(mem)
    /\ ahead' = [ahead EXCEPT ![w] = FALSE]
    /\ UNCHANGED <<host, commits, tree>> /\ TaskFrame

(* The agent exits 0 and its output is committed.                          *)
ImplementationCommitted(w) ==
    /\ CanResume /\ pc[w] = "implementing" /\ ExitsClean(w)
    /\ GatePasses(w)
    /\ Continue(w, "submit")
    /\ UNCHANGED <<host, runState, faults>> /\ TaskFrame

(* The agent exits 0 and there is nothing to commit.                       *)
ImplementationRefused(w) ==
    /\ CanResume /\ pc[w] = "implementing" /\ ExitsClean(w)
    /\ GateRefuses(w)
    /\ Continue(w, "gate_failed")
    /\ UNCHANGED <<host, runState>> /\ TaskFrame

RecordRefusal(w) ==
    /\ pc[w] = "gate_failed"
    /\ mem' = Failed(mem, w)
    /\ Continue(w, "finish")
    /\ UNCHANGED <<host, worktree, disk, faults>> /\ TaskFrame

(* The agent fails or times out: retry it after a pause ...                *)
RetryImplementation(w) ==
    /\ CanResume /\ pc[w] = "implementing"
    /\ \E f \in AgentOutcomes \cap {"fail", "auth"} :
          should_retry(f, mem[w].implementation_retries)
    /\ mem' = [Failed(mem, w) EXCEPT ![w].implementation_retries = @ + 1]
    /\ save_state(mem')
    /\ Continue(w, "backoff")
    /\ UNCHANGED <<host, worktree, faults>> /\ TaskFrame

(* ... or strike it off and use the next one, or give up when it was the   *)
(* last. The run state is not saved before the host was told.              *)
StrikeAgent(w) ==
    /\ CanResume /\ pc[w] = "implementing"
    /\ \E f \in AgentOutcomes \cap {"fail", "auth"} :
          ~should_retry(f, mem[w].implementation_retries)
    /\ \E agent \in select_implementer(mem[w].fallback_agents_tried) :
       LET struck == mem[w].fallback_agents_tried \cup {agent}
           state == [Failed(mem, w) EXCEPT ![w].fallback_agents_tried = struck]
       IN IF select_implementer(struck) # {}
          THEN /\ mem' = [state EXCEPT ![w].implementation_retries = 0]
               /\ save_state(mem')
               /\ Continue(w, "implementing")
          ELSE /\ mem' = state
               /\ UNCHANGED disk
               /\ Continue(w, "exhausted")
    /\ UNCHANGED <<host, worktree, faults>> /\ TaskFrame

(* The pause is over: loop head of the implementation phase.               *)
RetryDue(w) ==
    /\ CanResume /\ pc[w] = "backoff"
    /\ save_state(mem)
    /\ Continue(w, "implementing")
    /\ UNCHANGED <<host, worktree, mem, faults>> /\ TaskFrame

(* Whatever the host answers to "blocked" is swallowed.                    *)
BlockExhausted(w) ==
    /\ pc[w] = "exhausted"
    /\ Accepted(w, "blocked") \/ Rejected(w, "blocked") \/ Lost(w, "blocked")
    /\ mem' = Failed(mem, w)
    /\ Continue(w, "finish")
    /\ UNCHANGED <<worktree, disk>> /\ TaskFrame

(* A transition whose rejection is recorded and ends the task, and whose   *)
(* other errors kill the task.                                             *)
Request(w, to, next) ==
    \/ Accepted(w, to) /\ Continue(w, next) /\ UNCHANGED mem
    \/ Rejected(w, to) /\ Continue(w, "finish") /\ mem' = Failed(mem, w)
    \/ Lost(w, to) /\ Leave(w) /\ UNCHANGED mem

SubmitForReview(w) ==
    /\ pc[w] = "submit"
    /\ Request(w, "for_review", "review")
    /\ UNCHANGED <<worktree, disk>> /\ TaskFrame
-----------------------------------------------------------------------------
(* execute_and_advance: the review phase                                   *)

(* From now on the reviewer looks at all that is committed.                *)
Offer(w) == commits' = [commits EXCEPT ![w] = IF @ = "none" THEN @ ELSE "offered"]

(* select_reviewer raises when no reviewer is configured, and the task dies *)
(* with its WP in for_review.                                              *)
NoReviewer(w) ==
    /\ pc[w] = "review" /\ ~Config[command].has_reviewer
    /\ Leave(w)
    /\ UNCHANGED <<host, worktree, runState, faults>> /\ TaskFrame

(* start-review: for_review -> in_review. A host that answers with another *)
(* lane counts as a rejection.                                             *)
StartReview(w) ==
    /\ pc[w] = "review" /\ Config[command].has_reviewer
    /\ save_state(mem)
    /\ \/ /\ lane[w] = "for_review" /\ NoFault
          /\ Move(w, "in_review", "self") /\ Offer(w)
          /\ Continue(w, "reviewing") /\ UNCHANGED mem
       \/ /\ lane[w] = "for_review" /\ Fault
          /\ Move(w, "in_review", "self") /\ Offer(w)
          /\ Leave(w) /\ UNCHANGED mem
       \/ /\ \/ lane[w] = "for_review" /\ Fault /\ Move(w, "in_progress", "self")
             \/ lane[w] = "for_review" /\ Fault /\ UNCHANGED host
             \/ lane[w] # "for_review" /\ NoFault /\ UNCHANGED host
          /\ UNCHANGED commits
          /\ Continue(w, "finish") /\ mem' = Failed(mem, w)
    /\ UNCHANGED <<tree, ahead>> /\ TaskFrame

ReviewApproves(w) ==
    /\ CanResume /\ pc[w] = "reviewing"
    /\ "approve" \in Verdicts
    /\ Request(w, "done", "finish")
    /\ UNCHANGED <<worktree, disk>> /\ TaskFrame

(* The reviewer wants changes, or its run fails or times out: both count.  *)
ReviewRejects(w) ==
    /\ CanResume /\ pc[w] = "reviewing"
    /\ \E v \in Verdicts \cap {"reject", "crash"} :
          tree' = IF v = "reject" THEN [tree EXCEPT ![w] = "todo"] ELSE tree
    /\ mem' = [mem EXCEPT ![w].review_retries = @ + 1]
    /\ save_state(mem')
    /\ Continue(w, "verdict")
    /\ UNCHANGED <<host, commits, ahead, faults>> /\ TaskFrame

(* Too many rejections block the WP, otherwise it goes back for rework.    *)
ActOnRejection(w) ==
    /\ pc[w] = "verdict"
    /\ IF ReviewLimitExceeded(mem[w].review_retries)
       THEN Request(w, "blocked", "finish")
       ELSE Request(w, "in_progress", "reworking")
    /\ UNCHANGED <<worktree, disk>> /\ TaskFrame

ReworkCommitted(w) ==
    /\ CanResume /\ pc[w] = "reworking" /\ ExitsClean(w)
    /\ GatePasses(w)
    /\ Continue(w, "submit")
    /\ UNCHANGED <<host, runState, faults>> /\ TaskFrame

(* One failed rework blocks the WP: there is no retry and no fallback.     *)
ReworkFails(w) ==
    /\ CanResume /\ pc[w] = "reworking"
    /\ \/ AgentOutcomes \cap {"fail", "auth"} # {} /\ NoFault /\ UNCHANGED worktree
       \/ ExitsClean(w) /\ GateRefuses(w)
    /\ Continue(w, "rework_failed")
    /\ UNCHANGED <<host, runState>> /\ TaskFrame

BlockRework(w) ==
    /\ pc[w] = "rework_failed"
    /\ Request(w, "blocked", "finish")
    /\ UNCHANGED <<worktree, disk>> /\ TaskFrame

(* The last save_state of the task, and its end.                           *)
Finish(w) ==
    /\ pc[w] = "finish"
    /\ save_state(mem)
    /\ Leave(w)
    /\ UNCHANGED <<host, worktree, mem, faults>> /\ TaskFrame

(* append-history, a transition that fails otherwise than by rejection, or *)
(* the spawn of an agent raises: the task dies and records nothing.        *)
TaskRaises(w) ==
    /\ pc[w] \in HoldingPCs \/ (CanResume /\ pc[w] \in AgentPCs \cup {"backoff"})
    /\ Fault
    /\ Leave(w)
    /\ UNCHANGED <<host, worktree, runState>> /\ TaskFrame
-----------------------------------------------------------------------------
(* Other identities                                                        *)

OtherEdges == {<<"planned", "in_progress">>, <<"for_review", "in_review">>,
               <<"in_review", "in_progress">>, <<"in_review", "done">>}

Otherwise == moves < MaxMoves /\ moves' = moves + 1

OtherFrame == UNCHANGED <<worktree, runState, loopState, slotState, pc, stray,
                          faults, starts, kills>>

(* Somebody claims a WP, takes part in a review, or cancels a WP.          *)
OtherActs(w) ==
    /\ Otherwise
    /\ \E to \in {"in_progress", "in_review", "done", "canceled"} :
          /\ \/ <<lane[w], to>> \in OtherEdges
             \/ to = "canceled" /\ lane[w] \notin TerminalLanes \cup {"none"}
          /\ Move(w, to, "other")
    /\ OtherFrame

(* "Resolve blocked/canceled WPs, then resume orchestration."              *)
OperatorResolves(w) ==
    /\ Otherwise
    /\ phase \in Stopped
    /\ lane[w] \in {"blocked", "canceled"}
    /\ Move(w, "planned", "other")
    /\ OtherFrame
-----------------------------------------------------------------------------
OrchestrationInit ==
    /\ Init                                     \* of WPLifecycle
    /\ \A w \in WPs : lane[w] \in {"none", "planned"} => owner[w] = "other"
    /\ tree = [w \in WPs |-> IF commits[w] = "none" THEN "todo" ELSE "clean"]
    /\ ahead = [w \in WPs |-> FALSE]
    /\ mem = NewRunState /\ disk = NewRunState
    /\ phase = "down" /\ command = "orchestrate"
    /\ ready = {} /\ todo = {} /\ parked = {} /\ streak = 0 /\ driven = {}
    /\ active = {} /\ slots = Config["orchestrate"].max_concurrent
    /\ pc = [w \in WPs |-> "idle"]
    /\ stray = {}
    /\ faults = 0 /\ starts = 0 /\ kills = 0 /\ moves = 0

LoopStep ==
    \/ ReadOrphans \/ RecoveryEnds
    \/ \E w \in WPs : RecoverReview(w) \/ RecoveryFails(w)
    \/ ListReady \/ HasWork \/ Completes \/ EmptyPoll \/ Stalls
    \/ \E w \in WPs : \/ SkipNoAgent(w) \/ AdoptReview(w)
                      \/ StartImplementation(w) \/ Quarantine(w)
    \/ EndSchedule

TaskStep(w) ==
    \/ Begin(w)
    \/ ImplementationCommitted(w) \/ ImplementationRefused(w) \/ RecordRefusal(w)
    \/ RetryImplementation(w) \/ StrikeAgent(w) \/ RetryDue(w) \/ BlockExhausted(w)
    \/ SubmitForReview(w) \/ NoReviewer(w) \/ StartReview(w)
    \/ ReviewApproves(w) \/ ReviewRejects(w) \/ ActOnRejection(w)
    \/ ReworkCommitted(w) \/ ReworkFails(w) \/ BlockRework(w)
    \/ Finish(w) \/ TaskRaises(w)

AgentStep(w) == AgentEdits(w) \/ AgentCommits(w)

Environment ==
    \/ Orchestrate \/ Resume \/ Kill \/ Interrupt \/ HostReadFails
    \/ StrayEnds
    \/ \E w \in WPs : OtherActs(w) \/ OperatorResolves(w)

OrchestrationNext ==
    \/ LoopStep
    \/ \E w \in WPs : TaskStep(w) \/ AgentStep(w)
    \/ Environment

OrchestrationSpec == OrchestrationInit /\ [][OrchestrationNext]_vars

(* The loop always gets its turn: a task that holds the event loop soon    *)
(* awaits. The awaits of the tasks are served in turn (asyncio's ready     *)
(* queue is first-in first-out) although the loop takes it in between. An  *)
(* agent works until it exits or its timeout ends it.                      *)
Fairness ==
    /\ WF_vars(LoopStep)
    /\ \A w \in WPs : SF_vars(TaskStep(w)) /\ WF_vars(AgentStep(w))

FairSpec == OrchestrationSpec /\ Fairness
-----------------------------------------------------------------------------
(* Properties                                                              *)

HostTypeOK == lane \in [WPs -> Lanes] /\ owner \in [WPs -> Actors]

WorktreeTypeOK ==
    /\ commits \in [WPs -> CommitStates]
    /\ tree \in [WPs -> {"todo", "edited", "clean"}]
    /\ ahead \in [WPs -> BOOLEAN]

RunStateTypeOK == mem \in [WPs -> WPExecution] /\ disk \in [WPs -> WPExecution]

LoopTypeOK ==
    /\ phase \in Phases /\ command \in Commands
    /\ ready \subseteq WPs /\ todo \subseteq WPs /\ parked \subseteq WPs
    /\ streak \in 0..LoopDeadlockThreshold
    /\ driven \subseteq WPs

TaskTypeOK ==
    /\ active \subseteq WPs /\ slots \in Nat
    /\ pc \in [WPs -> PCs]
    /\ stray \subseteq WPs \X AgentPCs

BoundsTypeOK == faults \in Nat /\ starts \in Nat /\ kills \in Nat /\ moves \in Nat

(* Every variable has its type; so an agent is never retried more than     *)
(* max_retries times in a row (monitor.py: should_retry), and a dispatch   *)
(* never finds the semaphore exhausted and waits (scheduler.py: acquire).  *)
TypeOK == /\ HostTypeOK /\ WorktreeTypeOK /\ RunStateTypeOK
          /\ LoopTypeOK /\ TaskTypeOK     /\ BoundsTypeOK

(* A concurrency slot is neither leaked nor released twice, however tasks  *)
(* end: the free slots and the WPs marked active make up                   *)
(* max_concurrent_wps, and the WPs marked active are those with a task.    *)
SlotsConserved ==
    /\ active = {w \in WPs : pc[w] # "idle"}
    /\ slots + Cardinality(active) = Config[command].max_concurrent

(* A lane WP the orchestrator made done has commits, and all of them were  *)
(* there when the review that approved it was opened: nothing committed by *)
(* a retry, a fallback agent, a rework or a resumed run slips past review. *)
DoneIsReviewed ==
    \A w \in LaneWPs : lane[w] = "done" /\ owner[w] = "self" => commits[w] = "offered"

(* Once a process has started to poll, a review in this actor's name that  *)
(* it has not opened itself is back in the queue (recovery leaves none).   *)
NoReviewForgotten ==
    phase \in {"poll", "read", "schedule", "sleep"} =>
        \A w \in WPs : lane[w] = "in_review" /\ owner[w] = "self" => w \in driven

(* Review retries survive a crash and still end: across resumes the limit  *)
(* is passed by at most one rejection per process.                         *)
ReviewCyclesBounded ==
    \A w \in WPs : mem[w].review_retries <= MaxRetries + starts

(* The loop neither completes nor stalls while a task is in flight: no     *)
(* agent's work is thrown away by an orderly end.                          *)
LoopEndsIdle ==
    [][phase' \in {"complete", "stalled"} /\ phase' # phase =>
          \A w \in WPs : pc[w] = "idle"]_vars

(* The loop neither completes nor gives up while there is a WP to drive: an *)
(* undriven one in a lane it can resume, or planned with every dependency  *)
(* done by this actor. (Done by others, it may be missed: list-ready is    *)
(* asked before mission-state.)                                            *)
EndsOnlyWithoutWork ==
    [][phase' \in {"complete", "stalled"} /\ phase' # phase =>
          \A w \in WPs \ driven :
             /\ lane[w] \notin RESUMABLE_LANES
             /\ lane[w] = "planned" =>
                  \E d \in Deps[w] : lane[d] # "done" \/ owner[d] = "other"]_vars

(* Within a run (until orchestrate starts a new one) the state file never  *)
(* forgets an agent that was struck off or a rejected review, whatever     *)
(* crashes, resumes and the saves of other tasks come in between.          *)
RunStateNeverForgets ==
    [][~(command' = "orchestrate" /\ starts' # starts) =>
       \A w \in WPs :
          /\ disk[w].fallback_agents_tried \subseteq disk'[w].fallback_agents_tried
          /\ disk[w].review_retries <= disk'[w].review_retries]_vars

(* The DeadlockError report names a cause for every WP this process drove  *)
(* and could not finish.                                                   *)
StallExplained ==
    [][phase' = "stalled" /\ phase' # phase =>
          \A w \in driven : lane[w] \notin TerminalLanes => mem[w].last_error]_vars

(* Unless a host call or a process failed on the way, or no reviewer is    *)
(* configured: then a driver may end without recording anything (see       *)
(* StallExplained).                                                        *)
StallExplainedBarFaults ==
    [][(/\ phase' = "stalled" /\ phase' # phase
        /\ faults = 0 /\ starts = 1 /\ Config[command].has_reviewer) =>
          \A w \in driven : lane[w] \notin TerminalLanes => mem[w].last_error]_vars

(* A mission whose agents do their work, whose reviews approve and whose   *)
(* host never fails does not end in a DeadlockError.                       *)
NeverStalls == phase # "stalled"

(* Every process ends.                                                     *)
Termination == phase \notin Stopped ~> phase \in Stopped

(* A WP the loop would schedule, but for which every agent is struck off.  *)
Starved ==
    \E w \in select_schedulable_wp_ids(ReadyWPs, lane, active, driven) : NoAgent(w)

(* Every process ends, unless from some moment on there always is a WP to  *)
(* schedule with no agent left to try.                                     *)
TerminatesUnlessStarved == phase \notin Stopped ~> phase \in Stopped \/ []Starved

(* Once started, a mission whose agents do their work, whose reviews       *)
(* approve and whose host never fails has every WP done, provided nobody   *)
(* else holds one: whatever lanes an earlier run left.                     *)
AllDone ==
    (starts > 0 /\ \A w \in WPs : lane[w] \in {"planned", "for_review"} \/ owner[w] = "self")
        ~> \A w \in WPs : lane[w] = "done"

(* The orchestrator does what WPLifecycle promises.                        *)
RefinesLifecycle == Spec
=============================================================================
