-------------------------- MODULE LifecycleProofs --------------------------
(***************************************************************************)
(* The orchestrator implements WPLifecycle, for every mission,             *)
(* configuration and bound, provided that no agent outlives the            *)
(* orchestrator that started it.                                           *)
(***************************************************************************)
EXTENDS ReviewProofs

InOurReview(w) == lane[w] = "in_review" /\ owner[w] = "self"

DepsDone(w) == \A d \in Deps[w] : lane[d] = "done"

(* The WPs this pass may still dispatch.                                   *)
Queue == IF phase = "schedule" THEN ready \cup todo ELSE ready

(* A WP waiting to be dispatched is not in our review, and if it has not   *)
(* been started it may be.                                                 *)
QueueInv == \A w \in Queue : /\ ~InOurReview(w)
                             /\ lane[w] = "planned" => DepsDone(w)

(* While a WP is in our review no agent of ours implements it.             *)
TaskInv ==
    \A w \in WPs : InOurReview(w) => pc[w] \in {"idle", "reviewing", "verdict", "finish"}

LifecycleInv == ReviewInv /\ QueueInv /\ TaskInv

-----------------------------------------------------------------------------
(* Every step of the orchestrator is a step of the life cycle, or none.    *)

Simulates == [Next]_lifecycleVars

LEMMA RequestSimulates ==
    ASSUME NEW w \in WPs, NEW to, NEW next, Request(w, to, next), UNCHANGED worktree,
           \/ to = "for_review" /\ HasCommits(w)
           \/ to = "done" /\ (w \in LaneWPs => commits[w] = "offered")
           \/ to \in {"in_progress", "blocked"}
    PROVE  Simulates
<1> USE DEF worktree, Simulates
<1>1. CASE Rejected(w, to)
  BY <1>1 DEF Rejected, host, lifecycleVars
<1>2. CASE Legal(w, to) /\ Move(w, to, "self")
  <2>1. CASE to = "for_review"
    <3>1. Submit(w)
      BY <1>2, <2>1 DEF Legal, LaneEdges, Submit, HasCommits
    <3> QED
      BY <3>1 DEF Next
  <2>2. CASE to = "done"
    <3>1. Approve(w)
      BY <1>2, <2>2 DEF Legal, LaneEdges, Approve
    <3> QED
      BY <3>1 DEF Next
  <2>3. CASE to = "in_progress"
    <3>1. ReturnToWork(w)
      BY <1>2, <2>3 DEF Legal, LaneEdges, ReturnToWork
    <3> QED
      BY <3>1 DEF Next
  <2>4. CASE to = "blocked"
    <3>1. Block(w)
      BY <1>2, <2>4 DEF Legal, LaneEdges, Block
    <3> QED
      BY <3>1 DEF Next
  <2> QED
    BY <2>1, <2>2, <2>3, <2>4
<1> QED
  BY <1>1, <1>2 DEF Request, Accepted, Lost

(* Commits appear only while an agent of ours may make them.               *)
LEMMA ProduceSimulates ==
    ASSUME LifecycleInv, NEW w \in WPs, pc[w] \in {"implementing", "reworking"},
           UNCHANGED <<lane, owner>>,
           UNCHANGED commits \/ commits' = [commits EXCEPT ![w] = "new"]
    PROVE  Simulates
<1>1. ~(lane[w] \in {"in_review", "done"} /\ owner[w] = "self")
  BY DEF LifecycleInv, TaskInv, InOurReview, ReviewInv, WPInv
<1>2. CASE UNCHANGED commits
  BY <1>2 DEF Simulates, lifecycleVars
<1>3. CASE commits' = [commits EXCEPT ![w] = "new"]
  <2>1. Produce(w)
    BY <1>1, <1>3 DEF Produce
  <2> QED
    BY <2>1 DEF Simulates, Next
<1> QED
  BY <1>2, <1>3

LEMMA TaskSimulates ==
    ASSUME LifecycleInv, NEW w \in WPs, TaskStep(w)
    PROVE  Simulates
<1> USE DEF host, worktree
<1>1. WPInv(w) /\ commits \in [WPs -> CommitStates]
  BY DEF LifecycleInv, ReviewInv, TypeOK, WorktreeTypeOK
<1>2. CASE UNCHANGED <<lane, owner, commits>>
  BY <1>2 DEF Simulates, lifecycleVars
<1>3. CASE ImplementationCommitted(w) \/ ReworkCommitted(w)
  <2>1. UNCHANGED commits \/ commits' = [commits EXCEPT ![w] = "new"]
    BY <1>1, <1>3 DEF ImplementationCommitted, ReworkCommitted, GatePasses
  <2> QED
    BY <1>3, <2>1, ProduceSimulates DEF ImplementationCommitted, ReworkCommitted
<1>4. CASE ImplementationRefused(w) \/ ReworkFails(w)
  BY <1>4, ProduceSimulates DEF ImplementationRefused, ReworkFails, GateRefuses
<1>5. CASE BlockExhausted(w)
  <2>1. CASE Rejected(w, "blocked")
    BY <1>5, <2>1, <1>2 DEF BlockExhausted, Rejected
  <2>2. CASE Legal(w, "blocked") /\ Move(w, "blocked", "self")
    <3>1. Block(w)
      BY <1>5, <2>2 DEF BlockExhausted, Legal, LaneEdges, Block
    <3> QED
      BY <3>1 DEF Simulates, Next
  <2> QED
    BY <1>5, <2>1, <2>2 DEF BlockExhausted, Accepted, Lost
<1>6. CASE SubmitForReview(w) \/ ReviewApproves(w) \/ ActOnRejection(w) \/ BlockRework(w)
  BY <1>1, <1>6, RequestSimulates
  DEF SubmitForReview, ReviewApproves, ActOnRejection, BlockRework, WPInv
<1>7. CASE StartReview(w)
  <2>1. CASE lane[w] = "for_review" /\ Move(w, "in_review", "self") /\ Offer(w)
    <3>1. OpenReview(w)
      BY <2>1 DEF OpenReview, Offer
    <3> QED
      BY <3>1 DEF Simulates, Next
  <2>2. CASE lane[w] = "for_review" /\ Move(w, "in_progress", "self") /\ UNCHANGED commits
    <3>1. ReturnToWork(w)
      BY <2>2 DEF ReturnToWork
    <3> QED
      BY <3>1 DEF Simulates, Next
  <2> QED
    BY <1>2, <1>7, <2>1, <2>2 DEF StartReview
<1>8. CASE \/ Begin(w) \/ RecordRefusal(w) \/ RetryImplementation(w) \/ StrikeAgent(w)
           \/ RetryDue(w) \/ NoReviewer(w)
  BY <1>2, <1>8 DEF Begin, RecordRefusal, RetryImplementation, StrikeAgent, RetryDue,
     NoReviewer
<1>9. CASE ReviewRejects(w) \/ Finish(w) \/ TaskRaises(w)
  BY <1>2, <1>9 DEF ReviewRejects, Finish, TaskRaises
<1> QED
  BY <1>3, <1>4, <1>5, <1>6, <1>7, <1>8, <1>9 DEF TaskStep

LEMMA LoopSimulates ==
    ASSUME LifecycleInv, LoopStep
    PROVE  Simulates
<1> USE DEF host, worktree
<1>1. CASE UNCHANGED <<lane, owner, commits>>
  BY <1>1 DEF Simulates, lifecycleVars
<1>2. ASSUME NEW w \in WPs, w \in todo, phase = "recover", lane[w] \notin TerminalLanes,
             Move(w, "for_review", "self"), UNCHANGED commits
      PROVE  Simulates
  <2>1. Requeue(w)
    BY <1>2 DEF LifecycleInv, ReviewInv, TodoInv, HasCommits, Requeue
  <2> QED
    BY <2>1 DEF Simulates, Next
<1>3. ASSUME NEW w \in WPs, Scheduling(w), Startable(w),
             NEW to \in {"claimed", "in_progress"}, Move(w, to, "self")
      PROVE  Simulates
  <2>1. lane[w] = "planned" => \A d \in Deps[w] : lane[d] = "done"
    BY <1>3 DEF Scheduling, LifecycleInv, QueueInv, Queue, DepsDone
  <2>2. Start(w)
    BY <1>3, <2>1 DEF Start, Startable, Scheduling
  <2> QED
    BY <2>2 DEF Simulates, Next
<1>4. CASE ReadOrphans \/ RecoveryEnds \/ ListReady \/ HasWork \/ Completes \/ EmptyPoll
           \/ Stalls \/ EndSchedule
  BY <1>1, <1>4 DEF ReadOrphans, RecoveryEnds, ListReady, HasWork, Completes, EmptyPoll,
     Stalls, EndSchedule, LoopFrame
<1>5. ASSUME NEW w \in WPs, RecoverReview(w) \/ RecoveryFails(w) PROVE Simulates
  BY <1>1, <1>2, <1>5 DEF RecoverReview, RecoveryFails, LoopFrame
<1>6. ASSUME NEW w \in WPs, SkipNoAgent(w) \/ AdoptReview(w) PROVE Simulates
  BY <1>1, <1>6 DEF SkipNoAgent, AdoptReview, Scheduling
<1>7. ASSUME NEW w \in WPs, StartImplementation(w) PROVE Simulates
  BY <1>3, <1>7 DEF StartImplementation
<1>8. ASSUME NEW w \in WPs, Quarantine(w) PROVE Simulates
  <2>1. CASE UNCHANGED host
    BY <1>1, <1>8, <2>1 DEF Quarantine, Scheduling
  <2>2. CASE Startable(w) /\ \E to \in {"claimed", "in_progress"} : Move(w, to, "self")
    BY <1>3, <1>8, <2>2 DEF Quarantine
  <2> QED
    BY <1>8, <2>1, <2>2 DEF Quarantine
<1> QED
  BY <1>4, <1>5, <1>6, <1>7, <1>8 DEF LoopStep

LEMMA StepSimulates == LifecycleInv /\ [OrchestrationNext]_vars => Simulates
<1> SUFFICES ASSUME LifecycleInv, [OrchestrationNext]_vars PROVE Simulates
  OBVIOUS
<1> USE DEF host, worktree
<1>1. CASE UNCHANGED <<lane, owner, commits>>
  BY <1>1 DEF Simulates, lifecycleVars
<1>2. CASE UNCHANGED vars
  BY <1>1, <1>2 DEF vars
<1>3. ASSUME NEW w \in WPs, AgentStep(w) PROVE Simulates
  <2>1. pc[w] \in {"implementing", "reworking"} /\ UNCHANGED <<lane, owner>>
    BY <1>3 DEF AgentStep, AgentEdits, AgentCommits, AgentFrame, Implementing,
       LifecycleInv, ReviewInv
  <2> QED
    BY <1>3, <2>1, ProduceSimulates DEF AgentStep, AgentEdits, AgentCommits
<1>4. CASE Orchestrate \/ Resume \/ Kill \/ Interrupt \/ HostReadFails \/ StrayEnds
  BY <1>1, <1>4 DEF Orchestrate, Resume, StartProcess, Kill, Interrupt, HostReadFails,
     StrayEnds, AgentFrame
<1>5. ASSUME NEW w \in WPs, OtherActs(w) \/ OperatorResolves(w) PROVE Simulates
  <2> SUFFICES OtherMove(w)
    BY DEF Simulates, Next
  <2>1. CASE OtherActs(w)
    <3>1. PICK to \in {"in_progress", "in_review", "done", "canceled"} :
              /\ \/ <<lane[w], to>> \in OtherEdges
                 \/ to = "canceled" /\ lane[w] \notin TerminalLanes \cup {"none"}
              /\ Move(w, to, "other")
      BY <2>1, Zenon DEF OtherActs
    <3>2. CASE <<lane[w], to>> \in OtherEdges
      <4>1. to = "in_review" => lane[w] = "for_review"
        BY <3>2 DEF OtherEdges
      <4>2. to = "done" => lane[w] = "in_review"
        BY <3>2 DEF OtherEdges
      <4>3. lane[w] # "done"
        BY <3>2 DEF OtherEdges
      <4> QED
        BY <2>1, <3>1, <4>1, <4>2, <4>3 DEF OtherActs, OtherFrame, OtherMove, Lanes
    <3>3. CASE to = "canceled" /\ lane[w] \notin TerminalLanes \cup {"none"}
      BY <2>1, <3>1, <3>3 DEF OtherActs, OtherFrame, OtherMove, Lanes, TerminalLanes
    <3> QED
      BY <3>1, <3>2, <3>3
  <2>2. CASE OperatorResolves(w)
    BY <2>2 DEF OperatorResolves, OtherFrame, OtherMove, Lanes
  <2> QED
    BY <1>5, <2>1, <2>2
<1> QED
  BY <1>2, <1>3, <1>4, <1>5, LoopSimulates, TaskSimulates DEF OrchestrationNext, Environment

-----------------------------------------------------------------------------
(* The invariant                                                           *)

(* The life cycle never leaves done.                                       *)
LEMMA DoneStays ==
    ASSUME TypeOK, Simulates, NEW d, lane[d] = "done"
    PROVE  d \in WPs => lane'[d] = "done"
<1> SUFFICES ASSUME d \in WPs PROVE lane'[d] = "done"
  OBVIOUS
<1>1. lane \in [WPs -> Lanes]
  BY DEF TypeOK, HostTypeOK
<1>2. ASSUME NEW w \in WPs, NEW to, NEW actor, Move(w, to, actor), lane[w] # "done"
      PROVE  lane'[d] = "done"
  BY <1>1, <1>2 DEF Move
<1>3. CASE UNCHANGED lifecycleVars
  BY <1>3 DEF lifecycleVars
<1>4. ASSUME NEW w \in WPs,
             Start(w) \/ Submit(w) \/ OpenReview(w) \/ Approve(w) \/ ReturnToWork(w)
             \/ Requeue(w) \/ Block(w) \/ OtherMove(w)
      PROVE  lane'[d] = "done"
  BY <1>2, <1>4 DEF Start, Submit, OpenReview, Approve, ReturnToWork, Requeue, Block,
     OtherMove, TerminalLanes
<1>5. ASSUME NEW w \in WPs, Produce(w) PROVE lane'[d] = "done"
  BY <1>5 DEF Produce
<1> QED
  BY <1>3, <1>4, <1>5 DEF Simulates, Next

(* The queue keeps its promise when it does not grow and the step moves    *)
(* nothing into review or back to planned.                                 *)
LEMMA QueueStays ==
    ASSUME TypeOK, TypeOK', QueueInv, Simulates, Queue' \subseteq Queue, Queue \subseteq WPs,
           \A v \in Queue : /\ lane'[v] = "planned" => lane[v] = "planned"
                            /\ InOurReview(v)' => InOurReview(v)
    PROVE  QueueInv'
<1> SUFFICES ASSUME NEW v \in Queue'
             PROVE  ~InOurReview(v)' /\ (lane'[v] = "planned" => DepsDone(v)')
  BY DEF QueueInv
<1>1. v \in Queue /\ ~InOurReview(v)'
  BY DEF QueueInv
<1>2. ASSUME lane'[v] = "planned" PROVE DepsDone(v)'
  <2>1. DepsDone(v)
    BY <1>1, <1>2 DEF QueueInv
  <2>2. Deps[v] \subseteq WPs
    BY <1>1, DepsAssumption
  <2> QED
    BY <2>1, <2>2, DoneStays DEF DepsDone
<1> QED
  BY <1>1, <1>2

(* A move to any lane but these two is harmless to the queue.              *)
LEMMA MoveKeepsQueue ==
    ASSUME TypeOK, NEW w \in WPs, NEW to, NEW actor, Move(w, to, actor), to # "planned",
           to # "in_review" \/ actor # "self", NEW v \in WPs
    PROVE  /\ lane'[v] = "planned" => lane[v] = "planned"
           /\ InOurReview(v)' => InOurReview(v)
BY DEF Move, InOurReview, TypeOK, HostTypeOK

LEMMA QueueNext ==
    ASSUME LifecycleInv, TypeOK', [OrchestrationNext]_vars
    PROVE  QueueInv'
<1> USE DEF host
<1>0. /\ TypeOK /\ ReviewInv /\ QueueInv /\ Simulates /\ Queue \subseteq WPs
      /\ phase \notin {"read", "schedule"} => ready = {}
  BY StepSimulates DEF LifecycleInv, ReviewInv, Queue, TypeOK, LoopTypeOK, TodoInv
<1>1. CASE ready' = {} /\ phase' # "schedule"
  BY <1>1 DEF QueueInv, Queue
<1>2. CASE UNCHANGED <<lane, owner, phase, ready>> /\ todo' \subseteq todo
  <2>1. Queue' \subseteq Queue
    BY <1>2 DEF Queue
  <2> QED
    BY <1>0, <1>2, <2>1, QueueStays DEF InOurReview
<1>3. ASSUME NEW w \in WPs, TaskStep(w) PROVE QueueInv'
  <2>1. phase' = "sleep" /\ ready' = ready /\ ready = {}
    BY <1>0, <1>3, TaskAsleep, TaskShape DEF TaskFrame, loopState, ReviewInv
  <2> QED
    BY <1>1, <2>1
<1>4. CASE ListReady
  <2>1. /\ UNCHANGED <<lane, owner, todo>> /\ phase' = "read"
        /\ ready' = {v \in WPs : lane[v] = "planned" /\ DepsDone(v)}
    BY <1>4 DEF ListReady, ReadyWPs, DepsDone
  <2> QED
    BY <2>1 DEF QueueInv, Queue, InOurReview, DepsDone
<1>5. CASE HasWork
  <2>1. /\ UNCHANGED <<lane, owner, ready>> /\ phase = "read" /\ phase' = "schedule"
        /\ \A v \in todo' : v \in ready \/ lane[v] \in RESUMABLE_LANES
    BY <1>5 DEF HasWork, Schedulable, select_schedulable_wp_ids
  <2>2. \A v \in ready : ~InOurReview(v) /\ (lane[v] = "planned" => DepsDone(v))
    BY <1>0, <2>1 DEF QueueInv, Queue
  <2> QED
    BY <2>1, <2>2 DEF QueueInv, Queue, InOurReview, DepsDone, RESUMABLE_LANES
<1>6. CASE ReadOrphans \/ RecoveryEnds \/ EmptyPoll \/ EndSchedule
  BY <1>0, <1>1, <1>6 DEF ReadOrphans, RecoveryEnds, EmptyPoll, EndSchedule
<1>7. CASE Completes \/ Stalls \/ Kill \/ Interrupt \/ HostReadFails
           \/ \E w \in WPs : RecoveryFails(w)
  BY <1>1, <1>7 DEF Completes, Stalls, Kill, Interrupt, HostReadFails, RecoveryFails, Stop,
     AtRest
<1>8. CASE Orchestrate \/ Resume
  BY <1>1, <1>8 DEF Orchestrate, Resume, StartProcess, AtRest
<1>9. ASSUME NEW w \in WPs, RecoverReview(w) PROVE QueueInv'
  BY <1>0, <1>1, <1>9 DEF RecoverReview
<1>10. ASSUME NEW w \in WPs,
              SkipNoAgent(w) \/ AdoptReview(w) \/ StartImplementation(w) \/ Quarantine(w)
       PROVE  QueueInv'
  <2>1. UNCHANGED <<ready, phase>> /\ todo' \subseteq todo
    BY <1>10 DEF SkipNoAgent, AdoptReview, StartImplementation, Quarantine, Scheduling
  <2>2. CASE UNCHANGED host
    BY <1>2, <2>1, <2>2
  <2>3. ASSUME NEW to \in {"claimed", "in_progress"}, Move(w, to, "self") PROVE QueueInv'
    <3>1. Queue' \subseteq Queue
      BY <2>1 DEF Queue
    <3> QED
      BY <1>0, <2>3, <3>1, MoveKeepsQueue, QueueStays
  <2> QED
    BY <1>10, <2>2, <2>3 DEF SkipNoAgent, AdoptReview, StartImplementation, Quarantine
<1>11. CASE StrayEnds \/ \E w \in WPs : AgentStep(w)
  BY <1>2, <1>11 DEF StrayEnds, AgentStep, AgentEdits, AgentCommits, AgentFrame, loopState
<1>12. ASSUME NEW w \in WPs, OtherActs(w) PROVE QueueInv'
  <2>1. Queue' = Queue
    BY <1>12 DEF OtherActs, OtherFrame, loopState, Queue
  <2>2. PICK to \in {"in_progress", "in_review", "done", "canceled"} : Move(w, to, "other")
    BY <1>12 DEF OtherActs
  <2> QED
    BY <1>0, <2>1, <2>2, MoveKeepsQueue, QueueStays
<1>13. ASSUME NEW w \in WPs, OperatorResolves(w) PROVE QueueInv'
  BY <1>0, <1>1, <1>13 DEF OperatorResolves, OtherFrame, loopState, Stopped
<1>14. CASE UNCHANGED vars
  BY <1>2, <1>14 DEF vars, loopState
<1> QED
  BY <1>3, <1>4, <1>5, <1>6, <1>7, <1>8, <1>9, <1>10, <1>11, <1>12, <1>13, <1>14
  DEF OrchestrationNext, LoopStep, Environment

LEMMA TaskNext ==
    ASSUME LifecycleInv, TypeOK', [OrchestrationNext]_vars
    PROVE  TaskInv'
<1> USE DEF host
<1>0. /\ TypeOK /\ QueueInv /\ TaskInv
      /\ lane \in [WPs -> Lanes] /\ owner \in [WPs -> Actors] /\ pc \in [WPs -> PCs]
  BY DEF LifecycleInv, ReviewInv, TypeOK, HostTypeOK, TaskTypeOK
<1>1. CASE UNCHANGED <<lane, owner, pc>>
  BY <1>0, <1>1 DEF TaskInv, InOurReview
<1>2. CASE pc' = [w \in WPs |-> "idle"]
  BY <1>2 DEF TaskInv
<1>3. ASSUME NEW w \in WPs, NEW to, NEW actor, Move(w, to, actor),
             to # "in_review" \/ actor # "self", UNCHANGED pc
      PROVE  TaskInv'
  BY <1>0, <1>3 DEF TaskInv, InOurReview, Move
<1>4. ASSUME NEW w \in WPs, TaskStep(w) PROVE TaskInv'
  <2>1. ASSUME InOurReview(w)'
        PROVE  pc'[w] \in {"idle", "reviewing", "verdict", "finish"}
    <3>1. CASE UNCHANGED host /\ \/ Leave(w) \/ Continue(w, "finish")
                                 \/ ~InOurReview(w)
                                 \/ Continue(w, "verdict")
      BY <1>0, <2>1, <3>1 DEF InOurReview, Leave, Continue, GoTo
    <3>2. ASSUME NEW to, NEW next, Request(w, to, next), to # "in_review"
          PROVE  pc'[w] \in {"idle", "finish"}
      BY <1>0, <2>1, <3>2 DEF Request, Accepted, Rejected, Lost, Move, InOurReview, Leave,
         Continue, GoTo
    <3>3. CASE Begin(w) \/ ImplementationCommitted(w) \/ ImplementationRefused(w)
               \/ RecordRefusal(w) \/ RetryImplementation(w) \/ StrikeAgent(w) \/ RetryDue(w)
      BY <1>0, <3>1, <3>3
      DEF TaskInv, Begin, ImplementationCommitted, ImplementationRefused, RecordRefusal,
          RetryImplementation, StrikeAgent, RetryDue
    <3>4. CASE BlockExhausted(w)
      BY <1>0, <3>4 DEF BlockExhausted, Continue, GoTo
    <3>5. CASE SubmitForReview(w) \/ ReviewApproves(w) \/ ActOnRejection(w) \/ BlockRework(w)
      BY <3>2, <3>5 DEF SubmitForReview, ReviewApproves, ActOnRejection, BlockRework
    <3>6. CASE StartReview(w)
      BY <1>0, <3>6 DEF StartReview, Continue, Leave, GoTo
    <3>7. CASE NoReviewer(w) \/ ReviewRejects(w) \/ Finish(w) \/ TaskRaises(w)
      BY <3>1, <3>7 DEF NoReviewer, ReviewRejects, Finish, TaskRaises
    <3>8. CASE ReworkCommitted(w) \/ ReworkFails(w)
      BY <1>0, <3>1, <3>8 DEF TaskInv, ReworkCommitted, ReworkFails
    <3> QED
      BY <1>4, <3>3, <3>4, <3>5, <3>6, <3>7, <3>8 DEF TaskStep
  <2>2. ASSUME NEW v \in WPs \ {w} PROVE Untouched(v)
    BY <1>0, <1>4, TaskLocal
  <2> QED
    BY <1>0, <2>1, <2>2 DEF TaskInv, InOurReview, Untouched
<1>5. CASE ReadOrphans \/ RecoveryEnds \/ ListReady \/ HasWork \/ EmptyPoll \/ EndSchedule
  BY <1>1, <1>5 DEF ReadOrphans, RecoveryEnds, ListReady, HasWork, EmptyPoll, EndSchedule,
     LoopFrame
<1>6. CASE Completes \/ Stalls \/ Kill \/ Interrupt \/ HostReadFails
           \/ \E w \in WPs : RecoveryFails(w)
  BY <1>2, <1>6 DEF Completes, Stalls, Kill, Interrupt, HostReadFails, RecoveryFails, Stop,
     AtRest
<1>7. CASE Orchestrate \/ Resume
  BY <1>2, <1>7 DEF Orchestrate, Resume, StartProcess, AtRest
<1>8. ASSUME NEW w \in WPs, RecoverReview(w) PROVE TaskInv'
  BY <1>3, <1>8 DEF RecoverReview, LoopFrame
<1>9. ASSUME NEW w \in WPs, SkipNoAgent(w) \/ Quarantine(w) PROVE TaskInv'
  BY <1>1, <1>3, <1>9 DEF SkipNoAgent, Quarantine
<1>10. ASSUME NEW w \in WPs, AdoptReview(w) \/ StartImplementation(w) PROVE TaskInv'
  <2>1. ~InOurReview(w) /\ \E label : pc' = [pc EXCEPT ![w] = label]
    BY <1>0, <1>10 DEF AdoptReview, StartImplementation, Scheduling, QueueInv, Queue,
       Dispatch, GoTo
  <2>2. UNCHANGED <<lane, owner>> \/ Move(w, "in_progress", "self")
    BY <1>10 DEF AdoptReview, StartImplementation
  <2> QED
    BY <1>0, <2>1, <2>2 DEF TaskInv, InOurReview, Move
<1>11. CASE StrayEnds \/ \E w \in WPs : AgentStep(w)
  BY <1>1, <1>11 DEF StrayEnds, AgentStep, AgentEdits, AgentCommits, AgentFrame
<1>12. ASSUME NEW w \in WPs, OtherActs(w) \/ OperatorResolves(w) PROVE TaskInv'
  BY <1>3, <1>12 DEF OtherActs, OperatorResolves, OtherFrame
<1>13. CASE UNCHANGED vars
  BY <1>1, <1>13 DEF vars
<1> QED
  BY <1>4, <1>5, <1>6, <1>7, <1>8, <1>9, <1>10, <1>11, <1>12, <1>13
  DEF OrchestrationNext, LoopStep, Environment

LEMMA LifecycleInit == OrchestrationInit => Init /\ LifecycleInv
BY ReviewInit DEF OrchestrationInit, LifecycleInv, QueueInv, Queue, TaskInv

LEMMA LifecycleNext ==
    ASSUME KillReachesAgents
    PROVE  LifecycleInv /\ [OrchestrationNext]_vars => LifecycleInv' /\ Simulates
<1> SUFFICES ASSUME LifecycleInv, [OrchestrationNext]_vars
             PROVE  LifecycleInv' /\ Simulates
  OBVIOUS
<1>1. ReviewInv'
  BY ReviewNext DEF LifecycleInv
<1>2. TypeOK'
  BY <1>1 DEF ReviewInv
<1> QED
  BY <1>1, <1>2, QueueNext, TaskNext, StepSimulates DEF LifecycleInv

(* The orchestrator does what WPLifecycle promises: a WP starts only when  *)
(* its dependencies are done, is handed over only with output, becomes     *)
(* done only through a review of all its commits, and one that another     *)
(* identity has started is not started a second time (loop.py:             *)
(* run_orchestration_loop, execute_and_advance).                           *)
THEOREM ImplementsLifecycle ==
    ASSUME KillReachesAgents
    PROVE  OrchestrationSpec => RefinesLifecycle
<1>1. OrchestrationInit => Init /\ LifecycleInv
  BY LifecycleInit
<1>2. LifecycleInv /\ [OrchestrationNext]_vars => LifecycleInv' /\ [Next]_lifecycleVars
  BY LifecycleNext DEF Simulates
<1> QED
  BY <1>1, <1>2, PTL DEF OrchestrationSpec, RefinesLifecycle, Spec

-----------------------------------------------------------------------------
(* What the life cycle says of single steps holds of the program's.        *)

StartsInOrder(w) ==
    (/\ lane[w] = "planned" /\ lane'[w] \in {"claimed", "in_progress"}
     /\ owner'[w] = "self") => DepsDone(w)

SubmitsOutput(w) ==
    (/\ lane'[w] = "for_review" /\ lane[w] # "for_review"
     /\ owner'[w] = "self") => HasCommits(w)

StaysDone(w) == lane[w] = "done" => lane'[w] = "done" /\ owner'[w] = owner[w]

KeepsPromises == \A w \in WPs : StartsInOrder(w) /\ SubmitsOutput(w) /\ StaysDone(w)

LEMMA LifecyclePromises ==
    ASSUME TypeOK, [Next]_lifecycleVars
    PROVE  KeepsPromises
<1> USE DEF KeepsPromises, StartsInOrder, SubmitsOutput, StaysDone, HasCommits, DepsDone
<1>1. lane \in [WPs -> Lanes] /\ owner \in [WPs -> Actors]
  BY DEF TypeOK, HostTypeOK
<1>2. CASE UNCHANGED lifecycleVars
  BY <1>2 DEF lifecycleVars
<1>3. ASSUME NEW v \in WPs,
             \/ Start(v)   \/ Produce(v)      \/ Submit(v)  \/ OpenReview(v)
             \/ Approve(v) \/ ReturnToWork(v) \/ Requeue(v) \/ Block(v)
             \/ OtherMove(v)
      PROVE  KeepsPromises
  <2>1. CASE Start(v)
    BY <1>1, <2>1 DEF Start, Move
  <2>2. CASE Produce(v)
    BY <1>1, <2>2 DEF Produce
  <2>3. CASE Submit(v)
    BY <1>1, <2>3 DEF Submit, Move
  <2>4. CASE OpenReview(v) \/ Approve(v)
    BY <1>1, <2>4 DEF OpenReview, Approve, Move
  <2>5. CASE ReturnToWork(v) \/ Block(v)
    BY <1>1, <2>5 DEF ReturnToWork, Block, Move
  <2>6. CASE Requeue(v)
    BY <1>1, <2>6 DEF Requeue, Move, TerminalLanes
  <2>7. CASE OtherMove(v)
    BY <1>1, <2>7 DEF OtherMove, Move
  <2> QED
    BY <1>3, <2>1, <2>2, <2>3, <2>4, <2>5, <2>6, <2>7
<1> QED
  BY <1>2, <1>3 DEF Next

(* The orchestrator starts a planned WP only when every WP it depends on   *)
(* is done, and queues a lane WP for review, at the end of its work or     *)
(* recovering from a crash, only with commits on its branch. What is done  *)
(* stays done in the name of who made it so (loop.py: run_orchestration_   *)
(* loop, execute_and_advance; the last rests on the host's lane edges).    *)
THEOREM PromisesAreKept ==
    ASSUME KillReachesAgents
    PROVE  OrchestrationSpec => [][KeepsPromises]_lifecycleVars
<1>1. OrchestrationInit => LifecycleInv
  BY LifecycleInit
<1>2. LifecycleInv /\ [OrchestrationNext]_vars => LifecycleInv' /\ KeepsPromises
  BY LifecycleNext, LifecyclePromises DEF Simulates, LifecycleInv, ReviewInv
<1> QED
  BY <1>1, <1>2, PTL DEF OrchestrationSpec
=============================================================================
