---------------------------- MODULE ReviewProofs ----------------------------
(***************************************************************************)
(* The orchestrator makes nothing done that a reviewer has not seen, for   *)
(* every mission, configuration and bound, provided that no agent outlives *)
(* the orchestrator that started it (KillReachesAgents): an agent that     *)
(* does may commit behind the reviewer's back.                             *)
(***************************************************************************)
EXTENDS OrchestrationProofs

HasCommits(w) == w \in LaneWPs => commits[w] # "none"

(* The loop's lists are empty when they are not in use, never hold a WP    *)
(* this orchestrator made done, and a review is recovered only if there is *)
(* something to review.                                                    *)
TodoInv ==
    /\ phase \notin {"read", "schedule"} => ready = {}
    /\ phase \notin {"recover", "schedule"} => todo = {}
    /\ phase = "recover" => \A w \in todo : HasCommits(w)
    /\ \A w \in todo \cup ready : ~(lane[w] = "done" /\ owner[w] = "self")

(* Where a WP stands in review, in its lane, in its task and on its branch. *)
WPInv(w) ==
    /\ lane[w] \in {"for_review", "in_review"} => HasCommits(w)
    /\ pc[w] = "submit" \/ ahead[w] => HasCommits(w)
    /\ w \in LaneWPs /\ pc[w] \in {"reviewing", "verdict"} => commits[w] = "offered"
    /\ lane[w] = "done" /\ owner[w] = "self" =>
           /\ pc[w] \in {"idle", "finish"}
           /\ w \in LaneWPs => commits[w] = "offered"

ReviewInv ==
    /\ TypeOK
    /\ stray = {}
    /\ HeldOnlyAsleep
    /\ TodoInv
    /\ \A w \in WPs : WPInv(w)

-----------------------------------------------------------------------------
(* Tasks                                                                   *)

LEMMA UntouchedWP ==
    ASSUME NEW v \in WPs, WPInv(v), Untouched(v)
    PROVE  WPInv(v)'
BY DEF WPInv, Untouched, HasCommits

(* The gate lets a task through only with output on the branch.            *)
LEMMA GateReview ==
    ASSUME TypeOK, NEW w \in WPs, WPInv(w), GatePasses(w), Continue(w, "submit"),
           pc[w] \in {"implementing", "reworking"}, UNCHANGED host
    PROVE  WPInv(w)'
<1>1. HasCommits(w)'
  BY DEF GatePasses, HasOutput, HasCommits, WPInv, TypeOK, WorktreeTypeOK, worktree
<1>2. pc'[w] = "submit" /\ lane'[w] = lane[w] /\ owner'[w] = owner[w]
  BY DEF Continue, GoTo, host, TypeOK, TaskTypeOK
<1> QED
  BY <1>1, <1>2 DEF WPInv

(* A transition keeps the branch; what it asks of the WP's new lane and of *)
(* the task's new place is what the invariant says of them.                *)
LEMMA RequestReview ==
    ASSUME TypeOK, NEW w \in WPs, WPInv(w), NEW to \in Lanes, NEW next \in PCs,
           Request(w, to, next), UNCHANGED worktree,
           ~(lane[w] = "done" /\ owner[w] = "self"),
           to \in {"for_review", "in_review"} => HasCommits(w),
           next # "submit",
           next \in {"reviewing", "verdict"} /\ w \in LaneWPs => commits[w] = "offered",
           to = "done" => next = "finish" /\ (w \in LaneWPs => commits[w] = "offered")
    PROVE  WPInv(w)'
<1>1. UNCHANGED <<commits, ahead>>
  BY DEF worktree
<1>2. CASE Accepted(w, to) /\ Continue(w, next)
  <2>1. lane'[w] = to /\ pc'[w] = next
    BY <1>2 DEF Accepted, Move, Continue, GoTo, TypeOK, HostTypeOK, TaskTypeOK
  <2> QED
    BY <1>1, <2>1 DEF WPInv, HasCommits
<1>3. CASE Rejected(w, to) /\ Continue(w, "finish")
  <2>1. UNCHANGED <<lane, owner>> /\ pc'[w] = "finish"
    BY <1>3 DEF Rejected, host, Continue, GoTo, TypeOK, TaskTypeOK
  <2> QED
    BY <1>1, <2>1 DEF WPInv, HasCommits
<1>4. CASE Lost(w, to) /\ Leave(w)
  <2>1. lane'[w] = to /\ pc'[w] = "idle"
    BY <1>4 DEF Lost, Move, Leave, GoTo, TypeOK, HostTypeOK, TaskTypeOK
  <2> QED
    BY <1>1, <2>1 DEF WPInv, HasCommits
<1> QED
  BY <1>2, <1>3, <1>4 DEF Request

(* A task that changes neither lane nor commits, and goes on to a place of *)
(* which the invariant asks no more than of the place it leaves.           *)
LEMMA StepReview ==
    ASSUME NEW w \in WPs, WPInv(w), UNCHANGED <<lane, owner, commits>>,
           ahead'[w] => ahead[w],
           \/ pc'[w] \in {"idle", "finish"}
           \/ /\ pc[w] \notin {"idle", "finish"}
              /\ pc'[w] # "submit"
              /\ pc'[w] \in {"reviewing", "verdict"} => pc[w] \in {"reviewing", "verdict"}
    PROVE  WPInv(w)'
BY DEF WPInv, HasCommits

LEMMA TaskReview ==
    ASSUME ReviewInv, NEW w \in WPs, TaskStep(w)
    PROVE  WPInv(w)'
<1> USE DEF ReviewInv
<1>1. pc \in [WPs -> PCs] /\ ahead \in [WPs -> BOOLEAN] /\ WPInv(w)
  BY DEF TypeOK, TaskTypeOK, WorktreeTypeOK
<1>2. pc[w] # "idle"
  BY TaskShape
<1>3. pc[w] # "finish" => ~(lane[w] = "done" /\ owner[w] = "self")
  BY <1>1, <1>2 DEF WPInv
<1>4. CASE Begin(w)
  BY <1>1, <1>4, StepReview DEF Begin, Continue, GoTo, host
<1>5. CASE ImplementationCommitted(w) \/ ReworkCommitted(w)
  BY <1>1, <1>5, GateReview DEF ImplementationCommitted, ReworkCommitted
<1>6. CASE ImplementationRefused(w) \/ ReworkFails(w)
  <2>1. pc'[w] \in {"gate_failed", "rework_failed"} /\ UNCHANGED <<lane, owner>>
    BY <1>1, <1>6 DEF ImplementationRefused, ReworkFails, Continue, GoTo, host
  <2>2. pc[w] \in {"implementing", "reworking"}
    BY <1>6 DEF ImplementationRefused, ReworkFails
  <2>3. CASE UNCHANGED worktree
    BY <1>1, <2>1, <2>2, <2>3, StepReview DEF worktree
  <2>4. CASE commits' = [commits EXCEPT ![w] = "new"]
    BY <1>1, <1>3, <2>1, <2>2, <2>4 DEF WPInv, HasCommits, TypeOK, WorktreeTypeOK
  <2> QED
    BY <1>6, <2>3, <2>4 DEF ImplementationRefused, ReworkFails, GateRefuses
<1>7. CASE RecordRefusal(w) \/ RetryImplementation(w) \/ RetryDue(w)
  BY <1>1, <1>7, StepReview
  DEF RecordRefusal, RetryImplementation, RetryDue, Continue, GoTo, host, worktree
<1>8. CASE StrikeAgent(w)
  <2>1. UNCHANGED <<lane, owner, commits, ahead>> /\ pc[w] = "implementing"
    BY <1>8 DEF StrikeAgent, host, worktree
  <2>2. Continue(w, "implementing") \/ Continue(w, "exhausted")
    BY <1>8 DEF StrikeAgent
  <2>3. pc'[w] \in {"implementing", "exhausted"}
    BY <1>1, <2>2 DEF Continue, GoTo
  <2> QED
    BY <1>1, <2>1, <2>3, StepReview
<1>9. CASE BlockExhausted(w)
  <2>1. pc'[w] = "finish" /\ UNCHANGED <<commits, ahead>>
    BY <1>1, <1>9 DEF BlockExhausted, Continue, GoTo, worktree
  <2>2. UNCHANGED <<lane, owner>> \/ lane'[w] = "blocked"
    BY <1>9 DEF BlockExhausted, Accepted, Rejected, Lost, Move, host, TypeOK, HostTypeOK
  <2> QED
    BY <1>1, <2>1, <2>2 DEF WPInv, HasCommits
<1>10. CASE SubmitForReview(w)
  BY <1>1, <1>3, <1>10, RequestReview DEF SubmitForReview, WPInv, Lanes, PCs, HoldingPCs
<1>11. CASE NoReviewer(w)
  BY <1>1, <1>11, StepReview DEF NoReviewer, Leave, GoTo, host, worktree
<1>12. CASE StartReview(w)
  <2>1. CASE Offer(w) /\ lane[w] = "for_review"
             /\ pc'[w] \in {"reviewing", "idle"} /\ lane'[w] = "in_review"
    <3>1. HasCommits(w)
      BY <1>1, <2>1 DEF WPInv
    <3>2. w \in LaneWPs => commits'[w] = "offered"
      BY <2>1, <3>1 DEF Offer, HasCommits, TypeOK, WorktreeTypeOK
    <3> QED
      BY <2>1, <3>2 DEF WPInv, HasCommits
  <2>2. CASE UNCHANGED <<commits, ahead>> /\ pc'[w] = "finish"
             /\ (UNCHANGED host \/ lane'[w] = "in_progress")
    BY <1>1, <2>2 DEF WPInv, HasCommits, host
  <2> QED
    BY <1>1, <1>12, <2>1, <2>2
    DEF StartReview, Continue, Leave, GoTo, Move, TypeOK, HostTypeOK
<1>13. CASE ReviewApproves(w)
  BY <1>1, <1>3, <1>13, RequestReview DEF ReviewApproves, WPInv, Lanes, PCs, HoldingPCs
<1>14. CASE ReviewRejects(w)
  BY <1>1, <1>14, StepReview DEF ReviewRejects, Continue, GoTo, host
<1>15. CASE ActOnRejection(w)
  BY <1>1, <1>3, <1>15, RequestReview
  DEF ActOnRejection, WPInv, Lanes, PCs, AwaitPCs, AgentPCs, HoldingPCs
<1>16. CASE BlockRework(w)
  BY <1>1, <1>3, <1>16, RequestReview DEF BlockRework, Lanes, PCs, HoldingPCs
<1>17. CASE Finish(w) \/ TaskRaises(w)
  BY <1>1, <1>17, StepReview DEF Finish, TaskRaises, Leave, GoTo, host, worktree
<1> QED
  BY <1>4, <1>5, <1>6, <1>7, <1>8, <1>9, <1>10, <1>11, <1>12, <1>13, <1>14,
     <1>15, <1>16, <1>17 DEF TaskStep

LEMMA TaskKeepsReviewInv ==
    ASSUME ReviewInv, TypeOK', NEW w \in WPs, TaskStep(w)
    PROVE  ReviewInv'
<1> USE DEF ReviewInv
<1>1. phase = "sleep" /\ UNCHANGED <<phase, ready, todo, stray>>
  BY TaskAsleep, TaskShape DEF TaskFrame, loopState
<1>2. HeldOnlyAsleep' /\ TodoInv'
  BY <1>1 DEF HeldOnlyAsleep, TodoInv
<1>3. \A v \in WPs : WPInv(v)'
  BY TaskReview, TaskLocal, UntouchedWP
<1> QED
  BY <1>1, <1>2, <1>3

-----------------------------------------------------------------------------
(* The loop                                                                *)

(* A step of the loop or of a process that moves no WP leaves each WP as   *)
(* it was, or finds its task gone.                                         *)
LEMMA QuietReview ==
    ASSUME NEW v \in WPs, WPInv(v), UNCHANGED <<lane, owner, commits, ahead>>,
           pc'[v] = pc[v] \/ pc'[v] = "idle"
    PROVE  WPInv(v)'
BY DEF WPInv, HasCommits

LEMMA RestReview ==
    ASSUME ReviewInv, TypeOK', AtRest, UNCHANGED <<lane, owner, commits, ahead>>,
           stray' = {}
    PROVE  ReviewInv'
<1> USE DEF ReviewInv
<1>1. pc' = [w \in WPs |-> "idle"] /\ ready' = {} /\ todo' = {}
  BY DEF AtRest
<1>2. HeldOnlyAsleep' /\ TodoInv'
  BY <1>1 DEF HeldOnlyAsleep, Holding, HoldingPCs, TodoInv
<1>3. \A v \in WPs : WPInv(v)'
  BY <1>1, QuietReview
<1> QED
  BY <1>2, <1>3

(* A step that moves one WP, and touches no task.                          *)
LEMMA MoveReview ==
    ASSUME TypeOK, NEW w \in WPs, \A v \in WPs : WPInv(v), NEW to, NEW actor,
           Move(w, to, actor), UNCHANGED <<commits, ahead, pc>>,
           to \in {"for_review", "in_review"} => HasCommits(w),
           to # "done" \/ actor # "self"
    PROVE  \A v \in WPs : WPInv(v)'
<1>1. lane'[w] = to /\ owner'[w] = actor
  BY DEF Move, TypeOK, HostTypeOK
<1>2. WPInv(w)'
  BY <1>1 DEF WPInv, HasCommits
<1>3. ASSUME NEW v \in WPs \ {w} PROVE Untouched(v)
  BY <1>3 DEF Move, Untouched, TypeOK, HostTypeOK
<1> QED
  BY <1>2, <1>3, UntouchedWP

(* No move of ours but an approval makes a WP done.                        *)
LEMMA MoveKeepsTodo ==
    ASSUME TypeOK, NEW w \in WPs, NEW to, NEW actor, Move(w, to, actor),
           to # "done" \/ actor # "self",
           NEW v \in WPs, ~(lane[v] = "done" /\ owner[v] = "self")
    PROVE  ~(lane'[v] = "done" /\ owner'[v] = "self")
BY DEF Move, TypeOK, HostTypeOK

LEMMA LoopKeepsReviewInv ==
    ASSUME ReviewInv, TypeOK', LoopStep
    PROVE  ReviewInv'
<1> USE DEF ReviewInv
<1>0. /\ todo \subseteq WPs /\ ready \subseteq WPs /\ pc \in [WPs -> PCs]
      /\ lane \in [WPs -> Lanes]
  BY DEF TypeOK, HostTypeOK, LoopTypeOK, TaskTypeOK
<1>1. CASE ReadOrphans
  <2>1. UNCHANGED <<lane, owner, commits, ahead, pc, stray, ready>> /\ phase = "start"
    BY <1>1 DEF ReadOrphans, LoopFrame, host, worktree
  <2>2. \A v \in WPs : WPInv(v)'
    BY <2>1, QuietReview
  <2>3. TodoInv'
    BY <1>1, <2>1 DEF ReadOrphans, OrphanedReviews, TodoInv, WPInv, HasCommits
  <2>4. HeldOnlyAsleep'
    BY <2>1 DEF HeldOnlyAsleep, Holding
  <2> QED
    BY <2>1, <2>2, <2>3, <2>4
<1>2. CASE RecoveryEnds \/ ListReady \/ HasWork \/ EmptyPoll \/ EndSchedule
  <2>1. UNCHANGED <<lane, owner, commits, ahead, pc, stray>>
    BY <1>2 DEF RecoveryEnds, ListReady, HasWork, EmptyPoll, EndSchedule, LoopFrame,
       host, worktree
  <2>2. \A v \in WPs : WPInv(v)'
    BY <2>1, QuietReview
  <2>3. TodoInv'
    <3>1. CASE RecoveryEnds \/ EmptyPoll \/ EndSchedule
      BY <2>1, <3>1 DEF RecoveryEnds, EmptyPoll, EndSchedule, TodoInv
    <3>2. CASE ListReady
      <4>1. phase' = "read" /\ todo' = todo /\ phase \notin {"recover", "schedule"}
        BY <3>2 DEF ListReady, CanResume
      <4>2. ready' = {v \in WPs : lane[v] = "planned" /\ \A d \in Deps[v] : lane[d] = "done"}
        BY <3>2 DEF ListReady, ReadyWPs
      <4> QED
        BY <2>1, <4>1, <4>2 DEF TodoInv
    <3>3. CASE HasWork
      <4>1. /\ phase' = "schedule" /\ ready' = ready
            /\ \A v \in todo' : v \in ready \/ lane[v] \in RESUMABLE_LANES
        BY <3>3 DEF HasWork, Schedulable, select_schedulable_wp_ids
      <4> QED
        BY <2>1, <4>1 DEF TodoInv, RESUMABLE_LANES
    <3> QED
      BY <1>2, <3>1, <3>2, <3>3
  <2>4. HeldOnlyAsleep'
    BY <1>2, <2>1 DEF HeldOnlyAsleep, Holding, RecoveryEnds, ListReady, HasWork,
       EmptyPoll, EndSchedule, CanResume
  <2> QED
    BY <2>1, <2>2, <2>3, <2>4
<1>3. CASE Completes \/ Stalls
  BY <1>3, RestReview DEF Completes, Stalls, Stop, host, worktree
<1>4. ASSUME NEW w \in WPs, RecoverReview(w) PROVE ReviewInv'
  <2>1. /\ w \in todo /\ phase = "recover" /\ phase' = phase
        /\ todo' = todo \ {w} /\ ready' = ready
        /\ Move(w, "for_review", "self")
        /\ UNCHANGED <<commits, ahead, pc, stray>>
    BY <1>4 DEF RecoverReview, LoopFrame, worktree
  <2>2. HasCommits(w)
    BY <2>1 DEF TodoInv
  <2>3. \A v \in WPs : WPInv(v)'
    BY <2>1, <2>2, MoveReview
  <2>4. TodoInv'
    BY <1>0, <2>1, MoveKeepsTodo DEF TodoInv, HasCommits
  <2>5. HeldOnlyAsleep'
    BY <2>1 DEF HeldOnlyAsleep, Holding
  <2> QED
    BY <2>1, <2>3, <2>4, <2>5
<1>5. ASSUME NEW w \in WPs, RecoveryFails(w) PROVE ReviewInv'
  <2>1. /\ w \in todo /\ phase = "recover" /\ phase' = "failed"
        /\ pc' = [v \in WPs |-> "idle"] /\ ready' = {} /\ todo' = {}
        /\ UNCHANGED <<commits, ahead, stray>>
    BY <1>5 DEF RecoveryFails, Stop, AtRest, worktree
  <2>2. HasCommits(w)
    BY <2>1 DEF TodoInv
  <2>3. HeldOnlyAsleep' /\ TodoInv'
    BY <2>1 DEF HeldOnlyAsleep, Holding, HoldingPCs, TodoInv
  <2>4. UNCHANGED <<lane, owner>> \/ Move(w, "for_review", "self")
    BY <1>5 DEF RecoveryFails, host
  <2>5. \A v \in WPs : WPInv(v)'
    BY <2>1, <2>2, <2>4 DEF Move, WPInv, HasCommits, TypeOK, HostTypeOK
  <2> QED
    BY <2>1, <2>3, <2>5
<1>6. ASSUME NEW w \in WPs, SkipNoAgent(w) PROVE ReviewInv'
  <2>1. /\ UNCHANGED <<lane, owner, commits, ahead, pc, stray, ready, phase>>
        /\ todo' = todo \ {w} /\ phase = "schedule"
    BY <1>6 DEF SkipNoAgent, Scheduling, host, worktree
  <2>2. HeldOnlyAsleep' /\ TodoInv'
    BY <2>1 DEF HeldOnlyAsleep, Holding, TodoInv
  <2> QED
    BY <2>1, <2>2, QuietReview
<1>7. ASSUME NEW w \in WPs, AdoptReview(w) \/ StartImplementation(w) PROVE ReviewInv'
  <2>1. /\ w \in todo /\ phase = "schedule" /\ phase' = phase
        /\ todo' = todo \ {w} /\ ready' = ready
        /\ UNCHANGED <<commits, ahead, stray>>
    BY <1>7 DEF AdoptReview, StartImplementation, Scheduling, worktree
  <2>2. \E label \in {"begin", "begin_review"} : pc' = [pc EXCEPT ![w] = label]
    BY <1>7 DEF AdoptReview, StartImplementation, Dispatch, GoTo
  <2>3. \/ UNCHANGED <<lane, owner>>
        \/ Move(w, "in_progress", "self")
    BY <1>7 DEF AdoptReview, StartImplementation, host
  <2>4. ~(lane'[w] = "done" /\ owner'[w] = "self")
    BY <2>1, <2>3 DEF TodoInv, Move, TypeOK, HostTypeOK
  <2>5. WPInv(w)'
    BY <1>0, <2>1, <2>2, <2>3, <2>4
    DEF WPInv, HasCommits, Move, TypeOK, HostTypeOK
  <2>6. ASSUME NEW v \in WPs \ {w} PROVE Untouched(v)
    BY <1>0, <2>1, <2>2, <2>3 DEF Untouched, Move, TypeOK, HostTypeOK
  <2>7. TodoInv'
    BY <1>0, <2>1, <2>3, MoveKeepsTodo DEF TodoInv
  <2>8. HeldOnlyAsleep'
    BY <1>0, <2>1, <2>2 DEF HeldOnlyAsleep, Holding, HoldingPCs
  <2> QED
    BY <2>1, <2>5, <2>6, <2>7, <2>8, UntouchedWP
<1>8. ASSUME NEW w \in WPs, Quarantine(w) PROVE ReviewInv'
  <2>1. /\ phase = "schedule" /\ phase' = phase
        /\ todo' = todo \ {w} /\ ready' = ready
        /\ UNCHANGED <<commits, ahead, stray, pc>>
    BY <1>8 DEF Quarantine, Scheduling, worktree
  <2>2. CASE UNCHANGED <<lane, owner>>
    <3>1. TodoInv' /\ HeldOnlyAsleep'
      BY <2>1, <2>2 DEF TodoInv, HeldOnlyAsleep, Holding
    <3> QED
      BY <2>1, <2>2, <3>1, QuietReview
  <2>3. ASSUME NEW to \in {"claimed", "in_progress"}, Move(w, to, "self")
        PROVE  ReviewInv'
    <3>1. \A v \in WPs : WPInv(v)'
      BY <2>1, <2>3, MoveReview
    <3>2. TodoInv'
      BY <1>0, <2>1, <2>3, MoveKeepsTodo DEF TodoInv
    <3>3. HeldOnlyAsleep'
      BY <2>1 DEF HeldOnlyAsleep, Holding
    <3> QED
      BY <2>1, <3>1, <3>2, <3>3
  <2> QED
    BY <1>8, <2>2, <2>3 DEF Quarantine, host
<1> QED
  BY <1>1, <1>2, <1>3, <1>4, <1>5, <1>6, <1>7, <1>8 DEF LoopStep

-----------------------------------------------------------------------------
(* Agents, processes, other identities                                     *)

LEMMA AgentKeepsReviewInv ==
    ASSUME ReviewInv, TypeOK', NEW w \in WPs, AgentStep(w)
    PROVE  ReviewInv'
<1> USE DEF ReviewInv
<1>1. /\ UNCHANGED <<lane, owner, pc, stray, phase, ready, todo>>
      /\ pc[w] \in {"implementing", "reworking"}
  BY DEF AgentStep, AgentEdits, AgentCommits, AgentFrame, Implementing, host, loopState
<1>2. HeldOnlyAsleep'
  BY <1>1 DEF HeldOnlyAsleep, Holding
<1>3. \/ UNCHANGED <<commits, ahead>>
      \/ /\ commits' = [commits EXCEPT ![w] = "new"]
         /\ ahead' = [ahead EXCEPT ![w] = TRUE]
  BY DEF AgentStep, AgentEdits, AgentCommits
<1>4. \A v \in WPs : WPInv(v)'
  BY <1>1, <1>3 DEF WPInv, HasCommits, TypeOK, WorktreeTypeOK
<1>5. TodoInv'
  BY <1>1, <1>3 DEF TodoInv, HasCommits, TypeOK, WorktreeTypeOK, LoopTypeOK
<1> QED
  BY <1>1, <1>2, <1>4, <1>5

LEMMA EnvironmentKeepsReviewInv ==
    ASSUME KillReachesAgents, ReviewInv, TypeOK', Environment
    PROVE  ReviewInv'
<1> USE DEF ReviewInv
<1>1. CASE Orchestrate \/ Resume \/ Kill \/ Interrupt \/ HostReadFails
  BY <1>1, RestReview
  DEF Orchestrate, Resume, StartProcess, Kill, Interrupt, HostReadFails, Stop, host, worktree
<1>2. CASE StrayEnds
  BY <1>2 DEF StrayEnds
<1>3. ASSUME NEW w \in WPs, OtherActs(w) \/ OperatorResolves(w) PROVE ReviewInv'
  <2>1. UNCHANGED <<commits, ahead, pc, stray, phase, ready, todo>>
    BY <1>3 DEF OtherActs, OperatorResolves, OtherFrame, worktree, loopState
  <2>2. PICK to \in {"planned", "in_progress", "in_review", "done", "canceled"} :
            Move(w, to, "other") /\ (to = "in_review" => lane[w] = "for_review")
    <3>1. CASE OtherActs(w)
      BY <3>1 DEF OtherActs, OtherEdges
    <3>2. CASE OperatorResolves(w)
      BY <3>2 DEF OperatorResolves
    <3> QED
      BY <1>3, <3>1, <3>2
  <2>3. \A v \in WPs : WPInv(v)'
    BY <2>1, <2>2, MoveReview DEF WPInv
  <2>4. TodoInv'
    BY <2>1, <2>2, MoveKeepsTodo DEF TodoInv, HasCommits, TypeOK, LoopTypeOK
  <2>5. HeldOnlyAsleep'
    BY <2>1 DEF HeldOnlyAsleep, Holding
  <2> QED
    BY <2>1, <2>3, <2>4, <2>5
<1> QED
  BY <1>1, <1>2, <1>3 DEF Environment

LEMMA ReviewInit == OrchestrationInit => ReviewInv
<1> SUFFICES ASSUME OrchestrationInit PROVE ReviewInv
  OBVIOUS
<1>1. TypeOK
  BY TypeInit
<1>2. stray = {} /\ HeldOnlyAsleep /\ TodoInv
  BY DEF OrchestrationInit, HeldOnlyAsleep, Holding, HoldingPCs, TodoInv
<1>3. ASSUME NEW w \in WPs PROVE WPInv(w)
  BY <1>1 DEF OrchestrationInit, Init, CommitsFoundIn, WPInv, HasCommits, TypeOK, HostTypeOK
<1> QED
  BY <1>1, <1>2, <1>3 DEF ReviewInv

LEMMA ReviewNext ==
    ASSUME KillReachesAgents
    PROVE  ReviewInv /\ [OrchestrationNext]_vars => ReviewInv'
<1> SUFFICES ASSUME ReviewInv, [OrchestrationNext]_vars PROVE ReviewInv'
  OBVIOUS
<1>1. TypeOK'
  BY TypeNext DEF ReviewInv
<1>2. CASE UNCHANGED vars
  BY <1>2 DEF vars, host, worktree, loopState, ReviewInv, HeldOnlyAsleep, Holding, TodoInv,
     WPInv, HasCommits, TypeOK, HostTypeOK, WorktreeTypeOK, RunStateTypeOK, LoopTypeOK,
     TaskTypeOK, BoundsTypeOK, runState, slotState, bounds
<1> QED
  BY <1>1, <1>2, LoopKeepsReviewInv, TaskKeepsReviewInv, AgentKeepsReviewInv,
     EnvironmentKeepsReviewInv DEF OrchestrationNext

(* A lane WP the orchestrator made done has commits, and all of them were  *)
(* there when the review that approved it was opened (loop.py:             *)
(* _commit_implementation, start_review, _transition_review_approved).     *)
THEOREM OnlyReviewedIsDone ==
    ASSUME KillReachesAgents
    PROVE  OrchestrationSpec => []DoneIsReviewed
<1>1. ReviewInv => DoneIsReviewed
  BY LaneWPsAssumption DEF ReviewInv, WPInv, DoneIsReviewed
<1> QED
  BY <1>1, ReviewInit, ReviewNext, PTL DEF OrchestrationSpec
-----------------------------------------------------------------------------
(* Recovery: a process leaves no review of a former one behind, whether or *)
(* not an agent outlives the orchestrator.                                 *)

(* The host says that this orchestrator has a review of w open.            *)
OurReview(w) == lane[w] = "in_review" /\ owner[w] = "self"

(* A WP in review is one that recovery has still to requeue, or one of     *)
(* this process's own.                                                     *)
RecoveryInv ==
    /\ TypeOK
    /\ \A w \in WPs : pc[w] # "idle" => w \in driven
    /\ phase \notin Stopped \cup {"start"} =>
          \A w \in WPs : OurReview(w) =>
              w \in driven \/ (phase = "recover" /\ w \in todo)

(* A task opens a review only of its own WP.                               *)
LEMMA TaskRecovery ==
    ASSUME RecoveryInv, TypeOK', NEW w \in WPs, TaskStep(w)
    PROVE  RecoveryInv'
<1>1. UNCHANGED <<phase, todo, driven>> /\ w \in driven
  BY TaskShape DEF TaskFrame, loopState, RecoveryInv
<1>2. \A v \in WPs \ {w} : pc'[v] = pc[v] /\ (OurReview(v)' <=> OurReview(v))
  BY TaskLocal DEF Untouched, OurReview, RecoveryInv
<1> QED
  BY <1>1, <1>2 DEF RecoveryInv

(* A step that opens no review, ends no queue of recovery and drives what  *)
(* it dispatches.                                                          *)
LEMMA QuietRecovery ==
    ASSUME RecoveryInv, TypeOK', phase' = phase, driven \subseteq driven',
           \A w \in WPs : OurReview(w)' => OurReview(w),
           \A w \in WPs : pc'[w] # "idle" => pc[w] # "idle" \/ w \in driven',
           phase = "recover" => UNCHANGED todo
    PROVE  RecoveryInv'
BY DEF RecoveryInv

LEMMA MoveOutOfReview ==
    ASSUME TypeOK, NEW w \in WPs, NEW to, NEW actor, Move(w, to, actor),
           to # "in_review" \/ actor # "self"
    PROVE  /\ ~OurReview(w)'
           /\ \A v \in WPs : OurReview(v)' => OurReview(v)
BY DEF TypeOK, HostTypeOK, Move, OurReview

LEMMA RecoveryNext == RecoveryInv /\ [OrchestrationNext]_vars => RecoveryInv'
<1> SUFFICES ASSUME RecoveryInv, [OrchestrationNext]_vars PROVE RecoveryInv'
  OBVIOUS
<1>0. TypeOK /\ TypeOK'
  BY TypeNext DEF RecoveryInv
<1>1. ASSUME NEW w \in WPs, TaskStep(w) PROVE RecoveryInv'
  BY <1>0, <1>1, TaskRecovery
<1>2. CASE Completes \/ Stalls \/ Kill \/ Interrupt \/ HostReadFails
           \/ (\E w \in WPs : RecoveryFails(w)) \/ Orchestrate \/ Resume
  <2>1. AtRest /\ phase' \in Stopped \cup {"start"}
    BY <1>2 DEF Completes, Stalls, Kill, Interrupt, HostReadFails, RecoveryFails, Stop,
       Orchestrate, Resume, StartProcess, Stopped
  <2> QED
    BY <1>0, <2>1 DEF RecoveryInv, AtRest
<1>3. CASE ReadOrphans
  <2>1. /\ UNCHANGED <<lane, owner, pc, driven>>
        /\ phase' = "recover" /\ todo' = OrphanedReviews
    BY <1>3 DEF ReadOrphans, LoopFrame, host
  <2> QED
    BY <1>0, <2>1 DEF RecoveryInv, OrphanedReviews, OurReview
<1>4. ASSUME NEW w \in WPs, RecoverReview(w) PROVE RecoveryInv'
  <2>1. /\ UNCHANGED <<phase, pc, driven>> /\ todo' = todo \ {w} /\ phase = "recover"
        /\ Move(w, "for_review", "self")
    BY <1>4 DEF RecoverReview, LoopFrame
  <2>2. ~OurReview(w)' /\ \A v \in WPs : OurReview(v)' => OurReview(v)
    BY <1>0, <2>1, MoveOutOfReview
  <2> QED
    BY <1>0, <2>1, <2>2 DEF RecoveryInv
<1>5. CASE RecoveryEnds
  <2>1. /\ UNCHANGED <<lane, owner, pc, driven>>
        /\ phase' = "poll" /\ todo = {} /\ phase \notin Stopped \cup {"start"}
    BY <1>5 DEF RecoveryEnds, LoopFrame, host, Stopped
  <2> QED
    BY <1>0, <2>1 DEF RecoveryInv, OurReview
<1>6. CASE ListReady \/ HasWork \/ EmptyPoll \/ EndSchedule
  <2>1. UNCHANGED <<lane, owner, pc, driven>>
    BY <1>6 DEF ListReady, HasWork, EmptyPoll, EndSchedule, LoopFrame, host
  <2>2. phase \in {"poll", "sleep", "read", "schedule"} /\ phase' # "recover"
    BY <1>6 DEF ListReady, HasWork, EmptyPoll, EndSchedule, CanResume
  <2> QED
    BY <1>0, <2>1, <2>2 DEF RecoveryInv, OurReview, Stopped
<1>7. ASSUME NEW w \in WPs,
             SkipNoAgent(w) \/ AdoptReview(w) \/ StartImplementation(w) \/ Quarantine(w)
      PROVE  RecoveryInv'
  <2>1. phase' = phase /\ phase = "schedule" /\ driven \subseteq driven'
    BY <1>7 DEF SkipNoAgent, AdoptReview, StartImplementation, Quarantine, Scheduling, Drive
  <2>2. \A v \in WPs : OurReview(v)' => OurReview(v)
    <3>1. CASE UNCHANGED host
      BY <3>1 DEF host, OurReview
    <3>2. CASE \E to \in {"claimed", "in_progress"} : Move(w, to, "self")
      BY <1>0, <3>2, MoveOutOfReview
    <3> QED
      BY <1>7, <3>1, <3>2 DEF SkipNoAgent, AdoptReview, StartImplementation, Quarantine
  <2>3. \A v \in WPs : pc'[v] # "idle" => pc[v] # "idle" \/ v \in driven'
    BY <1>0, <1>7 DEF SkipNoAgent, AdoptReview, StartImplementation, Quarantine, Drive,
       Dispatch, GoTo, TypeOK, TaskTypeOK
  <2> QED
    BY <1>0, <2>1, <2>2, <2>3, QuietRecovery
<1>8. ASSUME NEW w \in WPs, OtherActs(w) \/ OperatorResolves(w) PROVE RecoveryInv'
  <2>1. UNCHANGED <<phase, driven, todo, pc>> /\ \E to : Move(w, to, "other")
    BY <1>8 DEF OtherActs, OperatorResolves, OtherFrame, loopState
  <2>2. \A v \in WPs : OurReview(v)' => OurReview(v)
    BY <1>0, <2>1, MoveOutOfReview
  <2> QED
    BY <1>0, <2>1, <2>2, QuietRecovery
<1>9. CASE (\E w \in WPs : AgentStep(w)) \/ StrayEnds \/ UNCHANGED vars
  <2>1. UNCHANGED <<lane, owner, phase, driven, todo, pc>>
    BY <1>9 DEF AgentStep, AgentEdits, AgentCommits, StrayEnds, AgentFrame, vars,
       loopState, host
  <2> QED
    BY <1>0, <2>1 DEF RecoveryInv, OurReview
<1> QED
  BY <1>1, <1>2, <1>3, <1>4, <1>5, <1>6, <1>7, <1>8, <1>9
  DEF OrchestrationNext, LoopStep, Environment

(* Once a process polls, every review the host attributes to it is one it  *)
(* opened itself: recovery left none of a former process behind (loop.py:  *)
(* _recover_orphaned_reviews).                                             *)
THEOREM ReviewsAreRecovered == OrchestrationSpec => []NoReviewForgotten
<1>1. OrchestrationInit => RecoveryInv
  BY TypeInit DEF OrchestrationInit, RecoveryInv, Stopped
<1>2. RecoveryInv => NoReviewForgotten
  BY DEF RecoveryInv, NoReviewForgotten, OurReview, Stopped
<1> QED
  BY <1>1, <1>2, RecoveryNext, PTL DEF OrchestrationSpec
=============================================================================
