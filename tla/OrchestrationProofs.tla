------------------------ MODULE OrchestrationProofs ------------------------
(***************************************************************************)
(* Theorems about Orchestration, for every mission, configuration and      *)
(* bound.                                                                  *)
(***************************************************************************)
EXTENDS Orchestration, TLAPS, FiniteSetTheorems

(* Recording an error keeps the run state well-formed.                     *)
LEMMA FailedType ==
    ASSUME NEW state \in [WPs -> WPExecution], NEW w \in WPs
    PROVE  Failed(state, w) \in [WPs -> WPExecution]
BY DEF Failed, WPExecution

(* So does a new value of one field.                                       *)
LEMMA FieldTypes ==
    ASSUME NEW state \in [WPs -> WPExecution], NEW w \in WPs
    PROVE  /\ \A n \in 0..MaxRetries :
                 [state EXCEPT ![w].implementation_retries = n] \in [WPs -> WPExecution]
           /\ \A s \in SUBSET Agents :
                 [state EXCEPT ![w].fallback_agents_tried = s] \in [WPs -> WPExecution]
           /\ \A n \in Nat :
                 [state EXCEPT ![w].review_retries = n] \in [WPs -> WPExecution]
<1>1. state[w] \in WPExecution
  OBVIOUS
<1>2. ASSUME NEW n \in 0..MaxRetries
      PROVE  [state[w] EXCEPT !.implementation_retries = n] \in WPExecution
  BY <1>1 DEF WPExecution
<1>3. ASSUME NEW s \in SUBSET Agents
      PROVE  [state[w] EXCEPT !.fallback_agents_tried = s] \in WPExecution
  BY <1>1 DEF WPExecution
<1>4. ASSUME NEW n \in Nat
      PROVE  [state[w] EXCEPT !.review_retries = n] \in WPExecution
  BY <1>1 DEF WPExecution
<1> QED
  BY <1>2, <1>3, <1>4

LEMMA NewRunStateType == NewRunState \in [WPs -> WPExecution]
BY BoundsAssumption DEF NewRunState, NewWPExecution, WPExecution

LEMMA SlotsOf == \A c \in Commands : Config[c].max_concurrent \in Nat
BY ConfigAssumption

(* A lane move keeps the host's records well-formed.                       *)
LEMMA MoveType ==
    ASSUME HostTypeOK, NEW w \in WPs, NEW to \in Lanes, NEW actor \in Actors,
           Move(w, to, actor)
    PROVE  HostTypeOK'
BY DEF HostTypeOK, Move

(* The gate leaves the worktree well-formed when it refuses.               *)
LEMMA GateRefusesType ==
    ASSUME TypeOK, NEW w \in WPs, GateRefuses(w)
    PROVE  WorktreeTypeOK' /\ faults' \in Nat
<1> USE DEF TypeOK, WorktreeTypeOK
<1>1. commits' \in [WPs -> CommitStates]
  BY DEF GateRefuses, CommitStates, worktree
<1>2. tree' \in [WPs -> {"todo", "edited", "clean"}]
  BY DEF GateRefuses, worktree
<1>3. ahead' \in [WPs -> BOOLEAN]
  BY DEF GateRefuses, worktree
<1>4. faults' \in Nat
  BY DEF GateRefuses, Fault, NoFault, BoundsTypeOK
<1> QED
  BY <1>1, <1>2, <1>3, <1>4

(* Whatever comes of a transition the program asks for, types are kept.    *)
LEMMA RequestType ==
    ASSUME TypeOK, NEW w \in WPs, NEW to \in Lanes, NEW next \in PCs,
           Request(w, to, next), UNCHANGED <<worktree, disk>>, TaskFrame
    PROVE  TypeOK'
<1> USE DEF TypeOK
<1>1. HostTypeOK'
  BY MoveType DEF Request, Accepted, Rejected, Lost, Actors, HostTypeOK, host
<1>2. RunStateTypeOK'
  BY FailedType DEF Request, RunStateTypeOK
<1>3. TaskTypeOK'
  <2>1. pc' \in [WPs -> PCs]
    BY DEF Request, Continue, GoTo, Leave, TaskTypeOK, PCs, HoldingPCs
  <2>2. active' \subseteq WPs /\ slots' \in Nat
    BY DEF Request, Continue, Leave, TaskTypeOK, slotState
  <2>3. UNCHANGED stray
    BY DEF TaskFrame
  <2> QED
    BY <2>1, <2>2, <2>3 DEF TaskTypeOK
<1>4. BoundsTypeOK'
  BY DEF Request, Accepted, Rejected, Lost, Fault, NoFault, BoundsTypeOK, TaskFrame
<1> QED
  BY <1>1, <1>2, <1>3, <1>4
  DEF WorktreeTypeOK, LoopTypeOK, TaskFrame, loopState, worktree

(* The agent selected is one of the configured agents.                     *)
LEMMA SelectedAgent ==
    ASSUME command \in Commands, NEW tried, NEW agent \in select_implementer(tried)
    PROVE  agent \in Agents
BY ConfigAssumption DEF select_implementer, Untried, Implementers

LEMMA TypeInit == OrchestrationInit => TypeOK
<1> SUFFICES ASSUME OrchestrationInit PROVE TypeOK
  OBVIOUS
<1> USE DEF OrchestrationInit
<1>1. HostTypeOK
  BY InitialLanesAssumption DEF HostTypeOK, Init
<1>2. WorktreeTypeOK
  BY <1>1 DEF WorktreeTypeOK, Init, HostTypeOK, CommitsFoundIn, CommitStates
<1>3. RunStateTypeOK
  BY NewRunStateType DEF RunStateTypeOK
<1>4. LoopTypeOK
  BY BoundsAssumption DEF LoopTypeOK, Phases, Stopped, Commands
<1>5. TaskTypeOK
  BY SlotsOf DEF TaskTypeOK, Commands, PCs
<1>6. BoundsTypeOK
  BY DEF BoundsTypeOK
<1> QED
  BY <1>1, <1>2, <1>3, <1>4, <1>5, <1>6 DEF TypeOK

LEMMA TypeNext == TypeOK /\ [OrchestrationNext]_vars => TypeOK'
<1> SUFFICES ASSUME TypeOK, [OrchestrationNext]_vars PROVE TypeOK'
  OBVIOUS
<1> USE SlotsOf, BoundsAssumption
    DEF TypeOK, HostTypeOK, WorktreeTypeOK, RunStateTypeOK, LoopTypeOK, TaskTypeOK,
        BoundsTypeOK, vars, host, worktree, runState, loopState, slotState, bounds
<1>1. CASE ReadOrphans
  BY <1>1 DEF ReadOrphans, LoopFrame, OrphanedReviews, Phases, Segments
<1>2. CASE RecoveryEnds
  BY <1>2 DEF RecoveryEnds, LoopFrame, Phases, Segments
<1>3. CASE ListReady
  BY <1>3 DEF ListReady, LoopFrame, ReadyWPs, Phases, Segments
<1>4. CASE HasWork
  BY <1>4 DEF HasWork, LoopFrame, Schedulable, select_schedulable_wp_ids,
     Phases, Segments
<1>5. CASE Completes
  BY <1>5 DEF Completes, Stop, AtRest, save_state, Phases, Stopped, PCs
<1>6. CASE EmptyPoll
  BY <1>6 DEF EmptyPoll, LoopFrame, Phases
<1>7. CASE Stalls
  BY <1>7 DEF Stalls, Stop, AtRest, Phases, Stopped, PCs
<1>8. CASE EndSchedule
  BY <1>8 DEF EndSchedule, LoopFrame, Phases
<1>9. CASE Orchestrate
  BY <1>9, NewRunStateType DEF Orchestrate, StartProcess, AtRest, save_state,
     Phases, Segments, Commands, PCs
<1>10. CASE Resume
  BY <1>10 DEF Resume, StartProcess, AtRest, load_state, Phases, Segments,
     Commands, PCs
<1>11. CASE Kill
  BY <1>11 DEF Kill, Stop, AtRest, Phases, Stopped, PCs
<1>12. CASE Interrupt
  BY <1>12 DEF Interrupt, Stop, AtRest, save_state, Phases, Stopped, PCs
<1>13. CASE HostReadFails
  BY <1>13 DEF HostReadFails, Fault, Stop, AtRest, Phases, Stopped, PCs
<1>14. CASE StrayEnds
  BY <1>14 DEF StrayEnds, AgentFrame
<1>15. ASSUME NEW w \in WPs, RecoverReview(w) PROVE TypeOK'
  BY <1>15 DEF RecoverReview, LoopFrame, Move, Lanes, Actors
<1>16. ASSUME NEW w \in WPs, RecoveryFails(w) PROVE TypeOK'
  BY <1>16 DEF RecoveryFails, Stop, AtRest, Fault, NoFault, Move, Lanes,
     Actors, Phases, Stopped, PCs
<1>17. ASSUME NEW w \in WPs, SkipNoAgent(w) PROVE TypeOK'
  BY <1>17 DEF SkipNoAgent, Scheduling
<1>18. ASSUME NEW w \in WPs, AdoptReview(w) PROVE TypeOK'
  BY <1>18 DEF AdoptReview, Scheduling, has_slot, Drive, Dispatch, GoTo, PCs,
     AwaitPCs
<1>19. ASSUME NEW w \in WPs, StartImplementation(w) PROVE TypeOK'
  BY <1>19 DEF StartImplementation, Scheduling, has_slot, Drive, Dispatch,
     GoTo, Move, Lanes, Actors, PCs, AwaitPCs
<1>20. ASSUME NEW w \in WPs, Quarantine(w) PROVE TypeOK'
  <2>1. HostTypeOK'
    BY <1>20, MoveType DEF Quarantine, Lanes, Actors
  <2>2. RunStateTypeOK'
    BY <1>20, FailedType DEF Quarantine, save_state
  <2> QED
    BY <1>20, <2>1, <2>2 DEF Quarantine, Scheduling, Fault, NoFault, Drive
<1>21. ASSUME NEW w \in WPs, Begin(w) PROVE TypeOK'
  BY <1>21, FailedType DEF Begin, TaskFrame, Continue, GoTo, save_state,
     Fault, NoFault, PCs, AwaitPCs, AgentPCs, HoldingPCs
<1>22. ASSUME NEW w \in WPs, ImplementationCommitted(w) PROVE TypeOK'
  BY <1>22 DEF ImplementationCommitted, TaskFrame, Continue, GoTo, GatePasses,
     CommitStates, PCs, HoldingPCs
<1>23. ASSUME NEW w \in WPs, ImplementationRefused(w) PROVE TypeOK'
  BY <1>23, GateRefusesType DEF ImplementationRefused, TaskFrame, Continue, GoTo, PCs,
     HoldingPCs
<1>24. ASSUME NEW w \in WPs, RecordRefusal(w) PROVE TypeOK'
  BY <1>24, FailedType DEF RecordRefusal, TaskFrame, Continue, GoTo, PCs,
     HoldingPCs
<1>25. ASSUME NEW w \in WPs, RetryImplementation(w) PROVE TypeOK'
  <2>1. Failed(mem, w) \in [WPs -> WPExecution]
    BY FailedType
  <2>2. Failed(mem, w)[w].implementation_retries = mem[w].implementation_retries
    BY DEF Failed, WPExecution
  <2>3. mem[w].implementation_retries + 1 \in 0..MaxRetries
    BY <1>25 DEF RetryImplementation, should_retry, WPExecution
  <2>4. /\ mem' = [Failed(mem, w) EXCEPT ![w].implementation_retries =
                      Failed(mem, w)[w].implementation_retries + 1]
        /\ disk' = mem'
    BY <1>25 DEF RetryImplementation, save_state
  <2>5. mem' \in [WPs -> WPExecution]
    BY <2>1, <2>2, <2>3, <2>4, FieldTypes
  <2> QED
    BY <1>25, <2>4, <2>5 DEF RetryImplementation, TaskFrame, Continue, GoTo, PCs, AwaitPCs
<1>26. ASSUME NEW w \in WPs, StrikeAgent(w) PROVE TypeOK'
  <2>1. PICK agent \in select_implementer(mem[w].fallback_agents_tried) :
             LET struck == mem[w].fallback_agents_tried \cup {agent}
                 state == [Failed(mem, w) EXCEPT ![w].fallback_agents_tried = struck]
             IN \/ mem' = [state EXCEPT ![w].implementation_retries = 0] /\ disk' = mem'
                \/ mem' = state /\ UNCHANGED disk
    BY <1>26 DEF StrikeAgent, save_state
  <2>2. mem[w].fallback_agents_tried \cup {agent} \in SUBSET Agents
    BY SelectedAgent DEF WPExecution
  <2>3. [Failed(mem, w) EXCEPT ![w].fallback_agents_tried =
            mem[w].fallback_agents_tried \cup {agent}] \in [WPs -> WPExecution]
    BY <2>2, FailedType, FieldTypes
  <2>4. 0 \in 0..MaxRetries
    OBVIOUS
  <2>5. RunStateTypeOK'
    <3> DEFINE state == [Failed(mem, w) EXCEPT ![w].fallback_agents_tried =
                            mem[w].fallback_agents_tried \cup {agent}]
    <3> HIDE DEF state
    <3>1. state \in [WPs -> WPExecution]
      BY <2>3 DEF state
    <3>2. [state EXCEPT ![w].implementation_retries = 0] \in [WPs -> WPExecution]
      BY <3>1, <2>4, FieldTypes
    <3> QED
      BY <2>1, <3>1, <3>2 DEF state
  <2> QED
    BY <1>26, <2>5 DEF StrikeAgent, TaskFrame, Continue, GoTo, PCs, AwaitPCs,
       AgentPCs, HoldingPCs
<1>27. ASSUME NEW w \in WPs, RetryDue(w) PROVE TypeOK'
  BY <1>27 DEF RetryDue, TaskFrame, Continue, GoTo, save_state, PCs, AwaitPCs,
     AgentPCs
<1>28. ASSUME NEW w \in WPs, BlockExhausted(w) PROVE TypeOK'
  <2>1. HostTypeOK'
    BY <1>28, MoveType DEF BlockExhausted, Accepted, Rejected, Lost, Lanes, Actors
  <2>2. RunStateTypeOK'
    BY <1>28, FailedType DEF BlockExhausted
  <2>3. BoundsTypeOK'
    BY <1>28 DEF BlockExhausted, TaskFrame, Accepted, Rejected, Lost, Fault, NoFault
  <2> QED
    BY <1>28, <2>1, <2>2, <2>3 DEF BlockExhausted, TaskFrame, Continue, GoTo,
       PCs, HoldingPCs
<1>29. ASSUME NEW w \in WPs, SubmitForReview(w) PROVE TypeOK'
  BY <1>29, RequestType DEF SubmitForReview, Lanes, PCs, HoldingPCs
<1>30. ASSUME NEW w \in WPs, NoReviewer(w) PROVE TypeOK'
  BY <1>30 DEF NoReviewer, TaskFrame, Leave, GoTo, PCs
<1>31. ASSUME NEW w \in WPs, StartReview(w) PROVE TypeOK'
  <2>1. HostTypeOK'
    BY <1>31, MoveType DEF StartReview, Lanes, Actors
  <2>2. RunStateTypeOK'
    BY <1>31, FailedType DEF StartReview, save_state
  <2>3. WorktreeTypeOK'
    BY <1>31 DEF StartReview, Offer, CommitStates
  <2> QED
    BY <1>31, <2>1, <2>2, <2>3 DEF StartReview, TaskFrame, Continue, GoTo, Leave,
       Fault, NoFault, PCs, AwaitPCs, AgentPCs, HoldingPCs
<1>32. ASSUME NEW w \in WPs, ReviewApproves(w) PROVE TypeOK'
  BY <1>32, RequestType DEF ReviewApproves, Lanes, PCs, HoldingPCs
<1>33. ASSUME NEW w \in WPs, ReviewRejects(w) PROVE TypeOK'
  <2>1. mem[w].review_retries + 1 \in Nat
    BY DEF WPExecution
  <2>2. RunStateTypeOK'
    BY <1>33, <2>1, FieldTypes DEF ReviewRejects, save_state
  <2> QED
    BY <1>33, <2>2 DEF ReviewRejects, TaskFrame, Continue, GoTo, PCs, HoldingPCs
<1>34. ASSUME NEW w \in WPs, ActOnRejection(w) PROVE TypeOK'
  BY <1>34, RequestType DEF ActOnRejection, Lanes, PCs, AwaitPCs, AgentPCs, HoldingPCs
<1>35. ASSUME NEW w \in WPs, ReworkCommitted(w) PROVE TypeOK'
  BY <1>35 DEF ReworkCommitted, TaskFrame, Continue, GoTo, GatePasses,
     CommitStates, PCs, HoldingPCs
<1>36. ASSUME NEW w \in WPs, ReworkFails(w) PROVE TypeOK'
  BY <1>36, GateRefusesType DEF ReworkFails, TaskFrame, Continue, GoTo, NoFault, PCs,
     HoldingPCs
<1>37. ASSUME NEW w \in WPs, BlockRework(w) PROVE TypeOK'
  BY <1>37, RequestType DEF BlockRework, Lanes, PCs, HoldingPCs
<1>38. ASSUME NEW w \in WPs, Finish(w) PROVE TypeOK'
  BY <1>38 DEF Finish, TaskFrame, Leave, GoTo, save_state, PCs
<1>39. ASSUME NEW w \in WPs, TaskRaises(w) PROVE TypeOK'
  BY <1>39 DEF TaskRaises, TaskFrame, Leave, GoTo, Fault, PCs
<1>40. ASSUME NEW w \in WPs, AgentEdits(w) PROVE TypeOK'
  BY <1>40 DEF AgentEdits, AgentFrame
<1>41. ASSUME NEW w \in WPs, AgentCommits(w) PROVE TypeOK'
  BY <1>41 DEF AgentCommits, AgentFrame, CommitStates
<1>42. ASSUME NEW w \in WPs, OtherActs(w) PROVE TypeOK'
  BY <1>42 DEF OtherActs, Otherwise, OtherFrame, Move, Lanes, Actors
<1>43. ASSUME NEW w \in WPs, OperatorResolves(w) PROVE TypeOK'
  BY <1>43 DEF OperatorResolves, Otherwise, OtherFrame, Move, Lanes, Actors
<1>44. CASE UNCHANGED vars
  BY <1>44
<1> QED
  BY <1>1, <1>2, <1>3, <1>4, <1>5, <1>6, <1>7, <1>8, <1>9, <1>10, <1>11,
     <1>12, <1>13, <1>14, <1>15, <1>16, <1>17, <1>18, <1>19, <1>20, <1>21,
     <1>22, <1>23, <1>24, <1>25, <1>26, <1>27, <1>28, <1>29, <1>30, <1>31,
     <1>32, <1>33, <1>34, <1>35, <1>36, <1>37, <1>38, <1>39, <1>40, <1>41,
     <1>42, <1>43, <1>44 DEF OrchestrationNext, LoopStep, TaskStep, AgentStep,
     Environment

(* Every variable has its type, in every reachable state: in particular an *)
(* agent is never retried more than MaxRetries times in a row, and no      *)
(* dispatch takes a slot that is not free.                                 *)
THEOREM TypeCorrect == OrchestrationSpec => []TypeOK
BY TypeInit, TypeNext, PTL DEF OrchestrationSpec
-----------------------------------------------------------------------------
(* Slots. The invariant adds that a WP about to be dispatched is not       *)
(* active, and that nothing is active while reviews are being recovered,   *)
(* when the WPs waiting in todo may well be any.                           *)

SlotsInv ==
    /\ TypeOK
    /\ SlotsConserved
    /\ todo \cap active = {}
    /\ phase \in {"start", "recover"} => active = {}

(* Whatever step a task takes, it either goes on to another point of its   *)
(* code and keeps its slot, or leaves.                                     *)
LEMMA TaskShape ==
    ASSUME NEW w \in WPs, TaskStep(w)
    PROVE  /\ pc[w] # "idle"
           /\ TaskFrame
           /\ Leave(w) \/ \E label \in PCs \ {"idle"} : Continue(w, label)
<1> USE DEF PCs, AwaitPCs, AgentPCs, HoldingPCs, Request
<1>1. CASE Begin(w)
  BY <1>1 DEF Begin
<1>2. CASE ImplementationCommitted(w) \/ ImplementationRefused(w)
  BY <1>2 DEF ImplementationCommitted, ImplementationRefused
<1>3. CASE RecordRefusal(w) \/ RetryImplementation(w) \/ RetryDue(w)
  BY <1>3 DEF RecordRefusal, RetryImplementation, RetryDue
<1>4. CASE StrikeAgent(w)
  BY <1>4 DEF StrikeAgent
<1>5. CASE BlockExhausted(w) \/ SubmitForReview(w)
  BY <1>5 DEF BlockExhausted, SubmitForReview
<1>6. CASE NoReviewer(w) \/ StartReview(w)
  BY <1>6 DEF NoReviewer, StartReview
<1>7. CASE ReviewApproves(w) \/ ReviewRejects(w)
  BY <1>7 DEF ReviewApproves, ReviewRejects
<1>8. CASE ActOnRejection(w)
  BY <1>8 DEF ActOnRejection
<1>9. CASE ReworkCommitted(w) \/ ReworkFails(w) \/ BlockRework(w)
  BY <1>9 DEF ReworkCommitted, ReworkFails, BlockRework
<1>10. CASE Finish(w) \/ TaskRaises(w)
  BY <1>10 DEF Finish, TaskRaises
<1> QED
  BY <1>1, <1>2, <1>3, <1>4, <1>5, <1>6, <1>7, <1>8, <1>9, <1>10 DEF TaskStep

(* A process that stops or starts has all its slots free.                  *)
LEMMA RestSlots ==
    ASSUME AtRest, slots' = Config[command'].max_concurrent, command' \in Commands
    PROVE  SlotsConserved' /\ (todo \cap active = {})' /\ active' = {}
<1>1. Cardinality({}) = 0
  BY FS_EmptySet
<1>2. active' = {} /\ pc' = [w \in WPs |-> "idle"]
  BY DEF AtRest
<1>3. {w \in WPs : pc'[w] # "idle"} = {}
  BY <1>2
<1> QED
  BY <1>1, <1>2, <1>3, SlotsOf DEF SlotsConserved

(* A dispatch takes one slot for one WP that had none.                     *)
LEMMA DispatchSlots ==
    ASSUME SlotsInv, NEW w \in todo, NEW label \in PCs \ {"idle"},
           Scheduling(w), Dispatch(w, label)
    PROVE  TypeOK' => SlotsInv'
<1> USE DEF SlotsInv
<1>1. w \in WPs /\ w \notin active
  BY DEF TypeOK, LoopTypeOK
<1>2. active' = active \cup {w} /\ pc' = [pc EXCEPT ![w] = label] /\ slots' = slots - 1
  BY DEF Dispatch, GoTo
<1>3. IsFiniteSet(active)
  BY WPsAssumption, FS_Subset DEF TypeOK, TaskTypeOK
<1>4. Cardinality(active') = Cardinality(active) + 1 /\ Cardinality(active) \in Nat
  BY <1>1, <1>2, <1>3, FS_AddElement, FS_CardinalityType
<1>5. active' = {v \in WPs : pc'[v] # "idle"}
  BY <1>1, <1>2 DEF SlotsConserved, TypeOK, TaskTypeOK
<1>6. slots' + Cardinality(active') = Config[command'].max_concurrent
  BY <1>2, <1>4 DEF SlotsConserved, Scheduling, TypeOK, TaskTypeOK
<1>7. (todo \cap active = {})' /\ phase' = "schedule"
  BY <1>2 DEF Scheduling
<1> QED
  BY <1>5, <1>6, <1>7 DEF SlotsConserved

(* A task keeps its slot as long as it runs and gives it back once.        *)
LEMMA TaskSlots ==
    ASSUME SlotsInv, TypeOK', NEW w \in WPs, TaskStep(w)
    PROVE  SlotsInv'
<1> USE DEF SlotsInv
<1>1. pc[w] # "idle" /\ TaskFrame
  BY TaskShape
<1>2. UNCHANGED <<phase, command, todo>>
  BY <1>1 DEF TaskFrame, loopState
<1>3. w \in active /\ pc \in [WPs -> PCs]
  BY <1>1 DEF SlotsConserved, TypeOK, TaskTypeOK
<1>4. CASE Leave(w)
  <2>1. active' = active \ {w} /\ pc' = [pc EXCEPT ![w] = "idle"] /\ slots' = slots + 1
    BY <1>4 DEF Leave, GoTo
  <2>2. IsFiniteSet(active)
    BY WPsAssumption, FS_Subset DEF TypeOK, TaskTypeOK
  <2>3. Cardinality(active') = Cardinality(active) - 1 /\ Cardinality(active) \in Nat
    BY <1>3, <2>1, <2>2, FS_RemoveElement, FS_CardinalityType
  <2>4. active' = {v \in WPs : pc'[v] # "idle"}
    BY <1>3, <2>1 DEF SlotsConserved
  <2>5. slots' + Cardinality(active') = Config[command'].max_concurrent
    BY <1>2, <2>1, <2>3 DEF SlotsConserved, TypeOK, TaskTypeOK
  <2> QED
    BY <1>2, <2>1, <2>4, <2>5 DEF SlotsConserved
<1>5. ASSUME NEW label \in PCs \ {"idle"}, Continue(w, label)
      PROVE  SlotsInv'
  <2>1. pc' = [pc EXCEPT ![w] = label] /\ UNCHANGED <<active, slots>>
    BY <1>5 DEF Continue, GoTo, slotState
  <2>2. active' = {v \in WPs : pc'[v] # "idle"}
    BY <1>1, <1>3, <2>1 DEF SlotsConserved
  <2> QED
    BY <1>2, <2>1, <2>2 DEF SlotsConserved
<1> QED
  BY <1>4, <1>5, TaskShape

(* Nobody but tasks, dispatches, starts and stops touches the slots.       *)
LEMMA OtherSlots ==
    ASSUME SlotsInv, TypeOK', UNCHANGED <<slotState, pc, command>>,
           (todo \cap active = {})', phase' \in {"start", "recover"} => active = {}
    PROVE  SlotsInv'
BY DEF SlotsInv, SlotsConserved, slotState

LEMMA SlotsInit == OrchestrationInit => SlotsInv
<1> SUFFICES ASSUME OrchestrationInit PROVE SlotsInv
  OBVIOUS
<1>1. active = {} /\ todo = {} /\ {w \in WPs : pc[w] # "idle"} = {}
  BY DEF OrchestrationInit
<1>2. slots = Config[command].max_concurrent /\ command \in Commands
  BY DEF OrchestrationInit, Commands
<1> QED
  BY <1>1, <1>2, TypeInit, FS_EmptySet, SlotsOf DEF SlotsInv, SlotsConserved

LEMMA SlotsNext == SlotsInv /\ [OrchestrationNext]_vars => SlotsInv'
<1> SUFFICES ASSUME SlotsInv, [OrchestrationNext]_vars PROVE SlotsInv'
  OBVIOUS
<1>0. TypeOK /\ TypeOK' /\ command \in Commands /\ command' \in Commands
  BY TypeNext DEF SlotsInv, TypeOK, LoopTypeOK
<1>1. ASSUME NEW w \in WPs, TaskStep(w) PROVE SlotsInv'
  BY <1>0, <1>1, TaskSlots
<1>2. ASSUME NEW w \in WPs, AdoptReview(w) \/ StartImplementation(w) PROVE SlotsInv'
  BY <1>0, <1>2, DispatchSlots
  DEF AdoptReview, StartImplementation, Scheduling, PCs, AwaitPCs
<1>3. CASE Completes \/ Stalls \/ Kill \/ Interrupt \/ HostReadFails
           \/ \E w \in WPs : RecoveryFails(w)
  <2>1. AtRest /\ slots' = Config[command'].max_concurrent /\ phase' \in Stopped
    BY <1>3 DEF Completes, Stalls, Kill, Interrupt, HostReadFails, RecoveryFails,
       Stop, Stopped
  <2> QED
    BY <1>0, <2>1, RestSlots DEF SlotsInv
<1>4. CASE Orchestrate \/ Resume
  <2>1. AtRest /\ slots' = Config[command'].max_concurrent
    BY <1>4 DEF Orchestrate, Resume, StartProcess
  <2> QED
    BY <1>0, <2>1, RestSlots DEF SlotsInv
<1>5. CASE ReadOrphans \/ RecoveryEnds \/ ListReady \/ HasWork \/ EmptyPoll \/ EndSchedule
  <2>1. UNCHANGED <<slotState, pc, command>>
    BY <1>5 DEF ReadOrphans, RecoveryEnds, ListReady, HasWork, EmptyPoll, EndSchedule,
       LoopFrame
  <2>2. (todo \cap active = {})'
    BY <1>5, <2>1 DEF ReadOrphans, RecoveryEnds, ListReady, HasWork, EmptyPoll,
       EndSchedule, SlotsInv, Schedulable, select_schedulable_wp_ids, slotState
  <2>3. phase' \in {"start", "recover"} => active = {}
    BY <1>5 DEF ReadOrphans, RecoveryEnds, ListReady, HasWork, EmptyPoll, EndSchedule,
       SlotsInv
  <2> QED
    BY <1>0, <2>1, <2>2, <2>3, OtherSlots
<1>6. ASSUME NEW w \in WPs, RecoverReview(w) \/ SkipNoAgent(w) \/ Quarantine(w)
      PROVE  SlotsInv'
  BY <1>0, <1>6, OtherSlots
  DEF RecoverReview, SkipNoAgent, Quarantine, Scheduling, LoopFrame, SlotsInv, slotState
<1>7. ASSUME NEW w \in WPs, AgentStep(w) \/ OtherActs(w) \/ OperatorResolves(w)
      PROVE  SlotsInv'
  BY <1>0, <1>7, OtherSlots
  DEF AgentStep, AgentEdits, AgentCommits, OtherActs, OperatorResolves, AgentFrame,
      OtherFrame, SlotsInv, loopState, slotState
<1>8. CASE StrayEnds \/ UNCHANGED vars
  BY <1>0, <1>8, OtherSlots DEF StrayEnds, AgentFrame, SlotsInv, vars, loopState, slotState
<1> QED
  BY <1>1, <1>2, <1>3, <1>4, <1>5, <1>6, <1>7, <1>8
  DEF OrchestrationNext, LoopStep, Environment

(* No slot is leaked or released twice, whatever crashes, interrupts and   *)
(* exceptions tasks run into (scheduler.py: acquire, release; loop.py: the *)
(* finally block of _run_wp_task).                                         *)
THEOREM SlotsAreConserved == OrchestrationSpec => []SlotsConserved
<1>1. SlotsInv => SlotsConserved
  BY DEF SlotsInv
<1> QED
  BY <1>1, SlotsInit, SlotsNext, PTL DEF OrchestrationSpec
-----------------------------------------------------------------------------
(* Orderly ends: the loop looks at the active set, which is exact.         *)

LEMMA OrderlyEnd ==
    ASSUME TypeOK, [OrchestrationNext]_vars, phase' \in {"complete", "stalled"}, phase' # phase
    PROVE  Completes \/ Stalls
<1>1. ASSUME NEW w \in WPs, TaskStep(w) PROVE phase' = phase
  BY <1>1, TaskShape DEF TaskFrame, loopState
<1>2. ASSUME NEW w \in WPs,
             \/ RecoverReview(w) \/ SkipNoAgent(w) \/ AdoptReview(w) \/ StartImplementation(w)
             \/ Quarantine(w) \/ AgentStep(w) \/ OtherActs(w) \/ OperatorResolves(w)
      PROVE  phase' = phase
  BY <1>2 DEF RecoverReview, SkipNoAgent, AdoptReview, StartImplementation, Quarantine,
     Scheduling, AgentStep, AgentEdits, AgentCommits, AgentFrame, OtherActs,
     OperatorResolves, OtherFrame, loopState
<1>3. CASE Kill \/ Interrupt \/ HostReadFails \/ (\E w \in WPs : RecoveryFails(w))
           \/ Orchestrate \/ Resume
  BY <1>3 DEF Kill, Interrupt, HostReadFails, RecoveryFails, Stop, Orchestrate, Resume,
     StartProcess
<1>4. CASE ReadOrphans \/ RecoveryEnds \/ ListReady \/ HasWork \/ EmptyPoll \/ EndSchedule
  BY <1>4 DEF ReadOrphans, RecoveryEnds, ListReady, HasWork, EmptyPoll, EndSchedule
<1>5. CASE StrayEnds \/ UNCHANGED vars
  BY <1>5 DEF StrayEnds, AgentFrame, vars, loopState
<1> QED
  BY <1>1, <1>2, <1>3, <1>4, <1>5 DEF OrchestrationNext, LoopStep, Environment

(* The loop neither completes nor stalls while a task is in flight: its    *)
(* active set is that of the WPs with a task (loop.py: run_orchestration_  *)
(* loop, scheduler.py: active_wp_ids).                                     *)
THEOREM EndsIdle == OrchestrationSpec => LoopEndsIdle
<1>1. SlotsInv /\ [OrchestrationNext]_vars =>
        [phase' \in {"complete", "stalled"} /\ phase' # phase =>
            \A w \in WPs : pc[w] = "idle"]_vars
  <2> SUFFICES ASSUME SlotsInv, [OrchestrationNext]_vars,
                      phase' \in {"complete", "stalled"}, phase' # phase
               PROVE  \A w \in WPs : pc[w] = "idle"
    OBVIOUS
  <2>1. active = {}
    BY OrderlyEnd DEF SlotsInv, Completes, Stalls, NothingToDo
  <2> QED
    BY <2>1 DEF SlotsInv, SlotsConserved
<1> QED
  BY <1>1, SlotsInit, SlotsNext, PTL DEF OrchestrationSpec, LoopEndsIdle

-----------------------------------------------------------------------------
(* A task holds the event loop only while the loop sleeps.                 *)
HeldOnlyAsleep == phase # "sleep" => Holding = {}

LEMMA TaskAsleep ==
    ASSUME HeldOnlyAsleep, NEW w \in WPs, TaskStep(w)
    PROVE  phase = "sleep"
<1> USE DEF HeldOnlyAsleep, Holding, CanResume, HoldingPCs
<1>1. CASE Begin(w) \/ ImplementationCommitted(w) \/ ImplementationRefused(w)
  BY <1>1 DEF Begin, ImplementationCommitted, ImplementationRefused
<1>2. CASE RecordRefusal(w) \/ RetryImplementation(w) \/ StrikeAgent(w) \/ RetryDue(w)
  BY <1>2 DEF RecordRefusal, RetryImplementation, StrikeAgent, RetryDue
<1>3. CASE BlockExhausted(w) \/ SubmitForReview(w) \/ NoReviewer(w) \/ StartReview(w)
  BY <1>3 DEF BlockExhausted, SubmitForReview, NoReviewer, StartReview
<1>4. CASE ReviewApproves(w) \/ ReviewRejects(w) \/ ActOnRejection(w)
  BY <1>4 DEF ReviewApproves, ReviewRejects, ActOnRejection
<1>5. CASE ReworkCommitted(w) \/ ReworkFails(w) \/ BlockRework(w)
  BY <1>5 DEF ReworkCommitted, ReworkFails, BlockRework
<1>6. CASE Finish(w) \/ TaskRaises(w)
  BY <1>6 DEF Finish, TaskRaises
<1> QED
  BY <1>1, <1>2, <1>3, <1>4, <1>5, <1>6 DEF TaskStep

Untouched(v) ==
    /\ lane'[v] = lane[v] /\ owner'[v] = owner[v]
    /\ commits'[v] = commits[v] /\ ahead'[v] = ahead[v]
    /\ pc'[v] = pc[v]

(* A task touches no WP but its own.                                       *)
LEMMA TaskLocal ==
    ASSUME TypeOK, NEW w \in WPs, TaskStep(w), NEW v \in WPs \ {w}
    PROVE  Untouched(v)
<1> USE DEF TypeOK, HostTypeOK, WorktreeTypeOK, TaskTypeOK, Untouched, host, worktree
<1>1. pc'[v] = pc[v]
  BY TaskShape DEF Leave, Continue, GoTo
<1>2. lane'[v] = lane[v] /\ owner'[v] = owner[v]
  <2> USE DEF Move
  <2>1. ASSUME NEW to, NEW next, Request(w, to, next) PROVE <1>2
    BY <2>1 DEF Request, Accepted, Rejected, Lost
  <2>2. CASE Begin(w) \/ ImplementationCommitted(w) \/ ImplementationRefused(w)
             \/ RecordRefusal(w) \/ RetryImplementation(w) \/ StrikeAgent(w)
             \/ RetryDue(w) \/ NoReviewer(w)
    BY <2>2 DEF Begin, ImplementationCommitted, ImplementationRefused, RecordRefusal,
       RetryImplementation, StrikeAgent, RetryDue, NoReviewer
  <2>3. CASE ReviewRejects(w) \/ ReworkCommitted(w) \/ ReworkFails(w)
             \/ Finish(w) \/ TaskRaises(w)
    BY <2>3 DEF ReviewRejects, ReworkCommitted, ReworkFails, Finish, TaskRaises
  <2>4. CASE BlockExhausted(w)
    BY <2>4 DEF BlockExhausted, Accepted, Rejected, Lost
  <2>5. CASE StartReview(w)
    BY <2>5 DEF StartReview
  <2>6. CASE SubmitForReview(w) \/ ReviewApproves(w) \/ ActOnRejection(w) \/ BlockRework(w)
    BY <2>1, <2>6 DEF SubmitForReview, ReviewApproves, ActOnRejection, BlockRework
  <2> QED
    BY <2>2, <2>3, <2>4, <2>5, <2>6 DEF TaskStep
<1>3. commits'[v] = commits[v] /\ ahead'[v] = ahead[v]
  <2>1. CASE Begin(w) \/ ImplementationCommitted(w) \/ ReworkCommitted(w)
    BY <2>1 DEF Begin, ImplementationCommitted, ReworkCommitted, GatePasses
  <2>2. CASE ImplementationRefused(w) \/ ReworkFails(w)
    BY <2>2 DEF ImplementationRefused, ReworkFails, GateRefuses
  <2>3. CASE RecordRefusal(w) \/ RetryImplementation(w) \/ StrikeAgent(w)
             \/ RetryDue(w) \/ NoReviewer(w) \/ BlockExhausted(w) \/ SubmitForReview(w)
    BY <2>3 DEF RecordRefusal, RetryImplementation, StrikeAgent, RetryDue,
       NoReviewer, BlockExhausted, SubmitForReview
  <2>4. CASE StartReview(w)
    BY <2>4 DEF StartReview, Offer
  <2>5. CASE ReviewApproves(w) \/ ReviewRejects(w) \/ ActOnRejection(w)
             \/ BlockRework(w) \/ Finish(w) \/ TaskRaises(w)
    BY <2>5 DEF ReviewApproves, ReviewRejects, ActOnRejection, BlockRework, Finish,
       TaskRaises
  <2> QED
    BY <2>1, <2>2, <2>3, <2>4, <2>5 DEF TaskStep
<1> QED
  BY <1>1, <1>2, <1>3
-----------------------------------------------------------------------------
(* What is left when the loop ends. The loop reads list-ready and then the *)
(* lanes: in between others may move a WP, but none into work of ours.     *)

(* planned, and every dependency made done by this orchestrator.           *)
FreeToStart(w) ==
    lane[w] = "planned" /\ \A d \in Deps[w] : lane[d] = "done" /\ owner[d] = "self"

EndsInv ==
    /\ TypeOK
    /\ HeldOnlyAsleep
    /\ phase = "read" => \A w \in WPs : FreeToStart(w) => w \in ready

LEMMA RestEnds ==
    ASSUME TypeOK', AtRest, phase' # "read"
    PROVE  EndsInv'
BY DEF AtRest, EndsInv, HeldOnlyAsleep, Holding, HoldingPCs

(* A step of the loop that neither lists the ready WPs nor ends a process. *)
LEMMA LoopEnds ==
    ASSUME EndsInv, TypeOK', phase # "sleep", phase' # "read",
           \A w \in WPs : pc'[w] = pc[w] \/ pc'[w] \in {"begin", "begin_review"}
    PROVE  EndsInv'
BY DEF EndsInv, HeldOnlyAsleep, Holding, HoldingPCs

LEMMA OtherEnds ==
    ASSUME EndsInv, TypeOK', NEW v \in WPs, OtherActs(v) \/ OperatorResolves(v)
    PROVE  EndsInv'
<1>1. UNCHANGED <<phase, ready, pc>>
  BY DEF OtherActs, OperatorResolves, OtherFrame, loopState
<1>2. PICK to : /\ Move(v, to, "other")
                /\ to = "planned" => phase \in Stopped
  BY DEF OtherActs, OperatorResolves
<1>3. lane'[v] = to /\ owner'[v] = "other"
  BY <1>2 DEF Move, EndsInv, TypeOK, HostTypeOK
<1>4. ASSUME NEW w \in WPs, FreeToStart(w)', phase = "read" PROVE FreeToStart(w)
  <2>1. w # v /\ v \notin Deps[w]
    BY <1>2, <1>3, <1>4 DEF FreeToStart, Stopped
  <2>2. lane[w] = lane'[w] /\ \A d \in Deps[w] : lane[d] = lane'[d] /\ owner[d] = owner'[d]
    BY <1>2, <2>1, DepsAssumption DEF Move, EndsInv, TypeOK, HostTypeOK
  <2> QED
    BY <1>4, <2>2 DEF FreeToStart
<1> QED
  BY <1>1, <1>4 DEF EndsInv, HeldOnlyAsleep, Holding

LEMMA EndsNext == EndsInv /\ [OrchestrationNext]_vars => EndsInv'
<1> SUFFICES ASSUME EndsInv, [OrchestrationNext]_vars PROVE EndsInv'
  OBVIOUS
<1>0. TypeOK /\ TypeOK'
  BY TypeNext DEF EndsInv
<1>1. ASSUME NEW w \in WPs, TaskStep(w) PROVE EndsInv'
  <2>1. phase = "sleep" /\ phase' = phase
    BY <1>1, TaskAsleep, TaskShape DEF EndsInv, TaskFrame, loopState
  <2> QED
    BY <1>0, <2>1 DEF EndsInv, HeldOnlyAsleep
<1>2. CASE Completes \/ Stalls \/ Kill \/ Interrupt \/ HostReadFails
           \/ (\E w \in WPs : RecoveryFails(w)) \/ Orchestrate \/ Resume
  <2>1. AtRest /\ phase' # "read"
    BY <1>2 DEF Completes, Stalls, Kill, Interrupt, HostReadFails, RecoveryFails, Stop,
       Orchestrate, Resume, StartProcess
  <2> QED
    BY <1>0, <2>1, RestEnds
<1>3. CASE ListReady
  <2>1. /\ UNCHANGED <<lane, owner, pc>> /\ ready' = ReadyWPs
        /\ phase # "sleep" \/ Holding = {}
    BY <1>3 DEF ListReady, LoopFrame, host, CanResume
  <2> QED
    BY <1>0, <2>1 DEF EndsInv, HeldOnlyAsleep, Holding, FreeToStart, ReadyWPs
<1>4. CASE ReadOrphans \/ RecoveryEnds \/ HasWork \/ EmptyPoll \/ EndSchedule
  BY <1>0, <1>4, LoopEnds
  DEF ReadOrphans, RecoveryEnds, HasWork, EmptyPoll, EndSchedule, LoopFrame
<1>5. ASSUME NEW w \in WPs, RecoverReview(w) PROVE EndsInv'
  BY <1>0, <1>5, LoopEnds DEF RecoverReview, LoopFrame
<1>6. ASSUME NEW w \in WPs,
             SkipNoAgent(w) \/ AdoptReview(w) \/ StartImplementation(w) \/ Quarantine(w)
      PROVE  EndsInv'
  <2>1. phase = "schedule" /\ phase' = phase
    BY <1>6 DEF SkipNoAgent, AdoptReview, StartImplementation, Quarantine, Scheduling
  <2>2. UNCHANGED pc \/ \E label \in {"begin", "begin_review"} : GoTo(w, label)
    BY <1>6 DEF SkipNoAgent, AdoptReview, StartImplementation, Quarantine, Dispatch
  <2> QED
    BY <1>0, <2>1, <2>2, LoopEnds DEF GoTo, TypeOK, TaskTypeOK
<1>7. ASSUME NEW w \in WPs, OtherActs(w) \/ OperatorResolves(w) PROVE EndsInv'
  BY <1>0, <1>7, OtherEnds
<1>8. CASE (\E w \in WPs : AgentStep(w)) \/ StrayEnds \/ UNCHANGED vars
  <2>1. UNCHANGED <<lane, owner, phase, ready, pc>>
    BY <1>8 DEF AgentStep, AgentEdits, AgentCommits, StrayEnds, AgentFrame, vars,
       loopState, host
  <2> QED
    BY <1>0, <2>1 DEF EndsInv, HeldOnlyAsleep, Holding, FreeToStart
<1> QED
  BY <1>1, <1>2, <1>3, <1>4, <1>5, <1>6, <1>7, <1>8
  DEF OrchestrationNext, LoopStep, Environment

(* The loop neither completes nor gives up while there is a WP it could    *)
(* drive: the lanes it decides on are those of the moment, and the ready   *)
(* WPs it was told of before still include all of its own making (loop.py: *)
(* run_orchestration_loop, scheduler.py: select_schedulable_wp_ids).       *)
THEOREM EndsWithoutWork == OrchestrationSpec => EndsOnlyWithoutWork
<1>1. OrchestrationInit => EndsInv
  BY TypeInit DEF OrchestrationInit, EndsInv, HeldOnlyAsleep, Holding, HoldingPCs
<1>2. EndsInv /\ [OrchestrationNext]_vars =>
        [phase' \in {"complete", "stalled"} /\ phase' # phase =>
            \A w \in WPs \ driven :
               /\ lane[w] \notin RESUMABLE_LANES
               /\ lane[w] = "planned" =>
                    \E d \in Deps[w] : lane[d] # "done" \/ owner[d] = "other"]_vars
  <2> SUFFICES ASSUME EndsInv, [OrchestrationNext]_vars,
                      phase' \in {"complete", "stalled"}, phase' # phase,
                      NEW w \in WPs \ driven
               PROVE  lane[w] \notin RESUMABLE_LANES /\ ~FreeToStart(w)
    BY DepsAssumption DEF EndsInv, TypeOK, HostTypeOK, Actors, FreeToStart
  <2>1. phase = "read" /\ Schedulable = {} /\ active = {}
    BY OrderlyEnd DEF EndsInv, Completes, Stalls, NothingToDo
  <2>2. w \notin ready /\ lane[w] \notin RESUMABLE_LANES
    BY <2>1 DEF Schedulable, select_schedulable_wp_ids
  <2> QED
    BY <2>1, <2>2 DEF EndsInv
<1> QED
  BY <1>1, <1>2, EndsNext, PTL DEF OrchestrationSpec, EndsOnlyWithoutWork
=============================================================================
