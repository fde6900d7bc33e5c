--------------------------- MODULE RunStateProofs ---------------------------
(***************************************************************************)
(* What the run state remembers, for every mission, configuration and      *)
(* bound: the state file never loses a decision of the run, the number of  *)
(* rejected reviews is bounded although it survives resumes, and what is   *)
(* recorded explains why a mission stalled.                                *)
(***************************************************************************)
EXTENDS OrchestrationProofs

(* state knows of every agent struck off, every review rejected and every  *)
(* error that former knows of.                                             *)
Remembers(state, former) ==
    \A w \in WPs :
       /\ former[w].fallback_agents_tried \subseteq state[w].fallback_agents_tried
       /\ former[w].review_retries <= state[w].review_retries
       /\ former[w].last_error => state[w].last_error

LEMMA RemembersItself ==
    ASSUME NEW state \in [WPs -> WPExecution]
    PROVE  Remembers(state, state)
BY DEF Remembers, WPExecution

LEMMA RemembersTransitively ==
    ASSUME NEW a \in [WPs -> WPExecution], NEW b \in [WPs -> WPExecution],
           NEW c \in [WPs -> WPExecution], Remembers(b, a), Remembers(c, b)
    PROVE  Remembers(c, a)
<1> SUFFICES ASSUME NEW w \in WPs
             PROVE  /\ a[w].fallback_agents_tried \subseteq c[w].fallback_agents_tried
                    /\ a[w].review_retries <= c[w].review_retries
                    /\ a[w].last_error => c[w].last_error
  BY DEF Remembers
<1>1. /\ a[w].review_retries \in Nat /\ b[w].review_retries \in Nat
      /\ c[w].review_retries \in Nat
  BY DEF WPExecution
<1> QED
  BY <1>1 DEF Remembers

LEMMA FailedRemembers ==
    ASSUME NEW state \in [WPs -> WPExecution], NEW w \in WPs
    PROVE  Remembers(Failed(state, w), state)
BY DEF Failed, Remembers, WPExecution

(* A task only adds to what is remembered, and saves what it knows.        *)
LEMMA TaskRemembers ==
    ASSUME TypeOK, NEW w \in WPs, TaskStep(w)
    PROVE  Remembers(mem', mem) /\ disk' \in {disk, mem, mem'}
<1> USE DEF save_state
<1>0. mem \in [WPs -> WPExecution]
  BY DEF TypeOK, RunStateTypeOK
<1>1. Remembers(mem, mem) /\ Remembers(Failed(mem, w), mem)
  BY <1>0, RemembersItself, FailedRemembers
<1>2. ASSUME NEW to, NEW next, Request(w, to, next), UNCHANGED disk
      PROVE  Remembers(mem', mem) /\ disk' \in {disk, mem, mem'}
  <2>1. mem' \in {mem, Failed(mem, w)}
    BY <1>2 DEF Request
  <2> QED
    BY <1>1, <1>2, <2>1
<1>3. CASE Begin(w)
  <2>1. mem' \in {mem, Failed(mem, w)} /\ disk' = mem
    BY <1>3 DEF Begin
  <2> QED
    BY <1>1, <2>1
<1>4. CASE ImplementationCommitted(w) \/ ImplementationRefused(w) \/ NoReviewer(w)
           \/ ReworkCommitted(w) \/ ReworkFails(w) \/ TaskRaises(w)
  <2>1. mem' = mem /\ disk' = disk
    BY <1>4 DEF ImplementationCommitted, ImplementationRefused, NoReviewer,
       ReworkCommitted, ReworkFails, TaskRaises, runState
  <2> QED
    BY <1>1, <2>1
<1>5. CASE RecordRefusal(w) \/ BlockExhausted(w)
  <2>1. mem' = Failed(mem, w) /\ disk' = disk
    BY <1>5 DEF RecordRefusal, BlockExhausted
  <2> QED
    BY <1>1, <2>1
<1>6. CASE RetryImplementation(w)
  <2>1. mem' = [Failed(mem, w) EXCEPT ![w].implementation_retries = @ + 1] /\ disk' = mem'
    BY <1>6 DEF RetryImplementation
  <2>2. Remembers(mem', mem)
    BY <1>0, <2>1 DEF Failed, Remembers, WPExecution
  <2> QED
    BY <2>1, <2>2
<1>7. CASE StrikeAgent(w)
  <2>1. PICK agent : \E struck \in {mem[w].fallback_agents_tried \cup {agent}} :
          \/ mem' = [[Failed(mem, w) EXCEPT ![w].fallback_agents_tried = struck]
                        EXCEPT ![w].implementation_retries = 0]
          \/ mem' = [Failed(mem, w) EXCEPT ![w].fallback_agents_tried = struck]
    BY <1>7 DEF StrikeAgent
  <2>2. Remembers(mem', mem)
    BY <1>0, <2>1 DEF Failed, Remembers, WPExecution
  <2>3. disk' \in {disk, mem'}
    BY <1>7 DEF StrikeAgent
  <2> QED
    BY <2>2, <2>3
<1>8. CASE RetryDue(w) \/ Finish(w)
  <2>1. mem' = mem /\ disk' = mem
    BY <1>8 DEF RetryDue, Finish
  <2> QED
    BY <1>1, <2>1
<1>9. CASE StartReview(w)
  <2>1. mem' \in {mem, Failed(mem, w)} /\ disk' = mem
    BY <1>9 DEF StartReview
  <2> QED
    BY <1>1, <2>1
<1>10. CASE ReviewRejects(w)
  <2>1. mem' = [mem EXCEPT ![w].review_retries = @ + 1] /\ disk' = mem'
    BY <1>10 DEF ReviewRejects
  <2>2. Remembers(mem', mem)
    BY <1>0, <2>1 DEF Remembers, WPExecution
  <2> QED
    BY <2>1, <2>2
<1>11. CASE SubmitForReview(w) \/ ReviewApproves(w) \/ ActOnRejection(w) \/ BlockRework(w)
  BY <1>2, <1>11 DEF SubmitForReview, ReviewApproves, ActOnRejection, BlockRework
<1> QED
  BY <1>3, <1>4, <1>5, <1>6, <1>7, <1>8, <1>9, <1>10, <1>11 DEF TaskStep

(* So does every step of a process but its start and its kill.             *)
LEMMA StepRemembers ==
    ASSUME TypeOK, [OrchestrationNext]_vars, ~(Orchestrate \/ Resume \/ Kill)
    PROVE  Remembers(mem', mem) /\ disk' \in {disk, mem, mem'}
<1> USE DEF save_state
<1>0. mem \in [WPs -> WPExecution]
  BY DEF TypeOK, RunStateTypeOK
<1>1. Remembers(mem, mem) /\ \A w \in WPs : Remembers(Failed(mem, w), mem)
  BY <1>0, RemembersItself, FailedRemembers
<1>2. ASSUME NEW w \in WPs, TaskStep(w) PROVE Remembers(mem', mem) /\ disk' \in {disk, mem, mem'}
  BY <1>2, TaskRemembers
<1>3. ASSUME NEW w \in WPs, Quarantine(w)
      PROVE  Remembers(mem', mem) /\ disk' \in {disk, mem, mem'}
  <2>1. mem' = Failed(mem, w) /\ disk' = mem'
    BY <1>3 DEF Quarantine
  <2> QED
    BY <1>1, <2>1
<1>4. CASE Completes \/ Interrupt
  <2>1. mem' = mem /\ disk' = mem
    BY <1>4 DEF Completes, Interrupt
  <2> QED
    BY <1>1, <2>1
<1>5. ASSUME UNCHANGED runState PROVE Remembers(mem', mem) /\ disk' \in {disk, mem, mem'}
  BY <1>1, <1>5 DEF runState
<1>6. CASE ReadOrphans \/ RecoveryEnds \/ ListReady \/ HasWork \/ EmptyPoll \/ EndSchedule
           \/ Stalls \/ HostReadFails \/ StrayEnds
  BY <1>5, <1>6 DEF ReadOrphans, RecoveryEnds, ListReady, HasWork, EmptyPoll,
     EndSchedule, Stalls, HostReadFails, StrayEnds, AgentFrame, LoopFrame
<1>7. ASSUME NEW w \in WPs,
             \/ RecoverReview(w) \/ RecoveryFails(w) \/ SkipNoAgent(w) \/ AdoptReview(w)
             \/ StartImplementation(w) \/ AgentStep(w) \/ OtherActs(w) \/ OperatorResolves(w)
      PROVE  Remembers(mem', mem) /\ disk' \in {disk, mem, mem'}
  BY <1>5, <1>7 DEF RecoverReview, RecoveryFails, SkipNoAgent, AdoptReview,
     StartImplementation, AgentStep, AgentEdits, AgentCommits, OtherActs,
     OperatorResolves, AgentFrame, OtherFrame, LoopFrame
<1>8. CASE UNCHANGED vars
  BY <1>5, <1>8 DEF vars, runState
<1> QED
  BY <1>2, <1>3, <1>4, <1>6, <1>7, <1>8 DEF OrchestrationNext, LoopStep, Environment
-----------------------------------------------------------------------------
(* The state file never runs ahead of memory.                              *)

MemoryInv == TypeOK /\ Remembers(mem, disk)

LEMMA MemoryInit == OrchestrationInit => MemoryInv
<1> SUFFICES ASSUME OrchestrationInit PROVE MemoryInv
  OBVIOUS
<1>1. mem = disk /\ mem \in [WPs -> WPExecution]
  BY NewRunStateType DEF OrchestrationInit
<1> QED
  BY <1>1, TypeInit, RemembersItself DEF MemoryInv

(* A step leaves memory ahead of the file, and the file ahead of what it   *)
(* was, unless a new run starts.                                           *)
LEMMA MemoryNext ==
    ASSUME MemoryInv, [OrchestrationNext]_vars
    PROVE  /\ MemoryInv'
           /\ ~Orchestrate => Remembers(disk', disk)
<1>0. /\ TypeOK /\ TypeOK' /\ Remembers(mem, disk)
      /\ mem \in [WPs -> WPExecution] /\ disk \in [WPs -> WPExecution]
      /\ mem' \in [WPs -> WPExecution] /\ disk' \in [WPs -> WPExecution]
  BY TypeNext DEF MemoryInv, TypeOK, RunStateTypeOK
<1>1. /\ Remembers(disk, disk) /\ Remembers(mem', mem')
  BY <1>0, RemembersItself
<1>2. CASE Orchestrate
  <2>1. mem' = disk'
    BY <1>2 DEF Orchestrate, save_state
  <2> QED
    BY <1>0, <1>1, <1>2, <2>1 DEF MemoryInv
<1>3. CASE Resume \/ Kill
  <2>1. mem' = disk /\ disk' = disk
    BY <1>3 DEF Resume, Kill, load_state
  <2> QED
    BY <1>0, <1>1, <2>1 DEF MemoryInv
<1>4. CASE ~(Orchestrate \/ Resume \/ Kill)
  <2>1. Remembers(mem', mem) /\ disk' \in {disk, mem, mem'}
    BY <1>0, <1>4, StepRemembers
  <2>2. Remembers(mem', disk)
    BY <1>0, <2>1, RemembersTransitively
  <2> QED
    BY <1>0, <1>1, <2>1, <2>2 DEF MemoryInv
<1> QED
  BY <1>2, <1>3, <1>4

(* Within a run the state file never forgets an agent that was struck off  *)
(* or a review that was rejected, whatever crashes, resumes and saves of   *)
(* other tasks come in between (state.py: save_state, load_state).         *)
THEOREM FileNeverForgets == OrchestrationSpec => RunStateNeverForgets
<1>1. MemoryInv /\ [OrchestrationNext]_vars => MemoryInv'
  BY MemoryNext
<1>2. MemoryInv /\ [OrchestrationNext]_vars =>
        [~(command' = "orchestrate" /\ starts' # starts) =>
           \A w \in WPs :
              /\ disk[w].fallback_agents_tried \subseteq disk'[w].fallback_agents_tried
              /\ disk[w].review_retries <= disk'[w].review_retries]_vars
  <2> SUFFICES ASSUME MemoryInv, [OrchestrationNext]_vars,
                      ~(command' = "orchestrate" /\ starts' # starts)
               PROVE  Remembers(disk', disk)
    BY DEF Remembers
  <2>1. starts \in Nat
    BY DEF MemoryInv, TypeOK, BoundsTypeOK
  <2>2. ~Orchestrate
    BY <2>1 DEF Orchestrate, StartProcess
  <2> QED
    BY <2>2, MemoryNext
<1> QED
  BY <1>1, <1>2, MemoryInit, PTL DEF OrchestrationSpec, RunStateNeverForgets
-----------------------------------------------------------------------------
(* Reviews. Each process rejects at most one review of a WP past the       *)
(* limit: from then on the WP has no task in this process (it is driven,   *)
(* and its task ended or is about to), so the next rejection is the next   *)
(* process's.                                                              *)

Rejections(w) == mem[w].review_retries

Spent == {"idle", "finish", "verdict"}

(* This process may yet see a review of w rejected.                        *)
MayReject(w) == phase \notin Stopped /\ (w \notin driven \/ pc[w] \notin Spent)

CyclesInv ==
    /\ MemoryInv
    /\ phase \notin Stopped => starts > 0
    /\ phase = "schedule" => todo \cap driven = {}
    /\ \A w \in WPs : /\ pc[w] # "idle" => w \in driven
                      /\ Rejections(w) <= MaxRetries + starts
                      /\ MayReject(w) => Rejections(w) < MaxRetries + starts

(* Only a rejection counts, and only for its WP.                           *)
LEMMA TaskRejections ==
    ASSUME TypeOK, NEW w \in WPs, TaskStep(w), NEW v \in WPs
    PROVE  \/ Rejections(v)' = Rejections(v)
           \/ v = w /\ ReviewRejects(w) /\ Rejections(w)' = Rejections(w) + 1
<1> USE DEF Rejections
<1>0. mem \in [WPs -> WPExecution]
  BY DEF TypeOK, RunStateTypeOK
<1>1. ASSUME mem' \in {mem, Failed(mem, w)} PROVE mem'[v].review_retries = mem[v].review_retries
  BY <1>0, <1>1 DEF Failed, WPExecution
<1>2. ASSUME NEW to, NEW next, Request(w, to, next)
      PROVE  mem'[v].review_retries = mem[v].review_retries
  BY <1>1, <1>2 DEF Request
<1>3. CASE Begin(w) \/ ImplementationCommitted(w) \/ ImplementationRefused(w)
           \/ RecordRefusal(w) \/ RetryDue(w) \/ BlockExhausted(w) \/ NoReviewer(w)
           \/ StartReview(w)
  BY <1>1, <1>3 DEF Begin, ImplementationCommitted, ImplementationRefused,
     RecordRefusal, RetryDue, BlockExhausted, NoReviewer, StartReview, runState
<1>4. CASE ReworkCommitted(w) \/ ReworkFails(w) \/ Finish(w) \/ TaskRaises(w)
  BY <1>1, <1>4 DEF ReworkCommitted, ReworkFails, Finish, TaskRaises, runState
<1>5. CASE RetryImplementation(w)
  BY <1>0, <1>5 DEF RetryImplementation, Failed, WPExecution
<1>6. CASE StrikeAgent(w)
  <2>1. PICK agent : \E struck \in {mem[w].fallback_agents_tried \cup {agent}} :
          \/ mem' = [[Failed(mem, w) EXCEPT ![w].fallback_agents_tried = struck]
                        EXCEPT ![w].implementation_retries = 0]
          \/ mem' = [Failed(mem, w) EXCEPT ![w].fallback_agents_tried = struck]
    BY <1>6 DEF StrikeAgent
  <2> QED
    BY <1>0, <2>1 DEF Failed, WPExecution
<1>7. CASE ReviewRejects(w)
  <2>1. mem' = [mem EXCEPT ![w].review_retries = @ + 1]
    BY <1>7 DEF ReviewRejects
  <2> QED
    BY <1>0, <1>7, <2>1 DEF WPExecution
<1>8. CASE SubmitForReview(w) \/ ReviewApproves(w) \/ ActOnRejection(w) \/ BlockRework(w)
  BY <1>2, <1>8 DEF SubmitForReview, ReviewApproves, ActOnRejection, BlockRework
<1> QED
  BY <1>3, <1>4, <1>5, <1>6, <1>7, <1>8 DEF TaskStep

(* A task about to end ends, unless its verdict allows one more rework.    *)
LEMMA SpentStays ==
    ASSUME TypeOK, NEW w \in WPs, TaskStep(w), pc[w] \in Spent
    PROVE  pc'[w] \in Spent \/ ~ReviewLimitExceeded(Rejections(w))
<1>0. pc[w] \in {"finish", "verdict"} /\ pc \in [WPs -> PCs]
  BY TaskShape DEF Spent, TypeOK, TaskTypeOK
<1> USE DEF Spent, AgentPCs, CanResume, Continue, Leave, GoTo
<1>1. CASE Finish(w) \/ TaskRaises(w)
  BY <1>0, <1>1 DEF Finish, TaskRaises
<1>2. CASE ActOnRejection(w)
  <2>1. ASSUME ReviewLimitExceeded(Rejections(w)) PROVE pc'[w] \in {"finish", "idle"}
    BY <1>0, <1>2, <2>1 DEF ActOnRejection, Request, Rejections
  <2> QED
    BY <2>1
<1>3. ~( \/ Begin(w) \/ ImplementationCommitted(w) \/ ImplementationRefused(w)
         \/ RecordRefusal(w) \/ RetryImplementation(w) \/ StrikeAgent(w) \/ RetryDue(w)
         \/ BlockExhausted(w) \/ SubmitForReview(w) \/ NoReviewer(w) \/ StartReview(w) )
  BY <1>0 DEF Begin, ImplementationCommitted, ImplementationRefused, RecordRefusal,
     RetryImplementation, StrikeAgent, RetryDue, BlockExhausted, SubmitForReview,
     NoReviewer, StartReview
<1>4. ~(ReviewApproves(w) \/ ReviewRejects(w) \/ ReworkCommitted(w) \/ ReworkFails(w)
        \/ BlockRework(w))
  BY <1>0 DEF ReviewApproves, ReviewRejects, ReworkCommitted, ReworkFails, BlockRework
<1> QED
  BY <1>1, <1>2, <1>3, <1>4 DEF TaskStep

LEMMA RejectionsType ==
    ASSUME TypeOK
    PROVE  /\ \A w \in WPs : Rejections(w) \in Nat
           /\ starts \in Nat /\ MaxRetries \in Nat
BY BoundsAssumption DEF TypeOK, RunStateTypeOK, WPExecution, Rejections, BoundsTypeOK

LEMMA TaskCycles ==
    ASSUME CyclesInv, MemoryInv', NEW w \in WPs, TaskStep(w)
    PROVE  CyclesInv'
<1>0. /\ TypeOK /\ \A v \in WPs : Rejections(v) \in Nat
      /\ starts \in Nat /\ MaxRetries \in Nat
  BY RejectionsType DEF CyclesInv, MemoryInv
<1>1. UNCHANGED <<phase, todo, driven, starts>> /\ pc[w] # "idle"
  BY TaskShape DEF TaskFrame, loopState
<1>2. ASSUME NEW v \in WPs, v # w
      PROVE  pc'[v] = pc[v] /\ Rejections(v)' = Rejections(v)
  <2>1. pc'[v] = pc[v]
    BY <1>0, <1>2, TaskShape DEF Leave, Continue, GoTo, TypeOK, TaskTypeOK
  <2>2. Rejections(v)' = Rejections(v)
    BY <1>0, <1>2, TaskRejections
  <2> QED
    BY <2>1, <2>2
<1>3. w \in driven
  BY <1>1 DEF CyclesInv
<1>4. CASE Rejections(w)' = Rejections(w)
  <2>1. Rejections(w)' <= MaxRetries + starts'
    BY <1>1, <1>4 DEF CyclesInv
  <2>2. MayReject(w)' => Rejections(w)' < MaxRetries + starts'
    <3> SUFFICES ASSUME MayReject(w)' PROVE Rejections(w) < MaxRetries + starts
      BY <1>1, <1>4
    <3>1. phase \notin Stopped /\ pc'[w] \notin Spent
      BY <1>1, <1>3 DEF MayReject
    <3>2. CASE pc[w] \notin Spent
      BY <3>1, <3>2 DEF CyclesInv, MayReject
    <3>3. CASE ~ReviewLimitExceeded(Rejections(w))
      <4>1. starts > 0 /\ Rejections(w) <= MaxRetries
        BY <1>0, <3>1, <3>3 DEF ReviewLimitExceeded, CyclesInv
      <4> QED
        BY <1>0, <4>1
    <3> QED
      BY <1>0, <3>1, <3>2, <3>3, SpentStays
  <2> QED
    BY <1>1, <1>2, <1>3, <2>1, <2>2 DEF CyclesInv, MayReject
<1>5. CASE ReviewRejects(w) /\ Rejections(w)' = Rejections(w) + 1
  <2>1. phase = "sleep" /\ pc[w] = "reviewing"
    BY <1>5 DEF ReviewRejects, CanResume
  <2>2. Rejections(w) < MaxRetries + starts
    BY <2>1 DEF CyclesInv, MayReject, Spent, Stopped
  <2>3. pc'[w] = "verdict"
    BY <1>0, <1>5 DEF ReviewRejects, Continue, GoTo, TypeOK, TaskTypeOK
  <2>4. Rejections(w)' <= MaxRetries + starts'
    BY <1>0, <1>1, <1>5, <2>2
  <2>5. ~MayReject(w)'
    BY <1>1, <1>3, <2>3 DEF MayReject, Spent
  <2> QED
    BY <1>1, <1>2, <1>3, <2>4, <2>5 DEF CyclesInv, MayReject
<1> QED
  BY <1>0, <1>4, <1>5, TaskRejections

(* A process that has stopped may reject nothing.                          *)
LEMMA StopCycles ==
    ASSUME CyclesInv, MemoryInv', AtRest, phase' \in Stopped, UNCHANGED starts,
           mem' = mem \/ mem' = disk
    PROVE  CyclesInv'
<1>0. /\ TypeOK /\ \A v \in WPs : Rejections(v) \in Nat /\ disk[v].review_retries \in Nat
      /\ starts \in Nat /\ MaxRetries \in Nat
  BY RejectionsType DEF CyclesInv, MemoryInv, TypeOK, RunStateTypeOK, WPExecution
<1>1. \A w \in WPs : pc'[w] = "idle" /\ ~MayReject(w)'
  BY DEF AtRest, MayReject
<1>2. ASSUME NEW w \in WPs PROVE Rejections(w)' <= MaxRetries + starts'
  <2>1. Rejections(w)' <= Rejections(w)
    BY <1>0 DEF CyclesInv, MemoryInv, Remembers, Rejections
  <2>2. Rejections(w)' \in Nat
    BY <1>0 DEF Rejections
  <2> QED
    BY <1>0, <2>1, <2>2 DEF CyclesInv
<1>3. phase' # "schedule"
  BY DEF Stopped
<1> QED
  BY <1>1, <1>2, <1>3 DEF CyclesInv

(* A process that starts may reject one more review of each WP.            *)
LEMMA StartCycles ==
    ASSUME CyclesInv, MemoryInv', Orchestrate \/ Resume
    PROVE  CyclesInv'
<1>0. /\ TypeOK /\ \A v \in WPs : Rejections(v) \in Nat /\ disk[v].review_retries \in Nat
      /\ starts \in Nat /\ MaxRetries \in Nat
  BY RejectionsType DEF CyclesInv, MemoryInv, TypeOK, RunStateTypeOK, WPExecution
<1>1. starts' = starts + 1 /\ driven' = {} /\ phase' = "start" /\ \A w \in WPs : pc'[w] = "idle"
  BY DEF Orchestrate, Resume, StartProcess, AtRest
<1>2. ASSUME NEW w \in WPs PROVE Rejections(w)' < MaxRetries + starts'
  <2>1. CASE Orchestrate
    <3>1. Rejections(w)' = 0
      BY <2>1 DEF Orchestrate, NewRunState, NewWPExecution, Rejections
    <3> QED
      BY <1>0, <1>1, <3>1
  <2>2. CASE Resume
    <3>1. Rejections(w)' = disk[w].review_retries
      BY <2>2 DEF Resume, load_state, Rejections
    <3>2. disk[w].review_retries <= Rejections(w) /\ Rejections(w) <= MaxRetries + starts
      BY DEF CyclesInv, MemoryInv, Remembers, Rejections
    <3> QED
      BY <1>0, <1>1, <3>1, <3>2
  <2> QED
    BY <2>1, <2>2
<1>3. \A w \in WPs : Rejections(w)' \in Nat
  BY DEF MemoryInv, Rejections, TypeOK, RunStateTypeOK, WPExecution
<1> QED
  BY <1>0, <1>1, <1>2, <1>3 DEF CyclesInv

(* The rest leaves pc, rejections and starts alone, drives more WPs if     *)
(* any, and queues none that is driven.                                    *)
LEMMA QuietCycles ==
    ASSUME CyclesInv, MemoryInv', UNCHANGED <<pc, starts>>,
           \A w \in WPs : Rejections(w)' = Rejections(w),
           driven \subseteq driven',
           phase' \notin Stopped => phase \notin Stopped,
           phase' = "schedule" => (todo \cap driven)' = {}
    PROVE  CyclesInv'
BY DEF CyclesInv, MayReject

LEMMA FailedRejections ==
    ASSUME TypeOK, NEW w \in WPs, mem' = Failed(mem, w)
    PROVE  \A v \in WPs : Rejections(v)' = Rejections(v)
BY DEF TypeOK, RunStateTypeOK, WPExecution, Failed, Rejections

(* A dispatched WP was not driven, so it has a rejection to spare.         *)
LEMMA DispatchCycles ==
    ASSUME CyclesInv, MemoryInv', NEW w \in WPs, AdoptReview(w) \/ StartImplementation(w)
    PROVE  CyclesInv'
<1>0. TypeOK
  BY DEF CyclesInv, MemoryInv
<1>1. /\ UNCHANGED <<phase, starts, mem>> /\ phase = "schedule" /\ w \in todo
      /\ todo' = todo \ {w} /\ driven' = driven \cup {w}
      /\ \E label \in {"begin", "begin_review"} : pc' = [pc EXCEPT ![w] = label]
  BY DEF AdoptReview, StartImplementation, Scheduling, Drive, Dispatch, GoTo, runState
<1>2. w \notin driven
  BY <1>1 DEF CyclesInv
<1>3. \A v \in WPs : Rejections(v)' = Rejections(v)
  BY <1>1 DEF Rejections
<1>4. \A v \in WPs : pc'[v] # "idle" => v \in driven'
  BY <1>0, <1>1 DEF CyclesInv, TypeOK, TaskTypeOK
<1>5. ASSUME NEW v \in WPs PROVE MayReject(v)' => MayReject(v)
  BY <1>0, <1>1, <1>2 DEF MayReject, TypeOK, TaskTypeOK
<1>6. phase' = "schedule" => (todo \cap driven)' = {}
  BY <1>1 DEF CyclesInv
<1> QED
  BY <1>1, <1>3, <1>4, <1>5, <1>6 DEF CyclesInv

LEMMA CyclesInit == OrchestrationInit => CyclesInv
<1> SUFFICES ASSUME OrchestrationInit PROVE CyclesInv
  OBVIOUS
<1>1. /\ phase \in Stopped /\ phase # "schedule" /\ starts = 0 /\ mem = NewRunState
      /\ \A w \in WPs : pc[w] = "idle"
  BY DEF OrchestrationInit, Stopped
<1>2. \A w \in WPs : Rejections(w) <= MaxRetries + starts
  BY <1>1, BoundsAssumption DEF Rejections, NewRunState, NewWPExecution
<1> QED
  BY <1>1, <1>2, MemoryInit DEF CyclesInv, MayReject

LEMMA CyclesNext == CyclesInv /\ [OrchestrationNext]_vars => CyclesInv'
<1> SUFFICES ASSUME CyclesInv, [OrchestrationNext]_vars PROVE CyclesInv'
  OBVIOUS
<1>0. MemoryInv' /\ TypeOK
  BY MemoryNext DEF CyclesInv, MemoryInv
<1>1. ASSUME NEW w \in WPs, TaskStep(w) PROVE CyclesInv'
  BY <1>0, <1>1, TaskCycles
<1>2. CASE Orchestrate \/ Resume
  BY <1>0, <1>2, StartCycles
<1>3. CASE Completes \/ Stalls \/ Kill \/ Interrupt \/ HostReadFails
           \/ \E w \in WPs : RecoveryFails(w)
  <2>1. AtRest /\ phase' \in Stopped /\ UNCHANGED starts /\ (mem' = mem \/ mem' = disk)
    BY <1>3 DEF Completes, Stalls, Kill, Interrupt, HostReadFails, RecoveryFails, Stop,
       Stopped, runState, bounds
  <2> QED
    BY <1>0, <2>1, StopCycles
<1>4. ASSUME NEW w \in WPs, AdoptReview(w) \/ StartImplementation(w) PROVE CyclesInv'
  BY <1>0, <1>4, DispatchCycles
<1>5. CASE ReadOrphans \/ RecoveryEnds \/ ListReady \/ HasWork \/ EmptyPoll \/ EndSchedule
  <2>1. UNCHANGED <<pc, starts, mem, driven>>
    BY <1>5 DEF ReadOrphans, RecoveryEnds, ListReady, HasWork, EmptyPoll, EndSchedule,
       LoopFrame, runState, bounds
  <2>2. phase \notin Stopped
    BY <1>5 DEF ReadOrphans, RecoveryEnds, ListReady, HasWork, EmptyPoll, EndSchedule,
       CanResume, Stopped
  <2>3. phase' = "schedule" => (todo \cap driven)' = {}
    BY <1>5 DEF ReadOrphans, RecoveryEnds, ListReady, HasWork, EmptyPoll, EndSchedule,
       Schedulable, select_schedulable_wp_ids
  <2>4. \A w \in WPs : Rejections(w)' = Rejections(w)
    BY <2>1 DEF Rejections
  <2> QED
    BY <1>0, <2>1, <2>2, <2>3, <2>4, QuietCycles
<1>6. ASSUME NEW w \in WPs, Quarantine(w) PROVE CyclesInv'
  <2>1. /\ UNCHANGED <<pc, starts, phase>> /\ mem' = Failed(mem, w)
        /\ phase = "schedule" /\ driven' = driven \cup {w} /\ todo' = todo \ {w}
    BY <1>6 DEF Quarantine, Scheduling, Drive
  <2>2. (todo \cap driven)' = {}
    BY <2>1 DEF CyclesInv
  <2> QED
    BY <1>0, <2>1, <2>2, FailedRejections, QuietCycles
<1>7. ASSUME NEW w \in WPs, RecoverReview(w) \/ SkipNoAgent(w) PROVE CyclesInv'
  <2>1. /\ UNCHANGED <<pc, starts, phase, mem, driven>>
        /\ todo' \subseteq todo
    BY <1>7 DEF RecoverReview, SkipNoAgent, Scheduling, LoopFrame, runState, bounds
  <2>2. phase' = "schedule" => (todo \cap driven)' = {}
    BY <2>1 DEF CyclesInv
  <2>3. \A v \in WPs : Rejections(v)' = Rejections(v)
    BY <2>1 DEF Rejections
  <2> QED
    BY <1>0, <2>1, <2>2, <2>3, QuietCycles
<1>8. ASSUME UNCHANGED <<pc, starts, mem, loopState>> PROVE CyclesInv'
  <2>1. UNCHANGED <<phase, todo, driven>> /\ \A v \in WPs : Rejections(v)' = Rejections(v)
    BY <1>8 DEF loopState, Rejections
  <2>2. phase' = "schedule" => (todo \cap driven)' = {}
    BY <2>1 DEF CyclesInv
  <2> QED
    BY <1>0, <1>8, <2>1, <2>2, QuietCycles
<1>9. ASSUME NEW w \in WPs, AgentStep(w) \/ OtherActs(w) \/ OperatorResolves(w)
      PROVE  CyclesInv'
  BY <1>8, <1>9 DEF AgentStep, AgentEdits, AgentCommits, OtherActs, OperatorResolves,
     AgentFrame, OtherFrame, runState, bounds
<1>10. CASE StrayEnds \/ UNCHANGED vars
  BY <1>8, <1>10 DEF StrayEnds, AgentFrame, vars, runState, bounds
<1> QED
  BY <1>1, <1>2, <1>3, <1>4, <1>5, <1>6, <1>7, <1>9, <1>10
  DEF OrchestrationNext, LoopStep, Environment

(* The limit on rejected reviews is passed at most once per process,       *)
(* although the count survives every crash and resume and is tested only   *)
(* after a rejection (loop.py: review_retries).                            *)
THEOREM ReviewsAreBounded == OrchestrationSpec => []ReviewCyclesBounded
<1>1. CyclesInv => ReviewCyclesBounded
  BY DEF CyclesInv, ReviewCyclesBounded, Rejections
<1> QED
  BY <1>1, CyclesInit, CyclesNext, PTL DEF OrchestrationSpec
-----------------------------------------------------------------------------
(* Errors. Without a fault, and with a reviewer to choose, a task ends in  *)
(* a terminal lane or with its error recorded, and errors are never        *)
(* forgotten while the process lives.                                      *)

Undisturbed == faults = 0 /\ starts = 1 /\ Config[command].has_reviewer

Explained(w) == lane[w] \in TerminalLanes \/ mem[w].last_error

ExplainedInv ==
    /\ SlotsInv
    /\ Undisturbed /\ phase \notin Stopped =>
          \A w \in driven : pc[w] \in {"idle", "finish"} => Explained(w)

(* A task has at most one fault at a time.                                 *)
LEMMA TaskFaults ==
    ASSUME NEW w \in WPs, TaskStep(w)
    PROVE  faults' \in {faults, faults + 1}
<1> USE DEF Fault, NoFault, Request, Accepted, Rejected, Lost, GateRefuses
<1>1. CASE Begin(w) \/ ImplementationCommitted(w) \/ ImplementationRefused(w)
  BY <1>1 DEF Begin, ImplementationCommitted, ImplementationRefused
<1>2. CASE RecordRefusal(w) \/ RetryImplementation(w) \/ StrikeAgent(w) \/ RetryDue(w)
  BY <1>2 DEF RecordRefusal, RetryImplementation, StrikeAgent, RetryDue
<1>3. CASE BlockExhausted(w) \/ SubmitForReview(w) \/ NoReviewer(w) \/ StartReview(w)
  BY <1>3 DEF BlockExhausted, SubmitForReview, NoReviewer, StartReview
<1>4. CASE ReviewApproves(w) \/ ReviewRejects(w) \/ ActOnRejection(w)
  BY <1>4 DEF ReviewApproves, ReviewRejects, ActOnRejection
<1>5. CASE ReworkCommitted(w) \/ ReworkFails(w) \/ BlockRework(w)
  BY <1>5 DEF ReworkCommitted, ReworkFails, BlockRework
<1>6. CASE Finish(w) \/ TaskRaises(w)
  BY <1>6 DEF Finish, TaskRaises
<1> QED
  BY <1>1, <1>2, <1>3, <1>4, <1>5, <1>6 DEF TaskStep

(* How a transition without a fault ends a task.                           *)
LEMMA RequestExplains ==
    ASSUME TypeOK, NEW w \in WPs, NEW to, NEW next, Request(w, to, next), NoFault,
           next \in {"idle", "finish"} => to \in TerminalLanes,
           pc'[w] \in {"idle", "finish"}
    PROVE  Explained(w)'
<1> USE DEF TypeOK, HostTypeOK, RunStateTypeOK, TaskTypeOK
<1>1. CASE Accepted(w, to) /\ Continue(w, next)
  BY <1>1 DEF Accepted, Move, Continue, GoTo, Explained
<1>2. CASE Rejected(w, to) /\ mem' = Failed(mem, w)
  BY <1>2 DEF Failed, WPExecution, Explained
<1>3. CASE Lost(w, to)
  BY <1>3 DEF Lost, Fault, NoFault, BoundsTypeOK
<1> QED
  BY <1>1, <1>2, <1>3 DEF Request

LEMMA TaskExplains ==
    ASSUME TypeOK, NEW w \in WPs, TaskStep(w), NoFault, Config[command].has_reviewer,
           pc[w] = "finish" => Explained(w), pc'[w] \in {"idle", "finish"}
    PROVE  Explained(w)'
<1> USE DEF TypeOK, TaskTypeOK, Continue, GoTo
<1>0. ~Fault
  BY DEF Fault, NoFault, BoundsTypeOK
<1>1. Explained(w)' \/ mem' # Failed(mem, w)
  BY DEF Failed, Explained, RunStateTypeOK, WPExecution
<1>2. CASE Begin(w) \/ ImplementationCommitted(w) \/ ImplementationRefused(w)
  BY <1>0, <1>2 DEF Begin, ImplementationCommitted, ImplementationRefused
<1>3. CASE RecordRefusal(w) \/ BlockExhausted(w)
  BY <1>1, <1>3 DEF RecordRefusal, BlockExhausted
<1>4. CASE RetryImplementation(w) \/ StrikeAgent(w) \/ RetryDue(w) \/ ReviewRejects(w)
  BY <1>4 DEF RetryImplementation, StrikeAgent, RetryDue, ReviewRejects
<1>5. CASE ReworkCommitted(w) \/ ReworkFails(w)
  BY <1>5 DEF ReworkCommitted, ReworkFails
<1>6. CASE SubmitForReview(w)
  BY <1>6, RequestExplains DEF SubmitForReview
<1>7. CASE ReviewApproves(w) \/ ActOnRejection(w) \/ BlockRework(w)
  BY <1>7, RequestExplains DEF ReviewApproves, ActOnRejection, BlockRework, TerminalLanes
<1>8. CASE StartReview(w)
  BY <1>0, <1>1, <1>8 DEF StartReview
<1>9. CASE Finish(w)
  BY <1>9 DEF Finish, Explained, host
<1>10. CASE NoReviewer(w) \/ TaskRaises(w)
  BY <1>0, <1>10 DEF NoReviewer, TaskRaises
<1> QED
  BY <1>2, <1>3, <1>4, <1>5, <1>6, <1>7, <1>8, <1>9, <1>10 DEF TaskStep

(* An explained WP stays explained: its error is remembered, and nobody    *)
(* takes it out of a terminal lane while the process lives.                *)
LEMMA ExplainedStays ==
    ASSUME TypeOK, NEW w \in WPs, Explained(w), Remembers(mem', mem),
           lane[w] \in TerminalLanes => lane'[w] \in TerminalLanes
    PROVE  Explained(w)'
BY DEF Explained, Remembers

LEMMA QuietExplained ==
    ASSUME ExplainedInv, SlotsInv', Remembers(mem', mem), UNCHANGED <<command, driven, pc>>,
           starts' = starts, faults' = 0 => faults = 0,
           phase \in Stopped => phase' \in Stopped,
           \A w \in WPs : lane[w] \in TerminalLanes => lane'[w] \in TerminalLanes
    PROVE  ExplainedInv'
<1> SUFFICES ASSUME Undisturbed', phase' \notin Stopped, NEW w \in driven,
                    pc'[w] \in {"idle", "finish"}
             PROVE  Explained(w)'
  BY DEF ExplainedInv
<1>1. TypeOK /\ w \in WPs
  BY DEF ExplainedInv, SlotsInv, TypeOK, LoopTypeOK
<1>2. Explained(w)
  BY DEF ExplainedInv, Undisturbed
<1> QED
  BY <1>1, <1>2, ExplainedStays

LEMMA ExplainedNext == ExplainedInv /\ [OrchestrationNext]_vars => ExplainedInv'
<1> SUFFICES ASSUME ExplainedInv, [OrchestrationNext]_vars PROVE ExplainedInv'
  OBVIOUS
<1>0. TypeOK /\ TypeOK' /\ SlotsInv'
  BY TypeNext, SlotsNext DEF ExplainedInv, SlotsInv
<1> USE DEF BoundsTypeOK, Fault, NoFault
<1>1. ASSUME NEW w \in WPs, TaskStep(w) PROVE ExplainedInv'
  <2>1. UNCHANGED <<phase, command, driven, starts>> /\ Remembers(mem', mem)
    BY <1>0, <1>1, TaskShape, TaskRemembers DEF TaskFrame, loopState
  <2>2. faults' \in {faults, faults + 1}
    BY <1>1, TaskFaults
  <2> SUFFICES ASSUME Undisturbed', phase' \notin Stopped, NEW v \in driven,
                      pc'[v] \in {"idle", "finish"}
               PROVE  Explained(v)'
    BY <1>0, <2>1 DEF ExplainedInv
  <2>3. Undisturbed /\ NoFault /\ v \in WPs
    BY <1>0, <2>1, <2>2 DEF Undisturbed, TypeOK, LoopTypeOK
  <2>4. pc[v] \in {"idle", "finish"} => Explained(v)
    BY <2>1, <2>3 DEF ExplainedInv
  <2>5. CASE v = w
    BY <1>0, <1>1, <2>3, <2>4, <2>5, TaskExplains DEF Undisturbed
  <2>6. CASE v # w
    BY <1>0, <1>1, <2>1, <2>3, <2>4, <2>6, TaskLocal, ExplainedStays DEF Untouched
  <2> QED
    BY <2>5, <2>6
<1>2. CASE Completes \/ Stalls \/ Kill \/ Interrupt \/ HostReadFails
           \/ \E w \in WPs : RecoveryFails(w)
  <2>1. phase' \in Stopped
    BY <1>2 DEF Completes, Stalls, Kill, Interrupt, HostReadFails, RecoveryFails, Stop, Stopped
  <2> QED
    BY <1>0, <2>1 DEF ExplainedInv
<1>3. CASE Orchestrate \/ Resume
  <2>1. driven' = {}
    BY <1>3 DEF Orchestrate, Resume, StartProcess
  <2> QED
    BY <1>0, <2>1 DEF ExplainedInv
<1>4. CASE ReadOrphans \/ RecoveryEnds \/ ListReady \/ HasWork \/ EmptyPoll \/ EndSchedule
  <2>1. UNCHANGED <<command, driven, pc, starts, faults, lane, mem>> /\ phase \notin Stopped
    BY <1>4 DEF ReadOrphans, RecoveryEnds, ListReady, HasWork, EmptyPoll, EndSchedule,
       LoopFrame, bounds, host, runState, CanResume, Stopped
  <2>2. Remembers(mem', mem)
    BY <1>0, <2>1, RemembersItself DEF TypeOK, RunStateTypeOK
  <2> QED
    BY <1>0, <2>1, <2>2, QuietExplained
<1>5. ASSUME NEW w \in WPs, RecoverReview(w) PROVE ExplainedInv'
  <2>1. /\ UNCHANGED <<command, driven, pc, starts, faults, mem, phase>>
        /\ lane[w] \notin TerminalLanes /\ Move(w, "for_review", "self")
    BY <1>5 DEF RecoverReview, LoopFrame, bounds, runState
  <2>2. Remembers(mem', mem)
    BY <1>0, <2>1, RemembersItself DEF TypeOK, RunStateTypeOK
  <2>3. \A v \in WPs : lane[v] \in TerminalLanes => lane'[v] = lane[v]
    BY <1>0, <2>1 DEF Move, TypeOK, HostTypeOK
  <2> QED
    BY <1>0, <2>1, <2>2, <2>3, QuietExplained
<1>6. ASSUME NEW w \in WPs, SkipNoAgent(w) PROVE ExplainedInv'
  <2>1. UNCHANGED <<command, driven, pc, starts, faults, lane, mem, phase>>
    BY <1>6 DEF SkipNoAgent, Scheduling, host, runState
  <2>2. Remembers(mem', mem)
    BY <1>0, <2>1, RemembersItself DEF TypeOK, RunStateTypeOK
  <2> QED
    BY <1>0, <2>1, <2>2, QuietExplained
<1>7. ASSUME NEW w \in WPs, AdoptReview(w) \/ StartImplementation(w) \/ Quarantine(w)
      PROVE  ExplainedInv'
  <2>1. /\ UNCHANGED <<command, starts, phase>> /\ driven' = driven \cup {w}
        /\ Remembers(mem', mem)
    <3>1. UNCHANGED mem \/ mem' = Failed(mem, w)
      BY <1>7 DEF AdoptReview, StartImplementation, Quarantine, runState
    <3>2. Remembers(mem', mem)
      BY <1>0, <3>1, RemembersItself, FailedRemembers DEF TypeOK, RunStateTypeOK
    <3> QED
      BY <1>7, <3>2 DEF AdoptReview, StartImplementation, Quarantine, Scheduling, Drive
  <2>2. faults' \in {faults, faults + 1}
    BY <1>7 DEF AdoptReview, StartImplementation, Quarantine
  <2> SUFFICES ASSUME Undisturbed', phase' \notin Stopped, NEW v \in driven',
                      pc'[v] \in {"idle", "finish"}
               PROVE  Explained(v)'
    BY <1>0 DEF ExplainedInv
  <2>3. Undisturbed /\ faults' = faults /\ v \in WPs
    BY <1>0, <2>1, <2>2 DEF Undisturbed, TypeOK, LoopTypeOK
  <2>4. CASE v = w
    <3>1. mem' = Failed(mem, w)
      BY <1>0, <1>7, <2>4 DEF AdoptReview, StartImplementation, Quarantine, Dispatch, GoTo,
         TypeOK, TaskTypeOK
    <3> QED
      BY <1>0, <2>4, <3>1 DEF Failed, Explained, TypeOK, RunStateTypeOK, WPExecution
  <2>5. CASE v # w
    <3>1. v \in driven /\ pc'[v] = pc[v] /\ lane'[v] = lane[v]
      <4>1. UNCHANGED lane \/ \E to : Move(w, to, "self")
        BY <1>7 DEF AdoptReview, StartImplementation, Quarantine, host
      <4>2. UNCHANGED pc \/ \E label : GoTo(w, label)
        BY <1>7 DEF AdoptReview, StartImplementation, Quarantine, Dispatch
      <4> QED
        BY <1>0, <2>1, <2>3, <2>5, <4>1, <4>2
        DEF Move, GoTo, TypeOK, HostTypeOK, TaskTypeOK
    <3>2. Explained(v)
      BY <2>1, <2>3, <3>1 DEF ExplainedInv
    <3> QED
      BY <1>0, <2>1, <2>3, <3>1, <3>2, ExplainedStays
  <2> QED
    BY <2>4, <2>5
<1>8. ASSUME NEW w \in WPs, OtherActs(w) PROVE ExplainedInv'
  <2>1. UNCHANGED <<command, driven, pc, starts, faults, mem, phase>>
    BY <1>8 DEF OtherActs, OtherFrame, loopState, runState
  <2>2. lane[w] \notin TerminalLanes /\ \E to : Move(w, to, "other")
    BY <1>8 DEF OtherActs, OtherEdges, TerminalLanes
  <2>3. \A v \in WPs : lane[v] \in TerminalLanes => lane'[v] = lane[v]
    BY <1>0, <2>2 DEF Move, TypeOK, HostTypeOK
  <2>4. Remembers(mem', mem)
    BY <1>0, <2>1, RemembersItself DEF TypeOK, RunStateTypeOK
  <2> QED
    BY <1>0, <2>1, <2>3, <2>4, QuietExplained
<1>9. ASSUME NEW w \in WPs, OperatorResolves(w) PROVE ExplainedInv'
  BY <1>0, <1>9 DEF OperatorResolves, OtherFrame, loopState, ExplainedInv
<1>10. CASE (\E w \in WPs : AgentStep(w)) \/ StrayEnds \/ UNCHANGED vars
  <2>1. UNCHANGED <<command, driven, pc, starts, faults, lane, mem, phase>>
    BY <1>10 DEF AgentStep, AgentEdits, AgentCommits, StrayEnds, AgentFrame, vars,
       loopState, host, runState, bounds
  <2>2. Remembers(mem', mem)
    BY <1>0, <2>1, RemembersItself DEF TypeOK, RunStateTypeOK
  <2> QED
    BY <1>0, <2>1, <2>2, QuietExplained
<1> QED
  BY <1>1, <1>2, <1>3, <1>4, <1>5, <1>6, <1>7, <1>8, <1>9, <1>10
  DEF OrchestrationNext, LoopStep, Environment

(* Without a fault and with a reviewer configured, the report of a stalled *)
(* mission names a cause for every WP the process drove and did not bring  *)
(* to a terminal lane (loop.py: DeadlockError, last_error).                *)
THEOREM StallsAreExplained == OrchestrationSpec => StallExplainedBarFaults
<1>1. OrchestrationInit => ExplainedInv
  BY SlotsInit DEF OrchestrationInit, ExplainedInv, Stopped
<1>2. ExplainedInv /\ [OrchestrationNext]_vars =>
        [(/\ phase' = "stalled" /\ phase' # phase
          /\ faults = 0 /\ starts = 1 /\ Config[command].has_reviewer) =>
            \A w \in driven : lane[w] \notin TerminalLanes => mem[w].last_error]_vars
  <2> SUFFICES ASSUME ExplainedInv, [OrchestrationNext]_vars,
                      phase' = "stalled", phase' # phase, Undisturbed,
                      NEW w \in driven
               PROVE  Explained(w)
    BY DEF Undisturbed, Explained
  <2>1. phase = "read" /\ active = {} /\ w \in WPs
    BY OrderlyEnd DEF ExplainedInv, SlotsInv, Completes, Stalls, NothingToDo, TypeOK, LoopTypeOK
  <2>2. pc[w] = "idle"
    BY <2>1 DEF ExplainedInv, SlotsInv, SlotsConserved
  <2> QED
    BY <2>1, <2>2 DEF ExplainedInv, Stopped
<1> QED
  BY <1>1, <1>2, ExplainedNext, PTL DEF OrchestrationSpec, StallExplainedBarFaults
=============================================================================
