--------------------------- MODULE LaneWorkProofs ---------------------------
(***************************************************************************)
(* One lane worktree, for any number of work packages (WPs), attempts and  *)
(* reworks: agents do not outlive their attempt, and a WP nobody disturbs  *)
(* commits and advances on its own work only.                              *)
(***************************************************************************)
EXTENDS LaneWork, FiniteSetTheorems, TLAPS

(* Everything about one WP that a property below rests on.                 *)
OffCheck == Gate \ {"check"}

(* While nobody else has touched the worktree, all edits in it are of w,   *)
(* and what was committed since the base was taken holds work of w.        *)
Alone(w) ==
    /\ At(w, OffCheck) => head = "lane"
    /\ Window(w) => dirty \subseteq {w} /\ staged \subseteq {w}
    /\ task[w].output \/ task[w].on_lane => task[w].worked
    /\ At(w, {"count"}) /\ ~task[w].based => task[w].worked

WPInv(w) ==
    /\ child[w] # "none" => At(w, {"run", "term"})
    /\ At(w, Gate) => w \notin holders /\ task[w].role # "review"
    /\ At(w, OffCheck) => lane_branch
    /\ ~task[w].intruded => Alone(w)

OneGate == \A v, w \in WPs : At(v, Gate) /\ At(w, Gate) => v = w

LaneInv == TypeOK /\ OneGate /\ \A w \in WPs : WPInv(w)

-----------------------------------------------------------------------------
(* The records a task may hold                                             *)

LEMMA LocalsOf ==
    /\ \A how \in {"idle", "ready"} \cup Over : Fresh(how) \in Locals
    /\ \A my \in Locals : \A at : Rebased(my, at) \in Locals
    /\ \A my \in Locals : ToReview(my) \in Locals
BY DEF Locals, Fresh, Rebased, ToReview, Over

LEMMA RebasedOf ==
    ASSUME NEW my \in Locals, NEW at
    PROVE  LET new == Rebased(my, at) IN
             /\ new \in Locals /\ new.at = my.at /\ new.intruded = my.intruded
             /\ new.output = FALSE /\ new.on_lane = FALSE
             /\ new.attempts = my.attempts /\ new.reworks = my.reworks
BY DEF Locals, Rebased

(* A step of the task of w leaves the locals of all other tasks alone.     *)
LEMMA SetsOne ==
    ASSUME TypeOK, NEW w \in WPs, NEW my \in Locals, Sets(w, my)
    PROVE  /\ task' \in [WPs -> Locals]
           /\ task'[w] = my
           /\ \A v \in WPs \ {w} : task'[v] = task[v]
BY DEF Sets, TypeOK

LEMMA TypeInit == Init => TypeOK
BY LocalsOf, BoundsAssumption DEF Init, TypeOK, Fresh

LEMMA InvInit == Init => LaneInv
<1> SUFFICES ASSUME Init PROVE OneGate /\ \A w \in WPs : WPInv(w)
  BY TypeInit DEF LaneInv
<1>1. \A w \in WPs : task[w] = Fresh("idle")
  BY DEF Init
<1> QED
  BY <1>1 DEF Init, OneGate, WPInv, Alone, At, Gate, OffCheck, Window, Fresh

-----------------------------------------------------------------------------
(* The loop                                                                *)

(* A step of the task of w that leaves the others, and adds no edits.      *)
LEMMA OwnStep ==
    ASSUME LaneInv, TypeOK', NEW w \in WPs, NEW my \in Locals, Sets(w, my),
           \A v \in WPs \ {w} : child'[v] = child[v],
           UNCHANGED <<holders, lane_branch>>,
           LoopFree \/ UNCHANGED head,
           my.at \in Gate => LoopFree \/ At(w, Gate),
           dirty' \cup staged' \subseteq dirty \cup staged,
           WPInv(w)'
    PROVE  LaneInv'
<1>1. task'[w] = my /\ \A v \in WPs \ {w} : task'[v] = task[v]
  BY SetsOne DEF LaneInv
<1>2. OneGate'
  BY <1>1 DEF LaneInv, OneGate, At, LoopFree
<1>3. ASSUME NEW v \in WPs \ {w} PROVE WPInv(v)'
  <2>1. task'[v] = task[v] /\ child'[v] = child[v] /\ WPInv(v)
    BY <1>1 DEF LaneInv
  <2>2. At(v, OffCheck) => UNCHANGED head
    BY DEF LoopFree, At, OffCheck
  <2> QED
    BY <2>1, <2>2 DEF WPInv, Alone, At, Window
<1> QED
  BY <1>2, <1>3 DEF LaneInv

(* The task of w is over.                                                  *)
LEMMA EndsKeeps ==
    ASSUME LaneInv, TypeOK', NEW w \in WPs, NEW how \in Over, Ends(w, how),
           child'[w] = "none", \A v \in WPs \ {w} : child'[v] = child[v],
           UNCHANGED <<holders, lane_branch, dirty, staged>>, LoopFree \/ UNCHANGED head
    PROVE  LaneInv'
<1>1. Fresh(how) \in Locals /\ Sets(w, Fresh(how))
  BY LocalsOf DEF Ends
<1>2. task'[w] = Fresh(how)
  BY <1>1, SetsOne DEF LaneInv
<1>3. WPInv(w)' /\ Fresh(how).at \notin Gate
  BY <1>2 DEF WPInv, Alone, At, Gate, OffCheck, Window, Fresh, Over
<1> QED
  BY <1>1, <1>3, OwnStep

(* The task of w starts anew with an agent, or goes on to one: what it     *)
(* knows of its output stays, or is reset.                                 *)
LEMMA OutsideGate ==
    ASSUME LaneInv, TypeOK', NEW w \in WPs, NEW my \in Locals, Sets(w, my),
           my.at \in {"ready", "run", "term"}, Window(w), my.intruded = task[w].intruded,
           \/ my.output = task[w].output /\ my.on_lane = task[w].on_lane
              /\ my.worked = task[w].worked
           \/ ~my.output /\ ~my.on_lane,
           my.at = "ready" => child'[w] = "none",
           \A v \in WPs \ {w} : child'[v] = child[v],
           UNCHANGED <<holders, lane_branch, dirty, staged>>, LoopFree \/ UNCHANGED head
    PROVE  LaneInv'
<1>1. task'[w] = my
  BY SetsOne DEF LaneInv
<1>2. WPInv(w) /\ my.at \notin Gate
  BY DEF LaneInv, Gate
<1>3. WPInv(w)'
  BY <1>1, <1>2 DEF WPInv, Alone, At, Gate, OffCheck, Window, Over
<1> QED
  BY <1>2, <1>3, OwnStep

(* What a task remembers when it tries again.                              *)
Retried(my) == [my EXCEPT !.at = "ready", !.attempts = @ + 1]
Reworked(my) == [my EXCEPT !.at = "ready", !.role = "rework", !.reworks = @ + 1]

LEMMA TriesAgain ==
    ASSUME NEW my \in Locals, NEW new \in {Retried(my), Reworked(my)}
    PROVE  /\ new \in Locals /\ new.at = "ready" /\ new.intruded = my.intruded
           /\ new.output = my.output /\ new.on_lane = my.on_lane /\ new.worked = my.worked
<1>1. my.attempts + 1 \in Nat /\ my.reworks + 1 \in Nat
  BY DEF Locals
<1>2. CASE new = Retried(my)
  BY <1>1, <1>2 DEF Locals, Retried
<1>3. CASE new = Reworked(my)
  BY <1>1, <1>3 DEF Locals, Reworked
<1> QED
  BY <1>2, <1>3

(* A run that did not succeed keeps the invariant.                         *)
LEMMA FailsKeeps ==
    ASSUME LaneInv, TypeOK', NEW w \in WPs, At(w, {"run", "term"}), Fails(w),
           child'[w] = "none", \A v \in WPs \ {w} : child'[v] = child[v],
           UNCHANGED <<tree, holders>>
    PROVE  LaneInv'
<1>0. /\ task[w] \in Locals /\ Window(w)
      /\ UNCHANGED <<holders, lane_branch, head, dirty, staged>>
  BY DEF LaneInv, TypeOK, At, Window, Over, tree
<1>1. CASE \E how \in {"failed", "blocked"} : Ends(w, how)
  BY <1>0, <1>1, EndsKeeps DEF Over
<1>2. CASE Sets(w, Retried(task[w]))
  BY <1>0, <1>2, TriesAgain, OutsideGate
<1>3. CASE Sets(w, Reworked(task[w]))
  BY <1>0, <1>3, TriesAgain, OutsideGate
<1> QED
  BY <1>1, <1>2, <1>3 DEF Fails, Retried, Reworked

(* The WP advances: its base is taken anew, and nothing is known of it.    *)
LEMMA AdvanceKeeps ==
    ASSUME LaneInv, TypeOK', NEW w \in WPs, At(w, Gate), Advance(w), UNCHANGED <<tree, procs>>
    PROVE  LaneInv'
<1>0. /\ task[w] \in Locals /\ Window(w) /\ child[w] = "none"
      /\ UNCHANGED <<child, holders, lane_branch, head, dirty, staged>>
  BY DEF LaneInv, TypeOK, WPInv, At, Gate, Window, Over, tree, procs
<1> DEFINE my == Rebased(ToReview(task[w]), head)
<1>1. my \in Locals /\ Sets(w, my)
  BY <1>0, LocalsOf DEF Advance
<1>2. /\ my.at = "ready" /\ my.intruded = task[w].intruded
      /\ my.output = FALSE /\ my.on_lane = FALSE
  BY <1>0 DEF Rebased, ToReview, Locals
<1> HIDE DEF my
<1> QED
  BY <1>0, <1>1, <1>2, OutsideGate

(* The WP goes on within the gate, or into it: nothing else changes.       *)
LEMMA GateStep ==
    ASSUME LaneInv, TypeOK', NEW w \in WPs, NEW step \in Gate, Goes(w, step),
           At(w, {"run"} \cup Gate), At(w, {"run"}) => LoopFree /\ w \notin holders,
           At(w, {"run"}) => step = "check" /\ task[w].role # "review",
           step # "check" => lane_branch /\ (task[w].intruded \/ head = "lane"),
           step = "count" => task[w].based,
           child'[w] = "none", \A v \in WPs \ {w} : child'[v] = child[v],
           UNCHANGED <<holders, lane_branch, head>>,
           dirty' \cup staged' \subseteq dirty \cup staged
    PROVE  LaneInv'
<1> DEFINE my == [task[w] EXCEPT !.at = step]
<1>1. task[w] \in Locals /\ WPInv(w) /\ Window(w)
  BY DEF LaneInv, TypeOK, At, Window, Gate, Over
<1>2. /\ my \in Locals /\ my.at = step /\ my.role = task[w].role /\ my.based = task[w].based
      /\ my.intruded = task[w].intruded /\ my.output = task[w].output
      /\ my.on_lane = task[w].on_lane /\ my.worked = task[w].worked
  BY <1>1 DEF Locals
<1>3. Sets(w, my)
  BY DEF Goes
<1> HIDE DEF my
<1>4. task'[w] = my
  BY <1>2, <1>3, SetsOne DEF LaneInv
<1>5. WPInv(w)'
  BY <1>1, <1>2, <1>4 DEF WPInv, Alone, At, OffCheck, Window, Gate, Over
<1> QED
  BY <1>2, <1>3, <1>5, OwnStep DEF At

(* A refused commit ends the task.                                         *)
LEMMA NotCommittedKeeps ==
    ASSUME LaneInv, TypeOK', NEW w \in WPs, At(w, Gate), NotCommitted(w), UNCHANGED <<tree, procs>>
    PROVE  LaneInv'
<1>1. child[w] = "none" /\ UNCHANGED <<child, holders, lane_branch, head, dirty, staged>>
  BY DEF LaneInv, TypeOK, WPInv, At, Gate, tree, procs
<1>2. PICK how \in Over : Ends(w, how)
  BY DEF NotCommitted, Over
<1> QED
  BY <1>1, <1>2, EndsKeeps

LEMMA ExecuteKeeps ==
    ASSUME LaneInv, TypeOK', NEW w \in WPs, Allocate(w) \/ execute_agent(w)
    PROVE  LaneInv'
<1>0. task[w] \in Locals /\ WPInv(w) /\ child \in [WPs -> {"none", "running", "exited"}]
  BY DEF LaneInv, TypeOK
<1>1. CASE Allocate(w)
  <2>1. PICK role \in {"implement", "review"} :
            Sets(w, Rebased([Fresh("ready") EXCEPT !.role = role,
                             !.intruded = (dirty \cup staged) \ {w} # {}], head'))
    BY <1>1 DEF Allocate
  <2> DEFINE my == Rebased([Fresh("ready") EXCEPT !.role = role,
                            !.intruded = (dirty \cup staged) \ {w} # {}], head')
  <2> DEFINE begun == [Fresh("ready") EXCEPT !.role = role,
                              !.intruded = (dirty \cup staged) \ {w} # {}]
  <2>2. /\ my \in Locals /\ my.at = "ready" /\ my.output = FALSE /\ my.on_lane = FALSE
        /\ my.intruded = ((dirty \cup staged) \ {w} # {})
    <3>1. /\ begun \in Locals /\ begun.at = "ready"
          /\ begun.intruded = ((dirty \cup staged) \ {w} # {})
      BY DEF Fresh, Locals
    <3>2. my = Rebased(begun, head')
      OBVIOUS
    <3> HIDE DEF begun, my
    <3> QED
      BY <3>1, <3>2, RebasedOf
  <2>3. Sets(w, my)
    BY <2>1
  <2> HIDE DEF my
  <2>4. task'[w] = my
    BY <2>2, <2>3, SetsOne DEF LaneInv
  <2>5. LoopFree /\ At(w, {"idle"}) /\ UNCHANGED <<lane_branch, dirty, staged, child, holders>>
    BY <1>1 DEF Allocate, procs
  <2>6. WPInv(w)' /\ my.at \notin Gate
    BY <1>0, <2>2, <2>4, <2>5 DEF WPInv, Alone, At, OffCheck, Window, Gate, Over
  <2> QED
    BY <2>2, <2>3, <2>5, <2>6, OwnStep
<1>2. CASE spawn_agent(w)
  <2> DEFINE my == [task[w] EXCEPT !.at = "run"]
  <2>1. /\ my \in Locals /\ my.at = "run" /\ my.intruded = task[w].intruded
        /\ my.output = task[w].output /\ my.on_lane = task[w].on_lane
        /\ my.worked = task[w].worked
    BY <1>0 DEF Locals
  <2>2. Sets(w, my) /\ Window(w)
    BY <1>2 DEF spawn_agent, Goes, At, Window, Over
  <2> HIDE DEF my
  <2>3. /\ LoopFree /\ UNCHANGED <<lane_branch, dirty, staged, holders>>
        /\ \A v \in WPs \ {w} : child'[v] = child[v]
    BY <1>0, <1>2 DEF spawn_agent
  <2> QED
    BY <2>1, <2>2, <2>3, OutsideGate
<1>3. CASE SpawnError(w)
  <2>1. child[w] = "none"
    BY <1>0, <1>3 DEF SpawnError, WPInv, At
  <2> QED
    BY <1>3, <2>1, EndsKeeps DEF SpawnError, Over, procs
<1>4. CASE Collect(w)
  <2>1. /\ At(w, {"run"}) /\ At(w, {"run", "term"}) /\ LoopFree /\ w \notin holders
        /\ child'[w] = "none" /\ \A v \in WPs \ {w} : child'[v] = child[v]
        /\ UNCHANGED <<tree, holders>>
        /\ UNCHANGED <<lane_branch, head, dirty, staged>>
    BY <1>0, <1>4 DEF Collect, At, tree
  <2>2. CASE Fails(w)
    BY <2>1, <2>2, FailsKeeps
  <2>3. CASE task[w].role = "review" /\ Ends(w, "approved")
    BY <2>1, <2>3, EndsKeeps DEF Over
  <2>4. CASE task[w].role # "review" /\ Goes(w, "check")
    BY <2>1, <2>4, GateStep DEF Gate, At
  <2> QED
    BY <1>4, <2>2, <2>3, <2>4 DEF Collect, Succeeds
<1>5. CASE TimesOut(w)
  <2> DEFINE my == [task[w] EXCEPT !.at = "term"]
  <2>1. /\ my \in Locals /\ my.at = "term" /\ my.intruded = task[w].intruded
        /\ my.output = task[w].output /\ my.on_lane = task[w].on_lane
        /\ my.worked = task[w].worked
    BY <1>0 DEF Locals
  <2>2. Sets(w, my) /\ Window(w)
    BY <1>5 DEF TimesOut, Goes, At, Window, Over
  <2> HIDE DEF my
  <2>3. LoopFree /\ UNCHANGED <<lane_branch, head, dirty, staged, child, holders>>
    BY <1>5 DEF TimesOut, tree, procs
  <2> QED
    BY <2>1, <2>2, <2>3, OutsideGate
<1>6. CASE TermEnds(w)
  <2>1. /\ At(w, {"run", "term"}) /\ child'[w] = "none"
        /\ \A v \in WPs \ {w} : child'[v] = child[v]
    BY <1>0, <1>6 DEF TermEnds, At
  <2> QED
    BY <1>6, <2>1, FailsKeeps DEF TermEnds
<1> QED
  BY <1>1, <1>2, <1>3, <1>4, <1>5, <1>6 DEF execute_agent

-----------------------------------------------------------------------------
(* Commits and agents: what others do is marked                            *)

LEMMA TouchedOf ==
    ASSUME NEW tasks \in [WPs -> Locals], NEW w \in WPs
    PROVE  LET new == Touched(tasks, w) IN
             /\ new \in [WPs -> Locals] /\ new[w] = tasks[w]
             /\ \A v \in WPs : /\ new[v].at = tasks[v].at /\ new[v].role = tasks[v].role
                               /\ v # w /\ Window(v) => new[v].intruded
                               /\ ~Window(v) => new[v] = tasks[v]
<1> DEFINE new == Touched(tasks, w)
<1>1. \A my \in Locals :
        LET touched == [my EXCEPT !.intruded = TRUE] IN
          /\ touched \in Locals /\ touched.at = my.at /\ touched.role = my.role
          /\ touched.intruded
  BY DEF Locals
<1>2. \A v \in WPs :
        new[v] = IF v # w /\ Window(v) THEN [tasks[v] EXCEPT !.intruded = TRUE] ELSE tasks[v]
  BY DEF Touched
<1>3. \A v \in WPs : tasks[v] \in Locals
  OBVIOUS
<1>4. new = [v \in WPs |-> new[v]]
  BY DEF Touched
<1> HIDE DEF new
<1>5. \A v \in WPs : /\ new[v] \in Locals
                     /\ new[v].at = tasks[v].at /\ new[v].role = tasks[v].role
                     /\ v # w /\ Window(v) => new[v].intruded
                     /\ ~Window(v) => new[v] = tasks[v]
  BY <1>1, <1>2, <1>3
<1> QED
  BY <1>2, <1>4, <1>5 DEF new

(* One task's locals when a commit is made, which holds edits of its own   *)
(* or not.                                                                 *)
WithOutput(my, v, content) ==
    [my EXCEPT !.output = TRUE, !.on_lane = @ \/ head = "lane", !.worked = @ \/ v \in content]

LEMMA WithOutputOf ==
    ASSUME NEW my \in Locals, NEW v, NEW content
    PROVE  LET new == WithOutput(my, v, content) IN
             /\ new \in Locals /\ new.at = my.at /\ new.role = my.role
             /\ new.based = my.based /\ new.intruded = my.intruded
             /\ (new.worked <=> my.worked \/ v \in content)
BY DEF Locals, WithOutput

LEMMA RecordedOf ==
    ASSUME TypeOK, NEW content
    PROVE  LET new == Recorded(content) IN
             /\ new \in [WPs -> Locals]
             /\ \A v \in WPs :
                  /\ new[v].at = task[v].at /\ new[v].role = task[v].role
                  /\ new[v].based = task[v].based /\ new[v].intruded = task[v].intruded
                  /\ ~(Window(v) /\ lane_branch) => new[v] = task[v]
                  /\ Window(v) /\ lane_branch =>
                       (new[v].worked <=> task[v].worked \/ v \in content)
<1> DEFINE new == Recorded(content)
<1>1. ASSUME NEW v \in WPs, Window(v) /\ lane_branch
      PROVE  new[v] = WithOutput(task[v], v, content)
  BY <1>1, Zenon DEF Recorded, WithOutput
<1>2. ASSUME NEW v \in WPs, ~(Window(v) /\ lane_branch) PROVE new[v] = task[v]
  BY <1>2 DEF Recorded
<1>3. \A v \in WPs : task[v] \in Locals
  BY DEF TypeOK
<1>4. \A v \in WPs : new[v] \in Locals
  BY <1>1, <1>2, <1>3, WithOutputOf
<1>5. new \in [WPs -> Locals]
  BY <1>4 DEF Recorded
<1> HIDE DEF new
<1>6. ASSUME NEW v \in WPs
      PROVE  /\ new[v].at = task[v].at /\ new[v].role = task[v].role
             /\ new[v].based = task[v].based /\ new[v].intruded = task[v].intruded
             /\ ~(Window(v) /\ lane_branch) => new[v] = task[v]
             /\ Window(v) /\ lane_branch =>
                  (new[v].worked <=> task[v].worked \/ v \in content)
  BY <1>1, <1>2, <1>3, WithOutputOf
<1> QED
  BY <1>5, <1>6 DEF new

(* What an agent, or the commit of w, does to the worktree is marked in    *)
(* the windows of all others: of them nothing is promised any more.        *)
LEMMA DisturbedKeeps ==
    ASSUME LaneInv, NEW w \in WPs, NEW v \in WPs \ {w}, NEW tasks \in [WPs -> Locals],
           tasks[v].at = task[v].at, tasks[v].role = task[v].role,
           tasks[v].intruded = task[v].intruded,
           ~task[v].intruded /\ ~Window(v) =>
             (tasks[v].output \/ tasks[v].on_lane => tasks[v].worked),
           task'[v] = Touched(tasks, w)[v],
           child'[v] = child[v], UNCHANGED <<holders, lane_branch>>
    PROVE  WPInv(v)'
<1>1. WPInv(v)
  BY DEF LaneInv
<1>2. CASE Window(v)
  <2>1. task'[v].at = task[v].at /\ task'[v].role = task[v].role /\ task'[v].intruded
    BY <1>2, TouchedOf
  <2> QED
    BY <1>1, <2>1 DEF WPInv, At
<1>3. CASE ~Window(v)
  <2>1. task'[v] = tasks[v]
    BY <1>3, TouchedOf
  <2> QED
    BY <1>1, <1>3, <2>1 DEF WPInv, Alone, At, Window, Gate, OffCheck, Over
<1> QED
  BY <1>2, <1>3

(* The locals of all tasks when HEAD is switched back to the lane branch.  *)
Switched == [v \in WPs |-> [task[v] EXCEPT !.output = task[v].on_lane]]

LEMMA SwitchedOf ==
    ASSUME TypeOK
    PROVE  /\ Switched \in [WPs -> Locals]
           /\ \A v \in WPs :
                /\ Switched[v].at = task[v].at /\ Switched[v].role = task[v].role
                /\ Switched[v].intruded = task[v].intruded
                /\ Switched[v].on_lane = task[v].on_lane /\ Switched[v].worked = task[v].worked
                /\ Switched[v].output = task[v].on_lane
BY DEF TypeOK, Switched, Locals

(* A step of an agent of w.                                                *)
LEMMA AgentKeeps ==
    ASSUME LaneInv, TypeOK', NEW w \in WPs, Agent(w)
    PROVE  LaneInv'
<1>0. /\ TypeOK /\ WPInv(w) /\ task \in [WPs -> Locals]
      /\ child \in [WPs -> {"none", "running", "exited"}]
  BY DEF LaneInv, TypeOK
<1>1. CASE AgentExits(w) \/ HolderExits(w)
  <2>1. UNCHANGED <<lane_branch, head, dirty, staged, task>>
    BY <1>1 DEF AgentExits, HolderExits, tree
  <2>2. \A v \in WPs : child'[v] # "none" => child[v] # "none"
    BY <1>0, <1>1 DEF AgentExits, HolderExits
  <2>3. \A v \in WPs : v \in holders' => v \in holders \/ At(v, {"run", "term"})
    BY <1>0, <1>1 DEF AgentExits, HolderExits, WPInv
  <2>4. ASSUME NEW v \in WPs PROVE WPInv(v)'
    BY <2>1, <2>2, <2>3 DEF LaneInv, WPInv, Alone, At, Window, Gate
  <2> QED
    BY <2>1, <2>4 DEF LaneInv, OneGate, At
<1>2. ASSUME HasAgent(w), NEW tasks \in [WPs -> Locals], task' = Touched(tasks, w),
             \A v \in WPs : /\ tasks[v].at = task[v].at /\ tasks[v].role = task[v].role
                            /\ tasks[v].intruded = task[v].intruded
                            /\ ~task[v].intruded /\ (v = w \/ ~Window(v)) =>
                                 (tasks[v].output \/ tasks[v].on_lane => tasks[v].worked),
             UNCHANGED <<lane_branch, child, holders>>,
             dirty' \cup staged' \subseteq dirty \cup staged \cup {w}
      PROVE  LaneInv'
  <2>1. ~At(w, Gate)
    BY <1>0, <1>2 DEF HasAgent, WPInv, At, Gate
  <2>2. task'[w] = tasks[w]
    BY <1>2, TouchedOf
  <2>3. WPInv(w)'
    BY <1>0, <1>2, <2>1, <2>2 DEF WPInv, Alone, At, Window, Gate, OffCheck
  <2>4. \A v \in WPs \ {w} : WPInv(v)'
    BY <1>2, DisturbedKeeps
  <2>5. \A v \in WPs : task'[v].at = task[v].at
    BY <1>2, <2>2, TouchedOf
  <2>6. OneGate'
    BY <2>5 DEF LaneInv, OneGate, At
  <2> QED
    BY <2>3, <2>4, <2>6 DEF LaneInv
<1>3. CASE AgentEdits(w)
  BY <1>0, <1>2, <1>3 DEF AgentEdits, procs, LaneInv, WPInv, Alone
<1>4. CASE AgentCommits(w)
  <2> DEFINE content == dirty \cup staged
             tasks == Recorded(content)
  <2>1. ~task[w].intruded => (tasks[w].output \/ tasks[w].on_lane => tasks[w].worked)
    <3>1. CASE ~(Window(w) /\ lane_branch)
      BY <1>0, <3>1, RecordedOf DEF WPInv, Alone
    <3>2. CASE Window(w) /\ lane_branch /\ ~task[w].intruded
      <4>1. w \in content
        BY <1>0, <1>4, <3>2 DEF AgentCommits, WPInv, Alone
      <4> QED
        BY <1>0, <3>2, <4>1, RecordedOf
    <3> QED
      BY <3>1, <3>2
  <2>2. /\ HasAgent(w) /\ task' = Touched(tasks, w) /\ dirty' = {} /\ staged' = {}
        /\ UNCHANGED <<lane_branch, child, holders>>
    BY <1>4 DEF AgentCommits, procs
  <2>3. tasks \in [WPs -> Locals]
    BY <1>0, RecordedOf
  <2>4. \A v \in WPs : /\ tasks[v].at = task[v].at /\ tasks[v].role = task[v].role
                       /\ tasks[v].intruded = task[v].intruded
                       /\ ~task[v].intruded /\ ~Window(v) =>
                            (tasks[v].output \/ tasks[v].on_lane => tasks[v].worked)
    BY <1>0, RecordedOf DEF LaneInv, WPInv, Alone
  <2> HIDE DEF tasks
  <2> QED
    BY <1>2, <2>1, <2>2, <2>3, <2>4
<1>5. CASE AgentSwitches(w)
  <2>1. CASE task' = Touched(task, w)
    <3>1. HasAgent(w) /\ UNCHANGED <<lane_branch, child, holders, dirty, staged>>
      BY <1>5 DEF AgentSwitches, procs
    <3> QED
      BY <1>0, <1>2, <2>1, <3>1 DEF LaneInv, WPInv, Alone
  <2>2. CASE task' = Touched(Switched, w)
    <3>1. /\ HasAgent(w) /\ UNCHANGED <<lane_branch, child, holders, dirty, staged>>
      BY <1>5 DEF AgentSwitches, procs
    <3>2. /\ Switched \in [WPs -> Locals]
          /\ \A v \in WPs :
               /\ Switched[v].at = task[v].at /\ Switched[v].role = task[v].role
               /\ Switched[v].intruded = task[v].intruded
               /\ Switched[v].on_lane = task[v].on_lane /\ Switched[v].worked = task[v].worked
               /\ Switched[v].output = task[v].on_lane
      BY <1>0, SwitchedOf
    <3> QED
      BY <1>0, <1>2, <2>2, <3>1, <3>2 DEF LaneInv, WPInv, Alone
  <2> QED
    BY <1>5, <2>1, <2>2 DEF AgentSwitches, Switched
<1> QED
  BY <1>1, <1>3, <1>4, <1>5 DEF Agent

LEMMA CommitKeeps ==
    ASSUME LaneInv, TypeOK', NEW w \in WPs, CommitStaged(w)
    PROVE  LaneInv'
<1> DEFINE tasks == Recorded(staged)
<1>0. /\ TypeOK /\ WPInv(w) /\ task \in [WPs -> Locals] /\ At(w, {"commit"}) /\ Window(w)
      /\ staged # {} /\ staged' = {} /\ UNCHANGED <<lane_branch, head, dirty, child, holders>>
  BY DEF LaneInv, TypeOK, CommitStaged, procs, At, Window, Over
<1>1. /\ tasks \in [WPs -> Locals]
      /\ \A v \in WPs : /\ tasks[v].at = task[v].at /\ tasks[v].role = task[v].role
                        /\ tasks[v].based = task[v].based
                        /\ tasks[v].intruded = task[v].intruded
                        /\ ~Window(v) => tasks[v] = task[v]
      /\ lane_branch => (tasks[w].worked <=> task[w].worked \/ w \in staged)
  BY <1>0, RecordedOf
<1>2. task' = [Touched(tasks, w) EXCEPT ![w].at = "count"]
  BY DEF CommitStaged
<1> HIDE DEF tasks
<1>3. /\ \A v \in WPs \ {w} : task'[v] = Touched(tasks, w)[v] /\ task'[v].at = task[v].at
      /\ task'[w] = [tasks[w] EXCEPT !.at = "count"]
  <2> DEFINE touched == Touched(tasks, w)
  <2>1. /\ touched \in [WPs -> Locals] /\ touched[w] = tasks[w]
        /\ \A v \in WPs : touched[v].at = task[v].at
    BY <1>1, TouchedOf
  <2>2. task' = [touched EXCEPT ![w].at = "count"]
    BY <1>2
  <2> HIDE DEF touched
  <2>3. /\ \A v \in WPs \ {w} : task'[v] = touched[v]
        /\ task'[w] = [touched[w] EXCEPT !.at = "count"]
    BY <2>1, <2>2
  <2> QED
    BY <2>1, <2>3 DEF touched
<1>4. /\ task'[w].at = "count" /\ task'[w].role = task[w].role
      /\ task'[w].intruded = task[w].intruded /\ task'[w].worked = tasks[w].worked
  BY <1>1, <1>3 DEF Locals
<1>5. ~task[w].intruded => tasks[w].worked
  BY <1>0, <1>1 DEF WPInv, Alone, At, OffCheck, Gate
<1>6. WPInv(w)'
  BY <1>0, <1>4, <1>5 DEF WPInv, Alone, At, OffCheck, Gate, Window
<1>7. ASSUME NEW v \in WPs \ {w} PROVE WPInv(v)'
  <2>1. ~task[v].intruded /\ ~Window(v) =>
          (tasks[v].output \/ tasks[v].on_lane => tasks[v].worked)
    BY <1>1 DEF LaneInv, WPInv, Alone
  <2> QED
    BY <1>0, <1>1, <1>3, <2>1, DisturbedKeeps
<1>8. OneGate'
  BY <1>0, <1>3, <1>4 DEF LaneInv, OneGate, At, Gate
<1> QED
  BY <1>6, <1>7, <1>8 DEF LaneInv

(* From one command of the gate to the next.                               *)
LEMMA NextCommand ==
    ASSUME LaneInv, TypeOK', NEW w \in WPs, At(w, Gate), NEW step \in OffCheck, Goes(w, step),
           lane_branch, task[w].intruded \/ head = "lane", step = "count" => task[w].based,
           UNCHANGED <<child, holders, lane_branch, head>>,
           dirty' \cup staged' \subseteq dirty \cup staged
    PROVE  LaneInv'
<1>1. /\ step \in Gate /\ step # "check" /\ ~At(w, {"run"}) /\ At(w, {"run"} \cup Gate)
      /\ child'[w] = "none" /\ \A v \in WPs \ {w} : child'[v] = child[v]
  BY DEF LaneInv, WPInv, At, Gate, OffCheck
<1> QED
  BY <1>1, GateStep

LEMMA GateKeeps ==
    ASSUME LaneInv, TypeOK', NEW w \in WPs, commit_lane_work(w)
    PROVE  LaneInv'
<1>0. WPInv(w)
  BY DEF LaneInv
<1>1. CASE CheckBranch(w)
  <2>1. At(w, Gate) /\ UNCHANGED <<tree, procs>>
    BY <1>1 DEF CheckBranch, At, Gate
  <2>2. CASE Advance(w)
    BY <2>1, <2>2, AdvanceKeeps
  <2>3. CASE NotCommitted(w)
    BY <2>1, <2>3, NotCommittedKeeps
  <2>4. CASE lane_branch /\ head = "lane" /\ Goes(w, "add")
    <3>1. /\ "add" \in OffCheck /\ dirty' \cup staged' \subseteq dirty \cup staged
          /\ UNCHANGED <<child, holders, lane_branch, head>>
      BY <2>1 DEF OffCheck, Gate, tree, procs
    <3> QED
      BY <2>1, <2>4, <3>1, NextCommand
  <2> QED
    BY <1>1, <2>2, <2>3, <2>4 DEF CheckBranch
<1>2. CASE AddAll(w)
  <2>1. /\ At(w, {"add"}) /\ Goes(w, "diff") /\ dirty' \cup staged' \subseteq dirty \cup staged
        /\ UNCHANGED <<lane_branch, head, child, holders>>
    BY <1>2 DEF AddAll, procs
  <2> QED
    <3>1. /\ "diff" \in OffCheck /\ At(w, Gate)
          /\ lane_branch /\ (task[w].intruded \/ head = "lane")
      BY <1>0, <2>1 DEF WPInv, Alone, At, Gate, OffCheck
    <3> QED
      BY <2>1, <3>1, NextCommand
<1>3. CASE DiffCached(w)
  <2>1. At(w, {"diff"}) /\ At(w, Gate) /\ UNCHANGED <<tree, procs>>
        /\ UNCHANGED <<lane_branch, head, dirty, staged, child, holders>>
    BY <1>3 DEF DiffCached, At, Gate, tree, procs
  <2>2. CASE NotCommitted(w)
    BY <2>1, <2>2, NotCommittedKeeps
  <2>3. ASSUME NEW step \in {"commit", "count"}, Goes(w, step), step = "count" => task[w].based
        PROVE  LaneInv'
    <3>1. step \in OffCheck /\ lane_branch /\ (task[w].intruded \/ head = "lane")
      BY <1>0, <2>1 DEF WPInv, Alone, At, Gate, OffCheck
    <3> QED
      BY <2>1, <2>3, <3>1, NextCommand
  <2> QED
    BY <1>3, <2>2, <2>3 DEF DiffCached
<1>4. CASE GitFails(w)
  BY <1>4, NotCommittedKeeps DEF GitFails, At, Gate
<1>5. CASE CountOutput(w)
  BY <1>5, NotCommittedKeeps, AdvanceKeeps DEF CountOutput, At, Gate
<1> QED
  BY <1>1, <1>2, <1>3, <1>4, <1>5, CommitKeeps DEF commit_lane_work

-----------------------------------------------------------------------------
(* Types and limits                                                        *)

Limits(my, w) == my.attempts <= MaxAttempts[w] /\ my.reworks <= MaxReworks[w]

TaskTypes == task \in [WPs -> Locals] /\ \A w \in WPs : Limits(task[w], w)

LEMMA SetsTyped ==
    ASSUME TypeOK, NEW w \in WPs, NEW my \in Locals, Limits(my, w), Sets(w, my)
    PROVE  TaskTypes'
<1>1. \A v \in WPs : Limits(task[v], v)
  BY DEF TypeOK, Limits
<1> QED
  BY <1>1, SetsOne DEF TaskTypes, Limits

LEMMA FreshLimits ==
    ASSUME NEW w \in WPs, NEW how \in {"idle", "ready"} \cup Over
    PROVE  Limits(Fresh(how), w)
BY BoundsAssumption DEF Limits, Fresh

LEMMA EndsTyped ==
    ASSUME TypeOK, NEW w \in WPs, NEW how \in Over, Ends(w, how)
    PROVE  TaskTypes'
BY SetsTyped, LocalsOf, FreshLimits DEF Ends

LEMMA GoesTyped ==
    ASSUME TypeOK, NEW w \in WPs, NEW step \in {"run", "term"} \cup Gate, Goes(w, step)
    PROVE  TaskTypes'
<1>1. /\ [task[w] EXCEPT !.at = step] \in Locals
      /\ Limits([task[w] EXCEPT !.at = step], w)
  BY DEF TypeOK, Locals, Limits
<1> QED
  BY <1>1, SetsTyped DEF Goes

(* A mark changes no count.                                                *)
LEMMA TouchedTyped ==
    ASSUME NEW w \in WPs, NEW tasks \in [WPs -> Locals], \A v \in WPs : Limits(tasks[v], v)
    PROVE  /\ Touched(tasks, w) \in [WPs -> Locals]
           /\ \A v \in WPs : Limits(Touched(tasks, w)[v], v)
<1>1. \A v \in WPs, my \in Locals :
        Limits(my, v) => Limits([my EXCEPT !.intruded = TRUE], v)
  BY DEF Locals, Limits
<1>2. \A v \in WPs : Touched(tasks, w)[v] \in {tasks[v], [tasks[v] EXCEPT !.intruded = TRUE]}
  BY DEF Touched
<1>3. \A v \in WPs : tasks[v] \in Locals
  OBVIOUS
<1> DEFINE touched == Touched(tasks, w)
<1>4. \A v \in WPs : touched[v] \in {tasks[v], [tasks[v] EXCEPT !.intruded = TRUE]}
  BY <1>2
<1> HIDE DEF touched
<1>5. \A v \in WPs : Limits(touched[v], v)
  BY <1>1, <1>3, <1>4
<1> QED
  BY <1>5, TouchedOf DEF touched

LEMMA RecordedLimits ==
    ASSUME TypeOK, NEW content
    PROVE  /\ Recorded(content) \in [WPs -> Locals]
           /\ \A v \in WPs : Limits(Recorded(content)[v], v)
<1>1. \A v \in WPs : Recorded(content)[v] \in {task[v], WithOutput(task[v], v, content)}
  BY Zenon DEF Recorded, WithOutput
<1>2. \A v \in WPs, my \in Locals :
        Limits(my, v) => Limits(WithOutput(my, v, content), v)
  BY DEF Locals, Limits, WithOutput
<1>3. \A v \in WPs : task[v] \in Locals /\ Limits(task[v], v)
  BY DEF TypeOK, Limits
<1> QED
  BY <1>1, <1>2, <1>3, RecordedOf

LEMMA FailsTyped ==
    ASSUME TypeOK, NEW w \in WPs, Fails(w) PROVE TaskTypes'
<1>0. task[w] \in Locals /\ Limits(task[w], w)
  BY DEF TypeOK, Limits
<1>1. CASE \E how \in {"failed", "blocked"} : Ends(w, how)
  BY <1>1, EndsTyped DEF Over
<1>2. CASE task[w].attempts + 1 < MaxAttempts[w] /\ Sets(w, Retried(task[w]))
  <2>1. Retried(task[w]) \in Locals
    BY <1>0, TriesAgain
  <2>2. Limits(Retried(task[w]), w)
    BY <1>0, <1>2, BoundsAssumption DEF Limits, Retried, Locals
  <2> QED
    BY <1>2, <2>1, <2>2, SetsTyped
<1>3. CASE task[w].reworks < MaxReworks[w] /\ Sets(w, Reworked(task[w]))
  <2>1. Reworked(task[w]) \in Locals
    BY <1>0, TriesAgain
  <2>2. Limits(Reworked(task[w]), w)
    BY <1>0, <1>3, BoundsAssumption DEF Limits, Reworked, Locals
  <2> QED
    BY <1>3, <2>1, <2>2, SetsTyped
<1> QED
  BY <1>1, <1>2, <1>3 DEF Fails, Retried, Reworked

LEMMA AdvanceTyped ==
    ASSUME TypeOK, NEW w \in WPs, Advance(w) PROVE TaskTypes'
<1>1. task[w] \in Locals /\ Limits(task[w], w)
  BY DEF TypeOK, Limits
<1>2. \A my \in Locals :
        Limits(my, w) => Limits(ToReview(my), w) /\ Limits(Rebased(my, head), w)
  BY BoundsAssumption DEF Limits, Locals, ToReview, Rebased
<1> QED
  BY <1>1, <1>2, LocalsOf, SetsTyped DEF Advance

LEMMA TaskNext == TypeOK /\ [Next]_vars => TaskTypes'
<1> SUFFICES ASSUME TypeOK, [Next]_vars PROVE TaskTypes'
  OBVIOUS
<1>0. TaskTypes
  BY DEF TypeOK, TaskTypes, Limits
<1>1. CASE UNCHANGED task
  BY <1>0, <1>1 DEF TaskTypes
<1>2. ASSUME NEW w \in WPs, Allocate(w) PROVE TaskTypes'
  <2>1. PICK role \in {"implement", "review"} :
            Sets(w, Rebased([Fresh("ready") EXCEPT !.role = role,
                             !.intruded = (dirty \cup staged) \ {w} # {}], head'))
    BY <1>2 DEF Allocate
  <2> DEFINE my == [Fresh("ready") EXCEPT !.role = role,
                                          !.intruded = (dirty \cup staged) \ {w} # {}]
  <2>2. my \in Locals /\ my.attempts = 0 /\ my.reworks = 0
    BY DEF Fresh, Locals
  <2> HIDE DEF my
  <2>3. Rebased(my, head') \in Locals /\ Limits(Rebased(my, head'), w)
    <3> DEFINE new == Rebased(my, head')
    <3>1. new \in Locals /\ new.attempts = 0 /\ new.reworks = 0
      BY <2>2, RebasedOf
    <3> HIDE DEF new
    <3>2. Limits(new, w)
      BY <3>1, BoundsAssumption DEF Limits
    <3> QED
      BY <3>1, <3>2 DEF new
  <2> QED
    BY <2>1, <2>3, SetsTyped DEF my
<1>3. ASSUME NEW w \in WPs, execute_agent(w) PROVE TaskTypes'
  BY <1>3, FailsTyped, EndsTyped, GoesTyped
  DEF execute_agent, spawn_agent, SpawnError, Collect, Succeeds, TimesOut, TermEnds, Over, Gate
<1>4. ASSUME NEW w \in WPs, commit_lane_work(w), ~CommitStaged(w) PROVE TaskTypes'
  <2>1. CASE NotCommitted(w)
    BY <2>1, EndsTyped DEF NotCommitted, Over
  <2>2. CASE Advance(w)
    BY <2>2, AdvanceTyped
  <2>3. CASE \E step \in Gate : Goes(w, step)
    BY <2>3, GoesTyped
  <2> QED
    BY <1>4, <2>1, <2>2, <2>3
    DEF commit_lane_work, CheckBranch, AddAll, DiffCached, GitFails, CountOutput, Gate
<1>5. ASSUME NEW w \in WPs, CommitStaged(w) PROVE TaskTypes'
  <2> DEFINE touched == Touched(Recorded(staged), w)
  <2>1. task' = [touched EXCEPT ![w].at = "count"]
    BY <1>5 DEF CommitStaged
  <2>2. touched \in [WPs -> Locals] /\ \A v \in WPs : Limits(touched[v], v)
    BY RecordedLimits, TouchedTyped
  <2> HIDE DEF touched
  <2>3. /\ [touched[w] EXCEPT !.at = "count"] \in Locals
        /\ Limits([touched[w] EXCEPT !.at = "count"], w)
    BY <2>2 DEF Locals, Limits, Gate
  <2> QED
    BY <2>1, <2>2, <2>3 DEF TaskTypes
<1>6. ASSUME NEW w \in WPs, Agent(w) PROVE TaskTypes'
  <2>1. CASE UNCHANGED task
    BY <1>1, <2>1
  <2>2. task \in [WPs -> Locals] /\ \A v \in WPs : Limits(task[v], v)
    BY <1>0 DEF TaskTypes
  <2>3. Switched \in [WPs -> Locals] /\ \A v \in WPs : Limits(Switched[v], v)
    <3>1. \A my \in Locals, v \in WPs :
            Limits(my, v) => Limits([my EXCEPT !.output = my.on_lane], v)
      BY DEF Locals, Limits
    <3> QED
      BY <2>2, <3>1, SwitchedOf DEF Switched
  <2>4. CASE \E content : task' = Touched(Recorded(content), w)
    BY <2>4, RecordedLimits, TouchedTyped DEF TaskTypes
  <2>5. CASE task' = Touched(task, w) \/ task' = Touched(Switched, w)
    BY <2>2, <2>3, <2>5, TouchedTyped DEF TaskTypes
  <2> QED
    BY <1>6, <2>1, <2>4, <2>5
    DEF Agent, AgentEdits, AgentCommits, AgentSwitches, AgentExits, HolderExits, Switched
<1> QED
  BY <1>1, <1>2, <1>3, <1>4, <1>5, <1>6 DEF Next, vars

LEMMA TypeNext == TypeOK /\ [Next]_vars => TypeOK'
<1> SUFFICES ASSUME TypeOK, [Next]_vars
             PROVE  /\ lane_branch' \in BOOLEAN
                    /\ head' \in {"absent", "plain", "detached", "lane"}
                    /\ dirty' \subseteq WPs /\ staged' \subseteq WPs
                    /\ child' \in [WPs -> {"none", "running", "exited"}]
                    /\ holders' \subseteq WPs
  BY TaskNext DEF TypeOK, TaskTypes, Limits
<1> USE DEF TypeOK, tree, procs
<1>1. CASE UNCHANGED vars
  BY <1>1 DEF vars
<1>2. ASSUME NEW w \in WPs, Allocate(w) \/ spawn_agent(w) \/ SpawnError(w)
      PROVE  /\ head' \in {"absent", "plain", "detached", "lane"}
             /\ child' \in [WPs -> {"none", "running", "exited"}]
             /\ UNCHANGED <<lane_branch, dirty, staged, holders>>
  BY <1>2 DEF Allocate, spawn_agent, SpawnError, ensure_working_dir
<1>3. ASSUME NEW w \in WPs, Collect(w) \/ TimesOut(w) \/ TermEnds(w)
      PROVE  /\ child' \in [WPs -> {"none", "running", "exited"}]
             /\ UNCHANGED <<lane_branch, head, dirty, staged, holders>>
  BY <1>3 DEF Collect, TimesOut, TermEnds
<1>4. ASSUME NEW w \in WPs, commit_lane_work(w)
      PROVE  dirty' \subseteq WPs /\ staged' \subseteq WPs
             /\ UNCHANGED <<lane_branch, head, child, holders>>
  BY <1>4 DEF commit_lane_work, CheckBranch, AddAll, DiffCached, CommitStaged, GitFails,
     CountOutput
<1>5. ASSUME NEW w \in WPs, Agent(w)
      PROVE  /\ head' \in {"absent", "plain", "detached", "lane"}
             /\ dirty' \subseteq WPs /\ staged' \subseteq WPs /\ UNCHANGED lane_branch
             /\ child' \in [WPs -> {"none", "running", "exited"}]
             /\ holders' \subseteq WPs
  BY <1>5 DEF Agent, AgentEdits, AgentCommits, AgentSwitches, AgentExits, HolderExits
<1> QED
  BY <1>1, <1>2, <1>3, <1>4, <1>5 DEF Next, execute_agent

LEMMA InvNext == LaneInv /\ [Next]_vars => LaneInv'
<1> SUFFICES ASSUME LaneInv, [Next]_vars PROVE LaneInv'
  OBVIOUS
<1>1. TypeOK'
  BY TypeNext DEF LaneInv
<1>2. CASE UNCHANGED vars
  BY <1>2 DEF vars, tree, procs, LaneInv, TypeOK, OneGate, WPInv, Alone, At, Window
<1> QED
  BY <1>1, <1>2, ExecuteKeeps, GateKeeps, AgentKeeps DEF Next

-----------------------------------------------------------------------------
(* What is proved                                                          *)

(* The worktree, the tasks and the processes are well typed, and attempts  *)
(* and reworks keep to their limits (loop.py: _implement_wp, _review_wp).  *)
THEOREM LaneTypeCorrect == Spec => []TypeOK
BY TypeInit, TypeNext, PTL DEF Spec

(* When the loop retries, commits or opens a review, the agent it waited   *)
(* for is gone, and at most one commit gate is under way                   *)
(* (execute_with_timeout, commit_lane_work).                               *)
THEOREM AttemptsNeverOverlap == Spec => []AttemptsDoNotOverlap
<1>1. LaneInv => AttemptsDoNotOverlap
  <2> SUFFICES ASSUME LaneInv PROVE Cardinality({w \in WPs : At(w, Gate)}) <= 1
    BY DEF LaneInv, WPInv, AttemptsDoNotOverlap
  <2>1. CASE {w \in WPs : At(w, Gate)} = {}
    BY <2>1, FS_EmptySet
  <2>2. CASE \E w \in WPs : At(w, Gate)
    <3>1. PICK w \in WPs : {v \in WPs : At(v, Gate)} = {w}
      BY <2>2 DEF LaneInv, OneGate
    <3> QED
      BY <3>1, FS_Singleton
  <2> QED
    BY <2>1, <2>2
<1> QED
  BY <1>1, InvInit, InvNext, PTL DEF Spec

(* A WP nobody disturbs commits edits of its own only, onto its lane       *)
(* branch (commit_lane_work).                                              *)
THEOREM UndisturbedCommitsAreClean == Spec => FeatCommitsAreClean
<1>1. ASSUME LaneInv, NEW w \in WPs, CommitStaged(w), ~task[w].intruded
      PROVE  head = "lane" /\ staged = {w}
  BY <1>1 DEF LaneInv, WPInv, Alone, CommitStaged, At, Window, OffCheck, Gate, Over
<1>2. LaneInv => [\A w \in WPs : CommitStaged(w) /\ ~task[w].intruded
                                   => head = "lane" /\ staged = {w}]_vars
  BY <1>1
<1> QED
  BY <1>2, InvInit, InvNext, PTL DEF Spec, FeatCommitsAreClean

LEMMA AdvanceNext ==
    ASSUME LaneInv, TypeOK', [Next]_vars, NEW w \in WPs, Advances(w), ~task[w].intruded
    PROVE  task[w].worked
<1>0. /\ TypeOK /\ WPInv(w) /\ At(w, Gate) /\ lane_branch /\ task'[w].role = "review"
      /\ task[w] \in Locals /\ task[w].role # "review" /\ w \notin holders
      /\ child[w] = "none" /\ Window(w)
  BY DEF LaneInv, TypeOK, WPInv, Advances, At, Gate, Window, Over
<1>1. task'[w].role = task[w].role => FALSE
  BY <1>0
<1>2. CASE UNCHANGED task
  BY <1>1, <1>2
<1>3. ASSUME NEW v \in WPs, Allocate(v) \/ execute_agent(v) PROVE FALSE
  BY <1>0, <1>3 DEF Allocate, execute_agent, spawn_agent, SpawnError, Collect, TimesOut,
     TermEnds, LoopFree, At
<1>4. ASSUME NEW v \in WPs, Agent(v) PROVE FALSE
  <2>1. CASE UNCHANGED task
    BY <1>1, <2>1
  <2>2. Switched \in [WPs -> Locals] /\ Switched[w].role = task[w].role
    BY <1>0, SwitchedOf
  <2>3. task \in [WPs -> Locals]
    BY <1>0 DEF TypeOK
  <2>4. CASE \E content : task' = Touched(Recorded(content), v)
    BY <1>0, <1>1, <2>4, RecordedOf, TouchedOf
  <2>5. CASE task' = Touched(task, v) \/ task' = Touched(Switched, v)
    BY <1>1, <2>2, <2>3, <2>5, TouchedOf
  <2> QED
    BY <1>4, <2>1, <2>4, <2>5
    DEF Agent, AgentEdits, AgentCommits, AgentSwitches, AgentExits, HolderExits, Switched
<1>5. ASSUME NEW v \in WPs, commit_lane_work(v) PROVE task[w].worked
  <2>1. v = w
    BY <1>0, <1>5 DEF LaneInv, OneGate, commit_lane_work, CheckBranch, AddAll, DiffCached,
       CommitStaged, GitFails, CountOutput, At, Gate
  <2>2. CASE NotCommitted(w)
    <3>1. PICK how \in Over : task'[w] = Fresh(how)
      BY <1>0, <2>2 DEF TypeOK, NotCommitted, Ends, Sets, Over
    <3> QED
      BY <1>0, <3>1 DEF Fresh
  <2>3. CASE \E step \in Gate : Goes(w, step)
    BY <1>0, <1>1, <2>3 DEF TypeOK, Goes, Sets, Locals
  <2>4. CASE CommitStaged(w)
    <3>1. /\ Recorded(staged) \in [WPs -> Locals]
          /\ Recorded(staged)[w].role = task[w].role
      BY <1>0, RecordedOf
    <3> DEFINE touched == Touched(Recorded(staged), w)
    <3>2. touched \in [WPs -> Locals] /\ touched[w].role = task[w].role
      BY <3>1, TouchedOf
    <3>3. task' = [touched EXCEPT ![w].at = "count"]
      BY <2>4 DEF CommitStaged
    <3> HIDE DEF touched
    <3> QED
      BY <1>1, <3>2, <3>3 DEF Locals
  <2>5. CASE CountOutput(w)
    BY <1>0, <2>2, <2>5 DEF CountOutput, WPInv, Alone, At
  <2> QED
    BY <1>0, <1>5, <2>1, <2>2, <2>3, <2>4, <2>5
    DEF commit_lane_work, CheckBranch, AddAll, DiffCached, GitFails, Gate
<1> QED
  BY <1>2, <1>3, <1>4, <1>5 DEF Next, vars

(* A WP nobody disturbs goes to review only with commits that hold work of *)
(* its own, first time and after every rework (_commit_implementation).    *)
THEOREM UndisturbedAdvanceIsEarned == Spec => AdvancesOnOwnWork
<1>1. LaneInv /\ TypeOK' /\ [Next]_vars =>
        [\A w \in WPs : Advances(w) /\ ~task[w].intruded => task[w].worked]_vars
  BY AdvanceNext
<1>2. LaneInv => TypeOK
  BY DEF LaneInv
<1> QED
  BY <1>1, <1>2, InvInit, InvNext, PTL DEF Spec, AdvancesOnOwnWork
=============================================================================
