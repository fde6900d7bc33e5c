---------------------------- MODULE WPLifecycle ----------------------------
(***************************************************************************)
(* What the orchestration of one mission promises about each work package  *)
(* (WP), with every process, retry, queue and crash left out: the lane the *)
(* host records for the WP, who moved it there, and how far the commits on *)
(* the WP's lane branch have been reviewed.                                *)
(*                                                                         *)
(* Orchestration.tla is the program; it implements this module.            *)
(***************************************************************************)
CONSTANTS
    WPs,            \* the work packages of the mission
    LaneWPs,        \* those with a lane branch: their output is committed
    Deps,           \* Deps[w]: the WPs that must be done before w may start
    InitialLanes    \* the lane assignments the mission may start from

(* "none" is a WP whose lane the host reports as null.                     *)
Lanes == {"none", "planned", "claimed", "in_progress", "for_review",
          "in_review", "done", "canceled", "blocked"}

TerminalLanes == {"done", "canceled", "blocked"}

(* "self" is the identity this orchestrator passes as --actor.             *)
Actors == {"self", "other"}

(* Commits are "new" until a review is opened on them, then "offered".      *)
CommitStates == {"none", "new", "offered"}

ASSUME LaneWPsAssumption == LaneWPs \subseteq WPs
ASSUME DepsAssumption == Deps \in [WPs -> SUBSET WPs]
ASSUME InitialLanesAssumption == InitialLanes \subseteq [WPs -> Lanes]

VARIABLES
    lane,           \* lane[w]: the host's lane of w
    owner,          \* owner[w]: the last actor to move w
    commits         \* commits[w]: what is on the lane branch of w

lifecycleVars == <<lane, owner, commits>>

(* What the lane branch of a WP found in lane l holds.                     *)
CommitsFoundIn(l) ==
    IF l = "for_review" THEN "new"
    ELSE IF l \in {"in_review", "done"} THEN "offered" ELSE "none"

Init ==
    /\ lane \in InitialLanes
    /\ owner \in [WPs -> Actors]
    /\ commits = [w \in WPs |-> CommitsFoundIn(lane[w])]

Move(w, to, actor) ==
    /\ lane' = [lane EXCEPT ![w] = to]
    /\ owner' = [owner EXCEPT ![w] = actor]

(* A planned WP starts only when all it depends on is done; a WP another   *)
(* identity has started is left alone.                                     *)
Start(w) ==
    /\ \/ lane[w] = "planned" /\ \A d \in Deps[w] : lane[d] = "done"
       \/ lane[w] \in {"claimed", "in_progress"} /\ owner[w] = "self"
    /\ \E to \in {"claimed", "in_progress"} : Move(w, to, "self")
    /\ UNCHANGED commits

(* Nothing is committed while this orchestrator's review of the WP is      *)
(* open, nor after it made the WP done.                                    *)
Produce(w) ==
    /\ ~(lane[w] \in {"in_review", "done"} /\ owner[w] = "self")
    /\ commits' = [commits EXCEPT ![w] = "new"]
    /\ UNCHANGED <<lane, owner>>

(* Only a WP that has output is handed over for review.                    *)
Submit(w) ==
    /\ lane[w] = "in_progress"
    /\ w \in LaneWPs => commits[w] # "none"
    /\ Move(w, "for_review", "self")
    /\ UNCHANGED commits

(* A review starts on everything committed so far.                         *)
OpenReview(w) ==
    /\ lane[w] = "for_review"
    /\ Move(w, "in_review", "self")
    /\ commits' = [commits EXCEPT ![w] = IF @ = "none" THEN @ ELSE "offered"]

(* A WP becomes done only through a review opened on all its commits.      *)
Approve(w) ==
    /\ lane[w] = "in_review"
    /\ w \in LaneWPs => commits[w] = "offered"
    /\ Move(w, "done", "self")
    /\ UNCHANGED commits

ReturnToWork(w) ==
    /\ lane[w] \in {"for_review", "in_review"}
    /\ Move(w, "in_progress", "self")
    /\ UNCHANGED commits

(* A review nobody is conducting any more goes back to the queue.          *)
Requeue(w) ==
    /\ lane[w] \notin TerminalLanes
    /\ w \in LaneWPs => commits[w] # "none"
    /\ Move(w, "for_review", "self")
    /\ UNCHANGED commits

Block(w) ==
    /\ lane[w] \in {"in_progress", "in_review"}
    /\ Move(w, "blocked", "self")
    /\ UNCHANGED commits

(* Somebody else moves the WP: never out of done, into done only from      *)
(* review, and into review only with output to look at.                    *)
OtherMove(w) ==
    /\ lane[w] # "done"
    /\ \E to \in Lanes \ {"none", "claimed", "for_review"} :
          /\ to = "in_review" => lane[w] = "for_review"
          /\ to = "done" => lane[w] = "in_review"
          /\ Move(w, to, "other")
    /\ UNCHANGED commits

Next ==
    \E w \in WPs :
        \/ Start(w)      \/ Produce(w)      \/ Submit(w)  \/ OpenReview(w)
        \/ Approve(w)    \/ ReturnToWork(w) \/ Requeue(w) \/ Block(w)
        \/ OtherMove(w)

Spec == Init /\ [][Next]_lifecycleVars
=============================================================================
