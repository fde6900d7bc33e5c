-------------------------- MODULE MCOrchestration --------------------------
(***************************************************************************)
(* Small instances of Orchestration for TLC. Work packages and agents are  *)
(* strings, so that dependencies and agent lists can name them.            *)
(***************************************************************************)
EXTENDS Orchestration, TLC

OneWP  == {"w1"}
TwoWPs == {"w1", "w2"}

Independent1 == "w1" :> {}
Chain2       == "w1" :> {} @@ "w2" :> {"w1"}

Planned1 == {[w \in OneWP |-> "planned"]}
Planned2 == {[w \in TwoWPs |-> "planned"]}

(* Lanes a former run, or work outside the orchestrator, may have left.    *)
LeftLanes == {"planned", "claimed", "in_progress", "for_review", "in_review", "done"}
AnyLeft2  == [TwoWPs -> LeftLanes]

TwoAgents == {"a1", "a2"}

Settings(agents, slotCount) ==
    [implementers |-> agents, has_reviewer |-> TRUE, max_concurrent |-> slotCount]

(* The same settings for both commands.                                    *)
OneAgentOneSlot  == [c \in Commands |-> Settings(<<"a1">>, 1)]
OneAgentTwoSlots == [c \in Commands |-> Settings(<<"a1">>, 2)]

(* orchestrate --impl-agent a1 --max-concurrent 1; the file resume reads   *)
(* names another agent, and no reviewer.                                   *)
OverriddenThenFile ==
    [c \in Commands |->
        IF c = "orchestrate" THEN Settings(<<"a1">>, 1)
        ELSE [Settings(<<"a2", "a1">>, 2) EXCEPT !.has_reviewer = FALSE]]

AllOutcomes == {"ok", "idle", "fail", "auth"}
Good        == {"ok"}
Diligent    == {"ok", "auth"}
AllVerdicts == {"approve", "reject", "crash"}
Judging     == {"approve", "reject"}
Approving   == {"approve"}
=============================================================================
