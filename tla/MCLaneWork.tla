----------------------------- MODULE MCLaneWork -----------------------------
(***************************************************************************)
(* Small instances of LaneWork for TLC: the first WP may be retried and    *)
(* reworked, the second only once and not at all.                          *)
(***************************************************************************)
EXTENDS LaneWork, TLC

OneWP  == {"w1"}
TwoWPs == {"w1", "w2"}

FirstTwice == "w1" :> 2 @@ "w2" :> 1
FirstOnce  == "w1" :> 1 @@ "w2" :> 0
=============================================================================
