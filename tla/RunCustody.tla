----------------------------- MODULE RunCustody -----------------------------
(***************************************************************************)
(* What the run lock promises to the processes of one repository, with the *)
(* lock, its owner file and the commands left out: one process at a time   *)
(* drives the mission, none drives twice, and a process is turned away     *)
(* only while another one drives.                                          *)
(*                                                                         *)
(* RunSession.tla is the command line; it implements this module.          *)
(***************************************************************************)
CONSTANT Procs          \* the processes

VARIABLE standing       \* standing[p]: what has become of process p

Standings == {"out", "driving", "refused", "over"}

Init == standing = [p \in Procs |-> "out"]

Becomes(p, s) == standing' = [standing EXCEPT ![p] = s]

Take(p) ==
    /\ standing[p] = "out"
    /\ \A q \in Procs : standing[q] # "driving"
    /\ Becomes(p, "driving")

TurnAway(p) ==
    /\ standing[p] = "out"
    /\ \E q \in Procs : standing[q] = "driving"
    /\ Becomes(p, "refused")

(* In good order, by a signal or by a crash, whether it drove or not.       *)
Leave(p) == standing[p] # "over" /\ Becomes(p, "over")

Next == \E p \in Procs : Take(p) \/ TurnAway(p) \/ Leave(p)

Spec == Init /\ [][Next]_standing
=============================================================================
