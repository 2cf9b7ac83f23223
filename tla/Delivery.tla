-------------------------------- MODULE Delivery --------------------------------
(***************************************************************************)
(* What the offline engine promises of a delivery, one event for one       *)
(* strategy, without its runs, records and recovery.                       *)
(*                                                                         *)
(* A delivery is accepted once and worked on by one run.  When its run     *)
(* ends without an outcome it is held, if a record of it was left, or      *)
(* lost.  Only a held delivery is taken up again; one that is settled or   *)
(* lost never is: nothing settled runs twice.                              *)
(***************************************************************************)
CONSTANT Deliveries

VARIABLE state      \* of each delivery

States == {"none", "active", "held", "settled", "lost"}

\* What can become of a delivery in one step.
Follows(s) ==
    CASE s = "none"    -> {"none", "active"}
      [] s = "active"  -> {"active", "settled", "held", "lost"}
      [] s = "held"    -> {"held", "active", "lost"}
      [] s = "settled" -> {"settled"}
      [] s = "lost"    -> {"lost"}

Init == state = [d \in Deliveries |-> "none"]

\* Many deliveries may move in one step: a crash ends all runs at once.
Next ==
    /\ state' \in [Deliveries -> States]
    /\ \A d \in Deliveries : state'[d] \in Follows(state[d])

Spec == Init /\ [][Next]_state
================================================================================
