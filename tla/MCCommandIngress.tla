--------------------------- MODULE MCCommandIngress ---------------------------
(***************************************************************************)
(* Two rings of two twists.  The one of the ROS bridge is lapped by its    *)
(* third velocity; the hand operator sends one, which may meet either of   *)
(* its actions inside enqueue.                                             *)
(***************************************************************************)
EXTENDS CommandIngress

MCTwistCount == [r \in Rings |-> 2]
MCMaxSent == [r \in Rings |-> IF r = "handop" THEN 1 ELSE 3]

=============================================================================
