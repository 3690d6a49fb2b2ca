----------------------------- MODULE MCRobotLink -----------------------------
(***************************************************************************)
(* A robot of two joints: the first of efc.xml and the waist, whose        *)
(* model_id 0 is also the ModelId of a blank motor state.                  *)
(***************************************************************************)
EXTENDS RobotLink

MCDevices == <<12, 0>>
MCCells == {0, 1}
MCCellOf == [j \in {12, 0} |-> IF j = 12 THEN 0 ELSE 1]

=============================================================================
