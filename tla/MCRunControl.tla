---------------------------- MODULE MCRunControl ----------------------------
(* Instances of RunControl: one arm that may fail, or never does. *)
EXTENDS RunControl
NoArms == {}
OneArm == {"left"}
AllPhases == Phases
Teleop == {"collection"}
=============================================================================
