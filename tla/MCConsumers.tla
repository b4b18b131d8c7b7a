---------------------------- MODULE MCConsumers ----------------------------
(* Two arms: one joint-controlled, one force-controlled; two rigs' schemas. *)
EXTENDS Consumers
Rig == {"left", "right"}
JointArms == {"left"}
ForceArms == {"right"}
TwoPoses == {1, 2}
TwoSchemas == {"bimanual", "single"}
=============================================================================
