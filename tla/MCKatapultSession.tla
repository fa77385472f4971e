------------------------- MODULE MCKatapultSession -------------------------
(* Instances of KatapultSession for TLC. *)
EXTENDS KatapultSession

CONSTANTS A, B   \* two contents of a block

AllTasks == Task
AllTargets == Target
=============================================================================
