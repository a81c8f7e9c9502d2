------------------------- MODULE MCWorkflowLifecycle -------------------------
(* Instances of WorkflowLifecycle for TLC: the slots of a workflow are     *)
(* interchangeable.                                                        *)
EXTENDS WorkflowLifecycle, TLC

SlotSymmetry == Permutations(Slots)
=============================================================================
