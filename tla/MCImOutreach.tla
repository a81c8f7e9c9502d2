---------------------------- MODULE MCImOutreach ----------------------------
(* ImOutreach with interchangeable tasks.                                  *)
EXTENDS ImOutreach, TLC

TaskSymmetry == Permutations(Tasks)
=============================================================================
