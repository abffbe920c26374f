------------------------------- MODULE MCLimits -------------------------------
(* Limits with its resellers and its admins alike. *)
EXTENDS Limits, TLC

LimitsSymmetry == Permutations(Resellers) \cup Permutations(Tasks)
===============================================================================
