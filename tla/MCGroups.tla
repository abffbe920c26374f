------------------------------- MODULE MCGroups -------------------------------
(* Groups, resellers and admins are interchangeable. *)
EXTENDS Groups, TLC
GroupsSymmetry == Permutations(Groups) \cup Permutations(Resellers) \cup Permutations(Admins)
===============================================================================
