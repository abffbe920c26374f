------------------------------ MODULE GroupsClaims ------------------------------
(* What the picker of a reseller's groups says of its save button. *)
EXTENDS Groups

(* reseller_view.py:114 warns of groups that are gone from the panel that   *)
(* saving removes them: a save that no other overtook leaves the reseller   *)
(* with the groups that were selected, and with those only.                 *)
SavedAsSelected ==
    [][\A t \in Admins :
         LET s == session[t]
         IN  s.at = "write" /\ s.whose = "one" /\ session'[t].at # "write" /\ ~s.stale
             => rows'[s.reseller] = s.tags]_groupsVars
===============================================================================
