------------------------------ MODULE LimitRules ------------------------------
(* What limits mean (services/limits.py): the class Limits, merge and      *)
(* validate_combination.  Limits map fields to values; 0 is no limit.      *)
EXTENDS Integers

Unset == -1     \* the field is missing

Limited(value) == value \notin {0, Unset}

(* merge: an own field, 0 included, replaces the global one. *)
Merge(all, special) ==
    [f \in DOMAIN all |-> IF special[f] # Unset THEN special[f] ELSE all[f]]

(* validate_combination *)
Consistent(limits) ==
    Limited(limits["min_gb"]) /\ Limited(limits["max_gb"])
        => limits["min_gb"] <= limits["max_gb"]

(* Limits.check_gb; a range that is no range allows nothing. *)
AllowedGb(limits, gb) ==
    /\ Consistent(limits)
    /\ Limited(limits["min_gb"]) => gb >= limits["min_gb"]
    /\ Limited(limits["max_gb"]) => gb <= limits["max_gb"]
===============================================================================
