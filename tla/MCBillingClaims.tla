--------------------------- MODULE MCBillingClaims ---------------------------
(* Constants of the BillingClaims runs that a .cfg file cannot write down. *)
EXTENDS BillingClaims

EveryAmount == {-1, 0, 2}
===============================================================================
