---------------------------- MODULE MCProvisioning ----------------------------
(* Constants of the provisioning run that a .cfg file cannot write down.    *)
EXTENDS Provisioning

CONSTANTS ann, bob, cat

\* Two resellers with a name each.
TwoResellers == <<ann, bob>>
===============================================================================
