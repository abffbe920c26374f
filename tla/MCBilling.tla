------------------------------- MODULE MCBilling -------------------------------
(* Constants of the Billing runs that a .cfg file cannot write down.        *)
EXTENDS Billing, TLC

\* A reseller may type any number: a negative one, zero, a useful one.
EveryAmount == {-1, 0, 2}

\* Tasks are interchangeable: a task has no identity beyond its session.
TaskSymmetry == Permutations(Tasks)
===============================================================================
