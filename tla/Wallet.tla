-------------------------------- MODULE Wallet --------------------------------
(***************************************************************************)
(* What the balance of a reseller promises, and no more.                   *)
(*                                                                         *)
(* A balance changes by postings.  A posting is a ledger row and the new   *)
(* balance, which appear together or not at all.  It starts from a balance *)
(* that was really committed at some time -- not necessarily the one the   *)
(* account has now, because the program reads a balance in one step and    *)
(* writes it in a later one -- and never ends below zero.  A posting of    *)
(* amount zero adds a row and leaves the account alone.                    *)
(*                                                                         *)
(* The parameters of a step are read off its outcome (balance', ledger'),  *)
(* so that TLC can evaluate the specification as a property.               *)
(***************************************************************************)
EXTENDS Integers

CONSTANT Resellers

VARIABLES
    live,     \* resellers that have a row now
    balance,  \* balance[r], meaningful while r is live
    held,     \* held[r], every balance ever committed under id r
    ledger    \* set of rows [id, reseller, amount, before, after, ...]

vars == <<live, balance, held, ledger>>

Init ==
    /\ live = {}
    /\ balance = [r \in Resellers |-> 0]
    /\ held = [r \in Resellers |-> {}]
    /\ ledger = {}

(* r's balance is set to amount and remembered. *)
Write(r, amount) ==
    /\ amount >= 0
    /\ balance' = [balance EXCEPT ![r] = amount]
    /\ held' = [held EXCEPT ![r] = @ \cup {amount}]

Open(r) ==
    /\ r \notin live
    /\ live' = live \cup {r}
    /\ Write(r, balance'[r])
    /\ UNCHANGED ledger

Close(r) ==
    /\ r \in live
    /\ live' = live \ {r}
    /\ ledger' = {row \in ledger : row.reseller # r}
    /\ UNCHANGED <<balance, held>>

Post(r, row) ==
    /\ ledger' = ledger \cup {row}
    /\ row.reseller = r
    /\ \A older \in ledger : older.id < row.id
    /\ row.before \in held[r]
    /\ row.after = row.before + row.amount
    /\ \/ row.amount # 0 /\ r \in live /\ Write(r, row.after)
       \/ row.amount = 0 /\ UNCHANGED <<balance, held>>
    /\ UNCHANGED live

Next == \E r \in Resellers :
            \/ Open(r)
            \/ Close(r)
            \/ \E row \in ledger' \ ledger : Post(r, row)

Spec == Init /\ [][Next]_vars
===============================================================================
