----------------------------- MODULE BillingClaims -----------------------------
(* What the bot's documentation and messages say of balances and requests,  *)
(* and overlapping handlers break.                                          *)
EXTENDS Billing, FiniteSetsExt

(* README.md:22: all Telegram accounts of a reseller spend from one shared  *)
(* balance.  So what is spent and credited adds up: the balance is the      *)
(* opening balance and the sum of the rows of the transactions list.        *)
BalanceAddsUp ==
    \A r \in live :
        balance[r] = opening[r] + MapThenSumSet(LAMBDA row : row.amount, Effective(r))

(* admin.py:1398 tells the second admin that the request has already been   *)
(* processed: a request is credited at most once, and not when rejected.    *)
Credits(q) == {row \in ledger : row.request = q}
RequestProcessedOnce ==
    \A q \in Requests :
        /\ \A row1, row2 \in Credits(q) : row1 = row2
        /\ request[q].status = "rejected" => Credits(q) = {}
===============================================================================
