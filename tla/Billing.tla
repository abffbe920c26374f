-------------------------------- MODULE Billing --------------------------------
(***************************************************************************)
(* The balance of the resellers and everything that changes it:            *)
(* BillingService (services/billing.py), the create and renew handlers     *)
(* that charge (handlers/reseller.py), the admin's manual changes, the     *)
(* recharge requests and their approval (handlers/admin.py), prices, and   *)
(* adding and deleting resellers (database/repositories.py).               *)
(*                                                                         *)
(* The bot handles every update in an asyncio task of its own, and each    *)
(* handler opens a database session, reads rows, awaits other things, then *)
(* flushes and commits.  A task below is one handler activation.  Its      *)
(* session's identity map keeps the values first read, so what it writes   *)
(* is computed from those, and SQLite takes no lock before the first       *)
(* write: a task is a step that reads, possibly much later followed by a   *)
(* step that commits, and any other task may run between.                  *)
(***************************************************************************)
EXTENDS Integers

CONSTANTS
    Resellers,        \* ids the table resellers may use
    Purgeable,        \* the resellers an admin may delete permanently
    Tasks,            \* handler activations, each runs once
    Requests,         \* ids the table recharge_requests may use
    Sizes,            \* volumes in GB a create or renew may ask for
    Prices,           \* prices per GB
    Amounts,          \* amounts an admin may type (money(): finite and not negative)
    RechargeAmounts   \* amounts a reseller may type, of either sign

ASSUME BillingAssumption ==
    /\ Resellers \subseteq Nat \ {0}
    /\ Purgeable \subseteq Resellers
    /\ Requests \subseteq Nat \ {0}
    /\ Sizes \subseteq Nat \ {0}
    /\ Prices \subseteq Nat \ {0}
    /\ Amounts \subseteq Nat
    /\ RechargeAmounts \subseteq Int

(* models.py TransactionType; create_user and renew_user are one kind here. *)
Kinds == {"charge", "increase", "decrease", "set_balance", "recharge"}

VARIABLES
    live,      \* ids that have a row in the table resellers
    balance,   \* balance[r], the column; price[r] likewise
    price,
    opening,   \* the balance the present row of r was created with (history)
    purged,    \* ids that were ever deleted for good (history)
    held,      \* held[r], every balance ever committed under id r (history)
    ledger,    \* rows of balance_transactions
    posted,    \* how many of them were ever inserted, which orders them
    request,   \* request[q], a row of recharge_requests or Absent
    session    \* session[t], the database session of task t

accounts == <<live, balance, opening, purged, held>>
postings == <<ledger, posted>>
vars == <<live, balance, price, opening, purged, held, ledger, posted, request, session>>

NoId == 0
(* request: the one named in the description of a recharge's row. *)
LedgerRow == [id: Nat, reseller: Resellers, kind: Kinds, request: Requests \cup {NoId},
              amount: Int, before: Int, after: Int]

Absent == [status |-> "absent", reseller |-> NoId, amount |-> 0]
RequestRow == [status: {"absent", "pending", "approved", "rejected"},
               reseller: Resellers \cup {NoId}, amount: Int]

(* A session: what the task will do next, and the row values it has read. *)
Steps == {"idle", "charge", "increase", "decrease", "set_balance", "submit",
          "approving", "rejecting", "approve", "reject", "done"}
Session == [at: Steps, reseller: Resellers \cup {NoId}, cached: Int,
            amount: Int, request: Requests \cup {NoId}]
Empty(at) == [at |-> at, reseller |-> NoId, cached |-> 0, amount |-> 0, request |-> NoId]

TypeOK ==
    /\ live \subseteq Resellers
    /\ balance \in [Resellers -> Int]
    /\ price \in [Resellers -> Nat]
    /\ opening \in [Resellers -> Int]
    /\ purged \subseteq Purgeable
    /\ held \in [Resellers -> SUBSET Int]
    /\ ledger \subseteq LedgerRow
    /\ posted \in Nat
    /\ request \in [Requests -> RequestRow]
    /\ session \in [Tasks -> Session]

Init ==
    /\ live = {}
    /\ balance = [r \in Resellers |-> 0]
    /\ price = [r \in Resellers |-> 0]
    /\ opening = [r \in Resellers |-> 0]
    /\ purged = {}
    /\ held = [r \in Resellers |-> {}]
    /\ ledger = {}
    /\ posted = 0
    /\ request = [q \in Requests |-> Absent]
    /\ session = [t \in Tasks |-> Empty("idle")]

(* SQLite gives a new row the id after the largest in the table, so an id  *)
(* comes back when the row that had the largest one was deleted.           *)
NextId(id, used) == /\ \A other \in used : other < id
                    /\ id = 1 \/ id - 1 \in used

Stored == {q \in Requests : request[q].status # "absent"}

Start(t, s) == /\ session[t].at = "idle"
               /\ session' = [session EXCEPT ![t] = s]
Finish(t) == session' = [session EXCEPT ![t] = Empty("done")]

-------------------------------------------------------------------------------
(* The admin adds a reseller; its opening balance gets no ledger row. *)
AddReseller(r, amount, p) ==
    /\ NextId(r, live)
    /\ live' = live \cup {r}
    /\ balance' = [balance EXCEPT ![r] = amount]
    /\ opening' = [opening EXCEPT ![r] = amount]
    /\ held' = [held EXCEPT ![r] = @ \cup {amount}]
    /\ price' = [price EXCEPT ![r] = p]
    /\ UNCHANGED <<purged, postings, request, session>>

RowsOfNothing(r) == {}  \* mutant: children left to a foreign key cascade that is off
RowsOf(r) == {row \in ledger : row.reseller = r}

(* delete_permanently: the reseller's rows, in one transaction. *)
DeletePermanently(r) ==
    /\ r \in live \cap Purgeable
    /\ live' = live \ {r}
    /\ purged' = purged \cup {r}
    /\ ledger' = ledger \ RowsOf(r)
    /\ request' = [q \in Requests |->
                     IF request[q].reseller = r THEN Absent ELSE request[q]]
    /\ UNCHANGED <<balance, price, opening, held, posted, session>>

EditPrice(r, p) ==
    /\ r \in live
    /\ price' = [price EXCEPT ![r] = p]
    /\ UNCHANGED <<accounts, postings, request, session>>

(* One UPDATE without WHERE: every reseller, archived ones too. *)
ApplyGlobalPrice(p) ==
    /\ price' = [r \in Resellers |-> IF r \in live THEN p ELSE price[r]]
    /\ UNCHANGED <<accounts, postings, request, session>>

-------------------------------------------------------------------------------
Read(r, at, amount) ==
    [at |-> at, reseller |-> r, cached |-> balance[r], amount |-> amount, request |-> NoId]

CoversCost(r, gb) == balance[r] >= gb * price[r]

(* A create or a renewal is confirmed: the session reads the reseller and  *)
(* goes on only if the balance it read covers the cost at the price it     *)
(* read.  The panel calls follow, with the session open and nothing locked.*)
BeginCharge(t, r, gb) ==
    /\ r \in live
    /\ CoversCost(r, gb)
    /\ Start(t, Read(r, "charge", -(gb * price[r])))
    /\ UNCHANGED <<accounts, postings, price, request>>

(* The admin confirms a manual change. *)
BeginAdjust(t, r, action, amount) ==
    /\ r \in live
    /\ \/ action = "increase"    /\ Start(t, Read(r, action, amount))
       \/ action = "decrease"    /\ Start(t, Read(r, action, -amount))
       \/ action = "set_balance" /\ Start(t, Read(r, action, amount - balance[r]))
    /\ UNCHANGED <<accounts, postings, price, request>>

Never(s) == FALSE  \* mutant of the next two: the check is not made

(* change_balance raises InsufficientBalanceError. *)
Insufficient(s) == s.cached + s.amount < 0

(* The UPDATE matches no row and the ORM raises.  A change of zero is no   *)
(* change of the column: there is no UPDATE that could notice.             *)
RowIsGone(s) == s.amount # 0 /\ s.reseller \notin live

(* BillingService.change_balance and its flush, for the row that session s *)
(* has in its identity map: the new balance is computed from the cached    *)
(* one and written together with the ledger row.                           *)
ChangeBalance(s, kind) ==
    LET after == s.cached + s.amount IN
    /\ ~Insufficient(s)
    /\ ~RowIsGone(s)
    /\ posted' = posted + 1
    /\ ledger' = ledger \cup
         {[id |-> posted + 1, reseller |-> s.reseller, kind |-> kind, request |-> s.request,
           amount |-> s.amount, before |-> s.cached, after |-> after]}
    /\ IF s.amount = 0
         THEN UNCHANGED <<balance, held>>
         ELSE /\ balance' = [balance EXCEPT ![s.reseller] = after]
              /\ held' = [held EXCEPT ![s.reseller] = @ \cup {after}]
    /\ UNCHANGED <<live, opening, purged>>

(* The transaction that ends a charge or a manual change. *)
CommitPosting(t) ==
    LET s == session[t] IN
    /\ s.at \in {"charge", "increase", "decrease", "set_balance"}
    /\ ChangeBalance(s, s.at)
    /\ Finish(t)
    /\ UNCHANGED <<price, request>>

-------------------------------------------------------------------------------
(* A receipt arrives: the middleware reads the reseller, then the handler  *)
(* inserts the request under that id.                                      *)
BeginSubmit(t, r, amount) ==
    /\ r \in live
    /\ Start(t, Read(r, "submit", amount))
    /\ UNCHANGED <<accounts, postings, price, request>>

CommitSubmit(t) ==
    LET s == session[t] IN
    /\ s.at = "submit"
    /\ \E q \in Requests :
         /\ NextId(q, Stored)
         /\ request' = [request EXCEPT ![q] =
              [status |-> "pending", reseller |-> s.reseller, amount |-> s.amount]]
    /\ Finish(t)
    /\ UNCHANGED <<accounts, postings, price>>

(* An admin presses approve or reject: the session reads the request and   *)
(* goes on only if it is pending.                                          *)
BeginSettle(t, q, verdict) ==
    /\ request[q].status = "pending"
    /\ Start(t, [at |-> verdict, reseller |-> request[q].reseller, cached |-> 0,
                 amount |-> request[q].amount, request |-> q])
    /\ UNCHANGED <<accounts, postings, price, request>>

NextStatus(at) == IF at = "approving" THEN "approved" ELSE "rejected"  \* mutant
NextStep(at) == IF at = "approving" THEN "approve" ELSE "reject"

(* ... then reads the reseller, in a second query. *)
ReadReseller(t) ==
    LET s == session[t] IN
    /\ s.at \in {"approving", "rejecting"}
    /\ s.reseller \in live
    /\ session' = [session EXCEPT
         ![t].at = NextStep(s.at), ![t].cached = balance[s.reseller]]
    /\ UNCHANGED <<accounts, postings, price, request>>

(* Mutant: the status is committed on its own, before the balance. *)
CommitApproveStatus(t) ==
    /\ session[t].at = "approve"
    /\ session[t].request \in Stored
    /\ request' = [request EXCEPT ![session[t].request].status = "approved"]
    /\ Finish(t)
    /\ UNCHANGED <<accounts, postings, price>>

(* The balance, the ledger row and the status are one transaction; it      *)
(* fails when the request's row is gone.                                   *)
CommitApprove(t) ==
    LET s == session[t] IN
    /\ s.at = "approve"
    /\ s.request \in Stored
    /\ ChangeBalance(s, "recharge")
    /\ request' = [request EXCEPT ![s.request].status = "approved"]
    /\ Finish(t)
    /\ UNCHANGED price

CommitReject(t) ==
    LET s == session[t] IN
    /\ s.at = "reject"
    /\ s.request \in Stored
    /\ request' = [request EXCEPT ![s.request].status = "rejected"]
    /\ Finish(t)
    /\ UNCHANGED <<accounts, postings, price>>

(* The task ends without committing: a refusal (InsufficientBalanceError,  *)
(* row gone), a failed panel call, a create already recorded, a database   *)
(* error, a cancelled task or a restart of the process.                    *)
Abandon(t) ==
    /\ session[t].at \notin {"idle", "done"}
    /\ Finish(t)
    /\ UNCHANGED <<accounts, postings, price, request>>

Next ==
    \/ \E r \in Resellers :
         \/ \E amount \in Amounts, p \in Prices : AddReseller(r, amount, p)
         \/ DeletePermanently(r)
         \/ \E p \in Prices : EditPrice(r, p)
    \/ \E p \in Prices : ApplyGlobalPrice(p)
    \/ \E t \in Tasks :
         \/ \E r \in Resellers, gb \in Sizes : BeginCharge(t, r, gb)
         \/ \E r \in Resellers, amount \in Amounts,
               action \in {"increase", "decrease", "set_balance"} :
                 BeginAdjust(t, r, action, amount)
         \/ CommitPosting(t)
         \/ \E r \in Resellers, amount \in RechargeAmounts : BeginSubmit(t, r, amount)
         \/ CommitSubmit(t)
         \/ \E q \in Requests, verdict \in {"approving", "rejecting"} :
              BeginSettle(t, q, verdict)
         \/ ReadReseller(t)
         \/ CommitApprove(t)
         \/ CommitReject(t)
         \/ Abandon(t)

Spec == Init /\ [][Next]_vars

-------------------------------------------------------------------------------
(* No reseller's balance is ever below zero, although every check of it    *)
(* (reseller.py:315 and 453, billing.py:15) looks at a cached copy.        *)
BalanceNonNegative == \A r \in live : balance[r] >= 0

(* Rows of r that changed its balance. *)
Effective(r) == {row \in ledger : row.reseller = r /\ row.amount # 0}

(* The balance of a reseller is the one its newest effective ledger row    *)
(* ends with, or its opening balance when there is none: no write of the   *)
(* column escapes the transactions list, whatever the interleaving.        *)
BalanceIsNewestPosting ==
    \A r \in live :
        IF Effective(r) = {}
          THEN balance[r] = opening[r]
          ELSE \E last \in Effective(r) :
                 /\ balance[r] = last.after
                 /\ \A row \in Effective(r) : row.id <= last.id

(* As long as no reseller was deleted for good, an approved request was    *)
(* credited: there is a row of its amount, for the reseller who filed it.  *)
ApprovedIsCredited ==
    purged = {} =>
        \A q \in Requests :
            request[q].status = "approved" =>
                \E row \in ledger :
                    /\ row.kind = "recharge"
                    /\ row.request = q
                    /\ row.reseller = request[q].reseller
                    /\ row.amount = request[q].amount

(* The balances, with all the interleavings, are a Wallet. *)
Wallet == INSTANCE Wallet WITH Resellers <- Resellers, live <- live,
                               balance <- balance, held <- held, ledger <- ledger
ImplementsWallet == Wallet!Spec
===============================================================================
