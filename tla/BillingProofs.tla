---------------------------- MODULE BillingProofs ----------------------------
(***************************************************************************)
(* Theorems about Billing, for every value of its constants: any number of *)
(* resellers, handlers, requests, prices and amounts.                      *)
(*                                                                         *)
(* The argument is one inductive invariant, IInv.  Besides the types it    *)
(* says what a session may rely on although others have committed since it *)
(* read: the balance it cached was committed once, so it is one of held.   *)
(***************************************************************************)
EXTENDS Billing, TLAPS

Posting == {"charge", "increase", "decrease", "set_balance", "approve"}
Settling == {"approving", "rejecting", "approve", "reject"}

(* What a task has read when it is under way. *)
SessionInv ==
    \A t \in Tasks :
        LET s == session[t] IN
        /\ s.at \notin {"idle", "done"} => s.reseller \in Resellers
        /\ s.at \in Posting => s.cached \in held[s.reseller]
        /\ s.at \in Settling => s.request \in Requests

RequestInv ==
    \A q \in Requests : request[q].status # "absent" => request[q].reseller \in Resellers

BalanceInv == \A r \in live : balance[r] >= 0 /\ balance[r] \in held[r]

LedgerInv ==
    \A row \in ledger : /\ row.id <= posted
                        /\ row.amount # 0 => row.reseller \in live

IInv == TypeOK /\ SessionInv /\ RequestInv /\ BalanceInv /\ LedgerInv

(* The step of a task, apart from the handler it belongs to. *)
TaskStep(t) ==
    \/ \E r \in Resellers, gb \in Sizes : BeginCharge(t, r, gb)
    \/ \E r \in Resellers, amount \in Amounts,
          action \in {"increase", "decrease", "set_balance"} :
            BeginAdjust(t, r, action, amount)
    \/ CommitPosting(t)
    \/ \E r \in Resellers, amount \in RechargeAmounts : BeginSubmit(t, r, amount)
    \/ CommitSubmit(t)
    \/ \E q \in Requests, verdict \in {"approving", "rejecting"} : BeginSettle(t, q, verdict)
    \/ ReadReseller(t)
    \/ CommitApprove(t)
    \/ CommitReject(t)
    \/ Abandon(t)

(* What change_balance does to the invariant, whoever calls it. *)
LEMMA ChangeBalanceSafe ==
    ASSUME IInv, NEW t \in Tasks, NEW kind \in Kinds,
           session[t].at \in Posting, ChangeBalance(session[t], kind)
    PROVE  /\ balance' \in [Resellers -> Int]
           /\ held' \in [Resellers -> SUBSET Int]
           /\ \A r \in Resellers : held[r] \subseteq held'[r]
           /\ ledger' \subseteq LedgerRow
           /\ posted' \in Nat
           /\ BalanceInv'
           /\ LedgerInv'
<1> DEFINE s == session[t]
           after == s.cached + s.amount
           row == [id |-> posted + 1, reseller |-> s.reseller, kind |-> kind,
                   request |-> s.request, amount |-> s.amount,
                   before |-> s.cached, after |-> after]
<1>1. s \in Session /\ s.reseller \in Resellers /\ after \in Int /\ posted \in Nat
  BY DEF IInv, TypeOK, SessionInv, Session, Posting
<1>2. /\ after >= 0
      /\ posted' = posted + 1
      /\ ledger' = ledger \cup {row}
      /\ live' = live
  BY <1>1 DEF ChangeBalance, Insufficient, Session
<1>3. row \in LedgerRow
  BY <1>1 DEF LedgerRow, Session
<1>4. CASE s.amount # 0
  <2>1. /\ s.reseller \in live
        /\ balance' = [balance EXCEPT ![s.reseller] = after]
        /\ held' = [held EXCEPT ![s.reseller] = @ \cup {after}]
    BY <1>4 DEF ChangeBalance, Insufficient, RowIsGone
  <2>2. /\ balance' \in [Resellers -> Int]
        /\ held' \in [Resellers -> SUBSET Int]
        /\ \A r \in Resellers : held[r] \subseteq held'[r]
    BY <1>1, <2>1 DEF IInv, TypeOK
  <2>3. BalanceInv'
    BY <1>1, <1>2, <2>1, <2>2 DEF IInv, TypeOK, BalanceInv
  <2>4. LedgerInv'
    BY <1>1, <1>2, <2>1 DEF IInv, LedgerInv, TypeOK, LedgerRow
  <2> QED BY <1>1, <1>2, <1>3, <2>2, <2>3, <2>4 DEF IInv, TypeOK
<1>5. CASE s.amount = 0
  <2>1. balance' = balance /\ held' = held
    BY <1>5 DEF ChangeBalance, Insufficient, RowIsGone
  <2>2. BalanceInv' /\ LedgerInv'
    BY <1>1, <1>2, <1>5, <2>1 DEF IInv, BalanceInv, LedgerInv, TypeOK, LedgerRow
  <2> QED BY <1>1, <1>2, <1>3, <2>1, <2>2 DEF IInv, TypeOK
<1> QED BY <1>4, <1>5

LEMMA InitInv == Init => IInv
BY DEF Init, IInv, TypeOK, SessionInv, RequestInv, BalanceInv, LedgerInv,
       Empty, Absent, NoId, RequestRow, Session, Steps, Posting, Settling, LedgerRow

-------------------------------------------------------------------------------
(* A step that changes no row keeps the invariant if the one session it    *)
(* moves is one the invariant allows.                                      *)
LEMMA SessionStep ==
    ASSUME IInv, NEW t \in Tasks, NEW s \in Session,
           session' = [session EXCEPT ![t] = s],
           UNCHANGED <<accounts, postings, price, request>>,
           s.at \notin {"idle", "done"} => s.reseller \in Resellers,
           s.at \in Posting => s.cached \in held[s.reseller],
           s.at \in Settling => s.request \in Requests
    PROVE  IInv'
BY DEF IInv, TypeOK, SessionInv, RequestInv, BalanceInv, LedgerInv, accounts, postings

LEMMA FinishStep ==
    ASSUME IInv, NEW t \in Tasks, Finish(t),
           \A r \in Resellers : held[r] \subseteq held'[r]
    PROVE  session' \in [Tasks -> Session] /\ SessionInv'
<1>1. Empty("done") \in Session
  BY DEF Empty, Session, Steps, NoId
<1>2. session' \in [Tasks -> Session]
  BY <1>1 DEF Finish, IInv, TypeOK
<1>3. SessionInv'
  <2> SUFFICES ASSUME NEW u \in Tasks
               PROVE  LET s == session'[u] IN
                      /\ s.at \notin {"idle", "done"} => s.reseller \in Resellers
                      /\ s.at \in Posting => s.cached \in held'[s.reseller]
                      /\ s.at \in Settling => s.request \in Requests
    BY DEF SessionInv
  <2>1. CASE u = t
    BY <2>1 DEF Finish, Empty, IInv, TypeOK, Posting, Settling
  <2>2. CASE u # t
    BY <2>2 DEF Finish, IInv, TypeOK, SessionInv, Posting
  <2> QED BY <2>1, <2>2
<1> QED BY <1>2, <1>3

LEMMA AdminStep ==
    ASSUME IInv, NEW r \in Resellers
    PROVE  /\ \A amount \in Amounts, p \in Prices : AddReseller(r, amount, p) => IInv'
           /\ DeletePermanently(r) => IInv'
           /\ \A p \in Prices : EditPrice(r, p) => IInv'
<1>1. ASSUME NEW amount \in Amounts, NEW p \in Prices, AddReseller(r, amount, p)
      PROVE  IInv'
  <2>1. amount \in Nat /\ p \in Nat
    BY BillingAssumption
  <2>2. TypeOK' /\ RequestInv' /\ BalanceInv' /\ LedgerInv'
    BY <1>1, <2>1 DEF AddReseller, postings, IInv, TypeOK, RequestInv, BalanceInv, LedgerInv
  <2>3. SessionInv'
    BY <1>1, <2>1 DEF AddReseller, IInv, TypeOK, SessionInv, Session, Posting
  <2> QED BY <2>2, <2>3 DEF IInv
<1>2. ASSUME DeletePermanently(r)
      PROVE  IInv'
  <2>1. TypeOK' /\ RequestInv'
    BY <1>2 DEF DeletePermanently, RowsOf, IInv, TypeOK, RequestInv, Absent, NoId, RequestRow
  <2>2. SessionInv' /\ BalanceInv' /\ LedgerInv'
    BY <1>2 DEF DeletePermanently, RowsOf, IInv, TypeOK, SessionInv, BalanceInv, LedgerInv, LedgerRow
  <2> QED BY <2>1, <2>2 DEF IInv
<1>3. ASSUME NEW p \in Prices, EditPrice(r, p)
      PROVE  IInv'
  BY <1>3, BillingAssumption
     DEF EditPrice, accounts, postings, IInv, TypeOK, SessionInv, RequestInv, BalanceInv, LedgerInv
<1> QED BY <1>1, <1>2, <1>3

LEMMA BeginStep ==
    ASSUME IInv, NEW t \in Tasks
    PROVE  /\ \A r \in Resellers, gb \in Sizes : BeginCharge(t, r, gb) => IInv'
           /\ \A r \in Resellers, amount \in Amounts,
                 action \in {"increase", "decrease", "set_balance"} :
                   BeginAdjust(t, r, action, amount) => IInv'
           /\ \A r \in Resellers, amount \in RechargeAmounts :
                 BeginSubmit(t, r, amount) => IInv'
           /\ \A q \in Requests, verdict \in {"approving", "rejecting"} :
                 BeginSettle(t, q, verdict) => IInv'
           /\ ReadReseller(t) => IInv'
<1>1. ASSUME NEW r \in Resellers, NEW gb \in Sizes, BeginCharge(t, r, gb)
      PROVE  IInv'
  <2> DEFINE s == Read(r, "charge", -(gb * price[r]))
  <2>1. gb * price[r] \in Int
    BY BillingAssumption DEF IInv, TypeOK
  <2>2. s \in Session /\ s.cached \in held[r]
    BY <1>1, <2>1 DEF BeginCharge, Read, Session, Steps, NoId, IInv, TypeOK, BalanceInv
  <2> QED BY <1>1, <2>2, SessionStep DEF BeginCharge, Start, Read, Settling
<1>2. ASSUME NEW r \in Resellers, NEW amount \in Amounts,
             NEW action \in {"increase", "decrease", "set_balance"},
             BeginAdjust(t, r, action, amount)
      PROVE  IInv'
  <2>1. PICK delta \in Int : Start(t, Read(r, action, delta))
    BY <1>2, BillingAssumption DEF BeginAdjust, IInv, TypeOK
  <2> DEFINE s == Read(r, action, delta)
  <2>2. s \in Session /\ s.cached \in held[r]
    BY <1>2 DEF BeginAdjust, Read, Session, Steps, NoId, IInv, TypeOK, BalanceInv
  <2> QED BY <1>2, <2>1, <2>2, SessionStep DEF BeginAdjust, Start, Read, Settling
<1>3. ASSUME NEW r \in Resellers, NEW amount \in RechargeAmounts, BeginSubmit(t, r, amount)
      PROVE  IInv'
  <2> DEFINE s == Read(r, "submit", amount)
  <2>1. s \in Session
    BY BillingAssumption DEF Read, Session, Steps, NoId, IInv, TypeOK
  <2> QED BY <1>3, <2>1, SessionStep DEF BeginSubmit, Start, Read, Posting, Settling
<1>4. ASSUME NEW q \in Requests, NEW verdict \in {"approving", "rejecting"},
             BeginSettle(t, q, verdict)
      PROVE  IInv'
  <2> DEFINE s == [at |-> verdict, reseller |-> request[q].reseller, cached |-> 0,
                   amount |-> request[q].amount, request |-> q]
  <2>1. s \in Session /\ s.reseller \in Resellers /\ s.at = verdict /\ s.request = q
    BY <1>4 DEF BeginSettle, Session, Steps, NoId, IInv, TypeOK, RequestInv, RequestRow
  <2> QED BY <1>4, <2>1, SessionStep DEF BeginSettle, Start, Posting
<1>5. ASSUME ReadReseller(t)
      PROVE  IInv'
  <2> DEFINE s == [session[t] EXCEPT
                     !.at = IF session[t].at = "approving" THEN "approve" ELSE "reject",
                     !.cached = balance[session[t].reseller]]
  <2>1. session[t] \in Session /\ session[t].reseller \in live /\ session[t].at \in Settling
    BY <1>5 DEF ReadReseller, IInv, TypeOK, Settling
  <2>2. /\ s \in Session /\ s.reseller \in Resellers
        /\ s.cached \in held[s.reseller] /\ s.request \in Requests
        /\ s.at \in {"approve", "reject"}
    BY <2>1 DEF IInv, TypeOK, BalanceInv, SessionInv, Session, Steps
  <2>3. session' = [session EXCEPT ![t] = s]
    BY <1>5 DEF ReadReseller, NextStep, IInv, TypeOK, Session
  <2> QED BY <1>5, <2>2, <2>3, SessionStep DEF ReadReseller
<1> QED BY <1>1, <1>2, <1>3, <1>4, <1>5

LEMMA CommitStep ==
    ASSUME IInv, NEW t \in Tasks
    PROVE  /\ CommitPosting(t) => IInv'
           /\ CommitSubmit(t) => IInv'
           /\ CommitApprove(t) => IInv'
           /\ CommitReject(t) => IInv'
           /\ Abandon(t) => IInv'
<1>1. ASSUME CommitPosting(t)
      PROVE  IInv'
  <2>1. session[t].at \in Posting /\ session[t].at \in Kinds
    BY <1>1 DEF CommitPosting, Posting, Kinds
  <2>2. ChangeBalance(session[t], session[t].at) /\ Finish(t) /\ UNCHANGED <<price, request>>
    BY <1>1 DEF CommitPosting
  <2>3. live' = live /\ opening' = opening /\ purged' = purged
    BY <2>2 DEF ChangeBalance, Insufficient, RowIsGone
  <2> QED BY <2>1, <2>2, <2>3, ChangeBalanceSafe, FinishStep DEF IInv, TypeOK, RequestInv
<1>2. ASSUME CommitSubmit(t)
      PROVE  IInv'
  <2>1. session[t].at = "submit" /\ session[t] \in Session /\ session[t].reseller \in Resellers
    BY <1>2 DEF CommitSubmit, IInv, TypeOK, SessionInv
  <2>2. request' \in [Requests -> RequestRow] /\ RequestInv'
    BY <1>2, <2>1 DEF CommitSubmit, IInv, TypeOK, RequestInv, RequestRow, Session
  <2>3. Finish(t) /\ UNCHANGED <<accounts, postings, price>>
    BY <1>2 DEF CommitSubmit
  <2> QED BY <2>2, <2>3, FinishStep
          DEF IInv, TypeOK, BalanceInv, LedgerInv, accounts, postings
<1>3. ASSUME CommitApprove(t)
      PROVE  IInv'
  <2>1. session[t].at \in Posting /\ "recharge" \in Kinds
    BY <1>3 DEF CommitApprove, Posting, Kinds
  <2>2. ChangeBalance(session[t], "recharge") /\ Finish(t) /\ UNCHANGED price
    BY <1>3 DEF CommitApprove
  <2>3. live' = live /\ opening' = opening /\ purged' = purged
    BY <2>2 DEF ChangeBalance, Insufficient, RowIsGone
  <2>4. request' \in [Requests -> RequestRow] /\ RequestInv'
    BY <1>3 DEF CommitApprove, Stored, IInv, TypeOK, RequestInv, RequestRow
  <2> QED BY <2>1, <2>2, <2>3, <2>4, ChangeBalanceSafe, FinishStep DEF IInv, TypeOK
<1>4. ASSUME CommitReject(t)
      PROVE  IInv'
  <2>1. request' \in [Requests -> RequestRow] /\ RequestInv'
    BY <1>4 DEF CommitReject, Stored, IInv, TypeOK, RequestInv, RequestRow
  <2>2. Finish(t) /\ UNCHANGED <<accounts, postings, price>>
    BY <1>4 DEF CommitReject
  <2> QED BY <2>1, <2>2, FinishStep
          DEF IInv, TypeOK, BalanceInv, LedgerInv, accounts, postings
<1>5. ASSUME Abandon(t)
      PROVE  IInv'
  <2>1. Finish(t) /\ UNCHANGED <<accounts, postings, price, request>>
    BY <1>5 DEF Abandon
  <2> QED BY <2>1, FinishStep
          DEF IInv, TypeOK, RequestInv, BalanceInv, LedgerInv, accounts, postings
<1> QED BY <1>1, <1>2, <1>3, <1>4, <1>5

LEMMA NextInv == IInv /\ [Next]_vars => IInv'
<1> SUFFICES ASSUME IInv, [Next]_vars
             PROVE  IInv'
  OBVIOUS
<1>1. CASE UNCHANGED vars
  BY <1>1 DEF vars, IInv, TypeOK, SessionInv, RequestInv, BalanceInv, LedgerInv
<1>2. CASE \E r \in Resellers :
              \/ \E amount \in Amounts, p \in Prices : AddReseller(r, amount, p)
              \/ DeletePermanently(r)
              \/ \E p \in Prices : EditPrice(r, p)
  BY <1>2, AdminStep
<1>3. CASE \E p \in Prices : ApplyGlobalPrice(p)
  BY <1>3, BillingAssumption
     DEF ApplyGlobalPrice, accounts, postings, IInv, TypeOK, SessionInv, RequestInv,
         BalanceInv, LedgerInv
<1>4. CASE \E t \in Tasks : TaskStep(t)
  BY <1>4, BeginStep, CommitStep DEF TaskStep
<1> QED BY <1>1, <1>2, <1>3, <1>4 DEF Next, TaskStep

THEOREM Invariance == Spec => []IInv
BY InitInv, NextInv, PTL DEF Spec

(* The types, for every number of resellers, handlers and requests. *)
THEOREM TypeCorrect == Spec => []TypeOK
BY Invariance, PTL DEF IInv

(* A balance is never negative, although the checks look at cached copies. *)
THEOREM NeverNegative == Spec => []BalanceNonNegative
<1>1. IInv => BalanceNonNegative
  BY DEF IInv, BalanceInv, BalanceNonNegative
<1> QED BY <1>1, Invariance, PTL

-------------------------------------------------------------------------------
(* A posting is the newest row and leaves the balance it says. *)
LEMMA ChangeBalanceNewest ==
    ASSUME IInv, BalanceIsNewestPosting, NEW t \in Tasks, NEW kind \in Kinds,
           session[t].at \in Posting, ChangeBalance(session[t], kind)
    PROVE  BalanceIsNewestPosting'
<1> DEFINE s == session[t]
           after == s.cached + s.amount
           row == [id |-> posted + 1, reseller |-> s.reseller, kind |-> kind,
                   request |-> s.request, amount |-> s.amount,
                   before |-> s.cached, after |-> after]
<1>1. s \in Session /\ s.reseller \in Resellers /\ after \in Int /\ posted \in Nat
  BY DEF IInv, TypeOK, SessionInv, Session, Posting
<1>2. ledger' = ledger \cup {row} /\ live' = live /\ opening' = opening
  BY DEF ChangeBalance, Insufficient, RowIsGone
<1>3. \A old \in ledger : old.id \in Nat /\ old.id < row.id
  BY <1>1 DEF IInv, LedgerInv, TypeOK, LedgerRow
<1>4. SUFFICES ASSUME NEW r \in live
               PROVE  IF Effective(r)' = {}
                        THEN balance'[r] = opening[r]
                        ELSE \E last \in Effective(r)' :
                               /\ balance'[r] = last.after
                               /\ \A x \in Effective(r)' : x.id <= last.id
  BY <1>2 DEF BalanceIsNewestPosting
<1>5. CASE r = s.reseller /\ s.amount # 0
  <2>1. row \in Effective(r)' /\ balance'[r] = row.after
    BY <1>1, <1>2, <1>5 DEF Effective, ChangeBalance, IInv, TypeOK
  <2>2. \A x \in Effective(r)' : x.id <= row.id
    BY <1>1, <1>2, <1>3 DEF Effective
  <2> QED BY <2>1, <2>2
<1>6. CASE ~(r = s.reseller /\ s.amount # 0)
  <2>1. Effective(r)' = Effective(r)
    BY <1>2, <1>6 DEF Effective
  <2>2. balance'[r] = balance[r]
    BY <1>1, <1>6 DEF ChangeBalance, Insufficient, RowIsGone, IInv, TypeOK
  <2> QED BY <2>1, <2>2 DEF BalanceIsNewestPosting
<1> QED BY <1>5, <1>6

LEMMA NewestInductive ==
    IInv /\ BalanceIsNewestPosting /\ [Next]_vars => BalanceIsNewestPosting'
<1> SUFFICES ASSUME IInv, BalanceIsNewestPosting, [Next]_vars
             PROVE  BalanceIsNewestPosting'
  OBVIOUS
<1>1. CASE UNCHANGED <<accounts, postings>>
  BY <1>1 DEF accounts, postings, BalanceIsNewestPosting, Effective
<1>2. ASSUME NEW r \in Resellers, NEW amount \in Amounts, NEW p \in Prices,
             AddReseller(r, amount, p)
      PROVE  BalanceIsNewestPosting'
  <2>1. /\ r \notin live /\ live' = live \cup {r} /\ ledger' = ledger
        /\ balance' = [balance EXCEPT ![r] = amount]
        /\ opening' = [opening EXCEPT ![r] = amount]
    BY <1>2, BillingAssumption DEF AddReseller, NextId, postings
  <2>2. Effective(r) = {} /\ Effective(r)' = {}
    BY <2>1 DEF Effective, IInv, LedgerInv
  <2>3. \A x \in live : Effective(x)' = Effective(x)
    BY <2>1 DEF Effective
  <2> QED BY <2>1, <2>2, <2>3 DEF BalanceIsNewestPosting, IInv, TypeOK
<1>3. ASSUME NEW r \in Resellers, DeletePermanently(r)
      PROVE  BalanceIsNewestPosting'
  <2>1. /\ live' = live \ {r} /\ ledger' = {row \in ledger : row.reseller # r}
        /\ balance' = balance /\ opening' = opening
    BY <1>3 DEF DeletePermanently, RowsOf
  <2>2. \A x \in live' : Effective(x)' = Effective(x)
    BY <2>1 DEF Effective
  <2> QED BY <2>1, <2>2 DEF BalanceIsNewestPosting
<1>4. ASSUME NEW t \in Tasks, CommitPosting(t)
      PROVE  BalanceIsNewestPosting'
  BY <1>4, ChangeBalanceNewest DEF CommitPosting, Posting, Kinds
<1>5. ASSUME NEW t \in Tasks, CommitApprove(t)
      PROVE  BalanceIsNewestPosting'
  BY <1>5, ChangeBalanceNewest DEF CommitApprove, Posting, Kinds
<1>6. CASE \E t \in Tasks : TaskStep(t)
  BY <1>1, <1>4, <1>5, <1>6
     DEF TaskStep, BeginCharge, BeginAdjust, BeginSubmit, CommitSubmit, BeginSettle,
         ReadReseller, CommitReject, Abandon
<1> QED BY <1>1, <1>2, <1>3, <1>6
        DEF Next, TaskStep, vars, accounts, postings, EditPrice, ApplyGlobalPrice

(* The column a reseller's balance is stored in and the transactions list  *)
(* never disagree: every interleaving leaves the newest row's result.      *)
THEOREM NewestPosting == Spec => []BalanceIsNewestPosting
<1>1. Init => BalanceIsNewestPosting
  BY DEF Init, BalanceIsNewestPosting
<1> QED BY <1>1, Invariance, NewestInductive, PTL DEF Spec

-------------------------------------------------------------------------------
(* Billing implements Wallet: every step opens, closes or posts to one     *)
(* account, or changes none.  A posting starts from the balance its session*)
(* cached, which SessionInv says was committed once.                       *)
LEMMA ChangeBalancePosts ==
    ASSUME IInv, NEW t \in Tasks, NEW kind \in Kinds,
           session[t].at \in Posting, ChangeBalance(session[t], kind)
    PROVE  Wallet!Next
<1> DEFINE s == session[t]
           row == [id |-> posted + 1, reseller |-> s.reseller, kind |-> kind,
                   request |-> s.request, amount |-> s.amount,
                   before |-> s.cached, after |-> s.cached + s.amount]
<1>1. s \in Session /\ s.reseller \in Resellers /\ posted \in Nat /\ s.cached \in held[s.reseller]
  BY DEF IInv, TypeOK, SessionInv, Posting
<1>2. ledger' = ledger \cup {row} /\ row.after >= 0
  BY <1>1 DEF ChangeBalance, Insufficient, Session
<1>3. \A old \in ledger : old.id < row.id
  BY <1>1 DEF IInv, LedgerInv, TypeOK, LedgerRow
<1>4. row \in ledger' \ ledger
  BY <1>2, <1>3, <1>1
<1>5. Wallet!Post(s.reseller, row)
  BY <1>1, <1>2, <1>3 DEF ChangeBalance, Insufficient, RowIsGone, Wallet!Post, Wallet!Write, Session
<1> QED BY <1>1, <1>4, <1>5 DEF Wallet!Next

LEMMA StepRefines == IInv /\ [Next]_vars => [Wallet!Next]_(Wallet!vars)
<1> SUFFICES ASSUME IInv, [Next]_vars
             PROVE  [Wallet!Next]_(Wallet!vars)
  OBVIOUS
<1>1. CASE UNCHANGED <<accounts, postings>>
  BY <1>1 DEF accounts, postings, Wallet!vars
<1>2. ASSUME NEW r \in Resellers, NEW amount \in Amounts, NEW p \in Prices,
             AddReseller(r, amount, p)
      PROVE  Wallet!Next
  <2>1. balance' = [balance EXCEPT ![r] = amount] /\ balance'[r] = amount /\ amount >= 0
    BY <1>2, BillingAssumption DEF AddReseller, IInv, TypeOK
  <2>2. r \notin live
    BY <1>2, BillingAssumption DEF AddReseller, NextId
  <2>3. Wallet!Open(r)
    BY <1>2, <2>1, <2>2 DEF AddReseller, postings, Wallet!Open, Wallet!Write
  <2> QED BY <2>3 DEF Wallet!Next
<1>3. ASSUME NEW r \in Resellers, DeletePermanently(r)
      PROVE  Wallet!Next
  <2>1. Wallet!Close(r)
    BY <1>3 DEF DeletePermanently, RowsOf, Wallet!Close
  <2> QED BY <2>1 DEF Wallet!Next
<1>4. ASSUME NEW t \in Tasks, CommitPosting(t)
      PROVE  Wallet!Next
  BY <1>4, ChangeBalancePosts DEF CommitPosting, Posting, Kinds
<1>5. ASSUME NEW t \in Tasks, CommitApprove(t)
      PROVE  Wallet!Next
  BY <1>5, ChangeBalancePosts DEF CommitApprove, Posting, Kinds
<1>6. CASE \E t \in Tasks : TaskStep(t)
  BY <1>1, <1>4, <1>5, <1>6
     DEF TaskStep, BeginCharge, BeginAdjust, BeginSubmit, CommitSubmit, BeginSettle,
         ReadReseller, CommitReject, Abandon
<1> QED BY <1>1, <1>2, <1>3, <1>6
        DEF Next, TaskStep, vars, accounts, postings, EditPrice, ApplyGlobalPrice

THEOREM Refinement == Spec => ImplementsWallet
<1>1. Init => Wallet!Init
  BY DEF Init, Wallet!Init
<1> QED BY <1>1, Invariance, StepRefines, PTL DEF Spec, ImplementsWallet, Wallet!Spec

-------------------------------------------------------------------------------
(* What keeps an approval honest: a settling session works on a request    *)
(* that is stored and that has the reseller and amount it read.            *)
CreditInv ==
    purged = {} =>
        /\ \A t \in Tasks :
             LET s == session[t] IN
             s.at \in Settling => /\ request[s.request].status # "absent"
                                 /\ request[s.request].reseller = s.reseller
                                 /\ request[s.request].amount = s.amount
        /\ ApprovedIsCredited

LEMMA CreditInductive ==
    IInv /\ CreditInv /\ [Next]_vars => CreditInv'
<1> SUFFICES ASSUME IInv, CreditInv, [Next]_vars, purged' = {}
             PROVE  CreditInv'
  BY DEF CreditInv
<1>0. purged = {} /\ ~(\E r \in Resellers : DeletePermanently(r))
  <2>1. \A r \in Resellers : ~DeletePermanently(r)
    BY DEF DeletePermanently
  <2>2. ASSUME NEW t \in Tasks, TaskStep(t)
        PROVE  purged' = purged
    <3>1. \A kind : ChangeBalance(session[t], kind) => purged' = purged
      BY DEF ChangeBalance
    <3>2. CASE CommitPosting(t) \/ CommitApprove(t)
      BY <3>1, <3>2 DEF CommitPosting, CommitApprove
    <3>3. CASE UNCHANGED accounts
      BY <3>3 DEF accounts
    <3> QED BY <2>2, <3>2, <3>3
            DEF TaskStep, BeginCharge, BeginAdjust, BeginSubmit, CommitSubmit, BeginSettle,
                ReadReseller, CommitReject, Abandon
  <2> QED BY <2>1, <2>2
          DEF Next, TaskStep, vars, AddReseller, EditPrice, ApplyGlobalPrice, accounts
<1>1. CASE UNCHANGED <<ledger, request, session>>
  BY <1>0, <1>1 DEF CreditInv, ApprovedIsCredited
<1>2. ASSUME NEW t \in Tasks, CommitPosting(t)
      PROVE  CreditInv'
  BY <1>0, <1>2 DEF CommitPosting, ChangeBalance, Finish, Empty, Settling, IInv, TypeOK,
              CreditInv, ApprovedIsCredited
<1>3. ASSUME NEW t \in Tasks, CommitSubmit(t)
      PROVE  CreditInv'
  <2>1. PICK q \in Requests :
          /\ NextId(q, Stored)
          /\ request' = [request EXCEPT ![q] = [status |-> "pending",
               reseller |-> session[t].reseller, amount |-> session[t].amount]]
    BY <1>0, <1>3 DEF CommitSubmit
  <2>2. q \notin Stored
    BY <2>1, BillingAssumption DEF NextId
  <2>3. request[q].status = "absent"
    BY <2>2 DEF Stored
  <2> QED BY <1>0, <1>3, <2>1, <2>3
          DEF CommitSubmit, postings, Finish, Empty, Settling, IInv, TypeOK, CreditInv,
              ApprovedIsCredited, SessionInv
<1>4. ASSUME NEW t \in Tasks, NEW q \in Requests, NEW verdict \in {"approving", "rejecting"},
             BeginSettle(t, q, verdict)
      PROVE  CreditInv'
  BY <1>0, <1>4 DEF BeginSettle, Start, postings, Settling, IInv, TypeOK, CreditInv, ApprovedIsCredited
<1>5. ASSUME NEW t \in Tasks, ReadReseller(t)
      PROVE  CreditInv'
  BY <1>0, <1>5 DEF ReadReseller, NextStep, postings, Settling, IInv, TypeOK, Session, CreditInv,
              ApprovedIsCredited
<1>6. ASSUME NEW t \in Tasks, CommitApprove(t)
      PROVE  CreditInv'
  <2> DEFINE s == session[t]
  <2>1. /\ s.at = "approve" /\ s.request \in Requests
        /\ request' = [request EXCEPT ![s.request].status = "approved"]
        /\ session' = [session EXCEPT ![t] = Empty("done")]
    BY <1>0, <1>6 DEF CommitApprove, Finish, Stored
  <2>2. request[s.request].reseller = s.reseller /\ request[s.request].amount = s.amount
    BY <1>0, <2>1 DEF CreditInv, Settling
  <2>3. \E row \in ledger' : /\ row.kind = "recharge" /\ row.request = s.request
                             /\ row.reseller = s.reseller /\ row.amount = s.amount
    <3> DEFINE row == [id |-> posted + 1, reseller |-> s.reseller, kind |-> "recharge",
                       request |-> s.request, amount |-> s.amount,
                       before |-> s.cached, after |-> s.cached + s.amount]
    <3>1. row \in ledger'
      BY <1>0, <1>6 DEF CommitApprove, ChangeBalance
    <3> QED BY <3>1
  <2>4. ledger \subseteq ledger'
    BY <1>0, <1>6 DEF CommitApprove, ChangeBalance
  <2>5. ApprovedIsCredited'
    BY <1>0, <2>1, <2>2, <2>3, <2>4 DEF ApprovedIsCredited, CreditInv, IInv, TypeOK, RequestRow
  <2> QED BY <1>0, <2>1, <2>5 DEF CreditInv, Settling, Empty, IInv, TypeOK, SessionInv, RequestRow
<1>7. ASSUME NEW t \in Tasks, CommitReject(t)
      PROVE  CreditInv'
  BY <1>0, <1>7 DEF CommitReject, postings, Finish, Empty, Stored, Settling, IInv, TypeOK,
              SessionInv, RequestRow, CreditInv, ApprovedIsCredited
<1>8. ASSUME NEW t \in Tasks, Abandon(t)
      PROVE  CreditInv'
  BY <1>0, <1>8 DEF Abandon, postings, Finish, Empty, Settling, IInv, TypeOK, CreditInv,
              ApprovedIsCredited
<1>9. ASSUME NEW t \in Tasks, NEW r \in Resellers, NEW at \in Steps \ Settling, NEW amount,
             Start(t, Read(r, at, amount)), UNCHANGED <<postings, request>>
      PROVE  CreditInv'
  BY <1>0, <1>9 DEF Start, Read, postings, Settling, IInv, TypeOK, CreditInv, ApprovedIsCredited
<1>10. CASE \E t \in Tasks : TaskStep(t)
  BY <1>0, <1>2, <1>3, <1>4, <1>5, <1>6, <1>7, <1>8, <1>9, <1>10
     DEF TaskStep, BeginCharge, BeginAdjust, BeginSubmit, Steps, Settling
<1> QED BY <1>0, <1>1, <1>10
        DEF Next, TaskStep, vars, postings, AddReseller, DeletePermanently, EditPrice,
            ApplyGlobalPrice

(* An approved recharge was credited to the reseller who filed it.  After  *)
(* a permanent deletion this is lost, because row ids are used again.      *)
THEOREM ApprovalCredits == Spec => []ApprovedIsCredited
<1>1. Init => CreditInv
  BY DEF Init, CreditInv, ApprovedIsCredited, Empty, Absent, Settling
<1>2. CreditInv => ApprovedIsCredited
  BY DEF CreditInv, ApprovedIsCredited
<1> QED BY <1>1, <1>2, CreditInductive, Invariance, PTL DEF Spec
===============================================================================
