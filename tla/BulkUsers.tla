------------------------------- MODULE BulkUsers -------------------------------
(***************************************************************************)
(* Enabling or disabling all accounts of a reseller (services/             *)
(* bulk_users.py, handlers/admin.py) beside the buttons that enable and    *)
(* disable one (handlers/admin.py, handlers/reseller.py).                  *)
(*                                                                         *)
(* An operation plans from the statuses it reads, sends the accounts in    *)
(* chunks to the panel's bulk call, and calls one by one, concurrently,    *)
(* for those the panel did not name.  An error of the panel is caught per  *)
(* call; a timeout ends the operation and frees its flag, but the calls    *)
(* that asyncio.gather has started go on.                                  *)
(*                                                                         *)
(* The accounts of one reseller.  A chunk may be any of them, and smaller  *)
(* than the code's, so that few accounts are many chunks or one.           *)
(***************************************************************************)
EXTENDS Integers, FiniteSets

CONSTANTS
    Users,          \* the rows of created_users of the reseller
    Tasks,          \* presses of the bulk buttons' confirmation
    Nobody,
    Chunk           \* BULK_CHUNK, the most accounts of a chunk

ASSUME BulkAssumption == Nobody \notin Tasks /\ Chunk \in Nat \ {0} /\ IsFiniteSet(Users)

VARIABLES
    status,     \* status[u] on the panel
    running,    \* who is in _BULK_RUNNING for the reseller
    session,    \* session[t], progress of an operation
    moved       \* moved[t], accounts that others changed since t's plan (history)

vars == <<status, running, session, moved>>

(* expired stands for limited too; missing is not on the panel. *)
Statuses == {"active", "on_hold", "disabled", "expired", "missing"}
Actions == {"enable", "disable"}
Busy == {"plan", "bulk", "calls"}
Session == [at: Busy \cup {"idle", "done", "error", "crashed"}, action: Actions,
             targets: SUBSET Users, rest: SUBSET Users, pending: SUBSET Users,
             changed: SUBSET Users, count: Nat, failed: SUBSET Users]

TypeOK ==
    /\ status \in [Users -> Statuses]
    /\ running \in Tasks \cup {Nobody}
    /\ session \in [Tasks -> Session]
    /\ moved \in [Tasks -> SUBSET Users]

Init ==
    /\ status \in [Users -> {"active", "on_hold", "disabled"}]
    /\ running = Nobody
    /\ session = [t \in Tasks |-> [at |-> "idle", action |-> "enable", targets |-> {},
          rest |-> {}, pending |-> {}, changed |-> {}, count |-> 0, failed |-> {}]]
    /\ moved = [t \in Tasks |-> {}]

-------------------------------------------------------------------------------
AfterName(action, old) == action  \* mutant: the action is taken for the status
(* What the panel makes of an account that is enabled or disabled. *)
After(action, old) ==
    IF old = "missing" THEN "missing"
    ELSE IF action = "disable" THEN "disabled"
    ELSE IF old = "disabled" THEN "active" ELSE old

(* Accounts us are changed by who, everybody else's plan is older now. *)
Apply(action, us, who) ==
    /\ status' = [u \in Users |-> IF u \in us THEN After(action, status[u]) ELSE status[u]]
    /\ moved' = [t \in Tasks |-> IF t = who THEN moved[t] ELSE moved[t] \cup us]

NoEffect == UNCHANGED <<status, moved>>

(* TARGET_STATUSES *)
TargetStatuses == [disable |-> {"active", "on_hold"}, enable |-> {"disabled"}]

AllPresent(action) == {u \in Users : status[u] # "missing"}  \* mutant: the plan does not look at the status
Targets(action) == {u \in Users : status[u] \in TargetStatuses[action]}

PressAlways(t) == TRUE  \* mutant: the flag is not looked at
NotRunning(t) == running = Nobody

(* The confirmation is pressed: the flag is looked at and set in one step. *)
Press(t, action) ==
    /\ session[t].at = "idle"
    /\ NotRunning(t)
    /\ running' = t
    /\ session' = [session EXCEPT ![t].at = "plan", ![t].action = action]
    /\ NoEffect

(* finally: however the operation ends, the flag goes. *)
KeptFlag(end) == running' = IF end = "crashed" THEN running ELSE Nobody  \* mutant: no finally
FreedFlag(end) == running' = Nobody

End(t, end) ==
    /\ session' = [session EXCEPT ![t].at = end]
    /\ FreedFlag(end)

(* fetch_plan *)
Plan(t) ==
    /\ session[t].at = "plan"
    /\ session' = [session EXCEPT ![t].at = "bulk",
         ![t].targets = Targets(session[t].action), ![t].rest = Targets(session[t].action)]
    /\ moved' = [moved EXCEPT ![t] = {}]
    /\ UNCHANGED <<status, running>>

PlanFails(t) ==
    /\ session[t].at = "plan"
    /\ \E end \in {"error", "crashed"} : End(t, end)
    /\ NoEffect

IsChunk(t, chunk) ==
    /\ chunk \subseteq session[t].rest /\ chunk # {}
    /\ Cardinality(chunk) <= Chunk

RemainingAll(chunk, done) == chunk  \* mutant: the fallback calls for the whole chunk
Remaining(chunk, done) == chunk \ done

(* bulk_set_disabled: the panel changes the accounts us of the chunk and   *)
(* names them, or answers with an error all the same.                      *)
BulkCall(t, chunk, us, named) ==
    /\ session[t].at = "bulk" /\ IsChunk(t, chunk)
    /\ us \subseteq {u \in chunk : status[u] # "missing"} /\ named \in {us, {}}
    /\ Apply(session[t].action, us, t)
    /\ session' = [session EXCEPT ![t].at = "calls", ![t].rest = @ \ chunk,
         ![t].pending = Remaining(chunk, named),
         ![t].changed = @ \cup named, ![t].count = @ + Cardinality(named)]
    /\ UNCHANGED running

(* It is not answered at all. *)
BulkTimeout(t, chunk, us) ==
    /\ session[t].at = "bulk" /\ IsChunk(t, chunk)
    /\ us \in {{}, {u \in chunk : status[u] # "missing"}}
    /\ Apply(session[t].action, us, t)
    /\ End(t, "crashed")

(* one_by_one: a call that succeeds, also one that a crash left behind, *)
CallDone(t, u) ==
    /\ u \in session[t].pending
    /\ status[u] # "missing"
    /\ Apply(session[t].action, {u}, t)
    /\ session' = [session EXCEPT ![t].pending = @ \ {u}, ![t].changed = @ \cup {u},
                                  ![t].count = @ + 1]
    /\ UNCHANGED running

(* that is answered with an error, in effect or not, *)
CallFails(t, u) ==
    /\ u \in session[t].pending
    /\ NoEffect \/ Apply(session[t].action, {u}, t)
    /\ session' = [session EXCEPT ![t].pending = @ \ {u}, ![t].failed = @ \cup {u}]
    /\ UNCHANGED running

(* or not at all: the handler ends, the other calls do not. *)
CallTimeout(t, u) ==
    /\ u \in session[t].pending
    /\ NoEffect \/ Apply(session[t].action, {u}, t)
    /\ session' = [session EXCEPT ![t].pending = @ \ {u}, ![t].at = "crashed"]
    /\ IF session[t].at = "calls" THEN FreedFlag("crashed") ELSE UNCHANGED running

NextChunk(t) ==
    /\ session[t].at = "calls" /\ session[t].pending = {} /\ session[t].rest # {}
    /\ session' = [session EXCEPT ![t].at = "bulk"]
    /\ NoEffect /\ UNCHANGED running

(* The result is reported. *)
Report(t) ==
    /\ \/ session[t].at = "calls" /\ session[t].pending = {}
       \/ session[t].at = "bulk"
    /\ session[t].rest = {}
    /\ End(t, "done")
    /\ NoEffect

(* The enable and disable buttons of one account. *)
Toggle(u, action) ==
    /\ After(action, status[u]) # status[u]
    /\ Apply(action, {u}, Nobody)
    /\ UNCHANGED <<running, session>>

(* An account in use runs out of time or volume, or is deleted. *)
RunOut(u, end) ==
    /\ status[u] # "missing"
    /\ end # "missing" => status[u] = "active"
    /\ status' = [status EXCEPT ![u] = end]
    /\ moved' = [t \in Tasks |-> moved[t] \cup {u}]
    /\ UNCHANGED <<running, session>>

Step(t) ==
    \/ Plan(t) \/ PlanFails(t) \/ NextChunk(t) \/ Report(t)
    \/ \E chunk, us \in SUBSET Users :
         BulkTimeout(t, chunk, us) \/ \E named \in {us, {}} : BulkCall(t, chunk, us, named)
    \/ \E u \in Users : CallDone(t, u) \/ CallFails(t, u) \/ CallTimeout(t, u)

Next ==
    \/ \E t \in Tasks, action \in Actions : Press(t, action)
    \/ \E t \in Tasks : Step(t)
    \/ \E u \in Users : (\E action \in Actions : Toggle(u, action))
                        \/ \E end \in {"expired", "missing"} : RunOut(u, end)

Spec == Init /\ [][Next]_vars

(* Every panel call ends within its 30 s. *)
Fairness == \A t \in Tasks : WF_vars(Step(t))
FairSpec == Spec /\ Fairness

-------------------------------------------------------------------------------
(* What is reported adds up: every account of the plan was changed or has   *)
(* failed, none is counted twice, whichever calls were answered wrongly.    *)
ReportAddsUp ==
    \A t \in Tasks : session[t].at = "done" =>
        /\ session[t].changed \cup session[t].failed = session[t].targets
        /\ session[t].count + Cardinality(session[t].failed) = Cardinality(session[t].targets)

(* bulk_users.py:14: expired and limited accounts are never touched, nor    *)
(* any that the operation is not for, unless they have become so since the  *)
(* plan was made.                                                           *)
OnlyTargetsChange ==
    [][\A t \in Tasks, u \in Users :
         /\ status'[u] # status[u] /\ session'[t] # session[t]
         => status[u] \in TargetStatuses[session[t].action] \/ u \in moved[t]]_vars

(* _BULK_RUNNING: while one operation of the reseller has not ended no      *)
(* other changes an account, except for calls left behind by a crash.       *)
OneAtATime ==
    [][\A t \in Tasks, u \in Users :
         /\ status'[u] # status[u] /\ session'[t] # session[t]
         => running \in {t} \/ session[t].at = "crashed"]_vars

(* However the panel answers or does not, the reseller is not locked out of *)
(* bulk operations for good.                                                *)
FlagIsFreed == \A t \in Tasks : running = t ~> running # t
===============================================================================
