------------------------------- MODULE Renewal -------------------------------
(***************************************************************************)
(* Renewing an account: calculate_renewal (services/renewal.py), the       *)
(* reseller's renew_days and renew_confirm (handlers/reseller.py) and the  *)
(* admin's (handlers/admin.py), over the panel's GET, reset and PUT        *)
(* (services/marzban.py).                                                  *)
(*                                                                         *)
(* A renewal reads the account, computes what it should become, perhaps    *)
(* resets its usage, and writes the result back: steps on another system   *)
(* between which other renewals of the account run.  The panel repeats a   *)
(* call that answered 5xx, whether or not it took effect.                  *)
(*                                                                         *)
(* One account, which its customer has activated.  Volume is in GB and     *)
(* time in days.  Ownership and balance were found in order; Billing says  *)
(* what the charge does.                                                   *)
(***************************************************************************)
EXTENDS Integers, FiniteSets

CONSTANTS
    Tasks,          \* renewals, each runs once
    AdminTasks,     \* those of an admin, which cost nothing and may be unlimited
    NoTask,
    Sizes, Days,    \* what a form may ask for
    StartLimits, StartExpires,  \* the account before the first renewal
    Attempts,       \* how often a call is tried (marzban.py: 3)
    MaxTime,        \* bound of the clock
    MaxUsed         \* bound of the usage

ASSUME RenewalAssumption ==
    /\ AdminTasks \subseteq Tasks /\ NoTask \notin Tasks
    /\ Sizes \subseteq Nat \ {0} /\ Days \subseteq Nat \ {0}
    /\ StartLimits \subseteq Nat /\ StartExpires \subseteq Nat
    /\ Attempts \in Nat \ {0} /\ MaxTime \in Nat /\ MaxUsed \in Nat

VARIABLES
    now,
    mode,       \* the setting renewal_mode
    account,    \* the account on the panel; expire 0 is no expiry
    opening,    \* what it was at first (history)
    session,    \* session[t], progress of a renewal
    writer,     \* whose PUT took effect last (history)
    charged     \* renewals whose charge was committed

vars == <<now, mode, account, opening, session, writer, charged>>

Modes == {"additive", "replace"}
Account == [limit: Nat, expire: Nat, used: Nat]

Working == {"shown", "get", "reset", "put", "charge"}
Ended == {"done", "failed", "died"}
(* days 0 is the admin's unlimited.  seen, when: the account as GET gave   *)
(* it, and at what time.  tries: how often the call under way was tried.   *)
Session == [at: {"idle"} \cup Working \cup Ended, gb: Nat, days: Nat, mode: Modes,
             seen: Account, when: Nat, tries: Nat]

TypeOK ==
    /\ now \in Nat
    /\ mode \in Modes
    /\ account \in Account /\ opening \in Account
    /\ session \in [Tasks -> Session]
    /\ writer \in Tasks \cup {NoTask}
    /\ charged \subseteq Tasks \ AdminTasks

Init ==
    /\ now = 1
    /\ mode \in Modes
    /\ account \in [limit: StartLimits, expire: StartExpires, used: {0}]
    /\ opening = account
    /\ session = [t \in Tasks |-> [at |-> "idle", gb |-> 0, days |-> 0, mode |-> "additive",
                     seen |-> account, when |-> 0, tries |-> 0]]
    /\ writer = NoTask
    /\ charged = {}

-------------------------------------------------------------------------------
Later(a, b) == IF a > b THEN a ELSE b
LaterUnchecked(a, b) == a  \* mutant: an expired account is extended from its old expiry
From(expire, time) == Later(expire, time)

(* calculate_renewal *)
Renewed(user, gb, days, how, time) ==
    [limit |-> IF how = "replace" THEN gb ELSE user.limit + gb,
     expire |-> IF days = 0 THEN 0
                ELSE (IF how = "replace" THEN time ELSE From(user.expire, time)) + days]

(* What session s writes: computed once, from what its GET gave. *)
ResultNow(s) == Renewed(account, s.gb, s.days, s.mode, now)  \* mutant: computed per attempt
Result(s) == Renewed(s.seen, s.gb, s.days, s.mode, s.when)

Goto(t, step) == session' = [session EXCEPT ![t].at = step, ![t].tries = 0]

(* The form is filled in and its summary shown. *)
Show(t, gb, days) ==
    /\ session[t].at = "idle"
    /\ days = 0 => t \in AdminTasks
    /\ session' = [session EXCEPT ![t].at = "shown", ![t].gb = gb, ![t].days = days]
    /\ UNCHANGED <<now, mode, account, opening, writer, charged>>

(* The confirm button: the handler reads the mode. *)
Confirm(t) ==
    /\ session[t].at = "shown"
    /\ session' = [session EXCEPT ![t].at = "get", ![t].mode = mode]
    /\ UNCHANGED <<now, mode, account, opening, writer, charged>>

(* GET: the account is read and the result computed with the time it is. *)
Get(t) ==
    /\ session[t].at = "get"
    /\ session' = [session EXCEPT
         ![t].at = IF session[t].mode = "replace" THEN "reset" ELSE "put",
         ![t].seen = account, ![t].when = now, ![t].tries = 0]
    /\ UNCHANGED <<now, mode, account, opening, writer, charged>>

AfterErrorCharge == "charge"  \* mutant: a failed PUT is logged and not raised again
AfterError == "failed"

(* A 5xx is answered with another attempt, as long as there is one.        *)
RetryAlways(t) == session' = session  \* mutant: attempts are not counted
Retry(t) == /\ session[t].tries + 1 < Attempts
            /\ session' = [session EXCEPT ![t].tries = @ + 1]

(* No success is heard of: a 5xx that is retried, an error that the handler *)
(* logs and tells the user, or a timeout, which is no MarzbanError and      *)
(* which no handler catches.                                                *)
Unanswered(t) == Retry(t) \/ Goto(t, AfterError) \/ Goto(t, "died")

(* The calls that change the account, whether or not success is heard of. *)
Reset(t) ==
    /\ session[t].at = "reset"
    /\ account' = [account EXCEPT !.used = 0]
    /\ Goto(t, "put") \/ Unanswered(t)
    /\ UNCHANGED <<now, mode, opening, writer, charged>>

AfterPutCharge(t) == "charge"  \* mutant: an admin's renewal is charged too
AfterPut(t) == IF t \in AdminTasks THEN "done" ELSE "charge"

Put(t) ==
    LET r == Result(session[t]) IN
    /\ session[t].at = "put"
    /\ account' = [account EXCEPT !.limit = r.limit, !.expire = r.expire]
    /\ writer' = t
    /\ Goto(t, AfterPut(t)) \/ Unanswered(t)
    /\ UNCHANGED <<now, mode, opening, charged>>

(* A call that had no effect. *)
CallFails(t) ==
    /\ session[t].at \in {"get", "reset", "put"}
    /\ Unanswered(t)
    /\ UNCHANGED <<now, mode, account, opening, writer, charged>>

Charge(t) ==
    /\ session[t].at = "charge"
    /\ charged' = charged \cup {t}
    /\ Goto(t, "done")
    /\ UNCHANGED <<now, mode, account, opening, writer>>

(* The form is left, the confirm handler's own checks refuse, an exception *)
(* no handler catches, a restart.                                          *)
Die(t) ==
    /\ session[t].at \in Working
    /\ Goto(t, "died")
    /\ UNCHANGED <<now, mode, account, opening, writer, charged>>

-------------------------------------------------------------------------------
SetMode(m) ==
    /\ mode' = m
    /\ UNCHANGED <<now, account, opening, session, writer, charged>>

(* The customer uses the account while it has volume and time. *)
Consume ==
    /\ account.used < MaxUsed
    /\ account.limit = 0 \/ account.used < account.limit
    /\ account.expire = 0 \/ now < account.expire
    /\ account' = [account EXCEPT !.used = @ + 1]
    /\ UNCHANGED <<now, mode, opening, session, writer, charged>>

Tick ==
    /\ now < MaxTime
    /\ now' = now + 1
    /\ UNCHANGED <<mode, account, opening, session, writer, charged>>

Step(t) == Get(t) \/ Reset(t) \/ Put(t) \/ CallFails(t) \/ Charge(t) \/ Die(t)

Next ==
    \/ \E t \in Tasks :
         \/ \E gb \in Sizes, days \in Days \cup {0} : Show(t, gb, days)
         \/ Confirm(t)
         \/ Step(t)
    \/ \E m \in Modes : SetMode(m)
    \/ Consume
    \/ Tick

Spec == Init /\ [][Next]_vars

(* As in Provisioning: handlers run, calls time out.  Nobody need confirm. *)
FairSpec == Spec /\ \A t \in Tasks : WF_vars(Step(t))

-------------------------------------------------------------------------------
(* Who was charged has got something: his PUT took effect at some time.    *)
(* What the account then was may have been overwritten since, but the last *)
(* writer's renewal is on the account whole: the volume asked for, and the *)
(* days asked for from the moment of the renewal on at least, also when    *)
(* the account had expired long before.                                    *)
LastRenewalIsGiven ==
    writer # NoTask =>
        LET s == session[writer] IN
        /\ account.limit >= s.gb
        /\ s.days = 0 <=> account.expire = 0
        /\ s.days # 0 => account.expire >= s.when + s.days

(* A reseller is charged only for a renewal that reached the panel: if     *)
(* nobody else renews the account, the account is what it paid for.        *)
ChargedIsApplied ==
    \A t \in charged :
        (\A other \in Tasks \ {t} : session[other].at \in {"idle", "shown"}) => writer = t

(* However often a PUT is repeated, a renewal adds its volume once: the    *)
(* limit is the first one, or that of a replacement, with the volumes of   *)
(* some of the additive renewals, none counted twice.                      *)
Wrote(how) == {t \in Tasks : session[t].when # 0 /\ session[t].mode = how}
Gigabytes(S) == UNION {{t} \X (1 .. session[t].gb) : t \in S}
Volume(S) == Cardinality(Gigabytes(S))
AddedAtMostOnce ==
    \E base \in {opening.limit} \cup {session[t].gb : t \in Wrote("replace")},
       S \in SUBSET Wrote("additive") :
         account.limit = base + Volume(S)

(* Every confirmed renewal comes to an end. *)
RenewalEnds == \A t \in Tasks : session[t].at = "get" ~> session[t].at \in Ended
===============================================================================
