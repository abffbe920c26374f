---------------------------- MODULE BulkUsersProofs ----------------------------
(***************************************************************************)
(* What BulkUsers guarantees for any number of accounts and of presses of  *)
(* the buttons, and for chunks of any size.                                *)
(*                                                                         *)
(* The report is written long after the plan, and calls go on after their  *)
(* operation has crashed; the inductive invariant says where each account  *)
(* of a plan is meanwhile, who holds the flag, and why no call touches an  *)
(* account that the operation is not for.                                  *)
(***************************************************************************)
EXTENDS BulkUsers, FiniteSetTheorems, TLAPS

USE BulkAssumption DEF BulkAssumption

(* Every account of the plan waits for its chunk, waits for its call, was   *)
(* changed or has failed, and is only one of these.                         *)
Parted(s) ==
    /\ s.targets = s.changed \cup s.failed \cup s.pending \cup s.rest
    /\ s.rest \cap s.pending = {}
    /\ s.changed \cap (s.failed \cup s.pending \cup s.rest) = {}
    /\ s.failed \cap (s.pending \cup s.rest) = {}
    /\ s.count = Cardinality(s.changed)

(* Where in the operation accounts may wait.  A crash forgets the account   *)
(* whose call was not answered.                                             *)
PlaceInv(s) ==
    /\ s.at # "crashed" => Parted(s)
    /\ s.at \in {"idle", "plan", "error"} => s.targets = {}
    /\ s.at = "bulk" => s.pending = {}
    /\ s.at = "done" => s.pending = {} /\ s.rest = {}

(* An operation under way holds the flag. *)
FlagInv == \A t \in Tasks : session[t].at \in Busy => running = t

(* A call that is still to come is for an account the operation is for, or *)
(* for one that others have changed, or changes nothing any more.          *)
Meant(t, u) ==
    \/ status[u] \in TargetStatuses[session[t].action]
    \/ u \in moved[t]
    \/ After(session[t].action, status[u]) = status[u]
MeantInv == \A t \in Tasks : \A u \in session[t].rest \cup session[t].pending : Meant(t, u)

IInv == TypeOK /\ (\A t \in Tasks : PlaceInv(session[t])) /\ FlagInv /\ MeantInv

-------------------------------------------------------------------------------
(* What the panel makes of a status is one, and to do it again changes      *)
(* nothing.                                                                 *)
LEMMA AfterType ==
    ASSUME NEW action \in Actions, NEW old \in Statuses
    PROVE  /\ After(action, old) \in Statuses
           /\ After(action, After(action, old)) = After(action, old)
BY DEF After, Statuses, Actions

(* Accounts are finitely many, so all sets of them are counted. *)
LEMMA CountType ==
    ASSUME NEW us \in SUBSET Users
    PROVE  IsFiniteSet(us) /\ Cardinality(us) \in Nat
BY FS_Subset, FS_CardinalityType

(* Accounts that were not counted yet are added. *)
LEMMA CountAdd ==
    ASSUME NEW us \in SUBSET Users, NEW more \in SUBSET Users, us \cap more = {}
    PROVE  Cardinality(us \cup more) = Cardinality(us) + Cardinality(more)
<1>1. IsFiniteSet(us) /\ IsFiniteSet(more)
  BY CountType
<1>2. Cardinality(us \cap more) = 0
  BY FS_EmptySet
<1>3. Cardinality(us \cup more) = Cardinality(us) + Cardinality(more) - Cardinality(us \cap more)
  BY <1>1, FS_Union
<1> QED BY <1>2, <1>3, CountType

LEMMA InitInv == Init => IInv
<1> SUFFICES ASSUME Init PROVE IInv OBVIOUS
<1> USE DEF Init
<1>1. TypeOK
  BY DEF TypeOK, Session, Statuses, Actions, Busy
<1>2. ASSUME NEW t \in Tasks PROVE PlaceInv(session[t])
  BY FS_EmptySet DEF PlaceInv, Parted
<1>3. FlagInv /\ MeantInv
  BY DEF FlagInv, MeantInv, Busy
<1> QED BY <1>1, <1>2, <1>3 DEF IInv

-------------------------------------------------------------------------------
(* Accounts change, or none does, at the hand of who. *)
Touches(action, us, who) == Apply(action, us, who) \/ NoEffect

LEMMA TouchTypes ==
    ASSUME TypeOK, NEW action \in Actions, NEW us \in SUBSET Users, NEW who, Touches(action, us, who)
    PROVE  status' \in [Users -> Statuses] /\ moved' \in [Tasks -> SUBSET Users]
BY AfterType DEF TypeOK, Touches, Apply, NoEffect

(* Whoever changes an account, the calls of the others to it are now late  *)
(* ones, and its own change nothing any more.                              *)
LEMMA TouchKeepsMeant ==
    ASSUME TypeOK, NEW action \in Actions, NEW us \in SUBSET Users, NEW who,
           Touches(action, us, who), NEW t \in Tasks, NEW u \in Users, Meant(t, u),
           t # who \/ action = session[t].action, session'[t].action = session[t].action
    PROVE  Meant(t, u)'
<1>1. CASE NoEffect
  BY <1>1 DEF NoEffect, Meant
<1>2. CASE Apply(action, us, who) /\ u \notin us
  <2>1. status'[u] = status[u] /\ moved[t] \subseteq moved'[t]
    BY <1>2 DEF Apply, TypeOK
  <2> QED BY <2>1 DEF Meant
<1>3. CASE Apply(action, us, who) /\ u \in us /\ t # who
  <2>1. u \in moved'[t]
    BY <1>3 DEF Apply, TypeOK
  <2> QED BY <2>1 DEF Meant
<1>4. CASE Apply(action, us, who) /\ u \in us /\ t = who
  <2>1. status'[u] = After(action, status[u]) /\ status[u] \in Statuses
    BY <1>4 DEF Apply, TypeOK
  <2>2. After(action, status'[u]) = status'[u]
    BY <2>1, AfterType
  <2> QED BY <1>4, <2>2 DEF Meant
<1> QED BY <1>1, <1>2, <1>3, <1>4 DEF Touches

(* t goes on to s, within its operation or at its end: no account is new to *)
(* it, and the flag is given back when it ends.                            *)
LEMMA GoesOn ==
    ASSUME IInv, NEW t \in Tasks, NEW s \in Session, NEW us \in SUBSET Users,
           session' = [session EXCEPT ![t] = s],
           Touches(session[t].action, us, t),
           s.action = session[t].action,
           s.rest \cup s.pending \subseteq session[t].rest \cup session[t].pending,
           s.at \in Busy => session[t].at \in Busy,
           \/ running' = running
           \/ session[t].at \in Busy /\ s.at \notin Busy /\ running' = Nobody,
           PlaceInv(s)
    PROVE  IInv'
<1>1. \A other \in Tasks : session'[other] = IF other = t THEN s ELSE session[other]
  BY DEF IInv, TypeOK
<1>2. session[t].action \in Actions
  BY DEF IInv, TypeOK, Session
<1>3. TypeOK'
  BY <1>2, TouchTypes DEF IInv, TypeOK
<1>4. ASSUME NEW other \in Tasks PROVE PlaceInv(session[other])'
  <2>1. PlaceInv(session'[other])
    BY <1>1 DEF IInv
  <2> QED BY <2>1 DEF PlaceInv, Parted
<1>5. FlagInv'
  BY <1>1 DEF IInv, FlagInv
<1>6. MeantInv'
  <2> SUFFICES ASSUME NEW other \in Tasks,
                      NEW u \in session'[other].rest \cup session'[other].pending
               PROVE  Meant(other, u)'
    BY DEF MeantInv
  <2>1. u \in session[other].rest \cup session[other].pending
    BY <1>1
  <2>2. u \in Users /\ Meant(other, u)
    BY <2>1 DEF IInv, MeantInv, TypeOK, Session
  <2>3. session'[other].action = session[other].action
    BY <1>1
  <2> QED BY <1>2, <2>2, <2>3, TouchKeepsMeant DEF IInv
<1> QED BY <1>3, <1>4, <1>5, <1>6 DEF IInv

(* The handler of t ends as it is, and with it the flag. *)
LEMMA EndStep ==
    ASSUME IInv, NEW t \in Tasks, NEW end \in {"done", "error", "crashed"},
           NEW us \in SUBSET Users, Touches(session[t].action, us, t),
           End(t, end), session[t].at \in Busy,
           end = "done" => session[t].rest = {} /\ session[t].pending = {},
           end = "error" => session[t].at = "plan"
    PROVE  IInv'
<1> DEFINE s == [session[t] EXCEPT !.at = end]
<1>1. session[t] \in Session /\ PlaceInv(session[t])
  BY DEF IInv, TypeOK
<1>2. s \in Session /\ s.at = end
  BY <1>1 DEF Session
<1>3. session' = [session EXCEPT ![t] = s] /\ running' = Nobody
  BY DEF End, FreedFlag
<1>4. PlaceInv(s)
  BY <1>1, <1>2 DEF PlaceInv, Parted, Busy, Session
<1>5. /\ s.action = session[t].action /\ s.rest = session[t].rest
      /\ s.pending = session[t].pending /\ s.at \notin Busy
  BY <1>1, <1>2 DEF Busy, Session
<1> HIDE DEF s
<1> QED BY <1>2, <1>3, <1>4, <1>5, GoesOn

-------------------------------------------------------------------------------
LEMMA PressStep ==
    ASSUME IInv, NEW t \in Tasks, NEW action \in Actions, Press(t, action)
    PROVE  IInv'
<1> DEFINE s == [session[t] EXCEPT !.at = "plan", !.action = action]
<1> USE DEF Press, NotRunning
<1>1. session[t] \in Session /\ session[t].at = "idle" /\ PlaceInv(session[t])
  BY DEF IInv, TypeOK
<1>2. s \in Session /\ s.at = "plan"
  BY <1>1 DEF Session, Busy
<1>3. session' = [session EXCEPT ![t] = s]
  BY DEF IInv, TypeOK, Session
<1>4. PlaceInv(s) /\ s.rest = {} /\ s.pending = {}
  BY <1>1, <1>2 DEF PlaceInv, Parted, Session
<1> HIDE DEF s
<1>5. \A u \in Tasks : session'[u] = IF u = t THEN s ELSE session[u]
  BY <1>3 DEF IInv, TypeOK
<1>6. TypeOK'
  BY <1>2, <1>3 DEF IInv, TypeOK, NoEffect
<1>7. ASSUME NEW u \in Tasks PROVE PlaceInv(session[u])'
  <2>1. PlaceInv(session'[u])
    BY <1>4, <1>5 DEF IInv
  <2> QED BY <2>1 DEF PlaceInv, Parted
<1>8. FlagInv'
  BY <1>5 DEF IInv, FlagInv
<1>9. MeantInv'
  <2> SUFFICES ASSUME NEW other \in Tasks,
                      NEW u \in session'[other].rest \cup session'[other].pending
               PROVE  Meant(other, u)'
    BY DEF MeantInv
  <2>1. session'[other] = session[other] /\ Meant(other, u)
    BY <1>4, <1>5 DEF IInv, MeantInv
  <2> QED BY <2>1 DEF Meant, NoEffect
<1> QED BY <1>6, <1>7, <1>8, <1>9 DEF IInv

LEMMA PlanStep ==
    ASSUME IInv, NEW t \in Tasks, Plan(t)
    PROVE  IInv'
<1> DEFINE targets == Targets(session[t].action)
           s == [session[t] EXCEPT !.at = "bulk", !.targets = targets, !.rest = targets]
<1> USE DEF Plan
<1>1. session[t] \in Session /\ session[t].at = "plan" /\ PlaceInv(session[t])
  BY DEF IInv, TypeOK
<1>2. targets \in SUBSET Users /\ \A u \in targets : status[u] \in TargetStatuses[session[t].action]
  BY DEF Targets
<1>3. s \in Session /\ s.at = "bulk" /\ s.action = session[t].action
  BY <1>1, <1>2 DEF Session, Busy
<1>4. session' = [session EXCEPT ![t] = s]
  BY DEF IInv, TypeOK, Session
<1>5. PlaceInv(s) /\ s.rest = targets /\ s.pending = {}
  BY <1>1, <1>2, <1>3 DEF PlaceInv, Parted, Session
<1> HIDE DEF s, targets
<1>6. \A u \in Tasks : session'[u] = IF u = t THEN s ELSE session[u]
  BY <1>4 DEF IInv, TypeOK
<1>7. TypeOK'
  BY <1>3, <1>4 DEF IInv, TypeOK
<1>8. ASSUME NEW u \in Tasks PROVE PlaceInv(session[u])'
  <2>1. PlaceInv(session'[u])
    BY <1>5, <1>6 DEF IInv
  <2> QED BY <2>1 DEF PlaceInv, Parted
<1>9. FlagInv'
  BY <1>1, <1>6 DEF IInv, FlagInv, Busy
<1>10. MeantInv'
  <2> SUFFICES ASSUME NEW other \in Tasks,
                      NEW u \in session'[other].rest \cup session'[other].pending
               PROVE  Meant(other, u)'
    BY DEF MeantInv
  <2>1. CASE other = t
    BY <2>1, <1>2, <1>3, <1>5, <1>6 DEF Meant
  <2>2. CASE other # t
    <3>1. session'[other] = session[other] /\ moved'[other] = moved[other] /\ Meant(other, u)
      BY <2>2, <1>6 DEF IInv, MeantInv, TypeOK
    <3> QED BY <3>1 DEF Meant
  <2> QED BY <2>1, <2>2
<1> QED BY <1>7, <1>8, <1>9, <1>10 DEF IInv

LEMMA BulkCallStep ==
    ASSUME IInv, NEW t \in Tasks, NEW chunk \in SUBSET Users, NEW us \in SUBSET Users,
           NEW named \in {us, {}}, BulkCall(t, chunk, us, named)
    PROVE  IInv'
<1> DEFINE old == session[t]
           s == [old EXCEPT !.at = "calls", !.rest = old.rest \ chunk,
                   !.pending = chunk \ named, !.changed = old.changed \cup named,
                   !.count = old.count + Cardinality(named)]
<1>1. old \in Session /\ old.at = "bulk" /\ PlaceInv(old)
  BY DEF BulkCall, IInv, TypeOK
<1>2. chunk \subseteq old.rest /\ named \subseteq chunk /\ named \in SUBSET Users
  BY DEF BulkCall, IsChunk
<1>3. Cardinality(named) \in Nat
  BY <1>2, CountType
<1>4. /\ s \in Session /\ s.at = "calls" /\ s.action = old.action
      /\ s.rest = old.rest \ chunk /\ s.pending = chunk \ named
  <2>1. /\ old.count + Cardinality(named) \in Nat /\ old.changed \cup named \in SUBSET Users
        /\ old.rest \ chunk \in SUBSET Users /\ chunk \ named \in SUBSET Users
    BY <1>1, <1>2, <1>3 DEF Session
  <2> QED BY <1>1, <2>1 DEF Session, Busy
<1>5. session' = [session EXCEPT ![t] = s]
  BY DEF BulkCall, Remaining, IInv, TypeOK, Session
<1>6. Parted(s)
  <2>1. Parted(old) /\ old.changed \in SUBSET Users /\ old.pending = {}
    BY <1>1 DEF PlaceInv, Session
  <2>2. Cardinality(old.changed \cup named) = Cardinality(old.changed) + Cardinality(named)
    BY <2>1, <1>2, CountAdd DEF Parted
  <2>3. s.count = Cardinality(s.changed)
    BY <2>1, <2>2, <1>1 DEF Parted, Session
  <2>4. /\ s.targets = s.changed \cup s.failed \cup s.pending \cup s.rest
        /\ s.rest \cap s.pending = {}
        /\ s.changed \cap (s.failed \cup s.pending \cup s.rest) = {}
        /\ s.failed \cap (s.pending \cup s.rest) = {}
    BY <2>1, <1>1, <1>2 DEF Parted, Session
  <2> QED BY <2>3, <2>4 DEF Parted
<1>7. PlaceInv(s)
  BY <1>4, <1>6 DEF PlaceInv
<1>8. running' = running /\ Touches(old.action, us, t)
  BY DEF BulkCall, Touches
<1>9. s.rest \cup s.pending \subseteq old.rest \cup old.pending /\ old.at \in Busy
  BY <1>1, <1>2, <1>4 DEF Busy
<1> HIDE DEF s
<1> QED BY <1>4, <1>5, <1>7, <1>8, <1>9, GoesOn

(* A call is still to come only in an operation that makes calls, or that   *)
(* has crashed.                                                             *)
LEMMA PendingAt ==
    ASSUME IInv, NEW t \in Tasks, NEW u \in session[t].pending
    PROVE  session[t].at \in {"calls", "crashed"} /\ u \in Users
<1>1. session[t] \in Session /\ PlaceInv(session[t])
  BY DEF IInv, TypeOK
<1> QED BY <1>1 DEF PlaceInv, Parted, Session, Busy

LEMMA CallDoneStep ==
    ASSUME IInv, NEW t \in Tasks, NEW u \in Users, CallDone(t, u)
    PROVE  IInv'
<1> DEFINE old == session[t]
           s == [old EXCEPT !.pending = old.pending \ {u}, !.changed = old.changed \cup {u},
                   !.count = old.count + 1]
<1>1. old \in Session /\ PlaceInv(old) /\ u \in old.pending /\ old.at \in {"calls", "crashed"}
  BY PendingAt DEF CallDone, IInv, TypeOK
<1>2. /\ s \in Session /\ s.at = old.at /\ s.action = old.action
      /\ s.rest = old.rest /\ s.pending = old.pending \ {u}
  <2>1. /\ old.count + 1 \in Nat /\ old.changed \cup {u} \in SUBSET Users
        /\ old.pending \ {u} \in SUBSET Users
    BY <1>1 DEF Session
  <2> QED BY <1>1, <2>1 DEF Session
<1>3. session' = [session EXCEPT ![t] = s]
  BY DEF CallDone, IInv, TypeOK, Session
<1>4. ASSUME Parted(old) PROVE Parted(s)
  <2>1. old.changed \in SUBSET Users /\ u \notin old.changed
    BY <1>1, <1>4 DEF Parted, Session
  <2>2. Cardinality(old.changed \cup {u}) = Cardinality(old.changed) + 1
    BY <2>1, CountType, FS_AddElement
  <2>3. s.count = Cardinality(s.changed)
    BY <1>1, <1>4, <2>2 DEF Parted, Session
  <2>4. /\ s.targets = s.changed \cup s.failed \cup s.pending \cup s.rest
        /\ s.rest \cap s.pending = {}
        /\ s.changed \cap (s.failed \cup s.pending \cup s.rest) = {}
        /\ s.failed \cap (s.pending \cup s.rest) = {}
    BY <1>1, <1>4 DEF Parted, Session
  <2> QED BY <2>3, <2>4 DEF Parted
<1>5. PlaceInv(s)
  BY <1>1, <1>2, <1>4 DEF PlaceInv
<1>6. running' = running /\ Touches(old.action, {u}, t)
  BY DEF CallDone, Touches
<1> HIDE DEF s
<1> QED BY <1>1, <1>2, <1>3, <1>5, <1>6, GoesOn

LEMMA CallFailsStep ==
    ASSUME IInv, NEW t \in Tasks, NEW u \in Users, CallFails(t, u)
    PROVE  IInv'
<1> DEFINE old == session[t]
           s == [old EXCEPT !.pending = old.pending \ {u}, !.failed = old.failed \cup {u}]
<1>1. old \in Session /\ PlaceInv(old) /\ u \in old.pending /\ old.at \in {"calls", "crashed"}
  BY PendingAt DEF CallFails, IInv, TypeOK
<1>2. /\ s \in Session /\ s.at = old.at /\ s.action = old.action
      /\ s.rest = old.rest /\ s.pending = old.pending \ {u}
  BY <1>1 DEF Session
<1>3. session' = [session EXCEPT ![t] = s]
  BY DEF CallFails, IInv, TypeOK, Session
<1>4. Parted(old) => Parted(s)
  BY <1>1 DEF Parted, Session
<1>5. PlaceInv(s)
  BY <1>1, <1>2, <1>4 DEF PlaceInv
<1>6. running' = running /\ Touches(old.action, {u}, t)
  BY DEF CallFails, Touches
<1> HIDE DEF s
<1> QED BY <1>1, <1>2, <1>3, <1>5, <1>6, GoesOn

LEMMA CallTimeoutStep ==
    ASSUME IInv, NEW t \in Tasks, NEW u \in Users, CallTimeout(t, u)
    PROVE  IInv'
<1> DEFINE old == session[t]
           s == [old EXCEPT !.pending = old.pending \ {u}, !.at = "crashed"]
<1>1. old \in Session /\ u \in old.pending /\ old.at \in {"calls", "crashed"}
  BY PendingAt DEF CallTimeout, IInv, TypeOK
<1>2. /\ s \in Session /\ s.at = "crashed" /\ s.action = old.action
      /\ s.rest = old.rest /\ s.pending = old.pending \ {u}
  BY <1>1 DEF Session
<1>3. session' = [session EXCEPT ![t] = s]
  BY DEF CallTimeout, IInv, TypeOK, Session
<1>4. PlaceInv(s) /\ s.at \notin Busy
  BY <1>2 DEF PlaceInv, Busy
<1>5. Touches(old.action, {u}, t)
  BY DEF CallTimeout, Touches
<1>6. running' = running \/ (old.at \in Busy /\ running' = Nobody)
  BY DEF CallTimeout, FreedFlag, Busy
<1> HIDE DEF s
<1> QED BY <1>2, <1>3, <1>4, <1>5, <1>6, GoesOn

LEMMA NextChunkStep ==
    ASSUME IInv, NEW t \in Tasks, NextChunk(t)
    PROVE  IInv'
<1> DEFINE s == [session[t] EXCEPT !.at = "bulk"]
<1>1. session[t] \in Session /\ PlaceInv(session[t]) /\ session[t].at = "calls"
  BY DEF NextChunk, IInv, TypeOK
<1>2. /\ s \in Session /\ s.at = "bulk" /\ s.action = session[t].action
      /\ s.rest = session[t].rest /\ s.pending = session[t].pending
  BY <1>1 DEF Session, Busy
<1>3. session' = [session EXCEPT ![t] = s] /\ running' = running
  BY DEF NextChunk
<1>4. PlaceInv(s)
  BY <1>1, <1>2 DEF PlaceInv, Parted, Session, NextChunk
<1>5. Touches(session[t].action, {}, t) /\ session[t].at \in Busy /\ {} \in SUBSET Users
  BY <1>1 DEF NextChunk, Touches, Busy
<1>6. s.rest \cup s.pending \subseteq session[t].rest \cup session[t].pending
  BY <1>2
<1> HIDE DEF s
<1> QED BY <1>2, <1>3, <1>4, <1>5, <1>6, GoesOn

(* The buttons for one account, and what happens to accounts by themselves. *)
LEMMA OthersStep ==
    ASSUME IInv, UNCHANGED <<running, session>>,
           status' \in [Users -> Statuses], moved' \in [Tasks -> SUBSET Users],
           \A t \in Tasks, u \in Users :
             u \in moved'[t] \/ (status'[u] = status[u] /\ u \notin moved[t])
    PROVE  IInv'
<1>1. TypeOK' /\ FlagInv'
  BY DEF IInv, TypeOK, FlagInv
<1>2. ASSUME NEW t \in Tasks PROVE PlaceInv(session[t])'
  BY DEF IInv, PlaceInv, Parted
<1>3. MeantInv'
  <2> SUFFICES ASSUME NEW t \in Tasks, NEW u \in session[t].rest \cup session[t].pending
               PROVE  Meant(t, u)'
    BY DEF MeantInv
  <2>1. u \in Users /\ Meant(t, u)
    BY DEF IInv, MeantInv, TypeOK, Session
  <2> QED BY <2>1 DEF Meant
<1> QED BY <1>1, <1>2, <1>3 DEF IInv

LEMMA StepInv == IInv /\ [Next]_vars => IInv'
<1> SUFFICES ASSUME IInv, [Next]_vars PROVE IInv' OBVIOUS
<1>1. ASSUME NEW t \in Tasks, NEW action \in Actions, Press(t, action) PROVE IInv'
  BY <1>1, PressStep
<1>2. ASSUME NEW t \in Tasks, PlanFails(t) PROVE IInv'
  <2>1. PICK end \in {"error", "crashed"} : End(t, end)
    BY <1>2 DEF PlanFails
  <2>2. Touches(session[t].action, {}, t) /\ session[t].at = "plan" /\ "plan" \in Busy
    BY <1>2 DEF PlanFails, Touches, Busy
  <2> QED BY <2>1, <2>2, EndStep
<1>3. ASSUME NEW t \in Tasks, Report(t) PROVE IInv'
  <2>1. session[t].rest = {} /\ session[t].pending = {} /\ session[t].at \in Busy
    BY <1>3 DEF Report, IInv, PlaceInv, Busy
  <2>2. End(t, "done") /\ Touches(session[t].action, {}, t)
    BY <1>3 DEF Report, Touches
  <2> QED BY <2>1, <2>2, EndStep
<1>4. ASSUME NEW t \in Tasks, NEW chunk \in SUBSET Users, NEW us \in SUBSET Users,
             BulkTimeout(t, chunk, us)
      PROVE  IInv'
  <2>1. End(t, "crashed") /\ Touches(session[t].action, us, t) /\ session[t].at \in Busy
    BY <1>4 DEF BulkTimeout, Touches, Busy
  <2> QED BY <2>1, EndStep
<1>5. ASSUME NEW t \in Tasks, Step(t) PROVE IInv'
  BY <1>2, <1>3, <1>4, <1>5, PlanStep, NextChunkStep, BulkCallStep, CallDoneStep,
     CallFailsStep, CallTimeoutStep DEF Step
<1>6. ASSUME NEW u \in Users, NEW action \in Actions, Toggle(u, action) PROVE IInv'
  <2>1. Apply(action, {u}, Nobody)
    BY <1>6 DEF Toggle
  <2>2. status' \in [Users -> Statuses] /\ moved' \in [Tasks -> SUBSET Users]
    BY <2>1, TouchTypes DEF IInv, Touches
  <2>3. \A t \in Tasks, v \in Users :
          /\ moved'[t] = moved[t] \cup {u}
          /\ v # u => status'[v] = status[v]
    BY <2>1 DEF Apply, IInv, TypeOK
  <2> QED BY <1>6, <2>2, <2>3, OthersStep DEF Toggle
<1>7. ASSUME NEW u \in Users, NEW end \in {"expired", "missing"}, RunOut(u, end) PROVE IInv'
  <2>1. status' \in [Users -> Statuses] /\ moved' \in [Tasks -> SUBSET Users]
    BY <1>7 DEF RunOut, IInv, TypeOK, Statuses
  <2>2. \A t \in Tasks, v \in Users :
          /\ moved'[t] = moved[t] \cup {u}
          /\ v # u => status'[v] = status[v]
    BY <1>7 DEF RunOut, IInv, TypeOK
  <2> QED BY <1>7, <2>1, <2>2, OthersStep DEF RunOut
<1>8. CASE UNCHANGED vars
  BY <1>8, OthersStep DEF vars, IInv, TypeOK
<1> QED BY <1>1, <1>5, <1>6, <1>7, <1>8 DEF Next

THEOREM Invariance == Spec => []IInv
BY InitInv, StepInv, PTL DEF Spec

-------------------------------------------------------------------------------
(* Every status, plan and count keeps its type. *)
THEOREM TypeCorrect == Spec => []TypeOK
<1>1. IInv => TypeOK
  BY DEF IInv
<1> QED BY <1>1, Invariance, PTL

(* bulk_users.py: of every account of the plan the report says once whether *)
(* it was changed or has failed.                                            *)
THEOREM ReportCorrect == Spec => []ReportAddsUp
<1>1. IInv => ReportAddsUp
  <2> SUFFICES ASSUME IInv, NEW t \in Tasks, session[t].at = "done"
               PROVE  /\ session[t].changed \cup session[t].failed = session[t].targets
                      /\ session[t].count + Cardinality(session[t].failed)
                           = Cardinality(session[t].targets)
    BY DEF ReportAddsUp
  <2>1. session[t] \in Session /\ Parted(session[t]) /\ session[t].pending = {} /\ session[t].rest = {}
    BY DEF IInv, TypeOK, PlaceInv
  <2>2. /\ session[t].changed \in SUBSET Users /\ session[t].failed \in SUBSET Users
        /\ session[t].changed \cap session[t].failed = {}
        /\ session[t].changed \cup session[t].failed = session[t].targets
    BY <2>1 DEF Parted, Session
  <2> QED BY <2>1, <2>2, CountAdd DEF Parted
<1> QED BY <1>1, Invariance, PTL

(* Only the operation whose step it is changes a session. *)
LEMMA OwnSession ==
    ASSUME IInv, NEW t \in Tasks, NEW u \in Users, NEW other \in Tasks, Step(other),
           status'[u] # status[u], session'[t] # session[t]
    PROVE  /\ other = t
           /\ u \in session[t].rest \cup session[t].pending
           /\ session[t].at = "crashed" \/ session[t].at \in Busy
           /\ status'[u] = After(session[t].action, status[u])
<1>1. session[other] \in Session
  BY DEF IInv, TypeOK
<1>2. \A v \in Tasks : v # other => session'[v] = session[v]
  BY <1>1 DEF IInv, TypeOK, Step, Plan, PlanFails, End, NextChunk, Report, BulkCall, BulkTimeout,
     CallDone, CallFails, CallTimeout
<1>3. other = t
  BY <1>2
<1>4. ~Plan(t) /\ ~PlanFails(t) /\ ~NextChunk(t) /\ ~Report(t)
  BY DEF Plan, PlanFails, NextChunk, Report, NoEffect
<1>5. ASSUME NEW chunk \in SUBSET Users, NEW us \in SUBSET Users,
             BulkTimeout(t, chunk, us) \/ \E named \in {us, {}} : BulkCall(t, chunk, us, named)
      PROVE  /\ u \in session[t].rest /\ session[t].at = "bulk"
             /\ status'[u] = After(session[t].action, status[u])
  <2>1. Apply(session[t].action, us, t) /\ us \subseteq session[t].rest /\ session[t].at = "bulk"
    BY <1>5 DEF BulkTimeout, BulkCall, IsChunk
  <2> QED BY <2>1 DEF Apply
<1>6. ASSUME NEW v \in Users, CallDone(t, v) \/ CallFails(t, v) \/ CallTimeout(t, v)
      PROVE  /\ u \in session[t].pending /\ session[t].at \in {"calls", "crashed"}
             /\ status'[u] = After(session[t].action, status[u])
  <2>1. Apply(session[t].action, {v}, t) /\ v \in session[t].pending
    BY <1>6 DEF CallDone, CallFails, CallTimeout, NoEffect
  <2> QED BY <2>1, PendingAt DEF Apply
<1> QED BY <1>3, <1>4, <1>5, <1>6 DEF Step, Busy

LEMMA WhoMoves ==
    ASSUME IInv, [Next]_vars, NEW t \in Tasks, NEW u \in Users,
           status'[u] # status[u], session'[t] # session[t]
    PROVE  \E other \in Tasks : Step(other)
BY DEF Next, vars, Press, NoEffect, Toggle, RunOut

(* bulk_users.py:14: an operation changes no account that it is not for,    *)
(* unless somebody else changed it after the plan was made.                 *)
THEOREM OnlyTargets == Spec => OnlyTargetsChange
<1>1. ASSUME IInv, [Next]_vars, NEW t \in Tasks, NEW u \in Users,
             status'[u] # status[u], session'[t] # session[t]
      PROVE  status[u] \in TargetStatuses[session[t].action] \/ u \in moved[t]
  <2>1. PICK other \in Tasks : Step(other)
    BY <1>1, WhoMoves
  <2>2. /\ u \in session[t].rest \cup session[t].pending
        /\ status'[u] = After(session[t].action, status[u])
    BY <1>1, <2>1, OwnSession
  <2>3. Meant(t, u)
    BY <1>1, <2>2 DEF IInv, MeantInv
  <2> QED BY <1>1, <2>2, <2>3 DEF Meant
<1>2. IInv /\ [Next]_vars =>
        [\A t \in Tasks, u \in Users :
           /\ status'[u] # status[u] /\ session'[t] # session[t]
           => status[u] \in TargetStatuses[session[t].action] \/ u \in moved[t]]_vars
  BY <1>1
<1> QED BY <1>2, Invariance, PTL DEF Spec, OnlyTargetsChange

(* _BULK_RUNNING: two operations of a reseller never change accounts at a   *)
(* time, but for the calls that a crash has left behind.                    *)
THEOREM Alone == Spec => OneAtATime
<1>1. ASSUME IInv, [Next]_vars, NEW t \in Tasks, NEW u \in Users,
             status'[u] # status[u], session'[t] # session[t]
      PROVE  running \in {t} \/ session[t].at = "crashed"
  <2>1. PICK other \in Tasks : Step(other)
    BY <1>1, WhoMoves
  <2>2. session[t].at = "crashed" \/ session[t].at \in Busy
    BY <1>1, <2>1, OwnSession
  <2> QED BY <1>1, <2>2 DEF IInv, FlagInv
<1>2. IInv /\ [Next]_vars =>
        [\A t \in Tasks, u \in Users :
           /\ status'[u] # status[u] /\ session'[t] # session[t]
           => running \in {t} \/ session[t].at = "crashed"]_vars
  BY <1>1
<1> QED BY <1>2, Invariance, PTL DEF Spec, OneAtATime
-------------------------------------------------------------------------------
(* Of FlagIsFreed, what does not need fairness: no operation goes on for    *)
(* ever.  An account that waits for its chunk costs a bulk call, a call of  *)
(* its own and the step to the next chunk, at most.                        *)
Left(s) ==
    CASE s.at = "idle"  -> 3 * Cardinality(Users) + 3
      [] s.at = "plan"  -> 3 * Cardinality(Users) + 2
      [] s.at = "bulk"  -> 3 * Cardinality(s.rest) + 1
      [] s.at = "calls" -> 3 * Cardinality(s.rest) + Cardinality(s.pending) + 2
      [] OTHER -> Cardinality(s.pending)

(* Every step of an operation, or of a call it has left behind, brings its  *)
(* end nearer, and no other step puts it off.                              *)
Advances ==
    [][\A t \in Tasks :
         /\ Left(session[t])' \in Nat
         /\ session'[t] # session[t] => Left(session[t])' < Left(session[t])
         /\ Step(t) => session'[t] # session[t]]_vars

(* What the sets of a session count to. *)
LEMMA Counts ==
    ASSUME NEW s \in Session
    PROVE  /\ Cardinality(s.rest) \in Nat /\ Cardinality(s.pending) \in Nat
           /\ Cardinality(s.rest) <= Cardinality(Users) /\ Cardinality(Users) \in Nat
           /\ Left(s) \in Nat
<1>1. s.rest \in SUBSET Users /\ s.pending \in SUBSET Users /\ Users \in SUBSET Users
  BY DEF Session
<1>2. /\ Cardinality(s.rest) \in Nat /\ Cardinality(s.pending) \in Nat
      /\ Cardinality(Users) \in Nat
  BY <1>1, CountType
<1>3. Cardinality(s.rest) <= Cardinality(Users)
  BY <1>1, FS_Subset
<1>4. Left(s) \in Nat
  BY <1>2 DEF Left
<1> QED BY <1>2, <1>3, <1>4

LEMMA StepsOn ==
    ASSUME IInv, IInv', NEW t \in Tasks, Step(t)
    PROVE  Left(session'[t]) < Left(session[t])
<1> DEFINE old == session[t]
           new == session'[t]
<1>1. old \in Session /\ new \in Session /\ session \in [Tasks -> Session]
  BY DEF IInv, TypeOK
<1>2. PlaceInv(old) /\ PlaceInv(new)
  BY DEF IInv
<1>3. /\ Cardinality(old.rest) \in Nat /\ Cardinality(old.pending) \in Nat
      /\ Cardinality(new.rest) \in Nat /\ Cardinality(new.pending) \in Nat
      /\ Cardinality(new.rest) <= Cardinality(Users) /\ Cardinality(Users) \in Nat
  BY <1>1, Counts
<1>4. ASSUME old.at \in {"idle", "plan", "bulk"} PROVE old.pending = {}
  BY <1>1, <1>2, <1>4 DEF PlaceInv, Parted, Session
<1>5. Cardinality({}) = 0
  BY FS_EmptySet
<1>6. ASSUME Plan(t) PROVE Left(new) < Left(old)
  <2>1. old.at = "plan" /\ new.at = "bulk"
    BY <1>1, <1>6 DEF Plan, Session
  <2> QED BY <1>3, <2>1 DEF Left
<1>7. ASSUME PlanFails(t) PROVE Left(new) < Left(old)
  <2>1. /\ old.at = "plan" /\ new.at \in {"error", "crashed"}
        /\ new.pending = old.pending /\ old.pending = {}
    BY <1>1, <1>4, <1>7 DEF PlanFails, End, Session
  <2> QED BY <1>3, <1>5, <2>1 DEF Left
<1>8. ASSUME NextChunk(t) PROVE Left(new) < Left(old)
  <2>1. old.at = "calls" /\ new.at = "bulk" /\ new.rest = old.rest
    BY <1>1, <1>8 DEF NextChunk, Session
  <2> QED BY <1>3, <2>1 DEF Left
<1>9. ASSUME Report(t) PROVE Left(new) < Left(old)
  <2>1. /\ old.at \in {"calls", "bulk"} /\ new.at = "done"
        /\ new.pending = old.pending /\ old.pending = {}
    BY <1>1, <1>4, <1>9 DEF Report, End, Session
  <2> QED BY <1>3, <1>5, <2>1 DEF Left
<1>10. ASSUME NEW chunk \in SUBSET Users, NEW us \in SUBSET Users, BulkTimeout(t, chunk, us)
       PROVE  Left(new) < Left(old)
  <2>1. /\ old.at = "bulk" /\ new.at = "crashed"
        /\ new.pending = old.pending /\ old.pending = {}
    BY <1>1, <1>4, <1>10 DEF BulkTimeout, End, Session
  <2> QED BY <1>3, <1>5, <2>1 DEF Left
<1>11. ASSUME NEW chunk \in SUBSET Users, NEW us \in SUBSET Users, NEW named \in {us, {}},
              BulkCall(t, chunk, us, named)
       PROVE  Left(new) < Left(old)
  <2>1. /\ old.at = "bulk" /\ new.at = "calls"
        /\ new.rest = old.rest \ chunk /\ new.pending = Remaining(chunk, named)
        /\ chunk \subseteq old.rest /\ chunk # {}
    <3>1. new = [old EXCEPT !.at = "calls", !.rest = old.rest \ chunk,
                   !.pending = Remaining(chunk, named), !.changed = old.changed \cup named,
                   !.count = old.count + Cardinality(named)]
      BY <1>1, <1>11 DEF BulkCall
    <3> QED BY <1>1, <1>11, <3>1 DEF BulkCall, IsChunk, Session
  <2>2. Cardinality(old.rest \ chunk) = Cardinality(old.rest) - Cardinality(chunk)
    <3>1. IsFiniteSet(old.rest) /\ old.rest \cap chunk = chunk
      BY <1>1, <2>1, CountType DEF Session
    <3> QED BY <3>1, FS_Difference
  <2>3. Cardinality(new.pending) <= Cardinality(chunk) /\ Cardinality(chunk) \in Nat
    <3>1. IsFiniteSet(chunk) /\ new.pending \in SUBSET chunk
      BY <2>1, CountType DEF Remaining
    <3> QED BY <3>1, CountType, FS_Subset
  <2>4. Cardinality(chunk) # 0
    BY <2>1, CountType, FS_EmptySet
  <2> QED BY <1>3, <2>1, <2>2, <2>3, <2>4 DEF Left
<1>12. ASSUME NEW u \in Users, CallDone(t, u) \/ CallFails(t, u) \/ CallTimeout(t, u)
       PROVE  Left(new) < Left(old)
  <2>1. /\ old.at \in {"calls", "crashed"} /\ new.at \in {old.at, "crashed"}
        /\ new.rest = old.rest /\ new.pending = old.pending \ {u} /\ u \in old.pending
    <3>1. u \in old.pending /\ old.at \in {"calls", "crashed"}
      BY <1>12, PendingAt DEF CallDone, CallFails, CallTimeout
    <3>2. CASE CallDone(t, u)
      <4>1. new = [old EXCEPT !.pending = old.pending \ {u}, !.changed = old.changed \cup {u},
                     !.count = old.count + 1]
        BY <1>1, <3>2 DEF CallDone
      <4> QED BY <1>1, <3>1, <4>1 DEF Session
    <3>3. CASE CallFails(t, u)
      <4>1. new = [old EXCEPT !.pending = old.pending \ {u}, !.failed = old.failed \cup {u}]
        BY <1>1, <3>3 DEF CallFails
      <4> QED BY <1>1, <3>1, <4>1 DEF Session
    <3>4. CASE CallTimeout(t, u)
      <4>1. new = [old EXCEPT !.pending = old.pending \ {u}, !.at = "crashed"]
        BY <1>1, <3>4 DEF CallTimeout
      <4> QED BY <1>1, <3>1, <4>1 DEF Session
    <3> QED BY <1>12, <3>2, <3>3, <3>4
  <2>2. Cardinality(new.pending) = Cardinality(old.pending) - 1
    BY <1>1, <2>1, CountType, FS_RemoveElement DEF Session
  <2> QED BY <1>3, <2>1, <2>2 DEF Left
<1> QED BY <1>6, <1>7, <1>8, <1>9, <1>10, <1>11, <1>12 DEF Step

(* Whoever acts moves only his own session. *)
LEMMA WhoActs ==
    ASSUME IInv, [Next]_vars, NEW t \in Tasks, session'[t] # session[t]
    PROVE  Step(t) \/ \E action \in Actions : Press(t, action)
<1>1. session \in [Tasks -> Session]
  BY DEF IInv, TypeOK
<1>2. ASSUME NEW other \in Tasks \ {t}, Step(other) \/ \E action \in Actions : Press(other, action)
      PROVE  session'[t] = session[t]
  BY <1>1, <1>2 DEF Press, Step, Plan, PlanFails, End, NextChunk, Report, BulkCall, BulkTimeout,
     CallDone, CallFails, CallTimeout
<1> QED BY <1>2 DEF Next, vars, Toggle, RunOut

(* _BULK_RUNNING: however the panel answers, an operation and the calls it  *)
(* leaves behind are over after 3 steps for each account and two more.     *)
THEOREM BulkAdvances == Spec => Advances
<1>1. ASSUME IInv, IInv', [Next]_vars, NEW t \in Tasks
      PROVE  /\ Left(session'[t]) \in Nat
             /\ session'[t] # session[t] => Left(session'[t]) < Left(session[t])
             /\ Step(t) => session'[t] # session[t]
  <2>1. session[t] \in Session /\ session'[t] \in Session /\ session \in [Tasks -> Session]
    BY <1>1 DEF IInv, TypeOK
  <2>2. ASSUME NEW action \in Actions, Press(t, action)
        PROVE  Left(session'[t]) < Left(session[t])
    <3>1. session[t].at = "idle" /\ session'[t].at = "plan"
      BY <2>1, <2>2 DEF Press, Session
    <3> QED BY <2>1, <3>1, Counts DEF Left
  <2>3. Step(t) => Left(session'[t]) < Left(session[t])
    BY <1>1, StepsOn
  <2>4. Left(session'[t]) \in Nat /\ Left(session[t]) \in Nat
    BY <2>1, Counts
  <2> QED BY <1>1, <2>2, <2>3, <2>4, WhoActs
<1>2. IInv /\ IInv' /\ [Next]_vars =>
        [\A t \in Tasks :
           /\ Left(session[t])' \in Nat
           /\ session'[t] # session[t] => Left(session[t])' < Left(session[t])
           /\ Step(t) => session'[t] # session[t]]_vars
  BY <1>1
<1> QED BY <1>2, Invariance, PTL DEF Spec, Advances
===============================================================================
