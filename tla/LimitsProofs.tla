----------------------------- MODULE LimitsProofs -----------------------------
(***************************************************************************)
(* What Limits guarantees for any number of resellers and admins, and      *)
(* whatever values are typed.                                              *)
(*                                                                         *)
(* A value is written long after it was read and validated; the inductive  *)
(* invariant says what a form that is about to write may rely on: what it  *)
(* holds is no range turned round, whatever is stored by then, and one of a *)
(* reseller that no global save overtook makes sense with the global ones. *)
(***************************************************************************)
EXTENDS Limits, TLAPS

USE LimitsAssumption DEF LimitsAssumption

(* What is about to be written whole is consistent in itself. *)
SessionInv ==
    \A t \in Tasks : session[t].at \in {"own", "global", "clear"} => Consistent(session[t].json)

(* Unless it was overtaken, what was validated still holds. *)
ValidatedInv ==
    \A t \in Tasks : session[t].at = "own" /\ ~session[t].overtaken
                     => ConsistentWith(global, session[t].json)

IInv == TypeOK /\ StoredRangesValid /\ SessionInv /\ ValidatedInv

(* Own limits that make sense with the global ones make sense alone, for    *)
(* both ends of an own range hide the global ones.                          *)
LEMMA OwnAlone ==
    ASSUME NEW all \in Json, NEW special \in Json, ConsistentWith(all, special)
    PROVE  Consistent(special)
BY DEF ConsistentWith, Consistent, Merge, Limited, Json, Unset

(* To drop a field makes no range, and keeps the type. *)
LEMMA WithoutKeeps ==
    ASSUME NEW json \in Json, NEW f \in Fields
    PROVE  /\ Without(json, f) \in Json
           /\ Consistent(json) => Consistent(Without(json, f))
BY DEF Without, Consistent, Limited, Json, Unset

LEMMA NothingKeeps == Nothing \in Json /\ Consistent(Nothing)
BY DEF Nothing, Json, Consistent, Limited, Unset

LEMMA AtRestType == AtRest \in Session /\ AtRest.at = "idle"
BY NothingKeeps DEF AtRest, Session

LEMMA ConflictingType ==
    ASSUME NEW all, NEW special
    PROVE  Conflicting(all, special) \subseteq Resellers
BY DEF Conflicting

LEMMA InitInv == Init => IInv
<1> SUFFICES ASSUME Init PROVE IInv OBVIOUS
<1> USE DEF Init
<1>1. TypeOK
  BY NothingKeeps, AtRestType DEF TypeOK
<1>2. StoredRangesValid
  BY NothingKeeps DEF StoredRangesValid
<1>3. SessionInv /\ ValidatedInv
  BY AtRestType DEF SessionInv, ValidatedInv
<1> QED BY <1>1, <1>2, <1>3 DEF IInv

(* A form that changes only its own session, to s. *)
LEMMA FormStep ==
    ASSUME IInv, NEW t \in Tasks, NEW s \in Session,
           session' = [session EXCEPT ![t] = s], UNCHANGED <<global, own>>,
           warned' \subseteq Resellers,
           s.at \in {"own", "global", "clear"} => Consistent(s.json),
           s.at = "own" => ConsistentWith(global, s.json)
    PROVE  IInv'
<1>1. TypeOK'
  BY DEF IInv, TypeOK
<1>2. StoredRangesValid'
  BY DEF IInv, StoredRangesValid
<1>3. SessionInv' /\ ValidatedInv'
  BY DEF IInv, TypeOK, SessionInv, ValidatedInv
<1> QED BY <1>1, <1>2, <1>3 DEF IInv

(* A form that is left, perhaps with a global save that overtakes others. *)
LEMMA LeftSession ==
    ASSUME IInv, NEW t \in Tasks, NEW new, new = Idle(t) \/ new = Overtake(Idle(t))
    PROVE  /\ new \in [Tasks -> Session]
           /\ \A u \in Tasks : new[u].at \in {"own", "global", "clear"}
                => /\ new[u].at = session[u].at /\ new[u].json = session[u].json
                   /\ ~new[u].overtaken => ~session[u].overtaken
           /\ new = Overtake(Idle(t)) => \A u \in Tasks : new[u].at = "own" => new[u].overtaken
<1>1. Idle(t) \in [Tasks -> Session]
  BY AtRestType DEF Idle, IInv, TypeOK
<1>2. \A u \in Tasks : Idle(t)[u] = IF u = t THEN AtRest ELSE session[u]
  BY DEF Idle, IInv, TypeOK
<1>3. \A s \in Session : [s EXCEPT !.overtaken = TRUE] \in Session
                          /\ [s EXCEPT !.overtaken = TRUE].at = s.at
                          /\ [s EXCEPT !.overtaken = TRUE].json = s.json
                          /\ [s EXCEPT !.overtaken = TRUE].overtaken
  BY DEF Session
<1>4. \A u \in Tasks : /\ Overtake(Idle(t))[u] \in Session
                       /\ Overtake(Idle(t))[u].at = Idle(t)[u].at
                       /\ Overtake(Idle(t))[u].json = Idle(t)[u].json
                       /\ ~Overtake(Idle(t))[u].overtaken => ~Idle(t)[u].overtaken
                       /\ Idle(t)[u].at = "own" => Overtake(Idle(t))[u].overtaken
  BY <1>1, <1>3 DEF Overtake
<1>5. Overtake(Idle(t)) \in [Tasks -> Session]
  BY <1>4 DEF Overtake
<1> QED BY <1>1, <1>2, <1>4, <1>5, AtRestType

(* A form that reads or validates. *)
LEMMA ReadStep ==
    ASSUME IInv, NEW t \in Tasks,
           \/ \E r \in Resellers, f \in Fields, value \in Values : ReadOwn(t, r, f, value)
           \/ \E f \in Fields, value \in Values : ReadGlobal(t, f, value)
           \/ ValidateOwn(t)
    PROVE  IInv'
<1> USE DEF IInv, TypeOK
<1>1. CASE \E r \in Resellers, f \in Fields, value \in Values : ReadOwn(t, r, f, value)
  <2>1. PICK r \in Resellers, f \in Fields, value \in Values : ReadOwn(t, r, f, value)
    BY <1>1
  <2> DEFINE s == [session[t] EXCEPT !.at = "validate", !.reseller = r, !.field = f,
                     !.json = [own[r] EXCEPT ![f] = value]]
  <2>2. [own[r] EXCEPT ![f] = value] \in Json
    BY DEF Json
  <2>3. s \in Session /\ s.at = "validate"
    BY <2>2 DEF Session
  <2>4. session' = [session EXCEPT ![t] = s] /\ UNCHANGED <<global, own, warned>>
    BY <2>1 DEF ReadOwn
  <2> HIDE DEF s
  <2> QED BY <2>3, <2>4, FormStep
<1>2. CASE \E f \in Fields, value \in Values : ReadGlobal(t, f, value)
  <2>1. PICK f \in Fields, value \in Values : ReadGlobal(t, f, value)
    BY <1>2
  <2> DEFINE new == [global EXCEPT ![f] = value]
             s == [session[t] EXCEPT !.at = "global", !.field = f, !.json = new]
  <2>2. new \in Json /\ Consistent(new)
    BY <2>1 DEF Json, ReadGlobal
  <2>3. session' = [session EXCEPT ![t] = s] /\ UNCHANGED <<global, own, warned>>
    BY <2>1 DEF ReadGlobal
  <2> HIDE DEF new
  <2>4. s \in Session /\ s.at = "global" /\ s.json = new
    BY <2>2 DEF Session
  <2> HIDE DEF s
  <2> QED BY <2>2, <2>3, <2>4, FormStep
<1>3. CASE ValidateOwn(t)
  <2> USE <1>3 DEF ValidateOwn
  <2>1. CASE ConsistentWith(global, session[t].json)
    <3> DEFINE s == [session[t] EXCEPT !.at = "own"]
    <3>1. s \in Session /\ s.at = "own" /\ s.json = session[t].json /\ session[t].json \in Json
      BY DEF Session
    <3>2. Consistent(s.json) /\ ConsistentWith(global, s.json)
      BY <2>1, <3>1, OwnAlone
    <3>3. session' = [session EXCEPT ![t] = s]
      BY <2>1
    <3> HIDE DEF s
    <3> QED BY <3>1, <3>2, <3>3, FormStep
  <2>2. CASE ~ConsistentWith(global, session[t].json)
    BY <2>2, AtRestType, FormStep DEF Idle
  <2> QED BY <2>1, <2>2
<1> QED BY <1>1, <1>2, <1>3

(* A form that looks at the own values one by one. *)
LEMMA ScanStep ==
    ASSUME IInv, NEW t \in Tasks,
           \/ SameGlobal(t) \/ SameOwn(t) \/ ScanEnds(t)
           \/ \E r \in Resellers : Scan(t, r)
    PROVE  IInv'
<1> USE DEF IInv, TypeOK
<1>1. CASE SameGlobal(t) \/ SameOwn(t)
  <2>1. session[t].field \in Fields /\ session[t].todo \subseteq Resellers
    BY DEF Session
  <2> DEFINE s(todo) == [AtRest EXCEPT !.at = "scan", !.field = session[t].field, !.todo = todo]
  <2>2. \A todo \in SUBSET Resellers : s(todo) \in Session /\ s(todo).at = "scan"
    BY <2>1, AtRestType DEF Session
  <2>3. PICK todo \in SUBSET Resellers :
          session' = [session EXCEPT ![t] = s(todo)] /\ UNCHANGED <<global, own, warned>>
    BY <1>1, <2>1 DEF SameGlobal, SameOwn
  <2> HIDE DEF s
  <2> QED BY <2>2, <2>3, FormStep
<1>2. CASE ScanEnds(t)
  BY <1>2, AtRestType, ConflictingType, FormStep DEF ScanEnds, Idle
<1>3. CASE \E r \in Resellers : Scan(t, r)
  <2>1. PICK r \in Resellers : Scan(t, r)
    BY <1>3
  <2>2. session[t] \in Session /\ session[t].field \in Fields
        /\ session[t].todo \ {r} \subseteq Resellers /\ session[t].at = "scan"
    BY <2>1 DEF Session, Scan
  <2>3. CASE own[r][session[t].field] = Unset
    <3> DEFINE s == [session[t] EXCEPT !.todo = @ \ {r}]
    <3>1. s \in Session /\ s.at = "scan"
      BY <2>2 DEF Session
    <3>2. session' = [session EXCEPT ![t] = s] /\ UNCHANGED <<global, own, warned>>
      BY <2>1, <2>3 DEF Scan
    <3> HIDE DEF s
    <3> QED BY <3>1, <3>2, FormStep
  <2>4. CASE own[r][session[t].field] # Unset
    <3> DEFINE new == Without(own[r], session[t].field)
               s == [session[t] EXCEPT !.at = "clear", !.todo = @ \ {r}, !.reseller = r, !.json = new]
    <3>1. new \in Json /\ Consistent(new)
      BY <2>2, WithoutKeeps DEF StoredRangesValid
    <3>2. session' = [session EXCEPT ![t] = s] /\ UNCHANGED <<global, own, warned>>
      BY <2>1, <2>4 DEF Scan
    <3> HIDE DEF new
    <3>3. s \in Session /\ s.json = new /\ s.at = "clear"
      BY <2>2, <3>1 DEF Session
    <3> HIDE DEF s
    <3> QED BY <3>1, <3>2, <3>3, FormStep
  <2> QED BY <2>3, <2>4
<1> QED BY <1>1, <1>2, <1>3

(* A write of one's own limits, of the global ones, or of those that are    *)
(* cleared, and a reset.                                                    *)
LEMMA WriteStep ==
    ASSUME IInv,
           \/ \E t \in Tasks : WriteOwn(t) \/ WriteGlobal(t) \/ Clear(t)
           \/ \E r \in Resellers : Reset(r)
    PROVE  IInv'
<1> USE DEF IInv, TypeOK
<1>1. \A r \in Resellers, f \in Fields :
        Without(own[r], f) \in Json /\ Consistent(Without(own[r], f))
  BY WithoutKeeps DEF StoredRangesValid
<1>2. \A t \in Tasks : session[t].field \in Fields /\ session[t].json \in Json
  BY DEF Session
<1>3. ASSUME NEW t \in Tasks, WriteOwn(t) PROVE IInv'
  <2>1. session' = Idle(t) /\ UNCHANGED <<global, warned>>
        /\ own' = [own EXCEPT ![session[t].reseller] = session[t].json]
        /\ Consistent(session[t].json)
    BY <1>3 DEF WriteOwn, SessionInv
  <2>2. TypeOK'
    BY <1>2, <2>1, LeftSession
  <2>3. StoredRangesValid'
    BY <2>1 DEF StoredRangesValid
  <2>4. SessionInv' /\ ValidatedInv'
    BY <2>1, LeftSession DEF SessionInv, ValidatedInv
  <2> QED BY <2>2, <2>3, <2>4
<1>4. ASSUME NEW t \in Tasks, WriteGlobal(t) PROVE IInv'
  <2>1. /\ session' = Overtake(Idle(t)) /\ global' = session[t].json
        /\ own' = [r \in Resellers |-> Without(own[r], session[t].field)]
        /\ warned' \subseteq Resellers
        /\ Consistent(session[t].json)
    BY <1>4, ConflictingType DEF WriteGlobal, NewGlobal, SessionInv
  <2>2. TypeOK'
    BY <1>1, <1>2, <2>1, LeftSession
  <2>3. StoredRangesValid'
    BY <1>1, <1>2, <2>1 DEF StoredRangesValid
  <2>4. SessionInv' /\ ValidatedInv'
    BY <2>1, LeftSession DEF SessionInv, ValidatedInv
  <2> QED BY <2>2, <2>3, <2>4
<1>5. ASSUME NEW t \in Tasks, Clear(t) PROVE IInv'
  <2>1. /\ session' = Idle(t) /\ UNCHANGED global /\ warned' \subseteq Resellers
        /\ own' = [r \in Resellers |-> IF r = session[t].reseller THEN session[t].json
                     ELSE IF r \in session[t].todo THEN Without(own[r], session[t].field) ELSE own[r]]
        /\ Consistent(session[t].json)
    BY <1>5, ConflictingType DEF Clear, SessionInv
  <2>2. TypeOK'
    BY <1>1, <1>2, <2>1, LeftSession
  <2>3. StoredRangesValid'
    BY <1>1, <1>2, <2>1 DEF StoredRangesValid
  <2>4. SessionInv' /\ ValidatedInv'
    BY <2>1, LeftSession DEF SessionInv, ValidatedInv
  <2> QED BY <2>2, <2>3, <2>4
<1>6. ASSUME NEW r \in Resellers, Reset(r) PROVE IInv'
  <2>1. own' = [own EXCEPT ![r] = Nothing] /\ UNCHANGED <<global, session, warned>>
    BY <1>6 DEF Reset
  <2>2. TypeOK'
    BY <2>1, NothingKeeps
  <2>3. StoredRangesValid'
    BY <2>1, NothingKeeps DEF StoredRangesValid
  <2>4. SessionInv' /\ ValidatedInv'
    BY <2>1 DEF SessionInv, ValidatedInv
  <2> QED BY <2>2, <2>3, <2>4
<1> QED BY <1>3, <1>4, <1>5, <1>6

LEMMA StepInv == IInv /\ [Next]_vars => IInv'
<1> SUFFICES ASSUME IInv, [Next]_vars PROVE IInv' OBVIOUS
<1>1. CASE UNCHANGED vars
  BY <1>1 DEF vars, IInv, TypeOK, StoredRangesValid, SessionInv, ValidatedInv
<1>2. CASE Next
  BY <1>2, ReadStep, ScanStep, WriteStep DEF Next
<1> QED BY <1>1, <1>2

THEOREM Invariance == Spec => []IInv
BY InitInv, StepInv, PTL DEF Spec

(* Every variable of Limits keeps its type: limits are of the fields that   *)
(* there are, whoever saves.                                                *)
THEOREM TypeCorrect == Spec => []TypeOK
<1>1. IInv => TypeOK
  BY DEF IInv
<1> QED BY Invariance, <1>1, PTL

(* No stored value has a minimum above its maximum, however the saves of    *)
(* admins overlap (limits.py:107-123, 130-146).                             *)
THEOREM RangesValid == Spec => []StoredRangesValid
<1>1. IInv => StoredRangesValid
  BY DEF IInv
<1> QED BY Invariance, <1>1, PTL

-------------------------------------------------------------------------------
(* A range that is one allows its minimum, or its maximum, or anything: the *)
(* resellers that are shut out are those whose range is none.               *)
LEMMA RangeAllows ==
    ASSUME NEW limits \in Json, Values # {}
    PROVE  Consistent(limits) <=> \E gb \in Values : AllowedGb(limits, gb)
<1>0. \A value \in Values : value <= value /\ value >= value
  OBVIOUS
<1>1. limits["min_gb"] \in Values \cup {Unset} /\ limits["max_gb"] \in Values \cup {Unset}
  BY DEF Json
<1>2. ASSUME Consistent(limits) PROVE \E gb \in Values : AllowedGb(limits, gb)
  <2>1. CASE Limited(limits["min_gb"])
    <3>1. limits["min_gb"] \in Values
      BY <1>1, <2>1 DEF Limited
    <3>2. AllowedGb(limits, limits["min_gb"])
      BY <1>0, <1>2, <2>1, <3>1 DEF AllowedGb, Consistent
    <3> QED BY <3>1, <3>2
  <2>2. CASE ~Limited(limits["min_gb"]) /\ Limited(limits["max_gb"])
    <3>1. limits["max_gb"] \in Values
      BY <1>1, <2>2 DEF Limited
    <3>2. AllowedGb(limits, limits["max_gb"])
      BY <1>0, <1>2, <2>2, <3>1 DEF AllowedGb
    <3> QED BY <3>1, <3>2
  <2>3. CASE ~Limited(limits["min_gb"]) /\ ~Limited(limits["max_gb"])
    BY <1>2, <2>3 DEF AllowedGb
  <2> QED BY <2>1, <2>2, <2>3
<1> QED BY <1>2 DEF AllowedGb

LEMMA MergeType ==
    ASSUME NEW all \in Json, NEW special \in Json
    PROVE  Merge(all, special) \in Json
BY DEF Merge, Json

(* Who is shut out with certain limits is in conflict with the global ones. *)
LEMMA ShutOutConflicts ==
    ASSUME TypeOK, Values # {}
    PROVE  ShutOut = Conflicting(global, own)
<1>1. ASSUME NEW r \in Resellers
      PROVE  Consistent(Merge(global, own[r]))
               <=> \E gb \in Values : AllowedGb(Merge(global, own[r]), gb)
  BY RangeAllows, MergeType DEF TypeOK
<1> QED BY <1>1 DEF ShutOut, Conflicting

(* The global limits alone are a range. *)
LEMMA MergeNothing ==
    ASSUME NEW all \in Json
    PROVE  Merge(all, Nothing) = all
BY DEF Merge, Nothing, Json

(* limits.py:107-123: whoever is allowed no volume any more is one of whom  *)
(* the admin was told by the step that made it so, or his own limits were   *)
(* written after a global save had overtaken their validation.              *)
THEOREM ConflictsTold == Spec => ConflictsAreExplained
<1> DEFINE Explained(r) ==
             \/ r \in warned'
             \/ \E t \in Tasks : WriteOwn(t) /\ session[t].reseller = r /\ session[t].overtaken
           A == \A r \in Resellers : r \in ShutOut' \ ShutOut => Explained(r)
<1>1. IInv /\ IInv' /\ [Next]_vars => [A]_vars
  <2> SUFFICES ASSUME IInv, IInv', Next, NEW r \in Resellers, r \in ShutOut', r \notin ShutOut
               PROVE  Explained(r)
    OBVIOUS
  <2>1. Values # {}
    BY DEF ShutOut
  <2>2. r \notin Conflicting(global, own)
    BY <2>1, ShutOutConflicts DEF IInv
  <2>3. r \in Conflicting(global', own')
    <3>1. ShutOut' = Conflicting(global', own')
      <4>1. ASSUME NEW u \in Resellers
            PROVE  Consistent(Merge(global', own'[u]))
                     <=> \E gb \in Values : AllowedGb(Merge(global', own'[u]), gb)
        BY <2>1, RangeAllows, MergeType DEF IInv, TypeOK
      <4> QED BY <4>1 DEF ShutOut, Conflicting
    <3> QED BY <3>1
  <2>4. ~UNCHANGED <<global, own>>
    BY <2>2, <2>3
  <2>5. own \in [Resellers -> Json] /\ global \in Json
    BY DEF IInv, TypeOK
  <2>6. CASE \E t \in Tasks : WriteOwn(t)
    <3>1. PICK t \in Tasks : WriteOwn(t)
      BY <2>6
    <3>2. /\ session[t].at = "own" /\ global' = global
          /\ own' = [own EXCEPT ![session[t].reseller] = session[t].json]
      BY <3>1 DEF WriteOwn
    <3>3. session[t].reseller = r /\ own'[r] = session[t].json
      BY <2>2, <2>3, <2>5, <3>2 DEF Conflicting
    <3>4. ~ConsistentWith(global, session[t].json)
      BY <2>3, <3>2, <3>3 DEF Conflicting, ConsistentWith
    <3>5. session[t].overtaken
      BY <3>2, <3>4 DEF IInv, ValidatedInv
    <3> QED BY <3>1, <3>3, <3>5
  <2>7. CASE \E t \in Tasks : WriteGlobal(t) \/ Clear(t)
    <3>1. warned' = Conflicting(global', own')
      BY <2>7 DEF WriteGlobal, Clear
    <3> QED BY <2>3, <3>1
  <2>8. CASE \E u \in Resellers : Reset(u)
    <3>1. PICK u \in Resellers : Reset(u)
      BY <2>8
    <3>2. global' = global /\ own' = [own EXCEPT ![u] = Nothing]
      BY <3>1 DEF Reset
    <3>3. own'[r] = Nothing
      BY <2>2, <2>3, <2>5, <3>2 DEF Conflicting
    <3>4. ~Consistent(global)
      BY <2>3, <2>5, <3>2, <3>3, MergeNothing DEF Conflicting
    <3> QED BY <3>4 DEF IInv, StoredRangesValid
  <2> QED
    BY <2>4, <2>6, <2>7, <2>8 DEF Next, ReadOwn, ValidateOwn, ReadGlobal, SameGlobal, Scan, SameOwn, ScanEnds
<1>2. Spec => [][A]_vars
  BY <1>1, Invariance, PTL DEF Spec
<1> QED BY <1>2 DEF ConflictsAreExplained
===============================================================================
