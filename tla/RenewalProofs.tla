---------------------------- MODULE RenewalProofs ----------------------------
(***************************************************************************)
(* What Renewal guarantees for any number of renewals, however they        *)
(* overlap and however often their calls are repeated.                     *)
(*                                                                         *)
(* A renewal may be done, failed or dead when another's PUT is still the   *)
(* last one; the inductive invariant therefore ties the account to the     *)
(* session of the last writer, whatever has become of it.  That the limit   *)
(* is a sum is kept by a second invariant, for which the first is needed:   *)
(* every limit that was ever read is one, too, without the reader.         *)
(***************************************************************************)
EXTENDS Renewal, FiniteSetTheorems, TLAPS

USE RenewalAssumption DEF RenewalAssumption

(* A session that may have called PUT. *)
MayHavePut == {"put", "charge", "done", "failed", "died"}

(* The account is what the last writer's session computes. *)
WrittenInv ==
    writer # NoTask =>
        /\ session[writer].at \in MayHavePut
        /\ account.limit = Result(session[writer]).limit
        /\ account.expire = Result(session[writer]).expire

(* No charge without a PUT, nor of an admin. *)
ChargeInv ==
    \A t \in Tasks :
        /\ session[t].at = "charge" => t \notin AdminTasks /\ writer # NoTask
        /\ t \in charged => writer # NoTask

IInv == TypeOK /\ WrittenInv /\ ChargeInv

(* The result of a renewal is an account's volume and time. *)
LEMMA ResultType ==
    ASSUME NEW s \in Session
    PROVE  Result(s).limit \in Nat /\ Result(s).expire \in Nat
BY DEF Result, Renewed, From, Later, Session, Account

(* A result only depends on what the session has read and was asked for. *)
LEMMA ResultKept ==
    ASSUME NEW s, NEW r, r.seen = s.seen, r.gb = s.gb, r.days = s.days,
           r.mode = s.mode, r.when = s.when
    PROVE  Result(r) = Result(s)
BY DEF Result

(* What a result holds. *)
LEMMA ResultGives ==
    ASSUME NEW s \in Session
    PROVE  /\ Result(s).limit >= s.gb
           /\ s.days = 0 <=> Result(s).expire = 0
           /\ s.days # 0 => Result(s).expire >= s.when + s.days
BY DEF Result, Renewed, From, Later, Session, Account, Modes

LEMMA InitInv == Init => IInv
<1> SUFFICES ASSUME Init PROVE IInv OBVIOUS
<1> USE DEF Init
<1>1. account \in Account /\ mode \in Modes
  <2>1. account \in [limit: StartLimits, expire: StartExpires, used: {0}] /\ mode \in Modes
    OBVIOUS
  <2>2. StartLimits \subseteq Nat /\ StartExpires \subseteq Nat
    BY DEF RenewalAssumption
  <2>3. PICK a \in StartLimits, b \in StartExpires : account = [limit |-> a, expire |-> b, used |-> 0]
    BY <2>1
  <2> QED BY <2>1, <2>2, <2>3 DEF Account
<1>2. \A t \in Tasks : session[t] \in Session /\ session[t].at = "idle"
  <2> DEFINE new == [at |-> "idle", gb |-> 0, days |-> 0, mode |-> "additive",
                     seen |-> account, when |-> 0, tries |-> 0]
  <2>1. new \in [at: {"idle"} \cup Working \cup Ended, gb: Nat, days: Nat, mode: Modes,
                 seen: Account, when: Nat, tries: Nat]
    BY <1>1, "additive" \in Modes, "idle" \in {"idle"} \cup Working \cup Ended DEF Modes
  <2>2. \A t \in Tasks : session[t] = new
    OBVIOUS
  <2>3. new \in Session /\ new.at = "idle"
    BY <2>1 DEF Session
  <2> HIDE DEF new
  <2> QED BY <2>2, <2>3
<1>3. TypeOK
  BY <1>1, <1>2 DEF TypeOK
<1>4. WrittenInv /\ ChargeInv
  BY <1>2 DEF WrittenInv, ChargeInv
<1> QED BY <1>3, <1>4 DEF IInv

-------------------------------------------------------------------------------
(* Moving one session on, its reading as it was. *)
MovesTo(t, steps) ==
    \E at \in steps, tries \in Nat :
        session' = [session EXCEPT ![t].at = at, ![t].tries = tries]

LEMMA Moves ==
    ASSUME IInv, NEW t \in Tasks, NEW steps, steps \subseteq Working \cup Ended, MovesTo(t, steps)
    PROVE  /\ session' \in [Tasks -> Session]
           /\ session'[t].at \in steps
           /\ Result(session'[t]) = Result(session[t])
           /\ \A u \in Tasks \ {t} : session'[u] = session[u]
<1>1. PICK at \in steps, tries \in Nat :
        session' = [session EXCEPT ![t].at = at, ![t].tries = tries]
  BY DEF MovesTo
<1>2. session \in [Tasks -> Session] /\ session[t] \in Session
  BY DEF IInv, TypeOK
<1>3. session'[t] = [session[t] EXCEPT !.at = at, !.tries = tries]
  BY <1>1, <1>2
<1>4. session'[t] \in Session /\ session'[t].at = at
  BY <1>2, <1>3 DEF Session
<1>5. Result(session'[t]) = Result(session[t])
  BY <1>2, <1>3, ResultKept DEF Session
<1>6. \A u \in Tasks \ {t} : session'[u] = session[u]
  BY <1>1, <1>2
<1>7. session' \in [Tasks -> Session]
  BY <1>1, <1>2, <1>4, <1>6
<1> QED BY <1>4, <1>5, <1>6, <1>7

(* Goto and Retry move a session on. *)
LEMMA GotoMoves ==
    ASSUME IInv, NEW t \in Tasks, NEW step, Goto(t, step)
    PROVE  MovesTo(t, {step})
<1>1. 0 \in Nat OBVIOUS
<1> QED BY <1>1 DEF Goto, MovesTo

LEMMA RetryMoves ==
    ASSUME IInv, NEW t \in Tasks, Retry(t)
    PROVE  MovesTo(t, {session[t].at})
<1>1. session[t] \in Session /\ session \in [Tasks -> Session]
  BY DEF IInv, TypeOK
<1>2. session[t].tries + 1 \in Nat
  BY <1>1 DEF Session
<1>3. session' = [session EXCEPT ![t].at = session[t].at, ![t].tries = session[t].tries + 1]
  BY <1>1 DEF Retry, Session
<1> QED BY <1>2, <1>3 DEF MovesTo

LEMMA UnansweredMoves ==
    ASSUME IInv, NEW t \in Tasks, Unanswered(t)
    PROVE  MovesTo(t, {session[t].at, "failed", "died"})
<1>1. CASE Retry(t) BY <1>1, RetryMoves DEF MovesTo
<1>2. CASE Goto(t, AfterError) BY <1>2, GotoMoves DEF MovesTo, AfterError
<1>3. CASE Goto(t, "died") BY <1>3, GotoMoves DEF MovesTo
<1> QED BY <1>1, <1>2, <1>3 DEF Unanswered

(* A session that moves on, from where it may have put to where it still   *)
(* may have, or from before, disturbs neither part of the invariant, if    *)
(* nothing else changes.                                                   *)
LEMMA MoveKeeps ==
    ASSUME IInv, NEW t \in Tasks, NEW steps, steps \subseteq Working \cup Ended,
           MovesTo(t, steps), "charge" \notin steps,
           session[t].at \in MayHavePut => steps \subseteq MayHavePut,
           UNCHANGED <<now, mode, opening, writer>>,
           account' \in Account, account'.limit = account.limit, account'.expire = account.expire,
           charged' \subseteq charged \cup {t}, charged' \subseteq Tasks \ AdminTasks,
           t \in charged' => writer # NoTask
    PROVE  IInv'
<1>1. /\ session' \in [Tasks -> Session]
      /\ session'[t].at \in steps
      /\ Result(session'[t]) = Result(session[t])
      /\ \A u \in Tasks \ {t} : session'[u] = session[u]
  BY Moves
<1>2. TypeOK'
  BY <1>1 DEF IInv, TypeOK
<1>3. WrittenInv'
  <2>1. CASE writer = NoTask BY <2>1 DEF WrittenInv
  <2>2. CASE writer = t BY <2>2, <1>1 DEF IInv, WrittenInv, TypeOK
  <2>3. CASE writer \in Tasks \ {t} BY <2>3, <1>1 DEF IInv, WrittenInv
  <2> QED BY <2>1, <2>2, <2>3 DEF IInv, TypeOK
<1>4. ChargeInv'
  BY <1>1 DEF IInv, ChargeInv
<1> QED BY <1>2, <1>3, <1>4 DEF IInv

-------------------------------------------------------------------------------
LEMMA ShowStep ==
    ASSUME IInv, NEW t \in Tasks, NEW gb \in Sizes, NEW days \in Days \cup {0}, Show(t, gb, days)
    PROVE  IInv'
<1> USE DEF IInv
<1>1. session[t] \in Session /\ session[t].at = "idle" /\ gb \in Nat /\ days \in Nat /\ mode \in Modes
  BY DEF Show, TypeOK
<1>2. session'[t] = [session[t] EXCEPT !.at = "shown", !.gb = gb, !.days = days]
  BY DEF Show, TypeOK
<1>3. session'[t] \in Session /\ session'[t].at = "shown"
  BY <1>1, <1>2 DEF Session, Working
<1>4. \A u \in Tasks \ {t} : session'[u] = session[u]
  BY DEF Show, TypeOK
<1>5. writer # t
  BY <1>1 DEF WrittenInv, MayHavePut, TypeOK
<1>6. TypeOK'
  BY <1>3, <1>4 DEF Show, TypeOK
<1>7. WrittenInv'
  BY <1>4, <1>5 DEF Show, WrittenInv, TypeOK
<1>8. ChargeInv'
  BY <1>3, <1>4 DEF Show, ChargeInv
<1> QED BY <1>6, <1>7, <1>8

LEMMA ConfirmStep ==
    ASSUME IInv, NEW t \in Tasks, Confirm(t)
    PROVE  IInv'
<1> USE DEF IInv
<1>1. session[t] \in Session /\ session[t].at = "shown" /\ mode \in Modes
  BY DEF Confirm, TypeOK
<1>2. session'[t] = [session[t] EXCEPT !.at = "get", !.mode = mode]
  BY DEF Confirm, TypeOK
<1>3. session'[t] \in Session /\ session'[t].at = "get"
  BY <1>1, <1>2 DEF Session, Working
<1>4. \A u \in Tasks \ {t} : session'[u] = session[u]
  BY DEF Confirm, TypeOK
<1>5. writer # t
  BY <1>1 DEF WrittenInv, MayHavePut, TypeOK
<1>6. TypeOK'
  BY <1>3, <1>4 DEF Confirm, TypeOK
<1>7. WrittenInv'
  BY <1>4, <1>5 DEF Confirm, WrittenInv, TypeOK
<1>8. ChargeInv'
  BY <1>3, <1>4 DEF Confirm, ChargeInv
<1> QED BY <1>6, <1>7, <1>8

(* Only here does a session read, and it has not put anything yet. *)
LEMMA GetStep ==
    ASSUME IInv, NEW t \in Tasks, Get(t)
    PROVE  IInv'
<1> USE DEF IInv
<1> DEFINE step == IF session[t].mode = "replace" THEN "reset" ELSE "put"
<1>1. session[t] \in Session /\ session[t].at = "get" /\ now \in Nat /\ account \in Account
  BY DEF Get, TypeOK
<1>2. session'[t] = [session[t] EXCEPT !.at = step, !.seen = account, !.when = now, !.tries = 0]
  BY DEF Get, TypeOK
<1>3. session'[t] \in Session /\ session'[t].at # "charge"
  <2>1. step \in Working /\ step # "charge"
    BY DEF Working
  <2> HIDE DEF step
  <2>2. [session[t] EXCEPT !.at = step, !.seen = account, !.when = now, !.tries = 0] \in Session
    BY <1>1, <2>1 DEF Session
  <2> QED BY <1>1, <1>2, <2>1, <2>2 DEF Session
<1>4. \A u \in Tasks \ {t} : session'[u] = session[u]
  BY DEF Get, TypeOK
<1>5. writer # t
  BY <1>1 DEF WrittenInv, MayHavePut, TypeOK
<1>6. TypeOK'
  BY <1>3, <1>4 DEF Get, TypeOK
<1>7. WrittenInv'
  BY <1>4, <1>5 DEF Get, WrittenInv, TypeOK
<1>8. ChargeInv'
  BY <1>3, <1>4 DEF Get, ChargeInv
<1> QED BY <1>6, <1>7, <1>8

LEMMA ResetStep ==
    ASSUME IInv, NEW t \in Tasks, Reset(t)
    PROVE  IInv'
<1>1. session[t].at = "reset" /\ UNCHANGED <<now, mode, opening, writer, charged>>
  BY DEF Reset
<1>2. account' \in Account /\ account'.limit = account.limit /\ account'.expire = account.expire
  BY DEF Reset, IInv, TypeOK, Account
<1>3. MovesTo(t, {"put", "reset", "failed", "died"})
  <2>1. CASE Goto(t, "put") BY <2>1, GotoMoves DEF MovesTo
  <2>2. CASE Unanswered(t) BY <2>2, <1>1, UnansweredMoves DEF MovesTo
  <2> QED BY <2>1, <2>2 DEF Reset
<1>4. charged \subseteq Tasks \ AdminTasks /\ (t \in charged => writer # NoTask)
  BY DEF IInv, TypeOK, ChargeInv
<1> QED
  BY <1>1, <1>2, <1>3, <1>4, MoveKeeps DEF MayHavePut, Working, Ended

(* Where a session is after its PUT. *)
LEMMA PutMoves ==
    ASSUME IInv, NEW t \in Tasks, Put(t)
    PROVE  \E steps \in SUBSET MayHavePut :
             /\ MovesTo(t, steps)
             /\ "charge" \in steps => t \notin AdminTasks
<1>1. CASE Goto(t, AfterPut(t))
  <2>1. {AfterPut(t)} \in SUBSET MayHavePut /\ ("charge" \in {AfterPut(t)} => t \notin AdminTasks)
    BY DEF AfterPut, MayHavePut
  <2> QED BY <1>1, <2>1, GotoMoves
<1>2. CASE Unanswered(t)
  <2>1. session[t].at = "put"
    BY DEF Put
  <2>2. MovesTo(t, {"put", "failed", "died"})
    BY <1>2, <2>1, UnansweredMoves
  <2> QED BY <2>2 DEF MayHavePut
<1> QED BY <1>1, <1>2 DEF Put

LEMMA PutStep ==
    ASSUME IInv, NEW t \in Tasks, Put(t)
    PROVE  IInv'
<1>1. session[t] \in Session /\ writer' = t
  BY DEF Put, IInv, TypeOK
<1>2. PICK steps \in SUBSET MayHavePut :
         MovesTo(t, steps) /\ ("charge" \in steps => t \notin AdminTasks)
  BY PutMoves
<1>3. steps \subseteq Working \cup Ended
  BY DEF MayHavePut, Working, Ended
<1>4. /\ session' \in [Tasks -> Session]
      /\ session'[t].at \in steps
      /\ Result(session'[t]) = Result(session[t])
      /\ \A u \in Tasks \ {t} : session'[u] = session[u]
  BY <1>2, <1>3, Moves
<1>5. /\ account' \in Account
      /\ account'.limit = Result(session[t]).limit
      /\ account'.expire = Result(session[t]).expire
  BY <1>1, ResultType DEF Put, IInv, TypeOK, Account
<1>6. TypeOK'
  BY <1>4, <1>5 DEF Put, IInv, TypeOK
<1>7. WrittenInv'
  BY <1>1, <1>4, <1>5 DEF WrittenInv
<1>8. ChargeInv'
  BY <1>1, <1>2, <1>4 DEF IInv, TypeOK, ChargeInv
<1> QED BY <1>6, <1>7, <1>8 DEF IInv

LEMMA CallFailsStep ==
    ASSUME IInv, NEW t \in Tasks, CallFails(t)
    PROVE  IInv'
<1> DEFINE here == session[t].at
<1>1. here \in {"get", "reset", "put"} /\ UNCHANGED <<now, mode, account, opening, writer, charged>>
  BY DEF CallFails
<1>2. MovesTo(t, {here, "failed", "died"})
  BY UnansweredMoves DEF CallFails
<1>3. /\ charged \subseteq Tasks \ AdminTasks /\ (t \in charged => writer # NoTask)
      /\ account \in Account
  BY DEF IInv, TypeOK, ChargeInv
<1> QED
  BY <1>1, <1>2, <1>3, MoveKeeps DEF MayHavePut, Working, Ended

(* Who reaches the charge is a reseller, and has put. *)
LEMMA ChargeStep ==
    ASSUME IInv, NEW t \in Tasks, Charge(t)
    PROVE  IInv'
<1>1. MovesTo(t, {"done"})
  BY GotoMoves DEF Charge
<1>2. /\ session[t].at = "charge" /\ writer # NoTask /\ account \in Account
      /\ charged' = charged \cup {t} /\ charged' \subseteq Tasks \ AdminTasks
  BY DEF Charge, IInv, TypeOK, ChargeInv
<1>3. UNCHANGED <<now, mode, account, opening, writer>>
  BY DEF Charge
<1> QED
  BY <1>1, <1>2, <1>3, MoveKeeps DEF MayHavePut, Working, Ended

LEMMA DieStep ==
    ASSUME IInv, NEW t \in Tasks, Die(t)
    PROVE  IInv'
<1>1. MovesTo(t, {"died"}) /\ UNCHANGED <<now, mode, account, opening, writer, charged>>
  BY GotoMoves DEF Die
<1>2. /\ charged \subseteq Tasks \ AdminTasks /\ (t \in charged => writer # NoTask)
      /\ account \in Account
  BY DEF IInv, TypeOK, ChargeInv
<1> QED
  BY <1>1, <1>2, MoveKeeps DEF MayHavePut, Working, Ended

LEMMA NextInv == IInv /\ [Next]_vars => IInv'
<1> SUFFICES ASSUME IInv, [Next]_vars PROVE IInv' OBVIOUS
<1>1. ASSUME NEW t \in Tasks, NEW gb \in Sizes, NEW days \in Days \cup {0}, Show(t, gb, days)
      PROVE  IInv'
  BY <1>1, ShowStep
<1>2. ASSUME NEW t \in Tasks, Confirm(t) PROVE IInv'
  BY <1>2, ConfirmStep
<1>3. ASSUME NEW t \in Tasks, Step(t) PROVE IInv'
  BY <1>3, GetStep, ResetStep, PutStep, CallFailsStep, ChargeStep, DieStep DEF Step
<1>4. ASSUME NEW m \in Modes, SetMode(m) PROVE IInv'
  BY <1>4 DEF SetMode, IInv, TypeOK, WrittenInv, ChargeInv, Result
<1>5. CASE Consume
  <2>1. account' \in Account /\ account'.limit = account.limit /\ account'.expire = account.expire
    BY <1>5 DEF Consume, IInv, TypeOK, Account
  <2> QED BY <1>5, <2>1 DEF Consume, IInv, TypeOK, WrittenInv, ChargeInv, Result
<1>6. CASE Tick
  BY <1>6 DEF Tick, IInv, TypeOK, WrittenInv, ChargeInv, Result
<1>7. CASE UNCHANGED vars
  BY <1>7 DEF vars, IInv, TypeOK, WrittenInv, ChargeInv, Result
<1> QED BY <1>1, <1>2, <1>3, <1>4, <1>5, <1>6, <1>7 DEF Next

THEOREM Invariance == Spec => []IInv
BY InitInv, NextInv, PTL DEF Spec

-------------------------------------------------------------------------------
(* The state of every renewal keeps its type, and only resellers are       *)
(* charged.                                                                *)
THEOREM TypeCorrect == Spec => []TypeOK
<1>1. IInv => TypeOK BY DEF IInv
<1> QED BY <1>1, Invariance, PTL

(* Whatever overlapped, the renewal written last is on the account whole:  *)
(* its volume, and its days from the moment it read the account.           *)
THEOREM LastGiven == Spec => []LastRenewalIsGiven
<1>1. IInv => LastRenewalIsGiven
  <2> SUFFICES ASSUME IInv, writer # NoTask
      PROVE  LET s == session[writer] IN
               /\ account.limit >= s.gb
               /\ s.days = 0 <=> account.expire = 0
               /\ s.days # 0 => account.expire >= s.when + s.days
    BY DEF LastRenewalIsGiven
  <2>1. session[writer] \in Session
    BY DEF IInv, TypeOK
  <2>2. account.limit = Result(session[writer]).limit /\ account.expire = Result(session[writer]).expire
    BY DEF IInv, WrittenInv
  <2> QED BY <2>1, <2>2, ResultGives
<1> QED BY <1>1, Invariance, PTL

(* A charged renewal nobody overlapped is the one that is on the account.  *)
THEOREM ChargedApplied == Spec => []ChargedIsApplied
<1>1. IInv => ChargedIsApplied
  <2> SUFFICES ASSUME IInv, NEW t \in charged,
                      \A other \in Tasks \ {t} : session[other].at \in {"idle", "shown"}
      PROVE  writer = t
    BY DEF ChargedIsApplied
  <2>1. writer # NoTask /\ writer \in Tasks
    BY DEF IInv, TypeOK, ChargeInv
  <2>2. session[writer].at \in MayHavePut
    BY <2>1 DEF IInv, WrittenInv
  <2> QED BY <2>1, <2>2 DEF MayHavePut
<1> QED BY <1>1, Invariance, PTL

-------------------------------------------------------------------------------
(* A renewal has read the account from its GET on, in which time has begun. *)
ReadInv ==
    /\ now >= 1
    /\ \A t \in Tasks : /\ session[t].at \in {"idle", "shown", "get"} => session[t].when = 0
                        /\ session[t].at \in {"reset", "put"} => session[t].when # 0

(* The limits that some additive renewals make, but for certain ones, of    *)
(* the first limit or of that of a replacement.                            *)
Bases == {opening.limit} \cup {session[t].gb : t \in Wrote("replace")}
Counted(without) == {S \in SUBSET (Wrote("additive") \ without) : IsFiniteSet(Gigabytes(S))}
Sums(without) == {base + Volume(S) : base \in Bases, S \in Counted(without)}

AddInv ==
    /\ ReadInv
    /\ account.limit \in Sums({})
    /\ \A t \in Tasks : session[t].when # 0 => session[t].seen.limit \in Sums({t})

(* One more renewal adds its volume to those of others. *)
LEMMA VolumeAdd ==
    ASSUME IInv, NEW S \in SUBSET Tasks, IsFiniteSet(Gigabytes(S)), NEW t \in Tasks \ S
    PROVE  /\ IsFiniteSet(Gigabytes(S \cup {t}))
           /\ Volume(S \cup {t}) = Volume(S) + session[t].gb
           /\ Volume(S) \in Nat
<1> DEFINE gb == session[t].gb
           more == {t} \X (1 .. gb)
<1>1. gb \in Nat
  BY DEF IInv, TypeOK, Session
<1>2. IsFiniteSet(1 .. gb) /\ Cardinality(1 .. gb) = gb
  <2>1. IsFiniteSet(1 .. gb) /\ Cardinality(1 .. gb) = IF 1 > gb THEN 0 ELSE gb - 1 + 1
    BY <1>1, FS_Interval
  <2>2. (IF 1 > gb THEN 0 ELSE gb - 1 + 1) = gb
    BY <1>1
  <2> QED BY <2>1, <2>2
<1>3. IsFiniteSet({t}) /\ Cardinality({t}) = 1
  BY FS_Singleton
<1>4. IsFiniteSet(more) /\ Cardinality(more) = gb
  <2>1. IsFiniteSet(more) /\ Cardinality(more) = 1 * gb
    BY <1>2, <1>3, FS_Product
  <2>2. 1 * gb = gb
    BY <1>1
  <2> QED BY <2>1, <2>2
<1>5. Gigabytes(S \cup {t}) = Gigabytes(S) \cup more
  BY DEF Gigabytes
<1>6. Gigabytes(S) \cap more = {}
  <2> SUFFICES ASSUME NEW u \in S, NEW x \in {u} \X (1 .. session[u].gb), x \in more PROVE FALSE
    BY DEF Gigabytes
  <2>1. x[1] = u /\ x[1] = t
    OBVIOUS
  <2> QED BY <2>1
<1>7. Cardinality({}) = 0
  BY FS_EmptySet
<1>8. Cardinality(Gigabytes(S)) \in Nat
  BY FS_CardinalityType
<1> HIDE DEF gb, more
<1>9. /\ IsFiniteSet(Gigabytes(S) \cup more)
      /\ Cardinality(Gigabytes(S) \cup more)
           = Cardinality(Gigabytes(S)) + Cardinality(more) - Cardinality(Gigabytes(S) \cap more)
  BY <1>4, FS_Union
<1>10. Cardinality(Gigabytes(S) \cup more) = Cardinality(Gigabytes(S)) + gb
  <2>1. Cardinality(Gigabytes(S) \cup more) = Cardinality(Gigabytes(S)) + gb - 0
    BY <1>4, <1>6, <1>7, <1>9
  <2>2. gb \in Nat
    BY <1>1 DEF gb
  <2> QED BY <1>8, <2>1, <2>2
<1> QED BY <1>5, <1>8, <1>9, <1>10 DEF Volume, gb

(* No renewal adds nothing. *)
LEMMA VolumeNone == IsFiniteSet(Gigabytes({})) /\ Volume({}) = 0
<1>1. Gigabytes({}) = {}
  BY DEF Gigabytes
<1> QED BY <1>1, FS_EmptySet DEF Volume

(* What there is a first limit for is such a sum, *)
LEMMA BaseIsSum ==
    ASSUME IInv, NEW base \in Bases, NEW without
    PROVE  base \in Sums(without)
<1>1. base \in Nat
  BY DEF IInv, TypeOK, Account, Session, Bases, Wrote
<1>2. {} \in Counted(without)
  BY VolumeNone DEF Counted
<1>3. base = base + Volume({})
  BY <1>1, VolumeNone
<1> QED BY <1>2, <1>3 DEF Sums

(* and an additive renewal makes one of a limit it had no part in.         *)
LEMMA SumAdd ==
    ASSUME IInv, NEW t \in Wrote("additive"), NEW v \in Sums({t})
    PROVE  v + session[t].gb \in Sums({})
<1>1. PICK base \in Bases, S \in Counted({t}) : v = base + Volume(S)
  BY DEF Sums
<1>2. t \in Tasks \ S /\ S \in SUBSET Tasks /\ IsFiniteSet(Gigabytes(S))
  BY DEF Counted, Wrote
<1>3. /\ IsFiniteSet(Gigabytes(S \cup {t})) /\ Volume(S \cup {t}) = Volume(S) + session[t].gb
      /\ Volume(S) \in Nat
  BY <1>2, VolumeAdd
<1>4. base \in Nat /\ session[t].gb \in Nat
  BY <1>2 DEF IInv, TypeOK, Account, Session, Bases, Wrote
<1>5. v + session[t].gb = base + Volume(S \cup {t})
  BY <1>1, <1>3, <1>4
<1>6. S \cup {t} \in Counted({})
  BY <1>3 DEF Counted
<1> QED BY <1>5, <1>6 DEF Sums

(* Steps after which every reading that was made is as it was. *)
ReadingsKept ==
    /\ opening' = opening
    /\ \A t \in Tasks : session[t].when # 0 =>
         /\ session'[t].when = session[t].when /\ session'[t].mode = session[t].mode
         /\ session'[t].gb = session[t].gb /\ session'[t].seen = session[t].seen

(* Then no sum is lost. *)
LEMMA SumsKept ==
    ASSUME ReadingsKept, NEW without
    PROVE  Sums(without) \subseteq Sums(without)'
<1>1. ASSUME NEW how PROVE Wrote(how) \subseteq Wrote(how)'
  BY DEF ReadingsKept, Wrote
<1>2. Bases \subseteq Bases'
  BY <1>1 DEF ReadingsKept, Bases, Wrote
<1>3. ASSUME NEW S \in Counted(without)
      PROVE  S \in Counted(without)' /\ Volume(S)' = Volume(S)
  <2>1. \A t \in S : session'[t].gb = session[t].gb
    BY DEF ReadingsKept, Counted, Wrote
  <2>2. Gigabytes(S)' = Gigabytes(S)
    BY <2>1 DEF Gigabytes
  <2> QED BY <1>1, <2>2 DEF Counted, Volume
<1> QED BY <1>2, <1>3 DEF Sums

(* A step that reads nothing, and leaves the limit as it was or makes it   *)
(* another sum.                                                            *)
LEMMA AddKept ==
    ASSUME AddInv, ReadingsKept, ReadInv', account'.limit \in Sums({}),
           \A t \in Tasks : session'[t].when # 0 => session[t].when # 0
    PROVE  AddInv'
<1>1. account'.limit \in Sums({})'
  BY SumsKept
<1>2. ASSUME NEW t \in Tasks, session'[t].when # 0 PROVE session'[t].seen.limit \in Sums({t})'
  <2>1. session[t].seen.limit \in Sums({t}) /\ session'[t].seen = session[t].seen
    BY <1>2 DEF AddInv, ReadingsKept
  <2> QED BY <2>1, SumsKept
<1> QED BY <1>1, <1>2 DEF AddInv

(* A session that only moves on keeps its reading, and where it has to be   *)
(* for it.                                                                 *)
LEMMA MoveReads ==
    ASSUME IInv, AddInv, NEW t \in Tasks, NEW steps, MovesTo(t, steps),
           steps \cap {"idle", "shown", "get"} # {} => session[t].when = 0,
           steps \cap {"reset", "put"} # {} => session[t].when # 0,
           UNCHANGED <<now, opening>>
    PROVE  /\ ReadingsKept /\ ReadInv'
           /\ \A u \in Tasks : session'[u].when # 0 => session[u].when # 0
<1>1. PICK at \in steps, tries \in Nat :
        session' = [session EXCEPT ![t].at = at, ![t].tries = tries]
  BY DEF MovesTo
<1>2. session \in [Tasks -> Session] /\ session[t] \in Session
  BY DEF IInv, TypeOK
<1>3. session'[t] = [session[t] EXCEPT !.at = at, !.tries = tries]
  BY <1>1, <1>2
<1>4. /\ session'[t].at = at /\ session'[t].when = session[t].when /\ session'[t].mode = session[t].mode
      /\ session'[t].gb = session[t].gb /\ session'[t].seen = session[t].seen
  BY <1>2, <1>3 DEF Session
<1>5. \A u \in Tasks \ {t} : session'[u] = session[u]
  BY <1>1, <1>2
<1>6. ReadingsKept
  BY <1>4, <1>5 DEF ReadingsKept
<1>7. ReadInv'
  BY <1>4, <1>5 DEF AddInv, ReadInv
<1> QED BY <1>4, <1>5, <1>6, <1>7

LEMMA AddInitial == Init => AddInv
<1> SUFFICES ASSUME Init PROVE AddInv OBVIOUS
<1>1. IInv
  BY InitInv
<1>2. account.limit = opening.limit /\ opening.limit \in Bases
  BY DEF Init, Bases
<1>3. account.limit \in Sums({})
  BY <1>1, <1>2, BaseIsSum
<1>4. \A t \in Tasks : session[t].at = "idle" /\ session[t].when = 0
  BY DEF Init
<1> QED BY <1>3, <1>4 DEF AddInv, ReadInv, Init

-------------------------------------------------------------------------------
(* The form and the button change only what is not read yet. *)
LEMMA AddForm ==
    ASSUME IInv, AddInv, NEW t \in Tasks,
           (\E gb \in Sizes, days \in Days \cup {0} : Show(t, gb, days)) \/ Confirm(t)
    PROVE  AddInv'
<1>1. session \in [Tasks -> Session] /\ session[t] \in Session
  BY DEF IInv, TypeOK
<1>2. session[t].when = 0
  BY DEF Show, Confirm, AddInv, ReadInv
<1>3. session'[t].at \in {"shown", "get"} /\ session'[t].when = session[t].when
  <2>1. ASSUME NEW gb \in Sizes, NEW days \in Days \cup {0}, Show(t, gb, days)
        PROVE  session'[t].at = "shown" /\ session'[t].when = session[t].when
    <3>1. session'[t] = [session[t] EXCEPT !.at = "shown", !.gb = gb, !.days = days]
      BY <1>1, <2>1 DEF Show
    <3> QED BY <1>1, <3>1 DEF Session
  <2>2. ASSUME Confirm(t)
        PROVE  session'[t].at = "get" /\ session'[t].when = session[t].when
    <3>1. session'[t] = [session[t] EXCEPT !.at = "get", !.mode = mode]
      BY <1>1, <2>2 DEF Confirm
    <3> QED BY <1>1, <3>1 DEF Session
  <2> QED BY <2>1, <2>2
<1>4. \A u \in Tasks \ {t} : session'[u] = session[u]
  BY <1>1 DEF Show, Confirm
<1>5. UNCHANGED <<now, account, opening>>
  BY DEF Show, Confirm
<1>6. ReadingsKept
  BY <1>2, <1>4, <1>5 DEF ReadingsKept
<1>7. ReadInv'
  BY <1>2, <1>3, <1>4, <1>5 DEF AddInv, ReadInv
<1> QED BY <1>2, <1>3, <1>4, <1>5, <1>6, <1>7, AddKept DEF AddInv

(* What is read is a sum in which the reader has no part. *)
LEMMA AddGet == ASSUME IInv, AddInv, NEW t \in Tasks, Get(t) PROVE AddInv'
<1> DEFINE step == IF session[t].mode = "replace" THEN "reset" ELSE "put"
<1>1. session \in [Tasks -> Session] /\ session[t] \in Session /\ now \in Nat
  BY DEF IInv, TypeOK
<1>2. session[t].when = 0 /\ now >= 1
  BY DEF Get, AddInv, ReadInv
<1>3. session'[t] = [session[t] EXCEPT !.at = step, !.seen = account, !.when = now, !.tries = 0]
  BY <1>1 DEF Get
<1>4. session'[t].at \in {"reset", "put"} /\ session'[t].seen = account /\ session'[t].when = now
  BY <1>1, <1>3 DEF Session
<1>5. \A u \in Tasks \ {t} : session'[u] = session[u]
  BY <1>1 DEF Get
<1>6. UNCHANGED <<now, account, opening>>
  BY DEF Get
<1>7. ReadingsKept
  BY <1>2, <1>5, <1>6 DEF ReadingsKept
<1>8. ReadInv'
  BY <1>1, <1>2, <1>4, <1>5, <1>6 DEF AddInv, ReadInv
<1>9. Sums({}) \subseteq Sums({t})
  <2>1. t \notin Wrote("additive")
    BY <1>2 DEF Wrote
  <2> QED BY <2>1 DEF Sums, Counted
<1>10. account'.limit \in Sums({})'
  BY <1>6, <1>7, SumsKept DEF AddInv
<1>11. ASSUME NEW u \in Tasks, session'[u].when # 0 PROVE session'[u].seen.limit \in Sums({u})'
  <2>1. CASE u = t
    <3>1. session'[u].seen.limit \in Sums({t})
      BY <1>4, <1>9, <2>1 DEF AddInv
    <3> QED BY <1>7, <2>1, <3>1, SumsKept
  <2>2. CASE u # t
    <3>1. session'[u].seen.limit \in Sums({u})
      BY <1>5, <1>11, <2>2 DEF AddInv
    <3> QED BY <1>7, <3>1, SumsKept
  <2> QED BY <2>1, <2>2
<1> QED BY <1>8, <1>10, <1>11 DEF AddInv

(* What is put is another sum, the same at every attempt. *)
LEMMA AddPut == ASSUME IInv, AddInv, NEW t \in Tasks, Put(t) PROVE AddInv'
<1>1. session[t] \in Session /\ session[t].when # 0 /\ UNCHANGED <<now, opening>>
  BY DEF IInv, TypeOK, AddInv, ReadInv, Put
<1>2. account' = [account EXCEPT !.limit = Result(session[t]).limit, !.expire = Result(session[t]).expire]
      /\ account \in Account
  BY DEF Put, IInv, TypeOK
<1>3. account'.limit = Result(session[t]).limit
  BY <1>2 DEF Account
<1>4. account'.limit \in Sums({})
  <2>1. CASE session[t].mode = "replace"
    <3>1. account'.limit = session[t].gb
      BY <1>3, <2>1 DEF Result, Renewed
    <3>2. session[t].gb \in Bases
      BY <1>1, <2>1 DEF Bases, Wrote
    <3> QED BY <3>1, <3>2, BaseIsSum
  <2>2. CASE session[t].mode = "additive"
    <3>1. account'.limit = session[t].seen.limit + session[t].gb
      BY <1>3, <2>2 DEF Result, Renewed
    <3>2. t \in Wrote("additive") /\ session[t].seen.limit \in Sums({t})
      BY <1>1, <2>2 DEF AddInv, Wrote
    <3> QED BY <3>1, <3>2, SumAdd
  <2> QED BY <1>1, <2>1, <2>2 DEF Session, Modes
<1>5. PICK steps \in SUBSET MayHavePut : MovesTo(t, steps)
  BY PutMoves
<1>6. steps \cap {"idle", "shown", "get"} = {}
  BY DEF MayHavePut
<1> QED BY <1>1, <1>4, <1>5, <1>6, MoveReads, AddKept

(* The other steps of a renewal leave the limit alone. *)
LEMMA AddMove ==
    ASSUME IInv, AddInv, NEW t \in Tasks, Reset(t) \/ CallFails(t) \/ Charge(t) \/ Die(t)
    PROVE  AddInv'
<1>1. account'.limit = account.limit /\ UNCHANGED <<now, opening>>
  BY DEF Reset, CallFails, Charge, Die, IInv, TypeOK, Account
<1>2. \E steps : /\ MovesTo(t, steps)
                 /\ steps \cap {"idle", "shown", "get"} # {} => session[t].when = 0
                 /\ steps \cap {"reset", "put"} # {} => session[t].when # 0
  <2>1. CASE Reset(t)
    <3>1. session[t].at = "reset" /\ session[t].when # 0
      BY <2>1 DEF Reset, AddInv, ReadInv
    <3>2. MovesTo(t, {"put"}) \/ MovesTo(t, {"reset", "failed", "died"})
      BY <2>1, <3>1, GotoMoves, UnansweredMoves DEF Reset
    <3> QED BY <3>1, <3>2
  <2>2. CASE CallFails(t)
    <3>1. MovesTo(t, {session[t].at, "failed", "died"}) /\ session[t].at \in {"get", "reset", "put"}
      BY <2>2, UnansweredMoves DEF CallFails
    <3>2. /\ session[t].at = "get" => session[t].when = 0
          /\ session[t].at \in {"reset", "put"} => session[t].when # 0
      BY DEF AddInv, ReadInv
    <3> QED BY <3>1, <3>2
  <2>3. CASE Charge(t) \/ Die(t)
    <3>1. MovesTo(t, {"done"}) \/ MovesTo(t, {"died"})
      BY <2>3, GotoMoves DEF Charge, Die
    <3> QED BY <3>1
  <2> QED BY <2>1, <2>2, <2>3
<1> QED BY <1>1, <1>2, MoveReads, AddKept DEF AddInv

(* Neither do the mode, the customer and the clock touch it. *)
LEMMA AddOthers ==
    ASSUME IInv, AddInv, (\E m \in Modes : SetMode(m)) \/ Consume \/ Tick \/ UNCHANGED vars
    PROVE  AddInv'
<1>1. UNCHANGED <<session, opening>> /\ account'.limit = account.limit
  BY DEF SetMode, Consume, Tick, vars, IInv, TypeOK, Account
<1>2. now \in Nat /\ (now' = now \/ now' = now + 1)
  BY DEF SetMode, Consume, Tick, vars, IInv, TypeOK
<1>3. ReadingsKept
  BY <1>1 DEF ReadingsKept
<1>4. ReadInv'
  BY <1>1, <1>2 DEF AddInv, ReadInv
<1> QED BY <1>1, <1>3, <1>4, AddKept DEF AddInv

(* However the renewals overlapped and however often their calls were      *)
(* repeated, the volume of the account is a first one or that of a         *)
(* replacement with those of some additive renewals, each added once.      *)
THEOREM AddedOnce == Spec => []AddedAtMostOnce
<1>1. IInv /\ AddInv /\ [Next]_vars => AddInv'
  <2> SUFFICES ASSUME IInv, AddInv, [Next]_vars PROVE AddInv' OBVIOUS
  <2>1. ASSUME NEW t \in Tasks,
               (\E gb \in Sizes, days \in Days \cup {0} : Show(t, gb, days)) \/ Confirm(t) \/ Step(t)
        PROVE  AddInv'
    BY <2>1, AddForm, AddGet, AddPut, AddMove DEF Step
  <2> QED BY <2>1, AddOthers DEF Next
<1>2. AddInv => AddedAtMostOnce
  BY DEF AddInv, Sums, Counted, Bases, AddedAtMostOnce
<1> QED BY <1>1, <1>2, AddInitial, Invariance, PTL DEF Spec
-------------------------------------------------------------------------------
(* Of RenewalEnds, what does not need fairness: nothing goes on for ever.   *)
(* What is left of a renewal is counted in attempts.                       *)
StepsLeft == [idle |-> 6, shown |-> 5, get |-> 4, reset |-> 3, put |-> 2, charge |-> 1,
              done |-> 0, failed |-> 0, died |-> 0]
Left(s) == StepsLeft[s.at] * Attempts - s.tries

Calls == {"get", "reset", "put"}
(* The attempts are those of the call under way, and not yet used up. *)
TriesInv ==
    \A t \in Tasks :
        IF session[t].at \in Calls THEN session[t].tries < Attempts ELSE session[t].tries = 0

(* Every step of a renewal brings its end nearer, and no other step puts it *)
(* off: after 6 * Attempts steps it has ended.                             *)
Advances ==
    [][\A t \in Tasks :
         /\ Left(session[t])' \in Nat
         /\ session'[t] # session[t] => Left(session[t])' < Left(session[t])
         /\ Step(t) => session'[t] # session[t]]_vars

(* A session in order is counted by a number, *)
LEMMA LeftType ==
    ASSUME NEW s \in Session,
           IF s.at \in Calls THEN s.tries < Attempts ELSE s.tries = 0
    PROVE  Left(s) \in Nat
<1>1. s.tries \in Nat /\ Attempts \in Nat \ {0}
  BY DEF Session, RenewalAssumption
<1>2. CASE s.at = "idle" BY <1>1, <1>2 DEF Left, StepsLeft, Calls
<1>3. CASE s.at = "shown" BY <1>1, <1>3 DEF Left, StepsLeft, Calls
<1>4. CASE s.at = "get" BY <1>1, <1>4 DEF Left, StepsLeft, Calls
<1>5. CASE s.at = "reset" BY <1>1, <1>5 DEF Left, StepsLeft, Calls
<1>6. CASE s.at = "put" BY <1>1, <1>6 DEF Left, StepsLeft, Calls
<1>7. CASE s.at = "charge" BY <1>1, <1>7 DEF Left, StepsLeft, Calls
<1>8. CASE s.at \in Ended BY <1>1, <1>8 DEF Left, StepsLeft, Calls, Ended
<1> QED BY <1>2, <1>3, <1>4, <1>5, <1>6, <1>7, <1>8 DEF Session, Working
(* A step of a renewal goes to a later place, or tries its call again.     *)
Onward(s, r) ==
    \/ StepsLeft[r.at] < StepsLeft[s.at] /\ r.tries = 0
    \/ r.at = s.at /\ s.at \in Calls /\ r.tries = s.tries + 1 /\ r.tries < Attempts

(* and either way less is left. *)
LEMMA OnwardLess ==
    ASSUME NEW s \in Session, NEW r \in Session, Onward(s, r),
           IF s.at \in Calls THEN s.tries < Attempts ELSE s.tries = 0
    PROVE  /\ IF r.at \in Calls THEN r.tries < Attempts ELSE r.tries = 0
           /\ Left(r) < Left(s)
<1>1. s.tries \in Nat /\ s.tries < Attempts /\ Attempts \in Nat \ {0}
  BY DEF Session, RenewalAssumption
<1>2. CASE r.at = s.at /\ s.at \in Calls /\ r.tries = s.tries + 1 /\ r.tries < Attempts
  <2>1. StepsLeft[s.at] \in Nat
    BY <1>2 DEF StepsLeft, Calls
  <2>2. StepsLeft[s.at] * Attempts \in Nat
    BY <1>1, <2>1
  <2> HIDE DEF StepsLeft
  <2> QED BY <1>1, <1>2, <2>2 DEF Left
<1>3. CASE StepsLeft[r.at] < StepsLeft[s.at] /\ r.tries = 0
  <2>1. StepsLeft[r.at] \in 0..6 /\ StepsLeft[s.at] \in 0..6
    BY DEF StepsLeft, Session, Working, Ended
  <2>2. StepsLeft[r.at] * Attempts + Attempts <= StepsLeft[s.at] * Attempts
    <3>1. \A a \in 0..6, b \in 0..6 : a < b => a * Attempts + Attempts <= b * Attempts
      <4> TAKE a \in 0..6, b \in 0..6
      <4>1. a * Attempts + Attempts = (a + 1) * Attempts
        BY <1>1
      <4>2. ASSUME a < b PROVE (a + 1) * Attempts <= b * Attempts
        BY <1>1, <4>2
      <4> QED BY <4>1, <4>2
    <3> QED BY <1>3, <2>1, <3>1
  <2>3. StepsLeft[r.at] * Attempts \in Nat /\ StepsLeft[s.at] * Attempts \in Nat
    BY <1>1, <2>1
  <2> QED BY <1>1, <1>3, <2>2, <2>3 DEF Left
<1> QED BY <1>2, <1>3 DEF Onward

LEMMA GoesOnward ==
    ASSUME IInv, TriesInv, NEW t \in Tasks, Step(t)
    PROVE  Onward(session[t], session'[t])
<1>1. session \in [Tasks -> Session] /\ session[t] \in Session
  BY DEF IInv, TypeOK
<1>2. ASSUME NEW step \in DOMAIN StepsLeft, Goto(t, step), StepsLeft[step] < StepsLeft[session[t].at]
      PROVE  Onward(session[t], session'[t])
  <2>1. session'[t].at = step /\ session'[t].tries = 0
    BY <1>1, <1>2 DEF Goto, Session
  <2> QED BY <1>2, <2>1 DEF Onward
<1>3. ASSUME session[t].at \in Calls, Unanswered(t)
      PROVE  Onward(session[t], session'[t])
  <2>1. CASE Retry(t)
    <3>1. session'[t] = [session[t] EXCEPT !.tries = session[t].tries + 1]
      BY <1>1, <2>1 DEF Retry
    <3> QED BY <1>1, <1>3, <2>1, <3>1 DEF Retry, Onward, Session
  <2>2. CASE Goto(t, AfterError)
    BY <1>2, <1>3, <2>2 DEF AfterError, StepsLeft, Calls
  <2>3. CASE Goto(t, "died")
    BY <1>2, <1>3, <2>3 DEF StepsLeft, Calls
  <2> QED BY <1>3, <2>1, <2>2, <2>3 DEF Unanswered
<1>4. CASE Get(t)
  <2>1. /\ session[t].at = "get" /\ session'[t].at \in {"reset", "put"}
        /\ session'[t].tries = 0
    BY <1>1, <1>4 DEF Get, Session
  <2> QED BY <2>1 DEF Onward, StepsLeft
<1>5. CASE Reset(t)
  BY <1>2, <1>3, <1>5 DEF Reset, Calls, StepsLeft
<1>6. CASE Put(t)
  <2>1. session[t].at = "put"
    BY <1>6 DEF Put
  <2>2. CASE Goto(t, AfterPut(t))
    BY <1>2, <2>1, <2>2 DEF AfterPut, StepsLeft
  <2> QED BY <1>3, <1>6, <2>1, <2>2 DEF Put, Calls
<1>7. CASE CallFails(t)
  BY <1>3, <1>7 DEF CallFails, Calls
<1>8. CASE Charge(t)
  BY <1>2, <1>8 DEF Charge, StepsLeft
<1>9. CASE Die(t)
  BY <1>2, <1>9 DEF Die, Working, StepsLeft
<1> QED BY <1>4, <1>5, <1>6, <1>7, <1>8, <1>9 DEF Step

(* Nobody moves the session of another. *)
LEMMA OthersStay ==
    ASSUME IInv, NEW t \in Tasks, NEW other \in Tasks \ {t}, Step(other)
    PROVE  session'[t] = session[t]
BY DEF IInv, TypeOK, Step, Get, Reset, Put, CallFails, Charge, Die, Unanswered, Retry, Goto

LEMMA NextAdvances ==
    ASSUME IInv, IInv', TriesInv, [Next]_vars, NEW t \in Tasks
    PROVE  /\ IF session'[t].at \in Calls THEN session'[t].tries < Attempts
              ELSE session'[t].tries = 0
           /\ session'[t] # session[t] => Left(session'[t]) < Left(session[t])
           /\ Step(t) => session'[t] # session[t]
<1>1. /\ session \in [Tasks -> Session] /\ session[t] \in Session /\ session'[t] \in Session
      /\ IF session[t].at \in Calls THEN session[t].tries < Attempts ELSE session[t].tries = 0
  BY DEF IInv, TypeOK, TriesInv
<1>2. Onward(session[t], session'[t]) =>
         /\ IF session'[t].at \in Calls THEN session'[t].tries < Attempts
            ELSE session'[t].tries = 0
         /\ Left(session'[t]) < Left(session[t])
  BY <1>1, OnwardLess
<1>3. Left(session[t]) \in Nat
  BY <1>1, LeftType
<1>4. Onward(session[t], session'[t]) => session'[t] # session[t]
  BY <1>2, <1>3
<1>5. ASSUME Step(t) PROVE Onward(session[t], session'[t])
  BY <1>5, GoesOnward
<1>6. session'[t] = session[t] \/ Onward(session[t], session'[t])
  <2>1. ASSUME NEW other \in Tasks, Step(other)
        PROVE  session'[t] = session[t] \/ Onward(session[t], session'[t])
    BY <1>5, <2>1, OthersStay
  <2>2. ASSUME NEW other \in Tasks, NEW gb \in Sizes, NEW days \in Days \cup {0},
               Show(other, gb, days)
        PROVE  session'[t] = session[t] \/ Onward(session[t], session'[t])
    <3>1. CASE other = t
      <4>1. /\ session[t].at = "idle" /\ session'[t].at = "shown"
            /\ session'[t].tries = session[t].tries /\ session[t].tries = 0
        BY <1>1, <2>2, <3>1 DEF Show, Session, Calls
      <4> QED BY <4>1 DEF Onward, StepsLeft
    <3>2. CASE other # t
      BY <1>1, <2>2, <3>2 DEF Show
    <3> QED BY <3>1, <3>2
  <2>3. ASSUME NEW other \in Tasks, Confirm(other)
        PROVE  session'[t] = session[t] \/ Onward(session[t], session'[t])
    <3>1. CASE other = t
      <4>1. /\ session[t].at = "shown" /\ session'[t].at = "get"
            /\ session'[t].tries = session[t].tries /\ session[t].tries = 0
        BY <1>1, <2>3, <3>1 DEF Confirm, Session, Calls
      <4> QED BY <4>1 DEF Onward, StepsLeft
    <3>2. CASE other # t
      BY <1>1, <2>3, <3>2 DEF Confirm
    <3> QED BY <3>1, <3>2
  <2>4. CASE UNCHANGED session
    BY <2>4
  <2> QED BY <2>1, <2>2, <2>3, <2>4 DEF Next, SetMode, Consume, Tick, vars
<1> QED BY <1>1, <1>2, <1>3, <1>4, <1>5, <1>6

(* services/marzban.py:28: a renewal cannot go on for ever, however the     *)
(* panel answers and whatever the others do.                               *)
THEOREM RenewalAdvances == Spec => Advances
<1>1. Init => TriesInv
  BY DEF Init, TriesInv, Calls
<1>2. IInv /\ IInv' /\ TriesInv /\ [Next]_vars => TriesInv'
  BY NextAdvances DEF TriesInv
<1>3. IInv /\ IInv' /\ TriesInv /\ TriesInv' /\ [Next]_vars =>
        [\A t \in Tasks :
           /\ Left(session[t])' \in Nat
           /\ session'[t] # session[t] => Left(session[t])' < Left(session[t])
           /\ Step(t) => session'[t] # session[t]]_vars
  <2> SUFFICES ASSUME IInv, IInv', TriesInv, TriesInv', [Next]_vars, NEW t \in Tasks
               PROVE  /\ Left(session[t])' \in Nat
                      /\ session'[t] # session[t] => Left(session[t])' < Left(session[t])
                      /\ Step(t) => session'[t] # session[t]
    OBVIOUS
  <2>1. session'[t] \in Session
    BY DEF IInv, TypeOK
  <2>2. IF session'[t].at \in Calls THEN session'[t].tries < Attempts ELSE session'[t].tries = 0
    BY DEF TriesInv
  <2>3. Left(session'[t]) \in Nat
    BY <2>1, <2>2, LeftType
  <2> QED BY <2>3, NextAdvances
<1> QED BY <1>1, <1>2, <1>3, Invariance, PTL DEF Spec, Advances
===============================================================================
