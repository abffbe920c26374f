-------------------------- MODULE ProvisioningProofs --------------------------
(***************************************************************************)
(* Theorems about Provisioning, for any resellers, names, usernames and    *)
(* handlers and any bounds.                                                *)
(*                                                                         *)
(* Five invariants.  IInv holds always: a session that holds an account    *)
(* holds one with its reseller's name in the note, made after it looked,   *)
(* and the number of an account tells its username.  OnceInv holds until a *)
(* reseller is deleted for good: what was charged has a row.  KeptInv      *)
(* holds until an account is deleted: what a session or a sync has seen of *)
(* a username is true of it.  RowInv rests on it and holds until two       *)
(* resellers have had one name as well: the row names who paid.  PaidInv   *)
(* holds until an account or a reseller is deleted or a sync runs: a row   *)
(* was written by a handler that charged.                                  *)
(***************************************************************************)
EXTENDS Provisioning, TLAPS

Looked == {"post", "verify", "fallback"}
Sure == {"lookup", "commit", "deliver", "delivered"}
Holding == {"verify", "reverify"} \cup Sure
Paid == {"deliver", "delivered", "died"}

(* A reseller has had the name it has. *)
NameInv == \A r \in live : name[r] \in Names /\ r \in called[name[r]]

(* Account numbers go up, no two usernames share one, and there is no note *)
(* without an account.                                                     *)
PanelInv ==
    /\ \A u \in Usernames : panel[u] <= made /\ (panel[u] = 0 => owner[u] = NoOne)
    /\ \A u, v \in Usernames : panel[u] # 0 /\ panel[u] = panel[v] => u = v

(* Whom a session is for, from its start until it forgets. *)
Known(s) == /\ s.reseller \in Resellers /\ s.user \in Usernames
            /\ s.name \in Names /\ s.reseller \in called[s.name]

(* What a session may rely on, whatever others do. *)
SessionOk(s) ==
    /\ s.at = "idle" => s.account = 0
    /\ s.at \in Working \cup {"delivered"} \/ s.account # 0 => Known(s)
    /\ s.before <= made /\ s.account <= made
    /\ s.at \in Looked => panel[s.user] = 0 \/ panel[s.user] > s.before
    /\ s.at \in {"verify", "reverify"} => s.account > s.before
    /\ s.at \in Sure => s.new
    /\ s.at \in Holding => s.account # 0 /\ s.note = s.name
    /\ s.account # 0 =>
         \A u \in Usernames : panel[u] = s.account => u = s.user /\ owner[u] = s.note

SessionInv == \A t \in Tasks : SessionOk(session[t])

SameName ==
    \A t1, t2 \in Tasks :
        session[t1].account # 0 /\ session[t1].account = session[t2].account
            => session[t1].user = session[t2].user

ChargedInv ==
    \A t \in charged :
        LET s == session[t] IN s.at \in Paid /\ s.account # 0 /\ s.new /\ s.note = s.name

IInv == TypeOK /\ NameInv /\ PanelInv /\ SessionInv /\ SameName /\ ChargedInv

OnePayer == \A t1, t2 \in charged : session[t1].user = session[t2].user => t1 = t2

(* Until a reseller is deleted for good, a charge leaves a row of its      *)
(* username, which keeps a second one away.                                *)
OnceInv ==
    purged = {} => OnePayer /\ \A t \in charged : recorded[session[t].user] # NoOne

(* Until an account is deleted, what was seen of a username is true of it. *)
SeenBySession ==
    \A t \in Tasks : session[t].account # 0 => panel[session[t].user] = session[t].account
SeenBySync ==
    \A u \in Usernames :
        /\ sync.list[u] # NoOne => panel[u] # 0 /\ owner[u] = sync.list[u]
        /\ sync.found[u] # NoOne =>
             panel[u] # 0 /\ owner[u] \in Names /\ sync.found[u] \in called[owner[u]]
KeptInv == NoneDeleted => SeenBySession /\ SeenBySync

(* And while a name is that of one reseller: the row names who paid. *)
RowInv ==
    NoneDeleted /\ NamesTell =>
        OnePayer /\ \A t \in charged : recorded[session[t].user] = session[t].reseller

(* And no reseller was deleted and no sync ran: charges write the rows. *)
PaidInv ==
    NoneDeleted /\ purged = {} /\ sync.runs = 0 =>
        /\ sync.at = "idle"
        /\ \A u \in Usernames :
             recorded[u] # NoOne => \E payer \in charged : session[payer].user = u
        /\ \A t \in Tasks :
             session[t].at \in {"deliver", "delivered"} =>
                 \E payer \in charged : session[payer].account = session[t].account

-------------------------------------------------------------------------------
LEMMA InitInv == Init => IInv
<1> SUFFICES ASSUME Init PROVE IInv
  OBVIOUS
<1>1. Blank \in Session
  BY ProvisioningAssumption DEF Blank, Session, Owners
<1>2. TypeOK
  BY <1>1, ProvisioningAssumption DEF Init, TypeOK, SyncState, Nobody, Owners
<1>3. NameInv
  BY ProvisioningAssumption DEF Init, NameInv
<1>4. SessionInv
  BY ProvisioningAssumption
  DEF Init, Blank, SessionInv, SessionOk, Looked, Holding, Sure, Working
<1> QED
  BY <1>2, <1>3, <1>4 DEF Init, IInv, PanelInv, SameName, ChargedInv, Blank, Nobody

(* A handler that only moves on, to session s, keeps the invariant if s is *)
(* a session the invariant allows.                                         *)
LEMMA Moves ==
    ASSUME IInv, NEW t \in Tasks, NEW s \in Session,
           session' = [session EXCEPT ![t] = s],
           UNCHANGED <<resellers, accounts, recorded, charged, sync>>,
           SessionOk(s),
           \A other \in Tasks :
               s.account # 0 /\ session[other].account = s.account
                   => session[other].user = s.user,
           t \in charged => /\ s.at \in Paid /\ s.account = session[t].account
                            /\ s.new = session[t].new
                            /\ s.note = session[t].note /\ s.name = session[t].name
    PROVE  IInv'
<1> USE DEF resellers, accounts
<1>1. TypeOK'
  BY DEF IInv, TypeOK
<1>2. PanelInv' /\ NameInv'
  BY DEF IInv, PanelInv, NameInv
<1>3. SessionInv'
  BY DEF IInv, TypeOK, SessionInv, SessionOk, Known
<1>4. SameName'
  BY DEF IInv, TypeOK, SameName
<1>5. ChargedInv'
  BY DEF IInv, TypeOK, ChargedInv
<1> QED BY <1>1, <1>2, <1>3, <1>4, <1>5 DEF IInv

(* What becomes of a session that goes to another place. *)
LEMMA Forgets ==
    ASSUME NEW s \in Session
    PROVE  LET m == Moved(s, "failed") IN
           m \in Session /\ m.at = "failed" /\ m.account = 0 /\ m.before = 0
<1>1. Moved(s, "failed") = [Blank EXCEPT !.at = "failed"]
  BY DEF Moved
<1>2. 0 \in 0..MaxAccounts
  BY ProvisioningAssumption
<1> QED
  BY <1>1, <1>2 DEF Blank, Session, Owners, Ended

LEMMA FallsBack ==
    ASSUME NEW s \in Session
    PROVE  LET m == Moved(s, "fallback") IN
           /\ m \in Session /\ m.at = "fallback" /\ m.account = 0
           /\ m.reseller = s.reseller /\ m.name = s.name /\ m.user = s.user
           /\ m.before = s.before
<1>1. Moved(s, "fallback") = [s EXCEPT !.at = "fallback", !.account = 0, !.note = NoOne]
  BY DEF Moved
<1>2. 0 \in 0..MaxAccounts
  BY ProvisioningAssumption
<1> QED
  BY <1>1, <1>2 DEF Session, Owners, Working

LEMMA GoesOn ==
    ASSUME NEW s \in Session, NEW step \in (Working \cup Ended) \ {"failed", "fallback"}
    PROVE  LET m == Moved(s, step) IN
           /\ m \in Session /\ m.at = step /\ m.account = s.account
           /\ m.reseller = s.reseller /\ m.name = s.name /\ m.user = s.user
           /\ m.note = s.note /\ m.before = s.before /\ m.new = s.new
<1>1. Moved(s, step) = [s EXCEPT !.at = step]
  BY DEF Moved
<1> QED
  BY <1>1 DEF Session

(* The same when all that changes is the place at which the handler is. *)
LEMMA GoesTo ==
    ASSUME IInv, NEW t \in Tasks, NEW step \in Working \cup Ended, Goto(t, step),
           UNCHANGED <<resellers, accounts, recorded, charged, sync>>,
           session[t].at \in Working \cup {"delivered"},
           step \notin {"verify", "reverify"},
           step \in Looked => session[t].at \in Looked,
           step \in Sure => session[t].at \in Sure,
           t \in charged => session[t].at = "deliver" /\ step \in {"delivered", "died"}
    PROVE  IInv'
<1> DEFINE s == Moved(session[t], step)
<1>1. session[t] \in Session /\ SessionOk(session[t])
  BY DEF IInv, TypeOK, SessionInv
<1>2. session' = [session EXCEPT ![t] = s]
  BY DEF Goto
<1>3. CASE step = "failed"
  <2>1. s \in Session /\ s.at = "failed" /\ s.account = 0 /\ s.before = 0
    BY <1>1, <1>3, Forgets
  <2>2. SessionOk(s)
    BY <2>1 DEF SessionOk, Looked, Holding, Sure, Working, IInv, TypeOK
  <2> QED
    BY <1>2, <1>3, <2>1, <2>2, Moves
<1>4. CASE step = "fallback"
  <2>1. /\ s \in Session /\ s.at = "fallback" /\ s.account = 0
        /\ s.reseller = session[t].reseller /\ s.name = session[t].name
        /\ s.user = session[t].user /\ s.before = session[t].before
    BY <1>1, <1>4, FallsBack
  <2>2. SessionOk(s)
    BY <1>1, <1>4, <2>1 DEF SessionOk, Known, Looked, Holding, Sure, Working, IInv, TypeOK
  <2> QED
    BY <1>2, <1>4, <2>1, <2>2, Moves
<1>5. CASE step \notin {"failed", "fallback"}
  <2>1. /\ s \in Session /\ s.at = step /\ s.account = session[t].account
        /\ s.reseller = session[t].reseller /\ s.name = session[t].name
        /\ s.user = session[t].user /\ s.note = session[t].note
        /\ s.before = session[t].before /\ s.new = session[t].new
    BY <1>1, <1>5, GoesOn
  <2>2. SessionOk(s)
    BY <1>1, <1>5, <2>1 DEF SessionOk, Known, Looked, Holding, Sure, Working, Ended
  <2>3. \A other \in Tasks :
          s.account # 0 /\ session[other].account = s.account => session[other].user = s.user
    BY <2>1 DEF IInv, SameName
  <2> QED
    BY <1>2, <1>5, <2>1, <2>2, <2>3, Moves DEF Paid
<1> QED BY <1>3, <1>4, <1>5

LEMMA BeginStep ==
    ASSUME IInv, NEW t \in Tasks, NEW r \in Resellers, NEW u \in Usernames, Begin(t, r, u)
    PROVE  IInv'
<1> DEFINE s == [session[t] EXCEPT !.at = "precheck", !.reseller = r, !.name = name[r], !.user = u]
<1>1. session[t] \in Session /\ SessionOk(session[t]) /\ session[t].at = "idle"
  BY DEF IInv, TypeOK, SessionInv, Begin
<1>2. name[r] \in Names /\ r \in called[name[r]]
  BY DEF Begin, IInv, NameInv
<1>3. /\ s \in Session /\ s.account = 0 /\ s.before = session[t].before
      /\ s.at = "precheck" /\ s.reseller = r /\ s.name = name[r] /\ s.user = u
  BY <1>1, <1>2 DEF Session, SessionOk, Working
<1>4. session' = [session EXCEPT ![t] = s]
  BY DEF Begin
<1>5. SessionOk(s)
  BY <1>1, <1>2, <1>3 DEF SessionOk, Known, Looked, Holding, Sure, Working
<1>6. t \notin charged
  BY <1>1 DEF IInv, ChargedInv, Paid
<1> QED
  BY <1>3, <1>4, <1>5, <1>6, Moves DEF Begin

(* The looks at the panel that read something into the session. *)
LEMMA PrecheckStep ==
    ASSUME IInv, NEW t \in Tasks, Precheck(t)
    PROVE  IInv'
<1>1. session[t] \in Session /\ SessionOk(session[t]) /\ session[t].at = "precheck"
  BY DEF IInv, TypeOK, SessionInv, Precheck
<1>2. t \notin charged
  BY <1>1 DEF IInv, ChargedInv, Paid
<1>3. CASE panel[session[t].user] = 0
  <2> DEFINE s == [session[t] EXCEPT !.at = "post", !.before = made]
  <2>1. session' = [session EXCEPT ![t] = s]
    BY <1>3 DEF Precheck
  <2>2. s \in Session
    BY <1>1 DEF Session, Working, IInv, TypeOK
  <2>3. SessionOk(s)
    <3>1. /\ s.at = "post" /\ s.before = made /\ s.account = session[t].account
          /\ s.reseller = session[t].reseller /\ s.name = session[t].name
          /\ s.user = session[t].user /\ s.note = session[t].note
      BY <1>1 DEF Session
    <3> QED
      BY <1>1, <1>3, <3>1 DEF SessionOk, Known, Looked, Holding, Sure, Working, IInv, TypeOK
  <2>4. \A other \in Tasks :
          s.account # 0 /\ session[other].account = s.account => session[other].user = s.user
    BY <1>1 DEF IInv, SameName, Session
  <2> QED
    BY <1>2, <2>1, <2>2, <2>3, <2>4, Moves DEF Precheck
<1>4. CASE panel[session[t].user] # 0
  <2>1. Goto(t, "failed")
    BY <1>4 DEF Precheck
  <2> QED
    BY <1>1, <1>2, <2>1, GoesTo DEF Precheck, Looked, Sure, Working, Ended
<1> QED BY <1>3, <1>4

LEMMA FallbackStep ==
    ASSUME IInv, NEW t \in Tasks, Fallback(t)
    PROVE  IInv'
<1> DEFINE u == session[t].user
           s == [session[t] EXCEPT !.at = "reverify", !.account = panel[u], !.note = owner[u]]
<1>1. session[t] \in Session /\ SessionOk(session[t]) /\ session[t].at = "fallback"
  BY DEF IInv, TypeOK, SessionInv, Fallback
<1>2. t \notin charged
  BY <1>1 DEF IInv, ChargedInv, Paid
<1>3. CASE Ours(session[t]) /\ session' = [session EXCEPT ![t] = s]
  <2>1. Known(session[t]) /\ u \in Usernames /\ panel[u] # 0 /\ owner[u] = session[t].name
    BY <1>1, <1>3 DEF SessionOk, Known, Ours, Working
  <2>2. panel[u] \in 0..MaxAccounts /\ owner[u] \in Owners
    BY <2>1 DEF IInv, TypeOK
  <2>3. /\ s \in Session /\ s.at = "reverify" /\ s.account = panel[u] /\ s.note = owner[u]
        /\ s.reseller = session[t].reseller /\ s.name = session[t].name
        /\ s.user = u /\ s.before = session[t].before
    BY <1>1, <2>2 DEF Session, Working
  <2>4. panel[u] > session[t].before /\ panel[u] <= made
    BY <1>1, <2>1 DEF SessionOk, Looked, IInv, PanelInv
  <2>5. SessionOk(s)
    BY <1>1, <2>1, <2>3, <2>4
    DEF SessionOk, Known, Looked, Holding, Sure, Working, IInv, PanelInv
  <2>6. \A other \in Tasks :
          s.account # 0 /\ session[other].account = s.account => session[other].user = s.user
    BY <1>1, <2>1 DEF IInv, SessionInv, SessionOk, Session
  <2> QED
    BY <1>2, <1>3, <2>3, <2>5, <2>6, Moves DEF Fallback
<1>4. CASE Goto(t, "failed")
  BY <1>1, <1>2, <1>4, GoesTo DEF Fallback, Looked, Sure, Working, Ended
<1> QED BY <1>3, <1>4 DEF Fallback

LEMMA VerifyStep ==
    ASSUME IInv, NEW t \in Tasks, Verify(t)
    PROVE  IInv'
<1> DEFINE isNew == session[t].account > session[t].before
           s == [session[t] EXCEPT !.at = "lookup", !.before = 0, !.new = isNew]
<1>1. /\ session[t] \in Session /\ SessionOk(session[t])
      /\ session[t].at \in {"verify", "reverify"}
  BY DEF IInv, TypeOK, SessionInv, Verify
<1>2. t \notin charged
  BY <1>1 DEF IInv, ChargedInv, Paid
<1>3. session' = [session EXCEPT ![t] = s]
  BY DEF Verify
<1>4. isNew = TRUE /\ Known(session[t]) /\ session[t].note = session[t].name
  BY <1>1 DEF SessionOk, Holding, Working
<1>5. s = [session[t] EXCEPT !.at = "lookup", !.before = 0, !.new = TRUE]
  BY <1>4
<1>6. /\ s \in Session /\ s.at = "lookup" /\ s.before = 0 /\ s.new
      /\ s.reseller = session[t].reseller /\ s.name = session[t].name
      /\ s.user = session[t].user /\ s.account = session[t].account /\ s.note = session[t].note
  <2>1. 0 \in 0..MaxAccounts /\ "lookup" \in Working
    BY ProvisioningAssumption DEF Working
  <2> QED BY <1>1, <1>5, <2>1 DEF Session
<1>7. SessionOk(s)
  BY <1>1, <1>4, <1>6 DEF SessionOk, Known, Looked, Holding, Sure, Working, IInv, TypeOK
<1>8. \A other \in Tasks :
        s.account # 0 /\ session[other].account = s.account => session[other].user = s.user
  BY <1>1, <1>5 DEF IInv, SameName, Session
<1> QED
  BY <1>2, <1>3, <1>6, <1>7, <1>8, Moves DEF Verify

(* The handler's other steps that change no store. *)
LEMMA QuietStep ==
    ASSUME IInv, NEW t \in Tasks,
           PostFails(t) \/ GetFails(t) \/ Lookup(t) \/ Deliver(t) \/ Die(t)
    PROVE  IInv'
<1> USE DEF Looked, Sure, Working, Ended
<1>1. t \in charged => session[t].at \in Paid
  BY DEF IInv, ChargedInv
<1>2. CASE PostFails(t)
  BY <1>1, <1>2, GoesTo DEF PostFails, Paid
<1>3. CASE GetFails(t)
  BY <1>1, <1>3, GoesTo DEF GetFails, AfterError, Paid
<1>4. CASE Lookup(t)
  BY <1>1, <1>4, GoesTo DEF Lookup, Paid
<1>5. CASE Deliver(t)
  BY <1>1, <1>5, GoesTo DEF Deliver, Paid
<1>6. CASE Die(t)
  BY <1>1, <1>6, GoesTo DEF Die, Paid
<1> QED BY <1>2, <1>3, <1>4, <1>5, <1>6

-------------------------------------------------------------------------------
(* A new account disturbs nothing a session knows: its number is new.      *)
LEMMA CreateSafe ==
    ASSUME IInv, NEW u \in Usernames, NEW who \in Names \cup {Admin}, CreateOnPanel(u, who),
           UNCHANGED resellers
    PROVE  /\ made' = made + 1 /\ made' \in 0..MaxAccounts
           /\ panel' \in [Usernames -> 0..MaxAccounts]
           /\ panel'[u] = made' /\ \A v \in Usernames \ {u} : panel'[v] = panel[v]
           /\ owner' \in [Usernames -> Owners]
           /\ owner'[u] = who /\ \A v \in Usernames \ {u} : owner'[v] = owner[v]
           /\ PanelInv'
           /\ \A s \in Session : SessionOk(s) => SessionOk(s)'
<1>1. /\ made \in Nat /\ made + 1 \in 0..MaxAccounts
      /\ panel \in [Usernames -> 0..MaxAccounts]
      /\ owner \in [Usernames -> Owners]
  BY ProvisioningAssumption DEF IInv, TypeOK, CreateOnPanel
<1>2. /\ made' = made + 1 /\ made' \in 0..MaxAccounts
      /\ panel' \in [Usernames -> 0..MaxAccounts]
      /\ panel'[u] = made' /\ \A v \in Usernames \ {u} : panel'[v] = panel[v]
  BY <1>1 DEF CreateOnPanel
<1>3. /\ owner' \in [Usernames -> Owners]
      /\ owner'[u] = who /\ \A v \in Usernames \ {u} : owner'[v] = owner[v]
  BY <1>1 DEF CreateOnPanel, Owners
<1>4. PanelInv'
  BY <1>1, <1>2, <1>3 DEF IInv, PanelInv
<1>5. ASSUME NEW s \in Session, SessionOk(s)
      PROVE  SessionOk(s)'
  <2>1. s.account \in 0..MaxAccounts /\ s.before \in 0..MaxAccounts
    BY DEF Session
  <2>2. s.account <= made /\ s.before <= made
    BY <1>5 DEF SessionOk
  <2>3. called' = called
    BY DEF resellers
  <2>4. s.at \in Looked => panel'[s.user] = 0 \/ panel'[s.user] > s.before
    <3>1. s.at \in Looked => s.user \in Usernames
      BY <1>5 DEF SessionOk, Known, Looked, Working
    <3> QED BY <1>1, <1>2, <1>5, <2>1, <2>2, <3>1 DEF SessionOk
  <2>5. s.account # 0 =>
          \A v \in Usernames : panel'[v] = s.account => v = s.user /\ owner'[v] = s.note
    BY <1>1, <1>2, <1>3, <1>5, <2>1, <2>2 DEF SessionOk
  <2> QED
    BY <1>1, <1>2, <1>5, <2>1, <2>2, <2>3, <2>4, <2>5 DEF SessionOk, Known
<1> QED BY <1>2, <1>3, <1>4, <1>5

LEMMA AdminCreateStep ==
    ASSUME IInv, NEW u \in Usernames, AdminCreate(u)
    PROVE  IInv'
<1>1. CreateOnPanel(u, Admin) /\ UNCHANGED <<resellers, recorded, charged, session, sync>>
  BY DEF AdminCreate
<1>2. TypeOK' /\ NameInv' /\ PanelInv'
  BY <1>1, CreateSafe DEF IInv, TypeOK, NameInv, resellers
<1>3. SessionInv'
  <2>1. \A t \in Tasks : session[t] \in Session /\ SessionOk(session[t])
    BY DEF IInv, TypeOK, SessionInv
  <2>2. \A t \in Tasks : SessionOk(session[t])'
    BY <1>1, <2>1, CreateSafe
  <2> QED BY <1>1, <2>2 DEF SessionInv
<1> QED
  BY <1>1, <1>2, <1>3 DEF IInv, SameName, ChargedInv

(* Where a handler is after its POST took effect. *)
LEMMA PostStep ==
    ASSUME IInv, NEW t \in Tasks, PostTakesEffect(t)
    PROVE  IInv'
<1> DEFINE u == session[t].user
           who == session[t].name
<1>1. session[t] \in Session /\ SessionOk(session[t]) /\ session[t].at = "post"
  BY DEF IInv, TypeOK, SessionInv, PostTakesEffect
<1>2. Known(session[t]) /\ u \in Usernames /\ who \in Names
  BY <1>1 DEF SessionOk, Known, Working
<1>3. CreateOnPanel(u, who) /\ UNCHANGED <<resellers, recorded, charged, sync>>
  BY DEF PostTakesEffect
<1>4. /\ made' = made + 1 /\ made' \in 0..MaxAccounts
      /\ panel' \in [Usernames -> 0..MaxAccounts] /\ panel'[u] = made'
      /\ \A v \in Usernames \ {u} : panel'[v] = panel[v]
      /\ owner' \in [Usernames -> Owners] /\ owner'[u] = who
      /\ PanelInv'
      /\ \A s \in Session : SessionOk(s) => SessionOk(s)'
  BY <1>2, <1>3, CreateSafe
<1>5. /\ made \in Nat /\ \A v \in Usernames : panel[v] \in 0..MaxAccounts /\ panel[v] <= made
      /\ session[t].before \in 0..MaxAccounts /\ session[t].before <= made
  BY <1>1 DEF IInv, TypeOK, PanelInv, SessionOk, Session
<1>6. PICK s \in Session :
        /\ session' = [session EXCEPT ![t] = s]
        /\ SessionOk(s)'
        /\ s.account # 0 => s.account = made'
  <2>1. CASE session' = [session EXCEPT
               ![t].at = "verify", ![t].account = made + 1, ![t].note = session[t].name]
    <3>1. PICK v \in Session :
            /\ session' = [session EXCEPT ![t] = v]
            /\ v.at = "verify" /\ v.account = made' /\ v.note = who
            /\ v.reseller = session[t].reseller /\ v.name = who /\ v.user = u
            /\ v.before = session[t].before
      <4> DEFINE m == [session[t] EXCEPT !.at = "verify", !.account = made + 1, !.note = who]
      <4>1. session' = [session EXCEPT ![t] = m]
        BY <2>1
      <4>2. made + 1 \in 0..MaxAccounts
        BY <1>4
      <4>3. /\ m \in Session /\ m.at = "verify" /\ m.account = made + 1 /\ m.note = who
            /\ m.reseller = session[t].reseller /\ m.name = who /\ m.user = u
            /\ m.before = session[t].before
        BY <1>1, <1>2, <4>2 DEF Session, Owners, Working
      <4> HIDE DEF m
      <4> QED BY <1>4, <4>1, <4>3
    <3>2. Known(v)'
      BY <1>2, <1>3, <3>1 DEF Known, resellers
    <3>3. \A w \in Usernames : panel'[w] = v.account => w = v.user /\ owner'[w] = v.note
      BY <1>4, <1>5, <3>1
    <3>4. panel'[v.user] > v.before /\ v.account > v.before
      BY <1>4, <1>5, <3>1
    <3>5. SessionOk(v)'
      BY <1>4, <1>5, <3>1, <3>2, <3>3, <3>4 DEF SessionOk, Looked, Holding, Sure
    <3> QED BY <3>1, <3>5
  <2>2. CASE Goto(t, "fallback")
    <3>1. PICK v \in Session :
            /\ session' = [session EXCEPT ![t] = v]
            /\ v.at = "fallback" /\ v.account = 0
            /\ v.reseller = session[t].reseller /\ v.name = who
            /\ v.user = u /\ v.before = session[t].before
      BY <1>1, <2>2, FallsBack DEF Goto
    <3>2. Known(v)'
      BY <1>2, <1>3, <3>1 DEF Known, resellers
    <3>3. panel'[v.user] > v.before
      BY <1>4, <1>5, <3>1
    <3>4. SessionOk(v)'
      BY <1>4, <1>5, <3>1, <3>2, <3>3 DEF SessionOk, Looked, Holding, Sure
    <3> QED BY <3>1, <3>4
  <2>3. CASE Goto(t, "failed")
    <3>1. PICK v \in Session :
            /\ session' = [session EXCEPT ![t] = v]
            /\ v.at = "failed" /\ v.account = 0 /\ v.before = 0
      BY <1>1, <2>3, Forgets DEF Goto
    <3>2. SessionOk(v)'
      BY <1>4, <1>5, <3>1 DEF SessionOk, Looked, Holding, Sure, Working
    <3> QED BY <3>1, <3>2
  <2> QED BY <2>1, <2>2, <2>3 DEF PostTakesEffect
<1>7. \A other \in Tasks : session[other] \in Session /\ SessionOk(session[other])
  BY DEF IInv, TypeOK, SessionInv
<1>8. SessionInv'
  <2>1. ASSUME NEW other \in Tasks PROVE SessionOk(session[other])'
    <3>1. PICK v \in Session : v = session'[other] /\ (v = s \/ SessionOk(v))
      BY <1>6, <1>7, <2>1 DEF IInv, TypeOK
    <3>2. SessionOk(v)'
      BY <1>4, <1>6, <3>1
    <3> QED BY <3>1, <3>2 DEF SessionOk, Known
  <2> QED BY <2>1 DEF SessionInv
<1>9. TypeOK' /\ NameInv'
  BY <1>3, <1>4, <1>6 DEF IInv, TypeOK, NameInv, resellers
<1>10. SameName'
  <2>1. \A other \in Tasks : session[other].account <= made /\ session[other].account \in Nat
    BY <1>7 DEF SessionOk, Session
  <2> QED BY <1>4, <1>5, <1>6, <2>1 DEF IInv, TypeOK, SameName
<1>11. ChargedInv'
  <2>1. t \notin charged
    BY <1>1 DEF IInv, ChargedInv, Paid
  <2> QED BY <1>3, <1>6, <2>1 DEF IInv, TypeOK, ChargedInv
<1> QED BY <1>4, <1>8, <1>9, <1>10, <1>11 DEF IInv

LEMMA CommitStep ==
    ASSUME IInv, NEW t \in Tasks, Commit(t)
    PROVE  IInv'
<1> DEFINE s == Moved(session[t], "deliver")
<1>1. /\ session[t] \in Session /\ SessionOk(session[t]) /\ session[t].at = "commit"
      /\ session[t].reseller \in Resellers /\ session[t].user \in Usernames
  BY DEF IInv, TypeOK, SessionInv, Commit, SessionOk, Known, Working
<1>2. /\ s \in Session /\ s.at = "deliver" /\ s.account = session[t].account
      /\ s.reseller = session[t].reseller /\ s.name = session[t].name
      /\ s.user = session[t].user /\ s.note = session[t].note
      /\ s.before = session[t].before /\ s.new = session[t].new
  BY <1>1, GoesOn DEF Working, Ended
<1>3. session' = [session EXCEPT ![t] = s] /\ UNCHANGED <<resellers, accounts, sync>>
  BY DEF Commit, Goto
<1>4. TypeOK' /\ NameInv' /\ PanelInv'
  BY <1>1, <1>2, <1>3 DEF IInv, TypeOK, NameInv, PanelInv, Commit, resellers, accounts
<1>5. SessionOk(s)
  BY <1>1, <1>2 DEF SessionOk, Known, Looked, Holding, Sure, Working
<1>6. SessionInv'
  BY <1>3, <1>5 DEF IInv, TypeOK, SessionInv, SessionOk, Known, resellers, accounts
<1>7. SameName'
  BY <1>2, <1>3 DEF IInv, TypeOK, SameName
<1>8. ChargedInv'
  <2>1. s.account # 0 /\ s.new /\ s.note = s.name
    BY <1>2, <1>5 DEF SessionOk, Holding, Sure
  <2>2. charged' = charged \cup {t} /\ charged \subseteq Tasks
    BY DEF Commit, IInv, TypeOK
  <2> QED
    BY <1>2, <1>3, <2>1, <2>2 DEF IInv, TypeOK, ChargedInv, Paid
<1> QED
  BY <1>4, <1>6, <1>7, <1>8 DEF IInv

(* An account goes: nothing that was seen of it is compared with it again. *)
LEMMA AdminDeleteStep ==
    ASSUME IInv, NEW u \in Usernames, AdminDelete(u)
    PROVE  IInv'
<1>1. /\ panel' = [panel EXCEPT ![u] = 0] /\ owner' = [owner EXCEPT ![u] = NoOne]
      /\ UNCHANGED <<resellers, made, recorded, charged, session, sync>>
  BY DEF AdminDelete
<1>2. TypeOK' /\ NameInv'
  BY <1>1, ProvisioningAssumption DEF IInv, TypeOK, NameInv, Owners, resellers
<1>3. PanelInv'
  BY <1>1 DEF IInv, TypeOK, PanelInv
<1>4. SessionInv'
  BY <1>1 DEF IInv, TypeOK, SessionInv, SessionOk, Known, Looked, Session, resellers
<1> QED
  BY <1>1, <1>2, <1>3, <1>4 DEF IInv, SameName, ChargedInv

(* The resellers change: who has had a name keeps having had it. *)
LEMMA ResellerStep ==
    ASSUME IInv, NEW r \in Resellers,
           (\E n \in Names : AddReseller(r, n) \/ Rename(r, n)) \/ DeletePermanently(r)
    PROVE  /\ IInv'
           /\ \A n \in Names : called[n] \subseteq called'[n]
           /\ UNCHANGED <<accounts, session, sync>>
<1>1. /\ live' \subseteq Resellers /\ purged' \subseteq Resellers
      /\ name' \in [Resellers -> Names \cup {NoOne}]
      /\ called' \in [Names -> SUBSET Resellers]
      /\ \A n \in Names : called[n] \subseteq called'[n]
      /\ NameInv'
  <2>1. CASE \E n \in Names : AddReseller(r, n) \/ Rename(r, n)
    BY <2>1 DEF AddReseller, Rename, GiveName, IInv, TypeOK, NameInv
  <2>2. CASE DeletePermanently(r)
    BY <2>2 DEF DeletePermanently, IInv, TypeOK, NameInv
  <2> QED BY <2>1, <2>2
<1>2. /\ UNCHANGED <<accounts, session, sync>>
      /\ recorded' \in [Usernames -> Resellers \cup {NoOne}]
      /\ charged' \subseteq charged
  BY DEF AddReseller, Rename, DeletePermanently, PaidBy, IInv, TypeOK
<1>3. TypeOK' /\ PanelInv'
  BY <1>1, <1>2 DEF IInv, TypeOK, PanelInv, accounts
<1>4. SessionInv'
  BY <1>1, <1>2 DEF IInv, SessionInv, SessionOk, Known, accounts
<1>5. SameName' /\ ChargedInv'
  BY <1>2 DEF IInv, SameName, ChargedInv
<1> QED BY <1>1, <1>2, <1>3, <1>4, <1>5 DEF IInv

(* A sync changes no account and no session. *)
LEMMA SyncKeeps ==
    ASSUME IInv, UNCHANGED <<resellers, accounts, charged, session>>,
           sync' \in SyncState,
           recorded' \in [Usernames -> Resellers \cup {NoOne}]
    PROVE  IInv'
BY DEF IInv, TypeOK, NameInv, PanelInv, SessionInv, SessionOk, Known, SameName, ChargedInv,
       resellers, accounts

LEMMA SyncIdleType ==
    ASSUME IInv, SyncIdle
    PROVE  sync' \in SyncState
BY DEF IInv, TypeOK, SyncState, SyncIdle, Nobody

LEMMA SyncActs ==
    ASSUME IInv, SyncList \/ SyncStep
    PROVE  IInv'
<1>0. sync \in SyncState /\ recorded \in [Usernames -> Resellers \cup {NoOne}]
  BY DEF IInv, TypeOK
<1>1. CASE SyncList
  <2>1. sync' \in SyncState
    <3>1. sync.runs + 1 \in 0..MaxSyncs
      BY <1>0, <1>1, ProvisioningAssumption DEF SyncList, SyncState
    <3>2. [u \in Usernames |-> Listed(u)] \in [Usernames -> Names \cup {NoOne}]
      BY DEF Listed
    <3> QED BY <1>0, <1>1, <3>1, <3>2 DEF SyncList, SyncState
  <2> QED BY <1>0, <1>1, <2>1, SyncKeeps DEF SyncList
<1>2. CASE SyncNames
  <2>1. sync' \in SyncState
    <3>1. PICK by_name \in [Names -> Resellers \cup {NoOne}] :
            sync' = [sync EXCEPT !.at = "rows", !.list = Nobody,
              !.found = [u \in Usernames |->
                 IF sync.list[u] = NoOne THEN NoOne ELSE by_name[sync.list[u]]]]
      BY <1>2 DEF SyncNames
    <3> DEFINE found == [u \in Usernames |->
                           IF sync.list[u] = NoOne THEN NoOne ELSE by_name[sync.list[u]]]
    <3>2. found \in [Usernames -> Resellers \cup {NoOne}]
      BY <1>0 DEF SyncState
    <3>3. Nobody \in [Usernames -> Names \cup {NoOne}]
      BY DEF Nobody
    <3>4. sync' = [sync EXCEPT !.at = "rows", !.list = Nobody, !.found = found]
      BY <3>1
    <3> HIDE DEF found
    <3> QED BY <1>0, <3>2, <3>3, <3>4 DEF SyncState
  <2> QED BY <1>0, <1>2, <2>1, SyncKeeps DEF SyncNames
<1>3. CASE SyncRead
  <2>1. sync' \in SyncState
    BY <1>0, <1>3 DEF SyncRead, SyncState, Differing
  <2> QED BY <1>0, <1>3, <2>1, SyncKeeps DEF SyncRead
<1>4. CASE SyncWrite
  <2>1. recorded' \in [Usernames -> Resellers \cup {NoOne}]
    BY <1>0, <1>4 DEF SyncWrite, SyncState
  <2> QED BY <1>4, <2>1, SyncIdleType, SyncKeeps DEF SyncWrite
<1>5. CASE SyncFails
  BY <1>0, <1>5, SyncIdleType, SyncKeeps DEF SyncFails
<1> QED BY <1>1, <1>2, <1>3, <1>4, <1>5 DEF SyncStep

LEMMA NextInv == IInv /\ [Next]_vars => IInv'
<1> SUFFICES ASSUME IInv, [Next]_vars PROVE IInv'
  OBVIOUS
<1>1. ASSUME NEW r \in Resellers,
             (\E n \in Names : AddReseller(r, n) \/ Rename(r, n)) \/ DeletePermanently(r)
      PROVE  IInv'
  BY <1>1, ResellerStep
<1>2. ASSUME NEW t \in Tasks, NEW r \in Resellers, NEW u \in Usernames, Begin(t, r, u)
      PROVE  IInv'
  BY <1>2, BeginStep
<1>3. ASSUME NEW t \in Tasks, Step(t)
      PROVE  IInv'
  BY <1>3, PrecheckStep, PostStep, FallbackStep, VerifyStep, QuietStep, CommitStep DEF Step
<1>4. ASSUME NEW u \in Usernames, AdminCreate(u) \/ AdminDelete(u)
      PROVE  IInv'
  BY <1>4, AdminCreateStep, AdminDeleteStep
<1>5. CASE SyncList \/ SyncStep
  BY <1>5, SyncActs
<1>6. CASE UNCHANGED vars
  BY <1>6 DEF vars, resellers, accounts, IInv, TypeOK, NameInv, PanelInv, SessionInv, SessionOk,
              Known, SameName, ChargedInv
<1> QED BY <1>1, <1>2, <1>3, <1>4, <1>5, <1>6 DEF Next

(* Every reachable state of Provisioning satisfies the invariant. *)
THEOREM Invariance == Spec => []IInv
BY InitInv, NextInv, PTL DEF Spec

(* The variables keep their types. *)
THEOREM TypeCorrect == Spec => []TypeOK
<1>1. IInv => TypeOK
  BY DEF IInv
<1> QED BY <1>1, Invariance, PTL

(* Whom create_confirm charges had the name that is in the account's note, *)
(* and the account was not there before it asked: no handler takes one     *)
(* that was already there for its own, whatever the panel answers.         *)
THEOREM OwnAccountCharged == Spec => []ChargedAccountIsOwn
<1>1. IInv => ChargedAccountIsOwn
  <2> SUFFICES ASSUME IInv, NEW t \in charged
               PROVE  /\ session[t].new /\ session[t].note = session[t].name
                      /\ session[t].reseller \in called[session[t].name]
    BY DEF ChargedAccountIsOwn
  <2>1. t \in Tasks /\ session[t].account # 0
    BY DEF IInv, TypeOK, ChargedInv
  <2>2. Known(session[t])
    BY <2>1 DEF IInv, SessionInv, SessionOk
  <2> QED BY <2>2 DEF IInv, ChargedInv, Known
<1> QED BY <1>1, Invariance, PTL

-------------------------------------------------------------------------------
(* Which actions move a session, write a row or a charge, change what is   *)
(* on the panel, or move the sync.                                         *)
LEMMA WhoMoves ==
    ASSUME [Next]_vars
    PROVE  \/ UNCHANGED session
           \/ \E t \in Tasks, r \in Resellers, u \in Usernames : Begin(t, r, u)
           \/ \E t \in Tasks : Step(t)
BY DEF Next, vars, AddReseller, Rename, DeletePermanently, AdminCreate, AdminDelete,
       SyncList, SyncStep, SyncNames, SyncRead, SyncWrite, SyncFails

LEMMA WhoWrites ==
    ASSUME [Next]_vars
    PROVE  \/ UNCHANGED <<recorded, charged>>
           \/ \E t \in Tasks : Commit(t)
           \/ \E r \in Resellers : DeletePermanently(r)
           \/ SyncWrite
BY DEF Next, vars, Begin, Step, Precheck, PostTakesEffect, PostFails, Fallback, Verify, GetFails,
       Lookup, Deliver, Die, AddReseller, Rename, AdminCreate, AdminDelete,
       SyncList, SyncStep, SyncNames, SyncRead, SyncFails

LEMMA WhoMakes ==
    ASSUME [Next]_vars
    PROVE  \/ UNCHANGED accounts
           \/ \E u \in Usernames : AdminCreate(u) \/ AdminDelete(u)
           \/ \E t \in Tasks : PostTakesEffect(t)
BY DEF Next, vars, Begin, Step, Precheck, PostFails, Fallback, Verify, GetFails,
       Lookup, Commit, Deliver, Die, AddReseller, Rename, DeletePermanently,
       SyncList, SyncStep, SyncNames, SyncRead, SyncWrite, SyncFails

LEMMA WhoSyncs ==
    ASSUME [Next]_vars
    PROVE  UNCHANGED sync \/ SyncList \/ SyncStep
BY DEF Next, vars, Begin, Step, Precheck, PostTakesEffect, PostFails, Fallback, Verify, GetFails,
       Lookup, Commit, Deliver, Die, AddReseller, Rename, DeletePermanently,
       AdminCreate, AdminDelete

(* Names are had for good. *)
LEMMA NamesStay ==
    ASSUME IInv, [Next]_vars
    PROVE  /\ \A n \in Names : called[n] \subseteq called'[n]
           /\ NamesTell' => NamesTell
<1>1. \A n \in Names : called[n] \subseteq called'[n]
  <2>1. \/ UNCHANGED called
        \/ \E r \in Resellers :
             (\E n \in Names : AddReseller(r, n) \/ Rename(r, n)) \/ DeletePermanently(r)
    BY DEF Next, vars, resellers, Begin, Step, Precheck, PostTakesEffect, PostFails, Fallback,
           Verify, GetFails, Lookup, Commit, Deliver, Die, AdminCreate, AdminDelete,
           SyncList, SyncStep, SyncNames, SyncRead, SyncWrite, SyncFails
  <2> QED BY <2>1, ResellerStep
<1> QED BY <1>1 DEF NamesTell

LEMMA MovesItself ==
    ASSUME IInv, NEW t \in Tasks, NEW other \in Tasks, other # t,
           Step(other) \/ \E r \in Resellers, u \in Usernames : Begin(other, r, u)
    PROVE  session'[t] = session[t]
BY DEF Begin, Step, Precheck, PostTakesEffect, PostFails, Fallback, Verify,
       GetFails, Lookup, Commit, Deliver, Die, Goto, IInv, TypeOK

(* A charge stays what it was; only a reseller's end takes it away. *)
LEMMA ChargesStay ==
    ASSUME IInv, [Next]_vars, NEW t \in charged
    PROVE  /\ session'[t].user = session[t].user
           /\ session'[t].account = session[t].account
           /\ session'[t].reseller = session[t].reseller
           /\ session'[t].note = session[t].note
<1>1. t \in Tasks /\ session[t] \in Session /\ session[t].at \in Paid
  BY DEF IInv, TypeOK, ChargedInv
<1>2. ASSUME session'[t] # session[t]
      PROVE  \E step \in {"delivered", "died"} :
               session[t].at = "deliver" /\ session'[t] = Moved(session[t], step)
  <2>1. (\E r \in Resellers, u \in Usernames : Begin(t, r, u)) \/ Step(t)
    BY <1>1, <1>2, WhoMoves, MovesItself
  <2>2. Deliver(t) \/ Die(t)
    BY <1>1, <2>1 DEF Begin, Step, Paid, Precheck, PostTakesEffect, PostFails, Fallback, Verify,
                      GetFails, Lookup, Commit
  <2> QED BY <1>1, <2>2 DEF Deliver, Die, Goto, Paid, Working, IInv, TypeOK
<1> QED BY <1>1, <1>2, GoesOn DEF Ended

LEMMA OnceStep == IInv /\ OnceInv /\ [Next]_vars => OnceInv'
<1> SUFFICES ASSUME IInv, OnceInv, [Next]_vars, purged' = {} PROVE OnceInv'
  BY DEF OnceInv
<1>1. purged = {} /\ \A r \in Resellers : ~DeletePermanently(r)
  <2>1. purged \subseteq purged'
    BY DEF Next, vars, resellers, Begin, Step, Precheck, PostTakesEffect, PostFails, Fallback,
           Verify, GetFails, Lookup, Commit, Deliver, Die, AddReseller, Rename,
           DeletePermanently, AdminCreate, AdminDelete,
           SyncList, SyncStep, SyncNames, SyncRead, SyncWrite, SyncFails
  <2> QED BY <2>1 DEF DeletePermanently
<1>2. \A t \in charged :
        /\ t \in Tasks /\ session[t].user \in Usernames
        /\ session'[t].user = session[t].user /\ recorded[session[t].user] # NoOne
  BY <1>1, ChargesStay DEF OnceInv, IInv, TypeOK, ChargedInv, SessionInv, SessionOk, Known
<1>3. OnePayer
  BY <1>1 DEF OnceInv
<1>4. CASE UNCHANGED <<recorded, charged>>
  BY <1>2, <1>3, <1>4 DEF OnceInv, OnePayer
<1>5. ASSUME NEW t \in Tasks, Commit(t)
      PROVE  OnceInv'
  <2>1. /\ session[t] \in Session /\ session[t].at = "commit" /\ session[t].user \in Usernames
        /\ session[t].reseller \in Resellers
    BY <1>5 DEF IInv, TypeOK, SessionInv, SessionOk, Known, Commit, Working
  <2>2. session'[t].user = session[t].user
    <3>1. session'[t] = Moved(session[t], "deliver")
      BY <1>5 DEF Commit, Goto, IInv, TypeOK
    <3> QED BY <2>1, <3>1, GoesOn DEF Working
  <2>3. /\ recorded'[session[t].user] # NoOne
        /\ \A u \in Usernames : recorded[u] # NoOne => recorded'[u] # NoOne
        /\ recorded[session[t].user] = NoOne /\ charged' = charged \cup {t}
    BY <1>5, <2>1, ProvisioningAssumption DEF Commit, NameIsFree, IInv, TypeOK
  <2> QED BY <1>2, <1>3, <2>2, <2>3 DEF OnceInv, OnePayer
<1>6. CASE SyncWrite
  <2>1. charged' = charged /\ \A u \in Usernames : recorded[u] # NoOne => recorded'[u] # NoOne
    BY <1>6 DEF SyncWrite, Changed
  <2> QED BY <1>2, <1>3, <2>1 DEF OnceInv, OnePayer
<1> QED BY <1>1, <1>4, <1>5, <1>6, WhoWrites

-------------------------------------------------------------------------------
(* When every account made is there after a step, it was there before, and *)
(* the step took none away.                                                *)
LEMMA NothingDeleted ==
    ASSUME IInv, [Next]_vars, NoneDeleted'
    PROVE  /\ NoneDeleted
           /\ \A u \in Usernames : ~AdminDelete(u)
           /\ \A v \in Usernames : panel[v] # 0 => panel'[v] = panel[v] /\ owner'[v] = owner[v]
<1>1. \A u \in Usernames : ~AdminDelete(u)
  <2> SUFFICES ASSUME NEW u \in Usernames, AdminDelete(u) PROVE FALSE
    OBVIOUS
  <2>1. panel[u] \in 1..made /\ made' = made
    BY DEF AdminDelete, IInv, TypeOK, PanelInv
  <2>2. PICK v \in Usernames : panel'[v] = panel[u]
    BY <2>1 DEF NoneDeleted
  <2>3. v # u /\ panel[v] = panel[u]
    BY <2>1, <2>2 DEF AdminDelete, IInv, TypeOK
  <2> QED BY <2>1, <2>3 DEF IInv, PanelInv
<1>2. ASSUME NEW u \in Usernames, NEW who \in Names \cup {Admin}, CreateOnPanel(u, who),
             UNCHANGED resellers
      PROVE  /\ NoneDeleted
             /\ \A v \in Usernames : panel[v] # 0 => panel'[v] = panel[v] /\ owner'[v] = owner[v]
  <2>1. made \in Nat /\ made' = made + 1 /\ panel[u] = 0
    BY <1>2 DEF CreateOnPanel, IInv, TypeOK
  <2>2. /\ panel'[u] = made'
        /\ \A v \in Usernames \ {u} : panel'[v] = panel[v] /\ owner'[v] = owner[v]
    BY <1>2, CreateSafe
  <2> QED BY <2>1, <2>2 DEF NoneDeleted
<1>3. \A t \in Tasks : session[t].at = "post" =>
        session[t].user \in Usernames /\ session[t].name \in Names
  BY DEF IInv, SessionInv, SessionOk, Known, Working
<1>4. CASE UNCHANGED accounts
  BY <1>1, <1>4 DEF NoneDeleted, accounts
<1>5. CASE \E u \in Usernames : AdminCreate(u) \/ AdminDelete(u)
  BY <1>1, <1>2, <1>5 DEF AdminCreate
<1>6. CASE \E t \in Tasks : PostTakesEffect(t)
  BY <1>1, <1>2, <1>3, <1>6 DEF PostTakesEffect
<1> QED BY <1>4, <1>5, <1>6, WhoMakes

(* An account that a session holds is the one it held before, or the one   *)
(* there is now.                                                           *)
LEMMA AccountTaken ==
    ASSUME IInv, [Next]_vars, NEW t \in Tasks, session'[t].account # 0
    PROVE  \/ session'[t].account = session[t].account /\ session'[t].user = session[t].user
           \/ session'[t].account = panel'[session'[t].user]
<1>1. session[t] \in Session /\ SessionOk(session[t]) /\ session \in [Tasks -> Session]
  BY DEF IInv, TypeOK, SessionInv
<1>2. CASE session'[t] = session[t]
  BY <1>2
<1>3. CASE session'[t] # session[t]
  <2>1. (\E r \in Resellers, u \in Usernames : Begin(t, r, u)) \/ Step(t)
    BY <1>3, WhoMoves, MovesItself
  <2>2. ASSUME NEW r \in Resellers, NEW u \in Usernames, Begin(t, r, u)
        PROVE  FALSE
    BY <1>1, <2>2 DEF Begin, SessionOk, Session
  <2>3. ASSUME NEW step \in Working \cup Ended, session'[t] = Moved(session[t], step)
        PROVE  session'[t].account = session[t].account /\ session'[t].user = session[t].user
    BY <1>1, <2>3, Forgets, FallsBack, GoesOn
  <2>4. ASSUME NEW step \in Working \cup Ended, Goto(t, step)
        PROVE  session'[t].account = session[t].account /\ session'[t].user = session[t].user
    BY <1>1, <2>3, <2>4 DEF Goto
  <2>5. CASE Precheck(t)
    BY <1>1, <2>4, <2>5 DEF Precheck, Session, Ended
  <2>6. CASE PostTakesEffect(t)
    <3>1. CASE session' = [session EXCEPT
                 ![t].at = "verify", ![t].account = made + 1, ![t].note = session[t].name]
      <4>1. session'[t].account = made + 1 /\ session'[t].user = session[t].user
        BY <1>1, <3>1 DEF Session
      <4>2. panel'[session[t].user] = made + 1
        BY <1>1, <2>6 DEF PostTakesEffect, CreateOnPanel, SessionOk, Known, Working, IInv, TypeOK
      <4> QED BY <4>1, <4>2
    <3> QED BY <2>4, <2>6, <3>1 DEF PostTakesEffect, Working, Ended
  <2>7. CASE Fallback(t)
    <3>1. CASE session' = [session EXCEPT
                 ![t].at = "reverify", ![t].account = panel[session[t].user],
                 ![t].note = owner[session[t].user]]
      <4>1. /\ session'[t].account = panel[session[t].user]
            /\ session'[t].user = session[t].user
        BY <1>1, <3>1 DEF Session
      <4>2. panel' = panel
        BY <2>7 DEF Fallback, accounts
      <4> QED BY <4>1, <4>2
    <3> QED BY <2>4, <2>7, <3>1 DEF Fallback, Ended
  <2>8. CASE Verify(t)
    BY <1>1, <2>8 DEF Verify, Session
  <2>9. CASE PostFails(t) \/ GetFails(t) \/ Lookup(t) \/ Commit(t) \/ Deliver(t) \/ Die(t)
    BY <2>4, <2>9 DEF PostFails, GetFails, AfterError, Lookup, Commit, Deliver, Die, Working, Ended
  <2> QED BY <2>1, <2>2, <2>5, <2>6, <2>7, <2>8, <2>9 DEF Step
<1> QED BY <1>2, <1>3

(* What a sync has read of the panel and of the names is true as long as   *)
(* no account goes: nothing is written over, and a name is had for good.   *)
LEMMA SyncSees ==
    ASSUME IInv, SeenBySync, [Next]_vars,
           \A v \in Usernames : panel[v] # 0 => panel'[v] = panel[v] /\ owner'[v] = owner[v]
    PROVE  SeenBySync'
<1>1. /\ sync \in SyncState /\ owner \in [Usernames -> Owners]
      /\ called \in [Names -> SUBSET Resellers]
      /\ \A n \in Names : called[n] \subseteq called'[n]
  BY NamesStay DEF IInv, TypeOK
<1>2. SUFFICES ASSUME NEW u \in Usernames
      PROVE  /\ sync'.list[u] # NoOne => panel[u] # 0 /\ owner[u] = sync'.list[u]
             /\ sync'.found[u] # NoOne =>
                  panel[u] # 0 /\ owner[u] \in Names /\ sync'.found[u] \in called[owner[u]]
  BY <1>1 DEF SeenBySync
<1>3. CASE UNCHANGED sync
  BY <1>3 DEF SeenBySync
<1>4. CASE SyncIdle
  BY <1>1, <1>4 DEF SyncIdle, SyncState, Nobody
<1>5. CASE SyncList
  <2>1. sync'.list[u] = Listed(u) /\ sync'.found = sync.found
    BY <1>1, <1>5 DEF SyncList, SyncState
  <2>2. owner[u] \in Names => panel[u] # 0
    BY ProvisioningAssumption DEF IInv, PanelInv
  <2> QED BY <2>1, <2>2 DEF SeenBySync, Listed
<1>6. CASE SyncNames
  <2>1. PICK by_name \in [Names -> Resellers \cup {NoOne}] :
          /\ \A n \in Names :
               IF Having(n) = {} THEN by_name[n] = NoOne ELSE by_name[n] \in Having(n)
          /\ sync' = [sync EXCEPT !.at = "rows", !.list = Nobody,
               !.found = [v \in Usernames |->
                  IF sync.list[v] = NoOne THEN NoOne ELSE by_name[sync.list[v]]]]
    BY <1>6 DEF SyncNames
  <2>2. /\ sync'.list[u] = NoOne
        /\ sync'.found[u] = IF sync.list[u] = NoOne THEN NoOne ELSE by_name[sync.list[u]]
    BY <1>1, <2>1 DEF SyncState, Nobody
  <2>3. \A n \in Names : by_name[n] # NoOne => by_name[n] \in called[n]
    BY <2>1 DEF Having, IInv, NameInv
  <2>4. sync.list[u] # NoOne => sync.list[u] \in Names /\ panel[u] # 0 /\ owner[u] = sync.list[u]
    BY <1>1 DEF SeenBySync, SyncState
  <2> QED BY <2>2, <2>3, <2>4
<1>7. CASE SyncRead
  <2>1. sync'.list = sync.list /\ sync'.found[u] \in {sync.found[u], NoOne}
    BY <1>1, <1>7 DEF SyncRead, SyncState
  <2> QED BY <2>1 DEF SeenBySync
<1> QED
  BY <1>3, <1>4, <1>5, <1>6, <1>7, WhoSyncs DEF SyncStep, SyncWrite, SyncFails

LEMMA KeptStep == IInv /\ KeptInv /\ [Next]_vars => KeptInv'
<1> SUFFICES ASSUME IInv, KeptInv, [Next]_vars, NoneDeleted' PROVE KeptInv'
  BY DEF KeptInv
<1>1. /\ SeenBySession /\ SeenBySync
      /\ \A v \in Usernames : panel[v] # 0 => panel'[v] = panel[v] /\ owner'[v] = owner[v]
  BY NothingDeleted DEF KeptInv
<1>2. ASSUME NEW t \in Tasks, session'[t].account # 0
      PROVE  panel'[session'[t].user] = session'[t].account
  <2>1. CASE /\ session'[t].account = session[t].account
             /\ session'[t].user = session[t].user
    <3>1. session[t].user \in Usernames
      BY <1>2, <2>1 DEF IInv, SessionInv, SessionOk, Known
    <3> QED BY <1>1, <1>2, <2>1, <3>1 DEF SeenBySession
  <2> QED BY <1>2, <2>1, AccountTaken
<1> QED BY <1>1, <1>2, SyncSees DEF KeptInv, SeenBySession

LEMMA RowStep == IInv /\ KeptInv /\ RowInv /\ [Next]_vars => RowInv'
<1> SUFFICES ASSUME IInv, KeptInv, RowInv, [Next]_vars, NoneDeleted', NamesTell' PROVE RowInv'
  BY DEF RowInv
<1>1. NamesTell /\ SeenBySession /\ SeenBySync /\ OnePayer
  BY NamesStay, NothingDeleted DEF KeptInv, RowInv
<1>2. \A t \in charged :
        /\ t \in Tasks /\ session[t].user \in Usernames /\ session[t].reseller \in Resellers
        /\ recorded[session[t].user] = session[t].reseller
        /\ session'[t].user = session[t].user /\ session'[t].reseller = session[t].reseller
  BY NamesStay, NothingDeleted, ChargesStay
  DEF RowInv, IInv, TypeOK, ChargedInv, SessionInv, SessionOk, Known
<1>3. CASE UNCHANGED <<recorded, charged>>
  BY <1>1, <1>2, <1>3 DEF RowInv, OnePayer
<1>4. ASSUME NEW t \in Tasks, Commit(t)
      PROVE  RowInv'
  <2>1. session[t] \in Session /\ session[t].at = "commit" /\ session[t].user \in Usernames
    BY <1>4 DEF IInv, TypeOK, SessionInv, SessionOk, Known, Commit, Working
  <2>2. session'[t].user = session[t].user /\ session'[t].reseller = session[t].reseller
    <3>1. session'[t] = Moved(session[t], "deliver")
      BY <1>4 DEF Commit, Goto, IInv, TypeOK
    <3> QED BY <2>1, <3>1, GoesOn DEF Working
  <2>3. /\ recorded[session[t].user] = NoOne /\ charged' = charged \cup {t}
        /\ recorded' = [recorded EXCEPT ![session[t].user] = session[t].reseller]
        /\ recorded \in [Usernames -> Resellers \cup {NoOne}]
    BY <1>4 DEF Commit, NameIsFree, IInv, TypeOK
  <2>4. \A other \in charged : session[other].user # session[t].user
    BY <1>2, <2>3, ProvisioningAssumption
  <2> QED BY <1>1, <1>2, <2>1, <2>2, <2>3, <2>4 DEF RowInv, OnePayer
<1>5. ASSUME NEW r \in Resellers, DeletePermanently(r)
      PROVE  RowInv'
  <2>1. /\ charged' = {t \in charged : session[t].reseller # r}
        /\ \A u \in Usernames : recorded[u] # r => recorded'[u] = recorded[u]
    BY <1>5 DEF DeletePermanently, PaidBy
  <2> QED BY <1>1, <1>2, <2>1 DEF RowInv, OnePayer
<1>6. CASE SyncWrite
  <2>1. ASSUME NEW t \in charged
        PROVE  recorded'[session[t].user] = session[t].reseller
    <3> DEFINE u == session[t].user
    <3>1. /\ panel[u] = session[t].account /\ session[t].account # 0
          /\ session[t].note = session[t].name
      BY <1>1, <1>2 DEF SeenBySession, IInv, ChargedInv
    <3>2. /\ owner[u] = session[t].name /\ session[t].name \in Names
          /\ session[t].reseller \in called[session[t].name]
      BY <1>2, <3>1 DEF IInv, SessionInv, SessionOk, Known
    <3>3. u \in Changed => sync.found[u] = session[t].reseller
      BY <1>1, <1>2, <3>2 DEF Changed, SeenBySync, NamesTell
    <3> QED BY <1>2, <1>6, <3>3 DEF SyncWrite
  <2> QED BY <1>1, <1>2, <1>6, <2>1 DEF SyncWrite, RowInv, OnePayer
<1> QED BY <1>3, <1>4, <1>5, <1>6, WhoWrites

LEMMA PaidStep == IInv /\ KeptInv /\ PaidInv /\ [Next]_vars => PaidInv'
<1> SUFFICES ASSUME IInv, KeptInv, PaidInv, [Next]_vars,
                    NoneDeleted', purged' = {}, sync'.runs = 0
             PROVE  PaidInv'
  BY DEF PaidInv
<1>1. NoneDeleted /\ purged = {} /\ \A r \in Resellers : ~DeletePermanently(r)
  <2>1. purged \subseteq purged'
    BY DEF Next, vars, resellers, Begin, Step, Precheck, PostTakesEffect, PostFails, Fallback,
           Verify, GetFails, Lookup, Commit, Deliver, Die, AddReseller, Rename,
           DeletePermanently, AdminCreate, AdminDelete,
           SyncList, SyncStep, SyncNames, SyncRead, SyncWrite, SyncFails
  <2> QED BY <2>1, NothingDeleted DEF DeletePermanently
<1>2. sync.runs = 0 /\ sync.at = "idle" /\ sync' = sync /\ ~SyncWrite
  <2>1. sync \in SyncState
    BY DEF IInv, TypeOK
  <2>2. ~SyncList
    <3>1. SUFFICES ASSUME SyncList PROVE FALSE
      OBVIOUS
    <3>2. sync.runs \in Nat
      BY <2>1, ProvisioningAssumption DEF SyncState
    <3>3. sync'.runs = sync.runs + 1
      BY <2>1, <3>1 DEF SyncList, SyncState
    <3> QED BY <3>2, <3>3
  <2>3. SyncStep => sync'.runs = sync.runs
    BY <2>1 DEF SyncStep, SyncNames, SyncRead, SyncWrite, SyncFails, SyncIdle, SyncState
  <2>4. sync.runs = 0
    BY <2>2, <2>3, WhoSyncs
  <2>5. sync.at = "idle"
    BY <1>1, <2>4 DEF PaidInv
  <2>6. ~SyncStep
    BY <2>5 DEF SyncStep, SyncNames, SyncRead, SyncWrite, SyncFails
  <2> QED BY <2>2, <2>4, <2>5, <2>6, WhoSyncs DEF SyncWrite
<1>3. /\ \A u \in Usernames : recorded[u] # NoOne => \E payer \in charged : session[payer].user = u
      /\ \A t \in Tasks : session[t].at \in {"deliver", "delivered"} =>
           \E payer \in charged : session[payer].account = session[t].account
  BY <1>1, <1>2 DEF PaidInv
<1>4. charged \subseteq charged'
  BY <1>1, <1>2, WhoWrites DEF Commit
<1>5. ASSUME NEW u \in Usernames, recorded'[u] # NoOne
      PROVE  \E payer \in charged' : session'[payer].user = u
  <2>1. CASE recorded[u] # NoOne
    BY <1>3, <1>4, <2>1, ChargesStay
  <2>2. CASE recorded[u] = NoOne
    <3>1. PICK t \in Tasks : Commit(t)
      BY <1>1, <1>2, <1>5, <2>2, WhoWrites
    <3>2. session[t].user = u /\ t \in charged'
      BY <1>5, <2>2, <3>1 DEF Commit, IInv, TypeOK
    <3>3. session[t] \in Session /\ session'[t] = Moved(session[t], "deliver")
      BY <3>1 DEF Commit, Goto, IInv, TypeOK
    <3>4. session'[t].user = u
      BY <3>2, <3>3, GoesOn DEF Working
    <3> QED BY <3>2, <3>4
  <2> QED BY <2>1, <2>2
<1>6. ASSUME NEW t \in Tasks, session'[t].at \in {"deliver", "delivered"}
      PROVE  \E payer \in charged' : session'[payer].account = session'[t].account
  <2>1. session[t] \in Session /\ SessionOk(session[t]) /\ session \in [Tasks -> Session]
    BY DEF IInv, TypeOK, SessionInv
  <2>2. ASSUME NEW step \in {"deliver", "delivered"}, session'[t] = Moved(session[t], step)
        PROVE  session'[t].account = session[t].account
    BY <2>1, <2>2, GoesOn DEF Working, Ended
  <2>3. \/ session[t].at \in {"deliver", "delivered"} /\ session'[t].account = session[t].account
        \/ /\ Lookup(t) /\ recorded[session[t].user] # NoOne
           /\ session'[t].account = session[t].account
        \/ Commit(t)
    <3>1. CASE session'[t] = session[t]
      BY <1>6, <3>1
    <3>2. CASE session'[t] # session[t]
      <4>1. (\E r \in Resellers, u \in Usernames : Begin(t, r, u)) \/ Step(t)
        BY <3>2, WhoMoves, MovesItself
      <4>2. ASSUME NEW r \in Resellers, NEW u \in Usernames, Begin(t, r, u)
            PROVE  FALSE
        BY <1>6, <2>1, <4>2 DEF Begin, Session
      <4>3. ASSUME NEW step \in (Working \cup Ended) \ {"deliver", "delivered"}, Goto(t, step)
            PROVE  FALSE
        <5>1. session'[t].at = step
          BY <2>1, <4>3, Forgets, FallsBack, GoesOn DEF Goto
        <5> QED BY <1>6, <5>1
      <4>4. ASSUME Precheck(t) \/ Verify(t)
            PROVE  FALSE
        BY <1>6, <2>1, <4>3, <4>4 DEF Precheck, Verify, Session, Ended
      <4>5. ASSUME PostTakesEffect(t)
            PROVE  FALSE
        BY <1>6, <2>1, <4>3, <4>5 DEF PostTakesEffect, Session, Working, Ended
      <4>6. ASSUME Fallback(t)
            PROVE  FALSE
        BY <1>6, <2>1, <4>3, <4>6 DEF Fallback, Session, Ended
      <4>7. ASSUME PostFails(t) \/ GetFails(t) \/ Die(t)
            PROVE  FALSE
        BY <4>3, <4>7 DEF PostFails, GetFails, AfterError, Die, Working, Ended
      <4>8. ASSUME Lookup(t), recorded[session[t].user] = NoOne
            PROVE  FALSE
        BY <4>3, <4>8 DEF Lookup, Working
      <4>9. CASE Lookup(t) /\ recorded[session[t].user] # NoOne
        BY <2>1, <2>2, <4>9 DEF Lookup, Goto
      <4>10. CASE Deliver(t)
        BY <2>1, <2>2, <4>10 DEF Deliver, Goto
      <4> QED BY <4>1, <4>2, <4>4, <4>5, <4>6, <4>7, <4>8, <4>9, <4>10 DEF Step
    <3> QED BY <3>1, <3>2
  <2>4. CASE session[t].at \in {"deliver", "delivered"} /\ session'[t].account = session[t].account
    BY <1>3, <1>4, <2>4, ChargesStay
  <2>5. CASE /\ Lookup(t) /\ recorded[session[t].user] # NoOne
             /\ session'[t].account = session[t].account
    <3>1. session[t].user \in Usernames /\ session[t].account # 0
      BY <2>1, <2>5 DEF Lookup, SessionOk, Known, Holding, Sure, Working
    <3>2. PICK payer \in charged : session[payer].user = session[t].user
      BY <1>3, <2>5, <3>1
    <3>3. payer \in Tasks /\ session[payer].account # 0
      BY DEF IInv, TypeOK, ChargedInv
    <3>4. session[payer].account = session[t].account
      BY <1>1, <3>1, <3>2, <3>3 DEF KeptInv, SeenBySession
    <3> QED BY <1>4, <2>5, <3>4, ChargesStay
  <2>6. CASE Commit(t)
    <3>1. t \in charged'
      BY <2>6 DEF Commit
    <3> QED BY <3>1
  <2> QED BY <2>3, <2>4, <2>5, <2>6
<1> QED BY <1>1, <1>2, <1>5, <1>6 DEF PaidInv

-------------------------------------------------------------------------------
(* All the invariants together. *)
LEMMA Conditional == Spec => [](IInv /\ OnceInv /\ KeptInv /\ RowInv /\ PaidInv)
<1>1. Init => OnceInv /\ KeptInv /\ RowInv /\ PaidInv
  BY DEF Init, Blank, Nobody, OnceInv, OnePayer, KeptInv, SeenBySession, SeenBySync, RowInv, PaidInv
<1>2. /\ IInv /\ OnceInv /\ KeptInv /\ RowInv /\ PaidInv
      /\ [Next]_vars
      => IInv' /\ OnceInv' /\ KeptInv' /\ RowInv' /\ PaidInv'
  BY NextInv, OnceStep, KeptStep, RowStep, PaidStep
<1> QED BY <1>1, <1>2, InitInv, PTL DEF Spec

(* No account is charged twice, although two handlers may hold it -- as    *)
(* long as no reseller was deleted for good, or no account was and no name *)
(* has been that of two resellers.  The constraint is on usernames, not on *)
(* accounts: that the number of an account tells its username makes it     *)
(* enough.                                                                 *)
THEOREM ChargedOnce == Spec => []ChargedOncePerAccount
<1>1. IInv /\ OnceInv /\ RowInv => ChargedOncePerAccount
  <2> SUFFICES ASSUME IInv, OnceInv, RowInv, purged = {} \/ (NoneDeleted /\ NamesTell),
                      NEW t1 \in charged, NEW t2 \in charged,
                      session[t1].account = session[t2].account
               PROVE  t1 = t2
    BY DEF ChargedOncePerAccount
  <2>1. t1 \in Tasks /\ t2 \in Tasks /\ session[t1].account # 0
    BY DEF IInv, TypeOK, ChargedInv
  <2>2. session[t1].user = session[t2].user
    BY <2>1 DEF IInv, SameName
  <2> QED BY <2>2 DEF OnceInv, RowInv, OnePayer
<1> QED BY <1>1, Conditional, PTL

(* As long as no account is deleted and no name has been that of two       *)
(* resellers, the row of a charged username keeps naming the reseller who  *)
(* paid: through renaming, permanent deletion, and a sync that read the    *)
(* panel, the names and the rows long before it writes.                    *)
THEOREM RowKept == Spec => []ChargedRowKept
<1>1. RowInv => ChargedRowKept
  BY DEF RowInv, ChargedRowKept
<1> QED BY <1>1, Conditional, PTL

(* As long as no account and no reseller is deleted and no sync ran, a     *)
(* link is handed out only for an account that was charged, by this        *)
(* handler or by another one that took the account for its own.            *)
THEOREM OnlyPaidDelivered == Spec => []DeliveredIsPaid
<1>1. PaidInv => DeliveredIsPaid
  BY DEF PaidInv, DeliveredIsPaid
<1> QED BY <1>1, Conditional, PTL

-------------------------------------------------------------------------------
(* Of CreateEnds and SyncEnds, what does not need fairness: nothing goes on *)
(* for ever.  How many steps are left at a place, at most:                 *)
StepsLeft ==
    [idle |-> 9, precheck |-> 8, post |-> 7, verify |-> 6, fallback |-> 5, reverify |-> 4,
     lookup |-> 3, commit |-> 2, deliver |-> 1, delivered |-> 0, failed |-> 0, died |-> 0]
SyncLeft == [names |-> 3, rows |-> 2, write |-> 1, idle |-> 0]

(* Every step of a create or of a sync brings its end nearer, and no other  *)
(* step puts it off.                                                       *)
Advances ==
    [][/\ \A t \in Tasks :
            /\ session'[t] # session[t] => StepsLeft[session'[t].at] < StepsLeft[session[t].at]
            /\ Step(t) => session'[t] # session[t]
       /\ sync.at # "idle" /\ sync' # sync => SyncLeft[sync'.at] < SyncLeft[sync.at]
       /\ SyncStep => sync' # sync]_vars

LEMMA StepDescends ==
    ASSUME IInv, NEW t \in Tasks,
           Step(t) \/ \E r \in Resellers, u \in Usernames : Begin(t, r, u)
    PROVE  StepsLeft[session'[t].at] < StepsLeft[session[t].at]
<1>1. session \in [Tasks -> Session] /\ session[t] \in Session
  BY DEF IInv, TypeOK
<1>2. ASSUME NEW step \in Working \cup Ended, Goto(t, step) PROVE session'[t].at = step
  BY <1>1, <1>2, Forgets, FallsBack, GoesOn DEF Goto
<1>3. ASSUME NEW r \in Resellers, NEW u \in Usernames, Begin(t, r, u)
      PROVE  session[t].at = "idle" /\ session'[t].at = "precheck"
  BY <1>1, <1>3 DEF Begin, Session
<1>4. ASSUME Precheck(t)
      PROVE  session[t].at = "precheck" /\ session'[t].at \in {"post", "failed"}
  BY <1>1, <1>2, <1>4 DEF Precheck, Session, Ended
<1>5. ASSUME PostTakesEffect(t)
      PROVE  session[t].at = "post" /\ session'[t].at \in {"verify", "fallback", "failed"}
  BY <1>1, <1>2, <1>5 DEF PostTakesEffect, Session, Working, Ended
<1>6. ASSUME Fallback(t)
      PROVE  session[t].at = "fallback" /\ session'[t].at \in {"reverify", "failed"}
  BY <1>1, <1>2, <1>6 DEF Fallback, Session, Ended
<1>7. ASSUME GetFails(t)
      PROVE  \/ session[t].at = "verify" /\ session'[t].at = "fallback"
             \/ /\ session[t].at \in {"precheck", "fallback", "reverify"}
                /\ session'[t].at = "failed"
  BY <1>2, <1>7 DEF GetFails, AfterError, Working, Ended
<1>8. ASSUME Lookup(t)
      PROVE  session[t].at = "lookup" /\ session'[t].at \in {"commit", "deliver"}
  BY <1>2, <1>8 DEF Lookup, Working
<1>9. ASSUME Die(t) PROVE session[t].at \in Working /\ session'[t].at \in {"failed", "died"}
  BY <1>2, <1>9 DEF Die, Ended
<1>10. ASSUME PostFails(t) PROVE session[t].at = "post" /\ session'[t].at = "fallback"
  BY <1>2, <1>10 DEF PostFails, Working
<1>11. ASSUME Verify(t)
       PROVE  session[t].at \in {"verify", "reverify"} /\ session'[t].at = "lookup"
  BY <1>1, <1>11 DEF Verify, Session
<1>12. ASSUME Commit(t) PROVE session[t].at = "commit" /\ session'[t].at = "deliver"
  BY <1>2, <1>12 DEF Commit, Working
<1>13. ASSUME Deliver(t) PROVE session[t].at = "deliver" /\ session'[t].at = "delivered"
  BY <1>2, <1>13 DEF Deliver, Ended
<1> QED
  BY <1>3, <1>4, <1>5, <1>6, <1>7, <1>8, <1>9, <1>10, <1>11, <1>12, <1>13
     DEF Step, StepsLeft, Working

LEMMA SyncDescends ==
    ASSUME IInv, SyncStep
    PROVE  SyncLeft[sync'.at] < SyncLeft[sync.at]
<1>1. sync \in SyncState
  BY DEF IInv, TypeOK
<1>2. SyncIdle => sync'.at = "idle"
  BY <1>1 DEF SyncIdle, SyncState
<1>3. CASE SyncNames
  BY <1>1, <1>3 DEF SyncNames, SyncState, SyncLeft
<1>4. CASE SyncRead
  BY <1>1, <1>4 DEF SyncRead, SyncState, SyncLeft
<1>5. CASE SyncWrite \/ SyncFails
  BY <1>1, <1>2, <1>5 DEF SyncWrite, SyncFails, SyncState, SyncLeft
<1> QED BY <1>3, <1>4, <1>5 DEF SyncStep

(* A create never returns to a place it has left, and neither does a sync,  *)
(* however the panel answers and whatever the others do.                   *)
THEOREM CreateAdvances == Spec => Advances
<1>1. ASSUME IInv, [Next]_vars, NEW t \in Tasks
      PROVE  /\ session'[t] # session[t] => StepsLeft[session'[t].at] < StepsLeft[session[t].at]
             /\ Step(t) => session'[t] # session[t]
  <2>1. session[t] \in Session
    BY <1>1 DEF IInv, TypeOK
  <2>2. StepsLeft[session[t].at] \in Nat
    BY <2>1 DEF Session, Working, Ended, StepsLeft
  <2>3. session'[t] = session[t] \/ StepsLeft[session'[t].at] < StepsLeft[session[t].at]
    BY <1>1, WhoMoves, MovesItself, StepDescends
  <2>4. Step(t) => StepsLeft[session'[t].at] < StepsLeft[session[t].at]
    BY <1>1, StepDescends
  <2> QED BY <2>2, <2>3, <2>4
<1>2. ASSUME IInv, [Next]_vars
      PROVE  /\ sync.at # "idle" /\ sync' # sync => SyncLeft[sync'.at] < SyncLeft[sync.at]
             /\ SyncStep => sync' # sync
  <2>1. SyncStep => sync' # sync
    <3>1. SyncLeft[sync.at] \in Nat
      BY <1>2 DEF IInv, TypeOK, SyncState, SyncLeft
    <3> QED BY <1>2, <3>1, SyncDescends
  <2>2. sync.at # "idle" /\ sync' # sync => SyncStep
    BY <1>2, WhoSyncs DEF SyncList
  <2> QED BY <1>2, <2>1, <2>2, SyncDescends
<1>3. IInv /\ [Next]_vars =>
        [/\ \A t \in Tasks :
              /\ session'[t] # session[t] => StepsLeft[session'[t].at] < StepsLeft[session[t].at]
              /\ Step(t) => session'[t] # session[t]
         /\ sync.at # "idle" /\ sync' # sync => SyncLeft[sync'.at] < SyncLeft[sync.at]
         /\ SyncStep => sync' # sync]_vars
  BY <1>1, <1>2
<1> QED BY <1>3, Invariance, PTL DEF Spec, Advances
===============================================================================
