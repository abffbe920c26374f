----------------------------- MODULE BackupProofs -----------------------------
(***************************************************************************)
(* What Backup guarantees for any number of handlers, of presses, of       *)
(* admins and for any minutes.                                             *)
(*                                                                         *)
(* The settings and the job are changed one after the other, so that they  *)
(* differ while a handler is between the two, and may differ for good when *)
(* handlers overlapped.  The inductive invariant says what a handler that  *)
(* no other one overlapped may still rely on.                              *)
(***************************************************************************)
EXTENDS Backup, TLAPS

USE BackupAssumption DEF BackupAssumption

(* Every admin has the file or is still to get it. *)
SendInv(f) ==
    /\ f.at = "copied" => f.todo = Admins
    /\ f.at \in {"next", "alt", "main", "sent"} => f.served \cup f.todo = Admins
    /\ f.at = "sent" => f.todo = {}

(* Enabling and disabling write setting and job, the interval only the      *)
(* setting at first.                                                       *)
WholeInv(s) ==
    /\ s.at \in {"read", "remove"} => s.whole
    /\ s.at = "check" => ~s.whole

(* Whoever is alone, nobody else is under way, and the settings still are   *)
(* what he wrote or read.                                                  *)
AloneInv(t) ==
    session[t].alone =>
        /\ \A u \in Tasks : session[u].at # "idle" => u = t
        /\ session[t].at = "read" => enabled
        /\ session[t].at = "schedule" => enabled /\ session[t].minutes = interval
        /\ session[t].at = "remove" => ~enabled
        /\ session[t].at = "check" => /\ session[t].minutes = interval
                                      /\ ~tangled /\ ~enabled => job = 0

BusyInv ==
    \A t \in Tasks : session[t].at # "idle" => (tangled \/ session[t].alone) /\ AloneInv(t)

IInv ==
    /\ TypeOK
    /\ \A s \in Senders : SendInv(send[s])
    /\ \A t \in Tasks : WholeInv(session[t])
    /\ BusyInv
    /\ JobFollowsSettings

-------------------------------------------------------------------------------
LEMMA InitInv == Init => IInv
<1> SUFFICES ASSUME Init PROVE IInv OBVIOUS
<1> USE DEF Init
<1>1. TypeOK
  BY DEF TypeOK, Session, Send, Intervals, AtRest, NoSend
<1>2. \A s \in Senders : SendInv(send[s])
  BY DEF SendInv, NoSend
<1>3. (\A t \in Tasks : WholeInv(session[t])) /\ BusyInv
  BY DEF WholeInv, BusyInv, AtRest
<1>4. JobFollowsSettings
  BY DEF JobFollowsSettings
<1> QED BY <1>1, <1>2, <1>3, <1>4 DEF IInv

-------------------------------------------------------------------------------
(* The parts of the invariant that are about the settings and the job, and *)
(* those that are about the file.                                          *)
SettingsInv ==
    (\A t \in Tasks : WholeInv(session[t])) /\ BusyInv /\ JobFollowsSettings

(* The minutes that are kept are ones the scheduler takes as they are. *)
LEMMA Taken == ASSUME NEW minutes \in Intervals PROVE Scheduled(minutes) = minutes
BY DEF Scheduled, Intervals

(* A handler that commits a setting. *)
LEMMA BeginTypes ==
    ASSUME TypeOK, NEW t \in Tasks, NEW at \in {"read", "check", "remove"},
           NEW minutes \in Intervals, NEW whole \in BOOLEAN, Begin(t, at, minutes, whole)
    PROVE  session' \in [Tasks -> Session] /\ tangled' \in BOOLEAN
<1>1. ASSUME NEW u \in Tasks PROVE session'[u] \in Session
  <2>1. session[u] \in Session /\ (Busy = {}) \in BOOLEAN
    BY DEF TypeOK
  <2>2. CASE u = t
    BY <2>1, <2>2 DEF Begin, Session
  <2>3. CASE u # t
    BY <2>1, <2>3 DEF Begin, Session
  <2> QED BY <2>2, <2>3
<1>2. session' \in [Tasks -> Session]
  BY <1>1 DEF Begin
<1> QED BY <1>2 DEF Begin, TypeOK

(* Afterwards those that were under way are not alone, nor is it unless it  *)
(* was the only one.                                                       *)
LEMMA BeginOverlaps ==
    ASSUME TypeOK, NEW t \in Tasks, NEW at \in {"read", "check", "remove"},
           NEW minutes \in Intervals, NEW whole \in BOOLEAN, Begin(t, at, minutes, whole)
    PROVE  /\ session[t].at = "idle"
           /\ session'[t] = [at |-> at, minutes |-> minutes, alone |-> Busy = {}, whole |-> whole]
           /\ \A u \in Tasks \ {t} :
                /\ session'[u].at = session[u].at /\ session'[u].whole = session[u].whole
                /\ session[u].at # "idle" => ~session'[u].alone /\ tangled' /\ Busy # {}
           /\ ~tangled' => ~tangled /\ Busy = {}
<1>1. ASSUME NEW u \in Tasks \ {t}
      PROVE  /\ session'[u].at = session[u].at /\ session'[u].whole = session[u].whole
             /\ session[u].at # "idle" => ~session'[u].alone /\ tangled' /\ Busy # {}
  <2>1. session[u] \in Session
    BY DEF TypeOK
  <2>2. session'[u] = [session[u] EXCEPT !.alone = session[u].alone /\ session[u].at = "idle"]
    BY DEF Begin
  <2>3. session[u].at # "idle" => u \in Busy
    BY DEF Busy
  <2> QED BY <2>1, <2>2, <2>3 DEF Begin, Session
<1>2. session'[t] = [at |-> at, minutes |-> minutes, alone |-> Busy = {}, whole |-> whole]
  BY DEF Begin
<1> QED BY <1>1, <1>2 DEF Begin

(* If what it wrote is what AloneInv asks of one that is the only one, the *)
(* invariant is kept.                                                      *)
LEMMA BeginInv ==
    ASSUME IInv, NEW t \in Tasks, NEW at \in {"read", "check", "remove"},
           NEW minutes \in Intervals, NEW whole \in BOOLEAN, Begin(t, at, minutes, whole),
           whole <=> at # "check",
           at = "read" => enabled',
           at = "remove" => ~enabled',
           at = "check" => minutes = interval' /\ (Busy = {} /\ ~tangled /\ ~enabled' => job' = 0)
    PROVE  SettingsInv'
<1> USE DEF IInv
<1>1. /\ session[t].at = "idle"
      /\ session'[t].at = at /\ session'[t].minutes = minutes
      /\ session'[t].alone = (Busy = {}) /\ session'[t].whole = whole
      /\ ~tangled' => ~tangled /\ Busy = {}
      /\ (tangled' \/ Busy = {})
  BY BeginOverlaps DEF Begin
<1>2. \A u \in Tasks \ {t} :
         /\ session'[u].at = session[u].at /\ session'[u].whole = session[u].whole
         /\ session[u].at # "idle" => ~session'[u].alone /\ tangled' /\ Busy # {}
  BY BeginOverlaps
<1>3. \A u \in Tasks : WholeInv(session'[u])
  BY <1>1, <1>2 DEF WholeInv
<1>4. AloneInv(t)'
  <2> SUFFICES ASSUME Busy = {} PROVE AloneInv(t)'
    BY <1>1 DEF AloneInv
  <2>1. \A u \in Tasks : session'[u].at # "idle" => u = t
    BY <1>2
  <2> QED BY <1>1, <2>1 DEF AloneInv
<1>5. BusyInv'
  BY <1>1, <1>2, <1>4 DEF BusyInv, AloneInv
<1>6. JobFollowsSettings'
  BY <1>1 DEF JobFollowsSettings, Busy
<1> QED BY <1>3, <1>5, <1>6 DEF SettingsInv

(* A handler that is under way and not alone has made it known that the    *)
(* handlers are tangled.                                                   *)
LEMMA NotAlone ==
    ASSUME BusyInv, NEW t \in Tasks, session[t].at # "idle",
           NEW u \in Tasks \ {t}, session[u].at # "idle"
    PROVE  ~session[t].alone /\ ~session[u].alone /\ tangled
BY DEF BusyInv, AloneInv

(* One that ends, having brought the job in line with the settings if it   *)
(* was alone, keeps the invariant.                                         *)
LEMMA EndInv ==
    ASSUME IInv, NEW t \in Tasks, session[t].at # "idle", End(t), UNCHANGED <<enabled, interval>>,
           session[t].alone /\ (session[t].whole \/ ~tangled)
             => job' = IF enabled THEN interval ELSE 0
    PROVE  /\ session' \in [Tasks -> Session] /\ tangled' \in BOOLEAN
           /\ SettingsInv'
<1> USE DEF IInv
<1>1. AtRest \in Session
  BY DEF AtRest, Session, Intervals
<1>2. /\ session' \in [Tasks -> Session] /\ tangled' \in BOOLEAN
      /\ session'[t] = AtRest /\ \A u \in Tasks \ {t} : session'[u] = session[u]
  BY <1>1 DEF End, TypeOK
<1>3. \A u \in Tasks : WholeInv(session'[u])
  BY <1>2 DEF WholeInv, AtRest
<1>4. BusyInv'
  <2> SUFFICES ASSUME NEW u \in Tasks, session'[u].at # "idle"
               PROVE  (tangled' \/ session'[u].alone) /\ AloneInv(u)'
    BY DEF BusyInv
  <2>1. u # t /\ session'[u] = session[u]
    BY <1>2 DEF AtRest
  <2>2. ~session[t].alone /\ ~session[u].alone /\ tangled
    BY <2>1, NotAlone
  <2> QED BY <2>1, <2>2 DEF End, AloneInv
<1>5. JobFollowsSettings'
  <2> SUFFICES ASSUME ~tangled' PROVE job' = IF enabled THEN interval ELSE 0
    BY DEF JobFollowsSettings
  <2>1. session[t].alone /\ (session[t].whole \/ ~tangled)
    BY DEF End, BusyInv
  <2> QED BY <2>1
<1> QED BY <1>2, <1>3, <1>4, <1>5 DEF SettingsInv

(* One that goes on to make the job keeps it, if what it is going to make  *)
(* is what the settings say should it be alone.                            *)
LEMMA GoesOn ==
    ASSUME IInv, NEW t \in Tasks, session[t].at # "idle", NEW s \in Session,
           session' = [session EXCEPT ![t] = s], UNCHANGED <<enabled, interval, job, tangled>>,
           s.at = "schedule", s.alone = session[t].alone,
           s.alone => enabled /\ s.minutes = interval
    PROVE  session' \in [Tasks -> Session] /\ SettingsInv'
<1> USE DEF IInv
<1>1. /\ session' \in [Tasks -> Session]
      /\ session'[t] = s /\ \A u \in Tasks \ {t} : session'[u] = session[u]
  BY DEF TypeOK
<1>2. \A u \in Tasks : WholeInv(session'[u])
  BY <1>1 DEF WholeInv
<1>3. AloneInv(t)' /\ (tangled' \/ session'[t].alone)
  BY <1>1 DEF BusyInv, AloneInv
<1>4. ASSUME NEW u \in Tasks \ {t}, session'[u].at # "idle"
      PROVE  (tangled' \/ session'[u].alone) /\ AloneInv(u)'
  BY <1>1, <1>4, NotAlone DEF AloneInv
<1>5. BusyInv'
  BY <1>3, <1>4 DEF BusyInv
<1>6. JobFollowsSettings'
  BY <1>1 DEF JobFollowsSettings, Busy
<1> QED BY <1>1, <1>2, <1>5, <1>6 DEF SettingsInv

(* Nothing of the settings, the job and the handlers changes. *)
LEMMA SettingsStay ==
    ASSUME IInv, UNCHANGED <<enabled, interval, job, session, tangled>>
    PROVE  SettingsInv'
BY DEF IInv, SettingsInv, BusyInv, AloneInv, JobFollowsSettings, Busy

-------------------------------------------------------------------------------
(* A sender that goes on from f to g, leaving the others where they are.   *)
LEMMA SendGoesOn ==
    ASSUME IInv, NEW s \in Senders, NEW g \in Send, send' = [send EXCEPT ![s] = g],
           SendInv(g), Settings
    PROVE  IInv'
<1> USE DEF IInv
<1>1. /\ send' \in [Senders -> Send]
      /\ send'[s] = g /\ \A u \in Senders \ {s} : send'[u] = send[u]
  BY DEF TypeOK
<1>2. TypeOK'
  BY <1>1 DEF TypeOK, Settings
<1>3. \A u \in Senders : SendInv(send'[u])
  BY <1>1
<1>4. SettingsInv'
  BY SettingsStay DEF Settings
<1> QED BY <1>2, <1>3, <1>4 DEF SettingsInv

LEMMA CopyInv == ASSUME IInv, NEW s \in Senders, Copy(s) PROVE IInv'
<1> DEFINE g == [NoSend EXCEPT !.at = "copied", !.todo = Admins]
<1>1. g \in Send /\ SendInv(g)
  BY DEF Send, NoSend, SendInv
<1>2. send' = [send EXCEPT ![s] = g] /\ Settings
  BY DEF Copy
<1> HIDE DEF g
<1> QED BY <1>1, <1>2, SendGoesOn

LEMMA ReadTokenInv == ASSUME IInv, NEW s \in Senders, ReadToken(s) PROVE IInv'
<1> DEFINE f == send[s]
           g == [f EXCEPT !.at = "next", !.alt = token]
<1>1. f \in Send /\ f.at = "copied" /\ SendInv(f) /\ token \in BOOLEAN
  BY DEF IInv, TypeOK, ReadToken
<1>2. g \in Send /\ SendInv(g)
  BY <1>1 DEF Send, SendInv
<1>3. send' = [send EXCEPT ![s] = g] /\ Settings
  BY DEF ReadToken
<1> HIDE DEF g
<1> QED BY <1>2, <1>3, SendGoesOn

LEMMA CallInv == ASSUME IInv, NEW s \in Senders, NEW a \in Admins, Call(s, a) PROVE IInv'
<1> DEFINE f == send[s]
           g == [f EXCEPT !.at = IF f.alt THEN "alt" ELSE "main", !.to = {a}]
<1>1. f \in Send /\ f.at = "next" /\ SendInv(f)
  BY DEF IInv, TypeOK, Call
<1>2. g \in Send /\ SendInv(g)
  BY <1>1 DEF Send, SendInv
<1>3. send' = [send EXCEPT ![s] = g] /\ Settings
  BY DEF Call
<1> HIDE DEF g
<1> QED BY <1>2, <1>3, SendGoesOn

LEMMA DeliveredInv == ASSUME IInv, NEW s \in Senders, Delivered(s) PROVE IInv'
<1> DEFINE f == send[s]
           g == [Done(f) EXCEPT !.served = @ \cup f.to]
<1>1. f \in Send /\ f.at \in {"alt", "main"} /\ SendInv(f)
  BY DEF IInv, TypeOK, Delivered
<1>2. g \in Send /\ g.at = "next" /\ g.todo = f.todo \ f.to /\ g.served = f.served \cup f.to
  BY <1>1 DEF Send, Done
<1>3. SendInv(g)
  BY <1>1, <1>2 DEF SendInv, Send
<1>4. send' = [send EXCEPT ![s] = g] /\ Settings
  BY DEF Delivered
<1> HIDE DEF g
<1> QED BY <1>2, <1>3, <1>4, SendGoesOn

LEMMA CallFailsInv == ASSUME IInv, NEW s \in Senders, CallFails(s) PROVE IInv'
<1> DEFINE f == send[s]
<1>1. f \in Send /\ f.at \in {"alt", "main"} /\ SendInv(f)
  BY DEF IInv, TypeOK, CallFails
<1>2. PICK h \in MaybeServed(f) :
        send' = [send EXCEPT ![s] = IF f.at = "alt" THEN AltFailed(h) ELSE MainFailed(h)]
  BY DEF CallFails
<1>3. h \in Send /\ h.at = f.at /\ SendInv(h)
  BY <1>1, <1>2 DEF MaybeServed, Send, SendInv
<1> DEFINE g == IF f.at = "alt" THEN AltFailed(h) ELSE MainFailed(h)
<1>4. g \in Send /\ SendInv(g)
  BY <1>1, <1>3 DEF AltFailed, MainFailed, Send, SendInv
<1>5. send' = [send EXCEPT ![s] = g] /\ Settings
  BY <1>2 DEF CallFails
<1> HIDE DEF g
<1> QED BY <1>4, <1>5, SendGoesOn

LEMMA FinishInv == ASSUME IInv, NEW s \in Senders, Finish(s) PROVE IInv'
<1> DEFINE f == send[s]
           g == [f EXCEPT !.at = "sent"]
<1>1. f \in Send /\ f.at = "next" /\ f.todo = {} /\ SendInv(f)
  BY DEF IInv, TypeOK, Finish
<1>2. g \in Send /\ SendInv(g)
  BY <1>1 DEF Send, SendInv
<1>3. send' = [send EXCEPT ![s] = g] /\ Settings
  BY DEF Finish
<1> HIDE DEF g
<1> QED BY <1>2, <1>3, SendGoesOn

LEMMA SendStepInv == ASSUME IInv, NEW s \in Senders, SendStep(s) PROVE IInv'
BY CopyInv, ReadTokenInv, CallInv, DeliveredInv, CallFailsInv, FinishInv DEF SendStep

-------------------------------------------------------------------------------
(* Handlers do not send. *)
LEMMA HandlerInv ==
    ASSUME IInv, TypeOK', SettingsInv', UNCHANGED send
    PROVE  IInv'
BY DEF IInv, SettingsInv

LEMMA EnableInv == ASSUME IInv, NEW t \in Tasks, Enable(t) PROVE IInv'
<1>1. Begin(t, "read", Default, TRUE) /\ Default \in Intervals
  BY DEF Enable, Intervals
<1>2. SettingsInv'
  BY <1>1, BeginInv DEF Enable
<1>3. TypeOK'
  BY <1>1, BeginTypes DEF Enable, Begin, IInv, TypeOK
<1> QED BY <1>1, <1>2, <1>3, HandlerInv DEF Begin

LEMMA DisableInv == ASSUME IInv, NEW t \in Tasks, Disable(t) PROVE IInv'
<1>1. Begin(t, "remove", Default, TRUE) /\ Default \in Intervals
  BY DEF Disable, Intervals
<1>2. SettingsInv'
  BY <1>1, BeginInv DEF Disable
<1>3. TypeOK'
  BY <1>1, BeginTypes DEF Disable, Begin, IInv, TypeOK
<1> QED BY <1>1, <1>2, <1>3, HandlerInv DEF Begin

LEMMA SetIntervalInv ==
    ASSUME IInv, NEW t \in Tasks, NEW minutes \in Typed, SetInterval(t, minutes) PROVE IInv'
<1>1. Begin(t, "check", minutes, FALSE) /\ minutes \in Intervals
  <2>1. minutes \in Nat /\ minutes >= 1
    BY DEF SetInterval, ValidMinutes
  <2>2. minutes # 0
    BY <2>1
  <2> QED BY <2>2 DEF SetInterval, Intervals
<1>2. Busy = {} /\ ~tangled /\ ~enabled' => job' = 0
  BY DEF SetInterval, IInv, JobFollowsSettings
<1>3. SettingsInv'
  BY <1>1, <1>2, BeginInv DEF SetInterval
<1>4. TypeOK'
  BY <1>1, BeginTypes DEF SetInterval, Begin, IInv, TypeOK
<1> QED BY <1>1, <1>3, <1>4, HandlerInv DEF Begin

LEMMA ReadIntervalInv == ASSUME IInv, NEW t \in Tasks, ReadInterval(t) PROVE IInv'
<1> DEFINE s == [session[t] EXCEPT !.at = "schedule", !.minutes = interval]
<1>1. session[t] \in Session /\ session[t].at = "read" /\ interval \in Intervals /\ AloneInv(t)
  BY DEF IInv, TypeOK, BusyInv, ReadInterval
<1>2. /\ s \in Session /\ s.at = "schedule" /\ s.alone = session[t].alone
      /\ s.alone => enabled /\ s.minutes = interval
  BY <1>1 DEF Session, AloneInv
<1>3. session' = [session EXCEPT ![t] = s] /\ UNCHANGED <<enabled, interval, token, job, tangled, send>>
  BY DEF ReadInterval
<1> HIDE DEF s
<1>4. session' \in [Tasks -> Session] /\ SettingsInv'
  BY <1>1, <1>2, <1>3, GoesOn
<1>5. TypeOK'
  BY <1>3, <1>4 DEF IInv, TypeOK
<1> QED BY <1>3, <1>4, <1>5, HandlerInv

LEMMA ScheduleInv == ASSUME IInv, NEW t \in Tasks, Schedule(t) PROVE IInv'
<1>1. session[t] \in Session /\ session[t].at = "schedule" /\ AloneInv(t)
  BY DEF IInv, TypeOK, BusyInv, Schedule
<1>2. session[t].minutes \in Intervals /\ job' = session[t].minutes
  BY <1>1, Taken DEF Session, Schedule
<1>3. session' \in [Tasks -> Session] /\ tangled' \in BOOLEAN /\ SettingsInv'
  BY <1>1, <1>2, EndInv DEF Schedule, AloneInv
<1>4. TypeOK'
  BY <1>2, <1>3 DEF IInv, TypeOK, Schedule
<1> QED BY <1>3, <1>4, HandlerInv DEF Schedule

LEMMA RemoveJobInv == ASSUME IInv, NEW t \in Tasks, RemoveJob(t) PROVE IInv'
<1>1. session[t].at = "remove" /\ AloneInv(t)
  BY DEF IInv, BusyInv, RemoveJob
<1>2. session' \in [Tasks -> Session] /\ tangled' \in BOOLEAN /\ SettingsInv'
  BY <1>1, EndInv DEF RemoveJob, AloneInv
<1>3. TypeOK'
  BY <1>2 DEF IInv, TypeOK, RemoveJob
<1> QED BY <1>2, <1>3, HandlerInv DEF RemoveJob

LEMMA CheckEnabledInv == ASSUME IInv, NEW t \in Tasks, CheckEnabled(t) PROVE IInv'
<1>1. session[t] \in Session /\ session[t].at = "check" /\ AloneInv(t) /\ ~session[t].whole
  BY DEF IInv, TypeOK, BusyInv, WholeInv, CheckEnabled
<1>2. session' \in [Tasks -> Session] /\ tangled' \in BOOLEAN /\ SettingsInv'
  <2>1. CASE enabled
    <3> DEFINE s == [session[t] EXCEPT !.at = "schedule"]
    <3>1. /\ s \in Session /\ s.at = "schedule" /\ s.alone = session[t].alone
          /\ s.alone => enabled /\ s.minutes = interval
      BY <1>1, <2>1 DEF Session, AloneInv
    <3>2. session' = [session EXCEPT ![t] = s] /\ UNCHANGED <<enabled, interval, job, tangled>>
      BY <2>1 DEF CheckEnabled
    <3> HIDE DEF s
    <3> QED BY <1>1, <3>1, <3>2, GoesOn DEF IInv, TypeOK
  <2>2. CASE ~enabled
    <3>1. End(t) /\ UNCHANGED <<enabled, interval, job>>
      BY <2>2 DEF CheckEnabled
    <3> QED BY <1>1, <2>2, <3>1, EndInv DEF AloneInv
  <2> QED BY <2>1, <2>2
<1>3. TypeOK'
  BY <1>2 DEF IInv, TypeOK, CheckEnabled
<1> QED BY <1>2, <1>3, HandlerInv DEF CheckEnabled

LEMMA SetTokenInv == ASSUME IInv, NEW stored \in BOOLEAN, SetToken(stored) PROVE IInv'
<1>1. SettingsInv'
  BY SettingsStay DEF SetToken
<1>2. TypeOK'
  BY DEF IInv, TypeOK, SetToken
<1> QED BY <1>1, <1>2, HandlerInv DEF SetToken

(* After a restart nobody is under way and the job is made anew. *)
LEMMA RestartInv == ASSUME IInv, Restart PROVE IInv'
<1> USE DEF Restart
<1>1. AtRest \in Session /\ NoSend \in Send
  BY DEF AtRest, NoSend, Session, Send, Intervals
<1>2. job' = IF enabled THEN interval ELSE 0
  BY Taken DEF IInv, TypeOK
<1>3. TypeOK'
  BY <1>1, <1>2 DEF IInv, TypeOK
<1>4. \A s \in Senders : SendInv(send'[s])
  BY DEF SendInv, NoSend
<1>5. (\A t \in Tasks : WholeInv(session'[t])) /\ BusyInv'
  BY DEF WholeInv, BusyInv, AtRest
<1>6. JobFollowsSettings'
  BY <1>2 DEF JobFollowsSettings
<1> QED BY <1>3, <1>4, <1>5, <1>6 DEF IInv

-------------------------------------------------------------------------------
LEMMA Invariance == Spec => []IInv
<1>1. IInv /\ [Next]_vars => IInv'
  <2> SUFFICES ASSUME IInv, [Next]_vars PROVE IInv' OBVIOUS
  <2>1. ASSUME NEW t \in Tasks, Enable(t) \/ ReadInterval(t) \/ Schedule(t) PROVE IInv'
    BY <2>1, EnableInv, ReadIntervalInv, ScheduleInv
  <2>2. ASSUME NEW t \in Tasks, Disable(t) \/ RemoveJob(t) \/ CheckEnabled(t) PROVE IInv'
    BY <2>2, DisableInv, RemoveJobInv, CheckEnabledInv
  <2>3. ASSUME NEW t \in Tasks, NEW minutes \in Typed, SetInterval(t, minutes) PROVE IInv'
    BY <2>3, SetIntervalInv
  <2>4. ASSUME NEW stored \in BOOLEAN, SetToken(stored) PROVE IInv'
    BY <2>4, SetTokenInv
  <2>5. ASSUME NEW s \in Senders, SendStep(s) PROVE IInv'
    BY <2>5, SendStepInv
  <2>6. CASE UNCHANGED vars
    <3>1. SettingsInv'
      BY <2>6, SettingsStay DEF vars
    <3>2. TypeOK'
      BY <2>6 DEF vars, IInv, TypeOK
    <3> QED BY <2>6, <3>1, <3>2, HandlerInv DEF vars
  <2> QED BY <2>1, <2>2, <2>3, <2>4, <2>5, <2>6, RestartInv DEF Next
<1> QED BY <1>1, InitInv, PTL DEF Spec

(* Every variable keeps its type: the minutes of the job are ones an admin *)
(* may have typed.                                                         *)
THEOREM TypeCorrect == Spec => []TypeOK
BY Invariance, PTL DEF IInv

(* scheduler.py:23, main.py:27: once no handler is under way the job is    *)
(* what the settings say, unless handlers overlapped and none has set it   *)
(* right since, however many there are.                                    *)
THEOREM JobCorrect == Spec => []JobFollowsSettings
BY Invariance, PTL DEF IInv

(* backup.py:244: success is only reported when every admin has the file,  *)
(* however the bots were changed or failed meanwhile.                      *)
THEOREM ReportCorrect == Spec => []SentToAll
<1>1. IInv => SentToAll
  BY DEF IInv, SendInv, SentToAll
<1> QED BY <1>1, Invariance, PTL
===============================================================================
