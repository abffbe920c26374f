-------------------------------- MODULE Backup --------------------------------
(***************************************************************************)
(* Backups of the database: the settings and the scheduler's job that the  *)
(* admin's buttons change (handlers/admin.py, services/scheduler.py), and  *)
(* what the job and the "now" button send (services/backup.py).            *)
(*                                                                         *)
(* The job lives in memory, the settings in the database; a handler        *)
(* changes the one after the other, with other handlers in between.  A     *)
(* restart makes the job from the settings.                                *)
(***************************************************************************)
EXTENDS Naturals

CONSTANTS
    Tasks,          \* admins' presses that change the settings
    Typed,          \* numbers they type for the minutes
    Default,        \* DEFAULT_BACKUP_INTERVAL_MINUTES
    Admins,         \* settings.admin_ids
    Presses,        \* presses of the "now" button
    Job             \* the run of the job

ASSUME BackupAssumption ==
    /\ Typed \subseteq Nat /\ Default \in Typed \ {0}
    /\ Job \notin Presses

VARIABLES
    enabled, interval,  \* the settings in bot_settings
    token,          \* whether one of a bot for backups is stored
    job,            \* minutes of the scheduler's job, 0 if there is none
    session,        \* session[t], progress of a handler of t
    tangled,        \* handlers have overlapped and none has set it right (history)
    send            \* send[s], progress of send_database_backup

vars == <<enabled, interval, token, job, session, tangled, send>>

Intervals == Typed \ {0}
Senders == Presses \cup {Job}

(* alone: no other handler has been under way (history). *)
Session == [at: {"idle", "read", "check", "schedule", "remove"}, minutes: Intervals,
            alone: BOOLEAN, whole: BOOLEAN]

(* to: whom alt or main, one of the bots, is sending it.  served: the       *)
(* admins who have the file (history).                                      *)
Send == [at: {"idle", "copied", "next", "alt", "main", "sent", "error"}, alt: BOOLEAN,
         todo: SUBSET Admins, to: SUBSET Admins, served: SUBSET Admins]

TypeOK ==
    /\ enabled \in BOOLEAN /\ interval \in Intervals /\ token \in BOOLEAN
    /\ job \in Intervals \cup {0}
    /\ session \in [Tasks -> Session]
    /\ tangled \in BOOLEAN
    /\ send \in [Senders -> Send]

AtRest == [at |-> "idle", minutes |-> Default, alone |-> TRUE, whole |-> FALSE]
NoSend == [at |-> "idle", alt |-> FALSE, todo |-> {}, to |-> {}, served |-> {}]

Init ==
    /\ enabled = FALSE /\ interval = Default /\ token = FALSE
    /\ job = 0
    /\ session = [t \in Tasks |-> AtRest]
    /\ tangled = FALSE
    /\ send = [s \in Senders |-> NoSend]

-------------------------------------------------------------------------------
Busy == {t \in Tasks : session[t].at # "idle"}

KeptJob(minutes) == IF job = 0 THEN minutes ELSE job  \* mutant: the present job is kept
(* schedule_backup_job *)
Scheduled(minutes) == IF minutes < 1 THEN 1 ELSE minutes

AnyMinutes(minutes) == TRUE  \* mutant: the number is not checked
ValidMinutes(minutes) == minutes >= 1

(* A handler of t begins with the commit of a setting; from now on it and  *)
(* those that are under way may overtake each other.                       *)
Begin(t, at, minutes, whole) ==
    /\ session[t].at = "idle"
    /\ session' = [u \in Tasks |->
         IF u = t THEN [at |-> at, minutes |-> minutes, alone |-> Busy = {}, whole |-> whole]
         ELSE [session[u] EXCEPT !.alone = @ /\ session[u].at = "idle"]]
    /\ tangled' = (tangled \/ Busy # {})
    /\ UNCHANGED <<token, send>>

(* One that writes both the setting and the job, alone, sets them right. *)
End(t) ==
    /\ session' = [session EXCEPT ![t] = AtRest]
    /\ tangled' = (tangled /\ ~(session[t].alone /\ session[t].whole))

(* backup_enable_cb: the setting is written, the interval read, the job made. *)
Enable(t) ==
    /\ enabled' = TRUE
    /\ Begin(t, "read", Default, TRUE)
    /\ UNCHANGED <<interval, job>>

ReadInterval(t) ==
    /\ session[t].at = "read"
    /\ session' = [session EXCEPT ![t].at = "schedule", ![t].minutes = interval]
    /\ UNCHANGED <<enabled, interval, token, job, tangled, send>>

Schedule(t) ==
    /\ session[t].at = "schedule"
    /\ job' = Scheduled(session[t].minutes)
    /\ End(t)
    /\ UNCHANGED <<enabled, interval, token, send>>

(* backup_disable_cb *)
Disable(t) ==
    /\ enabled' = FALSE
    /\ Begin(t, "remove", Default, TRUE)
    /\ UNCHANGED <<interval, job>>

RemoveJob(t) ==
    /\ session[t].at = "remove"
    /\ job' = 0
    /\ End(t)
    /\ UNCHANGED <<enabled, interval, token, send>>

(* backup_interval_value: the job gets what was typed if backups are enabled. *)
SetInterval(t, minutes) ==
    /\ ValidMinutes(minutes)
    /\ interval' = minutes
    /\ Begin(t, "check", minutes, FALSE)
    /\ UNCHANGED <<enabled, job>>

CheckEnabled(t) ==
    /\ session[t].at = "check"
    /\ IF enabled
       THEN session' = [session EXCEPT ![t].at = "schedule"] /\ UNCHANGED tangled
       ELSE End(t)
    /\ UNCHANGED <<enabled, interval, token, job, send>>

(* backup_bot_token_value, backup_bot_clear *)
SetToken(stored) ==
    /\ token' = stored
    /\ UNCHANGED <<enabled, interval, job, session, tangled, send>>

Settings == UNCHANGED <<enabled, interval, token, job, session, tangled>>

(* send_database_backup: the file is copied; the job runs once at a time. *)
Copy(s) ==
    /\ send[s].at \in {"idle", "sent", "error"}
    /\ s = Job => job # 0
    /\ send' = [send EXCEPT ![s] = [NoSend EXCEPT !.at = "copied", !.todo = Admins]]
    /\ Settings

ReadToken(s) ==
    /\ send[s].at = "copied"
    /\ send' = [send EXCEPT ![s].at = "next", ![s].alt = token]
    /\ Settings

(* The next admin: by the bot for backups if there is one, *)
Call(s, a) ==
    LET f == send[s]
    IN  /\ f.at = "next" /\ a \in f.todo
        /\ send' = [send EXCEPT ![s].at = IF f.alt THEN "alt" ELSE "main", ![s].to = {a}]
        /\ Settings

Done(f) == [f EXCEPT !.at = "next", !.todo = @ \ f.to, !.to = {}]
Delivered(s) ==
    LET f == send[s]
    IN  /\ f.at \in {"alt", "main"}
        /\ send' = [send EXCEPT ![s] = [Done(f) EXCEPT !.served = @ \cup f.to]]
        /\ Settings

(* A call that fails may have been done all the same. *)
MaybeServed(f) == {f, [f EXCEPT !.served = @ \cup f.to]}

AltSkipped(f) == Done(f)  \* mutant: a failure of the other bot is only logged
AltFailed(f) == [f EXCEPT !.at = "main"]

MainRepeated(f) == [f EXCEPT !.at = "next", !.to = {}]  \* mutant: the main bot tries again and again
MainFailed(f) == [f EXCEPT !.at = "error", !.to = {}]

(* and when that one fails by the main bot, whose first failure ends all.  *)
CallFails(s) ==
    LET f == send[s]
    IN  /\ f.at \in {"alt", "main"}
        /\ \E g \in MaybeServed(f) :
             send' = [send EXCEPT ![s] = IF f.at = "alt" THEN AltFailed(g) ELSE MainFailed(g)]
        /\ Settings

(* backup_last_time is written, success is reported. *)
Finish(s) ==
    /\ send[s].at = "next" /\ send[s].todo = {}
    /\ send' = [send EXCEPT ![s].at = "sent"]
    /\ Settings

(* The process ends anywhere; restore_backup_job runs before the polling.  *)
Restart ==
    /\ session' = [t \in Tasks |-> AtRest]
    /\ send' = [s \in Senders |-> NoSend]
    /\ job' = IF enabled THEN Scheduled(interval) ELSE 0
    /\ tangled' = FALSE
    /\ UNCHANGED <<enabled, interval, token>>

SendStep(s) ==
    \/ Copy(s) \/ ReadToken(s) \/ Delivered(s) \/ CallFails(s) \/ Finish(s)
    \/ \E a \in Admins : Call(s, a)

Next ==
    \/ \E t \in Tasks :
         \/ Enable(t) \/ ReadInterval(t) \/ Schedule(t)
         \/ Disable(t) \/ RemoveJob(t) \/ CheckEnabled(t)
         \/ \E minutes \in Typed : SetInterval(t, minutes)
    \/ \E stored \in BOOLEAN : SetToken(stored)
    \/ \E s \in Senders : SendStep(s)
    \/ Restart

Spec == Init /\ [][Next]_vars

(* The scheduler runs its job, and each call to Telegram ends in time. *)
Fairness == WF_vars(SendStep(Job))
FairSpec == Spec /\ Fairness

-------------------------------------------------------------------------------
(* scheduler.py:23, main.py:27: the job is what the settings say once no    *)
(* handler is under way, after every restart and after every enabling or    *)
(* disabling that no other handler overlapped, whatever came before.        *)
JobFollowsSettings ==
    Busy = {} /\ ~tangled => job = IF enabled THEN interval ELSE 0

(* backup.py:244: success is reported, and the time of the last backup     *)
(* written, only when every admin has the file, by one bot or the other.   *)
SentToAll == \A s \in Senders : send[s].at = "sent" => send[s].served = Admins

(* As long as there is a job, backups go on: one that fails, or a bot that *)
(* was changed meanwhile, is not the last.                                 *)
BackupsGoOn == <>[](job # 0) => []<>(send[Job].at = "copied")
===============================================================================
