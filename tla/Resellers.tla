------------------------------- MODULE Resellers -------------------------------
(***************************************************************************)
(* Who is a reseller: the tables resellers and reseller_telegram_accounts  *)
(* and the message of a disabled reseller (database/repositories.py), the  *)
(* admin's buttons and forms that change them (handlers/admin.py,          *)
(* handlers/admin_ext.py), and the middlewares that look them up for every *)
(* update (middlewares/).                                                  *)
(*                                                                         *)
(* A form keeps the id of its reseller while others delete it for good;    *)
(* SQLite gives the largest id again and checks no foreign key.  Nothing   *)
(* removes an account of a reseller that stays, or chooses its primary     *)
(* one: the buttons for it only send their list again (admin.py:1010).     *)
(***************************************************************************)
EXTENDS Integers

CONSTANTS
    MaxId,          \* bound of the ids of resellers
    MaxBorn,        \* bound of how many are ever added
    People,         \* Telegram ids, none of an admin
    Nobody,
    Tasks           \* admins' forms

ASSUME ResellersAssumption == MaxId \in Nat /\ MaxBorn \in Nat /\ Nobody \notin People

Ids == 1 .. MaxId

VARIABLES
    status,         \* status[r]; "none": there is no such row
    telegram,       \* telegram[r], resellers.telegram_id
    born,           \* born[r], which of all resellers has the id r (history)
    count,          \* how many were ever added (history)
    account,        \* account[p], the row of reseller_telegram_accounts with p
    message,        \* message[r], the value of rmsg:<id>
    form,           \* form[t], what an admin is about to do
    maintenance,
    chat            \* chat[p], an update of p on its way to a handler

vars == <<status, telegram, born, count, account, message, form, maintenance, chat>>

(* for: the reseller a record is meant for.  late: it was not there any    *)
(* more when the record was written (history).                             *)
Row == [reseller: Ids, primary: BOOLEAN, for: 1 .. MaxBorn, late: BOOLEAN]
NoRow == [reseller |-> 0]
Text == [for: 1 .. MaxBorn, late: BOOLEAN]
NoText == [for |-> 0, late |-> FALSE]
Statuses == {"active", "disabled", "archived"}
Form == [at: {"idle", "add", "message", "write"}, reseller: {0} \cup Ids,
         for: 0 .. MaxBorn, told: BOOLEAN, to: Statuses, seen: Statuses]
Chat == [at: {"none", "known", "open", "told", "served"}, reseller: {0} \cup Ids,
         status: Statuses, for: 0 .. MaxBorn, text: Text \cup {NoText}]

TypeOK ==
    /\ status \in [Ids -> Statuses \cup {"none"}]
    /\ telegram \in [Ids -> People \cup {Nobody}]
    /\ born \in [Ids -> 0 .. MaxBorn] /\ count \in 0 .. MaxBorn
    /\ account \in [People -> Row \cup {NoRow}]
    /\ message \in [Ids -> Text \cup {NoText}]
    /\ form \in [Tasks -> Form]
    /\ maintenance \in BOOLEAN
    /\ chat \in [People -> Chat]

NoForm == [at |-> "idle", reseller |-> 0, for |-> 0, told |-> FALSE,
           to |-> "disabled", seen |-> "active"]
NoChat == [at |-> "none", reseller |-> 0, status |-> "active", for |-> 0, text |-> NoText]

Init ==
    /\ status = [r \in Ids |-> "none"]
    /\ telegram = [r \in Ids |-> Nobody]
    /\ born = [r \in Ids |-> 0] /\ count = 0
    /\ account = [p \in People |-> NoRow]
    /\ message = [r \in Ids |-> NoText]
    /\ form = [t \in Tasks |-> NoForm]
    /\ maintenance = FALSE
    /\ chat = [p \in People |-> NoChat]

-------------------------------------------------------------------------------
Live == {r \in Ids : status[r] # "none"}

(* SQLite gives a new row the id after the largest in the table, so an id  *)
(* comes back when the row that had the largest one was deleted.           *)
NextId(id) == (\A other \in Live : other < id) /\ (id = 1 \/ id - 1 \in Live)

AccountsOf(r) == {p \in People : account[p].reseller = r}

(* get_by_telegram_id: by an account, else by the column of resellers. *)
LookupByColumn(p) == {r \in Live : telegram[r] = p}
LookupAnyRow(p) == IF account[p] # NoRow THEN {account[p].reseller} ELSE LookupByColumn(p)  \* mutant: taken although the row is gone
Lookup(p) == IF account[p] # NoRow THEN {account[p].reseller} \cap Live ELSE LookupByColumn(p)

(* A record meant for the reseller that was the d-th, written for id r. *)
IsLate(r, d) == status[r] = "none" \/ born[r] # d

SecondRow(r) == [reseller |-> r, primary |-> FALSE, for |-> count + 1, late |-> FALSE]  \* mutant: add leaves is_primary at its default
FirstRow(r) == [reseller |-> r, primary |-> TRUE, for |-> count + 1, late |-> FALSE]

(* add_confirm, with ResellerRepository.add: both ids are unique. *)
Add(p, r) ==
    /\ count < MaxBorn /\ NextId(r)
    /\ account[p] = NoRow /\ LookupByColumn(p) = {}
    /\ status' = [status EXCEPT ![r] = "active"]
    /\ telegram' = [telegram EXCEPT ![r] = p]
    /\ born' = [born EXCEPT ![r] = count + 1]
    /\ count' = count + 1
    /\ account' = [account EXCEPT ![p] = FirstRow(r)]
    /\ UNCHANGED <<message, form, maintenance, chat>>

SameReseller == UNCHANGED <<status, telegram, born, count>>

(* A button with the id of a reseller; it may be an old one.  The add form  *)
(* does not look the reseller up,                                           *)
BeginAdd(t, r) ==
    /\ form[t].at = "idle" /\ born[r] > 0
    /\ form' = [form EXCEPT ![t] = [NoForm EXCEPT !.at = "add", !.reseller = r, !.for = born[r]]]
    /\ SameReseller /\ UNCHANGED <<account, message, maintenance, chat>>

(* nor does its end, telegram_account_add_value. *)
CommitAdd(t, p) ==
    LET f == form[t]
    IN  /\ f.at = "add" /\ account[p] = NoRow
        /\ account' = [account EXCEPT ![p] = [reseller |-> f.reseller, primary |-> FALSE,
                          for |-> f.for, late |-> IsLate(f.reseller, f.for)]]
        /\ form' = [form EXCEPT ![t] = NoForm]
        /\ SameReseller /\ UNCHANGED <<message, maintenance, chat>>

(* _prompt_disable *)
AskMessage(t, r) ==
    /\ form[t].at = "idle" /\ r \in Live
    /\ form' = [form EXCEPT ![t] = [NoForm EXCEPT !.at = "message", !.reseller = r, !.for = born[r]]]
    /\ SameReseller /\ UNCHANGED <<account, message, maintenance, chat>>

(* A change of status reads the reseller, and goes on if there is one: the  *)
(* buttons that disable without a message, activate or archive,             *)
ReadFor(t, r, to) ==
    /\ form[t].at = "idle" /\ r \in Live
    /\ form' = [form EXCEPT ![t] = [NoForm EXCEPT !.at = "write", !.reseller = r,
                  !.for = born[r], !.to = to, !.seen = status[r]]]
    /\ SameReseller /\ UNCHANGED <<account, message, maintenance, chat>>

(* and _disable with the message that was asked for.  *)
ReadForMessage(t) ==
    LET f == form[t]
    IN  /\ f.at = "message"
        /\ form' = [form EXCEPT ![t] =
                      IF f.reseller \notin Live THEN NoForm
                      ELSE [f EXCEPT !.at = "write", !.told = TRUE, !.seen = status[f.reseller]]]
        /\ SameReseller /\ UNCHANGED <<account, message, maintenance, chat>>

(* The message that is there afterwards: of the active, none.  *)
Written(f) ==
    IF f.to = "archived" THEN message[f.reseller]
    ELSE IF f.told THEN [for |-> f.for, late |-> IsLate(f.reseller, f.for)]
    ELSE NoText

(* The change is written: who has the status already is not written again, *)
(* so that nobody notices when the row is gone; else the UPDATE that       *)
(* matches none undoes everything.                                         *)
WriteStatus(t) ==
    LET f == form[t]
    IN  /\ f.at = "write"
        /\ form' = [form EXCEPT ![t] = NoForm]
        /\ IF f.seen # f.to /\ f.reseller \notin Live
           THEN UNCHANGED <<status, message>>
           ELSE /\ status' = IF f.seen = f.to THEN status
                             ELSE [status EXCEPT ![f.reseller] = f.to]
                /\ message' = [message EXCEPT ![f.reseller] = Written(f)]
        /\ UNCHANGED <<telegram, born, count, account, maintenance, chat>>

WithoutPrimary(r) == [p \in People |-> IF account[p].reseller = r /\ account[p].primary THEN NoRow ELSE account[p]]  \* mutant: only the reseller's own account goes
WithoutAccounts(r) == [p \in People |-> IF account[p].reseller = r THEN NoRow ELSE account[p]]

KeptMessage(r) == message  \* mutant: the settings of the reseller stay
WithoutMessage(r) == [message EXCEPT ![r] = NoText]

(* reseller_delete_do, for good: the reseller goes with every record of it. *)
Delete(r) ==
    /\ r \in Live
    /\ status' = [status EXCEPT ![r] = "none"]
    /\ telegram' = [telegram EXCEPT ![r] = Nobody]
    /\ account' = WithoutAccounts(r)
    /\ message' = WithoutMessage(r)
    /\ UNCHANGED <<born, count, form, maintenance, chat>>

(* maintenance_confirm *)
SetMaintenance(enabled) ==
    /\ maintenance # enabled
    /\ maintenance' = enabled
    /\ SameReseller /\ UNCHANGED <<account, message, form, chat>>

(* AuthMiddleware: the reseller of the update's sender is looked up once. *)
Authenticate(p, r) ==
    /\ chat[p].at \in {"none", "told", "served"}
    /\ r \in Lookup(p)
    /\ chat' = [chat EXCEPT ![p] = [NoChat EXCEPT !.at = "known", !.reseller = r,
                  !.status = status[r], !.for = born[r]]]
    /\ SameReseller /\ UNCHANGED <<account, message, form, maintenance>>

(* DisabledResellerMiddleware: who was not active is told the message. *)
TellOrPass(p) ==
    /\ chat[p].at = "known"
    /\ LET c == chat[p]
       IN  chat' = [chat EXCEPT ![p] = IF c.status = "active" THEN [c EXCEPT !.at = "open"]
                      ELSE [c EXCEPT !.at = "told", !.text = message[c.reseller]]]
    /\ SameReseller /\ UNCHANGED <<account, message, form, maintenance>>

(* MaintenanceMiddleware, then the handler. *)
Serve(p) ==
    /\ chat[p].at = "open"
    /\ chat' = [chat EXCEPT ![p] = IF maintenance THEN NoChat ELSE [chat[p] EXCEPT !.at = "served"]]
    /\ SameReseller /\ UNCHANGED <<account, message, form, maintenance>>

Next ==
    \/ \E p \in People :
         \/ TellOrPass(p) \/ Serve(p)
         \/ \E t \in Tasks : CommitAdd(t, p)
         \/ \E r \in Ids : Add(p, r) \/ Authenticate(p, r)
    \/ \E t \in Tasks :
         \/ ReadForMessage(t) \/ WriteStatus(t)
         \/ \E r \in Ids :
              \/ BeginAdd(t, r) \/ AskMessage(t, r)
              \/ \E to \in Statuses : ReadFor(t, r, to)
    \/ \E r \in Ids : Delete(r)
    \/ \E enabled \in BOOLEAN : SetMaintenance(enabled)

Spec == Init /\ [][Next]_vars

-------------------------------------------------------------------------------
(* repositories.py:10-14: the accounts and the column resellers.telegram_id *)
(* tell the same: each reseller's one primary account is in its column, so  *)
(* that nobody is found by the column who has no account.                   *)
LookupsAgree ==
    \A r \in Live :
        {p \in AccountsOf(r) : account[p].primary} = {telegram[r]}

(* repositories.py:59: a deletion leaves no record behind, so a successor   *)
(* with the same id starts without the accounts and the message of the     *)
(* deleted one, unless they were written after the deletion, by a form that *)
(* was begun before it.                                                     *)
NothingInherited ==
    \A r \in Live :
        /\ \A p \in AccountsOf(r) : account[p].for = born[r] \/ account[p].late
        /\ message[r] # NoText => message[r].for = born[r] \/ message[r].late

(* disabled.py:20: whoever is told a message is told the one for the        *)
(* reseller he was, unless that one was deleted while his update was under  *)
(* way, or the message was written after its deletion.                      *)
ToldOwnMessage ==
    \A p \in People :
        LET c == chat[p]
        IN  c.at = "told" /\ c.text # NoText
            => c.text.for = c.for \/ c.text.late \/ born[c.reseller] # c.for
===============================================================================
