------------------------------ MODULE Conversation ------------------------------
(***************************************************************************)
(* The forms of one private chat, a reseller's (handlers/reseller.py) or   *)
(* an admin's (handlers/admin.py): aiogram's finite state and its data.    *)
(*                                                                         *)
(* Every update is a task of its own.  The state lets it in when it        *)
(* arrives; the handler runs after the middlewares have awaited, and may   *)
(* await the limits or the panel before it stores what it was told.  What  *)
(* stands between two awaits is atomic: MemoryStorage never suspends.  A   *)
(* button without a state is one step, for it needs nothing of before.     *)
(* What a confirmed form does to accounts and money is in Provisioning,    *)
(* Renewal and Billing.                                                    *)
(***************************************************************************)
EXTENDS FiniteSets

CONSTANTS
    Tasks,          \* updates of the chat that are handled at a time
    Names,          \* usernames of accounts
    Volumes,
    Days,
    Targets,        \* resellers whom an admin's form is for
    Changes,        \* what it changes: a field, or how the balance is changed
    Texts,          \* other answers
    Uses,           \* bound: sets of forms, one of which a chat uses
    Missing         \* no such key, and no summary

VARIABLES
    uses,           \* the forms between which the chat goes
    state,          \* the state of the form
    data,           \* data[k], what has been stored in it
    task,           \* task[t], the handler that t runs
    summary,        \* what the newest summary or last question says, if the state lets
                    \* its button or its answer in
    crossed,        \* data may have changed behind that summary (history)
    late            \* an answer came into another state than its own (history)

vars == <<uses, state, data, task, summary, crossed, late>>

Unlimited == "unlimited"        \* days=0, unlimited=True
Keys == {"username", "gb", "days", "cost", "toggle_action", "amount", "reseller_id", "field",
         "value", "balance_action", "telegram_id", "balance", "price", "display_name", "g_tags",
         "maintenance_enabled", "scope"}
Values == Names \cup Volumes \cup Days \cup Targets \cup Changes
            \cup {Unlimited, "disable", "enable", "on", "off", "all", "g", Missing} \cup Texts
Nothing == [k \in Keys |-> Missing]

(* The keys of a form's summary, or of its last question.  cost stands for the volume that it is the *)
(* cost of.                                                                 *)
Form == [CreateUser |-> {"username", "gb", "days", "cost"},
         RenewUser |-> {"username", "gb", "days"},
         ToggleUserStatus |-> {"username", "toggle_action"},
         Recharge |-> {"amount"},
         AdminCreateMarzbanUser |-> {"username", "gb", "days"},
         AdminRenewMarzbanUser |-> {"username", "gb", "days"},
         AdminDisableMarzbanUser |-> {"username"},
         AdminEnableMarzbanUser |-> {"username"},
         AdminDeleteMarzbanUser |-> {"username"},
         EditReseller |-> {"reseller_id", "field", "value"},
         BalanceEdit |-> {"reseller_id", "balance_action", "amount"},
         AddReseller |-> {"telegram_id", "balance", "price", "display_name", "g_tags"},
         SettingsEdit |-> {"price"},
         MaintenanceMode |-> {"maintenance_enabled"},
         LimitEdit |-> {"scope", "field"},
         DisableReseller |-> {"reseller_id"},
         TelegramAccountManagement |-> {"reseller_id"},
         MyUsers |-> {}, AdminResellerUsers |-> {}]
Says(form, d) == [k \in Keys |-> IF k \in Form[form] THEN d[k] ELSE Missing]
Complete(form, d) == \A k \in Form[form] : d[k] # Missing

None == <<"none", "none">>
States == {None} \cup ((DOMAIN Form) \X {"username", "confirm_user", "gb", "days", "amount", "receipt",
                                 "select", "field", "action", "value", "telegram_id",
                                 "balance", "price", "display_name", "groups", "global_price",
                                 "menu", "browse", "list", "lookup", "none", "silent", "bulk",
                                 "limit", "message", "add", "confirm"})
(* The steps whose button or answer carries the form out. *)
Last == {"confirm", "limit", "message", "add"}

(* What the handler that a state lets in may be told: a message, or the     *)
(* button of a summary.                                                     *)
Told(s) ==
    CASE s[2] = "username" -> Names
      [] s[2] = "gb" -> Volumes
      [] s[2] = "days" -> IF s[1] = "AdminRenewMarzbanUser" THEN Days \cup {Unlimited} ELSE Days
      [] s[2] \in {"amount", "value", "telegram_id", "balance", "price", "display_name",
                    "global_price"} -> Texts
      [] s[2] = "groups" -> {"all"}
      [] s = <<"ToggleUserStatus", "confirm">> -> {"disable", "enable"}
      [] s[2] \in Last \cup {"confirm_user", "receipt", "lookup"} -> {Missing}
      [] OTHER -> {}

AtRest == [at |-> None, told |-> Missing, half |-> "none", read |-> Nothing, overtaken |-> FALSE]

(* half: of a handler that awaits, with what it has read; overtaken: the    *)
(* form has changed meanwhile (history).                                    *)
Task == [at: States, told: Values, half: {"none", "first", "second"}, read: [Keys -> Values],
         overtaken: BOOLEAN]

TypeOK ==
    /\ uses \in Uses
    /\ state \in States
    /\ data \in [Keys -> Values]
    /\ task \in [Tasks -> Task]
    /\ summary \in [Keys -> Values]
    /\ crossed \in BOOLEAN /\ late \in BOOLEAN

Init ==
    /\ uses \in Uses
    /\ state = None /\ data = Nothing /\ summary = Nothing
    /\ task = [t \in Tasks |-> AtRest]
    /\ crossed = FALSE /\ late = FALSE

-------------------------------------------------------------------------------
(* An update comes that the state lets in. *)
Arrive(t, told) ==
    /\ task[t] = AtRest /\ told \in Told(state)
    /\ task' = [task EXCEPT ![t] = [AtRest EXCEPT !.at = state, !.told = told, !.half = "first"]]
    /\ UNCHANGED <<uses, state, data, summary, crossed, late>>

(* Others have changed the form since the last answer was let in, or since  *)
(* the first half of an answer about days.                                  *)
Overtakable(s) == <<s.half, s.at[2]>> \in ({"first"} \X Last) \cup {<<"second", "days">>}
Overtaking(own) ==
    [u \in Tasks |-> IF u \notin own /\ Overtakable(task[u]) THEN [task[u] EXCEPT !.overtaken = TRUE]
                     ELSE task[u]]
Ends(t) == task' = [Overtaking({t}) EXCEPT ![t] = AtRest]
(* It has left the form alone. *)
Leaves(t) ==
    /\ task' = [task EXCEPT ![t] = AtRest]
    /\ UNCHANGED <<uses, state, data, summary, crossed, late>>

(* A button that needs no state: s is where the form goes on. *)
Begins(s, d) ==
    /\ state' = s /\ data' = d
    /\ summary' = IF s[2] \in Last THEN Says(s[1], d) ELSE Nothing
    /\ task' = Overtaking({})
    /\ crossed' = FALSE
    /\ late' = (late /\ d.gb # Missing)
    /\ UNCHANGED uses

Runs(t, form, step) == task[t].half = "first" /\ task[t].at = <<form, step>>

(* update_data and set_state; the summary that was the newest has no state  *)
(* now that lets its button in.                                             *)
Stores(t, key, s) ==
    /\ data' = [data EXCEPT ![key] = task[t].told]
    /\ state' = s /\ summary' = Nothing /\ crossed' = FALSE
    /\ late' = (late \/ state # task[t].at)
    /\ Ends(t) /\ UNCHANGED uses

(* The answer that completes a form; without a key that it must say the    *)
(* handler fails, in the state that it has set.                            *)
Summarises(t, d, form) ==
    /\ data' = d
    /\ state' = <<form, "confirm">>
    /\ summary' = IF Complete(form, d) THEN Says(form, d) ELSE Nothing
    /\ crossed' = FALSE
    /\ late' = (late \/ state # task[t].at)
    /\ Ends(t) /\ UNCHANGED uses
Completes(t, key, form) == Summarises(t, [data EXCEPT ![key] = task[t].told], form)

(* The handler goes on later with what it has read. *)
Awaits(t, d) ==
    task' = [Overtaking({t}) EXCEPT ![t].half = "second", ![t].read = d, ![t].overtaken = FALSE]
Resumes(t, form, step) == task[t].half = "second" /\ task[t].at = <<form, step>>

(* It is not a valid answer, or outside the limits, or the panel knows     *)
(* nothing of the account or that it is another's, or a key is missing     *)
(* that the handler looks at first.                                        *)
Refuse(t) ==
    /\ task[t].half = "first" /\ task[t].at[2] \notin {"confirm", "receipt", "confirm_user"}
    /\ Leaves(t)

-------------------------------------------------------------------------------
(* cancel, /start, the dashboard and the admin's panel *)
Cancel == Begins(None, Nothing)

(* The reseller's forms, of which most begin with the data of another. *)
CreateStart == Begins(<<"CreateUser", "username">>, data)
CreateUsername(t) ==
    /\ Runs(t, "CreateUser", "username")
    /\ Stores(t, "username", <<"CreateUser", "gb">>)
CreateGbQuotesOnce(t) ==  \* mutant: a cost that there is stays
    /\ Runs(t, "CreateUser", "gb")
    /\ data' = [data EXCEPT !.gb = task[t].told, !.cost = IF @ = Missing THEN task[t].told ELSE @]
    /\ state' = <<"CreateUser", "days">> /\ summary' = Nothing
    /\ crossed' = FALSE /\ late' = FALSE
    /\ Ends(t) /\ UNCHANGED uses
CreateGb(t) ==
    /\ Runs(t, "CreateUser", "gb")
    /\ data' = [data EXCEPT !.gb = task[t].told, !.cost = task[t].told]
    /\ state' = <<"CreateUser", "days">> /\ summary' = Nothing
    /\ crossed' = FALSE /\ late' = FALSE
    /\ Ends(t) /\ UNCHANGED uses
CreateDays(t) == Runs(t, "CreateUser", "days") /\ Completes(t, "days", "CreateUser")

RenewStart == Begins(<<"RenewUser", "username">>, data)
RenewUsername(t) ==
    /\ Runs(t, "RenewUser", "username")
    /\ Stores(t, "username", <<"RenewUser", "confirm_user">>)
RenewConfirmUser(t) ==
    /\ Runs(t, "RenewUser", "confirm_user")
    /\ state' = <<"RenewUser", "gb">> /\ summary' = Nothing /\ crossed' = FALSE
    /\ Ends(t) /\ UNCHANGED <<uses, data, late>>
RenewGb(t) == Runs(t, "RenewUser", "gb") /\ Stores(t, "gb", <<"RenewUser", "days">>)

(* The days are stored before the mode of renewal is read, the state after. *)
RenewDays(t) ==
    LET d == [data EXCEPT !.days = task[t].told]
    IN  /\ Runs(t, "RenewUser", "days")
        /\ data' = d /\ late' = (late \/ state # task[t].at)
        /\ crossed' = (crossed \/ summary # Nothing)
        /\ IF d.gb = Missing THEN Ends(t) ELSE Awaits(t, Says("RenewUser", d))
        /\ UNCHANGED <<uses, state, summary>>
RenewSummary(t) ==
    LET d == task[t].read
    IN  /\ Resumes(t, "RenewUser", "days")
        /\ state' = <<"RenewUser", "confirm">>
        /\ summary' = IF Complete("RenewUser", d) THEN d ELSE Nothing
        /\ crossed' = task[t].overtaken
        /\ Ends(t) /\ UNCHANGED <<uses, data, late>>

ToggleStart(action) ==
    Begins(<<"ToggleUserStatus", "username">>, [Nothing EXCEPT !.toggle_action = action])
(* The action is read before the panel is asked for the account. *)
ToggleReads(t) ==
    /\ Runs(t, "ToggleUserStatus", "username")
    /\ Awaits(t, [Nothing EXCEPT !.toggle_action =
                   IF data.toggle_action = Missing THEN "disable" ELSE data.toggle_action])
    /\ UNCHANGED <<uses, state, data, summary, crossed, late>>
ToggleUsername(t) ==
    LET d == [data EXCEPT !.username = task[t].told]
        says == [d EXCEPT !.toggle_action = task[t].read.toggle_action]
    IN  /\ Resumes(t, "ToggleUserStatus", "username")
        /\ data' = d /\ state' = <<"ToggleUserStatus", "confirm">>
        /\ summary' = Says("ToggleUserStatus", says)
        /\ crossed' = FALSE /\ late' = (late \/ state # task[t].at)
        /\ Ends(t) /\ UNCHANGED uses

(* my_users_list: the form is cleared, the accounts are read from the       *)
(* panel, and only then a state is set, whatever form there is by then.     *)
MyUsersList(t) ==
    /\ task[t] = AtRest
    /\ state' = None /\ data' = Nothing /\ summary' = Nothing /\ crossed' = FALSE /\ late' = FALSE
    /\ task' = [Overtaking({t}) EXCEPT ![t] = [AtRest EXCEPT !.at = <<"MyUsers", "list">>,
                                                              !.half = "second"]]
    /\ UNCHANGED uses
MyUsersPage(t) ==
    /\ Resumes(t, "MyUsers", "list")
    /\ \/ /\ state' = <<"MyUsers", "lookup">> /\ summary' = Nothing /\ crossed' = FALSE
          /\ Ends(t) /\ UNCHANGED <<uses, data, late>>
       \/ Leaves(t)        \* there are none
MyUserLinkLookup(t) == Runs(t, "MyUsers", "lookup") /\ Leaves(t)

RechargeStart == Begins(<<"Recharge", "amount">>, data)
RechargeAmountAsks(t) ==  \* mutant: on to a step that there is not
    Runs(t, "Recharge", "amount") /\ Stores(t, "amount", <<"Recharge", "confirmed">>)
RechargeAmount(t) == Runs(t, "Recharge", "amount") /\ Stores(t, "amount", <<"Recharge", "receipt">>)

-------------------------------------------------------------------------------
(* The admin's forms of an account begin with empty data. *)
AdminStart(form) == Begins(<<form, "username">>, Nothing)
AdminCreateStart == AdminStart("AdminCreateMarzbanUser")
AdminRenewStart == AdminStart("AdminRenewMarzbanUser")
AdminDisableStart == AdminStart("AdminDisableMarzbanUser")
AdminEnableStart == AdminStart("AdminEnableMarzbanUser")
AdminDeleteStart == AdminStart("AdminDeleteMarzbanUser")

AdminCreateUsername(t) ==
    /\ Runs(t, "AdminCreateMarzbanUser", "username")
    /\ Stores(t, "username", <<"AdminCreateMarzbanUser", "gb">>)
AdminCreateGb(t) ==
    /\ Runs(t, "AdminCreateMarzbanUser", "gb")
    /\ Stores(t, "gb", <<"AdminCreateMarzbanUser", "days">>)
AdminCreateDays(t) ==
    /\ Runs(t, "AdminCreateMarzbanUser", "days")
    /\ Completes(t, "days", "AdminCreateMarzbanUser")

(* admin_renew_from_user_card *)
AdminRenewFromCard(name) ==
    Begins(<<"AdminRenewMarzbanUser", "gb">>, [Nothing EXCEPT !.username = name])
AdminRenewUsername(t) ==
    /\ Runs(t, "AdminRenewMarzbanUser", "username")
    /\ Stores(t, "username", <<"AdminRenewMarzbanUser", "confirm_user">>)
AdminRenewConfirmUser(t) ==
    /\ Runs(t, "AdminRenewMarzbanUser", "confirm_user")
    /\ state' = <<"AdminRenewMarzbanUser", "gb">> /\ summary' = Nothing /\ crossed' = FALSE
    /\ Ends(t) /\ UNCHANGED <<uses, data, late>>
AdminRenewGb(t) ==
    /\ Runs(t, "AdminRenewMarzbanUser", "gb")
    /\ Stores(t, "gb", <<"AdminRenewMarzbanUser", "days">>)
(* Days, or the button for no limit of time: the form may be confirmed      *)
(* while the mode of renewal is read and before the summary is shown.       *)
AdminRenewDays(t) ==
    LET d == [data EXCEPT !.days = task[t].told]
    IN  /\ Runs(t, "AdminRenewMarzbanUser", "days")
        /\ data' = d /\ state' = <<"AdminRenewMarzbanUser", "confirm">> /\ summary' = Nothing
        /\ crossed' = FALSE /\ late' = (late \/ state # task[t].at)
        /\ Awaits(t, Says("AdminRenewMarzbanUser", d)) /\ UNCHANGED uses
AdminRenewSummary(t) ==
    LET d == task[t].read
        form == "AdminRenewMarzbanUser"
    IN  /\ Resumes(t, form, "days")
        /\ IF state = <<form, "confirm">> /\ Complete(form, d)
           THEN summary' = d /\ crossed' = task[t].overtaken
           ELSE UNCHANGED <<summary, crossed>>
        /\ Ends(t) /\ UNCHANGED <<uses, state, data, late>>

AdminDisableUsername(t) ==
    /\ Runs(t, "AdminDisableMarzbanUser", "username")
    /\ Completes(t, "username", "AdminDisableMarzbanUser")
AdminEnableUsername(t) ==
    /\ Runs(t, "AdminEnableMarzbanUser", "username")
    /\ Completes(t, "username", "AdminEnableMarzbanUser")
AdminDeleteUsername(t) ==
    /\ Runs(t, "AdminDeleteMarzbanUser", "username")
    /\ Completes(t, "username", "AdminDeleteMarzbanUser")

(* The admin's forms of a reseller: the buttons of every list that was ever *)
(* shown name theirs.                                                       *)
SelectReseller(form) == Begins(<<form, "select">>, data)
EditSelect(r) == Begins(<<"EditReseller", "field">>, [data EXCEPT !.reseller_id = r])
EditField(r, field) ==
    Begins(<<"EditReseller", "value">>, [data EXCEPT !.reseller_id = r, !.field = field])
EditValue(t) ==
    /\ Runs(t, "EditReseller", "value")
    /\ data.field # Missing
    /\ Completes(t, "value", "EditReseller")

BalanceSelectOnly(r) ==  \* mutant: the state stays
    /\ data' = [data EXCEPT !.reseller_id = r]
    /\ task' = Overtaking({})
    /\ UNCHANGED <<uses, state, summary, crossed, late>>
BalanceSelect(r) == Begins(<<"BalanceEdit", "action">>, [data EXCEPT !.reseller_id = r])
BalanceAction(r, action) ==
    Begins(<<"BalanceEdit", "amount">>, [data EXCEPT !.reseller_id = r, !.balance_action = action])
BalanceAmount(t) == Runs(t, "BalanceEdit", "amount") /\ Completes(t, "amount", "BalanceEdit")

(* A new reseller; of the picker of groups only the button that closes it. *)
AddResellerStart == Begins(<<"AddReseller", "telegram_id">>, Nothing)
AddTid(t) ==
    /\ Runs(t, "AddReseller", "telegram_id")
    /\ Stores(t, "telegram_id", <<"AddReseller", "balance">>)
AddBalance(t) ==
    /\ Runs(t, "AddReseller", "balance")
    /\ Stores(t, "balance", <<"AddReseller", "price">>)
AddPrice(t) ==
    /\ Runs(t, "AddReseller", "price")
    /\ Stores(t, "price", <<"AddReseller", "display_name">>)
(* The name is stored before the panel is asked for its groups, the state   *)
(* after: back in the form, whatever has become of it.                      *)
AddName(t) ==
    /\ Runs(t, "AddReseller", "display_name")
    /\ data' = [data EXCEPT !.display_name = task[t].told]
    /\ crossed' = (crossed \/ summary # Nothing)
    /\ Awaits(t, Nothing)
    /\ UNCHANGED <<uses, state, summary, late>>
AddNameGroups(t) ==
    /\ Resumes(t, "AddReseller", "display_name")
    /\ \/ Summarises(t, [data EXCEPT !.g_tags = "all"], "AddReseller")
       \/ /\ state' = <<"AddReseller", "groups">> /\ summary' = Nothing /\ crossed' = FALSE
          /\ Ends(t) /\ UNCHANGED <<uses, data, late>>
AddGroupsDone(t) == Runs(t, "AddReseller", "groups") /\ Completes(t, "g_tags", "AddReseller")

PriceStart == Begins(<<"SettingsEdit", "global_price">>, data)
PriceValue(t) == Runs(t, "SettingsEdit", "global_price") /\ Completes(t, "price", "SettingsEdit")

MaintenanceScreen == Begins(<<"MaintenanceMode", "menu">>, data)
MaintenanceSet(enabled) ==
    Begins(<<"MaintenanceMode", "confirm">>, [data EXCEPT !.maintenance_enabled = enabled])

ResellerUsersSelected(r) == Begins(<<"AdminResellerUsers", "browse">>, [data EXCEPT !.reseller_id = r])

(* The value, the message and the account are not confirmed: the answer to  *)
(* the question is carried out.                                             *)
LimitsField(scope, field) ==
    Begins(<<"LimitEdit", "limit">>, [data EXCEPT !.scope = scope, !.field = field])
DisableStart(r) == Begins(<<"DisableReseller", "message">>, [Nothing EXCEPT !.reseller_id = r])
TelegramAdd(r) == Begins(<<"TelegramAccountManagement", "add">>, [data EXCEPT !.reseller_id = r])
(* limits_none, disable_silent and reseller_users_bulk_confirm need neither *)
(* a question nor a state, and clear the form that there is at their end.   *)
Quick(t, form, step) ==
    /\ task[t] = AtRest
    /\ task' = [task EXCEPT ![t] = [AtRest EXCEPT !.at = <<form, step>>, !.half = "second"]]
    /\ UNCHANGED <<uses, state, data, summary, crossed, late>>
LimitsNone(t) == Quick(t, "LimitEdit", "none")
DisableSilent(t) == Quick(t, "DisableReseller", "silent")
BulkConfirm(t) == Quick(t, "AdminResellerUsers", "bulk")

(* telegram_accounts_menu: the form, of whatever it is, goes on with r. *)
TelegramMenu(r) ==
    /\ data' = [data EXCEPT !.reseller_id = r]
    /\ task' = Overtaking({})
    /\ crossed' = (crossed \/ summary # Nothing)
    /\ UNCHANGED <<uses, state, summary, late>>

-------------------------------------------------------------------------------
(* What a confirmed form, or the receipt of a recharge, is to do: of what   *)
(* is enabled or disabled the button says it.                               *)
Does(t) ==
    IF task[t].at[1] = "ToggleUserStatus" THEN [data EXCEPT !.toggle_action = task[t].told] ELSE data
Confirm(t) ==
    /\ task[t].half = "first" /\ task[t].at[2] \in Last \cup {"receipt"}
    /\ IF \A k \in Form[task[t].at[1]] \ {"cost"} : Does(t)[k] # Missing
       THEN task' = [task EXCEPT ![t] = [AtRest EXCEPT !.at = task[t].at, !.half = "second"]]
       ELSE task' = [task EXCEPT ![t] = AtRest]
    /\ UNCHANGED <<uses, state, data, summary, crossed, late>>

(* It has done it or refused it, and clears whatever form there is by then; *)
(* a message that cannot be sent, or a reseller who is gone, leaves it.     *)
Done(t) == task[t].half = "second" /\ task[t].at[2] \in Last \cup {"receipt", "none", "silent", "bulk"}
ConfirmEnds(t) ==
    /\ Done(t)
    /\ state' = None /\ data' = Nothing /\ summary' = Nothing /\ crossed' = FALSE /\ late' = FALSE
    /\ Ends(t) /\ UNCHANGED uses
ConfirmFails(t) ==
    /\ Done(t)
    /\ Leaves(t)

Buttons ==
    \/ Cancel
    \/ "CreateUser" \in uses /\ CreateStart
    \/ "RenewUser" \in uses /\ RenewStart
    \/ "Recharge" \in uses /\ RechargeStart
    \/ "ToggleUserStatus" \in uses /\ \E action \in {"disable", "enable"} : ToggleStart(action)
    \/ "AdminCreateMarzbanUser" \in uses /\ AdminCreateStart
    \/ /\ "AdminRenewMarzbanUser" \in uses
       /\ AdminRenewStart \/ \E name \in Names : AdminRenewFromCard(name)
    \/ "AdminDisableMarzbanUser" \in uses /\ AdminDisableStart
    \/ "AdminEnableMarzbanUser" \in uses /\ AdminEnableStart
    \/ "AdminDeleteMarzbanUser" \in uses /\ AdminDeleteStart
    \/ \E form \in uses \cap {"EditReseller", "BalanceEdit", "TelegramAccountManagement",
                             "AdminResellerUsers"} : SelectReseller(form)
    \/ /\ uses \cap {"EditReseller", "BalanceEdit", "TelegramAccountManagement"} # {}
       /\ \E r \in Targets : TelegramMenu(r)
    \/ "TelegramAccountManagement" \in uses /\ \E r \in Targets : TelegramAdd(r)
    \/ "DisableReseller" \in uses /\ \E r \in Targets : DisableStart(r)
    \/ "AdminResellerUsers" \in uses /\ \E r \in Targets : ResellerUsersSelected(r)
    \/ /\ "LimitEdit" \in uses
       /\ \E scope \in Targets \cup {"g"}, field \in Changes : LimitsField(scope, field)
    \/ /\ "EditReseller" \in uses
       /\ \E r \in Targets : EditSelect(r) \/ \E field \in Changes : EditField(r, field)
    \/ /\ "BalanceEdit" \in uses
       /\ \E r \in Targets : BalanceSelect(r) \/ \E action \in Changes : BalanceAction(r, action)
    \/ "AddReseller" \in uses /\ AddResellerStart
    \/ "SettingsEdit" \in uses /\ PriceStart
    \/ /\ "MaintenanceMode" \in uses
       /\ MaintenanceScreen \/ \E enabled \in {"on", "off"} : MaintenanceSet(enabled)

Next ==
    \/ Buttons
    \/ \E t \in Tasks :
         \/ \E told \in Told(state) : Arrive(t, told)
         \/ Refuse(t) \/ Confirm(t) \/ ConfirmEnds(t) \/ ConfirmFails(t)
         \/ CreateUsername(t) \/ CreateGb(t) \/ CreateDays(t)
         \/ RenewUsername(t) \/ RenewConfirmUser(t) \/ RenewGb(t) \/ RenewDays(t) \/ RenewSummary(t)
         \/ ToggleReads(t) \/ ToggleUsername(t) \/ RechargeAmount(t)
         \/ AdminCreateUsername(t) \/ AdminCreateGb(t) \/ AdminCreateDays(t)
         \/ AdminRenewUsername(t) \/ AdminRenewConfirmUser(t) \/ AdminRenewGb(t)
         \/ AdminRenewDays(t) \/ AdminRenewSummary(t)
         \/ AdminDisableUsername(t) \/ AdminEnableUsername(t) \/ AdminDeleteUsername(t)
         \/ EditValue(t) \/ BalanceAmount(t)
         \/ AddTid(t) \/ AddBalance(t) \/ AddPrice(t) \/ AddName(t) \/ AddNameGroups(t)
         \/ AddGroupsDone(t) \/ PriceValue(t)
         \/ "MyUsers" \in uses /\ MyUsersList(t)
         \/ MyUsersPage(t) \/ MyUserLinkLookup(t)
         \/ "LimitEdit" \in uses /\ LimitsNone(t)
         \/ "DisableReseller" \in uses /\ DisableSilent(t)
         \/ "AdminResellerUsers" \in uses /\ BulkConfirm(t)

Spec == Init /\ [][Next]_vars

-------------------------------------------------------------------------------
(* Who presses the newest summary, or answers the last question, gets what  *)
(* it says, of this form and of no other: whatever late answers, cancels    *)
(* and other forms came before.                                             *)
(* Not if the form changed while the button was on its way, nor behind the  *)
(* summary (crossed): by an answer that is stored before its state is set   *)
(* (reseller.py:439, admin.py:749), by one overtaken between its halves, or *)
(* by a look at the Telegram accounts of another reseller (admin.py:990).   *)
ConfirmsWhatItSays ==
    [][\A t \in Tasks :
         LET form == task[t].at[1]
         IN  /\ task[t].half = "first" /\ task[t].at[2] \in Last /\ task'[t].half = "second"
             /\ ~task[t].overtaken /\ ~crossed /\ summary # Nothing
             /\ form = "ToggleUserStatus" => task[t].told = summary.toggle_action
             => \A k \in Form[form] \ {"cost"} : Does(t)[k] = summary[k]]_vars

(* reseller.py:293: a form that begins with another's data quotes no cost   *)
(* of another's volume, unless an answer came late.                         *)
QuotesItsVolume == state = <<"CreateUser", "confirm">> /\ ~late => summary.cost = summary.gb
===============================================================================
