------------------------------ MODULE FormsProofs ------------------------------
(***************************************************************************)
(* What the forms guarantee: those of a chat, for any number of updates    *)
(* that are handled at a time and any values that they tell (Conversation),*)
(* and the picker of groups, which is a form of its own, for any number of *)
(* groups, resellers and admins (Groups).                                  *)
(***************************************************************************)
EXTENDS Conversation, Groups, TLAPS

-------------------------------------------------------------------------------
(* The forms of a chat.  A handler stores what it was told when others may  *)
(* have changed the form; the inductive invariant says what one that was   *)
(* not overtaken finds, and of what the newest summary speaks.              *)

(* Whom nobody overtook finds the form where the answer was let in, and what *)
(* the first half of an answer about days has read is what the form says.   *)
TaskInv(s) ==
    ~s.overtaken =>
        /\ s.half = "first" /\ s.at[2] \in Last => s.at = state
        /\ s.half = "second" /\ s.at[2] = "days" => s.read = Says(s.at[1], data)

(* The newest summary is of the form that there is, and says what it holds; *)
(* what is enabled or disabled its button says.                             *)
SummaryInv ==
    summary # Nothing /\ ~crossed =>
        /\ state[2] \in Last
        /\ \A k \in Form[state[1]] \ {"toggle_action"} : summary[k] = data[k]

(* The cost is of the volume from the question for the days on. *)
CostInv == state = <<"CreateUser", "days">> /\ ~late => data.cost = data.gb

IInv ==
    /\ TypeOK
    /\ \A t \in Tasks : TaskInv(task[t])
    /\ SummaryInv
    /\ CostInv
    /\ QuotesItsVolume

-------------------------------------------------------------------------------
Data == [Keys -> Values]

LEMMA Forms ==
    DOMAIN Form = {"CreateUser", "RenewUser", "ToggleUserStatus", "Recharge",
        "AdminCreateMarzbanUser", "AdminRenewMarzbanUser", "AdminDisableMarzbanUser",
        "AdminEnableMarzbanUser", "AdminDeleteMarzbanUser", "EditReseller", "BalanceEdit",
        "AddReseller", "SettingsEdit", "MaintenanceMode", "LimitEdit", "DisableReseller",
        "TelegramAccountManagement", "MyUsers", "AdminResellerUsers"}
BY DEF Form

LEMMA NothingType == Nothing \in Data /\ Missing \in Values
BY DEF Data, Nothing, Values

LEMMA AtRestType == AtRest \in Task /\ None \in States
BY NothingType DEF AtRest, Task, States, Data

LEMMA ToldType == ASSUME NEW s PROVE Told(s) \subseteq Values
BY DEF Told, Values

(* A summary says of the keys of its form what d holds, and nothing else. *)
LEMMA SaysIs ==
    ASSUME NEW form \in DOMAIN Form, NEW d \in Data
    PROVE  /\ Says(form, d) \in Data
           /\ Form[form] \subseteq Keys
           /\ \A k \in Form[form] : Says(form, d)[k] = d[k]
<1>1. Form[form] \subseteq Keys
  BY Forms DEF Form, Keys
<1>2. Says(form, d) \in Data
  BY NothingType DEF Says, Data
<1> QED BY <1>1, <1>2 DEF Says

-------------------------------------------------------------------------------
LEMMA InitInv == Init => IInv
<1> SUFFICES ASSUME Init PROVE IInv OBVIOUS
<1> USE DEF Init
<1>1. TypeOK
  BY NothingType, AtRestType DEF TypeOK, Data
<1>2. \A t \in Tasks : TaskInv(task[t])
  BY DEF TaskInv, AtRest
<1>3. SummaryInv /\ CostInv /\ QuotesItsVolume
  BY DEF SummaryInv, CostInv, QuotesItsVolume, None
<1> QED BY <1>1, <1>2, <1>3 DEF IInv

-------------------------------------------------------------------------------
(* Of a task that is overtaken if it can be, the invariant asks nothing.   *)
LEMMA OvertakingIs ==
    ASSUME TypeOK, NEW own, NEW u \in Tasks
    PROVE  /\ Overtaking(own) \in [Tasks -> Task]
           /\ u \notin own => /\ Overtaking(own)[u].half = task[u].half
                              /\ Overtaking(own)[u].at = task[u].at
                              /\ Overtakable(task[u]) => Overtaking(own)[u].overtaken
<1>1. ASSUME NEW v \in Tasks
      PROVE  task[v] \in Task /\ [task[v] EXCEPT !.overtaken = TRUE] \in Task
  BY DEF TypeOK, Task
<1>2. Overtaking(own) \in [Tasks -> Task]
  BY <1>1 DEF Overtaking
<1>3. u \notin own =>
         Overtaking(own)[u] = IF Overtakable(task[u]) THEN [task[u] EXCEPT !.overtaken = TRUE]
                              ELSE task[u]
  BY DEF Overtaking
<1>4. task[u] \in Task
  BY DEF TypeOK
<1> QED BY <1>2, <1>3, <1>4 DEF Task

LEMMA OvertakenInv ==
    ASSUME TypeOK, NEW own, NEW u \in Tasks, u \notin own, task'[u] = Overtaking(own)[u]
    PROVE  TaskInv(task[u])'
<1>1. /\ task'[u].half = task[u].half /\ task'[u].at = task[u].at
      /\ Overtakable(task[u]) => task'[u].overtaken
  BY OvertakingIs
<1> QED BY <1>1 DEF TaskInv, Overtakable

(* t goes on as s, and the others are overtaken. *)
LEMMA TasksGoOn ==
    ASSUME TypeOK, NEW t \in Tasks, NEW s \in Task, task' = [Overtaking({t}) EXCEPT ![t] = s],
           ~s.overtaken => /\ s.half = "first" /\ s.at[2] \in Last => s.at = state'
                           /\ s.half = "second" /\ s.at[2] = "days" => s.read = Says(s.at[1], data')
    PROVE  task' \in [Tasks -> Task] /\ \A u \in Tasks : TaskInv(task[u])'
<1>1. Overtaking({t}) \in [Tasks -> Task]
  BY OvertakingIs
<1>2. task' \in [Tasks -> Task] /\ task'[t] = s
  BY <1>1
<1>3. TaskInv(task[t])'
  BY <1>2 DEF TaskInv
<1>4. ASSUME NEW u \in Tasks \ {t} PROVE TaskInv(task[u])'
  <2>1. task'[u] = Overtaking({t})[u]
    BY <1>1
  <2> QED BY <2>1, OvertakenInv
<1> QED BY <1>2, <1>3, <1>4

(* A handler ends, and the form goes on. *)
LEMMA FormGoesOn ==
    ASSUME IInv, NEW t \in Tasks, Ends(t), UNCHANGED uses, state' \in States, data' \in Data,
           summary' \in Data, crossed' \in BOOLEAN, late' \in BOOLEAN,
           SummaryInv', CostInv', QuotesItsVolume'
    PROVE  IInv'
<1>1. /\ AtRest \in Task /\ task' = [Overtaking({t}) EXCEPT ![t] = AtRest]
      /\ AtRest.half = "none"
  BY AtRestType DEF Ends, AtRest
<1>2. task' \in [Tasks -> Task] /\ \A u \in Tasks : TaskInv(task[u])'
  BY <1>1, TasksGoOn DEF IInv
<1>3. TypeOK'
  BY <1>2 DEF IInv, TypeOK, Data
<1> QED BY <1>2, <1>3 DEF IInv

(* A handler goes on with what it has read, and the form may go on, too. *)
LEMMA AwaitsInv ==
    ASSUME IInv, NEW t \in Tasks, NEW d \in Data, Awaits(t, d),
           UNCHANGED uses, state' \in States, data' \in Data,
           summary' \in Data, crossed' \in BOOLEAN, late' \in BOOLEAN,
           SummaryInv', CostInv', QuotesItsVolume',
           task[t].at[2] = "days" => d = Says(task[t].at[1], data')
    PROVE  IInv'
<1> DEFINE s == [Overtaking({t})[t] EXCEPT !.half = "second", !.read = d, !.overtaken = FALSE]
<1>1. Overtaking({t}) \in [Tasks -> Task] /\ task[t] \in Task
  BY OvertakingIs DEF IInv, TypeOK
<1>2. Overtaking({t})[t] = task[t]
  BY DEF Overtaking
<1>3. s \in Task /\ s.half = "second" /\ s.at = task[t].at /\ s.read = d
  BY <1>1, <1>2 DEF Task, Data
<1>4. task' = [Overtaking({t}) EXCEPT ![t] = s]
  BY <1>1 DEF Awaits
<1> HIDE DEF s
<1>5. task' \in [Tasks -> Task] /\ \A u \in Tasks : TaskInv(task[u])'
  BY <1>3, <1>4, TasksGoOn DEF IInv
<1>6. TypeOK'
  BY <1>5 DEF IInv, TypeOK, Data
<1> QED BY <1>5, <1>6 DEF IInv

(* Nothing of the form changes. *)
Kept == UNCHANGED <<uses, state, data, summary, crossed, late>>
LEMMA TaskGoesOn ==
    ASSUME IInv, NEW t \in Tasks, NEW s \in Task, task' = [task EXCEPT ![t] = s], Kept, TaskInv(s)
    PROVE  IInv'
<1>1. /\ task' \in [Tasks -> Task]
      /\ \A u \in Tasks : task'[u] = IF u = t THEN s ELSE task[u]
  BY DEF IInv, TypeOK
<1>2. TypeOK'
  BY <1>1 DEF IInv, TypeOK, Kept
<1>3. \A u \in Tasks : TaskInv(task[u])'
  BY <1>1 DEF IInv, TaskInv, Kept
<1>4. SummaryInv' /\ CostInv' /\ QuotesItsVolume'
  BY DEF IInv, SummaryInv, CostInv, QuotesItsVolume, Kept
<1> QED BY <1>2, <1>3, <1>4 DEF IInv

LEMMA LeavesInv == ASSUME IInv, NEW t \in Tasks, Leaves(t) PROVE IInv'
<1>1. AtRest \in Task /\ TaskInv(AtRest)
  BY AtRestType DEF TaskInv, AtRest
<1> QED BY <1>1, TaskGoesOn DEF Leaves, Kept

-------------------------------------------------------------------------------
(* The state after the question for the volume and the one of the summary: *)
(* they are where the cost is told.                                         *)
Priced == {<<"CreateUser", "days">>, <<"CreateUser", "confirm">>}

(* No button leads there. *)
LEMMA BeginsInv ==
    ASSUME IInv, NEW s \in States, NEW d \in Data, Begins(s, d), s \notin Priced
    PROVE  IInv'
<1> USE DEF Begins
<1>1. s[1] \in DOMAIN Form \/ s = None
  BY DEF States
<1>2. summary' \in Data /\ SummaryInv'
  <2>1. CASE s[2] \in Last
    <3>1. s[1] \in DOMAIN Form
      BY <1>1, <2>1 DEF None, Last
    <3>2. summary' = Says(s[1], d)
      BY <2>1
    <3> QED BY <2>1, <3>1, <3>2, SaysIs DEF SummaryInv
  <2>2. CASE s[2] \notin Last
    BY <2>2, NothingType DEF SummaryInv
  <2> QED BY <2>1, <2>2
<1>3. CostInv' /\ QuotesItsVolume'
  BY DEF CostInv, QuotesItsVolume, Priced
<1>4. task' \in [Tasks -> Task] /\ \A u \in Tasks : TaskInv(task[u])'
  <2>1. \A u \in Tasks : Overtaking({}) \in [Tasks -> Task] /\ TaskInv(task[u])'
    BY OvertakingIs, OvertakenInv DEF IInv
  <2> QED BY <2>1 DEF Overtaking
<1>5. TypeOK'
  BY <1>2, <1>4 DEF IInv, TypeOK, Data
<1> QED BY <1>2, <1>3, <1>4, <1>5 DEF IInv

(* Nor does an answer that is only stored. *)
LEMMA StoresInv ==
    ASSUME IInv, NEW t \in Tasks, NEW key \in Keys, NEW s \in States, Stores(t, key, s), s \notin Priced
    PROVE  IInv'
<1> USE DEF Stores
<1>1. task[t] \in Task /\ data \in Data /\ late \in BOOLEAN
  BY DEF IInv, TypeOK, Data
<1>2. data' \in Data /\ late' \in BOOLEAN /\ summary' \in Data
  BY <1>1, NothingType DEF Data, Task
<1>3. SummaryInv' /\ CostInv' /\ QuotesItsVolume'
  BY DEF SummaryInv, CostInv, QuotesItsVolume, Priced
<1> QED BY <1>2, <1>3, FormGoesOn

(* What completes a form is what its summary says. *)
LEMMA SummarisesInv ==
    ASSUME IInv, NEW t \in Tasks, NEW form \in DOMAIN Form, NEW d \in Data, Summarises(t, d, form),
           form = "CreateUser" /\ state = task[t].at /\ ~late => d.cost = d.gb
    PROVE  IInv'
<1> USE DEF Summarises
<1>1. late \in BOOLEAN /\ state' \in States /\ late' \in BOOLEAN
  BY DEF IInv, TypeOK, States
<1>2. summary' \in Data /\ (summary' # Nothing => summary' = Says(form, d))
  BY SaysIs, NothingType
<1>3. SummaryInv'
  BY <1>2, SaysIs DEF SummaryInv, Last
<1>4. CostInv'
  BY DEF CostInv
<1>5. QuotesItsVolume'
  <2> SUFFICES ASSUME form = "CreateUser", ~late' PROVE summary'.cost = summary'.gb
    BY DEF QuotesItsVolume
  <2>1. d.cost = d.gb
    OBVIOUS
  <2>2. Says(form, d).cost = d.cost /\ Says(form, d).gb = d.gb
    BY DEF Says, Form, Keys
  <2>3. Nothing.cost = Nothing.gb
    BY DEF Nothing, Keys
  <2> QED BY <1>2, <2>1, <2>2, <2>3
<1> QED BY <1>1, <1>2, <1>3, <1>4, <1>5, FormGoesOn

LEMMA CompletesInv ==
    ASSUME IInv, NEW t \in Tasks, NEW form \in DOMAIN Form \ {"CreateUser"}, NEW key \in Keys,
           Completes(t, key, form)
    PROVE  IInv'
<1> DEFINE d == [data EXCEPT ![key] = task[t].told]
<1>1. d \in Data
  BY DEF IInv, TypeOK, Task, Data
<1>2. Summarises(t, d, form)
  BY DEF Completes
<1> HIDE DEF d
<1> QED BY <1>1, <1>2, SummarisesInv

-------------------------------------------------------------------------------
(* An update is let in, refused, or carries the form out. *)
LEMMA ArriveInv == ASSUME IInv, NEW t \in Tasks, NEW told \in Told(state), Arrive(t, told) PROVE IInv'
<1> DEFINE s == [AtRest EXCEPT !.at = state, !.told = told, !.half = "first"]
<1>1. state \in States /\ told \in Values
  BY ToldType DEF IInv, TypeOK
<1>2. s \in Task /\ TaskInv(s)
  BY <1>1, AtRestType DEF AtRest, Task, TaskInv
<1>3. task' = [task EXCEPT ![t] = s] /\ Kept
  BY DEF Arrive, Kept
<1> HIDE DEF s
<1> QED BY <1>2, <1>3, TaskGoesOn

(* A handler is under way whose first half reads nothing. *)
LEMMA SecondHalf ==
    ASSUME NEW at \in States, at[2] # "days"
    PROVE  LET s == [AtRest EXCEPT !.at = at, !.half = "second"] IN s \in Task /\ TaskInv(s)
BY AtRestType DEF AtRest, Task, TaskInv

LEMMA ConfirmInv == ASSUME IInv, NEW t \in Tasks, Confirm(t) PROVE IInv'
<1> DEFINE s == [AtRest EXCEPT !.at = task[t].at, !.half = "second"]
<1>1. task[t].at \in States /\ task[t].at[2] # "days" /\ Kept
  BY DEF IInv, TypeOK, Task, Confirm, Kept, Last
<1>2. s \in Task /\ TaskInv(s)
  BY <1>1, SecondHalf
<1>3. task' = [task EXCEPT ![t] = s] \/ Leaves(t)
  BY DEF Confirm, Leaves
<1> HIDE DEF s
<1> QED BY <1>1, <1>2, <1>3, TaskGoesOn, LeavesInv

LEMMA QuickInv ==
    ASSUME IInv, NEW t \in Tasks, NEW form \in DOMAIN Form, NEW step \in {"none", "silent", "bulk"},
           Quick(t, form, step)
    PROVE  IInv'
<1> DEFINE s == [AtRest EXCEPT !.at = <<form, step>>, !.half = "second"]
<1>1. <<form, step>> \in States /\ <<form, step>>[2] # "days"
  BY DEF States
<1>2. s \in Task /\ TaskInv(s)
  BY <1>1, SecondHalf
<1>3. task' = [task EXCEPT ![t] = s] /\ Kept
  BY DEF Quick, Kept
<1> HIDE DEF s
<1> QED BY <1>2, <1>3, TaskGoesOn

(* The form is cleared, or goes on with what it has, and nothing is quoted. *)
LEMMA NothingQuoted ==
    ASSUME state' \notin Priced, summary' = Nothing
    PROVE  summary' \in Data /\ SummaryInv' /\ CostInv' /\ QuotesItsVolume'
BY NothingType DEF SummaryInv, CostInv, QuotesItsVolume, Priced

LEMMA ConfirmEndsInv == ASSUME IInv, NEW t \in Tasks, ConfirmEnds(t) PROVE IInv'
<1>1. state' \in States /\ state' \notin Priced
  BY AtRestType DEF ConfirmEnds, None, Priced
<1> QED BY <1>1, NothingType, NothingQuoted, FormGoesOn DEF ConfirmEnds

(* t sets the next state, with the data that there are. *)
LEMMA SetsState ==
    ASSUME IInv, NEW t \in Tasks, NEW s \in States \ Priced, state' = s, summary' = Nothing,
           crossed' = FALSE, Ends(t), UNCHANGED <<uses, data, late>>
    PROVE  IInv'
<1>1. data' \in Data /\ late' \in BOOLEAN
  BY DEF IInv, TypeOK, Data
<1> QED BY <1>1, NothingQuoted, FormGoesOn

-------------------------------------------------------------------------------
LEMMA CreateGbInv == ASSUME IInv, NEW t \in Tasks, CreateGb(t) PROVE IInv'
<1> USE DEF CreateGb
<1>1. task[t].told \in Values /\ data \in Data
  BY DEF IInv, TypeOK, Task, Data
<1>2. data' \in Data /\ data'.cost = data'.gb
  BY <1>1 DEF Data, Keys
<1>3. state' \in States /\ state' # <<"CreateUser", "confirm">>
  BY Forms DEF States
<1>4. SummaryInv' /\ CostInv' /\ QuotesItsVolume' /\ summary' \in Data
  BY <1>2, <1>3, NothingType DEF SummaryInv, CostInv, QuotesItsVolume
<1> QED BY <1>2, <1>3, <1>4, FormGoesOn

LEMMA CreateDaysInv == ASSUME IInv, NEW t \in Tasks, CreateDays(t) PROVE IInv'
<1> DEFINE d == [data EXCEPT !["days"] = task[t].told]
<1>1. task[t].told \in Values /\ data \in Data
  BY DEF IInv, TypeOK, Task, Data
<1>2. d \in Data /\ d.cost = data.cost /\ d.gb = data.gb
  BY <1>1 DEF Data, Keys
<1>3. Summarises(t, d, "CreateUser")
  BY DEF CreateDays, Completes
<1>4. state = task[t].at /\ ~late => d.cost = d.gb
  BY <1>2 DEF CreateDays, Runs, IInv, CostInv
<1> HIDE DEF d
<1> QED BY <1>2, <1>3, <1>4, Forms, SummarisesInv

LEMMA CreateInv ==
    ASSUME IInv, NEW t \in Tasks, CreateUsername(t) \/ CreateGb(t) \/ CreateDays(t)
    PROVE  IInv'
<1>1. <<"CreateUser", "gb">> \in States \ Priced /\ "username" \in Keys
  BY Forms DEF States, Priced, Keys
<1>2. CASE CreateUsername(t)
  BY <1>1, <1>2, StoresInv DEF CreateUsername
<1> QED BY <1>2, CreateGbInv, CreateDaysInv

(* The days are stored while the summary that there may be stays. *)
LEMMA RenewDaysInv == ASSUME IInv, NEW t \in Tasks, RenewDays(t) PROVE IInv'
<1> DEFINE d == [data EXCEPT !.days = task[t].told]
<1>1. /\ task[t].told \in Values /\ data \in Data /\ late \in BOOLEAN /\ crossed \in BOOLEAN
      /\ state \in States /\ summary \in Data
  BY DEF IInv, TypeOK, Task, Data
<1>2. d \in Data /\ d.cost = data.cost /\ d.gb = data.gb
  BY <1>1 DEF Data, Keys
<1>3. /\ data' = d /\ late' = (late \/ state # task[t].at) /\ task[t].at = <<"RenewUser", "days">>
      /\ crossed' = (crossed \/ summary # Nothing) /\ UNCHANGED <<uses, state, summary>>
      /\ Ends(t) \/ Awaits(t, Says("RenewUser", d))
  BY DEF RenewDays, Runs
<1> HIDE DEF d
<1>4. late' \in BOOLEAN /\ crossed' \in BOOLEAN /\ (~late' => ~late) /\ (summary' # Nothing => crossed')
  BY <1>1, <1>3
<1>5. SummaryInv' /\ CostInv' /\ QuotesItsVolume'
  BY <1>2, <1>3, <1>4 DEF SummaryInv, CostInv, QuotesItsVolume, IInv
<1>6. Says("RenewUser", d) \in Data
  BY <1>2, Forms, SaysIs
<1>7. CASE Ends(t)
  BY <1>1, <1>2, <1>3, <1>4, <1>5, <1>7, FormGoesOn
<1>8. CASE Awaits(t, Says("RenewUser", d))
  BY <1>1, <1>2, <1>3, <1>4, <1>5, <1>6, <1>8, AwaitsInv
<1> QED BY <1>3, <1>7, <1>8

(* What has been read is what the form says, unless it was overtaken. *)
LEMMA RenewSummaryInv == ASSUME IInv, NEW t \in Tasks, RenewSummary(t) PROVE IInv'
<1> DEFINE d == task[t].read
<1>1. task[t] \in Task /\ TaskInv(task[t]) /\ data \in Data /\ late \in BOOLEAN
  BY DEF IInv, TypeOK, Data
<1>2. d \in Data /\ task[t].overtaken \in BOOLEAN
  BY <1>1 DEF Task, Data
<1>3. ~task[t].overtaken => d = Says("RenewUser", data)
  BY <1>1 DEF RenewSummary, Resumes, TaskInv
<1>4. /\ state' = <<"RenewUser", "confirm">> /\ UNCHANGED <<uses, data, late>>
      /\ summary' = d \/ summary' = Nothing
      /\ crossed' = task[t].overtaken /\ Ends(t)
  BY DEF RenewSummary
<1> HIDE DEF d
<1>5. state' \in States /\ state' \notin Priced /\ state'[1] = "RenewUser" /\ state'[2] \in Last
  BY <1>4, Forms DEF States, Priced, Last
<1>6. SummaryInv'
  BY <1>1, <1>3, <1>4, <1>5, Forms, SaysIs DEF SummaryInv
<1>7. CostInv' /\ QuotesItsVolume'
  BY <1>5 DEF CostInv, QuotesItsVolume, Priced
<1> QED BY <1>1, <1>2, <1>4, <1>5, <1>6, <1>7, NothingType, FormGoesOn

LEMMA RenewInv ==
    ASSUME IInv, NEW t \in Tasks,
           RenewUsername(t) \/ RenewConfirmUser(t) \/ RenewGb(t) \/ RenewDays(t) \/ RenewSummary(t)
    PROVE  IInv'
<1>1. /\ {<<"RenewUser", "confirm_user">>, <<"RenewUser", "gb">>, <<"RenewUser", "days">>}
            \subseteq States \ Priced
      /\ {"username", "gb"} \subseteq Keys
  BY Forms DEF States, Priced, Keys
<1>2. CASE RenewUsername(t)
  BY <1>1, <1>2, StoresInv DEF RenewUsername
<1>3. CASE RenewConfirmUser(t)
  BY <1>1, <1>3, SetsState DEF RenewConfirmUser
<1>4. CASE RenewGb(t)
  BY <1>1, <1>4, StoresInv DEF RenewGb
<1> QED BY <1>2, <1>3, <1>4, RenewDaysInv, RenewSummaryInv

(* Of the action that is read, a summary need not say what the data hold.  *)
LEMMA ToggleReadsInv == ASSUME IInv, NEW t \in Tasks, ToggleReads(t) PROVE IInv'
<1> DEFINE d == [Nothing EXCEPT !.toggle_action =
                   IF data.toggle_action = Missing THEN "disable" ELSE data.toggle_action]
<1>1. data.toggle_action \in Values /\ "disable" \in Values
  BY DEF IInv, TypeOK, Keys, Values
<1>2. d \in Data
  BY <1>1, NothingType DEF Data
<1>3. Awaits(t, d) /\ Kept /\ task[t].at[2] # "days"
  BY DEF ToggleReads, Runs, Kept
<1> HIDE DEF d
<1>4. SummaryInv' /\ CostInv' /\ QuotesItsVolume'
  BY <1>3 DEF Kept, IInv, SummaryInv, CostInv, QuotesItsVolume
<1> QED BY <1>2, <1>3, <1>4, AwaitsInv DEF Kept, IInv, TypeOK, Data

LEMMA ToggleUsernameInv == ASSUME IInv, NEW t \in Tasks, ToggleUsername(t) PROVE IInv'
<1> DEFINE form == "ToggleUserStatus"
           d == [data EXCEPT !.username = task[t].told]
           says == [d EXCEPT !.toggle_action = task[t].read.toggle_action]
<1>1. task[t] \in Task /\ data \in Data /\ late \in BOOLEAN
  BY DEF IInv, TypeOK, Data
<1>2. task[t].told \in Values /\ task[t].read.toggle_action \in Values
  BY <1>1 DEF Task, Keys
<1>3. d \in Data /\ says \in Data
  BY <1>1, <1>2 DEF Data
<1>4. \A k \in Keys \ {"toggle_action"} : says[k] = d[k]
  BY <1>3 DEF Data
<1>5. /\ data' = d /\ state' = <<form, "confirm">> /\ summary' = Says(form, says) /\ crossed' = FALSE
      /\ late' = (late \/ state # task[t].at) /\ Ends(t) /\ UNCHANGED uses
  BY DEF ToggleUsername
<1> HIDE DEF d, says
<1>6. Says(form, says) \in Data /\ \A k \in Form[form] \ {"toggle_action"} : Says(form, says)[k] = d[k]
  BY <1>3, <1>4, Forms, SaysIs
<1>7. state' \in States /\ state' \notin Priced /\ state'[1] = form /\ state'[2] \in Last
  BY <1>5, Forms DEF States, Priced, Last
<1>8. SummaryInv'
  BY <1>5, <1>6, <1>7 DEF SummaryInv
<1>9. CostInv' /\ QuotesItsVolume'
  BY <1>7 DEF CostInv, QuotesItsVolume, Priced
<1> QED BY <1>1, <1>3, <1>5, <1>6, <1>7, <1>8, <1>9, FormGoesOn

LEMMA MyUsersInv ==
    ASSUME IInv, NEW t \in Tasks, MyUsersList(t) \/ MyUsersPage(t) \/ MyUserLinkLookup(t)
    PROVE  IInv'
<1>1. {<<"MyUsers", "lookup">>, <<"MyUsers", "list">>, None} \subseteq States \ Priced
  BY Forms DEF States, Priced, None
<1>2. CASE MyUsersList(t)
  <2> DEFINE s == [AtRest EXCEPT !.at = <<"MyUsers", "list">>, !.half = "second"]
  <2>1. s \in Task /\ s.half = "second" /\ s.at[2] # "days"
    BY <1>1, AtRestType DEF AtRest, Task
  <2>2. task' = [Overtaking({t}) EXCEPT ![t] = s]
    BY <1>2 DEF MyUsersList
  <2> HIDE DEF s
  <2>3. task' \in [Tasks -> Task] /\ \A u \in Tasks : TaskInv(task[u])'
    BY <2>1, <2>2, TasksGoOn DEF IInv
  <2>4. /\ state' = None /\ data' = Nothing /\ summary' = Nothing /\ crossed' = FALSE /\ late' = FALSE
        /\ UNCHANGED uses
    BY <1>2 DEF MyUsersList
  <2>5. TypeOK'
    BY <1>1, <2>3, <2>4, NothingType DEF IInv, TypeOK, Data
  <2> QED BY <1>1, <2>3, <2>4, <2>5, NothingQuoted DEF IInv
<1>3. CASE MyUsersPage(t)
  BY <1>1, <1>3, SetsState, LeavesInv DEF MyUsersPage
<1>4. CASE MyUserLinkLookup(t)
  BY <1>4, LeavesInv DEF MyUserLinkLookup
<1> QED BY <1>2, <1>3, <1>4

LEMMA RechargeInv == ASSUME IInv, NEW t \in Tasks, RechargeAmount(t) PROVE IInv'
<1>1. <<"Recharge", "receipt">> \in States \ Priced /\ "amount" \in Keys
  BY Forms DEF States, Priced, Keys
<1> QED BY <1>1, StoresInv DEF RechargeAmount

-------------------------------------------------------------------------------
(* The admin's forms of an account. *)
AdminForms == {"AdminCreateMarzbanUser", "AdminRenewMarzbanUser", "AdminDisableMarzbanUser",
               "AdminEnableMarzbanUser", "AdminDeleteMarzbanUser"}
LEMMA AdminFormsAre ==
    /\ AdminForms \subseteq DOMAIN Form \ {"CreateUser"}
    /\ \A form \in AdminForms : {<<form, "username">>, <<form, "gb">>, <<form, "days">>,
                                <<form, "confirm_user">>, <<form, "confirm">>} \subseteq States \ Priced
    /\ AdminForms \X {"confirm"} \subseteq States
    /\ {"username", "gb", "days"} \subseteq Keys
BY Forms DEF AdminForms, States, Priced, Keys

LEMMA AdminCreateInv ==
    ASSUME IInv, NEW t \in Tasks, AdminCreateUsername(t) \/ AdminCreateGb(t) \/ AdminCreateDays(t)
    PROVE  IInv'
<1> USE AdminFormsAre DEF AdminForms
<1>1. CASE AdminCreateUsername(t)
  BY <1>1, StoresInv DEF AdminCreateUsername
<1>2. CASE AdminCreateGb(t)
  BY <1>2, StoresInv DEF AdminCreateGb
<1>3. CASE AdminCreateDays(t)
  BY <1>3, CompletesInv DEF AdminCreateDays
<1> QED BY <1>1, <1>2, <1>3

(* The form may be confirmed from now on, but no summary says what it is. *)
LEMMA AdminRenewDaysInv == ASSUME IInv, NEW t \in Tasks, AdminRenewDays(t) PROVE IInv'
<1> DEFINE form == "AdminRenewMarzbanUser"
           d == [data EXCEPT !.days = task[t].told]
<1>1. task[t].told \in Values /\ data \in Data /\ late \in BOOLEAN
  BY DEF IInv, TypeOK, Task, Data
<1>2. d \in Data
  BY <1>1 DEF Data
<1>3. /\ data' = d /\ state' = <<form, "confirm">> /\ summary' = Nothing /\ crossed' = FALSE
      /\ late' = (late \/ state # task[t].at) /\ UNCHANGED uses
      /\ Awaits(t, Says(form, d)) /\ task[t].at = <<form, "days">>
  BY DEF AdminRenewDays, Runs
<1> HIDE DEF d
<1>4. Says(form, d) \in Data /\ state' \in States \ Priced
  BY <1>2, <1>3, SaysIs, AdminFormsAre DEF AdminForms
<1>5. late' \in BOOLEAN /\ task[t].at[2] = "days" /\ Says(form, d) = Says(task[t].at[1], data')
  BY <1>1, <1>3
<1>6. summary' \in Data /\ SummaryInv' /\ CostInv' /\ QuotesItsVolume'
  BY <1>3, <1>4, NothingQuoted
<1> QED BY <1>2, <1>3, <1>4, <1>5, <1>6, AwaitsInv

LEMMA AdminRenewSummaryInv == ASSUME IInv, NEW t \in Tasks, AdminRenewSummary(t) PROVE IInv'
<1> DEFINE form == "AdminRenewMarzbanUser"
           d == task[t].read
<1>1. /\ task[t] \in Task /\ TaskInv(task[t]) /\ data \in Data /\ late \in BOOLEAN
      /\ state \in States /\ summary \in Data /\ crossed \in BOOLEAN
  BY DEF IInv, TypeOK, Data
<1>2. d \in Data /\ task[t].overtaken \in BOOLEAN
  BY <1>1 DEF Task, Data
<1>3. ~task[t].overtaken => d = Says(form, data)
  BY <1>1 DEF AdminRenewSummary, Resumes, TaskInv
<1>4. UNCHANGED <<uses, state, data, late>> /\ Ends(t)
  BY DEF AdminRenewSummary
<1>5. CASE UNCHANGED <<summary, crossed>>
  <2>1. SummaryInv' /\ CostInv' /\ QuotesItsVolume'
    BY <1>4, <1>5 DEF IInv, SummaryInv, CostInv, QuotesItsVolume
  <2> QED BY <1>1, <1>4, <1>5, <2>1, FormGoesOn
<1>6. CASE state = <<form, "confirm">> /\ summary' = d /\ crossed' = task[t].overtaken
  <2>1. SummaryInv'
    BY <1>1, <1>3, <1>4, <1>6, AdminFormsAre, SaysIs DEF AdminForms, SummaryInv, Last
  <2>2. CostInv' /\ QuotesItsVolume'
    BY <1>4, <1>6 DEF CostInv, QuotesItsVolume
  <2> QED BY <1>1, <1>2, <1>4, <1>6, <2>1, <2>2, FormGoesOn
<1> QED BY <1>5, <1>6 DEF AdminRenewSummary

LEMMA AdminRenewInv ==
    ASSUME IInv, NEW t \in Tasks,
           \/ AdminRenewUsername(t) \/ AdminRenewConfirmUser(t) \/ AdminRenewGb(t)
           \/ AdminRenewDays(t) \/ AdminRenewSummary(t)
    PROVE  IInv'
<1> USE AdminFormsAre DEF AdminForms
<1>1. CASE AdminRenewUsername(t)
  BY <1>1, StoresInv DEF AdminRenewUsername
<1>2. CASE AdminRenewConfirmUser(t)
  BY <1>2, SetsState DEF AdminRenewConfirmUser
<1>3. CASE AdminRenewGb(t)
  BY <1>3, StoresInv DEF AdminRenewGb
<1> QED BY <1>1, <1>2, <1>3, AdminRenewDaysInv, AdminRenewSummaryInv

LEMMA AdminSwitchInv ==
    ASSUME IInv, NEW t \in Tasks,
           AdminDisableUsername(t) \/ AdminEnableUsername(t) \/ AdminDeleteUsername(t)
    PROVE  IInv'
BY AdminFormsAre, CompletesInv
   DEF AdminForms, AdminDisableUsername, AdminEnableUsername, AdminDeleteUsername

-------------------------------------------------------------------------------
(* The name of a new reseller is stored while the summary that there may   *)
(* be stays.                                                               *)
LEMMA AddNameInv == ASSUME IInv, NEW t \in Tasks, AddName(t) PROVE IInv'
<1> DEFINE d == [data EXCEPT !.display_name = task[t].told]
<1>1. /\ task[t].told \in Values /\ data \in Data /\ late \in BOOLEAN /\ crossed \in BOOLEAN
      /\ state \in States /\ summary \in Data
  BY DEF IInv, TypeOK, Task, Data
<1>2. d \in Data /\ d.cost = data.cost /\ d.gb = data.gb
  BY <1>1 DEF Data, Keys
<1>3. /\ data' = d /\ crossed' = (crossed \/ summary # Nothing) /\ Awaits(t, Nothing)
      /\ UNCHANGED <<uses, state, summary, late>> /\ task[t].at = <<"AddReseller", "display_name">>
  BY DEF AddName, Runs
<1> HIDE DEF d
<1>4. crossed' \in BOOLEAN /\ (summary' # Nothing => crossed')
  BY <1>1, <1>3
<1>5. SummaryInv' /\ CostInv' /\ QuotesItsVolume'
  BY <1>2, <1>3, <1>4 DEF SummaryInv, CostInv, QuotesItsVolume, IInv
<1> QED BY <1>1, <1>2, <1>3, <1>4, <1>5, NothingType, AwaitsInv

LEMMA AddNameGroupsInv == ASSUME IInv, NEW t \in Tasks, AddNameGroups(t) PROVE IInv'
<1>1. CASE Summarises(t, [data EXCEPT !.g_tags = "all"], "AddReseller")
  <2>1. "all" \in Values /\ "AddReseller" \in DOMAIN Form
    BY Forms DEF Values
  <2>2. [data EXCEPT !.g_tags = "all"] \in Data
    BY <2>1 DEF IInv, TypeOK, Data
  <2> QED BY <1>1, <2>1, <2>2, SummarisesInv
<1>2. CASE /\ state' = <<"AddReseller", "groups">> /\ summary' = Nothing /\ crossed' = FALSE
           /\ Ends(t) /\ UNCHANGED <<uses, data, late>>
  <2>1. <<"AddReseller", "groups">> \in States \ Priced
    BY Forms DEF States, Priced
  <2> QED BY <1>2, <2>1, SetsState
<1> QED BY <1>1, <1>2 DEF AddNameGroups

LEMMA AddInv ==
    ASSUME IInv, NEW t \in Tasks,
           \/ AddTid(t) \/ AddBalance(t) \/ AddPrice(t) \/ AddName(t) \/ AddNameGroups(t)
           \/ AddGroupsDone(t)
    PROVE  IInv'
<1>1. /\ {<<"AddReseller", "balance">>, <<"AddReseller", "price">>, <<"AddReseller", "display_name">>}
            \subseteq States \ Priced
      /\ {"telegram_id", "balance", "price", "g_tags"} \subseteq Keys
      /\ "AddReseller" \in DOMAIN Form \ {"CreateUser"}
  BY Forms DEF States, Priced, Keys
<1>2. CASE AddTid(t)
  BY <1>1, <1>2, StoresInv DEF AddTid
<1>3. CASE AddBalance(t)
  BY <1>1, <1>3, StoresInv DEF AddBalance
<1>4. CASE AddPrice(t)
  BY <1>1, <1>4, StoresInv DEF AddPrice
<1>5. CASE AddGroupsDone(t)
  BY <1>1, <1>5, CompletesInv DEF AddGroupsDone
<1> QED BY <1>2, <1>3, <1>4, <1>5, AddNameInv, AddNameGroupsInv

LEMMA ValueInv ==
    ASSUME IInv, NEW t \in Tasks, EditValue(t) \/ BalanceAmount(t) \/ PriceValue(t)
    PROVE  IInv'
<1>1. /\ {"EditReseller", "BalanceEdit", "SettingsEdit"} \subseteq DOMAIN Form \ {"CreateUser"}
      /\ {"value", "amount", "price"} \subseteq Keys
  BY Forms DEF Keys
<1> QED BY <1>1, CompletesInv DEF EditValue, BalanceAmount, PriceValue

(* The form goes on behind its summary. *)
LEMMA TelegramMenuInv == ASSUME IInv, NEW r \in Targets, TelegramMenu(r) PROVE IInv'
<1>1. /\ data \in Data /\ crossed \in BOOLEAN /\ r \in Values
  BY DEF IInv, TypeOK, Data, Values
<1>2. data' \in Data /\ data'.cost = data.cost /\ data'.gb = data.gb
  BY <1>1 DEF TelegramMenu, Data, Keys
<1>3. crossed' \in BOOLEAN /\ (summary' # Nothing => crossed')
  BY <1>1 DEF TelegramMenu
<1>4. SummaryInv' /\ CostInv' /\ QuotesItsVolume'
  BY <1>2, <1>3 DEF TelegramMenu, SummaryInv, CostInv, QuotesItsVolume, IInv
<1>5. task' \in [Tasks -> Task] /\ \A u \in Tasks : TaskInv(task[u])'
  <2>1. \A u \in Tasks : Overtaking({}) \in [Tasks -> Task] /\ TaskInv(task[u])'
    BY OvertakingIs, OvertakenInv DEF TelegramMenu, IInv
  <2> QED BY <2>1 DEF TelegramMenu, Overtaking
<1>6. TypeOK'
  BY <1>2, <1>3, <1>5 DEF TelegramMenu, IInv, TypeOK, Data
<1> QED BY <1>4, <1>5, <1>6 DEF IInv

-------------------------------------------------------------------------------
(* The buttons that begin a form or go on with it. *)
LEMMA ResellerButtonsInv ==
    ASSUME IInv,
           \/ Cancel \/ CreateStart \/ RenewStart \/ RechargeStart
           \/ \E action \in {"disable", "enable"} : ToggleStart(action)
    PROVE  IInv'
<1>1. {None, <<"CreateUser", "username">>, <<"RenewUser", "username">>, <<"Recharge", "amount">>,
        <<"ToggleUserStatus", "username">>} \subseteq States \ Priced
  BY Forms DEF States, Priced, None
<1>2. data \in Data /\ Nothing \in Data
  BY NothingType DEF IInv, TypeOK, Data
<1>3. \A action \in {"disable", "enable"} : [Nothing EXCEPT !.toggle_action = action] \in Data
  BY <1>2 DEF Data, Values
<1> QED BY <1>1, <1>2, <1>3, BeginsInv DEF Cancel, CreateStart, RenewStart, RechargeStart, ToggleStart

LEMMA AdminButtonsInv ==
    ASSUME IInv,
           \/ AdminCreateStart \/ AdminRenewStart \/ AdminDisableStart \/ AdminEnableStart
           \/ AdminDeleteStart \/ \E name \in Names : AdminRenewFromCard(name)
    PROVE  IInv'
<1>1. \A name \in Names : [Nothing EXCEPT !.username = name] \in Data
  BY NothingType DEF Data, Values
<1>2. CASE \E name \in Names : AdminRenewFromCard(name)
  BY <1>1, <1>2, AdminFormsAre, BeginsInv DEF AdminForms, AdminRenewFromCard
<1>3. ASSUME NEW form \in AdminForms, AdminStart(form) PROVE IInv'
  BY <1>3, AdminFormsAre, NothingType, BeginsInv DEF AdminStart
<1> QED BY <1>2, <1>3
        DEF AdminForms, AdminCreateStart, AdminRenewStart, AdminDisableStart, AdminEnableStart,
            AdminDeleteStart

LEMMA ResellersFormsInv ==
    ASSUME IInv,
           \/ \E form \in {"EditReseller", "BalanceEdit", "TelegramAccountManagement",
                           "AdminResellerUsers"} : SelectReseller(form)
           \/ \E r \in Targets :
                \/ TelegramAdd(r) \/ DisableStart(r) \/ ResellerUsersSelected(r)
                \/ EditSelect(r) \/ BalanceSelect(r)
                \/ \E change \in Changes : EditField(r, change) \/ BalanceAction(r, change)
           \/ \E scope \in Targets \cup {"g"}, field \in Changes : LimitsField(scope, field)
    PROVE  IInv'
<1>1. {<<"EditReseller", "select">>, <<"BalanceEdit", "select">>,
        <<"TelegramAccountManagement", "select">>, <<"AdminResellerUsers", "select">>,
        <<"TelegramAccountManagement", "add">>, <<"DisableReseller", "message">>,
        <<"AdminResellerUsers", "browse">>, <<"EditReseller", "field">>, <<"EditReseller", "value">>,
        <<"BalanceEdit", "action">>, <<"BalanceEdit", "amount">>, <<"LimitEdit", "limit">>}
         \subseteq States \ Priced
  BY Forms DEF States, Priced
<1>2. data \in Data /\ Nothing \in Data
  BY NothingType DEF IInv, TypeOK, Data
<1>3. Targets \cup {"g"} \cup Changes \subseteq Values
  BY DEF Values
<1>4. CASE \E form \in {"EditReseller", "BalanceEdit", "TelegramAccountManagement",
                        "AdminResellerUsers"} : SelectReseller(form)
  BY <1>1, <1>2, <1>4, BeginsInv DEF SelectReseller
<1>5. ASSUME NEW r \in Targets,
             \/ TelegramAdd(r) \/ DisableStart(r) \/ ResellerUsersSelected(r)
             \/ EditSelect(r) \/ BalanceSelect(r)
      PROVE  IInv'
  <2>1. [data EXCEPT !.reseller_id = r] \in Data /\ [Nothing EXCEPT !.reseller_id = r] \in Data
    BY <1>2, <1>3 DEF Data
  <2> QED BY <1>1, <1>5, <2>1, BeginsInv
          DEF TelegramAdd, DisableStart, ResellerUsersSelected, EditSelect, BalanceSelect
<1>6. ASSUME NEW r \in Targets, NEW change \in Changes, EditField(r, change) \/ BalanceAction(r, change)
      PROVE  IInv'
  <2>1. /\ [data EXCEPT !.reseller_id = r, !.field = change] \in Data
        /\ [data EXCEPT !.reseller_id = r, !.balance_action = change] \in Data
    BY <1>2, <1>3 DEF Data
  <2> QED BY <1>1, <1>6, <2>1, BeginsInv DEF EditField, BalanceAction
<1>7. ASSUME NEW scope \in Targets \cup {"g"}, NEW field \in Changes, LimitsField(scope, field)
      PROVE  IInv'
  <2>1. [data EXCEPT !.scope = scope, !.field = field] \in Data
    BY <1>2, <1>3 DEF Data
  <2> QED BY <1>1, <1>7, <2>1, BeginsInv DEF LimitsField
<1> QED BY <1>4, <1>5, <1>6, <1>7

LEMMA BotButtonsInv ==
    ASSUME IInv,
           \/ AddResellerStart \/ PriceStart \/ MaintenanceScreen
           \/ \E enabled \in {"on", "off"} : MaintenanceSet(enabled)
    PROVE  IInv'
<1>1. {<<"AddReseller", "telegram_id">>, <<"SettingsEdit", "global_price">>,
        <<"MaintenanceMode", "menu">>, <<"MaintenanceMode", "confirm">>} \subseteq States \ Priced
  BY Forms DEF States, Priced
<1>2. data \in Data /\ Nothing \in Data
  BY NothingType DEF IInv, TypeOK, Data
<1>3. \A enabled \in {"on", "off"} : [data EXCEPT !.maintenance_enabled = enabled] \in Data
  BY <1>2 DEF Data, Values
<1> QED BY <1>1, <1>2, <1>3, BeginsInv
        DEF AddResellerStart, PriceStart, MaintenanceScreen, MaintenanceSet

LEMMA ButtonsInv == ASSUME IInv, Buttons PROVE IInv'
BY ResellerButtonsInv, AdminButtonsInv, ResellersFormsInv, BotButtonsInv, TelegramMenuInv DEF Buttons

-------------------------------------------------------------------------------
LEMMA Invariance == Spec => []IInv
<1>1. IInv /\ [Next]_vars => IInv'
  <2> SUFFICES ASSUME IInv, [Next]_vars PROVE IInv' OBVIOUS
  <2>1. CASE UNCHANGED vars
    BY <2>1 DEF vars, IInv, TypeOK, TaskInv, SummaryInv, CostInv, QuotesItsVolume
  <2>2. CASE Buttons
    BY <2>2, ButtonsInv
  <2>3. ASSUME NEW t \in Tasks, \E told \in Told(state) : Arrive(t, told) PROVE IInv'
    BY <2>3, ArriveInv
  <2>4. ASSUME NEW t \in Tasks, Refuse(t) \/ Confirm(t) \/ ConfirmEnds(t) \/ ConfirmFails(t) PROVE IInv'
    BY <2>4, LeavesInv, ConfirmInv, ConfirmEndsInv DEF Refuse, ConfirmFails
  <2>5. ASSUME NEW t \in Tasks, LimitsNone(t) \/ DisableSilent(t) \/ BulkConfirm(t) PROVE IInv'
    BY <2>5, Forms, QuickInv DEF LimitsNone, DisableSilent, BulkConfirm
  <2>6. ASSUME NEW t \in Tasks, ToggleReads(t) \/ ToggleUsername(t) \/ RechargeAmount(t) PROVE IInv'
    BY <2>6, ToggleReadsInv, ToggleUsernameInv, RechargeInv
  <2> QED BY <2>1, <2>2, <2>3, <2>4, <2>5, <2>6, CreateInv, RenewInv, MyUsersInv, AdminCreateInv,
             AdminRenewInv, AdminSwitchInv, AddInv, ValueInv DEF Next
<1> QED BY <1>1, InitInv, PTL DEF Spec

(* Every variable keeps its type, for any number of updates handled at a   *)
(* time and any values told.                                               *)
THEOREM TypeCorrect == Spec => []TypeOK
BY Invariance, PTL DEF IInv

(* reseller.py:293: unless an answer came late, no summary quotes the cost *)
(* of another form's volume.                                               *)
THEOREM VolumeQuoted == Spec => []QuotesItsVolume
BY Invariance, PTL DEF IInv

(* reseller.py:305, admin.py:788: who presses the newest summary, or       *)
(* answers the last question, gets what it says, however many updates are  *)
(* handled at a time.                                                      *)
THEOREM SummaryConfirmed == Spec => ConfirmsWhatItSays
<1>1. ASSUME IInv, NEW t \in Tasks, task[t].half = "first", task[t].at[2] \in Last,
             ~task[t].overtaken, ~crossed, summary # Nothing,
             task[t].at[1] = "ToggleUserStatus" => task[t].told = summary.toggle_action,
             NEW k \in Form[task[t].at[1]]
      PROVE  Does(t)[k] = summary[k]
  <2>1. state = task[t].at /\ data \in Data /\ task[t].told \in Values
    BY <1>1 DEF IInv, TaskInv, TypeOK, Task, Data
  <2>2. state[1] \in DOMAIN Form
    BY <1>1, <2>1 DEF IInv, TypeOK, States, None, Last
  <2>3. k \in Keys /\ (k # "toggle_action" => summary[k] = data[k])
    BY <1>1, <2>1, <2>2, SaysIs DEF IInv, SummaryInv
  <2>4. CASE k # "toggle_action"
    BY <2>1, <2>3, <2>4 DEF Does, Data
  <2>5. CASE k = "toggle_action"
    <3>1. task[t].at[1] = "ToggleUserStatus"
      BY <1>1, <2>1, <2>2, <2>5, Forms DEF Form
    <3> QED BY <1>1, <2>1, <2>5, <3>1 DEF Does, Data, Keys
  <2> QED BY <2>4, <2>5
<1>2. IInv /\ [Next]_vars =>
        [\A t \in Tasks :
           LET form == task[t].at[1]
           IN  /\ task[t].half = "first" /\ task[t].at[2] \in Last /\ task'[t].half = "second"
               /\ ~task[t].overtaken /\ ~crossed /\ summary # Nothing
               /\ form = "ToggleUserStatus" => task[t].told = summary.toggle_action
               => \A k \in Form[form] \ {"cost"} : Does(t)[k] = summary[k]]_vars
  BY <1>1
<1> QED BY <1>2, Invariance, PTL DEF Spec, ConfirmsWhatItSays

-------------------------------------------------------------------------------
(* The picker of groups.  A save deletes the rows that it read, not those   *)
(* that are there; the inductive invariant says when the two are the same,  *)
(* and that only a picker set to all groups saves no row.                   *)

USE GroupsAssumption DEF GroupsAssumption

(* Only "all" selects nothing, from the picker to the write; the picker of  *)
(* one reseller has one.                                                    *)
PickInv(s) ==
    /\ s.at = "edit" => (s.mode = "all" => s.selected = {})
    /\ s.at = "edit" /\ s.whose = "one" => s.reseller \in Resellers
    /\ s.at \in {"confirm", "write"} => (s.mode = "all" <=> s.tags = {})

(* A save that nobody overtook has read the rows that are there. *)
ReadInv(s) ==
    s.at = "write" /\ ~s.stale => s.read = rows[s.reseller]

(* A save is for resellers, first of all for the one whose rows it read. *)
ForInv(s) ==
    s.at = "write" => s.reseller \in s.listed

SessionInv == \A t \in Admins : PickInv(session[t]) /\ ReadInv(session[t]) /\ ForInv(session[t])

GroupsInv == GroupsTypeOK /\ SessionInv /\ AllIsChosen /\ LastChoiceHolds

LEMMA ClosedType == Closed \in Session /\ Closed.at = "idle"
BY DEF Closed, Session

LEMMA ChoiceType ==
    ASSUME NEW s \in Session
    PROVE  Choice(s) \in [all: BOOLEAN, groups: SUBSET Groups]
BY DEF Choice, Session

(* What a save writes: its groups, and nothing else if it was not overtaken. *)
LEMMA WrittenIs ==
    ASSUME GroupsTypeOK, NEW s \in Session, s.at = "write", ReadInv(s), NEW r \in Resellers,
           NEW new \in Written(s, r)
    PROVE  /\ s.tags \subseteq new /\ new \subseteq Groups
           /\ ~(r = s.reseller /\ s.stale) => new = s.tags
<1>1. PICK gone \in Deleted(s, r) : new = (rows[r] \ gone) \cup s.tags
  BY DEF Written
<1>2. rows[r] \subseteq Groups /\ s.tags \subseteq Groups
  BY DEF GroupsTypeOK, Session
<1>3. ~(r = s.reseller /\ s.stale) => gone = rows[r]
  BY <1>1 DEF Deleted, ReadInv
<1> QED BY <1>1, <1>2, <1>3

LEMMA GroupsInitInv == GroupsInit => GroupsInv
<1> SUFFICES ASSUME GroupsInit PROVE GroupsInv OBVIOUS
<1> USE DEF GroupsInit
<1>1. GroupsTypeOK
  BY ClosedType DEF GroupsTypeOK, Unrestricted
<1>2. SessionInv
  BY ClosedType DEF SessionInv, PickInv, ReadInv, ForInv
<1>3. AllIsChosen /\ LastChoiceHolds
  BY DEF AllIsChosen, LastChoiceHolds
<1> QED BY <1>1, <1>2, <1>3 DEF GroupsInv

(* A picker goes on to s, and nothing is stored. *)
LEMMA PickerStep ==
    ASSUME GroupsInv, NEW t \in Admins, NEW s \in Session, Becomes(t, s),
           PickInv(s), ReadInv(s), ForInv(s)
    PROVE  GroupsInv'
<1> USE DEF Becomes, Stored
<1>1. GroupsTypeOK'
  BY DEF GroupsInv, GroupsTypeOK
<1>2. SessionInv'
  <2>1. ASSUME NEW u \in Admins
        PROVE  PickInv(session[u])' /\ ReadInv(session[u])' /\ ForInv(session[u])'
    <3>1. session'[u] = IF u = t THEN s ELSE session[u]
      BY DEF GroupsInv, GroupsTypeOK
    <3>2. PickInv(session'[u]) /\ ReadInv(session'[u]) /\ ForInv(session'[u])
      BY <3>1 DEF GroupsInv, SessionInv
    <3> QED BY <3>2 DEF PickInv, ReadInv, ForInv
  <2> QED BY <2>1 DEF SessionInv
<1>3. AllIsChosen' /\ LastChoiceHolds'
  BY DEF GroupsInv, AllIsChosen, LastChoiceHolds
<1> QED BY <1>1, <1>2, <1>3 DEF GroupsInv

(* The pickers are opened. *)
LEMMA OpenStep ==
    ASSUME GroupsInv, NEW t \in Admins, NEW names \in SUBSET Groups,
           \/ \E r \in Resellers : OpenOne(t, r, names)
           \/ \E whose \in {"all", "new"} : OpenPicker(t, whose, names)
    PROVE  GroupsInv'
<1>1. CASE \E r \in Resellers : OpenOne(t, r, names)
  <2>1. PICK r \in Resellers : OpenOne(t, r, names)
    BY <1>1
  <2> DEFINE s == [Closed EXCEPT !.at = "edit", !.reseller = r, !.names = names,
                     !.mode = IF rows[r] = {} THEN "all" ELSE "custom",
                     !.selected = rows[r] \cap names]
  <2>2. rows[r] \subseteq Groups
    BY DEF GroupsInv, GroupsTypeOK
  <2>3. s \in Session /\ PickInv(s) /\ ReadInv(s) /\ ForInv(s)
    BY <2>2 DEF Closed, Session, PickInv, ReadInv, ForInv
  <2>4. Becomes(t, s)
    BY <2>1 DEF OpenOne
  <2> HIDE DEF s
  <2> QED BY <2>3, <2>4, PickerStep
<1>2. CASE \E whose \in {"all", "new"} : OpenPicker(t, whose, names)
  <2>1. PICK whose \in {"all", "new"} : OpenPicker(t, whose, names)
    BY <1>2
  <2> DEFINE s == [Closed EXCEPT !.at = "edit", !.whose = whose, !.names = names]
  <2>2. s \in Session /\ PickInv(s) /\ ReadInv(s) /\ ForInv(s)
    BY DEF Closed, Session, PickInv, ReadInv, ForInv
  <2>3. Becomes(t, s)
    BY <2>1 DEF OpenPicker
  <2> HIDE DEF s
  <2> QED BY <2>2, <2>3, PickerStep
<1> QED BY <1>1, <1>2

(* The pickers are used and left. *)
LEMMA PickStep ==
    ASSUME GroupsInv, NEW t \in Admins,
           \/ NoPicker(t) \/ SetAll(t) \/ Leave(t) \/ PickerDone(t)
           \/ \E group \in Groups : Toggle(t, group)
    PROVE  GroupsInv'
<1>0. session[t] \in Session /\ PickInv(session[t])
  BY DEF GroupsInv, GroupsTypeOK, SessionInv
<1>1. CASE NoPicker(t)
  <2> DEFINE s == [Closed EXCEPT !.at = "confirm", !.whose = "new", !.mode = "all"]
  <2>1. s \in Session /\ PickInv(s) /\ ReadInv(s) /\ ForInv(s)
    BY DEF Closed, Session, PickInv, ReadInv, ForInv
  <2>2. Becomes(t, s)
    BY <1>1 DEF NoPicker
  <2> HIDE DEF s
  <2> QED BY <2>1, <2>2, PickerStep
<1>2. CASE SetAll(t)
  <2> DEFINE s == [session[t] EXCEPT !.mode = "all", !.selected = {}]
  <2>1. s \in Session /\ PickInv(s) /\ ReadInv(s) /\ ForInv(s)
    BY <1>0, <1>2 DEF SetAll, Session, PickInv, ReadInv, ForInv
  <2>2. Becomes(t, s)
    BY <1>2 DEF SetAll
  <2> HIDE DEF s
  <2> QED BY <2>1, <2>2, PickerStep
<1>3. CASE Leave(t)
  BY <1>3, ClosedType, PickerStep DEF Leave, PickInv, ReadInv, ForInv
<1>4. CASE PickerDone(t)
  <2> DEFINE s == [Closed EXCEPT !.at = "confirm", !.whose = session[t].whose,
                     !.mode = session[t].mode, !.tags = ResultTags(session[t])]
  <2>1. s \in Session /\ PickInv(s) /\ ReadInv(s) /\ ForInv(s)
    BY <1>0, <1>4 DEF PickerDone, Valid, ResultTags, Closed, Session, PickInv, ReadInv, ForInv
  <2>2. Becomes(t, s)
    BY <1>4 DEF PickerDone
  <2> HIDE DEF s
  <2> QED BY <2>1, <2>2, PickerStep
<1>5. CASE \E group \in Groups : Toggle(t, group)
  <2>1. PICK group \in Groups : Toggle(t, group)
    BY <1>5
  <2> DEFINE s == [session[t] EXCEPT !.mode = "custom", !.selected = Toggled(session[t], group)]
  <2>2. Toggled(session[t], group) \subseteq Groups
    BY <1>0 DEF Toggled, Session
  <2>3. s \in Session /\ PickInv(s) /\ ReadInv(s) /\ ForInv(s)
    BY <1>0, <2>1, <2>2 DEF Toggle, Session, PickInv, ReadInv, ForInv
  <2>4. Becomes(t, s)
    BY <2>1 DEF Toggle
  <2> HIDE DEF s
  <2> QED BY <2>3, <2>4, PickerStep
<1> QED BY <1>1, <1>2, <1>3, <1>4, <1>5

(* A save reads the rows, or fails when it writes. *)
LEMMA ReadStep ==
    ASSUME GroupsInv, NEW t \in Admins,
           ReadOne(t) \/ WriteFails(t) \/ \E r \in Resellers : ReadAll(t, r)
    PROVE  GroupsInv'
<1>0. /\ session[t] \in Session /\ PickInv(session[t]) /\ ForInv(session[t])
      /\ rows \in [Resellers -> SUBSET Groups] /\ live \subseteq Resellers
  BY DEF GroupsInv, GroupsTypeOK, SessionInv
<1>1. CASE ReadOne(t)
  <2> DEFINE o == session[t]
             s == [Closed EXCEPT !.at = "write", !.reseller = o.reseller, !.names = o.names,
                     !.mode = o.mode, !.tags = ResultTags(o), !.listed = {o.reseller},
                     !.read = rows[o.reseller]]
  <2>1. o.at = "edit" /\ Valid(o) /\ o.reseller \in Resellers
    BY <1>0, <1>1 DEF ReadOne, PickInv
  <2>2. s \in Session /\ PickInv(s) /\ ReadInv(s) /\ ForInv(s)
    BY <1>0, <2>1 DEF Valid, ResultTags, Closed, Session, PickInv, ReadInv, ForInv
  <2>3. Becomes(t, s)
    BY <1>1 DEF ReadOne
  <2> HIDE DEF s
  <2> QED BY <2>2, <2>3, PickerStep
<1>2. CASE WriteFails(t)
  <2>1. session[t].at = "write" /\ Becomes(t, StillOpen(session[t]))
    BY <1>2 DEF WriteFails
  <2>2. /\ StillOpen(session[t]) \in Session
        /\ PickInv(StillOpen(session[t])) /\ ReadInv(StillOpen(session[t]))
        /\ ForInv(StillOpen(session[t]))
    BY <1>0, <2>1 DEF StillOpen, Closed, Session, PickInv, ReadInv, ForInv
  <2> QED BY <2>1, <2>2, PickerStep
<1>3. CASE \E r \in Resellers : ReadAll(t, r)
  <2>1. PICK r \in Resellers : ReadAll(t, r)
    BY <1>3
  <2> DEFINE s == [session[t] EXCEPT !.at = "write", !.reseller = r, !.listed = live, !.read = rows[r]]
  <2>2. s \in Session /\ PickInv(s) /\ ReadInv(s) /\ ForInv(s)
    BY <1>0, <2>1 DEF ReadAll, Session, PickInv, ReadInv, ForInv
  <2>3. Becomes(t, s)
    BY <2>1 DEF ReadAll
  <2> HIDE DEF s
  <2> QED BY <2>2, <2>3, PickerStep
<1> QED BY <1>1, <1>2, <1>3

(* Everybody else's save of one of us is overtaken. *)
LEMMA OvertakeIs ==
    ASSUME GroupsTypeOK, NEW t, NEW us, NEW u \in Admins
    PROVE  /\ Overtake(t, us)[u] \in Session
           /\ Overtake(t, us)[u] = session[u] \/ Overtake(t, us)[u] = [session[u] EXCEPT !.stale = TRUE]
           /\ u # t /\ session[u].at = "write" /\ session[u].reseller \in us => Overtake(t, us)[u].stale
<1>1. session[u] \in Session
  BY DEF GroupsTypeOK
<1>2. [session[u] EXCEPT !.stale = TRUE] \in Session /\ [session[u] EXCEPT !.stale = TRUE].stale
  BY <1>1 DEF Session
<1> QED BY <1>1, <1>2 DEF Overtake

(* A session that is marked overtaken keeps all else. *)
LEMMA OvertakeKeeps ==
    ASSUME NEW s \in Session, NEW o \in Session, o = s \/ o = [s EXCEPT !.stale = TRUE]
    PROVE  /\ PickInv(s) => PickInv(o)
           /\ ForInv(s) => ForInv(o)
           /\ o.at = s.at /\ o.read = s.read /\ o.reseller = s.reseller
           /\ ~o.stale => ~s.stale
BY DEF Session, PickInv, ForInv

(* Rows are written of resellers us at most, and t's session, if it writes  *)
(* them, ends in s.                                                         *)
LEMMA SessionsKept ==
    ASSUME GroupsInv, NEW t, NEW us \in SUBSET Resellers, NEW s \in Session, s.at # "write", PickInv(s),
           \A r \in Resellers \ us : rows'[r] = rows[r],
           session' = IF t \in Admins THEN [Overtake(t, us) EXCEPT ![t] = s] ELSE Overtake(t, us)
    PROVE  session' \in [Admins -> Session] /\ SessionInv'
<1>1. GroupsTypeOK
  BY DEF GroupsInv
<1>2. \A u \in Admins : session'[u] = IF u = t THEN s ELSE Overtake(t, us)[u]
  BY DEF Overtake
<1>3. session' \in [Admins -> Session]
  <2>1. \A u \in Admins : Overtake(t, us)[u] \in Session
    BY <1>1, OvertakeIs
  <2>2. Overtake(t, us) \in [Admins -> Session]
    BY <2>1 DEF Overtake
  <2> QED BY <2>2
<1>4. ASSUME NEW u \in Admins, u # t
      PROVE  PickInv(session[u])' /\ ReadInv(session[u])' /\ ForInv(session[u])'
  <2> DEFINE o == Overtake(t, us)[u]
  <2>1. session'[u] = o
    BY <1>2, <1>4
  <2>2. session[u] \in Session /\ PickInv(session[u]) /\ ReadInv(session[u]) /\ ForInv(session[u])
    BY <1>1 DEF GroupsTypeOK, GroupsInv, SessionInv
  <2>3. /\ o \in Session /\ (o = session[u] \/ o = [session[u] EXCEPT !.stale = TRUE])
        /\ session[u].at = "write" /\ session[u].reseller \in us => o.stale
    BY <1>1, <1>4, OvertakeIs
  <2> HIDE DEF o
  <2>4. PickInv(o) /\ ForInv(o) /\ o.at = session[u].at /\ o.read = session[u].read
        /\ o.reseller = session[u].reseller /\ (~o.stale => ~session[u].stale)
    BY <2>2, <2>3, OvertakeKeeps
  <2>5. o.at = "write" => o.reseller \in Resellers
    BY <2>2, <2>4 DEF ForInv, Session
  <2>6. o.at = "write" /\ ~o.stale => o.read = rows'[o.reseller]
    BY <2>2, <2>3, <2>4, <2>5 DEF ReadInv
  <2> QED BY <2>1, <2>4, <2>6 DEF PickInv, ReadInv, ForInv
<1>5. ASSUME NEW u \in Admins, u = t
      PROVE  PickInv(session[u])' /\ ReadInv(session[u])' /\ ForInv(session[u])'
  BY <1>2, <1>5 DEF PickInv, ReadInv, ForInv
<1>6. SessionInv'
  BY <1>4, <1>5 DEF SessionInv
<1> QED BY <1>3, <1>6

(* A save is written. *)
LEMMA WriteStep ==
    ASSUME GroupsInv, NEW t \in Admins, Write(t)
    PROVE  GroupsInv'
<1> DEFINE s == session[t]
           after == IF s.whose = "all" THEN Closed ELSE StillOpen(s)
<1>1. GroupsTypeOK /\ s \in Session /\ s.at = "write" /\ PickInv(s) /\ ReadInv(s) /\ ForInv(s)
  BY DEF GroupsInv, GroupsTypeOK, SessionInv, Write
<1>2. s.listed \subseteq Resellers /\ s.reseller \in Resellers
  BY <1>1 DEF Session, ForInv
<1>3. after \in Session /\ after.at # "write" /\ PickInv(after)
  BY <1>1, <1>2 DEF StillOpen, Closed, Session, PickInv
<1>4. /\ rows' \in [Resellers -> SUBSET Groups] /\ live' = live
      /\ \A r \in Resellers : rows'[r] \in IF r \in s.listed THEN Written(s, r) ELSE {rows[r]}
      /\ choice' = [r \in Resellers |-> IF r \in s.listed THEN Choice(s) ELSE choice[r]]
      /\ mixed' = [r \in Resellers |-> IF r \in s.listed THEN r = s.reseller /\ s.stale ELSE mixed[r]]
      /\ session' = [Overtake(t, s.listed) EXCEPT ![t] = after]
  BY DEF Write
<1>5. \A r \in Resellers \ s.listed : rows'[r] = rows[r]
  BY <1>4
<1> HIDE DEF after
<1>6. session' \in [Admins -> Session] /\ SessionInv'
  BY <1>2, <1>3, <1>4, <1>5, SessionsKept
<1> HIDE DEF s
<1>7. /\ choice' \in [Resellers -> [all: BOOLEAN, groups: SUBSET Groups]]
      /\ mixed' \in [Resellers -> BOOLEAN]
  <2>1. Choice(s) \in [all: BOOLEAN, groups: SUBSET Groups] /\ s.stale \in BOOLEAN
    BY <1>1, ChoiceType DEF Session
  <2>2. \A r \in Resellers : choice[r] \in [all: BOOLEAN, groups: SUBSET Groups] /\ mixed[r] \in BOOLEAN
    BY <1>1 DEF GroupsTypeOK
  <2>3. choice' \in [Resellers -> [all: BOOLEAN, groups: SUBSET Groups]]
    BY <1>4, <2>1, <2>2
  <2>4. \A r \in Resellers :
          (IF r \in s.listed THEN r = s.reseller /\ s.stale ELSE mixed[r]) \in BOOLEAN
    BY <2>1, <2>2
  <2>5. mixed' \in [Resellers -> BOOLEAN]
    BY <1>4, <2>4
  <2> QED BY <2>3, <2>5
<1>8. GroupsTypeOK'
  BY <1>1, <1>4, <1>6, <1>7 DEF GroupsTypeOK
<1>9. ASSUME NEW r \in live' PROVE (rows'[r] = {} => choice'[r].all)
                                   /\ (~mixed'[r] => rows'[r] = choice'[r].groups)
  <2>1. r \in Resellers /\ r \in live
    BY <1>1, <1>4, <1>9 DEF GroupsTypeOK
  <2>2. CASE r \in s.listed
    <3>1. rows'[r] \in Written(s, r)
      BY <1>4, <2>1, <2>2
    <3>2. s.tags \subseteq rows'[r] /\ (~(r = s.reseller /\ s.stale) => rows'[r] = s.tags)
      BY <1>1, <2>1, <3>1, WrittenIs
    <3>3. choice'[r].all = (s.mode = "all") /\ choice'[r].groups = s.tags
      BY <1>4, <2>1, <2>2 DEF Choice
    <3>4. mixed'[r] = (r = s.reseller /\ s.stale)
      BY <1>4, <2>1, <2>2
    <3>5. s.mode = "all" <=> s.tags = {}
      BY <1>1 DEF PickInv
    <3> QED BY <3>2, <3>3, <3>4, <3>5
  <2>3. CASE r \notin s.listed
    BY <1>4, <2>1, <2>3 DEF GroupsInv, AllIsChosen, LastChoiceHolds
  <2> QED BY <2>2, <2>3
<1> QED BY <1>6, <1>8, <1>9 DEF GroupsInv, AllIsChosen, LastChoiceHolds

(* A reseller is added. *)
LEMMA AddStep ==
    ASSUME GroupsInv, NEW t \in Admins, NEW r \in Resellers, AddReseller(t, r)
    PROVE  GroupsInv'
<1> DEFINE s == session[t]
<1>1. GroupsTypeOK /\ s \in Session /\ s.at = "confirm" /\ PickInv(s)
  BY DEF GroupsInv, GroupsTypeOK, SessionInv, AddReseller
<1>2. /\ live' = live \cup {r}
      /\ rows' = [rows EXCEPT ![r] = IF s.tags = {} THEN @ ELSE s.tags]
      /\ choice' = [choice EXCEPT ![r] = Choice(s)]
      /\ mixed' = [mixed EXCEPT ![r] = rows[r] # {} /\ s.tags = {}]
      /\ session' = [Overtake(t, {r}) EXCEPT ![t] = Closed]
  BY DEF AddReseller
<1>3. PickInv(Closed)
  BY ClosedType DEF PickInv
<1>4. \A q \in Resellers \ {r} : rows'[q] = rows[q]
  BY <1>1, <1>2 DEF GroupsTypeOK
<1>5. session' \in [Admins -> Session] /\ SessionInv'
  BY <1>2, <1>3, <1>4, ClosedType, SessionsKept
<1> HIDE DEF s
<1>6. s.tags \subseteq Groups /\ Choice(s) \in [all: BOOLEAN, groups: SUBSET Groups]
  BY <1>1, ChoiceType DEF Session
<1>7. GroupsTypeOK'
  <2>1. rows' \in [Resellers -> SUBSET Groups] /\ live' \subseteq Resellers
    BY <1>1, <1>2, <1>6 DEF GroupsTypeOK
  <2>2. choice' \in [Resellers -> [all: BOOLEAN, groups: SUBSET Groups]]
    BY <1>1, <1>2, <1>6 DEF GroupsTypeOK
  <2>3. mixed' \in [Resellers -> BOOLEAN]
    <3>1. mixed \in [Resellers -> BOOLEAN] /\ (rows[r] # {} /\ s.tags = {}) \in BOOLEAN
      BY <1>1 DEF GroupsTypeOK
    <3> QED BY <1>2, <3>1
  <2> QED BY <1>5, <2>1, <2>2, <2>3 DEF GroupsTypeOK
<1>8. ASSUME NEW q \in live' PROVE (rows'[q] = {} => choice'[q].all)
                                   /\ (~mixed'[q] => rows'[q] = choice'[q].groups)
  <2>1. q \in Resellers
    BY <1>7, <1>8 DEF GroupsTypeOK
  <2>2. CASE q = r
    <3>1. rows'[r] = (IF s.tags = {} THEN rows[r] ELSE s.tags)
      BY <1>1, <1>2 DEF GroupsTypeOK
    <3>2. choice'[r].all = (s.mode = "all") /\ choice'[r].groups = s.tags
      BY <1>1, <1>2 DEF GroupsTypeOK, Choice
    <3>3. mixed'[r] = (rows[r] # {} /\ s.tags = {})
      BY <1>1, <1>2 DEF GroupsTypeOK
    <3>4. s.mode = "all" <=> s.tags = {}
      BY <1>1 DEF PickInv
    <3> QED BY <2>2, <3>1, <3>2, <3>3, <3>4
  <2>3. CASE q # r
    <3>1. q \in live /\ rows'[q] = rows[q] /\ choice'[q] = choice[q] /\ mixed'[q] = mixed[q]
      BY <1>1, <1>2, <1>8, <2>1, <2>3 DEF GroupsTypeOK
    <3> QED BY <3>1 DEF GroupsInv, AllIsChosen, LastChoiceHolds
  <2> QED BY <2>2, <2>3
<1> QED BY <1>5, <1>7, <1>8 DEF GroupsInv, AllIsChosen, LastChoiceHolds

(* A reseller is deleted for good. *)
LEMMA DeleteStep ==
    ASSUME GroupsInv, NEW r \in Resellers, DeleteReseller(r)
    PROVE  GroupsInv'
<1>1. /\ live' = live \ {r} /\ rows' = [rows EXCEPT ![r] = {}]
      /\ choice' = [choice EXCEPT ![r] = Unrestricted] /\ mixed' = [mixed EXCEPT ![r] = FALSE]
      /\ session' = Overtake(Nobody, {r})
  BY DEF DeleteReseller
<1>2. GroupsTypeOK
  BY DEF GroupsInv
<1>3. session' \in [Admins -> Session] /\ SessionInv'
  <2>1. \A q \in Resellers \ {r} : rows'[q] = rows[q]
    BY <1>1, <1>2 DEF GroupsTypeOK
  <2>2. Nobody \notin Admins /\ PickInv(Closed) /\ {r} \in SUBSET Resellers
    BY ClosedType DEF PickInv
  <2>3. session' = IF Nobody \in Admins THEN [Overtake(Nobody, {r}) EXCEPT ![Nobody] = Closed]
                   ELSE Overtake(Nobody, {r})
    BY <1>1, <2>2
  <2> QED BY <2>1, <2>2, <2>3, ClosedType, SessionsKept
<1>4. GroupsTypeOK'
  BY <1>1, <1>2, <1>3 DEF GroupsTypeOK, Unrestricted
<1>5. ASSUME NEW q \in live' PROVE (rows'[q] = {} => choice'[q].all)
                                   /\ (~mixed'[q] => rows'[q] = choice'[q].groups)
  <2>1. q \in live /\ rows'[q] = rows[q] /\ choice'[q] = choice[q] /\ mixed'[q] = mixed[q]
    BY <1>1, <1>2, <1>5 DEF GroupsTypeOK
  <2> QED BY <2>1 DEF GroupsInv, AllIsChosen, LastChoiceHolds
<1> QED BY <1>3, <1>4, <1>5 DEF GroupsInv, AllIsChosen, LastChoiceHolds

LEMMA GroupsStepInv == GroupsInv /\ [GroupsNext]_groupsVars => GroupsInv'
<1> SUFFICES ASSUME GroupsInv, [GroupsNext]_groupsVars PROVE GroupsInv' OBVIOUS
<1>1. CASE UNCHANGED groupsVars
  BY <1>1 DEF groupsVars, GroupsInv, GroupsTypeOK, SessionInv, PickInv, ReadInv, ForInv,
              AllIsChosen, LastChoiceHolds
<1>2. CASE GroupsNext
  BY <1>2, OpenStep, PickStep, ReadStep, WriteStep, AddStep, DeleteStep DEF GroupsNext
<1> QED BY <1>1, <1>2

THEOREM GroupsInvariance == GroupsSpec => []GroupsInv
BY GroupsInitInv, GroupsStepInv, PTL DEF GroupsSpec

(* Every variable of Groups keeps its type. *)
THEOREM GroupsTypeCorrect == GroupsSpec => []GroupsTypeOK
<1>1. GroupsInv => GroupsTypeOK
  BY DEF GroupsInv
<1> QED BY GroupsInvariance, <1>1, PTL

(* Nobody comes to the widest access but by a save that chose it, whatever  *)
(* overlaps (group_picker.py:34, repositories.py:130-138).                  *)
THEOREM WidestIsChosen == GroupsSpec => []AllIsChosen
<1>1. GroupsInv => AllIsChosen
  BY DEF GroupsInv
<1> QED BY GroupsInvariance, <1>1, PTL

(* Without an overlap a reseller has what was saved last                    *)
(* (repositories.py:134-138).                                               *)
THEOREM LastSaved == GroupsSpec => []LastChoiceHolds
<1>1. GroupsInv => LastChoiceHolds
  BY DEF GroupsInv
<1> QED BY GroupsInvariance, <1>1, PTL
===============================================================================
