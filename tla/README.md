# A TLA+ model of the reseller bot

The program (`src/`, Python: aiogram 3, SQLAlchemy on SQLite, APScheduler) is a
Telegram bot that sells VPN accounts through resellers. A reseller has a balance;
creating or renewing an account takes its cost from it; the accounts live on a
separate panel (PasarGuard, called Marzban in the code) that the bot reaches over
HTTP. Administrators add resellers, change balances and prices, approve recharge
requests, and manage accounts directly.

This directory holds specifications of the parts that can go wrong in ways a test
would hardly reach, the configurations that model-check them, and proofs.

## 1. Inventory of the system

`start_polling` runs the handler of every update as an asyncio task of its own, and no
handler takes a lock that another respects. So all that follows is concurrent:
between any two `await`s of a handler any other handler may run. The FSM storage is in
memory, the database is one SQLite file, and SQLite takes no lock before a
transaction's first write. Those three facts are where the models start from.

| Component | Code (under `src/app/`) | State | Hard because |
|---|---|---|---|
| Billing, ledger | `services/billing.py`, `database/repositories.py`, confirm handlers in `handlers/` | `resellers`, `balance_transactions`, `operation_logs` | a session computes from the balance it cached, across panel calls and a 3 s pause |
| Recharge requests | `handlers/reseller.py:478-497`, `handlers/admin.py:1305-1430` | `recharge_requests` | test of the status and write of it are two steps; several admins |
| Account creation | `handlers/reseller.py:49-183,305-341` | panel account, row in `created_users` | two stores, no common transaction; every call may fail before or after it took effect; whose an account is the panel knows by a display name |
| Owner sync | `services/owners_sync.py`, `handlers/admin_ext.py:415-445` | `created_users`, `_SYNC_RUNNING` | writes from a listing that is old by then; finds resellers by names that are neither unique nor fixed |
| Renewal | `services/renewal.py`, `handlers/reseller.py:405-476`, `handlers/admin.py:278-386` | account's limit, expiry and usage on the panel | read, compute, reset, write: four steps on another system |
| Panel client | `services/marzban.py` | token | retries, 401 and login, paging |
| Limits | `services/limits.py`, `handlers/admin_ext.py` | JSON values in `bot_settings` | read-modify-write of one JSON value; checked at input and again at confirm |
| Telegram accounts, access | `database/repositories.py`, `middlewares/` | `reseller_telegram_accounts`, `resellers.telegram_id`, `rmsg:` settings | two copies of the primary id; ids of deleted resellers are used again, and no foreign key is enforced |
| Group access | `services/group_picker.py`, `repositories.py:130-137` | `reseller_inbounds` | an empty list means every group; the ORM inserts before it deletes |
| Bulk operations | `services/bulk_users.py`, `handlers/admin.py:501-661` | account states, `_BULK_RUNNING` | plan made from rows that change; chunk endpoint with fallback |
| Backup scheduler | `services/backup.py`, `services/scheduler.py` | two settings, the job | setting and job change apart; restart |
| Conversations | `states/`, all form handlers | FSM state and data | two updates of one user in flight; a quoted cost against the one charged |
| Username cache | `services/tg_resolve.py` | `_seen`, `tgu:` settings | not hard: every sighting of a person overwrites both |
| Reports, PDF, keyboards, texts | `services/reports.py`, `pdf_report.py`, `keyboards/`, ... | none | read-only output; not modelled |

What makes each correct: a balance never goes below zero, agrees with the ledger, and
counts every posting; a request is settled once; an account is charged once, to the
reseller it belongs to, and only a charged account is handed out; an operation the
user is told has failed changed nothing; a form charges what it quoted; flags and
jobs are given back. `PROJECT.json` lists the hazards one by one with their lines.

## 2. Modules

| Module | What it is |
|---|---|
| `Wallet` | abstract: accounts are opened, closed and posted to, each posting from some balance the account once had |
| `Billing` | every transaction on balances, ledger, prices, requests and resellers |
| `BillingClaims` | what the program's texts promise about them and the code does not keep |
| `BillingProofs` | theorems about `Billing`, among them that it implements `Wallet` |
| `Provisioning`, `ProvisioningProofs` | creating an account: panel, `created_users`, charge, admin's create and delete, sync, resellers' names, renaming and deletion |
| `Renewal`, `RenewalProofs` | renewing an account: panel's GET, reset and PUT, their retries, the mode setting |
| `LimitRules` | what limits mean: merge, consistency, allowed volumes |
| `Limits`, `LimitsProofs` | saving and resetting the limits of one reseller and of all |
| `BulkUsers`, `BulkUsersProofs` | enabling or disabling all accounts of a reseller, beside the buttons for one |
| `Resellers`, `ResellersProofs` | who is a reseller: rows, Telegram accounts, status and message, the middlewares |
| `Backup`, `BackupProofs` | the settings of backups, the scheduler's job, and what is sent |
| `Groups` | the groups of the panel in which a reseller may create: three pickers and their saves |
| `GroupsClaims` | what the picker's texts promise and the save does not keep |
| `Conversation` | the forms of one chat: state, data, summaries and what is confirmed |
| `FormsProofs` | theorems about `Conversation` and `Groups` |
| `MCBilling`, `MCBillingClaims`, `MCProvisioning`, `MCLimits`, `MCGroups`, `MCConversation` | constants and symmetry for TLC |

The modules share one picture of time: an action is what a handler does between two
`await`s that matter, and another handler may run in between. They are composed where
they share state that a property speaks of: `Billing` is the one module for all that
writes a balance (creates, renewals, requests, changes, deletions), `Provisioning` for
all that writes an account's owner. Elsewhere a module names the module that holds the
rest of a handler: `Conversation` ends where a form is confirmed, `Provisioning` and
`Renewal` begin there and end where `Billing` charges.

### Billing

A *task* is one activation of a handler. `session[t]` is its database session: the
step it will take next and the row values its identity map has kept. `Begin...`
actions are the reads (`session.get`, the check of the cost, the check that a
request is pending); `Commit...` actions are the flush and commit at the end of the
`async with` block, computed from what was read. What happens between, panel calls and
pauses, is simply that other tasks run. `Abandon` is every way a task ends without
committing: refusal, panel failure, exception, restart. `ChangeBalance` is
`BillingService.change_balance`; its two guards are the two ways it raises.

`opening`, `purged`, `held` and `posted` are history: the balance a row began with, the
ids ever deleted for good, every balance ever committed under an id, the number of
ledger rows ever inserted. SQLite reuses the largest id after its row was deleted;
`NextId` says so. The status of a reseller (active, disabled, archived) decides who may
start a handler, not what it does; it is in `Resellers`. Create and renew are one kind
of charge here: they are the same code with another label.

### Provisioning

The panel numbers the accounts it creates, so that an account that was deleted and
made again is another one. `panel[u]` is the number of the account that is called `u` now,
`owner[u]` the owner in its note. `recorded` is the table `created_users`, `charged` the
tasks whose charge is in `operation_logs`. What a charge does to a balance is in `Billing`.

The bot knows a reseller by its id, the panel by the display name in a note, and the two
are kept apart: `live` and `name` are the table of resellers, in which two may have one
name (`models.py:43` has no constraint), `Rename` is `edit_confirm`, which leaves the notes
as they are, and `DeletePermanently` takes the rows and the log of a reseller while its
accounts stay on the panel. Its id comes back with `AddReseller`. `called` (the ids that
ever had a name) and `purged` (the ids ever deleted for good) are history.

`session[t].at` is the place of a handler in `create_user_safely` and what follows;
`PostTakesEffect` has three outcomes (success, an error status all the same, no answer),
`PostFails` one. `name` is what the handler read at its start and what it compares with a
note; its reseller may be renamed or gone by then. `account`, `note`, `before` and `new` only serve
the properties; what a handler no longer needs is cleared, so that TLC does not tell states
apart by it.

`sync` has one value because `_SYNC_RUNNING` lets one run at a time. It looks three times: at
the panel (`SyncList`), at the resellers (`SyncNames`, where of several with one name any may
stay in the table by name, since no order is asked for), at the rows (`SyncRead`); what
differs is written in one transaction (`SyncWrite`), which fails if a row to add has
appeared or a row to change has gone. A row is known by its username; that SQLite may also give the
primary key of a deleted `created_users` row to another is left out.

### Renewal

One account, `account` (volume in GB, time in days; expiry 0 is none), and any number of
renewals of it by resellers and admins. `session[t].at` is the place of a renewal
between its summary and its end. `Show` is the days step of the form; `Confirm` reads
the mode, which may no longer be the one the summary named; `Get` reads the account and
the clock; `Result` is what `calculate_renewal` makes of what `Get` saw; `Reset` and
`Put` are calls that took effect, whether success was heard of or not, and `CallFails`
one without effect; `Unanswered` has the three ways a call goes wrong (a 5xx with
another attempt, an error the handler reports, a timeout no handler catches). `Consume`
and `Tick` are the customer and time. `writer` and `opening` are history. Not modelled:
that an unlimited renewal activates an `on_hold` account (`admin.py:376`) and the checks
of ownership, balance and limits before the panel is called (a refusal is `Die`, which
changes nothing).

### Limits

`global` and `own[r]` are two JSON values of `bot_settings`, a function from fields each;
`Unset` is a missing key and 0 is "no limit". A save is the code's read, validation and
write of the whole value: `ReadOwn`, `ValidateOwn`, `WriteOwn` for one reseller
(`set_reseller_field` reads its own value first and the global one later), `ReadGlobal`,
`WriteGlobal` for all. A global save also drops the field from every own value and
collects the resellers whose limits now contradict the global ones (`warned`). Whether
this is one step depends on the ORM: the first UPDATE takes SQLite's write lock, which is
held to the commit; but a value equal to the stored one issues no UPDATE, so the own
values are then read without a lock, one at a time (`SameGlobal`, `Scan`), until one of
them changes (`Clear`). `max_days` is a field like the others, without a rule, so that
`min_gb` and `max_gb` suffice for TLC. `session[t].overtaken` is history.

### BulkUsers

`Press` looks at `_BULK_RUNNING` and sets it in one step, as the code does (no await in
between); `End` is the `finally`. `Plan` is `fetch_plan`, with the one table of statuses
each action is for. A chunk is sent by `BulkCall`, which the panel may answer with names,
with an error although it took effect, or not at all (`BulkTimeout`); the accounts it did
not name go one by one through `CallDone`, `CallFails` and `CallTimeout`. These run
concurrently in an `asyncio.gather`: an unhandled timeout ends the handler and frees
the flag, but the calls already started go on. `Toggle` is the button for a single
account, of an admin or of a reseller, `RunOut` an account that expires, runs out of
volume or is deleted. `moved[t]` (history) is what has changed since `t`'s plan.

### Resellers

Ids that SQLite gives again, people (Telegram ids) and what is recorded for them.
`Add` inserts the reseller and its first account; `BeginAdd` and `CommitAdd` are the
form that adds another one, which keeps an id and looks nobody up; `AskMessage`,
`ReadForMessage`, `ReadFor` and `WriteStatus` are every change of status with its
message; `Delete` is the deletion for good with all it cleans up. `Authenticate`,
`TellOrPass` and `Serve` are the three middlewares an update passes in this order, each
with its own read. `born`, `for` and `late` are history: which of all resellers ever
added an id stands for, whom a record was meant for, and whether that reseller was gone
when it was written. The handlers that remove an account or choose the primary one are
registered behind one that takes every `adm:tg:` button (`admin.py:1010`), so no update
reaches them; they are no actions.

### Backup

`enabled`, `interval` and `token` are settings, `job` the scheduler's job, which lives in
memory. A handler commits its setting first and changes the job after another read:
`Enable`, `ReadInterval`, `Schedule`; `Disable`, `RemoveJob`; `SetInterval`,
`CheckEnabled`, `Schedule`. `send[s]` is `send_database_backup`, of the job or of a press
of the "now" button: the copy, the token, and admin by admin the other bot and then the
main bot, of which the latter's failure ends the whole. A call that fails may have
delivered. `Restart` may come anywhere and makes the job from the settings.
`tangled` and `alone` (history) tell whether handlers have overlapped.

### Groups

`rows[r]` is `reseller_inbounds`; no row means every group. A picker (`session[t]`) is of
one reseller, of all or of one that is being added; it shows the groups that the panel
has just now, which `OpenOne` and `OpenPicker` choose freely. A save reads rows in one
step and writes in another. `Write` is the flush as SQLAlchemy orders it: the new rows are
inserted, then those that had been read are deleted, so a group that stays collides with
its own old row (`WriteFails`). `AddReseller` gives rows to a new one and `DeleteReseller`
takes them away; a late save may leave rows for an id that is gone. `choice` and `mixed`
are history.

### Conversation

One private chat with aiogram's `state` and `data` (`MemoryStorage`: each access is
atomic) and the updates under way, `task[t]`. `Arrive` is the filter that lets an update in
by the state at that time; the handler runs later. A message or a button that belongs to
a state has its own action (`CreateUsername`, `RenewDays`, `BalanceAmount`, ...);
a handler that awaits a setting or the panel in the middle has two (`RenewDays` and
`RenewSummary`, `ToggleReads` and `ToggleUsername`, `AddName` and `AddNameGroups`,
`MyUsersList` and `MyUsersPage`). A button without a state is `Begins`, or `TelegramMenu`,
which changes data alone. `Refuse` is every answer that is told to try again; `Confirm` reads
what is to be done, and `ConfirmEnds` or `ConfirmFails` follow after the panel and the
database. `summary` is what the newest summary, or the newest last question, says;
`crossed` and `late` (history) mark the known windows named below. `cost` stands for the
volume it is the cost of.

## 3. Runs

Passing runs, with their bounds:

| Run | Instance | Shows |
|---|---|---|
| `billing` | 2 resellers, one of which may be deleted and its id used again, 3 tasks, 2 requests, amounts 0 and 3, recharges of -1, 0, 2 | what was approved was credited; balance never below zero and equal to the newest posting; `Wallet` is implemented |
| `provisioning` | 2 resellers, of which one may be renamed (3 names) or deleted for good and come back, 2 creates of one username, an admin who creates and deletes accounts, 1 sync, 2 accounts, fairness | who is charged had his name in the note of a new account; it is charged once unless a reseller was deleted for good and, besides, an account was deleted or a name was two resellers'; the row keeps naming the payer as long as no account is deleted and no name is two resellers'; a link handed out was paid for, until a sync or a deletion; every create ends, a sync gives its flag back |
| `renewal` | a reseller's and an admin's renewal, an account with volume 1 and expiry 0 or 1, time 1..2, 2 attempts per call, fairness | the last renewal written is on the account whole; a charge has its PUT; repetition adds nothing twice; a confirmed renewal ends |
| `limits` | 2 admins, 2 resellers, minimum and maximum, values 1 and 2 | no stored range is turned round; nobody is left without an allowed volume unless the admin was told or a save was overtaken |
| `bulk_users` | 2 operations, 2 accounts in one chunk or two, fairness | the report adds up; only accounts that the operation is for change; one operation at a time; the flag is freed |
| `resellers` | 2 ids, 2 resellers ever, 2 people, 1 form | both ways to look a person up agree; a successor inherits no account or message; the disabled are told their own message |
| `backup` | 2 handlers, 2 senders, 2 admins, 0 to 2 minutes typed, fairness | the job is what the settings say unless handlers overlapped; success means every admin has the file; backups go on |
| `groups` | 2 groups, 2 resellers, 2 pickers | the widest access is never come to by accident; without an overlap what was saved last holds |
| `conversation` | 2 updates in flight, 2 values of each kind, ten sets of forms between which a chat goes | what is confirmed is what the summary or question says; a quoted cost is that of the quoted volume |

Two overlapping tasks are what a race needs; in `billing` a third lets the effect of one
show in another. One username is enough for `provisioning` because no step looks at two, but
for the sync, which is rolled back whole when one row is not as it was (`SyncFails` lets it
fail at any time).
Of its `MaxChanges`, 3, two are the names at the start; the third is a new name for the second
reseller, the first one's or one that nobody had, or its deletion for good. What was done once
may be done and undone again without counting. The proofs have no such bound.
Two ids are enough for reuse: the largest one is deleted and comes back. Numbers are small
because only their order and sums matter. In `renewal` two attempts stand for three (one
repetition is what can go wrong), and time 2 is after the expiry of an account that
expires at 1, so both sides of `max(previous_expire, now)` occur. In `limits` two values
are the least that can be turned round. In `bulk_users` a chunk may be
smaller than `BULK_CHUNK`: two accounts in two chunks have a later chunk after a failed
one, and in one chunk they leave a call behind when the other one ends the handler. In `conversation` a chat stays in one of the
sets of `FormsTogether`, chosen so that each set shares keys of `data` or could be left
half-done; the product of all forms is out of reach, and so is an admin who is also a
reseller and mixes the forms of both.

Deadlock is checked in `limits`, `resellers`, `backup`, `groups` and `conversation`. It is not in
`billing`, `provisioning`, `renewal` and `bulk_users`: there every handler runs once, and
when all have ended there may be nothing left to do.

Runs that find a disagreement (one property each, listed under `findings`):

- `billing_adds_up`: two charges or credits of one reseller overlap and one is lost.
- `billing_processed_once`: one recharge request is approved twice.
- `groups_saved`: a save of groups that keeps one of the old ones fails, and the picker
  says nothing of it.

Fairness is assumed for what the program runs by itself, never for people. The event
loop runs every task that is ready, and every panel call has a total timeout of 30 s
(`marzban.py:29`), so the steps of a create, a sync, a confirmed renewal and a bulk
operation are weakly fair. In `backup` the scheduler runs the job it has and a call to
Telegram ends, so the steps of the job's sending are. Beginning or confirming, an admin's
doings, the start of a sync and a press of a button are not fair: nobody has to.

### Behaviour the properties leave open

Some properties carry a condition. What they exclude is real and was seen in TLC's runs while
the property lacked it; no text of the program promises otherwise:

- A username that was deleted on the panel and made again is not charged again: a reseller
  pays once per username (`ChargedRowKept` and `DeliveredIsPaid` speak of the time before an
  account was deleted, the latter also before a sync).
- Deleting a reseller for good takes its rows in `created_users` and its log
  (`repositories.py:62`), while its accounts stay on the panel. What was paid for such an account
  is forgotten with it; the next sync gives the row to whoever has the name in the note, and
  the fallback of a create that is still under way may have it delivered or charged to him.
- A display name need not be unique (`models.py:43`) and may be changed (`admin.py:972`), and
  the notes on the panel keep the old one. So the sync (`owners_sync.py:62`) moves a row that was
  paid for to another reseller who has the name now, and the fallback of a create takes
  another's account for its own. `ChargedRowKept` speaks of the time in which no name has been
  that of two resellers (`NamesTell`). `ChargedOncePerAccount` needs that only once a reseller was
  deleted for good: until then the unique row keeps the second charge away.
- A create may be reported as failed and paid by nobody while the account exists.
- Two additive renewals that overlap are both charged and one is lost (`LastRenewalIsGiven`
  speaks of the last written, `AddedAtMostOnce` says "at most"). An additive renewal gives
  an account that never expired an expiry. A renewal whose reset was done and whose
  PUT failed is reported as failed, with the usage gone and nothing paid.
- A renewal is done in the mode set when it is confirmed, perhaps not the one in its summary.
- A save of limits validated before a global save and written after it may contradict it.
- A form that was begun before its reseller was deleted writes its record for the id all
  the same, and the next reseller with this id gets it (`late` in `Resellers`).
- Handlers for backups that overlap may leave a job the settings do not have, until the
  next one that runs alone or a restart.
- Saves of groups that overlap may leave the union of two choices.
- A summary is not what is confirmed when data changed behind it: by an answer that is stored
  before its state is set (`reseller.py:439`, `admin.py:749`), by a slow answer that was
  overtaken between its halves (`admin.py:337`, `admin.py:348`), or by a look at another
  reseller's Telegram accounts (`admin.py:990`), which also redirects the message that
  a disabled reseller is to get.

## 4. Proofs

`BillingProofs` holds for any number of resellers, tasks and requests and any prices and
amounts that satisfy `BillingAssumption` (ids, sizes and prices are positive, amounts
that an admin types are not negative; a recharge may have either sign).

The argument is one inductive invariant, `IInv`. The properties are not inductive
because a commit computes from what was read long ago; `IInv` adds what a session may
rely on meanwhile. `SessionInv`: the balance it cached was committed once (it is in
`held`), and its request and reseller are real ids.
`BalanceInv`: balances are not negative and are in `held`. `LedgerInv`: no row is newer
than `posted`, and a row that changed a balance belongs to a reseller that exists,
because its UPDATE would have matched no row otherwise. Each action preserves it:
`AdminStep`, `BeginStep`, `CommitStep`, on top of `ChangeBalanceSafe`, what
`change_balance` does whoever calls it. From it follow `TypeCorrect`, `NeverNegative`,
`NewestPosting` (with its own step: a new effective row is the newest and
ends with the new balance), `ApprovalCredits` and `Refinement`: every step of Billing
opens, closes or posts to one account of `Wallet` or changes none.

`ProvisioningProofs` holds for any number of resellers, names, handlers, accounts and syncs,
and any renaming, deletion and reuse of ids. Its `IInv` joins `NameInv` (who has a name
is among those who ever had it), `PanelInv` (a username on the panel belongs to an account that
was made), `SessionInv` (what a handler knows of the account it holds, place by place in
`create_user_safely`), `SameName` (the number of an account tells its username) and
`ChargedInv` (a charged account has in its note the name that its payer had). The properties are
not inductive because the fallback accepts an account by its note; the invariant says
whose that can be. `TypeCorrect` and `OwnAccountCharged` need nothing more.

The other properties have conditions that, once false, stay false (a deletion is not undone, a
name once had stays in `called`), so their invariants are implications of the same
form and are joined in `Conditional`. `OnceInv`, while nobody was deleted for good: a username
that was charged has a row, and no two charges are for one. `KeptInv`, while no account was
deleted: what a handler or a sync saw on the panel is still there. `RowInv`, while in addition
names tell who is meant: the row of a username that was charged names who paid, and no two
charges are for one; a sync keeps it so because what it found had, by `KeptInv`, the name in
the note. `PaidInv`, while no account and nobody was deleted and no sync ran: a row comes with a
charge. They yield `ChargedOnce`, `RowKept` and
`OnlyPaidDelivered`; the conditions are part of the properties.

`RenewalProofs` holds for any number of renewals and attempts. `WrittenInv` ties the
account to what the last writer's session computes, whatever has become of that session
since; `ChargeInv` says that nobody reaches the charge without a PUT. With `ResultGives`,
what `calculate_renewal` guarantees of its result, they yield `TypeCorrect`, `LastGiven`
and `ChargedApplied`. `AddedOnce` needs a second invariant, `AddInv`: not only the
account's limit but every limit a renewal has read is a first one, or that of a
replacement, plus the volumes of some additive renewals, and the reader is none of them;
so whoever writes, once or again, adds himself for the first time. The sum over a set
of renewals is the cardinality of their gigabytes (`Volume`), to which `VolumeAdd` adds
one renewal by the library's facts on finite sets, without an induction.

`LimitsProofs` holds for any number of resellers and admins, any fields that include the
minimum and the maximum, and any values typed. `StoredRangesValid` is not inductive: a
value is written after others have changed what it was validated against. `SessionInv` says
why this is harmless: what a form is about to write is consistent in itself, whatever is
stored by then. `OwnAlone` is the crux: own limits that make sense merged with the global
ones make sense alone, since an own value hides the global one; `WithoutKeeps` says that
dropping a field never turns a range round. `ConflictsTold`, about steps, rests on
`ValidatedInv` (what was validated holds until the write, unless a global save overtook
it) and on `RangeAllows`: a range allows a volume exactly if its minimum is not above its
maximum, so that "shut out" and "in conflict" are the same resellers (`ShutOutConflicts`).

`FormsProofs` is about the two modules of forms, which it extends together; those names of
`Groups` that `Conversation` has too carry the module (`GroupsInit`, `GroupsTypeOK`).
Of `Groups` it holds for any number of groups, resellers and pickers, with the one
assumption that `Nobody` is no reseller and no admin. `PickInv`: from the picker to the write, only the
mode "all" has nothing to save, and a picker of one reseller has one. `ReadInv`: a
save that nobody overtook has read the rows that are there. `ForInv`: a save writes the
reseller whose rows it read. With `WrittenIs` (what a write leaves: its groups, and nothing
else if it was not overtaken) and `OvertakeKeeps` (whoever's rows change is marked) they
yield `GroupsTypeCorrect`, `WidestIsChosen` and `LastSaved`.

Of `Conversation` it holds for any number of updates that are handled at a time and any
values that people type or press; the forms are those of the code. A handler stores what it
was told when others may have replaced the form, so the invariant speaks of those that
nobody overtook and of what the newest summary may rely on. `TaskInv`: whom nobody overtook
finds the state that let it in, and the first half of an answer about days has read
what the form still says. `SummaryInv`: unless data are known to have been `crossed`, the
newest summary is of the form that is open, at a last question, and says of each key what
the data hold. `CostInv`: from the question for the days on the cost is that of the volume
(but for a `late` answer); a summary of a creation copies both, so `QuotesItsVolume` needs
it a step earlier. One lemma for each way a handler touches the chat (`BeginsInv`, `StoresInv`,
`SummarisesInv`, `AwaitsInv`, ...) keeps the many handlers to a line or two each. They
yield `TypeCorrect`, `VolumeQuoted` and, about steps, `SummaryConfirmed`.

`BulkUsersProofs` holds for any finite set of accounts, any number of presses and chunks of
any size. The report is written long after the plan, so `PlaceInv` follows every planned
account: it waits for its chunk or its call, was changed or has failed, and only one of
these, with the counter the number of those changed (`Parted`); a crash alone may lose
one. `FlagInv`: whoever is under way holds the running flag. `MeantInv`: a call still to
come is for an account the operation is for, or for one that others have changed since the
plan, or changes nothing any more; it is what the calls after a crash rely on. They
yield `TypeCorrect`, `ReportCorrect` and, about steps, `OnlyTargets` and `Alone`.

`ResellersProofs` holds for any numbers of people, forms and resellers and for any reuse of
ids. A form may write for a reseller that is gone, or whose id another one has; so
`RecordInv` says that every record, an account's or a message, is late or for the one who
has the id. `LookupsAgree` alone says nothing of accounts whose reseller is gone, and is
not inductive: `PrimaryInv` says person by person that a primary account is that of a
reseller who is there and who has it in his column, and the reverse. `FormInv`,
`ChatInv` and `BornInv` bound what forms and updates hold by how many were ever added,
so that a new reseller is never taken for the one an old update is for. They yield
`TypeCorrect`, `LookupsCorrect`, `SuccessorIsNew` and `OwnMessage`.

`BackupProofs` holds for any numbers of handlers, presses and admins and any minutes. The
settings and the job differ whenever a handler is between the two, so the invariant is
about what a handler knows that no other overlapped (`AloneInv`): nobody else is under way,
and the settings are still what it wrote or read. `BusyInv` adds that as long as the
handlers are not `tangled` each is such a one; `WholeInv` says which of them write the
job in any case. `BeginInv`, `EndInv` and `GoesOn` are the three ways a handler moves.
For the sending, `SendInv` says that every admin has the file or is still to get it. They
yield `TypeCorrect`, `JobCorrect` and `ReportCorrect`.

Only model-checked is liveness (`CreateEnds`, `SyncEnds`, `RenewalEnds`, `FlagIsFreed`,
`BackupsGoOn`): fairness and what is enabled are out of the prover's reach. Of the first four,
the half that needs neither is proved. `CreateAdvances`, `RenewalAdvances` and
`BulkAdvances` count what is left of a create, a sync, a renewal or a bulk operation by a natural
number that each of its steps lowers and no other step raises; so none goes on for ever,
for any number of attempts and accounts, and TLC has to show only that something can
always be done until the end. `Left` is counted in attempts for a renewal, whose `TriesInv`
bounds the attempts of the call under way, and in accounts for a bulk operation, by the
cardinality of those whose chunk or call is still to come. Every invariant and every action
property that a passing run checks is also a theorem.

## 5. What is not modelled

- Of the panel client, the login after a 401 (every handler makes its own client and logs
  in anew, so a token does not outlive a handler) and the page boundaries of the listing.
  Its failures and retries are modelled where the calls are made.
- Of the conversations, the steps of the group pickers, the limits and the backups beyond
  their last question (their effects are in `Groups`, `Limits` and `Backup`), and the few
  forms that leave nothing but a text: the reason of a rejection, the on-hold days, the range
  of statistics.
- The username cache: a map from usernames to ids that every sighting of a person overwrites.
  It only spares an admin the typing of an id; the models leave the id free.
- What a copy of the database file holds while it is written: a matter of SQLite's journal
  and the file system.
- Sales statistics, time ranges, reports and the PDF: sums and layout over one read.
- Validators, keyboards, texts, QR codes: syntax and layout, without state. The models
  draw their inputs from what the validators let through.
- Start-up, configuration, logging and the migrations.

`PROJECT.json` lists each of them with its reason.
