----------------------------- MODULE Provisioning -----------------------------
(***************************************************************************)
(* Selling an account: create_confirm and create_user_safely               *)
(* (handlers/reseller.py), charge_for_create_once (services/billing.py),   *)
(* the panel behind services/marzban.py, the admin's create and delete     *)
(* (handlers/admin.py), "Sync users owners" (services/owners_sync.py), and *)
(* the adding, renaming and deleting of resellers that they depend on.     *)
(*                                                                         *)
(* Two stores that share no transaction must agree: the panel, which holds *)
(* the accounts, and the bot's table created_users, whose row for a        *)
(* username is what says that the account has been charged.  A panel call  *)
(* can fail before or after it took effect, a handler can die between any  *)
(* two calls, and several handlers may work on one username.               *)
(*                                                                         *)
(* The bot knows a reseller by its id, the panel by the display name in an *)
(* account's note.  A name need not be of one reseller only, an admin may  *)
(* change it, and an id comes back after a permanent deletion.  Billing    *)
(* says what a charge does to the balance.                                 *)
(***************************************************************************)
EXTENDS Integers, FiniteSets

CONSTANTS
    Resellers,      \* ids the table resellers may use
    Edited,         \* those of them that an admin may rename or delete for good
    Names,          \* display names
    AtStart,        \* the resellers there are at first, with their names
    Admin, NoOne,   \* owner of an account made by an admin; nobody
    Usernames,
    Tasks,          \* create_confirm activations, each runs once
    MaxAccounts,    \* bound: accounts the panel ever creates
    MaxSyncs,       \* bound: how often an admin starts a sync
    MaxChanges      \* bound: names ever given and ids ever deleted for good

ASSUME ProvisioningAssumption ==
    /\ Resellers \subseteq Nat \ {0}
    /\ Edited \subseteq Resellers
    /\ DOMAIN AtStart \subseteq Resellers
    /\ \A r \in DOMAIN AtStart : AtStart[r] \in Names
    /\ Admin \notin Names /\ NoOne \notin Names \cup Resellers \cup {Admin}
    /\ MaxAccounts \in Nat /\ MaxSyncs \in Nat /\ MaxChanges \in Nat

VARIABLES
    live,       \* ids that have a row in the table resellers
    name,       \* name[r], the display name of r
    called,     \* called[n], the ids that ever had the name n (history)
    purged,     \* the ids that were ever deleted for good (history)
    panel,      \* panel[u], number of the account called u now, 0 if none
    made,       \* how many accounts the panel has created
    owner,      \* owner[u], the name in the note of that account
    recorded,   \* recorded[u], reseller of u's row in created_users
    charged,    \* tasks whose charge is in operation_logs
    session,    \* session[t], progress of a create
    sync        \* the sync of owners, of which one runs at a time

resellers == <<live, name, called, purged>>
accounts == <<panel, made, owner>>
vars == <<resellers, accounts, recorded, charged, session, sync>>

(* A create's next step, or how it ended: the reseller got the link; the   *)
(* create was refused, failed or died before there was one to hand out;    *)
(* the handler died then.                                                  *)
Working == {"precheck", "post", "verify", "fallback", "reverify", "lookup", "commit", "deliver"}
Ended == {"delivered", "failed", "died"}

Owners == Names \cup {Admin, NoOne}

(* name: the reseller's, as read at the start.  account: the one taken to  *)
(* be the result; note: the owner in its note.  before: the accounts there *)
(* were at the precheck, until it is known whether this one is new.  All   *)
(* but the name are only for the properties.                               *)
Session == [at: {"idle"} \cup Working \cup Ended, reseller: Resellers \cup {NoOne},
            name: Names \cup {NoOne}, user: Usernames \cup {NoOne},
            account: 0..MaxAccounts, note: Owners, before: 0..MaxAccounts, new: BOOLEAN]
(* list: the owners on the panel.  found: the resellers they are, in the   *)
(* end only where that is not what the rows say.  had: usernames among     *)
(* these that have a row.                                                  *)
SyncState == [at: {"idle", "names", "rows", "write"}, runs: 0..MaxSyncs,
              list: [Usernames -> Names \cup {NoOne}],
              found: [Usernames -> Resellers \cup {NoOne}], had: SUBSET Usernames]

TypeOK ==
    /\ live \subseteq Resellers
    /\ name \in [Resellers -> Names \cup {NoOne}]
    /\ called \in [Names -> SUBSET Resellers]
    /\ purged \subseteq Resellers
    /\ panel \in [Usernames -> 0..MaxAccounts]
    /\ made \in 0..MaxAccounts
    /\ owner \in [Usernames -> Owners]
    /\ recorded \in [Usernames -> Resellers \cup {NoOne}]
    /\ charged \subseteq Tasks
    /\ session \in [Tasks -> Session]
    /\ sync \in SyncState

Nobody == [u \in Usernames |-> NoOne]

Blank == [at |-> "idle", reseller |-> NoOne, name |-> NoOne,
          user |-> NoOne, account |-> 0, note |-> NoOne, before |-> 0, new |-> FALSE]

Init ==
    /\ live = DOMAIN AtStart
    /\ name = [r \in Resellers |-> IF r \in DOMAIN AtStart THEN AtStart[r] ELSE NoOne]
    /\ called = [n \in Names |-> {r \in DOMAIN AtStart : AtStart[r] = n}]
    /\ purged = {}
    /\ panel = [u \in Usernames |-> 0]
    /\ made = 0
    /\ owner = Nobody
    /\ recorded = Nobody
    /\ charged = {}
    /\ session = [t \in Tasks |-> Blank]
    /\ sync = [at |-> "idle", runs |-> 0, list |-> Nobody, found |-> Nobody, had |-> {}]

(* What a handler knew goes when it fails, and an error leaves it without  *)
(* an account.                                                             *)
Moved(s, step) ==
    CASE step = "failed" -> [Blank EXCEPT !.at = step]
      [] step = "fallback" -> [s EXCEPT !.at = step, !.account = 0, !.note = NoOne]
      [] OTHER -> [s EXCEPT !.at = step]
Goto(t, step) == session' = [session EXCEPT ![t] = Moved(session[t], step)]

(* The panel creates account u; its number is made + 1. *)
CreateOnPanel(u, who) ==
    /\ panel[u] = 0
    /\ made < MaxAccounts
    /\ made' = made + 1
    /\ panel' = [panel EXCEPT ![u] = made + 1]
    /\ owner' = [owner EXCEPT ![u] = who]

-------------------------------------------------------------------------------
(* SQLite gives a new row the id after the largest in the table, so an id  *)
(* comes back when the row that had the largest one was deleted.           *)
NextId(id, used) == /\ \A other \in used : other < id
                    /\ id = 1 \/ id - 1 \in used

Changes == Cardinality(purged)
           + Cardinality({given \in Names \X Resellers : given[2] \in called[given[1]]})

(* A reseller gets a name: nothing says that no other one has it.          *)
GiveName(r, n) ==
    /\ name' = [name EXCEPT ![r] = n]
    /\ called' = [called EXCEPT ![n] = @ \cup {r}]
    /\ r \in called[n] \/ Changes < MaxChanges

AddReseller(r, n) ==
    /\ NextId(r, live)
    /\ live' = live \cup {r}
    /\ GiveName(r, n)
    /\ UNCHANGED <<purged, accounts, recorded, charged, session, sync>>

(* The notes on the panel keep the old name. *)
Rename(r, n) ==
    /\ r \in live \cap Edited
    /\ GiveName(r, n)
    /\ UNCHANGED <<live, purged, accounts, recorded, charged, session, sync>>

PaidByNobody(r) == {}  \* mutant: the log stays behind
PaidBy(r) == {t \in charged : session[t].reseller = r}

(* The rows that name the reseller and the log of what it paid for go with *)
(* it; its accounts stay on the panel.                                     *)
DeletePermanently(r) ==
    /\ r \in live \cap Edited
    /\ r \in purged \/ Changes < MaxChanges
    /\ live' = live \ {r}
    /\ purged' = purged \cup {r}
    /\ name' = [name EXCEPT ![r] = NoOne]
    /\ recorded' = [u \in Usernames |-> IF recorded[u] = r THEN NoOne ELSE recorded[u]]
    /\ charged' = charged \ PaidBy(r)
    /\ UNCHANGED <<called, accounts, session, sync>>

-------------------------------------------------------------------------------
(* The confirm button; the balance covered the cost (Billing!BeginCharge). *)
Begin(t, r, u) ==
    /\ session[t].at = "idle"
    /\ r \in live
    /\ session' = [session EXCEPT
         ![t].at = "precheck", ![t].reseller = r, ![t].name = name[r], ![t].user = u]
    /\ UNCHANGED <<resellers, accounts, recorded, charged, sync>>

(* A name that exists on the panel is refused, whoever owns it. *)
Precheck(t) ==
    LET s == session[t] IN
    /\ s.at = "precheck"
    /\ IF panel[s.user] = 0
         THEN session' = [session EXCEPT ![t].at = "post", ![t].before = made]
         ELSE Goto(t, "failed")
    /\ UNCHANGED <<resellers, accounts, recorded, charged, sync>>

(* POST /api/user takes effect.  The answer may be a success, an error     *)
(* status all the same, or never arrive, which nothing catches.            *)
PostTakesEffect(t) ==
    LET s == session[t] IN
    /\ s.at = "post"
    /\ CreateOnPanel(s.user, s.name)
    /\ \/ session' = [session EXCEPT
            ![t].at = "verify", ![t].account = made + 1, ![t].note = s.name]
       \/ Goto(t, "fallback")
       \/ Goto(t, "failed")
    /\ UNCHANGED <<resellers, recorded, charged, sync>>

(* POST /api/user answers with an error and nothing was created: the name  *)
(* is taken by now, or the panel is in trouble.                            *)
PostFails(t) ==
    /\ session[t].at = "post"
    /\ Goto(t, "fallback")
    /\ UNCHANGED <<resellers, accounts, recorded, charged, sync>>

Found(s) == panel[s.user] # 0  \* mutant: the owner is not looked at
Ours(s) == panel[s.user] # 0 /\ owner[s.user] = s.name

(* After an error: is the account there, and ours?  The one found may be   *)
(* the work of another handler of the same reseller, or of one that has or *)
(* had the same name.                                                      *)
Fallback(t) ==
    LET s == session[t] IN
    /\ s.at = "fallback"
    /\ \/ /\ Ours(s)
          /\ session' = [session EXCEPT
               ![t].at = "reverify", ![t].account = panel[s.user], ![t].note = owner[s.user]]
       \/ /\ ~Ours(s)
          /\ Goto(t, "failed")
    /\ UNCHANGED <<resellers, accounts, recorded, charged, sync>>

(* The account is read again, after a pause of three seconds; what is read *)
(* goes to the log and the answer, it decides nothing.                     *)
Verify(t) ==
    /\ session[t].at \in {"verify", "reverify"}
    /\ session' = [session EXCEPT ![t].at = "lookup", ![t].before = 0,
                      ![t].new = session[t].account > session[t].before]
    /\ UNCHANGED <<resellers, accounts, recorded, charged, sync>>

AfterErrorRetry(at) == "fallback"  \* mutant: every error is checked again
AfterErrorUnknown(at) == IF at = "verify" THEN "retry" ELSE "failed"  \* mutant: no such step
AfterError(at) == IF at = "verify" THEN "fallback" ELSE "failed"

(* A GET answers with an error status.  After a POST that succeeded this   *)
(* is handled like a failure of the POST; at any other place it is final.  *)
GetFails(t) ==
    /\ session[t].at \in {"precheck", "verify", "fallback", "reverify"}
    /\ Goto(t, AfterError(session[t].at))
    /\ UNCHANGED <<resellers, accounts, recorded, charged, sync>>

(* charge_for_create_once: a row for the username means it was charged. *)
Lookup(t) ==
    /\ session[t].at = "lookup"
    /\ Goto(t, IF recorded[session[t].user] = NoOne THEN "commit" ELSE "deliver")
    /\ UNCHANGED <<resellers, accounts, recorded, charged, sync>>

NoConstraint(u) == TRUE  \* mutant: a database without migration 0003
NameIsFree(u) == recorded[u] = NoOne

(* Mutant: the row is committed on its own, before the charge. *)
CommitRow(t) ==
    /\ session[t].at = "commit"
    /\ NameIsFree(session[t].user)
    /\ recorded' = [recorded EXCEPT ![session[t].user] = session[t].reseller]
    /\ Goto(t, "deliver")
    /\ UNCHANGED <<resellers, accounts, charged, sync>>

(* The charge, with the row: uq_created_users_username decides, and the    *)
(* UPDATE of the balance must find its reseller, or who has the id now.    *)
Commit(t) ==
    LET s == session[t] IN
    /\ s.at = "commit"
    /\ s.reseller \in live
    /\ NameIsFree(s.user)
    /\ recorded' = [recorded EXCEPT ![s.user] = s.reseller]
    /\ charged' = charged \cup {t}
    /\ Goto(t, "deliver")
    /\ UNCHANGED <<resellers, accounts, sync>>

Deliver(t) ==
    /\ session[t].at = "deliver"
    /\ Goto(t, "delivered")
    /\ UNCHANGED <<resellers, accounts, recorded, charged, sync>>

(* An exception that no handler catches (a broken connection, the unique   *)
(* constraint, a reseller that is gone, a Telegram error before the link   *)
(* is sent) or a restart.                                                  *)
Die(t) ==
    /\ session[t].at \in Working
    /\ Goto(t, IF session[t].at = "deliver" THEN "died" ELSE "failed")
    /\ UNCHANGED <<resellers, accounts, recorded, charged, sync>>

-------------------------------------------------------------------------------
AdminCreate(u) ==
    /\ CreateOnPanel(u, Admin)
    /\ UNCHANGED <<resellers, recorded, charged, session, sync>>

(* The account goes; the row in created_users stays. *)
AdminDelete(u) ==
    /\ panel[u] # 0
    /\ panel' = [panel EXCEPT ![u] = 0]
    /\ owner' = [owner EXCEPT ![u] = NoOne]
    /\ UNCHANGED <<resellers, made, recorded, charged, session, sync>>

(* parse_owner: who made an account without a reseller's note is nobody.   *)
Listed(u) == IF owner[u] \in Names THEN owner[u] ELSE NoOne

(* Sync: the users are listed; then the resellers are read, then the rows; *)
(* then all is compared and the differences written in one transaction.    *)
SyncList ==
    /\ sync.at = "idle" /\ sync.runs < MaxSyncs
    /\ sync' = [sync EXCEPT !.at = "names", !.runs = @ + 1,
                            !.list = [u \in Usernames |-> Listed(u)]]
    /\ UNCHANGED <<resellers, accounts, recorded, charged, session>>

Having(n) == {r \in live : name[r] = n}

(* by_name: of several resellers with one name the last one read stays.    *)
SyncNames ==
    /\ sync.at = "names"
    /\ \E by_name \in [Names -> Resellers \cup {NoOne}] :
         /\ \A n \in Names :
              IF Having(n) = {} THEN by_name[n] = NoOne ELSE by_name[n] \in Having(n)
         /\ sync' = [sync EXCEPT !.at = "rows", !.list = Nobody,
              !.found = [u \in Usernames |->
                 IF sync.list[u] = NoOne THEN NoOne ELSE by_name[sync.list[u]]]]
    /\ UNCHANGED <<resellers, accounts, recorded, charged, session>>

Differing == {u \in Usernames : sync.found[u] # NoOne /\ sync.found[u] # recorded[u]}

(* The rows are read and compared with what was found. *)
SyncRead ==
    /\ sync.at = "rows"
    /\ sync' = [sync EXCEPT !.at = "write",
         !.found = [u \in Usernames |-> IF u \in Differing THEN sync.found[u] ELSE NoOne],
         !.had = {u \in Differing : recorded[u] # NoOne}]
    /\ UNCHANGED <<resellers, accounts, recorded, charged, session>>

SyncKept == sync' = [sync EXCEPT !.found = Nobody]  \* mutant: no finally
SyncIdle == sync' = [sync EXCEPT !.at = "idle", !.list = Nobody, !.found = Nobody, !.had = {}]

Changed == {u \in Usernames : sync.found[u] # NoOne}

(* A row to add must not have appeared and one to change not have gone.    *)
SyncWrite ==
    /\ sync.at = "write"
    /\ \A u \in Changed : recorded[u] = NoOne <=> u \notin sync.had
    /\ recorded' = [u \in Usernames |-> IF u \in Changed THEN sync.found[u] ELSE recorded[u]]
    /\ SyncIdle
    /\ UNCHANGED <<resellers, accounts, charged, session>>

(* The panel cannot be read, or the write does not find the rows as they   *)
(* were: the transaction is rolled back.                                   *)
SyncFails ==
    /\ sync.at # "idle"
    /\ SyncIdle
    /\ UNCHANGED <<resellers, accounts, recorded, charged, session>>

Step(t) ==
    \/ Precheck(t) \/ PostTakesEffect(t) \/ PostFails(t) \/ Fallback(t) \/ Verify(t)
    \/ GetFails(t) \/ Lookup(t) \/ Commit(t) \/ Deliver(t) \/ Die(t)

SyncStep == SyncNames \/ SyncRead \/ SyncWrite \/ SyncFails

Next ==
    \/ \E r \in Resellers :
         (\E n \in Names : AddReseller(r, n) \/ Rename(r, n)) \/ DeletePermanently(r)
    \/ \E t \in Tasks : (\E r \in Resellers, u \in Usernames : Begin(t, r, u)) \/ Step(t)
    \/ \E u \in Usernames : AdminCreate(u) \/ AdminDelete(u)
    \/ SyncList \/ SyncStep

Spec == Init /\ [][Next]_vars

(* The event loop runs every handler that can run, and every panel call    *)
(* has a timeout of 30 s (marzban.py:29), so a handler never waits for ever.*)
Fairness == (\A t \in Tasks : WF_vars(Step(t))) /\ WF_vars(SyncStep)
FairSpec == Spec /\ Fairness

-------------------------------------------------------------------------------
(* Every account ever made is still there. *)
NoneDeleted == \A a \in 1..made : \E u \in Usernames : panel[u] = a

(* No name was ever that of two resellers: a note says whose an account is.*)
NamesTell == \A n \in Names : \A r1, r2 \in called[n] : r1 = r2

(* One account is charged once, however many handlers take it for theirs:  *)
(* a double press, a retry, a 409 that the fallback turned into a success. *)
(* The row that keeps the second charge away goes with its reseller, who   *)
(* must not be another one by then than who paid.                          *)
ChargedOncePerAccount ==
    purged = {} \/ (NoneDeleted /\ NamesTell) =>
        \A t1, t2 \in charged : session[t1].account = session[t2].account => t1 = t2

(* A reseller is charged only for an account with the name it had in its   *)
(* note, that did not exist yet when its create looked.                    *)
ChargedAccountIsOwn ==
    \A t \in charged :
        LET s == session[t] IN
        /\ s.new
        /\ s.note = s.name
        /\ s.reseller \in called[s.name]

(* The row of an account that was charged keeps naming the reseller who    *)
(* paid, whatever a sync read before and whoever is renamed or deleted --  *)
(* until an account is deleted or two resellers have had one name.         *)
ChargedRowKept ==
    NoneDeleted /\ NamesTell =>
        \A t \in charged : recorded[session[t].user] = session[t].reseller

(* Who gets a link has paid for it, or another press of the same button    *)
(* has -- if no account was deleted, no reseller for good, and no sync ran *)
(* yet.                                                                    *)
DeliveredIsPaid ==
    NoneDeleted /\ purged = {} /\ sync.runs = 0 =>
        \A t \in Tasks :
            session[t].at = "delivered" =>
                \E payer \in charged : session[payer].account = session[t].account

(* Every create comes to an end, and a sync gives the flag back. *)
CreateEnds == \A t \in Tasks : session[t].at # "idle" ~> session[t].at \in Ended
SyncEnds == sync.at # "idle" ~> sync.at = "idle"

===============================================================================
