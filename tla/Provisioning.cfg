\* Two resellers want one username; an admin creates, deletes and syncs, and
\* renames one of them or deletes it for good.  Handlers are fair, everything
\* else may happen or not.
CONSTANTS
    Resellers = {1, 2}
    Edited = {2}
    ann = ann
    bob = bob
    cat = cat
    Names = {ann, bob, cat}
    AtStart <- TwoResellers
    Admin = Admin
    NoOne = NoOne
    Usernames = {u1}
    Tasks = {t1, t2}
    MaxAccounts = 2
    MaxSyncs = 1
    MaxChanges = 3
SPECIFICATION FairSpec
INVARIANTS
    TypeOK
    ChargedAccountIsOwn
    ChargedOncePerAccount
    ChargedRowKept
    DeliveredIsPaid
PROPERTIES
    CreateEnds
    SyncEnds
\* Every handler has ended.
CHECK_DEADLOCK FALSE
