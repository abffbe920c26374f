\* Two operations on two accounts, in one chunk or in two.
CONSTANTS
    Users = {u1, u2}
    Tasks = {t1, t2}
    Nobody = Nobody
    Chunk = 2
SPECIFICATION FairSpec
INVARIANTS
    TypeOK
    ReportAddsUp
PROPERTIES
    OnlyTargetsChange
    OneAtATime
    FlagIsFreed
\* Both operations have ended and nothing else need happen.
CHECK_DEADLOCK FALSE
