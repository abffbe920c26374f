\* A reseller and an admin renew an account that has expired, or never does.
CONSTANTS
    Tasks = {r1, a1}
    AdminTasks = {a1}
    NoTask = NoTask
    Sizes = {1}
    Days = {1}
    StartLimits = {1}
    StartExpires = {0, 1}
    Attempts = 2
    MaxTime = 2
    MaxUsed = 1
SPECIFICATION FairSpec
INVARIANTS
    TypeOK
    LastRenewalIsGiven
    ChargedIsApplied
    AddedAtMostOnce
PROPERTY RenewalEnds
\* Every renewal has run and the clock has stopped.
CHECK_DEADLOCK FALSE
