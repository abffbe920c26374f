\* Two handlers and two ways to send may overlap; two admins get the file.
CONSTANTS
    Tasks = {t1, t2}
    Typed = {0, 1, 2}
    Default = 1
    Admins = {a1, a2}
    Presses = {p1}
    Job = Job
SPECIFICATION FairSpec
INVARIANTS
    TypeOK
    JobFollowsSettings
    SentToAll
PROPERTY BackupsGoOn
