\* Two people, two ids, two resellers one after the other or together.
CONSTANTS
    MaxId = 2
    MaxBorn = 2
    People = {p1, p2}
    Nobody = Nobody
    Tasks = {t1}
SPECIFICATION Spec
INVARIANTS
    TypeOK
    LookupsAgree
    NothingInherited
    ToldOwnMessage
