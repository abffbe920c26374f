\* Two admins and two resellers.
CONSTANTS
    Resellers = {r1, r2}
    Nobody = Nobody
    Tasks = {t1, t2}
    Fields = {"min_gb", "max_gb"}
    Values = {1, 2}
SYMMETRY LimitsSymmetry
SPECIFICATION Spec
INVARIANTS
    TypeOK
    StoredRangesValid
PROPERTY
    ConflictsAreExplained
