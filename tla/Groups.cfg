\* Two groups and two resellers; the pickers of two admins overlap.
CONSTANTS
    Groups = {g1, g2}
    Resellers = {r1, r2}
    Nobody = Nobody
    Admins = {t1, t2}
SYMMETRY GroupsSymmetry
SPECIFICATION GroupsSpec
INVARIANTS
    GroupsTypeOK
    AllIsChosen
    LastChoiceHolds
