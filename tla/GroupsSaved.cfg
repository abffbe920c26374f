CONSTANTS
    Groups = {g1, g2}
    Resellers = {r1}
    Nobody = Nobody
    Admins = {t1}
SPECIFICATION GroupsSpec
PROPERTY SavedAsSelected
