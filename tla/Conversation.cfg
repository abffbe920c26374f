SPECIFICATION Spec
CONSTANTS
    Tasks = {t1, t2}
    Names = {u1, u2}
    Volumes = {g1, g2}
    Days = {d1, d2}
    Targets = {r1, r2}
    Changes = {c1, c2}
    Texts = {x1, x2}
    Missing = Missing
    Uses <- FormsTogether
SYMMETRY Symmetry
INVARIANTS TypeOK QuotesItsVolume
PROPERTY ConfirmsWhatItSays
