\* Two resellers, of which one may be deleted and its id used again, three
\* overlapping handlers, two requests.
CONSTANTS
    Resellers = {1, 2}
    Purgeable = {2}
    Tasks = {t1, t2, t3}
    Requests = {1, 2}
    Sizes = {2}
    Prices = {1}
    Amounts = {0, 3}
    RechargeAmounts <- EveryAmount
SYMMETRY TaskSymmetry
SPECIFICATION Spec
INVARIANTS
    TypeOK
    ApprovedIsCredited
    BalanceNonNegative
    BalanceIsNewestPosting
PROPERTY
    ImplementsWallet
\* Every handler has run: there is nothing left to do.
CHECK_DEADLOCK FALSE
