\* Two handlers of one reseller overlap.
CONSTANTS
    Resellers = {1}
    Purgeable = {}
    Tasks = {t1, t2, t3}
    Requests = {1}
    Sizes = {1}
    Prices = {1}
    Amounts = {0, 2}
    RechargeAmounts <- EveryAmount
SPECIFICATION Spec
INVARIANT BalanceAddsUp
CHECK_DEADLOCK FALSE
