\* Two admins press the buttons of one recharge request.
CONSTANTS
    Resellers = {1}
    Purgeable = {}
    Tasks = {t1, t2, t3}
    Requests = {1}
    Sizes = {1}
    Prices = {1}
    Amounts = {0, 2}
    RechargeAmounts <- EveryAmount
SPECIFICATION Spec
INVARIANT RequestProcessedOnce
CHECK_DEADLOCK FALSE
