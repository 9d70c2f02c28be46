SPECIFICATION Spec
CONSTANTS
    buy = buy
    sell = sell
    Intents <- MCIntents
    Order <- MCOrder
    Requests = {r1, r2}
    Healers = {}
    Endowment = 2
    MaxFaults = 1
    MaxCrashes = 0
INVARIANT IntentExecutedOnce
CHECK_DEADLOCK FALSE
