SPECIFICATION Spec
CONSTANTS
    buy = buy
    sell = sell
    Intents <- MCIntents
    Order <- MCOrder
    Requests = {r1, r2}
    Healers = {"tick"}
    Endowment = 2
    MaxFaults = 1
    MaxCrashes = 1
INVARIANTS
    ReservedWhileWorking
    NeverDoubleBooked
    SuccessIsBooked

    
    
CHECK_DEADLOCK FALSE
