CONSTANTS
    Requests = {"r1", "r2"}
    Intents = {"buy", "limit", "sell"}
    Signed <- MCSigned
    Sent <- MCSent
    MaxShares = 2
    MaxTrouble = 1
SPECIFICATION Spec
INVARIANTS  MinimumKept
PROPERTIES PageSettles
CHECK_DEADLOCK FALSE
