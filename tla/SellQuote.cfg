SPECIFICATION QuoteSpec
CONSTANTS
    MaxReserve = 12
    MaxShares = 12
INVARIANTS
    QuoteIsLargest
PROPERTY QuoteReturns
CHECK_DEADLOCK FALSE
