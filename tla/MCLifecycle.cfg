CONSTANTS
    Families = {"24h", "range"}
    LastDay = 0
    MaxMarkets <- MCMarkets
    MaxAdminCalls = 1
    MaxTrouble <- MCTrouble
SPECIFICATION Spec
INVARIANTS WinnerPublished DrainedAsRecorded
PROPERTIES ExpiredIsClosed ClosedIsSettled LiquidityReturns
CHECK_DEADLOCK FALSE
