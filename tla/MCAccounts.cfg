SPECIFICATION AccountsSpec
CONSTANTS
    Traders = {"t1", "t2"}
    Binary = {"b1"}
    Ranged = {"r1"}
    Sides = {"yes", "no"}
    Endowment = 2
    Seed = 2
    Bought <- MCBought
    Sold <- MCSold
    Fees = {1}
    Buffers = {1}
    Trading <- MCTrading
    MaxSent = 3
INVARIANTS
    
    
    RedemptionsNamed
    WinningsShown
CHECK_DEADLOCK FALSE
