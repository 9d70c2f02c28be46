SPECIFICATION SpecWithDeposits
CONSTANTS
    Users = {u1, u2}
    Scale = 10
    Bps = 10
    MaxProtocolFee = 0
    MaxClaimsBuffer = 0
    FeeBps = 0
    ProtocolFees = {0}
    ClaimsBuffers = {0}
    Endowment = 7
    Amounts = {1, 6}
    ShareAmounts = {10}
SYMMETRY MCSymmetry
INVARIANT WinnersCovered
CHECK_DEADLOCK FALSE
