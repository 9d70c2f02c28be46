SPECIFICATION SpecWithDeposits
CONSTANTS
    Users = {u1, u2}
    Scale = 2
    Bps = 2
    MaxProtocolFee = 1
    MaxClaimsBuffer = 1
    FeeBps = 0
    ProtocolFees = {0}
    ClaimsBuffers = {1}
    Endowment = 2
    Amounts = {1, 2}
    ShareAmounts = {2, 4}
SYMMETRY MCSymmetry
PROPERTIES
    LpShareKeepsValue
CHECK_DEADLOCK FALSE
