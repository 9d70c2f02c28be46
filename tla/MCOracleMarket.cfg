SPECIFICATION OracleSpec
CONSTANTS
    Users = {u1, u2}
    Scale = 2
    Bps = 2
    MaxProtocolFee = 1
    MaxClaimsBuffer = 1
    FeeBps = 1
    ProtocolFees = {0, 1}
    ClaimsBuffers = {0, 1}
    Endowment = 2
    Amounts <- MCAmounts
    Oracles = {uma}
    NoOracle = none
    ShareAmounts <- MCShareAmounts
SYMMETRY MCSymmetry
INVARIANTS
    SolvencyInv
    
    WinnersCovered
PROPERTIES
    EstimateAgrees
    SettlementFinal
    KeepsPromise
CHECK_DEADLOCK FALSE
