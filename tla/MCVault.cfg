CONSTANTS
    u1 = u1
    u2 = u2
    Users <- TwoUsers
    Ranges = {r1, r2}
    Scale = 4
    Bps = 2
    Precision = 4
    MaxProtocolFee = 1
    MaxClaimsBuffer = 1
    FeeBps = 0
    Seeds = {1}
    MaxSupply = 18
    Exp <- ToyExp
    Ln <- ToyLn
    Endowment <- ToyEndowment
    Amounts = {1, 2}
    ShareAmounts = {9}
    ProtocolFees = {1}
    ClaimsBuffers = {1}
    VaultKnown = {TRUE}
    MaxDonations = 1
SPECIFICATION Spec
INVARIANTS SolvencyInv EscrowsTracked RefundsComplete
PROPERTIES Segregated KeepsPromise
CHECK_DEADLOCK FALSE
SYMMETRY RangeSymmetry
