SPECIFICATION Spec
CONSTANTS
    Trades = {"t1", "t2"}
    ByApi = {"t1"}
    Reported = {"t2"}
    MaxTrouble = 1
    Nothing = Nothing
    Projected = Projected
    Dialogs = {"d"}
    Amounts = {1, 2}
    Supply = 2
    MaxChanges = 2
    MaxMishaps = 1
    Empty = Empty
    Asked = Asked
    MaxVersion = 1
    MaxFaults = 1
    Missing = Missing
    Outcomes = {"o1", "o2"}
    MaxTyped = 2
    MaxEdits = 4
    MaxAsked = 2
    NoQuote = NoQuote
    NoOrder = NoOrder
INVARIANTS ChartInOrder FloorMatchesOrder
PROPERTIES ListSettles BalanceSettles AdminSettles
CHECK_DEADLOCK FALSE
