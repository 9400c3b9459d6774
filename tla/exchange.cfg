SPECIFICATION Spec
CONSTANTS
    Trader = {t1, t2}
    PdSystemAddress = pd
    Prices = {2, 4, 6}
    Amounts = {2, 4}
    PRICEPRECISION = 4
    Granularity = 2
    MATCHINGFEERATIO = 2
    COOKIELIMIT = 2
    InitialBRC = 8
    InitialBalance = 6
    MaxTransactions = 3
INVARIANT Conserved
 
 
INVARIANT NotCrossed
 
CHECK_DEADLOCK FALSE
