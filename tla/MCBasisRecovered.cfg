SPECIFICATION SizingSpec
CONSTANTS
    QtyStep = 2
    FirstQty = 5
    MaxQty = 9
    Slippages = {0, 3}
    BnStep = 2
    BnMin = 3
    CtVal = 5
    Ticks <- MCTicks
    Quotes <- MCQuotes
    AmendBps = 1
    AmendLimit = 2
INVARIANT AmendIsAggressive
