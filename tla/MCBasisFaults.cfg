SPECIFICATION MCSpec
CONSTANTS
    Ex = {bn, okx}
    Tasks = {t1, t2}
    MaxOrders = 2
    Qty = 1
    MaxAmend = 1
    MaxTimers = 0
    Feeds = {"usable"}
    Prompt = FALSE
    Faults = {"place refused", "place lost", "cancel refused", "cancel failed", "cancel lost", "query failed"}
    Keys = {"enter", "amend", "cancel", "back", "quit"}
    QtyStep = 2
    FirstQty = 5
    MaxQty = 9
    Slippages = {0, 3}
    BnStep = 2
    BnMin = 3
    CtVal = 5
    Ticks <- MCTicks
    Quotes <- MCQuotes
    AmendBps = 1
    AmendLimit = 2
SYMMETRY MCSymmetry
INVARIANTS TypeOK NoPhaseIsStuck OrdersAreAsked
PROPERTY FilledIsExecuted
