SPECIFICATION MCSpec
CONSTANTS
    Ex = {bn, okx}
    Tasks = {t1}
    MaxOrders = 4
    Qty = 1
    MaxAmend = 2
    MaxTimers = 4
    Feeds = {"stale", "usable"}
    Prompt = TRUE
    Faults = {}
    Keys = {"enter", "amend", "cancel", "back", "quit"}
    Symbols = {1, 2}
    Configured = 1
    Searches <- MCSearches
    MaxEnding = 2
INVARIANTS IdleLeavesNoOrder OneWorkingOrder ScreensAreServed
PROPERTIES MarketIsLastResort SessionEnds PriceComesRight
