SPECIFICATION FairSpec
CONSTANTS
    Ex = {bn, okx}
    Tasks = {t1, t2}
    MaxOrders = 2
    Qty = 1
    MaxAmend = 1
    MaxTimers = 4
    Feeds = {"usable"}
    Prompt = FALSE
    Faults = {}
    Keys = {"enter", "quit"}
PROPERTY ShutdownLeavesNoOrder
