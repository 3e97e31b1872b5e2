SPECIFICATION FairSpec
CONSTANTS
    Ex = {bn, okx}
    Tasks = {t1}
    MaxOrders = 2
    Qty = 1
    MaxAmend = 1
    MaxTimers = 4
    Feeds = {"usable"}
    Prompt = TRUE
    Faults = {}
    Keys = {"enter", "amend"}
PROPERTY AmendReExecutes
