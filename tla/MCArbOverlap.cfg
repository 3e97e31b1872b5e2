SPECIFICATION MCFairSpec
CONSTANTS
    Symbols = {s1}
    Readers = {r1}
    MaxQueue = 1
    MaxPos = 1
    Overlap = TRUE
    Operator = {"mode"}
    Faults = {"price failed", "crash", "close refused", "answer lost"}
VIEW WithoutHistory
PROPERTIES StoreConverges LowSpreadCloses
