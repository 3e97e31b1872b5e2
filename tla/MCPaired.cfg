SPECIFICATION Spec
CONSTANTS
    Target = 2
    Step = 1
    CtVal = 1
    Buyer = "binance"
    Rounds = 3
    MaxLeft = 1
    Faults = {"refused", "answer lost", "cancel failed", "query failed", "not found"}
INVARIANT TypeOK
PROPERTIES OkIsBalanced OpenIsPaired ExecuteEnds
