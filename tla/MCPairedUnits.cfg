SPECIFICATION Spec
CONSTANTS
    Target = 2
    Step = 1
    CtVal = 2
    Buyer = "binance"
    Rounds = 1
    MaxLeft = 1
    Faults = {}
PROPERTY FilledIsNotHedged
