SPECIFICATION FairSpec
CONSTANTS
    Alerts <- MCTwoAlerts
    Capacity = 1
    MaxItems = 2
    Startup = 2
    Calls = {c1}
    MaxWire = 2
    Failures = {"socket", "hub", "request"}
PROPERTIES HighAlertsAreNotified ViewConverges
