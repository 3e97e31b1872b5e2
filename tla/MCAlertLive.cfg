SPECIFICATION MCSpec
CONSTANTS
    Alerts <- MCAlerts
    Capacity = 2
    MaxItems = 4
    Startup = 2
    Calls = {}
    MaxWire = 2
    Failures = {"socket", "hub"}
    Stamp <- MCStamp
    Undated = {3}
    Untitled = {}
    Watched = {1, 2}
    ListLength = 2
    MaxSeen = 2
    MaxSecond = 3
    NewsPolls = {p1, p2}
    NewsFaults = {"socket lost", "message lost", "poll failed"}
INVARIANTS TypesOK StoreInv LiveViewIsCurrent ListIsExact FiredOncePerRing
PROPERTIES RetainedAlertsAreStable StoreIsLog NewestIsFired
