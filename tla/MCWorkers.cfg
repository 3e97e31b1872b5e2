SPECIFICATION MCSpec
CONSTANTS
    Symbols = {1, 2, 3}
    Hash <- MCHash
    Shards = 2
    CoreMax = 2
    Config <- MCConfig
    Listings <- MCListings
    Puts <- MCPuts
    Conns = {"okx"}
    MaxChains = 2
    MaxPosts = 1
    Faults = {"socket lost", "refresh failed", "init failed"}
    Cost = 6
    Bin = 2
    MinBandWidth = 4
    MinHits = 65
    MaxBandStd = 2
    SpikeNet = 20
    SpikeDelta = 15
    CoreSymbols <- MCCore
    WatchSymbols <- MCWatch
    Histories <- MCHistories
    StableMinutes = 10
    RowLimit = 3
    RatePairs <- MCRatePairs
    Losses <- MCLosses
    Queries <- MCQueries
    Refreshes = {r1, r2}
    MaxChanges = 1
    MaxFailures = 1
    PageSymbols = {"s1", "s2", "s3"}
    SymbolList <- MCSymbolList
    PairsOf <- MCPairsOf
    None = None
    Tasks = {t0, t1, t2}
    Booting = t0
    MaxPicks = 2
    MaxLost = 1
    Values = {0, 1, 3}
    MaxBars = 8
    LookbackBars = 3
    EntryZ = 100
    ExitZ = 40
    RegimeLookbackBars = 4
    MinFlipRate = 40
    MaxTrendStrength = 45
    MaxHoldBars = 2
INVARIANTS TypeOK PreferredFirst ShardsAreCurrent ChainIsKept LedgerBalances
PROPERTIES SubscribedInTheEnd BoardSettles PageFollows
