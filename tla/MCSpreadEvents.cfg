SPECIFICATION MCSpec
CONSTANTS
    q1 = q1
    q2 = q2
    Quotes <- MCQuotes
    Narrow <- MCNarrow
    Sequenced = {"okx"}
    MaxSeq = 3
    MaxTime = 1
    StaleLimit = 0
    MaxPerSec = 2
    DbLimit = 1
    Reassigns = TRUE
    Failures = {"update lost", "snapshot failed", "insert failed", "insert timed out"}
    Symbols = {s1}
    Readers = {r1}
    MaxQueue = 1
    MaxPos = 2
    Overlap = TRUE
    Operator = {"symbols"}
    Faults = {"open refused", "answer lost", "price failed", "read failed", "stale event", "flagged event"}
INVARIANTS TypeOK PipelineTypeOK MarkedBucketIsCovered
PROPERTIES OpensOnlyWhenFlat NoOpenOnNakedLeg
