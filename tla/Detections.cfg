SPECIFICATION Spec
CONSTANTS
    Detectors = {d1, d2}
    Enrichers = {e1, e2}
    Urls = {u1, u2}
    Window = 2
    Dedup = 2
    Threshold = 2
    Lookback = 1
    Batch = 2
    MaxTime = 3
    MaxRequests = 2
SYMMETRY Symmetry
INVARIANT TypeOK
INVARIANT DetectionsAreSpaced
INVARIANT EnrichedOnce
PROPERTY OnlyOlderOnesWait
CHECK_DEADLOCK FALSE
