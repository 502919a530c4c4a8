SPECIFICATION Spec
CONSTANTS
    Workers = {w1, w2}
    Jobs = {j}
    Users = {u}
    Calls = {k1, k2}
    Segments <- OneSegment
    MaxClips = 3
    MaxUpsets = 1
    MaxCalls = 2
INVARIANT TypeOK
INVARIANT DoneIsComplete
INVARIANT ClipHasFile
INVARIANT PaidOnce
PROPERTY JobsEnd
CHECK_DEADLOCK FALSE
