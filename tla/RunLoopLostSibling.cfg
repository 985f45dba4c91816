\* A call cleared beside the one that suspends the run is never answered.
CONSTANTS
    pay = pay
    post = post
    note = note
    ping = ping
    NoCall = NoCall
    NoOne = NoOne
    Workers = {w1, w2}
    Calls <- GatedCalls
    Keyed = {pay}
    Effectful = {pay}
    Repeatable = {}
    Transient = {}
    Gated = {pay, post}
    Serial = {}
    Replies <- Pairs
    MaxIterations = 2
    MaxRetries = 0
    MaxBatches = 1
SPECIFICATION Spec
INVARIANTS EveryCallCameBack
CHECK_DEADLOCK FALSE
