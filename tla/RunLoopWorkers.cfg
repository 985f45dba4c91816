\* Three workers carry one run on, in turn and at the same time.
CONSTANTS
    pay = pay
    post = post
    note = note
    ping = ping
    NoCall = NoCall
    NoOne = NoOne
    Workers = {w1, w2, w3}
    Calls <- GatedCalls
    Keyed = {pay}
    Effectful = {pay}
    Repeatable = {}
    Transient = {}
    Gated = {pay, post}
    Serial = {}
    Replies <- Singles
    MaxIterations = 2
    MaxRetries = 0
    MaxBatches = 1
SPECIFICATION Spec
SYMMETRY Symmetric
INVARIANTS EffectsLandOnce RecordsAreTrue EffectsWereApproved
CHECK_DEADLOCK FALSE
