\* One worker, whole batches: phases, failures, cancellation, and how it ends.
CONSTANTS
    pay = pay
    post = post
    note = note
    ping = ping
    NoCall = NoCall
    NoOne = NoOne
    Workers = {w1}
    Calls <- BatchCalls
    Keyed = {pay, note}
    Effectful = {pay}
    Repeatable = {ping}
    Transient = {note}
    Gated = {pay}
    Serial = {note}
    Replies <- Batches
    MaxIterations = 2
    MaxRetries = 1
    MaxBatches = 2
SPECIFICATION FairSpec
INVARIANTS NamedUnlessUnreported SuspendedRunsHoldNothing
PROPERTIES AttemptsEnd
CHECK_DEADLOCK FALSE
