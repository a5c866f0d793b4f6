SPECIFICATION Spec
CONSTANTS
    Addresses = {ip1, ip2}
    Threads = {loop}
    Limits = {0, 1, 2}
    Window = 3
    TicksPerSecond = 2
    MaxTime = 8
    NoCall = NoCall
    NoPromise = NoPromise
INVARIANTS
    TypeOK
    BucketBounded
    WindowBound
    RetryAfterTight
PROPERTIES
    RetryAfterKept
