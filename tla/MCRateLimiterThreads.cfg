SPECIFICATION Spec
CONSTANTS
    Addresses = {ip1}
    Threads = {t1, t2}
    Limits = {2}
    Window = 3
    TicksPerSecond = 2
    MaxTime = 8
    NoCall = NoCall
    NoPromise = NoPromise
INVARIANTS
    WindowBound
