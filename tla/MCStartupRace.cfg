SPECIFICATION Spec
CONSTANTS
    admin = admin
    ops = ops
    old = old
    new = new
    Workers = {w1, w2}
    Names = {admin, ops}
    Passwords = {old, new}
    NoAccount = NoAccount
    NoCreds = NoCreds
    Configs <- MCConfigs
    MaxFaults = 0
    MaxStops = 0
INVARIANTS
    TableCreatedIfMissing
CHECK_DEADLOCK FALSE
