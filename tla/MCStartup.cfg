SPECIFICATION FairSpec
CONSTANTS
    admin = admin
    ops = ops
    old = old
    new = new
    Workers = {w1, w2}
    Names = {admin, ops}
    Passwords = {old, new}
    NoAccount = NoAccount
    NoCreds = NoCreds
    Configs <- MCConfigs
    MaxFaults = 2
    MaxStops = 2
INVARIANTS
    TypeOK
    NoIntegrityError
    ServingMeansSeeded
PROPERTIES
    ImplementsAdminUpsert
    AllServe
\* With every worker up and no stop left, nothing more happens.
CHECK_DEADLOCK FALSE
