SPECIFICATION Spec
CONSTANTS
    MaxLogins = 3
    MaxLeaks = 3
INVARIANTS TypeOK NoRequestStacking OneTimerPerDashboard
PROPERTY KeepsRefreshing
