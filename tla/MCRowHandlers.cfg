SPECIFICATION Spec
CONSTANTS
    a = a
    b = b
    rest = rest
    graphql = graphql
    Columns = {"email", "name"}
    UniqueCols = {"email"}
    RequiredCols = {"name"}
    Values = {a, b}
    Null = Null
    Unset = Unset
    Absent = Absent
    MaxKey = 2
    Clients = {rest, graphql}
    Speaks <- MCSpeaks
    Bodies <- MCBodies
    NoClient = NoClient
    NoReply = NoReply
    NoRequest = NoRequest
    DbMayFail = TRUE
INVARIANTS
    TypeOK
    NoTransactionLeak
PROPERTIES
    ImplementsTableService
    ReadYourWrites
