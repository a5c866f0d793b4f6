SPECIFICATION Spec
CONSTANTS
    Form = Form
    Other = Other
    Clients = {Form, Other}
    Users = {admin}
    head = head
    tail = tail
    Passwords <- MCPasswords
    Modes = {"jwt", "basic", "both"}
    Lifetime = 2
    MaxClock = 3
    MaxChanges = 1
    MaxDelay = 1
    MaxShows = 2
    MaxInFlight = 1
    NoTail = NoTail
    NoAccount = NoAccount
    NoHeader = NoHeader
    NoUser = NoUser
    NoToken = NoToken
INVARIANTS TypeOK AnsweredAsEntitled ScreenMatchesSession
PROPERTIES NoEarlyEnd ExpiredTokenDropped
