------------------------------ MODULE Explorer ------------------------------
(***************************************************************************)
(* The session of the Explorer page (static/js/app.js, api.js) on top of   *)
(* Access: the token in sessionStorage, the login form, and the two timers *)
(* each showApp leaves behind, which nobody cancels.  A timer may fire     *)
(* late, never before its delay is over; but the delay has 32 bits.  The   *)
(* browser's clock is the server's.                                        *)
(***************************************************************************)
EXTENDS Access, Integers

CONSTANTS
    Form,        \* the page's login form, as a client
    Other,       \* the page's API calls and those of other clients
    MaxDelay,    \* the longest delay of a timer in ticks, 2^31 - 1 ms in browsers
    MaxShows     \* bound: showApp calls of one page

ASSUME ExplorerAssumption ==
    Clients = {Form, Other} /\ Form # Other /\ MaxDelay \in Nat /\ MaxShows \in Nat

VARIABLES
    stored,    \* sessionStorage: the token, or NoToken
    overlay,   \* the login overlay is on screen, as login screen or as banner
    app,       \* the app is shown
    timers,    \* pending timers, each with the showApp that set it
    shows,     \* showApp calls since the page was loaded
    long       \* history: had the token of the last showApp more time left than a
               \* timer waits?

page == <<stored, overlay, app, timers, shows, long>>
vars == <<access, page>>

Timer == [what : {"warn", "expire"}, due : 0 .. MaxClock + MaxDelay, of : 1 .. MaxShows]

\* setTimeout takes a signed integer: a delay too long wraps, often to one that
\* is negative, and a negative one fires at once.
Wait(delay) ==
    LET d == delay % (2 * (MaxDelay + 1)) IN IF d > MaxDelay THEN 0 ELSE d

Due(at) == clock + Wait(at - clock)

\* Mutant: the session ends when the warning is due.
ExpiryEarly(t, n) ==
    {[what |-> "expire", due |-> Due(t.exp - 1), of |-> n]}

\* Mutant: no timer is set for what is past, as for the warning.
ExpiryIfAhead(t, n) ==
    {e \in {[what |-> "expire", due |-> Due(t.exp), of |-> n]} : t.exp > clock}

\* scheduleExpiryWarning: the warning a tick before the expiry, unless that is
\* past, and the end of the session.
ScheduleExpiry(t, n) ==
    {[what |-> "expire", due |-> Due(t.exp), of |-> n]}
    \cup {w \in {[what |-> "warn", due |-> Due(t.exp - 1), of |-> n]} : t.exp - 1 > clock}

\* showApp with token t; pending says which timers of the page are left.
ShowApp(t, n, pending) ==
    /\ stored' = t /\ app' = TRUE /\ overlay' = FALSE
    /\ shows' = n /\ long' = (t.exp - clock > MaxDelay)
    /\ timers' = pending \cup ScheduleExpiry(t, n)

ShowLogin ==
    /\ app' = FALSE /\ overlay' = TRUE

Init ==
    /\ AccessInit
    /\ stored = NoToken /\ overlay = TRUE /\ app = FALSE
    /\ timers = {} /\ shows = 0 /\ long = FALSE

(* The page is loaded again: its timers are gone and so is a login it was   *)
(* waiting for; sessionStorage is kept.                                     *)
PageLoad ==
    /\ IF stored # NoToken
       THEN ShowApp(stored, 1, {})
       ELSE /\ ShowLogin /\ timers' = {} /\ shows' = 0 /\ long' = FALSE
            /\ UNCHANGED stored
    /\ Done(Form)

\* The submit handler up to its await; the button is disabled meanwhile.
SubmitForm(u, p) ==
    /\ overlay /\ shows < MaxShows
    /\ Arrive(Form, [scheme |-> "Login", user |-> u, secret |-> p])
    /\ UNCHANGED page

\* login() saves the token and showApp follows; a refusal leaves the form.
FormAnswered ==
    /\ pc[Form] = "answered"
    /\ IF issued[Form] # NoToken
       THEN ShowApp(issued[Form], shows + 1, timers)
       ELSE UNCHANGED page
    /\ Done(Form)

Fire(t) == t.due <= clock /\ timers' = timers \ {t}

\* showExpiryBanner puts the login overlay over the app, or over nothing.
FireWarn ==
    /\ \E t \in timers : t.what = "warn" /\ Fire(t)
    /\ overlay' = TRUE
    /\ UNCHANGED <<access, stored, app, shows, long>>

\* Mutant: the token goes, the screen stays.
FireExpireKeepsApp ==
    /\ \E t \in timers : t.what = "expire" /\ Fire(t)
    /\ stored' = NoToken
    /\ UNCHANGED <<access, overlay, app, shows, long>>

\* Whatever token is stored by now is the one that goes.
FireExpire ==
    /\ \E t \in timers : t.what = "expire" /\ Fire(t)
    /\ stored' = NoToken
    /\ ShowLogin
    /\ UNCHANGED <<access, shows, long>>

Logout ==
    /\ app
    /\ stored' = NoToken
    /\ ShowLogin
    /\ UNCHANGED <<access, timers, shows, long>>

\* apiFetch with the stored token, if any; a 401 changes nothing in the page.
AuthHeaders ==
    IF stored = NoToken THEN NoHeader
    ELSE [scheme |-> "Bearer", user |-> stored.user, exp |-> stored.exp]

ApiCall ==
    /\ Arrive(Other, AuthHeaders)
    /\ UNCHANGED page

\* A client without a page: a token of any login so far, a password, or junk.
OtherCall(h) ==
    /\ h.scheme = "Bearer" => h.exp <= clock + Lifetime
    /\ Arrive(Other, h)
    /\ UNCHANGED page

OtherAnswered == pc[Other] = "answered" /\ Done(Other) /\ UNCHANGED page

Served ==
    /\ \E c \in Clients : Lookup(c) \/ Resume(c)
    /\ UNCHANGED page

Environment ==
    /\ Tick \/ \E u \in Users, p \in Passwords \cup {NoAccount} : ChangeAccount(u, p)
    /\ UNCHANGED page

Next ==
    \/ PageLoad \/ FormAnswered \/ FireWarn \/ FireExpire \/ Logout
    \/ \E u \in Users, p \in Passwords : SubmitForm(u, p)
    \/ ApiCall \/ OtherAnswered \/ Served \/ Environment
    \/ \E h \in Headers : OtherCall(h)

\* A browser fires a timer that is due, sooner or later.
Spec == Init /\ [][Next]_vars /\ WF_vars(FireExpire)

-----------------------------------------------------------------------------
\* Type correctness of the server's and the page's state.
TypeOK ==
    /\ mode \in Modes /\ clock \in 0 .. MaxClock /\ changes \in 0 .. MaxChanges
    /\ password \in [Users -> Passwords \cup {NoAccount}]
    /\ pc \in [Clients -> {"idle", "lookup", "resume", "answered"}]
    /\ header \in [Clients -> Headers \cup {NoHeader}]
    /\ arrived \in [Clients -> 0 .. MaxClock]
    /\ fetched \in [Clients -> {Bcrypt(PreparePassword(p)) : p \in Passwords} \cup {NoAccount}]
    /\ status \in [Clients -> {0, 200, 401, 404, 429, 500}]
    /\ issued \in [Clients -> Tokens \cup {NoToken}]
    /\ held \in [Clients -> SUBSET (Passwords \cup {NoAccount})]
    /\ stored \in Tokens \cup {NoToken}
    /\ overlay \in BOOLEAN /\ app \in BOOLEAN /\ long \in BOOLEAN
    /\ timers \subseteq Timer /\ shows \in 0 .. MaxShows

(* The screen agrees with the session whatever timers of earlier logins     *)
(* fire: the app is shown exactly while there is a token, the login form is *)
(* there when it is not, and a token always has a timer that will end it:   *)
(* by the time it expires, or, if it was found expired, some day.           *)
ScreenMatchesSession ==
    /\ app <=> stored # NoToken
    /\ app \/ overlay
    /\ stored # NoToken =>
          \E t \in timers : t.what = "expire" /\ (t.due <= stored.exp \/ stored.exp < clock)

(* What ends a session before its token expires: a logout; a timer that an  *)
(* earlier showApp of this page left behind, which clears whatever token it *)
(* finds; or its own timer, but only if the token had more time left than a *)
(* timer can wait.  Nothing else does.                                      *)
NoEarlyEnd ==
    [][stored # NoToken /\ stored' = NoToken /\ clock < stored.exp
           => \/ Logout \/ long
              \/ \E t \in timers \ timers' : t.what = "expire" /\ t.of < shows]_vars

(* A token that has expired does not stay in the browser: it is cleared or  *)
(* replaced by a fresh one, also after a reload with the stale token.       *)
ExpiredTokenDropped ==
    (stored # NoToken /\ stored.exp <= clock)
        ~> (stored = NoToken \/ stored.exp > clock)
=============================================================================
