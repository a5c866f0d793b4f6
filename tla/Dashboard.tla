----------------------------- MODULE Dashboard -----------------------------
(***************************************************************************)
(* The dashboard's polling of /metrics (static/js/dashboard.js) with the   *)
(* events that drive it (app.js): tab clicks, the pause button, visibility, *)
(* logout, expiry and login.  Each showApp adds its listeners once more, so *)
(* after n logins on a page a click runs its handler n times.              *)
(*                                                                         *)
(* A timer is an interval or a retry timeout.  _timer refers to one; those *)
(* it referred to before and that were not cleared are leaked: they fire,  *)
(* and nothing can stop them.  The delays are left out: any timer may fire *)
(* next.                                                                   *)
(***************************************************************************)
EXTENDS Naturals

CONSTANTS
    MaxLogins,   \* bound: logins on one page
    MaxLeaks     \* bound: leaked timers of each kind

ASSUME DashboardAssumption == MaxLogins \in Nat \ {0} /\ MaxLeaks \in Nat

VARIABLES
    app,       \* the app is shown, not the login screen
    logins,    \* showApp calls on this page: copies of each listener
    tab,       \* the active tab
    hidden,    \* document.hidden
    paused,    \* _paused: by the button, and by hiding the page
    timer,     \* what _timer refers to: "none", "interval" or "retry"
    leaked,    \* timers still firing that _timer no longer refers to
    busy,      \* _pollInFlight
    polls,     \* polls that await an answer
    clean      \* history: none of the events that leak a timer has happened

screen == <<app, logins, tab, hidden>>
timing == <<timer, leaked>>
vars   == <<screen, paused, timing, busy, polls, clean>>

OnDashboard == app /\ tab = "dashboard"

\* Copies of a timer kind that are live.
Live(k) == leaked[k] + (IF timer = k THEN 1 ELSE 0)

Init ==
    /\ logins \in {0, 1} /\ app = (logins = 1)
    /\ tab = "explorer" /\ hidden \in BOOLEAN
    /\ paused = FALSE
    /\ timer = "none" /\ leaked = [k \in {"interval", "retry"} |-> 0]
    /\ busy = FALSE /\ polls = 0
    /\ clean = TRUE

\* Mutant: only the interval looks whether a poll is in flight.
PollAlways == busy' = TRUE /\ polls' = polls + 1

\* poll() up to its await.
Poll ==
    IF busy THEN UNCHANGED <<busy, polls>>
    ELSE busy' = TRUE /\ polls' = polls + 1

NoPoll == UNCHANGED <<busy, polls>>

\* _timer is assigned n new intervals in a row; what it referred to leaks.
SetIntervals(n) ==
    /\ timer' = "interval"
    /\ leaked' = [k \in DOMAIN leaked |->
                     Live(k) + (IF k = "interval" THEN n - 1 ELSE 0)]
    /\ \A k \in DOMAIN leaked : leaked'[k] <= MaxLeaks

\* Mutant: the interval is forgotten, not cleared.
StopForgets ==
    /\ timer' = "none"
    /\ leaked' = [k \in DOMAIN leaked |-> Live(k)]

\* stopPolling, any number of times.
StopPolling == timer' = "none" /\ UNCHANGED leaked

\* switchTab("dashboard") runs startPolling: a poll and a new interval, also
\* when the dashboard is on already.
ClickDashboard ==
    /\ app
    /\ tab' = "dashboard"
    /\ Poll /\ SetIntervals(logins)
    /\ clean' = (clean /\ tab # "dashboard")
    /\ UNCHANGED <<app, logins, hidden, paused>>

ClickExplorer ==
    /\ app
    /\ tab' = "explorer"
    /\ StopPolling /\ NoPoll
    /\ UNCHANGED <<app, logins, hidden, paused, clean>>

\* togglePause once per listener: any of them that unpauses polls.
ClickPause ==
    /\ OnDashboard /\ ~hidden
    /\ paused' = IF logins % 2 = 1 THEN ~paused ELSE paused
    /\ IF paused \/ logins > 1 THEN Poll ELSE NoPoll
    /\ UNCHANGED <<screen, timing, clean>>

\* visibilitychange to hidden.
Hide ==
    /\ ~hidden
    /\ hidden' = TRUE
    /\ paused' = (paused \/ logins > 0)
    /\ NoPoll
    /\ UNCHANGED <<app, logins, tab, timing, clean>>

\* visibilitychange to visible: resumes, and polls whatever the tab, unless
\* paused - which hiding the page made it.
Show ==
    /\ hidden
    /\ hidden' = FALSE
    /\ IF logins > 0 /\ ~paused THEN Poll ELSE NoPoll
    /\ UNCHANGED <<app, logins, tab, paused, timing, clean>>

Logout ==
    /\ app
    /\ app' = FALSE
    /\ StopPolling /\ NoPoll
    /\ UNCHANGED <<logins, tab, hidden, paused, clean>>

\* The expiry timer shows the login screen and does not stop the polling.
SessionExpires ==
    /\ app
    /\ app' = FALSE /\ clean' = FALSE
    /\ UNCHANGED <<logins, tab, hidden, paused, timing, busy, polls>>

\* showApp: one more copy of each listener; the tab is as it was left.  The
\* expiry warning puts the login form over the app, so the app may be there.
Login ==
    /\ logins < MaxLogins
    /\ app' = TRUE /\ logins' = logins + 1
    /\ clean' = (clean /\ logins = 0)
    /\ UNCHANGED <<tab, hidden, paused, timing, busy, polls>>

PollDone ==
    /\ polls > 0
    /\ polls' = polls - 1 /\ busy' = FALSE

\* The answer came and is rendered.
PollOk ==
    /\ PollDone
    /\ UNCHANGED <<screen, paused, timing, clean>>

\* Mutant: the interval goes on beside the retry.
FailKeepsInterval ==
    /\ PollDone
    /\ timer' = "retry"
    /\ leaked' = [k \in DOMAIN leaked |-> Live(k)]
    /\ \A k \in DOMAIN leaked : leaked'[k] <= MaxLeaks
    /\ clean' = (clean /\ OnDashboard)
    /\ UNCHANGED <<screen, paused>>

\* A failed poll replaces what _timer refers to by a retry, polling or not.
PollFail ==
    /\ PollDone
    /\ timer' = "retry" /\ UNCHANGED leaked
    /\ clean' = (clean /\ OnDashboard)
    /\ UNCHANGED <<screen, paused>>

IntervalFires ==
    /\ Live("interval") > 0
    /\ IF paused \/ busy THEN NoPoll ELSE Poll
    /\ UNCHANGED <<screen, paused, timing, clean>>

\* Mutant: the retry polls and sets no interval.
RetryPollsOnce ==
    /\ timer = "retry" /\ timer' = "none" /\ UNCHANGED leaked
    /\ Poll
    /\ UNCHANGED <<screen, paused, clean>>

\* The retry sets a new interval and polls, paused or not.
RetryFires ==
    /\ \/ timer = "retry" /\ timer' = "interval" /\ UNCHANGED leaked
       \/ /\ leaked["retry"] > 0
          /\ timer' = "interval"
          /\ leaked' = [leaked EXCEPT !["interval"] = Live("interval"),
                                    !["retry"] = Live("retry") - 1]
          /\ leaked'["interval"] <= MaxLeaks
    /\ Poll
    /\ UNCHANGED <<screen, paused, clean>>

Next ==
    \/ ClickDashboard \/ ClickExplorer \/ ClickPause \/ Hide \/ Show
    \/ Logout \/ SessionExpires \/ Login
    \/ PollOk \/ PollFail \/ IntervalFires \/ RetryFires

\* The browser fires its timers, and a fetch is answered or fails.
Fairness ==
    /\ WF_vars(IntervalFires) /\ WF_vars(RetryFires)
    /\ WF_vars(PollOk \/ PollFail)

Spec == Init /\ [][Next]_vars /\ Fairness

-----------------------------------------------------------------------------
\* Type correctness of the page's polling state.
TypeOK ==
    /\ app \in BOOLEAN /\ logins \in 0 .. MaxLogins
    /\ tab \in {"explorer", "dashboard"}
    /\ hidden \in BOOLEAN /\ paused \in BOOLEAN /\ clean \in BOOLEAN
    /\ timer \in {"none", "interval", "retry"}
    /\ leaked \in [{"interval", "retry"} -> 0 .. MaxLeaks]
    /\ busy \in BOOLEAN /\ polls \in Nat

(* However many timers have leaked and whoever asks (a tab click, Resume,   *)
(* visibility, an interval, a retry), at most one poll awaits an answer:    *)
(* requests do not stack behind a slow /metrics.                            *)
NoRequestStacking == polls <= 1

(* The dashboard has exactly one timer while it is on screen, the interval  *)
(* or the retry that stands in for it, and none otherwise - through any     *)
(* mixture of failing polls, late answers, tab changes, pauses and hiding.  *)
(* Four things break it, which clean rules out: clicking the dashboard tab  *)
(* again, a poll that fails after the dashboard was left, an expired        *)
(* session, and a second login on the page.                                 *)
OneTimerPerDashboard ==
    clean => Live("interval") + Live("retry") = IF OnDashboard THEN 1 ELSE 0

(* A dashboard that stays on screen and unpaused goes on polling, however   *)
(* often polls fail.                                                        *)
KeepsRefreshing ==
    <>[](clean /\ OnDashboard /\ ~paused) => []<>(polls = 0) /\ []<>(polls = 1)
=============================================================================
