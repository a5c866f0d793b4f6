-------------------------- MODULE DashboardProofs --------------------------
(***************************************************************************)
(* Theorems about Dashboard, for any number of logins and leaked timers:   *)
(* polls do not stack, and a dashboard has one timer.                      *)
(***************************************************************************)
EXTENDS Dashboard, TLAPS

Kinds == {"interval", "retry"}

\* The flags are flags.
FlagInv ==
    /\ app \in BOOLEAN /\ hidden \in BOOLEAN /\ paused \in BOOLEAN
    /\ clean \in BOOLEAN /\ busy \in BOOLEAN

\* The other types, and that a page nobody has signed in to shows no dashboard.
PageInv ==
    /\ logins \in 0 .. MaxLogins
    /\ tab \in {"explorer", "dashboard"}
    /\ timer \in {"none", "interval", "retry"}
    /\ leaked \in [Kinds -> 0 .. MaxLeaks]
    /\ polls \in Nat
    /\ logins = 0 => ~app /\ tab = "explorer"

\* The flag of poll() says what is in flight: so its guard bounds the polls.
FlightInv == polls \in {0, 1} /\ (busy <=> polls = 1)

\* While the page is clean nothing has leaked, _timer refers to a timer just
\* while the dashboard is on screen, and there was one login at most.
CleanInv ==
    clean => /\ leaked["interval"] = 0 /\ leaked["retry"] = 0
             /\ timer # "none" <=> OnDashboard
             /\ logins <= 1

IInv == FlagInv /\ PageInv /\ FlightInv /\ CleanInv

-----------------------------------------------------------------------------
\* New intervals keep the leaked timers in bounds (startPolling).
LEMMA IntervalsTyped ==
    ASSUME PageInv, NEW n \in Nat \ {0}, SetIntervals(n)
    PROVE  leaked' \in [Kinds -> 0 .. MaxLeaks]
<1>1. DOMAIN leaked = Kinds /\ \A k \in Kinds : Live(k) \in Nat
  BY SMT DEF PageInv, Kinds, Live
<1>2. leaked' = [k \in Kinds |-> Live(k) + (IF k = "interval" THEN n - 1 ELSE 0)]
  BY <1>1 DEF SetIntervals
<1>3. ASSUME NEW k \in Kinds PROVE leaked'[k] \in 0 .. MaxLeaks
  <2>1. Live(k) \in Nat /\ leaked'[k] <= MaxLeaks
    BY <1>1 DEF SetIntervals
  <2>2. leaked'[k] = Live(k) + (IF k = "interval" THEN n - 1 ELSE 0)
    BY <1>2
  <2> QED  BY <2>1, <2>2, DashboardAssumption, SMT DEF DashboardAssumption
<1> QED  BY <1>2, <1>3

\* Where nothing has leaked and no timer runs, one new interval leaks nothing.
LEMMA FirstInterval ==
    ASSUME PageInv, SetIntervals(1), timer = "none",
           leaked["interval"] = 0, leaked["retry"] = 0
    PROVE  timer' = "interval" /\ leaked'["interval"] = 0 /\ leaked'["retry"] = 0
<1>1. DOMAIN leaked = Kinds
  BY DEF PageInv
<1>2. timer' = "interval"
      /\ leaked' = [k \in Kinds |-> Live(k) + (IF k = "interval" THEN 1 - 1 ELSE 0)]
  BY <1>1 DEF SetIntervals
<1>3. Live("interval") = 0 /\ Live("retry") = 0
  BY SMT DEF Live
<1> QED  BY <1>2, <1>3, SMT DEF Kinds

-----------------------------------------------------------------------------
\* Every action assigns flags to flags.
LEMMA FlagStep == FlagInv /\ [Next]_vars => FlagInv'
<1> SUFFICES ASSUME FlagInv, [Next]_vars PROVE FlagInv'
  OBVIOUS
<1>1. CASE ClickDashboard
  BY <1>1, Zenon
  DEF ClickDashboard, Poll, FlagInv
<1>2. CASE ClickExplorer
  BY <1>2, Zenon
  DEF ClickExplorer, StopPolling, NoPoll, FlagInv
<1>3. CASE ClickPause
  BY <1>3, Zenon
  DEF ClickPause, Poll, NoPoll, screen, timing, FlagInv
<1>4. CASE Hide
  BY <1>4, Zenon
  DEF Hide, NoPoll, timing, FlagInv
<1>5. CASE Show
  BY <1>5, Zenon
  DEF Show, Poll, NoPoll, timing, FlagInv
<1>6. CASE Logout
  BY <1>6, Zenon
  DEF Logout, StopPolling, NoPoll, FlagInv
<1>7. CASE SessionExpires
  BY <1>7, Zenon
  DEF SessionExpires, timing, FlagInv
<1>8. CASE Login
  BY <1>8, Zenon
  DEF Login, timing, FlagInv
<1>9. CASE PollOk
  BY <1>9, Zenon
  DEF PollOk, PollDone, screen, timing, FlagInv
<1>10. CASE PollFail
  BY <1>10, Zenon
  DEF PollFail, PollDone, screen, FlagInv
<1>11. CASE IntervalFires
  BY <1>11, Zenon
  DEF IntervalFires, Poll, NoPoll, screen, timing, FlagInv
<1>12. CASE RetryFires
  BY <1>12, Zenon
  DEF RetryFires, Poll, screen, FlagInv
<1>13. CASE UNCHANGED vars
  BY <1>13, Zenon DEF vars, screen, timing, FlagInv
<1> QED
  BY <1>1, <1>2, <1>3, <1>4, <1>5, <1>6, <1>7, <1>8, <1>9, <1>10, <1>11, <1>12, <1>13
  DEF Next

\* The types and the empty page are preserved.
LEMMA PageStep == PageInv /\ [Next]_vars => PageInv'
<1> SUFFICES ASSUME PageInv, [Next]_vars PROVE PageInv'
  OBVIOUS
<1>1. CASE ClickDashboard
  <2>1. logins \in Nat \ {0}
    BY <1>1, SMT DEF ClickDashboard, PageInv
  <2>2. leaked' \in [Kinds -> 0 .. MaxLeaks] /\ timer' = "interval"
    BY <1>1, <2>1, IntervalsTyped DEF ClickDashboard, SetIntervals
  <2>3. /\ logins' = logins /\ tab' = "dashboard"
        /\ polls' = polls \/ polls' = polls + 1
    BY <1>1 DEF ClickDashboard, Poll
  <2> QED
    BY <2>1, <2>2, <2>3, SMT DEF PageInv
<1>2. CASE ClickExplorer
  BY <1>2, SMT
  DEF ClickExplorer, StopPolling, NoPoll, PageInv, Kinds
<1>3. CASE ClickPause
  BY <1>3, SMT
  DEF ClickPause, Poll, NoPoll, screen, timing, PageInv, Kinds
<1>4. CASE Hide
  BY <1>4, SMT
  DEF Hide, NoPoll, timing, PageInv, Kinds
<1>5. CASE Show
  BY <1>5, SMT
  DEF Show, Poll, NoPoll, timing, PageInv, Kinds
<1>6. CASE Logout
  BY <1>6, SMT
  DEF Logout, StopPolling, NoPoll, PageInv, Kinds
<1>7. CASE SessionExpires
  BY <1>7, SMT
  DEF SessionExpires, timing, PageInv, Kinds
<1>8. CASE Login
  <2>1. logins' = logins + 1 /\ logins < MaxLogins /\ UNCHANGED <<tab, timer, leaked, polls>>
    BY <1>8 DEF Login, timing
  <2> QED
    BY <2>1, DashboardAssumption, SMT DEF DashboardAssumption, PageInv
<1>9. CASE PollOk
  BY <1>9, SMT
  DEF PollOk, PollDone, screen, timing, PageInv, Kinds
<1>10. CASE PollFail
  BY <1>10, SMT
  DEF PollFail, PollDone, screen, PageInv, Kinds
<1>11. CASE IntervalFires
  BY <1>11, SMT
  DEF IntervalFires, Poll, NoPoll, screen, timing, PageInv, Kinds
<1>12. CASE RetryFires
  <2>1. timer' = "interval" /\ leaked' \in [Kinds -> 0 .. MaxLeaks]
    <3>1. CASE timer = "retry" /\ timer' = "interval" /\ UNCHANGED leaked
      BY <3>1 DEF PageInv
    <3>2. CASE /\ leaked["retry"] > 0
               /\ timer' = "interval"
               /\ leaked' = [leaked EXCEPT !["interval"] = Live("interval"),
                                          !["retry"] = Live("retry") - 1]
               /\ leaked'["interval"] <= MaxLeaks
      <4>1. leaked'["interval"] = Live("interval") /\ leaked'["retry"] = Live("retry") - 1
            /\ leaked \in [Kinds -> 0 .. MaxLeaks]
        BY <3>2, SMT DEF PageInv, Kinds
      <4>2. Live("interval") \in 0 .. MaxLeaks /\ Live("retry") - 1 \in 0 .. MaxLeaks
        BY <3>2, <4>1, DashboardAssumption, SMT DEF DashboardAssumption, Kinds, Live
      <4> QED  BY <3>2, <4>1, <4>2, SMT DEF Kinds
    <3> QED  BY <1>12, <3>1, <3>2 DEF RetryFires
  <2> QED
    BY <1>12, <2>1, SMT DEF RetryFires, Poll, screen, PageInv
<1>13. CASE UNCHANGED vars
  BY <1>13, SMT DEF vars, screen, timing, PageInv, Kinds
<1> QED
  BY <1>1, <1>2, <1>3, <1>4, <1>5, <1>6, <1>7, <1>8, <1>9, <1>10, <1>11, <1>12, <1>13
  DEF Next

\* A poll starts only where the flag is down, and its end takes the flag down.
LEMMA FlightStep == FlightInv /\ [Next]_vars => FlightInv'
<1> SUFFICES ASSUME FlightInv, [Next]_vars PROVE FlightInv'
  OBVIOUS
<1>1. CASE ClickDashboard
  BY <1>1, SMT
  DEF ClickDashboard, Poll, FlightInv
<1>2. CASE ClickExplorer
  BY <1>2, SMT
  DEF ClickExplorer, StopPolling, NoPoll, FlightInv
<1>3. CASE ClickPause
  BY <1>3, SMT
  DEF ClickPause, Poll, NoPoll, screen, timing, FlightInv
<1>4. CASE Hide
  BY <1>4, SMT
  DEF Hide, NoPoll, timing, FlightInv
<1>5. CASE Show
  BY <1>5, SMT
  DEF Show, Poll, NoPoll, timing, FlightInv
<1>6. CASE Logout
  BY <1>6, SMT
  DEF Logout, StopPolling, NoPoll, FlightInv
<1>7. CASE SessionExpires
  BY <1>7, SMT
  DEF SessionExpires, timing, FlightInv
<1>8. CASE Login
  BY <1>8, SMT
  DEF Login, timing, FlightInv
<1>9. CASE PollOk
  BY <1>9, SMT
  DEF PollOk, PollDone, screen, timing, FlightInv
<1>10. CASE PollFail
  BY <1>10, SMT
  DEF PollFail, PollDone, screen, FlightInv
<1>11. CASE IntervalFires
  BY <1>11, SMT
  DEF IntervalFires, Poll, NoPoll, screen, timing, FlightInv
<1>12. CASE RetryFires
  BY <1>12, SMT
  DEF RetryFires, Poll, screen, FlightInv
<1>13. CASE UNCHANGED vars
  BY <1>13, SMT DEF vars, screen, timing, FlightInv
<1> QED
  BY <1>1, <1>2, <1>3, <1>4, <1>5, <1>6, <1>7, <1>8, <1>9, <1>10, <1>11, <1>12, <1>13
  DEF Next

\* What breaks the order of the timers breaks clean.
LEMMA CleanStep == PageInv /\ CleanInv /\ [Next]_vars => CleanInv'
<1> SUFFICES ASSUME PageInv /\ CleanInv, [Next]_vars PROVE CleanInv'
  OBVIOUS
<1>1. CASE ClickDashboard
  <2> SUFFICES ASSUME clean'
               PROVE  /\ leaked'["interval"] = 0 /\ leaked'["retry"] = 0
                      /\ timer' # "none" <=> OnDashboard'
                      /\ logins' <= 1
    BY DEF CleanInv
  <2>1. clean /\ tab # "dashboard" /\ app /\ SetIntervals(logins)
        /\ app' /\ tab' = "dashboard" /\ logins' = logins
    BY <1>1 DEF ClickDashboard
  <2>2. timer = "none" /\ leaked["interval"] = 0 /\ leaked["retry"] = 0 /\ logins <= 1
    BY <2>1 DEF CleanInv, OnDashboard
  <2>3. logins = 1
    BY <2>1, <2>2, SMT DEF PageInv
  <2>4. timer' = "interval" /\ leaked'["interval"] = 0 /\ leaked'["retry"] = 0
    BY <2>1, <2>2, <2>3, FirstInterval
  <2> QED  BY <2>1, <2>2, <2>4 DEF OnDashboard
<1>2. CASE ClickExplorer
  BY <1>2, SMT
  DEF ClickExplorer, StopPolling, NoPoll, CleanInv, PageInv, OnDashboard
<1>3. CASE ClickPause
  BY <1>3, SMT
  DEF ClickPause, Poll, NoPoll, screen, timing, CleanInv, PageInv, OnDashboard
<1>4. CASE Hide
  BY <1>4, SMT
  DEF Hide, NoPoll, timing, CleanInv, PageInv, OnDashboard
<1>5. CASE Show
  BY <1>5, SMT
  DEF Show, Poll, NoPoll, timing, CleanInv, PageInv, OnDashboard
<1>6. CASE Logout
  BY <1>6, SMT
  DEF Logout, StopPolling, NoPoll, CleanInv, PageInv, OnDashboard
<1>7. CASE SessionExpires
  BY <1>7, SMT
  DEF SessionExpires, timing, CleanInv, PageInv, OnDashboard
<1>8. CASE Login
  <2>1. (clean' => clean /\ logins = 0) /\ logins' = logins + 1
        /\ UNCHANGED <<tab, timer, leaked>>
    BY <1>8 DEF Login, timing
  <2> QED
    BY <2>1, SMT DEF CleanInv, PageInv, OnDashboard
<1>9. CASE PollOk
  BY <1>9, SMT
  DEF PollOk, PollDone, screen, timing, CleanInv, PageInv, OnDashboard
<1>10. CASE PollFail
  <2>1. (clean' => clean /\ OnDashboard) /\ timer' = "retry"
        /\ UNCHANGED <<app, tab, logins, leaked>>
    BY <1>10 DEF PollFail, screen
  <2> QED
    BY <2>1, SMT DEF CleanInv, OnDashboard
<1>11. CASE IntervalFires
  BY <1>11, SMT
  DEF IntervalFires, Poll, NoPoll, screen, timing, CleanInv, PageInv, OnDashboard
<1>12. CASE RetryFires
  BY <1>12, SMT
  DEF RetryFires, screen, Live, CleanInv, PageInv, Kinds, OnDashboard
<1>13. CASE UNCHANGED vars
  BY <1>13, SMT DEF vars, screen, timing, CleanInv, PageInv, OnDashboard
<1> QED
  BY <1>1, <1>2, <1>3, <1>4, <1>5, <1>6, <1>7, <1>8, <1>9, <1>10, <1>11, <1>12, <1>13
  DEF Next

-----------------------------------------------------------------------------
LEMMA InitInv == Init => IInv
<1> SUFFICES ASSUME Init PROVE IInv
  OBVIOUS
<1>1. FlagInv
  BY Zenon DEF Init, FlagInv
<1>2. logins = 0 => ~app /\ tab = "explorer"
  <2>1. app = (logins = 1) /\ tab = "explorer"
    BY DEF Init
  <2>2. logins = 0 => ~(logins = 1)
    OBVIOUS
  <2> QED  BY <2>1, <2>2
<1>3. PageInv
  BY <1>2, DashboardAssumption, SMT DEF DashboardAssumption, Init, PageInv, Kinds
<1>4. FlightInv /\ CleanInv
  BY SMT DEF Init, FlightInv, CleanInv, OnDashboard
<1> QED  BY <1>1, <1>3, <1>4 DEF IInv

LEMMA Invariance == Spec => []IInv
<1>1. IInv /\ [Next]_vars => IInv'
  BY FlagStep, PageStep, FlightStep, CleanStep DEF IInv
<1> QED  BY InitInv, <1>1, PTL DEF Spec

-----------------------------------------------------------------------------
\* The polling state of the page keeps its types.
THEOREM TypeCorrect == Spec => []TypeOK
<1>1. IInv => TypeOK
  BY DEF IInv, FlagInv, PageInv, TypeOK, Kinds
<1> QED  BY <1>1, Invariance, PTL

\* Polls never stack, however many listeners and timers a page has gathered
\* (the guard of poll()).
THEOREM NoStacking == Spec => []NoRequestStacking
<1>1. IInv => NoRequestStacking
  BY SMT DEF IInv, FlightInv, NoRequestStacking
<1> QED  BY <1>1, Invariance, PTL

\* A page on which none of the four events has happened has one timer while
\* the dashboard is on screen and none otherwise (startPolling, stopPolling
\* and the catch branch of poll()).
THEOREM OneTimer == Spec => []OneTimerPerDashboard
<1>1. IInv => OneTimerPerDashboard
  <2> SUFFICES ASSUME IInv, clean
               PROVE  Live("interval") + Live("retry") = IF OnDashboard THEN 1 ELSE 0
    BY DEF OneTimerPerDashboard
  <2>1. leaked["interval"] = 0 /\ leaked["retry"] = 0
    BY DEF IInv, CleanInv
  <2>2. timer # "none" <=> OnDashboard
    BY DEF IInv, CleanInv
  <2>3. timer \in {"none", "interval", "retry"}
    BY DEF IInv, PageInv
  <2> QED  BY <2>1, <2>2, <2>3, SMT DEF Live
<1> QED  BY <1>1, Invariance, PTL
=============================================================================
