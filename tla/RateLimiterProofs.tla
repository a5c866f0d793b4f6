------------------------- MODULE RateLimiterProofs -------------------------
(***************************************************************************)
(* Theorems about RateLimiter, for every set of addresses, every limit and *)
(* every window.  The bound of a bucket and what a 429 promises hold with  *)
(* any number of threads; the order of its entries and the window bound    *)
(* need a single caller, which is how the server uses the limiter.         *)
(***************************************************************************)
EXTENDS RateLimiter, FiniteSetTheorems, SequenceTheorems, TLAPS

-----------------------------------------------------------------------------
\* Types and the bound of a bucket, with any number of threads.

HeadInLog == \A k \in Addresses : head[k] <= Len(log[k])

\* A disabled limiter has no pending decisions.
Enabling == \A t \in Threads : call[t] # NoCall => max > 0

BoundInv == TypeOK /\ HeadInLog /\ Enabling /\ BucketBounded

\* What a 429 promises is a moment the clock can reach.
LEMMA PromiseTyped ==
    ASSUME NEW now \in Nat, NEW wait \in Nat
    PROVE  now + RetryAfter(wait) * TicksPerSecond \in Nat
<1>1. TicksPerSecond \in Nat \ {0}
  BY LimiterAssumption
<1>2. wait \div TicksPerSecond \in Nat
  BY <1>1
<1> DEFINE q == wait \div TicksPerSecond
<1>3. q \in Nat
  BY <1>2
<1> HIDE DEF q
<1>4. (q + 1) * TicksPerSecond \in Nat
  BY <1>1, <1>3
<1> QED BY <1>4 DEF RetryAfter, q

LEMMA CallTyped ==
    ASSUME TypeOK, NEW t \in Threads, call[t] # NoCall
    PROVE  call[t].key \in Addresses /\ call[t].now \in Nat
BY DEF TypeOK

LEMMA InitBound == Init => BoundInv
BY LimiterAssumption, EmptySeq DEF Init, BoundInv, TypeOK, HeadInLog,
   Enabling, BucketBounded

\* The facts about one decision that every invariant needs: where the head
\* moves, and that the log is left alone or gets one entry at its end.
LEMMA Decision ==
    ASSUME BoundInv, NEW t \in Threads, Decide(t)
    PROVE  \E k \in Addresses, now \in Nat, h \in Nat :
              /\ call[t] = [key |-> k, now |-> now]
              /\ head[k] <= h /\ h <= Len(log[k])
              /\ \A i \in head[k] + 1 .. h : Expired(log[k][i], now)
              /\ head' = [head EXCEPT ![k] = h]
              /\ \/ UNCHANGED log
                 \/ /\ Len(log[k]) - h < max
                    /\ log' = [log EXCEPT ![k] = Append(log[k], now)]
              /\ call' = [call EXCEPT ![t] = NoCall]
              /\ UNCHANGED <<max, clock>>
<1> USE DEF BoundInv, TypeOK
<1>1. call[t] # NoCall /\ call[t] \in [key : Addresses, now : Nat]
  BY DEF Decide
<1>2. PICK h \in head[call[t].key] .. Len(log[call[t].key]) :
         /\ PrunedTo(call[t].key, call[t].now, h)
         /\ head' = [head EXCEPT ![call[t].key] = h]
         /\ \/ Refuse(t, call[t].key, call[t].now, h)
            \/ Allow(t, call[t].key, call[t].now, h)
  BY DEF Decide
<1>3. /\ call' = [call EXCEPT ![t] = NoCall]
      /\ UNCHANGED <<max, clock>>
  BY DEF Decide
<1> DEFINE k == call[t].key
           now == call[t].now
<1>4. k \in Addresses /\ now \in Nat /\ call[t] = [key |-> k, now |-> now]
  BY <1>1
<1>5. head[k] \in Nat /\ Len(log[k]) \in Nat
  BY <1>4
<1>6. h \in Nat /\ head[k] <= h /\ h <= Len(log[k])
  BY <1>2, <1>5
<1>7. \A i \in head[k] + 1 .. h : Expired(log[k][i], now)
  BY <1>2 DEF PrunedTo
<1>8. max \in Nat
  BY LimiterAssumption
<1>9. \/ UNCHANGED log
      \/ /\ Len(log[k]) - h < max
         /\ log' = [log EXCEPT ![k] = Append(log[k], now)]
  BY <1>2, <1>5, <1>6, <1>8 DEF Refuse, Allow, Full, Record
<1> HIDE DEF k, now
<1> QED BY <1>2, <1>3, <1>4, <1>6, <1>7, <1>9 DEF k, now

\* A decision answers the call and, if it refuses, makes a promise.
LEMMA DecisionAnswer ==
    ASSUME BoundInv, NEW t \in Threads, Decide(t)
    PROVE  /\ verdict' \in [Threads -> {"none", "allowed", "refused"}]
           /\ promise' \in [Addresses -> Nat \cup {NoPromise}]
<1> USE DEF BoundInv, TypeOK
<1>1. call[t].key \in Addresses /\ call[t].now \in Nat
  BY CallTyped DEF Decide
<1> DEFINE k == call[t].key
           now == call[t].now
<1>2. PICK h \in head[k] .. Len(log[k]) :
         PrunedTo(k, now, h) /\ (Refuse(t, k, now, h) \/ Allow(t, k, now, h))
  BY DEF Decide
<1> HIDE DEF k, now
<1>k. k \in Addresses /\ now \in Nat
  BY <1>1 DEF k, now
<1>3. CASE Allow(t, k, now, h)
  BY <1>3, <1>k DEF Allow
<1>4. CASE Refuse(t, k, now, h)
  <2>1. head[k] \in Nat /\ log[k] \in Seq(Nat) /\ Len(log[k]) \in Nat /\ max \in Nat
    BY <1>k, LimiterAssumption
  <2>2. h \in Nat /\ h <= Len(log[k])
    BY <1>2, <2>1
  <2>3. h + 1 \in 1 .. Len(log[k])
    <3>1. max > 0
      BY DEF Enabling, Decide
    <3>2. Len(log[k]) - h >= max
      BY <1>4 DEF Refuse, Full
    <3> QED BY <2>1, <2>2, <3>1, <3>2
  <2>4. log[k][h + 1] \in Nat
    BY <2>1, <2>3, ElementOfSeq
  <2> DEFINE left == log[k][h + 1] + Window - now
             wait == IF left > 0 THEN left ELSE 0
  <2>5. wait \in Nat
    BY <2>4, <1>k, LimiterAssumption
  <2>6. now + RetryAfter(wait) * TicksPerSecond \in Nat
    BY <2>5, <1>k, PromiseTyped
  <2>7. promise' = [promise EXCEPT ![k] = now + RetryAfter(wait) * TicksPerSecond]
    BY <1>4 DEF Refuse
  <2>8. verdict' = [verdict EXCEPT ![t] = "refused"]
    BY <1>4 DEF Refuse
  <2> HIDE DEF wait
  <2> QED BY <2>6, <2>7, <2>8
<1> QED BY <1>2, <1>3, <1>4

LEMMA StepBound ==
    ASSUME BoundInv, Next
    PROVE  BoundInv'
<1> USE DEF BoundInv, TypeOK, HeadInLog, Enabling, BucketBounded
<1>m. max \in Nat
  BY LimiterAssumption
<1>1. CASE Tick
  BY <1>1 DEF Tick
<1>2. ASSUME NEW t \in Threads, CheckDisabled(t) PROVE BoundInv'
  BY <1>2 DEF CheckDisabled
<1>3. ASSUME NEW t \in Threads, NEW k \in Addresses, ReadClock(t, k) PROVE BoundInv'
  BY <1>3 DEF ReadClock
<1>4. ASSUME NEW t \in Threads, Decide(t) PROVE BoundInv'
  <2>1. PICK k \in Addresses, now \in Nat, h \in Nat :
          /\ head[k] <= h /\ h <= Len(log[k])
          /\ head' = [head EXCEPT ![k] = h]
          /\ \/ UNCHANGED log
             \/ /\ Len(log[k]) - h < max
                /\ log' = [log EXCEPT ![k] = Append(log[k], now)]
          /\ call' = [call EXCEPT ![t] = NoCall]
          /\ UNCHANGED <<max, clock>>
    BY <1>4, Decision
  <2>2. /\ verdict' \in [Threads -> {"none", "allowed", "refused"}]
        /\ promise' \in [Addresses -> Nat \cup {NoPromise}]
    BY <1>4, DecisionAnswer
  <2>3. /\ Append(log[k], now) \in Seq(Nat)
        /\ Len(Append(log[k], now)) = Len(log[k]) + 1
    BY <2>1, AppendProperties
  <2>4. \A j \in Addresses : head[j] \in Nat /\ Len(log[j]) \in Nat
    OBVIOUS
  <2>5. TypeOK'
    BY <2>1, <2>2, <2>3
  <2>6. HeadInLog' /\ BucketBounded'
    BY <2>1, <2>3, <2>4, <1>m
  <2>7. Enabling'
    BY <2>1
  <2> QED BY <2>5, <2>6, <2>7
<1>5. ASSUME NEW ks \in SUBSET Addresses, Reset(ks) PROVE BoundInv'
  <2>1. << >> \in Seq(Nat) /\ Len(<< >>) = 0
    BY EmptySeq
  <2>2. TypeOK'
    BY <1>5, <2>1 DEF Reset
  <2>3. HeadInLog' /\ BucketBounded'
    BY <1>5, <2>1, <1>m DEF Reset
  <2>4. Enabling'
    BY <1>5 DEF Reset
  <2> QED BY <2>2, <2>3, <2>4
<1> QED BY <1>1, <1>2, <1>3, <1>4, <1>5 DEF Next

LEMMA BoundInvariance == Spec => []BoundInv
<1>1. BoundInv /\ UNCHANGED vars => BoundInv'
  BY DEF vars, BoundInv, TypeOK, HeadInLog, Enabling, BucketBounded
<1>2. BoundInv /\ [Next]_vars => BoundInv'
  BY <1>1, StepBound
<1> QED BY InitBound, <1>2, PTL DEF Spec

\* Every variable keeps its type, whatever the threads do.
THEOREM TypeCorrect == Spec => []TypeOK
BY BoundInvariance, PTL DEF BoundInv

\* No bucket ever holds more than max entries, however many threads race
\* between reading the clock and taking the lock.
THEOREM Bounded == Spec => []BucketBounded
BY BoundInvariance, PTL DEF BoundInv

-----------------------------------------------------------------------------
\* The order of a bucket and the window bound, with one caller.

\* The server calls check from its event loop only.
SingleCaller == \A t, u \in Threads : t = u

\* "Oldest at index 0" (rate_limit.py:48): the entries stand in the order of
\* their times, which pruning from the left and the Retry-After rely on.
OldestFirst ==
    \A k \in Addresses : \A i, j \in 1 .. Len(log[k]) :
        i < j => log[k][i] <= log[k][j]

\* No entry lies ahead of the clock or of a call that is about to be decided.
PastOnly ==
    /\ \A k \in Addresses : \A i \in 1 .. Len(log[k]) : log[k][i] <= clock
    /\ \A t \in Threads : call[t] # NoCall =>
          /\ call[t].now <= clock
          /\ \A i \in 1 .. Len(log[call[t].key]) : log[call[t].key][i] <= call[t].now

\* What was popped had expired, and stays expired.
PoppedExpired ==
    /\ \A k \in Addresses : \A i \in 1 .. head[k] : Expired(log[k][i], clock)
    /\ \A t \in Threads : call[t] # NoCall =>
          \A i \in 1 .. head[call[t].key] : Expired(log[call[t].key][i], call[t].now)

\* max entries further on, the window that an entry opened is over: this is
\* what makes the window bound inductive.
Gaps ==
    \A k \in Addresses : \A i \in 1 .. Len(log[k]) - max :
        Expired(log[k][i], log[k][i + max])

FlowInv == OldestFirst /\ PastOnly /\ PoppedExpired /\ Gaps

LEMMA InitFlow == Init => FlowInv
<1> SUFFICES ASSUME Init PROVE FlowInv
  OBVIOUS
<1>1. \A k \in Addresses : Len(log[k]) = 0 /\ head[k] = 0
  BY EmptySeq DEF Init
<1>2. max \in Nat /\ \A t \in Threads : call[t] = NoCall
  BY LimiterAssumption DEF Init
<1> QED BY <1>1, <1>2 DEF FlowInv, OldestFirst, PastOnly, PoppedExpired, Gaps

\* Every entry is a time.
LEMMA EntryTyped ==
    ASSUME TypeOK, NEW k \in Addresses
    PROVE  /\ log[k] \in Seq(Nat) /\ Len(log[k]) \in Nat /\ head[k] \in Nat
           /\ \A i \in 1 .. Len(log[k]) : log[k][i] \in Nat
BY ElementOfSeq DEF TypeOK

\* Steps that leave the logs alone keep what is said of the logs.
LEMMA TickFlow ==
    ASSUME BoundInv, FlowInv, Tick
    PROVE  FlowInv'
<1> USE DEF Tick, BoundInv
<1>0. Window \in Nat /\ max \in Nat /\ clock \in Nat
  BY LimiterAssumption DEF TypeOK
<1>1. OldestFirst' /\ Gaps'
  BY DEF FlowInv, OldestFirst, Gaps
<1>2. PastOnly'
  <2>1. \A k \in Addresses : \A i \in 1 .. Len(log[k]) : log[k][i] <= clock + 1
    BY <1>0, EntryTyped DEF FlowInv, PastOnly
  <2>2. \A t \in Threads : call[t] # NoCall => call[t].now <= clock + 1
    BY <1>0, CallTyped DEF FlowInv, PastOnly
  <2> QED BY <2>1, <2>2 DEF FlowInv, PastOnly
<1>3. PoppedExpired'
  <2>1. \A k \in Addresses : \A i \in 1 .. head[k] : Expired(log[k][i], clock + 1)
    BY <1>0, EntryTyped DEF FlowInv, PoppedExpired, Expired, HeadInLog
  <2> QED BY <2>1 DEF FlowInv, PoppedExpired
<1> QED BY <1>1, <1>2, <1>3 DEF FlowInv

\* A call reads the clock: everything in the log lies behind it.
LEMMA ReadFlow ==
    ASSUME BoundInv, FlowInv, NEW t \in Threads, NEW k \in Addresses, ReadClock(t, k)
    PROVE  FlowInv'
<1>0. clock \in Nat /\ call \in [Threads -> [key : Addresses, now : Nat] \cup {NoCall}]
  BY DEF BoundInv, TypeOK
<1>1. /\ call' = [call EXCEPT ![t] = [key |-> k, now |-> clock]]
      /\ UNCHANGED <<max, clock, log, head>>
  BY DEF ReadClock
<1>2. OldestFirst' /\ Gaps'
  BY <1>1 DEF FlowInv, OldestFirst, Gaps
<1>3. PastOnly'
  BY <1>0, <1>1 DEF FlowInv, PastOnly
<1>4. PoppedExpired'
  BY <1>0, <1>1 DEF FlowInv, PoppedExpired
<1> QED BY <1>2, <1>3, <1>4 DEF FlowInv

\* The decision of the only pending call.
LEMMA DecideFlow ==
    ASSUME SingleCaller, BoundInv, FlowInv, NEW t \in Threads, Decide(t)
    PROVE  FlowInv'
<1>0. Window \in Nat /\ max \in Nat /\ clock \in Nat
  BY LimiterAssumption DEF BoundInv, TypeOK
<1>1. PICK k \in Addresses, now \in Nat, h \in Nat :
        /\ call[t] = [key |-> k, now |-> now]
        /\ head[k] <= h /\ h <= Len(log[k])
        /\ \A i \in head[k] + 1 .. h : Expired(log[k][i], now)
        /\ head' = [head EXCEPT ![k] = h]
        /\ \/ UNCHANGED log
           \/ /\ Len(log[k]) - h < max
              /\ log' = [log EXCEPT ![k] = Append(log[k], now)]
        /\ call' = [call EXCEPT ![t] = NoCall]
        /\ UNCHANGED <<max, clock>>
  BY Decision
<1>2. call[t] # NoCall
  BY DEF Decide
<1>3. now <= clock /\ \A i \in 1 .. Len(log[k]) : log[k][i] <= now
  BY <1>1, <1>2 DEF FlowInv, PastOnly
<1>4. \A i \in 1 .. h : Expired(log[k][i], now)
  <2>1. \A i \in 1 .. head[k] : Expired(log[k][i], now)
    BY <1>1, <1>2 DEF FlowInv, PoppedExpired
  <2>2. head[k] \in Nat
    BY EntryTyped DEF BoundInv
  <2> QED BY <1>1, <2>1, <2>2
<1>5. \A u \in Threads : call'[u] = NoCall
  BY <1>1 DEF SingleCaller, BoundInv, TypeOK
<1>6. /\ log \in [Addresses -> Seq(Nat)] /\ head \in [Addresses -> Nat]
      /\ Len(log[k]) \in Nat
      /\ \A i \in 1 .. Len(log[k]) : log[k][i] \in Nat
  BY EntryTyped DEF BoundInv, TypeOK
<1>7. \A j \in Addresses \ {k} : log'[j] = log[j] /\ head'[j] = head[j]
  BY <1>1, <1>6
<1>8. CASE UNCHANGED log
  <2>1. OldestFirst' /\ Gaps' /\ PastOnly'
    BY <1>1, <1>5, <1>8 DEF FlowInv, OldestFirst, Gaps, PastOnly
  <2>2. \A i \in 1 .. h : Expired(log[k][i], clock)
    BY <1>0, <1>1, <1>3, <1>4, <1>6 DEF Expired
  <2>3. PoppedExpired'
    BY <1>1, <1>5, <1>6, <1>7, <1>8, <2>2 DEF FlowInv, PoppedExpired
  <2> QED BY <2>1, <2>3 DEF FlowInv
<1>9. CASE /\ Len(log[k]) - h < max
           /\ log' = [log EXCEPT ![k] = Append(log[k], now)]
  <2> DEFINE n == Len(log[k])
             new == log'[k]
  <2>1. new = Append(log[k], now)
    BY <1>6, <1>9
  <2>2. /\ Len(new) = n + 1 /\ new[n + 1] = now
        /\ \A i \in 1 .. n : new[i] = log[k][i]
    BY <2>1, <1>6, <1>1, AppendProperties
  <2>a. /\ n \in Nat /\ h <= n /\ n - h < max
        /\ \A i \in 1 .. n : log[k][i] \in Nat /\ log[k][i] <= now
        /\ \A i, j \in 1 .. n : i < j => log[k][i] <= log[k][j]
        /\ \A i \in 1 .. n - max : Expired(log[k][i], log[k][i + max])
    BY <1>1, <1>3, <1>6, <1>9 DEF FlowInv, OldestFirst, Gaps
  <2> HIDE DEF n, new
  <2>3. \A i, j \in 1 .. Len(new) : i < j => new[i] <= new[j]
    <3> SUFFICES ASSUME NEW i \in 1 .. n + 1, NEW j \in 1 .. n + 1, i < j
                 PROVE  new[i] <= new[j]
      BY <2>2
    <3>1. i \in 1 .. n /\ (j \in 1 .. n \/ j = n + 1)
      BY <2>a
    <3> QED BY <3>1, <2>2, <2>a
  <2>4. \A i \in 1 .. Len(new) : new[i] <= clock
    <3> SUFFICES ASSUME NEW i \in 1 .. n + 1 PROVE new[i] <= clock
      BY <2>2
    <3>1. i \in 1 .. n \/ i = n + 1
      BY <2>a
    <3> QED BY <3>1, <2>2, <2>a, <1>0, <1>3
  <2>5. \A i \in 1 .. h : Expired(new[i], clock)
    <3> SUFFICES ASSUME NEW i \in 1 .. h PROVE Expired(new[i], clock)
      OBVIOUS
    <3>1. i \in 1 .. n
      BY <2>a
    <3>2. log[k][i] + Window < now
      BY <1>4 DEF Expired
    <3> QED BY <3>1, <3>2, <2>2, <2>a, <1>0, <1>3 DEF Expired
  <2>6. \A i \in 1 .. Len(new) - max : Expired(new[i], new[i + max])
    <3>0. Len(new) - max = n + 1 - max
      BY <2>2, <2>a, <1>0
    <3> SUFFICES ASSUME NEW i \in 1 .. n + 1 - max
                 PROVE  Expired(new[i], new[i + max])
      BY <3>0
    <3>1. CASE i \in 1 .. n - max
      <4>1. i \in 1 .. n /\ i + max \in 1 .. n
        BY <3>1, <1>0, <2>a
      <4>2. Expired(log[k][i], log[k][i + max])
        BY <3>1, <2>a
      <4> QED BY <4>1, <4>2, <2>2
    <3>2. CASE i = n + 1 - max
      <4>1. i \in 1 .. h /\ i \in 1 .. n /\ i + max = n + 1
        BY <3>2, <1>0, <2>a
      <4> QED BY <4>1, <2>2, <1>4
    <3>3. i \in 1 .. n - max \/ i = n + 1 - max
      BY <1>0, <2>a
    <3> QED BY <3>1, <3>2, <3>3
  <2>7. head'[k] = h
    BY <1>1, <1>6
  <2>8. OldestFirst'
    BY <2>3, <1>7 DEF new, FlowInv, OldestFirst
  <2>9. PastOnly'
    BY <2>4, <1>1, <1>5, <1>7 DEF new, FlowInv, PastOnly
  <2>10. PoppedExpired'
    BY <2>5, <2>7, <1>1, <1>5, <1>7 DEF new, FlowInv, PoppedExpired
  <2>11. Gaps'
    BY <2>6, <1>1, <1>7 DEF new, FlowInv, Gaps
  <2> QED BY <2>8, <2>9, <2>10, <2>11 DEF FlowInv
<1> QED BY <1>1, <1>8, <1>9

\* An emptied bucket satisfies everything.
LEMMA ResetFlow ==
    ASSUME BoundInv, FlowInv, NEW ks \in SUBSET Addresses, Reset(ks)
    PROVE  FlowInv'
<1>0. max \in Nat /\ Len(<< >>) = 0
  BY LimiterAssumption, EmptySeq DEF BoundInv, TypeOK
<1>1. \A k \in Addresses :
         \/ Len(log'[k]) = 0 /\ head'[k] = 0
         \/ log'[k] = log[k] /\ head'[k] = head[k]
  BY <1>0 DEF Reset
<1>2. \A t \in Threads : call[t] # NoCall => call[t].key \in Addresses
  BY CallTyped DEF BoundInv
<1>3. UNCHANGED <<max, clock, call>>
  BY DEF Reset
<1>4. OldestFirst'
  BY <1>1 DEF FlowInv, OldestFirst
<1>5. PastOnly'
  BY <1>1, <1>2, <1>3 DEF FlowInv, PastOnly
<1>6. PoppedExpired'
  BY <1>1, <1>2, <1>3 DEF FlowInv, PoppedExpired
<1>7. Gaps'
  BY <1>0, <1>1, <1>3 DEF FlowInv, Gaps
<1> QED BY <1>4, <1>5, <1>6, <1>7 DEF FlowInv

LEMMA FlowInvariance == ASSUME SingleCaller PROVE Spec => [](BoundInv /\ FlowInv)
<1>1. BoundInv /\ FlowInv /\ [Next]_vars => FlowInv'
  <2> SUFFICES ASSUME BoundInv, FlowInv, [Next]_vars PROVE FlowInv'
    OBVIOUS
  <2>1. ASSUME NEW t \in Threads, CheckDisabled(t) PROVE FlowInv'
    BY <2>1 DEF CheckDisabled, FlowInv, OldestFirst, PastOnly, PoppedExpired, Gaps
  <2>2. ASSUME UNCHANGED vars PROVE FlowInv'
    BY <2>2 DEF vars, FlowInv, OldestFirst, PastOnly, PoppedExpired, Gaps
  <2> QED
    BY <2>1, <2>2, TickFlow, ReadFlow, DecideFlow, ResetFlow DEF Next
<1> QED BY <1>1, InitFlow, BoundInvariance, PTL DEF Spec

\* With one caller a bucket's entries stand in the order of their times.
THEOREM Ordered == ASSUME SingleCaller PROVE Spec => []OldestFirst
BY FlowInvariance, PTL DEF FlowInv

\* max entries ahead an entry's window is over, so fewer than max follow it
\* inside the window.
LEMMA GapsBound ==
    ASSUME BoundInv, FlowInv
    PROVE  WindowBound
<1> SUFFICES ASSUME NEW k \in Addresses, NEW i \in 1 .. Len(log[k])
             PROVE  Cardinality(InWindow(k, i)) <= max
  BY DEF WindowBound
<1>1. /\ Window \in Nat /\ max \in Nat /\ Len(log[k]) \in Nat
      /\ \A j \in 1 .. Len(log[k]) : log[k][j] \in Nat
  BY LimiterAssumption, EntryTyped DEF BoundInv, TypeOK
<1>2. InWindow(k, i) \subseteq i .. i + max - 1
  <2> SUFFICES ASSUME NEW j \in i .. Len(log[k]), j >= i + max,
                      log[k][j] <= log[k][i] + Window
               PROVE  FALSE
    BY <1>1 DEF InWindow
  <2>1. i \in 1 .. Len(log[k]) - max /\ i + max \in 1 .. Len(log[k]) /\ j \in 1 .. Len(log[k])
    <3> DEFINE n == Len(log[k])
    <3>1. n \in Nat /\ max \in Nat /\ i \in 1 .. n /\ j \in i .. n /\ j >= i + max
      BY <1>1
    <3> HIDE DEF n
    <3>2. i \in 1 .. n - max /\ i + max \in 1 .. n /\ j \in 1 .. n
      BY <3>1
    <3> QED  BY <3>2 DEF n
  <2>2. log[k][i] + Window < log[k][i + max]
    BY <2>1 DEF FlowInv, Gaps, Expired
  <2>3. log[k][i + max] <= log[k][j]
    BY <2>1, <1>1 DEF FlowInv, OldestFirst
  <2> QED BY <2>1, <2>2, <2>3, <1>1
<1>3. IsFiniteSet(i .. i + max - 1) /\ Cardinality(i .. i + max - 1) = max
  <2> DEFINE b == i + max - 1
  <2>1. i \in Int /\ b \in Int /\ b - i + 1 = max /\ (i > b => max = 0)
    BY <1>1
  <2> HIDE DEF b
  <2>2. IsFiniteSet(i .. b) /\ Cardinality(i .. b) = max
    BY <2>1, FS_Interval
  <2> QED BY <2>2 DEF b
<1> QED BY <1>2, <1>3, FS_Subset

\* The limiter's promise: no window of window_seconds holds more than
\* max_calls allowed calls of one address.
THEOREM WindowSafe == ASSUME SingleCaller PROVE Spec => []WindowBound
BY FlowInvariance, GapsBound, PTL

-----------------------------------------------------------------------------
\* The Retry-After header, with any number of threads.

\* A whole number of seconds up to a second beyond the wait, and not before it.
LEMMA RoundedUp ==
    ASSUME NEW wait \in Nat
    PROVE  /\ wait < RetryAfter(wait) * TicksPerSecond
           /\ RetryAfter(wait) * TicksPerSecond <= wait + TicksPerSecond
<1>1. TicksPerSecond \in Nat \ {0}
  BY LimiterAssumption
<1> DEFINE q == wait \div TicksPerSecond
<1>2. q \in Nat /\ wait = (q * TicksPerSecond) + (wait % TicksPerSecond)
      /\ wait % TicksPerSecond \in 0 .. TicksPerSecond - 1
  BY <1>1
<1> HIDE DEF q
<1>3. (q + 1) * TicksPerSecond = q * TicksPerSecond + TicksPerSecond
      /\ q * TicksPerSecond \in Nat
  BY <1>1, <1>2
<1> QED  BY <1>1, <1>2, <1>3 DEF RetryAfter, q

\* The promise of a 429 lies behind the moment at which the oldest counted
\* call leaves the window, by a second at most.
PromiseInv ==
    \A k \in Addresses :
        promise[k] # NoPromise =>
            /\ head[k] < Len(log[k])
            /\ log[k][head[k] + 1] + Window < promise[k]
            /\ promise[k] <= log[k][head[k] + 1] + Window + TicksPerSecond

\* A decision makes its promise with the bucket it has just pruned.
LEMMA DecidePromise ==
    ASSUME BoundInv, PromiseInv, NEW t \in Threads, Decide(t)
    PROVE  PromiseInv'
<1> DEFINE k == call[t].key
           now == call[t].now
<1>1. k \in Addresses /\ now \in Nat
  BY CallTyped DEF Decide, BoundInv
<1>2. PICK h \in head[k] .. Len(log[k]) :
        /\ PrunedTo(k, now, h) /\ head' = [head EXCEPT ![k] = h]
        /\ Refuse(t, k, now, h) \/ Allow(t, k, now, h)
  BY DEF Decide
<1>m. max \in Nat /\ max > 0
  BY LimiterAssumption DEF BoundInv, TypeOK, Enabling, Decide
<1> HIDE DEF k, now
<1>3. /\ log[k] \in Seq(Nat) /\ Len(log[k]) \in Nat /\ head[k] \in Nat
      /\ \A i \in 1 .. Len(log[k]) : log[k][i] \in Nat
  BY <1>1, EntryTyped DEF BoundInv
<1>4. CASE Refuse(t, k, now, h)
  <2>1. h \in Nat /\ h < Len(log[k]) /\ h + 1 \in 1 .. Len(log[k])
    BY <1>2, <1>3, <1>4, <1>m DEF Refuse, Full
  <2> DEFINE oldest == log[k][h + 1]
             wait == oldest + Window - now
  <2>2. oldest \in Nat /\ wait \in Nat
    <3>1. oldest \in Nat /\ Window \in Nat
      BY <1>3, <2>1, LimiterAssumption
    <3>2. ~(oldest + Window < now)
      BY <1>2, <2>1 DEF PrunedTo, Expired
    <3> QED  BY <1>1, <3>1, <3>2
  <2>3. promise' = [promise EXCEPT ![k] = now + RetryAfter(wait) * TicksPerSecond]
    <3>1. (IF wait > 0 THEN wait ELSE 0) = wait
      BY <2>2
    <3> QED  BY <1>4, <3>1 DEF Refuse
  <2>4. /\ promise'[k] = now + RetryAfter(wait) * TicksPerSecond
        /\ head'[k] = h /\ UNCHANGED log
        /\ \A j \in Addresses \ {k} : promise'[j] = promise[j] /\ head'[j] = head[j]
    BY <1>1, <1>2, <1>4, <2>3 DEF Refuse, BoundInv, TypeOK
  <2> DEFINE after == RetryAfter(wait) * TicksPerSecond
  <2>5. wait < after /\ after <= wait + TicksPerSecond /\ after \in Nat
    <3>1. wait < after /\ after <= wait + TicksPerSecond
      BY <2>2, RoundedUp
    <3>2. RetryAfter(wait) \in Nat /\ TicksPerSecond \in Nat
      BY <2>2, LimiterAssumption DEF RetryAfter
    <3> QED  BY <3>1, <3>2
  <2>6. promise'[k] = now + after /\ wait = oldest + Window - now
    BY <2>4
  <2> HIDE DEF after, wait, oldest
  <2>7. oldest + Window < promise'[k] /\ promise'[k] <= oldest + Window + TicksPerSecond
    BY <1>1, <2>2, <2>5, <2>6, LimiterAssumption
  <2> QED  BY <2>1, <2>4, <2>7 DEF PromiseInv, oldest
<1>5. CASE Allow(t, k, now, h)
  <2>1. /\ promise' = [promise EXCEPT ![k] = NoPromise]
        /\ log' = [log EXCEPT ![k] = Append(log[k], now)]
    BY <1>5 DEF Allow, Record
  <2>2. /\ promise'[k] = NoPromise
        /\ \A j \in Addresses \ {k} :
              promise'[j] = promise[j] /\ head'[j] = head[j] /\ log'[j] = log[j]
    BY <1>1, <1>2, <2>1 DEF BoundInv, TypeOK
  <2> QED  BY <2>2 DEF PromiseInv
<1> QED  BY <1>2, <1>4, <1>5

\* The promises hold in every behaviour.
LEMMA PromiseInvariance == Spec => [](BoundInv /\ PromiseInv)
<1>1. Init => PromiseInv
  BY DEF Init, PromiseInv
<1>2. BoundInv /\ PromiseInv /\ [Next]_vars => PromiseInv'
  <2> SUFFICES ASSUME BoundInv, PromiseInv, [Next]_vars PROVE PromiseInv'
    OBVIOUS
  <2>1. ASSUME NEW ks \in SUBSET Addresses, Reset(ks) PROVE PromiseInv'
    BY <2>1 DEF Reset, PromiseInv
  <2>2. CASE UNCHANGED <<log, head, promise>>
    BY <2>2 DEF PromiseInv
  <2> QED  BY <2>1, <2>2, DecidePromise DEF Next, vars, Tick, CheckDisabled, ReadClock
<1> QED  BY <1>1, <1>2, BoundInvariance, PTL DEF Spec

\* A 429 never asks for more than a second beyond the moment at which the
\* oldest counted call leaves the window, whatever window_seconds is.
THEOREM Tight == Spec => []RetryAfterTight
<1>1. PromiseInv => RetryAfterTight
  BY DEF PromiseInv, RetryAfterTight
<1> QED  BY <1>1, PromiseInvariance, PTL

\* A client that waits as long as its 429 told it to is let in, unless another
\* call from its address was allowed meanwhile.
THEOREM Kept == Spec => RetryAfterKept
<1> DEFINE Heeded(t) ==
        /\ call[t] # NoCall /\ call'[t] = NoCall
        /\ promise[call[t].key] # NoPromise
        /\ call[t].now >= promise[call[t].key]
<1>1. ASSUME BoundInv, PromiseInv, Next, NEW t \in Threads, Heeded(t)
      PROVE  verdict'[t] = "allowed"
  <2>1. Decide(t)
    <3>1. ASSUME NEW u \in Threads, NEW k \in Addresses, ReadClock(u, k) PROVE FALSE
      BY <1>1, <3>1, LimiterAssumption DEF ReadClock, BoundInv, TypeOK
    <3>2. ASSUME NEW u \in Threads, Decide(u), u # t PROVE FALSE
      BY <1>1, <3>2 DEF Decide, BoundInv, TypeOK
    <3>3. call' # call
      BY <1>1
    <3> QED  BY <1>1, <3>1, <3>2, <3>3 DEF Next, Tick, CheckDisabled, Reset
  <2> DEFINE k == call[t].key
             now == call[t].now
  <2>2. k \in Addresses /\ now \in Nat
    BY <1>1, <2>1, CallTyped DEF Decide, BoundInv
  <2>3. PICK h \in head[k] .. Len(log[k]) :
          PrunedTo(k, now, h) /\ (Refuse(t, k, now, h) \/ Allow(t, k, now, h))
    BY <2>1 DEF Decide
  <2>4. promise[k] # NoPromise /\ now >= promise[k]
    BY <1>1
  <2> HIDE DEF k, now
  <2>5. /\ Len(log[k]) \in Nat /\ head[k] \in Nat /\ max \in Nat /\ Window \in Nat
        /\ \A i \in 1 .. Len(log[k]) : log[k][i] \in Nat
    BY <1>1, <2>2, EntryTyped, LimiterAssumption DEF BoundInv, TypeOK
  <2>6. promise[k] \in Nat /\ head[k] + 1 \in 1 .. Len(log[k])
        /\ log[k][head[k] + 1] + Window < promise[k]
    <3>1. /\ promise[k] \in Nat /\ head[k] < Len(log[k])
          /\ log[k][head[k] + 1] + Window < promise[k]
      BY <1>1, <2>2, <2>4 DEF BoundInv, TypeOK, PromiseInv
    <3> QED  BY <2>5, <3>1
  <2>7. h # head[k]
    BY <2>2, <2>3, <2>4, <2>5, <2>6 DEF PrunedTo, Expired
  <2>8. Len(log[k]) - h < max
    BY <1>1, <2>2, <2>3, <2>5, <2>7 DEF BoundInv, BucketBounded
  <2>9. Allow(t, k, now, h)
    BY <2>3, <2>5, <2>8 DEF Refuse, Full
  <2> QED  BY <1>1, <2>9 DEF Allow, BoundInv, TypeOK
<1>2. BoundInv /\ PromiseInv /\ [Next]_vars
        => [\A t \in Threads : Heeded(t) => verdict'[t] = "allowed"]_vars
  BY <1>1
<1> QED  BY <1>2, PromiseInvariance, PTL DEF Spec, RetryAfterKept
=============================================================================
