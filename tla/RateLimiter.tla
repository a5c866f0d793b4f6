---------------------------- MODULE RateLimiter ----------------------------
(***************************************************************************)
(* auth/rate_limit.py: SlidingWindowLimiter, and the Retry-After header    *)
(* the login route derives from it (auth/routes.py).                       *)
(*                                                                         *)
(* A call of check reads the clock first and takes the lock afterwards, so *)
(* with several threads time passes, and others decide, in between.  The   *)
(* server calls it from its event loop alone: one member of Threads.       *)
(*                                                                         *)
(* The deque of a key is the part of log[key] behind its first head[key]   *)
(* entries: append extends the log, popleft moves the head, and what was   *)
(* popped stays readable for the properties.  Time counts in ticks of      *)
(* 1/TicksPerSecond s.                                                     *)
(***************************************************************************)
EXTENDS Integers, Sequences, FiniteSets

CONSTANTS
    Addresses,       \* the keys: client IPs
    Threads,         \* concurrent callers of check
    Limits,          \* the max_calls values a limiter is built with
    Window,          \* window_seconds, in ticks
    TicksPerSecond,
    MaxTime,         \* bound: the clock stops here
    NoCall, NoPromise

ASSUME LimiterAssumption ==
    /\ Limits \subseteq Nat
    /\ Window \in Nat \ {0}
    /\ TicksPerSecond \in Nat \ {0}
    /\ MaxTime \in Nat
    /\ NoCall \notin [key : Addresses, now : Nat]
    /\ NoPromise \notin Nat

VARIABLES
    max,      \* self._max, fixed when the limiter is built
    clock,    \* time.monotonic()
    log,      \* self._buckets, with the popped entries kept
    head,     \* how many entries of log[key] have been popped
    call,     \* a thread's pending check: its key and the time it read
    verdict,  \* what a thread's last check returned
    promise   \* history: when the last 429 of a key invited it to come back

vars == <<max, clock, log, head, call, verdict, promise>>

-----------------------------------------------------------------------------
\* Mutant: an entry exactly Window old leaves too.
ExpiredInclusive(entry, now) == entry + Window <= now

\* bucket[0] < now - window
Expired(entry, now) == entry + Window < now

\* The while loop stops at position h: all before it expired, the one behind not.
PrunedTo(k, now, h) ==
    /\ h \in head[k] .. Len(log[k])
    /\ \A i \in head[k] + 1 .. h : Expired(log[k][i], now)
    /\ h < Len(log[k]) => ~Expired(log[k][h + 1], now)

\* Mutant: one call too many.
FullLate(size) == size > max
\* len(bucket) >= self._max
Full(size) == size >= max

\* Mutant: the cutoff recorded in place of now.
RecordCutoff(entries, now) == Append(entries, now - Window)
\* bucket.append(now)
Record(entries, now) == Append(entries, now)

\* Mutants: truncated instead of rounded up; the whole window every time.
RetryAfterTruncated(wait) ==
    IF wait \div TicksPerSecond > 1 THEN wait \div TicksPerSecond ELSE 1
RetryAfterWindow(wait) == Window \div TicksPerSecond + 1
\* max(1, int(retry_after) + 1), for a wait that is never negative.
RetryAfter(wait) == wait \div TicksPerSecond + 1

-----------------------------------------------------------------------------
Init ==
    /\ max \in Limits
    /\ clock = 0
    /\ log = [k \in Addresses |-> << >>]
    /\ head = [k \in Addresses |-> 0]
    /\ call = [t \in Threads |-> NoCall]
    /\ verdict = [t \in Threads |-> "none"]
    /\ promise = [k \in Addresses |-> NoPromise]

Tick ==
    /\ clock < MaxTime
    /\ clock' = clock + 1
    /\ UNCHANGED <<max, log, head, call, verdict, promise>>

\* max_calls = 0 switches the limiter off: always allowed, nothing recorded.
CheckDisabled(t) ==
    /\ call[t] = NoCall
    /\ max = 0
    /\ verdict' = [verdict EXCEPT ![t] = "allowed"]
    /\ UNCHANGED <<max, clock, log, head, call, promise>>

\* now = self._time(), before the lock.
ReadClock(t, k) ==
    /\ call[t] = NoCall
    /\ max > 0
    /\ call' = [call EXCEPT ![t] = [key |-> k, now |-> clock]]
    /\ verdict' = [verdict EXCEPT ![t] = "none"]
    /\ UNCHANGED <<max, clock, log, head, promise>>

\* Under the lock: prune, then refuse without recording or record and allow.
Refuse(t, k, now, h) ==
    /\ Full(Len(log[k]) - h)
    /\ verdict' = [verdict EXCEPT ![t] = "refused"]
    /\ LET oldest == log[k][h + 1]
           left   == oldest + Window - now
           wait   == IF left > 0 THEN left ELSE 0
       IN  promise' = [promise EXCEPT ![k] = now + RetryAfter(wait) * TicksPerSecond]
    /\ UNCHANGED log

Allow(t, k, now, h) ==
    /\ ~Full(Len(log[k]) - h)
    /\ verdict' = [verdict EXCEPT ![t] = "allowed"]
    /\ log' = [log EXCEPT ![k] = Record(log[k], now)]
    /\ promise' = [promise EXCEPT ![k] = NoPromise]

Decide(t) ==
    /\ call[t] # NoCall
    /\ LET k == call[t].key
           now == call[t].now
       IN  \E h \in head[k] .. Len(log[k]) :
              /\ PrunedTo(k, now, h)
              /\ head' = [head EXCEPT ![k] = h]
              /\ Refuse(t, k, now, h) \/ Allow(t, k, now, h)
    /\ call' = [call EXCEPT ![t] = NoCall]
    /\ UNCHANGED <<max, clock>>

\* reset(key), or reset() for every key at once: the buckets start afresh.
Reset(ks) ==
    /\ log' = [k \in Addresses |-> IF k \in ks THEN << >> ELSE log[k]]
    /\ head' = [k \in Addresses |-> IF k \in ks THEN 0 ELSE head[k]]
    /\ promise' = [k \in Addresses |-> IF k \in ks THEN NoPromise ELSE promise[k]]
    /\ UNCHANGED <<max, clock, call, verdict>>

Next ==
    \/ Tick
    \/ \E t \in Threads : CheckDisabled(t) \/ Decide(t)
    \/ \E t \in Threads, k \in Addresses : ReadClock(t, k)
    \/ Reset(Addresses)
    \/ \E k \in Addresses : Reset({k})

Spec == Init /\ [][Next]_vars

-----------------------------------------------------------------------------
TypeOK ==
    /\ max \in Limits
    /\ clock \in Nat
    /\ log \in [Addresses -> Seq(Nat)]
    /\ head \in [Addresses -> Nat]
    /\ call \in [Threads -> [key : Addresses, now : Nat] \cup {NoCall}]
    /\ verdict \in [Threads -> {"none", "allowed", "refused"}]
    /\ promise \in [Addresses -> Nat \cup {NoPromise}]

\* A key never has more than max entries waiting, so the memory of one key is
\* bounded however many threads call check (rate_limit.py:66).
BucketBounded == \A k \in Addresses : Len(log[k]) - head[k] <= max

\* The sliding window: counting from any allowed call, at most max of the
\* calls allowed for the same key, itself included, fall into the window that
\* it opens; so no window of that length holds more than max.
InWindow(k, i) ==
    {j \in i .. Len(log[k]) : log[k][j] >= log[k][i] /\ log[k][j] <= log[k][i] + Window}

WindowBound ==
    \A k \in Addresses : \A i \in 1 .. Len(log[k]) : Cardinality(InWindow(k, i)) <= max

\* A client that waits as long as its 429 told it to is let in, unless another
\* call from its address was allowed meanwhile: refused calls never prolong a
\* lock-out (routes.py:61, rate_limit.py:66-69).
RetryAfterKept ==
    [][\A t \in Threads :
          /\ call[t] # NoCall /\ call'[t] = NoCall
          /\ promise[call[t].key] # NoPromise
          /\ call[t].now >= promise[call[t].key]
          => verdict'[t] = "allowed"]_vars

\* ...and the 429 never asks for more than a second beyond the moment at which
\* the oldest counted call leaves the window.
RetryAfterTight ==
    \A k \in Addresses :
        promise[k] # NoPromise =>
            /\ head[k] < Len(log[k])
            /\ promise[k] <= log[k][head[k] + 1] + Window + TicksPerSecond
=============================================================================
