-------------------------- MODULE RequestLifecycle --------------------------
(***************************************************************************)
(* A request from its arrival to its answer: PerformanceMiddleware         *)
(* (server/middleware.py) around the endpoint, the gauge and the counters  *)
(* of MetricsCollector (server/metrics.py), and the connection pool that   *)
(* every endpoint and the readiness probe (server/health.py) share         *)
(* (core/engine.py).                                                       *)
(*                                                                         *)
(* What the endpoints do to the tables is in RowHandlers and Listing; here *)
(* a request is the connections its resolvers take and how it ends.  An    *)
(* endpoint is one resolver.  A GraphQL query has one per root field, and  *)
(* graphql-core runs them concurrently (asyncio.gather, 3.2): a request    *)
(* may hold a connection in one field and wait for another in the next.  A *)
(* GraphQL mutation runs its fields in turn, as one resolver that takes    *)
(* several connections one after the other.                                *)
(*                                                                         *)
(* A request may be cancelled at any await.  The pool is external: a       *)
(* connection is handed out while fewer than Capacity are, to any of those *)
(* waiting.                                                                *)
(***************************************************************************)
EXTENDS Naturals, FiniteSets

CONSTANTS
    Slots,          \* the requests in flight at a time
    MaxFields,      \* bound: root fields of a query
    MaxTurns,       \* bound: connections a mutation takes in turn
    Capacity,       \* DB_POOL_SIZE + DB_MAX_OVERFLOW
    PoolTimeout,    \* DB_POOL_TIMEOUT, in ticks
    ReadyTimeout,   \* the five seconds of the readiness probe, in ticks
    DbMayFail       \* may the database go away or a query fail?

ASSUME LifecycleAssumption ==
    /\ IsFiniteSet(Slots)
    /\ MaxFields \in Nat \ {0} /\ MaxTurns \in Nat \ {0}
    /\ Capacity \in Nat \ {0}
    /\ PoolTimeout \in Nat /\ ReadyTimeout \in Nat
    /\ DbMayFail \in BOOLEAN

VARIABLES
    pc,          \* where the request of a slot is
    kind,        \* what it asked for
    left,        \* how many connections its resolver has yet to take
    status,      \* the status its endpoint produced
    captured,    \* status_code of PerformanceMiddleware
    reply,       \* the status the client saw, 0 if none
    recorded,    \* the status the collector counted, 0 if none
    inProgress,  \* collector._in_progress
    at,          \* where a resolver is
    holds,       \* does it hold a connection?
    waited,      \* its running timer
    checkedOut,  \* connections out of the pool
    dbUp

request == <<pc, kind, left, status>>
account == <<captured, reply, recorded, inProgress>>
pool    == <<holds, checkedOut>>
vars    == <<request, account, at, waited, pool, dbUp>>

\* REST endpoints and the account routes; GraphQL queries and mutations; the
\* pages and /metrics, which use no connection; the probe.
Kinds == {"rest", "query", "mutation", "static", "ready"}

\* A resolver is named by the request it runs for and its place among the
\* fields of that request.
Resolvers == Slots \X (1 .. MaxFields)
Owner(r)  == r[1]

ResolversOf(s) == {r \in Resolvers : Owner(r) = s}
Active(s)      == {r \in ResolversOf(s) : at[r] # "off"}
Started(s, n)  == {r \in ResolversOf(s) : r[2] <= n}

\* How many resolvers run at once for a request ...
Fields(k) ==
    CASE k = "static" -> {0}
      [] k = "query"  -> 1 .. MaxFields
      [] OTHER        -> {1}

\* ... and how many connections one takes: a mutation one or two per field.
Turns(k) == IF k = "mutation" THEN 1 .. MaxTurns ELSE {1}

\* _EXCLUDED_PREFIXES: the probes bypass the middleware.
Measured(k) == k # "ready"

InFlight(s) == pc[s] # "idle"

\* A request may end before its resolvers do.
Busy(s) == InFlight(s) \/ Active(s) # {}

-----------------------------------------------------------------------------
\* Mutant: gives back a connection for each resolver, whether it has one or not.
ReleaseAlways(rs) ==
    /\ holds' = [r \in Resolvers |-> IF r \in rs THEN FALSE ELSE holds[r]]
    /\ checkedOut' = checkedOut - Cardinality(rs)

\* The async with of these resolvers ends, however it ends.
Release(rs) ==
    /\ holds' = [r \in Resolvers |-> IF r \in rs THEN FALSE ELSE holds[r]]
    /\ checkedOut' = checkedOut - Cardinality({r \in rs : holds[r]})

\* These resolvers have ended.
Off(rs) ==
    /\ at' = [r \in Resolvers |-> IF r \in rs THEN "off" ELSE at[r]]
    /\ waited' = [r \in Resolvers |-> IF r \in rs THEN 0 ELSE waited[r]]

\* The request is over: its locals are gone.
Forget(s) ==
    /\ pc' = [pc EXCEPT ![s] = "idle"]
    /\ kind' = [kind EXCEPT ![s] = "static"]
    /\ left' = [left EXCEPT ![s] = 0]
    /\ status' = [status EXCEPT ![s] = 200]

\* decrement_in_progress: never below 0.
Decremented(gauge) == IF gauge > 0 THEN gauge - 1 ELSE 0

\* Mutant: without the inner try/finally.
FinishUnguarded(s) ==
    /\ Forget(s)
    /\ \/ ~Measured(kind[s]) /\ UNCHANGED <<recorded, inProgress>>
       \/ /\ Measured(kind[s])
          /\ recorded' = [recorded EXCEPT ![s] = captured[s]]
          /\ inProgress' = inProgress - 1
       \/ Measured(kind[s]) /\ UNCHANGED <<recorded, inProgress>>

\* The finally of __call__: record what was captured, or fail to, and
\* decrement the gauge all the same.
Finish(s) ==
    /\ Forget(s)
    /\ \/ ~Measured(kind[s]) /\ UNCHANGED <<recorded, inProgress>>
       \/ /\ Measured(kind[s])
          /\ \/ recorded' = [recorded EXCEPT ![s] = captured[s]]
             \/ UNCHANGED recorded
          /\ inProgress' = Decremented(inProgress)

\* The endpoint is done: a response with status st is ready to go out.
Produce(s, st) ==
    /\ pc' = [pc EXCEPT ![s] = "reply"]
    /\ status' = [status EXCEPT ![s] = st]
    /\ left' = [left EXCEPT ![s] = 0]
    /\ UNCHANGED <<kind, reply, recorded, inProgress>>

\* The resolver's next connection is waited for, with a timer of its own.
NextTurn(r) ==
    /\ left[Owner(r)] > 1
    /\ left' = [left EXCEPT ![Owner(r)] = @ - 1]
    /\ at' = [at EXCEPT ![r] = "waiting"]
    /\ waited' = [waited EXCEPT ![r] = 0]
    /\ UNCHANGED <<pc, kind, status, reply, recorded, inProgress>>

\* The response is complete with the last resolver that it waits for.
Gathered(r) ==
    /\ Off({r})
    /\ \/ /\ pc[Owner(r)] = "run" /\ Active(Owner(r)) = {r}
          /\ Produce(Owner(r), 200)
       \/ /\ pc[Owner(r)] # "run" \/ Active(Owner(r)) # {r}
          /\ UNCHANGED <<request, reply, recorded, inProgress>>

\* A resolver is done with its connection.
Settle(r) == NextTurn(r) \/ (left[Owner(r)] <= 1 /\ Gathered(r))

\* A database error.  REST catches none: it passes through the middleware and
\* the client gets the server's 500.  The probe answers 503.  GraphQL reports
\* it in a 200 response: of a field that may be null at its place, else
\* instead of the data, at once, while the other fields run on.
Fail(r) ==
    \/ /\ pc[Owner(r)] = "run" /\ kind[Owner(r)] = "rest"
       /\ Off({r}) /\ Finish(Owner(r))
       /\ reply' = [reply EXCEPT ![Owner(r)] = 500]
    \/ /\ pc[Owner(r)] = "run" /\ kind[Owner(r)] = "ready"
       /\ Off({r}) /\ Produce(Owner(r), 503)
    \/ /\ pc[Owner(r)] = "run" /\ kind[Owner(r)] \in {"query", "mutation"}
       /\ Settle(r) \/ (Off({r}) /\ Produce(Owner(r), 200))
    \/ pc[Owner(r)] # "run" /\ Gathered(r)

-----------------------------------------------------------------------------
\* Mutant: status_code = 200 until told otherwise.
ArriveOptimistic(s, k) ==
    /\ ~Busy(s)
    /\ \E n \in Fields(k), m \in Turns(k) :
          /\ at' = [r \in Resolvers |-> IF r \in Started(s, n) THEN "waiting" ELSE at[r]]
          /\ left' = [left EXCEPT ![s] = m]
          /\ pc' = [pc EXCEPT ![s] = IF n = 0 THEN "reply" ELSE "run"]
    /\ kind' = [kind EXCEPT ![s] = k]
    /\ captured' = [captured EXCEPT ![s] = 200]
    /\ reply' = [reply EXCEPT ![s] = 0]
    /\ recorded' = [recorded EXCEPT ![s] = 0]
    /\ inProgress' = IF Measured(k) THEN inProgress + 1 ELSE inProgress
    /\ UNCHANGED <<status, waited, pool, dbUp>>

\* The middleware counts the request in, then calls the endpoint.
Arrive(s, k) ==
    /\ ~Busy(s)
    /\ \E n \in Fields(k), m \in Turns(k) :
          /\ at' = [r \in Resolvers |-> IF r \in Started(s, n) THEN "waiting" ELSE at[r]]
          /\ left' = [left EXCEPT ![s] = m]
          /\ pc' = [pc EXCEPT ![s] = IF n = 0 THEN "reply" ELSE "run"]
    /\ kind' = [kind EXCEPT ![s] = k]
    /\ captured' = [captured EXCEPT ![s] = 500]
    /\ reply' = [reply EXCEPT ![s] = 0]
    /\ recorded' = [recorded EXCEPT ![s] = 0]
    /\ inProgress' = IF Measured(k) THEN inProgress + 1 ELSE inProgress
    /\ UNCHANGED <<status, waited, pool, dbUp>>

\* engine.connect() or begin(): a connection, new or from the pool, tested
\* by pool_pre_ping.
Connect(r) ==
    /\ at[r] = "waiting"
    /\ checkedOut < Capacity
    /\ \/ /\ dbUp
          /\ holds' = [holds EXCEPT ![r] = TRUE]
          /\ checkedOut' = checkedOut + 1
          /\ at' = [at EXCEPT ![r] = "query"]
          /\ UNCHANGED <<request, reply, recorded, inProgress, waited>>
       \/ ~dbUp /\ Fail(r) /\ UNCHANGED pool
    /\ UNCHANGED <<captured, dbUp>>

\* Mutant: tries again instead of giving up.
GiveUpNever(r) ==
    /\ at[r] = "waiting" /\ checkedOut = Capacity
    /\ waited[r] = PoolTimeout
    /\ waited' = [waited EXCEPT ![r] = 0]
    /\ UNCHANGED <<request, account, at, pool, dbUp>>

\* No connection came free in time: the pool raises TimeoutError.
GiveUp(r) ==
    /\ at[r] = "waiting" /\ checkedOut = Capacity
    /\ waited[r] = PoolTimeout
    /\ Fail(r)
    /\ UNCHANGED <<captured, pool, dbUp>>

\* Mutant: the next connection is taken inside the first one's block.
QueryNested(r) ==
    /\ at[r] = "query" /\ dbUp
    /\ \/ NextTurn(r) /\ UNCHANGED pool
       \/ left[Owner(r)] <= 1 /\ Gathered(r) /\ Release({r})
    /\ UNCHANGED <<captured, dbUp>>

\* The statements of one connection succeed and it goes back to the pool.
Query(r) ==
    /\ at[r] = "query" /\ dbUp
    /\ Settle(r)
    /\ Release({r})
    /\ UNCHANGED <<captured, dbUp>>

\* A statement fails or runs into the server's statement timeout.
QueryError(r) ==
    /\ at[r] = "query" /\ DbMayFail
    /\ Release({r})
    /\ Fail(r)
    /\ UNCHANGED <<captured, dbUp>>

\* A probe is waiting for its connection, or querying.
Probing(r) == pc[Owner(r)] = "run" /\ kind[Owner(r)] = "ready" /\ at[r] # "off"

\* Mutant: the timeout interrupts the probe but not its connection.
ProbeTimeoutLeaky(r) ==
    /\ Probing(r) /\ waited[r] = ReadyTimeout
    /\ Fail(r)
    /\ UNCHANGED <<captured, pool, dbUp>>

\* asyncio.timeout(5.0) interrupts the probe, waiting or querying.
ProbeTimeout(r) ==
    /\ Probing(r) /\ waited[r] = ReadyTimeout
    /\ Release({r})
    /\ Fail(r)
    /\ UNCHANGED <<captured, dbUp>>

\* http.response.start reaches send_wrapper, which takes the status down and
\* awaits the sender outside.
SendStart(s) ==
    /\ pc[s] = "reply"
    /\ pc' = [pc EXCEPT ![s] = "sending"]
    /\ captured' = IF Measured(kind[s]) THEN [captured EXCEPT ![s] = status[s]]
                                        ELSE captured
    /\ UNCHANGED <<kind, left, status, reply, recorded, inProgress, at, waited,
                   pool, dbUp>>

\* The start goes out, at once or when GZipMiddleware, which is outside and
\* keeps it, has seen the first piece of the body.  The client may have gone.
Deliver(s) ==
    /\ pc[s] = "sending"
    /\ pc' = [pc EXCEPT ![s] = "body"]
    /\ reply' = [reply EXCEPT ![s] = status[s]] \/ UNCHANGED reply
    /\ UNCHANGED <<kind, left, status, captured, recorded, inProgress, at,
                   waited, pool, dbUp>>

SendBody(s) ==
    /\ pc[s] = "body"
    /\ Finish(s)
    /\ UNCHANGED <<captured, reply, at, waited, pool, dbUp>>

\* External: the task is cancelled at an await (the server shuts down), and
\* with it the resolvers it waits for.
Cancelled(s) == IF pc[s] = "run" THEN ResolversOf(s) ELSE {}

Cancel(s) ==
    /\ InFlight(s)
    /\ Release(Cancelled(s))
    /\ Off(Cancelled(s))
    /\ Finish(s)
    /\ UNCHANGED <<captured, reply, dbUp>>

\* A timer runs while a resolver waits for a connection, and for a probe also
\* while it queries.
Limit(r) == IF Probing(r) /\ ReadyTimeout < PoolTimeout THEN ReadyTimeout ELSE PoolTimeout

Running(r) ==
    /\ at[r] = "waiting" \/ Probing(r)
    /\ waited[r] < Limit(r)

Tick ==
    /\ \E r \in Resolvers : Running(r)
    /\ waited' = [r \in Resolvers |-> IF Running(r) THEN waited[r] + 1 ELSE waited[r]]
    /\ UNCHANGED <<request, account, at, pool, dbUp>>

\* External: the database goes away and comes back.
DbFlip ==
    /\ DbMayFail
    /\ dbUp' = ~dbUp
    /\ UNCHANGED <<request, account, at, waited, pool>>

-----------------------------------------------------------------------------
Init ==
    /\ pc = [s \in Slots |-> "idle"]
    /\ kind = [s \in Slots |-> "static"]
    /\ left = [s \in Slots |-> 0]
    /\ status = [s \in Slots |-> 200]
    /\ captured = [s \in Slots |-> 500]
    /\ reply = [s \in Slots |-> 0]
    /\ recorded = [s \in Slots |-> 0]
    /\ inProgress = 0
    /\ at = [r \in Resolvers |-> "off"]
    /\ holds = [r \in Resolvers |-> FALSE]
    /\ waited = [r \in Resolvers |-> 0]
    /\ checkedOut = 0
    /\ dbUp = TRUE

\* What the server does by itself for a resolver, and for a response.
Resolve(r) ==
    \/ Connect(r) \/ GiveUp(r)
    \/ Query(r) \/ QueryError(r)
    \/ ProbeTimeout(r)

Respond(s) == SendStart(s) \/ Deliver(s) \/ SendBody(s)

Next ==
    \/ \E r \in Resolvers : Resolve(r)
    \/ \E s \in Slots : Respond(s) \/ Cancel(s)
    \/ \E s \in Slots, k \in Kinds : Arrive(s, k)
    \/ Tick
    \/ DbFlip

\* The event loop runs what can run, time passes, and a statement that runs
\* comes to an end (the statement timeout, else the driver's).  Nothing is
\* assumed of arrivals, cancellations or the database.
Fairness ==
    /\ WF_vars(Tick)
    /\ \A r \in Resolvers : WF_vars(Resolve(r))
    /\ \A s \in Slots : WF_vars(Respond(s))

Spec == Init /\ [][Next]_vars /\ Fairness

-----------------------------------------------------------------------------
Statuses == {200, 500, 503}

TypeOK ==
    /\ pc \in [Slots -> {"idle", "run", "reply", "sending", "body"}]
    /\ kind \in [Slots -> Kinds]
    /\ left \in [Slots -> 0 .. MaxTurns]
    /\ status \in [Slots -> Statuses]
    /\ captured \in [Slots -> Statuses]
    /\ reply \in [Slots -> Statuses \cup {0}]
    /\ recorded \in [Slots -> Statuses \cup {0}]
    /\ inProgress \in Nat
    /\ at \in [Resolvers -> {"off", "waiting", "query"}]
    /\ holds \in [Resolvers -> BOOLEAN]
    /\ waited \in [Resolvers -> Nat]
    /\ checkedOut \in 0 .. Capacity
    /\ dbUp \in BOOLEAN

\* http_requests_in_progress is the number of measured requests in flight:
\* it comes back down exactly once per request, whether the endpoint answers,
\* raises or is cancelled and also when record_request raises.
GaugeExact ==
    inProgress = Cardinality({s \in Slots : InFlight(s) /\ Measured(kind[s])})

\* No connection is lost or given back twice, however a request ends: the
\* pool has out what the resolvers hold, and one that has ended holds nothing.
PoolAccounted ==
    /\ checkedOut = Cardinality({r \in Resolvers : holds[r]})
    /\ \A r \in Resolvers : holds[r] => at[r] # "off"

\* A request may hold a connection in one field and wait for another in the
\* next, and yet requests that have emptied the pool do not wait for each other
\* in a circle: one of those who hold a connection is running its statements,
\* so that it comes back without the help of any timeout.
NoCircularWait ==
    checkedOut = Capacity => \E r \in Resolvers : holds[r] /\ at[r] = "query"

\* What the collector counts a request with is what its client saw.  A client
\* that saw nothing is counted as 500, except where its answer was on the way
\* when it was cut off (send_wrapper takes the status down before the start is
\* out): then with the status of that answer.
RecordMatchesReply ==
    [][\A s \in Slots :
          recorded'[s] \notin {0, recorded[s]} =>
             recorded'[s] = IF reply'[s] # 0 THEN reply'[s]
                            ELSE IF pc[s] \in {"sending", "body"} THEN status[s]
                            ELSE 500]_vars

\* Every request comes to an end, with all that runs for it, although others
\* may take each connection that comes free, because pool_timeout ends the
\* wait.
AllAnswered == \A s \in Slots : Busy(s) ~> ~Busy(s)

\* specs/09-healthz.md: "Connection pool exhausted: readiness check uses a
\* fresh connection, not from the pool": with the database up, a pool that
\* has nothing left does not turn the probe's answer into 503.
ReadyDespiteFullPool ==
    [][\A r \in Resolvers :
          (Probing(r) /\ at[r] = "waiting" /\ pc'[Owner(r)] = "reply"
           /\ checkedOut = Capacity) => status'[Owner(r)] = 200]_vars
=============================================================================
