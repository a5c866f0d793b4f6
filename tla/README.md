# A TLA+ verification project for dbzap

dbzap points at an existing SQL database and serves it: it introspects the
schema at startup and generates REST and GraphQL endpoints, an API explorer, a
dashboard, metrics and health probes, behind an optional login. This directory
holds TLA+ modules translated from `src/dbzap`, the TLC configurations that
check them, and proofs checked by TLAPS.

Paths below are relative to `src/dbzap` unless they start with `specs/`.

## 1. The system

dbzap is one asyncio program. Between two `await`s a handler runs alone; at
every `await` (a statement, a commit, a connection, a body) any other handler
may run. Several such processes may share one database.

| Component | State it keeps | Operations | Talks to | What is hard | What makes it correct |
|---|---|---|---|---|---|
| REST row endpoints, `generators/rest.py` | none; the table | POST, GET, PUT, PATCH, DELETE by key | pool, database | write and read-back are separate: others write in between; a fault after the commit; 404 raised inside a transaction | each write is atomic and decided by the table it finds; answers are true; no transaction is left open |
| GraphQL mutations, `generators/graphql.py` | none; the table | create, update, delete, by id | pool, database | as REST, with the read-back on a second connection | the same service as REST |
| REST lists, `generators/rest.py`, `filter.py` | none | offset and cursor pages, filters, search | pool, database | writes between pages; count and page are two statements; wildcards in values | cursor pages join to one scan: what is there throughout comes exactly once; the filters select what was asked |
| GraphQL lists, `generators/graphql.py` | none | Relay pages, filter, search | pool, database | three statements per answer | pageInfo describes the page it comes with |
| Login limiter, `auth/rate_limit.py` | a deque of times per address | `check`, `reset` | login route | boundaries of the window; the clock is read before the lock | never more than max calls in a window; an honest Retry-After |
| User store, `auth/user_store.py` | table `_users` | `initialize`, `seed_admin_user`, lookups | database | several workers seed at once, restarts, rotated passwords | seeding is an atomic upsert; the race kills nobody |
| Startup, `server/app.py`, `server/__main__.py` | none | `create_app`, `serve` | introspector, user store | any step may fail or be interrupted | who serves has its account; everybody serves in the end |
| Introspector, `core/introspector.py` | schema cache, time of the last reload | `introspect`, `reload`, `get_cached_schema` | database, health detail | little: nothing in the program calls `reload` | the schema is there before the routes are |
| Engine and pool, `core/engine.py` | connections | `build_engine` | all handlers | at its limit; cancellation while waiting; requests that hold a connection and wait for another | no connection lost, no circular wait |
| Middleware, `server/middleware.py` | route label cache | `__call__` | collector | exceptions and cancellation at any await | one record and one decrement per request; the recorded status is the one the client saw, or was being sent |
| Collector, `server/metrics.py` | counters, histograms, gauges | record, export | middleware, pool stats | read while it is written | cumulative buckets, an exact gauge |
| Health, `server/health.py` | start time | liveness, readiness, detail | pool, introspector | shares the pool it reports on | ready if and only if the database answers |
| Authentication, `auth/dependencies.py`, `tokens.py`, `passwords.py` | none | bearer and basic checks | user store | three modes, expiry, an await between token and account, passwords beyond 72 bytes | exactly the holders of valid credentials pass |
| Explorer, `server/static/js/app.js` and others | token, selected endpoint, timers | login, logout, select, send | REST, GraphQL | answers and timers that outlive what they were for | screen and token agree; a session ends at logout or expiry and, three cases aside, not before |
| Dashboard, `server/static/js/dashboard.js` | timer, paused, in flight, back-off | start, stop, pause, poll | `/metrics` | hidden tab, failure, tab switch while a poll is in flight | at most one poll, none when stopped, some when shown |
| Configuration, type mapping | settings | validation, tables of types | all | nothing concurrent | left to unit tests |

`PROJECT.json` lists the components with their status, and under `hazards` every
place where the code could go wrong in a way that a test would hardly reach,
with the properties that watch it.

## 2. Modules

| Module | Models | Role |
|---|---|---|
| `TableRows` | one table: rows, bodies with unset columns, constraints | operators shared by the next two |
| `TableService` | what the row endpoints promise | abstract specification |
| `RowHandlers` | `rest.py` 272-530, `graphql.py` 655-781 | detailed specification, implements `TableService` |
| `RowHandlersProofs` | | theorems, the refinement among them |
| `MCRowHandlers` | bodies and clients for TLC | |
| `RateLimiter` | `auth/rate_limit.py`, `auth/routes.py` 49-62 | |
| `RateLimiterProofs` | | theorems |
| `AdminUpsert` | what seeding promises | abstract specification |
| `Startup` | `server/app.py` 33-59, `auth/user_store.py` 33-97, `core/introspector.py` 70-83 | detailed specification, implements `AdminUpsert` |
| `MCStartup` | credentials for TLC | |
| `StartupProofs` | | theorems |
| `RequestLifecycle` | `server/middleware.py` 91-128, `server/health.py` 41-64, the pool of `core/engine.py`, the gauge of `server/metrics.py` | |
| `LifecycleProofs` | | theorems |
| `KeyScan` | what reading a changing table page by page promises | abstract specification |
| `Listing` | `rest.py` 346-391 and 545-645, `graphql.py` 533-637 | detailed specification, implements `KeyScan` |
| `ListingProofs` | | theorems, the refinement among them |
| `MCListing` | a table and the requests for TLC | |
| `QueryFilters` | `filter.py`, `graphql.py` 138-213, 300-317, 380-462 | which rows a list selects |
| `FilterProofs` | | theorems |
| `MCQueryFilters` | rows, parameters and filters for TLC | |
| `Access` | `auth/dependencies.py`, `tokens.py`, `passwords.py`, `routes.py` 29-88 | extended by `Explorer` |
| `Explorer` | `static/js/app.js` 74-180, `api.js` | composes the page's session with `Access` |
| `ExplorerProofs` | | theorems about `Explorer` and `Access` |
| `MCExplorer` | passwords for TLC | |
| `Dashboard` | `static/js/dashboard.js` 12-98, and the events of `app.js` that drive it | |
| `DashboardProofs` | | theorems |

### TableRows, RowHandlers, TableService

`table` is the committed table, `staged` what the open write transaction sees,
`writer` who has it open; `pc[c]` is the statement client `c`'s handler is at and
`req[c]`, `reply[c]` its request and answer. `POST` is three steps: `execute`
(INSERT; `IntegrityError` is answered 409), `commit`, `readback`; likewise `PUT`,
`PATCH` and the mutations. `DELETE` has no read-back, reads have one step. The
database is external: one writer at a time (SQLite's rule, and that of a row
lock for two writers of one row), changes visible at commit, UNIQUE and NOT NULL
checked by the statement. A value is a model value, `Null` or, in a body,
`Unset`: `exclude_unset`, explicit nulls and PUT's nulling of what is missing
are all told apart. The GraphQL input carries the same information
(`strawberry.UNSET`), therefore both use the same steps. `DbFault` ends a handler
at any statement; a connection lost during COMMIT may have committed.

`TableService` knows no statements: a call is asked, perhaps taken in one
indivisible change, and answered. The refinement maps a handler that reads back
its own committed change to "taken". It says, among others: a PATCH changes the
columns it names on the row as it is at that moment; a refusal changes nothing
and is true when it is given; only the DELETE that removed the row answers "ok";
a row that is returned is the row the table holds at that moment.

### RateLimiter

The deque of an address is the part of `log[key]` behind the first `head[key]`
entries: what was popped stays there for the properties only. `ReadClock` and
`Decide` are the two halves of `check`, before and under the lock. The server
calls `check` from its event loop, without an await inside: one thread. Times are
integers, `TicksPerSecond` of them a second, so that whole-second rounding of
Retry-After matters.

### Startup, AdminUpsert

Each step is one transaction or connection of `create_app`: introspect, look for
`_users`, create it, look the account up, insert it, read the winner's row,
verify, update. A hash stands for the password it verifies. A fault ends the
worker, and an INSERT, UPDATE or CREATE whose acknowledgement is lost may have
taken place. `Stop` and `Restart` are the operator and the supervisor; a restart
may bring other credentials, or none.

`AdminUpsert` is one atomic INSERT ... ON CONFLICT UPDATE per worker. The
refinement places it at the read that finds the right hash (nothing to change
then), or else at the INSERT or UPDATE. The verification of a stale hash is
therefore harmless: the upsert took effect when the hash was read.

### RequestLifecycle

A slot is a request in flight, a resolver one of the coroutines that run for it. An
endpoint is one resolver. A GraphQL query has one per root field or alias, and
graphql-core runs them concurrently, each with an `engine.connect()` of its own
(`graphql.py` 592, 660): one request may hold a connection and wait for another. The
fields of a mutation run in turn, with one connection or two each (the
read-back), so that is one resolver that takes several one after the other.
`holds`, `at` and `waited` belong to a resolver; when a field fails, the answer may
go out while the other fields still run.

`SendStart` is the half of `send_wrapper` that takes the status down (`captured`);
`Deliver` is the start going out, at once or when the compressing middleware,
which is outside (`app.py` 75-76) and keeps the start until it has seen the body,
lets it go. `recorded` is what the collector counted, `reply` what the client saw.
`Cancel` may strike at any await. `Finish` is the middleware's outer `finally`, with
a `record_request` that may raise. Responses that the CORS middleware gives
outside this middleware are not counted and not modelled.

### Listing, KeyScan

One client asks, reads the answer, and goes on the way the answer offers
(`Follow`), turns round (`Turn`) or leaves when nothing is ahead. A handler is the
steps its statements are: `Count` (REST unless `with_total=false`, and GraphQL),
the page, and in a backward Relay page the look beyond. Between any two of them
other clients insert, delete and update. `query` is what the handler made of the
parameters, with every default, limit and early return: 422 for what is no
number, 400 for a REST cursor that does not decode, no error for a Relay one.
`heap` is the order a scan without ORDER BY finds, which the database chooses.
Filters and search come in as the verdict `match` of each row. A look
beyond that fails is not reported (`graphql.py` 610): the answer says that there
is no next page, which `failed` remembers. The page limits
100 and 20 are scaled to `MaxSize` and `DefaultSize`. What the client has
put together, `list`, is whole; only without a single key, where pages may repeat
for ever, is it cut, at twice the length of the longest table.

`KeyScan` is what a traversal promises: the keys looked at form an interval that
grows at either end, each part is looked at in one glance, and what was received
is what the glances showed. `list`, `swept`, `steady` and the other history
variables carry the refinement; the model maps `Hits`, `swept` and the set of
received keys.

### QueryFilters

`Parse` reads one more query parameter as the loop of `parse_filters` does: bad
operator, reserved name, leading underscore, unknown column, repeated condition.
`RestRows` and `GraphQLRows` are the WHERE clauses; texts are sequences of
characters. `Replace` goes through a text as `str.replace` does, `Pieces` are the
stretches that `split(",")`, `strip()` and the test for emptiness leave of a
list, and `Like` is the database's LIKE: it reads the pattern from left to right
(`Read`), with an escape character, and keeps the places the text may have been
matched up to. The references `Asks` and `SearchedFor` know neither patterns nor
splitting: they speak of substrings, and of what stands between two commas with
blanks aside (`Listed`). `TextTakenLiterally` stands between the two, for every
text of a query and every cell. The escape character is a backslash, which is
what PostgreSQL and MySQL take by default. How a driver converts the text of a
parameter for an integer column is left out.

### Access, Explorer

A request is `Arrive` (the headers, the token and its expiry), `Lookup` (the
SELECT of the account) and `Resume` (the verification, and for a login the
token); time and accounts move between them. `held` remembers what the account
was like during the request, so that `AnsweredAsEntitled` can say "at some
moment". A password is a head of 72 bytes and a tail, which is all that bcrypt
and `_prepare_password` distinguish. In mode `both` whatever is wrong with a
bearer token falls through to the search for a Basic header, hence "Not
authenticated" instead of "Token has expired" (`specs/06-auth.md`); the status is
401 either way.

`Explorer` adds the page: `stored` is the token in sessionStorage, and each
`ShowApp` leaves two timers with it that nobody cancels. A reload loses the timers
and keeps the token. Timers may be late, and a delay that does not fit the 32
bits of `setTimeout` wraps (`Wait`, with `MaxDelay` for 2^31 - 1 ms): usually to a
negative one, which fires at once. Each timer knows the `showApp` that set it,
`long` whether the last one asked for more than a timer can wait. `Form` and `Other` are clients of
`Access`: a login is the server's three steps with the page's timers in between.

### Dashboard

`timer` is what `_timer` refers to, `leaked` counts the timers it referred to
before and nobody cleared. `logins` is the number of copies of each listener. A
poll is in flight from `Poll` to `PollOk` or `PollFail`; a failed one puts a retry in
`_timer`'s place whether or not polling had been stopped. `clean` is a history
variable that turns false at the four events that break the order of the
timers: a second click on the dashboard tab, a failure that arrives after the
dashboard was left, an expired session, and a second login on the page, also one
over the expiry banner, which leaves the app shown. What leaks then is in the
steps, but the properties say only that nothing else leaks.

## 3. Runs

| Run | Question | Bounds and why they are enough |
|---|---|---|
| `rows` | do the handlers implement the atomic service, with no transaction left open and with clients reading their own writes? | 2 clients, one per API, which covers both APIs against each other; 2 keys (a conflict needs two rows, a reused key one); a UNIQUE and a NOT NULL column; bodies that are complete, conflicting, partial, nulling, empty or of the wrong type; faults at each statement |
| `put_race` | does PUT answer 200 or 404 only? violated | the same without constraints and faults, so the race alone is to blame |
| `limiter` | is the window bound kept, the bucket bounded, Retry-After kept and tight? | 2 addresses, limits 0 to 2, window 3 ticks, clock to 8: more than two windows, half seconds |
| `limiter_threads` | and with two threads, as the class documents? violated | 1 address, 2 threads, limit 2 |
| `startup` | is seeding atomic and does everybody serve in the end? | 2 workers, 2 usernames, a rotated password and no credentials at all, 2 faults and 2 stops: enough to interrupt both workers, or one of them twice |
| `startup_race` | does no worker fail because `_users` exists? violated | the same without faults or stops |
| `lifecycle` | are gauge, pool and record exact, does nobody wait in a circle, and does every request end? | 2 requests, each with up to two concurrent fields, on 2 connections: two queries can hold one connection each and wait for a second; mutations of up to three turns, more connections than there are; the probe's timeout shorter than the pool's |
| `ready_probe` | does a full pool leave the probe alone? violated | 2 requests on 1 connection |
| `lists` | do pages join, and what do offset pages and page info promise? | a 3-row table with a gap, keys 1 to 4, scan order unlike key order; pages of 1 and 2, so that pages are full, partial and empty; two writes: one can delete the row at a cursor and the other put it back; 58 first requests with every combination that matters of page, size, cursor, missing, empty and junk; one change of direction |
| `filters` | are the rows selected those that were asked for, and texts taken literally? | up to three parameters of 24, which makes repetitions and orders; a numeric and a text column, both nullable; cells and values with `%`, `_`, a backslash and a comma, lists with blanks and empty pieces; a reserved name, an unknown operator and a name with an underscore |
| `sessions` | is only the entitled answered, and what ends a session? | one account, two passwords that agree in 72 bytes, all modes, one change of the account, two logins per page, tokens of two ticks and a clock to 3, so that a second session overlaps the end of the first; timers that wait one tick, too short for a token that is answered at once and long enough for one that comes a tick later or is found at a reload; one request at a time, since requests share nothing but the account and the clock |
| `dashboard` | do polls stack, are timers lost or doubled, does it go on? | three logins and up to three leaked timers of a kind: enough for a double and a triple listener |

The four violated runs are disagreements between a document and the code; they
are quoted in `PROJECT.json` under `findings`. In short:

* PUT answers 500 if its row is deleted before the read-back
  (`specs/04-rest-api-generator.md:18` says 200 or 404);
* the limiter is called thread-safe but loses its bound with two threads (not
  reachable from the server, which has one);
* `initialize()` may fail because a peer creates the table first
  (`specs/06-auth.md:107`);
* the readiness probe uses the shared pool (`specs/09-healthz.md:120`).

Further disagreements met while modelling, which have no run of their own. The
models follow the code in each of them, and where a property had to make room for
one it says so:

* the timer that ends a session is never cancelled (`app.js` 146). After a logout
  and a new login, or a login over the expiry banner, it ends the later session
  when the earlier token expires. `specs/08-api-explorer-frontend.md:235` has "Token
  expiry triggers a visible warning and login redirect"; here the redirect comes
  while the token is good. `NoEarlyEnd` names this cause. Without it, and with
  `MaxDelay = 2`, TLC finds the trace: login, logout, login, timer;
* a token that lives longer than 24.8 days ends its session too early, mostly at
  once, after each login and each reload: the delay of a timer has 32 bits, and
  `JWT_EXPIRE_MINUTES` has no limit (`core/config.py` 15). This is the other cause in
  `NoEarlyEnd`, `long`. Without it TLC finds the trace with a single login;
* `is` takes any value, and all but `null` mean not null, while `specs/04`, line 191,
  says "`is` operator: only accepts `null` or `not_null` as values". The reference
  `Asks` reads `is=a` the way the code does, so `RestSelectsWhatWasAsked` holds of
  it; by the document the request should have been refused;
* a request that waits in vain for the pool is answered 500, or 200 with errors in
  GraphQL (`Fail`), where `specs/10`, line 283, says "`pool_timeout` triggers 503";
* a dashboard that was hidden does not resume (`specs/08`, lines 198 and 250),
  because hiding sets the pause flag that the resumption looks at (`Hide`, `Show`);
* a unique conflict of PUT and PATCH is a 500, not a 409 (`specs/04`, line 178);
  mutations use two connections though `specs/10` demands one;
* "Multiple filters are always ANDed" (`specs/04`, line 50) holds of filters with
  different field or operator. A repeated `field[op]` is an alternative, as the
  docstring of `parse_filters` says, and the model follows the code;
* `paging.next` (`rest.py` 637-640) drops the filters and the search; the client
  of `Listing` follows `cursors.after` with its own. A backward page reports
  `after` only if there are more rows before it, unlike `specs/04` 135-136;
* an undecodable Relay cursor is ignored, not refused, and a failing look beyond a
  backward page is swallowed (`specs/09-graphql-relay-filtering.md`, `graphql.py`
  602-611);
* without a single key (`SingleKey = FALSE`) a Relay list ignores `after`: a client
  that follows `hasNextPage` and `endCursor` gets page one for ever, and TLC finds
  `TraversalEnds` violated. `specs/09-graphql-relay-filtering.md:109` speaks of a
  fallback to limit and offset, which the resolver does not have;
* on SQLite, whose LIKE has no escape character unless asked, `like`, `q` and
  `search` never find a literal `%` or `_`: with `EscapeChar = NoEscape`
  `RestSelectsWhatWasAsked` fails;
* a cancellation while the start of a response is being sent, or is kept back by
  the compressing middleware, is counted with that response's status, a 200 that
  nobody saw. `RecordMatchesReply` names this exception; no document promises
  otherwise;
* the expiry of a session does not stop the polling, and a 401 does not bring the
  login form back (`specs/08`, line 182).

Deadlock is checked in every run but the two of `Startup`, where all workers may
serve with no fault or stop left, and `filters`, where a query is complete after
three parameters.

## 4. Fairness

* `Startup!FairSpec`: weak fairness of each worker's own steps (`create_app` is
  straight-line code whose awaits return or raise) and of `Restart` (whoever runs
  the workers brings dead ones back, which is external and assumed). Nothing is
  assumed of faults and stops except that they are finitely many.
* `RequestLifecycle!Spec`: weak fairness of time, of the steps of each resolver and
  of the steps of each response, because the event loop runs what is ready. A statement that
  runs ends, through `DB_STATEMENT_TIMEOUT` or the driver. No connection is
  promised to anybody: a waiter may be overtaken for ever, and `AllAnswered` holds
  because of `pool_timeout`. Without it (the mutant `GiveUpNever`) it fails.
* `Listing!Spec`: weak fairness of the handler and of a client that goes on asking
  until nothing is ahead; `TraversalEnds` is about such a client. Nobody has to
  write or to turn round. Writes are finitely many, as otherwise rows could be
  appended as fast as they are read.
* `Explorer!Spec`: weak fairness of the expiry timers only, which the browser
  fires. The server may be silent for ever.
* `Dashboard!Spec`: weak fairness of the interval, of the retry and of the end of a
  poll. The page sets no timeout, so the last rests on the browser, which fails
  a fetch whose connection is gone. `KeepsRefreshing` fails without it.
* `RowHandlers`, `RateLimiter` and `QueryFilters` state safety only.

## 5. Proofs

Every safety property and every refinement that a run checks is proved, for
every value of the constants.
An invariant's proof has one step, or a lemma, per action.

### RowHandlersProofs: any clients, keys, columns, constraints and faults

`TypeCorrect`, `NoLeak` (`NoTransactionLeak`), `OwnWriteRead` (`ReadYourWrites`) and
`Refinement`, `Spec => ImplementsTableService`. All come from

    IInv == TypeOK /\ NoTransactionLeak /\ Serving /\ Planned /\ OwnRow

`Serving` says that a handler past its statement serves a request whose key it
knows. `Planned` says what the statement has staged, in terms of the table that is
still there when it commits: nobody else can have the transaction open, which is
`NoTransactionLeak`, and therefore the commit is the abstract change, decided by
the table of that moment. `OwnRow` says that a client's own write is in the table
until another one writes that row, which the read-back and `ReadYourWrites` need.
The refinement maps each step to "asked", "taken", "answered" or a stutter, one
lemma per kind of ending.

### RateLimiterProofs: any addresses, limit, window and tick length

* `TypeCorrect`, and `Bounded`: a bucket never exceeds `max`, for any number of
  threads. `BucketBounded` is not inductive alone: `BoundInv` adds that the head
  stays within the log (so that a pruned bucket is a shorter one) and that no
  call is pending on a disabled limiter.
* `Tight` and `Kept`, the two halves of an honest Retry-After, for any number of
  threads. `PromiseInv` ties the promised time to the entry at the head of the
  bucket: later than the end of its window, by a second at most.
* `Ordered` and `WindowSafe`, under `SingleCaller` (the server's case; with two
  threads `limiter_threads` refutes it). The invariant `FlowInv` says that entries
  are ordered and not in the future, that what was popped had left the window,
  and that of any entry and the one `max` places behind it the second came after
  the window of the first had closed. The last part needs the others: when a call
  is allowed, the entry `max` places before it has been popped, so it is more
  than a window old. `WindowBound` follows by counting: the calls in the window
  an entry opens are among the `max` entries from it on.

### StartupProofs: any workers, configurations, faults and stops

* `TypeCorrect`; `RaceSafe`, no worker dies of an `IntegrityError`; `Seeded`, who
  serves has its account. All come from `IInv`: accounts never disappear, so a
  worker past its lookup or conflict finds the row it has been told of.
* `Refinement`: `Spec => Upserting!Spec`, one lemma for the initial states and one
  for the steps, each mapped to an upsert, a move of the phase or a stutter.

### LifecycleProofs: any requests, fields, turns, pool and timeouts

`Gauge`, `Accounted` and `NoCircle`. The invariant has two sides that share no
variable. `GaugeSide` counts the requests in flight, `PoolSide` the resolvers that
hold a connection; it needs `HoldInv`, that a connection is held exactly while
its statements run, so that `Release` gives back what `Query` took and nothing
twice. What `Release`, `Off` and `Finish` do to the two counts are lemmas, used by
every way a resolver or a request can end. `NoCircle` (`NoCircularWait`): if the pool is
empty somebody holds a connection, and `HoldInv` says that he is not waiting. A
resolver never holds one while it waits for the next, and that is all it takes,
although a request does.

`CountedAsSeen` (`RecordMatchesReply`) follows the story of one slot: 500 is captured
until the response starts and the status sent from then on, the client sees
nothing before the start is out, and nothing is counted before the end.
`TypeCorrect` takes all of them.

### ListingProofs: any table, page sizes, questions and number of writes

`Shape` (types, and what `query` and `first` are at each place) carries `TypeCorrect`.
It rests on lemmas about the operators: what `Ascending`, `Upto` and `Reverse` do to
a set or a sequence, that a keyed page is a stretch of the rows between the
cursors (`PageIs`), that inserting, removing and appending keep keys unique, and
which request each answer leads to (`UpCursor`, `DownRelay` and their like).

* `PagesJoin` (`CursorPagesJoin`). `JoinInv` says that of the keys beyond the first
  cursor all up to the present one, and none behind it, have been looked at, that
  the list is in order on this side of it, and that every row that matched all
  the time and was looked at is in the list. A delete and a re-insertion at the
  cursor cannot break it, because the window excludes the cursor's own row.
* `Refinement`, `Spec => ImplementsKeyScan`. `ScanInv` adds that what was looked at
  is an interval and that every cursor the client may follow touches it, also
  after it has turned round.
* `InfoTrue` (`InfoTrueIfQuiet`), in two halves. `TotalsInv` says that the count is
  still the table's while nobody has written, `EdgesInv` the same of the page kept
  for the look beyond, and of its answer, where a look that failed is told from
  one that found nothing. The first half needs no key and is a theorem of its own,
  `TotalsTrue` (`TotalsTrueIfQuiet`): what it takes besides is the arithmetic of
  `page < total_pages` (`PagesLeft`) and the case of a total of 0, where a full page
  decides.
* `CoversCalm` (`OffsetCoversCalmTable`). While rows are only appended the matching
  rows only grow at their end; `OffsetInv` says that the list is their front, as
  long as the pages asked for reach, and that the total that tells the client when
  to stop counts every row that was there from the start. Tables without a single
  key are included.
* `Advances` (`PagesAdvance`), the safety half of `TraversalEnds`: each request for the
  page ahead has a cursor further on and the same far edge, or a higher page
  number, and no page number above `MaxKey` is followed by another. `AheadInv` says
  that the edges of an answer lie between the cursors it was asked with, and that
  only as many pages as there are keys can announce another one. Without a single
  key it holds of pages by number only, as section 3 says.

The invariants were model-checked on the instance of `lists` before they were
proved. `PagesJoin`, `Refinement` and `InfoTrue` assume `SingleKey`, the case in which the code has a
cursor at all; what happens otherwise is described in section 3.

### FilterProofs: any table, any parameters in any number and order, any search

`TypeCorrect` and `Monotone` (`RepeatWidensNewNarrows`). `IInv` says that the
conditions collected are one per field and operator used, with every value given
for them and no other. `RestSelects` and `GraphQLSelects` then compare the WHERE
clauses with what was asked, and rest on `TextsAreTakenLiterally`
(`TextTakenLiterally`). The three assume `EscapeChar = Backslash`; what happens on
SQLite, which has no escape character, is the finding of section 3.

`Replace` and `Reading` are recursive over a text of any length, so what they
compute is shown by induction. The library's induction rules take a predicate as
parameter, which the provers cannot instantiate; the lemma `Induction` says the
same of a set of numbers: the least number missing from it (`WFMin`, of `<` on the
naturals) contradicts the step. That the recursive functions exist is shown the same way (`Recursion`):
for every length there is a run of the recursion, two runs agree as far as both
go (`Agreement`), and the function picks one. Out of it come three facts that the
rest uses and that mention no recursion: replacing in, or reading, one character
more (`ReplaceAppend`, `ReadingAppend`), and escaping one character more
(`EscapeAppend`), where the order of the three replacements matters.

`ReadingEscape` is the heart: after an escaped text s LIKE is at the places that
s leads to from where it was (`Reached`), by induction over s. With a percent sign
before and after, that is a substring (`PatternsMatch`, `StandsIsSubstring`).
`PiecesSit` and `ListedSits` put the split at commas and its reference into one
form, a text that sits in an item between blanks.

### ExplorerProofs: any accounts, passwords, token lifetime, longest delay and number of logins

`Entitled` (`AnsweredAsEntitled`): `AccessInv` says of each request what it will
find, or has found, in the table is the password of a moment it has lived
through. That hashes tell passwords apart, however long they are, is a lemma
about `_prepare_password`. `Screen` (`ScreenMatchesSession`), `NotCutShort`
(`NoEarlyEnd`) and `TypeCorrect` come from `IInv`. Its `TimersInv` says that
no timer of the last `showApp` that ends a session is due before the stored
token expires, unless the token had more time left than a timer waits (`long`):
then it may be due at any time. An early end is therefore a logout, an earlier
timer or a long token. What the 32 bits make of a delay is the lemma `WaitIs`.

### DashboardProofs: any number of logins and leaked timers

`TypeCorrect`, `NoStacking` and `OneTimer`. `NoRequestStacking` needs that the flag
is up exactly while a poll is in flight (`FlightInv`). `OneTimerPerDashboard` needs
`CleanInv`: nothing has leaked, `_timer` refers to a timer exactly while the
dashboard is on screen, and there is one copy of the listeners; and that a page
without a login shows no dashboard (`PageInv`).

### Assumptions

The named `ASSUME`s of the modules; TLC evaluates them in every run. Most give the
constants their types and keep sentinels outside the sets they mark
(`HandlerAssumption`, `TableAssumption`, `LimiterAssumption`, `StartupAssumption`,
`LifecycleAssumption`, `DashboardAssumption`, `AccessAssumption`,
`ExplorerAssumption`, `FilterAssumption`, `QuestionsAssumption` and the two
`MarkersAssumption`s). Four say more: `TextAssumption`, that texts are sequences
of characters and that the wildcards, the backslash and the comma differ from
one another where the code needs it, and a comma is no blank;
`ListingAssumption`, that the tables to begin with have unique keys, as a primary
key does; `RankAssumption`, that what is compared by order has one place in the
order; `PasswordsAssumption`, that nobody has the SHA-256 digest of another
password for a password, which is what makes a hash of a long password tell it
apart.

### Only model-checked

Liveness (`AllServe`, `AllAnswered`, `TraversalEnds`, `ExpiredTokenDropped`,
`KeepsRefreshing`), which is out of the prover's reach. For `TraversalEnds` the
measure that shrinks with every request is proved (`Advances`), and for
`AllAnswered` that nobody waits in a circle (`NoCircle`).

## 6. Not modelled

Parsing, formatting and generation (URLs, OpenAPI, Pydantic and Strawberry
models, SQL text, CLI output, HTML and CSS); password hashing and token
signatures as such; the route label cache; the composite-key handlers, which
repeat the steps of the single-key ones with a conjunction of columns; tables
without a primary key, whose POST answers its payload; keys that are not
integers; isolation levels under which two open transactions write different
rows at once; `SchemaIntrospector.reload`, which nothing in the program calls;
`health.detail`, which reads and reports; the histograms of `metrics.py`
and the text it exports, and the percentile estimate of the dashboard; the request
and response panes of the Explorer; configuration and type mapping, tables and
validators that unit tests reach.

## 7. Plan

1. Done: `RowHandlers`, `RateLimiter`, `Startup`, `RequestLifecycle`, because the rows
   are what the program is for and the other three are where several actors
   meet; then `Listing` and `QueryFilters`, `Access` and `Explorer`, `Dashboard`.
2. Proofs: done for every safety property and for the refinements (section 5).
   Left: what an answer says of a table without a single key, where `after` moves
   nothing.
3. Models left: the panes of the Explorer, where an answer may arrive after
   another endpoint was selected; the percentile estimate against a definition.
