------------------------------ MODULE Listing ------------------------------
(***************************************************************************)
(* A client reads a table page by page through the generated list          *)
(* endpoints, REST (generators/rest.py: offset or cursor) or GraphQL       *)
(* (generators/graphql.py: Relay), while other clients write to it.        *)
(*                                                                         *)
(* Filters and search (QueryFilters) divide the rows into those that match *)
(* and those that do not; here a row is its key and that verdict.  Every   *)
(* SQL statement is one step, so writes fall between the count and the     *)
(* page of one request as well as between two requests.                    *)
(***************************************************************************)
EXTENDS Integers, FiniteSets, SequencesExt

CONSTANTS
    MaxKey,        \* bound: keys are 1 .. MaxKey
    MaxSize,       \* the largest page, 100 in the code
    DefaultSize,   \* the page size when none is given, 20 in the code
    SingleKey,     \* has the table a single-column primary key?
    Heaps,         \* bound: the tables to start with
    Questions,     \* bound: the first requests of a client
    MaxWrites,     \* bound: the writes of the other clients
    NoParam,       \* a parameter that is not given
    Junk,          \* a parameter that is not a number, or not a cursor
    Empty,         \* a parameter that is the empty string
    NoQuery, NoReply

Keys == 1 .. MaxKey
Rows == [key : Keys, match : BOOLEAN]

ASSUME ListingAssumption ==
    /\ MaxKey \in Nat \ {0} /\ MaxWrites \in Nat
    /\ DefaultSize \in 1 .. MaxSize /\ MaxSize \in Nat
    /\ SingleKey \in BOOLEAN
    /\ \A h \in Heaps :
          /\ h \in Seq(Rows)
          /\ \A i, j \in DOMAIN h : h[i].key = h[j].key => i = j

\* The requests.  A cursor that decodes to no key of the model is left out.
Numbers == Int \cup {NoParam}
Cursors == Keys \cup {NoParam, Junk, Empty}

RestRequests ==
    [api : {"rest"}, page : Numbers \cup {Junk}, page_size : Numbers \cup {Junk},
     limit : Numbers \cup {Junk}, starting_after : Cursors, ending_before : Cursors,
     with_total : BOOLEAN]

RelayRequests ==
    [api : {"relay"}, first : Numbers, last : Numbers, after : Cursors, before : Cursors]

\* What a handler made of one, a page of rows by key, and the answers.
Queries ==
    [mode : {"offset", "cursor", "relay"}, size : 1 .. MaxSize, page : Nat \ {0},
     counted : BOOLEAN, asc : BOOLEAN, cursor : BOOLEAN,
     lo : 0 .. MaxKey, hi : 1 .. MaxKey + 1]

Pages == [rows : Seq(Keys), more : BOOLEAN]

Replies ==
    [outcome : {"ok", "rejected"}, total : 0 .. MaxKey, rows : Seq(Keys),
     has_next : BOOLEAN, has_prev : BOOLEAN,
     after : Keys \cup {NoParam}, before : Keys \cup {NoParam}]

ASSUME QuestionsAssumption == Questions \subseteq RestRequests \cup RelayRequests

\* What is missing or malformed is no number, and what is not there is none of
\* the things it stands for.
ASSUME MarkersAssumption ==
    /\ {NoParam, Junk, Empty} \cap Int = {}
    /\ NoParam # Junk /\ NoParam # Empty /\ Junk # Empty
    /\ NoQuery \notin Queries \cup RestRequests \cup RelayRequests
    /\ NoReply \notin Replies

VARIABLES
    heap,     \* the rows in the order a scan without ORDER BY finds them
    writes,   \* writes so far
    pc,       \* where the client or the handler of its request is
    query,    \* what the handler made of the request
    total,    \* the result of the count statement
    page,     \* the rows of the page, in a handler that has one more to run
    reply,    \* the last answer
    list,     \* history: what the client has put together
    first,    \* history: the query the traversal began with
    steady,   \* history: keys that matched ever since it began
    swept,    \* history: keys its pages so far have looked at
    calm,     \* history: have rows only been appended since it began?
    quiet,    \* history: has nobody written since the request arrived?
    turned,   \* history: has the client changed direction?
    failed    \* history: has a statement failed, and the answer kept silent?

table    == <<heap, writes>>
handling == <<query, total, page>>
history  == <<list, first, steady, swept, calm, quiet, turned>>
vars     == <<table, pc, handling, reply, history, failed>>

KeysOf(s) == {s[i].key : i \in DOMAIN s}

\* The numbers of a set in ascending order.
Ascending(S) ==
    CHOOSE s \in [1 .. Cardinality(S) -> S] : \A i, j \in DOMAIN s : i < j => s[i] < s[j]

\* Where the matching rows are, and their keys: as a set, and in scan order.
Matches(h)  == {i \in DOMAIN h : h[i].match}
HitsOf(h)   == {h[i].key : i \in Matches(h)}
Matching(h) ==
    LET at == Ascending(Matches(h)) IN [i \in DOMAIN at |-> h[at[i]].key]

Hits == HitsOf(heap)

-----------------------------------------------------------------------------
(* From the request to the query.                                          *)

Given(p, default) == IF p = NoParam THEN default ELSE p

\* Mutant: without the lower limit.
ClampAbove(n) == IF n > MaxSize THEN MaxSize ELSE n

\* max(1, min(100, n))
Clamp(n) == IF n < 1 THEN 1 ELSE IF n > MaxSize THEN MaxSize ELSE n

BadNumber(r) == Junk \in {r.page, r.page_size, r.limit}

UseCursor(r) ==
    /\ SingleKey
    /\ {r.limit, r.starting_after, r.ending_before} # {NoParam}
    /\ r.page = NoParam /\ r.page_size = NoParam

Forward(r)  == r.starting_after # NoParam
Backward(r) == ~Forward(r) /\ r.ending_before \notin {NoParam, Empty}

\* int(decode_cursor("")) fails, but an empty ending_before is never decoded.
BadCursor(r) ==
    /\ UseCursor(r)
    /\ \/ Forward(r) /\ r.starting_after \in {Junk, Empty}
       \/ Backward(r) /\ r.ending_before = Junk

CursorQuery(r) ==
    [mode |-> "cursor", size |-> Clamp(Given(r.limit, DefaultSize)), page |-> 1,
     counted |-> FALSE, asc |-> ~Backward(r), cursor |-> Forward(r) \/ Backward(r),
     lo |-> IF Forward(r) THEN r.starting_after ELSE 0,
     hi |-> IF Backward(r) THEN r.ending_before ELSE MaxKey + 1]

OffsetQuery(r) ==
    LET p == Given(r.page, 1) IN
    [mode |-> "offset", size |-> Clamp(Given(r.page_size, DefaultSize)),
     page |-> IF p < 1 THEN 1 ELSE p,
     counted |-> r.with_total, asc |-> TRUE, cursor |-> FALSE,
     lo |-> 0, hi |-> MaxKey + 1]

\* first wins over last; "limit or 20" takes a 0 for the default.  A cursor
\* that does not decode is ignored, except that hasPreviousPage sees it.
RelayQuery(r) ==
    LET forward == r.first # NoParam \/ r.last = NoParam
        n == Given(IF forward THEN r.first ELSE r.last, 0)
    IN  [mode |-> "relay", size |-> Clamp(IF n = 0 THEN DefaultSize ELSE n),
         page |-> 1, counted |-> TRUE, asc |-> forward,
         cursor |-> r.after \notin {NoParam, Empty},
         lo |-> IF SingleKey /\ r.after \in Keys THEN r.after ELSE 0,
         hi |-> IF SingleKey /\ r.before \in Keys THEN r.before ELSE MaxKey + 1]

Rejected(r) == r.api = "rest" /\ (BadNumber(r) \/ BadCursor(r))

QueryOf(r) ==
    IF r.api = "relay" THEN RelayQuery(r)
    ELSE IF UseCursor(r) THEN CursorQuery(r) ELSE OffsetQuery(r)

-----------------------------------------------------------------------------
(* The statements.                                                         *)

\* The rows between the cursors.
Window == {k \in Hits : query.lo < k /\ k < query.hi}

\* ORDER BY the key, in the direction of travel; without a single key there
\* is nothing to order by.
Ordered ==
    IF ~SingleKey THEN Matching(heap)
    ELSE IF query.asc THEN Ascending(Window) ELSE Reverse(Ascending(Window))

Upto(s, n) == SubSeq(s, 1, IF Len(s) < n THEN Len(s) ELSE n)

\* Mutant: LIMIT size, so there never seems to be more.
KeyedPageShort ==
    LET rows == Upto(Ordered, query.size)
    IN  [rows |-> IF SingleKey /\ ~query.asc THEN Reverse(rows) ELSE rows,
         more |-> Len(rows) > query.size]

\* Mutant: a backward page stays in descending order.
KeyedPageTurned ==
    LET fetched == Upto(Ordered, query.size + 1)
    IN  [rows |-> Upto(fetched, query.size), more |-> Len(fetched) > query.size]

\* LIMIT size + 1 tells whether there is more; a backward page is turned round.
KeyedPage ==
    LET fetched == Upto(Ordered, query.size + 1)
        rows    == Upto(fetched, query.size)
    IN  [rows |-> IF SingleKey /\ ~query.asc THEN Reverse(rows) ELSE rows,
         more |-> Len(fetched) > query.size]

\* Mutant: OFFSET counts pages, not rows.
OffsetPageOverlap ==
    LET skip == query.page - 1
        hits == Matching(heap)
    IN  SubSeq(hits, skip + 1,
               IF skip + query.size < Len(hits) THEN skip + query.size ELSE Len(hits))

\* OFFSET .. LIMIT .. over whatever order the scan has.
OffsetPage ==
    LET skip == (query.page - 1) * query.size
        hits == Matching(heap)
    IN  SubSeq(hits, skip + 1,
               IF skip + query.size < Len(hits) THEN skip + query.size ELSE Len(hits))

\* page < total_pages, or a full page when there is no (or a zero) count.
HasNext(rows) ==
    IF query.counted /\ total # 0
    THEN query.page < (total + query.size - 1) \div query.size
    ELSE Len(rows) = query.size

Edge(rows, i) == IF rows = <<>> THEN NoParam ELSE rows[i]

\* Mutant: a page without rows hands back the cursor it was asked for with.
CursorReplyEchoes(p) ==
    [outcome |-> "ok", total |-> 0, rows |-> p.rows,
     has_next |-> p.more, has_prev |-> query.cursor,
     after  |-> IF p.rows = <<>> /\ query.lo \in Keys THEN query.lo
                ELSE Edge(p.rows, Len(p.rows)),
     before |-> IF query.cursor THEN Edge(p.rows, 1) ELSE NoParam]

CursorReply(p) ==
    [outcome |-> "ok", total |-> 0, rows |-> p.rows,
     has_next |-> p.more, has_prev |-> query.cursor,
     after  |-> IF p.more THEN Edge(p.rows, Len(p.rows)) ELSE NoParam,
     before |-> IF query.cursor THEN Edge(p.rows, 1) ELSE NoParam]

OffsetReply(rows) ==
    [outcome |-> "ok", total |-> total, rows |-> rows,
     has_next |-> HasNext(rows), has_prev |-> query.page > 1,
     after |-> NoParam, before |-> NoParam]

RelayReply(p, beyond) ==
    [outcome |-> "ok", total |-> total, rows |-> p.rows,
     has_next |-> IF query.asc THEN p.more ELSE beyond,
     has_prev |-> IF query.asc THEN query.cursor ELSE p.more,
     after  |-> Edge(p.rows, Len(p.rows)), before |-> Edge(p.rows, 1)]

Refusal ==
    [outcome |-> "rejected", total |-> 0, rows |-> <<>>,
     has_next |-> FALSE, has_prev |-> FALSE, after |-> NoParam, before |-> NoParam]

-----------------------------------------------------------------------------
Init ==
    /\ heap \in Heaps /\ writes = 0
    /\ pc = "idle" /\ query = NoQuery /\ total = 0 /\ page = <<>> /\ reply = NoReply
    /\ list = <<>> /\ first = NoQuery /\ steady = {} /\ swept = {}
    /\ calm = TRUE /\ quiet = TRUE /\ turned = FALSE /\ failed = FALSE

(* The client.                                                             *)

\* The handler parses the request: 422 or 400 before any statement.
Submit(r) ==
    /\ total' = 0 /\ page' = <<>> /\ quiet' = TRUE /\ failed' = FALSE
    /\ \/ /\ Rejected(r)
          /\ pc' = "answered" /\ query' = NoQuery /\ reply' = Refusal
       \/ /\ ~Rejected(r)
          /\ \E q \in {QueryOf(r)} :
                query' = q /\ pc' = IF q.counted THEN "count" ELSE "page"
          /\ reply' = NoReply

Begin ==
    /\ pc = "idle"
    /\ \E r \in Questions : Submit(r)
    /\ first' = query' /\ steady' = Hits
    /\ UNCHANGED <<table, list, swept, calm, turned>>

NoRest ==
    [api |-> "rest", page |-> NoParam, page_size |-> NoParam, limit |-> NoParam,
     starting_after |-> NoParam, ending_before |-> NoParam, with_total |-> TRUE]

NoRelay ==
    [api |-> "relay", first |-> NoParam, last |-> NoParam,
     after |-> NoParam, before |-> NoParam]

Bound(k) == IF k \in Keys THEN k ELSE NoParam

\* Does the reply announce a page above, or below?
MoreAbove ==
    /\ query.mode = "cursor" \/ reply.has_next
    /\ query.mode = "offset" \/ reply.after # NoParam

MoreBelow ==
    /\ query.mode = "cursor" \/ reply.has_prev
    /\ query.mode = "offset" \/ reply.before # NoParam

\* The request for the page above, if there is one.
Up ==
    IF query = NoQuery \/ ~MoreAbove THEN NoQuery
    ELSE CASE query.mode = "cursor" ->
                [NoRest EXCEPT !.limit = query.size, !.starting_after = reply.after]
           [] query.mode = "relay" ->
                [NoRelay EXCEPT !.first = query.size, !.after = reply.after,
                                !.before = IF query.asc THEN Bound(query.hi) ELSE NoParam]
           [] query.mode = "offset" ->
                [NoRest EXCEPT !.page = query.page + 1, !.page_size = query.size,
                               !.with_total = query.counted]

\* The request for the page below.
Down ==
    IF query = NoQuery \/ ~MoreBelow THEN NoQuery
    ELSE CASE query.mode = "cursor" ->
                [NoRest EXCEPT !.limit = query.size, !.ending_before = reply.before]
           [] query.mode = "relay" ->
                [NoRelay EXCEPT !.last = query.size, !.before = reply.before,
                                !.after = IF query.asc THEN NoParam ELSE Bound(query.lo)]
           [] query.mode = "offset" ->
                [NoRest EXCEPT !.page = query.page - 1, !.page_size = query.size,
                               !.with_total = query.counted]

Ahead  == IF query # NoQuery /\ ~query.asc THEN Down ELSE Up
Behind == IF query # NoQuery /\ ~query.asc THEN Up ELSE Down

Follow ==
    /\ pc = "answered" /\ Ahead # NoQuery
    /\ \E r \in {Ahead} : Submit(r)
    /\ UNCHANGED <<table, list, first, steady, swept, calm, turned>>

\* The client goes back the way it came; bound: once.
Turn ==
    /\ pc = "answered" /\ Behind # NoQuery /\ ~turned
    /\ \E r \in {Behind} : Submit(r)
    /\ turned' = TRUE
    /\ UNCHANGED <<table, list, first, steady, swept, calm>>

\* It has been told that there is no more.
Leave ==
    /\ pc = "answered" /\ Ahead = NoQuery
    /\ pc' = "idle" /\ query' = NoQuery /\ total' = 0 /\ page' = <<>> /\ reply' = NoReply
    /\ list' = <<>> /\ first' = NoQuery /\ steady' = {} /\ swept' = {}
    /\ calm' = TRUE /\ quiet' = TRUE /\ turned' = FALSE /\ failed' = FALSE
    /\ UNCHANGED table

(* The handler.                                                            *)

\* select count(*) with the filters, without the cursors.
Count ==
    /\ pc = "count"
    /\ total' = Cardinality(Hits)
    /\ pc' = "page"
    /\ UNCHANGED <<table, query, page, reply, history, failed>>

\* What a keyed page with these rows has looked at.
Glanced(p) ==
    LET rest == {k \in Keys : query.lo < k /\ k < query.hi} IN
    IF ~p.more THEN rest
    ELSE IF query.asc THEN {k \in rest : k <= p.rows[Len(p.rows)]}
         ELSE {k \in rest : k >= p.rows[1]}

\* Bound: only without a single key, where pages may repeat for ever, is the
\* list cut, at twice the length of the longest table.
Collect(rows) ==
    LET joined == IF query.asc THEN list \o rows ELSE rows \o list
    IN  list' = IF SingleKey THEN joined ELSE Upto(joined, 2 * MaxKey)

Answer(a) == pc' = "answered" /\ reply' = a /\ page' = <<>>

OffsetList ==
    /\ pc = "page" /\ query.mode = "offset"
    /\ \E rows \in {OffsetPage} : Answer(OffsetReply(rows)) /\ Collect(rows)
    /\ UNCHANGED <<table, query, total, first, steady, swept, calm, quiet, turned,
                   failed>>

Fetch(p) == Collect(p.rows) /\ swept' = swept \cup Glanced(p)

CursorList ==
    /\ pc = "page" /\ query.mode = "cursor"
    /\ \E p \in {KeyedPage} : Answer(CursorReply(p)) /\ Fetch(p)
    /\ UNCHANGED <<table, query, total, first, steady, calm, quiet, turned, failed>>

\* A backward Relay page with a valid `before` needs a third statement.
CountsBeyond == ~query.asc /\ query.hi \in Keys

RelayList ==
    /\ pc = "page" /\ query.mode = "relay"
    /\ \E p \in {KeyedPage} :
          /\ Fetch(p)
          /\ IF CountsBeyond
             THEN pc' = "beyond" /\ page' = <<p>> /\ UNCHANGED reply
             ELSE Answer(RelayReply(p, FALSE))
    /\ UNCHANGED <<table, query, total, first, steady, calm, quiet, turned, failed>>

\* Mutant: hasNextPage = bool(before).
RelayBeyondAlways ==
    /\ pc = "beyond"
    /\ Answer(RelayReply(page[1], TRUE))
    /\ UNCHANGED <<table, query, total, history, failed>>

\* hasNextPage of a backward page: are there rows from `before` on?  If the
\* statement fails the exception is swallowed and the answer is no.
RelayBeyond ==
    /\ pc = "beyond"
    /\ \/ /\ Answer(RelayReply(page[1], \E k \in Hits : k >= query.hi))
          /\ UNCHANGED failed
       \/ Answer(RelayReply(page[1], FALSE)) /\ failed' = TRUE
    /\ UNCHANGED <<table, query, total, history>>

(* The other clients; each write is one committed transaction.             *)

\* Bound: what was written before a traversal began is the choice of Heaps.
Commit(h, appended) ==
    /\ writes < MaxWrites /\ pc # "idle"
    /\ heap' = h /\ writes' = writes + 1
    /\ steady' = steady \cap HitsOf(h)
    /\ calm' = (calm /\ appended) /\ quiet' = FALSE
    /\ UNCHANGED <<pc, handling, reply, list, first, swept, turned, failed>>

\* The database puts a new row where it likes.
Insert ==
    \E k \in Keys \ KeysOf(heap), m \in BOOLEAN, i \in 1 .. Len(heap) + 1 :
        Commit(InsertAt(heap, i, [key |-> k, match |-> m]), i = Len(heap) + 1)

Delete == \E i \in DOMAIN heap : Commit(RemoveAt(heap, i), FALSE)

\* An updated row changes its verdict where it is, or moves to the end.
Update ==
    \E i \in DOMAIN heap :
        LET changed == [heap[i] EXCEPT !.match = ~@] IN
        \/ Commit(ReplaceAt(heap, i, changed), FALSE)
        \/ \E row \in {heap[i], changed} :
              i < Len(heap) /\ Commit(Append(RemoveAt(heap, i), row), FALSE)

Handler == Count \/ OffsetList \/ CursorList \/ RelayList \/ RelayBeyond

Next ==
    \/ Begin \/ Follow \/ Turn \/ Leave
    \/ Handler
    \/ Insert \/ Delete \/ Update

\* The server answers and the client goes on asking; whether anybody turns
\* or writes is left open.  (Just one of these is enabled at a time.)
Fairness == WF_vars(Handler \/ Follow \/ Leave)

Spec == Init /\ [][Next]_vars /\ Fairness

-----------------------------------------------------------------------------
\* The components of the state have their types; a page never exceeds its size.
TypeOK ==
    /\ heap \in Seq(Rows) /\ writes \in 0 .. MaxWrites
    /\ \A i, j \in DOMAIN heap : heap[i].key = heap[j].key => i = j
    /\ pc \in {"idle", "count", "page", "beyond", "answered"}
    /\ query \in Queries \cup {NoQuery} /\ first \in Queries \cup {NoQuery}
    /\ total \in 0 .. MaxKey /\ page \in Seq(Pages) /\ reply \in Replies \cup {NoReply}
    /\ list \in Seq(Keys) /\ steady \subseteq Keys /\ swept \subseteq Keys
    /\ {calm, quiet, turned, failed} \subseteq BOOLEAN
    /\ (reply # NoReply) <=> (pc = "answered")
    /\ (reply # NoReply) /\ query # NoQuery => Len(reply.rows) <= query.size

Keyed == first # NoQuery /\ first.mode # "offset"

\* Told that nothing lies ahead, after going one way only.
ReachedEnd ==
    /\ pc = "answered" /\ query # NoQuery
    /\ Ahead = NoQuery /\ ~turned

\* Paging by cursor, forward or backward, in REST or GraphQL: the pages join to
\* one list in key order, so no row comes twice, not even one deleted and
\* inserted again between two pages; and after the page that announces no
\* other, every row beyond the first cursor that matched all the time has been
\* received (_cursor_list and the list resolver).
CursorPagesJoin ==
    Keyed /\ ~turned =>
        /\ \A i, j \in DOMAIN list : i < j => list[i] < list[j]
        /\ ReachedEnd => {k \in steady : first.lo < k /\ k < first.hi} \subseteq ToSet(list)

\* Paging by offset promises that only while the table at most grows at its
\* end: then the pages from the first to the last one announced show every
\* matching row once (_offset_list reads without ORDER BY).
OffsetCoversCalmTable ==
    ReachedEnd /\ first.mode = "offset" /\ first.page = 1 /\ calm =>
        /\ steady \subseteq ToSet(list)
        /\ IsInjective(list)

\* With a count, and with no write since the request arrived.
Undisturbed == pc = "answered" /\ query # NoQuery /\ quiet /\ query.counted

\* The total is right, and a page by number says that there is another one
\* just when rows are left.
TotalsTrueIfQuiet ==
    Undisturbed =>
        /\ reply.total = Cardinality(Hits)
        /\ query.mode = "offset" =>
              (reply.has_next <=> query.page * query.size < Cardinality(Hits))

\* A page of a connection announces one after it just when there are rows, but
\* for a backward page whose look beyond failed: then it announces none.  One
\* before it is announced whenever there are rows; a forward page says so of
\* every cursor it was asked for with, a backward page only if there are.
EdgesTrueIfQuiet ==
    Undisturbed /\ query.mode = "relay" /\ reply.rows # <<>> =>
        LET top    == IF query.asc THEN query.hi ELSE MaxKey + 1
            bottom == IF query.asc THEN 0 ELSE query.lo
            after  == \E k \in Hits : reply.after < k /\ k < top
            before == \E k \in Hits : bottom < k /\ k < reply.before
        IN  /\ reply.has_next => after
            /\ after => reply.has_next \/ (failed /\ ~query.asc)
            /\ before => reply.has_prev
            /\ reply.has_prev /\ ~query.asc => before

\* The count, the page and the look beyond are statements of their own; if
\* nobody wrote between them then the answer describes one table, as far as
\* its statements succeeded.
InfoTrueIfQuiet == TotalsTrueIfQuiet /\ EdgesTrueIfQuiet

\* Pages by cursor are the glances of a scan of the keys.
Scan == INSTANCE KeyScan WITH
    hits  <- Hits,
    swept <- swept,
    got   <- IF Keyed THEN ToSet(list) ELSE {}

ImplementsKeyScan == Scan!Spec

\* A client that goes on asking for the page ahead is told one day that there
\* is none: cursors move on and page numbers outgrow the table.
TraversalEnds == (pc # "idle") ~> (pc = "idle")
=============================================================================
