---------------------------- MODULE RowHandlers ----------------------------
(***************************************************************************)
(* The generated single-row endpoints of one table, REST                   *)
(* (generators/rest.py) and GraphQL (generators/graphql.py), run           *)
(* concurrently by several clients over one database.                      *)
(*                                                                         *)
(* A handler awaits at every statement, so its steps interleave with those *)
(* of the others:  execute the statement inside a transaction, commit,     *)
(* read the row back, answer.  The database is external: one writer at a   *)
(* time holds the write lock, its change is invisible until it commits.    *)
(***************************************************************************)
EXTENDS TableRows, FiniteSets

CONSTANTS
    Clients,     \* concurrent requests
    Bodies,      \* bound: the bodies the clients send
    Speaks,      \* the methods each client uses: REST's, GraphQL's or both
    NoClient, NoReply, NoRequest,
    DbMayFail    \* may statements fail (lost connection, statement timeout)?

ASSUME HandlerAssumption ==
    /\ NoClient \notin Clients
    /\ DbMayFail \in BOOLEAN
    /\ Bodies \subseteq Body

VARIABLES
    table,    \* the committed rows
    staged,   \* the rows as the open write transaction sees them
    writer,   \* the client holding the write lock, or NoClient
    pc,       \* where each client's handler is
    req,      \* the request it serves, or NoRequest
    reply,    \* the last answer each client got
    dirty     \* history: another client wrote my row since I committed

vars == <<table, staged, writer, pc, req, reply, dirty>>

\* REST methods and, with the same steps, fields of the GraphQL schema.
Reads   == {"GET", "byId"}
RestMethods   == {"GET", "POST", "PUT", "PATCH", "DELETE"}
GraphQLFields == {"byId", "createRow", "updateRow", "deleteRow"}
Creates == {"POST", "createRow"}
Patches == {"PATCH", "updateRow"}
Removes == {"DELETE", "deleteRow"}

NoBody == [c \in Columns |-> Unset]

\* Only a create may leave out the key; only creates and updates have a body,
\* and one of the wrong types never gets past its model.
Requests ==
    [method : Creates, key : Keys \cup {NoKey}, body : Bodies, wellTyped : {TRUE}]
    \cup [method : Patches \cup {"PUT"}, key : Keys, body : Bodies, wellTyped : {TRUE}]
    \cup [method : Creates \cup Patches \cup {"PUT"}, key : {1}, body : {NoBody},
          wellTyped : {FALSE}]
    \cup [method : Removes \cup Reads, key : Keys, body : {NoBody}, wellTyped : {TRUE}]

Outcomes == {"ok", "conflict", "missing", "invalid", "failed"}
Replies  == [outcome : Outcomes, row : Row \cup Body \cup {Absent}]

Key(c)  == req[c].key
Sent(c) == req[c].body

At(c, step, methods) ==
    /\ pc[c] = step
    /\ req[c] # NoRequest
    /\ req[c].method \in methods

-----------------------------------------------------------------------------
\* Steps the handlers share.

Answer(c, outcome, row) ==
    /\ pc' = [pc EXCEPT ![c] = "idle"]
    /\ req' = [req EXCEPT ![c] = NoRequest]
    /\ reply' = [reply EXCEPT ![c] = [outcome |-> outcome, row |-> row]]

Goto(c, step) ==
    /\ pc' = [pc EXCEPT ![c] = step]
    /\ UNCHANGED <<req, reply>>

\* The statement ran: its change is staged under the write lock.
Stage(c, rows) ==
    /\ writer = NoClient
    /\ writer' = c
    /\ staged' = rows
    /\ pc' = [pc EXCEPT ![c] = "commit"]
    /\ UNCHANGED <<table, reply, dirty>>

\* The statement was refused before or by the database: nothing is staged.
Reject(c, outcome) ==
    /\ Answer(c, outcome, Absent)
    /\ UNCHANGED <<table, staged, writer, dirty>>

\* The transaction block ends: the staged rows become the table, and every
\* other client between its own commit and its read-back sees its row change.
Publish(c) ==
    /\ writer = c
    /\ table' = staged
    /\ writer' = NoClient
    /\ dirty' = [d \in Clients |->
                    /\ d # c
                    /\ pc[d] = "readback"
                    /\ dirty[d] \/ table[Key(d)] # staged[Key(d)]]
    /\ UNCHANGED staged

\* SELECT by key, outside any write transaction.
Select(c) == table[Key(c)]

-----------------------------------------------------------------------------
\* A request arrives; the model validates it before any SQL.

Receive(c) ==
    /\ pc[c] = "idle"
    /\ \E r \in Requests : r.method \in Speaks[c] /\ req' = [req EXCEPT ![c] = r]
    /\ pc' = [pc EXCEPT ![c] = "execute"]
    /\ reply' = [reply EXCEPT ![c] = NoReply]
    /\ UNCHANGED <<table, staged, writer, dirty>>

\* update_model_cls(**body): types only, every column is optional.
UpdateValid(c) == req[c].wellTyped

\* create_model_cls(**body): types, and the columns that must be present.
CreateRowValid(c) == req[c].wellTyped /\ CreateValid(Sent(c))

Invalid(c) ==
    \/ At(c, "execute", Creates) /\ ~CreateRowValid(c)
    \/ At(c, "execute", Patches \cup {"PUT"}) /\ ~UpdateValid(c)

RejectInvalid(c) == Invalid(c) /\ Reject(c, "invalid")

-----------------------------------------------------------------------------
\* POST and the create mutation.

\* INSERT at the client's key or, without one, at the next rowid, which the
\* handler learns as result.lastrowid; IntegrityError becomes a conflict.
\* A table full to MaxKey refuses with an error of its own.
Insert(c) ==
    LET new == Fill(Sent(c))
        key == {k \in Keys : IF Key(c) = NoKey THEN IsNextKey(table, k)
                                               ELSE k = Key(c)}
    IN  /\ writer = NoClient
        /\ CreateRowValid(c)
        /\ \/ key = {} /\ Reject(c, "failed")
           \/ \E k \in key :
                 \/ /\ table[k] # Absent \/ Violates(table, k, new)
                    /\ Reject(c, "conflict")
                 \/ /\ table[k] = Absent /\ ~Violates(table, k, new)
                    /\ req' = [req EXCEPT ![c].key = k]
                    /\ Stage(c, [table EXCEPT ![k] = new])

\* The read-back found the row, or not: then the payload itself is returned.
CreatedBody(c) == IF Select(c) # Absent THEN Select(c) ELSE Sent(c)

CreateRow(c) ==
    \/ At(c, "execute", {"POST"}) /\ Insert(c)
    \/ At(c, "commit", {"POST"}) /\ Publish(c) /\ Goto(c, "readback")
    \/ /\ At(c, "readback", {"POST"})
       /\ Answer(c, "ok", CreatedBody(c))
       /\ UNCHANGED <<table, staged, writer, dirty>>

\* The same steps; the read-back takes a second connection from the pool.
CreateResolver(c) ==
    \/ At(c, "execute", {"createRow"}) /\ Insert(c)
    \/ At(c, "commit", {"createRow"}) /\ Publish(c) /\ Goto(c, "readback")
    \/ /\ At(c, "readback", {"createRow"})
       /\ Answer(c, "ok", CreatedBody(c))
       /\ UNCHANGED <<table, staged, writer, dirty>>

-----------------------------------------------------------------------------
\* PUT.  No row: 404 from inside the transaction.  A constraint: the
\* IntegrityError escapes, 500.  Row gone at the read-back: dict(None), 500.

\* Mutant: answers 404 without leaving the transaction block.
FullUpdateExecuteLeaky(c) ==
    /\ At(c, "execute", {"PUT"}) /\ UpdateValid(c)
    /\ writer = NoClient
    /\ \/ /\ table[Key(c)] = Absent
          /\ writer' = c /\ Answer(c, "missing", Absent)
          /\ UNCHANGED <<table, staged, dirty>>
       \/ /\ table[Key(c)] # Absent
          /\ Stage(c, [table EXCEPT ![Key(c)] = Fill(Sent(c))])
          /\ UNCHANGED req

FullUpdateExecute(c) ==
    LET new == Fill(Sent(c)) IN
    /\ At(c, "execute", {"PUT"}) /\ UpdateValid(c)
    /\ writer = NoClient
    /\ \/ table[Key(c)] = Absent /\ Reject(c, "missing")
       \/ /\ table[Key(c)] # Absent /\ Violates(table, Key(c), new)
          /\ Reject(c, "failed")
       \/ /\ table[Key(c)] # Absent /\ ~Violates(table, Key(c), new)
          /\ Stage(c, [table EXCEPT ![Key(c)] = new])
          /\ UNCHANGED req

FullUpdateReadBack(c) ==
    /\ At(c, "readback", {"PUT"})
    /\ \/ Select(c) # Absent /\ Answer(c, "ok", Select(c))
       \/ Select(c) = Absent /\ Answer(c, "failed", Absent)
    /\ UNCHANGED <<table, staged, writer, dirty>>

FullUpdate(c) ==
    \/ FullUpdateExecute(c)
    \/ At(c, "commit", {"PUT"}) /\ Publish(c) /\ Goto(c, "readback")
    \/ FullUpdateReadBack(c)

-----------------------------------------------------------------------------
\* PATCH and the update mutation.  Without a column to change there is no
\* transaction.  rowcount is looked at after the commit: no row, missing.

MergeExecute(c) ==
    LET k == Key(c) IN
    /\ UpdateValid(c)
    /\ \/ /\ NoUpdates(Sent(c))
          /\ Goto(c, "readback")
          /\ UNCHANGED <<table, staged, writer, dirty>>
       \/ /\ ~NoUpdates(Sent(c))
          /\ writer = NoClient
          /\ \/ table[k] = Absent /\ Stage(c, table) /\ UNCHANGED req
             \/ /\ table[k] # Absent
                /\ Violates(table, k, Merge(table[k], Sent(c)))
                /\ Reject(c, "failed")
             \/ /\ table[k] # Absent
                /\ ~Violates(table, k, Merge(table[k], Sent(c)))
                /\ Stage(c, [table EXCEPT ![k] = Merge(table[k], Sent(c))])
                /\ UNCHANGED req

\* result.rowcount, while the write lock still keeps the table unchanged.
RowCount(c) == IF table[Key(c)] = Absent THEN 0 ELSE 1

MergeCommit(c) ==
    /\ Publish(c)
    /\ IF RowCount(c) = 0 THEN Answer(c, "missing", Absent) ELSE Goto(c, "readback")

\* Also GET by key and the by-id query: the row, or missing.
ShowRow(c) ==
    /\ \/ Select(c) # Absent /\ Answer(c, "ok", Select(c))
       \/ Select(c) = Absent /\ Answer(c, "missing", Absent)
    /\ UNCHANGED <<table, staged, writer, dirty>>

PartialUpdate(c) ==
    \/ At(c, "execute", {"PATCH"}) /\ MergeExecute(c)
    \/ At(c, "commit", {"PATCH"}) /\ MergeCommit(c)
    \/ At(c, "readback", {"PATCH"}) /\ ShowRow(c)

UpdateResolver(c) ==
    \/ At(c, "execute", {"updateRow"}) /\ MergeExecute(c)
    \/ At(c, "commit", {"updateRow"}) /\ MergeCommit(c)
    \/ At(c, "readback", {"updateRow"}) /\ ShowRow(c)

GetRow(c) == At(c, "execute", {"GET"}) /\ ShowRow(c)

ByIdResolver(c) == At(c, "execute", {"byId"}) /\ ShowRow(c)

-----------------------------------------------------------------------------
\* DELETE and the delete mutation: one transaction, no read-back.

EraseExecute(c) ==
    /\ Stage(c, [table EXCEPT ![Key(c)] = Absent])
    /\ UNCHANGED req

\* Mutant: rowcount is not looked at.
EraseCommitUnchecked(c) == Publish(c) /\ Answer(c, "ok", Absent)

EraseCommit(c) ==
    /\ Publish(c)
    /\ Answer(c, IF RowCount(c) = 0 THEN "missing" ELSE "ok", Absent)

DeleteRow(c) ==
    \/ At(c, "execute", {"DELETE"}) /\ EraseExecute(c)
    \/ At(c, "commit", {"DELETE"}) /\ EraseCommit(c)

DeleteResolver(c) ==
    \/ At(c, "execute", {"deleteRow"}) /\ EraseExecute(c)
    \/ At(c, "commit", {"deleteRow"}) /\ EraseCommit(c)

-----------------------------------------------------------------------------
\* No handler catches a driver error (a lost connection, a statement timeout,
\* "database is locked" after too long a wait for the write lock): the open
\* transaction rolls back and the client gets a 500.  What an earlier
\* transaction of the same handler committed stays, and a connection lost
\* during the COMMIT may have committed all the same.
DbFault(c) ==
    /\ DbMayFail
    /\ pc[c] # "idle" /\ ~Invalid(c)
    /\ Answer(c, "failed", Absent)
    /\ \/ /\ writer' = IF writer = c THEN NoClient ELSE writer
          /\ staged' = IF writer = c THEN table ELSE staged
          /\ UNCHANGED <<table, dirty>>
       \/ Publish(c)

-----------------------------------------------------------------------------
Init ==
    /\ table = [k \in Keys |-> Absent]
    /\ staged = table
    /\ writer = NoClient
    /\ pc = [c \in Clients |-> "idle"]
    /\ req = [c \in Clients |-> NoRequest]
    /\ reply = [c \in Clients |-> NoReply]
    /\ dirty = [c \in Clients |-> FALSE]

Handle(c) ==
    \/ RejectInvalid(c)
    \/ CreateRow(c) \/ CreateResolver(c)
    \/ FullUpdate(c)
    \/ PartialUpdate(c) \/ UpdateResolver(c)
    \/ GetRow(c) \/ ByIdResolver(c)
    \/ DeleteRow(c) \/ DeleteResolver(c)
    \/ DbFault(c)

Next == \E c \in Clients : Receive(c) \/ Handle(c)

Spec == Init /\ [][Next]_vars

-----------------------------------------------------------------------------
TypeOK ==
    /\ table \in Table
    /\ staged \in Table
    /\ writer \in Clients \cup {NoClient}
    /\ pc \in [Clients -> {"idle", "execute", "commit", "readback"}]
    /\ req \in [Clients -> Requests \cup {NoRequest}]
    /\ reply \in [Clients -> Replies \cup {NoReply}]
    /\ dirty \in [Clients -> BOOLEAN]

\* A request whose own change is committed while it reads back.
Changes(r) ==
    \/ r.method \in Creates \cup {"PUT"}
    \/ r.method \in Patches /\ ~NoUpdates(r.body)

Phase(c) ==
    IF pc[c] = "idle" THEN "idle"
    ELSE IF pc[c] = "readback" /\ Changes(req[c]) THEN "taken"
    ELSE "asked"

\* The endpoints keep the promise of TableService: each write is one change
\* of the table decided by the table it finds, a 404, 409 or 422 of a create,
\* PUT or DELETE has changed nothing, exactly one DELETE of a row answers 204,
\* a PATCH leaves every column it does not name alone, and a returned row is
\* the committed row of that moment.
Service == INSTANCE TableService WITH
    rows <- table,
    ask <- req,
    phase <- [c \in Clients |-> Phase(c)],
    answer <- reply

ImplementsTableService == Service!Spec

\* A client that is answered "ok" reads its own write: every column it sent
\* comes back as sent, unless another request changed that row after this
\* one committed (rest.py and graphql.py read back after their transaction).
ReadYourWrites ==
    [][\A c \in Clients :
          (/\ pc[c] = "readback" /\ pc'[c] = "idle"
           /\ reply'[c].outcome = "ok"
           /\ ~dirty[c]) =>
             \A col \in Columns :
                Sent(c)[col] # Unset => reply'[c].row[col] = Sent(c)[col]]_vars

\* The write lock is held exactly by the handler between its statement and
\* its commit: whichever way a handler ends, conflict, 404 from inside the
\* transaction or driver error, it never leaves a transaction open that would
\* block every other writer.
NoTransactionLeak ==
    /\ \A c \in Clients : pc[c] = "commit" <=> writer = c
    /\ writer = NoClient => staged = table

\* specs/04: PUT returns 200 or 404.  (Checked with a database that never
\* fails and has no constraint to break: the 500 comes from the race alone.)
PutAnswers200Or404 ==
    [][\A c \in Clients :
          At(c, "readback", {"PUT"}) /\ pc'[c] = "idle" =>
             reply'[c].outcome \in {"ok", "missing"}]_vars
=============================================================================
