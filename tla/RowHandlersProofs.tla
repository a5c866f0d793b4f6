------------------------- MODULE RowHandlersProofs -------------------------
(***************************************************************************)
(* Theorems about RowHandlers, for any number of clients, any keys, columns*)
(* and constraints, and any bodies.                                        *)
(***************************************************************************)
EXTENDS RowHandlers, TLAPS

\* A handler past its statement serves a request, whose key it knows.
Serving ==
    \A c \in Clients :
        /\ pc[c] # "idle" => req[c] \in Requests
        /\ pc[c] \in {"commit", "readback"} => Key(c) \in Keys
        /\ pc[c] = "commit" => req[c].method \notin Reads
        /\ pc[c] = "readback" => req[c].method \in Creates \cup Patches \cup {"PUT"}

\* What the statement of c has staged, in terms of the table it found, which
\* nobody else can change before c ends its transaction.
Plan(c) ==
    LET k == Key(c) IN
    /\ req[c].method \in Creates =>
          /\ table[k] = Absent /\ ~Violates(table, k, Fill(Sent(c)))
          /\ staged = [table EXCEPT ![k] = Fill(Sent(c))]
    /\ req[c].method = "PUT" =>
          /\ table[k] # Absent /\ ~Violates(table, k, Fill(Sent(c)))
          /\ staged = [table EXCEPT ![k] = Fill(Sent(c))]
    /\ req[c].method \in Patches =>
          /\ ~NoUpdates(Sent(c))
          /\ \/ table[k] = Absent /\ staged = table
             \/ /\ table[k] # Absent
                /\ ~Violates(table, k, Merge(table[k], Sent(c)))
                /\ staged = [table EXCEPT ![k] = Merge(table[k], Sent(c))]
    /\ req[c].method \in Removes => staged = [table EXCEPT ![k] = Absent]

Planned == \A c \in Clients : pc[c] = "commit" => Plan(c)

\* Row r shows every column of body b that was sent.
Shows(r, b) == \A col \in Columns : b[col] # Unset => r[col] = b[col]

\* What c wrote is in the table until another client writes that row.
OwnRow ==
    \A c \in Clients :
        pc[c] = "readback" /\ Changes(req[c]) /\ ~dirty[c] =>
            table[Key(c)] # Absent /\ Shows(table[Key(c)], Sent(c))

IInv == TypeOK /\ NoTransactionLeak /\ Serving /\ Planned /\ OwnRow

-----------------------------------------------------------------------------
(* The operators of TableRows.                                             *)

\* A request has the key its method names (a create may have none yet).
LEMMA RequestTyped ==
    ASSUME NEW r \in Requests
    PROVE  /\ r.method \in Creates \cup Patches \cup Removes \cup Reads \cup {"PUT"}
           /\ r.key \in Keys \cup {NoKey} /\ r.body \in Body
           /\ r.method \notin Creates => r.key \in Keys
<1>1. NoBody \in Body
  BY DEF NoBody, Body
<1>2. 1 \in Keys
  BY TableAssumption, SMT DEF TableAssumption, Keys
<1> QED  BY <1>1, <1>2, HandlerAssumption DEF HandlerAssumption, Requests, Creates, Patches, Removes, Reads

\* The INSERT of a well-typed create fixes its key.
LEMMA KeyFixed ==
    ASSUME NEW r \in Requests, r.method \in Creates, r.wellTyped, NEW k \in Keys
    PROVE  [r EXCEPT !.key = k] \in Requests
BY DEF Requests, Creates, Patches, Removes, Reads

\* A body fills a row that shows every column it sent.
LEMMA FillTyped ==
    ASSUME NEW b \in Body
    PROVE  Fill(b) \in Row /\ Shows(Fill(b), b)
BY DEF Fill, Body, Row, Shows

\* A merge yields a row that shows every column that was sent.
LEMMA MergeTyped ==
    ASSUME NEW b \in Body, NEW r \in Row
    PROVE  Merge(r, b) \in Row /\ Shows(Merge(r, b), b)
BY DEF Merge, Body, Row, Shows

-----------------------------------------------------------------------------
(* The kinds of steps a handler takes, with what each does to the others.  *)

RowTypes == Row \cup Body \cup {Absent}

Others(c) == \A d \in Clients \ {c} : pc'[d] = pc[d] /\ req'[d] = req[d]

\* It answers, outside any transaction.
Ends(c) ==
    /\ pc[c] # "commit"
    /\ \E o \in Outcomes, row \in RowTypes : Answer(c, o, row)
    /\ UNCHANGED <<table, staged, writer, dirty>>

\* PATCH without a column goes on to read.
Skips(c) ==
    /\ pc[c] = "execute" /\ req[c].method \in Patches /\ NoUpdates(Sent(c))
    /\ Goto(c, "readback")
    /\ UNCHANGED <<table, staged, writer, dirty>>

\* Its statement has run.
Stages(c) ==
    /\ pc[c] = "execute" /\ writer = NoClient
    /\ \E r \in Requests : /\ req' = [req EXCEPT ![c] = r]
                           /\ r.key \in Keys /\ r.method \notin Reads
    /\ pc' = [pc EXCEPT ![c] = "commit"] /\ writer' = c
    /\ staged' \in Table /\ Plan(c)'
    /\ UNCHANGED <<table, reply, dirty>>

\* Its transaction commits, and it reads back or answers.
Commits(c) ==
    /\ Publish(c)
    /\ \/ /\ Goto(c, "readback")
          /\ req[c].method \in Creates \cup Patches \cup {"PUT"}
          /\ req[c].method \in Patches => table[Key(c)] # Absent
       \/ \E o \in Outcomes, row \in RowTypes : Answer(c, o, row)

\* Its transaction rolls back.
RollsBack(c) ==
    /\ writer = c /\ writer' = NoClient /\ staged' = table
    /\ Answer(c, "failed", Absent)
    /\ UNCHANGED <<table, dirty>>

\* A handler at work has a typed request, and its row is a row or absent.
LEMMA RowTyped ==
    ASSUME IInv, NEW c \in Clients, pc[c] # "idle"
    PROVE  /\ req[c] \in Requests /\ Sent(c) \in Body
           /\ Key(c) \in Keys => table[Key(c)] \in Row \cup {Absent}
           /\ req[c].method \notin Creates => Key(c) \in Keys
<1>1. req[c] \in Requests
  BY DEF IInv, Serving
<1> QED  BY <1>1, RequestTyped DEF Sent, Key, IInv, TypeOK, Table

\* The INSERT of a create answers or stages the new row.
LEMMA InsertKind ==
    ASSUME IInv, NEW c \in Clients, pc[c] = "execute", req[c].method \in Creates, Insert(c)
    PROVE  Ends(c) \/ Stages(c)
<1>1. req[c] \in Requests /\ Sent(c) \in Body
  BY RowTyped
<1>2. ASSUME NEW o \in Outcomes, Reject(c, o) PROVE Ends(c)
  BY <1>2 DEF Reject, Ends, RowTypes
<1>3. ASSUME NEW k \in Keys, table[k] = Absent, ~Violates(table, k, Fill(Sent(c))),
             req' = [req EXCEPT ![c].key = k],
             Stage(c, [table EXCEPT ![k] = Fill(Sent(c))])
      PROVE  Stages(c)
  <2> DEFINE r == [req[c] EXCEPT !.key = k]
  <2>1. req[c].wellTyped
    BY DEF Insert, CreateRowValid
  <2>2. r \in Requests /\ r.key = k /\ r.method = req[c].method /\ r.body = req[c].body
    BY <1>1, <2>1, KeyFixed DEF Requests
  <2>3. req' = [req EXCEPT ![c] = r] /\ req'[c] = r
    BY <1>3 DEF IInv, TypeOK
  <2>4. staged' = [table EXCEPT ![k] = Fill(Sent(c))] /\ staged' \in Table
    BY <1>1, <1>3, FillTyped DEF Stage, IInv, TypeOK, Table
  <2> HIDE DEF r
  <2>5. Key(c)' = k /\ Sent(c)' = Sent(c) /\ table' = table
    BY <2>2, <2>3, <1>3 DEF Key, Sent, Stage
  <2>6. Plan(c)'
    BY <2>2, <2>3, <2>4, <2>5, <1>3 DEF Plan, Creates, Patches, Removes
  <2>7. r.method \notin Reads
    BY <2>2 DEF Creates, Reads
  <2> QED  BY <1>3, <2>2, <2>3, <2>4, <2>6, <2>7 DEF Stages, Stage
<1> QED  BY <1>2, <1>3 DEF Insert, Outcomes

\* PUT, PATCH and DELETE keep their request when they stage.
LEMMA SameRequest ==
    ASSUME IInv, NEW c \in Clients, pc[c] = "execute", req[c].method \notin Reads \cup Creates,
           NEW rows \in Table, Stage(c, rows), UNCHANGED req,
           Key(c) \in Keys /\ staged' = rows /\ table' = table => Plan(c)'
    PROVE  Stages(c)
<1>1. req[c] \in Requests /\ req[c].key \in Keys /\ req[c].method \notin Reads
  BY RowTyped DEF Key, Reads, Creates
<1>2. req' = [req EXCEPT ![c] = req[c]]
  BY DEF IInv, TypeOK
<1> QED  BY <1>1, <1>2 DEF Stages, Stage, Key

\* The UPDATE of PUT answers or stages the full row.
LEMMA PutKind ==
    ASSUME IInv, NEW c \in Clients, FullUpdateExecute(c)
    PROVE  Ends(c) \/ Stages(c)
<1>1. pc[c] = "execute" /\ req[c].method = "PUT"
  BY DEF FullUpdateExecute, At
<1>2. req[c] \in Requests /\ Sent(c) \in Body /\ Key(c) \in Keys
  BY <1>1, RowTyped DEF Creates
<1>3. ASSUME NEW o \in Outcomes, Reject(c, o) PROVE Ends(c)
  BY <1>1, <1>3 DEF Reject, Ends, RowTypes
<1> DEFINE rows == [table EXCEPT ![Key(c)] = Fill(Sent(c))]
<1>4. ASSUME table[Key(c)] # Absent, ~Violates(table, Key(c), Fill(Sent(c))),
             Stage(c, rows), UNCHANGED req
      PROVE  Stages(c)
  <2>1. rows \in Table
    BY <1>2, FillTyped DEF IInv, TypeOK, Table
  <2>2. staged' = rows /\ table' = table => Plan(c)'
    BY <1>1, <1>4 DEF Plan, Key, Sent, Creates, Patches, Removes
  <2> HIDE DEF rows
  <2> QED  BY <1>1, <1>4, <2>1, <2>2, SameRequest DEF Reads, Creates
<1> QED  BY <1>3, <1>4 DEF FullUpdateExecute, Outcomes

\* The UPDATE of a patch answers, skips an empty body or stages the merge.
LEMMA MergeKind ==
    ASSUME IInv, NEW c \in Clients, pc[c] = "execute", req[c].method \in Patches,
           MergeExecute(c)
    PROVE  Ends(c) \/ Skips(c) \/ Stages(c)
<1>2. req[c] \in Requests /\ Sent(c) \in Body /\ Key(c) \in Keys
      /\ table[Key(c)] \in Row \cup {Absent}
  BY RowTyped DEF Creates, Patches
<1>3. ASSUME NEW o \in Outcomes, Reject(c, o) PROVE Ends(c)
  BY <1>3 DEF Reject, Ends, RowTypes
<1> DEFINE new == Merge(table[Key(c)], Sent(c))
           rows == [table EXCEPT ![Key(c)] = new]
<1>4. ASSUME ~NoUpdates(Sent(c)), table[Key(c)] # Absent, ~Violates(table, Key(c), new),
             Stage(c, rows), UNCHANGED req
      PROVE  Stages(c)
  <2>1. rows \in Table
    BY <1>2, <1>4, MergeTyped DEF IInv, TypeOK, Table
  <2>2. staged' = rows /\ table' = table => Plan(c)'
    BY <1>4 DEF Plan, Key, Sent, Creates, Patches, Removes
  <2> HIDE DEF rows
  <2> QED  BY <1>4, <2>1, <2>2, SameRequest DEF Reads, Creates, Patches
<1>5. ASSUME ~NoUpdates(Sent(c)), table[Key(c)] = Absent, Stage(c, table), UNCHANGED req
      PROVE  Stages(c)
  <2>1. staged' = table /\ table' = table => Plan(c)'
    BY <1>5 DEF Plan, Key, Sent, Creates, Patches, Removes
  <2> QED  BY <1>5, <2>1, SameRequest DEF Reads, Creates, Patches, IInv, TypeOK
<1> QED  BY <1>3, <1>4, <1>5 DEF MergeExecute, Outcomes, Skips

\* DELETE stages the table without its row.
LEMMA EraseKind ==
    ASSUME IInv, NEW c \in Clients, pc[c] = "execute", req[c].method \in Removes,
           EraseExecute(c)
    PROVE  Stages(c)
<1>1. Key(c) \in Keys
  BY RowTyped DEF Creates, Removes
<1> DEFINE rows == [table EXCEPT ![Key(c)] = Absent]
<1>2. rows \in Table
  BY <1>1 DEF IInv, TypeOK, Table
<1>3. UNCHANGED req => (staged' = rows /\ table' = table => Plan(c)')
  BY DEF Plan, Key, Sent, Creates, Patches, Removes
<1> HIDE DEF rows
<1>4. Stage(c, rows) /\ UNCHANGED req
  BY DEF EraseExecute, rows
<1> QED  BY <1>2, <1>3, <1>4, SameRequest DEF Reads, Creates, Removes

\* A handler that reads its row back answers with what it found.
LEMMA ShowKind ==
    ASSUME IInv, NEW c \in Clients, pc[c] \in {"execute", "readback"}, Key(c) \in Keys,
           \/ ShowRow(c)
           \/ /\ UNCHANGED <<table, staged, writer, dirty>>
              /\ \/ Answer(c, "ok", CreatedBody(c))
                 \/ Select(c) # Absent /\ Answer(c, "ok", Select(c))
                 \/ Answer(c, "failed", Absent)
    PROVE  Ends(c)
<1>1. Select(c) \in RowTypes /\ Sent(c) \in RowTypes /\ CreatedBody(c) \in RowTypes
  BY RowTyped DEF Select, CreatedBody, RowTypes
<1> QED  BY <1>1 DEF ShowRow, Ends, Outcomes, RowTypes

\* An open transaction is that of the one handler about to commit.
LEMMA Holder ==
    ASSUME IInv, NEW c \in Clients
    PROVE  /\ writer = c <=> pc[c] = "commit"
           /\ pc[c] = "commit" => Plan(c) /\ Key(c) \in Keys /\ req[c].method \notin Reads
BY DEF IInv, NoTransactionLeak, Planned, Serving

\* A database error answers, after a commit or a rollback if one was open.
LEMMA FaultKind ==
    ASSUME IInv, NEW c \in Clients, DbFault(c)
    PROVE  Ends(c) \/ Commits(c) \/ RollsBack(c)
<1>1. Answer(c, "failed", Absent) /\ "failed" \in Outcomes /\ Absent \in RowTypes
  BY DEF DbFault, Outcomes, RowTypes
<1>2. CASE Publish(c)
  BY <1>1, <1>2 DEF Commits
<1>3. CASE writer = c /\ ~Publish(c)
  BY <1>1, <1>3 DEF DbFault, RollsBack
<1>4. CASE writer # c /\ ~Publish(c)
  BY <1>1, <1>4, Holder DEF DbFault, Ends
<1> QED  BY <1>2, <1>3, <1>4

\* Every step of a handler is of one of the five kinds.
LEMMA HandleKind ==
    ASSUME IInv, NEW c \in Clients, Handle(c)
    PROVE  Ends(c) \/ Skips(c) \/ Stages(c) \/ Commits(c) \/ RollsBack(c)
<1>a. Absent \in RowTypes /\ {"ok", "missing", "invalid", "failed"} \subseteq Outcomes
  BY DEF RowTypes, Outcomes
<1>b. pc[c] \in {"execute", "readback"} /\ req[c].method \notin Creates => Key(c) \in Keys
  BY RowTyped
<1>c. pc[c] = "readback" => Key(c) \in Keys
  BY DEF IInv, Serving
<1>1. CASE RejectInvalid(c)
  BY <1>1, <1>a DEF RejectInvalid, Invalid, At, Reject, Ends
<1>2. CASE CreateRow(c) \/ CreateResolver(c)
  <2>1. CASE pc[c] = "execute"
    BY <1>2, <2>1, InsertKind DEF CreateRow, CreateResolver, At, Creates
  <2>2. CASE pc[c] = "commit"
    BY <1>2, <2>2 DEF CreateRow, CreateResolver, At, Creates, Patches, Commits
  <2>3. CASE pc[c] = "readback"
    BY <1>2, <1>c, <2>3, ShowKind DEF CreateRow, CreateResolver, At
  <2> QED  BY <1>2, <2>1, <2>2, <2>3 DEF CreateRow, CreateResolver, At
<1>3. CASE FullUpdate(c)
  <2>1. CASE FullUpdateExecute(c)
    BY <2>1, PutKind
  <2>2. CASE pc[c] = "commit"
    BY <1>3, <2>2 DEF FullUpdate, FullUpdateExecute, FullUpdateReadBack, At, Patches, Commits
  <2>3. CASE FullUpdateReadBack(c)
    BY <1>c, <2>3, ShowKind DEF FullUpdateReadBack, At
  <2> QED  BY <1>3, <2>1, <2>2, <2>3 DEF FullUpdate, At
<1>4. CASE PartialUpdate(c) \/ UpdateResolver(c)
  <2>1. CASE pc[c] = "execute"
    BY <1>4, <2>1, MergeKind DEF PartialUpdate, UpdateResolver, At, Patches
  <2>2. CASE pc[c] = "commit"
    <3>1. req[c].method \in Patches /\ MergeCommit(c)
      BY <1>4, <2>2 DEF PartialUpdate, UpdateResolver, At, Patches
    <3> QED  BY <1>a, <3>1 DEF MergeCommit, RowCount, Commits
  <2>3. CASE pc[c] = "readback"
    BY <1>4, <1>c, <2>3, ShowKind DEF PartialUpdate, UpdateResolver, At
  <2> QED  BY <1>4, <2>1, <2>2, <2>3 DEF PartialUpdate, UpdateResolver, At
<1>5. CASE GetRow(c) \/ ByIdResolver(c)
  BY <1>5, <1>b, ShowKind DEF GetRow, ByIdResolver, At, Creates
<1>6. CASE DeleteRow(c) \/ DeleteResolver(c)
  <2>1. CASE pc[c] = "execute"
    BY <1>6, <2>1, EraseKind DEF DeleteRow, DeleteResolver, At, Removes
  <2>2. CASE pc[c] = "commit"
    <3>1. EraseCommit(c)
      BY <1>6, <2>2 DEF DeleteRow, DeleteResolver, At
    <3> QED  BY <1>a, <3>1 DEF EraseCommit, Commits
  <2> QED  BY <1>6, <2>1, <2>2 DEF DeleteRow, DeleteResolver, At
<1>7. CASE DbFault(c)
  BY <1>7, FaultKind
<1> QED  BY <1>1, <1>2, <1>3, <1>4, <1>5, <1>6, <1>7 DEF Handle

-----------------------------------------------------------------------------
(* Each kind of step keeps the invariant.                                  *)

\* The invariant holds when the server starts.
LEMMA InitInv == Init => IInv
<1> SUFFICES ASSUME Init PROVE IInv
  OBVIOUS
<1>1. TypeOK
  BY DEF Init, TypeOK, Table
<1> QED  BY <1>1, HandlerAssumption
         DEF Init, IInv, HandlerAssumption, NoTransactionLeak, Serving, Planned, OwnRow

\* Every answer is an outcome with a row, a body or nothing.
LEMMA ReplyTyped ==
    ASSUME IInv, NEW c \in Clients, NEW o \in Outcomes, NEW row \in RowTypes,
           Answer(c, o, row)
    PROVE  /\ pc' \in [Clients -> {"idle", "execute", "commit", "readback"}]
           /\ req' \in [Clients -> Requests \cup {NoRequest}]
           /\ reply' \in [Clients -> Replies \cup {NoReply}]
           /\ pc'[c] = "idle" /\ reply'[c].outcome = o
           /\ Others(c)
<1>1. [outcome |-> o, row |-> row] \in Replies
  BY DEF Replies, RowTypes
<1> QED  BY <1>1 DEF Answer, IInv, TypeOK, Others

\* An answer outside a transaction keeps the invariant.
LEMMA EndsInv ==
    ASSUME IInv, NEW c \in Clients, Ends(c)
    PROVE  IInv'
<1>1. PICK o \in Outcomes, row \in RowTypes : Answer(c, o, row)
  BY DEF Ends
<1>2. /\ pc[c] # "commit" /\ pc'[c] = "idle" /\ Others(c)
      /\ UNCHANGED <<table, staged, writer, dirty>>
  BY <1>1, ReplyTyped DEF Ends
<1>3. TypeOK'
  BY <1>1, <1>2, ReplyTyped DEF IInv, TypeOK
<1>4. NoTransactionLeak' /\ Serving' /\ OwnRow'
  BY <1>2 DEF IInv, NoTransactionLeak, Serving, OwnRow, Others, Key, Sent
<1>5. Planned'
  BY <1>2 DEF IInv, Planned, Plan, Others, Key, Sent
<1> QED  BY <1>3, <1>4, <1>5 DEF IInv

\* Reading after an empty patch keeps the invariant.
LEMMA SkipsInv ==
    ASSUME IInv, NEW c \in Clients, Skips(c)
    PROVE  IInv'
<1>1. /\ pc' = [pc EXCEPT ![c] = "readback"]
      /\ UNCHANGED <<req, reply, table, staged, writer, dirty>>
      /\ pc[c] = "execute" /\ req[c].method \in Patches /\ NoUpdates(Sent(c))
  BY DEF Skips, Goto
<1>2. pc'[c] = "readback" /\ \A d \in Clients \ {c} : pc'[d] = pc[d]
  BY <1>1 DEF IInv, TypeOK
<1>3. req[c] \in Requests /\ Key(c) \in Keys
  BY <1>1, RowTyped DEF Creates, Patches
<1>4. ~Changes(req[c])
  BY <1>1 DEF Changes, Creates, Patches, Sent
<1>5. TypeOK'
  BY <1>1 DEF IInv, TypeOK
<1>6. NoTransactionLeak' /\ Serving' /\ OwnRow'
  BY <1>1, <1>2, <1>3, <1>4 DEF IInv, NoTransactionLeak, Serving, OwnRow, Key, Sent
<1>7. Planned'
  BY <1>1, <1>2 DEF IInv, Planned, Plan, Key, Sent
<1> QED  BY <1>5, <1>6, <1>7 DEF IInv

\* A statement that stages rows keeps the invariant.
LEMMA StagesInv ==
    ASSUME IInv, NEW c \in Clients, Stages(c)
    PROVE  IInv'
<1>1. PICK r \in Requests : /\ req' = [req EXCEPT ![c] = r]
                            /\ r.key \in Keys /\ r.method \notin Reads
  BY DEF Stages
<1>2. /\ pc[c] = "execute" /\ writer = NoClient /\ writer' = c
      /\ pc' = [pc EXCEPT ![c] = "commit"]
      /\ staged' \in Table /\ Plan(c)'
      /\ UNCHANGED <<table, reply, dirty>>
  BY DEF Stages
<1>3. pc'[c] = "commit" /\ req'[c] = r /\ Others(c)
  BY <1>1, <1>2 DEF IInv, TypeOK, Others
<1>4. TypeOK'
  BY <1>1, <1>2 DEF IInv, TypeOK
<1>5. \A d \in Clients : pc[d] # "commit"
  BY <1>2, HandlerAssumption DEF IInv, NoTransactionLeak, HandlerAssumption
<1>6. NoTransactionLeak'
  BY <1>2, <1>3, <1>5, HandlerAssumption DEF NoTransactionLeak, Others, HandlerAssumption
<1>7. Serving' /\ OwnRow'
  BY <1>1, <1>2, <1>3 DEF IInv, Serving, OwnRow, Others, Key, Sent
<1>8. Planned'
  BY <1>2, <1>3, <1>5 DEF Planned, Others
<1> QED  BY <1>4, <1>6, <1>7, <1>8 DEF IInv

\* A rollback keeps the invariant.
LEMMA RollsBackInv ==
    ASSUME IInv, NEW c \in Clients, RollsBack(c)
    PROVE  IInv'
<1>1. "failed" \in Outcomes /\ Absent \in RowTypes
  BY DEF Outcomes, RowTypes
<1>2. /\ writer = c /\ writer' = NoClient /\ staged' = table
      /\ pc'[c] = "idle" /\ Others(c) /\ UNCHANGED <<table, dirty>>
  BY <1>1, ReplyTyped DEF RollsBack
<1>3. TypeOK'
  BY <1>1, <1>2, ReplyTyped DEF RollsBack, IInv, TypeOK
<1>4. \A d \in Clients \ {c} : pc[d] # "commit"
  BY <1>2 DEF IInv, NoTransactionLeak
<1>5. NoTransactionLeak' /\ Serving' /\ OwnRow' /\ Planned'
  BY <1>2, <1>4, HandlerAssumption
     DEF IInv, NoTransactionLeak, Serving, OwnRow, Planned, Others, Key, Sent, HandlerAssumption
<1> QED  BY <1>3, <1>5 DEF IInv

\* What a committed statement leaves in the row it names.
LEMMA PlanShows ==
    ASSUME IInv, NEW c \in Clients, pc[c] = "commit", Changes(req[c]),
           req[c].method \in Patches => table[Key(c)] # Absent
    PROVE  staged[Key(c)] # Absent /\ Shows(staged[Key(c)], Sent(c))
<1>1. /\ Plan(c) /\ Key(c) \in Keys /\ Sent(c) \in Body
      /\ table[Key(c)] \in Row \cup {Absent} /\ table \in Table
  BY Holder, RowTyped DEF IInv, TypeOK
<1>2. \A row \in Row : row # Absent
  BY TableAssumption DEF TableAssumption
<1>3. CASE req[c].method \in Creates \cup {"PUT"}
  BY <1>1, <1>2, <1>3, FillTyped DEF Plan, Table
<1>4. CASE req[c].method \in Patches
  BY <1>1, <1>2, <1>4, MergeTyped DEF Plan, Table, Creates, Patches
<1> QED  BY <1>3, <1>4 DEF Changes

\* A commit keeps the invariant.
LEMMA CommitsInv ==
    ASSUME IInv, NEW c \in Clients, Commits(c)
    PROVE  IInv'
<1>1. /\ writer = c /\ writer' = NoClient /\ table' = staged /\ staged' = staged
      /\ pc[c] = "commit" /\ req[c] \in Requests /\ Key(c) \in Keys
  BY Holder, RowTyped DEF Commits, Publish
<1>2. \A d \in Clients :
         dirty'[d] = (/\ d # c /\ pc[d] = "readback"
                      /\ dirty[d] \/ table[Key(d)] # staged[Key(d)])
  BY DEF Commits, Publish
<1>3. dirty' \in [Clients -> BOOLEAN]
  BY DEF Commits, Publish
<1>4. CASE /\ Goto(c, "readback")
           /\ req[c].method \in Creates \cup Patches \cup {"PUT"}
           /\ req[c].method \in Patches => table[Key(c)] # Absent
  <2>1. /\ pc'[c] = "readback" /\ req'[c] = req[c] /\ Others(c)
        /\ UNCHANGED <<req, reply>>
        /\ pc' \in [Clients -> {"idle", "execute", "commit", "readback"}]
    BY <1>4 DEF Goto, IInv, TypeOK, Others
  <2>2. TypeOK'
    BY <1>1, <1>3, <2>1 DEF IInv, TypeOK
  <2>3. OwnRow'
    BY <1>1, <1>2, <1>4, <2>1, PlanShows DEF IInv, OwnRow, Others, Key, Sent
  <2>4. NoTransactionLeak' /\ Serving' /\ Planned'
    BY <1>1, <1>4, <2>1, HandlerAssumption
       DEF IInv, NoTransactionLeak, Serving, Planned, Others, Key, Sent, HandlerAssumption
  <2> QED  BY <2>2, <2>3, <2>4 DEF IInv
<1>5. CASE \E o \in Outcomes, row \in RowTypes : Answer(c, o, row)
  <2>1. pc'[c] = "idle" /\ Others(c)
    BY <1>5, ReplyTyped
  <2>2. TypeOK'
    BY <1>1, <1>3, <1>5, ReplyTyped DEF IInv, TypeOK
  <2>3. OwnRow'
    BY <1>1, <1>2, <2>1 DEF IInv, OwnRow, Others, Key, Sent
  <2>4. NoTransactionLeak' /\ Serving' /\ Planned'
    BY <1>1, <2>1, HandlerAssumption
       DEF IInv, NoTransactionLeak, Serving, Planned, Others, Key, Sent, HandlerAssumption
  <2> QED  BY <2>2, <2>3, <2>4 DEF IInv
<1> QED  BY <1>4, <1>5 DEF Commits

\* A request that arrives keeps the invariant.
LEMMA ReceiveInv ==
    ASSUME IInv, NEW c \in Clients, Receive(c)
    PROVE  IInv'
<1>1. PICK r \in Requests : req' = [req EXCEPT ![c] = r]
  BY DEF Receive
<1>2. pc[c] = "idle" /\ pc'[c] = "execute" /\ req'[c] = r /\ Others(c)
      /\ UNCHANGED <<table, staged, writer, dirty>>
  BY <1>1 DEF Receive, Others, IInv, TypeOK
<1>3. TypeOK'
  BY <1>1 DEF Receive, IInv, TypeOK
<1>4. NoTransactionLeak' /\ Serving' /\ OwnRow'
  BY <1>1, <1>2 DEF IInv, NoTransactionLeak, Serving, OwnRow, Others, Key, Sent
<1>5. Planned'
  BY <1>2 DEF IInv, Planned, Plan, Others, Key, Sent
<1> QED  BY <1>3, <1>4, <1>5 DEF IInv

\* Every step keeps the invariant.
LEMMA StepInv == IInv /\ [Next]_vars => IInv'
<1> SUFFICES ASSUME IInv, [Next]_vars PROVE IInv'
  OBVIOUS
<1>1. ASSUME NEW c \in Clients, Receive(c) PROVE IInv'
  BY <1>1, ReceiveInv
<1>2. ASSUME NEW c \in Clients, Handle(c) PROVE IInv'
  BY <1>2, HandleKind, EndsInv, SkipsInv, StagesInv, CommitsInv, RollsBackInv
<1>3. CASE UNCHANGED vars
  BY <1>3 DEF vars, IInv, TypeOK, NoTransactionLeak, Serving, Planned, Plan, OwnRow, Key, Sent
<1> QED  BY <1>1, <1>2, <1>3 DEF Next

\* The invariant holds in every reachable state.
LEMMA Invariance == Spec => []IInv
BY InitInv, StepInv, PTL DEF Spec

-----------------------------------------------------------------------------
\* Tables, requests and replies keep their types.
THEOREM TypeCorrect == Spec => []TypeOK
BY Invariance, PTL DEF IInv

\* However a handler ends, it leaves no transaction open that would block
\* every other writer (rest.py and graphql.py, engine.begin()).
THEOREM NoLeak == Spec => []NoTransactionLeak
BY Invariance, PTL DEF IInv

\* The read-back of a handler shows its own write.
LEMMA ReadBackShows ==
    ASSUME IInv, NEW c \in Clients, Handle(c), pc[c] = "readback", pc'[c] = "idle",
           reply'[c].outcome = "ok", ~dirty[c],
           NEW col \in Columns, Sent(c)[col] # Unset
    PROVE  reply'[c].row[col] = Sent(c)[col]
<1>1. /\ req[c].method \in Creates \cup Patches \cup {"PUT"}
      /\ ~Invalid(c) /\ Changes(req[c])
  BY DEF IInv, Serving, Invalid, At, Changes, NoUpdates, Sent
<1>2. table[Key(c)] # Absent /\ Shows(table[Key(c)], Sent(c))
  BY <1>1 DEF IInv, OwnRow
<1>3. ASSUME NEW o, NEW row, Answer(c, o, row)
      PROVE  o = "ok" /\ reply'[c].row = row
  <2>1. reply'[c] = [outcome |-> o, row |-> row]
    BY <1>3 DEF Answer, IInv, TypeOK
  <2> QED  BY <2>1
<1>4. ~DbFault(c)
  <2>1. ~Answer(c, "failed", Absent)
    BY <1>3
  <2> QED  BY <2>1 DEF DbFault
<1>5. Answer(c, "ok", table[Key(c)]) \/ Answer(c, "missing", Absent) \/ Answer(c, "failed", Absent)
  BY <1>1, <1>2, <1>4
     DEF Handle, RejectInvalid, CreateRow, CreateResolver, FullUpdate, FullUpdateExecute,
         FullUpdateReadBack, PartialUpdate, UpdateResolver, GetRow, ByIdResolver, DeleteRow,
         DeleteResolver, ShowRow, CreatedBody, Select, At
<1>6. Answer(c, "ok", table[Key(c)])
  BY <1>3, <1>5
<1> QED  BY <1>2, <1>3, <1>6 DEF Shows

\* A client answered "ok" reads its own write unless another client has
\* written that row since.
THEOREM OwnWriteRead == Spec => ReadYourWrites
<1> DEFINE Shown(c) ==
        (/\ pc[c] = "readback" /\ pc'[c] = "idle"
         /\ reply'[c].outcome = "ok"
         /\ ~dirty[c]) =>
           \A col \in Columns : Sent(c)[col] # Unset => reply'[c].row[col] = Sent(c)[col]
<1>1. IInv /\ [Next]_vars => [\A c \in Clients : Shown(c)]_vars
  <2> SUFFICES ASSUME IInv, Next, NEW c \in Clients, pc[c] = "readback", pc'[c] = "idle"
               PROVE  Shown(c)
    OBVIOUS
  <2>1. PICK d \in Clients : Receive(d) \/ Handle(d)
    BY DEF Next
  <2>2. d = c
    <3>1. CASE Receive(d)
      BY <3>1 DEF Receive, IInv, TypeOK
    <3>2. CASE Handle(d)
      <4>1. d # c => pc'[c] = pc[c]
        BY <3>2, HandleKind, ReplyTyped
           DEF Ends, Skips, Stages, Commits, RollsBack, Goto, Answer, IInv, TypeOK
      <4> QED  BY <4>1
    <3> QED  BY <2>1, <3>1, <3>2
  <2>3. Handle(c)
    BY <2>1, <2>2 DEF Receive
  <2> QED  BY <2>3, ReadBackShows
<1> QED  BY <1>1, Invariance, PTL DEF Spec, ReadYourWrites

-----------------------------------------------------------------------------
(* Each step of a handler is a step of TableService or leaves its state    *)
(* alone.  A write is taken when its transaction commits; a refusal is     *)
(* decided by the statement, or by the COMMIT that changes nothing.        *)

Phases == [c \in Clients |-> Phase(c)]

\* The abstract module's copy of TableRows is the same.
LEMMA SameRows ==
    /\ Service!Keys = Keys /\ Service!NoKey = NoKey /\ Service!Table = Table
    /\ Service!Creates = Creates /\ Service!Patches = Patches /\ Service!Removes = Removes
    /\ \A b : Service!Fill(b) = Fill(b) /\ Service!NoUpdates(b) = NoUpdates(b)
    /\ \A b : Service!CreateValid(b) = CreateValid(b)
    /\ \A r, b : Service!Merge(r, b) = Merge(r, b)
    /\ \A t, k, r : Service!Violates(t, k, r) = Violates(t, k, r)
BY DEF Service!Keys, Keys, Service!NoKey, NoKey, Service!Table, Table, Service!Row, Row,
       Service!Creates, Creates, Service!Patches, Patches, Service!Removes, Removes,
       Service!Fill, Fill, Service!NoUpdates, NoUpdates, Service!CreateValid, CreateValid,
       Service!Merge, Merge, Service!Violates, Violates

\* Where one handler's step leaves it decides the new phases.
LEMMA PhaseStep ==
    ASSUME IInv, NEW c \in Clients, Others(c)
    PROVE  Phases' = [Phases EXCEPT ![c] = Phase(c)']
BY DEF Phases, Phase, Others

\* The phases are those the abstract service declares.
LEMMA PhaseTyped ==
    ASSUME IInv, NEW c \in Clients
    PROVE  /\ Phases[c] = Phase(c) /\ Phases \in [Clients -> {"idle", "asked", "taken"}]
           /\ Phases[c] = "asked" <=> /\ pc[c] # "idle"
                                      /\ pc[c] = "readback" => ~Changes(req[c])
           /\ Phases[c] = "taken" <=> pc[c] = "readback" /\ Changes(req[c])
BY DEF Phases, Phase

\* An answer ends the request in the abstract service.
LEMMA AnswerMaps ==
    ASSUME IInv, NEW c \in Clients, NEW o \in Outcomes, NEW row \in RowTypes,
           Answer(c, o, row)
    PROVE  Service!Answer(c, o, row)
<1>1. pc'[c] = "idle" /\ Others(c)
  BY ReplyTyped
<1>2. Phase(c)' = "idle"
  BY <1>1 DEF Phase
<1> QED  BY <1>1, <1>2, PhaseStep DEF Answer, Service!Answer, Phases

\* A step that leaves table, requests and replies changes nothing there.
LEMMA StutterMaps ==
    ASSUME IInv, NEW c \in Clients, Others(c), Phase(c)' = Phase(c),
           UNCHANGED <<table, req, reply>>
    PROVE  UNCHANGED Service!vars
BY PhaseStep, PhaseTyped DEF Service!vars, Phases

\* A COMMIT that changes the table takes the write.
LEMMA CommitTakes ==
    ASSUME IInv, NEW c \in Clients, Publish(c), Service!Taken(c),
           req[c].method \in Creates \cup Patches \cup {"PUT"},
           req[c].method \in Patches => table[Key(c)] # Absent
    PROVE  Service!Next
<1>1. /\ pc[c] = "commit" /\ Plan(c) /\ Key(c) \in Keys /\ table' = staged
      /\ req[c] \in Requests
  BY Holder, RowTyped DEF Publish
<1>2. Phases[c] = "asked"
  BY <1>1, PhaseTyped
<1>3. CASE req[c].method \in Creates
  <2>1. Key(c) # NoKey
    BY <1>1 DEF Keys, NoKey
  <2>2. Service!TakeCreate(c)
    BY <1>1, <1>2, <1>3, <2>1, SameRows DEF Service!TakeCreate, Plan, Key, Sent, Phases
  <2> QED  BY <2>2 DEF Service!Next
<1>4. CASE req[c].method = "PUT"
  <2>1. Service!TakeUpdate(c)
    BY <1>1, <1>2, <1>4, SameRows DEF Service!TakeUpdate, Plan, Key, Sent, Phases
  <2> QED  BY <2>1 DEF Service!Next
<1>5. CASE req[c].method \in Patches
  <2>1. Service!TakeUpdate(c)
    BY <1>1, <1>2, <1>5, SameRows
       DEF Service!TakeUpdate, Plan, Key, Sent, Phases, Patches
  <2> QED  BY <2>1 DEF Service!Next
<1> QED  BY <1>3, <1>4, <1>5

\* A fault on the way out of "asked" or "taken" is a failure the client sees.
LEMMA FailMaps ==
    ASSUME IInv, NEW c \in Clients, pc[c] # "idle", Answer(c, "failed", Absent),
           UNCHANGED table
    PROVE  Service!Next
<1>1. Service!Answer(c, "failed", Absent)
  BY AnswerMaps DEF Outcomes, RowTypes
<1>2. CASE Phases[c] = "asked"
  BY <1>1, <1>2 DEF Service!Refuse, Service!Next, Phases
<1>3. CASE Phases[c] = "taken"
  BY <1>1, <1>3 DEF Service!AnswerTaken, Service!Next, Phases
<1> QED  BY <1>2, <1>3, PhaseTyped DEF Phases

\* "missing" is true of the row a request other than a create names.
LEMMA MissingMaps ==
    ASSUME IInv, NEW c \in Clients, pc[c] # "idle", Answer(c, "missing", Absent),
           req[c].method \notin Creates, table[Key(c)] = Absent, UNCHANGED table,
           pc[c] = "readback" => req[c].method \in Patches
    PROVE  Service!Next
<1>1. Service!Answer(c, "missing", Absent)
  BY AnswerMaps DEF Outcomes, RowTypes
<1>2. CASE Phases[c] = "asked"
  BY <1>1, <1>2, SameRows DEF Service!Refuse, Service!Next, Phases, Key
<1>3. CASE Phases[c] = "taken"
  BY <1>1, <1>3, SameRows, PhaseTyped DEF Service!AnswerTaken, Service!Next, Phases, Key
<1> QED  BY <1>2, <1>3, PhaseTyped DEF Phases

\* A read shown to the client is the abstract read.
LEMMA ShownMaps ==
    ASSUME IInv, NEW c \in Clients, pc[c] # "idle", Answer(c, "ok", table[Key(c)]),
           Key(c) \in Keys, table[Key(c)] # Absent, UNCHANGED table,
           \/ pc[c] = "readback"
           \/ req[c].method \in Reads
    PROVE  Service!Next
<1>1. table[Key(c)] \in RowTypes /\ "ok" \in Outcomes
  BY RowTyped DEF RowTypes, Outcomes
<1>2. Service!Answer(c, "ok", table[Key(c)])
  BY <1>1, AnswerMaps
<1>3. CASE Phases[c] = "taken"
  BY <1>2, <1>3 DEF Service!AnswerTaken, Service!Next, Phases, Key
<1>4. CASE Phases[c] = "asked"
  <2>1. \/ req[c].method \in {"GET", "byId"}
        \/ req[c].method \in Patches /\ NoUpdates(req[c].body)
    BY <1>4, PhaseTyped DEF IInv, Serving, Changes, Reads
  <2> QED  BY <1>2, <1>4, <2>1, SameRows DEF Service!Show, Service!Next, Phases, Key
<1> QED  BY <1>3, <1>4, PhaseTyped DEF Phases

\* A request that arrives is the abstract invocation.
LEMMA ReceiveMaps ==
    ASSUME IInv, NEW c \in Clients, Receive(c)
    PROVE  Service!Next
<1>1. PICK r \in Requests : req' = [req EXCEPT ![c] = r]
  BY DEF Receive
<1>2. pc[c] = "idle" /\ pc'[c] = "execute" /\ Others(c)
  BY <1>1 DEF Receive, Others, IInv, TypeOK
<1>3. Phases[c] = "idle" /\ Phase(c)' = "asked"
  BY <1>2 DEF Phases, Phase
<1>4. Service!Call(c)
  BY <1>1, <1>2, <1>3, PhaseStep DEF Service!Call, Receive, Phases
<1> QED  BY <1>4 DEF Service!Next

\* The INSERT of a create is a stutter or a refusal.
LEMMA InsertMaps ==
    ASSUME IInv, NEW c \in Clients, pc[c] = "execute", req[c].method \in Creates, Insert(c)
    PROVE  Service!Next \/ UNCHANGED Service!vars
<1>1. req[c] \in Requests /\ Phases[c] = "asked"
  BY RowTyped, PhaseTyped
<1>2. CASE Reject(c, "failed")
  BY <1>2, FailMaps DEF Reject
<1>3. ASSUME NEW k \in Keys, Key(c) \in {k, NoKey}, Reject(c, "conflict"),
             table[k] # Absent \/ Violates(table, k, Fill(Sent(c)))
      PROVE  Service!Next
  <2>1. Service!Answer(c, "conflict", Absent) /\ UNCHANGED table
    BY <1>3, AnswerMaps DEF Reject, Outcomes, RowTypes
  <2> QED  BY <1>1, <1>3, <2>1, SameRows
           DEF Service!Refuse, Service!Next, Phases, Key, Sent
<1>4. ASSUME NEW k \in Keys, Key(c) \in {k, NoKey}, table[k] = Absent,
             req' = [req EXCEPT ![c].key = k], NEW rows, Stage(c, rows)
      PROVE  Service!Next \/ UNCHANGED Service!vars
  <2>1. /\ Others(c) /\ UNCHANGED <<table, reply>> /\ pc'[c] = "commit"
        /\ req'[c] = [req[c] EXCEPT !.key = k]
    BY <1>4 DEF Stage, Others, IInv, TypeOK
  <2>2. Phase(c)' = "asked" /\ Phases' = Phases
    BY <1>1, <2>1, PhaseStep, PhaseTyped DEF Phase
  <2>3. CASE Key(c) = NoKey
    BY <1>1, <1>4, <2>1, <2>2, <2>3, SameRows
       DEF Service!PickKey, Service!Next, Phases, Key
  <2>4. CASE Key(c) = k
    <3>1. [req[c] EXCEPT !.key = k] = req[c]
      BY <1>1, <2>4, Zenon DEF Key, Requests
    <3>2. req' = req
      BY <1>4, <2>4, <3>1 DEF IInv, TypeOK
    <3> QED  BY <2>1, <2>2, <3>2 DEF Service!vars, Phases
  <2> QED  BY <1>4, <2>3, <2>4
<1>5. \A k \in Keys :
        k \in {j \in Keys : IF Key(c) = NoKey THEN IsNextKey(table, j) ELSE j = Key(c)}
          => Key(c) \in {k, NoKey}
  OBVIOUS
<1> QED  BY <1>2, <1>3, <1>4, <1>5 DEF Insert

\* A statement that waits for its COMMIT, or a PATCH that skips it, is not seen.
LEMMA UnseenMaps ==
    ASSUME IInv, NEW c \in Clients, pc[c] = "execute", UNCHANGED <<req, table, reply>>,
           \/ pc' = [pc EXCEPT ![c] = "commit"]
           \/ pc' = [pc EXCEPT ![c] = "readback"] /\ ~Changes(req[c])
    PROVE  UNCHANGED Service!vars
<1>1. Others(c) /\ Phase(c)' = "asked" /\ Phase(c) = "asked"
  BY DEF Others, IInv, TypeOK, Phase
<1> QED  BY <1>1, StutterMaps

\* A body rejected by validation is a refusal.
LEMMA InvalidMaps ==
    ASSUME IInv, NEW c \in Clients, RejectInvalid(c)
    PROVE  Service!Next
<1>1. Service!Answer(c, "invalid", Absent) /\ UNCHANGED table
  BY AnswerMaps DEF RejectInvalid, Reject, Outcomes, RowTypes
<1>2. Phases[c] = "asked"
  BY PhaseTyped DEF RejectInvalid, Invalid, At
<1>3. \/ ~req[c].wellTyped
      \/ req[c].method \in Creates /\ ~CreateValid(req[c].body)
  BY DEF RejectInvalid, Invalid, At, CreateRowValid, UpdateValid, Sent
<1> QED  BY <1>1, <1>2, <1>3, SameRows DEF Service!Refuse, Service!Next, Phases

\* The UPDATE of PUT and PATCH is a stutter or a refusal.
LEMMA WriteMaps ==
    ASSUME IInv, NEW c \in Clients,
           \/ FullUpdateExecute(c)
           \/ pc[c] = "execute" /\ req[c].method \in Patches /\ MergeExecute(c)
           \/ pc[c] = "execute" /\ req[c].method \in Removes /\ EraseExecute(c)
    PROVE  Service!Next \/ UNCHANGED Service!vars
<1>1. pc[c] = "execute"
  BY DEF FullUpdateExecute, At
<1>2. CASE FullUpdateExecute(c)
  BY <1>1, <1>2, MissingMaps, FailMaps, UnseenMaps
     DEF FullUpdateExecute, At, Reject, Stage, Creates
<1>3. CASE req[c].method \in Patches /\ MergeExecute(c)
  <2>1. NoUpdates(Sent(c)) => ~Changes(req[c])
    BY <1>3 DEF Changes, Sent, Creates, Patches
  <2> QED  BY <1>1, <1>3, <2>1, FailMaps, UnseenMaps DEF MergeExecute, Reject, Stage, Goto
<1>4. CASE EraseExecute(c)
  BY <1>1, <1>4, UnseenMaps DEF EraseExecute, Stage
<1> QED  BY <1>2, <1>3, <1>4

\* A DELETE is taken and answered by its COMMIT.
LEMMA EraseMaps ==
    ASSUME IInv, NEW c \in Clients, Publish(c), req[c].method \in Removes,
           NEW o \in {"ok", "missing", "failed"}, Answer(c, o, Absent),
           o = "missing" <=> o # "failed" /\ table[Key(c)] = Absent
    PROVE  Service!Next
<1>1. pc[c] = "commit" /\ Plan(c) /\ Key(c) \in Keys /\ table' = staged
  BY Holder DEF Publish
<1>2. Phases[c] = "asked" /\ staged = [table EXCEPT ![Key(c)] = Absent]
  BY <1>1, PhaseTyped DEF Plan
<1>3. CASE table[Key(c)] = Absent
  <2>1. table' = table
    BY <1>1, <1>2, <1>3 DEF IInv, TypeOK, Table
  <2> QED  BY <1>1, <1>3, <2>1, MissingMaps, FailMaps DEF Creates, Removes
<1>4. CASE table[Key(c)] # Absent
  <2>1. Service!Answer(c, o, Absent) /\ o \in {"ok", "failed"}
    BY <1>4, AnswerMaps DEF Outcomes, RowTypes
  <2> QED  BY <1>1, <1>2, <1>4, <2>1, SameRows DEF Service!Remove, Service!Next, Phases, Key
<1> QED  BY <1>3, <1>4

\* The COMMIT of a PATCH that found no row changes nothing.
LEMMA EmptyCommit ==
    ASSUME IInv, NEW c \in Clients, Publish(c), req[c].method \in Patches,
           table[Key(c)] = Absent
    PROVE  UNCHANGED table /\ pc[c] = "commit"
BY Holder DEF Publish, Plan

\* Committed, and on to the read-back.
LEMMA PublishMaps ==
    ASSUME IInv, NEW c \in Clients, Publish(c), Goto(c, "readback"),
           req[c].method \in Creates \cup Patches \cup {"PUT"},
           req[c].method \in Patches => table[Key(c)] # Absent
    PROVE  Service!Next
<1>1. pc[c] = "commit" /\ Plan(c)
  BY Holder DEF Publish
<1>2. pc'[c] = "readback" /\ Others(c) /\ UNCHANGED <<req, reply>>
  BY DEF Goto, Others, IInv, TypeOK
<1>3. Changes(req[c])
  BY <1>1 DEF Plan, Changes, Sent
<1>4. Service!Taken(c)
  BY <1>2, <1>3, PhaseStep DEF Phase, Service!Taken, Phases
<1> QED  BY <1>4, CommitTakes

\* A database error is a failure, or the write without its answer.
LEMMA FaultMaps ==
    ASSUME IInv, NEW c \in Clients, DbFault(c)
    PROVE  Service!Next
<1>1. pc[c] # "idle" /\ Answer(c, "failed", Absent)
  BY DEF DbFault
<1>2. CASE UNCHANGED table
  BY <1>1, <1>2, FailMaps
<1>3. CASE Publish(c) /\ ~UNCHANGED table
  <2>1. Service!Taken(c)
    BY <1>1, AnswerMaps DEF Service!Taken, Outcomes, RowTypes
  <2>2. /\ req[c].method \in Creates \cup Patches \cup Removes \cup {"PUT"}
        /\ req[c].method \in Patches => table[Key(c)] # Absent
    BY <1>3, Holder, RowTyped, RequestTyped, EmptyCommit DEF Publish
  <2> QED  BY <1>1, <1>3, <2>1, <2>2, CommitTakes, EraseMaps
<1> QED  BY <1>2, <1>3 DEF DbFault

\* Every step of a handler is a step of the abstract service or a stutter.
LEMMA HandleMaps ==
    ASSUME IInv, NEW c \in Clients, Handle(c)
    PROVE  Service!Next \/ UNCHANGED Service!vars
<1>a. pc[c] = "readback" => Key(c) \in Keys
  BY DEF IInv, Serving
<1>1. CASE RejectInvalid(c)
  BY <1>1, InvalidMaps
<1>2. CASE CreateRow(c) \/ CreateResolver(c)
  <2>1. CASE pc[c] = "execute"
    BY <1>2, <2>1, InsertMaps DEF CreateRow, CreateResolver, At, Creates
  <2>2. CASE pc[c] = "commit"
    BY <1>2, <2>2, PublishMaps DEF CreateRow, CreateResolver, At, Creates, Patches
  <2>3. CASE pc[c] = "readback"
    <3>1. /\ Answer(c, "ok", CreatedBody(c)) /\ UNCHANGED table
          /\ req[c].method \in Creates
      BY <1>2, <2>3 DEF CreateRow, CreateResolver, At, Creates
    <3>2. CASE table[Key(c)] # Absent
      BY <1>a, <2>3, <3>1, <3>2, ShownMaps DEF CreatedBody, Select
    <3>3. CASE table[Key(c)] = Absent
      <4>1. Sent(c) \in RowTypes /\ Phases[c] = "taken"
        BY <2>3, <3>1, RowTyped, PhaseTyped DEF RowTypes, Changes
      <4>2. Service!Answer(c, "ok", Sent(c))
        BY <3>1, <3>3, <4>1, AnswerMaps DEF CreatedBody, Select, Outcomes
      <4> QED  BY <3>1, <3>3, <4>1, <4>2, SameRows
               DEF Service!AnswerTaken, Service!Next, Phases, Key, Sent
    <3> QED  BY <3>2, <3>3
  <2> QED  BY <1>2, <2>1, <2>2, <2>3 DEF CreateRow, CreateResolver, At
<1>3. CASE FullUpdate(c)
  <2>1. CASE FullUpdateExecute(c)
    BY <2>1, WriteMaps
  <2>2. CASE Publish(c) /\ Goto(c, "readback") /\ req[c].method = "PUT"
    BY <2>2, PublishMaps DEF Patches
  <2>3. CASE FullUpdateReadBack(c)
    BY <1>a, <2>3, ShownMaps, FailMaps DEF FullUpdateReadBack, At, Select
  <2> QED  BY <1>3, <2>1, <2>2, <2>3 DEF FullUpdate, At
<1>4. CASE PartialUpdate(c) \/ UpdateResolver(c)
  <2>1. CASE pc[c] = "execute"
    BY <1>4, <2>1, WriteMaps DEF PartialUpdate, UpdateResolver, At, Patches
  <2>2. CASE pc[c] = "commit"
    <3>1. req[c].method \in Patches /\ MergeCommit(c)
      BY <1>4, <2>2 DEF PartialUpdate, UpdateResolver, At, Patches
    <3>2. CASE table[Key(c)] = Absent
      BY <2>2, <3>1, <3>2, EmptyCommit, MissingMaps
         DEF MergeCommit, RowCount, Creates, Patches
    <3>3. CASE table[Key(c)] # Absent
      BY <3>1, <3>3, PublishMaps DEF MergeCommit, RowCount
    <3> QED  BY <3>2, <3>3
  <2>3. CASE pc[c] = "readback"
    BY <1>4, <1>a, <2>3, ShownMaps, MissingMaps
       DEF PartialUpdate, UpdateResolver, At, ShowRow, Select, Creates, Patches
  <2> QED  BY <1>4, <2>1, <2>2, <2>3 DEF PartialUpdate, UpdateResolver, At
<1>5. CASE GetRow(c) \/ ByIdResolver(c)
  <2>1. pc[c] = "execute" /\ req[c].method \in Reads /\ ShowRow(c)
    BY <1>5 DEF GetRow, ByIdResolver, At, Reads
  <2>2. Key(c) \in Keys
    BY <2>1, RowTyped DEF Reads, Creates
  <2> QED  BY <2>1, <2>2, ShownMaps, MissingMaps DEF ShowRow, Select, Reads, Creates
<1>6. CASE DeleteRow(c) \/ DeleteResolver(c)
  <2>1. CASE pc[c] = "execute"
    BY <1>6, <2>1, WriteMaps DEF DeleteRow, DeleteResolver, At, Removes
  <2>2. CASE pc[c] = "commit"
    <3>1. req[c].method \in Removes /\ EraseCommit(c)
      BY <1>6, <2>2 DEF DeleteRow, DeleteResolver, At, Removes
    <3> QED  BY <3>1, EraseMaps DEF EraseCommit, RowCount
  <2> QED  BY <1>6, <2>1, <2>2 DEF DeleteRow, DeleteResolver, At
<1>7. CASE DbFault(c)
  BY <1>7, FaultMaps
<1> QED  BY <1>1, <1>2, <1>3, <1>4, <1>5, <1>6, <1>7 DEF Handle

\* The endpoints keep the promise of TableService: every behaviour of the
\* interleaved handlers, faults included, is one of indivisible writes.
THEOREM Refinement == Spec => ImplementsTableService
<1>1. Init => Service!Init
  BY SameRows DEF Init, Service!Init, Phase, Table
<1>2. IInv /\ [Next]_vars => [Service!Next]_Service!vars
  <2> SUFFICES ASSUME IInv, [Next]_vars
               PROVE  Service!Next \/ UNCHANGED Service!vars
    OBVIOUS
  <2>1. CASE Next  BY <2>1, ReceiveMaps, HandleMaps DEF Next
  <2>2. CASE UNCHANGED vars
    BY <2>2 DEF vars, Service!vars, Phase
  <2> QED BY <2>1, <2>2
<1> QED BY <1>1, <1>2, Invariance, PTL DEF Spec, Service!Spec, ImplementsTableService
=============================================================================
