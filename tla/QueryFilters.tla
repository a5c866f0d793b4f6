---------------------------- MODULE QueryFilters ----------------------------
(***************************************************************************)
(* Which rows a filtered list selects: the query string of the REST list   *)
(* (generators/filter.py) and the filter and search arguments of the       *)
(* GraphQL list (generators/graphql.py), built up one parameter at a time  *)
(* as parse_filters reads them.                                            *)
(*                                                                         *)
(* Every value of a query string is text, here a sequence of characters;   *)
(* a cell is text too, or Null.  How a driver converts the text "1" for an *)
(* integer column is left out.  There is no NOT over conditions, so SQL's  *)
(* "unknown" counts as false: no comparison holds of a Null cell.          *)
(***************************************************************************)
EXTENDS Naturals, SequencesExt

CONSTANTS
    Columns,        \* the columns of the table
    StringColumns,  \* those q and search look into
    TableOfRows,    \* the rows to select from
    Params,         \* bound: the parameters of a REST query
    Fields,         \* bound: the fields of a GraphQL filter
    Searches,       \* bound: the texts searched for
    MaxParams,      \* bound: the parameters of one query
    Reserved,       \* _RESERVED_PARAMS
    Underscored,    \* the columns whose names start with an underscore
    EscapeChar,     \* the character LIKE takes as escape, or NoEscape
    Characters,     \* what texts are made of
    Comma, Percent, Underscore, Backslash,   \* the special characters
    Blanks,         \* the characters str.strip() removes
    NullWord,       \* the text "null"
    Rank,           \* the order of the texts that are compared
    Null, NoValue, NoEscape

ValidOps   == {"eq", "ne", "gt", "gte", "lt", "lte", "like", "in", "is"}
GraphQLOps == {"eq", "gt", "gte", "lt", "lte", "contains", "startsWith"}

\* [bracket |-> is it field[op]=value or field=value?, field, op, value]
ASSUME FilterAssumption ==
    /\ StringColumns \subseteq Columns
    /\ Columns \cap Reserved = {} /\ Underscored \subseteq Columns
    /\ \A r \in TableOfRows : DOMAIN r = Columns
    /\ \A p \in Params : p.bracket \/ p.op = "eq"
    /\ \A f \in Fields : f.field \in Columns /\ f.op \in GraphQLOps /\ f.value # NoValue
    /\ MaxParams \in Nat

\* What is compared by order has a place in the order.
ASSUME RankAssumption ==
    /\ \A s, t \in DOMAIN Rank : Rank[s] \in Nat /\ (Rank[s] = Rank[t] => s = t)
    /\ \A p \in Params \cup Fields :
          p.op \in {"gt", "gte", "lt", "lte"} /\ p.field \in Columns =>
              /\ p.value \in DOMAIN Rank
              /\ \A row \in TableOfRows : row[p.field] \in DOMAIN Rank \cup {Null}

VARIABLES
    sent,        \* the parameters of the query so far
    conditions,  \* what parse_filters has collected
    status,      \* "ok", or "rejected" with 400
    filter,      \* the GraphQL filter input: a value for column and operator
    q            \* the text searched for, in both

vars == <<sent, conditions, status, filter, q>>

-----------------------------------------------------------------------------
(* LIKE.                                                                   *)

\* str.replace(c, "\\" + c)
Replaced(x, c) == IF x = c THEN <<Backslash, c>> ELSE <<x>>

Replace(s, c) ==
    LET done[i \in 0 .. Len(s)] ==
            IF i = 0 THEN <<>> ELSE done[i - 1] \o Replaced(s[i], c)
    IN  done[Len(s)]

\* Mutant: the backslash last escapes the escapes.
EscapeLate(s) == Replace(Replace(Replace(s, Percent), Underscore), Backslash)

Escape(s) == Replace(Replace(Replace(s, Backslash), Percent), Underscore)

\* The database's LIKE reads a pattern from left to right.  at: the places the
\* text t may have been matched up to; escaped: is the next character literal?
Start == [at |-> {0}, escaped |-> FALSE]

Read(t, m, c) ==
    LET at == IF m.escaped \/ c \notin {EscapeChar, Percent, Underscore}
              THEN {j \in 1 .. Len(t) : j - 1 \in m.at /\ t[j] = c}
              ELSE IF c = EscapeChar THEN m.at
              ELSE IF c = Percent THEN {j \in 0 .. Len(t) : \E k \in m.at : k <= j}
              ELSE {j \in 1 .. Len(t) : j - 1 \in m.at}
    IN  [at |-> at, escaped |-> ~m.escaped /\ c = EscapeChar]

Reading(t, p) ==
    LET m[i \in 0 .. Len(p)] == IF i = 0 THEN Start ELSE Read(t, m[i - 1], p[i])
    IN  m[Len(p)]

Like(t, p) == Len(t) \in Reading(t, p).at /\ ~Reading(t, p).escaped

Containing(s) == <<Percent>> \o Escape(s) \o <<Percent>>

\* Mutant: matches anywhere.
StartingAnywhere(s) == <<Percent>> \o Escape(s) \o <<Percent>>

StartingWith(s) == Escape(s) \o <<Percent>>

\* The texts of this instance.
Cells == {row[c] : row \in TableOfRows, c \in Columns} \ {Null}
Texts == {p.value : p \in Params} \cup {f.value : f \in Fields} \cup Searches

ASSUME TextAssumption ==
    /\ Cells \cup Texts \subseteq Seq(Characters)
    /\ {Comma, Percent, Underscore, Backslash} \subseteq Characters
    /\ Percent # Underscore /\ Backslash \notin {Percent, Underscore}
    /\ Comma \notin Blanks

\* LIKE over them with both kinds of pattern.
LikeContaining == [t \in Cells |-> [s \in Texts |-> Like(t, Containing(s))]]
LikeStarting   == [t \in Cells |-> [s \in Texts |-> Like(t, StartingWith(s))]]

\* raw.split(","), stripped of blanks, without the empty pieces.
Pieces(raw) ==
    {SubSeq(raw, r[1], r[2]) : r \in {r \in (DOMAIN raw) \X (DOMAIN raw) :
        /\ r[1] <= r[2] /\ raw[r[1]] \notin Blanks /\ raw[r[2]] \notin Blanks
        /\ \A i \in r[1] .. r[2] : raw[i] # Comma
        /\ \E i \in 1 .. r[1] : /\ i = 1 \/ raw[i - 1] = Comma
                                /\ \A j \in i .. r[1] - 1 : raw[j] \in Blanks
        /\ \E i \in r[2] .. Len(raw) : /\ i = Len(raw) \/ raw[i + 1] = Comma
                                       /\ \A j \in r[2] + 1 .. i : raw[j] \in Blanks}}

-----------------------------------------------------------------------------
(* REST.                                                                   *)

\* _build_single_condition.  After `is` every text but "null" means not null.
Holds(op, cell, raw) ==
    IF op = "is" THEN (cell = Null) <=> (raw = NullWord)
    ELSE /\ cell # Null
         /\ CASE op = "eq"   -> cell = raw
              [] op = "ne"   -> cell # raw
              [] op = "gt"   -> Rank[cell] > Rank[raw]
              [] op = "gte"  -> Rank[cell] >= Rank[raw]
              [] op = "lt"   -> Rank[cell] < Rank[raw]
              [] op = "lte"  -> Rank[cell] <= Rank[raw]
              [] op = "like" -> LikeContaining[cell][raw]
              [] op = "in"   -> cell \in Pieces(raw)

\* apply_search: every string column, ORed; without text or columns, no clause.
Found(row) ==
    \/ q = <<>> \/ StringColumns = {}
    \/ \E c \in StringColumns : row[c] # Null /\ LikeContaining[row[c]][q]

\* apply_filters: the conditions ANDed, the values of one condition ORed.
RestRows ==
    {row \in TableOfRows :
        /\ \A i \in DOMAIN conditions :
              \E v \in conditions[i].values :
                 Holds(conditions[i].op, row[conditions[i].field], v)
        /\ Found(row)}

\* Mutant: a repeated parameter is one more condition.
CollectAnew(field, op, value) ==
    conditions' = Append(conditions, [field |-> field, op |-> op, values |-> {value}])

\* The same field and operator again adds an alternative.
Collect(field, op, value) ==
    LET seen == {i \in DOMAIN conditions :
                    conditions[i].field = field /\ conditions[i].op = op}
    IN  conditions' =
            IF seen = {}
            THEN Append(conditions, [field |-> field, op |-> op, values |-> {value}])
            ELSE [i \in DOMAIN conditions |->
                    IF i \in seen
                    THEN [conditions[i] EXCEPT !.values = @ \cup {value}]
                    ELSE conditions[i]]

BadOperator(p) == p.bracket /\ p.op \notin ValidOps

\* A reserved name, or one with an underscore in front, is passed over only as
\* it stands: page[eq] and _s[eq] are fields.
Ignored(p) ==
    \/ ~p.bracket /\ p.field \in Reserved \cup Underscored
    \/ p.field \notin Columns

-----------------------------------------------------------------------------
(* GraphQL.                                                                *)

OpHolds(op, cell, value) ==
    /\ cell # Null
    /\ CASE op = "eq"         -> cell = value
         [] op = "gt"         -> Rank[cell] > Rank[value]
         [] op = "gte"        -> Rank[cell] >= Rank[value]
         [] op = "lt"         -> Rank[cell] < Rank[value]
         [] op = "lte"        -> Rank[cell] <= Rank[value]
         [] op = "contains"   -> LikeContaining[cell][value]
         [] op = "startsWith" -> LikeStarting[cell][value]

\* _apply_filter_conditions: operators without a value are skipped.
GraphQLRows ==
    {row \in TableOfRows :
        /\ \A c \in Columns, op \in GraphQLOps :
              filter[c][op] # NoValue => OpHolds(op, row[c], filter[c][op])
        /\ Found(row)}

NoFilter == [c \in Columns |-> [op \in GraphQLOps |-> NoValue]]

-----------------------------------------------------------------------------
Init ==
    /\ sent = <<>> /\ conditions = <<>> /\ status = "ok"
    /\ filter = NoFilter
    /\ q \in Searches

\* parse_filters reads one more parameter; the operator is looked at before
\* the field.
Reject(p) ==
    /\ BadOperator(p)
    /\ status' = "rejected"
    /\ UNCHANGED conditions

Ignore(p) ==
    /\ ~BadOperator(p) /\ Ignored(p)
    /\ UNCHANGED <<conditions, status>>

Accept(p) ==
    /\ ~BadOperator(p) /\ ~Ignored(p)
    /\ Collect(p.field, p.op, p.value)
    /\ UNCHANGED status

Parse ==
    /\ status = "ok" /\ filter = NoFilter /\ Len(sent) < MaxParams
    /\ \E p \in Params :
          /\ sent' = Append(sent, p)
          /\ Reject(p) \/ Ignore(p) \/ Accept(p)
    /\ UNCHANGED <<filter, q>>

\* A query is the one or the other.  A GraphQL filter is an object: a field
\* given again replaces the first.
SetField ==
    /\ sent = <<>>
    /\ \E f \in Fields : filter' = [filter EXCEPT ![f.field][f.op] = f.value]
    /\ UNCHANGED <<sent, conditions, status, q>>

Next == Parse \/ SetField

Spec == Init /\ [][Next]_vars

-----------------------------------------------------------------------------
\* The components have their types, and no two conditions are about the same
\* field and operator.
TypeOK ==
    /\ sent \in Seq(Params)
    /\ \A i \in DOMAIN conditions :
          /\ conditions[i].field \in Columns /\ conditions[i].op \in ValidOps
          /\ conditions[i].values # {}
    /\ \A i, j \in DOMAIN conditions :
          conditions[i].field = conditions[j].field /\ conditions[i].op = conditions[j].op
          => i = j
    /\ status \in {"ok", "rejected"} /\ q \in Searches

Substring(s, t) == \E i \in 1 .. Len(t) + 1 : \E j \in 0 .. Len(t) : s = SubSeq(t, i, j)

\* Text w is t with blanks before and after it.
Padded(w, t) ==
    \E k \in 0 .. Len(w) - Len(t) : \A i \in DOMAIN w :
        IF i - k \in DOMAIN t THEN w[i] = t[i - k] ELSE w[i] \in Blanks

Fenced(s) == <<Comma>> \o s \o <<Comma>>

\* Cell t is named in the list s: it stands between two commas or ends of s,
\* blanks around it aside.
Listed(t, s) ==
    /\ t # <<>> /\ Comma \notin ToSet(t) /\ {t[1], Last(t)} \cap Blanks = {}
    /\ \E i \in DOMAIN s, j \in DOMAIN s :
          LET w == SubSeq(s, i, j)
          IN  Padded(w, t) /\ Substring(Fenced(w), Fenced(s))

Literal(s) ==
    \A t \in Cells :
        /\ LikeContaining[t][s] <=> Substring(s, t)
        /\ LikeStarting[t][s] <=> IsPrefix(s, t)
        /\ t \in Pieces(s) <=> Listed(t, s)

TextsOfQuery ==
    {q} \cup {sent[i].value : i \in DOMAIN sent}
    \cup ({filter[c][op] : c \in Columns, op \in GraphQLOps} \ {NoValue})

\* The pattern built from a text of the query matches the cells that contain
\* it, or start with it, letter by letter, wildcards and backslashes included;
\* and the pieces of a list are what stands between its commas
\* (_build_single_condition, and _apply_filter_conditions of the resolver).
TextTakenLiterally == \A s \in TextsOfQuery : Literal(s)

\* What a parameter asks of a cell, without patterns and splitting.  After `is`
\* any text but "null" is taken as "not null", the way the code does; specs/04
\* (line 191) allows null and not_null only, so that the others should have been
\* refused: a disagreement that this reference does not settle.
Asks(op, cell, value) ==
    \/ op = "is" /\ (IF value = NullWord THEN cell = Null ELSE cell # Null)
    \/ /\ cell # Null
       /\ \/ op \in {"eq", "gte", "lte"} /\ cell = value
          \/ op = "ne" /\ cell # value
          \/ op \in {"gt", "gte"} /\ Rank[value] < Rank[cell]
          \/ op \in {"lt", "lte"} /\ Rank[cell] < Rank[value]
          \/ op \in {"like", "contains"} /\ Substring(value, cell)
          \/ op = "startsWith" /\ IsPrefix(value, cell)
          \/ op = "in" /\ Listed(cell, value)

SearchedFor(row) ==
    q # <<>> /\ StringColumns # {} =>
        \E c \in StringColumns : row[c] # Null /\ Substring(q, row[c])

\* A REST list selects the rows that satisfy, for every known field and every
\* operator used with it, at least one of the values given, and contain the
\* search text literally: whatever the order and number of the parameters and
\* the wildcards and backslashes in them.
RestSelectsWhatWasAsked ==
    status = "ok" =>
        RestRows = {row \in TableOfRows :
            /\ \A i \in DOMAIN sent : Ignored(sent[i]) \/
                  \E j \in DOMAIN sent :
                      /\ sent[j].field = sent[i].field /\ sent[j].op = sent[i].op
                      /\ ~Ignored(sent[j])
                      /\ Asks(sent[j].op, row[sent[j].field], sent[j].value)
            /\ SearchedFor(row)}

\* A GraphQL list selects the rows that satisfy every operator given a value.
GraphQLSelectsWhatWasAsked ==
    GraphQLRows = {row \in TableOfRows :
        /\ \A c \in Columns, op \in GraphQLOps :
              filter[c][op] # NoValue => Asks(op, row[c], filter[c][op])
        /\ SearchedFor(row)}

\* Another value for a field and operator already used never loses a row, a
\* parameter for a new one never gains one (the docstring of parse_filters;
\* that filters are "always ANDed", specs/04, holds of different ones only).
RepeatWidensNewNarrows ==
    [][sent' # sent /\ status' = "ok" =>
          IF \E i \in DOMAIN sent :
                /\ sent[i].field = Last(sent').field /\ sent[i].op = Last(sent').op
                /\ ~Ignored(sent[i])
          THEN Ignored(Last(sent')) \/ RestRows \subseteq RestRows'
          ELSE RestRows' \subseteq RestRows]_vars
=============================================================================
