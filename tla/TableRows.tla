----------------------------- MODULE TableRows -----------------------------
(***************************************************************************)
(* One database table as the generated REST and GraphQL handlers see it:   *)
(* rows addressed by an integer primary key, request bodies that leave     *)
(* some columns unset, and the constraints the database enforces.          *)
(***************************************************************************)
EXTENDS Naturals

CONSTANTS
    Columns,       \* the non-primary-key columns
    UniqueCols,    \* columns with a UNIQUE constraint
    RequiredCols,  \* NOT NULL columns without a default
    Values,        \* the non-null column values
    Null,          \* SQL NULL, and JSON null in a body
    Unset,         \* a column the client did not send
    Absent,        \* what a key without a row maps to
    MaxKey         \* bound: the largest primary key the database hands out

Keys  == 1 .. MaxKey
NoKey == 0         \* a POST body that leaves the key to the database

Row   == [Columns -> Values \cup {Null}]
Body  == [Columns -> Values \cup {Null, Unset}]
Table == [Keys -> Row \cup {Absent}]

ASSUME TableAssumption ==
    /\ UniqueCols \subseteq Columns
    /\ RequiredCols \subseteq Columns
    /\ Null \notin Values /\ Unset \notin Values /\ Null # Unset
    /\ Absent \notin Row
    /\ MaxKey \in Nat \ {0}

\* Mutant: the payload keeps the columns the client left out.
FillUnset(b) == b

\* INSERT of the validated payload, and PUT's full replacement: a column the
\* client left unset is NULL (the tables modelled have no column default).
Fill(b) == [c \in Columns |-> IF b[c] = Unset THEN Null ELSE b[c]]

\* Mutant: "v is not None" drops an explicit null along with the unset.
MergeDroppingNulls(r, b) ==
    [c \in Columns |-> IF b[c] \in {Unset, Null} THEN r[c] ELSE b[c]]

\* PATCH: model_dump(exclude_unset=True) keeps explicit nulls, drops the rest.
Merge(r, b) == [c \in Columns |-> IF b[c] = Unset THEN r[c] ELSE b[c]]

\* A body without a single column: PATCH then issues no UPDATE at all.
NoUpdates(b) == \A c \in Columns : b[c] = Unset

\* The create model demands every NOT NULL column without a default.
CreateValid(b) == \A c \in RequiredCols : b[c] \in Values

\* Writing row r at key k would break NOT NULL or UNIQUE.
Violates(t, k, r) ==
    \/ \E c \in RequiredCols : r[c] = Null
    \/ \E c \in UniqueCols, j \in Keys \ {k} :
          /\ t[j] # Absent
          /\ r[c] # Null
          /\ t[j][c] = r[c]

\* The rowid the database assigns: one above the largest in use, so the key
\* of a deleted last row is handed out again.
IsNextKey(t, k) ==
    /\ \A j \in Keys : j >= k => t[j] = Absent
    /\ k = 1 \/ t[k - 1] # Absent
=============================================================================
