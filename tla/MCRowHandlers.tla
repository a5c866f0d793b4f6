--------------------------- MODULE MCRowHandlers ---------------------------
(* Two columns, one UNIQUE and one NOT NULL, and bodies that conflict,      *)
(* violate, leave out or null a column.                                     *)
EXTENDS RowHandlers

CONSTANTS a, b, rest, graphql

MCBodies ==
    { [email |-> a,     name |-> a],       \* complete; the second one conflicts
      [email |-> a,     name |-> Unset],   \* a POST without its NOT NULL column
      [email |-> Unset, name |-> b],       \* touches one column only
      [email |-> Null,  name |-> Unset],   \* explicit null
      NoBody }

MCSpeaks == [c \in {rest, graphql} |->
                IF c = rest THEN RestMethods ELSE GraphQLFields]
=============================================================================
