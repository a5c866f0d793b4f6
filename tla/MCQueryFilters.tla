--------------------------- MODULE MCQueryFilters ---------------------------
(* A numeric and a text column, both nullable, one with an underscore.     *)
EXTENDS QueryFilters

MCCharacters == {"0", "1", "a", "%", "_", "\\", ",", " ", "null", "not_null"}
Numbers == {<<"0">>, <<"1">>}
CellTexts == {<<"a">>, <<"%">>, <<"\\">>, <<"a", "%">>, <<"\\", "a">>, <<"a", "a">>, <<"%", ",", "a">>}

MCBackslash == "\\"
MCNullWord == <<"null">>
MCSearches == {<<>>, <<"%">>, <<"a", "%">>}

MCRank == [t \in Numbers |-> IF t = <<"0">> THEN 0 ELSE 1]
MCRows == [n : Numbers \cup {Null}, _s : CellTexts \cup {Null}]

Bracket(f, ops, vs) == {[bracket |-> TRUE, field |-> f, op |-> o, value |-> v] :
                            o \in ops, v \in vs}
Plain(f, v) == [bracket |-> FALSE, field |-> f, op |-> "eq", value |-> v]

MCParams ==
    Bracket("n", {"eq", "ne", "gt", "gte", "lt", "lte"}, {<<"1">>})
    \cup Bracket("n", {"eq", "gte"}, {<<"0">>})
    \cup Bracket("n", {"in"}, {<<",">>, <<"0", ",", " ", ",", " ", "1", " ">>})
    \cup Bracket("n", {"is"}, {<<"null">>, <<"not_null">>, <<"a">>})
    \cup Bracket("_s", {"like"}, {<<"%">>, <<"\\">>, <<"_">>, <<"a">>})
    \cup Bracket("_s", {"in"}, {<<"a", ",", "%", ",", "a">>})
    \cup Bracket("_s", {"ne"}, {<<"a">>})
    \cup Bracket("_s", {"between"}, {<<"a">>})
    \cup Bracket("page", {"eq"}, {<<"1">>})
    \cup {Plain("n", <<"1">>), Plain("page", <<"1">>), Plain("_s", <<"a">>)}

MCFields ==
    [field : {"n"}, op : {"gt", "gte", "lt", "lte"}, value : {<<"0">>}]
    \cup [field : {"n"}, op : {"eq", "gte"}, value : {<<"1">>}]
    \cup [field : {"_s"}, op : {"startsWith", "contains"}, value : {<<"a">>, <<"%">>, <<"\\">>}]
=============================================================================
