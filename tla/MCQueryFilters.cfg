\* Up to three parameters over a nullable numeric and a nullable text column.
SPECIFICATION Spec
CONSTANTS
    Columns = {"n", "_s"}
    StringColumns = {"_s"}
    TableOfRows <- MCRows
    Params <- MCParams
    Fields <- MCFields
    Searches <- MCSearches
    MaxParams = 3
    Reserved = {"page", "q"}
    Underscored = {"_s"}
    EscapeChar <- MCBackslash
    Characters <- MCCharacters
    Comma = ","
    Percent = "%"
    Underscore = "_"
    Backslash <- MCBackslash
    Blanks = {" "}
    NullWord <- MCNullWord
    Rank <- MCRank
    Null = Null
    NoValue = NoValue
    NoEscape = NoEscape
INVARIANTS TypeOK TextTakenLiterally RestSelectsWhatWasAsked GraphQLSelectsWhatWasAsked
PROPERTY RepeatWidensNewNarrows
CHECK_DEADLOCK FALSE
