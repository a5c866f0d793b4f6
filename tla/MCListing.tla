----------------------------- MODULE MCListing -----------------------------
(* Instances of Listing: a small table and the requests that matter.       *)
EXTENDS Listing

Row(k, m) == [key |-> k, match |-> m]

\* Scan order is not key order; key 2 is free for an insertion between.
MCHeaps == {<<Row(4, TRUE), Row(1, TRUE), Row(3, TRUE)>>}

MCRest ==
    {[NoRest EXCEPT !.page = p, !.page_size = s, !.with_total = t] :
        p \in {NoParam, 0, Junk}, s \in {NoParam, 1}, t \in BOOLEAN}
    \cup {[NoRest EXCEPT !.limit = n, !.starting_after = a, !.ending_before = b] :
        n \in {NoParam, 0, 9}, a \in {NoParam, Empty, 1}, b \in {NoParam, Empty, Junk, 4}}
    \cup {[NoRest EXCEPT !.page = 1, !.limit = 1]}

MCRelay ==
    {[NoRelay EXCEPT !.first = 1, !.after = a, !.before = b] :
        a \in {NoParam, Junk}, b \in {NoParam, 4}}
    \cup {[NoRelay EXCEPT !.last = 1, !.after = a, !.before = b] :
        a \in {NoParam, 1}, b \in {NoParam, 4}}
    \cup {[NoRelay EXCEPT !.first = 1, !.last = 1], [NoRelay EXCEPT !.last = 0]}

MCQuestions == MCRest \cup MCRelay
=============================================================================
