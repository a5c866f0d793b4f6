------------------------------ MODULE KeyScan ------------------------------
(***************************************************************************)
(* What reading a changing table page by page promises: the client has     *)
(* swept an interval of the keys, each part of it at one glance, and holds *)
(* exactly what those glances showed.  The interval grows at either end    *)
(* and never has a hole, so a row that was there all the time and lies in  *)
(* it has been received, whatever was inserted and deleted meanwhile.      *)
(***************************************************************************)
EXTENDS Naturals

CONSTANT Keys   \* 1 .. n

VARIABLES
    hits,    \* the keys of the rows the client asks for, as they are now
    swept,   \* the keys it has looked at since it began
    got      \* the keys it has received since it began

vars == <<hits, swept, got>>

Contiguous(S) == \A a, b \in S : a .. b \subseteq S

Init ==
    /\ hits \in SUBSET Keys
    /\ swept = {} /\ got = {}

\* Other clients write.
Change ==
    /\ hits' \in SUBSET Keys
    /\ UNCHANGED <<swept, got>>

\* One page: a glance at part of the table next to what was swept before.
Glance ==
    /\ UNCHANGED hits
    /\ Contiguous(swept')
    /\ \E lo \in Keys, hi \in Keys \cup {0} :
          /\ swept' = swept \cup (lo .. hi)
          /\ got' = got \cup (hits \cap (lo .. hi))

\* The client turns to something else.
Forget ==
    /\ swept' = {} /\ got' = {}
    /\ UNCHANGED hits

Next == Change \/ Glance \/ Forget

Spec == Init /\ [][Next]_vars
=============================================================================
