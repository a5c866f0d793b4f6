---------------------------- MODULE TableService ----------------------------
(***************************************************************************)
(* What the row endpoints promise their clients, whatever steps a handler  *)
(* takes inside: a write is one indivisible change of the table, decided   *)
(* by the table it finds; a refusal changes nothing; and an answer names a *)
(* row the table really holds at that moment.                              *)
(*                                                                         *)
(* A call is asked, perhaps taken (its change made), and answered.  The    *)
(* outcomes are the classes of status codes: "ok" (2xx), "conflict" (409), *)
(* "missing" (404), "invalid" (422), "failed" (500).                       *)
(***************************************************************************)
EXTENDS TableRows

CONSTANTS Clients, Requests, NoReply, NoRequest

VARIABLES rows, ask, phase, answer

vars == <<rows, ask, phase, answer>>

Creates == {"POST", "createRow"}
Patches == {"PATCH", "updateRow"}
Removes == {"DELETE", "deleteRow"}

Init ==
    /\ rows \in Table
    /\ phase = [c \in Clients |-> "idle"]
    /\ ask = [c \in Clients |-> NoRequest]
    /\ answer = [c \in Clients |-> NoReply]

Call(c) ==
    /\ phase[c] = "idle"
    /\ phase' = [phase EXCEPT ![c] = "asked"]
    /\ \E r \in Requests : ask' = [ask EXCEPT ![c] = r]
    /\ answer' = [answer EXCEPT ![c] = NoReply]
    /\ UNCHANGED rows

Answer(c, outcome, row) ==
    /\ phase' = [phase EXCEPT ![c] = "idle"]
    /\ answer' = [answer EXCEPT ![c] = [outcome |-> outcome, row |-> row]]
    /\ ask' = [ask EXCEPT ![c] = NoRequest]

\* The change is made; a fault may strike before its caller learns of it.
Taken(c) ==
    \/ phase' = [phase EXCEPT ![c] = "taken"] /\ UNCHANGED <<ask, answer>>
    \/ Answer(c, "failed", Absent)

\* A create without a key is given an unused one before it is taken.
PickKey(c) ==
    /\ phase[c] = "asked" /\ ask[c].method \in Creates /\ ask[c].key = NoKey
    /\ \E k \in Keys : rows[k] = Absent /\ ask' = [ask EXCEPT ![c].key = k]
    /\ UNCHANGED <<rows, phase, answer>>

TakeCreate(c) ==
    /\ phase[c] = "asked" /\ ask[c].method \in Creates /\ ask[c].key # NoKey
    /\ rows[ask[c].key] = Absent
    /\ ~Violates(rows, ask[c].key, Fill(ask[c].body))
    /\ rows' = [rows EXCEPT ![ask[c].key] = Fill(ask[c].body)]
    /\ Taken(c)

\* A full or partial update changes exactly the row it names.
TakeUpdate(c) ==
    /\ phase[c] = "asked" /\ ask[c].method \in Patches \cup {"PUT"}
    /\ LET k   == ask[c].key
           new == IF ask[c].method = "PUT"
                  THEN Fill(ask[c].body)
                  ELSE Merge(rows[k], ask[c].body)
       IN  /\ rows[k] # Absent
           /\ ~Violates(rows, k, new)
           /\ rows' = [rows EXCEPT ![k] = new]
    /\ Taken(c)

\* A delete that answers "ok" is the one that removed the row.
Remove(c) ==
    /\ phase[c] = "asked" /\ ask[c].method \in Removes
    /\ rows[ask[c].key] # Absent
    /\ rows' = [rows EXCEPT ![ask[c].key] = Absent]
    /\ Answer(c, "ok", Absent) \/ Answer(c, "failed", Absent)

\* The answer to a write that was taken shows the row as it now is.  If the
\* row is gone by then a create repeats its payload, a PATCH says "missing"
\* and a PUT has nothing to say but "failed"; any of them may meet a fault.
AnswerTaken(c) ==
    /\ phase[c] = "taken"
    /\ LET k == ask[c].key IN
          \/ rows[k] # Absent /\ Answer(c, "ok", rows[k])
          \/ /\ rows[k] = Absent /\ ask[c].method \in Creates
             /\ Answer(c, "ok", ask[c].body)
          \/ /\ rows[k] = Absent /\ ask[c].method \in Patches
             /\ Answer(c, "missing", Absent)
          \/ Answer(c, "failed", Absent)
    /\ UNCHANGED rows

\* A read, or a PATCH that names no column: the row as it is, or "missing".
Show(c) ==
    /\ phase[c] = "asked"
    /\ \/ ask[c].method \in {"GET", "byId"}
       \/ ask[c].method \in Patches /\ NoUpdates(ask[c].body)
    /\ rows[ask[c].key] # Absent
    /\ Answer(c, "ok", rows[ask[c].key])
    /\ UNCHANGED rows

\* A refusal leaves the table as it is and gives a reason that is true now.
Refuse(c) ==
    /\ phase[c] = "asked"
    /\ \/ /\ ask[c].method \notin Creates
          /\ rows[ask[c].key] = Absent
          /\ Answer(c, "missing", Absent)
       \/ /\ ask[c].method \in Creates
          /\ \E k \in Keys :
                /\ ask[c].key \in {k, NoKey}
                /\ rows[k] # Absent \/ Violates(rows, k, Fill(ask[c].body))
          /\ Answer(c, "conflict", Absent)
       \/ ~ask[c].wellTyped /\ Answer(c, "invalid", Absent)
       \/ /\ ask[c].method \in Creates /\ ~CreateValid(ask[c].body)
          /\ Answer(c, "invalid", Absent)
       \/ Answer(c, "failed", Absent)
    /\ UNCHANGED rows

Next ==
    \E c \in Clients :
        \/ Call(c)
        \/ PickKey(c) \/ TakeCreate(c) \/ TakeUpdate(c) \/ Remove(c)
        \/ AnswerTaken(c) \/ Show(c) \/ Refuse(c)

Spec == Init /\ [][Next]_vars
=============================================================================
