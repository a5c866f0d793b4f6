---------------------------- MODULE AdminUpsert ----------------------------
(***************************************************************************)
(* What seeding promises, however many workers start at once (specs/06):   *)
(* each worker that comes up has upserted its admin account, as if by one  *)
(* INSERT ... ON CONFLICT UPDATE, some time between its start and its      *)
(* first request.  A worker may die before or after that moment.           *)
(***************************************************************************)
CONSTANTS Workers, Names, Passwords, NoAccount, Configs, NoCreds

VARIABLES
    hashes,   \* the password each account's hash verifies, or NoAccount
    creds,    \* the credentials each worker is configured with, or NoCreds
    phase     \* "starting", "seeded", "serving" or "down"

vars == <<hashes, creds, phase>>

Init ==
    /\ hashes = [n \in Names |-> NoAccount]
    /\ creds \in [Workers -> Configs]
    /\ phase = [w \in Workers |-> "starting"]

\* The upsert takes effect; the worker goes on or dies without noticing.
Upsert(w) ==
    /\ phase[w] = "starting"
    /\ creds[w] # NoCreds
    /\ hashes' = [hashes EXCEPT ![creds[w].name] = creds[w].password]
    /\ \E next \in {"seeded", "serving", "down"} : phase' = [phase EXCEPT ![w] = next]
    /\ UNCHANGED creds

Serve(w) ==
    /\ phase[w] = "seeded" \/ (phase[w] = "starting" /\ creds[w] = NoCreds)
    /\ phase' = [phase EXCEPT ![w] = "serving"]
    /\ UNCHANGED <<hashes, creds>>

Die(w) ==
    /\ phase' = [phase EXCEPT ![w] = "down"]
    /\ UNCHANGED <<hashes, creds>>

Restart(w) ==
    /\ phase[w] = "down"
    /\ phase' = [phase EXCEPT ![w] = "starting"]
    /\ \E c \in Configs : creds' = [creds EXCEPT ![w] = c]
    /\ UNCHANGED hashes

Next == \E w \in Workers : Upsert(w) \/ Serve(w) \/ Die(w) \/ Restart(w)

Spec == Init /\ [][Next]_vars
=============================================================================
