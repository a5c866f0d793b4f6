------------------------------ MODULE Startup ------------------------------
(***************************************************************************)
(* The startup of one or more server processes on one database: create_app *)
(* (server/app.py) introspects the schema, creates the _users table and    *)
(* seeds the admin account (auth/user_store.py), and the worker serves.    *)
(*                                                                         *)
(* Each step is a transaction of its own, so between any two of them the   *)
(* other workers' steps take place, a worker may lose the database, and an *)
(* operator may restart it with other credentials.  A bcrypt hash stands   *)
(* for the one password it verifies.                                       *)
(***************************************************************************)
EXTENDS Naturals

CONSTANTS
    Workers,       \* the processes: uvicorn --workers N, or several servers
    Names,         \* usernames
    Passwords,
    NoAccount,     \* no row for a username
    Configs,       \* the (username, password) pairs a worker is started with
    NoCreds,       \* ... and none of them: seeding is skipped
    MaxFaults,     \* bound: database failures
    MaxStops       \* bound: workers stopped by the operator

ASSUME StartupAssumption ==
    /\ Configs \subseteq [name : Names, password : Passwords] \cup {NoCreds}
    /\ NoCreds \notin [name : Names, password : Passwords]
    /\ NoAccount \notin Passwords
    /\ MaxFaults \in Nat /\ MaxStops \in Nat

VARIABLES
    hasTable,  \* has _users been created?
    users,     \* its rows: the password an account's hash verifies
    creds,     \* the credentials in each worker's environment
    pc,        \* the step each worker is at
    existing,  \* the row a worker's get_by_username returned
    death,     \* the exception a worker died of
    faults, stops

vars == <<hasTable, users, creds, pc, existing, death, faults, stops>>

SeedSteps == {"lookup", "insert", "reread", "verify", "update"}
Steps == {"introspect", "tableCheck", "createTable"} \cup SeedSteps
Deaths == {"none", "unreachable", "driverError", "tableExists", "IntegrityError"}

Name(w) == creds[w].name
Password(w) == creds[w].password

Goto(w, step) == pc' = [pc EXCEPT ![w] = step]

Die(w, exception) ==
    /\ Goto(w, "down")
    /\ death' = [death EXCEPT ![w] = exception]

-----------------------------------------------------------------------------
\* introspector.introspect(), on an empty cache: one connection, one reflection.
Introspect(w) ==
    /\ pc[w] = "introspect"
    /\ Goto(w, "tableCheck")
    /\ UNCHANGED <<hasTable, users, creds, existing, death, faults, stops>>

\* Mutant: seeds whether or not credentials are configured.
AfterTableAlways(w) == "lookup"

\* Without both credentials seeding is skipped.
AfterTable(w) == IF creds[w] = NoCreds THEN "serving" ELSE "lookup"

\* Mutant: create_all without checkfirst.
TableCheckBlind(w) ==
    /\ pc[w] = "tableCheck"
    /\ Goto(w, "createTable")
    /\ UNCHANGED <<hasTable, users, creds, existing, death, faults, stops>>

\* initialize(): create_all looks for the table ...
TableCheck(w) ==
    /\ pc[w] = "tableCheck"
    /\ Goto(w, IF hasTable THEN AfterTable(w) ELSE "createTable")
    /\ UNCHANGED <<hasTable, users, creds, existing, death, faults, stops>>

\* ... and creates it.  If a peer did so since, the statement fails, and the
\* exception leaves create_app: nobody catches it.
CreateTable(w) ==
    /\ pc[w] = "createTable"
    /\ hasTable' = TRUE
    /\ IF hasTable THEN Die(w, "tableExists")
                   ELSE Goto(w, AfterTable(w)) /\ UNCHANGED death
    /\ UNCHANGED <<users, creds, existing, faults, stops>>

\* Mutant: a lookup without its WHERE clause.
LookupAnyone(w) ==
    /\ pc[w] = "lookup"
    /\ \E n \in Names :
          /\ existing' = [existing EXCEPT ![w] = users[n]]
          /\ Goto(w, IF users[n] = NoAccount THEN "insert" ELSE "verify")
    /\ UNCHANGED <<hasTable, users, creds, death, faults, stops>>

\* get_by_username, on a connection of its own.
Lookup(w) ==
    /\ pc[w] = "lookup"
    /\ existing' = [existing EXCEPT ![w] = users[Name(w)]]
    /\ Goto(w, IF users[Name(w)] = NoAccount THEN "insert" ELSE "verify")
    /\ UNCHANGED <<hasTable, users, creds, death, faults, stops>>

\* Mutant: the naive sequence, which lets the IntegrityError out.
CreateUserNaive(w) ==
    /\ pc[w] = "insert"
    /\ IF users[Name(w)] = NoAccount
       THEN users' = [users EXCEPT ![Name(w)] = Password(w)] /\ Goto(w, "serving")
            /\ UNCHANGED death
       ELSE Die(w, "IntegrityError") /\ UNCHANGED users
    /\ UNCHANGED <<hasTable, creds, existing, faults, stops>>

\* create_user: the INSERT of a taken username raises IntegrityError, caught.
CreateUser(w) ==
    /\ pc[w] = "insert"
    /\ \/ /\ users[Name(w)] = NoAccount
          /\ users' = [users EXCEPT ![Name(w)] = Password(w)]
          /\ Goto(w, "serving")
       \/ /\ users[Name(w)] # NoAccount
          /\ Goto(w, "reread")
          /\ UNCHANGED users
    /\ UNCHANGED <<hasTable, creds, existing, death, faults, stops>>

\* The winner's row is read; were it missing, the IntegrityError is raised.
Reread(w) ==
    /\ pc[w] = "reread"
    /\ existing' = [existing EXCEPT ![w] = users[Name(w)]]
    /\ IF users[Name(w)] = NoAccount
       THEN Die(w, "IntegrityError")
       ELSE Goto(w, "verify") /\ UNCHANGED death
    /\ UNCHANGED <<hasTable, users, creds, faults, stops>>

\* verify_password on the row as it was read.
Verify(w) ==
    /\ pc[w] = "verify"
    /\ Goto(w, IF existing[w] = Password(w) THEN "serving" ELSE "update")
    /\ UNCHANGED <<hasTable, users, creds, existing, death, faults, stops>>

\* Mutant: UPDATE without its WHERE clause.
UpdateHashEverywhere(w) ==
    /\ pc[w] = "update"
    /\ users' = [n \in Names |-> IF users[n] = NoAccount THEN NoAccount ELSE Password(w)]
    /\ Goto(w, "serving")
    /\ UNCHANGED <<hasTable, creds, existing, death, faults, stops>>

\* UPDATE ... WHERE username = ...: no row, no effect.
UpdateHash(w) ==
    /\ pc[w] = "update"
    /\ users' = [users EXCEPT ![Name(w)] = IF @ = NoAccount THEN @ ELSE Password(w)]
    /\ Goto(w, "serving")
    /\ UNCHANGED <<hasTable, creds, existing, death, faults, stops>>

Step(w) ==
    \/ Introspect(w) \/ TableCheck(w) \/ CreateTable(w)
    \/ Lookup(w) \/ CreateUser(w) \/ Reread(w) \/ Verify(w) \/ UpdateHash(w)

-----------------------------------------------------------------------------
\* A connection or a statement fails.  Only introspect() turns that into the
\* ConnectionError that serve() reports; elsewhere the driver's error leaves
\* create_app.  A write may have been committed all the same: the connection
\* can be lost after the COMMIT.
DbFault(w) ==
    /\ pc[w] \in Steps \ {"verify"}
    /\ faults < MaxFaults
    /\ faults' = faults + 1
    /\ Die(w, IF pc[w] = "introspect" THEN "unreachable" ELSE "driverError")
    /\ \/ UNCHANGED <<hasTable, users>>
       \/ pc[w] = "createTable" /\ hasTable' = TRUE /\ UNCHANGED users
       \/ /\ pc[w] = "insert" /\ users[Name(w)] = NoAccount
          /\ users' = [users EXCEPT ![Name(w)] = Password(w)]
          /\ UNCHANGED hasTable
       \/ /\ pc[w] = "update" /\ users[Name(w)] # NoAccount
          /\ users' = [users EXCEPT ![Name(w)] = Password(w)]
          /\ UNCHANGED hasTable
    /\ UNCHANGED <<creds, existing, stops>>

\* External: the operator stops a worker (a deployment, a signal) at any step.
Stop(w) ==
    /\ pc[w] # "down"
    /\ stops < MaxStops
    /\ stops' = stops + 1
    /\ Die(w, "none")
    /\ UNCHANGED <<hasTable, users, creds, existing, faults>>

\* External: a dead worker is started again, perhaps with new credentials
\* (password rotation is "a change of .env and a restart").
Restart(w) ==
    /\ pc[w] = "down"
    /\ \E c \in Configs : creds' = [creds EXCEPT ![w] = c]
    /\ Goto(w, "introspect")
    /\ existing' = [existing EXCEPT ![w] = NoAccount]
    /\ death' = [death EXCEPT ![w] = "none"]
    /\ UNCHANGED <<hasTable, users, faults, stops>>

-----------------------------------------------------------------------------
Init ==
    /\ hasTable = FALSE
    /\ users = [n \in Names |-> NoAccount]
    /\ creds \in [Workers -> Configs]
    /\ pc = [w \in Workers |-> "introspect"]
    /\ existing = [w \in Workers |-> NoAccount]
    /\ death = [w \in Workers |-> "none"]
    /\ faults = 0
    /\ stops = 0

Next == \E w \in Workers : Step(w) \/ DbFault(w) \/ Stop(w) \/ Restart(w)

Spec == Init /\ [][Next]_vars

\* create_app runs to its end, and whoever supervises the workers brings a
\* dead one back.  Nothing is assumed of faults and stops.
FairSpec == Spec /\ \A w \in Workers : WF_vars(Step(w)) /\ WF_vars(Restart(w))

-----------------------------------------------------------------------------
TypeOK ==
    /\ hasTable \in BOOLEAN
    /\ users \in [Names -> Passwords \cup {NoAccount}]
    /\ creds \in [Workers -> Configs]
    /\ pc \in [Workers -> Steps \cup {"serving", "down"}]
    /\ \A w \in Workers : pc[w] \in SeedSteps => creds[w] # NoCreds
    /\ existing \in [Workers -> Passwords \cup {NoAccount}]
    /\ death \in [Workers -> Deaths]
    /\ faults \in 0 .. MaxFaults
    /\ stops \in 0 .. MaxStops

\* "a IntegrityError from a peer worker's winning insert MUST NOT propagate"
\* (specs/06-auth.md): no worker dies of it, in any interleaving of the
\* lookups, inserts and re-reads of user_store.py:56-70.
NoIntegrityError == \A w \in Workers : death[w] # "IntegrityError"

\* A worker serves only once its account exists: login works from the first
\* request, whoever won the races and whatever failed meanwhile.
ServingMeansSeeded ==
    \A w \in Workers :
        pc[w] = "serving" /\ creds[w] # NoCreds => users[Name(w)] # NoAccount

\* Seeding implements one atomic upsert per worker (AdminUpsert), although
\* the hash it verifies may be stale when it acts: the upsert takes effect at
\* the read that finds the right hash, or at the INSERT or UPDATE.
Phase(w) ==
    IF pc[w] \in {"serving", "down"} THEN pc[w]
    ELSE IF pc[w] = "verify" /\ existing[w] = Password(w) THEN "seeded"
    ELSE "starting"

Upserting == INSTANCE AdminUpsert WITH
    hashes <- users,
    phase <- [w \in Workers |-> Phase(w)]

ImplementsAdminUpsert == Upserting!Spec

\* Once faults and stops are over every worker comes up, also the losers of
\* the race to create the table, which die and are restarted.
AllServe == <>[](\A w \in Workers : pc[w] = "serving")

\* specs/06-auth.md: initialize() "creates the _users table if it does not
\* exist".  (Checked without faults: no worker fails because it does exist.)
TableCreatedIfMissing == \A w \in Workers : death[w] # "tableExists"
=============================================================================
