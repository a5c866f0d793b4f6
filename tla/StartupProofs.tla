--------------------------- MODULE StartupProofs ---------------------------
(***************************************************************************)
(* Theorems about Startup, for every number of workers, every set of       *)
(* names, passwords and configurations, and any number of faults.          *)
(***************************************************************************)
EXTENDS Startup, TLAPS

\* An account, once there, stays: nothing in the program deletes a row of
\* _users.  So the re-read after an IntegrityError finds the winner's row.
AccountSeen ==
    \A w \in Workers :
        pc[w] \in {"reread", "verify", "update", "serving"} /\ creds[w] # NoCreds
            => users[Name(w)] # NoAccount

\* The inductive invariant.
IInv == TypeOK /\ AccountSeen /\ NoIntegrityError

\* A configuration that is not NoCreds names an account and a password.
LEMMA ConfigTyped ==
    ASSUME NEW c \in Configs, c # NoCreds
    PROVE  c.name \in Names /\ c.password \in Passwords
BY StartupAssumption

\* The parts of the assumption the proofs need one at a time.
LEMMA Bounds == MaxFaults \in Nat /\ MaxStops \in Nat
BY StartupAssumption

LEMMA PasswordIsAccount == \A p \in Passwords : p # NoAccount
BY StartupAssumption

LEMMA InitIInv == Init => IInv
<1> SUFFICES ASSUME Init PROVE IInv
  OBVIOUS
<1>1. TypeOK
  <2>1. 0 \in 0 .. MaxFaults /\ 0 \in 0 .. MaxStops
    BY Bounds
  <2> QED BY <2>1 DEF Init, TypeOK, Steps, SeedSteps, Deaths
<1>2. AccountSeen /\ NoIntegrityError
  BY DEF Init, AccountSeen, NoIntegrityError
<1> QED BY <1>1, <1>2 DEF IInv

\* One step of one worker keeps the invariant, action by action.
LEMMA StepIInv ==
    ASSUME IInv, NEW w \in Workers, Step(w) \/ DbFault(w) \/ Stop(w) \/ Restart(w)
    PROVE  IInv'
<1> USE DEF IInv, TypeOK, AccountSeen, NoIntegrityError, Steps, SeedSteps, Deaths,
            Goto, Die, Name, Password
<1>c. \A v \in Workers :
         creds[v] # NoCreds => Name(v) \in Names /\ Password(v) \in Passwords
  BY ConfigTyped
<1>1. CASE Introspect(w)   BY <1>1 DEF Introspect
<1>2. CASE TableCheck(w)   BY <1>2 DEF TableCheck, AfterTable
<1>3. CASE CreateTable(w)  BY <1>3 DEF CreateTable, AfterTable
<1>4. CASE Lookup(w)       BY <1>4, <1>c DEF Lookup
<1>5. CASE CreateUser(w)
  <2>1. TypeOK'
    <3>1. users' \in [Names -> Passwords \cup {NoAccount}]
      BY <1>5, <1>c DEF CreateUser
    <3>2. /\ \/ pc' = [pc EXCEPT ![w] = "serving"]
             \/ pc' = [pc EXCEPT ![w] = "reread"]
          /\ pc[w] = "insert"
          /\ UNCHANGED <<hasTable, creds, existing, death, faults, stops>>
      BY <1>5 DEF CreateUser
    <3> QED BY <3>1, <3>2
  <2>2. AccountSeen'
    <3>1. \A m \in Names : users[m] # NoAccount => users'[m] # NoAccount
      BY <1>5, <1>c, PasswordIsAccount DEF CreateUser
    <3>2. creds' = creds /\ \A v \in Workers \ {w} : pc'[v] = pc[v]
      BY <1>5 DEF CreateUser
    <3>3. pc'[w] \in {"reread", "serving"} => users'[Name(w)] # NoAccount
      BY <1>5, <1>c, PasswordIsAccount DEF CreateUser
    <3>4. pc'[w] \in {"reread", "serving", "down"}
      BY <1>5 DEF CreateUser
    <3> QED BY <3>1, <3>2, <3>3, <3>4, <1>c
  <2>3. NoIntegrityError'  BY <1>5 DEF CreateUser
  <2> QED BY <2>1, <2>2, <2>3
<1>6. CASE Reread(w)       BY <1>6, <1>c DEF Reread
<1>7. CASE Verify(w)       BY <1>7, <1>c DEF Verify
<1>8. CASE UpdateHash(w)
  <2>1. TypeOK'       BY <1>8, <1>c DEF UpdateHash
  <2>2. AccountSeen'  BY <1>8, <1>c, PasswordIsAccount DEF UpdateHash
  <2> QED BY <1>8, <2>1, <2>2 DEF UpdateHash
<1>9. CASE DbFault(w)
  <2>1. TypeOK'
    <3>1. faults' \in 0 .. MaxFaults
      BY <1>9, Bounds DEF DbFault
    <3>2. pc' = [pc EXCEPT ![w] = "down"]
      BY <1>9 DEF DbFault
    <3>3. death' \in [Workers -> Deaths]
      BY <1>9 DEF DbFault
    <3>4. users' \in [Names -> Passwords \cup {NoAccount}] /\ hasTable' \in BOOLEAN
      BY <1>9, <1>c DEF DbFault
    <3>5. UNCHANGED <<creds, existing, stops>>
      BY <1>9 DEF DbFault
    <3> QED BY <3>1, <3>2, <3>3, <3>4, <3>5
  <2>2. AccountSeen'
    <3>1. \A m \in Names : users[m] # NoAccount => users'[m] # NoAccount
      BY <1>9, <1>c, PasswordIsAccount DEF DbFault
    <3>2. creds' = creds /\ \A v \in Workers \ {w} : pc'[v] = pc[v]
      BY <1>9 DEF DbFault
    <3>3. pc'[w] \in {"reread", "serving"} => users'[Name(w)] # NoAccount
      BY <1>9, <1>c, PasswordIsAccount DEF DbFault
    <3>4. pc'[w] \in {"reread", "serving", "down"}
      BY <1>9 DEF DbFault
    <3> QED BY <3>1, <3>2, <3>3, <3>4, <1>c
  <2>3. NoIntegrityError'  BY <1>9 DEF DbFault
  <2> QED BY <2>1, <2>2, <2>3
<1>10. CASE Stop(w)        BY <1>10, Bounds DEF Stop
<1>11. CASE Restart(w)     BY <1>11 DEF Restart
<1> QED
  BY <1>1, <1>2, <1>3, <1>4, <1>5, <1>6, <1>7, <1>8, <1>9, <1>10, <1>11 DEF Step

LEMMA NextIInv == IInv /\ [Next]_vars => IInv'
<1> SUFFICES ASSUME IInv, [Next]_vars PROVE IInv'
  OBVIOUS
<1>1. CASE Next  BY <1>1, StepIInv DEF Next
<1>2. CASE UNCHANGED vars
  BY <1>2 DEF vars, IInv, TypeOK, AccountSeen, NoIntegrityError, Name
<1> QED BY <1>1, <1>2

LEMMA Invariance == Spec => []IInv
BY InitIInv, NextIInv, PTL DEF Spec

\* Every variable keeps its type, and only a worker that has credentials
\* takes the steps of seed_admin_user.
THEOREM TypeCorrect == Spec => []TypeOK
BY Invariance, PTL DEF IInv

\* The IntegrityError of a lost insert race never ends a worker.
THEOREM RaceSafe == Spec => []NoIntegrityError
BY Invariance, PTL DEF IInv

\* A worker that serves has its account in the table.
THEOREM Seeded == Spec => []ServingMeansSeeded
<1>1. IInv => ServingMeansSeeded
  BY DEF IInv, AccountSeen, ServingMeansSeeded
<1> QED BY <1>1, Invariance, PTL
-----------------------------------------------------------------------------
\* Each step of a worker is a step of AdminUpsert or leaves its variables
\* alone.  The upsert happens in Lookup or Reread if the right hash is read
\* (it changes nothing then), else in CreateUser or UpdateHash.
Phases == [w \in Workers |-> Phase(w)]

\* Where one worker's step leaves it decides the new phases.
LEMMA PhaseStep ==
    ASSUME NEW w \in Workers, IInv,
           \A v \in Workers \ {w} :
              pc'[v] = pc[v] /\ creds'[v] = creds[v] /\ existing'[v] = existing[v]
    PROVE  Phases' = [Phases EXCEPT ![w] = Phase(w)']
BY DEF Phases, Phase, Password

LEMMA UpsertStep ==
    ASSUME IInv, NEW w \in Workers, Step(w) \/ DbFault(w) \/ Stop(w) \/ Restart(w)
    PROVE  Upserting!Next \/ UNCHANGED Upserting!vars
<1>a. \A v \in Workers \ {w} :
         pc'[v] = pc[v] /\ creds'[v] = creds[v] /\ existing'[v] = existing[v]
  BY DEF IInv, TypeOK, Step, Introspect, TableCheck, CreateTable, Lookup, CreateUser,
         Reread, Verify, UpdateHash, DbFault, Stop, Restart, Goto, Die
<1>b. Phases' = [Phases EXCEPT ![w] = Phase(w)']
  BY <1>a, PhaseStep
<1>c. pc[w] \in Steps \cup {"serving", "down"} /\ pc \in [Workers -> Steps \cup {"serving", "down"}]
  BY DEF IInv, TypeOK
<1>d. Phases \in [Workers -> {"starting", "seeded", "serving", "down"}]
  BY <1>c DEF Phases, Phase, Steps, SeedSteps
<1>e. Phases[w] = Phase(w)
  BY DEF Phases
<1>f. creds[w] # NoCreds => Name(w) \in Names /\ Password(w) \in Passwords
  BY ConfigTyped DEF IInv, TypeOK, Name, Password
<1>g. Upserting!Die(w) <=>
        Phases' = [Phases EXCEPT ![w] = "down"] /\ UNCHANGED <<users, creds>>
  BY DEF Upserting!Die, Phases
<1>h. Upserting!Serve(w) <=>
        /\ Phases[w] = "seeded" \/ (Phases[w] = "starting" /\ creds[w] = NoCreds)
        /\ Phases' = [Phases EXCEPT ![w] = "serving"]
        /\ UNCHANGED <<users, creds>>
  BY DEF Upserting!Serve, Phases
<1>i. ASSUME NEW next \in {"seeded", "serving", "down"},
             Phases[w] = "starting", creds[w] # NoCreds,
             users' = [users EXCEPT ![Name(w)] = Password(w)],
             Phases' = [Phases EXCEPT ![w] = next], UNCHANGED creds
      PROVE  Upserting!Upsert(w)
  BY <1>i DEF Upserting!Upsert, Phases, Name, Password
<1>j. ASSUME Phase(w)' = Phases[w], UNCHANGED <<users, creds>>
      PROVE  UNCHANGED Upserting!vars
  BY <1>j, <1>b, <1>d DEF Upserting!vars, Phases
<1>k. Upserting!Die(w) \/ Upserting!Serve(w) \/ Upserting!Upsert(w) \/ Upserting!Restart(w)
        => Upserting!Next
  BY DEF Upserting!Next
<1>1. CASE Introspect(w)
  <2>1. Phase(w)' = "starting" /\ Phases[w] = "starting" /\ UNCHANGED <<users, creds>>
    BY <1>1, <1>c, <1>e DEF Introspect, Phase, Goto
  <2> QED BY <2>1, <1>j
<1>2. CASE TableCheck(w)
  <2>1. Phases[w] = "starting" /\ UNCHANGED <<users, creds>>
    BY <1>2, <1>e DEF TableCheck, Phase
  <2>2. \/ Phase(w)' = "starting"
        \/ Phase(w)' = "serving" /\ creds[w] = NoCreds
    BY <1>2, <1>c DEF TableCheck, AfterTable, Phase, Goto
  <2> QED BY <2>1, <2>2, <1>b, <1>h, <1>j, <1>k
<1>3. CASE CreateTable(w)
  <2>1. Phases[w] = "starting" /\ UNCHANGED <<users, creds>>
    BY <1>3, <1>e DEF CreateTable, Phase
  <2>2. \/ Phase(w)' = "starting"
        \/ Phase(w)' = "down"
        \/ Phase(w)' = "serving" /\ creds[w] = NoCreds
    BY <1>3, <1>c DEF CreateTable, AfterTable, Phase, Goto, Die
  <2> QED BY <2>1, <2>2, <1>b, <1>g, <1>h, <1>j, <1>k
<1>4. CASE Lookup(w) \/ Reread(w)
  <2>1. Phases[w] = "starting" /\ UNCHANGED <<users, creds>> /\ creds[w] # NoCreds
    BY <1>4, <1>e DEF Lookup, Reread, Phase, IInv, TypeOK, SeedSteps
  <2>2. \/ Phase(w)' \in {"starting", "down"}
        \/ Phase(w)' = "seeded" /\ users[Name(w)] = Password(w)
    BY <1>4, <1>c DEF Lookup, Reread, Phase, Goto, Die, IInv, TypeOK, Name, Password
  <2>3. CASE Phase(w)' = "seeded" /\ users[Name(w)] = Password(w)
    <3>1. users' = [users EXCEPT ![Name(w)] = Password(w)]
      BY <2>1, <2>3, <1>f DEF IInv, TypeOK
    <3> QED BY <3>1, <2>1, <2>3, <1>b, <1>i, <1>k
  <2> QED BY <2>1, <2>2, <2>3, <1>b, <1>g, <1>j, <1>k
<1>5. CASE CreateUser(w)
  <2>1. Phases[w] = "starting" /\ UNCHANGED creds /\ creds[w] # NoCreds
    BY <1>5, <1>e DEF CreateUser, Phase, IInv, TypeOK, SeedSteps
  <2>2. \/ Phase(w)' = "starting" /\ UNCHANGED users
        \/ /\ Phase(w)' = "serving"
           /\ users' = [users EXCEPT ![Name(w)] = Password(w)]
    BY <1>5, <1>c DEF CreateUser, Phase, Goto
  <2> QED BY <2>1, <2>2, <1>b, <1>i, <1>j, <1>k
<1>6. CASE Verify(w)
  <2>1. UNCHANGED <<users, creds>>
    BY <1>6 DEF Verify
  <2>2. \/ Phases[w] = "seeded" /\ Phase(w)' = "serving"
        \/ Phases[w] = "starting" /\ Phase(w)' = "starting"
    BY <1>6, <1>c, <1>e DEF Verify, Phase, Goto
  <2> QED BY <2>1, <2>2, <1>b, <1>h, <1>j, <1>k
<1>7. CASE UpdateHash(w)
  <2>1. Phases[w] = "starting" /\ UNCHANGED creds /\ creds[w] # NoCreds
    BY <1>7, <1>e DEF UpdateHash, Phase, IInv, TypeOK, SeedSteps
  <2>2. /\ Phase(w)' = "serving"
        /\ users' = [users EXCEPT ![Name(w)] = Password(w)]
    BY <1>7, <1>c, <2>1 DEF UpdateHash, Phase, Goto, IInv, AccountSeen
  <2> QED BY <2>1, <2>2, <1>b, <1>i, <1>k
<1>8. CASE DbFault(w)
  <2>1. Phase(w)' = "down" /\ UNCHANGED creds
    BY <1>8, <1>c DEF DbFault, Die, Goto, Phase
  <2>2. \/ UNCHANGED users
        \/ /\ pc[w] \in {"insert", "update"}
           /\ users' = [users EXCEPT ![Name(w)] = Password(w)]
    BY <1>8 DEF DbFault
  <2>3. pc[w] \in {"insert", "update"} => Phases[w] = "starting" /\ creds[w] # NoCreds
    BY <1>e DEF Phase, IInv, TypeOK, SeedSteps
  <2> QED BY <2>1, <2>2, <2>3, <1>b, <1>g, <1>i, <1>k
<1>9. CASE Stop(w)
  <2>1. Phase(w)' = "down" /\ UNCHANGED <<users, creds>>
    BY <1>9, <1>c DEF Stop, Die, Goto, Phase
  <2> QED BY <2>1, <1>b, <1>g, <1>k
<1>10. CASE Restart(w)
  <2>1. Phases[w] = "down" /\ Phase(w)' = "starting" /\ UNCHANGED users
    BY <1>10, <1>c, <1>e DEF Restart, Goto, Phase
  <2>2. \E c \in Configs : creds' = [creds EXCEPT ![w] = c]
    BY <1>10 DEF Restart
  <2>3. Upserting!Restart(w)
    BY <2>1, <2>2, <1>b DEF Upserting!Restart, Phases
  <2> QED BY <2>3, <1>k
<1> QED
  BY <1>1, <1>2, <1>3, <1>4, <1>5, <1>6, <1>7, <1>8, <1>9, <1>10 DEF Step

\* The step-by-step startup implements one atomic upsert per worker.
THEOREM Refinement == Spec => ImplementsAdminUpsert
<1>1. Init => Upserting!Init
  BY DEF Init, Upserting!Init, Phase
<1>2. IInv /\ [Next]_vars => [Upserting!Next]_Upserting!vars
  <2> SUFFICES ASSUME IInv, [Next]_vars
               PROVE  Upserting!Next \/ UNCHANGED Upserting!vars
    OBVIOUS
  <2>1. CASE Next  BY <2>1, UpsertStep DEF Next
  <2>2. CASE UNCHANGED vars
    BY <2>2 DEF vars, Upserting!vars, Phase, Password
  <2> QED BY <2>1, <2>2
<1> QED BY <1>1, <1>2, Invariance, PTL DEF Spec, Upserting!Spec, ImplementsAdminUpsert
=============================================================================
