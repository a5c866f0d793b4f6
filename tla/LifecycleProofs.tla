-------------------------- MODULE LifecycleProofs --------------------------
(***************************************************************************)
(* Theorems about RequestLifecycle, for any number of requests, of root    *)
(* fields and of turns, any pool and any timeouts: the gauge is exact,     *)
(* connections are accounted for, nobody waits for them in a circle, and   *)
(* what is counted is what the client saw, or was on its way to it.        *)
(*                                                                         *)
(* The invariant has two sides that share no variable: GaugeSide speaks of *)
(* the requests, PoolSide of their resolvers and connections.              *)
(***************************************************************************)
EXTENDS RequestLifecycle, FiniteSetTheorems, TLAPS

PlaceOK == pc \in [Slots -> {"idle", "run", "reply", "sending", "body"}]
KindOK  == kind \in [Slots -> Kinds]
AtOK    == at \in [Resolvers -> {"off", "waiting", "query"}]
HoldOK  == holds \in [Resolvers -> BOOLEAN]

\* A connection is held exactly while the statements on it run.
HoldInv == \A r \in Resolvers : holds[r] <=> at[r] = "query"

Holding == {r \in Resolvers : holds[r]}
Counted == {s \in Slots : InFlight(s) /\ Measured(kind[s])}

PoolInv  == checkedOut = Cardinality(Holding)
GaugeInv == inProgress = Cardinality(Counted)

GaugeSide == PlaceOK /\ KindOK /\ GaugeInv
PoolSide  == AtOK /\ HoldOK /\ HoldInv /\ PoolInv

IInv == GaugeSide /\ PoolSide

-----------------------------------------------------------------------------
\* A resolver runs for one of the requests.
LEMMA OwnerSlot == \A r \in Resolvers : Owner(r) \in Slots
BY DEF Resolvers, Owner

\* There are finitely many requests and resolvers, so both counts are numbers.
LEMMA FiniteParts == IsFiniteSet(Resolvers) /\ IsFiniteSet(Holding) /\ IsFiniteSet(Counted)
<1>1. IsFiniteSet(Slots) /\ IsFiniteSet(1 .. MaxFields)
  BY LifecycleAssumption, FS_Interval DEF LifecycleAssumption
<1>2. IsFiniteSet(Resolvers)
  BY <1>1, FS_Product DEF Resolvers
<1> QED  BY <1>1, <1>2, FS_Subset DEF Holding, Counted

-----------------------------------------------------------------------------
(* The gauge.                                                              *)

\* The finally of __call__ takes one request out of the gauge if it is in it.
LEMMA FinishKeepsGauge ==
    ASSUME GaugeSide, NEW s \in Slots, InFlight(s), Finish(s)
    PROVE  GaugeSide'
<1>1. pc' = [pc EXCEPT ![s] = "idle"] /\ kind' = [kind EXCEPT ![s] = "static"]
  BY DEF Finish, Forget
<1>2. PlaceOK' /\ KindOK'
  BY <1>1, Zenon DEF GaugeSide, PlaceOK, KindOK, Kinds
<1>3. pc'[s] = "idle" /\ \A t \in Slots \ {s} : pc'[t] = pc[t] /\ kind'[t] = kind[t]
  BY <1>1, Zenon DEF GaugeSide, PlaceOK, KindOK
<1>4. Counted' = Counted \ {s}
  BY <1>3, Zenon DEF Counted, InFlight, Measured
<1>5. Cardinality(Counted \ {s}) =
        IF s \in Counted THEN Cardinality(Counted) - 1 ELSE Cardinality(Counted)
  BY FiniteParts, FS_RemoveElement
<1>6. CASE Measured(kind[s])
  <2>1. s \in Counted
    BY <1>6 DEF Counted
  <2>2. inProgress \in Nat /\ inProgress # 0
    BY <2>1, FiniteParts, FS_CardinalityType, FS_EmptySet DEF GaugeSide, GaugeInv
  <2>3. inProgress' = inProgress - 1
    BY <1>6, <2>2, SMT DEF Finish, Decremented
  <2> QED  BY <1>2, <1>4, <1>5, <2>1, <2>3 DEF GaugeSide, GaugeInv
<1>7. CASE ~Measured(kind[s])
  <2>1. s \notin Counted /\ inProgress' = inProgress
    BY <1>7 DEF Counted, Finish
  <2> QED  BY <1>2, <1>4, <1>5, <2>1 DEF GaugeSide, GaugeInv
<1> QED  BY <1>6, <1>7

\* A step from one place in flight to another leaves the gauge alone.
LEMMA StaysCounted ==
    ASSUME GaugeSide, NEW s \in Slots, InFlight(s),
           NEW p \in {"run", "reply", "sending", "body"},
           pc' = [pc EXCEPT ![s] = p], UNCHANGED <<kind, inProgress>>
    PROVE  GaugeSide'
<1>1. PlaceOK' /\ KindOK'
  BY Zenon DEF GaugeSide, PlaceOK, KindOK
<1>2. pc'[s] # "idle" /\ \A t \in Slots \ {s} : pc'[t] = pc[t]
  BY Zenon DEF GaugeSide, PlaceOK
<1>3. Counted' = Counted
  BY <1>2, Zenon DEF Counted, InFlight
<1> QED  BY <1>1, <1>3 DEF GaugeSide, GaugeInv

\* So does a step that keeps every request where it is.
LEMMA SamePlaces == GaugeSide /\ UNCHANGED <<pc, kind, inProgress>> => GaugeSide'
BY DEF GaugeSide, PlaceOK, KindOK, GaugeInv, Counted, InFlight

\* A resolver that ends leaves its request in flight.
LEMMA SettleKeepsGauge ==
    ASSUME GaugeSide, NEW r \in Resolvers, Settle(r) \/ Gathered(r)
    PROVE  GaugeSide'
<1>1. CASE UNCHANGED <<pc, kind, inProgress>>
  BY <1>1, SamePlaces
<1>2. CASE pc[Owner(r)] = "run" /\ Produce(Owner(r), 200)
  BY <1>2, StaysCounted, OwnerSlot DEF Produce, InFlight
<1> QED  BY <1>1, <1>2 DEF Settle, Gathered, NextTurn, request

\* A failed resolver ends its request, has it answered or leaves it running.
LEMMA FailKeepsGauge ==
    ASSUME GaugeSide, NEW r \in Resolvers, Fail(r)
    PROVE  GaugeSide'
<1>1. CASE pc[Owner(r)] = "run" /\ Finish(Owner(r))
  BY <1>1, FinishKeepsGauge, OwnerSlot DEF InFlight
<1>2. CASE pc[Owner(r)] = "run" /\ Produce(Owner(r), 200)
  BY <1>2, StaysCounted, OwnerSlot DEF Produce, InFlight
<1>3. CASE pc[Owner(r)] = "run" /\ Produce(Owner(r), 503)
  BY <1>3, StaysCounted, OwnerSlot DEF Produce, InFlight
<1>4. CASE Settle(r) \/ Gathered(r)
  BY <1>4, SettleKeepsGauge
<1> QED  BY <1>1, <1>2, <1>3, <1>4 DEF Fail

-----------------------------------------------------------------------------
(* The pool.                                                               *)

\* Resolver r stops, or goes on to wait; the others stay where they are.
Quits(r) ==
    /\ AtOK'
    /\ at'[r] # "query"
    /\ \A t \in Resolvers \ {r} : at'[t] = at[t]

\* Off ends the resolvers it is given and no others.
LEMMA OffEnds ==
    ASSUME AtOK, NEW rs \in SUBSET Resolvers, Off(rs)
    PROVE  /\ AtOK'
           /\ \A r \in rs : at'[r] = "off"
           /\ \A r \in Resolvers \ rs : at'[r] = at[r]
<1>1. at' = [r \in Resolvers |-> IF r \in rs THEN "off" ELSE at[r]]
  BY DEF Off
<1> QED  BY <1>1 DEF AtOK

\* One resolver that is switched off quits.
LEMMA OffQuits ==
    ASSUME AtOK, NEW r \in Resolvers, Off({r})
    PROVE  Quits(r)
BY OffEnds DEF Quits

\* A resolver that is done with its connection quits.
LEMMA SettleQuits ==
    ASSUME AtOK, NEW r \in Resolvers, Settle(r) \/ Gathered(r)
    PROVE  Quits(r)
<1>1. CASE NextTurn(r)
  <2>1. at' = [at EXCEPT ![r] = "waiting"]
    BY <1>1 DEF NextTurn
  <2> QED  BY <2>1 DEF AtOK, Quits
<1>2. CASE Gathered(r)
  BY <1>2, OffQuits DEF Gathered
<1> QED  BY <1>1, <1>2 DEF Settle

\* So does one that has failed.
LEMMA FailQuits ==
    ASSUME AtOK, NEW r \in Resolvers, Fail(r)
    PROVE  Quits(r)
BY OffQuits, SettleQuits DEF Fail

\* Release gives back just what these resolvers held.
LEMMA ReleaseGivesBack ==
    ASSUME HoldOK, PoolInv, NEW rs \in SUBSET Resolvers, Release(rs)
    PROVE  /\ HoldOK' /\ PoolInv'
           /\ \A r \in rs : ~holds'[r]
           /\ \A r \in Resolvers \ rs : holds'[r] = holds[r]
<1>1. holds' = [r \in Resolvers |-> IF r \in rs THEN FALSE ELSE holds[r]]
  BY DEF Release
<1>2. HoldOK'
  BY <1>1 DEF HoldOK
<1>3. \A r \in Resolvers : holds'[r] <=> (r \notin rs /\ holds[r])
  BY <1>1, Zenon
<1>4. Holding' = Holding \ rs
  BY <1>3, Zenon DEF Holding
<1>5. {r \in rs : holds[r]} = Holding \cap rs
  BY DEF Holding
<1>6. Cardinality(Holding \ rs) = Cardinality(Holding) - Cardinality(Holding \cap rs)
  BY FiniteParts, FS_Difference
<1>7. checkedOut' = checkedOut - Cardinality(Holding \cap rs)
  BY <1>5 DEF Release
<1>8. PoolInv'
  BY <1>4, <1>6, <1>7 DEF PoolInv
<1>9. \A r \in Resolvers \ rs : holds'[r] = holds[r]
  BY <1>1
<1> QED  BY <1>2, <1>3, <1>8, <1>9

\* Whatever ends the use of a connection gives it back.
LEMMA QuitsReleased ==
    ASSUME PoolSide, NEW r \in Resolvers, Quits(r), Release({r})
    PROVE  PoolSide'
<1>1. /\ HoldOK' /\ PoolInv' /\ ~holds'[r]
      /\ \A t \in Resolvers \ {r} : holds'[t] = holds[t]
  BY ReleaseGivesBack DEF PoolSide
<1>2. HoldInv'
  BY <1>1 DEF PoolSide, HoldInv, Quits
<1> QED  BY <1>1, <1>2 DEF PoolSide, Quits

\* One that was waiting has nothing to give back.
LEMMA QuitsWaiting ==
    ASSUME PoolSide, NEW r \in Resolvers, at[r] = "waiting", Quits(r), UNCHANGED pool
    PROVE  PoolSide'
<1>1. UNCHANGED <<holds, checkedOut>> /\ HoldOK' /\ PoolInv'
  BY DEF pool, PoolSide, HoldOK, PoolInv, Holding
<1>2. HoldInv'
  BY <1>1 DEF PoolSide, HoldInv, Quits
<1> QED  BY <1>1, <1>2 DEF PoolSide, Quits

\* A step that moves no resolver and no connection keeps the pool's side.
LEMMA SamePool == PoolSide /\ UNCHANGED <<at, pool>> => PoolSide'
BY DEF PoolSide, AtOK, HoldOK, HoldInv, PoolInv, Holding, pool

-----------------------------------------------------------------------------
\* With every slot idle nothing is held and nothing counted.
LEMMA InitInv == Init => IInv
<1> SUFFICES ASSUME Init PROVE IInv
  OBVIOUS
<1>1. PlaceOK /\ KindOK /\ AtOK /\ HoldOK /\ HoldInv
  BY DEF Init, PlaceOK, KindOK, AtOK, HoldOK, HoldInv, Kinds
<1>2. Holding = {} /\ Counted = {}
  BY DEF Init, Holding, Counted, InFlight
<1> QED  BY <1>1, <1>2, FS_EmptySet DEF IInv, GaugeSide, PoolSide, PoolInv, GaugeInv, Init

\* An arriving request joins the gauge if it is measured; its resolvers hold
\* nothing.
LEMMA ArriveInv ==
    ASSUME IInv, NEW s \in Slots, NEW k \in Kinds, Arrive(s, k)
    PROVE  IInv'
<1>1. PICK n : \E m \in Turns(k) :
        /\ at' = [r \in Resolvers |-> IF r \in Started(s, n) THEN "waiting" ELSE at[r]]
        /\ pc' = [pc EXCEPT ![s] = IF n = 0 THEN "reply" ELSE "run"]
  BY DEF Arrive
<1>2. /\ ~Busy(s) /\ pc[s] = "idle" /\ kind' = [kind EXCEPT ![s] = k]
      /\ UNCHANGED <<holds, checkedOut>>
      /\ inProgress' = IF Measured(k) THEN inProgress + 1 ELSE inProgress
  BY DEF Arrive, Busy, InFlight, pool
<1>3. PlaceOK' /\ KindOK' /\ AtOK' /\ HoldOK' /\ PoolInv'
  BY <1>1, <1>2 DEF IInv, GaugeSide, PoolSide, PlaceOK, KindOK, AtOK, HoldOK, PoolInv, Holding
<1>4. HoldInv'
  <2>1. \A r \in Started(s, n) : r \in Resolvers /\ at[r] = "off"
    BY <1>2 DEF Busy, Active, Started, ResolversOf
  <2>2. \A r \in Resolvers : at'[r] = "query" <=> at[r] = "query"
    BY <1>1, <2>1
  <2> QED  BY <1>2, <2>2 DEF IInv, PoolSide, HoldInv
<1>5. /\ pc'[s] # "idle" /\ kind'[s] = k
      /\ \A t \in Slots \ {s} : pc'[t] = pc[t] /\ kind'[t] = kind[t]
  BY <1>1, <1>2 DEF IInv, GaugeSide, PlaceOK, KindOK
<1>6. s \notin Counted
  BY <1>2 DEF Counted, InFlight
<1>7. GaugeInv'
  <2>1. CASE Measured(k)
    <3>1. Counted' = Counted \cup {s}
      BY <1>5, <2>1, Zenon DEF Counted, InFlight, Measured
    <3>2. Cardinality(Counted \cup {s}) = Cardinality(Counted) + 1
      BY <1>6, FiniteParts, FS_AddElement
    <3> QED  BY <1>2, <2>1, <3>1, <3>2 DEF IInv, GaugeSide, GaugeInv
  <2>2. CASE ~Measured(k)
    <3>1. Counted' = Counted
      BY <1>5, <1>6, <2>2, Zenon DEF Counted, InFlight, Measured
    <3> QED  BY <1>2, <2>2, <3>1 DEF IInv, GaugeSide, GaugeInv
  <2> QED  BY <2>1, <2>2
<1> QED  BY <1>3, <1>4, <1>7 DEF IInv, GaugeSide, PoolSide

\* A connection is taken from the pool by one that had none.
LEMMA ConnectInv ==
    ASSUME IInv, NEW r \in Resolvers, Connect(r)
    PROVE  IInv'
<1>1. at[r] = "waiting" /\ ~holds[r]
  BY DEF Connect, IInv, PoolSide, HoldInv
<1>2. CASE /\ holds' = [holds EXCEPT ![r] = TRUE]
           /\ checkedOut' = checkedOut + 1
           /\ at' = [at EXCEPT ![r] = "query"]
           /\ UNCHANGED <<pc, kind, inProgress>>
  <2>1. GaugeSide'
    BY <1>2, SamePlaces DEF IInv
  <2>2. /\ HoldOK' /\ holds'[r] /\ AtOK' /\ at'[r] = "query"
        /\ \A t \in Resolvers \ {r} : holds'[t] = holds[t] /\ at'[t] = at[t]
    BY <1>2, Zenon DEF IInv, PoolSide, HoldOK, AtOK
  <2>3. HoldInv'
    BY <2>2 DEF IInv, PoolSide, HoldInv
  <2>4. Holding' = Holding \cup {r} /\ r \notin Holding
    BY <1>1, <2>2, Zenon DEF Holding
  <2>5. Cardinality(Holding \cup {r}) = Cardinality(Holding) + 1
    BY <2>4, FiniteParts, FS_AddElement
  <2>6. PoolInv'
    BY <1>2, <2>4, <2>5 DEF IInv, PoolSide, PoolInv
  <2> QED  BY <2>1, <2>2, <2>3, <2>6 DEF IInv, PoolSide
<1>3. CASE Fail(r) /\ UNCHANGED pool
  BY <1>1, <1>3, FailKeepsGauge, FailQuits, QuitsWaiting DEF IInv, PoolSide
<1> QED  BY <1>2, <1>3 DEF Connect, request

\* The statements' end gives the connection back.
LEMMA QueryInv ==
    ASSUME IInv, NEW r \in Resolvers, Settle(r), Release({r})
    PROVE  IInv'
BY SettleKeepsGauge, SettleQuits, QuitsReleased DEF IInv, PoolSide

\* A failure or a timeout gives back whatever was held.
LEMMA FailedInv ==
    ASSUME IInv, NEW r \in Resolvers, Fail(r),
           Release({r}) \/ (at[r] = "waiting" /\ UNCHANGED pool)
    PROVE  IInv'
BY FailKeepsGauge, FailQuits, QuitsReleased, QuitsWaiting DEF IInv, PoolSide

\* A cancelled request takes the resolvers it waits for with it.
LEMMA CancelInv ==
    ASSUME IInv, NEW s \in Slots, Cancel(s)
    PROVE  IInv'
<1>1. GaugeSide'
  BY FinishKeepsGauge DEF Cancel, IInv
<1> DEFINE rs == Cancelled(s)
<1>2. rs \in SUBSET Resolvers
  BY DEF Cancelled, ResolversOf
<1>3. Release(rs) /\ Off(rs)
  BY DEF Cancel
<1> HIDE DEF rs
<1>4. /\ AtOK'
      /\ \A r \in rs : at'[r] = "off"
      /\ \A r \in Resolvers \ rs : at'[r] = at[r]
  BY <1>2, <1>3, OffEnds DEF IInv, PoolSide
<1>5. /\ HoldOK' /\ PoolInv'
      /\ \A r \in rs : ~holds'[r]
      /\ \A r \in Resolvers \ rs : holds'[r] = holds[r]
  BY <1>2, <1>3, ReleaseGivesBack DEF IInv, PoolSide
<1>6. HoldInv'
  BY <1>4, <1>5 DEF IInv, PoolSide, HoldInv
<1> QED  BY <1>1, <1>4, <1>5, <1>6 DEF IInv, PoolSide

\* Sending a response touches no connection.
LEMMA RespondInv ==
    ASSUME IInv, NEW s \in Slots, Respond(s)
    PROVE  IInv'
<1>1. PoolSide'
  BY SamePool DEF Respond, SendStart, Deliver, SendBody, IInv
<1>2. CASE SendStart(s)
  BY <1>1, <1>2, StaysCounted DEF SendStart, InFlight, IInv
<1>3. CASE Deliver(s)
  BY <1>1, <1>3, StaysCounted DEF Deliver, InFlight, IInv
<1>4. CASE SendBody(s)
  BY <1>1, <1>4, FinishKeepsGauge DEF SendBody, InFlight, IInv
<1> QED  BY <1>2, <1>3, <1>4 DEF Respond

\* Every step of Next keeps the invariant, one step per action.
LEMMA StepInv == IInv /\ [Next]_vars => IInv'
<1> SUFFICES ASSUME IInv, [Next]_vars PROVE IInv'
  OBVIOUS
<1>1. ASSUME NEW r \in Resolvers, Resolve(r) PROVE IInv'
  <2>1. CASE Connect(r)
    BY <2>1, ConnectInv
  <2>2. CASE GiveUp(r)
    BY <2>2, FailedInv DEF GiveUp
  <2>3. CASE Query(r)
    BY <2>3, QueryInv DEF Query
  <2>4. CASE QueryError(r)
    BY <2>4, FailedInv DEF QueryError
  <2>5. CASE ProbeTimeout(r)
    BY <2>5, FailedInv DEF ProbeTimeout
  <2> QED  BY <1>1, <2>1, <2>2, <2>3, <2>4, <2>5 DEF Resolve
<1>2. ASSUME NEW s \in Slots, Respond(s) \/ Cancel(s) PROVE IInv'
  BY <1>2, RespondInv, CancelInv
<1>3. ASSUME NEW s \in Slots, NEW k \in Kinds, Arrive(s, k) PROVE IInv'
  BY <1>3, ArriveInv
<1>4. CASE Tick \/ DbFlip \/ UNCHANGED vars
  <2>1. UNCHANGED <<pc, kind, inProgress, at, pool>>
    BY <1>4 DEF Tick, DbFlip, vars, request, account
  <2> QED  BY <2>1, SamePlaces, SamePool DEF IInv
<1> QED  BY <1>1, <1>2, <1>3, <1>4 DEF Next

\* The invariant holds in every behaviour.
LEMMA Invariance == Spec => []IInv
BY InitInv, StepInv, PTL DEF Spec

-----------------------------------------------------------------------------
\* The gauge is the number of measured requests in flight, for any number of
\* requests, whether they are answered, raise or are cancelled
\* (PerformanceMiddleware.__call__).
THEOREM Gauge == Spec => []GaugeExact
<1>1. IInv => GaugeExact
  BY DEF IInv, GaugeSide, GaugeInv, Counted, GaugeExact
<1> QED  BY <1>1, Invariance, PTL

\* Connections are neither lost nor given back twice, for any pool
\* (engine.connect, readiness).
THEOREM Accounted == Spec => []PoolAccounted
<1>1. IInv => PoolAccounted
  BY DEF IInv, PoolSide, PoolInv, Holding, HoldInv, PoolAccounted
<1> QED  BY <1>1, Invariance, PTL

\* Whenever the pool is empty, statements run on one of its connections: the
\* resolvers never wait for each other in a circle, although those of one
\* request run concurrently (_create_resolver, _list_resolver).
THEOREM NoCircle == Spec => []NoCircularWait
<1>1. IInv => NoCircularWait
  <2> SUFFICES ASSUME IInv, checkedOut = Capacity
               PROVE  \E r \in Resolvers : holds[r] /\ at[r] = "query"
    BY DEF NoCircularWait
  <2>1. Cardinality(Holding) # 0
    BY LifecycleAssumption DEF LifecycleAssumption, IInv, PoolSide, PoolInv
  <2>2. Holding # {}
    BY <2>1, FS_EmptySet
  <2> QED  BY <2>2 DEF Holding, IInv, PoolSide, HoldInv
<1> QED  BY <1>1, Invariance, PTL

-----------------------------------------------------------------------------
(* What the client saw and what the collector counted.                     *)

\* The request's locals, and what was captured, sent and counted for it.
LocalOK ==
    /\ left \in [Slots -> 0 .. MaxTurns]
    /\ status \in [Slots -> Statuses] /\ captured \in [Slots -> Statuses]
    /\ reply \in [Slots -> Statuses \cup {0}]
    /\ recorded \in [Slots -> Statuses \cup {0}]

TimerOK ==
    /\ waited \in [Resolvers -> Nat]
    /\ checkedOut <= Capacity
    /\ dbUp \in BOOLEAN

\* 500 is captured until the response starts, from then on the status that is
\* on its way.  The client sees that one or none.
Story(s) ==
    /\ pc[s] \in {"run", "reply"} => reply[s] = 0 /\ captured[s] = 500
    /\ pc[s] = "sending" => reply[s] = 0
    /\ pc[s] = "body" => reply[s] \in {0, status[s]}
    /\ pc[s] \in {"sending", "body"} => (Measured(kind[s]) => captured[s] = status[s])

RInv == LocalOK /\ TimerOK /\ \A s \in Slots : Story(s)

\* What a step leaves of the other slots.
Apart(s) ==
    \A t \in Slots \ {s} :
        /\ pc'[t] = pc[t] /\ kind'[t] = kind[t] /\ status'[t] = status[t]
        /\ captured'[t] = captured[t] /\ reply'[t] = reply[t]
        /\ recorded'[t] = recorded[t]

\* A request that is counted is counted as RecordMatchesReply says.
CountedWell(s) ==
    recorded'[s] \notin {0, recorded[s]} =>
       recorded'[s] = IF reply'[s] # 0 THEN reply'[s]
                      ELSE IF pc[s] \in {"sending", "body"} THEN status[s]
                      ELSE 500

\* A step that is s's own, keeps its part and counts it as it should.
Told(s) == Apart(s) /\ Story(s)' /\ LocalOK' /\ CountedWell(s)

\* Such a step keeps the account of all, and counts nobody else.
LEMMA OwnStory ==
    ASSUME RInv, NEW s \in Slots, Told(s)
    PROVE  LocalOK' /\ (\A t \in Slots : Story(t)') /\ \A t \in Slots : CountedWell(t)
<1>1. ASSUME NEW t \in Slots \ {s} PROVE Story(t)' /\ CountedWell(t)
  BY <1>1 DEF Told, Apart, Story, RInv, Measured, CountedWell
<1> QED  BY <1>1 DEF Told

\* The finally of __call__ counts what was captured, or fails to.
LEMMA FinishTold ==
    ASSUME IInv, RInv, NEW s \in Slots, InFlight(s), Finish(s), UNCHANGED captured,
           UNCHANGED reply \/ (pc[s] = "run" /\ reply' = [reply EXCEPT ![s] = 500])
    PROVE  Told(s)
<1>1. pc'[s] = "idle" /\ LocalOK' /\ Apart(s)
  <2>1. recorded' = recorded \/ recorded' = [recorded EXCEPT ![s] = captured[s]]
    BY DEF Finish
  <2>2. reply' = reply \/ reply' = [reply EXCEPT ![s] = 500]
    OBVIOUS
  <2>3. pc'[s] = "idle"
    BY DEF Finish, Forget, IInv, GaugeSide, PlaceOK
  <2>4. LocalOK'
    BY <2>1, <2>2, LifecycleAssumption
       DEF LifecycleAssumption, Finish, Forget, RInv, LocalOK, Statuses
  <2>5. Apart(s)
    <3>1. \A t \in Slots \ {s} :
            recorded'[t] = recorded[t] /\ reply'[t] = reply[t] /\ captured'[t] = captured[t]
      BY <2>1, <2>2 DEF RInv, LocalOK
    <3>2. \A t \in Slots \ {s} :
            pc'[t] = pc[t] /\ kind'[t] = kind[t] /\ status'[t] = status[t]
      BY DEF Finish, Forget, RInv, LocalOK, IInv, GaugeSide, PlaceOK, KindOK
    <3> QED  BY <3>1, <3>2 DEF Apart
  <2> QED  BY <2>3, <2>4, <2>5
<1>2. Story(s) /\ captured[s] \in Statuses
  BY DEF RInv, LocalOK
<1>3. recorded'[s] = recorded[s] \/ (Measured(kind[s]) /\ recorded'[s] = captured[s])
  BY DEF Finish, RInv, LocalOK
<1>4. reply'[s] = reply[s] \/ (pc[s] = "run" /\ reply'[s] = 500)
  BY DEF RInv, LocalOK
<1>5. pc[s] \in {"run", "reply", "sending", "body"}
  BY DEF IInv, GaugeSide, PlaceOK, InFlight
<1>6. Story(s)'
  BY <1>1 DEF Story
<1>7. CountedWell(s)
  BY <1>2, <1>3, <1>4, <1>5 DEF CountedWell, Story
<1> QED  BY <1>1, <1>6, <1>7 DEF Told

\* The endpoint's status waits to be sent; 500 is still what is captured.
LEMMA ProduceTold ==
    ASSUME IInv, RInv, NEW s \in Slots, pc[s] = "run",
           NEW st \in Statuses, Produce(s, st), UNCHANGED captured
    PROVE  Told(s)
<1>1. pc'[s] = "reply" /\ LocalOK' /\ Apart(s)
  BY LifecycleAssumption
     DEF LifecycleAssumption, Produce, RInv, LocalOK, Apart, IInv, GaugeSide, PlaceOK
<1> QED  BY <1>1 DEF Told, Story, RInv, Produce, CountedWell

\* A resolver that only moves on tells nothing of its request.
LEMMA SilentTold ==
    ASSUME IInv, RInv, NEW s \in Slots, LocalOK',
           UNCHANGED <<pc, kind, status, captured, reply, recorded>>
    PROVE  Told(s)
BY DEF Told, Apart, Story, RInv, CountedWell, Measured

\* A resolver is done, and with it perhaps the response.
LEMMA SettleTold ==
    ASSUME IInv, RInv, NEW r \in Resolvers, Settle(r) \/ Gathered(r), UNCHANGED captured
    PROVE  Told(Owner(r))
<1>1. CASE NextTurn(r)
  <2>1. LocalOK'
    BY <1>1, OwnerSlot, LifecycleAssumption
       DEF LifecycleAssumption, NextTurn, RInv, LocalOK
  <2> QED  BY <1>1, <2>1, OwnerSlot, SilentTold DEF NextTurn
<1>2. CASE pc[Owner(r)] = "run" /\ Produce(Owner(r), 200)
  BY <1>2, OwnerSlot, ProduceTold DEF Statuses
<1>3. CASE UNCHANGED <<request, reply, recorded>>
  <2>1. UNCHANGED <<pc, kind, left, status, reply, recorded, captured>> /\ LocalOK'
    BY <1>3 DEF request, RInv, LocalOK
  <2> QED  BY <2>1, OwnerSlot, SilentTold
<1> QED  BY <1>1, <1>2, <1>3 DEF Settle, Gathered

\* A failed request is answered 500 or goes on to reply with its own status.
LEMMA FailTold ==
    ASSUME IInv, RInv, NEW r \in Resolvers, Fail(r), UNCHANGED captured
    PROVE  Told(Owner(r))
<1>1. CASE /\ pc[Owner(r)] = "run" /\ Finish(Owner(r))
           /\ reply' = [reply EXCEPT ![Owner(r)] = 500]
  BY <1>1, OwnerSlot, FinishTold DEF InFlight
<1>2. CASE pc[Owner(r)] = "run" /\ (Produce(Owner(r), 503) \/ Produce(Owner(r), 200))
  BY <1>2, OwnerSlot, ProduceTold DEF Statuses
<1>3. CASE Settle(r) \/ Gathered(r)
  BY <1>3, SettleTold
<1> QED  BY <1>1, <1>2, <1>3 DEF Fail

\* Whatever a resolver does, its request is told as it should be.
LEMMA ResolveTold ==
    ASSUME IInv, RInv, NEW r \in Resolvers, Resolve(r)
    PROVE  Told(Owner(r))
<1>1. CASE Connect(r)
  <2>1. CASE Fail(r)
    BY <1>1, <2>1, FailTold DEF Connect
  <2>2. CASE UNCHANGED <<request, reply, recorded, captured>>
    <3>1. UNCHANGED <<pc, kind, left, status, reply, recorded, captured>> /\ LocalOK'
      BY <2>2 DEF request, RInv, LocalOK
    <3> QED  BY <3>1, OwnerSlot, SilentTold
  <2> QED  BY <1>1, <2>1, <2>2 DEF Connect
<1>2. CASE Query(r)
  BY <1>2, SettleTold DEF Query
<1>3. CASE GiveUp(r) \/ QueryError(r) \/ ProbeTimeout(r)
  BY <1>3, FailTold DEF GiveUp, QueryError, ProbeTimeout
<1> QED  BY <1>1, <1>2, <1>3 DEF Resolve

\* The halves of the response, with the status taken down before it goes out.
LEMMA RespondTold ==
    ASSUME IInv, RInv, NEW s \in Slots, Respond(s)
    PROVE  Told(s)
<1>1. CASE SendStart(s)
  <2>1. Apart(s) /\ pc'[s] = "sending" /\ LocalOK' /\ UNCHANGED <<kind, status, reply, recorded>>
        /\ (Measured(kind[s]) => captured'[s] = status[s])
    BY <1>1 DEF SendStart, Apart, RInv, LocalOK, IInv, GaugeSide, PlaceOK
  <2> QED  BY <1>1, <2>1 DEF SendStart, Told, Story, RInv, CountedWell
<1>2. CASE Deliver(s)
  <2>1. Apart(s) /\ pc'[s] = "body" /\ LocalOK' /\ reply'[s] \in {reply[s], status[s]}
    BY <1>2 DEF Deliver, Apart, RInv, LocalOK, IInv, GaugeSide, PlaceOK
  <2> QED  BY <1>2, <2>1 DEF Deliver, Told, Story, RInv, CountedWell, Measured
<1>3. CASE SendBody(s)
  BY <1>3, FinishTold DEF SendBody, InFlight
<1> QED  BY <1>1, <1>2, <1>3 DEF Respond

\* An arriving request starts a story of its own.
LEMMA ArriveTold ==
    ASSUME IInv, RInv, NEW s \in Slots, NEW k \in Kinds, Arrive(s, k)
    PROVE  Told(s)
<1>1. PICK n \in Fields(k), m \in Turns(k) :
        /\ left' = [left EXCEPT ![s] = m]
        /\ pc' = [pc EXCEPT ![s] = IF n = 0 THEN "reply" ELSE "run"]
  BY DEF Arrive
<1>2. m \in 0 .. MaxTurns
  BY <1>1, LifecycleAssumption DEF LifecycleAssumption, Turns
<1>3. Apart(s) /\ LocalOK' /\ reply'[s] = 0 /\ captured'[s] = 500 /\ recorded'[s] = 0
  BY <1>1, <1>2 DEF Arrive, Apart, RInv, LocalOK, Statuses, IInv, GaugeSide, PlaceOK, KindOK
<1>4. pc'[s] \in {"reply", "run"}
  BY <1>1 DEF IInv, GaugeSide, PlaceOK
<1> QED  BY <1>3, <1>4 DEF Told, Story, CountedWell

\* Every step keeps the account and counts as it should.
LEMMA StoryStep ==
    ASSUME IInv, RInv, [Next]_vars
    PROVE  LocalOK' /\ (\A t \in Slots : Story(t)') /\ \A t \in Slots : CountedWell(t)
<1>1. ASSUME NEW r \in Resolvers, Resolve(r)
      PROVE  LocalOK' /\ (\A t \in Slots : Story(t)') /\ \A t \in Slots : CountedWell(t)
  BY <1>1, OwnerSlot, ResolveTold, OwnStory
<1>2. ASSUME NEW s \in Slots, Respond(s)
      PROVE  LocalOK' /\ (\A t \in Slots : Story(t)') /\ \A t \in Slots : CountedWell(t)
  BY <1>2, RespondTold, OwnStory
<1>3. ASSUME NEW s \in Slots, Cancel(s)
      PROVE  LocalOK' /\ (\A t \in Slots : Story(t)') /\ \A t \in Slots : CountedWell(t)
  BY <1>3, FinishTold, OwnStory DEF Cancel
<1>4. ASSUME NEW s \in Slots, NEW k \in Kinds, Arrive(s, k)
      PROVE  LocalOK' /\ (\A t \in Slots : Story(t)') /\ \A t \in Slots : CountedWell(t)
  BY <1>4, ArriveTold, OwnStory
<1>5. CASE Tick \/ DbFlip \/ UNCHANGED vars
  <2>1. UNCHANGED <<pc, kind, left, status, captured, reply, recorded>>
    BY <1>5 DEF Tick, DbFlip, vars, request, account
  <2> QED  BY <2>1 DEF RInv, LocalOK, Story, Measured, CountedWell
<1> QED  BY <1>1, <1>2, <1>3, <1>4, <1>5 DEF Next

\* A resolver's timer and the size of the pool stay in bounds.
LEMMA TimerStep ==
    ASSUME IInv, RInv, [Next]_vars
    PROVE  TimerOK'
<1>1. checkedOut \in Nat /\ Capacity \in Nat /\ checkedOut <= Capacity
  BY FiniteParts, FS_CardinalityType, LifecycleAssumption
     DEF IInv, PoolSide, PoolInv, RInv, TimerOK, LifecycleAssumption
<1>2. ASSUME NEW rs \in SUBSET Resolvers, Release(rs) PROVE checkedOut' <= Capacity
  <2>1. IsFiniteSet({r \in rs : holds[r]})
    BY FiniteParts, FS_Subset
  <2> QED  BY <1>1, <1>2, <2>1, FS_CardinalityType DEF Release
<1>3. ASSUME NEW rs \in SUBSET Resolvers, Off(rs) PROVE waited' \in [Resolvers -> Nat]
  BY <1>3 DEF Off, RInv, TimerOK
<1>4. ASSUME NEW r \in Resolvers, Settle(r) \/ Gathered(r) PROVE waited' \in [Resolvers -> Nat]
  BY <1>3, <1>4 DEF Settle, Gathered, NextTurn, RInv, TimerOK
<1>5. ASSUME NEW r \in Resolvers, Fail(r) PROVE waited' \in [Resolvers -> Nat]
  BY <1>3, <1>4, <1>5 DEF Fail
<1>6. ASSUME NEW r \in Resolvers, Resolve(r) PROVE TimerOK'
  <2>1. CASE Connect(r)
    BY <1>1, <1>5, <2>1 DEF Connect, RInv, TimerOK, pool
  <2>2. CASE GiveUp(r)
    BY <1>5, <2>2 DEF GiveUp, RInv, TimerOK, pool
  <2>3. CASE Query(r)
    BY <1>2, <1>4, <2>3 DEF Query, RInv, TimerOK
  <2>4. CASE QueryError(r) \/ ProbeTimeout(r)
    BY <1>2, <1>5, <2>4 DEF QueryError, ProbeTimeout, RInv, TimerOK
  <2> QED  BY <1>6, <2>1, <2>2, <2>3, <2>4 DEF Resolve
<1>7. ASSUME NEW s \in Slots, Cancel(s) PROVE TimerOK'
  <2>1. Cancelled(s) \in SUBSET Resolvers
    BY DEF Cancelled, ResolversOf
  <2> QED  BY <1>2, <1>3, <1>7, <2>1 DEF Cancel, RInv, TimerOK
<1>8. CASE Tick
  BY <1>8 DEF Tick, RInv, TimerOK, pool
<1>9. CASE DbFlip
  BY <1>9 DEF DbFlip, RInv, TimerOK, pool
<1>10. CASE UNCHANGED <<waited, pool, dbUp>>
  BY <1>10 DEF RInv, TimerOK, pool
<1> QED  BY <1>6, <1>7, <1>8, <1>9, <1>10
         DEF Next, Respond, SendStart, Deliver, SendBody, Arrive, vars

\* The account holds in every behaviour.
LEMMA Accounts == Spec => []RInv
<1>1. Init => RInv
  BY LifecycleAssumption
     DEF LifecycleAssumption, Init, RInv, LocalOK, TimerOK, Story, Statuses
<1>2. IInv /\ RInv /\ [Next]_vars => RInv'
  BY StoryStep, TimerStep DEF RInv
<1> QED  BY <1>1, <1>2, Invariance, PTL DEF Spec

\* What the collector counts for a request is the status its client saw.  If it
\* saw none it is 500, or the status of the answer that was cut off on its way,
\* whether the endpoint answers, raises, times out or is cancelled
\* (send_wrapper, __call__).
THEOREM CountedAsSeen == Spec => RecordMatchesReply
<1>1. ASSUME IInv, RInv, [Next]_vars PROVE \A s \in Slots : CountedWell(s)
  BY <1>1, StoryStep
<1>2. IInv /\ RInv /\ [Next]_vars =>
        [\A s \in Slots :
            recorded'[s] \notin {0, recorded[s]} =>
               recorded'[s] = IF reply'[s] # 0 THEN reply'[s]
                              ELSE IF pc[s] \in {"sending", "body"} THEN status[s]
                              ELSE 500]_vars
  BY <1>1, Zenon DEF CountedWell
<1> QED  BY <1>2, Accounts, Invariance, PTL DEF Spec, RecordMatchesReply

\* The state is well typed and the pool never over its size (create_engine).
THEOREM TypeCorrect == Spec => []TypeOK
<1>1. IInv /\ RInv => TypeOK
  <2> SUFFICES ASSUME IInv, RInv PROVE TypeOK
    OBVIOUS
  <2>1. inProgress \in Nat /\ checkedOut \in Nat
    BY FiniteParts, FS_CardinalityType DEF IInv, GaugeSide, PoolSide, PoolInv, GaugeInv
  <2>2. checkedOut \in 0 .. Capacity
    BY <2>1, LifecycleAssumption DEF LifecycleAssumption, RInv, TimerOK
  <2> QED  BY <2>1, <2>2
           DEF IInv, GaugeSide, PoolSide, PlaceOK, KindOK, AtOK, HoldOK, RInv, LocalOK,
               TimerOK, TypeOK
<1> QED  BY <1>1, Accounts, Invariance, PTL
=============================================================================
