---------------------------- MODULE FilterProofs ----------------------------
(***************************************************************************)
(* Theorems about QueryFilters, for any table, any parameters in any order *)
(* and number, and any search text.                                        *)
(***************************************************************************)
EXTENDS QueryFilters, SequenceTheorems, WellFoundedInduction, TLAPS

Values == {p.value : p \in Params}

Condition == [field : Columns, op : ValidOps, values : SUBSET Values]

\* Parameter p counts, and is about field f and operator o.
About(p, f, o) == ~Ignored(p) /\ p.field = f /\ p.op = o

\* The values that the parameters ps give for field f with operator o.
Given(ps, f, o) ==
    {v \in Values : \E j \in DOMAIN ps : About(ps[j], f, o) /\ ps[j].value = v}

\* The conditions are what was sent: one for each field and operator used,
\* with every value given for them and no other.
CollectedFrom(ps, cs) ==
    /\ \A i \in DOMAIN cs : cs[i].values = Given(ps, cs[i].field, cs[i].op)
    /\ \A j \in DOMAIN ps : ~Ignored(ps[j]) =>
          \E i \in DOMAIN cs : About(ps[j], cs[i].field, cs[i].op)

Collected == CollectedFrom(sent, conditions)

\* A GraphQL filter holds fields that were given.
FilterTyped ==
    /\ filter \in [Columns -> [GraphQLOps -> {f.value : f \in Fields} \cup {NoValue}]]
    /\ \A c \in Columns, op \in GraphQLOps :
          filter[c][op] # NoValue =>
              \E f \in Fields : f.field = c /\ f.op = op /\ f.value = filter[c][op]

IInv ==
    /\ TypeOK /\ conditions \in Seq(Condition) /\ FilterTyped
    /\ status = "ok" => Collected /\ \A j \in DOMAIN sent : ~BadOperator(sent[j])

-----------------------------------------------------------------------------
\* One more parameter adds its value to what was given for its field and
\* operator, if it counts, and to nothing else.
LEMMA GivenNext ==
    ASSUME sent \in Seq(Params), NEW p \in Params, sent' = Append(sent, p), NEW f, NEW o
    PROVE  /\ DOMAIN sent' = DOMAIN sent \cup {Len(sent) + 1}
           /\ sent'[Len(sent) + 1] = p /\ \A j \in DOMAIN sent : sent'[j] = sent[j]
           /\ Given(sent', f, o) = IF ~Ignored(p) /\ p.field = f /\ p.op = o
                             THEN Given(sent, f, o) \cup {p.value} ELSE Given(sent, f, o)
<1>1. /\ DOMAIN sent' = DOMAIN sent \cup {Len(sent) + 1}
      /\ sent'[Len(sent) + 1] = p /\ \A j \in DOMAIN sent : sent'[j] = sent[j]
  BY AppendProperties
<1>2. p.value \in Values
  BY DEF Values
<1>3. \A v \in Values :
        (\E j \in DOMAIN sent' : About(sent'[j], f, o) /\ sent'[j].value = v)
        <=> \/ \E j \in DOMAIN sent : About(sent[j], f, o) /\ sent[j].value = v
            \/ ~Ignored(p) /\ p.field = f /\ p.op = o /\ p.value = v
  BY <1>1 DEF About
<1> QED  BY <1>1, <1>2, <1>3 DEF Given

\* A counted parameter with a known operator fits a condition.
LEMMA ParamTyped ==
    ASSUME NEW p \in Params, ~BadOperator(p), ~Ignored(p)
    PROVE  p.field \in Columns /\ p.op \in ValidOps /\ p.value \in Values
BY FilterAssumption DEF FilterAssumption, BadOperator, Ignored, ValidOps, Values

\* The first value for a field and operator makes a condition at the end.
LEMMA CollectFirst ==
    ASSUME conditions \in Seq(Condition), NEW p \in Params, ~BadOperator(p), ~Ignored(p),
           conditions' = Append(conditions,
                                [field |-> p.field, op |-> p.op, values |-> {p.value}])
    PROVE  /\ conditions' \in Seq(Condition)
           /\ DOMAIN conditions' = DOMAIN conditions \cup {Len(conditions) + 1}
           /\ Len(conditions) + 1 \notin DOMAIN conditions
           /\ \A i \in DOMAIN conditions : conditions'[i] = conditions[i]
           /\ conditions'[Len(conditions) + 1]
                = [field |-> p.field, op |-> p.op, values |-> {p.value}]
<1> DEFINE new == [field |-> p.field, op |-> p.op, values |-> {p.value}]
<1>1. new \in Condition
  BY ParamTyped DEF Condition
<1> HIDE DEF new
<1>2. conditions' = Append(conditions, new)
  BY DEF new
<1> QED  BY <1>1, <1>2, AppendProperties DEF new

\* A further value joins the one condition about its field and operator.
LEMMA CollectMore ==
    ASSUME TypeOK, conditions \in Seq(Condition), NEW p \in Params,
           ~BadOperator(p), ~Ignored(p), NEW n \in DOMAIN conditions,
           conditions[n].field = p.field, conditions[n].op = p.op,
           Collect(p.field, p.op, p.value)
    PROVE  /\ conditions' \in Seq(Condition) /\ DOMAIN conditions' = DOMAIN conditions
           /\ \A i \in DOMAIN conditions :
                 /\ conditions'[i].field = conditions[i].field
                 /\ conditions'[i].op = conditions[i].op
                 /\ conditions'[i].values = IF i = n THEN conditions[n].values \cup {p.value}
                                                     ELSE conditions[i].values
<1>1. \A i \in DOMAIN conditions :
        conditions[i].field = p.field /\ conditions[i].op = p.op <=> i = n
  BY DEF TypeOK
<1>2. conditions' = [i \in DOMAIN conditions |->
                        IF i = n THEN [conditions[i] EXCEPT !.values = @ \cup {p.value}]
                        ELSE conditions[i]]
  BY <1>1 DEF Collect
<1>3. DOMAIN conditions = 1 .. Len(conditions) /\ Len(conditions) \in Nat
      /\ \A i \in DOMAIN conditions : conditions[i] \in Condition
  BY ElementOfSeq
<1>4. p.value \in Values
  BY ParamTyped
<1>5. \A i \in DOMAIN conditions : conditions'[i] \in Condition
  BY <1>2, <1>3, <1>4 DEF Condition
<1>6. conditions' \in [1 .. Len(conditions) -> Condition]
  BY <1>2, <1>3, <1>5
<1>7. conditions' \in Seq(Condition)
  BY <1>3, <1>6 DEF Seq
<1>8. ASSUME NEW i \in DOMAIN conditions
      PROVE  /\ conditions'[i].field = conditions[i].field
             /\ conditions'[i].op = conditions[i].op
             /\ conditions'[i].values = IF i = n THEN conditions[n].values \cup {p.value}
                                                 ELSE conditions[i].values
  BY <1>2, <1>3, <1>8 DEF Condition
<1> QED  BY <1>2, <1>7, <1>8

\* A parameter that counts goes into the conditions, in the one or the other way.
LEMMA AcceptInv ==
    ASSUME IInv, status = "ok", NEW p \in Params, sent' = Append(sent, p), Accept(p)
    PROVE  /\ conditions' \in Seq(Condition) /\ Collected'
           /\ \A i \in DOMAIN conditions' :
                 /\ conditions'[i].field \in Columns /\ conditions'[i].op \in ValidOps
                 /\ conditions'[i].values # {}
           /\ \A i, j \in DOMAIN conditions' :
                 conditions'[i].field = conditions'[j].field
                 /\ conditions'[i].op = conditions'[j].op => i = j
<1>1. /\ TypeOK /\ Collected /\ conditions \in Seq(Condition) /\ sent \in Seq(Params)
      /\ ~BadOperator(p) /\ ~Ignored(p) /\ Collect(p.field, p.op, p.value)
  BY DEF IInv, TypeOK, Accept
<1>2. p.field \in Columns /\ p.op \in ValidOps /\ p.value \in Values
  BY <1>1, ParamTyped
<1> DEFINE last == Len(sent) + 1
<1>3. /\ DOMAIN sent' = DOMAIN sent \cup {last}
      /\ sent'[last] = p /\ \A j \in DOMAIN sent : sent'[j] = sent[j]
  BY <1>1, GivenNext
<1>4. \A f, o : Given(sent', f, o) = IF p.field = f /\ p.op = o
                               THEN Given(sent, f, o) \cup {p.value} ELSE Given(sent, f, o)
  BY <1>1, GivenNext
<1> HIDE DEF last
<1>5. \A f, o : About(p, f, o) <=> p.field = f /\ p.op = o
  BY <1>1 DEF About
<1>6. CASE \E n \in DOMAIN conditions :
              conditions[n].field = p.field /\ conditions[n].op = p.op
  <2>1. PICK n \in DOMAIN conditions :
          conditions[n].field = p.field /\ conditions[n].op = p.op
    BY <1>6
  <2>2. /\ conditions' \in Seq(Condition) /\ DOMAIN conditions' = DOMAIN conditions
        /\ \A i \in DOMAIN conditions :
              /\ conditions'[i].field = conditions[i].field
              /\ conditions'[i].op = conditions[i].op
              /\ conditions'[i].values = IF i = n THEN conditions[n].values \cup {p.value}
                                                  ELSE conditions[i].values
    BY <1>1, <2>1, CollectMore
  <2>3. /\ \A i \in DOMAIN conditions' :
              /\ conditions'[i].field \in Columns /\ conditions'[i].op \in ValidOps
              /\ conditions'[i].values # {}
        /\ \A i, j \in DOMAIN conditions' :
              conditions'[i].field = conditions'[j].field
              /\ conditions'[i].op = conditions'[j].op => i = j
    BY <1>1, <2>2 DEF TypeOK
  <2>4. \A i \in DOMAIN conditions' :
          conditions'[i].values = Given(sent', conditions'[i].field, conditions'[i].op)
    <3> SUFFICES ASSUME NEW i \in DOMAIN conditions
                 PROVE  conditions'[i].values
                          = Given(sent', conditions'[i].field, conditions'[i].op)
      BY <2>2
    <3>1. conditions[i].field = p.field /\ conditions[i].op = p.op <=> i = n
      BY <1>1, <2>1 DEF TypeOK
    <3>2. conditions[i].values = Given(sent, conditions[i].field, conditions[i].op)
      BY <1>1 DEF Collected, CollectedFrom
    <3>3. /\ conditions'[i].field = conditions[i].field /\ conditions'[i].op = conditions[i].op
          /\ conditions'[i].values = IF i = n THEN conditions[n].values \cup {p.value}
                                              ELSE conditions[i].values
      BY <2>2
    <3>4. CASE i = n
      BY <1>4, <3>1, <3>2, <3>3, <3>4
    <3>5. CASE i # n
      BY <1>4, <3>1, <3>2, <3>3, <3>5
    <3> QED  BY <3>4, <3>5
  <2>5. ASSUME NEW j \in DOMAIN sent', ~Ignored(sent'[j])
        PROVE  \E i \in DOMAIN conditions' :
                  About(sent'[j], conditions'[i].field, conditions'[i].op)
    <3>1. CASE j = last
      BY <1>3, <1>5, <2>1, <2>2, <3>1
    <3>2. CASE j \in DOMAIN sent
      <4>1. PICK i \in DOMAIN conditions :
              About(sent[j], conditions[i].field, conditions[i].op)
        BY <1>1, <1>3, <2>5, <3>2 DEF Collected, CollectedFrom
      <4> QED  BY <1>3, <2>2, <3>2, <4>1
    <3> QED  BY <1>3, <2>5, <3>1, <3>2
  <2>6. Collected'
    BY <2>4, <2>5 DEF Collected, CollectedFrom
  <2> QED  BY <2>2, <2>3, <2>6
<1>7. CASE \A n \in DOMAIN conditions :
              ~(conditions[n].field = p.field /\ conditions[n].op = p.op)
  <2> DEFINE new == [field |-> p.field, op |-> p.op, values |-> {p.value}]
             top == Len(conditions) + 1
  <2>1. conditions' = Append(conditions, new)
    BY <1>1, <1>7 DEF Collect
  <2>2. /\ conditions' \in Seq(Condition)
        /\ DOMAIN conditions' = DOMAIN conditions \cup {top} /\ top \notin DOMAIN conditions
        /\ \A i \in DOMAIN conditions : conditions'[i] = conditions[i]
        /\ conditions'[top] = new
    BY <1>1, <2>1, CollectFirst
  <2>3. new.field = p.field /\ new.op = p.op /\ new.values = {p.value}
    OBVIOUS
  <2> HIDE DEF new, top
  <2>4. /\ \A i \in DOMAIN conditions' :
              /\ conditions'[i].field \in Columns /\ conditions'[i].op \in ValidOps
              /\ conditions'[i].values # {}
        /\ \A i, j \in DOMAIN conditions' :
              conditions'[i].field = conditions'[j].field
              /\ conditions'[i].op = conditions'[j].op => i = j
    <3>1. \A i \in DOMAIN conditions :
             /\ conditions'[i].field \in Columns /\ conditions'[i].op \in ValidOps
             /\ conditions'[i].values # {}
             /\ ~(conditions'[i].field = p.field /\ conditions'[i].op = p.op)
      BY <1>1, <1>7, <2>2 DEF TypeOK
    <3>2. /\ conditions'[top].field = p.field /\ conditions'[top].op = p.op
          /\ conditions'[top].values = {p.value}
      BY <2>2, <2>3
    <3>3. \A i, j \in DOMAIN conditions :
             conditions'[i].field = conditions'[j].field
             /\ conditions'[i].op = conditions'[j].op => i = j
      BY <1>1, <2>2 DEF TypeOK
    <3>4. DOMAIN conditions' = DOMAIN conditions \cup {top}
      BY <2>2
    <3>5. \A i \in DOMAIN conditions' :
             /\ conditions'[i].field \in Columns /\ conditions'[i].op \in ValidOps
             /\ conditions'[i].values # {}
      BY <1>2, <3>1, <3>2, <3>4
    <3>6. ASSUME NEW i \in DOMAIN conditions', NEW j \in DOMAIN conditions',
                 conditions'[i].field = conditions'[j].field,
                 conditions'[i].op = conditions'[j].op
          PROVE  i = j
      <4>1. CASE i = top \/ j = top
        BY <3>1, <3>2, <3>4, <3>6, <4>1
      <4>2. CASE i # top /\ j # top
        BY <3>3, <3>4, <3>6, <4>2
      <4> QED  BY <4>1, <4>2
    <3> QED  BY <3>5, <3>6
  <2>5. Given(sent, p.field, p.op) = {}
    <3>1. ASSUME NEW j \in DOMAIN sent, About(sent[j], p.field, p.op) PROVE FALSE
      BY <1>1, <1>7, <3>1 DEF Collected, CollectedFrom, About
    <3> QED  BY <3>1 DEF Given
  <2>6. ASSUME NEW i \in DOMAIN conditions'
        PROVE  conditions'[i].values = Given(sent', conditions'[i].field, conditions'[i].op)
    <3>1. CASE i = top
      BY <1>4, <2>2, <2>3, <2>5, <3>1
    <3>2. CASE i \in DOMAIN conditions
      <4>1. conditions[i].values = Given(sent, conditions[i].field, conditions[i].op)
        BY <1>1, <3>2 DEF Collected, CollectedFrom
      <4> QED  BY <1>4, <1>7, <2>2, <3>2, <4>1
    <3> QED  BY <2>2, <2>6, <3>1, <3>2
  <2>7. ASSUME NEW j \in DOMAIN sent', ~Ignored(sent'[j])
        PROVE  \E i \in DOMAIN conditions' :
                  About(sent'[j], conditions'[i].field, conditions'[i].op)
    <3>1. CASE j = last
      BY <1>3, <1>5, <2>2, <2>3, <3>1
    <3>2. CASE j \in DOMAIN sent
      <4>1. PICK i \in DOMAIN conditions :
              About(sent[j], conditions[i].field, conditions[i].op)
        BY <1>1, <1>3, <2>7, <3>2 DEF Collected, CollectedFrom
      <4> QED  BY <1>3, <2>2, <3>2, <4>1
    <3> QED  BY <1>3, <2>7, <3>1, <3>2
  <2>8. Collected'
    BY <2>6, <2>7 DEF Collected, CollectedFrom
  <2> QED  BY <2>2, <2>4, <2>8
<1> QED  BY <1>6, <1>7

\* Every step of Next keeps the invariant.
LEMMA StepInv == IInv /\ [Next]_vars => IInv'
<1> SUFFICES ASSUME IInv, [Next]_vars PROVE IInv'
  OBVIOUS
<1>1. CASE Parse
  <2>1. PICK p \in Params : sent' = Append(sent, p) /\ (Reject(p) \/ Ignore(p) \/ Accept(p))
    BY <1>1 DEF Parse
  <2>2. /\ status = "ok" /\ sent \in Seq(Params) /\ UNCHANGED <<filter, q>>
        /\ Collected /\ \A j \in DOMAIN sent : ~BadOperator(sent[j])
    BY <1>1 DEF Parse, IInv, TypeOK
  <2>3. sent' \in Seq(Params) /\ FilterTyped' /\ q' \in Searches
    BY <2>1, <2>2, AppendProperties DEF IInv, FilterTyped, TypeOK
  <2>4. CASE Reject(p)
    BY <2>3, <2>4 DEF Reject, IInv, TypeOK
  <2>5. ASSUME ~BadOperator(p)
        PROVE  \A j \in DOMAIN sent' : ~BadOperator(sent'[j])
    BY <2>1, <2>2, <2>5, GivenNext
  <2>6. CASE Ignore(p)
    <3>1. \A f, o : Given(sent', f, o) = Given(sent, f, o)
      BY <2>1, <2>2, <2>6, GivenNext DEF Ignore
    <3>2. Collected'
      BY <2>1, <2>2, <2>6, <3>1, GivenNext DEF Ignore, Collected, CollectedFrom
    <3> QED  BY <2>3, <2>5, <2>6, <3>2 DEF Ignore, IInv, TypeOK
  <2>7. CASE Accept(p)
    <3>1. ~BadOperator(p) /\ status' = status
      BY <2>7 DEF Accept
    <3> QED  BY <2>1, <2>2, <2>3, <2>5, <2>7, <3>1, AcceptInv DEF IInv, TypeOK
  <2> QED  BY <2>1, <2>4, <2>6, <2>7
<1>2. CASE SetField
  <2>1. PICK f \in Fields : filter' = [filter EXCEPT ![f.field][f.op] = f.value]
    BY <1>2 DEF SetField
  <2>2. f.field \in Columns /\ f.op \in GraphQLOps
    BY FilterAssumption DEF FilterAssumption
  <2>3. FilterTyped'
    BY <2>1, <2>2 DEF IInv, FilterTyped
  <2> QED  BY <1>2, <2>3 DEF SetField, IInv, TypeOK, Collected, CollectedFrom
<1>3. CASE UNCHANGED vars
  <2>1. UNCHANGED <<sent, conditions, status, filter, q>>
    BY <1>3 DEF vars
  <2> QED  BY <2>1 DEF IInv, TypeOK, Collected, FilterTyped
<1> QED  BY <1>1, <1>2, <1>3 DEF Next

\* The invariant holds in every behaviour.
LEMMA Invariance == Spec => []IInv
<1>1. Init => IInv
  <2> SUFFICES ASSUME Init PROVE IInv
    OBVIOUS
  <2>1. <<>> \in Seq(Params) /\ <<>> \in Seq(Condition) /\ DOMAIN <<>> = {}
    BY EmptySeq
  <2>2. FilterTyped
    BY DEF Init, NoFilter, FilterTyped
  <2> QED  BY <2>1, <2>2 DEF Init, IInv, TypeOK, Collected, CollectedFrom
<1> QED  BY <1>1, StepInv, PTL DEF Spec

\* The conditions are well formed, one for each field and operator
\* (parse_filters, _build_single_condition).
THEOREM TypeCorrect == Spec => []TypeOK
BY Invariance, PTL DEF IInv

-----------------------------------------------------------------------------
\* There is a condition about a field and operator exactly when a parameter
\* that counts is about them.
LEMMA Collection ==
    ASSUME IInv, status = "ok", NEW f, NEW o
    PROVE  (\E n \in DOMAIN conditions : conditions[n].field = f /\ conditions[n].op = o)
           <=> \E j \in DOMAIN sent : About(sent[j], f, o)
<1>1. ASSUME NEW n \in DOMAIN conditions, conditions[n].field = f, conditions[n].op = o
      PROVE  \E j \in DOMAIN sent : About(sent[j], f, o)
  BY <1>1 DEF IInv, TypeOK, Collected, CollectedFrom, Given
<1>2. ASSUME NEW j \in DOMAIN sent, About(sent[j], f, o)
      PROVE  \E n \in DOMAIN conditions : conditions[n].field = f /\ conditions[n].op = o
  BY <1>2 DEF IInv, Collected, CollectedFrom, About
<1> QED  BY <1>1, <1>2

\* Another value for a field and operator already used never loses a row, a
\* parameter for a new one never gains one, whatever was sent before
\* (parse_filters, apply_filters).
THEOREM Monotone == Spec => RepeatWidensNewNarrows
<1> DEFINE Repeated == \E i \in DOMAIN sent :
              /\ sent[i].field = Last(sent').field /\ sent[i].op = Last(sent').op
              /\ ~Ignored(sent[i])
           Effect == IF Repeated THEN Ignored(Last(sent')) \/ RestRows \subseteq RestRows'
                                 ELSE RestRows' \subseteq RestRows
<1>1. ASSUME IInv, Next, sent' # sent, status' = "ok"
      PROVE  Effect
  <2>1. Parse
    BY <1>1 DEF Next, SetField
  <2>2. PICK p \in Params : sent' = Append(sent, p) /\ (Reject(p) \/ Ignore(p) \/ Accept(p))
    BY <2>1 DEF Parse
  <2>3. /\ status = "ok" /\ UNCHANGED q /\ sent \in Seq(Params) /\ TypeOK
        /\ conditions \in Seq(Condition)
    BY <1>1, <2>1 DEF Parse, IInv, TypeOK
  <2>4. Last(sent') = p
    BY <2>2, <2>3, AppendProperties DEF Last
  <2>5. CASE Ignore(p)
    <3>1. RestRows' = RestRows
      BY <2>3, <2>5 DEF Ignore, RestRows, Found
    <3> QED  BY <3>1
  <2>6. CASE Accept(p)
    <3>1. ~BadOperator(p) /\ ~Ignored(p) /\ Collect(p.field, p.op, p.value)
      BY <2>6 DEF Accept
    <3>2. Repeated <=> \E n \in DOMAIN conditions :
                           conditions[n].field = p.field /\ conditions[n].op = p.op
      BY <1>1, <2>3, <2>4, Collection DEF About
    <3>3. CASE Repeated
      <4>1. PICK n \in DOMAIN conditions :
              conditions[n].field = p.field /\ conditions[n].op = p.op
        BY <3>2, <3>3
      <4>2. /\ DOMAIN conditions' = DOMAIN conditions
            /\ \A i \in DOMAIN conditions :
                  /\ conditions'[i].field = conditions[i].field
                  /\ conditions'[i].op = conditions[i].op
                  /\ conditions[i].values \subseteq conditions'[i].values
        <5>1. /\ DOMAIN conditions' = DOMAIN conditions
              /\ \A i \in DOMAIN conditions :
                    /\ conditions'[i].field = conditions[i].field
                    /\ conditions'[i].op = conditions[i].op
                    /\ conditions'[i].values = IF i = n THEN conditions[n].values \cup {p.value}
                                                        ELSE conditions[i].values
          BY <2>3, <3>1, <4>1, CollectMore
        <5> QED  BY <5>1
      <4>3. RestRows \subseteq RestRows'
        BY <2>3, <4>2 DEF RestRows, Found
      <4> QED  BY <3>3, <4>3
    <3>4. CASE ~Repeated
      <4>1. conditions' = Append(conditions,
                [field |-> p.field, op |-> p.op, values |-> {p.value}])
        BY <3>1, <3>2, <3>4 DEF Collect
      <4>2. /\ DOMAIN conditions \subseteq DOMAIN conditions'
            /\ \A i \in DOMAIN conditions : conditions'[i] = conditions[i]
        BY <2>3, <3>1, <4>1, CollectFirst
      <4>3. RestRows' \subseteq RestRows
        BY <2>3, <4>2 DEF RestRows, Found
      <4> QED  BY <3>4, <4>3
    <3> QED  BY <3>3, <3>4
  <2> QED  BY <1>1, <2>2, <2>5, <2>6 DEF Reject
<1>2. IInv /\ [Next]_vars => [sent' # sent /\ status' = "ok" => Effect]_vars
  BY <1>1
<1> QED  BY <1>2, Invariance, PTL DEF Spec, RepeatWidensNewNarrows

-----------------------------------------------------------------------------
(* Texts.  What a recursive function computes is shown by induction in the *)
(* form of a set of numbers: one that holds 0, and k with k - 1.           *)

\* A set that holds 0, and k whenever it holds k - 1, holds every number to n.
LEMMA Induction ==
    ASSUME NEW n \in Nat, NEW P, 0 \in P, \A k \in 1 .. n : k - 1 \in P => k \in P
    PROVE  \A k \in 0 .. n : k \in P
<1> DEFINE R == OpToRel(<, Nat)
           Rest == (0 .. n) \ P
<1>1. SUFFICES ASSUME Rest # {} PROVE FALSE
  OBVIOUS
<1>2. IsWellFoundedOn(R, Nat)
  BY NatLessThanWellFounded
<1>3. \A x, y \in Nat : <<y, x>> \in R <=> y < x
  BY DEF OpToRel
<1>7. Rest \subseteq Nat
  OBVIOUS
<1> HIDE DEF R
<1>4. PICK x \in Rest : \A y \in Rest : <<y, x>> \notin R
  BY <1>1, <1>2, <1>7, WFMin
<1>5. x \in 1 .. n /\ x - 1 \in 0 .. n
  OBVIOUS
<1>6. <<x - 1, x>> \in R
  BY <1>3, <1>5, <1>7
<1> QED  BY <1>4, <1>5, <1>6

\* r starts with a and goes on by the steps g, one for each number to n.
Runs(r, n, V, a, g) ==
    /\ r \in [0 .. n -> V] /\ r[0] = a
    /\ \A k \in 1 .. n : r[k] = g[k][r[k - 1]]

\* A function may be defined by its first value and the step to the next.
LEMMA Recursion ==
    ASSUME NEW n \in Nat, NEW V, NEW a \in V, NEW g \in [1 .. n -> [V -> V]]
    PROVE  \E r : Runs(r, n, V, a, g)
<1> DEFINE Upto(m) == {r \in [0 .. m -> V] :
                          r[0] = a /\ \A k \in 1 .. m : r[k] = g[k][r[k - 1]]}
           P == {m \in 0 .. n : Upto(m) # {}}
<1>1. 0 \in P
  <2>1. [k \in 0 .. 0 |-> a] \in Upto(0)
    OBVIOUS
  <2> QED  BY <2>1
<1>2. ASSUME NEW m \in 1 .. n, m - 1 \in P PROVE m \in P
  <2>1. PICK r \in Upto(m - 1) : TRUE
    BY <1>2
  <2> DEFINE s == [k \in 0 .. m |-> IF k = m THEN g[m][r[m - 1]] ELSE r[k]]
  <2>2. m - 1 \in 0 .. m - 1 /\ r \in [0 .. m - 1 -> V] /\ g[m] \in [V -> V]
    OBVIOUS
  <2>3. g[m][r[m - 1]] \in V
    BY <2>2
  <2>4. s \in [0 .. m -> V] /\ s[0] = a
    BY <2>1, <2>2, <2>3
  <2>5. \A k \in 1 .. m : s[k] = g[k][s[k - 1]]
    BY <2>1, <2>2
  <2>6. s \in Upto(m)
    BY <2>4, <2>5
  <2>7. Upto(m) # {}
    BY <2>6
  <2> QED  BY <2>7
<1>4. n \in 0 .. n
  OBVIOUS
<1> HIDE DEF P
<1>3. n \in P
  BY <1>4, <1>1, <1>2, Induction
<1> QED  BY <1>3 DEF P, Runs

\* Two functions go on alike.
GoOnAlike(f, r, n) == \A k \in 1 .. n : f[k - 1] = r[k - 1] => f[k] = r[k]

\* Those that start alike, too, are alike.
LEMMA Agreement ==
    ASSUME NEW n \in Nat, NEW f, NEW r, f[0] = r[0], GoOnAlike(f, r, n)
    PROVE  \A k \in 0 .. n : f[k] = r[k]
<1> DEFINE P == {k \in 0 .. n : f[k] = r[k]}
<1>1. 0 \in P
  OBVIOUS
<1>2. ASSUME NEW k \in 1 .. n, k - 1 \in P PROVE k \in P
  BY <1>2 DEF GoOnAlike
<1> HIDE DEF P
<1>3. \A k \in 0 .. n : k \in P
  BY <1>1, <1>2, Induction
<1> QED  BY <1>3 DEF P

-----------------------------------------------------------------------------
(* Escaping.                                                               *)

LEMMA ReplacedTyped ==
    ASSUME NEW x \in Characters, NEW c \in Characters
    PROVE  Replaced(x, c) \in Seq(Characters)
<1>1. Backslash \in Characters
  BY TextAssumption DEF TextAssumption
<1> QED  BY <1>1 DEF Replaced

\* r[k] is what becomes of the first k characters of s.
Replacement(r, s, c) ==
    /\ r \in [0 .. Len(s) -> Seq(Characters)] /\ r[0] = <<>> /\ Replace(s, c) = r[Len(s)]
    /\ \A k \in 1 .. Len(s) : r[k] = r[k - 1] \o Replaced(s[k], c)

LEMMA ReplaceRuns ==
    ASSUME NEW s \in Seq(Characters), NEW c \in Characters
    PROVE  \E r : Replacement(r, s, c)
<1> DEFINE V == Seq(Characters)
           n == Len(s)
           e == <<>>
           Step(k, v) == v \o Replaced(s[k], c)
           g == [k \in 1 .. n |-> [v \in V |-> Step(k, v)]]
           Body(r) == [i \in 0 .. n |-> IF i = 0 THEN e ELSE Step(i, r[i - 1])]
           done == CHOOSE r : r = Body(r)
<1>1. n \in Nat /\ e \in V /\ \A k \in 1 .. n : s[k] \in Characters
  BY LenProperties, ElementOfSeq
<1>2. \A k \in 1 .. n : \A v \in V : Step(k, v) \in V
  BY <1>1, ReplacedTyped, ConcatProperties
<1>3. Replace(s, c) = done[n]
  BY DEF Replace
<1> HIDE DEF V, e, Step, n
<1>4. g \in [1 .. n -> [V -> V]]
  BY <1>2
<1>5. PICK r : Runs(r, n, V, e, g)
  <2> HIDE DEF g
  <2> QED  BY <1>1, <1>4, Recursion
<1>6. /\ r \in [0 .. n -> V] /\ r[0] = e
      /\ \A k \in 1 .. n : r[k] = g[k][r[k - 1]] /\ r[k - 1] \in V
  BY <1>1, <1>5 DEF Runs
<1>7. \A k \in 1 .. n : r[k] = Step(k, r[k - 1])
  BY <1>6
<1> HIDE DEF g
<1>8. r = Body(r)
  BY <1>1, <1>6, <1>7
<1>9. done = Body(done)
  BY <1>8
<1> HIDE DEF done
<1>10. done[0] = e /\ \A k \in 1 .. n : done[k] = Step(k, done[k - 1])
  BY <1>1, <1>9
<1>11. \A k \in 0 .. n : done[k] = r[k]
  <2>1. n \in Nat /\ done[0] = r[0]
    BY <1>1, <1>6, <1>10
  <2>2. GoOnAlike(done, r, n)
    BY <1>7, <1>10 DEF GoOnAlike
  <2> QED  BY <2>1, <2>2, Agreement
<1>12. done[n] = r[n]
  BY <1>1, <1>11
<1> QED  BY <1>3, <1>6, <1>7, <1>12 DEF V, e, Step, n, Replacement

LEMMA ReplaceEmpty ==
    ASSUME NEW c \in Characters
    PROVE  Replace(<<>>, c) = <<>>
<1>1. <<>> \in Seq(Characters) /\ Len(<<>>) = 0
  OBVIOUS
<1>2. PICK r : Replacement(r, <<>>, c)
  BY <1>1, ReplaceRuns
<1> QED  BY <1>1, <1>2 DEF Replacement

\* A further character is replaced by itself.
LEMMA ReplaceAppend ==
    ASSUME NEW s \in Seq(Characters), NEW c \in Characters, NEW x \in Characters
    PROVE  /\ Replace(s, c) \in Seq(Characters)
           /\ Replace(Append(s, x), c) = Replace(s, c) \o Replaced(x, c)
<1> DEFINE n == Len(s)
           t == Append(s, x)
           Step(d, v) == v \o Replaced(d, c)
<1>1. /\ n \in Nat /\ t \in Seq(Characters) /\ Len(t) = n + 1
      /\ t[n + 1] = x /\ \A k \in 1 .. n : t[k] = s[k]
  BY AppendProperties, LenProperties
<1> HIDE DEF t
<1>2. PICK r : Replacement(r, s, c)
  BY ReplaceRuns
<1>3. PICK f : Replacement(f, t, c)
  BY <1>1, ReplaceRuns
<1>9. /\ r \in [0 .. n -> Seq(Characters)] /\ r[0] = <<>> /\ Replace(s, c) = r[n]
      /\ \A k \in 1 .. n : r[k] = Step(s[k], r[k - 1])
  BY <1>2 DEF Replacement
<1>4. /\ f[0] = <<>> /\ Replace(t, c) = f[n + 1]
      /\ \A k \in 1 .. n + 1 : f[k] = Step(t[k], f[k - 1])
  BY <1>1, <1>3 DEF Replacement
<1> HIDE DEF n, Step
<1>5. \A k \in 1 .. n : k \in 1 .. n + 1 /\ t[k] = s[k]
  BY <1>1
<1>6. \A k \in 0 .. n : f[k] = r[k]
  <2>1. GoOnAlike(f, r, n)
    BY <1>9, <1>4, <1>5 DEF GoOnAlike
  <2>2. f[0] = r[0]
    BY <1>9, <1>4
  <2>3. n \in Nat
    BY <1>1
  <2> QED  BY <2>1, <2>2, <2>3, Agreement
<1>7. n \in 0 .. n /\ n + 1 \in 1 .. n + 1 /\ (n + 1) - 1 = n
  BY <1>1
<1>8. f[n + 1] = Step(x, r[n])
  BY <1>1, <1>4, <1>6, <1>7
<1> QED  BY <1>9, <1>4, <1>7, <1>8 DEF t, n, Step

LEMMA ReplaceOne ==
    ASSUME NEW s \in Seq(Characters), NEW c \in Characters, NEW x \in Characters
    PROVE  Replace(s \o <<x>>, c) = Replace(s, c) \o Replaced(x, c)
<1>1. Append(s, x) = s \o <<x>>
  BY AppendIsConcat
<1> QED  BY <1>1, ReplaceAppend

LEMMA PairConcat ==
    ASSUME NEW x \in Characters, NEW y \in Characters
    PROVE  <<x>> \o <<y>> = <<x, y>>
<1>5. <<x>> \in Seq(Characters) /\ <<y>> \in Seq(Characters)
  OBVIOUS
<1> DEFINE u == <<x>>
           v == <<y>>
           w == <<x, y>>
<1>1. /\ Len(u) = 1 /\ u[1] = x /\ Len(v) = 1 /\ v[1] = y
      /\ w \in Seq(Characters) /\ Len(w) = 2 /\ w[1] = x /\ w[2] = y
  OBVIOUS
<1> HIDE DEF u, v, w
<1>2. u \o v \in Seq(Characters) /\ Len(u \o v) = 2
  BY <1>1, <1>5, ConcatProperties DEF u, v
<1>3. \A i \in 1 .. 2 : (u \o v)[i] = w[i]
  BY <1>1, <1>5, ConcatProperties DEF u, v
<1>4. w = u \o v
  BY <1>1, <1>2, <1>3, SeqEqual
<1> QED  BY <1>4 DEF u, v, w

LEMMA ReplaceTwo ==
    ASSUME NEW s \in Seq(Characters), NEW c \in Characters,
           NEW x \in Characters \ {c}, NEW y \in Characters \ {c}
    PROVE  Replace(s \o <<x, y>>, c) = Replace(s, c) \o <<x, y>>
<1> DEFINE R == Replace(s, c)
           t == s \o <<x>>
<1>1. R \in Seq(Characters)
  BY ReplaceAppend
<1>2. t \in Seq(Characters)
  BY ConcatProperties
<1>3. Replace(t, c) = R \o <<x>> /\ Replace(t \o <<y>>, c) = Replace(t, c) \o <<y>>
  <2>1. Replaced(x, c) = <<x>> /\ Replaced(y, c) = <<y>>
    BY DEF Replaced
  <2>2. Replace(t, c) = R \o Replaced(x, c)
    BY ReplaceOne
  <2> HIDE DEF t, R
  <2>3. Replace(t \o <<y>>, c) = Replace(t, c) \o Replaced(y, c)
    BY <1>2, ReplaceOne
  <2> QED  BY <2>1, <2>2, <2>3
<1>4. <<x>> \in Seq(Characters) /\ <<y>> \in Seq(Characters)
  OBVIOUS
<1>6. <<x, y>> = <<x>> \o <<y>>
  BY PairConcat
<1> HIDE DEF R
<1>5. t \o <<y>> = s \o <<x, y>> /\ (R \o <<x>>) \o <<y>> = R \o <<x, y>>
  <2> DEFINE a == <<x>>
             b == <<y>>
  <2>1. a \in Seq(Characters) /\ b \in Seq(Characters) /\ <<x, y>> = a \o b /\ t = s \o a
    BY <1>4, <1>6
  <2> HIDE DEF a, b, t
  <2>2. (s \o a) \o b = s \o (a \o b)
    BY <2>1, ConcatAssociative
  <2>3. (R \o a) \o b = R \o (a \o b)
    BY <1>1, <2>1, ConcatAssociative
  <2> QED  BY <2>1, <2>2, <2>3 DEF a, b
<1> QED  BY <1>3, <1>5 DEF R

Special == {Backslash, Percent, Underscore}

\* Escaping puts one backslash before a special character and leaves every
\* other as it is: the three replacements do not get into each other's way.
LEMMA EscapeAppend ==
    ASSUME NEW s \in Seq(Characters), NEW x \in Characters
    PROVE  /\ Escape(s) \in Seq(Characters)
           /\ Escape(Append(s, x)) = Escape(s) \o (IF x \in Special THEN <<Backslash, x>>
                                                                  ELSE <<x>>)
<1> DEFINE b == Replace(s, Backslash)
           p == Replace(b, Percent)
<1>1. /\ Special \subseteq Characters
      /\ Percent # Underscore /\ Backslash # Percent /\ Backslash # Underscore
  BY TextAssumption DEF TextAssumption, Special
<1>2. /\ Backslash \in Characters /\ Percent \in Characters /\ Underscore \in Characters
      /\ Backslash \in Characters \ {Percent} /\ Backslash \in Characters \ {Underscore}
      /\ Percent \in Characters \ {Underscore}
  BY <1>1 DEF Special
<1>3. b \in Seq(Characters) /\ Replace(Append(s, x), Backslash) = b \o Replaced(x, Backslash)
  BY <1>2, ReplaceAppend
<1>4. Escape(s) = Replace(p, Underscore)
      /\ Escape(Append(s, x))
            = Replace(Replace(Replace(Append(s, x), Backslash), Percent), Underscore)
  BY DEF Escape
<1>10. p = Replace(b, Percent)
  OBVIOUS
<1> HIDE DEF b, p
<1>11. p \in Seq(Characters)
  BY <1>2, <1>3, <1>10, ReplaceAppend
<1>12. Escape(s) \in Seq(Characters)
  BY <1>2, <1>4, <1>11, ReplaceAppend
<1>13. Replace(b \o <<x>>, Percent) = p \o Replaced(x, Percent)
  BY <1>2, <1>3, <1>10, ReplaceOne
<1>14. Replace(p \o <<x>>, Underscore) = Escape(s) \o Replaced(x, Underscore)
  BY <1>2, <1>4, <1>11, ReplaceOne
<1>5. /\ Replace(b \o <<x>>, Percent) = p \o Replaced(x, Percent)
      /\ Replace(p \o <<x>>, Underscore) = Escape(s) \o Replaced(x, Underscore)
  BY <1>13, <1>14
<1>6. CASE x = Backslash
  <2>1. Replace(b \o <<Backslash, Backslash>>, Percent) = p \o <<Backslash, Backslash>>
    BY <1>2, <1>3, <1>10, ReplaceTwo
  <2>2. Replace(p \o <<Backslash, Backslash>>, Underscore)
          = Escape(s) \o <<Backslash, Backslash>>
    BY <1>2, <1>4, <1>11, ReplaceTwo
  <2> QED  BY <1>12, <1>3, <1>4, <1>6, <2>1, <2>2 DEF Replaced, Special
<1>7. CASE x = Percent
  <2>1. Replace(p \o <<Backslash, Percent>>, Underscore)
          = Escape(s) \o <<Backslash, Percent>>
    BY <1>2, <1>4, <1>11, ReplaceTwo
  <2> QED  BY <1>1, <1>12, <1>3, <1>4, <1>5, <1>7, <2>1 DEF Replaced, Special
<1>8. CASE x = Underscore
  BY <1>1, <1>12, <1>3, <1>4, <1>5, <1>8 DEF Replaced, Special
<1>9. CASE x \notin Special
  BY <1>1, <1>12, <1>3, <1>4, <1>5, <1>9 DEF Replaced, Special
<1> QED  BY <1>6, <1>7, <1>8, <1>9 DEF Special

LEMMA EscapeTyped ==
    ASSUME NEW s \in Seq(Characters)
    PROVE  Escape(s) \in Seq(Characters)
<1>1. Backslash \in Characters
  BY TextAssumption DEF TextAssumption
<1> QED  BY <1>1, EscapeAppend

LEMMA EscapeEmpty == Escape(<<>>) = <<>>
<1>1. Backslash \in Characters /\ Percent \in Characters /\ Underscore \in Characters
  BY TextAssumption DEF TextAssumption
<1> QED  BY <1>1, ReplaceEmpty DEF Escape

-----------------------------------------------------------------------------
(* LIKE.                                                                   *)

\* What reading a pattern against text t can come to.
Matches(t) == [at : SUBSET (0 .. Len(t)), escaped : BOOLEAN]

LEMMA ReadTyped ==
    ASSUME NEW t \in Seq(Characters), NEW m \in Matches(t), NEW c
    PROVE  Start \in Matches(t) /\ Read(t, m, c) \in Matches(t)
<1>1. Len(t) \in Nat
  BY LenProperties
<1> QED  BY <1>1 DEF Start, Read, Matches

\* r[k] is what the first k characters of p come to.
ReadingRun(r, t, p) ==
    /\ r \in [0 .. Len(p) -> Matches(t)] /\ r[0] = Start /\ Reading(t, p) = r[Len(p)]
    /\ \A k \in 1 .. Len(p) : r[k] = Read(t, r[k - 1], p[k])

LEMMA ReadingRuns ==
    ASSUME NEW t \in Seq(Characters), NEW p \in Seq(Characters)
    PROVE  \E r : ReadingRun(r, t, p)
<1> DEFINE V == Matches(t)
           n == Len(p)
           Step(k, v) == Read(t, v, p[k])
           g == [k \in 1 .. n |-> [v \in V |-> Step(k, v)]]
           Body(r) == [i \in 0 .. n |-> IF i = 0 THEN Start ELSE Step(i, r[i - 1])]
           done == CHOOSE r : r = Body(r)
<1>1. n \in Nat
  BY LenProperties
<1>2. Start \in V /\ \A k \in 1 .. n : \A v \in V : Step(k, v) \in V
  BY ReadTyped DEF Start, Matches
<1>3. Reading(t, p) = done[n]
  BY DEF Reading
<1> HIDE DEF V, Step, n
<1>4. g \in [1 .. n -> [V -> V]]
  BY <1>2
<1>5. PICK r : Runs(r, n, V, Start, g)
  <2> HIDE DEF g
  <2> QED  BY <1>1, <1>2, <1>4, Recursion
<1>6. /\ r \in [0 .. n -> V] /\ r[0] = Start
      /\ \A k \in 1 .. n : r[k] = g[k][r[k - 1]] /\ r[k - 1] \in V
  BY <1>1, <1>5 DEF Runs
<1>7. \A k \in 1 .. n : r[k] = Step(k, r[k - 1])
  BY <1>6
<1> HIDE DEF g
<1>8. r = Body(r)
  BY <1>1, <1>6, <1>7
<1>9. done = Body(done)
  BY <1>8
<1> HIDE DEF done
<1>10. done[0] = Start /\ \A k \in 1 .. n : done[k] = Step(k, done[k - 1])
  BY <1>1, <1>9
<1>11. \A k \in 0 .. n : done[k] = r[k]
  <2>1. n \in Nat /\ done[0] = r[0]
    BY <1>1, <1>6, <1>10
  <2>2. GoOnAlike(done, r, n)
    BY <1>7, <1>10 DEF GoOnAlike
  <2> QED  BY <2>1, <2>2, Agreement
<1>12. done[n] = r[n]
  BY <1>1, <1>11
<1> QED  BY <1>3, <1>6, <1>7, <1>12 DEF V, Step, n, ReadingRun

LEMMA ReadingTyped ==
    ASSUME NEW t \in Seq(Characters), NEW p \in Seq(Characters)
    PROVE  /\ Reading(t, p) \in Matches(t)
           /\ Reading(t, <<>>) = [at |-> {0}, escaped |-> FALSE]
<1>1. Len(p) \in Nat
  BY LenProperties
<1>2. <<>> \in Seq(Characters) /\ Len(<<>>) = 0
  OBVIOUS
<1>3. Reading(t, p) \in Matches(t)
  <2>1. PICK r : ReadingRun(r, t, p)
    BY ReadingRuns
  <2> QED  BY <1>1, <2>1 DEF ReadingRun
<1>4. Reading(t, <<>>) = Start
  <2>1. PICK r : ReadingRun(r, t, <<>>)
    BY <1>2, ReadingRuns
  <2> QED  BY <1>2, <2>1 DEF ReadingRun
<1> QED  BY <1>3, <1>4 DEF Start

\* A pattern is read character by character.
LEMMA ReadingAppend ==
    ASSUME NEW t \in Seq(Characters), NEW p \in Seq(Characters), NEW c \in Characters
    PROVE  Reading(t, Append(p, c)) = Read(t, Reading(t, p), c)
<1> DEFINE n == Len(p)
           u == Append(p, c)
<1>1. /\ n \in Nat /\ u \in Seq(Characters) /\ Len(u) = n + 1
      /\ u[n + 1] = c /\ \A k \in 1 .. n : u[k] = p[k]
  BY AppendProperties, LenProperties
<1> HIDE DEF u
<1>2. PICK r : ReadingRun(r, t, p)
  BY ReadingRuns
<1>3. PICK f : ReadingRun(f, t, u)
  BY <1>1, ReadingRuns
<1>9. /\ r \in [0 .. n -> Matches(t)] /\ r[0] = Start /\ Reading(t, p) = r[n]
      /\ \A k \in 1 .. n : r[k] = Read(t, r[k - 1], p[k])
  BY <1>2 DEF ReadingRun
<1>4. /\ Reading(t, u) = f[n + 1] /\ f[0] = r[0]
      /\ \A k \in 1 .. n + 1 : f[k] = Read(t, f[k - 1], u[k])
  BY <1>1, <1>3, <1>9 DEF ReadingRun
<1> HIDE DEF n
<1>5. \A k \in 1 .. n : k \in 1 .. n + 1 /\ u[k] = p[k]
  BY <1>1
<1>6. \A k \in 0 .. n : f[k] = r[k]
  <2>1. GoOnAlike(f, r, n)
    BY <1>9, <1>4, <1>5 DEF GoOnAlike
  <2>2. n \in Nat /\ f[0] = r[0]
    BY <1>1, <1>4
  <2> QED  BY <2>1, <2>2, Agreement
<1>7. n \in 0 .. n /\ n + 1 \in 1 .. n + 1 /\ (n + 1) - 1 = n
  BY <1>1
<1>8. f[n + 1] = Read(t, r[n], c)
  BY <1>1, <1>4, <1>6, <1>7
<1> QED  BY <1>9, <1>4, <1>7, <1>8 DEF u, n

Literally(x) == IF x \in Special THEN <<Backslash, x>> ELSE <<x>>

LEMMA EscapeAfter ==
    ASSUME NEW p \in Seq(Characters), NEW s \in Seq(Characters), NEW x \in Characters
    PROVE  p \o Escape(Append(s, x)) = (p \o Escape(s)) \o Literally(x)
<1> DEFINE e == Escape(s)
           l == Literally(x)
<1>1. e \in Seq(Characters)
  BY EscapeTyped
<1>2. l \in Seq(Characters)
  BY TextAssumption DEF TextAssumption, Literally
<1>3. Escape(Append(s, x)) = e \o l
  BY EscapeAppend DEF Literally
<1> HIDE DEF e, l
<1>4. (p \o e) \o l = p \o (e \o l)
  BY <1>1, <1>2, ConcatAssociative
<1> QED  BY <1>3, <1>4 DEF e, l

\* An escaped character is read as itself.
LEMMA ReadingLiterally ==
    ASSUME EscapeChar = Backslash, NEW t \in Seq(Characters), NEW p \in Seq(Characters),
           NEW x \in Characters, ~Reading(t, p).escaped
    PROVE  /\ p \o Literally(x) \in Seq(Characters)
           /\ Reading(t, p \o Literally(x))
                = [at |-> {j \in 1 .. Len(t) : j - 1 \in Reading(t, p).at /\ t[j] = x},
                   escaped |-> FALSE]
<1> DEFINE m == Reading(t, p)
           u == Append(p, Backslash)
<1>1. m \in Matches(t) /\ ~m.escaped
  BY ReadingTyped
<1>2. Backslash \in Characters
      /\ Percent # Underscore /\ Backslash # Percent /\ Backslash # Underscore
  BY TextAssumption DEF TextAssumption
<1>3. CASE x \notin Special
  <2>1. p \o Literally(x) = Append(p, x)
    BY <1>3, AppendIsConcat DEF Literally
  <2>2. Append(p, x) \in Seq(Characters) /\ Reading(t, Append(p, x)) = Read(t, m, x)
    BY AppendProperties, ReadingAppend
  <2>3. x # Backslash /\ x # Percent /\ x # Underscore
    BY <1>3 DEF Special
  <2> HIDE DEF m
  <2>4. Read(t, m, x)
          = [at |-> {j \in 1 .. Len(t) : j - 1 \in m.at /\ t[j] = x}, escaped |-> FALSE]
    BY <1>1, <2>3 DEF Read
  <2> QED  BY <2>1, <2>2, <2>4 DEF m
<1>4. CASE x \in Special
  <2>1. /\ u \in Seq(Characters) /\ Append(u, x) \in Seq(Characters)
        /\ u = p \o <<Backslash>> /\ Append(u, x) = u \o <<x>>
    BY <1>2, AppendProperties, AppendIsConcat
  <2>2. p \o Literally(x) = Append(u, x)
    <3>1. <<Backslash>> \in Seq(Characters)
      BY <1>2
    <3>2. <<x>> \in Seq(Characters)
      OBVIOUS
    <3>3. (p \o <<Backslash>>) \o <<x>> = p \o (<<Backslash>> \o <<x>>)
      BY <3>1, <3>2, ConcatAssociative
    <3>4. <<Backslash>> \o <<x>> = <<Backslash, x>>
      BY <1>2, PairConcat
    <3> QED  BY <1>4, <2>1, <3>3, <3>4 DEF Literally
  <2>3. /\ Reading(t, u) = Read(t, m, Backslash)
        /\ Reading(t, Append(u, x)) = Read(t, Reading(t, u), x)
    BY <1>2, <2>1, ReadingAppend
  <2> HIDE DEF m
  <2>4. Read(t, m, Backslash) = [at |-> m.at, escaped |-> TRUE]
    BY <1>1, <1>2 DEF Read
  <2>5. Read(t, [at |-> m.at, escaped |-> TRUE], x)
          = [at |-> {j \in 1 .. Len(t) : j - 1 \in m.at /\ t[j] = x}, escaped |-> FALSE]
    BY DEF Read
  <2> QED  BY <2>1, <2>2, <2>3, <2>4, <2>5 DEF m
<1> QED  BY <1>3, <1>4

\* The places of t that are reached from the places in at by the text s.
Reached(t, at, s) ==
    {j \in Len(s) .. Len(t) : /\ j - Len(s) \in at
                              /\ \A i \in 1 .. Len(s) : t[j - Len(s) + i] = s[i]}

LEMMA ReachedEmpty ==
    ASSUME NEW t \in Seq(Characters), NEW at \in SUBSET (0 .. Len(t))
    PROVE  Reached(t, at, <<>>) = at
<1>1. Len(<<>>) = 0
  OBVIOUS
<1>2. Reached(t, at, <<>>) = {j \in 0 .. Len(t) : j - 0 \in at}
  BY <1>1 DEF Reached
<1>3. \A j \in 0 .. Len(t) : j - 0 = j
  OBVIOUS
<1> QED  BY <1>2, <1>3

LEMMA ReachedAppend ==
    ASSUME NEW t \in Seq(Characters), NEW s \in Seq(Characters), NEW x \in Characters,
           NEW at \in SUBSET (0 .. Len(t))
    PROVE  Reached(t, at, Append(s, x))
             = {j \in 1 .. Len(t) : j - 1 \in Reached(t, at, s) /\ t[j] = x}
<1> DEFINE n == Len(s)
           u == Append(s, x)
           l == Len(t)
<1>1. /\ l \in Nat /\ n \in Nat /\ u \in Seq(Characters) /\ Len(u) = n + 1
      /\ u[n + 1] = x /\ \A k \in 1 .. n : u[k] = s[k]
  BY AppendProperties, LenProperties
<1> HIDE DEF u
<1>3. /\ Reached(t, at, u) = {j \in n + 1 .. l : /\ j - (n + 1) \in at
                                 /\ \A i \in 1 .. n + 1 : t[j - (n + 1) + i] = u[i]}
      /\ Reached(t, at, s) = {j \in n .. l : /\ j - n \in at
                                             /\ \A i \in 1 .. n : t[j - n + i] = s[i]}
  BY <1>1 DEF Reached
<1> HIDE DEF n, l
<1>4. ASSUME NEW j \in Nat
      PROVE  (\A i \in 1 .. n + 1 : t[j - (n + 1) + i] = u[i])
             <=> (\A i \in 1 .. n : t[(j - 1) - n + i] = s[i]) /\ t[j] = x
  <2>1. \A i \in 1 .. n : i \in 1 .. n + 1 /\ j - (n + 1) + i = (j - 1) - n + i
    BY <1>1
  <2>2. n + 1 \in 1 .. n + 1 /\ j - (n + 1) + (n + 1) = j
    BY <1>1
  <2>3. \A i \in 1 .. n + 1 : i \in 1 .. n \/ i = n + 1
    BY <1>1
  <2> QED  BY <1>1, <2>1, <2>2, <2>3
<1>5. ASSUME NEW j \in Nat
      PROVE  /\ j \in n + 1 .. l <=> j \in 1 .. l /\ j - 1 \in n .. l
             /\ j - (n + 1) = (j - 1) - n
  BY <1>1
<1>6. \A j : j \in Reached(t, at, u)
             <=> j \in 1 .. l /\ j - 1 \in Reached(t, at, s) /\ t[j] = x
  <2>1. \A j : (j \in n + 1 .. l => j \in Nat) /\ (j \in 1 .. l => j \in Nat)
    BY <1>1
  <2> QED  BY <1>3, <1>4, <1>5, <2>1
<1> QED  BY <1>6 DEF u, l

\* An escaped text is read as itself, wherever in a pattern it stands.
LEMMA ReadingEscape ==
    ASSUME EscapeChar = Backslash, NEW t \in Seq(Characters), NEW p \in Seq(Characters),
           ~Reading(t, p).escaped, NEW s \in Seq(Characters)
    PROVE  /\ p \o Escape(s) \in Seq(Characters)
           /\ Reading(t, p \o Escape(s))
                = [at |-> Reached(t, Reading(t, p).at, s), escaped |-> FALSE]
<1> DEFINE m == Reading(t, p)
           Claim(u) == Reading(t, p \o Escape(u))
                          = [at |-> Reached(t, m.at, u), escaped |-> FALSE]
           P == {k \in 0 .. Len(s) : \A u \in Seq(Characters) : Len(u) = k => Claim(u)}
<1>1. m \in Matches(t) /\ m.at \in SUBSET (0 .. Len(t)) /\ ~m.escaped
  BY ReadingTyped DEF Matches
<1>2. Len(s) \in Nat
  BY LenProperties
<1>3. 0 \in P
  <2>1. SUFFICES ASSUME NEW u \in Seq(Characters), Len(u) = 0 PROVE Claim(u)
    BY <1>2
  <2>2. u = <<>> /\ p \o <<>> = p
    BY <2>1, EmptySeq, ConcatEmptySeq
  <2>3. Reached(t, m.at, <<>>) = m.at
    BY <1>1, ReachedEmpty
  <2>4. m = [at |-> m.at, escaped |-> FALSE]
    BY <1>1 DEF Matches
  <2> QED  BY <2>2, <2>3, <2>4, EscapeEmpty
<1>4. ASSUME NEW k \in 1 .. Len(s), k - 1 \in P PROVE k \in P
  <2>1. SUFFICES ASSUME NEW u \in Seq(Characters), Len(u) = k PROVE Claim(u)
    BY <1>2
  <2>2. u # <<>>
    BY <2>1
  <2>3. PICK v \in Seq(Characters), x \in Characters : u = Append(v, x)
    BY <2>2, SequenceEmptyOrAppend
  <2>4. Len(v) = k - 1 /\ Len(v) \in Nat
    BY <2>1, <2>3, AppendProperties, LenProperties
  <2>5. Claim(v)
    BY <1>4, <2>4
  <2> DEFINE w == p \o Escape(v)
  <2>6. w \in Seq(Characters)
    BY EscapeTyped, ConcatProperties
  <2>8. p \o Escape(u) = w \o Literally(x)
    BY <2>3, EscapeAfter
  <2>9. ~Reading(t, w).escaped /\ Reading(t, w).at = Reached(t, m.at, v)
    BY <2>5
  <2> HIDE DEF w, m
  <2>10. Reading(t, w \o Literally(x))
           = [at |-> {j \in 1 .. Len(t) : j - 1 \in Reading(t, w).at /\ t[j] = x},
              escaped |-> FALSE]
    BY <2>6, <2>9, ReadingLiterally
  <2>11. Reached(t, m.at, u)
           = {j \in 1 .. Len(t) : j - 1 \in Reached(t, m.at, v) /\ t[j] = x}
    <3> DEFINE at == m.at
    <3>1. at \in SUBSET (0 .. Len(t))
      BY <1>1
    <3> HIDE DEF at
    <3>2. Reached(t, at, Append(v, x))
            = {j \in 1 .. Len(t) : j - 1 \in Reached(t, at, v) /\ t[j] = x}
      BY <2>3, <3>1, ReachedAppend
    <3> QED  BY <2>3, <3>2 DEF at
  <2> QED  BY <2>8, <2>9, <2>10, <2>11
<1> HIDE DEF P
<1>5. Len(s) \in P
  <2>1. Len(s) \in 0 .. Len(s)
    BY <1>2
  <2> QED  BY <2>1, <1>2, <1>3, <1>4, Induction
<1>6. Claim(s)
  BY <1>5 DEF P
<1>7. p \o Escape(s) \in Seq(Characters)
  BY EscapeTyped, ConcatProperties
<1> QED  BY <1>6, <1>7

\* Text s stands in t, and ends at j.
Stands(s, t, j) ==
    j \in Len(s) .. Len(t) /\ \A i \in 1 .. Len(s) : t[j - Len(s) + i] = s[i]

\* A pattern made of a text matches where the text stands.
LEMMA PatternsMatch ==
    ASSUME EscapeChar = Backslash, NEW t \in Seq(Characters), NEW s \in Seq(Characters)
    PROVE  /\ Like(t, Containing(s)) <=> \E j \in 0 .. Len(t) : Stands(s, t, j)
           /\ Like(t, StartingWith(s)) <=> Stands(s, t, Len(s))
<1> DEFINE n == Len(t)
           e == Escape(s)
           percent == <<Percent>>
<1>1. /\ n \in Nat /\ Len(s) \in Nat /\ e \in Seq(Characters)
      /\ Percent \in Characters /\ Percent # Underscore /\ Percent # Backslash
  BY LenProperties, EscapeTyped, TextAssumption DEF TextAssumption
<1>2. <<>> \in Seq(Characters) /\ percent = Append(<<>>, Percent)
      /\ percent \in Seq(Characters) /\ <<>> \o e = e
  BY <1>1, ConcatEmptySeq
<1>3. ASSUME NEW p \in Seq(Characters)
      PROVE  Reading(t, p \o percent) = Read(t, Reading(t, p), Percent)
  <2>1. Append(p, Percent) = p \o percent
    BY <1>1, AppendIsConcat
  <2>2. Percent \in Characters
    BY <1>1
  <2>3. Reading(t, Append(p, Percent)) = Read(t, Reading(t, p), Percent)
    BY <2>2, ReadingAppend
  <2> HIDE DEF percent
  <2> QED  BY <2>1, <2>3
<1>4. ASSUME NEW at \in SUBSET (0 .. n)
      PROVE  Read(t, [at |-> at, escaped |-> FALSE], Percent)
               = [at |-> {j \in 0 .. n : \E k \in at : k <= j}, escaped |-> FALSE]
  BY <1>1 DEF Read
<1>5. Reading(t, <<>>) = [at |-> {0}, escaped |-> FALSE]
  BY ReadingTyped
<1>6. Reading(t, percent) = [at |-> 0 .. n, escaped |-> FALSE]
  <2> HIDE DEF percent
  <2>1. Reading(t, percent) = Read(t, Reading(t, <<>>), Percent)
    BY <1>1, <1>2, ReadingAppend
  <2>2. {j \in 0 .. n : \E k \in {0} : k <= j} = 0 .. n /\ {0} \in SUBSET (0 .. n)
    BY <1>1
  <2> QED  BY <1>4, <1>5, <2>1, <2>2
<1> HIDE DEF percent
<1>7. /\ percent \o e \in Seq(Characters)
      /\ Reading(t, percent \o e) = [at |-> Reached(t, 0 .. n, s), escaped |-> FALSE]
  <2>1. Reading(t, percent).at = 0 .. n /\ ~Reading(t, percent).escaped
    BY <1>6
  <2>2. percent \in Seq(Characters)
    BY <1>2
  <2>3. /\ percent \o e \in Seq(Characters)
        /\ Reading(t, percent \o e)
             = [at |-> Reached(t, Reading(t, percent).at, s), escaped |-> FALSE]
    BY <2>1, <2>2, ReadingEscape
  <2> QED  BY <2>1, <2>3
<1>8. Reading(t, e) = [at |-> Reached(t, {0}, s), escaped |-> FALSE]
  <2>1. Reading(t, <<>>).at = {0} /\ ~Reading(t, <<>>).escaped
    BY <1>5
  <2> DEFINE z == <<>>
  <2>2. z \in Seq(Characters) /\ Reading(t, z).at = {0} /\ ~Reading(t, z).escaped
    BY <1>2, <2>1
  <2> HIDE DEF z
  <2>3. Reading(t, z \o e) = [at |-> Reached(t, Reading(t, z).at, s), escaped |-> FALSE]
    BY <2>2, ReadingEscape
  <2> QED  BY <1>2, <2>2, <2>3 DEF z
<1>9. ASSUME NEW at \in SUBSET (0 .. n)
      PROVE  Reached(t, at, s) \in SUBSET (0 .. n)
             /\ \A j : j \in Reached(t, at, s) <=> Stands(s, t, j) /\ j - Len(s) \in at
  BY <1>1 DEF Reached, Stands
<1>10. ASSUME NEW p \in Seq(Characters), NEW at \in SUBSET (0 .. n),
              Reading(t, p) = [at |-> Reached(t, at, s), escaped |-> FALSE]
       PROVE  Like(t, p \o percent) <=> \E j \in 0 .. n : Stands(s, t, j) /\ j - Len(s) \in at
  <2> DEFINE r == Reached(t, at, s)
  <2>1. r \in SUBSET (0 .. n)
        /\ \A j : j \in r <=> Stands(s, t, j) /\ j - Len(s) \in at
    BY <1>9
  <2>2. Reading(t, p \o percent) = Read(t, [at |-> r, escaped |-> FALSE], Percent)
    BY <1>3, <1>10
  <2> HIDE DEF r
  <2>3. Reading(t, p \o percent)
          = [at |-> {j \in 0 .. n : \E k \in r : k <= j}, escaped |-> FALSE]
    BY <1>4, <2>1, <2>2
  <2>4. Like(t, p \o percent) <=> \E k \in r : k <= n
    BY <1>1, <2>3 DEF Like
  <2>5. \A k \in r : k <= n /\ k \in 0 .. n
    BY <1>1, <2>1
  <2> QED  BY <2>1, <2>4, <2>5
<1>11. Containing(s) = (percent \o e) \o percent /\ StartingWith(s) = e \o percent
  BY <1>1, <1>2, ConcatAssociative DEF Containing, StartingWith, percent
<1>12. \A j : Stands(s, t, j) => j - Len(s) \in 0 .. n /\ (j - Len(s) \in {0} <=> j = Len(s))
                                 /\ j \in 0 .. n
  BY <1>1 DEF Stands
<1>13. 0 .. n \in SUBSET (0 .. n) /\ {0} \in SUBSET (0 .. n)
  BY <1>1
<1> HIDE DEF n, e
<1>14. Like(t, Containing(s)) <=> \E j \in 0 .. n : Stands(s, t, j)
  BY <1>7, <1>10, <1>11, <1>12, <1>13
<1>15. Like(t, StartingWith(s)) <=> Stands(s, t, Len(s))
  BY <1>1, <1>8, <1>10, <1>11, <1>12, <1>13
<1> QED  BY <1>14, <1>15 DEF n

\* The text that stands in t is a piece of t; at the start, it is a prefix.
LEMMA StandsIsSubstring ==
    ASSUME NEW t \in Seq(Characters), NEW s \in Seq(Characters)
    PROVE  /\ Substring(s, t) <=> \E j \in 0 .. Len(t) : Stands(s, t, j)
           /\ IsPrefix(s, t) <=> Stands(s, t, Len(s))
<1> DEFINE n == Len(t)
           l == Len(s)
<1>1. /\ n \in Nat /\ l \in Nat /\ \A i \in 1 .. l : s[i] \in Characters
      /\ \A i \in 1 .. n : t[i] \in Characters
  BY LenProperties, ElementOfSeq
<1>2. ASSUME NEW i \in 1 .. n + 1, NEW j \in 0 .. n
      PROVE  /\ SubSeq(t, i, j) \in Seq(Characters)
             /\ Len(SubSeq(t, i, j)) = IF i <= j THEN j - i + 1 ELSE 0
             /\ \A k \in 1 .. j - i + 1 : SubSeq(t, i, j)[k] = t[i + k - 1]
  <2>1. \A k \in i .. j : t[k] \in Characters
    BY <1>1
  <2>2. i \in Int /\ j \in Int
    BY <1>1
  <2> QED  BY <2>1, <2>2, SubSeqProperties
<1>3. \A j \in Int : Stands(s, t, j) <=> j \in l .. n /\ \A k \in 1 .. l : t[j - l + k] = s[k]
  BY DEF Stands
<1>4. ASSUME NEW i \in 1 .. n + 1, NEW j \in 0 .. n, s = SubSeq(t, i, j)
      PROVE  \E k \in 0 .. n : Stands(s, t, k)
  <2>1. CASE i <= j
    <3>1. l = j - i + 1 /\ j \in l .. n /\ \A k \in 1 .. l : s[k] = t[i + k - 1]
      BY <1>1, <1>2, <1>4, <2>1
    <3> HIDE DEF n, l
    <3>2. \A k \in 1 .. l : j - l + k = i + k - 1
      BY <1>1, <3>1
    <3>3. \A k \in 1 .. l : t[j - l + k] = s[k]
      BY <3>1, <3>2
    <3>4. j \in Int
      BY <1>1
    <3>5. Stands(s, t, j)
      BY <1>3, <3>1, <3>3, <3>4
    <3> QED  BY <3>5
  <2>2. CASE i > j
    <3>1. l = 0
      BY <1>2, <1>4, <2>2
    <3> HIDE DEF n, l
    <3>2. 0 \in l .. n /\ 0 \in 0 .. n /\ 1 .. l = {}
      BY <1>1, <3>1
    <3> QED  BY <1>3, <3>2
  <2> QED  BY <1>1, <2>1, <2>2
<1>5. ASSUME NEW j \in 0 .. n, Stands(s, t, j)
      PROVE  s = SubSeq(t, j - l + 1, j) /\ j - l + 1 \in 1 .. n + 1
  <2> DEFINE i == j - l + 1
             w == SubSeq(t, i, j)
  <2>1. /\ j \in l .. n /\ i \in 1 .. n + 1 /\ j - i + 1 = l
        /\ \A k \in 1 .. l : t[j - l + k] = s[k]
    BY <1>1, <1>5 DEF Stands
  <2>2. \A k \in 1 .. l : i + k - 1 = j - l + k
    BY <1>1, <2>1
  <2>3. (i <= j => l >= 1) /\ (~(i <= j) => l = 0)
    BY <1>1, <2>1
  <2> HIDE DEF i
  <2>4. w \in Seq(Characters) /\ Len(w) = l /\ \A k \in 1 .. l : w[k] = s[k]
    <3>1. /\ w \in Seq(Characters) /\ Len(w) = IF i <= j THEN j - i + 1 ELSE 0
          /\ \A k \in 1 .. j - i + 1 : w[k] = t[i + k - 1]
      BY <1>2, <2>1
    <3> HIDE DEF w, n, l
    <3>2. Len(w) = l
      BY <2>1, <2>3, <3>1
    <3> QED  BY <2>1, <2>2, <3>1, <3>2
  <2>5. s = w
    BY <2>4, SeqEqual
  <2> QED  BY <2>1, <2>5 DEF i
<1>6. Substring(s, t) <=> \E j \in 0 .. n : Stands(s, t, j)
  BY <1>4, <1>5 DEF Substring
<1>7. IsPrefix(s, t) <=> Stands(s, t, l)
  <2>1. SubSeq(s, 1, l) = s
    BY SubSeqFull
  <2>2. IsPrefix(s, t) <=> l <= n /\ s = SubSeq(t, 1, l)
    BY <2>1 DEF IsPrefix
  <2>3. ASSUME l <= n, s = SubSeq(t, 1, l) PROVE Stands(s, t, l)
    <3>1. 1 \in 1 .. n + 1 /\ l \in 0 .. n /\ l - 1 + 1 = l
      BY <1>1, <2>3
    <3>2. \A k \in 1 .. l : s[k] = t[1 + k - 1]
      BY <1>2, <2>3, <3>1
    <3>3. \A k \in 1 .. l : 1 + k - 1 = l - l + k
      BY <1>1
    <3> QED  BY <1>1, <1>3, <2>3, <3>2, <3>3
  <2>4. ASSUME Stands(s, t, l) PROVE l <= n /\ s = SubSeq(t, 1, l)
    <3>1. l \in 0 .. n /\ l - l + 1 = 1
      BY <1>1, <2>4 DEF Stands
    <3> QED  BY <1>1, <1>5, <2>4, <3>1
  <2> QED  BY <2>2, <2>3, <2>4
<1> QED  BY <1>6, <1>7

-----------------------------------------------------------------------------
(* Lists of values.                                                        *)

LEMMA FencedIs ==
    ASSUME NEW s \in Seq(Characters)
    PROVE  /\ Fenced(s) \in Seq(Characters) /\ Len(Fenced(s)) = Len(s) + 2
           /\ Fenced(s)[1] = Comma /\ Fenced(s)[Len(s) + 2] = Comma
           /\ \A k \in 1 .. Len(s) : Fenced(s)[k + 1] = s[k]
<1> DEFINE c == <<Comma>>
           u == c \o s
           n == Len(s)
<1>1. c \in Seq(Characters) /\ Len(c) = 1 /\ c[1] = Comma /\ n \in Nat
  BY TextAssumption, LenProperties DEF TextAssumption
<1> HIDE DEF c
<1>2. u \in Seq(Characters) /\ Len(u) = n + 1
  <2>1. c \in Seq(Characters)
    BY <1>1
  <2>2. u \in Seq(Characters) /\ Len(u) = Len(c) + Len(s)
    BY <2>1, ConcatProperties
  <2> HIDE DEF u
  <2> QED  BY <1>1, <2>2
<1>3. \A k \in 1 .. n + 1 : u[k] = IF k <= 1 THEN c[k] ELSE s[k - 1]
  <2>1. c \in Seq(Characters)
    BY <1>1
  <2>2. \A k \in 1 .. Len(c) + Len(s) : u[k] = IF k <= Len(c) THEN c[k] ELSE s[k - Len(c)]
    BY <2>1, ConcatProperties
  <2>3. Len(c) + Len(s) = n + 1 /\ Len(c) = 1
    BY <1>1
  <2> HIDE DEF u, n
  <2> QED  BY <2>2, <2>3
<1> HIDE DEF u
<1>4. u \o c \in Seq(Characters) /\ Len(u \o c) = n + 2
  <2>1. u \o c \in Seq(Characters) /\ Len(u \o c) = Len(u) + Len(c)
    BY <1>1, <1>2, ConcatProperties
  <2>2. Len(u) + Len(c) = n + 2
    BY <1>1, <1>2
  <2> QED  BY <2>1, <2>2
<1>5. \A k \in 1 .. n + 2 : (u \o c)[k] = IF k <= n + 1 THEN u[k] ELSE c[k - (n + 1)]
  BY <1>1, <1>2, ConcatProperties
<1>6. Fenced(s) = u \o c
  BY DEF Fenced, u, c
<1> HIDE DEF n
<1> DEFINE f == u \o c
<1> HIDE DEF f
<1>7. \A k \in 1 .. n + 2 : f[k] = IF k <= n + 1 THEN u[k] ELSE c[k - (n + 1)]
  BY <1>5 DEF f
<1>8. f[1] = Comma /\ f[n + 2] = Comma
  <2>1. 1 \in 1 .. n + 2 /\ n + 2 \in 1 .. n + 2 /\ 1 <= n + 1 /\ ~(n + 2 <= n + 1)
        /\ (n + 2) - (n + 1) = 1 /\ 1 \in 1 .. n + 1
    BY <1>1
  <2> QED  BY <1>1, <1>3, <1>7, <2>1
<1>9. \A k \in 1 .. n : f[k + 1] = s[k]
  <2>1. \A k \in 1 .. n : /\ k + 1 \in 1 .. n + 1 /\ k + 1 \in 1 .. n + 2
                          /\ ~(k + 1 <= 1) /\ k + 1 <= n + 1 /\ (k + 1) - 1 = k
    BY <1>1
  <2> QED  BY <1>3, <1>7, <2>1
<1> QED  BY <1>4, <1>6, <1>8, <1>9 DEF f, n

\* Between commas, or the ends of s, stands w from place i on.
Item(w, s, i) ==
    /\ i \in 1 .. Len(s) + 1 /\ i + Len(w) - 1 <= Len(s)
    /\ i = 1 \/ s[i - 1] = Comma
    /\ i + Len(w) - 1 = Len(s) \/ s[i + Len(w)] = Comma
    /\ \A k \in 1 .. Len(w) : s[i + k - 1] = w[k]

LEMMA FencedItem ==
    ASSUME NEW s \in Seq(Characters), NEW w \in Seq(Characters)
    PROVE  Substring(Fenced(w), Fenced(s)) <=> \E i \in 1 .. Len(s) + 1 : Item(w, s, i)
<1> DEFINE n == Len(s)
           l == Len(w)
           f == Fenced(s)
           g == Fenced(w)
<1>1. n \in Nat /\ l \in Nat
  BY LenProperties
<1>2. /\ f \in Seq(Characters) /\ Len(f) = n + 2 /\ f[1] = Comma /\ f[n + 2] = Comma
      /\ \A k \in 1 .. n : f[k + 1] = s[k]
  BY FencedIs
<1>3. /\ g \in Seq(Characters) /\ Len(g) = l + 2 /\ g[1] = Comma /\ g[l + 2] = Comma
      /\ \A k \in 1 .. l : g[k + 1] = w[k]
  BY FencedIs
<1> HIDE DEF f, g
<1>4. Substring(g, f) <=> \E j \in 0 .. n + 2 : Stands(g, f, j)
  BY <1>2, <1>3, StandsIsSubstring
<1>5. \A j \in Int : Stands(g, f, j) <=>
          j \in l + 2 .. n + 2 /\ \A k \in 1 .. l + 2 : f[j - (l + 2) + k] = g[k]
  BY <1>2, <1>3 DEF Stands
<1>6. \A i : Item(w, s, i) <=>
          /\ i \in 1 .. n + 1 /\ i + l - 1 <= n
          /\ i = 1 \/ s[i - 1] = Comma
          /\ i + l - 1 = n \/ s[i + l] = Comma
          /\ \A k \in 1 .. l : s[i + k - 1] = w[k]
  BY DEF Item
<1> HIDE DEF n, l
<1>7. ASSUME NEW i \in 1 .. n + 1, i + l - 1 <= n
      PROVE  /\ f[i] = Comma <=> i = 1 \/ s[i - 1] = Comma
             /\ f[i + l + 1] = Comma <=> i + l - 1 = n \/ s[i + l] = Comma
             /\ \A k \in 1 .. l : f[i + k] = s[i + k - 1]
  <2>1. i # 1 => i - 1 \in 1 .. n /\ (i - 1) + 1 = i
    BY <1>1, <1>7
  <2>2. i + l - 1 # n => i + l \in 1 .. n /\ (i + l) + 1 = i + l + 1
    BY <1>1, <1>7
  <2>3. i + l - 1 = n => i + l + 1 = n + 2
    BY <1>1, <1>7
  <2>4. \A k \in 1 .. l : i + k - 1 \in 1 .. n /\ (i + k - 1) + 1 = i + k
    BY <1>1, <1>7
  <2> QED  BY <1>2, <2>1, <2>2, <2>3, <2>4
<1>8. ASSUME NEW i \in 1 .. n + 1, i + l - 1 <= n
      PROVE  (\A k \in 1 .. l + 2 : f[i - 1 + k] = g[k])
             <=> /\ f[i] = Comma /\ f[i + l + 1] = Comma
                 /\ \A k \in 1 .. l : f[i + k] = w[k]
  <2>1. \A k \in 1 .. l + 2 : k = 1 \/ k = l + 2 \/ (k - 1 \in 1 .. l /\ (k - 1) + 1 = k
                                                     /\ i + (k - 1) = i - 1 + k)
    BY <1>1
  <2>2. /\ 1 \in 1 .. l + 2 /\ l + 2 \in 1 .. l + 2
        /\ i - 1 + 1 = i /\ i - 1 + (l + 2) = i + l + 1
    BY <1>1
  <2>3. \A k \in 1 .. l : k + 1 \in 1 .. l + 2 /\ i - 1 + (k + 1) = i + k
    BY <1>1
  <2>4. ASSUME \A k \in 1 .. l + 2 : f[i - 1 + k] = g[k]
        PROVE  /\ f[i] = Comma /\ f[i + l + 1] = Comma
               /\ \A k \in 1 .. l : f[i + k] = w[k]
    BY <1>3, <2>2, <2>3, <2>4
  <2>5. ASSUME f[i] = Comma, f[i + l + 1] = Comma, \A k \in 1 .. l : f[i + k] = w[k],
               NEW k \in 1 .. l + 2
        PROVE  f[i - 1 + k] = g[k]
    <3>1. CASE k = 1
      BY <1>3, <2>2, <2>5, <3>1
    <3>2. CASE k = l + 2
      BY <1>3, <2>2, <2>5, <3>2
    <3>3. CASE k - 1 \in 1 .. l /\ (k - 1) + 1 = k /\ i + (k - 1) = i - 1 + k
      BY <1>3, <2>5, <3>3
    <3> QED  BY <2>1, <3>1, <3>2, <3>3
  <2> QED  BY <2>4, <2>5
<1>9. ASSUME NEW i \in 1 .. n + 1, i + l - 1 <= n
      PROVE  Item(w, s, i) <=> \A k \in 1 .. l + 2 : f[i - 1 + k] = g[k]
  <2>1. (\A k \in 1 .. l : f[i + k] = w[k]) <=> \A k \in 1 .. l : s[i + k - 1] = w[k]
    BY <1>7, <1>9
  <2>2. /\ f[i] = Comma <=> i = 1 \/ s[i - 1] = Comma
        /\ f[i + l + 1] = Comma <=> i + l - 1 = n \/ s[i + l] = Comma
    BY <1>7, <1>9
  <2>3. Item(w, s, i) <=> /\ f[i] = Comma /\ f[i + l + 1] = Comma
                          /\ \A k \in 1 .. l : f[i + k] = w[k]
    <3> HIDE DEF Item
    <3> QED  BY <1>6, <1>9, <2>1, <2>2
  <2>4. (\A k \in 1 .. l + 2 : f[i - 1 + k] = g[k])
          <=> /\ f[i] = Comma /\ f[i + l + 1] = Comma
              /\ \A k \in 1 .. l : f[i + k] = w[k]
    BY <1>8, <1>9
  <2> QED  BY <2>3, <2>4
<1>10. ASSUME NEW i \in 1 .. n + 1, Item(w, s, i)
       PROVE  \E j \in 0 .. n + 2 : Stands(g, f, j)
  <2>1. i + l - 1 <= n
    BY <1>6, <1>10
  <2> DEFINE j == i + l + 1
  <2>2. j \in 0 .. n + 2 /\ j \in l + 2 .. n + 2 /\ j - (l + 2) = i - 1 /\ j \in Int
    BY <1>1, <2>1
  <2> HIDE DEF j
  <2>3. Stands(g, f, j)
    BY <1>5, <1>9, <1>10, <2>1, <2>2
  <2> QED  BY <2>2, <2>3
<1>11. ASSUME NEW j \in 0 .. n + 2, Stands(g, f, j)
       PROVE  \E i \in 1 .. n + 1 : Item(w, s, i)
  <2>1. j \in Int /\ j \in l + 2 .. n + 2
        /\ \A k \in 1 .. l + 2 : f[j - (l + 2) + k] = g[k]
    BY <1>1, <1>5, <1>11
  <2> DEFINE i == j - (l + 2) + 1
  <2>2. i \in 1 .. n + 1 /\ i + l - 1 <= n /\ j - (l + 2) = i - 1
    BY <1>1, <2>1
  <2> HIDE DEF i
  <2>3. Item(w, s, i)
    BY <1>9, <2>1, <2>2
  <2> QED  BY <2>2, <2>3
<1>12. Substring(g, f) <=> \E i \in 1 .. n + 1 : Item(w, s, i)
  BY <1>4, <1>10, <1>11
<1> QED  BY <1>12 DEF n, f, g

\* Text t stands from place a on in the item of s from place i to place j, and
\* nothing but blanks beside it.
Sits(t, s, i, a, j) ==
    /\ i \in 1 .. Len(s) /\ j \in i .. Len(s)
    /\ a \in i .. j /\ a + Len(t) - 1 \in a .. j
    /\ i = 1 \/ s[i - 1] = Comma
    /\ j = Len(s) \/ s[j + 1] = Comma
    /\ \A k \in 1 .. Len(t) : s[a + k - 1] = t[k]
    /\ \A k \in i .. a - 1 : s[k] \in Blanks
    /\ \A k \in a + Len(t) .. j : s[k] \in Blanks

\* Neither empty nor with a comma in it or a blank at an end.
Plain(t) ==
    /\ t # <<>> /\ t[1] \notin Blanks /\ t[Len(t)] \notin Blanks
    /\ \A k \in 1 .. Len(t) : t[k] # Comma

LEMMA PiecesSit ==
    ASSUME NEW s \in Seq(Characters), NEW t \in Seq(Characters)
    PROVE  t \in Pieces(s) <=> Plain(t) /\ \E i, a, j \in 1 .. Len(s) : Sits(t, s, i, a, j)
<1> DEFINE n == Len(s)
           l == Len(t)
<1>1. /\ n \in Nat /\ l \in Nat /\ DOMAIN s = 1 .. n
      /\ \A k \in 1 .. n : s[k] \in Characters
  BY LenProperties, ElementOfSeq
<1>2. ASSUME NEW a \in 1 .. n, NEW b \in a .. n
      PROVE  /\ SubSeq(s, a, b) \in Seq(Characters) /\ Len(SubSeq(s, a, b)) = b - a + 1
             /\ \A k \in 1 .. b - a + 1 : SubSeq(s, a, b)[k] = s[a + k - 1]
  <2>1. a \in Int /\ b \in Int /\ a <= b /\ \A k \in a .. b : s[k] \in Characters
    BY <1>1
  <2>2. \A k \in a .. b : s[k] \in Characters
    BY <2>1
  <2> QED  BY <2>1, <2>2, SubSeqProperties
<1>3. ASSUME t \in Pieces(s)
      PROVE  Plain(t) /\ \E i, a, j \in 1 .. n : Sits(t, s, i, a, j)
  <2>1. PICK r \in (1 .. n) \X (1 .. n) :
          /\ t = SubSeq(s, r[1], r[2])
          /\ r[1] <= r[2] /\ s[r[1]] \notin Blanks /\ s[r[2]] \notin Blanks
          /\ \A i \in r[1] .. r[2] : s[i] # Comma
          /\ \E i \in 1 .. r[1] : /\ i = 1 \/ s[i - 1] = Comma
                                  /\ \A j \in i .. r[1] - 1 : s[j] \in Blanks
          /\ \E i \in r[2] .. n : /\ i = n \/ s[i + 1] = Comma
                                  /\ \A j \in r[2] + 1 .. i : s[j] \in Blanks
    BY <1>1, <1>3 DEF Pieces
  <2> DEFINE a == r[1]
             b == r[2]
  <2>2. a \in 1 .. n /\ b \in a .. n
    BY <1>1, <2>1
  <2>3. PICK i \in 1 .. a : /\ i = 1 \/ s[i - 1] = Comma
                            /\ \A j \in i .. a - 1 : s[j] \in Blanks
    BY <2>1
  <2>4. PICK j \in b .. n : /\ j = n \/ s[j + 1] = Comma
                            /\ \A k \in b + 1 .. j : s[k] \in Blanks
    BY <2>1
  <2>5. /\ t = SubSeq(s, a, b) /\ s[a] \notin Blanks /\ s[b] \notin Blanks
        /\ \A k \in a .. b : s[k] # Comma
    BY <2>1
  <2> HIDE DEF a, b
  <2>6. l = b - a + 1 /\ \A k \in 1 .. l : t[k] = s[a + k - 1]
    BY <1>2, <2>2, <2>5
  <2>7. /\ i \in 1 .. n /\ j \in i .. n /\ a \in i .. j /\ a + l - 1 = b /\ b \in a .. j
        /\ a + l = b + 1 /\ l >= 1 /\ j \in 1 .. n
    <3> HIDE DEF n, l
    <3> QED  BY <1>1, <2>2, <2>3, <2>4, <2>6
  <2>8. Sits(t, s, i, a, j)
    BY <2>3, <2>4, <2>6, <2>7 DEF Sits
  <2>9. /\ 1 \in 1 .. l /\ l \in 1 .. l /\ a + 1 - 1 = a
        /\ \A k \in 1 .. l : a + k - 1 \in a .. b
    <3> HIDE DEF n, l
    <3> QED  BY <1>1, <2>2, <2>7
  <2>10. t # <<>>
    BY <2>7
  <2>11. Plain(t)
    <3>1. t[1] = s[a] /\ t[l] = s[b]
      BY <2>6, <2>7, <2>9
    <3>2. ASSUME NEW k \in 1 .. l PROVE t[k] # Comma
      <4>1. a + k - 1 \in a .. b /\ t[k] = s[a + k - 1]
        BY <2>6, <2>9
      <4> QED  BY <2>5, <4>1
    <3> QED  BY <2>5, <2>10, <3>1, <3>2 DEF Plain
  <2> HIDE DEF n, l
  <2>12. a \in 1 .. n /\ i \in 1 .. n /\ j \in 1 .. n
    BY <2>2, <2>7
  <2> QED  BY <2>8, <2>11, <2>12
<1>4. ASSUME Plain(t), NEW i \in 1 .. n, NEW a \in 1 .. n, NEW j \in 1 .. n,
             Sits(t, s, i, a, j)
      PROVE  t \in Pieces(s)
  <2> DEFINE b == a + l - 1
  <2>1. /\ j \in i .. n /\ a \in i .. j /\ b \in a .. j
        /\ i = 1 \/ s[i - 1] = Comma
        /\ j = n \/ s[j + 1] = Comma
        /\ \A k \in 1 .. l : s[a + k - 1] = t[k]
        /\ \A k \in i .. a - 1 : s[k] \in Blanks
        /\ \A k \in a + l .. j : s[k] \in Blanks
    BY <1>4 DEF Sits
  <2>2. /\ t[1] \notin Blanks /\ t[l] \notin Blanks
        /\ \A k \in 1 .. l : t[k] # Comma
    BY <1>4 DEF Plain
  <2>3. /\ b \in 1 .. n /\ b \in a .. n /\ b - a + 1 = l /\ b + 1 = a + l /\ i \in 1 .. a
        /\ j \in b .. n /\ 1 \in 1 .. l /\ l \in 1 .. l /\ a + 1 - 1 = a
        /\ \A k \in a .. b : k - a + 1 \in 1 .. l /\ a + (k - a + 1) - 1 = k
    <3> HIDE DEF n, l
    <3> QED  BY <1>1, <2>1
  <2>4. s[a] \notin Blanks /\ s[b] \notin Blanks /\ \A k \in a .. b : s[k] # Comma
    <3>1. s[a] = t[1] /\ s[b] = t[l]
      BY <2>1, <2>3
    <3>2. ASSUME NEW k \in a .. b PROVE s[k] # Comma
      <4>1. k - a + 1 \in 1 .. l /\ a + (k - a + 1) - 1 = k
        BY <2>3
      <4>2. s[k] = t[k - a + 1]
        BY <2>1, <4>1
      <4> QED  BY <2>2, <4>1, <4>2
    <3> QED  BY <2>2, <3>1, <3>2
  <2>5. t = SubSeq(s, a, b)
    <3> DEFINE w == SubSeq(s, a, b)
    <3>1. w \in Seq(Characters) /\ Len(w) = l /\ \A k \in 1 .. l : w[k] = s[a + k - 1]
      BY <1>2, <2>3
    <3> HIDE DEF w
    <3>2. t = w
      BY <2>1, <3>1, SeqEqual
    <3> QED  BY <3>2 DEF w
  <2> HIDE DEF b, n
  <2>6. <<a, b>> \in (1 .. n) \X (1 .. n)
    BY <2>3
  <2>7. /\ \E k \in 1 .. a : /\ k = 1 \/ s[k - 1] = Comma
                             /\ \A m \in k .. a - 1 : s[m] \in Blanks
        /\ \E k \in b .. n : /\ k = n \/ s[k + 1] = Comma
                             /\ \A m \in b + 1 .. k : s[m] \in Blanks
    BY <2>1, <2>3
  <2>8. a <= b
    BY <2>3
  <2> DEFINE r == <<a, b>>
  <2>9. r \in (1 .. n) \X (1 .. n) /\ r[1] = a /\ r[2] = b
    BY <2>6
  <2> HIDE DEF r
  <2>10. /\ r[1] <= r[2] /\ s[r[1]] \notin Blanks /\ s[r[2]] \notin Blanks
         /\ \A k \in r[1] .. r[2] : s[k] # Comma
         /\ \E k \in 1 .. r[1] : /\ k = 1 \/ s[k - 1] = Comma
                                 /\ \A m \in k .. r[1] - 1 : s[m] \in Blanks
         /\ \E k \in r[2] .. n : /\ k = n \/ s[k + 1] = Comma
                                 /\ \A m \in r[2] + 1 .. k : s[m] \in Blanks
         /\ t = SubSeq(s, r[1], r[2])
    BY <2>4, <2>5, <2>7, <2>8, <2>9
  <2> QED  BY <1>1, <2>9, <2>10 DEF Pieces, n
<1> QED  BY <1>3, <1>4

LEMMA ListedSits ==
    ASSUME NEW s \in Seq(Characters), NEW t \in Seq(Characters)
    PROVE  Listed(t, s) <=> Plain(t) /\ \E i, a, j \in 1 .. Len(s) : Sits(t, s, i, a, j)
<1> DEFINE n == Len(s)
           l == Len(t)
           Stretch(w, i, j) == /\ w \in Seq(Characters) /\ Len(w) = j - i + 1
                               /\ \A k \in 1 .. j - i + 1 : w[k] = s[i + k - 1]
           Named(w) == Padded(w, t) /\ \E i \in 1 .. n + 1 : Item(w, s, i)
<1>1. /\ n \in Nat /\ l \in Nat /\ DOMAIN s = 1 .. n /\ DOMAIN t = 1 .. l
      /\ \A k \in 1 .. n : s[k] \in Characters
  BY LenProperties, ElementOfSeq
<1>2. Plain(t) <=> /\ t # <<>> /\ Comma \notin ToSet(t)
                   /\ {t[1], Last(t)} \cap Blanks = {}
  BY <1>1 DEF Plain, ToSet, Last
<1>3. ASSUME NEW i \in 1 .. n, NEW j \in i .. n
      PROVE  Stretch(SubSeq(s, i, j), i, j)
  <2>1. i \in Int /\ j \in Int /\ i <= j
    BY <1>1
  <2>2. \A k \in i .. j : s[k] \in Characters
    BY <1>1
  <2> QED  BY <2>1, <2>2, SubSeqProperties
<1>4. \A i, j \in 1 .. n : SubSeq(s, i, j) \in Seq(Characters)
  <2>1. SUFFICES ASSUME NEW i \in 1 .. n, NEW j \in 1 .. n
                 PROVE  SubSeq(s, i, j) \in Seq(Characters)
    OBVIOUS
  <2>2. i \in Int /\ j \in Int /\ \A k \in i .. j : s[k] \in Characters
    BY <1>1
  <2>3. \A k \in i .. j : s[k] \in Characters
    BY <2>2
  <2> QED  BY <2>2, <2>3, SubSeqProperties
<1>5. Listed(t, s) <=> Plain(t) /\ \E i, j \in 1 .. n : Named(SubSeq(s, i, j))
  BY <1>1, <1>2, <1>4, FencedItem DEF Listed
<1>6. \A w \in Seq(Characters) : Padded(w, t) <=>
        \E p \in 0 .. Len(w) - l : \A k \in 1 .. Len(w) :
            IF k - p \in 1 .. l THEN w[k] = t[k - p] ELSE w[k] \in Blanks
  BY <1>1, LenProperties DEF Padded
<1>7. ASSUME Plain(t), NEW w \in Seq(Characters), Named(w)
      PROVE  \E i, a, j \in 1 .. n : Sits(t, s, i, a, j)
  <2> DEFINE m == Len(w)
  <2>1. PICK p \in 0 .. m - l : \A k \in 1 .. m :
            IF k - p \in 1 .. l THEN w[k] = t[k - p] ELSE w[k] \in Blanks
    BY <1>6, <1>7
  <2>2. PICK i \in 1 .. n + 1 :
          /\ i + m - 1 <= n /\ (i = 1 \/ s[i - 1] = Comma)
          /\ i + m - 1 = n \/ s[i + m] = Comma
          /\ \A k \in 1 .. m : s[i + k - 1] = w[k]
    BY <1>7 DEF Item
  <2>3. m \in Nat /\ l >= 1
    BY <1>1, <1>7, LenProperties, EmptySeq DEF Plain
  <2> HIDE DEF m, n, l
  <2> DEFINE a == i + p
             j == i + m - 1
  <2>4. /\ p \in Nat /\ i \in Nat /\ p + l <= m
        /\ i \in 1 .. n /\ j \in i .. n /\ j \in 1 .. n /\ a \in i .. j /\ a \in 1 .. n
        /\ a + l - 1 \in a .. j /\ j + 1 = i + m
    BY <1>1, <2>1, <2>2, <2>3
  <2>5. ASSUME NEW k \in 1 .. l PROVE s[a + k - 1] = t[k]
    <3>1. p + k \in 1 .. m /\ (p + k) - p = k /\ i + (p + k) - 1 = a + k - 1
      BY <1>1, <2>3, <2>4
    <3>2. w[p + k] = t[k]
      BY <2>1, <3>1
    <3> QED  BY <2>2, <3>1, <3>2
  <2>6. ASSUME NEW k \in i .. j, k \in i .. a - 1 \/ k \in a + l .. j PROVE s[k] \in Blanks
    <3>1. k - i + 1 \in 1 .. m /\ (k - i + 1) - p \notin 1 .. l /\ i + (k - i + 1) - 1 = k
      BY <1>1, <2>3, <2>4, <2>6
    <3>2. w[k - i + 1] \in Blanks
      BY <2>1, <3>1
    <3> QED  BY <2>2, <3>1, <3>2
  <2>7. \A k : (k \in i .. a - 1 \/ k \in a + l .. j) => k \in i .. j
    BY <1>1, <2>3, <2>4
  <2> HIDE DEF a
  <2>8. Sits(t, s, i, a, j)
    BY <2>2, <2>4, <2>5, <2>6, <2>7 DEF Sits, n, l
  <2> QED  BY <2>4, <2>8
<1>8. ASSUME Plain(t), NEW i \in 1 .. n, NEW a \in 1 .. n, NEW j \in 1 .. n,
             Sits(t, s, i, a, j)
      PROVE  Named(SubSeq(s, i, j))
  <2> DEFINE w == SubSeq(s, i, j)
             m == Len(w)
             p == a - i
  <2>1. /\ j \in i .. n /\ a \in i .. j /\ a + l - 1 \in a .. j
        /\ i = 1 \/ s[i - 1] = Comma
        /\ j = n \/ s[j + 1] = Comma
        /\ \A k \in 1 .. l : s[a + k - 1] = t[k]
        /\ \A k \in i .. a - 1 : s[k] \in Blanks
        /\ \A k \in a + l .. j : s[k] \in Blanks
    BY <1>8 DEF Sits
  <2>2. w \in Seq(Characters) /\ m = j - i + 1 /\ \A k \in 1 .. m : w[k] = s[i + k - 1]
    BY <1>3, <2>1
  <2> HIDE DEF w, m, n, l
  <2>3. /\ p \in 0 .. m - l /\ i \in 1 .. n + 1 /\ i + m - 1 = j /\ i + m = j + 1
        /\ i + m - 1 <= n /\ m \in Nat
    BY <1>1, <2>1, <2>2
  <2>4. ASSUME NEW k \in 1 .. m
        PROVE  IF k - p \in 1 .. l THEN w[k] = t[k - p] ELSE w[k] \in Blanks
    <3>1. CASE k - p \in 1 .. l
      <4>1. a + (k - p) - 1 = i + k - 1
        BY <1>1, <2>1, <2>3
      <4> QED  BY <2>1, <2>2, <3>1, <4>1
    <3>2. CASE k - p \notin 1 .. l
      <4>1. i + k - 1 \in i .. a - 1 \/ i + k - 1 \in a + l .. j
        BY <1>1, <2>1, <2>3, <3>2
      <4> QED  BY <2>1, <2>2, <3>2, <4>1
    <3> QED  BY <3>1, <3>2
  <2> HIDE DEF p
  <2>5. Padded(w, t)
    BY <1>6, <2>2, <2>3, <2>4 DEF m
  <2>6. Item(w, s, i)
    BY <2>1, <2>2, <2>3 DEF Item, m, n
  <2> QED  BY <2>3, <2>5, <2>6 DEF w, n
<1>9. \A i, a, j \in 1 .. n : Sits(t, s, i, a, j) /\ Plain(t) => Named(SubSeq(s, i, j))
  BY <1>8
<1> HIDE DEF Named, n
<1>10. (\E i, j \in 1 .. n : Named(SubSeq(s, i, j))) /\ Plain(t)
          => \E i, a, j \in 1 .. n : Sits(t, s, i, a, j)
  BY <1>4, <1>7
<1> QED  BY <1>5, <1>9, <1>10 DEF n

-----------------------------------------------------------------------------
(* What a query selects, on a database that takes the backslash for the    *)
(* escape character of LIKE, as PostgreSQL and MySQL do.                   *)

\* A text of a query is taken literally by both kinds of pattern and by lists.
LEMMA LiteralText ==
    ASSUME EscapeChar = Backslash, NEW s \in Texts
    PROVE  Literal(s)
<1>1. s \in Seq(Characters) /\ \A t \in Cells : t \in Seq(Characters)
  BY TextAssumption DEF TextAssumption
<1>2. ASSUME NEW t \in Cells
      PROVE  /\ LikeContaining[t][s] <=> Substring(s, t)
             /\ LikeStarting[t][s] <=> IsPrefix(s, t)
  <2>1. /\ LikeContaining[t][s] = Like(t, Containing(s))
        /\ LikeStarting[t][s] = Like(t, StartingWith(s))
    BY DEF LikeContaining, LikeStarting
  <2> QED  BY <1>1, <2>1, PatternsMatch, StandsIsSubstring
<1>3. \A t \in Cells : t \in Pieces(s) <=> Listed(t, s)
  BY <1>1, PiecesSit, ListedSits
<1> QED  BY <1>2, <1>3 DEF Literal

LEMMA TextsTyped ==
    ASSUME IInv
    PROVE  TextsOfQuery \subseteq Texts
<1>1. q \in Texts /\ \A i \in DOMAIN sent : sent[i].value \in Texts
  BY ElementOfSeq DEF IInv, TypeOK, Texts
<1>2. \A c \in Columns, op \in GraphQLOps : filter[c][op] # NoValue => filter[c][op] \in Texts
  BY DEF IInv, FilterTyped, Texts
<1> QED  BY <1>1, <1>2 DEF TextsOfQuery

\* Whatever the texts of the query and of the cells, the escaped patterns match
\* letter by letter, and a list names its values (_build_single_condition,
\* apply_search, _apply_filter_conditions).
THEOREM TextsAreTakenLiterally ==
    ASSUME EscapeChar = Backslash
    PROVE  Spec => []TextTakenLiterally
<1>1. IInv => TextTakenLiterally
  BY TextsTyped, LiteralText DEF TextTakenLiterally
<1> QED  BY <1>1, Invariance, PTL

\* A cell that is not Null is one of the cells, and its column is the row's.
LEMMA CellTyped ==
    ASSUME NEW row \in TableOfRows, NEW c \in Columns, row[c] # Null
    PROVE  row[c] \in Cells
BY DEF Cells

\* One condition of the REST list asks what its parameter asks.
LEMMA HoldsAsked ==
    ASSUME NEW p \in Params, ~BadOperator(p), ~Ignored(p), Literal(p.value),
           NEW row \in TableOfRows
    PROVE  Holds(p.op, row[p.field], p.value) <=> Asks(p.op, row[p.field], p.value)
<1>1. p.field \in Columns /\ p.op \in ValidOps /\ p.value \in Texts
  BY ParamTyped DEF Texts
<1>2. CASE p.op = "is"
  BY <1>2 DEF Holds, Asks
<1>3. CASE row[p.field] = Null /\ p.op # "is"
  BY <1>3 DEF Holds, Asks
<1>4. CASE row[p.field] # Null /\ p.op \in {"eq", "ne"}
  BY <1>4 DEF Holds, Asks
<1>5. CASE row[p.field] # Null /\ p.op \in {"gt", "gte", "lt", "lte"}
  <2>1. p.value \in DOMAIN Rank /\ row[p.field] \in DOMAIN Rank
    BY <1>1, <1>5, RankAssumption DEF RankAssumption
  <2> DEFINE cell == row[p.field]
             a == Rank[cell]
             b == Rank[p.value]
  <2>2. a \in Nat /\ b \in Nat /\ (a = b <=> cell = p.value)
    BY <2>1, RankAssumption DEF RankAssumption
  <2>3. /\ p.op = "gt"  => (Holds(p.op, cell, p.value) <=> a > b)
        /\ p.op = "gte" => (Holds(p.op, cell, p.value) <=> a >= b)
        /\ p.op = "lt"  => (Holds(p.op, cell, p.value) <=> a < b)
        /\ p.op = "lte" => (Holds(p.op, cell, p.value) <=> a <= b)
        /\ Asks(p.op, cell, p.value) <=>
              \/ p.op \in {"gte", "lte"} /\ cell = p.value
              \/ p.op \in {"gt", "gte"} /\ b < a
              \/ p.op \in {"lt", "lte"} /\ a < b
    BY <1>5 DEF Holds, Asks
  <2> HIDE DEF a, b, cell
  <2>4. Holds(p.op, cell, p.value) <=> Asks(p.op, cell, p.value)
    BY <1>5, <2>2, <2>3
  <2> QED  BY <2>4 DEF cell
<1>6. CASE row[p.field] # Null /\ p.op \in {"like", "in"}
  <2>1. row[p.field] \in Cells
    BY <1>1, <1>6, CellTyped
  <2>2. /\ LikeContaining[row[p.field]][p.value] <=> Substring(p.value, row[p.field])
        /\ row[p.field] \in Pieces(p.value) <=> Listed(row[p.field], p.value)
    BY <2>1 DEF Literal
  <2> QED  BY <1>6, <2>2 DEF Holds, Asks
<1> QED  BY <1>1, <1>2, <1>3, <1>4, <1>5, <1>6 DEF ValidOps

\* One operator of a GraphQL filter asks what it is meant to.
LEMMA OpAsked ==
    ASSUME NEW f \in Fields, Literal(f.value), NEW row \in TableOfRows
    PROVE  OpHolds(f.op, row[f.field], f.value) <=> Asks(f.op, row[f.field], f.value)
<1>1. f.field \in Columns /\ f.op \in GraphQLOps /\ f.value \in Texts
  BY FilterAssumption DEF FilterAssumption, Texts
<1>2. CASE row[f.field] = Null
  BY <1>1, <1>2 DEF OpHolds, Asks, GraphQLOps
<1>3. CASE row[f.field] # Null /\ f.op = "eq"
  BY <1>3 DEF OpHolds, Asks
<1>4. CASE row[f.field] # Null /\ f.op \in {"gt", "gte", "lt", "lte"}
  <2>1. f.value \in DOMAIN Rank /\ row[f.field] \in DOMAIN Rank
    BY <1>1, <1>4, RankAssumption DEF RankAssumption
  <2> DEFINE cell == row[f.field]
             a == Rank[cell]
             b == Rank[f.value]
  <2>2. a \in Nat /\ b \in Nat /\ (a = b <=> cell = f.value)
    BY <2>1, RankAssumption DEF RankAssumption
  <2>3. /\ f.op = "gt"  => (OpHolds(f.op, cell, f.value) <=> a > b)
        /\ f.op = "gte" => (OpHolds(f.op, cell, f.value) <=> a >= b)
        /\ f.op = "lt"  => (OpHolds(f.op, cell, f.value) <=> a < b)
        /\ f.op = "lte" => (OpHolds(f.op, cell, f.value) <=> a <= b)
        /\ Asks(f.op, cell, f.value) <=>
              \/ f.op \in {"gte", "lte"} /\ cell = f.value
              \/ f.op \in {"gt", "gte"} /\ b < a
              \/ f.op \in {"lt", "lte"} /\ a < b
    BY <1>4 DEF OpHolds, Asks
  <2> HIDE DEF a, b, cell
  <2>4. OpHolds(f.op, cell, f.value) <=> Asks(f.op, cell, f.value)
    BY <1>4, <2>2, <2>3
  <2> QED  BY <2>4 DEF cell
<1>5. CASE row[f.field] # Null /\ f.op \in {"contains", "startsWith"}
  <2>1. row[f.field] \in Cells
    BY <1>1, <1>5, CellTyped
  <2>2. /\ LikeContaining[row[f.field]][f.value] <=> Substring(f.value, row[f.field])
        /\ LikeStarting[row[f.field]][f.value] <=> IsPrefix(f.value, row[f.field])
    BY <2>1 DEF Literal
  <2> QED  BY <1>5, <2>2 DEF OpHolds, Asks
<1> QED  BY <1>1, <1>2, <1>3, <1>4, <1>5 DEF GraphQLOps

\* The search clause finds the rows that contain the text.
LEMMA FoundSearched ==
    ASSUME TextTakenLiterally, TypeOK, NEW row \in TableOfRows
    PROVE  Found(row) <=> SearchedFor(row)
<1>1. Literal(q)
  BY DEF TextTakenLiterally, TextsOfQuery
<1>2. \A c \in StringColumns :
        row[c] # Null => (LikeContaining[row[c]][q] <=> Substring(q, row[c]))
  BY <1>1, CellTyped, FilterAssumption DEF FilterAssumption, Literal
<1> QED  BY <1>2 DEF Found, SearchedFor

\* A REST list selects what was asked, whatever the order and number of its
\* parameters (parse_filters, apply_filters, apply_search).
THEOREM RestSelects ==
    ASSUME EscapeChar = Backslash
    PROVE  Spec => []RestSelectsWhatWasAsked
<1>1. ASSUME IInv, TextTakenLiterally, status = "ok", NEW row \in TableOfRows
      PROVE  (\A n \in DOMAIN conditions :
                  \E v \in conditions[n].values :
                      Holds(conditions[n].op, row[conditions[n].field], v))
             <=> \A i \in DOMAIN sent : Ignored(sent[i]) \/
                    \E j \in DOMAIN sent :
                        /\ sent[j].field = sent[i].field /\ sent[j].op = sent[i].op
                        /\ ~Ignored(sent[j])
                        /\ Asks(sent[j].op, row[sent[j].field], sent[j].value)
  <2>1. /\ TypeOK /\ Collected
        /\ \A j \in DOMAIN sent :
              sent[j] \in Params /\ ~BadOperator(sent[j]) /\ Literal(sent[j].value)
    BY <1>1, ElementOfSeq DEF IInv, TypeOK, TextTakenLiterally, TextsOfQuery
  <2>2. \A j \in DOMAIN sent : ~Ignored(sent[j]) =>
          (Holds(sent[j].op, row[sent[j].field], sent[j].value)
           <=> Asks(sent[j].op, row[sent[j].field], sent[j].value))
    BY <2>1, HoldsAsked
  <2>3. ASSUME \A n \in DOMAIN conditions :
                  \E v \in conditions[n].values :
                      Holds(conditions[n].op, row[conditions[n].field], v),
               NEW i \in DOMAIN sent, ~Ignored(sent[i])
        PROVE  \E j \in DOMAIN sent :
                  /\ sent[j].field = sent[i].field /\ sent[j].op = sent[i].op
                  /\ ~Ignored(sent[j])
                  /\ Asks(sent[j].op, row[sent[j].field], sent[j].value)
    <3>1. PICK n \in DOMAIN conditions :
            About(sent[i], conditions[n].field, conditions[n].op)
      BY <2>1, <2>3 DEF Collected, CollectedFrom
    <3>2. PICK v \in conditions[n].values :
            Holds(conditions[n].op, row[conditions[n].field], v)
      BY <2>3
    <3>3. PICK j \in DOMAIN sent :
            About(sent[j], conditions[n].field, conditions[n].op) /\ sent[j].value = v
      BY <2>1, <3>2 DEF Collected, CollectedFrom, Given
    <3> QED  BY <2>2, <3>1, <3>2, <3>3 DEF About
  <2>4. ASSUME \A i \in DOMAIN sent : Ignored(sent[i]) \/
                  \E j \in DOMAIN sent :
                      /\ sent[j].field = sent[i].field /\ sent[j].op = sent[i].op
                      /\ ~Ignored(sent[j])
                      /\ Asks(sent[j].op, row[sent[j].field], sent[j].value),
               NEW n \in DOMAIN conditions
        PROVE  \E v \in conditions[n].values :
                  Holds(conditions[n].op, row[conditions[n].field], v)
    <3>1. PICK i \in DOMAIN sent :
            About(sent[i], conditions[n].field, conditions[n].op)
      BY <1>1, Collection
    <3>2. PICK j \in DOMAIN sent :
            /\ About(sent[j], conditions[n].field, conditions[n].op)
            /\ Asks(sent[j].op, row[sent[j].field], sent[j].value)
      BY <2>4, <3>1 DEF About
    <3>3. sent[j].value \in conditions[n].values
      BY <2>1, <3>2 DEF Collected, CollectedFrom, Given, Values
    <3> QED  BY <2>2, <3>2, <3>3 DEF About
  <2> QED  BY <2>3, <2>4
<1>2. IInv /\ TextTakenLiterally => RestSelectsWhatWasAsked
  BY <1>1, FoundSearched DEF RestSelectsWhatWasAsked, RestRows, IInv
<1> QED  BY <1>2, Invariance, TextsAreTakenLiterally, PTL

\* A GraphQL list selects what its filter asks (_apply_filter_conditions).
THEOREM GraphQLSelects ==
    ASSUME EscapeChar = Backslash
    PROVE  Spec => []GraphQLSelectsWhatWasAsked
<1>1. ASSUME IInv, TextTakenLiterally, NEW row \in TableOfRows, NEW c \in Columns, NEW op \in GraphQLOps,
             filter[c][op] # NoValue
      PROVE  OpHolds(op, row[c], filter[c][op]) <=> Asks(op, row[c], filter[c][op])
  <2>1. filter[c][op] \in TextsOfQuery
    BY <1>1 DEF TextsOfQuery
  <2>2. Literal(filter[c][op])
    BY <1>1, <2>1 DEF TextTakenLiterally
  <2> QED  BY <1>1, <2>2, OpAsked DEF IInv, FilterTyped
<1>2. IInv /\ TextTakenLiterally => GraphQLSelectsWhatWasAsked
  BY <1>1, FoundSearched DEF GraphQLSelectsWhatWasAsked, GraphQLRows, IInv
<1> QED  BY <1>2, Invariance, TextsAreTakenLiterally, PTL
=============================================================================
