--------------------------- MODULE ListingProofs ---------------------------
(***************************************************************************)
(* Theorems about Listing, for every table, every page size, any number of *)
(* writes and every request.  Those about cursors need a single-column     *)
(* key, as the code does (without one there is nothing to order by).       *)
(***************************************************************************)
EXTENDS Listing, FiniteSetTheorems, SequenceTheorems, WellFoundedInduction, TLAPS

-----------------------------------------------------------------------------
(* Sets of numbers in ascending order.                                     *)

\* Every set of natural numbers that is not empty has a least element.
LEMMA Least ==
    ASSUME NEW S \in SUBSET Nat, S # {}
    PROVE  \E m \in S : \A n \in S : m <= n
<1> DEFINE R == OpToRel(<, Nat)
<1>1. IsWellFoundedOn(R, Nat)
  BY NatLessThanWellFounded
<1>2. \A x, y \in Nat : <<y, x>> \in R <=> y < x
  BY DEF OpToRel
<1> HIDE DEF R
<1>3. PICK x \in S : \A y \in S : <<y, x>> \notin R
  BY <1>1, WFMin
<1>4. \A y \in S : ~(y < x)
  BY <1>2, <1>3
<1> QED  BY <1>4, SMT

\* A bounded one has a greatest element, too.
LEMMA Greatest ==
    ASSUME NEW n \in Nat, NEW S \in SUBSET (1 .. n), S # {}
    PROVE  \E m \in S : \A k \in S : k <= m
<1> DEFINE U == {u \in Nat : \A k \in S : k <= u}
<1>1. n \in U
  OBVIOUS
<1>2. PICK u \in U : \A v \in U : u <= v
  BY <1>1, Least
<1>3. u \in S
  <2>1. SUFFICES ASSUME u \notin S PROVE FALSE
    OBVIOUS
  <2>2. \A k \in S : k <= u - 1
    BY <2>1
  <2>3. u - 1 \in U
    <3>1. PICK k \in S : TRUE
      OBVIOUS
    <3>2. 1 <= k /\ k <= u /\ u \in Nat
      BY <1>2
    <3> QED  BY <2>2, <3>2
  <2> QED  BY <1>2, <2>3
<1> QED  BY <1>2, <1>3

LEMMA Counted ==
    ASSUME NEW n \in Nat, NEW S \in SUBSET (1 .. n)
    PROVE  IsFiniteSet(S) /\ Cardinality(S) \in Nat
<1>1. IsFiniteSet(1 .. n)
  BY FS_Interval
<1>2. IsFiniteSet(S)
  BY <1>1, FS_Subset
<1> QED  BY <1>2, FS_CardinalityType

Climbs(s) == \A i, j \in DOMAIN s : i < j => s[i] < s[j]

\* A set of numbers up to n has an enumeration in ascending order: a smallest
\* set without one would have a greatest element, to be put behind the
\* enumeration of the others.
LEMMA Enumerable ==
    ASSUME NEW n \in Nat, NEW S \in SUBSET (1 .. n)
    PROVE  \E s \in [1 .. Cardinality(S) -> S] : Climbs(s)
<1> DEFINE Bad == {c \in Nat : \E T \in SUBSET (1 .. n) :
                      Cardinality(T) = c /\ ~\E s \in [1 .. Cardinality(T) -> T] : Climbs(s)}
<1>1. \A T \in SUBSET (1 .. n) : IsFiniteSet(T) /\ Cardinality(T) \in Nat
  BY Counted
<1>2. SUFFICES Bad = {}
  BY <1>1
<1>3. SUFFICES ASSUME Bad # {} PROVE FALSE
  OBVIOUS
<1>4. PICK c \in Bad : \A d \in Bad : c <= d
  BY <1>3, Least
<1>5. PICK T \in SUBSET (1 .. n) :
        Cardinality(T) = c /\ ~\E s \in [1 .. Cardinality(T) -> T] : Climbs(s)
  BY <1>4
<1>6. T # {}
  <2>1. SUFFICES ASSUME T = {} PROVE FALSE
    OBVIOUS
  <2>2. <<>> \in [1 .. 0 -> T] /\ Climbs(<<>>)
    BY DEF Climbs
  <2> QED  BY <1>5, <2>1, <2>2, FS_EmptySet
<1>7. PICK m \in T : \A k \in T : k <= m
  BY <1>6, Greatest
<1>8. Cardinality(T \ {m}) = c - 1 /\ c - 1 \in Nat /\ c \in Nat
  <2>1. Cardinality(T \ {m}) = c - 1
    BY <1>1, <1>5, <1>7, FS_RemoveElement
  <2> QED  BY <1>1, <2>1
<1>9. PICK s \in [1 .. c - 1 -> T \ {m}] : Climbs(s)
  <2>1. c - 1 \notin Bad
    BY <1>4, <1>8
  <2> QED  BY <1>8, <2>1
<1> DEFINE t == [i \in 1 .. c |-> IF i = c THEN m ELSE s[i]]
<1>10. t \in [1 .. c -> T]
  BY <1>7, <1>8, <1>9
<1>11. Climbs(t)
  <2>1. SUFFICES ASSUME NEW i \in 1 .. c, NEW j \in 1 .. c, i < j PROVE t[i] < t[j]
    BY DEF Climbs
  <2>2. i \in 1 .. c - 1 /\ t[i] = s[i] /\ s[i] \in T /\ s[i] # m
    BY <1>8, <1>9, <2>1
  <2>3. CASE j = c
    <3>1. t[j] = m /\ s[i] <= m
      BY <1>7, <2>2, <2>3
    <3>2. \A x \in T : x \in Int
      OBVIOUS
    <3>3. s[i] \in Int /\ m \in Int
      BY <1>7, <2>2, <3>2
    <3> HIDE DEF t
    <3> QED  BY <2>2, <3>1, <3>3
  <2>4. CASE j # c
    BY <1>8, <1>9, <2>1, <2>2, <2>4 DEF Climbs
  <2> QED  BY <2>3, <2>4
<1> QED  BY <1>5, <1>10, <1>11

\* What Ascending is: an enumeration of the set, in order and complete.
LEMMA AscendingIs ==
    ASSUME NEW n \in Nat, NEW S \in SUBSET (1 .. n)
    PROVE  /\ Ascending(S) \in Seq(S) /\ Len(Ascending(S)) = Cardinality(S)
           /\ Climbs(Ascending(S))
           /\ ToSet(Ascending(S)) = S
           /\ Cardinality(S) \in Nat /\ IsFiniteSet(S)
<1> DEFINE c == Cardinality(S)
           s == Ascending(S)
<1>1. IsFiniteSet(S) /\ c \in Nat
  BY Counted
<1>2. s \in [1 .. c -> S] /\ Climbs(s)
  <2>1. \E t \in [1 .. c -> S] : \A i, j \in DOMAIN t : i < j => t[i] < t[j]
    BY Enumerable DEF Climbs
  <2> QED  BY <2>1 DEF Ascending, Climbs
<1> HIDE DEF s
<1>3. s \in Seq(S) /\ Len(s) = c
  BY <1>1, <1>2
<1>4. ToSet(s) = S
  <2>1. \A i, j \in 1 .. c : s[i] = s[j] => i = j
    <3>1. \A i \in 1 .. c : s[i] \in Int
      <4>1. \A i \in 1 .. c : s[i] \in S
        BY <1>2
      <4>2. \A x \in S : x \in Int
        OBVIOUS
      <4> QED  BY <4>1, <4>2
    <3> QED  BY <1>1, <1>2, <3>1 DEF Climbs
  <2>2. s \in Injection(1 .. c, S)
    BY <1>2, <2>1 DEF Injection, IsInjective
  <2>3. Cardinality(1 .. c) = c
    BY <1>1, FS_Interval
  <2>4. s \in Surjection(1 .. c, S)
    BY <1>1, <2>2, <2>3, FS_Injection
  <2> QED  BY <1>2, <2>4 DEF Surjection, ToSet
<1> QED  BY <1>1, <1>2, <1>3, <1>4 DEF s

-----------------------------------------------------------------------------
(* One page.                                                               *)

LEMMA UptoIs ==
    ASSUME NEW S, NEW s \in Seq(S), NEW n \in Nat
    PROVE  /\ Upto(s, n) \in Seq(S)
           /\ Len(Upto(s, n)) = IF Len(s) < n THEN Len(s) ELSE n
           /\ \A i \in 1 .. Len(Upto(s, n)) : Upto(s, n)[i] = s[i]
<1> DEFINE m == IF Len(s) < n THEN Len(s) ELSE n
<1>1. m \in Nat /\ m <= Len(s) /\ \A i \in 1 .. m : s[i] \in S
  BY LenProperties, ElementOfSeq
<1>2. /\ SubSeq(s, 1, m) \in Seq(S)
      /\ Len(SubSeq(s, 1, m)) = IF 1 <= m THEN m - 1 + 1 ELSE 0
      /\ \A i \in 1 .. m - 1 + 1 : SubSeq(s, 1, m)[i] = s[1 + i - 1]
  <2> HIDE DEF m
  <2> QED  BY <1>1, SubSeqProperties
<1> QED  BY <1>1, <1>2 DEF Upto

LEMMA ReverseIs ==
    ASSUME NEW S, NEW s \in Seq(S)
    PROVE  /\ Reverse(s) \in Seq(S) /\ Len(Reverse(s)) = Len(s)
           /\ \A i \in 1 .. Len(s) : Reverse(s)[i] = s[Len(s) - i + 1]
<1>1. Len(s) \in Nat /\ \A i \in 1 .. Len(s) : s[Len(s) - i + 1] \in S
  BY LenProperties, ElementOfSeq
<1> QED  BY <1>1 DEF Reverse

LEMMA RowTyped ==
    ASSUME NEW h \in Seq(Rows), NEW i \in DOMAIN h
    PROVE  i \in 1 .. Len(h) /\ h[i].key \in Keys /\ h[i].match \in BOOLEAN
<1>1. DOMAIN h = 1 .. Len(h) /\ h[i] \in Rows
  BY LenProperties, ElementOfSeq
<1>2. \A r \in Rows : r.key \in Keys /\ r.match \in BOOLEAN
  BY DEF Rows
<1> QED  BY <1>1, <1>2

\* The keys of the matching rows.
LEMMA HitsTyped ==
    ASSUME NEW h \in Seq(Rows)
    PROVE  HitsOf(h) \in SUBSET Keys /\ Matches(h) \in SUBSET (1 .. Len(h))
BY RowTyped DEF HitsOf, Matches

\* Matching lists each of them, in scan order; once, if keys are unique.
LEMMA MatchingIs ==
    ASSUME NEW h \in Seq(Rows)
    PROVE  /\ Matching(h) \in Seq(Keys)
           /\ Len(Matching(h)) = Cardinality(Matches(h))
           /\ ToSet(Matching(h)) = HitsOf(h)
           /\ (\A i, j \in DOMAIN h : h[i].key = h[j].key => i = j)
                 => IsInjective(Matching(h))
<1> DEFINE at == Ascending(Matches(h))
<1>1. /\ at \in Seq(Matches(h)) /\ Len(at) = Cardinality(Matches(h)) /\ Climbs(at)
      /\ ToSet(at) = Matches(h)
  BY HitsTyped, LenProperties, AscendingIs
<1> HIDE DEF at
<1>2. \A i \in 1 .. Len(at) : at[i] \in Matches(h) /\ h[at[i]].key \in Keys
  <2>1. \A i \in 1 .. Len(at) : at[i] \in Matches(h)
    BY <1>1, ElementOfSeq
  <2> QED  BY <2>1, RowTyped DEF Matches
<1>3. Matching(h) = [i \in 1 .. Len(at) |-> h[at[i]].key]
  BY <1>1 DEF Matching, at
<1>4. Matching(h) \in Seq(Keys) /\ Len(Matching(h)) = Len(at)
  BY <1>1, <1>2, <1>3
<1>5. ToSet(Matching(h)) = HitsOf(h)
  BY <1>1, <1>3 DEF ToSet, HitsOf
<1>6. ASSUME \A i, j \in DOMAIN h : h[i].key = h[j].key => i = j
      PROVE  IsInjective(Matching(h))
  <2>1. ASSUME NEW i \in 1 .. Len(at), NEW j \in 1 .. Len(at), h[at[i]].key = h[at[j]].key
        PROVE  i = j
    <3>1. at[i] \in DOMAIN h /\ at[j] \in DOMAIN h
      BY <1>2 DEF Matches
    <3>2. at[i] = at[j] /\ at[i] \in Int
      BY <1>6, <2>1, <3>1
    <3> QED  BY <1>1, <3>2 DEF Climbs
  <2> QED  BY <1>3, <2>1 DEF IsInjective
<1> QED  BY <1>1, <1>4, <1>5, <1>6

\* The window is a set of keys; without one there is only scan order.
LEMMA WindowTyped ==
    ASSUME heap \in Seq(Rows)
    PROVE  Window \in SUBSET (1 .. MaxKey)
BY HitsTyped DEF Window, Hits, Keys

LEMMA OrderedTyped ==
    ASSUME heap \in Seq(Rows)
    PROVE  Ordered \in Seq(Keys)
<1>1. Ascending(Window) \in Seq(Window) /\ Window \subseteq Keys
  BY WindowTyped, AscendingIs, ListingAssumption DEF ListingAssumption, Keys
<1>2. Ascending(Window) \in Seq(Keys)
  BY <1>1, SeqMonotonic
<1> QED  BY <1>2, ReverseIs, MatchingIs DEF Ordered

\* In any order the page is a page, no longer than it should be.
LEMMA PageTyped ==
    ASSUME heap \in Seq(Rows), query \in Queries
    PROVE  /\ KeyedPage \in Pages
           /\ Len(KeyedPage.rows) <= query.size
           /\ KeyedPage.more => Len(KeyedPage.rows) = query.size /\ KeyedPage.rows # <<>>
<1> DEFINE o == Ordered
           n == query.size
           fetched == Upto(o, n + 1)
           rows == Upto(fetched, n)
           shown == IF SingleKey /\ ~query.asc THEN Reverse(rows) ELSE rows
<1>1. o \in Seq(Keys) /\ n \in Nat \ {0}
  BY OrderedTyped DEF Queries
<1>2. fetched \in Seq(Keys) /\ Len(fetched) = IF Len(o) < n + 1 THEN Len(o) ELSE n + 1
  BY <1>1, UptoIs
<1>3. rows \in Seq(Keys) /\ Len(rows) = IF Len(fetched) < n THEN Len(fetched) ELSE n
  BY <1>1, <1>2, UptoIs
<1>4. shown \in Seq(Keys) /\ Len(shown) = Len(rows)
  BY <1>3, ReverseIs
<1>5. KeyedPage = [rows |-> shown, more |-> Len(fetched) > n]
  BY DEF KeyedPage
<1> HIDE DEF shown, rows, fetched, n, o
<1>6. KeyedPage.rows = shown /\ KeyedPage.more = (Len(fetched) > n) /\ KeyedPage \in Pages
  BY <1>4, <1>5 DEF Pages
<1>7. Len(o) \in Nat
  BY <1>1, LenProperties
<1>8. Len(shown) <= n /\ (Len(fetched) > n => Len(shown) = n /\ n # 0)
  BY <1>1, <1>2, <1>3, <1>4, <1>7
<1> QED  BY <1>4, <1>6, <1>8 DEF n

\* Place i of the last d of c things, counted from behind.
LEMMA TurnedRound ==
    ASSUME NEW c \in Int, NEW d \in Int, NEW i \in Int
    PROVE  c - (d - i + 1) + 1 = (c - d) + i
OBVIOUS

\* The rows of a page are a stretch of the window's keys in ascending order,
\* from the front or, in a backward page, from the back.
Before == IF query.asc \/ Cardinality(Window) < query.size
          THEN 0 ELSE Cardinality(Window) - query.size

LEMMA PageIsStretch ==
    ASSUME heap \in Seq(Rows), query \in Queries, SingleKey,
           NEW up, up = Ascending(Window), NEW c, c = Cardinality(Window),
           NEW n, n = query.size, NEW d, d = IF c < n THEN c ELSE n
    PROVE  /\ c \in Nat /\ n \in Nat \ {0} /\ d \in Nat /\ Before \in Nat /\ Before + d <= c
           /\ Len(KeyedPage.rows) = d
           /\ \A i \in 1 .. d : KeyedPage.rows[i] = up[Before + i]
           /\ KeyedPage.more <=> d < c
<1>1. /\ up \in Seq(Window) /\ Len(up) = c /\ c \in Nat
  BY WindowTyped, AscendingIs, ListingAssumption DEF ListingAssumption
<1>2. n \in Nat \ {0}
  BY DEF Queries
<1>3. Ordered = IF query.asc THEN up ELSE Reverse(up)
  BY DEF Ordered
<1> DEFINE o == Ordered
           at(i) == IF query.asc THEN i ELSE c - i + 1
<1>4. o \in Seq(Window) /\ Len(o) = c /\ \A i \in 1 .. c : o[i] = up[at(i)]
  BY <1>1, <1>3, ReverseIs
<1> DEFINE fetched == Upto(o, n + 1)
           rows == Upto(fetched, n)
<1>5. /\ fetched \in Seq(Window) /\ Len(fetched) = IF c < n + 1 THEN c ELSE n + 1
      /\ \A i \in 1 .. Len(fetched) : fetched[i] = o[i]
  <2> HIDE DEF o
  <2> QED  BY <1>2, <1>4, UptoIs
<1>6. /\ rows \in Seq(Window) /\ Len(rows) = IF Len(fetched) < n THEN Len(fetched) ELSE n
      /\ \A i \in 1 .. Len(rows) : rows[i] = fetched[i]
  <2> HIDE DEF fetched
  <2> QED  BY <1>2, <1>5, UptoIs
<1>7. /\ Len(rows) = d /\ (Len(fetched) > n <=> d < c) /\ d \in Nat /\ d <= c
      /\ \A i \in 1 .. d : rows[i] = up[at(i)]
  <2> HIDE DEF rows, fetched, o, at
  <2>1. /\ Len(rows) = d /\ (Len(fetched) > n <=> d < c) /\ d \in Nat /\ d <= c
        /\ d <= Len(fetched)
    BY <1>1, <1>2, <1>5, <1>6
  <2> QED  BY <1>1, <1>2, <1>4, <1>5, <1>6, <2>1
<1>8. Before \in Nat /\ Before + d <= c /\ (~query.asc => Before = c - d)
      /\ (query.asc => Before = 0)
  BY <1>1, <1>2 DEF Before
<1>9. /\ KeyedPage.rows = IF query.asc THEN rows ELSE Reverse(rows)
      /\ KeyedPage.more = (Len(fetched) > n)
  BY DEF KeyedPage
<1> HIDE DEF rows, fetched, o
<1>10. CASE query.asc
  <2>1. Before = 0 /\ KeyedPage.rows = rows
    BY <1>8, <1>9, <1>10
  <2>2. \A i \in 1 .. d : rows[i] = up[i] /\ 0 + i = i
    BY <1>7, <1>10
  <2>3. \A i \in 1 .. d : KeyedPage.rows[i] = up[Before + i]
    BY <2>1, <2>2
  <2> QED  BY <1>1, <1>2, <1>7, <1>8, <1>9, <2>1, <2>3
<1>11. CASE ~query.asc
  <2>0. c \in Int /\ d \in Int /\ Len(rows) = d
    BY <1>1, <1>7
  <2>1. \A i \in 1 .. d : Reverse(rows)[i] = rows[d - i + 1] /\ d - i + 1 \in 1 .. d
    <3>1. \A i \in 1 .. Len(rows) : Reverse(rows)[i] = rows[Len(rows) - i + 1]
      BY <1>6, ReverseIs
    <3>2. \A i \in 1 .. d : d - i + 1 \in 1 .. d
      BY <2>0
    <3> QED  BY <2>0, <3>1, <3>2
  <2>2. \A i \in 1 .. d : Reverse(rows)[i] = up[c - (d - i + 1) + 1]
    BY <1>7, <1>11, <2>1
  <2>3. \A i \in 1 .. d : c - (d - i + 1) + 1 = Before + i
    <3>1. Before = c - d
      BY <1>8, <1>11
    <3>2. \A i \in 1 .. d : c - (d - i + 1) + 1 = (c - d) + i
      <4>1. \A i \in 1 .. d : i \in Int
        OBVIOUS
      <4> QED  BY <2>0, <4>1, TurnedRound
    <3> QED  BY <3>1, <3>2
  <2>4. \A i \in 1 .. d : Reverse(rows)[i] = up[Before + i]
    BY <2>2, <2>3
  <2>5. Len(Reverse(rows)) = d
    BY <1>6, <1>7, ReverseIs
  <2> QED  BY <1>1, <1>2, <1>7, <1>8, <1>9, <1>11, <2>4, <2>5
<1> QED  BY <1>10, <1>11

\* With a single key a page shows, in key order, the rows of the part of the
\* window it has looked at; it announces more if some of the window is beyond.
LEMMA PageIs ==
    ASSUME heap \in Seq(Rows), query \in Queries, SingleKey
    PROVE  /\ Climbs(KeyedPage.rows)
           /\ ToSet(KeyedPage.rows) = Hits \cap Glanced(KeyedPage)
           /\ KeyedPage.more <=> \E k \in Window : k \notin Glanced(KeyedPage)
<1> DEFINE up == Ascending(Window)
           n == query.size
           c == Cardinality(Window)
           d == IF c < n THEN c ELSE n
           b == Before
           p == KeyedPage
           rest == {k \in Keys : query.lo < k /\ k < query.hi}
<1>1. /\ up \in Seq(Window) /\ Len(up) = c /\ Climbs(up) /\ ToSet(up) = Window
      /\ Window \subseteq Keys
  BY WindowTyped, AscendingIs, ListingAssumption DEF ListingAssumption, Keys
<1>2. /\ c \in Nat /\ n \in Nat \ {0} /\ d \in Nat /\ b \in Nat /\ b + d <= c
      /\ Len(p.rows) = d
      /\ \A i \in 1 .. d : p.rows[i] = up[b + i]
      /\ p.more <=> d < c
  BY PageIsStretch
<1>3. (query.asc => b = 0) /\ (~query.asc => b = c - d) /\ d = (IF c < n THEN c ELSE n)
  BY <1>2 DEF Before
<1>4. p.rows \in Seq(Keys)
  BY PageTyped DEF Pages
<1>5. Window = Hits \cap rest
  BY <1>1 DEF Window
<1>6. Glanced(p) = IF ~p.more THEN rest
                   ELSE IF query.asc THEN {k \in rest : k <= p.rows[d]}
                        ELSE {k \in rest : k >= p.rows[1]}
  BY <1>2 DEF Glanced
<1> HIDE DEF up, n, c, d, b, p, rest
<1>7. /\ \A i \in 1 .. c : up[i] \in Window /\ up[i] \in Int
      /\ \A k \in Window : \E i \in 1 .. c : up[i] = k
      /\ \A i, j \in 1 .. c : i < j => up[i] < up[j]
  <2>1. \A i \in 1 .. c : up[i] \in Window
    BY <1>1, ElementOfSeq
  <2>2. \A k \in Window : k \in Int
    BY <1>1 DEF Keys
  <2> QED  BY <1>1, <2>1, <2>2, LenProperties DEF ToSet, Climbs
<1>8. Climbs(p.rows)
  <2>1. \A i, j \in 1 .. d : i < j => b + i \in 1 .. c /\ b + j \in 1 .. c /\ b + i < b + j
    BY <1>2
  <2> QED  BY <1>2, <1>4, <1>7, <2>1, LenProperties DEF Climbs
<1>9. \A k \in Window : k \in ToSet(p.rows) <=> k \in Glanced(p)
  <2>1. \A k : k \in ToSet(p.rows) <=> \E i \in 1 .. d : up[b + i] = k
    BY <1>2, <1>4, LenProperties DEF ToSet
  <2>0. \A i, k \in 1 .. c : up[i] <= up[k] <=> i <= k
    <3>1. ASSUME NEW i \in 1 .. c, NEW k \in 1 .. c PROVE up[i] <= up[k] <=> i <= k
      <4>1. /\ up[i] \in Int /\ up[k] \in Int /\ i \in Int /\ k \in Int
            /\ i < k => up[i] < up[k]
            /\ k < i => up[k] < up[i]
        BY <1>2, <1>7
      <4>2. i = k => up[i] = up[k]
        OBVIOUS
      <4> QED  BY <4>1, <4>2
    <3> QED  BY <3>1
  <2>2. SUFFICES ASSUME NEW j \in 1 .. c
                 PROVE  (\E i \in 1 .. d : up[b + i] = up[j]) <=> up[j] \in Glanced(p)
    BY <1>7, <2>1
  <2>3. \A i \in 1 .. d : b + i \in 1 .. c
    BY <1>2
  <2>4. (\E i \in 1 .. d : up[b + i] = up[j]) <=> j \in b + 1 .. b + d
    <3>1. \A i \in 1 .. c : up[i] = up[j] => i = j
      BY <1>7
    <3>2. j \in b + 1 .. b + d => j - b \in 1 .. d /\ b + (j - b) = j
      BY <1>2
    <3>3. \A i \in 1 .. d : b + i \in b + 1 .. b + d
      BY <1>2
    <3> QED  BY <2>3, <3>1, <3>2, <3>3
  <2>5. up[j] \in rest
    BY <1>5, <1>7
  <2>6. CASE ~p.more
    BY <1>2, <1>3, <1>6, <2>4, <2>5, <2>6
  <2>7. CASE p.more /\ query.asc
    <3>1. d \in 1 .. c /\ p.rows[d] = up[d] /\ b = 0
      BY <1>2, <1>3, <2>7
    <3>2. up[j] \in Glanced(p) <=> up[j] <= up[d]
      BY <1>6, <2>5, <2>7, <3>1
    <3>3. up[j] <= up[d] <=> j <= d
      BY <2>0, <3>1
    <3> QED  BY <1>2, <2>4, <3>1, <3>2, <3>3
  <2>8. CASE p.more /\ ~query.asc
    <3>1. b + 1 \in 1 .. c /\ p.rows[1] = up[b + 1] /\ b + d = c
      BY <1>2, <1>3, <2>8
    <3>2. up[j] \in Glanced(p) <=> up[b + 1] <= up[j]
      BY <1>6, <1>7, <2>5, <2>8, <3>1
    <3>3. up[b + 1] <= up[j] <=> b + 1 <= j
      BY <2>0, <3>1
    <3>4. j \in b + 1 .. b + d <=> b + 1 <= j
      BY <1>2, <3>1
    <3> QED  BY <2>4, <3>2, <3>3, <3>4
  <2> QED  BY <2>6, <2>7, <2>8
<1>10. ToSet(p.rows) \subseteq Window
  <2>1. \A i \in 1 .. d : b + i \in 1 .. c
    BY <1>2
  <2>2. \A i \in 1 .. d : p.rows[i] \in Window
    BY <1>2, <1>7, <2>1
  <2>3. DOMAIN p.rows = 1 .. d
    BY <1>2, <1>4, LenProperties
  <2> QED  BY <2>2, <2>3 DEF ToSet
<1>11. Glanced(p) \subseteq rest
  BY <1>6
<1>12. p.more <=> \E k \in Window : k \notin Glanced(p)
  <2>1. CASE ~p.more
    BY <1>5, <1>6, <2>1
  <2>2. CASE p.more /\ query.asc
    <3>1. d \in 1 .. c /\ p.rows[d] = up[d] /\ c \in 1 .. c /\ d < c
      BY <1>2, <1>3, <2>2
    <3>2. up[d] < up[c] /\ up[c] \in Window /\ up[c] \in Int /\ up[d] \in Int
      BY <1>7, <3>1
    <3> QED  BY <1>6, <2>2, <3>1, <3>2
  <2>3. CASE p.more /\ ~query.asc
    <3>1. b + 1 \in 1 .. c /\ p.rows[1] = up[b + 1] /\ 1 \in 1 .. c /\ 1 < b + 1
      BY <1>2, <1>3, <2>3
    <3>2. up[1] < up[b + 1] /\ up[1] \in Window /\ up[1] \in Int /\ up[b + 1] \in Int
      BY <1>7, <3>1
    <3> QED  BY <1>6, <2>3, <3>1, <3>2
  <2> QED  BY <2>1, <2>2, <2>3
<1>13. ToSet(p.rows) = Hits \cap Glanced(p)
  BY <1>5, <1>9, <1>10, <1>11
<1> QED  BY <1>8, <1>12, <1>13 DEF p

-----------------------------------------------------------------------------
(* From a request to the query it becomes.                                 *)

Requests == RestRequests \cup RelayRequests

LEMMA ClampIs ==
    ASSUME NEW n \in Int
    PROVE  Clamp(n) \in 1 .. MaxSize /\ (n \in 1 .. MaxSize => Clamp(n) = n)
BY ListingAssumption DEF ListingAssumption, Clamp

\* The numbers a request gives, or their defaults.
LEMMA GivenIs ==
    ASSUME NEW p \in Numbers, NEW default \in Int
    PROVE  Given(p, default) \in Int
BY DEF Given, Numbers

\* Where there is no cursor a query starts, or ends, at the edge; only a page by
\* cursor goes down, and in REST it is not counted.
Anchored(q) ==
    /\ q.mode = "relay" /\ ~q.cursor => q.lo = 0
    /\ q.mode = "offset" => q.asc
    /\ q.mode = "cursor" => ~q.counted
    /\ q.mode = "cursor" => IF q.asc THEN q.hi = MaxKey + 1 ELSE q.lo = 0 /\ q.cursor

LEMMA CursorQueryTyped ==
    ASSUME NEW r \in RestRequests, ~BadNumber(r), UseCursor(r), ~BadCursor(r)
    PROVE  CursorQuery(r) \in Queries /\ Anchored(CursorQuery(r))
<1>1. r.limit \in Numbers
  BY DEF BadNumber, RestRequests
<1>2. Clamp(Given(r.limit, DefaultSize)) \in 1 .. MaxSize
  BY <1>1, GivenIs, ClampIs, ListingAssumption DEF ListingAssumption
<1>3. r.starting_after \in Cursors /\ r.ending_before \in Cursors
  BY DEF RestRequests
<1>4. Forward(r) => r.starting_after \in Keys
  BY <1>3 DEF Forward, BadCursor, Cursors
<1>5. Backward(r) => r.ending_before \in Keys
  BY <1>3 DEF Backward, BadCursor, Cursors
<1>6. /\ (IF Forward(r) THEN r.starting_after ELSE 0) \in 0 .. MaxKey
      /\ (IF Backward(r) THEN r.ending_before ELSE MaxKey + 1) \in 1 .. MaxKey + 1
  BY <1>4, <1>5, ListingAssumption DEF ListingAssumption, Keys
<1>7. Forward(r) \in BOOLEAN /\ Backward(r) \in BOOLEAN /\ ~(Forward(r) /\ Backward(r))
  BY DEF Forward, Backward
<1>8. CursorQuery(r) \in Queries
  BY <1>2, <1>6, <1>7 DEF CursorQuery, Queries
<1>9. Anchored(CursorQuery(r))
  <2>1. CASE Backward(r)
    BY <1>7, <2>1 DEF CursorQuery, Anchored
  <2>2. CASE ~Backward(r)
    BY <1>7, <2>2 DEF CursorQuery, Anchored
  <2> QED  BY <2>1, <2>2
<1> QED  BY <1>8, <1>9

LEMMA OffsetQueryTyped ==
    ASSUME NEW r \in RestRequests, ~BadNumber(r)
    PROVE  OffsetQuery(r) \in Queries /\ Anchored(OffsetQuery(r))
<1>1. r.page \in Numbers /\ r.page_size \in Numbers /\ r.with_total \in BOOLEAN
  BY DEF BadNumber, RestRequests
<1>2. Given(r.page, 1) \in Int /\ Given(r.page_size, DefaultSize) \in Int
  <2>1. 1 \in Int /\ DefaultSize \in Int
    BY ListingAssumption DEF ListingAssumption
  <2> QED  BY <1>1, <2>1, GivenIs
<1> DEFINE p == Given(r.page, 1)
           n == Given(r.page_size, DefaultSize)
<1>3. Clamp(n) \in 1 .. MaxSize
  BY <1>2, ClampIs
<1>4. OffsetQuery(r) =
        [mode |-> "offset", size |-> Clamp(n), page |-> IF p < 1 THEN 1 ELSE p,
         counted |-> r.with_total, asc |-> TRUE, cursor |-> FALSE, lo |-> 0, hi |-> MaxKey + 1]
  BY DEF OffsetQuery
<1> HIDE DEF p, n
<1>5. (IF p < 1 THEN 1 ELSE p) \in Nat \ {0}
  BY <1>2 DEF p
<1>6. 0 \in 0 .. MaxKey /\ MaxKey + 1 \in 1 .. MaxKey + 1
  BY ListingAssumption DEF ListingAssumption
<1> QED  BY <1>1, <1>3, <1>4, <1>5, <1>6 DEF Queries, Anchored

LEMMA RelayQueryTyped ==
    ASSUME NEW r \in RelayRequests
    PROVE  RelayQuery(r) \in Queries /\ Anchored(RelayQuery(r))
<1> DEFINE forward == r.first # NoParam \/ r.last = NoParam
           n == Given(IF forward THEN r.first ELSE r.last, 0)
           lo == IF SingleKey /\ r.after \in Keys THEN r.after ELSE 0
           hi == IF SingleKey /\ r.before \in Keys THEN r.before ELSE MaxKey + 1
           size == Clamp(IF n = 0 THEN DefaultSize ELSE n)
           cursor == r.after \notin {NoParam, Empty}
<1>1. r.first \in Numbers /\ r.last \in Numbers
  BY DEF RelayRequests
<1>2. n \in Int
  BY <1>1, GivenIs
<1>3. size \in 1 .. MaxSize
  <2> HIDE DEF n
  <2>1. (IF n = 0 THEN DefaultSize ELSE n) \in Int
    BY <1>2, ListingAssumption DEF ListingAssumption
  <2> QED  BY <2>1, ClampIs
<1>4. lo \in 0 .. MaxKey /\ hi \in 1 .. MaxKey + 1
  BY ListingAssumption DEF ListingAssumption, Keys
<1>5. ~cursor => lo = 0
  BY MarkersAssumption DEF MarkersAssumption, Keys
<1>6. RelayQuery(r) =
        [mode |-> "relay", size |-> size, page |-> 1, counted |-> TRUE, asc |-> forward,
         cursor |-> cursor, lo |-> lo, hi |-> hi]
  BY DEF RelayQuery
<1>7. forward \in BOOLEAN /\ cursor \in BOOLEAN
  OBVIOUS
<1> HIDE DEF forward, n, lo, hi, size, cursor
<1> QED  BY <1>3, <1>4, <1>5, <1>6, <1>7 DEF Queries, Anchored

\* A request that is not refused becomes a query.
LEMMA QueryTyped ==
    ASSUME NEW r \in Requests, ~Rejected(r)
    PROVE  QueryOf(r) \in Queries /\ Anchored(QueryOf(r))
<1>1. CASE r \in RestRequests
  <2>1. r.api = "rest"
    BY <1>1 DEF RestRequests
  <2> QED  BY <1>1, <2>1, CursorQueryTyped, OffsetQueryTyped DEF QueryOf, Rejected
<1>2. CASE r \in RelayRequests
  <2>1. r.api = "relay"
    BY <1>2 DEF RelayRequests
  <2> QED  BY <1>2, <2>1, RelayQueryTyped DEF QueryOf
<1> QED  BY <1>1, <1>2 DEF Requests

-----------------------------------------------------------------------------
(* From an answer to the request that follows it.                          *)

LEMMA ReplyTyped ==
    ASSUME reply \in Replies
    PROVE  /\ reply.after \in Keys \cup {NoParam} /\ reply.before \in Keys \cup {NoParam}
           /\ reply.rows \in Seq(Keys) /\ reply.has_next \in BOOLEAN
           /\ reply.has_prev \in BOOLEAN /\ reply.total \in 0 .. MaxKey
BY DEF Replies

LEMMA QueryFields ==
    ASSUME query \in Queries
    PROVE  /\ query.mode \in {"offset", "cursor", "relay"} /\ query.size \in 1 .. MaxSize
           /\ query.page \in Nat \ {0} /\ query.counted \in BOOLEAN
           /\ query.asc \in BOOLEAN /\ query.cursor \in BOOLEAN
           /\ query.lo \in 0 .. MaxKey /\ query.hi \in 1 .. MaxKey + 1
           /\ query # NoQuery
BY MarkersAssumption DEF Queries, MarkersAssumption

\* The way up by cursor: from behind the last row, as large a page, upwards.
LEMMA UpCursor ==
    ASSUME query \in Queries, reply \in Replies, MoreAbove, query.mode = "cursor"
    PROVE  /\ Up \in RestRequests /\ ~Rejected(Up) /\ reply.after \in Keys
           /\ SingleKey => QueryOf(Up) =
                 [mode |-> "cursor", size |-> query.size, page |-> 1, counted |-> FALSE,
                  asc |-> TRUE, cursor |-> TRUE, lo |-> reply.after, hi |-> MaxKey + 1]
<1>1. /\ Up = [NoRest EXCEPT !.limit = query.size, !.starting_after = reply.after]
      /\ reply.after \in Keys
  BY QueryFields, ReplyTyped DEF Up, MoreAbove
<1>2. Up = [api |-> "rest", page |-> NoParam, page_size |-> NoParam, limit |-> query.size,
            starting_after |-> reply.after, ending_before |-> NoParam, with_total |-> TRUE]
  BY <1>1 DEF NoRest
<1>3. /\ query.size \in Int /\ query.size \in 1 .. MaxSize
      /\ query.size # NoParam /\ query.size # Junk
      /\ reply.after # NoParam /\ reply.after # Junk /\ reply.after # Empty
  BY <1>1, QueryFields, MarkersAssumption DEF MarkersAssumption, Keys
<1>4. Up \in RestRequests
  <2>1. /\ query.size \in Numbers \cup {Junk} /\ NoParam \in Numbers \cup {Junk}
        /\ reply.after \in Cursors /\ NoParam \in Cursors
    BY <1>1, <1>3 DEF Numbers, Cursors
  <2> QED  BY <1>2, <2>1 DEF RestRequests
<1>5. ~Rejected(Up)
  BY <1>2, <1>3, MarkersAssumption
  DEF Rejected, BadNumber, BadCursor, Forward, Backward, MarkersAssumption
<1>6. ASSUME SingleKey
      PROVE  QueryOf(Up) =
                [mode |-> "cursor", size |-> query.size, page |-> 1, counted |-> FALSE,
                 asc |-> TRUE, cursor |-> TRUE, lo |-> reply.after, hi |-> MaxKey + 1]
  <2>1. UseCursor(Up) /\ Forward(Up) /\ ~Backward(Up)
    BY <1>2, <1>3, <1>6 DEF UseCursor, Forward, Backward
  <2>2. Clamp(Given(Up.limit, DefaultSize)) = query.size
    BY <1>2, <1>3, ClampIs DEF Given
  <2> QED  BY <1>2, <2>1, <2>2 DEF QueryOf, CursorQuery
<1> QED  BY <1>1, <1>4, <1>5, <1>6

LEMMA DownCursor ==
    ASSUME query \in Queries, reply \in Replies, MoreBelow, query.mode = "cursor"
    PROVE  /\ Down \in RestRequests /\ ~Rejected(Down) /\ reply.before \in Keys
           /\ SingleKey => QueryOf(Down) =
                 [mode |-> "cursor", size |-> query.size, page |-> 1, counted |-> FALSE,
                  asc |-> FALSE, cursor |-> TRUE, lo |-> 0, hi |-> reply.before]
<1>1. /\ Down = [NoRest EXCEPT !.limit = query.size, !.ending_before = reply.before]
      /\ reply.before \in Keys
  BY QueryFields, ReplyTyped DEF Down, MoreBelow
<1>2. Down = [api |-> "rest", page |-> NoParam, page_size |-> NoParam, limit |-> query.size,
              starting_after |-> NoParam, ending_before |-> reply.before, with_total |-> TRUE]
  BY <1>1 DEF NoRest
<1>3. /\ query.size \in Int /\ query.size \in 1 .. MaxSize
      /\ query.size # NoParam /\ query.size # Junk
      /\ reply.before # NoParam /\ reply.before # Junk /\ reply.before # Empty
  BY <1>1, QueryFields, MarkersAssumption DEF MarkersAssumption, Keys
<1>4. Down \in RestRequests
  <2>1. /\ query.size \in Numbers \cup {Junk} /\ NoParam \in Numbers \cup {Junk}
        /\ reply.before \in Cursors /\ NoParam \in Cursors
    BY <1>1, <1>3 DEF Numbers, Cursors
  <2> QED  BY <1>2, <2>1 DEF RestRequests
<1>5. ~Rejected(Down)
  BY <1>2, <1>3, MarkersAssumption
  DEF Rejected, BadNumber, BadCursor, Forward, Backward, MarkersAssumption
<1>6. ASSUME SingleKey
      PROVE  QueryOf(Down) =
                [mode |-> "cursor", size |-> query.size, page |-> 1, counted |-> FALSE,
                 asc |-> FALSE, cursor |-> TRUE, lo |-> 0, hi |-> reply.before]
  <2>1. UseCursor(Down) /\ ~Forward(Down) /\ Backward(Down)
    BY <1>2, <1>3, <1>6 DEF UseCursor, Forward, Backward
  <2>2. Clamp(Given(Down.limit, DefaultSize)) = query.size
    BY <1>2, <1>3, ClampIs DEF Given
  <2> QED  BY <1>2, <2>1, <2>2 DEF QueryOf, CursorQuery
<1> QED  BY <1>1, <1>4, <1>5, <1>6

\* The way up by Relay cursor keeps the upper edge, if it came that way.
LEMMA UpRelay ==
    ASSUME query \in Queries, reply \in Replies, MoreAbove, query.mode = "relay"
    PROVE  /\ Up \in RelayRequests /\ ~Rejected(Up) /\ reply.after \in Keys /\ reply.has_next
           /\ SingleKey => QueryOf(Up) =
                 [mode |-> "relay", size |-> query.size, page |-> 1, counted |-> TRUE,
                  asc |-> TRUE, cursor |-> TRUE, lo |-> reply.after,
                  hi |-> IF query.asc THEN query.hi ELSE MaxKey + 1]
<1> DEFINE b == IF query.asc THEN Bound(query.hi) ELSE NoParam
<1>1. /\ Up = [NoRelay EXCEPT !.first = query.size, !.after = reply.after, !.before = b]
      /\ reply.after \in Keys /\ reply.has_next
  BY QueryFields, ReplyTyped DEF Up, MoreAbove
<1>2. Up = [api |-> "relay", first |-> query.size, last |-> NoParam,
            after |-> reply.after, before |-> b]
  BY <1>1 DEF NoRelay
<1>3. b \in Keys \cup {NoParam}
      /\ (IF b \in Keys THEN b ELSE MaxKey + 1) = IF query.asc THEN query.hi ELSE MaxKey + 1
  BY QueryFields, ListingAssumption, MarkersAssumption
  DEF Bound, Keys, ListingAssumption, MarkersAssumption
<1> HIDE DEF b
<1>4. /\ query.size \in Int /\ query.size \in 1 .. MaxSize /\ query.size # 0
      /\ query.size # NoParam /\ reply.after # NoParam /\ reply.after # Empty
  BY <1>1, QueryFields, MarkersAssumption DEF MarkersAssumption, Keys
<1>5. Up \in RelayRequests
  <2>1. /\ query.size \in Numbers /\ NoParam \in Numbers
        /\ reply.after \in Cursors /\ b \in Cursors
    BY <1>1, <1>3, <1>4 DEF Numbers, Cursors
  <2> QED  BY <1>2, <2>1 DEF RelayRequests
<1>6. ~Rejected(Up)
  BY <1>2 DEF Rejected
<1>7. ASSUME SingleKey
      PROVE  QueryOf(Up) =
                [mode |-> "relay", size |-> query.size, page |-> 1, counted |-> TRUE,
                 asc |-> TRUE, cursor |-> TRUE, lo |-> reply.after,
                 hi |-> IF query.asc THEN query.hi ELSE MaxKey + 1]
  <2>1. Given(query.size, 0) = query.size /\ Clamp(query.size) = query.size
    BY <1>4, ClampIs DEF Given
  <2>2. /\ Up.api = "relay" /\ Up.first = query.size /\ Up.after = reply.after /\ Up.before = b
    BY <1>2
  <2> QED  BY <1>1, <1>3, <1>4, <1>7, <2>1, <2>2 DEF QueryOf, RelayQuery
<1> QED  BY <1>1, <1>5, <1>6, <1>7

LEMMA DownRelay ==
    ASSUME query \in Queries, reply \in Replies, MoreBelow, query.mode = "relay"
    PROVE  /\ Down \in RelayRequests /\ ~Rejected(Down) /\ reply.before \in Keys
           /\ reply.has_prev
           /\ SingleKey => \E c \in BOOLEAN : QueryOf(Down) =
                 [mode |-> "relay", size |-> query.size, page |-> 1, counted |-> TRUE,
                  asc |-> FALSE, cursor |-> c,
                  lo |-> IF query.asc THEN 0 ELSE query.lo, hi |-> reply.before]
<1> DEFINE a == IF query.asc THEN NoParam ELSE Bound(query.lo)
<1>1. /\ Down = [NoRelay EXCEPT !.last = query.size, !.before = reply.before, !.after = a]
      /\ reply.before \in Keys /\ reply.has_prev
  BY QueryFields, ReplyTyped DEF Down, MoreBelow
<1>2. Down = [api |-> "relay", first |-> NoParam, last |-> query.size,
              after |-> a, before |-> reply.before]
  BY <1>1 DEF NoRelay
<1>3. a \in Keys \cup {NoParam}
      /\ (IF a \in Keys THEN a ELSE 0) = IF query.asc THEN 0 ELSE query.lo
  BY QueryFields, ListingAssumption, MarkersAssumption
  DEF Bound, Keys, ListingAssumption, MarkersAssumption
<1> HIDE DEF a
<1>4. /\ query.size \in Int /\ query.size \in 1 .. MaxSize /\ query.size # 0
      /\ query.size # NoParam
  BY <1>1, QueryFields, MarkersAssumption DEF MarkersAssumption
<1>5. Down \in RelayRequests
  <2>1. /\ query.size \in Numbers /\ NoParam \in Numbers
        /\ reply.before \in Cursors /\ a \in Cursors
    BY <1>1, <1>3, <1>4 DEF Numbers, Cursors
  <2> QED  BY <1>2, <2>1 DEF RelayRequests
<1>6. ~Rejected(Down)
  BY <1>2 DEF Rejected
<1>7. ASSUME SingleKey
      PROVE  QueryOf(Down) =
                [mode |-> "relay", size |-> query.size, page |-> 1, counted |-> TRUE,
                 asc |-> FALSE, cursor |-> a \notin {NoParam, Empty},
                 lo |-> IF query.asc THEN 0 ELSE query.lo, hi |-> reply.before]
  <2>1. Given(query.size, 0) = query.size /\ Clamp(query.size) = query.size
    BY <1>4, ClampIs DEF Given
  <2>2. /\ Down.api = "relay" /\ Down.first = NoParam /\ Down.last = query.size
        /\ Down.after = a /\ Down.before = reply.before
    BY <1>2
  <2> QED  BY <1>1, <1>3, <1>4, <1>7, <2>1, <2>2 DEF QueryOf, RelayQuery
<1>8. (a \notin {NoParam, Empty}) \in BOOLEAN
  OBVIOUS
<1> QED  BY <1>1, <1>5, <1>6, <1>7, <1>8

\* Offset pages are numbered.
LEMMA PagedIs ==
    ASSUME query \in Queries, NEW p \in Int, NEW r,
           r = [api |-> "rest", page |-> p, page_size |-> query.size, limit |-> NoParam,
                starting_after |-> NoParam, ending_before |-> NoParam,
                with_total |-> query.counted]
    PROVE  /\ r \in RestRequests /\ ~Rejected(r)
           /\ QueryOf(r) =
                 [mode |-> "offset", size |-> query.size, page |-> IF p < 1 THEN 1 ELSE p,
                  counted |-> query.counted, asc |-> TRUE, cursor |-> FALSE,
                  lo |-> 0, hi |-> MaxKey + 1]
<1>1. /\ r.api = "rest" /\ r.page = p /\ r.page_size = query.size /\ r.limit = NoParam
      /\ r.starting_after = NoParam /\ r.ending_before = NoParam
      /\ r.with_total = query.counted
  OBVIOUS
<1>2. /\ query.size \in Int /\ query.size \in 1 .. MaxSize /\ query.counted \in BOOLEAN
      /\ query.size # NoParam /\ query.size # Junk /\ p # NoParam /\ p # Junk
  BY QueryFields, MarkersAssumption DEF MarkersAssumption
<1>3. r \in RestRequests
  <2>1. /\ query.size \in Numbers \cup {Junk} /\ p \in Numbers \cup {Junk}
        /\ NoParam \in Numbers \cup {Junk} /\ NoParam \in Cursors
    BY <1>2 DEF Numbers, Cursors
  <2> QED  BY <1>2, <2>1 DEF RestRequests
<1>4. ~UseCursor(r)
  BY <1>1 DEF UseCursor
<1>5. ~Rejected(r)
  BY <1>1, <1>2, <1>4, MarkersAssumption DEF Rejected, BadNumber, BadCursor, MarkersAssumption
<1>6. /\ Given(r.page, 1) = p /\ Given(r.page_size, DefaultSize) = query.size
      /\ Clamp(query.size) = query.size
  BY <1>1, <1>2, ClampIs DEF Given
<1> QED  BY <1>1, <1>3, <1>4, <1>5, <1>6 DEF QueryOf, OffsetQuery

LEMMA UpOffset ==
    ASSUME query \in Queries, reply \in Replies, MoreAbove, query.mode = "offset"
    PROVE  /\ Up \in RestRequests /\ ~Rejected(Up) /\ reply.has_next
           /\ QueryOf(Up) =
                 [mode |-> "offset", size |-> query.size, page |-> query.page + 1,
                  counted |-> query.counted, asc |-> TRUE, cursor |-> FALSE,
                  lo |-> 0, hi |-> MaxKey + 1]
<1>1. Up = [NoRest EXCEPT !.page = query.page + 1, !.page_size = query.size,
                          !.with_total = query.counted] /\ reply.has_next
  BY QueryFields, ReplyTyped DEF Up, MoreAbove
<1>2. Up = [api |-> "rest", page |-> query.page + 1, page_size |-> query.size, limit |-> NoParam,
           starting_after |-> NoParam, ending_before |-> NoParam,
           with_total |-> query.counted]
  BY <1>1 DEF NoRest
<1>3. query.page + 1 \in Int /\ ~(query.page + 1 < 1)
  BY QueryFields
<1> QED  BY <1>1, <1>2, <1>3, PagedIs

LEMMA DownOffset ==
    ASSUME query \in Queries, reply \in Replies, MoreBelow, query.mode = "offset"
    PROVE  /\ Down \in RestRequests /\ ~Rejected(Down)
           /\ QueryOf(Down).mode = "offset" /\ QueryOf(Down).asc
<1>1. Down = [NoRest EXCEPT !.page = query.page - 1, !.page_size = query.size,
                            !.with_total = query.counted]
  BY QueryFields, ReplyTyped DEF Down, MoreBelow
<1>2. Down = [api |-> "rest", page |-> query.page - 1, page_size |-> query.size, limit |-> NoParam,
             starting_after |-> NoParam, ending_before |-> NoParam,
             with_total |-> query.counted]
  BY <1>1 DEF NoRest
<1>3. query.page - 1 \in Int
  BY QueryFields
<1> DEFINE p == query.page - 1
<1>4. /\ Down \in RestRequests /\ ~Rejected(Down)
      /\ QueryOf(Down) =
            [mode |-> "offset", size |-> query.size, page |-> IF p < 1 THEN 1 ELSE p,
             counted |-> query.counted, asc |-> TRUE, cursor |-> FALSE,
             lo |-> 0, hi |-> MaxKey + 1]
  BY <1>2, <1>3, PagedIs
<1> QED  BY <1>4

\* There is a request for the page above, or below, just when one is announced.
LEMMA Announced ==
    ASSUME query \in Queries, reply \in Replies
    PROVE  (Up # NoQuery <=> MoreAbove) /\ (Down # NoQuery <=> MoreBelow)
<1>1. NoQuery \notin RestRequests \cup RelayRequests
  BY MarkersAssumption DEF MarkersAssumption
<1>2. MoreAbove => Up \in RestRequests \cup RelayRequests
  BY QueryFields, UpCursor, UpRelay, UpOffset
<1>3. MoreBelow => Down \in RestRequests \cup RelayRequests
  BY QueryFields, DownCursor, DownRelay, DownOffset
<1>4. (Up # NoQuery => MoreAbove) /\ (Down # NoQuery => MoreBelow)
  BY DEF Up, Down
<1> QED  BY <1>1, <1>2, <1>3, <1>4

\* Whichever way it goes on, the client sends a request that is not refused,
\* and stays with its way of paging.
LEMMA GoesOn ==
    ASSUME query \in Queries \cup {NoQuery}, reply \in Replies,
           NEW r, r \in {Up, Down}, r # NoQuery
    PROVE  /\ query \in Queries /\ r \in Requests /\ ~Rejected(r)
           /\ QueryOf(r) \in Queries /\ Anchored(QueryOf(r))
           /\ SingleKey => QueryOf(r).mode = query.mode
<1>1. query \in Queries /\ (r = Up => MoreAbove) /\ (r = Down => MoreBelow)
  BY DEF Up, Down
<1>2. CASE query.mode = "cursor"
  BY <1>1, <1>2, UpCursor, DownCursor, QueryTyped DEF Requests
<1>3. CASE query.mode = "relay"
  BY <1>1, <1>3, UpRelay, DownRelay, QueryTyped DEF Requests
<1>4. CASE query.mode = "offset"
  BY <1>1, <1>4, UpOffset, DownOffset, QueryTyped DEF Requests
<1> QED  BY <1>1, <1>2, <1>3, <1>4, QueryFields

-----------------------------------------------------------------------------
(* Answers.                                                                *)

LEMMA EdgeTyped ==
    ASSUME NEW rows \in Seq(Keys)
    PROVE  /\ Edge(rows, 1) \in Keys \cup {NoParam}
           /\ Edge(rows, Len(rows)) \in Keys \cup {NoParam}
           /\ rows # <<>> => /\ Len(rows) \in Nat \ {0}
                             /\ Edge(rows, 1) = rows[1] /\ rows[1] \in Keys
                             /\ Edge(rows, Len(rows)) = rows[Len(rows)]
                             /\ rows[Len(rows)] \in Keys
                             /\ rows[1] \in ToSet(rows) /\ rows[Len(rows)] \in ToSet(rows)
<1>1. CASE rows = <<>>
  BY <1>1 DEF Edge
<1>2. CASE rows # <<>>
  <2>1. Len(rows) \in Nat \ {0} /\ DOMAIN rows = 1 .. Len(rows)
    BY <1>2, EmptySeq, LenProperties
  <2>2. 1 \in 1 .. Len(rows) /\ Len(rows) \in 1 .. Len(rows)
    BY <2>1
  <2>3. rows[1] \in Keys /\ rows[Len(rows)] \in Keys
    BY <2>2, ElementOfSeq
  <2>4. rows[1] \in ToSet(rows) /\ rows[Len(rows)] \in ToSet(rows)
    BY <2>1, <2>2 DEF ToSet
  <2> QED  BY <1>2, <2>1, <2>3, <2>4 DEF Edge
<1> QED  BY <1>1, <1>2

\* A page by offset: the stretch of the matching rows behind the skipped ones.
Skip == (query.page - 1) * query.size

LEMMA OffsetPageIs ==
    ASSUME heap \in Seq(Rows), query \in Queries,
           NEW hits, hits = Matching(heap), NEW n, n = Len(hits)
    PROVE  /\ n \in Nat /\ Skip \in Nat /\ OffsetPage \in Seq(Keys)
           /\ Len(OffsetPage) = IF Skip + query.size < n THEN query.size
                                ELSE IF Skip < n THEN n - Skip ELSE 0
           /\ Len(OffsetPage) <= query.size
           /\ \A i \in 1 .. Len(OffsetPage) : OffsetPage[i] = hits[Skip + i]
<1>1. hits \in Seq(Keys) /\ n \in Nat
  BY MatchingIs, LenProperties
<1>2. Skip \in Nat
  <2>1. query.page - 1 \in Nat /\ query.size \in Nat
    BY QueryFields
  <2> DEFINE a == query.page - 1
             b == query.size
  <2> HIDE DEF a, b
  <2>2. a \in Nat /\ b \in Nat => a * b \in Nat
    OBVIOUS
  <2> QED  BY <2>1, <2>2 DEF a, b, Skip
<1> DEFINE top == IF Skip + query.size < n THEN Skip + query.size ELSE n
<1>3. top \in Int /\ top <= n /\ query.size \in Nat
  BY <1>1, <1>2, QueryFields
<1>4. OffsetPage = SubSeq(hits, Skip + 1, top)
  BY DEF OffsetPage, Skip
<1>5. \A i \in Skip + 1 .. top : hits[i] \in Keys
  <2>1. \A i \in Skip + 1 .. top : i \in 1 .. n
    BY <1>1, <1>2, <1>3
  <2> QED  BY <1>1, <2>1, ElementOfSeq
<1>6. /\ SubSeq(hits, Skip + 1, top) \in Seq(Keys)
      /\ Len(SubSeq(hits, Skip + 1, top)) =
            IF Skip + 1 <= top THEN top - (Skip + 1) + 1 ELSE 0
      /\ \A i \in 1 .. top - (Skip + 1) + 1 :
            SubSeq(hits, Skip + 1, top)[i] = hits[Skip + 1 + i - 1]
  <2> HIDE DEF top
  <2>1. Skip + 1 \in Int
    BY <1>2
  <2> QED  BY <1>3, <1>5, <2>1, SubSeqProperties
<1>7. Len(OffsetPage) = IF Skip + query.size < n THEN query.size
                        ELSE IF Skip < n THEN n - Skip ELSE 0
  BY <1>1, <1>2, <1>3, <1>4, <1>6
<1>8. \A i \in 1 .. Len(OffsetPage) : OffsetPage[i] = hits[Skip + i]
  <2>1. \A i \in 1 .. Len(OffsetPage) :
           i \in 1 .. top - (Skip + 1) + 1 /\ Skip + 1 + i - 1 = Skip + i
    BY <1>1, <1>2, <1>3, <1>7
  <2> QED  BY <1>4, <1>6, <2>1
<1>9. Len(OffsetPage) <= query.size
  BY <1>1, <1>2, <1>3, <1>7
<1>10. OffsetPage \in Seq(Keys)
  BY <1>4, <1>6
<1> HIDE DEF top
<1> QED  BY <1>1, <1>2, <1>7, <1>8, <1>9, <1>10

LEMMA AnswersTyped ==
    ASSUME query \in Queries, total \in 0 .. MaxKey
    PROVE  /\ \A p \in Pages : CursorReply(p) \in Replies
           /\ \A rows \in Seq(Keys) : OffsetReply(rows) \in Replies
           /\ \A p \in Pages, b \in BOOLEAN : RelayReply(p, b) \in Replies
<1>1. 0 \in 0 .. MaxKey /\ {query.asc, query.cursor, query.counted} \subseteq BOOLEAN
  BY QueryFields, ListingAssumption DEF ListingAssumption
<1>2. ASSUME NEW p \in Pages
      PROVE  /\ p.rows \in Seq(Keys) /\ p.more \in BOOLEAN
             /\ Edge(p.rows, 1) \in Keys \cup {NoParam}
             /\ Edge(p.rows, Len(p.rows)) \in Keys \cup {NoParam}
  BY <1>2, EdgeTyped DEF Pages
<1>3. \A p \in Pages : CursorReply(p) \in Replies
  BY <1>1, <1>2 DEF CursorReply, Replies
<1>4. ASSUME NEW rows \in Seq(Keys)
      PROVE  OffsetReply(rows) \in Replies
  <2>1. HasNext(rows) \in BOOLEAN
    <3>1. CASE query.counted /\ total # 0
      BY <3>1 DEF HasNext
    <3>2. CASE ~(query.counted /\ total # 0)
      BY <3>2 DEF HasNext
    <3> QED  BY <3>1, <3>2
  <2>2. (query.page > 1) \in BOOLEAN
    OBVIOUS
  <2> QED  BY <1>4, <2>1, <2>2 DEF OffsetReply, Replies
<1>5. ASSUME NEW p \in Pages, NEW b \in BOOLEAN
      PROVE  RelayReply(p, b) \in Replies
  <2>1. /\ (IF query.asc THEN p.more ELSE b) \in BOOLEAN
        /\ (IF query.asc THEN query.cursor ELSE p.more) \in BOOLEAN
    BY <1>1, <1>2, <1>5
  <2> QED  BY <1>2, <1>5, <2>1 DEF RelayReply, Replies
<1> QED  BY <1>3, <1>4, <1>5

LEMMA RefusalTyped == Refusal \in Replies
<1>1. 0 \in 0 .. MaxKey /\ <<>> \in Seq(Keys)
  BY ListingAssumption DEF ListingAssumption
<1> QED  BY <1>1 DEF Refusal, Replies

-----------------------------------------------------------------------------
(* The writes of others.                                                   *)

\* Sequence t is s with row e put in at place i.
Inserted(t, s, i, e) ==
    /\ t \in Seq(Rows) /\ Len(t) = Len(s) + 1
    /\ \A j \in 1 .. Len(s) + 1 :
          t[j] = IF j < i THEN s[j] ELSE IF j = i THEN e ELSE s[j - 1]

LEMMA InsertAtIs ==
    ASSUME NEW s \in Seq(Rows), NEW i \in 1 .. Len(s) + 1, NEW e \in Rows
    PROVE  Inserted(InsertAt(s, i, e), s, i, e)
<1> DEFINE n == Len(s)
           a == SubSeq(s, 1, i - 1)
           b == <<e>>
           c == SubSeq(s, i, n)
<1>1. n \in Nat /\ i \in Int /\ 1 <= i /\ i <= n + 1 /\ \A j \in 1 .. n : s[j] \in Rows
  BY LenProperties, ElementOfSeq
<1>2. /\ a \in Seq(Rows) /\ Len(a) = i - 1 /\ \A j \in 1 .. i - 1 : a[j] = s[j]
  <2>1. i - 1 \in Int /\ \A j \in 1 .. i - 1 : s[j] \in Rows
    BY <1>1
  <2>2. /\ a \in Seq(Rows) /\ Len(a) = IF 1 <= i - 1 THEN i - 1 - 1 + 1 ELSE 0
        /\ \A j \in 1 .. i - 1 - 1 + 1 : a[j] = s[1 + j - 1]
    BY <2>1, SubSeqProperties
  <2> HIDE DEF a
  <2> QED  BY <1>1, <2>2
<1>3. /\ c \in Seq(Rows) /\ Len(c) = n - i + 1 /\ \A j \in 1 .. n - i + 1 : c[j] = s[i + j - 1]
  <2>1. \A j \in i .. n : s[j] \in Rows
    BY <1>1
  <2>2. /\ c \in Seq(Rows) /\ Len(c) = IF i <= n THEN n - i + 1 ELSE 0
        /\ \A j \in 1 .. n - i + 1 : c[j] = s[i + j - 1]
    <3> HIDE DEF n
    <3> QED  BY <1>1, <2>1, SubSeqProperties
  <2> HIDE DEF c, n
  <2> QED  BY <1>1, <2>2
<1>4. b \in Seq(Rows) /\ Len(b) = 1 /\ b[1] = e
  OBVIOUS
<1> HIDE DEF a, b, c
<1>5. /\ a \o b \in Seq(Rows) /\ Len(a \o b) = i
      /\ \A j \in 1 .. i : (a \o b)[j] = IF j < i THEN s[j] ELSE e
  <2>1. /\ a \o b \in Seq(Rows) /\ Len(a \o b) = (i - 1) + 1
        /\ \A j \in 1 .. (i - 1) + 1 : (a \o b)[j] = IF j <= i - 1 THEN a[j] ELSE b[j - (i - 1)]
    <3>1. a \o b \in Seq(Rows) /\ Len(a \o b) = Len(a) + Len(b)
      BY <1>2, <1>4, ConcatProperties
    <3>2. \A j \in 1 .. Len(a) + Len(b) :
             (a \o b)[j] = IF j <= Len(a) THEN a[j] ELSE b[j - Len(a)]
      BY <1>2, <1>4, ConcatProperties
    <3>3. Len(a) = i - 1 /\ Len(b) = 1
      BY <1>2, <1>4
    <3> QED  BY <3>1, <3>2, <3>3
  <2> HIDE DEF n
  <2> QED  BY <1>1, <1>2, <1>4, <2>1
<1>6. /\ (a \o b) \o c \in Seq(Rows) /\ Len((a \o b) \o c) = i + (n - i + 1)
      /\ \A j \in 1 .. i + (n - i + 1) :
            ((a \o b) \o c)[j] = IF j <= i THEN (a \o b)[j] ELSE c[j - i]
  <2> HIDE DEF n
  <2> DEFINE d == a \o b
  <2>1. d \in Seq(Rows) /\ Len(d) = i /\ c \in Seq(Rows) /\ Len(c) = n - i + 1
    BY <1>3, <1>5
  <2> HIDE DEF d
  <2>2. d \o c \in Seq(Rows) /\ Len(d \o c) = Len(d) + Len(c)
    BY <2>1, ConcatProperties
  <2>3. \A j \in 1 .. Len(d) + Len(c) :
           (d \o c)[j] = IF j <= Len(d) THEN d[j] ELSE c[j - Len(d)]
    BY <2>1, ConcatProperties
  <2> QED  BY <2>1, <2>2, <2>3 DEF d
<1>7. InsertAt(s, i, e) = (a \o b) \o c
  BY DEF InsertAt, a, b, c
<1> DEFINE t == InsertAt(s, i, e)
<1> HIDE DEF t
<1>8. Len(t) = n + 1 /\ t \in Seq(Rows)
  BY <1>1, <1>6, <1>7 DEF t
<1>9. ASSUME NEW j \in 1 .. n + 1
      PROVE  t[j] = IF j < i THEN s[j] ELSE IF j = i THEN e ELSE s[j - 1]
  <2> HIDE DEF n
  <2>1. t[j] = IF j <= i THEN (a \o b)[j] ELSE c[j - i]
    <3>1. j \in 1 .. i + (n - i + 1)
      BY <1>1
    <3> QED  BY <1>6, <1>7, <3>1 DEF t
  <2>2. CASE j <= i
    BY <1>1, <1>5, <2>1, <2>2
  <2>3. CASE j > i
    <3>1. j - i \in 1 .. n - i + 1 /\ i + (j - i) - 1 = j - 1
      BY <1>1, <2>3
    <3>2. c[j - i] = s[j - 1]
      BY <1>3, <3>1
    <3> QED  BY <1>1, <2>1, <2>3, <3>2
  <2> QED  BY <1>1, <2>2, <2>3
<1>10. Inserted(t, s, i, e)
  BY <1>8, <1>9, Zenon DEF Inserted
<1> QED  BY <1>10 DEF t

LEMMA RemoveAtIs ==
    ASSUME NEW S, NEW s \in Seq(S), NEW i \in 1 .. Len(s)
    PROVE  /\ RemoveAt(s, i) \in Seq(S) /\ Len(RemoveAt(s, i)) = Len(s) - 1
           /\ \A j \in 1 .. Len(s) - 1 :
                 RemoveAt(s, i)[j] = IF j < i THEN s[j] ELSE s[j + 1]
<1> DEFINE n == Len(s)
           a == SubSeq(s, 1, i - 1)
           c == SubSeq(s, i + 1, n)
<1>1. n \in Nat /\ i \in Int /\ 1 <= i /\ i <= n /\ \A j \in 1 .. n : s[j] \in S
  BY LenProperties, ElementOfSeq
<1>2. /\ a \in Seq(S) /\ Len(a) = i - 1 /\ \A j \in 1 .. i - 1 : a[j] = s[j]
  <2>1. i - 1 \in Int /\ \A j \in 1 .. i - 1 : s[j] \in S
    BY <1>1
  <2>2. /\ a \in Seq(S) /\ Len(a) = IF 1 <= i - 1 THEN i - 1 - 1 + 1 ELSE 0
        /\ \A j \in 1 .. i - 1 - 1 + 1 : a[j] = s[1 + j - 1]
    BY <2>1, SubSeqProperties
  <2> HIDE DEF a
  <2> QED  BY <1>1, <2>2
<1>3. /\ c \in Seq(S) /\ Len(c) = n - i /\ \A j \in 1 .. n - i : c[j] = s[i + j]
  <2>1. i + 1 \in Int /\ \A j \in i + 1 .. n : s[j] \in S
    BY <1>1
  <2>2. /\ c \in Seq(S) /\ Len(c) = IF i + 1 <= n THEN n - (i + 1) + 1 ELSE 0
        /\ \A j \in 1 .. n - (i + 1) + 1 : c[j] = s[i + 1 + j - 1]
    <3> HIDE DEF n
    <3> QED  BY <1>1, <2>1, SubSeqProperties
  <2> HIDE DEF c, n
  <2> QED  BY <1>1, <2>2
<1> HIDE DEF a, c
<1>4. /\ a \o c \in Seq(S) /\ Len(a \o c) = (i - 1) + (n - i)
      /\ \A j \in 1 .. (i - 1) + (n - i) :
            (a \o c)[j] = IF j <= i - 1 THEN a[j] ELSE c[j - (i - 1)]
  <2> HIDE DEF n
  <2>1. a \in Seq(S) /\ Len(a) = i - 1 /\ c \in Seq(S) /\ Len(c) = n - i
    BY <1>2, <1>3
  <2>2. a \o c \in Seq(S) /\ Len(a \o c) = Len(a) + Len(c)
    BY <2>1, ConcatProperties
  <2>3. \A j \in 1 .. Len(a) + Len(c) :
           (a \o c)[j] = IF j <= Len(a) THEN a[j] ELSE c[j - Len(a)]
    BY <2>1, ConcatProperties
  <2> QED  BY <2>1, <2>2, <2>3
<1>5. RemoveAt(s, i) = a \o c
  BY DEF RemoveAt, a, c
<1> DEFINE t == RemoveAt(s, i)
<1> HIDE DEF t
<1>6. Len(t) = n - 1 /\ t \in Seq(S)
  BY <1>1, <1>4, <1>5 DEF t
<1>7. ASSUME NEW j \in 1 .. n - 1
      PROVE  t[j] = IF j < i THEN s[j] ELSE s[j + 1]
  <2> HIDE DEF n
  <2>1. t[j] = IF j <= i - 1 THEN a[j] ELSE c[j - (i - 1)]
    <3>1. j \in 1 .. (i - 1) + (n - i)
      BY <1>1
    <3> QED  BY <1>4, <1>5, <3>1 DEF t
  <2>2. CASE j < i
    BY <1>1, <1>2, <2>1, <2>2
  <2>3. CASE j >= i
    <3>1. j - (i - 1) \in 1 .. n - i /\ i + (j - (i - 1)) = j + 1
      BY <1>1, <2>3
    <3>2. c[j - (i - 1)] = s[j + 1]
      BY <1>3, <3>1
    <3> QED  BY <1>1, <2>1, <2>3, <3>2
  <2> QED  BY <1>1, <2>2, <2>3
<1> QED  BY <1>6, <1>7 DEF t

\* A table has every key once; so have all it may become.
Unique(h) == \A i, j \in DOMAIN h : h[i].key = h[j].key => i = j

LEMMA InsertKeeps ==
    ASSUME NEW h \in Seq(Rows), Unique(h), NEW i \in 1 .. Len(h) + 1,
           NEW row \in Rows, row.key \notin KeysOf(h)
    PROVE  InsertAt(h, i, row) \in Seq(Rows) /\ Unique(InsertAt(h, i, row))
<1> DEFINE t == InsertAt(h, i, row)
           n == Len(h)
<1>1. /\ t \in Seq(Rows) /\ Len(t) = n + 1
      /\ \A j \in 1 .. n + 1 : t[j] = IF j < i THEN h[j] ELSE IF j = i THEN row ELSE h[j - 1]
  <2>1. Inserted(InsertAt(h, i, row), h, i, row)
    BY InsertAtIs, Zenon
  <2> QED  BY <2>1, Zenon DEF Inserted
<1> HIDE DEF t
<1>2. n \in Nat /\ DOMAIN h = 1 .. n /\ DOMAIN t = 1 .. n + 1
  BY <1>1, LenProperties
<1>3. \A j \in 1 .. n : h[j].key # row.key
  BY <1>2 DEF KeysOf
<1>4. \A j, k \in 1 .. n : h[j].key = h[k].key => j = k
  BY <1>2 DEF Unique
<1>5. ASSUME NEW j \in 1 .. n + 1, NEW k \in 1 .. n + 1, t[j].key = t[k].key
      PROVE  j = k
  <2> DEFINE old(x) == IF x < i THEN x ELSE x - 1
  <2>1. \A x \in 1 .. n + 1 : x # i => old(x) \in 1 .. n /\ t[x] = h[old(x)]
    BY <1>1, <1>2
  <2>2. t[i] = row
    BY <1>1
  <2> HIDE DEF old, n
  <2>3. j = i <=> k = i
    BY <1>3, <1>5, <2>1, <2>2
  <2>4. CASE j # i
    <3>1. /\ old(j) \in 1 .. n /\ t[j] = h[old(j)]
          /\ old(k) \in 1 .. n /\ t[k] = h[old(k)]
      BY <1>5, <2>1, <2>3, <2>4
    <3>2. old(j) = old(k)
      BY <1>4, <1>5, <3>1
    <3> QED  BY <1>2, <2>3, <2>4, <3>2 DEF old
  <2> QED  BY <2>3, <2>4
<1> QED  BY <1>1, <1>2, <1>5 DEF Unique, t

LEMMA RemoveKeeps ==
    ASSUME NEW h \in Seq(Rows), Unique(h), NEW i \in 1 .. Len(h)
    PROVE  /\ RemoveAt(h, i) \in Seq(Rows) /\ Unique(RemoveAt(h, i))
           /\ h[i].key \notin KeysOf(RemoveAt(h, i))
<1> DEFINE t == RemoveAt(h, i)
           n == Len(h)
           old(x) == IF x < i THEN x ELSE x + 1
<1>1. /\ t \in Seq(Rows) /\ Len(t) = n - 1
      /\ \A j \in 1 .. n - 1 : t[j] = IF j < i THEN h[j] ELSE h[j + 1]
  BY RemoveAtIs
<1> HIDE DEF t
<1>2. n \in Nat /\ DOMAIN h = 1 .. n /\ DOMAIN t = 1 .. n - 1
  BY <1>1, LenProperties
<1>3. \A x \in 1 .. n - 1 : old(x) \in 1 .. n /\ t[x] = h[old(x)] /\ old(x) # i
  BY <1>1, <1>2
<1>4. \A x, y \in 1 .. n - 1 : old(x) = old(y) => x = y
  BY <1>2
<1> HIDE DEF old, n
<1>5. i \in 1 .. n /\ \A j, k \in 1 .. n : h[j].key = h[k].key => j = k
  BY <1>2 DEF Unique, n
<1>6. Unique(t)
  <2>1. ASSUME NEW x \in 1 .. n - 1, NEW y \in 1 .. n - 1, t[x].key = t[y].key
        PROVE  x = y
    <3>1. old(x) = old(y)
      BY <1>3, <1>5, <2>1
    <3> QED  BY <1>4, <3>1
  <2> QED  BY <1>2, <2>1 DEF Unique
<1>7. h[i].key \notin KeysOf(t)
  <2>1. \A x \in 1 .. n - 1 : t[x].key # h[i].key
    BY <1>3, <1>5
  <2> QED  BY <1>2, <2>1 DEF KeysOf
<1> QED  BY <1>1, <1>6, <1>7 DEF t

LEMMA AppendAtEnd ==
    ASSUME NEW h \in Seq(Rows), NEW row \in Rows
    PROVE  InsertAt(h, Len(h) + 1, row) = Append(h, row)
<1>1. SubSeq(h, 1, Len(h) + 1 - 1) = h
  <2>1. Len(h) + 1 - 1 = Len(h)
    BY LenProperties
  <2> QED  BY <2>1, SubSeqFull, Zenon
<1>2. SubSeq(h, Len(h) + 1, Len(h)) = <<>>
  <2>1. Len(h) \in Int /\ Len(h) + 1 \in Int /\ Len(h) < Len(h) + 1
    BY LenProperties
  <2> QED  BY <2>1, SubSeqEmpty
<1>3. h \o <<row>> \in Seq(Rows)
  OBVIOUS
<1>4. (h \o <<row>>) \o <<>> = h \o <<row>>
  BY <1>3, ConcatEmptySeq, Zenon
<1>5. Append(h, row) = h \o <<row>>
  BY AppendIsConcat
<1>6. InsertAt(h, Len(h) + 1, row) =
        (SubSeq(h, 1, Len(h) + 1 - 1) \o <<row>>) \o SubSeq(h, Len(h) + 1, Len(h))
  BY DEF InsertAt
<1> QED  BY <1>1, <1>2, <1>4, <1>5, <1>6

\* A row added at the end, or with its verdict changed.
LEMMA AppendKeeps ==
    ASSUME NEW h \in Seq(Rows), Unique(h), NEW row \in Rows, row.key \notin KeysOf(h)
    PROVE  Append(h, row) \in Seq(Rows) /\ Unique(Append(h, row))
<1>1. Len(h) + 1 \in 1 .. Len(h) + 1
  BY LenProperties
<1> QED  BY <1>1, InsertKeeps, AppendAtEnd

LEMMA ReplaceKeeps ==
    ASSUME NEW h \in Seq(Rows), Unique(h), NEW i \in DOMAIN h,
           NEW row \in Rows, row.key = h[i].key
    PROVE  ReplaceAt(h, i, row) \in Seq(Rows) /\ Unique(ReplaceAt(h, i, row))
<1> DEFINE t == ReplaceAt(h, i, row)
<1>1. i \in 1 .. Len(h) /\ DOMAIN h = 1 .. Len(h)
  BY RowTyped, LenProperties
<1>2. /\ t \in Seq(Rows) /\ Len(t) = Len(h)
      /\ \A j \in 1 .. Len(h) : t[j] = IF j = i THEN row ELSE h[j]
  BY <1>1, ExceptSeq DEF ReplaceAt
<1> HIDE DEF t
<1>3. DOMAIN t = DOMAIN h /\ \A j \in DOMAIN h : t[j].key = h[j].key
  BY <1>1, <1>2, LenProperties
<1>4. Unique(t)
  BY <1>3 DEF Unique
<1> QED  BY <1>2, <1>4 DEF t

\* Every write leaves a table of rows with different keys; the only ones that
\* keep scan order as it is append a row with a new key.
LEMMA WritesKeep ==
    ASSUME heap \in Seq(Rows), Unique(heap), Insert \/ Delete \/ Update
    PROVE  \E h \in Seq(Rows), appended \in BOOLEAN :
              /\ Commit(h, appended) /\ Unique(h)
              /\ appended => \E row \in Rows : h = Append(heap, row)
<1>1. CASE Insert
  <2>1. PICK k \in Keys \ KeysOf(heap), m \in BOOLEAN, i \in 1 .. Len(heap) + 1 :
          Commit(InsertAt(heap, i, [key |-> k, match |-> m]), i = Len(heap) + 1)
    BY <1>1 DEF Insert
  <2> DEFINE row == [key |-> k, match |-> m]
  <2>2. row \in Rows /\ row.key \notin KeysOf(heap)
    BY DEF Rows
  <2> HIDE DEF row
  <2>3. InsertAt(heap, i, row) \in Seq(Rows) /\ Unique(InsertAt(heap, i, row))
    BY <2>2, InsertKeeps
  <2>4. i = Len(heap) + 1 => InsertAt(heap, i, row) = Append(heap, row)
    BY <2>2, AppendAtEnd
  <2>5. (i = Len(heap) + 1) \in BOOLEAN
    OBVIOUS
  <2>6. Commit(InsertAt(heap, i, row), i = Len(heap) + 1)
    BY <2>1 DEF row
  <2> QED  BY <2>2, <2>3, <2>4, <2>5, <2>6
<1>2. CASE Delete
  <2>1. PICK i \in DOMAIN heap : Commit(RemoveAt(heap, i), FALSE)
    BY <1>2 DEF Delete
  <2>2. RemoveAt(heap, i) \in Seq(Rows) /\ Unique(RemoveAt(heap, i))
    BY RowTyped, RemoveKeeps
  <2> QED  BY <2>1, <2>2
<1>3. CASE Update
  <2>1. PICK i \in DOMAIN heap :
          LET changed == [heap[i] EXCEPT !.match = ~@] IN
          \/ Commit(ReplaceAt(heap, i, changed), FALSE)
          \/ \E row \in {heap[i], changed} :
                i < Len(heap) /\ Commit(Append(RemoveAt(heap, i), row), FALSE)
    BY <1>3 DEF Update
  <2> DEFINE changed == [heap[i] EXCEPT !.match = ~@]
  <2>2. heap[i] \in Rows /\ i \in 1 .. Len(heap)
    BY RowTyped, ElementOfSeq
  <2>3. changed \in Rows /\ changed.key = heap[i].key
    BY <2>2 DEF Rows
  <2> HIDE DEF changed
  <2>4. CASE Commit(ReplaceAt(heap, i, changed), FALSE)
    <3>1. ReplaceAt(heap, i, changed) \in Seq(Rows) /\ Unique(ReplaceAt(heap, i, changed))
      BY <2>3, ReplaceKeeps
    <3> QED  BY <2>4, <3>1
  <2>5. ASSUME NEW row \in {heap[i], changed}, Commit(Append(RemoveAt(heap, i), row), FALSE)
        PROVE  \E h \in Seq(Rows) : Commit(h, FALSE) /\ Unique(h)
    <3>1. row \in Rows /\ row.key = heap[i].key
      BY <2>2, <2>3
    <3> DEFINE t == RemoveAt(heap, i)
    <3>2. t \in Seq(Rows) /\ Unique(t) /\ row.key \notin KeysOf(t)
      BY <2>2, <3>1, RemoveKeeps
    <3> HIDE DEF t
    <3>3. Append(t, row) \in Seq(Rows) /\ Unique(Append(t, row))
      BY <3>1, <3>2, AppendKeeps
    <3>4. Commit(Append(t, row), FALSE)
      BY <2>5 DEF t
    <3> QED  BY <3>3, <3>4
  <2>6. \/ Commit(ReplaceAt(heap, i, changed), FALSE)
        \/ \E row \in {heap[i], changed} : Commit(Append(RemoveAt(heap, i), row), FALSE)
    BY <2>1 DEF changed
  <2> QED  BY <2>4, <2>5, <2>6
<1> QED  BY <1>1, <1>2, <1>3

-----------------------------------------------------------------------------
(* The shape of the state.                                                 *)

\* A query there is belongs to a traversal, which keeps its way of paging; the
\* page a backward Relay handler has read waits for its third statement.
Queried ==
    /\ pc = "idle" => query = NoQuery
    /\ query = NoQuery =>
          pc \in {"idle", "answered"} /\ first = NoQuery /\ list = <<>> /\ swept = {}
    /\ query # NoQuery =>
          pc # "idle" /\ first # NoQuery /\ Anchored(query)
          /\ (SingleKey => query.mode = first.mode)
    /\ pc = "beyond" =>
          /\ query.mode = "relay" /\ CountsBeyond
          /\ \E p \in Pages : page = <<p>> /\ Len(p.rows) <= query.size

Shape == TypeOK /\ Queried

\* A request becomes a query, or is refused at once.
LEMMA Submitted ==
    ASSUME NEW r \in Requests, Submit(r)
    PROVE  /\ total' = 0 /\ page' = <<>> /\ quiet' = TRUE /\ failed' = FALSE
           /\ \/ /\ Rejected(r) /\ pc' = "answered" /\ query' = NoQuery
                 /\ reply' = Refusal
              \/ /\ ~Rejected(r) /\ query' = QueryOf(r) /\ pc' \in {"count", "page"}
                 /\ (pc' = "count") = query'.counted
                 /\ reply' = NoReply /\ query' \in Queries /\ Anchored(query')
<1>1. CASE Rejected(r)
  BY <1>1 DEF Submit
<1>2. CASE ~Rejected(r)
  <2>1. QueryOf(r) \in Queries /\ Anchored(QueryOf(r))
    BY <1>2, QueryTyped
  <2>2. /\ query' = QueryOf(r) /\ reply' = NoReply
        /\ pc' = IF QueryOf(r).counted THEN "count" ELSE "page"
        /\ total' = 0 /\ page' = <<>> /\ quiet' = TRUE /\ failed' = FALSE
    BY <1>2 DEF Submit
  <2>3. QueryOf(r).counted \in BOOLEAN
    BY <2>1 DEF Queries
  <2> QED  BY <1>2, <2>1, <2>2, <2>3
<1> QED  BY <1>1, <1>2

\* What the client puts together, and what it has looked at, are keys.
LEMMA Collected ==
    ASSUME TypeOK, query \in Queries, NEW rows \in Seq(Keys), Collect(rows)
    PROVE  list' \in Seq(Keys)
<1> DEFINE joined == IF query.asc THEN list \o rows ELSE rows \o list
<1>1. list \in Seq(Keys) /\ 2 * MaxKey \in Nat
  BY ListingAssumption DEF TypeOK, ListingAssumption
<1>2. joined \in Seq(Keys)
  BY <1>1, ConcatProperties
<1>3. list' = IF SingleKey THEN joined ELSE Upto(joined, 2 * MaxKey)
  BY DEF Collect
<1> HIDE DEF joined
<1> QED  BY <1>1, <1>2, <1>3, UptoIs

LEMMA GlancedTyped ==
    ASSUME NEW p
    PROVE  Glanced(p) \subseteq Keys
BY DEF Glanced

LEMMA HitsCounted ==
    ASSUME heap \in Seq(Rows)
    PROVE  Cardinality(Hits) \in 0 .. MaxKey
<1>1. Hits \in SUBSET Keys /\ Keys = 1 .. MaxKey /\ MaxKey \in Nat
  BY HitsTyped, ListingAssumption DEF Hits, ListingAssumption, Keys
<1>2. IsFiniteSet(1 .. MaxKey) /\ Cardinality(1 .. MaxKey) = MaxKey
  BY <1>1, FS_Interval
<1>3. Cardinality(Hits) <= MaxKey /\ IsFiniteSet(Hits)
  BY <1>1, <1>2, FS_Subset
<1> QED  BY <1>3, FS_CardinalityType

LEMMA ShapeInit ==
    ASSUME Init
    PROVE  Shape
<1>1. heap \in Seq(Rows) /\ \A i, j \in DOMAIN heap : heap[i].key = heap[j].key => i = j
  BY ListingAssumption DEF Init, ListingAssumption
<1>2. writes \in 0 .. MaxWrites /\ total \in 0 .. MaxKey /\ page \in Seq(Pages)
      /\ list \in Seq(Keys)
  BY ListingAssumption DEF Init, ListingAssumption
<1>3. NoReply \notin Replies /\ NoQuery \notin Queries
  BY MarkersAssumption DEF MarkersAssumption
<1> QED  BY <1>1, <1>2, <1>3 DEF Init, Shape, TypeOK, Queried

\* Asking: for the first page, the page ahead, or the page behind.
LEMMA ShapeAsk ==
    ASSUME Shape, Begin \/ Follow \/ Turn
    PROVE  Shape'
<1>1. NoReply \notin Replies /\ NoQuery \notin Queries
  BY MarkersAssumption DEF MarkersAssumption
<1>2. 0 \in 0 .. MaxKey /\ <<>> \in Seq(Pages)
  BY ListingAssumption DEF ListingAssumption
<1>3. CASE Begin
  <2>1. PICK r \in Questions : Submit(r)
    BY <1>3 DEF Begin
  <2>2. r \in Requests
    BY QuestionsAssumption DEF QuestionsAssumption, Requests
  <2>3. query = NoQuery /\ list = <<>> /\ swept = {}
    BY <1>3 DEF Begin, Shape, Queried
  <2>4. Hits \subseteq Keys
    BY HitsTyped DEF Shape, TypeOK, Hits
  <2>5. /\ first' = query' /\ steady' = Hits
        /\ UNCHANGED <<heap, writes, list, swept, calm, turned>>
    BY <1>3 DEF Begin, table
  <2>6. Refusal.rows = <<>>
    BY DEF Refusal
  <2>7. CASE Rejected(r)
    <3>1. /\ total' = 0 /\ page' = <<>> /\ quiet' = TRUE /\ failed' = FALSE
          /\ pc' = "answered" /\ query' = NoQuery /\ reply' = Refusal
      BY <2>1, <2>2, <2>7, Submitted
    <3> QED  BY <1>1, <1>2, <2>3, <2>4, <2>5, <2>6, <3>1, RefusalTyped
             DEF Shape, TypeOK, Queried
  <2>8. CASE ~Rejected(r)
    <3>1. /\ total' = 0 /\ page' = <<>> /\ quiet' = TRUE /\ failed' = FALSE
          /\ pc' \in {"count", "page"} /\ reply' = NoReply
          /\ query' \in Queries /\ Anchored(query')
      BY <2>1, <2>2, <2>8, Submitted
    <3> QED  BY <1>1, <1>2, <2>3, <2>4, <2>5, <3>1 DEF Shape, TypeOK, Queried
  <2> QED  BY <2>7, <2>8
<1>4. CASE Follow \/ Turn
  <2>1. /\ \E r \in {Up, Down} : r # NoQuery /\ Submit(r)
        /\ UNCHANGED <<heap, writes, list, first, steady, swept, calm>>
        /\ turned' \in BOOLEAN /\ pc = "answered"
    <3>1. turned \in BOOLEAN
      BY DEF Shape, TypeOK
    <3>2. CASE Follow
      BY <3>1, <3>2 DEF Follow, Ahead, table
    <3>3. CASE Turn
      BY <3>3 DEF Turn, Behind, table
    <3> QED  BY <1>4, <3>2, <3>3
  <2>2. PICK r \in {Up, Down} : r # NoQuery /\ Submit(r)
    BY <2>1
  <2>3. reply \in Replies /\ query \in Queries \cup {NoQuery}
    BY <2>1 DEF Shape, TypeOK
  <2>4. /\ query \in Queries /\ r \in Requests /\ ~Rejected(r)
        /\ SingleKey => QueryOf(r).mode = query.mode
    BY <2>2, <2>3, GoesOn
  <2>5. /\ total' = 0 /\ page' = <<>> /\ quiet' = TRUE /\ failed' = FALSE
        /\ pc' \in {"count", "page"} /\ reply' = NoReply /\ query' = QueryOf(r)
        /\ query' \in Queries /\ Anchored(query')
    BY <2>2, <2>4, Submitted
  <2> QED  BY <1>1, <1>2, <2>1, <2>4, <2>5 DEF Shape, TypeOK, Queried
<1> QED  BY <1>3, <1>4

LEMMA ShapeLeave ==
    ASSUME Shape, Leave
    PROVE  Shape'
<1>1. NoReply \notin Replies /\ NoQuery \notin Queries
  BY MarkersAssumption DEF MarkersAssumption
<1>2. 0 \in 0 .. MaxKey /\ <<>> \in Seq(Pages) /\ <<>> \in Seq(Keys)
  BY ListingAssumption DEF ListingAssumption
<1> QED  BY <1>1, <1>2 DEF Leave, Shape, TypeOK, Queried, table

LEMMA ShapeCount ==
    ASSUME Shape, Count
    PROVE  Shape'
<1>1. Cardinality(Hits) \in 0 .. MaxKey
  BY HitsCounted DEF Shape, TypeOK
<1> QED  BY <1>1 DEF Count, Shape, TypeOK, Queried, table, history, CountsBeyond

\* A page is read: answered at once or, backward by Relay cursor, not yet.
LEMMA ShapePage ==
    ASSUME Shape, OffsetList \/ CursorList \/ RelayList
    PROVE  Shape'
<1>1. /\ heap \in Seq(Rows) /\ query \in Queries /\ total \in 0 .. MaxKey /\ TypeOK
      /\ pc = "page" /\ query # NoQuery /\ Anchored(query) /\ first # NoQuery
      /\ SingleKey => query.mode = first.mode
  BY DEF Shape, TypeOK, Queried, OffsetList, CursorList, RelayList
<1>2. NoReply \notin Replies /\ <<>> \in Seq(Pages)
  BY MarkersAssumption DEF MarkersAssumption
<1>3. UNCHANGED <<heap, writes, query, total, first, steady, calm, quiet, turned, failed>>
  BY DEF OffsetList, CursorList, RelayList, table
<1>4. CASE OffsetList
  <2>1. OffsetPage \in Seq(Keys) /\ Len(OffsetPage) <= query.size
    BY <1>1, OffsetPageIs
  <2>2. Answer(OffsetReply(OffsetPage)) /\ Collect(OffsetPage) /\ swept' = swept
    BY <1>4 DEF OffsetList
  <2>3. OffsetReply(OffsetPage) \in Replies /\ list' \in Seq(Keys)
    BY <1>1, <2>1, <2>2, AnswersTyped, Collected
  <2>4. OffsetReply(OffsetPage).rows = OffsetPage
    BY DEF OffsetReply
  <2>5. pc' = "answered" /\ reply' = OffsetReply(OffsetPage) /\ page' = <<>>
    BY <2>2 DEF Answer
  <2> QED  BY <1>1, <1>2, <1>3, <2>1, <2>2, <2>3, <2>4, <2>5 DEF Shape, TypeOK, Queried
<1>5. CASE CursorList \/ RelayList
  <2> DEFINE p == KeyedPage
  <2>1. p \in Pages /\ p.rows \in Seq(Keys) /\ Len(p.rows) <= query.size
    BY <1>1, PageTyped DEF Pages
  <2>2. Fetch(p)
    BY <1>5 DEF CursorList, RelayList
  <2> HIDE DEF p
  <2>3. list' \in Seq(Keys) /\ swept' \subseteq Keys
    BY <1>1, <2>1, <2>2, Collected, GlancedTyped DEF Fetch, TypeOK
  <2>4. CASE \E a \in Replies : Answer(a) /\ a.rows = p.rows
    <3>1. PICK a \in Replies : Answer(a) /\ a.rows = p.rows
      BY <2>4
    <3>2. pc' = "answered" /\ reply' = a /\ page' = <<>>
      BY <3>1 DEF Answer
    <3> QED  BY <1>1, <1>2, <1>3, <2>1, <2>3, <3>1, <3>2 DEF Shape, TypeOK, Queried
  <2>5. CASE /\ query.mode = "relay" /\ CountsBeyond
             /\ pc' = "beyond" /\ page' = <<p>> /\ UNCHANGED reply
    <3>1. <<p>> \in Seq(Pages)
      BY <2>1
    <3> QED  BY <1>1, <1>2, <1>3, <2>1, <2>3, <2>5, <3>1
             DEF Shape, TypeOK, Queried, CountsBeyond
  <2>6. CASE CursorList
    <3>1. CursorReply(p) \in Replies /\ CursorReply(p).rows = p.rows
      BY <1>1, <2>1, AnswersTyped DEF CursorReply
    <3>2. Answer(CursorReply(p))
      BY <2>6 DEF CursorList, p
    <3> QED  BY <2>4, <3>1, <3>2
  <2>7. CASE RelayList
    <3>1. RelayReply(p, FALSE) \in Replies /\ RelayReply(p, FALSE).rows = p.rows
      BY <1>1, <2>1, AnswersTyped DEF RelayReply
    <3>2. CASE CountsBeyond
      BY <2>5, <2>7, <3>2 DEF RelayList, p
    <3>3. CASE ~CountsBeyond
      <4>1. Answer(RelayReply(p, FALSE))
        BY <2>7, <3>3 DEF RelayList, p
      <4> QED  BY <2>4, <3>1, <4>1
    <3> QED  BY <3>2, <3>3
  <2> QED  BY <1>5, <2>6, <2>7
<1> QED  BY <1>4, <1>5

\* The look beyond a backward page answers what it saw, or no if it failed.
LEMMA BeyondAnswers ==
    ASSUME RelayBeyond, NEW p, page = <<p>>
    PROVE  \E b \in BOOLEAN :
              /\ pc = "beyond" /\ pc' = "answered" /\ page' = <<>>
              /\ reply' = RelayReply(p, b)
              /\ UNCHANGED <<heap, writes, query, total>>
              /\ UNCHANGED <<list, first, steady, swept, calm, quiet, turned>>
              /\ \/ failed' = failed /\ (b <=> \E k \in Hits : k >= query.hi)
                 \/ failed' = TRUE /\ ~b
<1> DEFINE s == \E k \in Hits : k >= query.hi
<1>1. /\ pc = "beyond" /\ pc' = "answered" /\ page' = <<>>
      /\ UNCHANGED <<heap, writes, query, total>>
      /\ UNCHANGED <<list, first, steady, swept, calm, quiet, turned>>
  BY DEF RelayBeyond, Answer, table, history
<1>2. \/ reply' = RelayReply(p, s) /\ failed' = failed
      \/ reply' = RelayReply(p, FALSE) /\ failed' = TRUE
  BY DEF RelayBeyond, Answer
<1>3. s \in BOOLEAN /\ (s <=> \E k \in Hits : k >= query.hi)
  OBVIOUS
<1> HIDE DEF s
<1>4. CASE reply' = RelayReply(p, s) /\ failed' = failed
  BY <1>1, <1>3, <1>4, Zenon
<1>5. CASE reply' = RelayReply(p, FALSE) /\ failed' = TRUE
  <2> WITNESS FALSE \in BOOLEAN
  <2> QED  BY <1>1, <1>5
<1> QED  BY <1>2, <1>4, <1>5

LEMMA ShapeBeyond ==
    ASSUME Shape, RelayBeyond
    PROVE  Shape'
<1>1. /\ query \in Queries /\ total \in 0 .. MaxKey /\ query # NoQuery
      /\ NoReply \notin Replies
  BY MarkersAssumption DEF Shape, TypeOK, Queried, RelayBeyond, MarkersAssumption
<1>2. PICK p \in Pages : page = <<p>> /\ Len(p.rows) <= query.size
  BY DEF Shape, Queried, RelayBeyond
<1>3. PICK b \in BOOLEAN :
        /\ pc' = "answered" /\ reply' = RelayReply(p, b) /\ page' = <<>>
        /\ UNCHANGED <<heap, writes, query, total, list, first, steady, swept, calm, quiet,
                       turned>>
        /\ failed' \in BOOLEAN
  <2>1. failed \in BOOLEAN
    BY DEF Shape, TypeOK
  <2> QED  BY <1>2, <2>1, BeyondAnswers
<1>4. RelayReply(p, b) \in Replies /\ RelayReply(p, b).rows = p.rows
  BY <1>1, <1>3, AnswersTyped DEF RelayReply
<1>5. <<>> \in Seq(Pages)
  OBVIOUS
<1> QED  BY <1>1, <1>2, <1>3, <1>4, <1>5 DEF Shape, TypeOK, Queried

LEMMA ShapeWrite ==
    ASSUME Shape, Insert \/ Delete \/ Update
    PROVE  Shape'
<1>1. heap \in Seq(Rows) /\ Unique(heap)
  BY DEF Shape, TypeOK, Unique
<1>2. PICK h \in Seq(Rows), appended \in BOOLEAN : Commit(h, appended) /\ Unique(h)
  BY <1>1, WritesKeep
<1>3. writes + 1 \in 0 .. MaxWrites
  BY <1>2, ListingAssumption DEF Commit, Shape, TypeOK, ListingAssumption
<1>4. \A i, j \in DOMAIN h : h[i].key = h[j].key => i = j
  BY <1>2 DEF Unique
<1>5. /\ heap' = h /\ writes' = writes + 1 /\ steady' = steady \cap HitsOf(h)
      /\ calm' \in BOOLEAN /\ quiet' = FALSE
      /\ UNCHANGED <<pc, query, total, page, reply, list, first, swept, turned, failed>>
  BY <1>2 DEF Commit, handling, Shape, TypeOK
<1> QED  BY <1>2, <1>3, <1>4, <1>5 DEF Shape, TypeOK, Queried, CountsBeyond

LEMMA ShapeNext ==
    ASSUME Shape, [Next]_vars
    PROVE  Shape'
<1>1. CASE UNCHANGED vars
  BY <1>1 DEF vars, table, handling, history, Shape, TypeOK, Queried, CountsBeyond
<1>2. CASE Next
  BY <1>2, ShapeAsk, ShapeLeave, ShapeCount, ShapePage, ShapeBeyond, ShapeWrite
     DEF Next, Handler
<1> QED  BY <1>1, <1>2

\* The components of the state have their types, keys are unique in the table
\* after any writes, and no page exceeds its size.
THEOREM TypeCorrect == Spec => []TypeOK
<1>1. Init => Shape
  BY ShapeInit
<1>2. Shape /\ [Next]_vars => Shape'
  BY ShapeNext
<1>3. Shape => TypeOK
  BY DEF Shape
<1> QED  BY <1>1, <1>2, <1>3, PTL DEF Spec

-----------------------------------------------------------------------------
(* Pages by cursor join.                                                   *)

LEMMA ConcatIs ==
    ASSUME NEW a \in Seq(Keys), NEW b \in Seq(Keys)
    PROVE  /\ a \o b \in Seq(Keys) /\ ToSet(a \o b) = ToSet(a) \cup ToSet(b)
           /\ Climbs(a) /\ Climbs(b) /\ (\A x \in ToSet(a), y \in ToSet(b) : x < y)
                 => Climbs(a \o b)
<1> DEFINE m == Len(a)
           n == Len(b)
           c == a \o b
<1>1. /\ m \in Nat /\ n \in Nat /\ DOMAIN a = 1 .. m /\ DOMAIN b = 1 .. n
      /\ \A i \in 1 .. m : a[i] \in ToSet(a) /\ a[i] \in Int
      /\ \A i \in 1 .. n : b[i] \in ToSet(b) /\ b[i] \in Int
  <2>1. \A i \in 1 .. m : a[i] \in Keys
    BY ElementOfSeq
  <2>2. \A i \in 1 .. n : b[i] \in Keys
    BY ElementOfSeq
  <2>3. \A k \in Keys : k \in Int
    BY DEF Keys
  <2> QED  BY <2>1, <2>2, <2>3, LenProperties DEF ToSet
<1>2. /\ c \in Seq(Keys) /\ Len(c) = m + n
      /\ \A i \in 1 .. m + n : c[i] = IF i <= m THEN a[i] ELSE b[i - m]
  BY ConcatProperties
<1> HIDE DEF c, m, n
<1>3. DOMAIN c = 1 .. m + n
  BY <1>1, <1>2, LenProperties
<1>4. ToSet(c) = ToSet(a) \cup ToSet(b)
  <2>1. ASSUME NEW x \in ToSet(c)  PROVE x \in ToSet(a) \cup ToSet(b)
    <3>1. PICK i \in 1 .. m + n : c[i] = x
      BY <1>3 DEF ToSet
    <3>2. CASE i <= m
      BY <1>1, <1>2, <3>1, <3>2
    <3>3. CASE i > m
      <4>1. i - m \in 1 .. n /\ c[i] = b[i - m]
        BY <1>1, <1>2, <3>1, <3>3
      <4> QED  BY <1>1, <3>1, <4>1
    <3> QED  BY <1>1, <3>1, <3>2, <3>3
  <2>2. ASSUME NEW x \in ToSet(a)  PROVE x \in ToSet(c)
    <3>1. PICK i \in 1 .. m : a[i] = x
      BY <1>1 DEF ToSet
    <3>2. i \in 1 .. m + n /\ c[i] = x
      BY <1>1, <1>2, <3>1
    <3> QED  BY <1>3, <3>2 DEF ToSet
  <2>3. ASSUME NEW x \in ToSet(b)  PROVE x \in ToSet(c)
    <3>1. PICK i \in 1 .. n : b[i] = x
      BY <1>1 DEF ToSet
    <3>2. m + i \in 1 .. m + n /\ ~(m + i <= m) /\ (m + i) - m = i
      BY <1>1, <3>1
    <3>3. c[m + i] = x
      BY <1>2, <3>1, <3>2
    <3> QED  BY <1>3, <3>2, <3>3 DEF ToSet
  <2> QED  BY <2>1, <2>2, <2>3
<1>5. ASSUME Climbs(a), Climbs(b), \A x \in ToSet(a), y \in ToSet(b) : x < y
      PROVE  Climbs(c)
  <2>1. SUFFICES ASSUME NEW i \in 1 .. m + n, NEW j \in 1 .. m + n, i < j
                 PROVE  c[i] < c[j]
    BY <1>3 DEF Climbs
  <2>2. CASE j <= m
    <3>1. i \in 1 .. m /\ j \in 1 .. m /\ c[i] = a[i] /\ c[j] = a[j]
      BY <1>1, <1>2, <2>1, <2>2
    <3> QED  BY <1>1, <1>5, <2>1, <3>1 DEF Climbs
  <2>3. CASE i > m
    <3>1. /\ i - m \in 1 .. n /\ j - m \in 1 .. n /\ i - m < j - m
          /\ c[i] = b[i - m] /\ c[j] = b[j - m]
      BY <1>1, <1>2, <2>1, <2>3
    <3> QED  BY <1>1, <1>5, <3>1 DEF Climbs
  <2>4. CASE i <= m /\ j > m
    <3>1. i \in 1 .. m /\ j - m \in 1 .. n /\ c[i] = a[i] /\ c[j] = b[j - m]
      BY <1>1, <1>2, <2>1, <2>4
    <3> QED  BY <1>1, <1>5, <3>1
  <2> QED  BY <1>1, <2>1, <2>2, <2>3, <2>4
<1> QED  BY <1>2, <1>4, <1>5 DEF c

\* The first and the last row of a page.
LEMMA PageEdges ==
    ASSUME heap \in Seq(Rows), query \in Queries, SingleKey, NEW rows, NEW f, NEW l,
           rows = KeyedPage.rows, rows # <<>>, f = rows[1], l = rows[Len(rows)]
    PROVE  /\ f \in Window /\ l \in Window /\ f \in Keys /\ l \in Keys
           /\ \A k \in ToSet(rows) : f <= k /\ k <= l
           /\ Edge(rows, 1) = f /\ Edge(rows, Len(rows)) = l
           /\ f \in ToSet(rows) /\ l \in ToSet(rows)
<1>1. rows \in Seq(Keys) /\ Climbs(rows) /\ ToSet(rows) = Hits \cap Glanced(KeyedPage)
  BY PageTyped, PageIs DEF Pages
<1>2. /\ Len(rows) \in Nat \ {0} /\ f \in Keys /\ l \in Keys
      /\ Edge(rows, 1) = f /\ Edge(rows, Len(rows)) = l
      /\ f \in ToSet(rows) /\ l \in ToSet(rows)
  BY <1>1, EdgeTyped
<1>3. ToSet(rows) \subseteq Window
  BY <1>1 DEF Glanced, Window
<1>4. ASSUME NEW k \in ToSet(rows)  PROVE f <= k /\ k <= l
  <2>1. PICK i \in 1 .. Len(rows) : k = rows[i]
    BY <1>1, LenProperties DEF ToSet
  <2>2. DOMAIN rows = 1 .. Len(rows) /\ 1 \in 1 .. Len(rows) /\ Len(rows) \in 1 .. Len(rows)
    BY <1>1, <1>2, LenProperties
  <2>3. k \in Int /\ f \in Int /\ l \in Int
    <3>1. rows[i] \in Keys
      BY <1>1, <2>1, ElementOfSeq
    <3>2. \A x \in Keys : x \in Int
      BY DEF Keys
    <3> QED  BY <1>2, <2>1, <3>1, <3>2
  <2>4. (1 < i => f < k) /\ (i < Len(rows) => k < l)
    BY <1>1, <2>1, <2>2 DEF Climbs
  <2>5. (i = 1 => f = k) /\ (i = Len(rows) => k = l)
    BY <2>1
  <2> QED  BY <1>2, <2>1, <2>3, <2>4, <2>5
<1> QED  BY <1>2, <1>3, <1>4

\* The client has looked at everything from its first cursor up to e, or down
\* to e, and its list has nothing from anywhere else.
ClimbedTo(e) ==
    /\ first.lo <= e
    /\ \A k \in ToSet(list) : first.lo < k /\ k <= e
    /\ {k \in Keys : first.lo < k /\ k <= e} \subseteq swept

SunkTo(e) ==
    /\ e <= first.hi
    /\ \A k \in ToSet(list) : e <= k /\ k < first.hi
    /\ {k \in Keys : e <= k /\ k < first.hi} \subseteq swept

SweptAll == {k \in Keys : first.lo < k /\ k < first.hi} \subseteq swept

\* As long as the client goes one way, its cursor is where its list ends; only
\* when nothing more is announced has it looked at everything.
OneWay ==
    /\ Climbs(list) /\ (steady \cap swept) \subseteq ToSet(list)
    /\ query.asc = first.asc
    /\ IF first.asc THEN query.hi = first.hi ELSE query.lo = first.lo
    /\ pc \in {"count", "page"} =>
          IF first.asc THEN ClimbedTo(query.lo) ELSE SunkTo(query.hi)
    /\ pc = "answered" =>
          IF first.asc
          THEN (reply.after \in Keys => ClimbedTo(reply.after)) /\ (MoreAbove \/ SweptAll)
          ELSE (reply.before \in Keys => SunkTo(reply.before)) /\ (MoreBelow \/ SweptAll)
    /\ pc = "beyond" =>
          /\ ~first.asc
          /\ page[1].rows # <<>> => SunkTo(page[1].rows[1])
          /\ page[1].rows = <<>> => ~page[1].more
          /\ page[1].more \/ SweptAll

JoinInv ==
    /\ steady \subseteq Hits
    /\ Keyed /\ ~turned => OneWay

\* A query by cursor, as far as paging goes on from it.
LEMMA ModeIs ==
    ASSUME Shape, SingleKey, Keyed
    PROVE  query # NoQuery => query \in Queries /\ query.mode \in {"cursor", "relay"}
BY QueryFields DEF Shape, TypeOK, Queried, Keyed

LEMMA JoinInit ==
    ASSUME Init
    PROVE  JoinInv
BY DEF Init, JoinInv, Keyed

LEMMA JoinBegin ==
    ASSUME Shape, SingleKey, Begin
    PROVE  JoinInv'
<1>1. PICK r \in Questions : Submit(r)
  BY DEF Begin
<1>2. r \in Requests
  BY QuestionsAssumption DEF QuestionsAssumption, Requests
<1>3. /\ first' = query' /\ steady' = Hits /\ heap' = heap
      /\ list' = <<>> /\ swept' = {}
  BY DEF Begin, Shape, Queried, table
<1>4. Hits' = Hits
  BY <1>3 DEF Hits
<1>5. ASSUME query' # NoQuery, query'.mode # "offset"
      PROVE  OneWay'
  <2>1. query' \in Queries /\ pc' \in {"count", "page"}
    BY <1>1, <1>2, <1>5, Submitted
  <2>2. query'.lo \in 0 .. MaxKey /\ query'.hi \in 1 .. MaxKey + 1
    BY <2>1 DEF Queries
  <2>3. Climbs(<<>>) /\ ToSet(<<>>) = {}
    BY DEF Climbs, ToSet
  <2>4. {k \in Keys : query'.lo < k /\ k <= query'.lo} = {}
    BY <2>2 DEF Keys
  <2>5. {k \in Keys : query'.hi <= k /\ k < query'.hi} = {}
    BY <2>2 DEF Keys
  <2> QED  BY <1>3, <2>1, <2>2, <2>3, <2>4, <2>5 DEF OneWay, ClimbedTo, SunkTo
<1> QED  BY <1>3, <1>4, <1>5 DEF JoinInv, Keyed

\* Going on in the direction it came, the cursor is the edge of the last page.
LEMMA JoinFollow ==
    ASSUME Shape, SingleKey, JoinInv, Follow
    PROVE  JoinInv'
<1>1. /\ pc = "answered" /\ Ahead # NoQuery /\ Submit(Ahead)
      /\ UNCHANGED <<heap, list, first, steady, swept, turned>>
  BY DEF Follow, table
<1>2. Hits' = Hits
  BY <1>1 DEF Hits
<1>3. ASSUME Keyed, ~turned
      PROVE  OneWay'
  <2>1. query \in Queries /\ query.mode \in {"cursor", "relay"} /\ reply \in Replies
    <3>1. query # NoQuery /\ reply \in Replies
      BY <1>1, <1>3 DEF Shape, TypeOK, Queried, Keyed
    <3> QED  BY <1>3, <3>1, ModeIs
  <2>2. OneWay /\ Anchored(query)
    BY <1>3, <2>1, QueryFields DEF JoinInv, Shape, Queried
  <2>3. Ahead \in Requests /\ ~Rejected(Ahead)
    BY <1>1, <2>1, GoesOn DEF Ahead
  <2>4. query' = QueryOf(Ahead) /\ pc' \in {"count", "page"}
    BY <1>1, <2>3, Submitted
  <2>5. CASE query.asc
    <3>1. Ahead = Up /\ MoreAbove
      BY <1>1, <2>1, <2>5, Announced DEF Ahead
    <3>2. /\ reply.after \in Keys
          /\ query'.asc = TRUE /\ query'.lo = reply.after /\ query'.hi = query.hi
      <4>1. CASE query.mode = "cursor"
        BY <2>1, <2>2, <2>4, <2>5, <3>1, <4>1, UpCursor DEF Anchored
      <4>2. CASE query.mode = "relay"
        BY <2>1, <2>4, <2>5, <3>1, <4>2, UpRelay
      <4> QED  BY <2>1, <4>1, <4>2
    <3> QED  BY <1>1, <2>2, <2>4, <2>5, <3>2 DEF OneWay, ClimbedTo
  <2>6. CASE ~query.asc
    <3>1. Ahead = Down /\ MoreBelow
      BY <1>1, <2>1, <2>6, QueryFields, Announced DEF Ahead
    <3>2. /\ reply.before \in Keys
          /\ query'.asc = FALSE /\ query'.hi = reply.before /\ query'.lo = query.lo
      <4>1. CASE query.mode = "cursor"
        BY <2>1, <2>2, <2>4, <2>6, <3>1, <4>1, DownCursor DEF Anchored
      <4>2. CASE query.mode = "relay"
        <5>1. PICK c \in BOOLEAN : QueryOf(Down) =
                 [mode |-> "relay", size |-> query.size, page |-> 1, counted |-> TRUE,
                  asc |-> FALSE, cursor |-> c,
                  lo |-> IF query.asc THEN 0 ELSE query.lo, hi |-> reply.before]
          BY <2>1, <3>1, <4>2, DownRelay
        <5> QED  BY <2>1, <2>4, <2>6, <3>1, <4>2, <5>1, DownRelay
      <4> QED  BY <2>1, <4>1, <4>2
    <3> QED  BY <1>1, <2>1, <2>2, <2>4, <2>6, <3>2, QueryFields DEF OneWay, SunkTo
  <2> QED  BY <2>5, <2>6
<1> QED  BY <1>1, <1>2, <1>3 DEF JoinInv, Keyed

\* A page upwards goes on where the list ends.
LEMMA PagedUp ==
    ASSUME Shape, SingleKey, JoinInv, Keyed, ~turned, pc = "page", query.asc,
           Fetch(KeyedPage), UNCHANGED <<first, steady>>, NEW p, p = KeyedPage
    PROVE  /\ Climbs(list') /\ (steady \cap swept') \subseteq ToSet(list')
           /\ \A e \in Keys :
                 p.rows # <<>> /\ e = p.rows[Len(p.rows)] => ClimbedTo(e)'
           /\ p.rows = <<>> => ~p.more
           /\ p.more \/ SweptAll'
           /\ p.rows \in Seq(Keys)
<1>1. query \in Queries /\ heap \in Seq(Rows) /\ list \in Seq(Keys)
  BY DEF Shape, TypeOK, Queried
<1>2. OneWay /\ first.asc /\ query.hi = first.hi /\ ClimbedTo(query.lo) /\ steady \subseteq Hits
  BY DEF JoinInv, OneWay
<1>3. /\ p.rows \in Seq(Keys) /\ (p.more => p.rows # <<>>) /\ Climbs(p.rows)
      /\ ToSet(p.rows) = Hits \cap Glanced(p)
  BY <1>1, PageTyped, PageIs DEF Pages
<1>4. list' = list \o p.rows /\ swept' = swept \cup Glanced(p)
  BY DEF Fetch, Collect
<1>5. /\ query.lo \in Int /\ query.hi \in Int /\ first.lo \in Int
      /\ \A k \in Keys : k \in Int
  <2>1. first \in Queries
    BY DEF Shape, TypeOK, Keyed
  <2> QED  BY <1>1, <2>1, QueryFields DEF Queries, Keys
<1>6. Glanced(p) = {k \in Keys : /\ query.lo < k /\ k < query.hi
                                 /\ p.more => k <= p.rows[Len(p.rows)]}
  BY DEF Glanced
<1>7. \A x \in ToSet(list), y \in ToSet(p.rows) : x < y
  <2>1. \A x \in ToSet(list) : x <= query.lo
    BY <1>2 DEF ClimbedTo
  <2>2. ToSet(list) \subseteq Keys
    BY <1>1, ElementOfSeq, LenProperties DEF ToSet
  <2>3. \A y \in ToSet(p.rows) : query.lo < y /\ y \in Keys
    BY <1>3, <1>6
  <2> QED  BY <1>5, <2>1, <2>2, <2>3
<1>8. ToSet(list') = ToSet(list) \cup ToSet(p.rows) /\ Climbs(list')
  BY <1>1, <1>2, <1>3, <1>4, <1>7, ConcatIs DEF OneWay
<1>9. (steady \cap swept') \subseteq ToSet(list')
  BY <1>2, <1>3, <1>4, <1>8 DEF OneWay
<1>10. ASSUME NEW e \in Keys, p.rows # <<>>, e = p.rows[Len(p.rows)]
       PROVE  ClimbedTo(e)'
  <2>1. /\ query.lo < e /\ e < query.hi
        /\ \A k \in ToSet(p.rows) : k <= e
    BY <1>1, <1>10, PageEdges DEF Window
  <2>2. first.lo <= query.lo
    BY <1>2 DEF ClimbedTo
  <2>3. \A k \in ToSet(list') : first.lo < k /\ k <= e
    <3>1. \A k \in ToSet(list) : first.lo < k /\ k <= query.lo /\ k \in Keys
      BY <1>1, <1>2, ElementOfSeq, LenProperties DEF ClimbedTo, ToSet
    <3>2. \A k \in ToSet(p.rows) : query.lo < k /\ k \in Keys
      BY <1>3, <1>6
    <3> QED  BY <1>5, <1>8, <2>1, <2>2, <3>1, <3>2
  <2>4. {k \in Keys : first.lo < k /\ k <= e} \subseteq swept'
    <3>1. {k \in Keys : first.lo < k /\ k <= query.lo} \subseteq swept
      BY <1>2 DEF ClimbedTo
    <3>2. \A k \in Keys : query.lo < k /\ k <= e => k \in Glanced(p)
      BY <1>5, <1>6, <1>10, <2>1
    <3> QED  BY <1>4, <1>5, <3>1, <3>2
  <2>5. first.lo <= e
    BY <1>5, <2>1, <2>2
  <2> QED  BY <2>3, <2>4, <2>5 DEF ClimbedTo
<1>11. ~p.more => SweptAll'
  <2>1. {k \in Keys : first.lo < k /\ k <= query.lo} \subseteq swept
    BY <1>2 DEF ClimbedTo
  <2>2. ~p.more => \A k \in Keys : query.lo < k /\ k < first.hi => k \in Glanced(p)
    BY <1>2, <1>6
  <2>3. ~p.more => {k \in Keys : first.lo < k /\ k < first.hi} \subseteq swept'
    BY <1>4, <1>5, <2>1, <2>2
  <2> QED  BY <2>3 DEF SweptAll
<1> QED  BY <1>3, <1>8, <1>9, <1>10, <1>11

\* One downwards goes on where it begins.
LEMMA PagedDown ==
    ASSUME Shape, SingleKey, JoinInv, Keyed, ~turned, pc = "page", ~query.asc,
           Fetch(KeyedPage), UNCHANGED <<first, steady>>, NEW p, p = KeyedPage
    PROVE  /\ Climbs(list') /\ (steady \cap swept') \subseteq ToSet(list')
           /\ \A e \in Keys : p.rows # <<>> /\ e = p.rows[1] => SunkTo(e)'
           /\ p.rows = <<>> => ~p.more
           /\ p.more \/ SweptAll'
           /\ p.rows \in Seq(Keys)
<1>1. query \in Queries /\ heap \in Seq(Rows) /\ list \in Seq(Keys)
  BY DEF Shape, TypeOK, Queried
<1>2. OneWay /\ ~first.asc /\ query.lo = first.lo /\ SunkTo(query.hi) /\ steady \subseteq Hits
  BY DEF JoinInv, OneWay
<1>3. /\ p.rows \in Seq(Keys) /\ (p.more => p.rows # <<>>) /\ Climbs(p.rows)
      /\ ToSet(p.rows) = Hits \cap Glanced(p)
  BY <1>1, PageTyped, PageIs DEF Pages
<1>4. list' = p.rows \o list /\ swept' = swept \cup Glanced(p)
  BY DEF Fetch, Collect
<1>5. /\ query.lo \in Int /\ query.hi \in Int /\ first.hi \in Int
      /\ \A k \in Keys : k \in Int
  <2>1. first \in Queries
    BY DEF Shape, TypeOK, Keyed
  <2> QED  BY <1>1, <2>1, QueryFields DEF Queries, Keys
<1>6. Glanced(p) = {k \in Keys : /\ query.lo < k /\ k < query.hi
                                 /\ p.more => k >= p.rows[1]}
  BY DEF Glanced
<1>7. \A x \in ToSet(p.rows), y \in ToSet(list) : x < y
  <2>1. \A y \in ToSet(list) : query.hi <= y
    BY <1>2 DEF SunkTo
  <2>2. ToSet(list) \subseteq Keys
    BY <1>1, ElementOfSeq, LenProperties DEF ToSet
  <2>3. \A x \in ToSet(p.rows) : x < query.hi /\ x \in Keys
    BY <1>3, <1>6
  <2> QED  BY <1>5, <2>1, <2>2, <2>3
<1>8. ToSet(list') = ToSet(p.rows) \cup ToSet(list) /\ Climbs(list')
  BY <1>1, <1>2, <1>3, <1>4, <1>7, ConcatIs DEF OneWay
<1>9. (steady \cap swept') \subseteq ToSet(list')
  BY <1>2, <1>3, <1>4, <1>8 DEF OneWay
<1>10. ASSUME NEW e \in Keys, p.rows # <<>>, e = p.rows[1]
       PROVE  SunkTo(e)'
  <2>1. /\ query.lo < e /\ e < query.hi
        /\ \A k \in ToSet(p.rows) : e <= k
    BY <1>1, <1>10, PageEdges DEF Window
  <2>2. query.hi <= first.hi
    BY <1>2 DEF SunkTo
  <2>3. \A k \in ToSet(list') : e <= k /\ k < first.hi
    <3>1. \A k \in ToSet(list) : query.hi <= k /\ k < first.hi /\ k \in Keys
      BY <1>1, <1>2, ElementOfSeq, LenProperties DEF SunkTo, ToSet
    <3>2. \A k \in ToSet(p.rows) : k < query.hi /\ k \in Keys
      BY <1>3, <1>6
    <3> QED  BY <1>5, <1>8, <2>1, <2>2, <3>1, <3>2
  <2>4. {k \in Keys : e <= k /\ k < first.hi} \subseteq swept'
    <3>1. {k \in Keys : query.hi <= k /\ k < first.hi} \subseteq swept
      BY <1>2 DEF SunkTo
    <3>2. \A k \in Keys : e <= k /\ k < query.hi => k \in Glanced(p)
      BY <1>5, <1>6, <1>10, <2>1
    <3> QED  BY <1>4, <1>5, <3>1, <3>2
  <2>5. e <= first.hi
    BY <1>5, <2>1, <2>2
  <2> QED  BY <2>3, <2>4, <2>5 DEF SunkTo
<1>11. ~p.more => SweptAll'
  <2>1. {k \in Keys : query.hi <= k /\ k < first.hi} \subseteq swept
    BY <1>2 DEF SunkTo
  <2>2. ~p.more => \A k \in Keys : first.lo < k /\ k < query.hi => k \in Glanced(p)
    BY <1>2, <1>6
  <2>3. ~p.more => {k \in Keys : first.lo < k /\ k < first.hi} \subseteq swept'
    BY <1>4, <1>5, <2>1, <2>2
  <2> QED  BY <2>3 DEF SweptAll
<1> QED  BY <1>3, <1>8, <1>9, <1>10, <1>11

LEMMA JoinPage ==
    ASSUME Shape, SingleKey, JoinInv, CursorList \/ RelayList
    PROVE  JoinInv'
<1> DEFINE p == KeyedPage
           rows == p.rows
<1>1. /\ pc = "page" /\ query \in Queries /\ heap \in Seq(Rows) /\ Fetch(p)
      /\ UNCHANGED <<heap, query, first, steady, turned>> /\ Anchored(query)
  BY DEF CursorList, RelayList, table, Shape, TypeOK, Queried
<1>2. p = KeyedPage /\ Hits' = Hits
  BY <1>1 DEF Hits
<1>3. p.more \in BOOLEAN /\ rows \in Seq(Keys)
  BY <1>1, PageTyped DEF Pages
<1> HIDE DEF p
<1>4. /\ Edge(rows, 1) \in Keys \cup {NoParam} /\ Edge(rows, Len(rows)) \in Keys \cup {NoParam}
      /\ rows # <<>> => /\ Edge(rows, 1) = rows[1] /\ rows[1] \in Keys
                        /\ Edge(rows, Len(rows)) = rows[Len(rows)]
                        /\ rows[Len(rows)] \in Keys
      /\ NoParam \notin Keys
      /\ rows = <<>> => Edge(rows, 1) = NoParam /\ Edge(rows, Len(rows)) = NoParam
  BY <1>3, EdgeTyped, MarkersAssumption DEF Edge, Keys, MarkersAssumption
<1>5. ASSUME Keyed, ~turned
      PROVE  OneWay'
  <2>1. OneWay /\ query.asc \in BOOLEAN
    BY <1>1, <1>5, QueryFields DEF JoinInv
  <2>2. CASE query.asc
    <3>1. /\ Climbs(list') /\ (steady \cap swept') \subseteq ToSet(list')
          /\ \A e \in Keys : rows # <<>> /\ e = rows[Len(rows)] => ClimbedTo(e)'
          /\ rows = <<>> => ~p.more
          /\ p.more \/ SweptAll'
      BY <1>1, <1>2, <1>5, <2>2, PagedUp
    <3> DEFINE after == IF CursorList /\ ~p.more THEN NoParam ELSE Edge(rows, Len(rows))
    <3>2. pc' = "answered" /\ reply'.after = after /\ (p.more => MoreAbove')
      <4>1. CASE CursorList
        <5>1. /\ pc' = "answered" /\ reply' = CursorReply(p) /\ query.mode = "cursor"
          BY <4>1 DEF CursorList, Answer, p
        <5> QED  BY <1>1, <1>4, <3>1, <4>1, <5>1 DEF CursorReply, MoreAbove
      <4>2. CASE RelayList
        <5>1. /\ pc' = "answered" /\ reply' = RelayReply(p, FALSE) /\ query.mode = "relay"
          BY <2>2, <4>2 DEF RelayList, CountsBeyond, Answer, p
        <5>2. ~CursorList
          BY <5>1 DEF CursorList
        <5> QED  BY <1>1, <1>4, <2>2, <3>1, <5>1, <5>2 DEF RelayReply, MoreAbove
      <4> QED  BY <4>1, <4>2
    <3>3. reply'.after \in Keys => rows # <<>> /\ reply'.after = rows[Len(rows)]
      BY <1>4, <3>2
    <3>4. reply'.after \in Keys => (ClimbedTo(reply.after))'
      BY <3>1, <3>3 DEF ClimbedTo
    <3> QED  BY <1>1, <2>1, <2>2, <3>1, <3>2, <3>4 DEF OneWay
  <2>3. CASE ~query.asc
    <3>1. /\ Climbs(list') /\ (steady \cap swept') \subseteq ToSet(list')
          /\ \A e \in Keys : rows # <<>> /\ e = rows[1] => SunkTo(e)'
          /\ rows = <<>> => ~p.more
          /\ p.more \/ SweptAll'
      BY <1>1, <1>2, <1>5, <2>3, PagedDown
    <3>2. CASE pc' = "answered"
      <4>1. reply'.before = Edge(rows, 1) /\ (p.more => MoreBelow')
        <5>1. CASE CursorList
          <6>1. /\ pc' = "answered" /\ reply' = CursorReply(p) /\ query.mode = "cursor"
            BY <5>1 DEF CursorList, Answer, p
          <6>2. query.cursor
            BY <1>1, <2>3, <6>1 DEF Anchored
          <6> QED  BY <1>1, <1>4, <3>1, <6>1, <6>2 DEF CursorReply, MoreBelow
        <5>2. CASE RelayList
          <6>1. /\ reply' = RelayReply(p, FALSE) /\ query.mode = "relay"
            BY <3>2, <5>2 DEF RelayList, Answer, p
          <6> QED  BY <1>1, <1>4, <2>3, <3>1, <6>1 DEF RelayReply, MoreBelow
        <5> QED  BY <5>1, <5>2
      <4>2. reply'.before \in Keys => rows # <<>> /\ reply'.before = rows[1]
        BY <1>4, <4>1
      <4>3. reply'.before \in Keys => (SunkTo(reply.before))'
        BY <3>1, <4>2 DEF SunkTo
      <4> QED  BY <1>1, <2>1, <2>3, <3>1, <3>2, <4>1, <4>3 DEF OneWay
    <3>3. CASE pc' # "answered"
      <4>1. pc' = "beyond" /\ page' = <<p>>
        BY <3>3 DEF CursorList, RelayList, Answer, p
      <4>2. page'[1].rows = rows /\ page'[1].more = p.more
        BY <4>1
      <4>3. page'[1].rows # <<>> => (SunkTo(page[1].rows[1]))'
        BY <1>4, <3>1, <4>2 DEF SunkTo
      <4> QED  BY <1>1, <2>1, <2>3, <3>1, <4>1, <4>2, <4>3 DEF OneWay
    <3> QED  BY <3>2, <3>3
  <2> QED  BY <2>1, <2>2, <2>3
<1> QED  BY <1>1, <1>2, <1>5 DEF JoinInv, Keyed

LEMMA JoinBeyond ==
    ASSUME Shape, SingleKey, JoinInv, RelayBeyond
    PROVE  JoinInv'
<1>1. PICK p \in Pages : page = <<p>>
  BY DEF Shape, Queried, RelayBeyond
<1>2. /\ pc = "beyond" /\ query.mode = "relay" /\ ~query.asc
  BY DEF RelayBeyond, Shape, Queried, CountsBeyond
<1>3. \E b \in BOOLEAN : reply' = RelayReply(p, b) /\ pc' = "answered"
  BY <1>1, BeyondAnswers
<1>4. /\ pc' = "answered" /\ reply'.before = Edge(p.rows, 1) /\ reply'.has_prev = p.more
  BY <1>2, <1>3 DEF RelayReply
<1>5. UNCHANGED <<heap, query, list, first, steady, swept, turned>>
  BY DEF RelayBeyond, table, history
<1>6. p.rows \in Seq(Keys) /\ p.more \in BOOLEAN /\ page[1] = p
  BY <1>1 DEF Pages
<1>7. /\ Edge(p.rows, 1) \in Keys \cup {NoParam} /\ NoParam \notin Keys
      /\ p.rows # <<>> => Edge(p.rows, 1) = p.rows[1] /\ p.rows[1] \in Keys
      /\ p.rows = <<>> => Edge(p.rows, 1) = NoParam
  BY <1>6, EdgeTyped, MarkersAssumption DEF Edge, Keys, MarkersAssumption
<1>8. ASSUME Keyed, ~turned
      PROVE  OneWay'
  <2>1. /\ OneWay /\ ~first.asc
        /\ p.rows # <<>> => SunkTo(p.rows[1])
        /\ p.rows = <<>> => ~p.more
        /\ p.more \/ SweptAll
    BY <1>2, <1>6, <1>8 DEF JoinInv, OneWay
  <2>2. reply'.before \in Keys => (SunkTo(reply.before))'
    BY <1>4, <1>5, <1>7, <2>1 DEF SunkTo
  <2>3. p.more => MoreBelow'
    BY <1>2, <1>4, <1>5, <1>7, <2>1 DEF MoreBelow
  <2>4. SweptAll => SweptAll'
    BY <1>5 DEF SweptAll
  <2> QED  BY <1>4, <1>5, <2>1, <2>2, <2>3, <2>4 DEF OneWay
<1>9. Hits' = Hits
  BY <1>5 DEF Hits
<1> QED  BY <1>5, <1>8, <1>9 DEF JoinInv, Keyed

\* The writes of others take keys out of `steady` and touch nothing else.
LEMMA JoinWrite ==
    ASSUME Shape, JoinInv, Insert \/ Delete \/ Update
    PROVE  JoinInv'
<1>1. heap \in Seq(Rows) /\ Unique(heap)
  BY DEF Shape, TypeOK, Unique
<1>2. PICK h \in Seq(Rows), appended \in BOOLEAN : Commit(h, appended)
  BY <1>1, WritesKeep
<1>3. /\ heap' = h /\ steady' = steady \cap HitsOf(h)
      /\ UNCHANGED <<pc, query, page, reply, list, first, swept, turned>>
  BY <1>2 DEF Commit, handling
<1>4. Hits' = HitsOf(h)
  BY <1>3 DEF Hits
<1>5. OneWay => OneWay'
  BY <1>3 DEF OneWay, ClimbedTo, SunkTo, SweptAll, MoreAbove, MoreBelow
<1> QED  BY <1>3, <1>4, <1>5 DEF JoinInv, Keyed

LEMMA JoinNext ==
    ASSUME Shape, SingleKey, JoinInv, [Next]_vars
    PROVE  JoinInv'
<1>1. CASE UNCHANGED vars
  BY <1>1 DEF vars, table, handling, history, JoinInv, Hits, Keyed, OneWay, ClimbedTo,
              SunkTo, SweptAll, MoreAbove, MoreBelow
<1>2. CASE Turn
  <2>1. turned' = TRUE /\ steady' = steady /\ heap' = heap
    BY <1>2 DEF Turn, table
  <2> QED  BY <2>1 DEF JoinInv, Hits
<1>3. CASE Leave
  <2>1. first' = NoQuery /\ steady' = {}
    BY <1>3 DEF Leave
  <2> QED  BY <2>1 DEF JoinInv, Keyed
<1>4. CASE Count
  <2>1. /\ pc = "count" /\ pc' = "page"
        /\ UNCHANGED <<heap, query, list, first, steady, swept, turned>>
    BY <1>4 DEF Count, table, history
  <2>2. Hits' = Hits
    BY <2>1 DEF Hits
  <2>3. OneWay => OneWay'
    BY <2>1 DEF OneWay, ClimbedTo, SunkTo
  <2> QED  BY <2>1, <2>2, <2>3 DEF JoinInv, Keyed
<1>5. CASE OffsetList
  <2>1. ~Keyed /\ heap' = heap /\ first' = first /\ steady' = steady
    BY <1>5 DEF OffsetList, Shape, Queried, Keyed, table
  <2> QED  BY <2>1 DEF JoinInv, Keyed, Hits
<1>6. CASE Begin \/ Follow \/ CursorList \/ RelayList \/ RelayBeyond
            \/ Insert \/ Delete \/ Update
  BY <1>6, JoinBegin, JoinFollow, JoinPage, JoinBeyond, JoinWrite
<1> QED  BY <1>1, <1>2, <1>3, <1>4, <1>5, <1>6 DEF Next, Handler

\* What the invariant promises at the end of a traversal.
LEMMA Joins ==
    ASSUME Shape, SingleKey, JoinInv
    PROVE  CursorPagesJoin
<1>1. SUFFICES ASSUME Keyed, ~turned
               PROVE  /\ Climbs(list)
                      /\ ReachedEnd => {k \in steady : first.lo < k /\ k < first.hi}
                                          \subseteq ToSet(list)
  BY DEF CursorPagesJoin, Climbs
<1>2. OneWay
  BY <1>1 DEF JoinInv
<1>3. ReachedEnd => SweptAll
  <2>1. SUFFICES ASSUME ReachedEnd  PROVE SweptAll
    OBVIOUS
  <2>2. /\ pc = "answered" /\ query \in Queries /\ Ahead = NoQuery /\ query # NoQuery
        /\ reply \in Replies
    BY <2>1 DEF ReachedEnd, Shape, TypeOK
  <2>3. (Up = NoQuery => ~MoreAbove) /\ (Down = NoQuery => ~MoreBelow)
    BY <2>2, Announced
  <2>4. IF first.asc THEN ~MoreAbove ELSE ~MoreBelow
    BY <1>2, <2>2, <2>3 DEF Ahead, OneWay
  <2> QED  BY <1>2, <2>2, <2>4 DEF OneWay
<1>4. steady \subseteq Keys
  BY DEF Shape, TypeOK
<1> QED  BY <1>2, <1>3, <1>4 DEF OneWay, SweptAll

\* With a single-column key, the pages a client follows by cursor in one
\* direction join to a list in key order, without repetition, and when no more
\* is announced every row that matched all the time is in it: whatever others
\* insert, delete and update between and during its requests.
THEOREM PagesJoin == SingleKey => (Spec => []CursorPagesJoin)
<1> SUFFICES ASSUME SingleKey PROVE Spec => []CursorPagesJoin
  OBVIOUS
<1>1. Init => Shape /\ JoinInv
  BY ShapeInit, JoinInit
<1>2. Shape /\ JoinInv /\ [Next]_vars => (Shape /\ JoinInv)'
  BY ShapeNext, JoinNext
<1>3. Shape /\ JoinInv => CursorPagesJoin
  BY Joins
<1> QED  BY <1>1, <1>2, <1>3, PTL DEF Spec

-----------------------------------------------------------------------------
(* Pages by cursor are glances of a scan.                                  *)

\* An interval grows at either end without a hole.
LEMMA Stretch ==
    ASSUME NEW S \in SUBSET Int, Scan!Contiguous(S), NEW a \in Int, NEW b \in Int,
           S = {} \/ a - 1 \in S \/ b + 1 \in S \/ a > b
    PROVE  Scan!Contiguous(S \cup (a .. b))
<1>1. SUFFICES ASSUME NEW x \in S \cup (a .. b), NEW y \in S \cup (a .. b), NEW z \in x .. y
               PROVE  z \in S \cup (a .. b)
  BY DEF Scan!Contiguous
<1>2. /\ x \in Int /\ y \in Int /\ z \in Int /\ x <= z /\ z <= y
      /\ \A u, v \in S : \A w \in u .. v : w \in S
  BY <1>1 DEF Scan!Contiguous
<1>3. CASE x \in S /\ y \in S
  BY <1>2, <1>3
<1>4. CASE x \in a .. b /\ y \in a .. b
  BY <1>2, <1>4
<1>5. CASE x \in S /\ y \in a .. b
  <2>1. CASE a - 1 \in S
    BY <1>2, <1>5, <2>1
  <2>2. CASE b + 1 \in S
    <3>1. z \in x .. b + 1
      BY <1>2, <1>5
    <3> QED  BY <1>2, <1>5, <2>2, <3>1
  <2> QED  BY <1>5, <2>1, <2>2
<1>6. CASE x \in a .. b /\ y \in S
  <2>1. CASE a - 1 \in S
    <3>1. z \in a - 1 .. y
      BY <1>2, <1>6
    <3> QED  BY <1>2, <1>6, <2>1, <3>1
  <2>2. CASE b + 1 \in S
    BY <1>2, <1>6, <2>2
  <2> QED  BY <1>6, <2>1, <2>2
<1> QED  BY <1>1, <1>3, <1>4, <1>5, <1>6

\* The cursors in the client's hands are keys it has looked at.
ScanInv ==
    /\ Scan!Contiguous(swept)
    /\ Keyed /\ pc \in {"count", "page"} =>
          swept = {} \/ (IF query.asc THEN query.lo ELSE query.hi) \in swept
    /\ Keyed /\ pc = "answered" => {reply.after, reply.before} \cap Keys \subseteq swept
    /\ Keyed /\ pc = "beyond" => ToSet(page[1].rows) \subseteq swept

\* What a page looks at is the stretch of keys next to the cursor.
LEMMA GlanceIs ==
    ASSUME heap \in Seq(Rows), query \in Queries, SingleKey, NEW p, p = KeyedPage
    PROVE  \E a \in Keys, b \in Keys \cup {0} :
              /\ Glanced(p) = a .. b
              /\ a > b \/ IF query.asc THEN a = query.lo + 1 ELSE b = query.hi - 1
<1> DEFINE rows == p.rows
           f == rows[1]
           l == rows[Len(rows)]
<1>1. /\ query.lo \in 0 .. MaxKey /\ query.hi \in 1 .. MaxKey + 1 /\ query.asc \in BOOLEAN
      /\ MaxKey \in Nat \ {0} /\ Keys = 1 .. MaxKey
  BY QueryFields, ListingAssumption DEF ListingAssumption, Keys
<1>2. p.more \in BOOLEAN /\ (p.more => rows # <<>>)
  BY PageTyped DEF Pages
<1>3. p.more => /\ f \in Keys /\ l \in Keys
                /\ query.lo < f /\ f < query.hi /\ query.lo < l /\ l < query.hi
  BY <1>2, PageEdges DEF Window
<1> HIDE DEF f, l
<1> DEFINE a == IF p.more /\ ~query.asc THEN f ELSE query.lo + 1
           b == IF p.more /\ query.asc THEN l ELSE query.hi - 1
<1>4. Glanced(p) = {k \in Keys : a <= k /\ k <= b}
  <2>1. Glanced(p) = {k \in Keys : /\ query.lo < k /\ k < query.hi
                                   /\ p.more => IF query.asc THEN k <= l ELSE k >= f}
    BY <1>1, <1>2 DEF Glanced, f, l
  <2>2. CASE p.more /\ query.asc
    BY <1>1, <1>3, <2>1, <2>2
  <2>3. CASE p.more /\ ~query.asc
    BY <1>1, <1>3, <2>1, <2>3
  <2>4. CASE ~p.more
    BY <1>1, <2>1, <2>4
  <2> QED  BY <2>2, <2>3, <2>4
<1>5. a \in 1 .. MaxKey + 1 /\ b \in 0 .. MaxKey
  BY <1>1, <1>3
<1>6. query.asc => a = query.lo + 1
  OBVIOUS
<1>7. ~query.asc => b = query.hi - 1
  OBVIOUS
<1> HIDE DEF a, b
<1>8. CASE a <= b
  <2>1. a \in Keys /\ b \in Keys /\ Glanced(p) = a .. b
    BY <1>1, <1>4, <1>5, <1>8
  <2> QED  BY <1>1, <1>6, <1>7, <2>1
<1>9. CASE a > b
  <2>1. Glanced(p) = 1 .. 0 /\ 1 \in Keys /\ 0 \in Keys \cup {0}
    BY <1>1, <1>4, <1>5, <1>9
  <2>2. 1 > 0
    OBVIOUS
  <2> QED  BY <2>1, <2>2
<1> QED  BY <1>5, <1>8, <1>9

LEMMA ScanBegin ==
    ASSUME Shape, Begin
    PROVE  ScanInv'
<1>1. PICK r \in Questions : Submit(r)
  BY DEF Begin
<1>2. r \in Requests
  BY QuestionsAssumption DEF QuestionsAssumption, Requests
<1>3. swept' = {} /\ first' = query'
  BY DEF Begin, Shape, Queried
<1>4. pc' \in {"count", "page"} \/ (pc' = "answered" /\ first' = NoQuery)
  BY <1>1, <1>2, <1>3, Submitted
<1> QED  BY <1>3, <1>4 DEF ScanInv, Scan!Contiguous, Keyed

LEMMA ScanAsk ==
    ASSUME Shape, SingleKey, ScanInv, Follow \/ Turn
    PROVE  ScanInv'
<1>1. /\ \E r \in {Up, Down} : r # NoQuery /\ Submit(r)
      /\ UNCHANGED <<first, swept>> /\ pc = "answered"
  BY DEF Follow, Turn, Ahead, Behind
<1>2. PICK r \in {Up, Down} : r # NoQuery /\ Submit(r)
  BY <1>1
<1>3. reply \in Replies /\ query \in Queries \cup {NoQuery}
  BY <1>1 DEF Shape, TypeOK
<1>4. query \in Queries /\ r \in Requests /\ ~Rejected(r)
  BY <1>2, <1>3, GoesOn
<1>5. query' = QueryOf(r) /\ pc' \in {"count", "page"}
  BY <1>2, <1>4, Submitted
<1>6. ASSUME Keyed
      PROVE  (IF query'.asc THEN query'.lo ELSE query'.hi) \in swept
  <2>1. query.mode \in {"cursor", "relay"}
    BY <1>4, <1>6, ModeIs, QueryFields
  <2>2. (r = Up => MoreAbove) /\ (r = Down => MoreBelow)
    BY <1>2, <1>3, <1>4, Announced
  <2>3. {reply.after, reply.before} \cap Keys \subseteq swept
    BY <1>1, <1>6 DEF ScanInv
  <2>4. CASE r = Up
    <3>1. reply.after \in Keys /\ QueryOf(Up).asc = TRUE /\ QueryOf(Up).lo = reply.after
      <4>1. CASE query.mode = "cursor"
        BY <1>3, <1>4, <2>2, <2>4, <4>1, UpCursor
      <4>2. CASE query.mode = "relay"
        BY <1>3, <1>4, <2>2, <2>4, <4>2, UpRelay
      <4> QED  BY <2>1, <4>1, <4>2
    <3> QED  BY <1>5, <2>3, <2>4, <3>1
  <2>5. CASE r = Down
    <3>1. /\ reply.before \in Keys /\ QueryOf(Down).asc = FALSE
          /\ QueryOf(Down).hi = reply.before
      <4>1. CASE query.mode = "cursor"
        BY <1>3, <1>4, <2>2, <2>5, <4>1, DownCursor
      <4>2. CASE query.mode = "relay"
        <5>1. reply.before \in Keys
          BY <1>3, <1>4, <2>2, <2>5, <4>2, DownRelay
        <5>2. PICK c \in BOOLEAN : QueryOf(Down) =
                 [mode |-> "relay", size |-> query.size, page |-> 1, counted |-> TRUE,
                  asc |-> FALSE, cursor |-> c,
                  lo |-> IF query.asc THEN 0 ELSE query.lo, hi |-> reply.before]
          BY <1>3, <1>4, <2>2, <2>5, <4>2, DownRelay
        <5> QED  BY <5>1, <5>2
      <4> QED  BY <2>1, <4>1, <4>2
    <3> QED  BY <1>5, <2>3, <2>5, <3>1
  <2> QED  BY <1>2, <2>4, <2>5
<1> QED  BY <1>1, <1>5, <1>6 DEF ScanInv, Scan!Contiguous, Keyed

\* A page by cursor is one glance: what it looks at borders on what was looked
\* at before, and what it shows is what is there.
LEMMA ScanPage ==
    ASSUME Shape, SingleKey, ScanInv, CursorList \/ RelayList
    PROVE  ScanInv' /\ Scan!Glance
<1> DEFINE p == KeyedPage
           rows == p.rows
<1>1. /\ pc = "page" /\ query \in Queries /\ heap \in Seq(Rows) /\ Fetch(p)
      /\ query.mode \in {"cursor", "relay"} /\ query # NoQuery
      /\ UNCHANGED <<heap, query, first>> /\ list \in Seq(Keys) /\ swept \subseteq Keys
  BY DEF CursorList, RelayList, table, Shape, TypeOK, Queried
<1>2. Keyed /\ Keyed'
  BY <1>1 DEF Shape, Queried, Keyed
<1>3. p.more \in BOOLEAN /\ rows \in Seq(Keys) /\ ToSet(rows) = Hits \cap Glanced(p)
  BY <1>1, PageTyped, PageIs DEF Pages
<1>4. PICK a \in Keys, b \in Keys \cup {0} :
        /\ Glanced(p) = a .. b
        /\ a > b \/ IF query.asc THEN a = query.lo + 1 ELSE b = query.hi - 1
  BY <1>1, GlanceIs
<1> HIDE DEF p
<1>5. swept' = swept \cup (a .. b) /\ ToSet(list') = ToSet(list) \cup ToSet(rows)
  <2>1. list' = IF query.asc THEN list \o rows ELSE rows \o list
    BY <1>1 DEF Fetch, Collect
  <2>2. ToSet(list') = ToSet(list) \cup ToSet(rows)
    BY <1>1, <1>3, <2>1, ConcatIs
  <2> QED  BY <1>1, <1>4, <2>2 DEF Fetch
<1>6. Scan!Contiguous(swept')
  <2>1. swept \in SUBSET Int /\ a \in Int /\ b \in Int /\ Scan!Contiguous(swept)
    BY <1>1 DEF Keys, ScanInv
  <2>2. swept = {} \/ (IF query.asc THEN query.lo ELSE query.hi) \in swept
    BY <1>1, <1>2 DEF ScanInv
  <2>3. query.lo \in Int /\ query.hi \in Int
    BY <1>1, QueryFields
  <2>4. swept = {} \/ a - 1 \in swept \/ b + 1 \in swept \/ a > b
    BY <1>4, <2>1, <2>2, <2>3
  <2>5. Scan!Contiguous(swept \cup (a .. b))
    BY <2>1, <2>4, Stretch
  <2> QED  BY <1>5, <2>5
<1>7. ToSet(rows) \subseteq swept'
  BY <1>3, <1>4, <1>5
<1>8. pc' \in {"answered", "beyond"}
  BY DEF CursorList, RelayList, Answer
<1>9. pc' = "answered" => {reply'.after, reply'.before} \cap Keys \subseteq swept'
  <2>1. {NoParam, Edge(rows, 1), Edge(rows, Len(rows))} \cap Keys \subseteq ToSet(rows)
    BY <1>3, EdgeTyped, MarkersAssumption DEF Edge, Keys, MarkersAssumption
  <2>2. pc' = "answered" => reply' \in {CursorReply(p), RelayReply(p, FALSE)}
    BY DEF CursorList, RelayList, Answer, p
  <2>3. pc' = "answered" =>
          {reply'.after, reply'.before} \subseteq
             {NoParam, Edge(rows, 1), Edge(rows, Len(rows))}
    <3>1. /\ CursorReply(p).after \in {NoParam, Edge(rows, Len(rows))}
          /\ CursorReply(p).before \in {NoParam, Edge(rows, 1)}
      BY DEF CursorReply
    <3>2. /\ RelayReply(p, FALSE).after = Edge(rows, Len(rows))
          /\ RelayReply(p, FALSE).before = Edge(rows, 1)
      BY DEF RelayReply
    <3> QED  BY <2>2, <3>1, <3>2
  <2> QED  BY <1>7, <2>1, <2>3
<1>10. pc' = "beyond" => ToSet(page'[1].rows) \subseteq swept'
  <2>1. pc' = "beyond" => page' = <<p>>
    BY DEF CursorList, RelayList, Answer, p
  <2> QED  BY <1>7, <2>1
<1>11. ScanInv'
  BY <1>6, <1>8, <1>9, <1>10 DEF ScanInv, Scan!Contiguous
<1>12. Scan!Glance
  <2>1. Hits' = Hits
    BY <1>1 DEF Hits
  <2>2. ToSet(list') = ToSet(list) \cup (Hits \cap (a .. b))
    BY <1>3, <1>4, <1>5
  <2> QED  BY <1>2, <1>5, <1>6, <2>1, <2>2 DEF Scan!Glance
<1> QED  BY <1>11, <1>12

LEMMA ScanBeyond ==
    ASSUME Shape, ScanInv, RelayBeyond
    PROVE  ScanInv'
<1>1. PICK p \in Pages : page = <<p>>
  BY DEF Shape, Queried, RelayBeyond
<1>2. /\ pc = "beyond" /\ pc' = "answered" /\ UNCHANGED <<first, swept>>
      /\ \E b \in BOOLEAN : reply' = RelayReply(p, b)
  BY <1>1, BeyondAnswers
<1>3. {reply'.after, reply'.before} \cap Keys \subseteq ToSet(p.rows)
  <2>1. p.rows \in Seq(Keys)
    BY DEF Pages
  <2>2. {Edge(p.rows, 1), Edge(p.rows, Len(p.rows))} \cap Keys \subseteq ToSet(p.rows)
    BY <2>1, EdgeTyped, MarkersAssumption DEF Edge, Keys, MarkersAssumption
  <2>3. reply'.after = Edge(p.rows, Len(p.rows)) /\ reply'.before = Edge(p.rows, 1)
    BY <1>2 DEF RelayReply
  <2> QED  BY <2>2, <2>3
<1>4. Keyed => ToSet(p.rows) \subseteq swept
  BY <1>1, <1>2 DEF ScanInv
<1> QED  BY <1>2, <1>3, <1>4 DEF ScanInv, Scan!Contiguous, Keyed

\* Every step is a step of the scan, or none of its business.
LEMMA ScanNext ==
    ASSUME Shape, SingleKey, ScanInv, [Next]_vars
    PROVE  ScanInv' /\ [Scan!Next]_(Scan!vars)
<1>1. CASE UNCHANGED vars
  BY <1>1 DEF vars, table, handling, history, ScanInv, Scan!Contiguous, Scan!vars, Hits, Keyed
<1>2. CASE Begin
  <2>1. /\ heap' = heap /\ swept' = swept /\ list' = <<>> /\ first = NoQuery
    BY <1>2 DEF Begin, Shape, Queried, table
  <2>2. ToSet(<<>>) = {}
    BY DEF ToSet
  <2>3. UNCHANGED Scan!vars
    BY <2>1, <2>2 DEF Scan!vars, Hits, Keyed
  <2> QED  BY <1>2, <2>3, ScanBegin
<1>3. CASE Follow \/ Turn
  <2>1. UNCHANGED <<heap, swept, list, first>>
    BY <1>3 DEF Follow, Turn, table
  <2>2. UNCHANGED Scan!vars
    BY <2>1 DEF Scan!vars, Hits, Keyed
  <2> QED  BY <1>3, <2>2, ScanAsk
<1>4. CASE Leave
  <2>1. heap' = heap /\ swept' = {} /\ first' = NoQuery /\ pc' = "idle"
    BY <1>4 DEF Leave, table
  <2>2. Scan!Forget
    BY <2>1 DEF Scan!Forget, Hits, Keyed
  <2> QED  BY <2>1, <2>2 DEF ScanInv, Scan!Contiguous, Scan!Next
<1>5. CASE Count
  <2>1. /\ UNCHANGED <<heap, query, list, first, swept>> /\ pc = "count" /\ pc' = "page"
    BY <1>5 DEF Count, table, history
  <2> QED  BY <2>1 DEF ScanInv, Scan!Contiguous, Scan!vars, Hits, Keyed
<1>6. CASE OffsetList
  <2>1. /\ ~Keyed /\ UNCHANGED <<heap, first, swept>>
    BY <1>6 DEF OffsetList, Shape, Queried, Keyed, table
  <2> QED  BY <2>1 DEF ScanInv, Scan!Contiguous, Scan!vars, Hits, Keyed
<1>7. CASE CursorList \/ RelayList
  BY <1>7, ScanPage DEF Scan!Next
<1>8. CASE RelayBeyond
  <2>1. UNCHANGED <<heap, list, first, swept>>
    BY <1>8 DEF RelayBeyond, table, history
  <2>2. UNCHANGED Scan!vars
    BY <2>1 DEF Scan!vars, Hits, Keyed
  <2> QED  BY <1>8, <2>2, ScanBeyond
<1>9. CASE Insert \/ Delete \/ Update
  <2>1. heap \in Seq(Rows) /\ Unique(heap)
    BY DEF Shape, TypeOK, Unique
  <2>2. PICK h \in Seq(Rows), appended \in BOOLEAN : Commit(h, appended)
    BY <1>9, <2>1, WritesKeep
  <2>3. heap' = h /\ UNCHANGED <<pc, query, page, reply, list, first, swept>>
    BY <2>2 DEF Commit, handling
  <2>4. Hits' \in SUBSET Keys
    BY <2>3, HitsTyped DEF Hits
  <2>5. Scan!Change
    BY <2>3, <2>4 DEF Scan!Change, Keyed
  <2> QED  BY <2>3, <2>5 DEF ScanInv, Scan!Contiguous, Scan!Next, Keyed
<1> QED  BY <1>1, <1>2, <1>3, <1>4, <1>5, <1>6, <1>7, <1>8, <1>9 DEF Next, Handler

\* With a single-column key, pages by cursor implement KeyScan, whichever way
\* the client goes and turns: what it has looked at never has a hole, and what
\* it has received is exactly what was there when it looked.
THEOREM Refinement == SingleKey => (Spec => ImplementsKeyScan)
<1> SUFFICES ASSUME SingleKey PROVE Spec => Scan!Spec
  BY DEF ImplementsKeyScan
<1>1. Init => Shape /\ ScanInv /\ Scan!Init
  <2> SUFFICES ASSUME Init PROVE Shape /\ ScanInv /\ Scan!Init
    OBVIOUS
  <2>1. Shape
    BY ShapeInit
  <2>2. Hits \in SUBSET Keys
    BY <2>1, HitsTyped DEF Shape, TypeOK, Hits
  <2> QED  BY <2>1, <2>2 DEF Init, ScanInv, Scan!Init, Scan!Contiguous, Keyed
<1>2. Shape /\ ScanInv /\ [Next]_vars => (Shape /\ ScanInv)' /\ [Scan!Next]_(Scan!vars)
  BY ShapeNext, ScanNext
<1> QED  BY <1>1, <1>2, PTL DEF Spec, Scan!Spec

-----------------------------------------------------------------------------
(* Totals and announcements.                                               *)

\* page < ceil(total / size) just when there are rows behind the page.
LEMMA PagesLeft ==
    ASSUME NEW p \in Nat, NEW t \in Nat, NEW s \in Nat \ {0}
    PROVE  p < (t + s - 1) \div s <=> p * s < t
<1> DEFINE q == (t + s - 1) \div s
           r == (t + s - 1) % s
<1>1. q \in Int /\ r \in 0 .. s - 1 /\ t + s - 1 = q * s + r
  OBVIOUS
<1> HIDE DEF q, r
<1>2. ASSUME p < q  PROVE p * s < t
  <2>1. (p + 1) * s <= q * s
    BY <1>1, <1>2
  <2>2. (p + 1) * s = p * s + s
    OBVIOUS
  <2>3. p * s \in Int /\ q * s \in Int
    BY <1>1
  <2> DEFINE ps == p * s
             qs == q * s
  <2> HIDE DEF ps, qs
  <2>4. ps + s <= qs /\ ps \in Int /\ qs \in Int /\ t + s - 1 = qs + r
    BY <1>1, <2>1, <2>2, <2>3 DEF ps, qs
  <2>5. ps < t
    BY <1>1, <2>4
  <2> QED  BY <2>5 DEF ps
<1>3. ASSUME q <= p  PROVE t <= p * s
  <2>1. q * s <= p * s
    BY <1>1, <1>3
  <2>2. p * s \in Int /\ q * s \in Int
    BY <1>1
  <2> DEFINE ps == p * s
             qs == q * s
  <2> HIDE DEF ps, qs
  <2>3. qs <= ps /\ ps \in Int /\ qs \in Int /\ t + s - 1 = qs + r
    BY <1>1, <2>1, <2>2 DEF ps, qs
  <2>4. t <= ps
    BY <1>1, <2>3
  <2> QED  BY <2>4 DEF ps
<1>4. p * s \in Int
  OBVIOUS
<1> QED  BY <1>1, <1>2, <1>3, <1>4 DEF q

\* A page by cursor announces more just when there is more, and nothing that it
\* should show is left on the side it came from.
LEMMA PageInfo ==
    ASSUME heap \in Seq(Rows), query \in Queries, SingleKey, NEW p, NEW f, NEW l,
           p = KeyedPage, p.rows # <<>>, f = p.rows[1], l = p.rows[Len(p.rows)]
    PROVE  IF query.asc
           THEN /\ p.more <=> \E k \in Hits : l < k /\ k < query.hi
                /\ ~\E k \in Hits : query.lo < k /\ k < f
           ELSE /\ p.more <=> \E k \in Hits : query.lo < k /\ k < f
                /\ ~\E k \in Hits : l < k /\ k < query.hi
<1>1. /\ f \in Window /\ l \in Window /\ f \in Keys /\ l \in Keys
      /\ \A k \in ToSet(p.rows) : f <= k /\ k <= l
  BY PageEdges
<1>2. /\ ToSet(p.rows) = Hits \cap Glanced(p) /\ p.more \in BOOLEAN
      /\ p.more <=> \E k \in Window : k \notin Glanced(p)
  BY PageIs, PageTyped DEF Pages
<1>3. /\ query.lo \in Int /\ query.hi \in Int /\ Hits \in SUBSET Keys
      /\ \A k \in Keys : k \in Int
  BY QueryFields, HitsTyped DEF Hits, Keys
<1>4. query.lo < f /\ f < query.hi /\ query.lo < l /\ l < query.hi
  BY <1>1 DEF Window
<1>5. \A k : k \in Window <=> k \in Hits /\ query.lo < k /\ k < query.hi
  BY DEF Window
<1>6. CASE query.asc
  <2>1. \A k \in Keys : k \in Glanced(p) <=>
           /\ query.lo < k /\ k < query.hi
           /\ p.more => k <= l
    BY <1>6 DEF Glanced
  <2>2. \A k \in Hits : query.lo < k /\ k < f => FALSE
    <3>1. ASSUME NEW k \in Hits, query.lo < k, k < f PROVE FALSE
      <4>1. f <= l
        BY <1>1, <1>2, PageEdges
      <4>2. k \in Glanced(p)
        BY <1>1, <1>3, <1>4, <2>1, <3>1, <4>1
      <4> QED  BY <1>1, <1>2, <1>3, <3>1, <4>2
    <3> QED  BY <3>1
  <2>3. p.more => \E k \in Hits : l < k /\ k < query.hi
    <3>1. SUFFICES ASSUME p.more PROVE \E k \in Hits : l < k /\ k < query.hi
      OBVIOUS
    <3>2. PICK k \in Window : k \notin Glanced(p)
      BY <1>2, <3>1
    <3>3. k \in Hits /\ k < query.hi /\ ~(k <= l)
      BY <1>3, <1>5, <2>1, <3>2
    <3> QED  BY <1>1, <1>3, <3>3
  <2>4. ASSUME NEW k \in Hits, l < k, k < query.hi PROVE p.more
    <3>1. SUFFICES ASSUME ~p.more PROVE FALSE
      BY <1>2
    <3>2. k \in Glanced(p)
      BY <1>1, <1>3, <1>4, <2>1, <2>4, <3>1
    <3> QED  BY <1>1, <1>2, <1>3, <2>4, <3>2
  <2> QED  BY <1>6, <2>2, <2>3, <2>4
<1>7. CASE ~query.asc
  <2>1. \A k \in Keys : k \in Glanced(p) <=>
           /\ query.lo < k /\ k < query.hi
           /\ p.more => k >= f
    BY <1>7 DEF Glanced
  <2>2. \A k \in Hits : l < k /\ k < query.hi => FALSE
    <3>1. ASSUME NEW k \in Hits, l < k, k < query.hi PROVE FALSE
      <4>1. f <= l
        BY <1>1, <1>2, PageEdges
      <4>2. k \in Glanced(p)
        BY <1>1, <1>3, <1>4, <2>1, <3>1, <4>1
      <4> QED  BY <1>1, <1>2, <1>3, <3>1, <4>2
    <3> QED  BY <3>1
  <2>3. p.more => \E k \in Hits : query.lo < k /\ k < f
    <3>1. SUFFICES ASSUME p.more PROVE \E k \in Hits : query.lo < k /\ k < f
      OBVIOUS
    <3>2. PICK k \in Window : k \notin Glanced(p)
      BY <1>2, <3>1
    <3>3. k \in Hits /\ query.lo < k /\ ~(k >= f)
      BY <1>3, <1>5, <2>1, <3>2
    <3> QED  BY <1>1, <1>3, <3>3
  <2>4. ASSUME NEW k \in Hits, query.lo < k, k < f PROVE p.more
    <3>1. SUFFICES ASSUME ~p.more PROVE FALSE
      BY <1>2
    <3>2. k \in Glanced(p)
      BY <1>1, <1>3, <1>4, <2>1, <2>4, <3>1
    <3> QED  BY <1>1, <1>2, <1>3, <2>4, <3>2
  <2> QED  BY <1>7, <2>2, <2>3, <2>4
<1> QED  BY <1>6, <1>7

\* As long as nobody writes, the total is the table's, and the page that waits
\* is the page it would be now.
TotalsInv ==
    /\ quiet /\ pc \in {"page", "beyond", "answered"} /\ query # NoQuery /\ query.counted
          => total = Cardinality(Hits)
    /\ TotalsTrueIfQuiet

EdgesInv ==
    /\ quiet /\ pc = "beyond" => page = <<KeyedPage>>
    /\ EdgesTrueIfQuiet

LEMMA InfoAsk ==
    ASSUME Shape, Begin \/ Follow \/ Turn
    PROVE  TotalsInv' /\ EdgesInv'
<1>1. \E r \in Requests : Submit(r)
  <2>1. CASE Begin
    BY <2>1, QuestionsAssumption DEF Begin, QuestionsAssumption, Requests
  <2>2. CASE Follow \/ Turn
    <3>1. \E r \in {Up, Down} : r # NoQuery /\ Submit(r)
      BY <2>2 DEF Follow, Turn, Ahead, Behind
    <3>2. reply \in Replies /\ query \in Queries \cup {NoQuery}
      BY <2>2 DEF Follow, Turn, Shape, TypeOK
    <3> QED  BY <3>1, <3>2, GoesOn
  <2> QED  BY <2>1, <2>2
<1>2. PICK r \in Requests : Submit(r)
  BY <1>1
<1>3. pc' # "beyond" /\ (pc' \in {"page", "answered"} => query' = NoQuery \/ ~query'.counted)
  BY <1>2, Submitted DEF Queries
<1> QED  BY <1>3 DEF TotalsInv, EdgesInv, TotalsTrueIfQuiet, EdgesTrueIfQuiet, Undisturbed

\* The statements of a handler, if nothing comes between them.
LEMMA InfoOffset ==
    ASSUME Shape, TotalsInv, OffsetList
    PROVE  TotalsInv' /\ EdgesInv'
<1>1. /\ pc = "page" /\ query.mode = "offset" /\ pc' = "answered"
      /\ reply' = OffsetReply(OffsetPage) /\ UNCHANGED <<heap, query, total, quiet>>
      /\ query \in Queries /\ query # NoQuery /\ heap \in Seq(Rows)
  BY DEF OffsetList, Answer, table, Shape, TypeOK, Queried
<1>2. Hits' = Hits
  BY <1>1 DEF Hits
<1>3. ASSUME quiet, query.counted
      PROVE  /\ total = Cardinality(Hits)
             /\ HasNext(OffsetPage) <=> query.page * query.size < Cardinality(Hits)
  <2>1. total = Cardinality(Hits) /\ total \in Nat
    <3>1. Cardinality(Hits) \in 0 .. MaxKey
      BY <1>1, HitsCounted
    <3> QED  BY <1>1, <1>3, <3>1 DEF TotalsInv
  <2>2. query.page \in Nat /\ query.page > 0 /\ query.size \in Nat \ {0}
    BY <1>1, QueryFields
  <2>3. CASE total # 0
    <3>1. HasNext(OffsetPage) <=> query.page < (total + query.size - 1) \div query.size
      BY <1>3, <2>3 DEF HasNext
    <3>2. query.page < (total + query.size - 1) \div query.size
            <=> query.page * query.size < total
      BY <2>1, <2>2, PagesLeft
    <3> QED  BY <2>1, <3>1, <3>2
  <2>4. CASE total = 0
    <3>1. Hits = {}
      <4>1. IsFiniteSet(Hits)
        BY <1>1, HitsTyped, Counted, ListingAssumption DEF Hits, Keys, ListingAssumption
      <4> QED  BY <2>1, <2>4, <4>1, FS_EmptySet
    <3>2. Len(OffsetPage) = 0
      <4> DEFINE m == Matching(heap)
                 n == Len(m)
      <4>1. m \in Seq(Keys) /\ ToSet(m) = {}
        BY <1>1, <3>1, MatchingIs DEF Hits
      <4>2. n \in Nat /\ DOMAIN m = 1 .. n
        BY <4>1, LenProperties
      <4>3. n = 0
        <5>1. n # 0 => m[1] \in ToSet(m)
          BY <4>2 DEF ToSet
        <5> QED  BY <4>1, <5>1
      <4> HIDE DEF n, m
      <4>4. /\ Skip \in Nat
            /\ Len(OffsetPage) = IF Skip + query.size < n THEN query.size
                                 ELSE IF Skip < n THEN n - Skip ELSE 0
        BY <1>1, OffsetPageIs DEF n, m
      <4> QED  BY <2>2, <4>3, <4>4
    <3>3. ~HasNext(OffsetPage)
      BY <1>3, <2>2, <2>4, <3>2 DEF HasNext
    <3>4. ~(query.page * query.size < 0)
      BY <2>2
    <3> QED  BY <2>1, <2>4, <3>3, <3>4
  <2> QED  BY <2>1, <2>3, <2>4
<1>4. reply'.total = total /\ reply'.has_next = HasNext(OffsetPage)
  BY <1>1 DEF OffsetReply
<1>5. TotalsTrueIfQuiet'
  BY <1>1, <1>2, <1>3, <1>4 DEF TotalsTrueIfQuiet, Undisturbed
<1>6. EdgesInv'
  BY <1>1 DEF EdgesInv, EdgesTrueIfQuiet
<1> QED  BY <1>1, <1>2, <1>3, <1>5, <1>6 DEF TotalsInv

LEMMA TotalsPage ==
    ASSUME Shape, TotalsInv, CursorList \/ RelayList \/ RelayBeyond
    PROVE  TotalsInv'
<1>1. /\ pc \in {"page", "beyond"} /\ UNCHANGED <<heap, query, total, quiet>>
      /\ query \in Queries /\ query # NoQuery /\ query.mode # "offset"
      /\ query.mode = "cursor" => ~query.counted
  BY DEF CursorList, RelayList, RelayBeyond, table, history, Shape, TypeOK, Queried, Anchored
<1>2. Hits' = Hits
  BY <1>1 DEF Hits
<1>3. query.mode = "relay" /\ pc' = "answered" => reply'.total = total
  <2>1. SUFFICES ASSUME query.mode = "relay", pc' = "answered" PROVE reply'.total = total
    OBVIOUS
  <2>2. \E p : \E b : reply' = RelayReply(p, b)
    <3>1. CASE RelayList
      BY <2>1, <3>1 DEF RelayList, Answer
    <3>2. CASE RelayBeyond
      BY <3>2 DEF RelayBeyond, Answer
    <3> QED  BY <2>1, <3>1, <3>2 DEF CursorList
  <2> QED  BY <2>2 DEF RelayReply
<1>4. query.mode \in {"cursor", "relay", "offset"}
  BY <1>1, QueryFields
<1> QED  BY <1>1, <1>2, <1>3, <1>4 DEF TotalsInv, TotalsTrueIfQuiet, Undisturbed

LEMMA TotalsNext ==
    ASSUME Shape, TotalsInv, [Next]_vars
    PROVE  TotalsInv'
<1>1. CASE UNCHANGED vars
  <2>1. UNCHANGED <<heap, pc, query, total, reply, quiet>>
    BY <1>1 DEF vars, table, handling, history
  <2>2. Hits' = Hits
    BY <2>1 DEF Hits
  <2> QED  BY <2>1, <2>2 DEF TotalsInv, TotalsTrueIfQuiet, Undisturbed
<1>2. CASE Leave
  <2>1. pc' = "idle" /\ query' = NoQuery
    BY <1>2 DEF Leave
  <2> QED  BY <2>1 DEF TotalsInv, TotalsTrueIfQuiet, Undisturbed
<1>3. CASE Count
  <2>1. pc' = "page" /\ total' = Cardinality(Hits) /\ heap' = heap
    BY <1>3 DEF Count, table
  <2>2. Hits' = Hits
    BY <2>1 DEF Hits
  <2> QED  BY <2>1, <2>2 DEF TotalsInv, TotalsTrueIfQuiet, Undisturbed
<1>4. CASE Insert \/ Delete \/ Update
  <2>1. quiet' = FALSE
    BY <1>4 DEF Insert, Delete, Update, Commit
  <2> QED  BY <2>1 DEF TotalsInv, TotalsTrueIfQuiet, Undisturbed
<1>5. CASE Begin \/ Follow \/ Turn \/ OffsetList \/ CursorList \/ RelayList \/ RelayBeyond
  BY <1>5, InfoAsk, InfoOffset, TotalsPage
<1> QED  BY <1>1, <1>2, <1>3, <1>4, <1>5 DEF Next, Handler

\* If nobody writes during a request its total is the number of matching rows,
\* and a page by number has another after it just when rows are left; with a
\* single key or without (_offset_list, the list resolver).
THEOREM TotalsTrue == Spec => []TotalsTrueIfQuiet
<1>1. Init => Shape /\ TotalsInv
  <2>1. Init => TotalsInv
    BY DEF Init, TotalsInv, TotalsTrueIfQuiet, Undisturbed
  <2> QED  BY <2>1, ShapeInit
<1>2. Shape /\ TotalsInv /\ [Next]_vars => (Shape /\ TotalsInv)'
  BY ShapeNext, TotalsNext
<1>3. TotalsInv => TotalsTrueIfQuiet
  BY DEF TotalsInv
<1> QED  BY <1>1, <1>2, <1>3, PTL DEF Spec

\* What a Relay answer says of the table its page was read from.
Tells(a, silent) ==
    LET after  == \E k \in Hits :
                     a.after < k /\ k < (IF query.asc THEN query.hi ELSE MaxKey + 1)
        before == \E k \in Hits :
                     (IF query.asc THEN 0 ELSE query.lo) < k /\ k < a.before
    IN  /\ a.has_next => after
        /\ after => a.has_next \/ (silent /\ ~query.asc)
        /\ before => a.has_prev
        /\ a.has_prev /\ ~query.asc => before

LEMMA RelayTells ==
    ASSUME heap \in Seq(Rows), query \in Queries, SingleKey, Anchored(query),
           query.mode = "relay", NEW p, p = KeyedPage, p.rows # <<>>, NEW b \in BOOLEAN,
           NEW silent \in BOOLEAN,
           ~query.asc => \/ b <=> \E k \in Hits : k >= query.hi
                         \/ silent /\ ~b,
           NEW a, a = RelayReply(p, b)
    PROVE  Tells(a, silent)
<1> DEFINE f == p.rows[1]
           l == p.rows[Len(p.rows)]
<1>1. /\ f \in Window /\ l \in Window /\ f \in Keys /\ l \in Keys
      /\ Edge(p.rows, 1) = f /\ Edge(p.rows, Len(p.rows)) = l
  BY PageEdges
<1>2. IF query.asc
      THEN /\ p.more <=> \E k \in Hits : l < k /\ k < query.hi
           /\ ~\E k \in Hits : query.lo < k /\ k < f
      ELSE /\ p.more <=> \E k \in Hits : query.lo < k /\ k < f
           /\ ~\E k \in Hits : l < k /\ k < query.hi
  BY PageInfo
<1> HIDE DEF f, l
<1>3. /\ a.after = l /\ a.before = f
      /\ a.has_next = IF query.asc THEN p.more ELSE b
      /\ a.has_prev = IF query.asc THEN query.cursor ELSE p.more
  BY <1>1 DEF RelayReply
<1>4. /\ query.asc \in BOOLEAN /\ query.cursor \in BOOLEAN /\ p.more \in BOOLEAN
      /\ query.hi \in Int /\ MaxKey \in Int
      /\ \A k \in Hits : k \in Int /\ 0 < k /\ k < MaxKey + 1
  <2>1. MaxKey \in Nat
    BY ListingAssumption DEF ListingAssumption
  <2>2. Hits \in SUBSET (1 .. MaxKey)
    BY HitsTyped DEF Hits, Keys
  <2>3. p.more \in BOOLEAN
    BY PageTyped DEF Pages
  <2>4. query.asc \in BOOLEAN /\ query.cursor \in BOOLEAN /\ query.hi \in Int
    BY QueryFields
  <2> QED  BY <2>1, <2>2, <2>3, <2>4
<1>5. CASE query.asc
  <2>1. ~query.cursor => query.lo = 0
    BY DEF Anchored
  <2>2. (\E k \in Hits : 0 < k /\ k < f) => query.cursor
    BY <1>2, <1>5, <2>1
  <2> QED  BY <1>2, <1>3, <1>5, <2>2 DEF Tells
<1>6. CASE ~query.asc
  <2>1. l < query.hi /\ l \in Int
    BY <1>1 DEF Window, Keys
  <2>2. (\E k \in Hits : k >= query.hi) <=> \E k \in Hits : l < k /\ k < MaxKey + 1
    <3>1. ASSUME NEW k \in Hits PROVE k >= query.hi <=> l < k /\ k < MaxKey + 1
      BY <1>2, <1>4, <1>6, <2>1
    <3> QED  BY <3>1
  <2> QED  BY <1>2, <1>3, <1>6, <2>2 DEF Tells
<1> QED  BY <1>4, <1>5, <1>6

LEMMA EdgesPage ==
    ASSUME Shape, SingleKey, CursorList \/ RelayList
    PROVE  EdgesInv'
<1>1. /\ pc = "page" /\ UNCHANGED <<heap, query, total, quiet>> /\ Anchored(query)
      /\ query \in Queries /\ query # NoQuery /\ heap \in Seq(Rows) /\ failed' \in BOOLEAN
  BY DEF CursorList, RelayList, table, Shape, TypeOK, Queried
<1>2. Hits' = Hits /\ KeyedPage' = KeyedPage
  <2>1. Hits' = Hits
    BY <1>1 DEF Hits
  <2>2. Window' = Window
    BY <1>1, <2>1 DEF Window
  <2>3. Ordered' = Ordered
    BY <1>1, <2>2 DEF Ordered
  <2> QED  BY <1>1, <2>1, <2>3 DEF KeyedPage
<1>3. pc' = "beyond" => page' = <<KeyedPage>>
  BY DEF CursorList, RelayList, Answer
<1>4. EdgesTrueIfQuiet'
  <2>1. SUFFICES ASSUME pc' = "answered", query.mode = "relay" PROVE EdgesTrueIfQuiet'
    BY <1>1 DEF EdgesTrueIfQuiet, Undisturbed
  <2>2. reply' = RelayReply(KeyedPage, FALSE) /\ ~CountsBeyond
    BY <2>1 DEF CursorList, RelayList, Answer
  <2>3. ~query.asc => ~\E k \in Hits : k >= query.hi
    <3>1. ~query.asc => query.hi \notin Keys /\ query.hi \in 1 .. MaxKey + 1
      BY <1>1, <2>2, QueryFields DEF CountsBeyond
    <3>2. Hits \in SUBSET Keys /\ Keys = 1 .. MaxKey /\ MaxKey \in Nat
      BY <1>1, HitsTyped, ListingAssumption DEF Hits, Keys, ListingAssumption
    <3> QED  BY <3>1, <3>2
  <2> DEFINE p == KeyedPage
             a == RelayReply(p, FALSE)
  <2>4. a.rows = p.rows
    BY DEF RelayReply
  <2>5. p.rows # <<>> => Tells(a, failed')
    BY <1>1, <2>1, <2>3, RelayTells
  <2>6. reply' = a
    BY <2>2
  <2> HIDE DEF a, p
  <2> QED  BY <1>1, <1>2, <2>4, <2>5, <2>6 DEF EdgesTrueIfQuiet, Tells
<1> QED  BY <1>1, <1>2, <1>3, <1>4 DEF EdgesInv

LEMMA EdgesBeyond ==
    ASSUME Shape, SingleKey, EdgesInv, RelayBeyond
    PROVE  EdgesInv'
<1>1. /\ pc = "beyond" /\ query.mode = "relay" /\ ~query.asc /\ Anchored(query)
      /\ query \in Queries /\ query # NoQuery /\ heap \in Seq(Rows) /\ failed \in BOOLEAN
  BY DEF RelayBeyond, Shape, TypeOK, Queried, CountsBeyond
<1>2. PICK p \in Pages : page = <<p>>
  BY DEF Shape, Queried, RelayBeyond
<1>3. PICK b \in BOOLEAN :
        /\ pc' = "answered" /\ reply' = RelayReply(p, b) /\ UNCHANGED <<heap, query, quiet>>
        /\ \/ failed' = failed /\ (b <=> \E k \in Hits : k >= query.hi)
           \/ failed' = TRUE /\ ~b
  BY <1>2, BeyondAnswers
<1>4. Hits' = Hits
  BY <1>3 DEF Hits
<1>5. EdgesTrueIfQuiet'
  <2>1. SUFFICES ASSUME quiet PROVE EdgesTrueIfQuiet'
    BY <1>3 DEF EdgesTrueIfQuiet, Undisturbed
  <2> DEFINE a == RelayReply(p, b)
  <2>2. a.rows = p.rows
    BY DEF RelayReply
  <2>3. p = KeyedPage
    BY <1>1, <1>2, <2>1 DEF EdgesInv
  <2>4. p.rows # <<>> => Tells(a, failed')
    <3>1. failed' \in BOOLEAN
      BY <1>1, <1>3
    <3> QED  BY <1>1, <1>3, <2>3, <3>1, RelayTells
  <2>5. reply' = a
    BY <1>3
  <2> HIDE DEF a
  <2> QED  BY <1>1, <1>3, <1>4, <2>2, <2>4, <2>5 DEF EdgesTrueIfQuiet, Tells
<1> QED  BY <1>3, <1>5 DEF EdgesInv

LEMMA EdgesNext ==
    ASSUME Shape, SingleKey, TotalsInv, EdgesInv, [Next]_vars
    PROVE  EdgesInv'
<1>1. CASE UNCHANGED vars
  <2>1. UNCHANGED <<heap, pc, query, page, reply, quiet, failed>>
    BY <1>1 DEF vars, table, handling, history
  <2>2. Hits' = Hits
    BY <2>1 DEF Hits
  <2>3. Window' = Window
    BY <2>1, <2>2 DEF Window
  <2>4. Ordered' = Ordered
    BY <2>1, <2>3 DEF Ordered
  <2>5. KeyedPage' = KeyedPage
    BY <2>1, <2>4 DEF KeyedPage
  <2> QED  BY <2>1, <2>2, <2>5 DEF EdgesInv, EdgesTrueIfQuiet, Undisturbed
<1>2. CASE Leave \/ Count
  <2>1. pc' \in {"idle", "page"}
    BY <1>2 DEF Leave, Count
  <2> QED  BY <2>1 DEF EdgesInv, EdgesTrueIfQuiet, Undisturbed
<1>3. CASE Insert \/ Delete \/ Update
  <2>1. quiet' = FALSE
    BY <1>3 DEF Insert, Delete, Update, Commit
  <2> QED  BY <2>1 DEF EdgesInv, EdgesTrueIfQuiet, Undisturbed
<1>4. CASE Begin \/ Follow \/ Turn \/ OffsetList \/ CursorList \/ RelayList \/ RelayBeyond
  BY <1>4, InfoAsk, InfoOffset, EdgesPage, EdgesBeyond
<1> QED  BY <1>1, <1>2, <1>3, <1>4 DEF Next, Handler

\* If nobody writes during a request its answer describes one table: the total
\* is right; a page after this one is announced just when rows follow, unless a
\* backward page's look beyond failed, when none is; and one before it whenever
\* rows precede, on a backward page only then (the list resolver).
THEOREM InfoTrue == SingleKey => (Spec => []InfoTrueIfQuiet)
<1> SUFFICES ASSUME SingleKey PROVE Spec => []InfoTrueIfQuiet
  OBVIOUS
<1>1. Init => Shape /\ TotalsInv /\ EdgesInv
  <2>1. Init => TotalsInv /\ EdgesInv
    BY DEF Init, TotalsInv, TotalsTrueIfQuiet, EdgesInv, EdgesTrueIfQuiet, Undisturbed
  <2> QED  BY <2>1, ShapeInit
<1>2. Shape /\ TotalsInv /\ EdgesInv /\ [Next]_vars => (Shape /\ TotalsInv /\ EdgesInv)'
  BY ShapeNext, TotalsNext, EdgesNext
<1>3. TotalsInv /\ EdgesInv => InfoTrueIfQuiet
  BY DEF TotalsInv, EdgesInv, InfoTrueIfQuiet
<1> QED  BY <1>1, <1>2, <1>3, PTL DEF Spec

-----------------------------------------------------------------------------
(* Pages by offset cover a table that only grows at its end.               *)

\* The sequence s is the beginning of t.
Starts(s, t) == Len(s) <= Len(t) /\ \A i \in 1 .. Len(s) : s[i] = t[i]

\* There is one way to put numbers in ascending order: up to the greatest, it
\* does not depend on those that follow.
LEMMA ClimbersAgree ==
    ASSUME NEW s \in Seq(Int), NEW t \in Seq(Int), Climbs(s), Climbs(t),
           ToSet(s) \subseteq ToSet(t),
           \A x \in ToSet(t) \ ToSet(s), y \in ToSet(s) : y < x
    PROVE  Starts(s, t)
<1> DEFINE m == Len(s)
           n == Len(t)
<1>1. /\ m \in Nat /\ n \in Nat /\ DOMAIN s = 1 .. m /\ DOMAIN t = 1 .. n
      /\ \A i \in 1 .. m : s[i] \in Int /\ s[i] \in ToSet(s)
      /\ \A i \in 1 .. n : t[i] \in Int /\ t[i] \in ToSet(t)
  BY LenProperties, ElementOfSeq DEF ToSet
<1>2. \A x \in ToSet(s) : (\E i \in 1 .. m : s[i] = x) /\ (\E i \in 1 .. n : t[i] = x)
  BY <1>1 DEF ToSet
<1> HIDE DEF m, n
<1>3. /\ \A i, j \in 1 .. m : i < j => s[i] < s[j]
      /\ \A i, j \in 1 .. n : i < j => t[i] < t[j]
  BY <1>1 DEF Climbs
<1> DEFINE Bad == {i \in 1 .. m : i > n \/ s[i] # t[i]}
<1>4. Bad = {}
  <2>1. SUFFICES ASSUME Bad # {} PROVE FALSE
    OBVIOUS
  <2>2. PICK i \in Bad : \A k \in Bad : i <= k
    <3>1. Bad \in SUBSET Nat
      OBVIOUS
    <3> HIDE DEF Bad
    <3> QED  BY <2>1, <3>1, Least
  <2>3. /\ i \in 1 .. m /\ (i > n \/ s[i] # t[i])
        /\ \A k \in 1 .. m : k < i => k <= n /\ s[k] = t[k]
    BY <1>1, <2>2
  <2> HIDE DEF Bad
  <2>4. PICK j \in 1 .. n : t[j] = s[i]
    BY <1>1, <1>2, <2>3
  <2>5. j > i
    <3>1. j < i => s[j] = s[i] /\ j \in 1 .. m
      BY <1>1, <2>3, <2>4
    <3>2. ~(j < i)
      BY <1>1, <1>3, <2>3, <3>1
    <3> QED  BY <1>1, <2>3, <2>4, <3>2
  <2>6. i \in 1 .. n /\ t[i] < s[i] /\ t[i] \in ToSet(t)
    BY <1>1, <1>3, <2>3, <2>4, <2>5
  <2>7. CASE t[i] \in ToSet(s)
    <3>1. PICK k \in 1 .. m : s[k] = t[i]
      BY <1>2, <2>7
    <3>2. k < i
      <4>1. i <= k => s[i] <= s[k]
        BY <1>1, <1>3, <2>3
      <4> QED  BY <1>1, <2>3, <2>6, <3>1, <4>1
    <3>3. s[k] = t[k] /\ k \in 1 .. n
      BY <1>1, <2>3, <3>2
    <3>4. t[k] < t[i]
      BY <1>3, <2>6, <3>2, <3>3
    <3>5. t[k] = t[i] /\ t[k] \in Int
      BY <1>1, <3>1, <3>3
    <3> QED  BY <3>4, <3>5
  <2>8. CASE t[i] \notin ToSet(s)
    BY <1>1, <2>3, <2>6, <2>8
  <2> QED  BY <2>7, <2>8
<1>5. m <= n /\ \A i \in 1 .. m : s[i] = t[i]
  <2>1. \A i \in 1 .. m : i <= n /\ s[i] = t[i]
    BY <1>1, <1>4
  <2>2. m # 0 => m \in 1 .. m
    BY <1>1
  <2> QED  BY <1>1, <2>1, <2>2
<1> QED  BY <1>5 DEF Starts, m, n

\* A row that is appended comes last among the matching ones.
LEMMA MatchingGrows ==
    ASSUME NEW h \in Seq(Rows), NEW row \in Rows
    PROVE  Starts(Matching(h), Matching(Append(h, row)))
<1> DEFINE g == Append(h, row)
           n == Len(h)
           s == Ascending(Matches(h))
           t == Ascending(Matches(g))
<1>1. /\ g \in Seq(Rows) /\ Len(g) = n + 1 /\ n \in Nat
      /\ \A i \in 1 .. n : g[i] = h[i]
  BY AppendProperties, LenProperties
<1> HIDE DEF g
<1>2. DOMAIN h = 1 .. n /\ DOMAIN g = 1 .. n + 1
  BY <1>1, LenProperties
<1>3. /\ Matches(h) \in SUBSET (1 .. n) /\ Matches(g) \in SUBSET (1 .. n + 1)
      /\ \A i \in 1 .. n : i \in Matches(h) <=> i \in Matches(g)
  BY <1>1, <1>2 DEF Matches
<1>4. /\ s \in Seq(Matches(h)) /\ Climbs(s) /\ ToSet(s) = Matches(h)
      /\ Len(s) = Cardinality(Matches(h))
  BY <1>1, <1>3, AscendingIs
<1>5. /\ t \in Seq(Matches(g)) /\ Climbs(t) /\ ToSet(t) = Matches(g)
      /\ Len(t) = Cardinality(Matches(g))
  <2>1. n + 1 \in Nat
    BY <1>1
  <2> QED  BY <1>3, <2>1, AscendingIs
<1> HIDE DEF s, t, n
<1>6. Starts(s, t)
  <2>1. s \in Seq(Int) /\ t \in Seq(Int)
    <3>1. Matches(h) \subseteq Int /\ Matches(g) \subseteq Int
      BY <1>1, <1>3
    <3> QED  BY <1>4, <1>5, <3>1
  <2>2. ToSet(s) \subseteq ToSet(t)
    BY <1>1, <1>3, <1>4, <1>5
  <2>3. \A x \in ToSet(t) \ ToSet(s), y \in ToSet(s) : y < x
    BY <1>1, <1>3, <1>4, <1>5
  <2> QED  BY <1>4, <1>5, <2>1, <2>2, <2>3, ClimbersAgree
<1>7. /\ Matching(h) = [i \in 1 .. Len(s) |-> h[s[i]].key]
      /\ Matching(g) = [i \in 1 .. Len(t) |-> g[t[i]].key]
  <2>1. DOMAIN s = 1 .. Len(s) /\ DOMAIN t = 1 .. Len(t)
    BY <1>4, <1>5, LenProperties
  <2> QED  BY <2>1 DEF Matching, s, t
<1>8. \A i \in 1 .. Len(s) : s[i] \in 1 .. n /\ i \in 1 .. Len(t) /\ t[i] = s[i]
  <2>1. \A i \in 1 .. Len(s) : s[i] \in Matches(h)
    BY <1>4, ElementOfSeq
  <2>2. Len(s) \in Nat /\ Len(t) \in Nat
    BY <1>4, <1>5, LenProperties
  <2> QED  BY <1>3, <1>6, <2>1, <2>2 DEF Starts
<1>9. \A i \in 1 .. Len(s) : Matching(h)[i] = Matching(g)[i]
  <2>1. ASSUME NEW i \in 1 .. Len(s) PROVE h[s[i]].key = g[t[i]].key
    BY <1>1, <1>8
  <2> QED  BY <1>7, <1>8, <2>1
<1>10. Len(Matching(h)) = Len(s) /\ Len(Matching(g)) = Len(t) /\ Len(s) <= Len(t)
  BY <1>1, <1>4, <1>5, <1>6, MatchingIs DEF Starts, s, t
<1> QED  BY <1>9, <1>10 DEF Starts, g

\* With unique keys there are as many matching rows as keys of matching rows.
LEMMA HitsAreMatches ==
    ASSUME NEW h \in Seq(Rows), Unique(h)
    PROVE  /\ Cardinality(HitsOf(h)) = Len(Matching(h)) /\ Len(Matching(h)) \in Nat
           /\ Len(Matching(h)) <= MaxKey
           /\ IsInjective(Matching(h))
<1> DEFINE m == Matching(h)
           n == Len(m)
<1>1. m \in Seq(Keys) /\ ToSet(m) = HitsOf(h) /\ IsInjective(m)
  BY MatchingIs DEF Unique
<1> HIDE DEF m
<1>2. n \in Nat /\ DOMAIN m = 1 .. n
  BY <1>1, LenProperties
<1>3. m \in [1 .. n -> HitsOf(h)]
  BY <1>1, <1>2 DEF ToSet
<1>4. m \in Bijection(1 .. n, HitsOf(h))
  BY <1>1, <1>2, <1>3 DEF Bijection, Injection, Surjection, ToSet
<1>5. ExistsBijection(1 .. n, HitsOf(h))
  BY <1>4 DEF ExistsBijection
<1>6. IsFiniteSet(1 .. n) /\ Cardinality(1 .. n) = n
  <2> HIDE DEF n
  <2> QED  BY <1>2, FS_Interval
<1>7. Cardinality(HitsOf(h)) = n /\ IsFiniteSet(HitsOf(h))
  BY <1>5, <1>6, FS_Bijection
<1>8. n <= MaxKey
  <2>1. MaxKey \in Nat /\ HitsOf(h) \subseteq 1 .. MaxKey
    BY HitsTyped, ListingAssumption DEF ListingAssumption, Keys
  <2>2. IsFiniteSet(1 .. MaxKey) /\ Cardinality(1 .. MaxKey) = MaxKey
    BY <2>1, FS_Interval
  <2> QED  BY <1>7, <2>1, <2>2, FS_Subset
<1> QED  BY <1>1, <1>2, <1>7, <1>8 DEF m

\* While rows are only appended, what the client has put together is the front
\* of the matching rows, as far as the pages it has asked for reach; the count
\* that tells it when to stop takes in all that were there from the start.
FrontOf(m) ==
    /\ query.mode = "offset" /\ Starts(list, m)
    /\ pc \in {"count", "page"} => Len(list) = Skip
    /\ pc = "page" /\ query.counted =>
          total <= Len(m) /\ \A k \in steady : \E i \in 1 .. total : m[i] = k
    /\ pc = "answered" =>
          IF reply.has_next THEN Len(list) = query.page * query.size
          ELSE steady \subseteq ToSet(list)

OffsetInv ==
    /\ steady \subseteq Hits
    /\ first # NoQuery /\ first.mode = "offset" /\ first.page = 1 /\ calm /\ ~turned
          => FrontOf(Matching(heap))

LEMMA OffsetInit ==
    ASSUME Init
    PROVE  OffsetInv
BY DEF Init, OffsetInv

LEMMA OffsetBegin ==
    ASSUME Shape, Begin
    PROVE  OffsetInv'
<1>1. PICK r \in Questions : Submit(r)
  BY DEF Begin
<1>2. r \in Requests
  BY QuestionsAssumption DEF QuestionsAssumption, Requests
<1>3. first' = query' /\ steady' = Hits /\ heap' = heap /\ list' = <<>>
  BY DEF Begin, Shape, Queried, table
<1>4. Hits' = Hits
  BY <1>3 DEF Hits
<1>5. ASSUME query' # NoQuery, query'.mode = "offset", query'.page = 1
      PROVE  FrontOf(Matching(heap))'
  <2>1. /\ query' \in Queries /\ pc' \in {"count", "page"}
        /\ (pc' = "count") = query'.counted
    BY <1>1, <1>2, <1>5, Submitted
  <2>2. Skip' = 0
    <3>1. query'.size \in Int
      BY <2>1 DEF Queries
    <3> QED  BY <1>5, <3>1 DEF Skip
  <2>3. Starts(list, Matching(heap))'
    <3>1. Matching(heap) \in Seq(Keys)
      BY MatchingIs DEF Shape, TypeOK
    <3>2. Len(Matching(heap)) \in Nat
      BY <3>1, LenProperties
    <3> QED  BY <1>3, <3>2 DEF Starts
  <2>4. pc' = "page" => ~query'.counted
    BY <2>1
  <2> QED  BY <1>3, <1>5, <2>1, <2>2, <2>3, <2>4 DEF FrontOf
<1> QED  BY <1>3, <1>4, <1>5 DEF OffsetInv

\* The next page number skips what the pages so far have shown.
LEMMA OffsetFollow ==
    ASSUME Shape, OffsetInv, Follow
    PROVE  OffsetInv'
<1>1. /\ pc = "answered" /\ Ahead # NoQuery /\ Submit(Ahead)
      /\ UNCHANGED <<heap, list, first, steady, calm, turned>>
  BY DEF Follow, table
<1>2. Hits' = Hits
  BY <1>1 DEF Hits
<1>3. ASSUME FrontOf(Matching(heap))
      PROVE  FrontOf(Matching(heap))'
  <2>1. /\ query \in Queries /\ reply \in Replies /\ query # NoQuery
        /\ query.mode = "offset" /\ query.asc
    <3>1. query # NoQuery /\ query.mode = "offset"
      BY <1>1, <1>3 DEF Ahead, Up, FrontOf
    <3> QED  BY <1>1, <3>1 DEF Shape, TypeOK, Queried, Anchored
  <2>2. Ahead = Up /\ MoreAbove
    BY <1>1, <2>1, Announced DEF Ahead
  <2>3. /\ Up \in Requests /\ ~Rejected(Up) /\ reply.has_next
        /\ QueryOf(Up).mode = "offset" /\ QueryOf(Up).page = query.page + 1
        /\ QueryOf(Up).size = query.size
    BY <2>1, <2>2, UpOffset DEF Requests
  <2>4. /\ query' = QueryOf(Up) /\ pc' \in {"count", "page"}
        /\ (pc' = "count") = query'.counted
    BY <1>1, <2>2, <2>3, Submitted
  <2>5. Len(list) = query.page * query.size
    BY <1>1, <1>3, <2>3 DEF FrontOf
  <2>6. Skip' = query.page * query.size
    <3>1. query.page \in Int /\ query.size \in Int
      BY <2>1, QueryFields
    <3>2. (query.page + 1) - 1 = query.page
      BY <3>1
    <3> QED  BY <2>3, <2>4, <3>2 DEF Skip
  <2>7. Starts(list, Matching(heap))'
    BY <1>1, <1>3 DEF FrontOf
  <2> QED  BY <1>1, <2>3, <2>4, <2>5, <2>6, <2>7 DEF FrontOf
<1> QED  BY <1>1, <1>2, <1>3 DEF OffsetInv

LEMMA OffsetCount ==
    ASSUME Shape, OffsetInv, Count
    PROVE  OffsetInv'
<1>1. /\ pc = "count" /\ pc' = "page" /\ total' = Cardinality(Hits)
      /\ UNCHANGED <<heap, query, list, first, steady, calm, turned>>
      /\ heap \in Seq(Rows) /\ Unique(heap)
  BY DEF Count, table, history, Shape, TypeOK, Unique
<1>2. Hits' = Hits
  BY <1>1 DEF Hits
<1> DEFINE m == Matching(heap)
<1>3. total' = Len(m) /\ Len(m) \in Nat
  BY <1>1, HitsAreMatches DEF Hits
<1>4. \A k \in steady : \E i \in 1 .. Len(m) : m[i] = k
  <2>1. steady \subseteq ToSet(m)
    BY <1>1, MatchingIs DEF OffsetInv, Hits
  <2>2. m \in Seq(Keys) /\ DOMAIN m = 1 .. Len(m)
    BY <1>1, MatchingIs, LenProperties
  <2> QED  BY <2>1, <2>2 DEF ToSet
<1>5. FrontOf(m) => FrontOf(m)'
  <2>1. m' = m /\ Skip' = Skip
    BY <1>1 DEF Skip
  <2> HIDE DEF m
  <2> QED  BY <1>1, <1>3, <1>4, <2>1 DEF FrontOf
<1> QED  BY <1>1, <1>2, <1>5 DEF OffsetInv

\* The writes of others leave the front of the matching rows where it is, as
\* long as they append.
LEMMA OffsetWrite ==
    ASSUME Shape, OffsetInv, Insert \/ Delete \/ Update
    PROVE  OffsetInv'
<1>1. heap \in Seq(Rows) /\ Unique(heap) /\ list \in Seq(Keys) /\ total \in 0 .. MaxKey
  BY DEF Shape, TypeOK, Unique
<1>2. PICK h \in Seq(Rows), appended \in BOOLEAN :
        /\ Commit(h, appended) /\ Unique(h)
        /\ appended => \E row \in Rows : h = Append(heap, row)
  BY <1>1, WritesKeep
<1>3. /\ heap' = h /\ steady' = steady \cap HitsOf(h) /\ calm' = (calm /\ appended)
      /\ UNCHANGED <<pc, query, total, reply, list, first, turned>>
  BY <1>2 DEF Commit, handling
<1>4. Hits' = HitsOf(h)
  BY <1>3 DEF Hits
<1>5. ASSUME calm', FrontOf(Matching(heap))
      PROVE  FrontOf(Matching(heap))'
  <2> DEFINE m == Matching(heap)
             n == Matching(h)
  <2>1. Starts(m, n)
    <3>1. PICK row \in Rows : h = Append(heap, row)
      BY <1>2, <1>3, <1>5
    <3> QED  BY <1>1, <3>1, MatchingGrows
  <2>2. m \in Seq(Keys) /\ n \in Seq(Keys)
    BY <1>1, MatchingIs
  <2>3. FrontOf(m)
    BY <1>5
  <2> HIDE DEF m, n
  <2>4. Len(m) \in Nat /\ Len(n) \in Nat /\ Len(list) \in Nat
    BY <1>1, <2>2, LenProperties
  <2>5. Starts(list, n)
    <3>1. Starts(list, m)
      BY <2>3 DEF FrontOf
    <3> QED  BY <2>1, <2>4, <3>1 DEF Starts
  <2>6. pc = "page" /\ query.counted =>
           total <= Len(n) /\ \A k \in steady : \E i \in 1 .. total : n[i] = k
    <3>1. SUFFICES ASSUME pc = "page", query.counted
                   PROVE  total <= Len(n) /\ \A k \in steady : \E i \in 1 .. total : n[i] = k
      OBVIOUS
    <3>2. total <= Len(m) /\ \A k \in steady : \E i \in 1 .. total : m[i] = k
      BY <2>3, <3>1 DEF FrontOf
    <3>3. total <= Len(n) /\ \A i \in 1 .. total : n[i] = m[i]
      BY <1>1, <2>1, <2>4, <3>2 DEF Starts
    <3> QED  BY <3>2, <3>3
  <2>7. FrontOf(n)
    BY <2>3, <2>5, <2>6 DEF FrontOf
  <2>8. Matching(heap)' = n
    BY <1>3 DEF n
  <2>9. steady' \subseteq steady /\ Skip' = Skip
    BY <1>3 DEF Skip
  <2> QED  BY <1>3, <2>7, <2>8, <2>9 DEF FrontOf
<1> QED  BY <1>3, <1>4, <1>5 DEF OffsetInv
\* A table's worth of keys is put together uncut.
LEMMA Joined ==
    ASSUME list \in Seq(Keys), NEW rows \in Seq(Keys), query.asc, Collect(rows),
           Len(list) + Len(rows) <= MaxKey
    PROVE  /\ Len(list') = Len(list) + Len(rows)
           /\ \A i \in 1 .. Len(list') :
                 list'[i] = IF i <= Len(list) THEN list[i] ELSE rows[i - Len(list)]
<1> DEFINE c == list \o rows
<1>1. MaxKey \in Nat /\ 2 * MaxKey \in Nat /\ Len(list) \in Nat /\ Len(rows) \in Nat
  BY LenProperties, ListingAssumption DEF ListingAssumption
<1>2. c \in Seq(Keys) /\ Len(c) = Len(list) + Len(rows)
  BY ConcatProperties
<1>3. \A i \in 1 .. Len(list) + Len(rows) :
         c[i] = IF i <= Len(list) THEN list[i] ELSE rows[i - Len(list)]
  BY ConcatProperties
<1>4. list' = c \/ list' = Upto(c, 2 * MaxKey)
  BY DEF Collect
<1> HIDE DEF c
<1>5. CASE list' = c
  BY <1>2, <1>3, <1>5
<1>6. CASE list' = Upto(c, 2 * MaxKey)
  <2>1. /\ Len(list') = IF Len(c) < 2 * MaxKey THEN Len(c) ELSE 2 * MaxKey
        /\ \A i \in 1 .. Len(list') : list'[i] = c[i]
    BY <1>1, <1>2, <1>6, UptoIs
  <2>2. Len(list') = Len(c)
    BY <1>1, <1>2, <2>1
  <2> QED  BY <1>2, <1>3, <2>1, <2>2
<1> QED  BY <1>4, <1>5, <1>6

\* A page continues the front, and announces no other only when it has reached
\* the last row that was there from the start.
LEMMA OffsetAnswer ==
    ASSUME Shape, OffsetInv, OffsetList
    PROVE  OffsetInv'
<1>1. /\ pc = "page" /\ query.mode = "offset" /\ pc' = "answered"
      /\ reply' = OffsetReply(OffsetPage) /\ Collect(OffsetPage)
      /\ UNCHANGED <<heap, query, total, first, steady, calm, turned>>
      /\ query \in Queries /\ query # NoQuery /\ heap \in Seq(Rows) /\ Unique(heap)
      /\ list \in Seq(Keys) /\ query.asc /\ total \in 0 .. MaxKey
  BY DEF OffsetList, Answer, table, Shape, TypeOK, Queried, Anchored, Unique
<1>2. Hits' = Hits
  BY <1>1 DEF Hits
<1> DEFINE m == Matching(heap)
           n == Len(m)
           l == Len(list)
           rows == OffsetPage
           size == query.size
<1>3. /\ m \in Seq(Keys) /\ ToSet(m) = Hits /\ n \in Nat /\ n <= MaxKey
      /\ DOMAIN m = 1 .. n
  BY <1>1, MatchingIs, HitsAreMatches, LenProperties DEF Hits
<1>4. /\ Skip \in Nat /\ rows \in Seq(Keys)
      /\ Len(rows) = IF Skip + size < n THEN size ELSE IF Skip < n THEN n - Skip ELSE 0
      /\ \A i \in 1 .. Len(rows) : rows[i] = m[Skip + i]
  BY <1>1, OffsetPageIs
<1>5. /\ size \in Nat \ {0} /\ query.page \in Nat \ {0} /\ MaxKey \in Nat
      /\ query.counted \in BOOLEAN
  BY <1>1, QueryFields, ListingAssumption DEF ListingAssumption
<1>6. Skip + size = query.page * size
  <2> DEFINE p == query.page
  <2>1. p \in Int /\ size \in Int
    BY <1>5
  <2>2. (p - 1) * size + size = p * size
    <3> HIDE DEF p, size
    <3> QED  BY <2>1
  <2> QED  BY <2>2 DEF Skip
<1>7. ASSUME FrontOf(m)
      PROVE  FrontOf(m)'
  <2>1. l = Skip /\ l <= n /\ \A i \in 1 .. l : list[i] = m[i]
    BY <1>1, <1>7 DEF FrontOf, Starts
  <2> HIDE DEF m, n, l, size, rows
  <2>2. Len(rows) \in Nat /\ l + Len(rows) <= n /\ l + Len(rows) <= MaxKey
    <3>1. Len(rows) \in Nat
      BY <1>4, LenProperties
    <3>2. l + Len(rows) <= n
      <4>1. CASE Skip + size < n
        BY <1>3, <1>4, <1>5, <2>1, <4>1
      <4>2. CASE ~(Skip + size < n)
        BY <1>3, <1>4, <1>5, <2>1, <4>2
      <4> QED  BY <4>1, <4>2
    <3> QED  BY <1>3, <1>4, <1>5, <2>1, <3>1, <3>2
  <2>3. /\ Len(list') = l + Len(rows)
        /\ \A i \in 1 .. Len(list') :
              list'[i] = IF i <= l THEN list[i] ELSE rows[i - l]
    <3>1. Len(list) + Len(rows) <= MaxKey
      BY <2>2 DEF l
    <3> QED  BY <1>1, <1>4, <3>1, Joined DEF rows, l
  <2>4. \A i \in 1 .. Len(list') : list'[i] = m[i]
    <3>1. ASSUME NEW i \in 1 .. Len(list') PROVE list'[i] = m[i]
      <4>1. CASE i <= l
        BY <1>4, <2>1, <2>2, <2>3, <3>1, <4>1
      <4>2. CASE ~(i <= l)
        <5>1. i - l \in 1 .. Len(rows) /\ l + (i - l) = i
          BY <1>4, <2>1, <2>2, <2>3, <3>1, <4>2
        <5>2. list'[i] = rows[i - l] /\ rows[i - l] = m[l + (i - l)]
          BY <1>4, <2>1, <2>3, <3>1, <4>2, <5>1
        <5> QED  BY <5>1, <5>2
      <4> QED  BY <4>1, <4>2
    <3> QED  BY <3>1
  <2>5. Len(list') \in Nat /\ DOMAIN list' = 1 .. Len(list') /\ Len(list') <= n
    <3>1. list' \in Seq(Keys)
      BY <1>1, ShapePage DEF Shape, TypeOK
    <3> QED  BY <2>2, <2>3, <3>1, LenProperties
  <2>6. reply'.has_next = HasNext(rows)
    BY <1>1 DEF OffsetReply, rows
  <2>7. \A k \in 0 .. Len(list') :
           steady \subseteq {m[i] : i \in 1 .. k} => steady \subseteq ToSet(list')
    BY <2>4, <2>5 DEF ToSet
  <2>8. Len(rows) = size => Len(list') = query.page * size
    BY <1>4, <1>6, <2>1, <2>3
  <2>9. Len(rows) # size => Len(list') = n
    BY <1>3, <1>4, <1>5, <2>1, <2>2, <2>3
  <2>10. steady \subseteq {m[i] : i \in 1 .. n}
    BY <1>3 DEF OffsetInv, ToSet
  <2>11. IF HasNext(rows) THEN Len(list') = query.page * size
         ELSE steady \subseteq ToSet(list')
    <3>1. CASE query.counted /\ total # 0
      <4>1. HasNext(rows) <=> query.page * size < total
        <5>1. HasNext(rows) <=> query.page < (total + size - 1) \div size
          BY <3>1 DEF HasNext, size
        <5>2. query.page < (total + size - 1) \div size <=> query.page * size < total
          BY <1>1, <1>5, PagesLeft
        <5> QED  BY <5>1, <5>2
      <4>2. total <= n /\ steady \subseteq {m[i] : i \in 1 .. total}
        BY <1>1, <1>7, <3>1 DEF FrontOf, n
      <4>3. CASE query.page * size < total
        <5>1. Skip + size < n
          BY <1>1, <1>3, <1>4, <1>5, <1>6, <4>2, <4>3
        <5> QED  BY <1>4, <2>8, <4>1, <4>3, <5>1
      <4>4. CASE ~(query.page * size < total)
        <5>1. total \in 0 .. Len(list')
          <6>1. query.page * size \in Int
            BY <1>5
          <6>2. Len(rows) = size => total <= Len(list')
            BY <1>1, <2>8, <4>4, <6>1
          <6> QED  BY <1>1, <2>5, <2>9, <4>2, <6>2
        <5> QED  BY <2>7, <4>1, <4>2, <4>4, <5>1
      <4> QED  BY <4>3, <4>4
    <3>2. CASE ~(query.counted /\ total # 0)
      <4>1. HasNext(rows) <=> Len(rows) = size
        BY <3>2 DEF HasNext, size
      <4>2. Len(rows) # size => steady \subseteq ToSet(list')
        BY <1>3, <2>5, <2>7, <2>9, <2>10
      <4> QED  BY <2>8, <4>1, <4>2
    <3> QED  BY <3>1, <3>2
  <2>12. m' = m /\ Starts(list', m)
    BY <1>1, <2>4, <2>5 DEF Starts, n, m
  <2> QED  BY <1>1, <2>6, <2>11, <2>12 DEF FrontOf, size
<1> QED  BY <1>1, <1>2, <1>7 DEF OffsetInv

LEMMA OffsetNext ==
    ASSUME Shape, OffsetInv, [Next]_vars
    PROVE  OffsetInv'
<1>1. CASE UNCHANGED vars
  <2>1. UNCHANGED <<heap, pc, query, total, reply, list, first, steady, calm, turned>>
    BY <1>1 DEF vars, table, handling, history
  <2> QED  BY <2>1 DEF OffsetInv, FrontOf, Skip, Hits
<1>2. CASE Turn
  <2>1. turned' = TRUE /\ heap' = heap /\ steady' = steady
    BY <1>2 DEF Turn, table
  <2> QED  BY <2>1 DEF OffsetInv, Hits
<1>3. CASE Leave
  <2>1. first' = NoQuery /\ steady' = {}
    BY <1>3 DEF Leave
  <2> QED  BY <2>1 DEF OffsetInv
<1>4. CASE CursorList \/ RelayList \/ RelayBeyond
  <2>1. UNCHANGED <<heap, first, steady, calm, turned>> /\ query.mode # "offset"
    BY <1>4 DEF CursorList, RelayList, RelayBeyond, table, history, Shape, Queried
  <2>2. ~FrontOf(Matching(heap))
    BY <2>1 DEF FrontOf
  <2> QED  BY <2>1, <2>2 DEF OffsetInv, Hits
<1>5. CASE Begin \/ Follow \/ Count \/ OffsetList \/ Insert \/ Delete \/ Update
  BY <1>5, OffsetBegin, OffsetFollow, OffsetCount, OffsetAnswer, OffsetWrite
<1> QED  BY <1>1, <1>2, <1>3, <1>4, <1>5 DEF Next, Handler

LEMMA OffsetCovers ==
    ASSUME Shape, OffsetInv
    PROVE  OffsetCoversCalmTable
<1>1. SUFFICES ASSUME ReachedEnd, first.mode = "offset", first.page = 1, calm
               PROVE  steady \subseteq ToSet(list) /\ IsInjective(list)
  BY DEF OffsetCoversCalmTable
<1>2. /\ pc = "answered" /\ query \in Queries /\ query # NoQuery /\ Ahead = NoQuery
      /\ ~turned /\ first # NoQuery /\ Anchored(query) /\ reply \in Replies
      /\ heap \in Seq(Rows) /\ Unique(heap) /\ list \in Seq(Keys)
  BY <1>1 DEF ReachedEnd, Shape, TypeOK, Queried, Unique
<1>3. FrontOf(Matching(heap))
  BY <1>1, <1>2 DEF OffsetInv
<1>4. query.mode = "offset" /\ query.asc
  BY <1>2, <1>3 DEF FrontOf, Anchored
<1>5. ~reply.has_next
  <2>1. ~MoreAbove
    BY <1>2, <1>4, Announced DEF Ahead
  <2> QED  BY <1>4, <2>1 DEF MoreAbove
<1>6. steady \subseteq ToSet(list)
  BY <1>2, <1>3, <1>5 DEF FrontOf
<1>7. IsInjective(list)
  <2> DEFINE m == Matching(heap)
  <2>1. IsInjective(m) /\ m \in Seq(Keys)
    BY <1>2, MatchingIs, HitsAreMatches
  <2>2. Len(list) <= Len(m) /\ \A i \in 1 .. Len(list) : list[i] = m[i]
    BY <1>3 DEF FrontOf, Starts
  <2>3. /\ DOMAIN list = 1 .. Len(list) /\ DOMAIN m = 1 .. Len(m)
        /\ Len(list) \in Nat /\ Len(m) \in Nat
    BY <1>2, <2>1, LenProperties
  <2> HIDE DEF m
  <2> QED  BY <2>1, <2>2, <2>3 DEF IsInjective
<1> QED  BY <1>6, <1>7

\* While the table at most grows at its end, the pages a client reads by number
\* from the first to the last one announced show every row that matched all the
\* time, and none twice; with a single key or without.
THEOREM CoversCalm == Spec => []OffsetCoversCalmTable
<1>1. Init => Shape /\ OffsetInv
  BY ShapeInit, OffsetInit
<1>2. Shape /\ OffsetInv /\ [Next]_vars => (Shape /\ OffsetInv)'
  BY ShapeNext, OffsetNext
<1>3. Shape /\ OffsetInv => OffsetCoversCalmTable
  BY OffsetCovers
<1> QED  BY <1>1, <1>2, <1>3, PTL DEF Spec

-----------------------------------------------------------------------------
(* A client that goes on asking gets on.                                   *)

\* The request for the page ahead starts behind the rows of the page before it,
\* keeps the far edge, and page numbers end with the table: what is left to ask
\* for shrinks with every request, whatever is written in between, and the
\* number of requests is bounded by the greatest key.
PagesAdvance ==
    [][Follow /\ (SingleKey \/ query.mode = "offset") =>
          IF query.mode = "offset" THEN query.page < query'.page /\ query.page <= MaxKey
          ELSE IF query.asc
          THEN query'.asc /\ query'.hi = query.hi /\ query.lo < query'.lo
          ELSE ~query'.asc /\ query'.lo = query.lo /\ query'.hi < query.hi]_vars

Inside(e) == e \in Keys => query.lo < e /\ e < query.hi

\* The edges of an answer lie between the cursors it was asked with.
AheadInv ==
    /\ pc = "answered" /\ query # NoQuery /\ query.mode = "offset" /\ reply.has_next =>
          query.page <= MaxKey
    /\ SingleKey /\ pc = "answered" /\ query # NoQuery /\ query.mode # "offset" =>
          Inside(reply.after) /\ Inside(reply.before)
    /\ SingleKey /\ pc = "beyond" =>
          Inside(Edge(page[1].rows, 1)) /\ Inside(Edge(page[1].rows, Len(page[1].rows)))

LEMMA AheadAsk ==
    ASSUME Shape, Begin \/ Follow \/ Turn
    PROVE  AheadInv'
<1>1. \E r \in Requests : Submit(r)
  <2>1. CASE Begin
    BY <2>1, QuestionsAssumption DEF Begin, QuestionsAssumption, Requests
  <2>2. CASE Follow \/ Turn
    <3>1. \E r \in {Up, Down} : r # NoQuery /\ Submit(r)
      BY <2>2 DEF Follow, Turn, Ahead, Behind
    <3>2. reply \in Replies /\ query \in Queries \cup {NoQuery}
      BY <2>2 DEF Follow, Turn, Shape, TypeOK
    <3> QED  BY <3>1, <3>2, GoesOn
  <2> QED  BY <2>1, <2>2
<1>2. pc' # "beyond" /\ (pc' = "answered" => query' = NoQuery)
  BY <1>1, Submitted
<1> QED  BY <1>2 DEF AheadInv

\* Beyond as many pages as there are keys there is no row to show.
LEMMA AheadOffset ==
    ASSUME Shape, OffsetList
    PROVE  AheadInv'
<1>1. /\ pc' = "answered" /\ reply' = OffsetReply(OffsetPage) /\ query' = query
      /\ query \in Queries /\ query.mode = "offset" /\ heap \in Seq(Rows) /\ Unique(heap)
      /\ total \in 0 .. MaxKey /\ MaxKey \in Nat
  BY ListingAssumption
  DEF OffsetList, Answer, Shape, TypeOK, Queried, Unique, ListingAssumption
<1>2. query.page \in Nat /\ query.page >= 1 /\ query.size \in Nat /\ query.size >= 1
  BY <1>1, QueryFields
<1> DEFINE p == query.page
           s == query.size
           m == Len(Matching(heap))
<1>3. p <= p * s /\ p - 1 <= (p - 1) * s /\ p * s \in Nat /\ (p - 1) * s \in Nat
  <2>1. p * s = p + p * (s - 1) /\ (p - 1) * s = (p - 1) + (p - 1) * (s - 1)
    BY <1>2
  <2>2. p * (s - 1) \in Nat /\ (p - 1) * (s - 1) \in Nat /\ p * s \in Nat /\ (p - 1) * s \in Nat
    BY <1>2
  <2> DEFINE a == p * (s - 1)
             b == (p - 1) * (s - 1)
             c == p * s
             d == (p - 1) * s
  <2>3. c = p + a /\ d = (p - 1) + b /\ a \in Nat /\ b \in Nat /\ c \in Nat /\ d \in Nat
    BY <2>1, <2>2
  <2> HIDE DEF a, b, c, d, p
  <2>4. p \in Nat
    BY <1>2 DEF p
  <2>5. p <= c /\ p - 1 <= d
    BY <2>3, <2>4
  <2> QED  BY <2>3, <2>5 DEF c, d
<1>4. m \in Nat /\ m <= MaxKey
  BY <1>1, HitsAreMatches
<1>5. Len(OffsetPage) = IF Skip + s < m THEN s ELSE IF Skip < m THEN m - Skip ELSE 0
  BY <1>1, OffsetPageIs
<1>6. Skip = (p - 1) * s
  BY DEF Skip
<1>7. ASSUME HasNext(OffsetPage)
      PROVE  p <= MaxKey
  <2>1. CASE query.counted /\ total # 0
    <3>1. p < (total + s - 1) \div s
      BY <1>7, <2>1 DEF HasNext
    <3>4. p \in Nat /\ total \in Nat /\ s \in Nat \ {0}
      BY <1>1, <1>2
    <3>2. p * s < total
      <4> HIDE DEF p, s
      <4> QED  BY <3>1, <3>4, PagesLeft
    <3> DEFINE c == p * s
    <3>3. c < total /\ p <= c /\ c \in Nat
      BY <1>3, <3>2
    <3> HIDE DEF c
    <3> QED  BY <1>1, <1>2, <3>3
  <2>2. CASE ~(query.counted /\ total # 0)
    <3>1. Len(OffsetPage) = s
      BY <1>7, <2>2 DEF HasNext
    <3> DEFINE d == Skip
    <3>2. p - 1 <= d /\ d \in Nat
      BY <1>3, <1>6
    <3> HIDE DEF d, m
    <3>3. d < m
      BY <1>2, <1>4, <1>5, <3>1, <3>2 DEF d
    <3> QED  BY <1>1, <1>2, <1>4, <3>2, <3>3
  <2> QED  BY <2>1, <2>2
<1>8. reply'.has_next = HasNext(OffsetPage)
  BY <1>1 DEF OffsetReply
<1> QED  BY <1>1, <1>7, <1>8 DEF AheadInv

LEMMA AheadPage ==
    ASSUME Shape, AheadInv, CursorList \/ RelayList \/ RelayBeyond
    PROVE  AheadInv'
<1>1. /\ query' = query /\ query \in Queries /\ query.mode # "offset" /\ heap \in Seq(Rows)
      /\ pc' \in {"answered", "beyond"}
  BY DEF CursorList, RelayList, RelayBeyond, Answer, Shape, TypeOK, Queried
<1>2. SUFFICES ASSUME SingleKey
               PROVE  /\ pc' = "answered" => (Inside(reply.after) /\ Inside(reply.before))'
                      /\ pc' = "beyond" =>
                            /\ Inside(Edge(page[1].rows, 1))'
                            /\ Inside(Edge(page[1].rows, Len(page[1].rows)))'
  BY <1>1 DEF AheadInv
<1>3. NoParam \notin Keys
  BY MarkersAssumption DEF Keys, MarkersAssumption
<1>4. ASSUME NEW p, p = KeyedPage
      PROVE  Inside(Edge(p.rows, 1)) /\ Inside(Edge(p.rows, Len(p.rows)))
  <2>1. CASE p.rows = <<>>
    BY <1>3, <2>1 DEF Edge, Inside
  <2>2. CASE p.rows # <<>>
    <3> DEFINE f == p.rows[1]
               l == p.rows[Len(p.rows)]
    <3>1. /\ f \in Window /\ l \in Window
          /\ Edge(p.rows, 1) = f /\ Edge(p.rows, Len(p.rows)) = l
      BY <1>1, <1>2, <1>4, <2>2, PageEdges
    <3> HIDE DEF f, l
    <3> QED  BY <3>1 DEF Window, Inside
  <2> QED  BY <2>1, <2>2
<1>5. CASE CursorList
  <2>1. /\ pc' = "answered" /\ reply' = CursorReply(KeyedPage)
    BY <1>5 DEF CursorList, Answer
  <2> DEFINE p == KeyedPage
  <2>2. /\ CursorReply(p).after \in {Edge(p.rows, Len(p.rows)), NoParam}
        /\ CursorReply(p).before \in {Edge(p.rows, 1), NoParam}
    BY DEF CursorReply
  <2>3. Inside(Edge(p.rows, 1)) /\ Inside(Edge(p.rows, Len(p.rows)))
    BY <1>4
  <2>4. reply' = CursorReply(p)
    BY <2>1
  <2> HIDE DEF p
  <2> QED  BY <1>1, <1>3, <2>1, <2>2, <2>3, <2>4 DEF Inside
<1>6. CASE RelayList
  <2> DEFINE p == KeyedPage
  <2>1. Inside(Edge(p.rows, 1)) /\ Inside(Edge(p.rows, Len(p.rows)))
    BY <1>4
  <2>2. IF CountsBeyond THEN pc' = "beyond" /\ page' = <<p>>
        ELSE pc' = "answered" /\ reply' = RelayReply(p, FALSE)
    BY <1>6 DEF RelayList, Answer
  <2>3. RelayReply(p, FALSE).after = Edge(p.rows, Len(p.rows))
        /\ RelayReply(p, FALSE).before = Edge(p.rows, 1)
    BY DEF RelayReply
  <2> HIDE DEF p
  <2>4. CASE CountsBeyond
    <3>1. pc' = "beyond" /\ page'[1] = p
      BY <2>2, <2>4
    <3> QED  BY <1>1, <2>1, <3>1 DEF Inside, Edge
  <2>5. CASE ~CountsBeyond
    <3>1. pc' = "answered" /\ reply' = RelayReply(p, FALSE)
      BY <2>2, <2>5
    <3> QED  BY <1>1, <2>1, <2>3, <3>1 DEF Inside
  <2> QED  BY <2>4, <2>5
<1>7. CASE RelayBeyond
  <2> DEFINE p == page[1]
  <2>1. PICK b : pc = "beyond" /\ pc' = "answered" /\ reply' = RelayReply(p, b)
    BY <1>7 DEF RelayBeyond, Answer
  <2>2. RelayReply(p, b).after = Edge(p.rows, Len(p.rows))
        /\ RelayReply(p, b).before = Edge(p.rows, 1)
    BY DEF RelayReply
  <2>3. Inside(Edge(p.rows, 1)) /\ Inside(Edge(p.rows, Len(p.rows)))
    BY <1>2, <2>1 DEF AheadInv
  <2> HIDE DEF p
  <2> QED  BY <1>1, <2>1, <2>2, <2>3 DEF Inside
<1> QED  BY <1>5, <1>6, <1>7

LEMMA AheadNext ==
    ASSUME Shape, AheadInv, [Next]_vars
    PROVE  AheadInv'
<1>1. CASE UNCHANGED vars \/ Insert \/ Delete \/ Update
  <2>1. UNCHANGED <<pc, query, page, reply>>
    BY <1>1 DEF vars, handling, Insert, Delete, Update, Commit
  <2> QED  BY <2>1 DEF AheadInv, Inside, Edge
<1>2. CASE Leave \/ Count
  <2>1. pc' \in {"idle", "page"}
    BY <1>2 DEF Leave, Count
  <2> QED  BY <2>1 DEF AheadInv
<1>3. CASE Begin \/ Follow \/ Turn
  BY <1>3, AheadAsk
<1>4. CASE OffsetList \/ CursorList \/ RelayList \/ RelayBeyond
  BY <1>4, AheadOffset, AheadPage
<1> QED  BY <1>1, <1>2, <1>3, <1>4 DEF Next, Handler

\* What the next request leaves to look at.
LEMMA FollowAdvances ==
    ASSUME Shape, AheadInv, Follow, SingleKey \/ query.mode = "offset"
    PROVE  IF query.mode = "offset" THEN query.page < query'.page /\ query.page <= MaxKey
           ELSE IF query.asc
           THEN query'.asc /\ query'.hi = query.hi /\ query.lo < query'.lo
           ELSE ~query'.asc /\ query'.lo = query.lo /\ query'.hi < query.hi
<1>1. /\ pc = "answered" /\ Ahead # NoQuery /\ Submit(Ahead) /\ reply \in Replies
      /\ query \in Queries \cup {NoQuery}
  BY DEF Follow, Shape, TypeOK
<1>2. query # NoQuery /\ query \in Queries
  BY <1>1 DEF Ahead, Behind, Up, Down
<1>3. query.asc \in BOOLEAN /\ query.page \in Nat
      /\ query.mode \in {"offset", "cursor", "relay"} /\ Anchored(query)
  BY <1>2, QueryFields DEF Shape, Queried
<1>4. Ahead \in Requests /\ ~Rejected(Ahead)
  BY <1>1, <1>2, GoesOn DEF Ahead
<1>5. query' = QueryOf(Ahead)
  BY <1>1, <1>4, Submitted
<1>6. CASE query.mode = "offset"
  <2>1. Ahead = Up /\ MoreAbove
    BY <1>1, <1>2, <1>3, <1>6, Announced DEF Ahead, Anchored
  <2>2. query'.page = query.page + 1 /\ reply.has_next
    BY <1>1, <1>2, <1>5, <1>6, <2>1, UpOffset
  <2>3. query.page <= MaxKey
    BY <1>1, <1>2, <1>6, <2>2 DEF AheadInv
  <2> QED  BY <1>3, <1>6, <2>2, <2>3
<1>7. CASE query.mode # "offset"
  <2>1. SingleKey /\ Inside(reply.after) /\ Inside(reply.before)
    BY <1>1, <1>2, <1>7 DEF AheadInv
  <2>2. CASE query.asc
    <3>1. Ahead = Up /\ MoreAbove
      BY <1>1, <1>2, <2>2, Announced DEF Ahead
    <3>2. /\ reply.after \in Keys
          /\ query'.asc = TRUE /\ query'.lo = reply.after /\ query'.hi = query.hi
      <4>1. CASE query.mode = "cursor"
        BY <1>1, <1>2, <1>3, <1>5, <2>1, <2>2, <3>1, <4>1, UpCursor DEF Anchored
      <4>2. CASE query.mode = "relay"
        BY <1>1, <1>2, <1>5, <2>1, <2>2, <3>1, <4>2, UpRelay
      <4> QED  BY <1>3, <1>7, <4>1, <4>2
    <3> QED  BY <1>7, <2>1, <2>2, <3>2 DEF Inside
  <2>3. CASE ~query.asc
    <3>1. Ahead = Down /\ MoreBelow
      BY <1>1, <1>2, <2>3, Announced DEF Ahead
    <3>2. /\ reply.before \in Keys
          /\ query'.asc = FALSE /\ query'.hi = reply.before /\ query'.lo = query.lo
      <4>1. CASE query.mode = "cursor"
        BY <1>1, <1>2, <1>3, <1>5, <2>1, <2>3, <3>1, <4>1, DownCursor DEF Anchored
      <4>2. CASE query.mode = "relay"
        <5>1. reply.before \in Keys
          BY <1>1, <1>2, <3>1, <4>2, DownRelay
        <5>2. PICK c \in BOOLEAN : QueryOf(Down) =
                 [mode |-> "relay", size |-> query.size, page |-> 1, counted |-> TRUE,
                  asc |-> FALSE, cursor |-> c,
                  lo |-> IF query.asc THEN 0 ELSE query.lo, hi |-> reply.before]
          BY <1>1, <1>2, <2>1, <3>1, <4>2, DownRelay
        <5> QED  BY <1>5, <2>3, <3>1, <5>1, <5>2
      <4> QED  BY <1>3, <1>7, <4>1, <4>2
    <3> QED  BY <1>7, <2>1, <2>3, <3>2 DEF Inside
  <2> QED  BY <1>3, <2>2, <2>3
<1> QED  BY <1>6, <1>7

\* Every request for the page ahead leaves less to look at, in REST and GraphQL,
\* by number and by cursor: the reason why a traversal ends (_offset_list,
\* _cursor_list, the list resolver).
THEOREM Advances == Spec => PagesAdvance
<1>1. Init => Shape /\ AheadInv
  <2>1. Init => AheadInv
    BY DEF Init, AheadInv
  <2> QED  BY <2>1, ShapeInit
<1>2. Shape /\ AheadInv /\ [Next]_vars => (Shape /\ AheadInv)'
  BY ShapeNext, AheadNext
<1>3. Shape /\ AheadInv /\ [Next]_vars =>
         [Follow /\ (SingleKey \/ query.mode = "offset") =>
             IF query.mode = "offset" THEN query.page < query'.page /\ query.page <= MaxKey
             ELSE IF query.asc
             THEN query'.asc /\ query'.hi = query.hi /\ query.lo < query'.lo
             ELSE ~query'.asc /\ query'.lo = query.lo /\ query'.hi < query.hi]_vars
  BY FollowAdvances
<1> QED  BY <1>1, <1>2, <1>3, PTL DEF Spec, PagesAdvance
=============================================================================
