--------------------------- MODULE ExplorerProofs ---------------------------
(***************************************************************************)
(* Theorems about Explorer and the Access underneath, for any accounts and *)
(* passwords, any lifetime of tokens and any number of logins: requests    *)
(* are answered as their account entitles them, the timers of a page never *)
(* end its session halfway, and early only in the ways that are named.     *)
(***************************************************************************)
EXTENDS Explorer, TLAPS

\* The hash _users holds for password p, if any.
HashIn(p) == IF p = NoAccount THEN NoAccount ELSE HashPassword(p)

Hashes == {HashPassword(p) : p \in Passwords} \cup {NoAccount}

ServerOK ==
    /\ mode \in Modes /\ clock \in 0 .. MaxClock /\ changes \in 0 .. MaxChanges
    /\ password \in [Users -> Passwords \cup {NoAccount}]

RequestOK ==
    /\ pc \in [Clients -> {"idle", "lookup", "resume", "answered"}]
    /\ header \in [Clients -> Headers \cup {NoHeader}]
    /\ arrived \in [Clients -> 0 .. MaxClock]
    /\ fetched \in [Clients -> Hashes]
    /\ status \in [Clients -> {0, 200, 401, 404, 429, 500}]
    /\ issued \in [Clients -> Tokens \cup {NoToken}]
    /\ held \in [Clients -> SUBSET (Passwords \cup {NoAccount})]

\* The mode and the token let the request of c through to the table.
Admitted(c) ==
    /\ header[c] \in Headers /\ header[c].user \in Users
    /\ header[c].scheme = "Bearer" => header[c].exp >= arrived[c]
    /\ IF header[c].scheme = "Basic" THEN BasicEnabled ELSE JwtEnabled

\* The answer of c is that of some moment of its request (AnsweredAsEntitled).
Fair(c) ==
    /\ status[c] = 200 => header[c] # NoHeader /\ \E p \in held[c] : Entitles(c, p)
    /\ status[c] = 401 /\ held[c] # {} => \E p \in held[c] : ~Entitles(c, p)
    /\ issued[c] # NoToken =>
          /\ status[c] = 200 /\ header[c].scheme = "Login"
          /\ issued[c].user = header[c].user

\* Where the request of c stands: what it will find, or has found, in the
\* table is the password of a moment it has lived through.
Standing(c) ==
    /\ pc[c] # "answered" => status[c] = 0 /\ issued[c] = NoToken
    /\ pc[c] \in {"lookup", "resume"} => Admitted(c)
    /\ pc[c] = "lookup" => password[header[c].user] \in held[c]
    /\ pc[c] = "resume" => \E p \in held[c] : fetched[c] = HashIn(p)
    /\ Fair(c)

AccessInv == ServerOK /\ RequestOK /\ \A c \in Clients : Standing(c)

-----------------------------------------------------------------------------
(* Passwords, headers and tokens.                                          *)

\* Different passwords have different hashes, however long they are.
LEMMA HashesApart ==
    ASSUME NEW p \in Passwords, NEW q \in Passwords, HashPassword(p) = HashPassword(q)
    PROVE  p = q
<1>1. /\ p = [head |-> p.head, tail |-> p.tail] /\ p.head \notin Passwords
      /\ q = [head |-> q.head, tail |-> q.tail] /\ q.head \notin Passwords
  BY PasswordsAssumption
<1>2. /\ HashPassword(p) = IF p.tail = NoTail THEN p.head ELSE p
      /\ HashPassword(q) = IF q.tail = NoTail THEN q.head ELSE q
  BY DEF HashPassword, PreparePassword, Bcrypt
<1> QED  BY <1>1, <1>2

\* A password's hash is a hash, and not the sign that there is no account.
LEMMA HashTyped ==
    ASSUME NEW p \in Passwords \cup {NoAccount}
    PROVE  HashIn(p) \in Hashes /\ (HashIn(p) = NoAccount <=> p = NoAccount)
BY PasswordsAssumption, AccessAssumption
   DEF HashIn, Hashes, HashPassword, PreparePassword, Bcrypt, AccessAssumption

\* A header has the fields of its scheme.
LEMMA HeaderTyped ==
    ASSUME NEW h \in Headers
    PROVE  /\ h # NoHeader /\ h.scheme \in {"Bearer", "Basic", "Login"}
           /\ h.user \in Users \cup {NoUser}
           /\ h.scheme = "Bearer" => h.exp \in 0 .. MaxClock + Lifetime
           /\ h.scheme = "Basic" => h.secret \in Passwords
           /\ h.scheme = "Login" => h.secret \in Passwords /\ h.user \in Users
BY MarkersAssumption DEF MarkersAssumption, Headers

\* What is settled before the table is looked at, scheme by scheme.
LEMMA SettledIs ==
    ASSUME NEW h \in Headers
    PROVE  /\ h.scheme = "Bearer" => Settled(h) = IF JwtEnabled /\ TokenReads(h) THEN {} ELSE {401}
           /\ h.scheme = "Basic" =>
                 Settled(h) = IF BasicEnabled /\ h.user # NoUser THEN {} ELSE {401}
           /\ h.scheme = "Login" => Settled(h) = IF JwtEnabled THEN {} ELSE {404}
BY HeaderTyped DEF Settled

\* Without a header it is settled that there is no access.
LEMMA EmptySettled == Settled(NoHeader) = {401}
BY DEF Settled

-----------------------------------------------------------------------------
(* The steps of a request.                                                 *)

\* A step of one client keeps the invariant when it keeps its own part.
LEMMA OneClient ==
    ASSUME AccessInv, NEW c \in Clients, UNCHANGED server, RequestOK', Standing(c)',
           \A d \in Clients \ {c} :
               /\ pc'[d] = pc[d] /\ header'[d] = header[d] /\ arrived'[d] = arrived[d]
               /\ fetched'[d] = fetched[d] /\ status'[d] = status[d]
               /\ issued'[d] = issued[d] /\ held'[d] = held[d]
    PROVE  AccessInv'
<1>1. ServerOK' /\ mode' = mode /\ password' = password
  BY DEF AccessInv, ServerOK, server
<1>2. ASSUME NEW d \in Clients \ {c} PROVE Standing(d)'
  BY <1>1, <1>2 DEF AccessInv, Standing, Admitted, Fair, Entitles, JwtEnabled, BasicEnabled
<1> QED  BY <1>1, <1>2 DEF AccessInv

\* A request arrives: it is settled at once or goes on to the table.
LEMMA ArriveInv ==
    ASSUME AccessInv, NEW c \in Clients, NEW h \in Headers \cup {NoHeader}, Arrive(c, h)
    PROVE  AccessInv'
<1>1. /\ UNCHANGED server /\ pc[c] = "idle" /\ UNCHANGED <<fetched, issued>>
      /\ header' = [header EXCEPT ![c] = h] /\ arrived' = [arrived EXCEPT ![c] = clock]
      /\ held' = [held EXCEPT ![c] = IF h # NoHeader /\ h.user \in Users
                                     THEN {password[h.user]} ELSE {}]
      /\ issued[c] = NoToken /\ status[c] = 0
  BY DEF Arrive, AccessInv, Standing
<1>2. \/ \E st \in Settled(h) : Reply(c, st)
      \/ h # NoHeader /\ h.scheme = "Login" /\ Reply(c, 429)
      \/ /\ Settled(h) = {} /\ pc' = [pc EXCEPT ![c] = "lookup"] /\ UNCHANGED status
  BY DEF Arrive
<1>3. Settled(h) \subseteq {401, 404}
  BY HeaderTyped, SettledIs DEF Settled
<1>4. PICK p \in {"answered", "lookup"}, st \in {0, 401, 404, 429} :
        /\ pc' = [pc EXCEPT ![c] = p] /\ status' = [status EXCEPT ![c] = st]
        /\ p = "lookup" => st = 0 /\ Settled(h) = {}
        /\ st = 401 => 401 \in Settled(h)
  <2>1. status = [status EXCEPT ![c] = 0]
    BY <1>1 DEF AccessInv, RequestOK
  <2> QED  BY <1>2, <1>3, <2>1 DEF Reply
<1>5. /\ pc'[c] = p /\ status'[c] = st /\ header'[c] = h /\ arrived'[c] = clock
      /\ held'[c] = IF h # NoHeader /\ h.user \in Users THEN {password[h.user]} ELSE {}
      /\ issued'[c] = NoToken
  BY <1>1, <1>4 DEF AccessInv, RequestOK
<1>6. RequestOK'
  BY <1>1, <1>4 DEF AccessInv, RequestOK, ServerOK
<1>7. mode' = mode /\ password' = password /\ clock \in Nat
  BY <1>1 DEF server, AccessInv, ServerOK
<1>8. Standing(c)'
  <2>1. CASE p = "lookup"
    <3>1. h \in Headers /\ h.user \in Users
      BY <1>4, <2>1, HeaderTyped, SettledIs, EmptySettled DEF TokenReads
    <3>2. Admitted(c)'
      BY <1>4, <1>5, <1>7, <2>1, <3>1, HeaderTyped, SettledIs
         DEF Admitted, TokenReads, JwtEnabled, BasicEnabled
    <3> QED  BY <1>4, <1>5, <1>7, <2>1, <3>1, <3>2, HeaderTyped DEF Standing, Fair
  <2>2. CASE p = "answered" /\ st # 401
    BY <1>5, <2>2 DEF Standing, Fair
  <2>3. CASE p = "answered" /\ st = 401
    <3>1. CASE held'[c] = {}
      BY <1>5, <2>3, <3>1 DEF Standing, Fair
    <3>2. CASE held'[c] # {}
      <4>1. h \in Headers /\ h.user \in Users /\ h.user # NoUser
        BY <1>5, <3>2, AccessAssumption DEF AccessAssumption
      <4>2. \/ h.scheme = "Bearer" /\ ~(JwtEnabled /\ h.exp >= clock)
            \/ h.scheme = "Basic" /\ ~BasicEnabled
        BY <1>4, <2>3, <4>1, HeaderTyped, SettledIs DEF TokenReads
      <4>3. ~Entitles(c, password[h.user])'
        BY <1>5, <1>7, <4>2 DEF Entitles, JwtEnabled, BasicEnabled
      <4> QED  BY <1>5, <1>7, <2>3, <4>1, <4>3, HeaderTyped DEF Standing, Fair
    <3> QED  BY <3>1, <3>2
  <2> QED  BY <2>1, <2>2, <2>3
<1> QED  BY <1>1, <1>4, <1>6, <1>8, OneClient DEF AccessInv, RequestOK

\* The SELECT finds the password of this moment, or fails.
LEMMA LookupInv ==
    ASSUME AccessInv, NEW c \in Clients, Lookup(c)
    PROVE  AccessInv'
<1>1. /\ UNCHANGED server /\ pc[c] = "lookup" /\ UNCHANGED <<header, arrived, issued, held>>
      /\ issued[c] = NoToken /\ status[c] = 0 /\ Admitted(c)
      /\ password[header[c].user] \in held[c]
  BY DEF Lookup, AccessInv, Standing
<1>2. mode' = mode /\ password' = password
  BY <1>1 DEF server
<1>3. CASE /\ fetched' = [fetched EXCEPT ![c] = HashOf(header[c].user)]
           /\ pc' = [pc EXCEPT ![c] = "resume"] /\ UNCHANGED status
  <2>1. HashOf(header[c].user) = HashIn(password[header[c].user])
    BY DEF HashOf, HashIn
  <2>2. password[header[c].user] \in Passwords \cup {NoAccount}
    BY <1>1 DEF Admitted, AccessInv, ServerOK
  <2>3. RequestOK'
    BY <1>1, <1>3, <2>1, <2>2, HashTyped DEF AccessInv, RequestOK
  <2>4. pc'[c] = "resume" /\ fetched'[c] = HashIn(password[header[c].user])
    BY <1>3, <2>1 DEF AccessInv, RequestOK
  <2>5. Standing(c)'
    BY <1>1, <1>2, <1>3, <2>4 DEF Standing, Admitted, Fair, JwtEnabled, BasicEnabled
  <2> QED  BY <1>1, <1>3, <2>3, <2>5, OneClient DEF AccessInv, RequestOK
<1>4. CASE Reply(c, 500) /\ UNCHANGED fetched
  <2>1. RequestOK' /\ pc'[c] = "answered" /\ status'[c] = 500
    BY <1>1, <1>4 DEF Reply, AccessInv, RequestOK
  <2>2. Standing(c)'
    BY <1>1, <2>1 DEF Standing, Fair
  <2> QED  BY <1>1, <1>4, <2>1, <2>2, OneClient DEF AccessInv, RequestOK, Reply
<1> QED  BY <1>3, <1>4 DEF Lookup

\* What was read decides as the password it was read from would.
LEMMA PassesEntitled ==
    ASSUME AccessInv, NEW c \in Clients, Admitted(c), NEW p \in held[c],
           fetched[c] = HashIn(p)
    PROVE  Passes(c) <=> Entitles(c, p)
<1>1. header[c] \in Headers /\ p \in Passwords \cup {NoAccount}
  BY DEF Admitted, AccessInv, RequestOK
<1>2. CASE header[c].scheme = "Bearer"
  BY <1>1, <1>2, HashTyped DEF Passes, Entitles, Admitted
<1>3. CASE header[c].scheme # "Bearer"
  <2>1. header[c].secret \in Passwords /\ header[c].secret # NoAccount
    BY <1>1, <1>3, HeaderTyped, AccessAssumption DEF AccessAssumption
  <2>2. Entitles(c, p) <=> header[c].secret = p
    BY <1>3 DEF Entitles, Admitted
  <2>3. Passes(c) <=> p # NoAccount /\ HashPassword(header[c].secret) = HashPassword(p)
    BY <1>1, <1>3, HashTyped DEF Passes, VerifyPassword, HashIn
  <2> QED  BY <1>1, <2>1, <2>2, <2>3, HashesApart
<1> QED  BY <1>2, <1>3

\* The answer is decided, and a login that passes gets its token.
LEMMA ResumeInv ==
    ASSUME AccessInv, NEW c \in Clients, Resume(c)
    PROVE  AccessInv'
<1>1. /\ UNCHANGED server /\ pc[c] = "resume" /\ UNCHANGED <<header, arrived, fetched, held>>
      /\ issued[c] = NoToken /\ status[c] = 0 /\ Admitted(c)
  BY DEF Resume, AccessInv, Standing
<1>2. PICK p \in held[c] : fetched[c] = HashIn(p)
  BY <1>1 DEF AccessInv, Standing
<1>3. Passes(c) <=> Entitles(c, p)
  BY <1>1, <1>2, PassesEntitled
<1> DEFINE st == IF Passes(c) THEN 200 ELSE 401
           tok == IF header[c].scheme = "Login" /\ Passes(c)
                  THEN TokenFor(header[c].user) ELSE NoToken
<1>4. tok \in Tokens \cup {NoToken} /\ (tok # NoToken => tok.user = header[c].user)
  BY <1>1, AccessAssumption
     DEF TokenFor, Tokens, Admitted, AccessInv, ServerOK, AccessAssumption
<1>5. tok # NoToken => st = 200 /\ header[c].scheme = "Login"
  OBVIOUS
<1>6. /\ pc' = [pc EXCEPT ![c] = "answered"] /\ status' = [status EXCEPT ![c] = st]
      /\ issued' = [issued EXCEPT ![c] = tok] /\ st \in {200, 401}
  BY DEF Resume, Reply
<1>7. st = 200 <=> Passes(c)
  OBVIOUS
<1> HIDE DEF st, tok
<1>8. RequestOK' /\ pc'[c] = "answered" /\ status'[c] = st /\ issued'[c] = tok
  BY <1>1, <1>4, <1>6 DEF AccessInv, RequestOK
<1>9. Entitles(c, p)' = Entitles(c, p) /\ header[c] # NoHeader
  BY <1>1, HeaderTyped DEF Entitles, JwtEnabled, BasicEnabled, server, Admitted
<1>10. Standing(c)'
  BY <1>1, <1>2, <1>3, <1>4, <1>5, <1>6, <1>7, <1>8, <1>9 DEF Standing, Fair
<1> QED  BY <1>1, <1>6, <1>8, <1>10, OneClient DEF AccessInv, RequestOK

\* A client that is done stands where it stood before any request.
LEMMA DoneInv ==
    ASSUME AccessInv, NEW c \in Clients, Done(c)
    PROVE  AccessInv'
<1>1. RequestOK'
  BY AccessAssumption DEF Done, AccessInv, RequestOK, Hashes, AccessAssumption
<1>2. /\ pc'[c] = "idle" /\ status'[c] = 0 /\ issued'[c] = NoToken
  BY DEF Done, AccessInv, RequestOK
<1>3. Standing(c)'
  BY <1>2 DEF Standing, Fair
<1> QED  BY <1>1, <1>3, OneClient DEF Done, AccessInv, RequestOK

\* Time passes.
LEMMA TickInv == AccessInv /\ Tick => AccessInv'
<1> SUFFICES ASSUME AccessInv, Tick PROVE AccessInv'
  OBVIOUS
<1>1. ServerOK' /\ RequestOK'
  BY AccessAssumption DEF AccessAssumption, Tick, request, AccessInv, ServerOK, RequestOK
<1>2. ASSUME NEW c \in Clients PROVE Standing(c)'
  BY DEF Tick, request, AccessInv, Standing, Admitted, Fair, Entitles, JwtEnabled,
         BasicEnabled
<1> QED  BY <1>1, <1>2 DEF AccessInv

\* An account changes: the requests about it have now lived through both.
LEMMA ChangeInv ==
    ASSUME AccessInv, NEW u \in Users, NEW p \in Passwords \cup {NoAccount},
           ChangeAccount(u, p)
    PROVE  AccessInv'
<1>1. ServerOK' /\ RequestOK'
  BY AccessAssumption DEF AccessAssumption, ChangeAccount, AccessInv, ServerOK, RequestOK
<1>2. ASSUME NEW c \in Clients PROVE Standing(c)'
  <2>1. /\ held[c] \subseteq held'[c] /\ (pc[c] \in {"idle", "answered"} => held'[c] = held[c])
        /\ pc[c] \in {"lookup", "resume"} /\ header[c].user = u => p \in held'[c]
        /\ UNCHANGED <<mode, pc, header, arrived, fetched, status, issued>>
    BY DEF ChangeAccount
  <2>2. Standing(c) /\ pc[c] \in {"idle", "lookup", "resume", "answered"}
    BY DEF AccessInv, RequestOK
  <2>3. Admitted(c)' = Admitted(c)
    BY <2>1 DEF Admitted, JwtEnabled, BasicEnabled
  <2>4. ASSUME pc[c] = "lookup" PROVE password'[header[c].user] \in held'[c]
    BY <2>1, <2>2, <2>4 DEF ChangeAccount, Standing, Admitted, AccessInv, ServerOK
  <2>5. Fair(c)'
    BY <2>1, <2>2 DEF Standing, Fair, Entitles, JwtEnabled, BasicEnabled
  <2> QED  BY <2>1, <2>2, <2>3, <2>4, <2>5 DEF Standing
<1> QED  BY <1>1, <1>2 DEF AccessInv

-----------------------------------------------------------------------------
(* The page.                                                               *)

PageOK ==
    /\ stored \in Tokens \cup {NoToken}
    /\ overlay \in BOOLEAN /\ app \in BOOLEAN /\ long \in BOOLEAN
    /\ timers \subseteq Timer /\ shows \in 0 .. MaxShows

\* A login in progress has room for its showApp, and a session comes from one.
ShowsInv ==
    /\ pc[Form] # "idle" => shows < MaxShows
    /\ stored # NoToken => shows >= 1

\* The timers a page has left are of its showApps so far; and one of the last,
\* if its token had no more time left than a timer waits, ends no session early.
TimersInv ==
    /\ \A t \in timers : t.of <= shows
    /\ stored # NoToken /\ ~long =>
          \A t \in timers : t.what = "expire" /\ t.of = shows => stored.exp <= t.due

IInv == AccessInv /\ PageOK /\ ShowsInv /\ TimersInv /\ ScreenMatchesSession

\* setTimeout waits as long as it is told if that is neither too long nor less
\* than nothing, and otherwise never longer than it can.
LEMMA WaitIs ==
    ASSUME NEW d \in Int
    PROVE  /\ Wait(d) \in 0 .. MaxDelay
           /\ d \in 0 .. MaxDelay => Wait(d) = d
           /\ d >= 0 => Wait(d) <= d
<1> DEFINE m == 2 * (MaxDelay + 1)
           q == d \div m
           r == d % m
<1>1. MaxDelay \in Nat /\ m \in Nat \ {0} /\ MaxDelay < m
  BY ExplorerAssumption DEF ExplorerAssumption
<1>2. Wait(d) = IF r > MaxDelay THEN 0 ELSE r
  BY DEF Wait
<1> HIDE DEF m
<1>3. q \in Int /\ r \in 0 .. m - 1 /\ d = m * q + r
  BY <1>1
<1> HIDE DEF q, r
<1>4. ASSUME d >= 0 PROVE q >= 0
  <2>1. CASE q <= -1
    <3>1. m * q <= -m
      BY <1>1, <1>3, <2>1
    <3>2. m * q \in Int
      BY <1>1, <1>3
    <3> QED  BY <1>1, <1>3, <1>4, <3>1, <3>2
  <2> QED  BY <1>3, <2>1
<1>5. ASSUME d >= 0 PROVE r <= d
  <2>1. m * q >= 0 /\ m * q \in Int
    BY <1>1, <1>3, <1>4, <1>5
  <2> QED  BY <1>3, <2>1
<1>6. ASSUME d \in 0 .. MaxDelay PROVE r = d
  <2>1. CASE q >= 1
    <3>1. m * q >= m /\ m * q \in Int
      BY <1>1, <1>3, <2>1
    <3> QED  BY <1>1, <1>3, <1>6, <3>1
  <2>2. CASE q = 0
    BY <1>1, <1>3, <2>2
  <2>3. q >= 0
    BY <1>1, <1>4, <1>6
  <2> QED  BY <1>3, <2>1, <2>2, <2>3
<1> QED  BY <1>1, <1>2, <1>3, <1>5, <1>6

\* A token's timers are timers, the expiry among them: due in time if the token
\* is good, and when it expires if that is within the longest delay.
LEMMA ScheduleTyped ==
    ASSUME ServerOK, NEW t \in Tokens, NEW n \in 1 .. MaxShows
    PROVE  /\ ScheduleExpiry(t, n) \subseteq Timer
           /\ \A e \in ScheduleExpiry(t, n) : e.of = n
           /\ \E e \in ScheduleExpiry(t, n) :
                 e.what = "expire" /\ (e.due <= t.exp \/ t.exp < clock)
           /\ ~(t.exp - clock > MaxDelay) =>
                 \A e \in ScheduleExpiry(t, n) : e.what = "expire" => t.exp <= e.due
<1>1. /\ t.exp \in Nat /\ clock \in 0 .. MaxClock /\ clock \in Nat /\ MaxClock \in Nat
      /\ MaxDelay \in Nat
  BY AccessAssumption, ExplorerAssumption
     DEF AccessAssumption, ExplorerAssumption, ServerOK, Tokens
<1>2. \A at \in Int : Wait(at - clock) \in 0 .. MaxDelay
  BY <1>1, WaitIs
<1>3. \A at \in Int : Due(at) \in clock .. MaxClock + MaxDelay
  BY <1>1, <1>2 DEF Due
<1>4. /\ Due(t.exp) <= t.exp \/ t.exp < clock
      /\ ~(t.exp - clock > MaxDelay) => t.exp <= Due(t.exp)
  <2> DEFINE d == t.exp - clock
             w == Wait(d)
  <2>1. Due(t.exp) = clock + w /\ d \in Int /\ t.exp = clock + d
    BY <1>1 DEF Due
  <2>2. /\ w \in 0 .. MaxDelay /\ (d >= 0 => w <= d)
        /\ d \in 0 .. MaxDelay => w = d
    BY <2>1, WaitIs
  <2> HIDE DEF d, w
  <2>3. CASE d >= 0
    <3>1. Due(t.exp) <= t.exp
      BY <1>1, <2>1, <2>2, <2>3
    <3>2. ASSUME ~(t.exp - clock > MaxDelay) PROVE t.exp <= Due(t.exp)
      <4>1. d <= MaxDelay
        BY <1>1, <2>1, <3>2
      <4>2. w = d
        BY <1>1, <2>1, <2>2, <2>3, <4>1
      <4> QED  BY <1>1, <2>1, <4>2
    <3> QED  BY <3>1, <3>2
  <2>4. CASE d < 0
    <3>1. t.exp < clock
      BY <1>1, <2>1, <2>4
    <3>2. w >= 0 /\ w \in Int
      BY <1>1, <2>2
    <3>3. t.exp <= Due(t.exp)
      BY <1>1, <2>1, <3>1, <3>2
    <3> QED  BY <3>1, <3>3
  <2> QED  BY <2>1, <2>3, <2>4
<1>5. Due(t.exp) \in 0 .. MaxClock + MaxDelay /\ Due(t.exp - 1) \in 0 .. MaxClock + MaxDelay
  BY <1>1, <1>3
<1>6. \A e \in ScheduleExpiry(t, n) :
         \/ e = [what |-> "expire", due |-> Due(t.exp), of |-> n]
         \/ e = [what |-> "warn", due |-> Due(t.exp - 1), of |-> n]
  BY DEF ScheduleExpiry
<1>7. [what |-> "expire", due |-> Due(t.exp), of |-> n] \in ScheduleExpiry(t, n)
  BY DEF ScheduleExpiry
<1>8. ScheduleExpiry(t, n) \subseteq Timer
  BY <1>5, <1>6 DEF Timer
<1> QED  BY <1>4, <1>6, <1>7, <1>8

\* showApp leaves the app on screen, with the timer that will end it.
LEMMA ShowAppInv ==
    ASSUME AccessInv, AccessInv', UNCHANGED server, NEW t \in Tokens,
           NEW n \in 1 .. MaxShows, NEW pending, pending \subseteq Timer,
           \A e \in pending : e.of < n, ShowApp(t, n, pending), pc'[Form] = "idle"
    PROVE  IInv'
<1>1. /\ stored' = t /\ t # NoToken /\ app' = TRUE /\ overlay' = FALSE /\ shows' = n
      /\ timers' = pending \cup ScheduleExpiry(t, n)
      /\ long' = (t.exp - clock > MaxDelay) /\ clock' = clock
  BY MarkersAssumption DEF ShowApp, MarkersAssumption, server
<1>2. /\ ScheduleExpiry(t, n) \subseteq Timer
      /\ \A e \in ScheduleExpiry(t, n) : e.of = n
      /\ \E e \in ScheduleExpiry(t, n) :
            e.what = "expire" /\ (e.due <= t.exp \/ t.exp < clock)
      /\ ~(t.exp - clock > MaxDelay) =>
            \A e \in ScheduleExpiry(t, n) : e.what = "expire" => t.exp <= e.due
  BY ScheduleTyped DEF AccessInv
<1>3. PageOK' /\ ShowsInv'
  <2>1. timers' \subseteq Timer
    BY <1>1, <1>2
  <2>2. shows' \in 0 .. MaxShows /\ shows' >= 1
    BY <1>1, ExplorerAssumption DEF ExplorerAssumption
  <2>3. long' \in BOOLEAN
    BY <1>1
  <2> QED  BY <1>1, <2>1, <2>2, <2>3 DEF PageOK, ShowsInv
<1>4. TimersInv'
  <2>1. n \in Nat /\ \A e \in pending : e.of \in Nat
    BY DEF Timer
  <2>2. \A e \in timers' : e.of <= n
    BY <1>1, <1>2, <2>1
  <2>3. ~long' => \A e \in timers' : e.what = "expire" /\ e.of = n => t.exp <= e.due
    <3>1. ~long' => ~(t.exp - clock > MaxDelay)
      BY <1>1
    <3>2. \A e \in timers' : e.of = n => e \in ScheduleExpiry(t, n)
      BY <1>1, <2>1
    <3> QED  BY <1>2, <3>1, <3>2
  <2> QED  BY <1>1, <2>2, <2>3 DEF TimersInv
<1>5. ScreenMatchesSession'
  BY <1>1, <1>2 DEF ScreenMatchesSession
<1> QED  BY <1>3, <1>4, <1>5 DEF IInv

\* A step that leaves the page alone keeps the screen as it was.
LEMMA PageSame ==
    ASSUME IInv, AccessInv', UNCHANGED page, pc'[Form] # "idle" => shows < MaxShows,
           clock' \in {clock, clock + 1}
    PROVE  IInv'
<1>1. PageOK' /\ ShowsInv' /\ TimersInv'
  BY DEF IInv, page, PageOK, ShowsInv, TimersInv
<1>2. clock \in Int
  BY DEF IInv, AccessInv, ServerOK
<1>3. stored # NoToken => stored.exp \in Int
  BY DEF IInv, PageOK, Tokens
<1>4. stored # NoToken /\ stored.exp < clock => stored.exp < clock'
  BY <1>2, <1>3
<1>5. ScreenMatchesSession'
  BY <1>4 DEF IInv, page, ScreenMatchesSession
<1> QED  BY <1>1, <1>5 DEF IInv

\* The page shows nothing but the login form.
Blank ==
    /\ stored = NoToken /\ timers = {} /\ shows = 0 /\ app = FALSE /\ overlay = TRUE
    /\ long = FALSE /\ pc[Form] = "idle"

\* Such a page keeps what is said of it.
LEMMA NoSession == Blank => PageOK /\ ShowsInv /\ TimersInv /\ ScreenMatchesSession
<1> SUFFICES ASSUME Blank PROVE PageOK /\ ShowsInv /\ TimersInv /\ ScreenMatchesSession
  OBVIOUS
<1>1. shows \in 0 .. MaxShows
  BY ExplorerAssumption DEF ExplorerAssumption, Blank
<1>2. PageOK
  BY <1>1 DEF PageOK, Blank
<1>3. ShowsInv /\ TimersInv
  BY DEF ShowsInv, TimersInv, Blank
<1>4. ScreenMatchesSession
  BY DEF ScreenMatchesSession, Blank
<1> QED  BY <1>2, <1>3, <1>4

\* A client that is done is idle.
LEMMA DoneIdle ==
    ASSUME AccessInv, NEW c \in Clients, Done(c)
    PROVE  UNCHANGED server /\ pc'[c] = "idle"
BY DEF Done, AccessInv, RequestOK

\* A page is loaded with the session it had, or with the login form.
LEMMA PageLoadInv == IInv /\ PageLoad => IInv'
<1> SUFFICES ASSUME IInv, PageLoad PROVE IInv'
  OBVIOUS
<1>1. Form \in Clients /\ MaxShows \in Nat
  BY ExplorerAssumption DEF ExplorerAssumption
<1>2. AccessInv /\ AccessInv' /\ UNCHANGED server /\ pc'[Form] = "idle"
  BY <1>1, DoneInv, DoneIdle DEF PageLoad, IInv
<1>3. CASE stored # NoToken
  <2>1. stored \in Tokens /\ 1 \in 1 .. MaxShows
    BY <1>1, <1>3 DEF IInv, PageOK, ShowsInv
  <2>2. ShowApp(stored, 1, {})
    BY <1>3 DEF PageLoad
  <2>3. {} \subseteq Timer /\ \A e \in {} : e.of < 1
    OBVIOUS
  <2> QED  BY <1>2, <2>1, <2>2, <2>3, ShowAppInv
<1>4. CASE stored = NoToken
  <2>1. /\ stored' = NoToken /\ app' = FALSE /\ overlay' = TRUE /\ timers' = {}
        /\ shows' = 0 /\ long' = FALSE
    BY <1>4 DEF PageLoad, ShowLogin
  <2>2. PageOK' /\ ShowsInv' /\ TimersInv' /\ ScreenMatchesSession'
    <3>1. Blank'
      BY <1>2, <2>1 DEF Blank
    <3> QED  BY <3>1, NoSession, PTL
  <2> QED  BY <1>2, <2>2 DEF IInv
<1> QED  BY <1>3, <1>4

\* A login is answered: the app is shown, or the form stays.
LEMMA FormAnsweredInv == IInv /\ FormAnswered => IInv'
<1> SUFFICES ASSUME IInv, FormAnswered PROVE IInv'
  OBVIOUS
<1>1. Form \in Clients /\ MaxShows \in Nat
  BY ExplorerAssumption DEF ExplorerAssumption
<1>2. AccessInv /\ AccessInv' /\ UNCHANGED server /\ pc'[Form] = "idle"
  BY <1>1, DoneInv, DoneIdle DEF FormAnswered, IInv
<1>3. CASE issued[Form] # NoToken
  <2>1. issued[Form] \in Tokens
    BY <1>1, <1>3 DEF IInv, AccessInv, RequestOK
  <2>2. shows + 1 \in 1 .. MaxShows /\ timers \subseteq Timer
    BY <1>1 DEF FormAnswered, IInv, PageOK, ShowsInv
  <2>3. ShowApp(issued[Form], shows + 1, timers)
    BY <1>3 DEF FormAnswered
  <2>4. \A e \in timers : e.of < shows + 1
    <3>1. shows \in Nat /\ \A e \in timers : e.of \in Nat
      BY DEF IInv, PageOK, Timer
    <3> QED  BY <3>1 DEF IInv, TimersInv
  <2> QED  BY <1>2, <2>1, <2>2, <2>3, <2>4, ShowAppInv DEF IInv
<1>4. CASE issued[Form] = NoToken
  BY <1>2, <1>4, PageSame DEF FormAnswered, server
<1> QED  BY <1>3, <1>4

\* A timer that fires, or a logout, ends a session whole or not at all.
LEMMA TimerInv == IInv /\ (FireWarn \/ FireExpire \/ Logout) => IInv'
<1> SUFFICES ASSUME IInv, FireWarn \/ FireExpire \/ Logout PROVE IInv'
  OBVIOUS
<1>1. UNCHANGED access /\ timers' \subseteq timers /\ UNCHANGED <<shows, long, clock>>
  BY DEF FireWarn, FireExpire, Fire, Logout, access, server
<1>2. AccessInv' /\ pc' = pc
  BY <1>1 DEF IInv, AccessInv, ServerOK, RequestOK, Standing, Admitted, Fair, Entitles,
             JwtEnabled, BasicEnabled, access, server, request
<1>3. CASE FireWarn
  <2>1. /\ \A t \in timers : t.what = "expire" => t \in timers'
        /\ overlay' = TRUE /\ UNCHANGED <<stored, app>>
    BY <1>3 DEF FireWarn, Fire
  <2> QED  BY <1>1, <1>2, <2>1
           DEF IInv, PageOK, ShowsInv, TimersInv, ScreenMatchesSession
<1>4. CASE FireExpire \/ Logout
  <2>1. stored' = NoToken /\ app' = FALSE /\ overlay' = TRUE
    BY <1>4 DEF FireExpire, Logout, ShowLogin
  <2> QED  BY <1>1, <1>2, <2>1
           DEF IInv, PageOK, ShowsInv, TimersInv, ScreenMatchesSession
<1> QED  BY <1>3, <1>4

\* What one client does leaves the others where they are.
LEMMA OthersStay ==
    ASSUME AccessInv, NEW c \in Clients,
           \/ \E h \in Headers \cup {NoHeader} : Arrive(c, h)
           \/ Lookup(c) \/ Resume(c) \/ Done(c)
    PROVE  \A d \in Clients \ {c} : pc'[d] = pc[d]
<1>1. \E p \in {"idle", "lookup", "resume", "answered"} : pc' = [pc EXCEPT ![c] = p]
  BY DEF Arrive, Lookup, Resume, Done, Reply
<1> QED  BY <1>1 DEF AccessInv, RequestOK

\* The token the page has stored makes a header.
LEMMA OwnHeader == PageOK => AuthHeaders \in Headers \cup {NoHeader}
BY DEF PageOK, AuthHeaders, Tokens, Headers

\* Every step of Next keeps the invariant.
LEMMA StepInv == IInv /\ [Next]_vars => IInv'
<1> SUFFICES ASSUME IInv, [Next]_vars PROVE IInv'
  OBVIOUS
<1>a. Form \in Clients /\ Other \in Clients /\ Form # Other
  BY ExplorerAssumption DEF ExplorerAssumption
<1>1. CASE PageLoad \/ FormAnswered \/ FireWarn \/ FireExpire \/ Logout
  BY <1>1, PageLoadInv, FormAnsweredInv, TimerInv
<1>2. ASSUME NEW u \in Users, NEW p \in Passwords, SubmitForm(u, p) PROVE IInv'
  <2>1. [scheme |-> "Login", user |-> u, secret |-> p] \in Headers
    BY DEF Headers
  <2>2. AccessInv'
    BY <1>a, <1>2, <2>1, ArriveInv DEF SubmitForm, IInv
  <2> QED  BY <1>2, <2>2, PageSame DEF SubmitForm, Arrive, server
<1>3. ASSUME NEW h \in Headers \cup {NoHeader}, Arrive(Other, h), UNCHANGED page PROVE IInv'
  <2>1. AccessInv' /\ pc'[Form] = pc[Form]
    BY <1>a, <1>3, ArriveInv, OthersStay DEF IInv
  <2> QED  BY <1>3, <2>1, PageSame DEF IInv, ShowsInv, Arrive, server
<1>4. CASE ApiCall
  BY <1>3, <1>4, OwnHeader DEF ApiCall, IInv
<1>5. CASE OtherAnswered
  <2>1. AccessInv' /\ pc'[Form] = pc[Form]
    BY <1>a, <1>5, DoneInv, OthersStay DEF OtherAnswered, IInv
  <2> QED  BY <1>5, <2>1, PageSame DEF OtherAnswered, Done, server, IInv, ShowsInv
<1>6. ASSUME NEW c \in Clients, Lookup(c) \/ Resume(c), UNCHANGED page PROVE IInv'
  <2>1. AccessInv' /\ (c # Form => pc'[Form] = pc[Form])
    BY <1>a, <1>6, LookupInv, ResumeInv, OthersStay DEF IInv
  <2>2. pc[c] # "idle" /\ clock' = clock
    BY <1>6 DEF Lookup, Resume, server
  <2> QED  BY <1>6, <2>1, <2>2, PageSame DEF IInv, ShowsInv
<1>7. CASE Environment
  <2>1. AccessInv' /\ pc' = pc
    BY <1>7, TickInv, ChangeInv DEF Environment, Tick, ChangeAccount, request, IInv
  <2> QED  BY <1>7, <2>1, PageSame DEF Environment, Tick, ChangeAccount, IInv, ShowsInv
<1>8. ASSUME NEW h \in Headers, OtherCall(h) PROVE IInv'
  BY <1>3, <1>8 DEF OtherCall
<1>9. CASE UNCHANGED vars
  BY <1>9 DEF vars, page, access, server, request, IInv, AccessInv, ServerOK, RequestOK,
              Standing, Admitted, Fair, Entitles, JwtEnabled, BasicEnabled, PageOK,
              ShowsInv, TimersInv, ScreenMatchesSession
<1> QED  BY <1>1, <1>2, <1>4, <1>5, <1>6, <1>7, <1>8, <1>9 DEF Next, Served

\* Nobody has asked for anything yet and the page shows the login form.
LEMMA InitInv == Init => IInv
<1> SUFFICES ASSUME Init PROVE IInv
  OBVIOUS
<1>1. ServerOK /\ RequestOK
  BY AccessAssumption
     DEF AccessAssumption, Init, AccessInit, ServerOK, RequestOK, Hashes
<1>2. \A c \in Clients : Standing(c)
  BY DEF Init, AccessInit, Standing, Fair
<1>3. Form \in Clients
  BY ExplorerAssumption DEF ExplorerAssumption
<1>4. Blank
  BY <1>3 DEF Init, AccessInit, Blank
<1> QED  BY <1>1, <1>2, <1>4, NoSession DEF IInv, AccessInv

\* The invariant holds in every behaviour.
LEMMA Invariance == Spec => []IInv
BY InitInv, StepInv, PTL DEF Spec

-----------------------------------------------------------------------------
\* A request is answered as its account entitled it at some moment between its
\* arrival and its answer, whoever changes the accounts meanwhile and however
\* long the passwords are (get_current_user, login, _prepare_password).
THEOREM Entitled == Spec => []AnsweredAsEntitled
<1>1. IInv => AnsweredAsEntitled
  BY DEF IInv, AccessInv, Standing, Fair, AnsweredAsEntitled
<1> QED  BY <1>1, Invariance, PTL

\* The screen agrees with the session whatever timers fire (showApp,
\* showLogin, scheduleExpiryWarning).
THEOREM Screen == Spec => []ScreenMatchesSession
<1>1. IInv => ScreenMatchesSession
  BY DEF IInv
<1> QED  BY <1>1, Invariance, PTL

\* Before its token expires a session ends by a logout or by the timer of an
\* earlier showApp, or the token had more time left than a timer can wait
\* (scheduleExpiryWarning).
THEOREM NotCutShort == Spec => NoEarlyEnd
<1>1. IInv /\ IInv' /\ [Next]_vars
        => [stored # NoToken /\ stored' = NoToken /\ clock < stored.exp
              => \/ Logout \/ long
                 \/ \E t \in timers \ timers' : t.what = "expire" /\ t.of < shows]_vars
  <2> SUFFICES ASSUME IInv, Next, stored # NoToken, stored' = NoToken, clock < stored.exp,
                      ~Logout, ~long
               PROVE  \E t \in timers \ timers' : t.what = "expire" /\ t.of < shows
    BY DEF NoEarlyEnd
  <2>1. CASE FireExpire
    <3>1. PICK t \in timers : t.what = "expire" /\ Fire(t)
      BY <2>1 DEF FireExpire
    <3>2. t \in timers \ timers' /\ t.due <= clock
      BY <3>1 DEF Fire
    <3>3. /\ t.of \in Nat /\ t.due \in Int /\ shows \in Nat /\ clock \in Int
          /\ stored.exp \in Int
      BY <3>1, AccessAssumption, ExplorerAssumption
         DEF AccessAssumption, ExplorerAssumption, IInv, AccessInv, ServerOK, PageOK, Timer,
             Tokens
    <3>4. t.of # shows
      BY <3>1, <3>2, <3>3 DEF IInv, TimersInv
    <3>5. t.of < shows
      BY <3>1, <3>3, <3>4 DEF IInv, TimersInv
    <3> QED  BY <3>1, <3>2, <3>5
  <2>2. CASE PageLoad
    BY <2>2 DEF PageLoad, ShowApp
  <2>3. CASE FormAnswered
    BY <2>3 DEF FormAnswered, ShowApp, page
  <2>4. CASE UNCHANGED stored
    BY <2>4
  <2> QED  BY <2>1, <2>2, <2>3, <2>4
           DEF Next, FireWarn, SubmitForm, ApiCall, OtherAnswered, Served, Environment,
               OtherCall, page
<1> QED  BY <1>1, Invariance, PTL DEF Spec, NoEarlyEnd

\* The state of server and page is well typed (Access, Explorer).
THEOREM TypeCorrect == Spec => []TypeOK
<1>1. IInv => TypeOK
  BY DEF IInv, AccessInv, ServerOK, RequestOK, PageOK, Hashes, HashPassword, TypeOK
<1> QED  BY <1>1, Invariance, PTL
=============================================================================
