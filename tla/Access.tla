------------------------------- MODULE Access -------------------------------
(***************************************************************************)
(* Authentication of requests: get_current_user (auth/dependencies.py) in  *)
(* the modes jwt, basic and both, the login route (auth/routes.py), tokens *)
(* (auth/tokens.py) and password hashes (auth/passwords.py).               *)
(*                                                                         *)
(* A request looks at the clock when it arrives and awaits one look at the *)
(* _users table; meanwhile time passes, a restarted worker seeds another   *)
(* password (Startup), or an account is removed.  Signatures and hashes    *)
(* are external: a token is what was signed, and bcrypt keeps apart        *)
(* whatever differs in the 72 bytes it looks at.                           *)
(***************************************************************************)
EXTENDS Naturals, FiniteSets

CONSTANTS
    Clients,      \* those who make requests, one at a time each
    Users,        \* account names; the token's sub is as good as the name
    Passwords,    \* [head |-> the first 72 bytes, tail |-> the rest or NoTail]
    Modes,        \* the AUTH_MODEs to start with
    Lifetime,     \* JWT_EXPIRE_MINUTES, in ticks
    MaxClock,     \* bound: the last tick
    MaxChanges,   \* bound: changes of the accounts
    MaxInFlight,  \* bound: requests between arrival and answer read
    NoTail, NoAccount, NoHeader, NoUser, NoToken

ASSUME AccessAssumption ==
    /\ Modes \subseteq {"jwt", "basic", "both"}
    /\ Lifetime \in Nat \ {0} /\ MaxClock \in Nat /\ MaxChanges \in Nat
    /\ MaxInFlight \in Nat
    /\ NoAccount \notin Passwords /\ NoUser \notin Users

VARIABLES
    mode,      \* AUTH_MODE
    clock,
    password,  \* the password of each account, as its owner knows it
    changes,   \* changes of the accounts so far
    pc,        \* where the request of a client is
    header,    \* its credentials
    arrived,   \* when it arrived
    fetched,   \* the password hash it read, or NoAccount
    status,    \* its answer, 0 while there is none
    issued,    \* the token in the answer of a login, or NoToken
    held       \* history: what its account was like since it arrived

server  == <<mode, clock, password, changes>>
request == <<pc, header, arrived, fetched, status, issued, held>>
access  == <<server, request>>

Tokens == [user : Users, exp : 0 .. MaxClock + Lifetime]

\* Bearer: no user stands for a token that does not decode or has no sub.
\* Basic: no user stands for a header that does not decode or lacks a part.
Headers ==
    [scheme : {"Bearer"}, user : Users \cup {NoUser}, exp : 0 .. MaxClock + Lifetime]
    \cup [scheme : {"Basic"}, user : Users \cup {NoUser}, secret : Passwords]
    \cup [scheme : {"Login"}, user : Users, secret : Passwords]

ASSUME MarkersAssumption == NoToken \notin Tokens /\ NoHeader \notin Headers

JwtEnabled   == mode \in {"jwt", "both"}
BasicEnabled == mode \in {"basic", "both"}

-----------------------------------------------------------------------------
(* Passwords.                                                              *)

\* Mutant: bcrypt gets the password as it is.
PlainPassword(p) == p

\* _prepare_password: more than 72 bytes are replaced by their digest.
PreparePassword(p) == IF p.tail = NoTail THEN p ELSE [head |-> p, tail |-> NoTail]

\* bcrypt itself looks at the first 72 bytes.
Bcrypt(p) == p.head

HashPassword(p) == Bcrypt(PreparePassword(p))

VerifyPassword(p, hash) == hash # NoAccount /\ HashPassword(p) = hash

\* A password is its first 72 bytes and the rest; nobody's password is the
\* digest of another one.
ASSUME PasswordsAssumption ==
    \A p \in Passwords :
        /\ p = [head |-> p.head, tail |-> p.tail]
        /\ p.head \notin Passwords \cup {NoAccount}

HashOf(u) == IF password[u] = NoAccount THEN NoAccount ELSE HashPassword(password[u])

-----------------------------------------------------------------------------
AccessInit ==
    /\ mode \in Modes
    /\ clock = 0 /\ changes = 0
    /\ password \in [Users -> Passwords \cup {NoAccount}]
    /\ pc = [c \in Clients |-> "idle"]
    /\ header = [c \in Clients |-> NoHeader]
    /\ arrived = [c \in Clients |-> 0]
    /\ fetched = [c \in Clients |-> NoAccount]
    /\ status = [c \in Clients |-> 0]
    /\ issued = [c \in Clients |-> NoToken]
    /\ held = [c \in Clients |-> {}]

Reply(c, st) ==
    /\ pc' = [pc EXCEPT ![c] = "answered"]
    /\ status' = [status EXCEPT ![c] = st]

\* decode_access_token: a token is good up to and including its last second.
TokenReads(h) == h.user # NoUser /\ h.exp >= clock

\* What is decided before the table is looked at.  Everything a Bearer token
\* fails of falls through, in mode "both", to a look for a Basic header; there
\* is one Authorization header, so that finds none and it is 401 all the same.
Settled(h) ==
    IF h = NoHeader THEN {401} ELSE
    CASE h.scheme = "Bearer"   -> IF JwtEnabled /\ TokenReads(h) THEN {} ELSE {401}
      [] h.scheme = "Basic"    -> IF BasicEnabled /\ h.user # NoUser THEN {} ELSE {401}
      [] h.scheme = "Login"    -> IF JwtEnabled THEN {} ELSE {404}

\* get_current_user or login up to its await.  The limiter of the login route
\* (RateLimiter) may refuse first.
Arrive(c, h) ==
    /\ pc[c] = "idle" /\ Cardinality({d \in Clients : pc[d] # "idle"}) < MaxInFlight
    /\ header' = [header EXCEPT ![c] = h]
    /\ arrived' = [arrived EXCEPT ![c] = clock]
    /\ held' = [held EXCEPT ![c] = IF h # NoHeader /\ h.user \in Users
                                   THEN {password[h.user]} ELSE {}]
    /\ \/ \E st \in Settled(h) : Reply(c, st)
       \/ /\ h # NoHeader /\ h.scheme = "Login" /\ JwtEnabled
          /\ Reply(c, 429)
       \/ /\ Settled(h) = {}
          /\ pc' = [pc EXCEPT ![c] = "lookup"]
          /\ UNCHANGED status
    /\ UNCHANGED <<server, fetched, issued>>

\* get_by_id or get_by_username runs its SELECT, or fails.
Lookup(c) ==
    /\ pc[c] = "lookup"
    /\ \/ /\ fetched' = [fetched EXCEPT ![c] = HashOf(header[c].user)]
          /\ pc' = [pc EXCEPT ![c] = "resume"]
          /\ UNCHANGED status
       \/ Reply(c, 500) /\ UNCHANGED fetched
    /\ UNCHANGED <<server, header, arrived, issued, held>>

\* A token needs its account, a password must match; without an account the
\* dummy hash is verified, and matches nothing.
Passes(c) ==
    IF header[c].scheme = "Bearer"
    THEN fetched[c] # NoAccount
    ELSE VerifyPassword(header[c].secret, fetched[c])

\* Mutant: the lifetime is added by the caller and here again.
TokenForTwice(u) == [user |-> u, exp |-> clock + 2 * Lifetime]

\* create_access_token: good for Lifetime from now.
TokenFor(u) == [user |-> u, exp |-> clock + Lifetime]

\* Back from the await, on with what was read then.
Resume(c) ==
    /\ pc[c] = "resume"
    /\ Reply(c, IF Passes(c) THEN 200 ELSE 401)
    /\ issued' = [issued EXCEPT ![c] = IF header[c].scheme = "Login" /\ Passes(c)
                                       THEN TokenFor(header[c].user) ELSE NoToken]
    /\ UNCHANGED <<server, header, arrived, fetched, held>>

\* The client has read the answer, or is gone.
Done(c) ==
    /\ pc' = [pc EXCEPT ![c] = "idle"]
    /\ header' = [header EXCEPT ![c] = NoHeader]
    /\ arrived' = [arrived EXCEPT ![c] = 0]
    /\ fetched' = [fetched EXCEPT ![c] = NoAccount]
    /\ status' = [status EXCEPT ![c] = 0]
    /\ issued' = [issued EXCEPT ![c] = NoToken]
    /\ held' = [held EXCEPT ![c] = {}]
    /\ UNCHANGED server

(* The environment.                                                        *)

Tick ==
    /\ clock < MaxClock
    /\ clock' = clock + 1
    /\ UNCHANGED <<mode, password, changes, request>>

\* A worker restarts with other credentials and seeds them; or the account is
\* removed from the table by hand.  What is removed stays so.
ChangeAccount(u, p) ==
    /\ changes < MaxChanges /\ password[u] \notin {p, NoAccount}
    /\ password' = [password EXCEPT ![u] = p]
    /\ changes' = changes + 1
    /\ held' = [c \in Clients |->
                   IF pc[c] \in {"lookup", "resume"} /\ header[c].user = u
                   THEN held[c] \cup {p} ELSE held[c]]
    /\ UNCHANGED <<mode, clock, pc, header, arrived, fetched, status, issued>>

-----------------------------------------------------------------------------
(* The account of c at any moment of the request: does p entitle c?        *)
Entitles(c, p) ==
    IF header[c].scheme = "Bearer"
    THEN JwtEnabled /\ header[c].exp >= arrived[c] /\ p # NoAccount
    ELSE /\ IF header[c].scheme = "Basic" THEN BasicEnabled ELSE JwtEnabled
         /\ header[c].secret = p

(* The answers are those of some moment between the arrival and the answer: *)
(* 200 when the credentials were good at one of them (a token is not        *)
(* revoked by a new password, a password is compared in full however long)  *)
(* and 401 when they were bad at one of them.  A token is issued with a 200 *)
(* only, and for the account that was asked about.                          *)
AnsweredAsEntitled ==
    \A c \in Clients :
        /\ status[c] = 200 =>
               header[c] # NoHeader /\ \E p \in held[c] : Entitles(c, p)
        /\ status[c] = 401 /\ held[c] # {} => \E p \in held[c] : ~Entitles(c, p)
        /\ issued[c] # NoToken =>
               /\ status[c] = 200 /\ header[c].scheme = "Login"
               /\ issued[c].user = header[c].user
=============================================================================
