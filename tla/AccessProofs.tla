---------------------------- MODULE AccessProofs ----------------------------
(***************************************************************************)
(* Machine-checked proofs about sessions and their revocation (Access),    *)
(* for any number of accounts, replicas and requests, any operations and   *)
(* any times: a change of an account takes effect within revCacheTTL.      *)
(***************************************************************************)
EXTENDS Access, TLAPS

-----------------------------------------------------------------------------
(* The inductive invariant                                                 *)

\* A request, in each of its steps.
Request ==
    {Idle}
    \cup [step : {"token"}, rep : Replica, claims : Claims]
    \cup [step : {"query"}, rep : Replica, claims : Claims, at : Nat]
    \cup [step : {"store"}, rep : Replica, claims : Claims, at : Nat, st : AuthState]
    \cup [step : {"handle"}, claims : Claims, at : Nat]
    \cup [step : {"update"}, target : User, sets : Seq(Setting) \ {<<>>}]

\* What st says of an account whose row is r, at time t, when the account is gone
\* since g: all that changed before it was fetched, and if it says that the account
\* is enabled, then the account was when st was fetched.
Known(st, t, r, g) ==
    /\ st.fetched <= t
    /\ r \in Row /\ r.creds < st.fetched => st.creds = r.creds /\ st.disabled = r.disabled
    /\ ~st.disabled /\ g # 0 => st.fetched <= g

\* A request that was accepted at time `at', of claims c: it is not late for what
\* happened to the account.
Accepted(at, c, t, r, g) ==
    /\ at <= t
    /\ g = 0 \/ at < g + RevTTL
    /\ \/ r \notin Row
       \/ c.iat = 0
       \/ c.iat >= Unix(r.creds)
       \/ at < r.creds + RevTTL

Types ==
    /\ now \in Nat
    /\ row \in [User -> Row \cup {None, Deleted}]
    /\ jwts \subseteq Claims
    /\ logins \in [User -> Row \cup {None}]
    /\ cache \in [Replica -> [User -> AuthState \cup {None}]]
    /\ req \in [Req -> Request]
    /\ served \in Nat
    /\ goneSince \in [User -> Nat]

GoneIsNoted ==
    \A u \in User : row[u] = None \/ (row[u] \in Row /\ ~row[u].disabled)
                       => goneSince[u] = 0

CacheIsKnown ==
    \A p \in Replica, u \in User :
        cache[p][u] \in AuthState => Known(cache[p][u], now, row[u], goneSince[u])

RequestInv(q) ==
    /\ req[q].step = "query" => req[q].at <= now
    /\ req[q].step = "store" =>
          LET u == req[q].claims.sub
          IN  req[q].st.fetched = req[q].at /\ Known(req[q].st, now, row[u], goneSince[u])
    /\ req[q].step = "handle" =>
          LET u == req[q].claims.sub
          IN  Accepted(req[q].at, req[q].claims, now, row[u], goneSince[u])

RevocationInv ==
    Types /\ GoneIsNoted /\ CacheIsKnown /\ \A q \in Req : RequestInv(q)

-----------------------------------------------------------------------------
(* Facts about the parts                                                   *)

\* Rows are not the marks of missing ones, and times in seconds are numbers.
LEMMA Kinds ==
    /\ Deleted \notin Row /\ None \notin Row
    /\ None \notin AuthState /\ None # Deleted
    /\ \A t \in Nat : Unix(t) \in Nat
BY TimesAssumption DEF Deleted, None, Row, AuthState, Unix

\* The fields of a request, by its step.
LEMMA RequestKinds ==
    ASSUME NEW x \in Request
    PROVE  /\ x.step \in {"idle", "token", "query", "store", "handle", "update"}
           /\ x.step = "token" => x.rep \in Replica /\ x.claims \in Claims
           /\ x.step = "query" => x.rep \in Replica /\ x.claims \in Claims /\ x.at \in Nat
           /\ x.step = "store" => /\ x.rep \in Replica /\ x.claims \in Claims /\ x.at \in Nat
                                  /\ x.st \in AuthState
           /\ x.step = "handle" => x.claims \in Claims /\ x.at \in Nat
           /\ x.step = "update" => x.target \in User /\ x.sets \in Seq(Setting) \ {<<>>}
BY DEF Request, Idle

\* What happens to an account in a step: nothing that st would have to know.
Follows(r, r2, g, g2, t) ==
    /\ r2 \in Row => \/ r2.creds = t
                     \/ r \in Row /\ r2.creds = r.creds /\ r2.disabled = r.disabled
    /\ g2 \in {0, t, g}

\* Knowledge and acceptance survive what happens to the account.
LEMMA FollowsKept ==
    ASSUME NEW t \in Nat, NEW t2 \in Nat, t <= t2, NEW r, NEW r2, NEW g \in Nat, NEW g2 \in Nat,
           Follows(r, r2, g, g2, t)
    PROVE  /\ \A st \in AuthState : Known(st, t, r, g) => Known(st, t2, r2, g2)
           /\ \A a \in Nat, c \in Claims : Accepted(a, c, t, r, g) => Accepted(a, c, t2, r2, g2)
<1>1. ASSUME NEW st \in AuthState, Known(st, t, r, g) PROVE Known(st, t2, r2, g2)
  BY <1>1 DEF Known, Follows, AuthState, Row
<1>2. ASSUME NEW a \in Nat, NEW c \in Claims, Accepted(a, c, t, r, g)
      PROVE  Accepted(a, c, t2, r2, g2)
  <2>1. a <= t2 /\ (g2 = 0 \/ a < g2 + RevTTL)
    BY <1>2, TimesAssumption DEF Accepted, Follows
  <2>2. ASSUME r2 \in Row, r2.creds = t PROVE a < r2.creds + RevTTL
    BY <1>2, <2>2, TimesAssumption DEF Accepted
  <2>3. ASSUME r2 \in Row, r \in Row, r2.creds = r.creds
        PROVE  c.iat = 0 \/ c.iat >= Unix(r2.creds) \/ a < r2.creds + RevTTL
    BY <1>2, <2>3 DEF Accepted
  <2> QED
    BY <2>1, <2>2, <2>3 DEF Accepted, Follows
<1> QED
  BY <1>1, <1>2

\* A request whose state of the account was fetched within revCacheTTL is accepted in
\* time.
LEMMA DecidedInTime ==
    ASSUME NEW st \in AuthState, NEW c \in Claims, NEW a \in Nat, NEW t \in Nat, NEW r,
           NEW g \in Nat, a <= t, a < st.fetched + RevTTL, Known(st, t, r, g), accepts(c, st)
    PROVE  Accepted(a, c, t, r, g)
<1>1. g = 0 \/ a < g + RevTTL
  BY TimesAssumption DEF Known, accepts, AuthState
<1>2. ASSUME r \in Row, c.iat # 0
      PROVE  c.iat >= Unix(r.creds) \/ a < r.creds + RevTTL
  <2>1. CASE r.creds < st.fetched
    <3>1. Unix(r.creds) \in Nat /\ c.iat \in Nat /\ st.creds = r.creds
      BY <1>2, <2>1, Kinds DEF Row, Claims, Known
    <3> QED
      BY <1>2, <3>1 DEF accepts
  <2>2. CASE ~(r.creds < st.fetched)
    BY <1>2, <2>2, TimesAssumption DEF Row, AuthState
  <2> QED
    BY <2>1, <2>2
<1> QED
  BY <1>1, <1>2 DEF Accepted

-----------------------------------------------------------------------------
(* The steps                                                               *)

\* A step that ends requests or moves them to a next statement, whatever it does to
\* accounts, keeps what is known and accepted.
LEMMA RowStepKept ==
    ASSUME RevocationInv, Types', GoneIsNoted', now <= now', cache' = cache,
           \A u \in User : Follows(row[u], row'[u], goneSince[u], goneSince'[u], now),
           \A q \in Req : req'[q] = req[q] \/ req'[q].step \in {"idle", "update"}
    PROVE  RevocationInv'
<1> USE DEF RevocationInv
<1>1. now \in Nat /\ now' \in Nat /\ goneSince \in [User -> Nat] /\ goneSince' \in [User -> Nat]
  BY DEF Types
<1>2. ASSUME NEW u \in User
      PROVE  /\ \A st \in AuthState :
                   Known(st, now, row[u], goneSince[u]) => Known(st, now', row'[u], goneSince'[u])
             /\ \A a \in Nat, c \in Claims :
                   Accepted(a, c, now, row[u], goneSince[u])
                       => Accepted(a, c, now', row'[u], goneSince'[u])
  BY <1>1, FollowsKept
<1>3. CacheIsKnown'
  <2> SUFFICES ASSUME NEW p \in Replica, NEW u \in User, cache'[p][u] \in AuthState
               PROVE  Known(cache'[p][u], now', row'[u], goneSince'[u])
    BY DEF CacheIsKnown
  <2>1. cache[p][u] \in AuthState /\ Known(cache[p][u], now, row[u], goneSince[u])
    BY DEF CacheIsKnown
  <2> QED
    BY <1>2, <2>1
<1>4. ASSUME NEW q \in Req PROVE RequestInv(q)'
  <2>1. CASE req'[q].step \in {"idle", "update"}
    BY <2>1 DEF RequestInv
  <2>2. CASE req'[q] = req[q]
    <3>1. req[q] \in Request /\ RequestInv(q)
      BY DEF Types
    <3>2. req[q].step \in {"query", "store", "handle"} => req[q].claims.sub \in User
      BY <3>1, RequestKinds DEF Claims
    <3>3. req[q].step = "query" => req[q].at <= now'
      BY <1>1, <3>1, RequestKinds DEF RequestInv
    <3>4. ASSUME NEW u \in User, u = req[q].claims.sub, req[q].step = "store"
          PROVE  req[q].st.fetched = req[q].at /\ Known(req[q].st, now', row'[u], goneSince'[u])
      <4>1. req[q].st \in AuthState /\ Known(req[q].st, now, row[u], goneSince[u])
            /\ req[q].st.fetched = req[q].at
        BY <3>1, <3>4, RequestKinds DEF RequestInv
      <4> QED
        BY <1>2, <4>1
    <3>5. ASSUME NEW u \in User, u = req[q].claims.sub, req[q].step = "handle"
          PROVE  Accepted(req[q].at, req[q].claims, now', row'[u], goneSince'[u])
      <4>1. req[q].at \in Nat /\ req[q].claims \in Claims
            /\ Accepted(req[q].at, req[q].claims, now, row[u], goneSince[u])
        BY <3>1, <3>5, RequestKinds DEF RequestInv
      <4> QED
        BY <1>2, <4>1
    <3> QED
      BY <2>2, <3>2, <3>3, <3>4, <3>5 DEF RequestInv
  <2> QED
    BY <2>1, <2>2
<1> QED
  BY <1>3, <1>4

\* An account that a step leaves alone.
LEMMA FollowsSame ==
    \A r, g, t : Follows(r, r, g, g, t)
BY DEF Follows

\* A request step leaves the clock, the accounts and the other requests alone: what
\* remains to be shown is about the cache and its own request.
LEMMA RequestStepKept ==
    ASSUME RevocationInv, NEW q0 \in Req, Types', CacheIsKnown', RequestInv(q0)',
           UNCHANGED <<now, row, goneSince>>,
           \A q \in Req : q # q0 => req'[q] = req[q]
    PROVE  RevocationInv'
<1>1. ASSUME NEW q \in Req, q # q0 PROVE RequestInv(q)'
  BY <1>1 DEF RevocationInv, RequestInv
<1>2. GoneIsNoted'
  BY DEF RevocationInv, GoneIsNoted
<1> QED
  BY <1>1, <1>2 DEF RevocationInv

\* validate, for a session or an API token.
LEMMA ValidateKept ==
    ASSUME RevocationInv, NEW q \in Req, NEW p \in Replica, NEW c \in Claims, validate(q, p, c),
           served' \in Nat
    PROVE  RevocationInv'
<1> USE DEF RevocationInv
<1>1. /\ now \in Nat /\ cache \in [Replica -> [User -> AuthState \cup {None}]]
      /\ req \in [Req -> Request] /\ served \in Nat /\ goneSince \in [User -> Nat]
      /\ c.sub \in User
  BY DEF Types, Claims
<1> DEFINE st == cache[p][c.sub]
           new == IF fresh(st) THEN decided(c, st, now)
                  ELSE [step |-> "query", rep |-> p, claims |-> c, at |-> now]
<1>2. /\ req' = [req EXCEPT ![q] = new]
      /\ UNCHANGED <<now, row, jwts, logins, cache, goneSince>>
  BY DEF validate
<1>3. CASE fresh(st) /\ accepts(c, st)
  <2>1. new = [step |-> "handle", claims |-> c, at |-> now]
    BY <1>3 DEF decided
  <2>2. st \in AuthState /\ now < st.fetched + RevTTL
    BY <1>1, <1>3 DEF fresh
  <2>3. Known(st, now, row[c.sub], goneSince[c.sub])
    BY <1>1, <2>2 DEF CacheIsKnown
  <2>4. Accepted(now, c, now, row[c.sub], goneSince[c.sub])
    BY <1>1, <1>3, <2>2, <2>3, DecidedInTime
  <2> HIDE DEF st
  <2>5. new \in Request
    BY <1>1, <2>1 DEF Request
  <2>6. req'[q] = new /\ new.step = "handle" /\ new.claims = c /\ new.at = now
    BY <1>1, <1>2, <2>1
  <2>7. RequestInv(q)'
    BY <1>2, <2>4, <2>6 DEF RequestInv
  <2> HIDE DEF new
  <2>8. Types' /\ CacheIsKnown'
    BY <1>1, <1>2, <2>5 DEF Types, CacheIsKnown
  <2> QED
    BY <1>1, <1>2, <2>7, <2>8, RequestStepKept
<1>4. CASE fresh(st) /\ ~accepts(c, st)
  <2>1. new = Idle
    BY <1>4 DEF decided
  <2>2. RequestInv(q)'
    BY <1>1, <1>2, <2>1 DEF RequestInv, Idle
  <2>3. Types' /\ CacheIsKnown'
    BY <1>1, <1>2, <2>1 DEF Types, CacheIsKnown, Request
  <2> QED
    BY <1>1, <1>2, <2>2, <2>3, RequestStepKept
<1>5. CASE ~fresh(st)
  <2>1. new = [step |-> "query", rep |-> p, claims |-> c, at |-> now]
    BY <1>5
  <2>2. new \in Request
    BY <1>1, <2>1 DEF Request
  <2>3. req'[q] = new /\ new.step = "query" /\ new.at = now
    BY <1>1, <1>2, <2>1
  <2>4. RequestInv(q)'
    BY <1>1, <1>2, <2>3 DEF RequestInv
  <2> HIDE DEF new
  <2>5. Types' /\ CacheIsKnown'
    BY <1>1, <1>2, <2>2 DEF Types, CacheIsKnown
  <2> QED
    BY <1>1, <1>2, <2>4, <2>5, RequestStepKept
<1> QED
  BY <1>3, <1>4, <1>5

\* Query: what is read of the account is known at once, as of the time before the
\* query.
LEMMA QueryKept ==
    ASSUME RevocationInv, NEW q \in Req, Query(q)
    PROVE  RevocationInv'
<1> USE DEF RevocationInv
<1>1. /\ now \in Nat /\ row \in [User -> Row \cup {None, Deleted}] /\ req \in [Req -> Request]
      /\ goneSince \in [User -> Nat] /\ req[q] \in Request /\ req[q].step = "query"
  BY DEF Types, Query
<1>2. /\ req[q].rep \in Replica /\ req[q].claims \in Claims /\ req[q].at \in Nat
      /\ req[q].at <= now
  BY <1>1, RequestKinds DEF RequestInv
<1> DEFINE u == req[q].claims.sub
<1>3. u \in User
  BY <1>2 DEF Claims
<1>4. /\ UNCHANGED <<now, row, jwts, logins, cache, served, goneSince>>
      /\ \A x \in Req : x # q => req'[x] = req[x]
  BY <1>1 DEF Query
<1>5. CASE ~exists(u)
  <2>1. req' = [req EXCEPT ![q] = Idle]
    BY <1>1, <1>5 DEF Query
  <2>2. RequestInv(q)'
    BY <1>1, <2>1 DEF RequestInv, Idle
  <2>3. Types' /\ CacheIsKnown'
    BY <1>1, <1>4, <2>1 DEF Types, CacheIsKnown, Request
  <2> QED
    BY <1>4, <2>2, <2>3, RequestStepKept
<1>6. CASE exists(u)
  <2> DEFINE read == [disabled |-> row[u].disabled, creds |-> row[u].creds,
                      fetched |-> req[q].at]
             new == [step |-> "store", rep |-> req[q].rep, claims |-> req[q].claims,
                     at |-> req[q].at, st |-> read]
  <2>1. req' = [req EXCEPT ![q] = new]
    BY <1>1, <1>6 DEF Query
  <2>2. read \in AuthState /\ read.fetched = req[q].at
        /\ read.creds = row[u].creds /\ read.disabled = row[u].disabled
    BY <1>2, <1>6 DEF exists, Row, AuthState
  <2>3. Known(read, now, row[u], goneSince[u])
    <3>1. ~row[u].disabled => goneSince[u] = 0
      BY <1>3, <1>6 DEF GoneIsNoted, exists
    <3> HIDE DEF read
    <3> QED
      BY <1>2, <2>2, <3>1 DEF Known
  <2> HIDE DEF read
  <2>4. new \in Request
    BY <1>2, <2>2 DEF Request
  <2>5. new.step = "store" /\ new.claims.sub = u /\ new.st = read /\ new.at = req[q].at
    OBVIOUS
  <2> HIDE DEF new
  <2>6. req'[q] = new
    BY <1>1, <2>1
  <2>7. RequestInv(q)'
    BY <1>4, <2>2, <2>3, <2>5, <2>6 DEF RequestInv
  <2>8. Types' /\ CacheIsKnown'
    BY <1>1, <1>4, <2>1, <2>4 DEF Types, CacheIsKnown
  <2> QED
    BY <1>4, <2>7, <2>8, RequestStepKept
<1> QED
  BY <1>5, <1>6

\* Store: the entry is known, and a request it lets pass is in time.
LEMMA StoreKept ==
    ASSUME RevocationInv, NEW q \in Req, Store(q)
    PROVE  RevocationInv'
<1> USE DEF RevocationInv
<1>1. /\ now \in Nat /\ cache \in [Replica -> [User -> AuthState \cup {None}]]
      /\ req \in [Req -> Request] /\ goneSince \in [User -> Nat]
      /\ req[q] \in Request /\ req[q].step = "store"
  BY DEF Types, Store
<1> DEFINE p == req[q].rep
           c == req[q].claims
           st == req[q].st
           u == req[q].claims.sub
           new == decided(c, st, req[q].at)
<1>2. p \in Replica /\ c \in Claims /\ req[q].at \in Nat /\ st \in AuthState
  BY <1>1, RequestKinds
<1>3. st.fetched = req[q].at /\ Known(st, now, row[u], goneSince[u])
  BY <1>1 DEF RequestInv
<1>4. u \in User
  BY <1>2 DEF Claims
<1>5. /\ cache' = [cache EXCEPT ![p][u] = st]
      /\ req' = [req EXCEPT ![q] = new]
      /\ UNCHANGED <<now, row, jwts, logins, served, goneSince>>
  BY DEF Store
<1>6. req[q].at <= now /\ req[q].at < st.fetched + RevTTL
  BY <1>2, <1>3, TimesAssumption DEF Known
<1>7. accepts(c, st) => Accepted(req[q].at, c, now, row[u], goneSince[u])
  BY <1>1, <1>2, <1>3, <1>4, <1>6, DecidedInTime
<1>8. new \in Request /\ (new.step # "idle" => /\ new.step = "handle" /\ new.claims = c
                                               /\ new.at = req[q].at /\ accepts(c, st))
  BY <1>2 DEF decided, Request, Idle
<1> HIDE DEF new, p, c, st
<1>9. cache' \in [Replica -> [User -> AuthState \cup {None}]]
      /\ \A p2 \in Replica, u2 \in User :
            cache'[p2][u2] = cache[p2][u2] \/ (u2 = u /\ cache'[p2][u2] = st)
  BY <1>1, <1>2, <1>4, <1>5
<1>10. CacheIsKnown'
  BY <1>3, <1>5, <1>9 DEF CacheIsKnown
<1>11. Types'
  BY <1>1, <1>5, <1>8, <1>9 DEF Types
<1>12. RequestInv(q)'
  <2>1. req'[q] = new
    BY <1>1, <1>5
  <2>2. c.sub = u
    BY DEF c
  <2> QED
    BY <1>5, <1>7, <1>8, <2>1, <2>2 DEF RequestInv
<1> QED
  BY <1>1, <1>5, <1>10, <1>11, <1>12, RequestStepKept

\* A statement that sets a column keeps the row a row; if it changes what is cached
\* it notes the time.
LEMMA ChangedRow ==
    ASSUME NEW r \in Row, NEW s \in Setting, now \in Nat
    PROVE  LET r2 == changed(s.field, s.value, r)
           IN  /\ r2 \in Row
               /\ r2.creds = now \/ (r2.creds = r.creds /\ r2.disabled = r.disabled)
<1>1. CASE s.field = "role"
  BY <1>1 DEF changed, Row, Setting
<1>2. CASE s.field = "password"
  BY <1>2 DEF changed, Row
<1>3. CASE s.field = "disabled"
  BY <1>3 DEF changed, Row, Setting
<1>4. CASE s.field = "api"
  BY <1>4 DEF changed, Row
<1> QED
  BY <1>1, <1>2, <1>3, <1>4 DEF Setting

\* A write of one account's row, with the note of when it went.
LEMMA WriteKept ==
    ASSUME RevocationInv, NEW u \in User, NEW r \in Row \cup {Deleted},
           row' = [row EXCEPT ![u] = r], recorded(u), row[u] \in Row,
           r \in Row => \/ r.creds = now
                        \/ r.creds = row[u].creds /\ r.disabled = row[u].disabled,
           req' \in [Req -> Request],
           \A q \in Req : req'[q] = req[q] \/ req'[q].step \in {"idle", "update"},
           UNCHANGED <<now, jwts, logins, cache, served>>
    PROVE  RevocationInv'
<1>1. /\ now \in Nat /\ row \in [User -> Row \cup {None, Deleted}]
      /\ goneSince \in [User -> Nat] /\ Types
  BY DEF RevocationInv, Types
<1>2. /\ row'[u] = r /\ \A v \in User : v # u => row'[v] = row[v]
      /\ row' \in [User -> Row \cup {None, Deleted}]
  BY <1>1
<1>3. /\ goneSince' \in [User -> Nat]
      /\ goneSince'[u] \in {0, now, goneSince[u]}
      /\ \A v \in User : v # u => goneSince'[v] = goneSince[v]
      /\ r # Deleted /\ ~r.disabled => goneSince'[u] = 0
  BY <1>1, <1>2 DEF recorded
<1>4. Types'
  BY <1>1, <1>2, <1>3 DEF Types
<1>5. GoneIsNoted'
  BY <1>2, <1>3, Kinds DEF RevocationInv, GoneIsNoted
<1>6. ASSUME NEW v \in User
      PROVE  Follows(row[v], row'[v], goneSince[v], goneSince'[v], now)
  <2>1. CASE v = u
    BY <1>2, <1>3, <2>1 DEF Follows
  <2>2. CASE v # u
    BY <1>2, <1>3, <2>2 DEF Follows
  <2> QED
    BY <2>1, <2>2
<1> QED
  BY <1>1, <1>4, <1>5, <1>6, RowStepKept

\* A step that leaves the accounts alone.
LEMMA SameRowsKept ==
    ASSUME RevocationInv, UNCHANGED <<row, cache, goneSince>>,
           req' \in [Req -> Request], jwts' \subseteq Claims, logins' \in [User -> Row \cup {None}],
           now' \in Nat, now <= now', served' \in Nat,
           \A q \in Req : req'[q] = req[q] \/ req'[q].step \in {"idle", "update"}
    PROVE  RevocationInv'
<1>1. Types' /\ GoneIsNoted'
  BY DEF RevocationInv, Types, GoneIsNoted
<1>2. \A v \in User : Follows(row[v], row'[v], goneSince[v], goneSince'[v], now)
  BY FollowsSame
<1> QED
  BY <1>1, <1>2, RowStepKept

\* A step that leaves the accounts alone but for new ones.
LEMMA CreateKept ==
    ASSUME RevocationInv, NEW u \in User, NEW role \in Role,
           row' = row \/ (row[u] = None /\ row' = [row EXCEPT ![u] = newRow(role)]),
           req' \in [Req -> Request], jwts' \subseteq Claims, logins' \in [User -> Row \cup {None}],
           now' \in Nat, now <= now',
           \A q \in Req : req'[q] = req[q] \/ req'[q].step \in {"idle", "update"},
           UNCHANGED <<cache, served, goneSince>>
    PROVE  RevocationInv'
<1>1. /\ now \in Nat /\ row \in [User -> Row \cup {None, Deleted}]
      /\ goneSince \in [User -> Nat] /\ Types
  BY DEF RevocationInv, Types
<1>2. newRow(role) \in Row /\ newRow(role).creds = now
  BY <1>1 DEF newRow, Row
<1>3. ASSUME NEW v \in User
      PROVE  row'[v] = row[v] \/ (row[v] = None /\ row'[v] = newRow(role))
  BY <1>1
<1>4. Types'
  BY <1>1, <1>2 DEF Types
<1>5. GoneIsNoted'
  BY <1>3, <1>2 DEF RevocationInv, GoneIsNoted
<1>6. \A v \in User : Follows(row[v], row'[v], goneSince[v], goneSince'[v], now)
  BY <1>2, <1>3 DEF Follows
<1> QED
  BY <1>1, <1>4, <1>5, <1>6, RowStepKept

\* What is left of two statements or more.
LEMMA TailNotEmpty ==
    ASSUME NEW S, NEW s \in Seq(S), Len(s) > 1
    PROVE  Tail(s) \in Seq(S) \ {<<>>}
<1>1. Tail(s) \in Seq(S)
  OBVIOUS
<1>2. Len(Tail(s)) > 0
  <2>1. PICK n \in Nat : n = Len(s) /\ n > 1
    OBVIOUS
  <2>2. Len(Tail(s)) = n - 1
    BY <2>1
  <2> QED
    BY <2>1, <2>2
<1>3. \A t \in Seq(S) : Len(t) > 0 => t # <<>>
  OBVIOUS
<1> QED
  BY <1>1, <1>2, <1>3

\* The statements of an update.
LEMMA RunSetsKept ==
    ASSUME RevocationInv, NEW q \in Req, NEW u \in User, NEW sets \in Seq(Setting) \ {<<>>},
           runSets(q, u, sets)
    PROVE  RevocationInv'
<1>1. /\ now \in Nat /\ row \in [User -> Row \cup {None, Deleted}]
      /\ req \in [Req -> Request] /\ Types
  BY DEF RevocationInv, Types
<1>2. sets[1] \in Setting /\ (Len(sets) > 1 => Tail(sets) \in Seq(Setting) \ {<<>>})
  <2>1. Len(sets) \in Nat /\ Len(sets) > 0
    OBVIOUS
  <2>2. sets[1] \in Setting
    BY <2>1
  <2>3. Len(sets) > 1 => Tail(sets) \in Seq(Setting) \ {<<>>}
    BY TailNotEmpty
  <2> QED
    BY <2>2, <2>3
<1>3. /\ req' \in [Req -> Request]
      /\ \A x \in Req : req'[x] = req[x] \/ req'[x].step \in {"idle", "update"}
  BY <1>1, <1>2 DEF runSets, Request, Idle
<1>4. UNCHANGED <<now, jwts, logins, cache, served>>
  BY DEF runSets
<1>5. CASE exists(u)
  <2> DEFINE r == changed(sets[1].field, sets[1].value, row[u])
  <2>1. row' = [row EXCEPT ![u] = r] /\ recorded(u)
    BY <1>5 DEF runSets
  <2>2. /\ row[u] \in Row /\ r \in Row
        /\ r.creds = now \/ (r.creds = row[u].creds /\ r.disabled = row[u].disabled)
    BY <1>1, <1>2, <1>5, ChangedRow DEF exists
  <2> HIDE DEF r
  <2> QED
    BY <1>3, <1>4, <2>1, <2>2, WriteKept
<1>6. CASE ~exists(u)
  <2>1. UNCHANGED <<row, goneSince>>
    BY <1>6 DEF runSets
  <2>2. /\ jwts' \subseteq Claims /\ logins' \in [User -> Row \cup {None}]
        /\ now' \in Nat /\ now <= now' /\ served' \in Nat
    BY <1>1, <1>4 DEF Types
  <2> QED
    BY <1>3, <1>4, <2>1, <2>2, SameRowsKept
<1> QED
  BY <1>5, <1>6

\* Every step keeps the invariant.
LEMMA RevocationStep ==
    ASSUME RevocationInv, [Next]_vars
    PROVE  RevocationInv'
<1>0. /\ now \in Nat /\ row \in [User -> Row \cup {None, Deleted}] /\ jwts \subseteq Claims
      /\ logins \in [User -> Row \cup {None}] /\ served \in Nat /\ req \in [Req -> Request]
      /\ goneSince \in [User -> Nat]
  BY DEF RevocationInv, Types
<1>1. CASE Tick
  BY <1>0, <1>1, SameRowsKept DEF Tick
<1>2. ASSUME NEW u \in User, LoginRead(u) PROVE RevocationInv'
  BY <1>0, <1>2, SameRowsKept DEF LoginRead, exists
<1>3. ASSUME NEW u \in User, Issue(u) PROVE RevocationInv'
  <2>1. logins[u] \in Row
    BY <1>0, <1>3 DEF Issue
  <2>2. [sub |-> u, role |-> logins[u].role, iat |-> Unix(now), exp |-> Unix(now) + JwtTTL]
          \in Claims
    BY <1>0, <2>1, Kinds, TimesAssumption DEF Claims, Row
  <2> QED
    BY <1>0, <1>3, <2>2, SameRowsKept DEF Issue
<1>4. ASSUME NEW u \in User, FeishuCallback(u) PROVE RevocationInv'
  <2>1. "operator" \in Role /\ newRow("operator") \in Row
    BY <1>0 DEF Role, newRow, Row
  <2>2. /\ row' = row \/ (row[u] = None /\ row' = [row EXCEPT ![u] = newRow("operator")])
        /\ logins' = [logins EXCEPT ![u] = row'[u]] /\ row'[u] \in Row
        /\ UNCHANGED <<now, jwts, cache, req, served, goneSince>>
    BY <1>0, <1>4, <2>1, Kinds DEF FeishuCallback, exists
  <2> QED
    BY <1>0, <2>1, <2>2, CreateKept
<1>5. ASSUME NEW q \in Req, NEW p \in Replica, BeginSession(q, p) PROVE RevocationInv'
  BY <1>0, <1>5, ValidateKept DEF BeginSession, begin
<1>6. ASSUME NEW q \in Req, NEW p \in Replica, BeginToken(q, p) PROVE RevocationInv'
  <2>1. PICK u \in User :
          /\ ResolveAPIToken(u)
          /\ req' = [req EXCEPT ![q] =
                       [step |-> "token", rep |-> p,
                        claims |-> [sub |-> u, role |-> row[u].role, iat |-> 0, exp |-> 0]]]
    BY <1>6 DEF BeginToken
  <2>2. PICK c \in Claims : c = [sub |-> u, role |-> row[u].role, iat |-> 0, exp |-> 0]
    BY <2>1 DEF ResolveAPIToken, exists, Claims, Row
  <2> DEFINE new == [step |-> "token", rep |-> p, claims |-> c]
  <2>3. /\ req' = [req EXCEPT ![q] = new] /\ served' = served + 1
        /\ UNCHANGED <<now, row, jwts, logins, cache, goneSince>>
    BY <1>6, <2>1, <2>2 DEF BeginToken, begin
  <2>4. new \in Request /\ new.step = "token"
    BY DEF Request
  <2> HIDE DEF new
  <2>5. req'[q] = new
    BY <1>0, <2>3
  <2>6. RequestInv(q)'
    BY <2>4, <2>5 DEF RequestInv
  <2>7. Types' /\ CacheIsKnown'
    BY <1>0, <2>3, <2>4 DEF RevocationInv, Types, CacheIsKnown
  <2> QED
    BY <1>0, <2>3, <2>6, <2>7, RequestStepKept
<1>7. ASSUME NEW q \in Req, Query(q) \/ Store(q) PROVE RevocationInv'
  BY <1>7, QueryKept, StoreKept
<1>8. ASSUME NEW q \in Req, NEW op \in Ops, HandleUpdate(q, op) PROVE RevocationInv'
  <2>1. req[q] \in Request /\ req[q].step = "handle" /\ op.route \in setters
        /\ runSets(q, target(req[q].claims, op), op.sets)
    BY <1>0, <1>8 DEF HandleUpdate, handles
  <2>2. req[q].claims.sub \in User
    BY <2>1, RequestKinds DEF Claims
  <2>3. target(req[q].claims, op) \in User /\ op.sets \in Seq(Setting) \ {<<>>}
    BY <2>1, <2>2, OpsAssumption DEF target
  <2> QED
    BY <2>1, <2>3, RunSetsKept
<1>9. ASSUME NEW q \in Req, HandleNextSet(q) PROVE RevocationInv'
  <2>1. req[q].target \in User /\ req[q].sets \in Seq(Setting) \ {<<>>}
    BY <1>0, <1>9, RequestKinds DEF HandleNextSet
  <2> QED
    BY <1>9, <2>1, RunSetsKept DEF HandleNextSet
<1>10. ASSUME NEW q \in Req, NEW op \in Ops, HandleDelete(q, op) PROVE RevocationInv'
  <2>1. op.target \in User
    BY <1>10, OpsAssumption DEF HandleDelete, handles, setters
  <2>2. /\ req' \in [Req -> Request]
        /\ \A x \in Req : req'[x] = req[x] \/ req'[x].step \in {"idle", "update"}
        /\ UNCHANGED <<now, jwts, logins, cache, served>>
    BY <1>0, <1>10 DEF HandleDelete, Request, Idle
  <2>3. CASE exists(op.target)
    <3>1. row' = [row EXCEPT ![op.target] = Deleted] /\ recorded(op.target)
      BY <1>10, <2>3 DEF HandleDelete
    <3> QED
      BY <2>1, <2>2, <2>3, <3>1, Kinds, WriteKept DEF exists
  <2>4. CASE ~exists(op.target)
    BY <1>0, <1>10, <2>2, <2>4, SameRowsKept DEF HandleDelete
  <2> QED
    BY <2>3, <2>4
<1>11. ASSUME NEW q \in Req, NEW op \in Ops, HandleCreate(q, op) PROVE RevocationInv'
  <2>1. op.target \in User /\ op.role \in Role
    BY <1>11, OpsAssumption DEF HandleCreate, handles, setters
  <2>2. /\ req' \in [Req -> Request]
        /\ \A x \in Req : req'[x] = req[x] \/ req'[x].step \in {"idle", "update"}
        /\ UNCHANGED <<now, jwts, logins, cache, served, goneSince>>
        /\ row' = row \/ (row[op.target] = None
                            /\ row' = [row EXCEPT ![op.target] = newRow(op.role)])
    BY <1>0, <1>11 DEF HandleCreate, Request, Idle
  <2> QED
    BY <1>0, <2>1, <2>2, CreateKept
<1>12. ASSUME NEW q \in Req, HandleOther(q) PROVE RevocationInv'
  BY <1>0, <1>12, SameRowsKept DEF HandleOther, Request, Idle
<1>13. ASSUME NEW q \in Req, ValidateToken(q) PROVE RevocationInv'
  <2>1. req[q].rep \in Replica /\ req[q].claims \in Claims
    BY <1>0, <1>13, RequestKinds DEF ValidateToken
  <2> QED
    BY <1>0, <1>13, <2>1, ValidateKept DEF ValidateToken
<1>14. CASE UNCHANGED vars
  BY <1>0, <1>14, SameRowsKept DEF vars
<1> QED
  BY <1>1, <1>2, <1>3, <1>4, <1>5, <1>6, <1>7, <1>8, <1>9, <1>10, <1>11, <1>12, <1>13, <1>14
     DEF Next

-----------------------------------------------------------------------------
(* The theorems                                                            *)

\* The invariant that the others rest on holds in every reachable state.
THEOREM RevocationInvariant == Spec => []RevocationInv
<1>1. Init => RevocationInv
  <2> SUFFICES ASSUME Init PROVE RevocationInv
    OBVIOUS
  <2>1. Types
    BY AdminsAssumption, TimesAssumption DEF Init, Types, Row, Role, Request
  <2>2. GoneIsNoted
    BY DEF Init, GoneIsNoted
  <2>3. CacheIsKnown
    BY Kinds DEF Init, CacheIsKnown
  <2>4. \A q \in Req : RequestInv(q)
    BY DEF Init, RequestInv, Idle
  <2> QED
    BY <2>1, <2>2, <2>3, <2>4 DEF RevocationInv
<1>2. RevocationInv /\ [Next]_vars => RevocationInv'
  BY RevocationStep
<1> QED
  BY <1>1, <1>2, PTL DEF Spec

\* Every variable of Access stays in its type, through all handlers.
THEOREM AccessTypeCorrect == Spec => []TypeOK
<1>1. RevocationInv => TypeOK
  <2> SUFFICES ASSUME RevocationInv PROVE TypeOK
    OBVIOUS
  <2>1. Types
    BY DEF RevocationInv
  <2>2. ASSUME NEW q \in Req
        PROVE  /\ req[q].step \in {"idle", "token", "query", "store", "handle", "update"}
               /\ req[q].step \notin {"idle", "update"} => req[q].claims \in Claims
               /\ req[q].step = "store" => req[q].st \in AuthState
    BY <2>1, RequestKinds DEF Types
  <2> QED
    BY <2>1, <2>2 DEF TypeOK, Types
<1> QED
  BY <1>1, RevocationInvariant, PTL

\* A disabled or deleted account, and a session from before a change of credentials,
\* is served only within revCacheTTL of the change: on every replica, however slow
\* the lookup behind its cache entry was and however lookups, logins and changes
\* interleave (validateClaims, cachedAuthState).
THEOREM RevocationIsTimely == Spec => []RevocationTakesEffect
<1>1. RevocationInv => RevocationTakesEffect
  BY DEF RevocationInv, RequestInv, Accepted, RevocationTakesEffect, GoneTakesEffect,
         OldSessionsEnd, handling, exists
<1> QED
  BY <1>1, RevocationInvariant, PTL

\* A cached copy of an account has everything that changed before the time it bears:
\* cachedAuthState takes the time before the query.
THEOREM CacheIsHonest == Spec => []CacheIsAsOld
<1>1. RevocationInv => CacheIsAsOld
  BY DEF RevocationInv, Types, CacheIsKnown, Known, CacheIsAsOld, exists
<1> QED
  BY <1>1, RevocationInvariant, PTL
=============================================================================
