-------------------------------- MODULE Access --------------------------------
(***************************************************************************)
(* Accounts, sessions and their revocation in the API server               *)
(* (internal/apisrv/auth.go, revocation.go, apitoken.go, internal/auth,    *)
(* internal/store/postgres/users.go).                                      *)
(*                                                                         *)
(* A request authenticates with a session token (JWT) or with the          *)
(* account's API token, is checked against a cached copy of the account,   *)
(* and then changes accounts.  Every read and every statement of a request *)
(* is a step of its own, so that logins, lookups and changes interleave.   *)
(* Replicas have a cache each.  Passwords, hashes, signatures, profiles    *)
(* and webhook lists are left out: a login stands for one with the right   *)
(* password, and only tokens the server issued are presented.              *)
(***************************************************************************)
EXTENDS Naturals, Sequences, FiniteSets

CONSTANTS
    User,      \* account ids, never used twice
    Admins,    \* the accounts there are at first, administrators
    Replica,   \* API server processes
    Req,       \* requests in progress at a time
    Ops,       \* operations a caller may ask for
    Second,    \* clock ticks in one second, the precision of iat
    RevTTL,    \* revCacheTTL, in ticks
    JwtTTL,    \* life of a session token, in seconds
    MaxTime,   \* bound: the clock stops here
    MaxJwts,   \* bound: session tokens issued
    MaxOps     \* bound: requests served

ASSUME AdminsAssumption == Admins \subseteq User
ASSUME TimesAssumption ==
    /\ Second \in Nat \ {0}
    /\ RevTTL \in Nat \ {0}
    /\ JwtTTL \in Nat
    /\ MaxTime \in Nat
    /\ MaxJwts \in Nat
    /\ MaxOps \in Nat

VARIABLES
    now,        \* the clock
    row,        \* [User -> Row or a reason for its absence]: table users
    jwts,       \* session tokens issued
    logins,     \* [User -> Row or None]: handleLogin between read and issue
    cache,      \* [Replica -> [User -> authState or None]]: revCache
    req,        \* [Req -> request]
    served,     \* requests begun so far
    goneSince   \* history: since when an account is disabled or deleted, or 0

vars == <<now, row, jwts, logins, cache, req, served, goneSince>>

None == [is |-> "none"]
Deleted == [is |-> "deleted"]
Role == {"viewer", "operator", "admin"}
roleRank == [viewer |-> 1, operator |-> 2, admin |-> 3]
AtLeast(r, min) == roleRank[r] >= roleRank[min]

\* routes: the least role that a caller of an account operation needs.
minRole == [update_user |-> "admin", delete_user |-> "admin",
            create_user |-> "admin", change_password |-> "viewer",
            reset_token |-> "viewer"]

\* Seconds since the epoch; the clock starts in second 1.
Unix(t) == t \div Second

Row == [role : Role, disabled : BOOLEAN, creds : Nat, api : BOOLEAN]
Claims == [sub : User, role : Role, iat : Nat, exp : Nat]
AuthState == [disabled : BOOLEAN, creds : Nat, fetched : Nat]
Idle == [step |-> "idle"]

\* A column that an operation sets, and the routes that set some.
Setting == [field : {"role"}, value : Role] \cup [field : {"disabled"}, value : BOOLEAN]
             \cup [field : {"password", "api"}, value : {"new"}]
setters == {"update_user", "change_password", "reset_token"}

ASSUME OpsAssumption ==
    \A op \in Ops :
        /\ op.route \in DOMAIN minRole
        /\ op.target \in User \/ (op.target = None /\ op.route \in setters)
        /\ op.route \in setters => op.sets \in Seq(Setting) \ {<<>>}
        /\ op.route = "create_user" => op.role \in Role

exists(u) == row[u] \in Row

\* EnsureAdmin and the accounts created before.
Init ==
    /\ now = Second
    /\ row = [u \in User |->
                IF u \in Admins
                THEN [role |-> "admin", disabled |-> FALSE, creds |-> 0,
                      api |-> FALSE]
                ELSE None]
    /\ jwts = {}
    /\ logins = [u \in User |-> None]
    /\ cache = [p \in Replica |-> [u \in User |-> None]]
    /\ req = [q \in Req |-> Idle]
    /\ served = 0
    /\ goneSince = [u \in User |-> 0]

Tick ==
    /\ now < MaxTime
    /\ now' = now + 1
    /\ UNCHANGED <<row, jwts, logins, cache, req, served, goneSince>>

-----------------------------------------------------------------------------
(* Signing in                                                              *)

\* handleLogin up to the check of the password and of the account.
LoginRead(u) ==
    /\ logins[u] = None
    /\ Cardinality(jwts) < MaxJwts
    /\ exists(u)
    /\ ~row[u].disabled
    /\ logins' = [logins EXCEPT ![u] = row[u]]
    /\ UNCHANGED <<now, row, jwts, cache, req, served, goneSince>>

\* mintToken and Issue: the claims are those of the row as it was read, the
\* time of issue is now.
Issue(u) ==
    /\ logins[u] # None
    /\ jwts' = jwts \cup {[sub |-> u, role |-> logins[u].role,
                           iat |-> Unix(now), exp |-> Unix(now) + JwtTTL]}
    /\ logins' = [logins EXCEPT ![u] = None]
    /\ UNCHANGED <<now, row, cache, req, served, goneSince>>

newRow(role) == [role |-> role, disabled |-> FALSE, creds |-> now, api |-> FALSE]

\* handleFeishuCallback: UpsertFeishuUser creates the account as an operator
\* or finds it, and the token is minted from the row it returns.
FeishuCallback(u) ==
    /\ row[u] = None \/ (exists(u) /\ ~row[u].disabled)
    /\ logins[u] = None
    /\ Cardinality(jwts) < MaxJwts
    /\ row' = IF exists(u) THEN row
              ELSE [row EXCEPT ![u] = newRow("operator")]
    /\ logins' = [logins EXCEPT ![u] = row'[u]]
    /\ UNCHANGED <<now, jwts, cache, req, served, goneSince>>

-----------------------------------------------------------------------------
(* A request: Middleware.Require and validateClaims                        *)

\* Parse accepts a token that has not expired.
ParseJwt(c) == Unix(now) < c.exp

\* resolveAPIToken: the account that holds the token now; its claims carry no
\* time of issue.
ResolveAPIToken(u) == exists(u) /\ row[u].api /\ ~row[u].disabled

\* Mutant of accepts: a session from before the change is taken, too.
acceptsOld(c, st) == ~st.disabled /\ ~(c.iat # 0 /\ c.iat + 1 < Unix(st.creds))

\* validateClaims' verdict on what is known of the account.
accepts(c, st) == ~st.disabled /\ ~(c.iat # 0 /\ c.iat < Unix(st.creds))

\* A request of an accepted caller goes on to its handler.
decided(c, st, at) ==
    IF accepts(c, st) THEN [step |-> "handle", claims |-> c, at |-> at] ELSE Idle

\* cachedAuthState: a fresh entry answers at once, any other is looked up, with
\* the time taken before the query.
fresh(st) == st # None /\ now < st.fetched + RevTTL

validate(q, p, c) ==
    LET st == cache[p][c.sub]
    IN  /\ req' = [req EXCEPT ![q] =
                     IF fresh(st) THEN decided(c, st, now)
                     ELSE [step |-> "query", rep |-> p, claims |-> c,
                           at |-> now]]
        /\ UNCHANGED <<now, row, jwts, logins, cache, goneSince>>

begin(q) == req[q] = Idle /\ served < MaxOps /\ served' = served + 1

BeginSession(q, p) ==
    /\ begin(q)
    /\ \E c \in jwts : ParseJwt(c) /\ validate(q, p, c)

\* The claims of an API token are those of the row that the lookup found; they
\* are validated after it.
BeginToken(q, p) ==
    /\ begin(q)
    /\ \E u \in User :
          /\ ResolveAPIToken(u)
          /\ req' = [req EXCEPT ![q] =
                       [step |-> "token", rep |-> p,
                        claims |-> [sub |-> u, role |-> row[u].role, iat |-> 0,
                                    exp |-> 0]]]
    /\ UNCHANGED <<now, row, jwts, logins, cache, goneSince>>

ValidateToken(q) ==
    /\ req[q].step = "token"
    /\ validate(q, req[q].rep, req[q].claims)
    /\ served' = served

\* Mutant of Query: the account of a token is taken to exist.
QueryUnchecked(q) ==
    /\ req[q].step = "query"
    /\ LET u == req[q].claims.sub
       IN  req' = [req EXCEPT ![q] =
                     [step |-> "store", rep |-> @.rep, claims |-> @.claims,
                      at |-> @.at,
                      st |-> IF exists(u)
                             THEN [disabled |-> row[u].disabled,
                                   creds |-> row[u].creds, fetched |-> @.at]
                             ELSE None]]
    /\ UNCHANGED <<now, row, jwts, logins, cache, served, goneSince>>

\* GetUserByID: no row means revoked.
Query(q) ==
    /\ req[q].step = "query"
    /\ LET u == req[q].claims.sub
       IN  req' = [req EXCEPT ![q] =
                     IF exists(u)
                     THEN [step |-> "store", rep |-> @.rep,
                           claims |-> @.claims, at |-> @.at,
                           st |-> [disabled |-> row[u].disabled,
                                   creds |-> row[u].creds,
                                   fetched |-> @.at]]
                     ELSE Idle]
    /\ UNCHANGED <<now, row, jwts, logins, cache, served, goneSince>>

\* Mutant of Store: the age of an entry counts from when it is stored.
StoreNow(q) ==
    /\ req[q].step = "store"
    /\ cache' = [cache EXCEPT ![req[q].rep][req[q].claims.sub] =
                   [req[q].st EXCEPT !.fetched = now]]
    /\ req' = [req EXCEPT ![q] = decided(@.claims, @.st, @.at)]
    /\ UNCHANGED <<now, row, jwts, logins, served, goneSince>>

Store(q) ==
    /\ req[q].step = "store"
    /\ cache' = [cache EXCEPT ![req[q].rep][req[q].claims.sub] = req[q].st]
    /\ req' = [req EXCEPT ![q] = decided(@.claims, @.st, @.at)]
    /\ UNCHANGED <<now, row, jwts, logins, served, goneSince>>

-----------------------------------------------------------------------------
(* The handlers                                                            *)

\* UpdateUserRole, SetUserPassword, SetUserDisabled and SetUserAPIToken: all
\* but the last advance creds_changed_at.
changed(f, v, r) ==
    CASE f = "role" -> [r EXCEPT !.role = v, !.creds = now]
      [] f = "password" -> [r EXCEPT !.creds = now]
      [] f = "disabled" -> [r EXCEPT !.disabled = v, !.creds = now]
      [] f = "api" -> [r EXCEPT !.api = TRUE]

\* The account an operation is about: without a target, the caller's own.
target(c, op) == IF op.target = None THEN c.sub ELSE op.target

\* handleUpdateUser and handleDeleteUser refuse an administrator who would
\* disable, demote or delete the own account.
lockout(c, op) ==
    /\ op.target = c.sub
    /\ \/ op.route = "delete_user"
       \/ \E i \in 1..Len(op.sets) :
             LET s == op.sets[i]
             IN  \/ s.field = "disabled" /\ s.value = TRUE
                 \/ s.field = "role" /\ s.value # "admin"

\* Require: the handler of op runs.
handles(q, op, routes) ==
    /\ req[q].step = "handle"
    /\ op.route \in routes
    /\ AtLeast(req[q].claims.role, minRole[op.route])

recorded(u) ==
    goneSince' = [goneSince EXCEPT ![u] =
                    IF row'[u] = Deleted \/ row'[u].disabled
                    THEN IF @ = 0 THEN now ELSE @
                    ELSE 0]

\* The statements of an update, one after the other: role, password, disabled
\* (handleUpdateUser), or the one of handleChangePassword and
\* handleResetAPIToken.  One that finds no row ends the request.
runSets(q, u, sets) ==
    /\ IF exists(u)
       THEN /\ row' = [row EXCEPT ![u] =
                         changed(sets[1].field, sets[1].value, @)]
            /\ recorded(u)
       ELSE UNCHANGED <<row, goneSince>>
    /\ req' = [req EXCEPT ![q] =
                 IF exists(u) /\ Len(sets) > 1
                 THEN [step |-> "update", target |-> u, sets |-> Tail(sets)]
                 ELSE Idle]
    /\ UNCHANGED <<now, jwts, logins, cache, served>>

HandleUpdate(q, op) ==
    /\ handles(q, op, setters)
    /\ ~lockout(req[q].claims, op)
    /\ runSets(q, target(req[q].claims, op), op.sets)

HandleNextSet(q) ==
    /\ req[q].step = "update"
    /\ runSets(q, req[q].target, req[q].sets)

\* handleDeleteUser.
HandleDelete(q, op) ==
    /\ handles(q, op, {"delete_user"})
    /\ ~lockout(req[q].claims, op)
    /\ IF exists(op.target)
       THEN row' = [row EXCEPT ![op.target] = Deleted] /\ recorded(op.target)
       ELSE UNCHANGED <<row, goneSince>>
    /\ req' = [req EXCEPT ![q] = Idle]
    /\ UNCHANGED <<now, jwts, logins, cache, served>>

\* handleCreateUser: the e-mail address must be new.
HandleCreate(q, op) ==
    /\ handles(q, op, {"create_user"})
    /\ row' = IF row[op.target] = None
              THEN [row EXCEPT ![op.target] = newRow(op.role)]
              ELSE row
    /\ req' = [req EXCEPT ![q] = Idle]
    /\ UNCHANGED <<now, jwts, logins, cache, served, goneSince>>

\* A read, a refusal, or an operation that is not about accounts.
HandleOther(q) ==
    /\ req[q].step = "handle"
    /\ req' = [req EXCEPT ![q] = Idle]
    /\ UNCHANGED <<now, row, jwts, logins, cache, served, goneSince>>

-----------------------------------------------------------------------------
Next ==
    \/ Tick
    \/ \E u \in User : LoginRead(u) \/ Issue(u) \/ FeishuCallback(u)
    \/ \E q \in Req :
          \/ \E p \in Replica : BeginSession(q, p) \/ BeginToken(q, p)
          \/ ValidateToken(q) \/ Query(q) \/ Store(q)
          \/ \E op \in Ops : \/ HandleUpdate(q, op) \/ HandleDelete(q, op)
                             \/ HandleCreate(q, op)
          \/ HandleNextSet(q) \/ HandleOther(q)

Spec == Init /\ [][Next]_vars

-----------------------------------------------------------------------------
(* Properties                                                              *)

\* The state of accounts, tokens, caches and requests, in their types.
TypeOK ==
    /\ now \in Nat
    /\ row \in [User -> Row \cup {None, Deleted}]
    /\ jwts \subseteq Claims
    /\ logins \in [User -> Row \cup {None}]
    /\ cache \in [Replica -> [User -> AuthState \cup {None}]]
    /\ \A q \in Req :
          /\ req[q].step \in {"idle", "token", "query", "store", "handle",
                             "update"}
          /\ req[q].step \notin {"idle", "update"} => req[q].claims \in Claims
          /\ req[q].step = "store" => req[q].st \in AuthState
    /\ served \in Nat
    /\ goneSince \in [User -> Nat]

handling(q) == req[q].step = "handle"

\* A request is served for a disabled or deleted account only within revCacheTTL
\* of the change, whichever replica's cache answers and however slow the lookup
\* behind it was.
GoneTakesEffect ==
    \A q \in Req : handling(q) =>
        LET g == goneSince[req[q].claims.sub]
        IN  g = 0 \/ req[q].at < g + RevTTL

\* A session from a second before the account's credentials last changed is
\* served only within revCacheTTL of the change.
OldSessionsEnd ==
    \A q \in Req : handling(q) =>
        LET c == req[q].claims
        IN  \/ ~exists(c.sub)
            \/ c.iat = 0
            \/ c.iat >= Unix(row[c.sub].creds)
            \/ req[q].at < row[c.sub].creds + RevTTL

\* A change of an account takes effect within revCacheTTL on every replica.
RevocationTakesEffect == GoneTakesEffect /\ OldSessionsEnd

\* No cached copy of an account claims to be newer than the account it copies:
\* what changed before the entry's time is in the entry.
CacheIsAsOld ==
    \A p \in Replica, u \in User :
        cache[p][u] # None /\ exists(u) /\ row[u].creds < cache[p][u].fetched
            => /\ cache[p][u].creds = row[u].creds
               /\ cache[p][u].disabled = row[u].disabled
=============================================================================
