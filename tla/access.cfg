SPECIFICATION Spec
CONSTANTS
    u1 = u1
    u2 = u2
    p1 = p1
    q1 = q1
    q2 = q2
    User = {u1, u2}
    Admins = {u1}
    Replica = {p1}
    Req = {q1, q2}
    Ops <- AllOps
    Second = 1
    RevTTL = 2
    JwtTTL = 4
    MaxTime = 4
    MaxJwts = 2
    MaxOps = 3
SYMMETRY ReqSymmetry
INVARIANTS
    TypeOK
    RevocationTakesEffect
    CacheIsAsOld
CHECK_DEADLOCK FALSE
