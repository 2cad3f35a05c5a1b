SPECIFICATION Spec
CONSTANTS
    u1 = u1
    a1 = a1
    t1 = t1
    s1 = s1
    e1 = e1
    r1 = r1
    r2 = r2
    q1 = q1
    q2 = q2
    p1 = p1
    p2 = p2
    User = {u1, a1}
    Admin = {a1}
    Test = {t1}
    Sched = {s1}
    Env = {e1}
    Run = {r1, r2}
    Req = {q1, q2}
    Replica = {p1, p2}
    Interval = 3
    Timeout = 1
    MaxTime = 4
    MaxOps = 4
SYMMETRY Symmetry
INVARIANTS
    References
    EditedByOwner
    LaunchesAreDue
CHECK_DEADLOCK FALSE
