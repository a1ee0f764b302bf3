CONSTANTS
    t1 = t1  t2 = t2  n1 = n1  g1 = g1  g2 = g2
    p1 = p1  i1 = i1
    NoSession = NoSession
    Threads = {t1, t2}
    Users = {n1}
    Groups = {g1, g2}
    Passwords = {p1}
    Ips = {i1}
    CpuCount = 2
    MaxWait = 0
    PoolMax = 4
    SessionValidDuration = 1
    SupportKeyConfigured = TRUE
    MaxTime = 0
    MaxLogins = 2
    MaxRestarts = 0
SPECIFICATION Spec
INVARIANT LoginCreatesUser
CHECK_DEADLOCK FALSE
