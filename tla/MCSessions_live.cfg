CONSTANTS
    t1 = t1  t2 = t2  n1 = n1  n2 = n2  g1 = g1
    p1 = p1  i1 = i1
    NoSession = NoSession
    Threads = {t1, t2}
    Users = {n1, n2}
    Groups = {g1}
    Passwords = {p1}
    Ips = {i1}
    CpuCount = 1
    MaxWait = 1
    PoolMax = 2
    SessionValidDuration = 1
    SupportKeyConfigured = FALSE
    MaxTime = 0
    MaxLogins = 3
    MaxRestarts = 0
SPECIFICATION FairSpec
INVARIANTS LimTypeOK EncryptionsBounded
PROPERTIES EveryLoginIsAnswered EveryCallReturns
CHECK_DEADLOCK FALSE
