CONSTANTS
    t1 = t1  t2 = t2  n1 = n1  g1 = g1  g2 = g2
    p1 = p1  p2 = p2  i1 = i1  i2 = i2
    NoSession = NoSession
    Threads = {t1, t2}
    Users = {n1}
    Groups = {g1, g2}
    Passwords = {p1, p2}
    Ips = {i1, i2}
    CpuCount = 2
    MaxWait = 0
    PoolMax = 3
    SessionValidDuration = 1
    SupportKeyConfigured = TRUE
    MaxTime = 1
    MaxLogins = 3
    MaxRestarts = 1
SPECIFICATION Spec
INVARIANTS TypeOK SessionMatchesRow TokenKeyIsStored TokenOpensItsKey BackupMissingOnlyIfInterrupted SlotsExact OneEncryptionPerUser LeakedSlotIsFinal
CHECK_DEADLOCK FALSE
