CONSTANTS
    e1 = e1  ok = ok  r1 = r1  r2 = r2
    MessageIds = {1, 2, 3, 4}
    NoId = 0
    Errors = {e1}
    NoError = ok
    MAX_PENDING_TRANSACTIONS_IN_LIST = 3
    MaxSent = 4
    MaxVerdicts = 1
    Requests = {r1, r2}
    Jobs <- TransferJobs
    KnownUsers <- Users
    HumanAddresses <- Humans
    OtherAddresses <- Projects
    StartBalance = 3
    CreationLimit = 2
SPECIFICATION Spec
SYMMETRY Symmetric
INVARIANT NotifiedIsShown
CHECK_DEADLOCK FALSE
