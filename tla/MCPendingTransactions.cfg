CONSTANTS
    a = a  b = b  none = none
    e1 = e1  ok = ok
    MessageIds = {a, b}
    NoId = none
    Errors = {e1}
    NoError = ok
    MAX_PENDING_TRANSACTIONS_IN_LIST = 2
    MaxSent = 4
    MaxVerdicts = 2
SPECIFICATION PtSpec
SYMMETRY Symmetric
INVARIANTS PtTypeOK ReplyIsRecentOutcomes
PROPERTIES ConfirmedIsFinal ImplementsTracker
