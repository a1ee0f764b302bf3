CONSTANTS
    c1 = c1
    Clients = {c1}
    PackRequests <- MCRequests
    Aliases = {"gdd1", "gdd2"}
    BadAlias = "GDD!"
    NoAlias = ""
    OwnAlias = "gdd1"
    MaxHeld = 4
SPECIFICATION Spec
INVARIANTS PackTypeOK PackIsWhole PackedCanBeSent BuffersLostOnlySo
