CONSTANTS
    alice = alice  bob = bob  carol = carol
    nobody = nobody  academy = academy
    People = {alice, bob, carol}
    Listers = {alice}
    Texts <- MCTexts
    NoText = ""
    LookAlikes <- MCLookAlikes
    Decodable <- MCDecodable
    Params <- MCParams
    NoOne = nobody
    Academy = academy
    MaxLength = 2
SPECIFICATION Spec
SYMMETRY Symmetric
INVARIANT EveryMemoDecrypted
