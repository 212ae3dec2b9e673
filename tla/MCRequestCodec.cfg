CONSTANTS
    UPDATE_REQUEST_VERSION = 1
    MAX_RELAYS = 2
    KEY_SIZE = 2
    NUM_TOTALS = 3
    Texts <- MCTexts
    Tokens <- MCTokens
    Ids = {9}
    FloatBits = {1065353216}
    Vals = {0, 300}
    DoubleBits = {0}
INIT Init
NEXT Next
INVARIANTS
    TypeOK
    RequestRoundTrip
CHECK_DEADLOCK FALSE
