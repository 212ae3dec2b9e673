CONSTANTS
    a1 = a1
    a2 = a2
    NoAddr = NoAddr
    MAX_RELAYS = 2
    Addrs = {a1, a2}
    AddrText <- MCAddrText
    BadTexts <- MCBadTexts
    Ids = {7}
    Versions = {1}
    Stamps = {5}
    MaxListed = 3
INIT Init
NEXT Next
INVARIANTS
    TypeOK
    DecodeAcceptsExactlyEncodings
    SizeCountsConsumedBytes
CHECK_DEADLOCK FALSE
