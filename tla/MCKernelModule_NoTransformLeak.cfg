CONSTANTS
    CPUs = {c1, c2}
    Keys = {k1}
    Forged = Forged
    Msgs = {m1}
    MaxProgs = 2
INIT Init
NEXT Next
INVARIANTS
    NoTransformLeak
CHECK_DEADLOCK FALSE
