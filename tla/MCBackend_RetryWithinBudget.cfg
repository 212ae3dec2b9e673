CONSTANTS
    MAX_UPDATE_ATTEMPTS = 2
    UPDATE_TIMEOUT_SECS = 4
    CLEAN_SHUTDOWN_TIMEOUT_SECS = 4
    SendTimes = {1, 2}
    UPDATE_RESPONSE_VERSION = 1
    Versions <- MCVersions
    MAX_RELAYS = 1
    Relays = {r1, r2}
    Timestamps <- MCTimestamps
    Counters = {c1}
    MaxCounted = 1
    SessionIds = {s1}
    NoSession = NoSession
    CLOCK_CAP = 8

SPECIFICATION Spec

INVARIANT RetryWithinBudget


\* The backend thread returns and the process exits: a final state.
CHECK_DEADLOCK FALSE
