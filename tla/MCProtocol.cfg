SPECIFICATION Spec
CONSTANTS
    HdrSize = 6
    TlsModes = {FALSE, TRUE}
    MaxSessions = 3
CHECK_DEADLOCK FALSE
INVARIANT NoPartialSend
PROPERTIES Terminates ImplementsDI
