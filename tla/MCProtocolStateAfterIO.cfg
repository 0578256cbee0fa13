SPECIFICATION Spec
CONSTANTS
    HdrSize = 6
    TlsModes = {FALSE}
    MaxSessions = 1
CHECK_DEADLOCK FALSE
INVARIANT StateAfterIO
