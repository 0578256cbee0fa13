SPECIFICATION Spec
CONSTANTS
    RsaSize = 2
    HashTypes <- MCAllHashes
    MaxCalls = 1
CHECK_DEADLOCK FALSE
INVARIANT QueryThenFill
