SPECIFICATION Spec
CONSTANTS
    RsaSize = 2
    HashTypes <- MCHashes
    MaxCalls = 2
CHECK_DEADLOCK FALSE
INVARIANT DigestAsRequested
