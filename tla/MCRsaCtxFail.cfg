SPECIFICATION Spec
CONSTANTS
    RsaSize = 2
    HashTypes <- MCHashes
    MaxCalls = 1
CHECK_DEADLOCK FALSE
INVARIANT SuccessWritesCipher
