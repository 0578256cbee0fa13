SPECIFICATION Spec
CONSTANTS
    HdrSize = 6
    MaxContent = 1
    MaxLines = 1
    BodyBytes <- MCBodyBytes
    HdrOut <- MCHdrOut
    MsgOut <- MCMsgOut
    TlsModes = {FALSE}
    EarlyClose = FALSE
CHECK_DEADLOCK FALSE
INVARIANT CloseOnce
