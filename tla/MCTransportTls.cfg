SPECIFICATION Spec
CONSTANTS
    HdrSize = 6
    MaxContent = 2
    MaxLines = 2
    BodyBytes <- MCBodyBytes
    HdrOut <- MCHdrOut
    MsgOut <- MCMsgOut
    TlsModes = {TRUE}
    EarlyClose = FALSE
CHECK_DEADLOCK FALSE
INVARIANT CloseOnce
