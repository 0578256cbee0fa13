SPECIFICATION Spec
CONSTANTS
    HdrSize = 6
    MaxContent = 1
    MaxLines = 1
    BodyBytes <- MCBodyBytes
    HdrOut <- MCHdrOut
    MsgOut <- MCMsgOut
    TlsModes = {FALSE}
    EarlyClose = TRUE
CHECK_DEADLOCK FALSE
PROPERTY SessionEnds
