SPECIFICATION Spec
CONSTANTS
    HdrSize = 6
    MaxContent = 1
    MaxLines = 1
    BodyBytes <- MCBodyBytes
    HdrOut <- MCHdrOut
    MsgOut <- MCMsgOut
    TlsModes = {TRUE}
    EarlyClose = FALSE
CHECK_DEADLOCK FALSE
INVARIANT SendFaithful
