SPECIFICATION Spec
CONSTANTS
    HdrSize = 6
    MaxContent = 5
    MaxLines = 2
    BodyBytes <- MCBodyBytes
    HdrOut <- MCHdrOut
    MsgOut <- MCMsgOut
    TlsModes = {FALSE}
    EarlyClose = FALSE
CHECK_DEADLOCK FALSE
INVARIANTS TypeOK HeaderFaithful BodyExact SendFaithful
PROPERTIES SessionEnds ImplementsExchange
