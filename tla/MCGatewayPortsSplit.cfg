\* As MCGatewayPorts, with TCP segments and windows that may end anywhere.
SPECIFICATION Spec
CONSTANTS
    Requests <- MCRequests
    MaxRequests = 1
    FuncConfig <- MCFuncConfig
    MaxStreams = 1
    GrpcRequests <- MCGrpcRequests
    ReplySizes = {1}
    Prefix = 2
    HeaderSize = 2
    WriteBufferSize = 3
    PayloadSizes <- MCPayloadSizes
    MaxMessages <- MCMaxMessages
    SplitPrefix = TRUE
INVARIANT
    GrpcPrefixInOneChunk
CHECK_DEADLOCK FALSE
