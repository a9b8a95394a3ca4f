\* A client of the HTTP port with two requests, or of the gRPC port with two streams,
\* or an engine with two answers for the gateway and a call from it.
SPECIFICATION Spec
CONSTANTS
    Requests <- MCRequests
    MaxRequests = 2
    FuncConfig <- MCFuncConfig
    MaxStreams = 2
    GrpcRequests <- MCGrpcRequests
    ReplySizes = {1}
    Prefix = 2
    HeaderSize = 2
    WriteBufferSize = 3
    PayloadSizes <- MCPayloadSizes
    MaxMessages <- MCMaxMessages
    SplitPrefix = FALSE
INVARIANTS
    HttpCallIsTheRequest
    HttpAnswersInOrder
    GrpcStreamsCarryTheirAnswer
    GrpcMemoryHasOneUser
    NothingLeftBehind
    LinkMessagesWhole
    LinkBuffersHaveOneUser
CHECK_DEADLOCK FALSE
