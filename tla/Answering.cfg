SPECIFICATION AnsweringSpec
CONSTANTS
    GraphCalls = {"c1", "c2"}
    ToolOf <- SmallTools
    Direct = {"c1"}
    MaxSnap = 2
    MaxReadFaults = 1
    VertexOf <- SmallVertices
    NativeGraphs <- SmallGraphs
    InspectRequests <- SmallRequests
    HubDegreeFloor = 3
    MaxInspectFaults = 1
    Clients = {c1, c2, c3}
    OtherClient = c3
    LlmWorkers = {w1, w2}
    Payload <- TwoAskTheSame
    Streamed = {"p"}
    MaxRetry = 1
    MaxClaims = 2
    MaxLlmFaults = 1
    ChatCalls = {"q1", "q2", "q3"}
    Questions = {"x", "y"}
    Callers = {"u", "v"}
    ChatOwner = "u"
    MaxChatFaults = 1
SYMMETRY GatewaySymmetry
INVARIANTS
    AnsweringTypeOK
    
    CompactIsOneSnapshot
    
    WalkIsExact
    InProgressHasOwner
    RepeatedAnswerWasAsked
PROPERTIES
    SucceededStays
CHECK_DEADLOCK FALSE
