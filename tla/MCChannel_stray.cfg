\* A server frame whose ref names no request of this socket.
CONSTANTS
    Null = Null
    Undefined = Undefined
    Topic <- MCTopic
    JoinOutcomes = {"ok", "error"}
    ReplyModes = {"reply"}
    MaxPushes = 2
    ServerCloses = FALSE
    ServerDrops = FALSE
    StrayRefs <- MCStrayRefs
SPECIFICATION Spec
INVARIANT NoHandlerCrash
