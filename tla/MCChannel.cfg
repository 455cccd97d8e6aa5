\* Safety of the channel client against a server that may reject the
\* join, leave an event unanswered, push, stop the channel and drop.
CONSTANTS
    Null = Null
    Undefined = Undefined
    Topic <- MCTopic
    JoinOutcomes = {"ok", "error"}
    ReplyModes = {"reply", "noreply"}
    MaxPushes = 2
    ServerCloses = TRUE
    ServerDrops = TRUE
    StrayRefs = {}
SPECIFICATION Spec
INVARIANT TypeOK
INVARIANT ReplyCorrelation
INVARIANT NoHandlerCrash
