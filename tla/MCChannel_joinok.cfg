\* A server that may reject the join.
CONSTANTS
    Null = Null
    Undefined = Undefined
    Topic <- MCTopic
    JoinOutcomes = {"ok", "error"}
    ReplyModes = {"reply"}
    MaxPushes = 2
    ServerCloses = FALSE
    ServerDrops = FALSE
    StrayRefs = {}
SPECIFICATION Spec
INVARIANT SendOnlyAfterJoinOk
