\* A server that stops the joined channel: its phx_close carries the join ref.
CONSTANTS
    Null = Null
    Undefined = Undefined
    Topic <- MCTopic
    JoinOutcomes = {"ok", "error"}
    ReplyModes = {"reply"}
    MaxPushes = 2
    ServerCloses = TRUE
    ServerDrops = FALSE
    StrayRefs = {}
SPECIFICATION Spec
INVARIANT AtMostOnce
