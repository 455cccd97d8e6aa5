\* Liveness of one VU iteration, with a server that replies to every event
\* but may still reject the join, push, stop the channel, drop the
\* connection or send frames with refs of no request.
CONSTANTS
    Null = Null
    Undefined = Undefined
    Topic <- MCTopic
    JoinOutcomes = {"ok", "error"}
    ReplyModes = {"reply"}
    MaxPushes = 2
    ServerCloses = TRUE
    ServerDrops = TRUE
    StrayRefs <- MCStrayRefs
SPECIFICATION Spec
PROPERTY IterationEnds
