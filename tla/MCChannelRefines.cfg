\* A server that accepts the join, answers or ignores each event, may push,
\* and neither stops the channel nor drops the connection.  Four pushes place
\* broadcasts around every reply.  An event the server leaves unanswered
\* leaves the session waiting with nothing enabled (see channel_noreply),
\* so deadlock is not checked here.
CONSTANTS
    Null = Null
    Undefined = Undefined
    Topic <- MCTopic
    JoinOutcomes = {"ok"}
    ReplyModes = {"reply", "noreply"}
    MaxPushes = 4
    ServerCloses = FALSE
    ServerDrops = FALSE
    StrayRefs = {}
SPECIFICATION Spec
PROPERTY Refinement
CHECK_DEADLOCK FALSE
