\* A server whose handle_in may answer new_message with {:noreply, socket}.
CONSTANTS
    Null = Null
    Undefined = Undefined
    Topic <- MCTopic
    JoinOutcomes = {"ok", "error"}
    ReplyModes = {"reply", "noreply"}
    MaxPushes = 2
    ServerCloses = FALSE
    ServerDrops = TRUE
    StrayRefs = {}
SPECIFICATION Spec
PROPERTY IterationEnds
