\* A connection dropped, or a socket left, while a request is still pending:
\* the server may drop the connection or stop the channel (whose phx_close
\* re-runs the join callback and sends a second new_message).
CONSTANTS
    Null = Null
    Undefined = Undefined
    Topic <- MCTopic
    JoinOutcomes = {"ok", "error"}
    ReplyModes = {"reply"}
    MaxPushes = 2
    ServerCloses = TRUE
    ServerDrops = TRUE
    StrayRefs = {}
SPECIFICATION Spec
INVARIANT NoSilentPending
