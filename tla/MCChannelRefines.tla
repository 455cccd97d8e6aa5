------------------------- MODULE MCChannelRefines -------------------------
(* The channel client of script.js, against a server that accepts the    *)
(* join, never repeats a ref, never stops the channel and never drops    *)
(* the connection, implements the channel of spec.md (ChannelSpec).      *)
EXTENDS MCChannel

\* The join request is answered once its callback has run for it.
JoinAnswered == \E k \in 1..Len(invoked) : invoked[k].about = 1

absState ==
    CASE phase = "constructed"            -> "idle"
      [] phase \in {"failed", "aborted"}  -> "error"
      [] phase = "connected"              -> IF JoinAnswered THEN "joined" ELSE "joining"
      [] phase \in {"closed", "returned"} -> "closed"

\* Requests are the frames written, by position; a request is answered when
\* a callback ran for a frame answering it.  The code never signals a
\* cancellation, so nothing maps to a cancelled request.
absIssued == 1..Len(written)
absAnswered == {invoked[k].about : k \in 1..Len(invoked)} \ {0}

Abs == INSTANCE ChannelSpec
         WITH state <- absState, issued <- absIssued,
              answered <- absAnswered, cancelled <- {}

\* The client's behaviours are behaviours of the promised channel: join
\* before send, each request answered at most once, and a close that
\* leaves no request silently pending.
Refinement == Abs!Spec
=============================================================================
