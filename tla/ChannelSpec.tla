---------------------------- MODULE ChannelSpec ----------------------------
(***************************************************************************)
(* The channel that spec.md promises (sections 3, 4.3, 4.4, 7, 8), with   *)
(* requests named by the order they are issued.  A request is issued by  *)
(* join or send, and is then answered once by its reply or cancelled by   *)
(* the close.  A reply runs the request's handler, which may itself send  *)
(* one request or leave the channel.                                       *)
(***************************************************************************)
EXTENDS Naturals, FiniteSets

VARIABLES
    state,      \* "idle", "joining", "joined", "closed", "error"
    issued,     \* requests issued so far: 1..n
    answered,   \* requests whose handler got its reply
    cancelled   \* requests whose handler got ChannelClosed

vars == <<state, issued, answered, cancelled>>

JoinRequest == 1
NextRequest == Cardinality(issued) + 1
Open == {"joining", "joined"}

Init ==
    /\ state = "idle"
    /\ issued = {}
    /\ answered = {}
    /\ cancelled = {}

\* join(): the socket opens and the join request is issued.
Join ==
    /\ state = "idle"
    /\ state' = "joining"
    /\ issued' = {JoinRequest}
    /\ UNCHANGED <<answered, cancelled>>

\* join() fails with ConnectionError.
ConnectFails ==
    /\ state = "idle"
    /\ state' = "error"
    /\ UNCHANGED <<issued, answered, cancelled>>

\* A reply resolves a pending request exactly once; the join's reply moves
\* the channel to joined.  The handler then does nothing, sends one request
\* (only on a joined channel), or leaves, cancelling whatever is pending.
Resolve(r) ==
    LET after == IF r = JoinRequest THEN "joined" ELSE state
    IN  /\ state \in Open
        /\ r \in issued \ (answered \cup cancelled)
        /\ answered' = answered \cup {r}
        /\ \/ /\ state' = after
              /\ UNCHANGED <<issued, cancelled>>
           \/ /\ after = "joined"
              /\ state' = after
              /\ issued' = issued \cup {NextRequest}
              /\ UNCHANGED cancelled
           \/ /\ state' = "closed"
              /\ cancelled' = issued \ answered'
              /\ UNCHANGED issued

\* The transport closes under an open channel: pending requests are cancelled.
TransportCloses ==
    /\ state \in Open
    /\ state' = "closed"
    /\ cancelled' = issued \ answered
    /\ UNCHANGED <<issued, answered>>

Next ==
    \/ Join \/ ConnectFails \/ TransportCloses
    \/ \E r \in issued : Resolve(r)

Spec == Init /\ [][Next]_vars

=============================================================================
