------------------------------ MODULE Channel ------------------------------
(***************************************************************************)
(* The channel client of src/script.js (class Channel and the VU function *)
(* that drives it), run by one k6 virtual user against a Phoenix-style    *)
(* channel server over one websocket.                                     *)
(*                                                                         *)
(* k6 runs a VU's JavaScript on one event loop: ws.connect opens the      *)
(* socket, runs the setup function (which installs the handlers), fires   *)
(* 'open', then dispatches one socket event at a time until the           *)
(* connection is closed, and only then returns.  Each client action below *)
(* is one such dispatch together with everything the handler it runs      *)
(* does (the callbacks of joinChannel included).  The server is the       *)
(* environment: it reads the client's frames in order, answers them, and  *)
(* may push broadcasts, stop the channel or drop the connection.          *)
(***************************************************************************)
EXTENDS Naturals, Sequences, FiniteSets, TLC, Envelope

CONSTANTS
    Topic,          \* the topic the VU joins ("rtc:iamgoi")
    JoinOutcomes,   \* statuses the server may answer phx_join with: "ok", "error"
    ReplyModes,     \* how the server's handle_in answers an event: "reply", "noreply"
    MaxPushes,      \* bound on frames the server sends unprompted
    ServerCloses,   \* the server may stop the joined channel (phx_close)
    ServerDrops,    \* the server or the network may drop the connection
    StrayRefs       \* refs the server may put on a frame that answers no request

ASSUME MaxPushes \in Nat
ASSUME JoinOutcomes \subseteq {"ok", "error"} /\ JoinOutcomes # {}
ASSUME ReplyModes \subseteq {"reply", "noreply"} /\ ReplyModes # {}
ASSUME ServerCloses \in BOOLEAN /\ ServerDrops \in BOOLEAN

VARIABLES
    phase,        \* where the VU's ws.connect call is
    messageRef,   \* Channel.messageRef
    callbacks,    \* Channel.callbacks: ref string -> callback
    conn,         \* the TCP/websocket connection: "none", "up", "down"
    lateSlot,     \* after a local close, one frame already read may still be dispatched
    written,      \* frames the client wrote, in order, with the callback registered for each
    toClient,     \* frames in flight to the client: [wire, about]
    srvRead,      \* how many of the written frames the server has read
    srvChan,      \* the server's view of the channel: "none", "ok", "error", "left"
    srvJoin,      \* index in written of the phx_join the server accepted
    pushes,       \* frames the server has sent unprompted
    invoked,      \* history: callbacks run, [handler, key, about]
    broadcasts,   \* times broadcastCallback ran
    connections   \* the websocket_connections counter

client == <<phase, messageRef, callbacks, conn, lateSlot, written>>
server == <<toClient, srvRead, srvChan, srvJoin, pushes>>
vars == <<client, server, invoked, broadcasts, connections>>

Handlers == {"JoinCb", "SendCb"}
Phases == {"constructed", "connected", "closed", "returned", "failed", "aborted"}
Finished == {"returned", "failed", "aborted"}

\* Mutant: a message-ref seed one past the join ref.
MessageRefSeedShifted == 6

\* this.messageRef = 5 and this.joinRef = 5 in the constructor; joinRef is
\* never reassigned.
MessageRefSeed == 5
JoinRef == 5

\* Payloads are opaque to the client: one value per kind of frame.
PayloadOf(event) == IF event = "phx_join" THEN "{}" ELSE "message"

-----------------------------------------------------------------------------
(* Client: the Channel methods and the callbacks of joinChannel.          *)

\* Mutant: _send without `this.messageRef += 1'.
SendFrameNoAdvance(event, handler, up, onJoin) ==
    LET frame == Encode(JoinRef, messageRef, Topic, event, PayloadOf(event))
    IN  /\ written' = IF up
                      THEN Append(written, [wire |-> frame, handler |-> handler,
                                            onJoin |-> onJoin])
                      ELSE written
        /\ callbacks' = (ToDecimal(messageRef) :> handler) @@ callbacks
        /\ UNCHANGED messageRef

\* Mutant: the callback registered under the next ref instead of this one.
SendFrameKeyAhead(event, handler, up, onJoin) ==
    LET frame == Encode(JoinRef, messageRef, Topic, event, PayloadOf(event))
    IN  /\ written' = IF up
                      THEN Append(written, [wire |-> frame, handler |-> handler,
                                            onJoin |-> onJoin])
                      ELSE written
        /\ callbacks' = (ToDecimal(messageRef + 1) :> handler) @@ callbacks
        /\ messageRef' = messageRef + 1

\* Channel._send (and Channel.send): write the frame, then register the
\* callback under the current messageRef and advance it.  A write on a
\* socket that is no longer up reaches nobody.  `onJoin' is the status of
\* the join reply being handled when the frame was sent (history only).
SendFrame(event, handler, up, onJoin) ==
    LET frame == Encode(JoinRef, messageRef, Topic, event, PayloadOf(event))
    IN  /\ written' = IF up
                      THEN Append(written, [wire |-> frame, handler |-> handler,
                                            onJoin |-> onJoin])
                      ELSE written
        /\ callbacks' = (ToDecimal(messageRef) :> handler) @@ callbacks
        /\ messageRef' = messageRef + 1

\* Channel.leave: this.socket.close().  k6 closes a connection once: it
\* writes the close frame, runs the 'close' handler, closes the connection
\* and ends the event loop; a second close does nothing.
Leave ==
    IF phase = "connected"
    THEN /\ phase' = "closed" /\ conn' = "down" /\ lateSlot' = TRUE
    ELSE /\ lateSlot' = FALSE /\ UNCHANGED <<phase, conn>>

\* The join callback of joinChannel: send "new_message" with a callback
\* that leaves the channel.  It runs whatever the join reply says.
JoinCallback(m) ==
    /\ SendFrame("new_message", "SendCb", conn = "up", m.payload)
    /\ lateSlot' = FALSE
    /\ UNCHANGED <<phase, conn>>

\* Mutant: the send callback without channel.leave().
SendCallbackNoLeave(m) ==
    /\ lateSlot' = FALSE
    /\ UNCHANGED <<phase, conn, messageRef, callbacks, written>>

\* The callback of channel.send in joinChannel: log, then channel.leave().
SendCallback(m) ==
    /\ Leave
    /\ UNCHANGED <<messageRef, callbacks, written>>

Invoke(h, m) ==
    \/ h = "JoinCb" /\ JoinCallback(m)
    \/ h = "SendCb" /\ SendCallback(m)

\* Frames are dispatched while the loop runs, and once more after a local
\* close when the loop's select picks a frame the reader already holds.
CanDispatch ==
    /\ toClient # <<>>
    /\ \/ phase = "connected"
       \/ phase = "closed" /\ lateSlot

\* ws.connect: the handshake succeeds, the setup function installs the
\* handlers and 'open' sends phx_join with the join callback.
Connect ==
    /\ phase = "constructed"
    /\ phase' = "connected"
    /\ conn' = "up"
    /\ SendFrame("phx_join", "JoinCb", TRUE, "none")
    /\ UNCHANGED <<lateSlot, server, invoked, broadcasts, connections>>

\* ws.connect fails: it returns no response, the "status is 101" check
\* fails and the counter is not incremented.
ConnectFail ==
    /\ phase = "constructed"
    /\ phase' = "failed"
    /\ UNCHANGED <<messageRef, callbacks, conn, lateSlot, written, server,
                   invoked, broadcasts, connections>>

\* socket.on("message") for a frame whose ref has a callback: run it.
\* The callback stays in this.callbacks.
ReceiveReply ==
    /\ CanDispatch
    /\ LET f == Head(toClient)
           m == ParseMessage(f.wire)
           key == RefKey(m.ref)
       IN  /\ ~IsNullish(m.ref)
           /\ key \in DOMAIN callbacks
           /\ toClient' = Tail(toClient)
           /\ invoked' = Append(invoked, [handler |-> callbacks[key], key |-> key,
                                          about |-> f.about])
           /\ Invoke(callbacks[key], m)
    /\ UNCHANGED <<srvRead, srvChan, srvJoin, pushes, broadcasts, connections>>

\* socket.on("message") for a frame without a ref: broadcastCallback.
\* broadcastCallback of the default function: it only logs the message.
BroadcastCallback == broadcasts' = broadcasts + 1

ReceiveBroadcast ==
    /\ CanDispatch
    /\ IsNullish(ParseMessage(Head(toClient).wire).ref)
    /\ toClient' = Tail(toClient)
    /\ BroadcastCallback
    /\ lateSlot' = FALSE
    /\ UNCHANGED <<phase, messageRef, callbacks, conn, written, srvRead, srvChan,
                   srvJoin, pushes, invoked, connections>>

\* socket.on("message") for a ref with no callback: calling undefined
\* throws a TypeError out of the handler, and ws.connect rethrows it: the
\* iteration ends with an exception.
ReceiveUnknownRef ==
    /\ CanDispatch
    /\ LET m == ParseMessage(Head(toClient).wire)
       IN  ~IsNullish(m.ref) /\ RefKey(m.ref) \notin DOMAIN callbacks
    /\ toClient' = Tail(toClient)
    /\ phase' = "aborted"
    /\ UNCHANGED <<messageRef, callbacks, conn, lateSlot, written, srvRead,
                   srvChan, srvJoin, pushes, invoked, broadcasts, connections>>

\* The connection goes down under the client: once the frames before it
\* are read, k6 closes its side and runs the 'close' handler.
OnClose ==
    /\ phase = "connected"
    /\ conn = "down"
    /\ toClient = <<>>
    /\ phase' = "closed"
    /\ UNCHANGED <<messageRef, callbacks, conn, lateSlot, written, server,
                   invoked, broadcasts, connections>>

\* The loop ends and ws.connect returns its 101 response: the check
\* passes and websocket_connections is incremented.
Return ==
    /\ phase = "closed"
    /\ phase' = "returned"
    /\ lateSlot' = FALSE
    /\ connections' = connections + 1
    /\ UNCHANGED <<messageRef, callbacks, conn, written, server, invoked, broadcasts>>

-----------------------------------------------------------------------------
(* Server: the Phoenix channel endpoint (environment, not code of this    *)
(* repository).  It answers with the join_ref and ref of the request.     *)

ReplyTo(i, status) ==
    toClient' = Append(toClient,
        [wire |-> <<written[i].wire[1], written[i].wire[2], Topic, "phx_reply",
                    status>>,
         about |-> i])

\* The server reads the next frame the client wrote.
SrvReceive ==
    /\ conn = "up"
    /\ srvRead < Len(written)
    /\ LET i == srvRead + 1
           event == written[i].wire[4]
       IN  /\ srvRead' = i
           /\ \/ /\ event = "phx_join"
                 /\ \E st \in JoinOutcomes :
                       /\ srvChan' = st
                       /\ srvJoin' = i
                       /\ ReplyTo(i, st)
              \/ /\ event # "phx_join"
                 /\ srvChan = "ok"
                 /\ \E mode \in ReplyModes :
                       IF mode = "reply" THEN ReplyTo(i, "ok")
                                         ELSE UNCHANGED toClient
                 /\ UNCHANGED <<srvChan, srvJoin>>
              \/ /\ event # "phx_join"
                 /\ srvChan # "ok"
                 /\ ReplyTo(i, "error")          \* "unmatched topic"
                 /\ UNCHANGED <<srvChan, srvJoin>>
    /\ UNCHANGED <<client, pushes, invoked, broadcasts, connections>>

\* A broadcast on the joined topic: no join_ref, no ref.
SrvPush ==
    /\ conn = "up" /\ srvChan = "ok" /\ pushes < MaxPushes
    /\ toClient' = Append(toClient,
                     [wire |-> <<Null, Null, Topic, "broadcast", "event">>, about |-> 0])
    /\ pushes' = pushes + 1
    /\ UNCHANGED <<client, srvRead, srvChan, srvJoin, invoked, broadcasts, connections>>

\* The channel process stops: phx_close carries the join's join_ref as
\* both join_ref and ref.
SrvStop ==
    /\ ServerCloses /\ conn = "up" /\ srvChan = "ok"
    /\ LET jr == written[srvJoin].wire[1]
       IN  toClient' = Append(toClient,
                         [wire |-> <<jr, jr, Topic, "phx_close", "{}">>, about |-> srvJoin])
    /\ srvChan' = "left"
    /\ UNCHANGED <<client, srvRead, srvJoin, pushes, invoked, broadcasts, connections>>

\* A frame with a ref that names no request of this socket.
SrvStray ==
    /\ conn = "up" /\ pushes < MaxPushes
    /\ \E r \in StrayRefs :
          toClient' = Append(toClient,
                        [wire |-> <<Null, r, Topic, "phx_reply", "ok">>, about |-> 0])
    /\ pushes' = pushes + 1
    /\ UNCHANGED <<client, srvRead, srvChan, srvJoin, invoked, broadcasts, connections>>

\* The server or the network drops the connection.
SrvDrop ==
    /\ ServerDrops /\ conn = "up"
    /\ conn' = "down"
    /\ UNCHANGED <<phase, messageRef, callbacks, lateSlot, written, server,
                   invoked, broadcasts, connections>>

-----------------------------------------------------------------------------
\* new Channel(url, topic, params, broadcastCallback): no socket yet.
CreateChannel ==
    /\ phase = "constructed"
    /\ messageRef = MessageRefSeed
    /\ callbacks = <<>>
    /\ conn = "none"

\* The default function builds one channel on one fresh connection.
Init ==
    /\ CreateChannel
    /\ lateSlot = FALSE
    /\ written = <<>>
    /\ toClient = <<>>
    /\ srvRead = 0
    /\ srvChan = "none"
    /\ srvJoin = 0
    /\ pushes = 0
    /\ invoked = <<>>
    /\ broadcasts = 0
    /\ connections = 0

Client ==
    \/ Connect \/ ConnectFail
    \/ ReceiveReply \/ ReceiveBroadcast \/ ReceiveUnknownRef
    \/ OnClose \/ Return

Server == SrvReceive \/ SrvPush \/ SrvStop \/ SrvStray \/ SrvDrop

\* The VU's iteration is over; nothing of it runs any more.
Done == phase \in Finished /\ UNCHANGED vars

Next == Client \/ Server \/ Done

\* k6 eventually completes or fails a handshake, its event loop dispatches
\* every frame it has read and returns once closed, and the server reads
\* every frame written to an open connection.  Pushes, stops and drops are
\* the server's choice and get no fairness.
Fairness ==
    /\ WF_vars(Connect \/ ConnectFail)
    /\ WF_vars(ReceiveReply \/ ReceiveBroadcast \/ ReceiveUnknownRef)
    /\ WF_vars(OnClose)
    /\ WF_vars(Return)
    /\ WF_vars(SrvReceive)

Spec == Init /\ [][Next]_vars /\ Fairness

-----------------------------------------------------------------------------
(* Properties                                                              *)

TypeOK ==
    /\ phase \in Phases
    /\ messageRef \in Nat /\ messageRef >= MessageRefSeed
    /\ \A k \in DOMAIN callbacks : k \in Seq(Digit) /\ callbacks[k] \in Handlers
    /\ conn \in {"none", "up", "down"}
    /\ lateSlot \in BOOLEAN
    /\ \A i \in 1..Len(written) : written[i].handler \in Handlers
                                  /\ written[i].onJoin \in {"none", "ok", "error", "{}"}
    /\ srvRead \in 0..Len(written)
    /\ srvChan \in {"none", "ok", "error", "left"}
    /\ srvJoin \in 0..Len(written)
    /\ \A i \in 1..Len(toClient) : toClient[i].about \in 0..Len(written)
    /\ pushes \in 0..MaxPushes
    /\ \A k \in 1..Len(invoked) : invoked[k].handler \in Handlers
    /\ broadcasts \in Nat /\ connections \in 0..1

\* Correlation (socket.on("message") with this.callbacks): whenever a
\* callback runs for a frame that answers a request, it is the callback
\* _send registered together with that request, never another one.
ReplyCorrelation ==
    \A k \in 1..Len(invoked) :
        invoked[k].about # 0 => written[invoked[k].about].handler = invoked[k].handler

\* No frame the server sends makes the message handler throw: every ref
\* the client is sent names a callback in this.callbacks.
NoHandlerCrash == phase # "aborted"

\* The VU's iteration ends: ws.connect returns (or fails, or throws), so
\* channel.join never leaves the VU waiting forever.
IterationEnds == <>(phase \in Finished)

\* Each registered callback runs at most once: a reply resolves its
\* request once (spec 3, 8).
AtMostOnce ==
    \A k1, k2 \in 1..Len(invoked) : k1 # k2 => invoked[k1].key # invoked[k2].key

\* Once the socket is closed, no callback in this.callbacks is left without
\* having run: a pending request receives its reply or a cancellation
\* (spec 4.4, 7, 8).
NoSilentPending ==
    phase \in {"closed", "returned"} =>
        \A key \in DOMAIN callbacks : \E k \in 1..Len(invoked) : invoked[k].key = key

\* Events other than phx_join are sent only on a channel whose join the
\* server accepted (spec 4.4: a rejected join fails join(), no channel).
SendOnlyAfterJoinOk ==
    \A i \in 1..Len(written) :
        written[i].wire[4] # "phx_join" => written[i].onJoin = "ok"

=============================================================================
