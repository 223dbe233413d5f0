------------------------ MODULE WebSocketConnection ------------------------
(***************************************************************************)
(* One connection of a WebSocketPool: WebSocketConnectionHelper            *)
(* (src/src/common/websockets/detail/WebSocketConnectionImpl.cpp) with its *)
(* WebSocketHandle and its listener.                                       *)
(*                                                                         *)
(* Handlers run one at a time on the thread of the pool.  Each action is   *)
(* one of them: a function posted by the handle, or the completion of an   *)
(* asynchronous operation, with success or with an error.  An operation    *)
(* that was cancelled may already have completed, and its handler be on    *)
(* its way, so that it can still report success.                           *)
(***************************************************************************)
EXTENDS Naturals, Sequences

CONSTANTS
    Messages,      \* what is sent
    None,          \* "no message"
    Tls,           \* whether the url is wss
    MaxEndpoints,  \* bound: endpoints the resolver returns
    MaxSends,      \* bound: messages given to the handle
    MaxCloses      \* bound: calls of close(): by its user, by the destructor, by the pool

ASSUME TlsAssumption == Tls \in BOOLEAN
ASSUME NoneAssumption == None \notin Messages
ASSUME BoundAssumption == MaxEndpoints \in Nat /\ MaxSends \in Nat /\ MaxCloses \in Nat

VARIABLES
    posts,           \* what the other threads posted to this one
    listener,        \* listener is set; the pool lists the connection as long as it is
    told,            \* what the listener was told last
    isClosing,
    isSending,
    queuedMessages,
    stream,          \* the state of the websocket stream: only "open" is is_open()
    connecting,      \* which step of connecting is under way
    endpoints,       \* resolvedEndpoints that are left
    reading,         \* an async_read is under way
    writing,         \* the message of the async_write under way, or None
    closing,         \* an async_close is under way
    armed,           \* healthCheckTimer is running
    due,             \* it has expired and its handler is on its way
    pings,           \* pingProbesTried
    peer,            \* "up", or "dead": nothing comes back any more, and no error either
    closeCalls,      \* calls of close() so far
    accepted,        \* the messages given to the handle so far
    wire             \* the messages the server received so far

ends == <<listener, told>>
out == <<isSending, queuedMessages, writing>>
health == <<armed, due, pings>>
record == <<closeCalls, accepted>>
vars == <<posts, ends, isClosing, out, stream, connecting, endpoints, reading,
          closing, health, peer, record, wire>>

Posts == [op : {"run", "close"}, m : {None}] \cup [op : {"send"}, m : Messages]

Streams == {"down", "open", "closing", "over"}
Steps == {"none", "resolve", "tcp", "tls", "ws"}

QueuesOK ==
    /\ posts \in Seq(Posts)
    /\ queuedMessages \in Seq(Messages)
    /\ isSending \in BOOLEAN /\ writing \in Messages \cup {None}
    /\ accepted \in Seq(Messages) /\ wire \in Seq(Messages)

ControlOK ==
    /\ listener \in BOOLEAN /\ isClosing \in BOOLEAN
    /\ reading \in BOOLEAN /\ closing \in BOOLEAN
    /\ armed \in BOOLEAN /\ due \in BOOLEAN

StagesOK ==
    /\ told \in {"nothing", "open", "message", "close"}
    /\ stream \in Streams /\ connecting \in Steps
    /\ peer \in {"up", "dead"}

CountersOK ==
    /\ pings \in 0 .. 3
    /\ endpoints \in 0 .. MaxEndpoints
    /\ closeCalls \in 0 .. MaxCloses

TypeOK == QueuesOK /\ ControlOK /\ StagesOK /\ CountersOK

(* createSocket() posts run() before it returns the handle.                *)
Init ==
    /\ posts = <<[op |-> "run", m |-> None]>>
    /\ listener = TRUE /\ told = "nothing"
    /\ isClosing = FALSE /\ isSending = FALSE
    /\ queuedMessages = << >>
    /\ stream = "down" /\ connecting = "none" /\ endpoints = 0
    /\ reading = FALSE /\ writing = None /\ closing = FALSE
    /\ armed = FALSE /\ due = FALSE /\ pings = 0
    /\ peer = "up"
    /\ closeCalls = 0 /\ accepted = << >> /\ wire = << >>

-----------------------------------------------------------------------------
(* The functions the handlers share.  st is the state of the stream when   *)
(* they are called.                                                        *)

Detach ==
    /\ listener' = FALSE
    /\ told' = IF listener THEN "close" ELSE told

(* Mutant: close() forgets about a connection that is not open yet.        *)
CloseOnlyOpen(st) ==
    IF isClosing \/ st # "open"
    THEN stream' = st /\ UNCHANGED <<isClosing, closing, armed>>
    ELSE isClosing' = TRUE /\ armed' = FALSE /\ closing' = TRUE /\ stream' = "closing"

(* Cancelling shows in what follows: reads and writes end once isClosing   *)
(* is set (Fairness).  async_close writes a close frame on an open stream, *)
(* behind the message that is being written; on any other it fails.        *)
CloseImpl(st) ==
    IF isClosing
    THEN stream' = st /\ UNCHANGED <<isClosing, closing, armed>>
    ELSE /\ isClosing' = TRUE
         /\ armed' = FALSE
         /\ closing' = TRUE
         /\ stream' = IF st = "open" /\ writing = None THEN "closing" ELSE st

(* fail() closes a stream that is open; in any case it detaches, and the   *)
(* listener is told of the close.                                          *)
Fail(st) ==
    /\ IF st = "open"
       THEN CloseImpl(st)
       ELSE stream' = st /\ UNCHANGED <<isClosing, closing, armed>>
    /\ Detach

TrySend(st, queue, sending) ==
    /\ queuedMessages' = queue
    /\ IF queue = << >> \/ sending \/ st # "open"
       THEN isSending' = sending /\ writing' = IF sending THEN writing ELSE None
       ELSE isSending' = TRUE /\ writing' = Head(queue)

(* An operation that fails leaves a stream that was open unusable.         *)
AfterError == IF stream = "open" THEN "over" ELSE stream

(* The next step of connecting, or the failure of this one.                *)
Connect(step) ==
    /\ connecting' = step
    /\ UNCHANGED <<stream, isClosing, closing, armed, ends>>

ConnectFails == connecting' = "none" /\ Fail(stream)

(* Mutant: nobody is told that the endpoints ran out.                      *)
TryConnectReturns(entries) ==
    IF entries = 0
    THEN Connect("none") /\ endpoints' = 0
    ELSE Connect("tcp") /\ endpoints' = entries - 1

TryConnect(entries) ==
    IF entries = 0
    THEN ConnectFails /\ endpoints' = 0
    ELSE Connect("tcp") /\ endpoints' = entries - 1

-----------------------------------------------------------------------------
(* The handle, on any thread.  It refers to the connection weakly.         *)

Alive ==
    \/ listener \/ posts # << >> \/ connecting # "none" \/ reading \/ writing # None
    \/ closing \/ armed \/ due

SendText(m) ==
    /\ Alive /\ Len(accepted) < MaxSends
    /\ posts' = Append(posts, [op |-> "send", m |-> m])
    /\ accepted' = Append(accepted, m)
    /\ UNCHANGED <<ends, isClosing, out, stream, connecting, endpoints, reading,
                   closing, health, peer, closeCalls, wire>>

Close ==
    /\ Alive /\ closeCalls < MaxCloses
    /\ posts' = Append(posts, [op |-> "close", m |-> None])
    /\ closeCalls' = closeCalls + 1
    /\ UNCHANGED <<ends, isClosing, out, stream, connecting, endpoints, reading,
                   closing, health, peer, accepted, wire>>

-----------------------------------------------------------------------------
(* Posted functions.                                                       *)

Posted(op) == posts # << >> /\ Head(posts).op = op /\ posts' = Tail(posts)

Run ==
    /\ Posted("run")
    /\ \/ Tls /\ ConnectFails
       \/ Connect("resolve")
    /\ UNCHANGED <<out, endpoints, reading, due, pings, peer, record, wire>>

RunSend ==
    /\ Posted("send")
    /\ TrySend(stream, Append(queuedMessages, Head(posts).m), isSending)
    /\ UNCHANGED <<ends, isClosing, stream, connecting, endpoints, reading, closing,
                   health, peer, record, wire>>

RunClose ==
    /\ Posted("close")
    /\ CloseImpl(stream)
    /\ UNCHANGED <<ends, out, connecting, endpoints, reading, due, pings, peer,
                   record, wire>>

-----------------------------------------------------------------------------
(* Connecting.                                                             *)

OnResolve ==
    /\ connecting = "resolve"
    /\ \/ ConnectFails /\ UNCHANGED endpoints
       \/ \E n \in 0 .. MaxEndpoints : TryConnect(n)
    /\ UNCHANGED <<posts, out, reading, due, pings, peer, record, wire>>

OnTcpHandshake ==
    /\ connecting = "tcp"
    /\ \/ TryConnect(endpoints)
       \/ Connect(IF Tls THEN "tls" ELSE "ws") /\ endpoints' = 0
    /\ UNCHANGED <<posts, out, reading, due, pings, peer, record, wire>>

OnTlsHandshake ==
    /\ connecting = "tls"
    /\ ConnectFails \/ Connect("ws")
    /\ UNCHANGED <<posts, out, endpoints, reading, due, pings, peer, record, wire>>

OnWsHandshake ==
    /\ connecting = "ws" /\ connecting' = "none"
    /\ \/ /\ ~listener \/ isClosing
          /\ stream' \in {"open", "over"}
          /\ UNCHANGED <<ends, isClosing, closing, armed, out, reading>>
       \/ /\ listener /\ ~isClosing
          /\ Fail("over")
          /\ UNCHANGED <<out, reading>>
       \/ /\ listener /\ ~isClosing
          /\ stream' = "open"
          /\ told' = "open"
          /\ TrySend("open", queuedMessages, isSending)
          /\ reading' = TRUE
          /\ armed' = TRUE
          /\ UNCHANGED <<listener, isClosing, closing>>
    /\ UNCHANGED <<posts, endpoints, due, pings, peer, record, wire>>

-----------------------------------------------------------------------------
(* The open connection.                                                    *)

(* Mutant: a message is handed on without asking who still listens.        *)
OnReadDoneUnchecked ==
    /\ reading
    /\ \/ reading' = FALSE /\ Fail(AfterError) /\ UNCHANGED pings
       \/ /\ stream # "over" /\ peer = "up"
          /\ told' = "message" /\ armed' = TRUE /\ pings' = 0
          /\ UNCHANGED <<listener, isClosing, closing, reading, stream>>
    /\ UNCHANGED <<posts, out, connecting, endpoints, due, peer, record, wire>>

OnReadDone ==
    /\ reading
    /\ \/ /\ ~listener \/ isClosing
          /\ reading' = FALSE
          /\ stream' \in {stream, AfterError}
          /\ UNCHANGED <<ends, isClosing, closing, armed, pings>>
       \/ /\ listener /\ ~isClosing
          /\ reading' = FALSE
          /\ Fail(AfterError)
          /\ UNCHANGED pings
       \/ /\ listener /\ ~isClosing
          /\ stream = "open" /\ peer = "up"
          /\ told' = "message"
          /\ armed' = TRUE
          /\ pings' = 0
          /\ UNCHANGED <<listener, isClosing, closing, reading, stream>>
    /\ UNCHANGED <<posts, out, connecting, endpoints, due, peer, record, wire>>

(* Mutant: the next message waits for another call of trySend().           *)
OnWriteDoneWaits ==
    /\ writing # None
    /\ stream' = IF closing /\ stream # "over" THEN "closing" ELSE stream
    /\ wire' = IF stream = "over" THEN wire ELSE Append(wire, writing)
    /\ queuedMessages' = Tail(queuedMessages)
    /\ isSending' = FALSE /\ writing' = None
    /\ UNCHANGED <<posts, ends, isClosing, closing, armed, connecting, endpoints,
                   reading, due, pings, peer, record>>

(* A close frame that waited for the write goes next.  What is written     *)
(* behind a close frame may be lost, as may a message whose write failed.  *)
OnWriteDone ==
    /\ writing # None
    /\ \/ /\ stream # "over"
          /\ stream' = IF closing THEN "closing" ELSE stream
          /\ \/ wire' = Append(wire, writing)
             \/ stream # "open" /\ UNCHANGED wire
          /\ TrySend(stream, Tail(queuedMessages), FALSE)
          /\ UNCHANGED <<ends, isClosing, closing, armed>>
       \/ /\ queuedMessages' = Tail(queuedMessages)
          /\ isSending' = FALSE /\ writing' = None
          /\ wire' \in {wire, Append(wire, writing)}
          /\ Fail(AfterError)
    /\ UNCHANGED <<posts, connecting, endpoints, reading, due, pings, peer, record>>

(* The close handshake ended, or failed and the socket was closed.         *)
OnCloseDone ==
    /\ closing /\ closing' = FALSE
    /\ stream' = "over"
    /\ Detach
    /\ UNCHANGED <<posts, isClosing, out, connecting, endpoints, reading, health, peer,
                   record, wire>>

HealthTimerExpires ==
    /\ armed /\ ~due
    /\ armed' = FALSE /\ due' = TRUE
    /\ UNCHANGED <<posts, ends, isClosing, out, stream, connecting, endpoints, reading,
                   closing, pings, peer, record, wire>>

(* Mutant: probes without end.                                             *)
OnHealthCheckForever ==
    /\ due /\ due' = FALSE
    /\ pings' = IF pings < 3 THEN pings + 1 ELSE pings
    /\ armed' = ~isClosing
    /\ UNCHANGED <<posts, ends, isClosing, out, stream, closing, connecting, endpoints,
                   reading, peer, record, wire>>

(* Mutant: the probes are counted and never compared with the limit.       *)
OnHealthCheckUnlimited ==
    /\ due /\ due' = FALSE
    /\ pings' = pings + 1
    /\ armed' = ~isClosing
    /\ UNCHANGED <<posts, ends, isClosing, out, stream, closing, connecting, endpoints,
                   reading, peer, record, wire>>

(* Mutant: a probe is sent and nobody comes back to look at the answer.    *)
OnHealthCheckOnce ==
    /\ due /\ due' = FALSE
    /\ pings' = IF pings < 3 THEN pings + 1 ELSE pings
    /\ UNCHANGED <<posts, ends, isClosing, out, stream, closing, connecting, endpoints,
                   reading, armed, peer, record, wire>>

OnHealthCheck ==
    /\ due /\ due' = FALSE
    /\ \/ isClosing /\ UNCHANGED <<ends, isClosing, stream, closing, armed, pings>>
       \/ /\ ~isClosing /\ pings >= 3
          /\ Fail(stream)
          /\ UNCHANGED pings
       \/ /\ ~isClosing /\ pings < 3
          /\ pings' = pings + 1
          /\ armed' = TRUE
          /\ UNCHANGED <<ends, isClosing, stream, closing>>
    /\ UNCHANGED <<posts, out, connecting, endpoints, reading, peer, record, wire>>

(* onControlFrame(), called by the read under way.                         *)
OnPong ==
    /\ reading /\ stream # "over" /\ peer = "up"
    /\ pings' = 0
    /\ armed' = TRUE
    /\ UNCHANGED <<posts, ends, isClosing, out, stream, connecting, endpoints, reading,
                   closing, due, peer, record, wire>>

PeerDies ==
    /\ peer = "up" /\ peer' = "dead"
    /\ UNCHANGED <<posts, ends, isClosing, out, stream, connecting, endpoints, reading,
                   closing, health, record, wire>>

-----------------------------------------------------------------------------
Next ==
    \/ \E m \in Messages : SendText(m)
    \/ Close
    \/ Run \/ RunSend \/ RunClose
    \/ OnResolve \/ OnTcpHandshake \/ OnTlsHandshake \/ OnWsHandshake
    \/ OnReadDone \/ OnWriteDone \/ OnCloseDone
    \/ HealthTimerExpires \/ OnHealthCheck \/ OnPong
    \/ PeerDies

(* The thread of the pool runs what was posted and the handlers of what    *)
(* completed.  Connecting, closing and writing end by their timeouts if    *)
(* nothing else ends them; a read only when closeImpl() has cancelled it.  *)
(* Nothing is assumed of the user or of the peer.                          *)
Fairness ==
    /\ WF_vars(Run \/ RunSend \/ RunClose)
    /\ WF_vars(OnResolve) /\ WF_vars(OnTcpHandshake)
    /\ WF_vars(OnTlsHandshake) /\ WF_vars(OnWsHandshake)
    /\ WF_vars(isClosing /\ OnReadDone)
    /\ WF_vars(OnWriteDone) /\ WF_vars(OnCloseDone)
    /\ WF_vars(HealthTimerExpires) /\ WF_vars(OnHealthCheck)

Spec == Init /\ [][Next]_vars
FairSpec == Spec /\ Fairness

-----------------------------------------------------------------------------
(* As long as the listener waits for news, there is something under way    *)
(* whose end tells it: run() was not called yet, a step of connecting, a   *)
(* read, or the close.  Otherwise the connection would stay in the list of *)
(* its pool for ever, and its user would never reconnect.                  *)
StillListening ==
    listener => \/ \E i \in DOMAIN posts : posts[i].op = "run"
                \/ connecting # "none" \/ reading \/ closing

(* The message being written is the front of queuedMessages: async_write   *)
(* refers to that element, so nothing else may be written and the element  *)
(* may not be removed before onWriteDone() removes it.                     *)
WriteIsFront ==
    /\ isSending <=> writing # None
    /\ isSending => queuedMessages # << >> /\ writing = Head(queuedMessages)

(* A connection that is open and wanted has a health check ahead, also     *)
(* when a check, a message and a pong reschedule the timer in any order.   *)
OpenIsWatched == (listener /\ reading /\ ~isClosing) => (armed \/ due)

(* The connection keeps the contract of the pool.                          *)
Contract == INSTANCE WebSocketContract
KeepsContract == Contract!Spec

(* After close() everything ends, whatever was under way then, and the     *)
(* connection is destroyed: tryShutdown() of the pool waits for this.      *)
CloseEnds == (closeCalls > 0) ~> ~Alive

(* A peer that died silently is noticed by the health check.               *)
DeadPeerIsNoticed == (peer = "dead") ~> ~listener

(* What was given to the handle is written, or the user is told of the     *)
(* end; this includes what was sent before the connection was open.        *)
SentOrEnded ==
    \A n \in 1 .. MaxSends : (Len(accepted) >= n) ~> (Len(wire) >= n \/ ~listener)
=============================================================================
