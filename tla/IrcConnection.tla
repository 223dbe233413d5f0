--------------------------- MODULE IrcConnection ---------------------------
(***************************************************************************)
(* One connection to the chat server (IrcConnection2.cpp) over the         *)
(* connection of the Communi library, as operators on a record:            *)
(*   status     state of the socket; "connected" once the server has       *)
(*              welcomed the client (isConnected())                        *)
(*   deaf       the peer is gone without the socket noticing               *)
(*   expected   expectConnectionLoss_                                      *)
(*   waiting    waitingForPong_                                            *)
(*   recent     recentlyReceivedMessage_                                   *)
(*   retry      reconnectTimer_ is active                                  *)
(*   ping       pingTimer_ is active                                       *)
(*   joined     the channels whose last command on this connection was a   *)
(*              JOIN                                                       *)
(* The delays of the retry timer (ExponentialBackoff) are left out: it may *)
(* expire at any time.                                                     *)
(***************************************************************************)
CONSTANT Names

Connection ==
  [status : {"off", "connecting", "connected"}, deaf : BOOLEAN,
   expected : BOOLEAN, waiting : BOOLEAN, recent : BOOLEAN,
   retry : BOOLEAN, ping : BOOLEAN, joined : SUBSET Names]

NewConnection ==
  [status |-> "off", deaf |-> FALSE, expected |-> FALSE, waiting |-> FALSE,
   recent |-> TRUE, retry |-> FALSE, ping |-> TRUE, joined |-> {}]

\* smartReconnect(): a timer that runs already is left alone.
SmartReconnect(c) == [c EXCEPT !.retry = TRUE]

\* Mutant: connectionLost is invoked only for a connection that was up.
UnconnectedQuietly(c) ==
  LET gone == [c EXCEPT !.status = "off", !.ping = FALSE, !.deaf = FALSE, !.joined = {}]
  IN IF c.expected \/ c.status = "connecting" THEN gone ELSE SmartReconnect(gone)

\* The socket becomes unconnected: an unexpected loss starts the retry timer.
Unconnected(c) ==
  LET gone == [c EXCEPT !.status = "off", !.ping = FALSE, !.deaf = FALSE, !.joined = {}]
  IN IF c.expected THEN gone ELSE SmartReconnect(gone)

\* open(): Communi ignores it for a connection that is on its way.
Open(c) ==
  [c EXCEPT !.expected = FALSE, !.waiting = FALSE, !.recent = FALSE,
            !.status = IF @ = "off" THEN "connecting" ELSE @]

\* close(): the socket is aborted, and unconnected before the call returns.
Close(c) ==
  LET closing == [c EXCEPT !.expected = TRUE]
  IN IF c.status = "off" THEN closing ELSE Unconnected(closing)

\* The welcome of the server is a message, too.
Welcomed(c) ==
  [c EXCEPT !.status = "connected", !.ping = TRUE, !.recent = TRUE]

Received(c, isPong) ==
  [c EXCEPT !.recent = TRUE, !.waiting = IF isPong THEN FALSE ELSE @]

\* Mutant: a PING without an answer closes the connection and no more.
PingTimeoutForgets(c) ==
  IF c.recent THEN [c EXCEPT !.recent = FALSE, !.waiting = FALSE]
  ELSE IF c.waiting THEN Close(c)
  ELSE [c EXCEPT !.waiting = TRUE]

\* pingTimer_ expires on a connection that is connected.
PingTimeout(c) ==
  IF c.recent THEN [c EXCEPT !.recent = FALSE, !.waiting = FALSE]
  ELSE IF c.waiting THEN SmartReconnect(Close(c))
  ELSE [c EXCEPT !.waiting = TRUE]

\* reconnectTimer_ expires.
RetryTimeout(c) ==
  LET expired == [c EXCEPT !.retry = FALSE]
  IN IF c.status = "connected" THEN expired ELSE Open(expired)

\* sendRaw() of a JOIN or a PART; nothing is sent before the welcome.
SendJoins(c, names) ==
  IF c.status = "connected" THEN [c EXCEPT !.joined = @ \cup names] ELSE c

SendPart(c, name) == [c EXCEPT !.joined = @ \ {name}]
=============================================================================
