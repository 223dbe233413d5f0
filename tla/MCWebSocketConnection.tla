----------------------- MODULE MCWebSocketConnection -----------------------
(* Small instances of WebSocketConnection for TLC.  Messages have no       *)
(* structure and are never compared with anything but each other.          *)
EXTENDS WebSocketConnection, TLC

Symmetry == Permutations(Messages)
=============================================================================
