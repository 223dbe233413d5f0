------------------------- MODULE WebSocketContract -------------------------
(***************************************************************************)
(* What a user of WebSocketPool may rely on, for one socket: its listener  *)
(* is told of an open at most once, of messages only after that, and of    *)
(* the close as the last thing; the server receives what was sent through  *)
(* the handle in that order, without gaps or repetitions, up to some       *)
(* point.                                                                  *)
(***************************************************************************)
EXTENDS Naturals, Sequences

CONSTANTS Messages

VARIABLES
    told,      \* what the listener was told last
    accepted,  \* the messages given to the handle
    wire       \* the messages the server received

vars == <<told, accepted, wire>>

Init == told = "nothing" /\ accepted = << >> /\ wire = << >>

Send(m) == accepted' = Append(accepted, m) /\ UNCHANGED <<told, wire>>

OnOpen == told = "nothing" /\ told' = "open" /\ UNCHANGED <<accepted, wire>>

OnMessage == told = "open" /\ told' = "message" /\ UNCHANGED <<accepted, wire>>

OnClose == told # "close" /\ told' = "close" /\ UNCHANGED <<accepted, wire>>

(* The next message reaches the server, with or without the news that the  *)
(* connection ended.                                                       *)
Deliver ==
    /\ Len(wire) < Len(accepted)
    /\ wire' = Append(wire, accepted[Len(wire) + 1])
    /\ told' \in {told, "close"}
    /\ UNCHANGED accepted

Next == (\E m \in Messages : Send(m)) \/ OnOpen \/ OnMessage \/ OnClose \/ Deliver

Spec == Init /\ [][Next]_vars
=============================================================================
