------------------------ MODULE SharedSubscriptions ------------------------
(***************************************************************************)
(* What sharing subscriptions promises, whoever shares them and however:   *)
(* a user is told that it has the names it needs only when they are        *)
(* subscribed, and a name is unsubscribed only while nobody needs it.      *)
(***************************************************************************)
CONSTANTS Users, Names

VARIABLES
    needed,     \* the names each user relies on
    subscribed

vars == <<needed, subscribed>>

Init == needed = [u \in Users |-> {}] /\ subscribed = {}

(* A user takes and gives up names; those it relies on are subscribed.     *)
Take(u) ==
    \E more \in SUBSET Names :
        /\ subscribed' = subscribed \cup more
        /\ \E names \in SUBSET subscribed' : needed' = [needed EXCEPT ![u] = names]

Subscribe ==
    \E more \in SUBSET Names : subscribed' = subscribed \cup more /\ UNCHANGED needed

(* Names that are dropped together are none that anybody relies on.        *)
Unsubscribe ==
    \E fewer \in SUBSET Names :
        /\ \A u \in Users : needed[u] \cap fewer = {}
        /\ subscribed' = subscribed \ fewer
        /\ UNCHANGED needed

Next == (\E u \in Users : Take(u)) \/ Subscribe \/ Unsubscribe

Spec == Init /\ [][Next]_vars
=============================================================================
