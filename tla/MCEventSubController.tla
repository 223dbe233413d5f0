------------------------ MODULE MCEventSubController ------------------------
(* Instances of EventSubController for TLC. *)
EXTENDS EventSubController, TLC

CONSTANTS k1, k2, alice, bob, h1, h2

OneRequest == {[key |-> k1, owner |-> alice, alt |-> FALSE]}
TwoKeys == OneRequest \cup {[key |-> k2, owner |-> alice, alt |-> FALSE]}
TwoOwners == OneRequest \cup {[key |-> k2, owner |-> bob, alt |-> FALSE]}
TwoAuths == OneRequest \cup {[key |-> k2, owner |-> alice, alt |-> TRUE]}

HandleSymmetry == Permutations(Handles)

=============================================================================
