------------------------- MODULE MCSeventvChannels -------------------------
(* Small instances of SeventvChannels for TLC: channels of a list, users   *)
(* and sets are never told apart.                                          *)
EXTENDS SeventvChannels, TLC

Symmetry ==
    Permutations(Listed) \cup Permutations(Users) \cup Permutations(Sets)
=============================================================================
