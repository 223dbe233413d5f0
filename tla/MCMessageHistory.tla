---------------------------- MODULE MCMessageHistory ----------------------------
(***************************************************************************)
(* Instances of MessageHistory: a view of the whole channel and one with a *)
(* filter, over messages of several days.                                  *)
(***************************************************************************)
EXTENDS MessageHistory

CONSTANTS plain, filtered

MCViews  == {plain, filtered}
MCHidden == [w \in MCViews |-> IF w = filtered THEN {2, 4} ELSE {}]
MCDayOf  == <<1, 1, 2, 2, 2>>
MCDateOf == <<1, 1, 1, 2, 2>>
=============================================================================
