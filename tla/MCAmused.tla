------------------------------ MODULE MCAmused ------------------------------
(***************************************************************************)
(* Instances of Amused for TLC.                                            *)
(***************************************************************************)
EXTENDS Amused

CONSTANTS a, b

TwoSongs == {a, b}

OneMode == {InitMode}
AllModes == ModeType

TwoLoads == {<<>>, <<a, b>>, <<b, a, b>>}
NoPosition == {-1}
AnyPosition == {-1, 0, 1}
=============================================================================
