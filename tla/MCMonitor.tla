----------------------------- MODULE MCMonitor ------------------------------
(***************************************************************************)
(* Instances of Monitor for TLC.                                           *)
(***************************************************************************)
EXTENDS Monitor

CONSTANTS a, b

TwoSongs == {a, b}
AllModes == ModeType
NoPosition == {-1}
TwoLoads == {<<>>, <<a, b>>, <<b, a, b>>}
=============================================================================
