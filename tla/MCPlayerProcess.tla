--------------------------- MODULE MCPlayerProcess --------------------------
(***************************************************************************)
(* Instances of PlayerProcess for TLC.                                     *)
(***************************************************************************)
EXTENDS PlayerProcess

CONSTANTS a,                (* a song         *)
          cd, dat           (* sample formats *)
=============================================================================
