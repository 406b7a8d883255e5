------------------------------- MODULE Songs --------------------------------
(***************************************************************************)
(* What the components of the daemon have in common: the songs.  A song    *)
(* stands for the path of a file in the playing queue.                     *)
(***************************************************************************)
CONSTANTS Song,   (* the paths that may be in the queue *)
          None    (* no song: a NULL path, or no descriptor *)

ASSUME NoneIsNoSong == None \notin Song
=============================================================================
