------------------------------ MODULE Decoders ------------------------------
(***************************************************************************)
(* The five decoding loops, play_mp3() and its kin, reduced to what the    *)
(* player process sees of them: which failures they pass over, and what    *)
(* they return for the others.  A return of 0 makes player() send EOF, -1  *)
(* makes it send ERR, 1 says that play() was told to stop.                 *)
(***************************************************************************)
Kind == {"flac", "mp3", "opus", "vorbis", "wav"}

(* A track that has begun to play is given up with an error: reading it    *)
(* fails, or (mp3) a new format is not understood.  vorbis passes over     *)
(* every error, as the others do with some: the loop goes on.              *)
GivesUp == Kind \ {"vorbis"}

(* libopusfile decodes every file at 48 kHz, whatever the rate in its      *)
(* header, the one that its maker had (external). All others yield what    *)
(* their header says.                                                      *)
Decoded(kind, said, opus) == IF kind = "opus" THEN opus ELSE said

(* What is reported when a seek fails: only wav calls it an error.         *)
SeekFailed(kind) == IF kind = "wav" THEN "ERR" ELSE "EOF"

(* The wav loop looks at a seek only while there are samples left to read, *)
(* so that one that comes with the last buffer is lost.                    *)
DropsLateSeek == {"wav"}

(* libFLAC delivers the frame that a seek leads to by calling writecb()    *)
(* from within the seek.  If play() is told to stop there the seek fails.  *)
PlaysWithinSeek == {"flac"}
=============================================================================
