---------------------------- MODULE ShuffleLoop -----------------------------
(***************************************************************************)
(* playlist_shuffle() iteration by iteration, for every draw that          *)
(* arc4random_uniform() can make, against the closed form that module      *)
(* Playlist gives it.                                                      *)
(***************************************************************************)
EXTENDS Playlist

LoopStart(given, all) == IF given.off >= 0 THEN ShuffleStart(given, all) + 1 ELSE 0

(* A definition that follows one named Faulty... is what the code does;    *)
(* the faulty one is the bug that a run is shown to notice.                *)
FaultyDraws(start, i) == start .. i

(* j = start + arc4random_uniform(i - start)                               *)
Draws(start, i) == start .. i - 1

(* One turn, for each of some queues.                                      *)
Turned(q, i, j) == [q EXCEPT !.songs = Exchange(@, i, j)]
Turns(begun, start, i) == { Turned(q, i, j) : q \in begun, j \in Draws(start, i) }

(* The loop down to start: reach[i] is what there may be when it has come  *)
(* down to i.                                                              *)
Outcomes(begun, start, last) ==
    LET reach[i \in start .. last] ==
            IF i = last THEN begun ELSE Turns(reach[i + 1], start, i + 1)
    IN  reach[start]

(* All that the function can produce.                                      *)
Produced(given, all) ==
    LET start == LoopStart(given, all)
        last == Len(given.songs) - 1
        begun == {Pinned(given, all)}
    IN  IF last < start THEN begun ELSE Outcomes(begun, start, last)
=============================================================================
