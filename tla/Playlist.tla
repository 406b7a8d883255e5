------------------------------ MODULE Playlist ------------------------------
(***************************************************************************)
(* The playing queue of playlist.c: its global variables as one record and *)
(* every function on them as an operator from records to records.  The     *)
(* module has no behaviour of its own: the daemon (module Amused) applies  *)
(* the operators in its handlers.                                          *)
(* Offsets are the C ones: the first song is at offset 0, and -1 means "no *)
(* position".                                                              *)
(***************************************************************************)
EXTENDS Songs, Integers, Sequences, SequencesExt

PlayState == {"stopped", "playing", "paused"}

(* The globals of playlist.c; cur is current_song, a copy of the path.     *)
PlaylistType == [songs : Seq(Song),
                 off   : Nat \cup {-1},
                 cur   : Song \cup {None},
                 state : PlayState]

InitPlaylist == [songs |-> <<>>, off |-> -1, cur |-> None, state |-> "stopped"]

Offsets(pl) == 0 .. Len(pl.songs) - 1
SongAt(pl, i) == pl.songs[i + 1]

SetSong(pl, i) ==
    [pl EXCEPT !.cur = IF i = -1 THEN None ELSE SongAt(pl, i)]

Enqueue(pl, s) == [pl EXCEPT !.songs = Append(@, s)]

(* A definition that follows one named Faulty... is what the code does;    *)
(* the faulty one is the bug that a run is shown to notice.                *)
FaultyTruncate(pl) == [pl EXCEPT !.songs = <<>>]   (* keeps play_off *)
Truncate(pl) == [pl EXCEPT !.songs = <<>>, !.off = -1]

(* The offset of the first song of `songs' that is in S: a set with one    *)
(* element, or empty.                                                      *)
FirstIn(songs, S) ==
    { i \in 0 .. Len(songs) - 1 : /\ songs[i + 1] \in S
                                  /\ \A j \in 0 .. i - 1 : songs[j + 1] \notin S }

(* Where the queue stands once `new' replaces it: at the requested offset, *)
(* or else at the first copy of the song being played, or else nowhere.    *)
SwapOffset(pl, new, off) ==
    IF off \in 0 .. Len(new) - 1
    THEN {off}
    ELSE IF FirstIn(new, {pl.cur}) = {} THEN {-1} ELSE FirstIn(new, {pl.cur})

FaultySwap(pl, new, i) ==   (* sets the current song of a daemon that plays *)
    SetSong([pl EXCEPT !.songs = new, !.off = i], i)

(* playlist_swap(); i is the element of SwapOffset.                        *)
Swap(pl, new, i) ==
    LET q == [Truncate(pl) EXCEPT !.songs = new, !.off = i]
    IN  IF pl.state = "stopped" THEN SetSong(q, i) ELSE q

(* The end of the queue without repeat_all, in either direction.           *)
Exhausted(pl) == [pl EXCEPT !.state = "stopped", !.off = -1, !.cur = None]

PlayAt(pl, i) == [SetSong(pl, i) EXCEPT !.off = i, !.state = "playing"]

(* playlist_advance() and playlist_previous(): they return NULL exactly    *)
(* when they leave the state "stopped", else the current song.             *)
Advance(pl, repeatAll) ==
    IF pl.songs = <<>> THEN [pl EXCEPT !.state = "stopped"]
    ELSE IF pl.off + 1 # Len(pl.songs) THEN PlayAt(pl, pl.off + 1)
    ELSE IF repeatAll THEN PlayAt(pl, 0)
    ELSE Exhausted(pl)

Previous(pl, repeatAll) ==
    IF pl.songs = <<>> THEN [pl EXCEPT !.state = "stopped"]
    ELSE IF pl.off - 1 >= 0 THEN PlayAt(pl, pl.off - 1)
    ELSE IF repeatAll THEN PlayAt(pl, Len(pl.songs) - 1)
    ELSE Exhausted(pl)

FaultyDrop(pl) ==       (* does not test for a queue without position *)
    IF pl.songs = <<>> THEN pl
    ELSE [pl EXCEPT !.songs = IF pl.off = -1 THEN @ ELSE RemoveAt(@, pl.off + 1),
                    !.off   = pl.off - 1,
                    !.cur   = None]

FaultyDropInPlace(pl) ==    (* does not step back *)
    IF pl.off = -1 \/ pl.songs = <<>> THEN pl
    ELSE [pl EXCEPT !.songs = RemoveAt(@, pl.off + 1),
                    !.off   = IF pl.off + 1 = Len(pl.songs) THEN pl.off - 1 ELSE pl.off,
                    !.cur   = None]

(* Removes the song at the current offset and steps back, so that the next *)
(* Advance lands on the song that followed it.                             *)
DropCurrent(pl) ==
    IF pl.off = -1 \/ pl.songs = <<>> THEN pl
    ELSE [pl EXCEPT !.songs = RemoveAt(@, pl.off + 1),
                    !.off   = pl.off - 1,
                    !.cur   = None]

(* playlist_shuffle().  The current song, if the queue has a position,     *)
(* stays where it is or (all) is moved to the top.  The loop over the rest *)
(* is Sattolo's: it draws j among start..i-1, never i itself, hence what   *)
(* it can produce are the permutations of the rest that form one cycle.    *)
Cycles(R) ==
    { p \in [R -> R] : \A S \in SUBSET R :
          S # {} /\ (\A x \in S : p[x] \in S) => S = R }

Exchange(songs, a, b) ==
    [k \in 1 .. Len(songs) |-> IF k = a + 1 THEN songs[b + 1]
                               ELSE IF k = b + 1 THEN songs[a + 1]
                               ELSE songs[k]]

ShuffleStart(pl, all) == IF pl.off >= 0 /\ ~all THEN pl.off ELSE 0

Pinned(pl, all) ==
    IF pl.off >= 0
    THEN [pl EXCEPT !.songs = Exchange(@, pl.off, ShuffleStart(pl, all)),
                    !.off   = ShuffleStart(pl, all)]
    ELSE pl

FaultyRange(pl, all) ==     (* does not spare the pinned song *)
    ShuffleStart(pl, all) .. Len(pl.songs) - 1
ShuffleRange(pl, all) ==
    (IF pl.off >= 0 THEN ShuffleStart(pl, all) + 1 ELSE 0) .. Len(pl.songs) - 1

Permuted(pl, p) ==
    [pl EXCEPT !.songs = [k \in 1 .. Len(@) |->
                             IF k - 1 \in DOMAIN p THEN @[p[k - 1] + 1] ELSE @[k]]]

Shuffles(pl, all) ==
    IF pl.songs = <<>> THEN {pl}
    ELSE { Permuted(Pinned(pl, all), p) : p \in Cycles(ShuffleRange(pl, all)) }
=============================================================================
