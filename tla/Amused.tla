------------------------------- MODULE Amused -------------------------------
(***************************************************************************)
(* The daemon: the main process of amused.c, which owns the playing queue  *)
(* and executes the clients' commands (control.c), composed with the       *)
(* player process through two pipes.                                       *)
(*                                                                         *)
(* A handler of the main process is one action, except for the three loops *)
(* that look for a file they can open (main_playlist_advance, _previous,   *)
(* _resume): each iteration is an action, since the player runs meanwhile  *)
(* and every open() has an outcome of its own.  The main process is in one *)
(* of these loops exactly when at # "ready", and takes no other event      *)
(* until the loop ends.                                                    *)
(***************************************************************************)
EXTENDS ShuffleLoop, Player

CONSTANTS
    Openable,     (* songs that main_play_song() may manage to open         *)
    Unopenable,   (* songs it may fail to open, or that are not regular     *)
    Modes,        (* the repeat and consume modes the clients choose among  *)
    Loads,        (* the queues the clients load                            *)
    Positions,    (* the positions they ask for in a load, -1 for none      *)
    MaxLen,       (* bound on the length of the queue                       *)
    MaxPipe       (* bound: no command is taken while more messages than    *)
                  (* this wait in either pipe                               *)

ModeType == [repeatOne : BOOLEAN, repeatAll : BOOLEAN, consume : BOOLEAN]
InitMode == [repeatOne |-> FALSE, repeatAll |-> TRUE, consume |-> FALSE]

ASSUME OpenAssumption == Openable \cup Unopenable = Song
ASSUME ModesAssumption == Modes \subseteq ModeType
ASSUME LoadsAssumption == Loads \subseteq Seq(Song) /\ Positions \subseteq Int
ASSUME BoundsAssumption == MaxLen \in Nat /\ MaxPipe \in Nat

VARIABLES
    pl,      (* the globals of playlist.c                                   *)
    mode,    (* repeat_one, repeat_all, consume                             *)
    at,      (* "ready" for an event, or the loop the process is in         *)
    tail,    (* what the handler sends to the player once its loop is over  *)
    from,    (* history: the song NEXT or PREV was given at, or None        *)
    asked    (* history: what the last command that is about playing asked  *)

mainVars == <<pl, mode, at, tail, from, asked>>
vars == <<playerVars, mainVars>>

Init == /\ PlayerInit
        /\ pl = InitPlaylist
        /\ mode = InitMode
        /\ at = "ready"
        /\ tail = <<>>
        /\ from = None
        /\ asked = "stop"

MayOpen(s) == s \in Openable
MayFail(s) == s \in Unopenable \cup {None}

Send(ms) == toPlayer' = toPlayer \o ms

(* The process is back to its event loop, having sent ms.                  *)
Done(ms) == /\ at' = "ready"
            /\ Send(ms \o tail)
            /\ tail' = <<>>
            /\ from' = None

(* main_play_song() on the current song of q, which is then the playlist.  *)
PlaySong(q) == /\ MayOpen(q.cur)
               /\ pl' = [q EXCEPT !.state = "playing"]

(* A definition that follows one named Faulty... is what the code does;    *)
(* the faulty one is the bug that a run is shown to notice.                *)
FaultySkip(q) == MayFail(q.cur) /\ pl' = q    (* does not drop the song *)

(* It did not play: the song is dropped and the loop goes on.              *)
SkipSong(q) == /\ MayFail(q.cur)
               /\ pl' = DropCurrent(q)

-----------------------------------------------------------------------------
(* One iteration of the loops: Step is playlist_advance() or _previous().  *)
LoopStep(loop, Step(_, _)) ==
    /\ at = loop
    /\ LET q == Step(pl, mode.repeatAll) IN
       \/ q.state = "stopped" /\ pl' = q /\ Done(<<>>)
       \/ q.state # "stopped" /\ PlaySong(q) /\ Done(<<PlayMsg(q.cur)>>)
       \/ /\ q.state # "stopped" /\ SkipSong(q)
          /\ UNCHANGED <<toPlayer, at, tail, from>>
    /\ UNCHANGED <<mode, asked, toMain, pc, nextfd, track>>

AdvanceStep == LoopStep("advance", Advance)
PreviousStep == LoopStep("previous", Previous)
MainLoop == AdvanceStep \/ PreviousStep

(* main_playlist_resume() followed by sending ms: it tries the current     *)
(* song first, then loops like main_playlist_advance().                    *)
Resume(ms) ==
    \/ pl.cur # None /\ PlaySong(pl) /\ Send(<<PlayMsg(pl.cur)>> \o ms)
       /\ UNCHANGED <<at, tail, from>>
    \/ pl.cur # None /\ SkipSong(pl) /\ at' = "advance" /\ tail' = ms
       /\ UNCHANGED <<toPlayer, from>>
    \/ pl.cur = None /\ at' = "advance" /\ tail' = ms
       /\ UNCHANGED <<toPlayer, pl, from>>

-----------------------------------------------------------------------------
(* control_dispatch_imsg(): one action per command.  Replies and events to *)
(* the clients and the transaction lock are in module Control, the events  *)
(* for monitors in module Monitor.                                         *)
Command == /\ at = "ready"
           /\ Len(toPlayer) <= MaxPipe /\ Len(toMain) <= MaxPipe
           /\ UNCHANGED <<toMain, pc, nextfd, track>>

(* The daemon leaves `old' for `new' and tells the player so.              *)
Switch(old, new, order) ==
    /\ pl.state = old
    /\ pl' = [pl EXCEPT !.state = new]
    /\ Send(<<Msg(order)>>)
    /\ UNCHANGED <<at, tail, from>>

Asks(what) == asked' = what /\ UNCHANGED mode

CtlPlay == /\ Command /\ Asks("play")
           /\ \/ pl.state = "stopped" /\ Resume(<<>>)
              \/ Switch("paused", "playing", "RESUME")
              \/ pl.state = "playing" /\ UNCHANGED <<pl, at, tail, from, toPlayer>>

CtlToggle == /\ Command
             /\ \/ pl.state = "stopped" /\ Resume(<<>>) /\ Asks("play")
                \/ Switch("playing", "paused", "PAUSE") /\ Asks("pause")
                \/ Switch("paused", "playing", "RESUME") /\ Asks("play")

CtlPause == /\ Command /\ Asks("pause")
            /\ Switch("playing", "paused", "PAUSE")

(* A daemon that has stopped already does not pass a STOP on.              *)
CtlStop == /\ Command /\ Asks("stop")
           /\ \/ \E s \in {"playing", "paused"} : Switch(s, "stopped", "STOP")
              \/ pl.state = "stopped" /\ UNCHANGED <<pl, at, tail, from, toPlayer>>

FaultyStay(loop) == /\ Command         (* does not stop the player *)
                    /\ at' = loop
                    /\ from' = IF pl.off = -1 THEN None ELSE SongAt(pl, pl.off)
                    /\ Asks("play")
                    /\ UNCHANGED <<pl, tail, toPlayer>>

(* NEXT and PREV stop the player, then enter their loop.                   *)
Skip(loop) == /\ Command
              /\ Send(<<Msg("STOP")>>)
              /\ at' = loop
              /\ from' = IF pl.off = -1 THEN None ELSE SongAt(pl, pl.off)
              /\ Asks("play")
              /\ UNCHANGED <<pl, tail>>

CtlNext == Skip("advance")
CtlPrev == Skip("previous")

(* main_playlist_jump(), with an argument that matches the songs in S.     *)
CtlJump(S) ==
    /\ Command /\ Asks("play")
    /\ \E i \in FirstIn(pl.songs, S) :
          LET q == PlayAt(pl, i) IN
          \/ PlaySong(q) /\ Send(<<Msg("STOP"), PlayMsg(q.cur)>>)
             /\ UNCHANGED at
          \/ SkipSong(q) /\ Send(<<Msg("STOP")>>) /\ at' = "advance"
    /\ UNCHANGED <<tail, from>>

(* main_seek(): resumes a daemon that is not playing, then sends the seek. *)
CtlSeek == /\ Command /\ Asks("play")
           /\ \/ pl.state = "stopped" /\ Resume(<<Msg("SEEK")>>)
              \/ Switch("paused", "playing", "SEEK")
              \/ Switch("playing", "playing", "SEEK")

CtlMode == /\ Command
           /\ mode' \in Modes
           /\ UNCHANGED <<pl, at, tail, from, asked, toPlayer>>

(* The commands that edit the queue leave the player alone.                *)
Edit == Command /\ UNCHANGED <<mode, at, tail, from, asked, toPlayer>>

CtlFlush == Edit /\ pl' = Truncate(pl)
CtlAdd(s) == Edit /\ Len(pl.songs) < MaxLen /\ pl' = Enqueue(pl, s)
CtlShuffle(all) == Edit /\ pl' \in Shuffles(pl, all)
CtlCommit(new, off) ==
    Edit /\ \E i \in SwapOffset(pl, new, off) : pl' = Swap(pl, new, i)

EditQueue == \/ CtlFlush
             \/ \E s \in Song : CtlAdd(s)
             \/ \E all \in BOOLEAN : CtlShuffle(all)
             \/ \E new \in Loads, off \in Positions : CtlCommit(new, off)

Client == \/ CtlPlay \/ CtlToggle \/ CtlPause \/ CtlStop \/ CtlNext \/ CtlPrev
          \/ \E s \in Song : CtlJump({s})
          \/ CtlSeek \/ CtlMode \/ EditQueue

-----------------------------------------------------------------------------
(* main_dispatch_player(), one message.  META, which only moves the        *)
(* reported position, is left out.                                         *)
Receive(t) == /\ at = "ready"
              /\ toMain # <<>>
              /\ Head(toMain).type = t
              /\ toMain' = Tail(toMain)
              /\ UNCHANGED <<mode, tail, from, asked, pc, nextfd, track>>

FaultyErr == /\ Receive("ERR")      (* does not go on with the next song *)
             /\ pl' = DropCurrent(pl)
             /\ UNCHANGED <<at, toPlayer>>

HandleErr == /\ Receive("ERR")
             /\ pl' = DropCurrent(pl)
             /\ at' = "advance"
             /\ UNCHANGED toPlayer

HandleEof ==
    /\ Receive("EOF")
    /\ \/ /\ mode.repeatOne /\ PlaySong(pl)
          /\ Send(<<PlayMsg(pl.cur)>>) /\ UNCHANGED at
       \/ /\ mode.repeatOne /\ SkipSong(pl)
          /\ at' = "advance" /\ UNCHANGED toPlayer
       \/ /\ ~mode.repeatOne
          /\ pl' = IF mode.consume THEN DropCurrent(pl) ELSE pl
          /\ at' = "advance" /\ UNCHANGED toPlayer

HandlePlayer == HandleEof \/ HandleErr

-----------------------------------------------------------------------------
PlayerStep == PlayerNext /\ UNCHANGED mainVars

Next == MainLoop \/ Client \/ HandlePlayer \/ PlayerStep

Spec == Init /\ [][Next]_vars

(* Both processes run and the pipes deliver.  The player waits in poll()   *)
(* for orders and starts what it was handed.  The event loop of the main   *)
(* process visits every ready descriptor in each round (ev_step), so that  *)
(* clients cannot keep it from the player's messages.  Nothing obliges     *)
(* clients to act, nor a track to end.                                     *)
Fairness == /\ WF_vars(MainLoop)
            /\ SF_vars(HandlePlayer)
            /\ WF_vars((DispatchIdle \/ DispatchPlaying \/ DispatchPaused \/ PlayNext)
                       /\ UNCHANGED mainVars)

FairSpec == Spec /\ Fairness

-----------------------------------------------------------------------------
TypeOK == /\ PlayerTypeOK
          /\ pl \in PlaylistType
          /\ mode \in ModeType
          /\ at \in {"ready", "advance", "previous"}
          /\ tail \in {<<>>, <<Msg("SEEK")>>}
          /\ from \in Song \cup {None}
          /\ asked \in {"play", "pause", "stop"}

(* The current offset is a position of the queue or -1: playlist_advance,  *)
(* playlist_previous and playlist_dropcurrent read and write songs[] at it *)
(* unchecked.                                                              *)
OffInRange == pl.off \in Offsets(pl) \cup {-1}

(* What SHUFFLE does here, in one step, is what the loop of                *)
(* playlist_shuffle() can do to the queue: all cyclic permutations of the  *)
(* songs that are not pinned, no other order, and the current song stays   *)
(* at the offset the queue keeps.                                          *)
LoopMatches == \A all \in BOOLEAN : Produced(pl, all) = Shuffles(pl, all)

(* Between two events, a daemon that plays or is paused knows which song.  *)
(* The handlers of ERR and EOF pass current_song on without a check.       *)
ActiveHasSong == at = "ready" /\ pl.state # "stopped" => pl.cur # None

(* Nothing is under way: the pipes are empty, both processes wait.         *)
Quiet == /\ at = "ready" /\ pc # "starting"
         /\ toPlayer = <<>> /\ toMain = <<>>

(* Once all messages are delivered, a daemon that reports "playing" (or    *)
(* "paused") has a player that plays (or has paused) the very song it      *)
(* reports. Orders that cross an EOF or an ERR are ignored by the idle     *)
(* player, or stop a track it was never meant to stop: none of it leaves   *)
(* the two apart. It says nothing of a daemon that reports "stopped": see  *)
(* StoppedIsIdle in module Monitor.                                        *)
Agreement == Quiet => /\ pl.state = "playing" => pc = "playing" /\ track = pl.cur
                      /\ pl.state = "paused" => pc = "paused" /\ track = pl.cur

(* The orders that the player has yet to obey leave it idle: a STOP, or    *)
(* its being idle, is not followed by a PLAY.                              *)
LeftIdle == \E k \in 0 .. Len(toPlayer) :
    /\ IF k = 0 THEN pc = "idle" ELSE toPlayer[k].type = "STOP"
    /\ \A j \in k + 1 .. Len(toPlayer) : toPlayer[j].type # "PLAY"

(* NEXT plays the song that follows the current one, or comes first after  *)
(* the last one, skipping only songs that it removes because they cannot   *)
(* be opened: in the queue it leaves, the song now playing comes right     *)
(* after the one that was current.                                         *)
Predecessor(q, i) == IF i = 0 THEN Len(q.songs) - 1 ELSE i - 1

Plays(loop) == at = loop /\ from # None /\ at' = "ready" /\ pl'.state = "playing"

NextIsAdjacent ==
    [][Plays("advance") => SongAt(pl', Predecessor(pl', pl'.off)) = from]_vars

(* The queue position belongs to the current song, as `show -p' and        *)
(* playlist_dropcurrent() assume.                                          *)
PositionIsCurrent ==
    at = "ready" /\ pl.off # -1 => SongAt(pl, pl.off) = pl.cur

(* STOP and PAUSE last until a client asks for something else: "Stop the   *)
(* playback", "Pause the playback" (amused.1).                             *)
StopLasts == at = "ready" /\ asked \in {"stop", "pause"} => pl.state # "playing"

(* A daemon that says it is playing gets its player to play, or changes    *)
(* its mind: it never waits forever for an EOF nobody will send.           *)
PlayingIsPlayed == pl.state = "playing" ~> pc = "playing" \/ pl.state # "playing"

(* A search for a playable file ends.                                      *)
LoopEnds == at # "ready" ~> at = "ready"
=============================================================================
