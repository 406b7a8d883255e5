------------------------------- MODULE Player -------------------------------
(***************************************************************************)
(* The player process of player.c: it decodes one track at a time and      *)
(* takes orders from a pipe.  The other end of the two pipes is left open: *)
(* module Amused composes this process with the daemon, module PlayerAlone *)
(* with a peer that may send any message at any time.                      *)
(*                                                                         *)
(* A file descriptor is named by the song it was opened on.  The `song' of *)
(* an EOF or ERR message is a history variable: the code sends no such     *)
(* thing, and no action reads it.                                          *)
(***************************************************************************)
EXTENDS Songs, Sequences, Naturals

VARIABLES
    toPlayer,   (* messages from the daemon, oldest first: socket + imsgbuf *)
    toMain,     (* messages to the daemon                                   *)
    pc,         (* where the process is, see PlayerPlace                    *)
    nextfd,     (* the track handed over by the last PLAY, not yet started  *)
    track       (* the track being decoded                                  *)

playerVars == <<toPlayer, toMain, pc, nextfd, track>>

(* "idle": waiting in the loop of player() with nextfd = -1; "starting":   *)
(* about to call player_playnext(); "playing": in a decoder, between two   *)
(* calls to player_dispatch(); "paused": blocked in player_pause();        *)
(* "fatal": left through fatalx() or assert().                             *)
PlayerPlace == {"idle", "starting", "playing", "paused", "fatal"}

Order == {"PLAY", "RESUME", "PAUSE", "STOP", "SEEK"}
Msg(t) == [type |-> t, song |-> None]
PlayMsg(s) == [type |-> "PLAY", song |-> s]

OrderMsg == [type : Order \ {"PLAY"}, song : {None}] \cup [type : {"PLAY"}, song : Song]
Report == [type : {"EOF", "ERR"}, song : Song]

PlayerInit == /\ toPlayer = <<>>
              /\ toMain = <<>>
              /\ pc = "idle"
              /\ nextfd = None
              /\ track = None

-----------------------------------------------------------------------------
(* A definition that follows one named Faulty... is what the code does;    *)
(* the faulty one is the bug that a run is shown to notice.                *)
FaultyReturned(m) == m.type    (* a PLAY does not stop the current track *)

(* player_dispatch(): what it returns for a message, and what it does to   *)
(* nextfd.  A PLAY is reported to the caller as a STOP.                    *)
Returned(m) == IF m.type = "PLAY" THEN "STOP" ELSE m.type

AlreadyEnqueued(m) == m.type = "PLAY" /\ nextfd # None

FdAfter(m) == IF m.type = "PLAY" THEN m.song ELSE nextfd

FaultyBackToLoop(fd) == "idle"    (* forgets the enqueued track *)

(* Leaving a decoder because play() returned 0: nothing is reported, and   *)
(* the loop of player() goes on with the track that is enqueued, if any.   *)
BackToLoop(fd) == IF fd = None THEN "idle" ELSE "starting"

(* One call of player_dispatch() that finds a message, made at `place'; go *)
(* is where the process is afterwards.                                     *)
Dispatch(place, go(_)) ==
    /\ pc = place
    /\ toPlayer # <<>>
    /\ toPlayer' = Tail(toPlayer)
    /\ LET m == Head(toPlayer) IN
       IF AlreadyEnqueued(m)
       THEN pc' = "fatal" /\ UNCHANGED <<nextfd, track>>
       ELSE /\ nextfd' = FdAfter(m)
            /\ pc' = go(m)
            /\ track' = IF pc' \in {"playing", "paused"} THEN track ELSE None
    /\ UNCHANGED toMain

(* while (nextfd == -1) player_dispatch(NULL, 1): what is returned is      *)
(* ignored, so every order but PLAY is lost here.                          *)
AfterIdle(m) == BackToLoop(FdAfter(m))
DispatchIdle == Dispatch("idle", AfterIdle)

(* player_shouldstop(), called by play() for every piece of sound.  A SEEK *)
(* moves within the track, a RESUME does nothing.                          *)
AfterPlaying(m) ==
    CASE Returned(m) = "PAUSE" -> "paused"
      [] Returned(m) = "STOP"  -> BackToLoop(FdAfter(m))
      [] OTHER                 -> "playing"
DispatchPlaying == Dispatch("playing", AfterPlaying)

FaultyPaused(m) ==      (* a SEEK does not end the pause *)
    IF Returned(m) = "RESUME" THEN "playing" ELSE BackToLoop(FdAfter(m))

(* player_pause(): RESUME and SEEK end the pause, anything else the track. *)
AfterPaused(m) ==
    IF Returned(m) \in {"RESUME", "SEEK"} THEN "playing" ELSE BackToLoop(FdAfter(m))
DispatchPaused == Dispatch("paused", AfterPaused)

(* player_playnext(): takes nextfd.                                        *)
PlayNext ==
    /\ pc = "starting"
    /\ IF nextfd = None
       THEN pc' = "fatal" /\ UNCHANGED <<nextfd, track>>
       ELSE pc' = "playing" /\ track' = nextfd /\ nextfd' = None
    /\ UNCHANGED <<toPlayer, toMain>>

(* The decoder is done with the track: it reached the end or a seek went   *)
(* past it (EOF), or it could not read or recognise the file (ERR).        *)
Finish(t) ==
    /\ pc = "playing"
    /\ toMain' = Append(toMain, [type |-> t, song |-> track])
    /\ pc' = "idle"
    /\ track' = None
    /\ UNCHANGED <<toPlayer, nextfd>>

EndOfTrack == Finish("EOF")
DecodeError == Finish("ERR")

PlayerNext == \/ DispatchIdle \/ DispatchPlaying \/ DispatchPaused
              \/ PlayNext \/ EndOfTrack \/ DecodeError

-----------------------------------------------------------------------------
PlayerTypeOK ==
    /\ toPlayer \in Seq(OrderMsg)
    /\ toMain \in Seq(Report)
    /\ pc \in PlayerPlace
    /\ nextfd \in Song \cup {None}
    /\ track \in Song \cup {None}

(* fatalx("track already enqueued") and assert(nextfd != -1) are never     *)
(* reached, whatever the daemon sends and when: the process only reads an  *)
(* order at points where no track is waiting to be started.                *)
NeverFatal == pc # "fatal"

(* What makes NeverFatal inductive: a track is enqueued exactly while the  *)
(* process is on its way to start it, and one is decoded exactly in a      *)
(* decoder.                                                                *)
PlayerInv ==
    /\ NeverFatal
    /\ (nextfd # None) <=> (pc = "starting")
    /\ (track # None) <=> (pc \in {"playing", "paused"})
=============================================================================
