------------------------------ MODULE Monitor -------------------------------
(***************************************************************************)
(* What a client of `amused monitor' can know of the playback: the daemon  *)
(* of module Amused together with the events that control_notify() sends.  *)
(* Some commands send theirs before they act, others once the search for a *)
(* playable file is over. And when it is told "stopped", whether the       *)
(* player may play on.                                                     *)
(***************************************************************************)
EXTENDS Amused

VARIABLES
    told,   (* the state that the last event about playback announced       *)
    owed,   (* the event the handler sends when its loop ends, see Owed     *)
    adrift  (* history: the player was to play on when the daemon last took *)
            (* a report, and it was sent no STOP since                      *)

monitorVars == <<vars, told, owed, adrift>>

(* "outcome" is the NEXT or STOP that follows an ERR or EOF.               *)
Owed == {"nothing", "play", "outcome"}

MonitorInit == Init /\ told = "stopped" /\ owed = "nothing" /\ adrift = FALSE

Outcome == IF pl'.state = "playing" THEN "playing" ELSE "stopped"
Now(event) == told' = event /\ owed' = "nothing"
Silently == UNCHANGED <<told, owed>>

(* The event comes after the handler, now or when its loop is over.        *)
AtTheEnd(event, what) ==
    IF at' = "ready" THEN Now(event) ELSE owed' = what /\ UNCHANGED told

(* The end of a loop pays what is owed.                                    *)
Loop == /\ MainLoop
        /\ IF at' # "ready" THEN Silently
           ELSE Now(CASE owed = "play"    -> "playing"
                      [] owed = "outcome" -> Outcome
                      [] OTHER            -> told)

(* PLAY is announced whatever comes of it, and even when already playing.  *)
Play == CtlPlay /\ AtTheEnd("playing", "play")

(* A definition that follows one named Faulty... is what the code does;    *)
(* the faulty one is the bug that a run is shown to notice.                *)
FaultyMove == (CtlNext \/ CtlPrev \/ \E s \in Song : CtlJump({s})) /\ Silently
FaultyPause == CtlPause /\ Silently

(* TOGGLE, NEXT, PREV and JUMP are announced first.                        *)
Toggle == CtlToggle /\ Now(IF pl.state = "playing" THEN "paused" ELSE "playing")
Move == (CtlNext \/ CtlPrev \/ \E s \in Song : CtlJump({s})) /\ Now("playing")

Pause == CtlPause /\ Now("paused")
Stop == CtlStop /\ IF pl.state = "stopped" THEN Silently ELSE Now("stopped")

(* A SEEK is not announced as such, MODE and the edits say nothing about   *)
(* playback.                                                               *)
Other == (CtlSeek \/ CtlMode \/ EditQueue) /\ Silently

(* A track played again in repeat_one mode is not announced.               *)
Err == HandleErr /\ AtTheEnd(Outcome, "outcome")
Eof == /\ HandleEof
       /\ IF at' = "ready" THEN Silently ELSE owed' = "outcome" /\ UNCHANGED told

Observed == Loop \/ Play \/ Toggle \/ Pause \/ Other \/ (PlayerStep /\ Silently)

MonitorNext == \/ Observed /\ UNCHANGED adrift
               \/ Move /\ adrift' = FALSE
               \/ Stop /\ adrift' = (adrift /\ pl.state = "stopped")
               \/ (Err \/ Eof) /\ adrift' = ~LeftIdle

MonitorSpec == MonitorInit /\ [][MonitorNext]_monitorVars

-----------------------------------------------------------------------------
(* A paused daemon has said so, and nothing it said since takes it back.   *)
PausedIsTold == at = "ready" /\ pl.state = "paused" => told = "paused"

(* When the daemon has stopped and all messages are delivered the player   *)
(* is silent, whether a client stopped it, the queue ended or no song of   *)
(* it could be opened, with one exception: an EOF or ERR of a track that   *)
(* the daemon had left already ended its queue. The daemon takes it for    *)
(* the end of the track that the player was told to play since, and which  *)
(* nobody stops then.                                                      *)
StoppedIsIdle == Quiet /\ pl.state = "stopped" /\ ~adrift => pc = "idle"

(* A monitor can rely on being told that playback starts, by whatever     *)
(* handler and however late its search ends, but for two cases: a SEEK,    *)
(* and a track played again in repeat_one mode whose end crosses a PAUSE   *)
(* or a STOP.                                                              *)
StartIsTold ==
    [][at' = "ready" /\ pl'.state = "playing" /\ pl.state # "playing"
          => \/ told' = "playing"
             \/ CtlSeek \/ tail # <<>>
             \/ HandleEof /\ mode.repeatOne]_monitorVars
=============================================================================
