------------------------------ MODULE WebView -------------------------------
(***************************************************************************)
(* The copy of the queue that the web interface keeps (imsg_dispatch() in  *)
(* web/web.c) and the page of a browser that follows it over a websocket   *)
(* (the script in web/web.c).                                              *)
(***************************************************************************)
EXTENDS Notifier, SequencesExt

VARIABLES
    tmp,        (* playlist_tmp: the songs of a reply that is not complete  *)
    off,        (* its position as far as it is known                       *)
    offFound,
    copy,       (* playlist and play_off                                    *)
    shown,      (* player_status                                            *)
    page,       (* the list in the browser: <<song, current>>               *)
    socket,     (* its websocket: "none", "loaded" (the page only), "open"  *)
    missed      (* history: the list in the page lacks the start of a reply *)

copyVars == <<tmp, off, offFound, copy, shown>>
pageVars == <<page, socket, missed>>
webVars == <<copyVars, pageVars>>

NoStatus == [playback |-> [state |-> "stopped", song |-> None], mode |-> {}]

(* main() asks for everything at once.                                     *)
Greeting == <<"show", "status", "monitor">>

WebInit ==
    /\ tmp = <<>> /\ off = 0 /\ offFound = FALSE
    /\ copy = [songs |-> <<>>, off |-> -1]
    /\ shown = NoStatus
    /\ page = <<>> /\ socket = "none" /\ missed = FALSE

-----------------------------------------------------------------------------
(* dispatch_event() reaches the websockets that are open; clear is the     *)
(* "x:" that empties the list, rows what "A:" and "a:" add to it.          *)
Broadcast(clear, rows) ==
    /\ page' = IF socket = "open" THEN (IF clear THEN <<>> ELSE page) \o rows ELSE page
    /\ missed' = (socket # "open" \/ (missed /\ ~clear))
    /\ UNCHANGED socket

NoBroadcast == UNCHANGED pageVars

Ask(requests) == toDaemon' = toDaemon \o requests

(* A definition that follows one named Faulty... is what the code does;    *)
(* the faulty one is the bug that a run is shown to notice.                *)
FaultyAnswer(e) ==      (* reloads the queue only when it was replaced *)
    CASE e = "commit" -> <<"show", "status">>
      [] e \in {"next", "prev", "jump", "play", "pause", "stop", "mode"} -> <<"status">>
      [] OTHER -> <<>>

(* What is asked for when an event arrives: an "add" is ignored.           *)
Answer(e) ==
    CASE e \in {"next", "prev", "jump", "commit"} -> <<"show", "status">>
      [] e \in {"play", "pause", "stop", "mode"}  -> <<"status">>
      [] OTHER                                    -> <<>>

(* An event "seek" only moves the position in the browser.                 *)
GetEvent(m) == /\ m.type = "event"
               /\ Ask(Answer(m.event))
               /\ UNCHANGED copyVars /\ NoBroadcast

GetStatus(m) == /\ m.type = "status"
                /\ shown' = [playback |-> m.playback, mode |-> m.mode]
                /\ UNCHANGED <<tmp, off, offFound, copy, toDaemon>> /\ NoBroadcast

GetErr(m) == m.type = "err" /\ UNCHANGED <<copyVars, toDaemon>> /\ NoBroadcast

GetShow(m) == /\ m.type = "show"
              /\ Broadcast(tmp = <<>>, <<<<m.song, m.playing>>>>)
              /\ tmp' = Append(tmp, m.song)
              /\ offFound' = (offFound \/ m.playing)
              /\ off' = IF offFound' THEN off ELSE off + 1
              /\ UNCHANGED <<copy, shown, toDaemon>>

(* playlist_swap(), where nothing is played in this process.               *)
Swap(songs, o) == [songs |-> songs, off |-> IF o < Len(songs) THEN o ELSE -1]

FaultyShown(m) ==       (* the position of the last list is kept *)
    /\ m.type = "shown"
    /\ IF tmp = <<>> THEN Broadcast(TRUE, <<>>) ELSE NoBroadcast
    /\ copy' = Swap(tmp, off)
    /\ tmp' = <<>> /\ offFound' = FALSE
    /\ UNCHANGED <<off, shown, toDaemon>>

(* The empty message: the new list takes the place of the old.             *)
GetShown(m) == /\ m.type = "shown"
               /\ IF tmp = <<>> THEN Broadcast(TRUE, <<>>) ELSE NoBroadcast
               /\ copy' = Swap(tmp, IF tmp = <<>> THEN -1 ELSE off)
               /\ tmp' = <<>> /\ off' = 0 /\ offFound' = FALSE
               /\ UNCHANGED <<shown, toDaemon>>

Receive == /\ toClient # <<>>
           /\ toClient' = Tail(toClient)
           /\ LET m == Head(toClient) IN
              GetEvent(m) \/ GetStatus(m) \/ GetErr(m) \/ GetShow(m) \/ GetShown(m)
           /\ UNCHANGED <<batch, monitor, stateVars, historyVars>>

-----------------------------------------------------------------------------
(* The browser loads the page (render_playlist()), then runs its script,   *)
(* which opens the websocket.                                              *)
Rows == [i \in 1 .. Len(copy.songs) |-> <<copy.songs[i], copy.off = i - 1>>]

Load == /\ socket = "none"
        /\ page' = Rows /\ socket' = "loaded" /\ missed' = (tmp # <<>>)
        /\ UNCHANGED <<copyVars, notifierVars>>

OpenSocket == /\ socket = "loaded" /\ socket' = "open"
              /\ UNCHANGED <<page, missed, copyVars, notifierVars>>

(* Its forms: route_jump(), route_controls(), route_mode().                *)
Command == /\ socket # "none"
           /\ Len(toDaemon) + Len(toClient) < MaxRequests
           /\ \E r \in {"jump", "skip", "start", "pause", "mode"} : Ask(<<r>>)
           /\ UNCHANGED <<batch, monitor, toClient, stateVars, historyVars, webVars>>

WebNext == Receive \/ Load \/ OpenSocket \/ Command \/ (DaemonNext /\ UNCHANGED webVars)

-----------------------------------------------------------------------------
WebTypeOK ==
    /\ tmp \in Seq(Song) /\ off \in Nat /\ offFound \in BOOLEAN
    /\ copy.songs \in Seq(Song) /\ copy.off \in -1 .. Len(copy.songs) - 1
    /\ page \in Seq(Song \X BOOLEAN)
    /\ socket \in {"none", "loaded", "open"} /\ missed \in BOOLEAN

(* When all has been answered the copy is the queue as it was at some time *)
(* after the last event that announced a change of it: no reply is mixed   *)
(* with another, and none that is older is left in place.                  *)
CopyIsRecent == Settled => copy \in queueSince

(* So is what is shown of the playback, and the modes are the daemon's.    *)
ShownIsRecent == Settled => shown.playback \in playSince /\ shown.mode = mode

(* A browser that has not missed the beginning of a list shows the copy.   *)
PageIsCopy == socket # "none" /\ tmp = <<>> /\ ~missed => page = Rows
=============================================================================
