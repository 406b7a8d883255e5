------------------------------- MODULE MCViews ------------------------------
(***************************************************************************)
(* Instances of WebView and MprisView for TLC: one of the two programs is  *)
(* connected to the daemon.                                                *)
(***************************************************************************)
EXTENDS WebView, MprisView

CONSTANTS a, b

VARIABLE who            (* the program that is connected *)

viewVars == <<notifierVars, webVars, mprisVars, who>>

MCQueue == {[songs |-> <<>>, off |-> -1], [songs |-> <<a>>, off |-> -1],
            [songs |-> <<a, b>>, off |-> -1], [songs |-> <<b, a>>, off |-> 1]}
MCPlayback == {[state |-> "stopped", song |-> None],
               [state |-> "stopped", song |-> a], [state |-> "paused", song |-> a],
               [state |-> "playing", song |-> a]}
MCMode == {{}, {"repeat"}}

Web == who = "web" /\ WebNext /\ UNCHANGED <<mprisVars, who>>
Mpris == who = "mpris2" /\ MprisNext /\ UNCHANGED <<webVars, who>>

ViewsInit == /\ who \in {"web", "mpris2"}
             /\ NotifierInit(IF who = "web" THEN Greeting ELSE Subscription)
             /\ playback.state = "stopped" /\ mode = {} /\ position = 0
             /\ WebInit /\ MprisInit

ViewsSpec == ViewsInit /\ [][Web \/ Mpris]_viewVars

(* Each program is held to what it promises: the web interface has a copy  *)
(* of the queue and of the playback, the bridge the status, as they were   *)
(* after the last event that told of a change.                             *)
WebCopyIsRecent == who = "web" => WebTypeOK /\ CopyIsRecent /\ ShownIsRecent
MprisStatusIsRecent == who = "mpris2" => MprisTypeOK /\ StatusIsRecent
=============================================================================
