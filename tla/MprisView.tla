----------------------------- MODULE MprisView ------------------------------
(***************************************************************************)
(* What the mpris2 bridge knows of the daemon (imsg_dispatch() in          *)
(* mpris2/mpris2.c).  It answers every property read on the bus from that; *)
(* the signals by which it tells the bus of a change are left out.         *)
(***************************************************************************)
EXTENDS Notifier

VARIABLE status     (* the last STATUS, with what events changed of it since *)

mprisVars == <<status>>

(* on_bus_acquired().                                                      *)
Subscription == <<"status", "monitor">>

MprisInit ==
    status = [playback |-> [state |-> "stopped", song |-> None], mode |-> {}, position |-> 0]

Requests(e) == IF e \in {"play", "pause", "stop", "next", "prev", "jump"}
               THEN <<"status">> ELSE <<>>

-----------------------------------------------------------------------------
(* A definition that follows one named Faulty... is what the code does;    *)
(* the faulty one is the bug that a run is shown to notice.                *)
FaultyMpModeEvent(m) ==         (* tells the bus and forgets to remember *)
    /\ m.type = "event" /\ m.event = "mode"
    /\ UNCHANGED <<mprisVars, toDaemon>>

(* The event "mode" brings the modes.                                      *)
MpModeEvent(m) == /\ m.type = "event" /\ m.event = "mode"
                  /\ status' = [status EXCEPT !.mode = m.mode]
                  /\ UNCHANGED toDaemon

MpSeekEvent(m) == /\ m.type = "event" /\ m.event = "seek"
                  /\ status' = [status EXCEPT !.position = m.position]
                  /\ UNCHANGED toDaemon

MpEvent(m) == /\ m.type = "event" /\ m.event \notin {"mode", "seek"}
              /\ toDaemon' = toDaemon \o Requests(m.event)
              /\ UNCHANGED mprisVars

MpStatus(m) ==
    /\ m.type = "status"
    /\ status' = [playback |-> m.playback, mode |-> m.mode, position |-> m.position]
    /\ UNCHANGED toDaemon

MpErr(m) == m.type = "err" /\ UNCHANGED <<mprisVars, toDaemon>>

MpReceive == /\ toClient # <<>>
             /\ toClient' = Tail(toClient)
             /\ LET m == Head(toClient) IN
                MpModeEvent(m) \/ MpSeekEvent(m) \/ MpEvent(m) \/ MpStatus(m) \/ MpErr(m)
             /\ UNCHANGED <<batch, monitor, stateVars, historyVars>>

(* Next, Previous, Play, PlayPause, Pause, SetPosition and LoopStatus.     *)
BusCommand == /\ Len(toDaemon) + Len(toClient) < MaxRequests
              /\ \E r \in {"skip", "start", "pause", "mode"} :
                    toDaemon' = Append(toDaemon, r)
              /\ UNCHANGED <<batch, monitor, toClient, stateVars, historyVars, mprisVars>>

MprisNext == MpReceive \/ BusCommand \/ (DaemonNext /\ UNCHANGED mprisVars)

-----------------------------------------------------------------------------
MprisTypeOK ==
    status.playback.song \in Song \cup {None} /\ status.position \in Nat

(* When all has been answered the bridge knows the modes exactly, although *)
(* events change them between a request for a STATUS and its answer, and   *)
(* the playback as it was after the last event about it.                   *)
StatusIsRecent == Settled => status.mode = mode /\ status.playback \in playSince
=============================================================================
