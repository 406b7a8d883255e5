------------------------------ MODULE Notifier ------------------------------
(***************************************************************************)
(* The daemon as a program sees it that keeps a connection open to follow  *)
(* it: the web interface and the mpris2 bridge.  It answers SHOW and       *)
(* STATUS, and tells what other clients, or the end of a track, have       *)
(* changed (control_notify() in control.c and its callers).  The queue and *)
(* the playback change in any way here: module Amused says in which.       *)
(***************************************************************************)
EXTENDS Integers, Sequences, FiniteSets

CONSTANTS
    Song, None,
    Queue,          (* the queues considered: [songs, off]                  *)
    Playback,       (* what is played: [state, song]                        *)
    Mode,           (* the modes: repeat and consume                        *)
    Position,       (* positions in a track, in seconds                     *)
    MaxChanges,     (* bound on the changes                                 *)
    MaxRequests     (* bound on the messages under way when a command is sent *)

ASSUME NotifierAssumption ==
    /\ None \notin Song
    /\ Queue \subseteq [songs : Seq(Song), off : Int]
    /\ \A q \in Queue : q.off \in -1 .. Len(q.songs) - 1
    /\ Playback \subseteq [state : {"stopped", "playing", "paused"},
                           song : Song \cup {None}]
    /\ Position \subseteq Nat
    /\ {MaxChanges, MaxRequests} \subseteq Nat

VARIABLES
    queue,          (* the daemon's                                         *)
    playback,
    mode,
    position,
    toDaemon,       (* requests under way                                   *)
    batch,          (* requests of one read that are still to be handled    *)
    monitor,        (* the connection asked for events                      *)
    toClient,       (* replies and events under way                         *)
    changes,        (* how many changes there have been                     *)
    queueSince,     (* history: the queue since it was told to have changed *)
    playSince       (* history: the playback, likewise                      *)

wireVars == <<toDaemon, batch, monitor, toClient>>
stateVars == <<queue, playback, mode, position>>
historyVars == <<changes, queueSince, playSince>>
notifierVars == <<wireVars, stateVars, historyVars>>

Event == {"add", "jump", "commit", "mode", "next", "pause", "play", "prev", "seek", "stop"}

(* The events that say the queue has changed, and those that say that      *)
(* another track is played, or none.                                       *)
Reloading == {"next", "prev", "jump", "commit"}
Restating == {"play", "pause", "stop", "next", "prev", "jump"}

(* The program has connected and sent its first requests.                  *)
NotifierInit(requests) ==
    /\ queue \in Queue /\ playback \in Playback
    /\ mode \in Mode /\ position \in Position
    /\ toDaemon = requests /\ batch = 0 /\ monitor = FALSE /\ toClient = <<>>
    /\ changes = 0 /\ queueSince = {} /\ playSince = {}

-----------------------------------------------------------------------------
(* main_send_playlist(): one message for each song, and an empty one.      *)
ShowReply ==
    [i \in 1 .. Len(queue.songs) |->
        [type |-> "show", song |-> queue.songs[i], playing |-> queue.off = i - 1]]
    \o <<[type |-> "shown"]>>

StatusOf(p, m, at) == [type |-> "status", playback |-> p, mode |-> m, position |-> at]

(* control_notify(): the event has the position and the modes of the       *)
(* moment it is composed.                                                  *)
Notice(e, m) == [type |-> "event", event |-> e, mode |-> m, position |-> position]
Told(e, m) == IF monitor THEN <<Notice(e, m)>> ELSE <<>>

(* Reset to what is there after the handler that told of the change.       *)
Remember(e) ==
    /\ queueSince' = (IF e \in Reloading \/ ~monitor THEN {} ELSE queueSince) \cup {queue'}
    /\ playSince'  = (IF e \in Restating \/ ~monitor THEN {} ELSE playSince) \cup {playback'}

(* A handler tells e, if anything, and sends replies to the client it is   *)
(* for.                                                                    *)
Handled(e, m, replies) ==
    /\ changes < MaxChanges /\ changes' = changes + 1
    /\ toClient' = toClient \o (IF e = "nothing" THEN <<>> ELSE Told(e, m)) \o replies
    /\ Remember(e)

Change(e, replies) == Handled(e, mode', replies) /\ UNCHANGED <<position, monitor>>

AtOff(q) == IF q.off = -1 THEN None ELSE q.songs[q.off + 1]

(* Another track is played, from its place in the queue, or none was found *)
(* and the queue has no place any more.                                    *)
Sought == /\ queue' \in Queue
          /\ playback' \in IF queue'.off = -1
                            THEN {p \in Playback : p.state = "stopped"}
                            ELSE {[state |-> "playing", song |-> AtOff(queue')]}

(* load, flush and shuffle; a stopped daemon takes its song from the new   *)
(* queue.                                                                  *)
Edit == /\ queue' \in Queue
        /\ playback' = IF playback.state = "stopped"
                       THEN [state |-> "stopped", song |-> AtOff(queue')] ELSE playback
        /\ UNCHANGED mode
        /\ Change("commit", <<>>)

AddSong == /\ queue' \in Queue /\ queue'.off = queue.off
           /\ \E s \in Song : queue'.songs = Append(queue.songs, s)
           /\ UNCHANGED <<playback, mode>>
           /\ Change("add", <<>>)

Move(e, replies) == /\ Sought
                    /\ UNCHANGED mode
                    /\ Change(e, replies)

Moves == \E e \in {"next", "prev"} : Move(e, <<>>)
Jump(replies) == Move("jump", replies)

(* PLAY, TOGGLE and SEEK start from the queue when stopped; a SEEK is not  *)
(* told.                                                                   *)
Start(e) == /\ \/ /\ playback.state = "stopped"
                  /\ Sought
               \/ /\ playback.state = "paused"
                  /\ playback' = [playback EXCEPT !.state = "playing"]
                  /\ UNCHANGED queue
            /\ UNCHANGED mode
            /\ Change(e, <<>>)

Starts == \E e \in {"play", "nothing"} : Start(e)

PauseOrStop == \E e \in {"pause", "stop"} :
    /\ e = "pause" => playback.state = "playing"
    /\ playback.state # "stopped"
    /\ playback' = [playback EXCEPT !.state = IF e = "pause" THEN "paused" ELSE "stopped"]
    /\ UNCHANGED <<queue, mode>>
    /\ Change(e, <<>>)

SetMode == /\ mode' \in Mode
           /\ UNCHANGED <<queue, playback>>
           /\ Change("mode", <<>>)

(* IMSG_EOF and IMSG_ERR: what is told depends on what comes next.         *)
TrackEnds == /\ playback.state = "playing"
             /\ Sought
             /\ UNCHANGED mode
             /\ Change(IF playback'.state = "playing" THEN "next" ELSE "stop", <<>>)

(* IMSG_META: told before current_status is updated.                       *)
Meta == /\ position' \in Position \ {position}
        /\ UNCHANGED <<queue, playback, mode, monitor>>
        /\ Handled("seek", mode, <<>>)

(* Commands of other clients and messages of the player.                   *)
Elsewhere == /\ batch = 0
             /\ \/ Edit \/ AddSong \/ Moves \/ Jump(<<>>) \/ Starts \/ PauseOrStop
                \/ SetMode \/ TrackEnds \/ Meta
             /\ UNCHANGED <<toDaemon, batch>>

(* control_dispatch_imsg() handles all that it has read before it returns. *)
Dispatch == /\ batch = 0 /\ toDaemon # <<>>
            /\ batch' = Len(toDaemon)
            /\ UNCHANGED <<toDaemon, monitor, toClient, stateVars, historyVars>>

Reply(messages) == /\ toClient' = toClient \o messages
                   /\ UNCHANGED <<monitor, stateVars, historyVars>>

StartMonitor == /\ monitor' = TRUE
                /\ queueSince' = {queue} /\ playSince' = {playback}
                /\ UNCHANGED <<toClient, stateVars, changes>>

Serve == /\ batch > 0
         /\ batch' = batch - 1 /\ toDaemon' = Tail(toDaemon)
         /\ LET request == Head(toDaemon) IN
            \/ request = "show" /\ Reply(ShowReply)
            \/ request = "status" /\ Reply(<<StatusOf(playback, mode, position)>>)
            \/ request = "monitor" /\ StartMonitor
            \/ request = "jump" /\ \/ Jump(<<StatusOf(playback', mode, position)>>)
                                   \/ Jump(<<[type |-> "err"]>>)
                                   \/ Reply(<<[type |-> "err"]>>)
            \/ request = "skip" /\ Moves
            \/ request = "start" /\ (Starts \/ Reply(<<>>))
            \/ request = "pause" /\ (PauseOrStop \/ Reply(<<>>))
            \/ request = "mode" /\ SetMode

DaemonNext == Elsewhere \/ Dispatch \/ Serve

(* All that was asked has been answered, and all answers have been read.   *)
Settled == monitor /\ toDaemon = <<>> /\ toClient = <<>>
=============================================================================
