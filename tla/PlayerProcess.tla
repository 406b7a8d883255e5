---------------------------- MODULE PlayerProcess ---------------------------
(***************************************************************************)
(* The player process at the grain of its system calls: play() waiting for *)
(* the daemon's pipe and for the audio thread at once, the decoding loops, *)
(* the signals that stop it, and the end of the daemon, which waits for    *)
(* the player to exit (main_shutdown() in amused.c).  Module Player is     *)
(* what the daemon relies on of all this; Refinement says that it may.     *)
(***************************************************************************)
EXTENDS AudioThread, Decoders, Songs, Naturals, Sequences

CONSTANTS OpusFormat,   (* 16 bits, 48 kHz, two channels                    *)
          MaxOrders,    (* bound on the orders the daemon sends             *)
          MaxWire,      (* what the socket holds in either direction        *)
          MaxSignals    (* bound on the signals that arrive                 *)

ASSUME OpusAssumption == OpusFormat \in Format
ASSUME BoundsAssumption == {MaxOrders, MaxWire, MaxSignals} \subseteq Nat

VARIABLES
    wire,       (* orders in the socket                                     *)
    rbufs,      (* orders read from it and not yet dispatched               *)
    toMain,     (* EOF and ERR messages to the daemon: socket and imsgbuf   *)
    open,       (* the daemon has its end of the pipe open                  *)
    alive,      (* the process has not exited                               *)
    pc,         (* where it is, see Place                                   *)
    halted,     (* the flag set by player_signal_handler()                  *)
    nextfd,     (* as in Player                                             *)
    track,      (* the track in a decoder, its kind, the format of its data *)
                (* (NoFormat until some are read) and the one set up for it *)
    left,       (* chunks of the buffer that play() has still to write      *)
    seek,       (* an order to seek that the decoder has not seen yet       *)
    within,     (* play() was called from within a seek                     *)
    main,       (* the daemon: "running", "waiting" for the player, "exited" *)
    orders,     (* how many orders it has sent                              *)
    signals     (* how many signals there have been                         *)

pipeVars == <<wire, rbufs, open>>
trackVars == <<track, left, seek, within>>
mainVars == <<main, orders, signals>>
vars == <<audioVars, pipeVars, toMain, alive, pc, halted, nextfd, trackVars, mainVars>>

(* "loop": at while (!halted); "idle": calling player_dispatch() without a *)
(* track; "open", "decode": in a decoder; "poll", "write", "fill",         *)
(* "status": in play(); "dispatch", "peek": in player_dispatch() for it,   *)
(* which may wait or not; "paused": in player_pause().  "idleBlock" and    *)
(* "pausedBlock" are the poll() of player_dispatch(); "aborted" is a flac  *)
(* seek told to stop, "fatal" the end by "track already enqueued".         *)
Place == {"loop", "idle", "idleBlock", "open", "decode", "poll", "peek", "dispatch",
          "write", "fill", "status", "paused", "pausedBlock", "aborted", "fatal"}

TrackType == [song : Song \cup {None}, kind : Kind \cup {"unknown", "none"},
              format : Format \cup {NoFormat}, told : Format \cup {NoFormat}]
NoTrack == [song |-> None, kind |-> "none", format |-> NoFormat, told |-> NoFormat]

AtLoop == {"loop", "idle", "idleBlock", "aborted"}
AtPause == {"paused", "pausedBlock"}

(* What module Player sees: one queue of orders, and coarser places.       *)
Seen == CASE pc \in AtLoop  -> IF nextfd = None THEN "idle" ELSE "starting"
          [] pc \in AtPause -> "paused"
          [] pc = "fatal"   -> "fatal"
          [] OTHER          -> "playing"

Coarse == INSTANCE PlayerAlone WITH
    toPlayer <- rbufs \o wire, pc <- Seen, track <- track.song

ProcessInit ==
    /\ AudioInit
    /\ wire = <<>> /\ rbufs = <<>> /\ toMain = <<>> /\ open = TRUE
    /\ alive = TRUE /\ pc = "loop" /\ halted = FALSE /\ nextfd = None
    /\ track = NoTrack /\ left = 0
    /\ seek = FALSE /\ within = FALSE
    /\ main = "running" /\ orders = 0 /\ signals = 0

Runs(place) == alive /\ pc = place /\ UNCHANGED mainVars
Dies == alive' = FALSE /\ UNCHANGED <<pc, halted, nextfd, trackVars>>

(* imsgbuf_flush() spins while the socket is full, and gives up when the   *)
(* daemon has closed its end.  A META message is only sent, not kept.      *)
CanSend == Len(toMain) < MaxWire \/ ~open
Send(m) == CanSend /\ toMain' = Append(toMain, m)
SendStatus == CanSend /\ UNCHANGED toMain

-----------------------------------------------------------------------------
(* player_dispatch() with message m.  The process is at the loop, in play()*)
(* or in player_pause(); stop is where it goes when the track is over.     *)
StopAt == IF within THEN "aborted" ELSE "loop"

(* A definition that follows one named Faulty... is what the code does;    *)
(* the faulty one is the bug that a run is shown to notice.                *)
FaultyAfter(m) ==       (* a PLAY does not end a pause *)
    LET r == Coarse!Returned(m) IN
    IF pc \in AtLoop THEN "idle"
    ELSE IF (r = "STOP" /\ pc \notin AtPause) \/ (r = "PAUSE" /\ pc \in AtPause) THEN StopAt
    ELSE IF r = "PAUSE" THEN "paused" ELSE "write"

After(m) ==
    LET r == Coarse!Returned(m) IN
    IF pc \in AtLoop THEN "idle"
    ELSE IF r = "STOP" \/ (r = "PAUSE" /\ pc \in AtPause) THEN StopAt
    ELSE IF r = "PAUSE" THEN "paused" ELSE "write"

LeaveTrack == track' = NoTrack /\ left' = 0 /\ seek' = FALSE /\ UNCHANGED within

Handle(m) ==
    IF m.type = "PLAY" /\ nextfd # None
    THEN /\ pc' = "fatal" /\ alive' = FALSE
         /\ LeaveTrack
         /\ UNCHANGED <<halted, nextfd>>
    ELSE /\ nextfd' = IF m.type = "PLAY" THEN m.song ELSE nextfd
         /\ pc' = After(m)
         /\ IF pc' \in AtLoop THEN LeaveTrack
            ELSE /\ seek' = (seek \/ m.type = "SEEK")
                 /\ UNCHANGED <<track, left, within>>
         /\ UNCHANGED <<alive, halted>>

(* A message that was already read, or the socket's contents at once.      *)
FromBuffer == /\ rbufs # <<>>
              /\ rbufs' = Tail(rbufs) /\ UNCHANGED <<wire, open>>
              /\ Handle(Head(rbufs))
FromSocket == /\ rbufs = <<>> /\ wire # <<>>
              /\ rbufs' = Tail(wire) /\ wire' = <<>> /\ UNCHANGED open
              /\ Handle(Head(wire))
FaultyReadable == ~open                 (* polls for POLLHUP only *)
Readable == wire # <<>> \/ ~open
PipeClosed == rbufs = <<>> /\ wire = <<>> /\ ~open /\ Dies /\ UNCHANGED pipeVars

Goto(place) == pc' = place /\ UNCHANGED <<alive, halted, nextfd>>
Stop == Goto(StopAt) /\ LeaveTrack /\ UNCHANGED pipeVars

(* player_dispatch(s, 1): halted first, then what was read, then poll().   *)
Waiting(place, block) ==
    \/ Runs(place) /\ ~halted /\ FromBuffer
    \/ /\ Runs(place) /\ ~halted /\ rbufs = <<>>
       /\ Goto(block) /\ UNCHANGED <<pipeVars, trackVars>>
    \/ Runs(block) /\ (FromSocket \/ PipeClosed)

(* while (nextfd == -1) player_dispatch(NULL, 1).  A process that is       *)
(* halted here spins: there is no action for it.                           *)
Idle == /\ nextfd = None
        /\ Waiting("idle", "idleBlock")
        /\ UNCHANGED <<toMain, audioVars>>

Pause == /\ \/ Waiting("paused", "pausedBlock")
            \/ Runs("paused") /\ halted /\ Stop
         /\ UNCHANGED <<toMain, audioVars>>

-----------------------------------------------------------------------------
(* The loop of player().                                                   *)
Loop == /\ Runs("loop")
        /\ IF halted THEN Dies ELSE Goto("idle") /\ UNCHANGED trackVars
        /\ UNCHANGED <<pipeVars, toMain, audioVars>>

(* player_playnext() starts what is enqueued and recognises it, or not.    *)
PlayNext ==
    /\ Runs("idle") /\ nextfd # None
    /\ \E k \in Kind \cup {"unknown"} :
          track' = [NoTrack EXCEPT !.song = nextfd, !.kind = k]
    /\ left' = 0 /\ seek' = FALSE /\ within' = FALSE
    /\ nextfd' = None /\ pc' = "open"
    /\ SendStatus
    /\ UNCHANGED <<alive, halted, pipeVars, audioVars>>

(* A decoder returns 0 or -1, and player() reports it.                     *)
Report(t) == /\ Send([type |-> t, song |-> track.song])
             /\ pc' = "loop"
             /\ track' = NoTrack /\ left' = 0 /\ seek' = FALSE /\ within' = FALSE
             /\ UNCHANGED <<alive, halted, nextfd, pipeVars, audioVars>>

(* player_setup(): a format the backend cannot play is the end of it.      *)
Setup(place) ==
    /\ \/ \E x \in Format :
            /\ AudioSetup(x)
            /\ track' = [track EXCEPT !.told = x,
                                      !.format = Decoded(track.kind, x, OpusFormat)]
            /\ Goto(place) /\ UNCHANGED <<left, seek, within>>
       \/ Dies /\ UNCHANGED audioVars
    /\ UNCHANGED <<pipeVars, toMain>>

(* Data of format x come, and nothing is set up for them.                  *)
Unset(x, place) ==
    /\ track' = [track EXCEPT !.format = x]
    /\ Goto(place) /\ UNCHANGED <<left, seek, within, pipeVars, toMain, audioVars>>

(* All but opus set up what the header says, before they read any data.    *)
Open == /\ Runs("open")
        /\ \/ Report("ERR")
           \/ track.kind \in Kind \ {"opus"} /\ Setup("status")
           \/ track.kind = "opus" /\ Unset(NoFormat, "decode")

(* The position moved: player_onmove() reports it if that makes a second.  *)
Moved(n) == Goto("status") \/ Goto(IF n = 0 THEN "decode" ELSE "poll")

(* The head of a decoding loop.  A decoder that passes over an error stays *)
(* here.                                                                   *)
Decoding == Runs("decode")
Reading == Decoding /\ ~seek /\ ~within

Data == /\ Reading /\ track.format # NoFormat
        /\ Goto("poll") /\ left' = 2
        /\ UNCHANGED <<track, seek, within, pipeVars, toMain, audioVars>>

(* mp3 sets up every new format that it finds. opus does so for every link *)
(* of the file, the first one included, if its header tells a rate, and    *)
(* reports the length after the first; vorbis does not.                    *)
Reformat ==
    /\ Reading
    /\ \/ track.kind = "mp3" /\ Setup("decode")
       \/ /\ track.kind = "opus"
          /\ LET place == IF track.format = NoFormat THEN "status" ELSE "decode" IN
             Setup(place) \/ Unset(OpusFormat, place)
       \/ track.kind = "vorbis" /\ \E x \in Format : Unset(x, "decode")

End == Reading /\ (Report("EOF") \/ (track.kind \in GivesUp /\ Report("ERR")))

SeekFails == /\ Decoding /\ seek
             /\ \/ Report(SeekFailed(track.kind))
                \/ track.kind \in DropsLateSeek /\ Report("EOF")

Seek == /\ Decoding /\ seek
        /\ seek' = FALSE
        /\ \/ /\ track.kind \in PlaysWithinSeek
              /\ Goto("poll") /\ left' = 1 /\ within' = TRUE
           \/ /\ track.kind \notin PlaysWithinSeek
              /\ Moved(left) /\ UNCHANGED <<left, within>>
        /\ UNCHANGED <<track, pipeVars, toMain, audioVars>>

(* Back in the callback that seeked: the rest of its buffer, which is the  *)
(* other call's by now, is played if there was any.                        *)
SeekReturns == /\ Decoding /\ ~seek /\ within
               /\ within' = FALSE /\ left' \in 0 .. 1 /\ Moved(left')
               /\ UNCHANGED <<track, seek, pipeVars, toMain, audioVars>>

(* sample_seek() takes the stop for a failure, and play_flac() returns 0.  *)
Aborted == /\ Runs("aborted")
           /\ Send([type |-> "EOF", song |-> None])
           /\ within' = FALSE /\ Goto("loop")
           /\ UNCHANGED <<track, left, seek, pipeVars, audioVars>>

-----------------------------------------------------------------------------
(* play(): poll() for the daemon and the audio thread, then one message,   *)
(* then one chunk.  audio_revents() does not look whether the thread is    *)
(* ready, so that audio_write() may have to wait for it.                   *)
CanPoll == Readable \/ ready \/ HungUp
Poll == /\ Runs("poll") /\ CanPoll
        /\ Goto(IF Readable THEN "dispatch" ELSE "peek")
        /\ UNCHANGED <<pipeVars, toMain, trackVars, audioVars>>

Dispatch == /\ Runs("dispatch") \/ Runs("peek")
            /\ \/ halted /\ Stop
               \/ ~halted /\ FromBuffer
               \/ ~halted /\ pc = "dispatch" /\ (FromSocket \/ PipeClosed)
               \/ /\ ~halted /\ pc = "peek" /\ rbufs = <<>>
                  /\ Goto("write") /\ UNCHANGED <<trackVars, pipeVars>>
            /\ UNCHANGED <<toMain, audioVars>>

Write == /\ Runs("write")
         /\ \/ TakeBuffer /\ Goto("fill")
            \/ HungUp /\ Goto("poll") /\ UNCHANGED audioVars
         /\ UNCHANGED <<trackVars, pipeVars, toMain>>

(* audio_write() divides by the size of a frame, which is zero until some  *)
(* format is set up: a trap, or a result of zero, as the processor has it. *)
Fill == /\ Runs("fill")
        /\ \/ /\ HandOver(track.format, IF track.told = track.format THEN "set"
                                                                   ELSE track.kind)
              /\ left' = left - 1
              /\ Moved(left')
              /\ UNCHANGED <<track, seek, within>>
           \/ fmt = NoFormat /\ Dies /\ UNCHANGED audioVars
        /\ UNCHANGED <<pipeVars, toMain>>

Status == /\ Runs("status")
          /\ SendStatus /\ Goto(IF left = 0 THEN "decode" ELSE "poll")
          /\ UNCHANGED <<trackVars, pipeVars, audioVars>>

Step == \/ Loop \/ Idle \/ Pause \/ PlayNext \/ Open \/ Data \/ Reformat \/ End
        \/ SeekFails \/ Seek \/ SeekReturns \/ Aborted
        \/ Poll \/ Dispatch \/ Write \/ Fill \/ Status

Thread == /\ alive /\ WorkerNext
          /\ UNCHANGED <<pipeVars, toMain, alive, pc, halted, nextfd, trackVars, mainVars>>

-----------------------------------------------------------------------------
(* The daemon, as far as the player can tell.                              *)
Elsewhere == UNCHANGED <<audioVars, pc, nextfd, trackVars>>

MainSends == /\ main = "running" /\ alive /\ orders < MaxOrders /\ Len(wire) < MaxWire
             /\ \E m \in Coarse!OrderMsg : wire' = Append(wire, m)
             /\ orders' = orders + 1
             /\ UNCHANGED <<rbufs, open, toMain, alive, halted, main, signals>> /\ Elsewhere

MainReads == /\ main = "running" /\ toMain # <<>>
             /\ toMain' = Tail(toMain)
             /\ UNCHANGED <<pipeVars, alive, halted, mainVars>> /\ Elsewhere

FaultyShutdown ==       (* waits with the pipe still open *)
    /\ main' = "waiting" /\ UNCHANGED <<pipeVars, orders, toMain, alive>>

(* main_shutdown(): closes the pipe, then waits.                           *)
Shutdown == /\ main' = "waiting" /\ open' = FALSE
            /\ UNCHANGED <<wire, rbufs, orders, toMain, alive>>

(* SIGTERM sent to the daemon, or SIGINT typed at the terminal, which the  *)
(* player gets too: poll() fails if it was blocked in it, else halted is   *)
(* set.  The daemon's handler runs from its event loop, at once or later.  *)
Blocked == \/ pc = "poll" /\ ~CanPoll
           \/ pc \in {"idleBlock", "pausedBlock"} /\ ~Readable

SignalPlayer == /\ alive /\ signals < MaxSignals
                /\ signals' = signals + 1
                /\ \/ halted' = TRUE /\ UNCHANGED alive
                   \/ Blocked /\ alive' = FALSE /\ UNCHANGED halted
                /\ UNCHANGED <<pipeVars, toMain, main, orders>> /\ Elsewhere

SignalMain == /\ main = "running" /\ signals < MaxSignals
              /\ signals' = signals + 1
              /\ Shutdown /\ UNCHANGED halted /\ Elsewhere

(* The daemon finds the pipe closed: ev_break(), then main_shutdown().     *)
MainSeesEnd == /\ main = "running" /\ ~alive /\ toMain = <<>>
               /\ Shutdown /\ UNCHANGED <<halted, signals>> /\ Elsewhere

MainExits == /\ main = "waiting" /\ ~alive
             /\ main' = "exited"
             /\ UNCHANGED <<pipeVars, toMain, alive, halted, orders, signals>> /\ Elsewhere

Main == MainReads \/ MainSeesEnd \/ MainExits

ProcessNext == Step \/ Thread \/ Main \/ MainSends \/ SignalPlayer \/ SignalMain

ProcessSpec == ProcessInit /\ [][ProcessNext]_vars

(* Both processes and the thread run, ao_play() returns, and a decoder     *)
(* that keeps being asked for sound yields some or ends: the file is not   *)
(* an endless run of errors that are passed over.                          *)
ProcessFairness == /\ WF_vars(Step) /\ WF_vars(Thread) /\ WF_vars(Main)
                   /\ SF_vars(Data \/ End)
ProcessFair == ProcessSpec /\ ProcessFairness

-----------------------------------------------------------------------------
ProcessTypeOK ==
    /\ AudioTypeOK
    /\ wire \in Seq(Coarse!OrderMsg) /\ rbufs \in Seq(Coarse!OrderMsg)
    /\ toMain \in Seq(Coarse!Report \cup {[type |-> "EOF", song |-> None]})
    /\ {open, alive, halted, seek, within} \subseteq BOOLEAN
    /\ pc \in Place
    /\ nextfd \in Song \cup {None}
    /\ track \in TrackType
    /\ source \in Kind \cup {"unknown", "none", "set"}
    /\ left \in 0 .. 2
    /\ main \in {"running", "waiting", "exited"}
    /\ orders \in Nat /\ signals \in Nat

(* The buffer shared by the threads has one owner at a time.               *)
OneBuffer == ProcessTypeOK /\ OneOwner(pc = "fill") /\ BufferIsOwned(pc = "fill")

(* A signal ends the track. flac reports a track that was stopped while it *)
(* seeked, and a daemon that sent the STOP then goes on with the next song.*)
HaltedStop == /\ halted /\ Seen \in {"playing", "paused"}
              /\ Seen' = "idle" /\ track'.song = None
              /\ UNCHANGED <<rbufs \o wire, toMain, nextfd>>
FlacEof == /\ pc = "aborted" /\ pc' = "loop"
           /\ toMain' = Append(toMain, [type |-> "EOF", song |-> None])
           /\ UNCHANGED <<rbufs \o wire, Seen, nextfd, track.song>>

(* Every step that the process takes does to its pipes, its track and what *)
(* is enqueued what one step of module Player does, or nothing, but for    *)
(* two kinds of steps, and after these as well.                            *)
Refinement ==
    Coarse!PlayerInit /\ [][Coarse!AloneNext \/ HaltedStop \/ FlacEof]_(Coarse!playerVars)

(* A player that has been halted without a track spins.                    *)
Spinning == alive /\ halted /\ pc = "idle" /\ nextfd = None

(* "waiting for children to terminate" (amused.c:69) ends, unless a signal *)
(* met an idle player outside poll().                                      *)
ShutdownEndsOrSpins == main = "waiting" ~> main = "exited" \/ Spinning

(* Orders are taken from the pipe however long the audio thread keeps its *)
(* buffer, unless somebody has died.                                       *)
OrdersAreTaken ==
    rbufs \o wire # <<>> ~> rbufs \o wire = <<>> \/ ~alive \/ halted \/ main # "running"
=============================================================================
