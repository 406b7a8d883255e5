------------------------- MODULE PlayerProcessProofs ------------------------
(***************************************************************************)
(* The buffer that the player shares with the audio thread has one owner   *)
(* at a time, and what the thread plays is in the format of the device,    *)
(* for any formats, songs, orders and signals.  The process and the thread *)
(* have no lock: the argument is about the byte that goes to and fro       *)
(* (OneOwner), and about what else changes the format (SoundInv).          *)
(***************************************************************************)
EXTENDS PlayerProcess, SequenceTheorems, TLAPS

(* No sound is on the way in another format than the last one set up, but  *)
(* for those of opus and vorbis; what the thread believes of its device is *)
(* true, whatever is played on it.                                         *)
SoundInv ==
    LET ours == source \notin {"opus", "vorbis"} IN
    ~crossed =>
        /\ go /\ ours => sound = fmt
        /\ worker = "open" /\ ours => sound = fmt
        /\ worker = "record" => device = fmt /\ (ours => sound = fmt)
        /\ worker = "play" /\ ours => device = sound
        /\ worker \notin {"record", "gone"} => known = device

PipeInv ==
    /\ wire \in Seq(Coarse!OrderMsg) /\ rbufs \in Seq(Coarse!OrderMsg)
    /\ toMain \in Seq(Coarse!Report \cup {[type |-> "EOF", song |-> None]})
    /\ open \in BOOLEAN /\ main \in {"running", "waiting", "exited"}
    /\ orders \in Nat /\ signals \in Nat

AtWork == Place \ (AtLoop \cup {"fatal"})       (* there is a track        *)
InPlay == {"poll", "dispatch", "peek", "write", "fill"} \cup AtPause

Flags == /\ alive \in BOOLEAN /\ halted \in BOOLEAN /\ seek \in BOOLEAN
         /\ within \in BOOLEAN

(* The decoder has read some data of the track.                            *)
Begun == pc \in InPlay \/ (pc \in {"decode", "status"} /\ (seek \/ within \/ left > 0))

(* What was set up for the track was so last, and is the format of its     *)
(* data unless the decoder is one of the two.                              *)
FormatInv ==
    /\ pc \in AtWork => track.told \in {NoFormat, fmt}
    /\ track.told # track.format => track.kind \in {"opus", "vorbis"}
    /\ Begun => track.format # NoFormat
    /\ pc = "open" => ~seek /\ ~within /\ left = 0

(* The process has a track where it must, and play() waits for sound only  *)
(* while some is left.                                                     *)
TrackInv ==
    /\ Flags
    /\ pc \in Place /\ nextfd \in Song \cup {None}
    /\ track \in TrackType
    /\ left \in 0 .. 2
    /\ pc \in AtWork => track.song \in Song
    /\ pc \in InPlay => left > 0
    /\ FormatInv

SourceInv == source \in Kind \cup {"unknown", "none", "set"}

AudioInv == AudioTypeOK /\ OneOwner(pc = "fill") /\ SoundInv /\ SourceInv

ProcessInv == AudioInv /\ PipeInv /\ TrackInv

LEMMA ProcessInitInv == ProcessInit => ProcessInv
  <1> SUFFICES ASSUME ProcessInit PROVE ProcessInv
    OBVIOUS
  <1>1. AudioInv
    BY DEF ProcessInit, AudioInit, AudioInv, AudioTypeOK, OneOwner, SoundInv, SourceInv,
           WorkerPlace
  <1>2. PipeInv
    BY DEF ProcessInit, PipeInv
  <1>3. track \in TrackType /\ FormatInv
    BY DEF ProcessInit, NoTrack, TrackType, FormatInv, Begun, AtWork, InPlay, AtLoop, AtPause
  <1>4. Flags
    BY DEF ProcessInit, Flags
  <1>5. TrackInv
    BY <1>3, <1>4 DEF ProcessInit, TrackInv, Place, AtWork, InPlay, AtLoop, AtPause
  <1>6. QED
    BY <1>1, <1>2, <1>5 DEF ProcessInv

(* The audio variables are left alone by a process that is not filling.    *)
LEMMA AudioKept ==
    ASSUME ProcessInv, UNCHANGED audioVars, pc # "fill", pc' # "fill"
    PROVE  AudioInv'
  BY DEF ProcessInv, AudioInv, audioVars, AudioTypeOK, OneOwner, SoundInv, SourceInv

LEMMA AudioKeptInPlace ==
    ASSUME ProcessInv, UNCHANGED <<audioVars, pc>>
    PROVE  AudioInv'
  BY DEF ProcessInv, AudioInv, audioVars, AudioTypeOK, OneOwner, SoundInv, SourceInv

(* The steps of the thread.                                                *)
LEMMA ThreadKeeps ==
    ASSUME ProcessInv, Thread
    PROVE  ProcessInv'
  <1>1. PipeInv' /\ pc' = pc /\ TrackInv'
    <2>1. UNCHANGED <<pipeVars, toMain, alive, pc, halted, nextfd, trackVars, mainVars, fmt>>
      BY DEF Thread, WorkerNext, Offer, Await, OpenDevice, Record, PlaySound
    <2>2. QED
      BY <2>1 DEF ProcessInv, PipeInv, TrackInv, FormatInv, Begun, Flags, pipeVars, trackVars,
                  mainVars
  <1>2. CASE Offer
    BY <1>1, <1>2 DEF Offer, ProcessInv, AudioInv, AudioTypeOK, OneOwner, SoundInv,
                  SourceInv, WorkerPlace
  <1>3. CASE Await
    BY <1>1, <1>3
    DEF Await, Compare, ProcessInv, AudioInv, AudioTypeOK, OneOwner, SoundInv, SourceInv,
        WorkerPlace
  <1>4. CASE OpenDevice
    BY <1>1, <1>4 DEF OpenDevice, ProcessInv, AudioInv, AudioTypeOK, OneOwner, SoundInv,
                  SourceInv, WorkerPlace
  <1>5. CASE Record
    BY <1>1, <1>5 DEF Record, ProcessInv, AudioInv, AudioTypeOK, OneOwner, SoundInv,
                  SourceInv, WorkerPlace
  <1>6. CASE PlaySound
    BY <1>1, <1>6 DEF PlaySound, ProcessInv, AudioInv, AudioTypeOK, OneOwner, SoundInv,
                  SourceInv, WorkerPlace
  <1>7. QED
    BY <1>2, <1>3, <1>4, <1>5, <1>6 DEF Thread, WorkerNext

-----------------------------------------------------------------------------
(* The process reads an order.                                             *)
LEMMA ReadGood ==
    ASSUME PipeInv, FromBuffer \/ FromSocket
    PROVE  /\ PipeInv' \/ ~UNCHANGED <<toMain, main, orders, signals>>
           /\ \E m \in Coarse!OrderMsg : Handle(m)
  <1>1. CASE FromBuffer
    <2>1. rbufs \in Seq(Coarse!OrderMsg) /\ rbufs # <<>>
      BY <1>1 DEF PipeInv, FromBuffer
    <2>2. Head(rbufs) \in Coarse!OrderMsg /\ Tail(rbufs) \in Seq(Coarse!OrderMsg)
      BY <2>1
    <2>3. QED
      BY <1>1, <2>2 DEF FromBuffer, PipeInv
  <1>2. CASE FromSocket
    <2>1. wire \in Seq(Coarse!OrderMsg) /\ wire # <<>>
      BY <1>2 DEF PipeInv, FromSocket
    <2>2. Head(wire) \in Coarse!OrderMsg /\ Tail(wire) \in Seq(Coarse!OrderMsg)
      BY <2>1
    <2>3. QED
      BY <1>2, <2>2 DEF FromSocket, PipeInv
  <1>3. QED
    BY <1>1, <1>2

(* Leaving the track is safe wherever the process goes without one.        *)
LEMMA LeaveGood ==
    ASSUME TrackInv, LeaveTrack, pc' \in AtLoop \cup {"fatal"},
           alive' \in BOOLEAN, halted' \in BOOLEAN, nextfd' \in Song \cup {None}
    PROVE  TrackInv'
  <1>1. track' \in TrackType
    BY DEF LeaveTrack, NoTrack, TrackType
  <1>2. /\ pc' \in Place /\ pc' \notin AtWork /\ pc' \notin InPlay
        /\ pc' \notin {"decode", "status", "open"}
    BY DEF AtLoop, AtWork, InPlay, Place, AtPause
  <1>f. FormatInv'
    <2>1. track'.told = track'.format
      BY DEF LeaveTrack, NoTrack
    <2>2. QED
      BY <1>2, <2>1 DEF FormatInv, Begun
  <1>3. Flags'
    BY DEF LeaveTrack, TrackInv, Flags
  <1>4. left' \in 0 .. 2
    BY DEF LeaveTrack
  <1>5. QED
    BY <1>1, <1>2, <1>3, <1>4, <1>f DEF TrackInv

(* What an order does to the track, at the three kinds of places where one *)
(* is read.                                                                *)
LEMMA HandleGood ==
    ASSUME TrackInv, NEW m \in Coarse!OrderMsg, Handle(m), fmt' = fmt,
           pc \in AtLoop \cup AtPause \cup {"dispatch", "peek"}
    PROVE  TrackInv' /\ pc' # "fill"
  <1>1. m.type = "PLAY" => m.song \in Song
    BY DEF Coarse!OrderMsg, Coarse!Order
  <1>2. CASE m.type = "PLAY" /\ nextfd # None
    <2>1. pc' = "fatal" /\ alive' = FALSE /\ LeaveTrack /\ halted' = halted /\ nextfd' = nextfd
      BY <1>2 DEF Handle
    <2>2. alive' \in BOOLEAN /\ halted' \in BOOLEAN /\ nextfd' \in Song \cup {None}
      BY <2>1 DEF TrackInv, Flags
    <2>3. QED
      BY <2>1, <2>2, LeaveGood
  <1>3. CASE ~(m.type = "PLAY" /\ nextfd # None)
    <2>1. /\ nextfd' = IF m.type = "PLAY" THEN m.song ELSE nextfd
          /\ pc' = After(m) /\ alive' = alive /\ halted' = halted
          /\ IF pc' \in AtLoop THEN LeaveTrack
             ELSE /\ seek' = (seek \/ m.type = "SEEK")
                  /\ UNCHANGED <<track, left, within>>
      BY <1>3 DEF Handle
    <2>2. nextfd' \in Song \cup {None}
      BY <1>1, <2>1 DEF TrackInv
    <2>3. pc' \in AtLoop \/ (pc' \in {"paused", "write"} /\ pc \in InPlay)
      BY <2>1 DEF After, StopAt, AtLoop, AtPause, InPlay
    <2>4. CASE pc' \in AtLoop
      <3>1. alive' \in BOOLEAN /\ halted' \in BOOLEAN /\ LeaveTrack
        BY <2>1, <2>4 DEF TrackInv, Flags
      <3>2. QED
        BY <2>2, <2>4, <3>1, LeaveGood DEF AtLoop
    <2>5. CASE pc' \notin AtLoop
      <3>1. pc \in AtWork \ {"open"} /\ pc' \in Place /\ pc \in InPlay /\ pc' # "open"
        BY <2>3, <2>5 DEF InPlay, AtWork, Place, AtLoop, AtPause
      <3>2. Flags'
        BY <2>1, <2>5 DEF TrackInv, Flags
      <3>3. FormatInv'
        <4>1. track.format # NoFormat /\ track.told \in {NoFormat, fmt}
          BY <3>1 DEF TrackInv, FormatInv, Begun
        <4>2. QED
          BY <2>1, <2>5, <3>1, <4>1 DEF TrackInv, FormatInv
      <3>4. QED
        BY <2>1, <2>2, <2>3, <2>5, <3>1, <3>2, <3>3 DEF TrackInv
    <2>6. QED
      BY <2>4, <2>5
  <1>4. QED
    BY <1>2, <1>3

(* A call of player_dispatch() that reads, whatever place it is made from. *)
LEMMA DispatchKeeps ==
    ASSUME ProcessInv, FromBuffer \/ FromSocket,
           UNCHANGED <<audioVars, toMain, mainVars>>,
           pc \in AtLoop \cup AtPause \cup {"dispatch", "peek"}
    PROVE  ProcessInv'
  <1>1. PipeInv'
    BY ReadGood DEF ProcessInv, mainVars
  <1>2. TrackInv' /\ pc' # "fill" /\ pc # "fill"
    BY ReadGood, HandleGood DEF ProcessInv, audioVars, AtLoop, AtPause
  <1>3. QED
    BY <1>1, <1>2, AudioKept DEF ProcessInv

-----------------------------------------------------------------------------
(* What most steps have in common: the process goes from one place with a  *)
(* track to another and leaves the threads' buffer and the pipes alone.    *)
LEMMA MoveKeeps ==
    ASSUME ProcessInv, NEW place \in AtWork \ {"open", "fill"}, Goto(place),
           pc \in AtWork \ {"open", "fill"}, track' = track,
           left' \in 0 .. 2, place \in InPlay => left' > 0,
           seek' \in BOOLEAN, within' \in BOOLEAN,
           Begun' => track.format # NoFormat,
           UNCHANGED <<audioVars, pipeVars, toMain, mainVars>>
    PROVE  ProcessInv'
  <1>1. PipeInv'
    BY DEF ProcessInv, PipeInv, pipeVars, mainVars
  <1>2. Flags'
    BY DEF ProcessInv, TrackInv, Flags, Goto
  <1>f. FormatInv'
    BY DEF ProcessInv, TrackInv, FormatInv, Goto, audioVars
  <1>3. TrackInv'
    BY <1>2, <1>f DEF ProcessInv, TrackInv, Goto, AtWork
  <1>4. pc # "fill" /\ pc' # "fill"
    BY DEF Goto
  <1>5. QED
    BY <1>1, <1>3, <1>4, AudioKept DEF ProcessInv

(* The process ends, in any place but in the middle of filling the buffer. *)
LEMMA DiesKeeps ==
    ASSUME ProcessInv, Dies, UNCHANGED <<audioVars, pipeVars, toMain, mainVars>>
    PROVE  ProcessInv'
  <1>1. PipeInv'
    BY DEF ProcessInv, PipeInv, pipeVars, mainVars
  <1>2. Flags'
    BY DEF ProcessInv, TrackInv, Flags, Dies, trackVars
  <1>3. TrackInv'
    BY <1>2 DEF ProcessInv, TrackInv, FormatInv, Begun, Dies, trackVars, audioVars
  <1>4. pc' = pc
    BY DEF Dies
  <1>5. QED
    BY <1>1, <1>3, <1>4, AudioKeptInPlace DEF ProcessInv

(* play() or player_pause() is told to stop.                               *)
LEMMA StopKeeps ==
    ASSUME ProcessInv, Stop, pc # "fill", UNCHANGED <<audioVars, toMain, mainVars>>
    PROVE  ProcessInv'
  <1>1. PipeInv'
    BY DEF Stop, ProcessInv, PipeInv, pipeVars, mainVars
  <1>2. pc' \in AtLoop /\ pc' # "fill" /\ LeaveTrack
    BY DEF Stop, Goto, StopAt, AtLoop
  <1>3. alive' \in BOOLEAN /\ halted' \in BOOLEAN /\ nextfd' \in Song \cup {None}
    BY DEF Stop, Goto, ProcessInv, TrackInv, Flags
  <1>4. TrackInv'
    BY <1>2, <1>3, LeaveGood DEF ProcessInv
  <1>5. QED
    BY <1>1, <1>2, <1>4, AudioKept DEF ProcessInv

(* A track is over and the daemon is told.                                 *)
LEMMA ReportKeeps ==
    ASSUME ProcessInv, NEW t \in {"EOF", "ERR"}, Report(t),
           pc \in {"open", "decode"}, UNCHANGED mainVars
    PROVE  ProcessInv'
  <1>1. track.song \in Song
    BY DEF ProcessInv, TrackInv, AtWork, AtLoop, Place
  <1>2. [type |-> t, song |-> track.song] \in Coarse!Report
    BY <1>1 DEF Coarse!Report
  <1>3. toMain' \in Seq(Coarse!Report \cup {[type |-> "EOF", song |-> None]})
    <2>1. toMain' = Append(toMain, [type |-> t, song |-> track.song])
      BY DEF Report, Send
    <2>2. QED
      BY <1>2, <2>1 DEF ProcessInv, PipeInv
  <1>4. PipeInv'
    BY <1>3 DEF Report, ProcessInv, PipeInv, pipeVars, mainVars
  <1>5. track' \in TrackType /\ track'.told = track'.format
    BY DEF Report, NoTrack, TrackType
  <1>6. Flags'
    BY DEF Report, ProcessInv, TrackInv, Flags
  <1>7. TrackInv'
    <2>1. pc' = "loop" /\ pc' \in Place /\ pc' \notin AtWork /\ pc' \notin InPlay
      BY DEF Report, Place, AtWork, InPlay, AtLoop, AtPause
    <2>2. FormatInv'
      BY <1>5, <2>1 DEF FormatInv, Begun
    <2>3. QED
      BY <1>5, <1>6, <2>1, <2>2 DEF Report, ProcessInv, TrackInv
  <1>8. UNCHANGED audioVars /\ pc # "fill" /\ pc' # "fill"
    BY DEF Report
  <1>9. QED
    BY <1>4, <1>7, <1>8, AudioKept DEF ProcessInv

(* audio_setup() writes the format while the thread may be looking at it.  *)
LEMMA SetupKeeps ==
    ASSUME ProcessInv, NEW place \in {"status", "decode"}, Setup(place),
           pc \in {"open", "decode"}, UNCHANGED mainVars
    PROVE  ProcessInv'
  <1>1. CASE Dies /\ UNCHANGED audioVars
    BY <1>1, DiesKeeps DEF Setup
  <1>2. CASE \E x \in Format :
                /\ AudioSetup(x)
                /\ track' = [track EXCEPT !.told = x,
                                          !.format = Decoded(track.kind, x, OpusFormat)]
                /\ Goto(place) /\ UNCHANGED <<left, seek, within>>
    <2>1. PICK x \in Format :
                /\ AudioSetup(x)
                /\ track' = [track EXCEPT !.told = x,
                                          !.format = Decoded(track.kind, x, OpusFormat)]
                /\ Goto(place) /\ UNCHANGED <<left, seek, within>>
      BY <1>2
    <2>2. pc' = place /\ pc # "fill" /\ pc' # "fill" /\ pc \in AtWork
      BY <2>1 DEF Goto, AtWork, Place, AtLoop
    <2>3. PipeInv'
      BY DEF Setup, ProcessInv, PipeInv, pipeVars, mainVars
    <2>4. AudioInv'
      <3>1. AudioTypeOK'
        BY <2>1 DEF AudioSetup, ProcessInv, AudioInv, AudioTypeOK
      <3>2. OneOwner(pc = "fill")'
        BY <2>1, <2>2 DEF AudioSetup, ProcessInv, AudioInv, OneOwner
      <3>3. SoundInv'
        BY <2>1 DEF AudioSetup, InFlight, ProcessInv, AudioInv, SoundInv, AudioTypeOK
      <3>4. SourceInv'
        BY <2>1 DEF AudioSetup, ProcessInv, AudioInv, SourceInv
      <3>5. QED
        BY <3>1, <3>2, <3>3, <3>4 DEF AudioInv
    <2>6. Flags'
      BY <2>1 DEF Goto, ProcessInv, TrackInv, Flags
    <2>7. TrackInv'
      <3>d. DEFINE d == Decoded(track.kind, x, OpusFormat)
      <3>0. track \in TrackType /\ d \in Format /\ (track.kind # "opus" => d = x)
        BY OpusAssumption DEF ProcessInv, TrackInv, Decoded
      <3>1. /\ fmt' = x /\ track'.song = track.song /\ track'.kind = track.kind
            /\ track'.told = x /\ track'.format = d
        BY <2>1, <3>0 DEF AudioSetup, TrackType
      <3>2. track' \in TrackType
        BY <2>1, <3>0 DEF TrackType
      <3>3. pc' \in Place /\ pc' \notin InPlay /\ pc' # "open"
        BY <2>2 DEF Place, InPlay, AtPause
      <3> HIDE DEF d
      <3>4. FormatInv'
        BY <3>0, <3>1, <3>3, NoFormatIsNoFormat DEF FormatInv
      <3>5. QED
        BY <2>1, <2>2, <2>6, <3>1, <3>2, <3>3, <3>4 DEF Goto, ProcessInv, TrackInv
    <2>8. QED
      BY <2>3, <2>4, <2>7 DEF ProcessInv
  <1>3. QED
    BY <1>1, <1>2 DEF Setup

(* Data that nothing is set up for.                                        *)
LEMMA UnsetKeeps ==
    ASSUME ProcessInv, NEW x, NEW place \in {"status", "decode"}, Unset(x, place),
           track.kind \in {"opus", "vorbis"}, pc \in {"open", "decode"},
           x \in Format \/ (x = NoFormat /\ pc = "open"), UNCHANGED mainVars
    PROVE  ProcessInv'
  <1>1. PipeInv'
    BY DEF Unset, ProcessInv, PipeInv, pipeVars, mainVars
  <1>2. /\ pc' = place /\ pc # "fill" /\ pc' # "fill" /\ pc \in AtWork /\ pc' \in Place
        /\ pc' \notin InPlay /\ pc' # "open"
    BY DEF Unset, Goto, AtWork, Place, AtLoop, InPlay, AtPause
  <1>3. AudioInv'
    BY <1>2, AudioKept DEF Unset
  <1>4. Flags'
    BY DEF Unset, Goto, ProcessInv, TrackInv, Flags
  <1>5. track \in TrackType /\ x \in Format \cup {NoFormat}
    BY DEF ProcessInv, TrackInv
  <1>6. /\ track'.song = track.song /\ track'.kind = track.kind
        /\ track'.told = track.told /\ track'.format = x /\ track' \in TrackType
    BY <1>5 DEF Unset, TrackType
  <1>7. FormatInv'
    <2>1. track'.told \in {NoFormat, fmt'}
      BY <1>2, <1>6 DEF Unset, audioVars, ProcessInv, TrackInv, FormatInv
    <2>2. CASE x \in Format
      BY <1>2, <1>6, <2>1, <2>2, NoFormatIsNoFormat DEF FormatInv
    <2>3. CASE x = NoFormat /\ pc = "open"
      <3>1. ~seek' /\ ~within' /\ left' = 0
        BY <2>3 DEF Unset, ProcessInv, TrackInv, FormatInv
      <3>2. ~Begun'
        BY <1>2, <3>1 DEF Begun
      <3>3. QED
        BY <1>2, <1>6, <2>1, <3>2 DEF FormatInv
    <2>4. QED
      BY <2>2, <2>3
  <1>8. TrackInv'
    BY <1>2, <1>4, <1>6, <1>7 DEF Unset, Goto, ProcessInv, TrackInv
  <1>9. QED
    BY <1>1, <1>3, <1>8 DEF ProcessInv

-----------------------------------------------------------------------------
(* The steps of the process.                                               *)
LEMMA PollGood ==
    ASSUME ProcessInv, NEW place, NEW block, Waiting(place, block),
           <<place, block>> \in {<<"idle", "idleBlock">>, <<"paused", "pausedBlock">>},
           UNCHANGED <<toMain, audioVars>>
    PROVE  ProcessInv'
  <1>1. UNCHANGED mainVars /\ pc \in {place, block}
    BY DEF Waiting, Runs
  <1>2. pc \in AtLoop \cup AtPause
    BY <1>1 DEF AtLoop, AtPause
  <1>3. CASE FromBuffer \/ FromSocket
    BY <1>1, <1>2, <1>3, DispatchKeeps
  <1>4. CASE Goto(block) /\ UNCHANGED <<pipeVars, trackVars>> /\ pc = place
    <2>1. PipeInv'
      BY <1>1, <1>4 DEF ProcessInv, PipeInv, pipeVars, mainVars
    <2>2. Flags'
      BY <1>4 DEF Goto, trackVars, ProcessInv, TrackInv, Flags
    <2>3. /\ pc' \in Place /\ pc' # "fill" /\ pc # "fill"
          /\ pc' \in AtWork => pc \in AtWork \ {"open"}
          /\ pc' \in InPlay => pc \in InPlay
          /\ pc' \notin {"decode", "status", "open"}
      BY <1>4 DEF Goto, Place, AtWork, InPlay, AtLoop, AtPause
    <2>f. FormatInv'
      BY <1>4, <2>3 DEF trackVars, audioVars, ProcessInv, TrackInv, FormatInv, Begun
    <2>4. TrackInv'
      BY <1>4, <2>2, <2>3, <2>f DEF Goto, trackVars, ProcessInv, TrackInv
    <2>5. QED
      BY <2>1, <2>3, <2>4, AudioKept DEF ProcessInv
  <1>5. CASE PipeClosed
    BY <1>1, <1>5, DiesKeeps DEF PipeClosed
  <1>6. QED
    BY <1>3, <1>4, <1>5 DEF Waiting, Runs

LEMMA LoopGood == ASSUME ProcessInv, Loop PROVE ProcessInv'
  <1>1. UNCHANGED <<pipeVars, toMain, mainVars, audioVars>> /\ pc = "loop"
    BY DEF Loop, Runs
  <1>2. CASE halted
    BY <1>1, <1>2, DiesKeeps DEF Loop
  <1>3. CASE ~halted
    <2>1. Goto("idle") /\ UNCHANGED trackVars
      BY <1>3 DEF Loop
    <2>2. PipeInv'
      BY <1>1 DEF ProcessInv, PipeInv, pipeVars, mainVars
    <2>3. Flags'
      BY <2>1 DEF Goto, trackVars, ProcessInv, TrackInv, Flags
    <2>4. /\ pc' \in Place /\ pc' \notin AtWork /\ pc' \notin InPlay
          /\ pc' \notin {"fill", "decode", "status", "open"}
      BY <2>1 DEF Goto, Place, AtWork, InPlay, AtLoop, AtPause
    <2>f. FormatInv'
      BY <2>1, <2>4 DEF trackVars, ProcessInv, TrackInv, FormatInv, Begun
    <2>5. TrackInv'
      BY <2>1, <2>3, <2>4, <2>f DEF Goto, trackVars, ProcessInv, TrackInv
    <2>6. QED
      BY <1>1, <2>2, <2>4, <2>5, AudioKept DEF ProcessInv
  <1>4. QED
    BY <1>2, <1>3

LEMMA PlayNextGood == ASSUME ProcessInv, PlayNext PROVE ProcessInv'
  <1>1. PipeInv'
    BY DEF PlayNext, Runs, SendStatus, ProcessInv, PipeInv, pipeVars, mainVars
  <1>2. nextfd \in Song
    BY DEF PlayNext, ProcessInv, TrackInv
  <1>3. /\ track' \in TrackType
        /\ track'.song \in Song /\ track'.told = NoFormat /\ track'.format = NoFormat
    BY <1>2 DEF PlayNext, NoTrack, TrackType
  <1>4. Flags'
    BY DEF PlayNext, ProcessInv, TrackInv, Flags
  <1>5. pc' = "open" /\ pc' \in Place /\ pc' \notin InPlay
    BY DEF PlayNext, Place, InPlay, AtPause
  <1>f. FormatInv'
    BY <1>3, <1>5 DEF PlayNext, FormatInv, Begun
  <1>6. TrackInv'
    BY <1>3, <1>4, <1>5, <1>f DEF PlayNext, ProcessInv, TrackInv
  <1>7. UNCHANGED audioVars /\ pc # "fill" /\ pc' # "fill"
    BY DEF PlayNext, Runs
  <1>8. QED
    BY <1>1, <1>6, <1>7, AudioKept DEF ProcessInv

(* The steps of a decoding loop.                                           *)
LEMMA DecodingGood ==
    ASSUME ProcessInv, Open \/ Data \/ Reformat \/ End \/ SeekFails \/ Seek \/ SeekReturns
    PROVE  ProcessInv'
  <1> "poll" \in AtWork \ {"open", "fill"} /\ "status" \in AtWork \ {"open", "fill"}
      /\ "decode" \in AtWork \ {"open", "fill"}
    BY DEF AtWork, Place, AtLoop
  <1> "status" \notin InPlay /\ "decode" \notin InPlay
    BY DEF InPlay, AtPause
  <1>1. CASE Open
    <2>1. pc = "open" /\ UNCHANGED mainVars
      BY <1>1 DEF Open, Runs
    <2>2. QED
      BY <1>1, <2>1, ReportKeeps, SetupKeeps, UnsetKeeps DEF Open
  <1>2. ASSUME Decoding PROVE pc = "decode" /\ UNCHANGED mainVars
    BY <1>2 DEF Decoding, Runs
  <1>b. pc = "decode" /\ (seek \/ within \/ left > 0) => track.format # NoFormat
    BY DEF ProcessInv, TrackInv, FormatInv, Begun
  <1>3. CASE Data
    <2>1. /\ Goto("poll") /\ left' = 2 /\ within' = within /\ track' = track
          /\ seek' = seek /\ track.format # NoFormat
          /\ UNCHANGED <<pipeVars, toMain, audioVars>>
      BY <1>3 DEF Data
    <2>2. seek' \in BOOLEAN /\ within' \in BOOLEAN
      BY <2>1 DEF ProcessInv, TrackInv, Flags
    <2>3. QED
      BY <1>2, <1>3, <2>1, <2>2, MoveKeeps DEF Data, Reading
  <1>4. CASE Reformat
    <2>1. pc = "decode" /\ UNCHANGED mainVars
      BY <1>2, <1>4 DEF Reformat, Reading
    <2>2. \/ Setup("decode") \/ Setup("status")
          \/ /\ track.kind \in {"opus", "vorbis"}
             /\ \E x \in Format, place \in {"status", "decode"} : Unset(x, place)
      BY <1>4, OpusAssumption DEF Reformat
    <2>3. QED
      BY <2>1, <2>2, SetupKeeps, UnsetKeeps
  <1>5. CASE End
    BY <1>2, <1>5, ReportKeeps DEF End, Reading
  <1>6. CASE SeekFails
    <2>1. SeekFailed(track.kind) \in {"EOF", "ERR"}
      BY DEF SeekFailed
    <2>2. QED
      BY <1>2, <1>6, <2>1, ReportKeeps DEF SeekFails
  <1>7. CASE Seek
    <2>1. /\ seek' = FALSE /\ track' = track /\ seek
          /\ UNCHANGED <<pipeVars, toMain, audioVars>> /\ Decoding
      BY <1>7 DEF Seek
    <2>b. track.format # NoFormat
      BY <1>2, <1>b, <2>1
    <2>2. CASE Goto("poll") /\ left' = 1 /\ within' = TRUE
      <3>1. left' \in 0 .. 2 /\ left' > 0
        BY <2>2
      <3>2. seek' \in BOOLEAN /\ within' \in BOOLEAN
        BY <2>1, <2>2, Zenon
      <3>3. pc \in AtWork \ {"open", "fill"} /\ UNCHANGED mainVars
        BY <1>2, <2>1
      <3>4. QED
        BY <2>1, <2>b, <2>2, <3>1, <3>2, <3>3, MoveKeeps
    <2>3. CASE Moved(left) /\ UNCHANGED <<left, within>>
      <3>1. within' \in BOOLEAN /\ left' \in 0 .. 2
        BY <2>3 DEF ProcessInv, TrackInv, Flags
      <3>2. CASE Goto("status") \/ (left = 0 /\ Goto("decode"))
        BY <1>2, <2>1, <2>b, <2>3, <3>1, <3>2, MoveKeeps
      <3>3. CASE left # 0 /\ Goto("poll")
        <4>1. left' > 0
          BY <2>3, <3>1, <3>3
        <4>2. seek' \in BOOLEAN
          BY <2>1, Zenon
        <4>3. pc \in AtWork \ {"open", "fill"} /\ UNCHANGED mainVars
          BY <1>2, <2>1
        <4>4. QED
          BY <2>1, <2>b, <3>1, <3>3, <4>1, <4>2, <4>3, MoveKeeps
      <3>4. QED
        BY <2>3, <3>2, <3>3 DEF Moved
    <2>4. QED
      BY <1>7, <2>2, <2>3 DEF Seek
  <1>8. CASE SeekReturns
    <2>1. /\ within' = FALSE /\ left' \in 0 .. 1 /\ Moved(left')
          /\ UNCHANGED <<track, seek, pipeVars, toMain, audioVars>> /\ Decoding /\ within
      BY <1>8 DEF SeekReturns
    <2>b. track.format # NoFormat
      BY <1>2, <1>b, <2>1
    <2>2. seek' \in BOOLEAN /\ left' \in 0 .. 2
      BY <2>1 DEF ProcessInv, TrackInv, Flags
    <2>3. CASE Goto("status") \/ (left' = 0 /\ Goto("decode"))
      BY <1>2, <2>1, <2>b, <2>2, <2>3, MoveKeeps
    <2>4. CASE left' # 0 /\ Goto("poll")
      <3>1. left' > 0
        BY <2>2, <2>4
      <3>2. within' \in BOOLEAN
        BY <2>1, Zenon
      <3>3. pc \in AtWork \ {"open", "fill"} /\ UNCHANGED mainVars
        BY <1>2, <2>1
      <3>4. QED
        BY <2>1, <2>b, <2>2, <2>4, <3>1, <3>2, <3>3, MoveKeeps
    <2>5. QED
      BY <2>1, <2>3, <2>4 DEF Moved
  <1>9. QED
    BY <1>1, <1>3, <1>4, <1>5, <1>6, <1>7, <1>8

LEMMA AbortedGood == ASSUME ProcessInv, Aborted PROVE ProcessInv'
  <1>1. toMain' \in Seq(Coarse!Report \cup {[type |-> "EOF", song |-> None]})
    <2>1. toMain' = Append(toMain, [type |-> "EOF", song |-> None])
      BY DEF Aborted, Send
    <2>2. QED
      BY <2>1 DEF ProcessInv, PipeInv
  <1>2. PipeInv'
    BY <1>1 DEF Aborted, Runs, ProcessInv, PipeInv, pipeVars, mainVars
  <1>3. Flags'
    BY DEF Aborted, Goto, ProcessInv, TrackInv, Flags
  <1>4. /\ pc' \in Place /\ pc' \notin AtWork /\ pc' \notin InPlay /\ pc # "fill"
        /\ pc' \notin {"fill", "decode", "status", "open"}
    BY DEF Aborted, Runs, Goto, Place, AtWork, InPlay, AtLoop, AtPause
  <1>f. FormatInv'
    BY <1>4 DEF Aborted, ProcessInv, TrackInv, FormatInv, Begun
  <1>5. TrackInv'
    BY <1>3, <1>4, <1>f DEF Aborted, Goto, ProcessInv, TrackInv
  <1>6. QED
    BY <1>2, <1>4, <1>5, AudioKept DEF Aborted, ProcessInv

(* The steps of play().                                                    *)
LEMMA PlayGood ==
    ASSUME ProcessInv, Poll \/ Dispatch \/ Write \/ Fill \/ Status
    PROVE  ProcessInv'
  <1> DEFINE Quiet == AtWork \ {"open", "fill"}
  <1> /\ {"poll", "dispatch", "peek", "write", "status", "decode"} \subseteq Quiet
      /\ {"poll", "dispatch", "peek", "write", "fill"} \subseteq InPlay
      /\ "status" \notin InPlay /\ "decode" \notin InPlay
      /\ "fill" \in AtWork
    BY DEF AtWork, InPlay, Place, AtLoop, AtPause
  <1>0. seek \in BOOLEAN /\ within \in BOOLEAN /\ left \in 0 .. 2
    BY DEF ProcessInv, TrackInv, Flags
  <1>a. /\ pc \in InPlay => left > 0 /\ track.format # NoFormat
        /\ pc = "status" /\ (seek \/ within \/ left > 0) => track.format # NoFormat
    BY DEF ProcessInv, TrackInv, FormatInv, Begun
  <1>1. CASE Poll
    <2>1. /\ pc = "poll" /\ UNCHANGED <<mainVars, pipeVars, toMain, trackVars, audioVars>>
          /\ Goto("dispatch") \/ Goto("peek")
      BY <1>1 DEF Poll, Runs
    <2>2. QED
      BY <1>0, <1>a, <2>1, MoveKeeps DEF trackVars
  <1>2. CASE Dispatch
    <2>1. pc \in {"dispatch", "peek"} /\ UNCHANGED <<mainVars, toMain, audioVars>>
      BY <1>2 DEF Dispatch, Runs
    <2>2. CASE Stop
      BY <2>1, <2>2, StopKeeps
    <2>3. CASE FromBuffer \/ FromSocket
      BY <2>1, <2>3, DispatchKeeps
    <2>4. CASE PipeClosed
      BY <2>1, <2>4, DiesKeeps DEF PipeClosed
    <2>5. CASE Goto("write") /\ UNCHANGED <<trackVars, pipeVars>>
      BY <1>0, <1>a, <2>1, <2>5, MoveKeeps DEF trackVars
    <2>6. QED
      BY <1>2, <2>2, <2>3, <2>4, <2>5 DEF Dispatch
  <1>3. CASE Write
    <2>1. pc = "write" /\ UNCHANGED <<mainVars, trackVars, pipeVars, toMain>>
      BY <1>3 DEF Write, Runs
    <2>2. CASE Goto("poll") /\ UNCHANGED audioVars
      BY <1>0, <1>a, <2>1, <2>2, MoveKeeps DEF trackVars
    <2>3. CASE TakeBuffer /\ Goto("fill")
      <3>1. PipeInv'
        BY <2>1 DEF ProcessInv, PipeInv, pipeVars, mainVars
      <3>2. Flags'
        BY <2>1, <2>3 DEF Goto, trackVars, ProcessInv, TrackInv, Flags
      <3>3. pc' = "fill" /\ pc' \in Place /\ fmt' = fmt
        BY <2>3 DEF Goto, Place, TakeBuffer
      <3>4. TrackInv'
        <4>1. FormatInv'
          BY <1>a, <2>1, <3>3 DEF trackVars, ProcessInv, TrackInv, FormatInv
        <4>2. QED
          BY <1>a, <2>1, <2>3, <3>2, <3>3, <4>1 DEF Goto, trackVars, ProcessInv, TrackInv
      <3>5. AudioInv'
        BY <2>1, <2>3, <3>3
        DEF TakeBuffer, ProcessInv, AudioInv, AudioTypeOK, OneOwner, SoundInv, SourceInv
      <3>6. QED
        BY <3>1, <3>4, <3>5 DEF ProcessInv
    <2>4. QED
      BY <1>3, <2>2, <2>3 DEF Write
  <1>4. CASE Fill
    <2>1. pc = "fill" /\ UNCHANGED <<mainVars, pipeVars, toMain>>
      BY <1>4 DEF Fill, Runs
    <2>d. CASE Dies /\ UNCHANGED audioVars
      BY <2>1, <2>d, DiesKeeps
    <2>n. CASE ~(Dies /\ UNCHANGED audioVars)
      <3> DEFINE from == IF track.told = track.format THEN "set" ELSE track.kind
      <3>1. /\ HandOver(track.format, from) /\ left' = left - 1 /\ Moved(left')
            /\ UNCHANGED <<track, seek, within>>
        BY <1>4, <2>n DEF Fill
      <3>2. left' \in 0 .. 2
        BY <1>0, <1>a, <2>1, <3>1
      <3>3. /\ from \notin {"opus", "vorbis"} => track.format = fmt
            /\ from \in Kind \cup {"unknown", "none", "set"}
            /\ track.format \in Format \cup {NoFormat}
        <4>1. track \in TrackType /\ FormatInv
          BY DEF ProcessInv, TrackInv
        <4>2. track.told \in {NoFormat, fmt} /\ track.format # NoFormat
          BY <1>a, <2>1, <4>1 DEF FormatInv
        <4>3. track.told # track.format => track.kind \in {"opus", "vorbis"}
          BY <4>1 DEF FormatInv
        <4>4. /\ track.kind \in Kind \cup {"unknown", "none"}
              /\ track.format \in Format \cup {NoFormat}
          BY <4>1 DEF TrackType
        <4>5. QED
          BY <4>2, <4>3, <4>4
      <3>4. PipeInv'
        BY <2>1 DEF ProcessInv, PipeInv, pipeVars, mainVars
      <3>5. Flags'
        BY <3>1 DEF Moved, Goto, ProcessInv, TrackInv, Flags
      <3>6. /\ pc' \in {"status", "decode", "poll"} /\ pc' \in Place /\ pc' \notin {"fill", "open"}
            /\ pc' = "poll" => left' # 0
            /\ nextfd' = nextfd /\ fmt' = fmt
        BY <3>1 DEF Moved, Goto, Place, HandOver
      <3>7. TrackInv'
        <4>1. FormatInv'
          BY <1>a, <2>1, <3>1, <3>6 DEF ProcessInv, TrackInv, FormatInv
        <4>2. QED
          BY <2>1, <3>1, <3>2, <3>5, <3>6, <4>1 DEF ProcessInv, TrackInv
      <3> HIDE DEF from
      <3>8. worker = "await" /\ ~go /\ ~ready
        BY <2>1 DEF ProcessInv, AudioInv, OneOwner
      <3>9. AudioInv'
        <4>1. AudioTypeOK' /\ OneOwner(pc = "fill")' /\ SourceInv'
          BY <3>1, <3>3, <3>6, <3>8
          DEF HandOver, ProcessInv, AudioInv, AudioTypeOK, OneOwner, SourceInv
        <4>2. SoundInv'
          BY <3>1, <3>3, <3>8 DEF HandOver, ProcessInv, AudioInv, SoundInv
        <4>3. QED
          BY <4>1, <4>2 DEF AudioInv
      <3>10. QED
        BY <3>4, <3>7, <3>9 DEF ProcessInv
    <2>2. QED
      BY <2>d, <2>n
  <1>5. CASE Status
    <2>1. /\ pc = "status" /\ UNCHANGED <<mainVars, trackVars, pipeVars, toMain, audioVars>>
          /\ (left = 0 /\ Goto("decode")) \/ (left # 0 /\ Goto("poll"))
      BY <1>5 DEF Status, Runs, SendStatus
    <2>a. UNCHANGED <<track, left, seek, within>>
      BY ONLY <2>1 DEF trackVars
    <2>b. left = 0 \/ left > 0
      BY <1>0
    <2>c. (pc' = "decode" /\ left = 0) \/ (pc' = "poll" /\ left # 0)
      BY ONLY <2>1 DEF Goto
    <2>2. /\ track' = track /\ left' = left /\ seek' = seek /\ within' = within
          /\ (pc' = "decode" /\ left = 0) \/ (pc' = "poll" /\ left > 0)
      BY ONLY <2>a, <2>b, <2>c, Zenon
    <2>3. Begun' => track.format # NoFormat
      BY <1>a, <2>1, <2>2 DEF Begun
    <2>4. QED
      BY <1>0, <2>1, <2>2, <2>3, MoveKeeps
  <1>6. QED
    BY <1>1, <1>2, <1>3, <1>4, <1>5

LEMMA StepGood == ASSUME ProcessInv, Step PROVE ProcessInv'
  <1>1. CASE Idle
    BY <1>1, PollGood DEF Idle
  <1>2. CASE Pause
    <2>1. CASE Waiting("paused", "pausedBlock")
      BY <1>2, <2>1, PollGood DEF Pause
    <2>2. CASE Runs("paused") /\ halted /\ Stop
      BY <1>2, <2>2, StopKeeps DEF Pause, Runs
    <2>3. QED
      BY <1>2, <2>1, <2>2 DEF Pause
  <1>3. QED
    BY <1>1, <1>2, LoopGood, PlayNextGood, DecodingGood, AbortedGood, PlayGood DEF Step

-----------------------------------------------------------------------------
(* The steps of the daemon and the signals.                                *)
LEMMA OthersKeep ==
    ASSUME ProcessInv, Main \/ MainSends \/ SignalPlayer \/ SignalMain \/ UNCHANGED vars
    PROVE  ProcessInv'
  <1>1. UNCHANGED <<audioVars, pc, nextfd, trackVars>>
    BY DEF Main, MainReads, MainSeesEnd, MainExits, MainSends, SignalPlayer, SignalMain,
           Elsewhere, vars
  <1>2. alive' \in BOOLEAN /\ halted' \in BOOLEAN
    BY DEF Main, MainReads, MainSeesEnd, MainExits, MainSends, SignalPlayer, SignalMain,
           Shutdown, vars, ProcessInv, TrackInv, Flags
  <1>3. Flags'
    BY <1>1, <1>2 DEF trackVars, ProcessInv, TrackInv, Flags
  <1>4. TrackInv'
    BY <1>1, <1>3 DEF trackVars, audioVars, ProcessInv, TrackInv, FormatInv, Begun
  <1>5. PipeInv'
    <2>1. CASE MainSends
      <3>1. PICK m \in Coarse!OrderMsg : wire' = Append(wire, m)
        BY <2>1 DEF MainSends
      <3>2. wire' \in Seq(Coarse!OrderMsg)
        BY <3>1 DEF ProcessInv, PipeInv
      <3>3. QED
        BY <2>1, <3>2 DEF MainSends, ProcessInv, PipeInv
    <2>2. CASE MainReads
      <3>1. toMain' \in Seq(Coarse!Report \cup {[type |-> "EOF", song |-> None]})
        BY <2>2 DEF MainReads, ProcessInv, PipeInv
      <3>2. QED
        BY <2>2, <3>1 DEF MainReads, ProcessInv, PipeInv, pipeVars, mainVars
    <2>3. CASE MainSeesEnd
      BY <2>3 DEF MainSeesEnd, Shutdown, ProcessInv, PipeInv
    <2>4. CASE MainExits
      BY <2>4 DEF MainExits, ProcessInv, PipeInv, pipeVars
    <2>5. CASE SignalPlayer
      BY <2>5 DEF SignalPlayer, ProcessInv, PipeInv, pipeVars
    <2>6. CASE SignalMain
      <3>1. open' \in BOOLEAN /\ main' \in {"running", "waiting", "exited"}
        BY <2>6 DEF SignalMain, Shutdown
      <3>2. orders' \in Nat /\ signals' \in Nat
        BY <2>6 DEF SignalMain, Shutdown, ProcessInv, PipeInv
      <3>3. UNCHANGED <<wire, rbufs, toMain>>
        BY <2>6 DEF SignalMain, Shutdown
      <3>4. QED
        BY <3>1, <3>2, <3>3 DEF ProcessInv, PipeInv
    <2>7. CASE UNCHANGED vars
      BY <2>7 DEF vars, ProcessInv, PipeInv, pipeVars, mainVars
    <2>8. QED
      BY <2>1, <2>2, <2>3, <2>4, <2>5, <2>6, <2>7 DEF Main
  <1>6. QED
    BY <1>1, <1>4, <1>5, AudioKeptInPlace DEF ProcessInv

LEMMA ProcessInvariance == ProcessSpec => []ProcessInv
  <1>1. ProcessInv /\ [ProcessNext]_vars => ProcessInv'
    BY StepGood, ThreadKeeps, OthersKeep DEF ProcessNext
  <1>2. QED
    BY <1>1, ProcessInitInv, PTL DEF ProcessSpec

-----------------------------------------------------------------------------
(* play() and aworker() never touch the shared buffer at the same time: it *)
(* is with the player only between the worker's byte and its own.          *)
THEOREM OneBufferTheorem == ProcessSpec => []OneBuffer
  <1>1. ProcessInv => OneBuffer
    <2> SUFFICES ASSUME ProcessInv PROVE OneBuffer
      OBVIOUS
    <2>1. {open, alive, halted, seek, within} \subseteq BOOLEAN
      <3>1. open \in BOOLEAN
        BY DEF ProcessInv, PipeInv
      <3>2. /\ alive \in BOOLEAN /\ halted \in BOOLEAN /\ seek \in BOOLEAN
            /\ within \in BOOLEAN
        BY DEF ProcessInv, TrackInv, Flags
      <3>3. QED
        BY <3>1, <3>2, Zenon
    <2>2. ProcessTypeOK
      BY <2>1 DEF ProcessTypeOK, ProcessInv, AudioInv, SourceInv, PipeInv, TrackInv
    <2>3. BufferIsOwned(pc = "fill")
      BY DEF BufferIsOwned, ProcessInv, AudioInv, OneOwner
    <2>4. QED
      BY <2>2, <2>3 DEF OneBuffer, ProcessInv, AudioInv
  <1>2. QED
    BY <1>1, ProcessInvariance, PTL

(* ao_play() is given sound in the format its device was opened with, but  *)
(* for three cases: a format set up while a buffer was with the worker,    *)
(* until the thread is right about its device again; opus, whose data are  *)
(* not of the rate that is set up, or that have none set up; and a vorbis  *)
(* file that changes its rate. A track of the other three decoders is      *)
(* played right whatever opus or vorbis have played before it.             *)
THEOREM RightFormatTheorem == ProcessSpec => []RightFormat
  <1>1. ProcessInv => RightFormat
    BY DEF ProcessInv, AudioInv, SoundInv, RightFormat
  <1>2. QED
    BY <1>1, ProcessInvariance, PTL

-----------------------------------------------------------------------------
(* The process does to its pipes what module Player says.  A track is      *)
(* enqueued only on the way to player_playnext(): without this, an order   *)
(* read by play() could find one, and the end of a track start another.    *)
Enqueued == nextfd # None => pc \in {"loop", "idle", "aborted"}

LEMMA SeenByPlayer ==
    Coarse!playerVars = <<rbufs \o wire, toMain, Seen, nextfd, track.song>>
  BY DEF Coarse!playerVars, Seen

(* A step within one of the places of module Player.                       *)
Hidden == UNCHANGED <<rbufs \o wire, toMain, Seen, nextfd, track.song>>

CoarseStep == [Coarse!AloneNext \/ HaltedStop \/ FlacEof]_(Coarse!playerVars)

LEMMA HiddenStutters == Hidden => CoarseStep
  BY SeenByPlayer DEF Hidden, CoarseStep, Seen, Coarse!playerVars

(* What player_dispatch() finds is the head of the one queue of orders.    *)
LEMMA OneQueue ==
    ASSUME PipeInv, FromBuffer \/ FromSocket
    PROVE  \E m \in Coarse!OrderMsg :
              /\ Handle(m)
              /\ rbufs \o wire # <<>> /\ m = Head(rbufs \o wire)
              /\ rbufs' \o wire' = Tail(rbufs \o wire)
  <1>1. rbufs \in Seq(Coarse!OrderMsg) /\ wire \in Seq(Coarse!OrderMsg)
    BY DEF PipeInv
  <1>2. CASE FromBuffer
    <2>1. rbufs # <<>> /\ rbufs' = Tail(rbufs) /\ wire' = wire /\ Handle(Head(rbufs))
      BY <1>2 DEF FromBuffer
    <2>2. rbufs \o wire # <<>> /\ Head(rbufs \o wire) = Head(rbufs)
          /\ Head(rbufs) \in Coarse!OrderMsg
      BY <1>1, <2>1
    <2>3. Tail(rbufs) \o wire = Tail(rbufs \o wire)
      BY <1>1, <2>1
    <2>4. QED
      BY <2>1, <2>2, <2>3
  <1>3. CASE FromSocket
    <2>1. rbufs = <<>> /\ wire # <<>> /\ rbufs' = Tail(wire) /\ wire' = <<>>
          /\ Handle(Head(wire))
      BY <1>3 DEF FromSocket
    <2>2. rbufs \o wire = wire
      BY <1>1, <2>1
    <2>3. Tail(wire) \o <<>> = Tail(wire) /\ Head(wire) \in Coarse!OrderMsg
      BY <1>1, <2>1
    <2>4. QED
      BY <2>1, <2>2, <2>3
  <1>4. QED
    BY <1>2, <1>3

LEMMA OrderRead ==
    ASSUME ProcessInv, FromBuffer \/ FromSocket, UNCHANGED toMain, nextfd = None,
           pc \in {"idle", "idleBlock", "dispatch", "peek"} \cup AtPause
    PROVE  CoarseStep /\ Enqueued'
  <1>1. PICK m \in Coarse!OrderMsg :
           /\ Handle(m)
           /\ rbufs \o wire # <<>> /\ m = Head(rbufs \o wire)
           /\ rbufs' \o wire' = Tail(rbufs \o wire)
    BY OneQueue DEF ProcessInv
  <1>2. /\ nextfd' = Coarse!FdAfter(m) /\ pc' = After(m)
        /\ IF pc' \in AtLoop THEN track' = NoTrack ELSE track' = track
    BY <1>1 DEF Handle, LeaveTrack, Coarse!FdAfter
  <1>3. m.type # "PLAY" => nextfd' = None
    BY <1>2 DEF Coarse!FdAfter
  <1>4. m.type \in Coarse!Order
    BY DEF Coarse!OrderMsg, Coarse!Order
  <1>5. ~Coarse!AlreadyEnqueued(m)
    BY DEF Coarse!AlreadyEnqueued
  <1>6. Enqueued'
    BY <1>2, <1>3 DEF After, StopAt, Enqueued, Coarse!Returned, AtLoop
  <1>7. NoTrack.song = None
    BY DEF NoTrack
  <1>8. Coarse!BackToLoop(nextfd') = IF nextfd' = None THEN "idle" ELSE "starting"
    BY DEF Coarse!BackToLoop
  <1>9. \/ pc' \in AtLoop /\ Seen' = Coarse!BackToLoop(nextfd') /\ track'.song = None
        \/ pc' = "paused" /\ Seen' = "paused" /\ track'.song = track.song
        \/ pc' = "write" /\ Seen' = "playing" /\ track'.song = track.song
    <2>1. pc' \in AtLoop \/ pc' = "paused" \/ pc' = "write"
      BY <1>2 DEF After, StopAt, AtLoop
    <2>2. "paused" \notin AtLoop /\ "write" \notin AtLoop
      BY DEF AtLoop
    <2>3. QED
      BY <1>2, <1>7, <1>8, <2>1, <2>2 DEF Seen, AtLoop, AtPause
  <1>10. CASE pc \in {"idle", "idleBlock"}
    <2>1. pc \in AtLoop /\ Seen = "idle" /\ pc' = "idle" /\ pc' \in AtLoop
      BY <1>2, <1>10 DEF Seen, After, AtLoop, AtPause
    <2>2. Seen' = Coarse!AfterIdle(m) /\ track'.song = None
      BY <1>2, <1>9, <2>1 DEF Coarse!AfterIdle
    <2>3. Seen' \notin {"playing", "paused"}
      BY <2>2 DEF Coarse!AfterIdle, Coarse!BackToLoop
    <2>4. Coarse!DispatchIdle
      BY <1>1, <1>2, <1>5, <2>1, <2>2, <2>3 DEF Coarse!DispatchIdle, Coarse!Dispatch, Seen
    <2>5. QED
      BY <1>6, <2>4 DEF CoarseStep, Coarse!AloneNext, Coarse!PlayerNext
  <1>11. CASE pc \in {"dispatch", "peek"}
    <2>1. pc \notin AtLoop /\ pc \notin AtPause /\ Seen = "playing"
      BY <1>11 DEF Seen, AtLoop, AtPause
    <2>2. Seen' = Coarse!AfterPlaying(m)
      BY <1>2, <1>4, <1>9, <2>1
      DEF After, StopAt, AtLoop, Coarse!AfterPlaying, Coarse!Returned, Coarse!Order
    <2>3. track'.song = IF Seen' \in {"playing", "paused"} THEN track.song ELSE None
      BY <1>9 DEF Coarse!BackToLoop
    <2>4. Coarse!DispatchPlaying
      BY <1>1, <1>2, <1>5, <2>1, <2>2, <2>3
      DEF Coarse!DispatchPlaying, Coarse!Dispatch, Seen
    <2>5. QED
      BY <1>6, <2>4 DEF CoarseStep, Coarse!AloneNext, Coarse!PlayerNext
  <1>12. CASE pc \in AtPause
    <2>1. pc \notin AtLoop /\ Seen = "paused"
      BY <1>12 DEF Seen, AtLoop, AtPause
    <2>2. Seen' = Coarse!AfterPaused(m)
      BY <1>2, <1>4, <1>9, <1>12, <2>1
      DEF After, StopAt, AtLoop, Coarse!AfterPaused, Coarse!Returned, Coarse!Order
    <2>3. track'.song = IF Seen' \in {"playing", "paused"} THEN track.song ELSE None
      BY <1>9 DEF Coarse!BackToLoop
    <2>4. Coarse!DispatchPaused
      BY <1>1, <1>2, <1>5, <2>1, <2>2, <2>3
      DEF Coarse!DispatchPaused, Coarse!Dispatch, Seen
    <2>5. QED
      BY <1>6, <2>4 DEF CoarseStep, Coarse!AloneNext, Coarse!PlayerNext
  <1>13. QED
    BY <1>10, <1>11, <1>12

(* The end of a track that played to its end or could not be played.       *)
LEMMA ReportSeen ==
    ASSUME Enqueued, NEW t \in {"EOF", "ERR"}, Report(t), pc \in {"open", "decode"}
    PROVE  CoarseStep /\ Enqueued'
  <1>1. nextfd = None /\ nextfd' = None /\ pc' = "loop"
    BY DEF Enqueued, Report
  <1>2. Seen = "playing" /\ Seen' = "idle"
    BY <1>1 DEF Seen, AtLoop, AtPause
  <1>3. /\ toMain' = Append(toMain, [type |-> t, song |-> track.song])
        /\ track'.song = None /\ rbufs' \o wire' = rbufs \o wire
    BY DEF Report, Send, NoTrack, pipeVars
  <1>4. Coarse!Finish(t)
    BY <1>1, <1>2, <1>3 DEF Coarse!Finish, Seen
  <1>5. QED
    BY <1>1, <1>4
    DEF CoarseStep, Coarse!AloneNext, Coarse!PlayerNext, Coarse!EndOfTrack,
        Coarse!DecodeError, Enqueued

(* Steps among the places of one kind.                                     *)
LEMMA MoveSeen ==
    ASSUME ProcessInv, Enqueued, UNCHANGED <<pipeVars, toMain, nextfd, track>>,
           pc \in AtWork \ AtPause, pc' \in AtWork \ AtPause
    PROVE  Hidden /\ Enqueued'
  <1>1. Seen' = Seen
    BY DEF Seen, AtWork, AtLoop, AtPause
  <1>2. nextfd = None
    BY DEF Enqueued, AtWork, AtLoop
  <1>3. QED
    BY <1>1, <1>2 DEF Hidden, Enqueued, pipeVars

LEMMA DiesSeen ==
    ASSUME Enqueued, Dies, UNCHANGED <<pipeVars, toMain>>
    PROVE  Hidden /\ Enqueued'
  BY DEF Dies, Hidden, Enqueued, Seen, pipeVars, trackVars

LEMMA StopSeen ==
    ASSUME Enqueued, halted, Stop, UNCHANGED toMain, pc \in {"paused", "dispatch", "peek"}
    PROVE  CoarseStep /\ Enqueued'
  <1>1. nextfd = None /\ nextfd' = None /\ pc' \in AtLoop /\ pc \notin AtLoop
    BY DEF Stop, Goto, StopAt, Enqueued, AtLoop
  <1>2. Seen' = "idle" /\ Seen \in {"playing", "paused"}
    BY <1>1 DEF Seen, AtLoop, AtPause
  <1>3. track'.song = None /\ UNCHANGED <<rbufs, wire, nextfd>>
    BY DEF Stop, LeaveTrack, NoTrack, Goto, pipeVars
  <1>4. HaltedStop
    BY <1>2, <1>3 DEF HaltedStop
  <1>5. QED
    BY <1>1, <1>4 DEF CoarseStep, Enqueued

(* player_dispatch() called to wait, and the loop of player().             *)
LEMMA WaitingSeen ==
    ASSUME ProcessInv, Enqueued, Idle \/ Pause \/ Loop \/ PlayNext
    PROVE  CoarseStep /\ Enqueued'
  <1>1. CASE Idle
    <2>1. nextfd = None /\ UNCHANGED toMain /\ pc \in {"idle", "idleBlock"}
      BY <1>1 DEF Idle, Waiting, Runs
    <2>2. CASE FromBuffer \/ FromSocket
      BY <2>1, <2>2, OrderRead
    <2>3. CASE PipeClosed
      BY <2>1, <2>3, DiesSeen, HiddenStutters DEF PipeClosed
    <2>4. CASE Goto("idleBlock") /\ UNCHANGED <<pipeVars, trackVars>>
      <3>1. Seen = "idle" /\ Seen' = "idle" /\ nextfd' = None
        BY <2>1, <2>4 DEF Goto, Seen, AtLoop, AtPause
      <3>2. Hidden /\ Enqueued'
        BY <2>1, <2>4, <3>1 DEF Goto, Hidden, Enqueued, pipeVars, trackVars
      <3>3. QED
        BY <3>2, HiddenStutters
    <2>5. QED
      BY <1>1, <2>2, <2>3, <2>4 DEF Idle, Waiting
  <1>2. CASE Pause
    <2>1. nextfd = None /\ UNCHANGED toMain /\ pc \in AtPause
      BY <1>2 DEF Pause, Waiting, Runs, Enqueued, AtPause
    <2>2. CASE FromBuffer \/ FromSocket
      BY <2>1, <2>2, OrderRead
    <2>3. CASE PipeClosed
      BY <2>1, <2>3, DiesSeen, HiddenStutters DEF PipeClosed
    <2>4. CASE Goto("pausedBlock") /\ UNCHANGED <<pipeVars, trackVars>>
      <3>1. Seen = "paused" /\ Seen' = "paused" /\ nextfd' = None
        BY <2>1, <2>4 DEF Goto, Seen, AtLoop, AtPause
      <3>2. Hidden /\ Enqueued'
        BY <2>1, <2>4, <3>1 DEF Goto, Hidden, Enqueued, pipeVars, trackVars
      <3>3. QED
        BY <3>2, HiddenStutters
    <2>5. CASE Runs("paused") /\ halted /\ Stop
      BY <2>1, <2>5, StopSeen DEF Runs
    <2>6. QED
      BY <1>2, <2>2, <2>3, <2>4, <2>5 DEF Pause, Waiting
  <1>3. CASE Loop
    <2>1. pc = "loop" /\ UNCHANGED <<pipeVars, toMain>>
      BY <1>3 DEF Loop, Runs
    <2>2. CASE Dies
      BY <2>1, <2>2, DiesSeen, HiddenStutters
    <2>3. CASE Goto("idle") /\ UNCHANGED trackVars
      <3>1. Seen' = Seen /\ nextfd' = nextfd
        BY <2>1, <2>3 DEF Goto, Seen, AtLoop, AtPause
      <3>2. Hidden /\ Enqueued'
        BY <2>1, <2>3, <3>1 DEF Goto, Hidden, Enqueued, pipeVars, trackVars
      <3>3. QED
        BY <3>2, HiddenStutters
    <2>4. QED
      BY <1>3, <2>2, <2>3 DEF Loop
  <1>4. CASE PlayNext
    <2>1. /\ pc = "idle" /\ nextfd # None /\ pc' = "open" /\ nextfd' = None
          /\ track'.song = nextfd /\ toMain' = toMain /\ rbufs' \o wire' = rbufs \o wire
      BY <1>4 DEF PlayNext, NoTrack, Runs, SendStatus, pipeVars
    <2>2. Seen = "starting" /\ Seen' = "playing"
      BY <2>1 DEF Seen, AtLoop, AtPause
    <2>3. Coarse!PlayNext
      BY <2>1, <2>2 DEF Coarse!PlayNext, Seen
    <2>4. QED
      BY <2>1, <2>3 DEF CoarseStep, Coarse!AloneNext, Coarse!PlayerNext, Enqueued
  <1>5. QED
    BY <1>1, <1>2, <1>3, <1>4

LEMMA PlayingPlaces ==
    {"open", "decode", "poll", "peek", "dispatch", "write", "fill", "status"}
        \subseteq AtWork \ AtPause
  BY DEF AtWork, Place, AtLoop, AtPause

LEMMA SetupSeen ==
    ASSUME ProcessInv, Enqueued, NEW place \in {"status", "decode"}, Setup(place),
           pc \in {"open", "decode"}
    PROVE  CoarseStep /\ Enqueued'
  <1>1. CASE Dies
    BY <1>1, DiesSeen, HiddenStutters DEF Setup
  <1>2. CASE /\ Goto(place)
             /\ \E x \in Format :
                   track' = [track EXCEPT !.told = x,
                                          !.format = Decoded(track.kind, x, OpusFormat)]
    <2>1. track'.song = track.song
      BY <1>2 DEF ProcessInv, TrackInv, TrackType
    <2>2. Seen' = Seen /\ nextfd = None /\ nextfd' = None
      BY <1>2 DEF Goto, Seen, AtLoop, AtPause, Enqueued
    <2>3. Hidden /\ Enqueued'
      BY <2>1, <2>2 DEF Setup, Hidden, Enqueued, pipeVars
    <2>4. QED
      BY <2>3, HiddenStutters
  <1>3. QED
    BY <1>1, <1>2 DEF Setup

LEMMA UnsetSeen ==
    ASSUME ProcessInv, Enqueued, NEW x, NEW place \in {"status", "decode"}, Unset(x, place),
           pc \in {"open", "decode"}
    PROVE  CoarseStep /\ Enqueued'
  <1>1. track'.song = track.song
    BY DEF Unset, ProcessInv, TrackInv, TrackType
  <1>2. Seen' = Seen /\ nextfd = None /\ nextfd' = None
    BY DEF Unset, Goto, Seen, AtLoop, AtPause, Enqueued
  <1>3. Hidden /\ Enqueued'
    BY <1>1, <1>2 DEF Unset, Hidden, Enqueued, pipeVars
  <1>4. QED
    BY <1>3, HiddenStutters

LEMMA DecodingSeen ==
    ASSUME ProcessInv, Enqueued,
           Open \/ Data \/ Reformat \/ End \/ SeekFails \/ Seek \/ SeekReturns
    PROVE  CoarseStep /\ Enqueued'
  <1>1. CASE \E t \in {"EOF", "ERR"} : Report(t)
    <2>1. pc \in {"open", "decode"}
      BY DEF Open, Data, Reformat, End, SeekFails, Seek, SeekReturns, Reading, Decoding, Runs
    <2>2. QED
      BY <1>1, <2>1, ReportSeen
  <1>2. CASE Setup("status") \/ Setup("decode")
    <2>1. pc \in {"open", "decode"}
      BY DEF Open, Data, Reformat, End, SeekFails, Seek, SeekReturns, Reading, Decoding, Runs
    <2>2. QED
      BY <1>2, <2>1, SetupSeen
  <1>u. CASE \/ Unset(NoFormat, "decode")
             \/ \E x \in Format \cup {OpusFormat}, place \in {"status", "decode"} :
                   Unset(x, place)
    <2>1. pc \in {"open", "decode"}
      BY DEF Open, Data, Reformat, End, SeekFails, Seek, SeekReturns, Reading, Decoding, Runs
    <2>2. QED
      BY <1>u, <2>1, UnsetSeen
  <1>3. CASE Data \/ Seek \/ SeekReturns
    <2>1. /\ pc = "decode" /\ pc' \in {"poll", "status", "decode"}
          /\ UNCHANGED <<pipeVars, toMain, nextfd, track>>
      BY <1>3 DEF Data, Seek, SeekReturns, Reading, Decoding, Runs, Moved, Goto
    <2>2. QED
      BY <2>1, PlayingPlaces, MoveSeen, HiddenStutters
  <1>4. SeekFailed(track.kind) \in {"EOF", "ERR"}
    BY DEF SeekFailed
  <1>5. QED
    BY <1>1, <1>2, <1>u, <1>3, <1>4 DEF Open, Reformat, End, SeekFails

LEMMA PlaySeen ==
    ASSUME ProcessInv, Enqueued, Poll \/ Dispatch \/ Write \/ Fill \/ Status \/ Aborted
    PROVE  CoarseStep /\ Enqueued'
  <1>1. CASE Poll \/ Write \/ Fill \/ Status
    <2>1. CASE Dies /\ UNCHANGED <<pipeVars, toMain>>
      BY <2>1, DiesSeen, HiddenStutters
    <2>2. CASE ~(Dies /\ UNCHANGED <<pipeVars, toMain>>)
      <3>1. /\ pc \in {"poll", "write", "fill", "status"}
            /\ pc' \in {"dispatch", "peek", "fill", "poll", "status", "decode"}
            /\ UNCHANGED <<pipeVars, toMain, nextfd, track>>
        BY <1>1, <2>2 DEF Poll, Write, Fill, Status, Runs, Goto, Moved, SendStatus, trackVars
      <3>2. QED
        BY <3>1, PlayingPlaces, MoveSeen, HiddenStutters
    <2>3. QED
      BY <2>1, <2>2
  <1>2. CASE Dispatch
    <2>1. pc \in {"dispatch", "peek"} /\ nextfd = None /\ UNCHANGED toMain
      BY <1>2 DEF Dispatch, Runs, Enqueued
    <2>2. CASE halted /\ Stop
      BY <2>1, <2>2, StopSeen
    <2>3. CASE FromBuffer \/ FromSocket
      BY <2>1, <2>3, OrderRead
    <2>4. CASE PipeClosed
      BY <2>1, <2>4, DiesSeen, HiddenStutters DEF PipeClosed
    <2>5. CASE Goto("write") /\ UNCHANGED <<trackVars, pipeVars>>
      <3>1. pc' = "write" /\ UNCHANGED <<pipeVars, toMain, nextfd, track>>
        BY <2>1, <2>5 DEF Goto, trackVars
      <3>2. QED
        BY <2>1, <3>1, PlayingPlaces, MoveSeen, HiddenStutters
    <2>6. QED
      BY <1>2, <2>2, <2>3, <2>4, <2>5 DEF Dispatch
  <1>3. CASE Aborted
    <2>1. /\ pc = "aborted" /\ pc' = "loop" /\ UNCHANGED <<rbufs, wire, nextfd, track>>
          /\ toMain' = Append(toMain, [type |-> "EOF", song |-> None])
      BY <1>3 DEF Aborted, Runs, Send, Goto, pipeVars
    <2>2. Seen' = Seen
      BY <2>1 DEF Seen, AtLoop, AtPause
    <2>3. FlacEof
      BY <2>1, <2>2 DEF FlacEof
    <2>4. QED
      BY <2>1, <2>3 DEF CoarseStep, Enqueued
  <1>4. QED
    BY <1>1, <1>2, <1>3

LEMMA OthersSeen ==
    ASSUME ProcessInv, Enqueued,
           \/ Thread \/ Main \/ MainSends \/ SignalPlayer \/ SignalMain \/ UNCHANGED vars
    PROVE  CoarseStep /\ Enqueued'
  <1>1. UNCHANGED <<pc, nextfd, track>>
    BY DEF Thread, Main, MainReads, MainSeesEnd, MainExits, MainSends, SignalPlayer,
           SignalMain, Elsewhere, vars, trackVars
  <1>2. Seen' = Seen /\ Enqueued'
    BY <1>1 DEF Seen, Enqueued
  <1>3. CASE MainSends
    <2>1. PICK m \in Coarse!OrderMsg : wire' = Append(wire, m) /\ UNCHANGED <<rbufs, toMain>>
      BY <1>3 DEF MainSends
    <2>2. rbufs \in Seq(Coarse!OrderMsg) /\ wire \in Seq(Coarse!OrderMsg)
      BY DEF ProcessInv, PipeInv
    <2>3. rbufs' \o wire' = Append(rbufs \o wire, m)
      BY <2>1, <2>2
    <2>4. Coarse!PeerSends
      BY <1>1, <1>2, <2>1, <2>3 DEF Coarse!PeerSends, Seen
    <2>5. QED
      BY <1>2, <2>4 DEF CoarseStep, Coarse!AloneNext
  <1>4. CASE MainReads
    <2>1. toMain # <<>> /\ toMain' = Tail(toMain) /\ rbufs' \o wire' = rbufs \o wire
      BY <1>4 DEF MainReads, pipeVars
    <2>2. Coarse!PeerReads
      BY <1>1, <1>2, <2>1 DEF Coarse!PeerReads, Seen
    <2>3. QED
      BY <1>2, <2>2 DEF CoarseStep, Coarse!AloneNext
  <1>5. CASE Thread \/ MainSeesEnd \/ MainExits \/ SignalPlayer \/ SignalMain \/ UNCHANGED vars
    <2>1. UNCHANGED <<rbufs, wire, toMain>>
      BY <1>5 DEF Thread, MainSeesEnd, MainExits, SignalPlayer, SignalMain, Shutdown,
                  vars, pipeVars
    <2>2. Hidden
      BY <1>1, <1>2, <2>1 DEF Hidden
    <2>3. QED
      BY <1>2, <2>2, HiddenStutters
  <1>6. QED
    BY <1>3, <1>4, <1>5 DEF Main

(* The player at the grain of its system calls is the process that module  *)
(* Player describes and the proofs about the daemon rely on, but for two   *)
(* kinds of steps: a track that a signal ends, and one that flac reports   *)
(* although it was told to stop. What follows these is as in Player again. *)
THEOREM PlayerIsPlayer == ProcessSpec => Refinement
  <1>1. ProcessInit => Enqueued /\ Coarse!PlayerInit
    <2> SUFFICES ASSUME ProcessInit PROVE Enqueued /\ Coarse!PlayerInit
      OBVIOUS
    <2>1. Seen = "idle" /\ track.song = None /\ rbufs \o wire = <<>>
      BY DEF ProcessInit, Seen, AtLoop, AtPause, NoTrack
    <2>2. QED
      BY <2>1 DEF ProcessInit, Enqueued, Coarse!PlayerInit, Seen
  <1>2. ProcessInv /\ Enqueued /\ [ProcessNext]_vars => CoarseStep /\ Enqueued'
    BY WaitingSeen, DecodingSeen, PlaySeen, OthersSeen DEF ProcessNext, Step
  <1>3. ProcessInv /\ Enqueued /\ [ProcessNext]_vars =>
           Enqueued' /\ [Coarse!AloneNext \/ HaltedStop \/ FlacEof]_(Coarse!playerVars)
    BY <1>2 DEF CoarseStep
  <1>4. QED
    BY <1>1, <1>3, ProcessInvariance, PTL DEF ProcessSpec, Refinement
=============================================================================
