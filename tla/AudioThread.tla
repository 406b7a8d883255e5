----------------------------- MODULE AudioThread ----------------------------
(***************************************************************************)
(* The worker thread of the libao backend (audio_ao.c; audio_oboe.cpp is   *)
(* built the same way) and what the player calls of it.  The threads share *)
(* a buffer of sound and the format to play it in, without a lock: one     *)
(* byte written to a socket pair says that the worker is ready, one written *)
(* back that the buffer is full.  Only the buffer is protected by this.    *)
(***************************************************************************)
CONSTANTS
    Format,     (* sample formats: bits, rate and channels                  *)
    NoFormat    (* of a device that is not open                             *)

ASSUME NoFormatIsNoFormat == NoFormat \notin Format

VARIABLES
    worker,     (* where the thread is, see WorkerPlace                     *)
    ready,      (* its byte waits for the player in the socket              *)
    go,         (* the player's byte waits for the thread                   *)
    fmt,        (* the format audio_setup() was last given, NoFormat before *)
    known,      (* f of aworker(): the format it believes to have opened    *)
    device,     (* the format the device was opened with                    *)
    sound,      (* the format of what the shared buffer holds to be played  *)
    source,     (* history: "set" if that was set up by who filled it, else *)
                (* the decoder that did not                                 *)
    crossed     (* history: the format changed under a buffer handed over,  *)
                (* and the thread may be wrong about its device since       *)

audioVars == <<worker, ready, go, fmt, known, device, sound, source, crossed>>

(* "offer": about to write its byte; "await": reading the player's, then   *)
(* looking at fmt; "open", "record": making the device play fmt; "play":   *)
(* in ao_play(); "gone": left the loop and closed its socket.              *)
WorkerPlace == {"offer", "await", "open", "record", "play", "gone"}

AudioInit == /\ worker = "offer"
             /\ ready = FALSE /\ go = FALSE
             /\ fmt = NoFormat /\ known = NoFormat
             /\ device = NoFormat /\ sound = NoFormat
             /\ source = "set" /\ crossed = FALSE

-----------------------------------------------------------------------------
(* aworker().  The device is opened with the format of one moment and the  *)
(* format of a later one is recorded for it.                               *)
Offer == /\ worker = "offer"
         /\ worker' = "await" /\ ready' = TRUE
         /\ UNCHANGED <<go, fmt, known, device, sound, source, crossed>>

(* A definition that follows one named Faulty... is what the code does;    *)
(* the faulty one is the bug that a run is shown to notice.                *)
FaultyCompare == IF device # NoFormat THEN "play" ELSE "open"  (* opens once *)
Compare == IF fmt = known THEN "play" ELSE "open"

Await == /\ worker = "await" /\ go
         /\ go' = FALSE /\ worker' = Compare
         /\ UNCHANGED <<ready, fmt, known, device, sound, source, crossed>>

OpenDevice == /\ worker = "open"
              /\ \/ device' = fmt /\ worker' = "record"
                 \/ device' = NoFormat /\ worker' = "gone"
              /\ UNCHANGED <<ready, go, fmt, known, sound, source, crossed>>

Record == /\ worker = "record"
          /\ known' = fmt /\ worker' = "play"
          /\ UNCHANGED <<ready, go, fmt, device, sound, source, crossed>>

(* ao_play() fails without a device. What the buffer holds is not looked   *)
(* at again.                                                               *)
PlaySound == /\ worker = "play"
             /\ \/ worker' = "offer" /\ device # NoFormat
                \/ worker' = "gone"
             /\ sound' = NoFormat /\ source' = "set"
             /\ crossed' = (crossed /\ known # device)
             /\ UNCHANGED <<ready, go, fmt, known, device>>

WorkerNext == Offer \/ Await \/ OpenDevice \/ Record \/ PlaySound

-----------------------------------------------------------------------------
(* The worker will look at fmt for the buffer it was handed.               *)
InFlight == go \/ worker \in {"open", "record"}

(* audio_setup(): writes fmt at once, whatever the worker is doing.        *)
AudioSetup(x) == /\ fmt' = x
                 /\ crossed' = (crossed \/ (x # fmt /\ InFlight))
                 /\ UNCHANGED <<worker, ready, go, known, device, sound, source>>

FaultyTakeBuffer ==     (* takes the comment of audio_revents() at its word *)
    ready' = FALSE /\ UNCHANGED <<worker, go, fmt, known, device, sound, source, crossed>>

(* audio_write(), in two steps: the read() that blocks until the worker is *)
(* ready, then filling the buffer and handing it over.                     *)
TakeBuffer == /\ ready /\ ready' = FALSE
              /\ UNCHANGED <<worker, go, fmt, known, device, sound, source, crossed>>

HandOver(x, from) == /\ sound' = x /\ source' = from /\ go' = TRUE
                     /\ UNCHANGED <<worker, ready, fmt, known, device, crossed>>

(* The worker has closed its socket: that read() finds the end of it.      *)
HungUp == worker = "gone" /\ ~ready

-----------------------------------------------------------------------------
AudioTypeOK == /\ worker \in WorkerPlace
               /\ ready \in BOOLEAN /\ go \in BOOLEAN /\ crossed \in BOOLEAN
               /\ {fmt, known, device, sound} \subseteq Format \cup {NoFormat}

(* The byte is in one place at a time; filling says that the player is     *)
(* between the two steps of audio_write().                                 *)
OneOwner(filling) ==
    /\ filling => ~ready /\ ~go
    /\ ready => ~go
    /\ ready \/ go \/ filling => worker = "await"

(* The worker never reads the buffer while the player fills it.            *)
BufferIsOwned(filling) == ~(filling /\ worker = "play")

(* What is played is of the format the device is open with, but for three  *)
(* cases. audio_setup() changed the format while a buffer was with the     *)
(* worker: that buffer, and then all that follows until another format     *)
(* opens the device anew, may be played at the rate of another track. opus *)
(* sets up the rate that the file was made from, if it says so, not the    *)
(* one that it is decoded at. And vorbis sets up the first rate of a file  *)
(* (player_oggvorbis.c:83).                                                *)
RightFormat ==
    worker = "play" /\ ~crossed /\ source \notin {"opus", "vorbis"} => device = sound
=============================================================================
