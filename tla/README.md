# A TLA+ model of amused

amused is a music player made of a daemon and the programs that talk to it. The
daemon is two processes: the *main* process owns the playing queue and serves
the control socket; the *player* process decodes one track at a time and writes
it to the sound device. Commands are short-lived processes that connect to the
socket; a web interface and a bridge to the desktop bus keep a connection open.
This directory models the parts of the program whose correctness depends on the
order of events, model-checks them with TLC on small instances, and proves the
main safety properties with TLAPS for every value of the constants.

## Inventory of the system

| part | state | operations | what is hard about it | when it is correct |
|---|---|---|---|---|
| playing queue, `playlist.c` | `playlist`, `play_off`, `current_song`, `play_state` | enqueue, truncate, swap, advance, previous, drop current, jump, shuffle | `play_off` and `current_song` say the same thing twice; every operation indexes by `play_off` unchecked; dropping steps back | the offset is -1 or in the queue; it is that of the current song; an advance after a drop lands on the follower |
| main process, `amused.c` | the above, `repeat_one/all`, `consume`, `current_status` | handlers of the player's EOF, ERR, META; searches for a playable file; start-up and shutdown | reports of the player cross commands of the clients; `main_shutdown()` waits for the player | daemon and player agree when nothing is in flight (a stopped one may not: see below); searches end; so does a shutdown |
| player process, `player.c` and the decoders | `nextfd`, the track in the decoder, `halted`, the seek asked for | read one order at the four places that call `player_dispatch()`; start, finish, fail a track; seek | orders sent for one track arrive during another; one `poll()` for two sources; signals between a test and a `poll()` | never fatal; obeys the last order; takes orders while it plays |
| audio backend, `audio_ao.c` | a buffer and its format, shared with a thread | setup, write, flush | no lock: one byte in a socket pair says whose the buffer is, and nothing says whose the format is | the buffer has one owner; sound is played in its own format (not always: see below) |
| control socket, `control.c` | connections, `control_state` (`tx`, `play`, `tout`) | accept, close, one request at a time, events for monitors | lock held by descriptor number, deaths in mid-load, running out of descriptors | a load is atomic; the lock has a live owner; clients are answered; accepting resumes |
| clients, `ctl.c` | one dialogue each | connect (start the daemon if needed), send, wait for replies | counts of replies; several clients that start the daemon at once | tells the truth, ends |
| messages, `compat/imsg*.c` | queues of buffers to write and read, partial ones | compose, write, read, get | writes and reads of any length; descriptors travel with one byte of the stream | whole messages, in order, each with its own descriptor |
| event loop, `ev.c` | descriptor table, timer heap and its reserve, signal pipe | add, del, timer, cancel, step | callbacks change the tables being walked | every ready descriptor that callbacks leave alone is served, and every expired timer; nothing is called for what was removed |
| web interface, `web/` | a copy of the queue and status, HTTP connections, websockets | events in, requests out; requests and frames | copy out of date; a list that arrives song by song; requests in pieces, slow peers | copy no older than the last event; answers complete and well framed; commands sent once |
| bus bridge, `mpris2/` | a copy of the status | events in, methods and properties | replies and events overtake each other | copy no older than the last event |
| `songmeta/`, `log.c`, `xmalloc.c`, rest of `compat/`, `contrib/` | none shared | parsing, formatting | library work | not modelled, see below |

How they interact: a client writes requests to the control socket; the main
process executes each in one handler (`control_dispatch_imsg()`), which may send
orders to the player through a pipe and replies and events to clients; the
player reports EOF, ERR and META through the same pipe's other direction, and
the main process handles those in `main_dispatch_player()`. Handlers run one at
a time, called by the event loop. The two processes run concurrently, with
messages under way in both directions. The web interface and the bridge are
clients that ask for SHOW and STATUS and then follow what monitors are told.

## Modules

| module | models | how |
|---|---|---|
| `Songs` | | the constants all share: songs and "no song" |
| `Playlist` | `playlist.c` | the globals are one record; each function is an operator on it |
| `ShuffleLoop` | `playlist_shuffle()` | what the loop produces for all draws, one turn after the other, as a recursive function, to compare with `Playlist!Shuffles` |
| `Player` | `player.c`, as the daemon sees it | `pc` says where the process waits (`idle`, `starting`, `playing`, `paused`); one action per place that calls `player_dispatch()`, plus `PlayNext` and the ways a track ends |
| `PlayerAlone` | the same against any peer | orders of any kind at any time, in pipes of any length |
| `AudioThread` | `audio_ao.c` | the thread's steps, and the player's calls as operators |
| `Decoders` | the five `player_*.c` loops | what differs between them: failures they pass over or report, seeks they drop or nest |
| `PlayerProcess` | `player.c`, the decoders, signals and `main_shutdown()`, over `AudioThread` | one action per system call that can block or be seen; implements `PlayerAlone` |
| `Amused` | main process, and its composition with `Player` | one action per command, per report; the three search loops are one action per iteration (`at` names the loop the process is in) |
| `Monitor` | `control_notify()` for playback | `Amused` plus the last event sent, the one owed by a handler whose loop is not over, and what the player was to do when the last report came |
| `QueueService` | the promise of `control.c` about the queue | abstract: every request takes effect at one instant, at most once |
| `Control` | `control.c` and the dialogues of `ctl.c` | sockets, descriptors, lock, staged list, deaths; implements `QueueService` |
| `Startup` | `ctl_connect()`, `ctl_get_lock()`, `start_child()`, `control_init()`, `control_listen()` | one action per system call that others can see; any process may die |
| `TimerSet` | what `ev.c` promises about timers | abstract: a set; each is cancelled, or fires once, when its time is over |
| `EvLoop` | `ev.c` | the heap as an array, the reserve, one action per turn of each loop of `ev_step()`, and callbacks that call any function; implements `TimerSet` |
| `MessageQueue` | what `imsg` promises | abstract: a queue of messages that may be cut off at the end when the sender goes |
| `Imsg` | `compat/imsg.c`, `compat/imsg-buffer.c` | the stream in units, one action per `sendmsg()` and `recvmsg()`; implements `MessageQueue` |
| `Notifier` | the daemon as a follower sees it | any change of queue, playback, mode or position, with the replies and events that the code sends and when |
| `WebView` | the copy and the page of `web/web.c` | one action per message handled, over `Notifier`; the browser applies what it is sent |
| `MprisView` | the copy in `mpris2/mpris2.c` | likewise |
| `Http` | `web/http.c`, `web/ws.c`, `web/bufio.c`, the routes | operators on `struct client`: parse, reply, write in chunks, close, one frame |
| `WebConn` | `client_ev()`, `web_accept()`, `dispatch_event()` | connections served by one thread; peers that send in pieces, read late or leave |
| `PlaylistProofs`, `AmusedProofs`, `ControlProofs`, `SocketProofs`, `PlayerProcessProofs`, `ViewsProofs`, `EvLoopProofs`, `WebConnProofs` | | the theorems (`AmusedProofs` also has those about `PlayerAlone`, `ShuffleLoop` and `Monitor`, `SocketProofs` those about `Startup` and `Imsg`; `PlaylistProofs` has lemmas only) |
| `MC...` | | constants for TLC; `MCViews` composes `WebView` or `MprisView` with the daemon |

`Playlist`'s operators are shared: `Amused` applies them in its handlers,
`Control` in those that edit the queue, `QueueService` in its atomic steps. So
`Amused` may treat a load as one step (`CtlCommit`) because `Control` is shown
to implement a specification where it is one. In the same way `Amused` uses
`Player` because `PlayerProcess` implements it but for two kinds of steps named
below, every module that has a pipe
uses a sequence of messages because `Imsg` implements a queue, and the fairness
of handlers rests on `EvLoop`.

Definitions whose name begins with `Faulty` are not part of any specification:
each is a plausible bug in the definition that follows it, kept to show that a
run notices it (the `mutants` of `PROJECT.json`).

### Correspondence with the code

The daemon and its clients:

* A song is a path. A file descriptor handed to the player is named by the song
  it was opened on. `MayOpen` and `MayFail` overlap: `open()` of one path can
  succeed at one time and fail at another.
* `player_dispatch()` turns PLAY into STOP for its caller; what each caller does
  with the result is `AfterIdle`, `AfterPlaying`, `AfterPaused`.
* A pipe is a sequence of messages: socket, kernel buffer and `imsgbuf` together.
  No message is lost or reordered (a stream socket).
* `main_dispatch_player()` and `control_dispatch_imsg()` may find several
  messages in what they read; since a read may end after any message, one
  message per action allows exactly the same orders and more interleavings. In
  `Notifier`, where it matters that replies of one read come together, `batch`
  keeps them together.
* A search loop is split into iterations because the player runs between them.
  Nothing else does in the main process: all other handlers need `at = "ready"`.
* `from` and `asked` in `Amused`, `adrift` in `Monitor`, the `song` of a report in
  `Player`, `done` in `Control`, `owed` in `EvLoop`, `source` and `crossed` in
  `AudioThread` are history variables. No guard reads them.
* In `Control` a client that dies may have sent any part of its requests; the
  daemon notices when it has read everything, or when a reply cannot be
  delivered, in which case it drops the rest. The descriptor of a closed
  connection can be given to the next client. `accept()` may fail for want of
  descriptors at any time (the whole system may be short of them).
* In `Startup` a client starts one daemon at most and opens the lock file at most
  once (an `open()` or `flock()` that fails leaves it without lock, and a file it
  may have created is as good as none). So one name stands for the client, its
  daemon, its open file description and its file. A lock is held by a
  description, which is open in the client (`ownFd`), in its daemon (`leakedFd`)
  or in both. Sleeping between two attempts is not modelled: a daemon may take
  longer than all attempts of a client. `faults` counts what goes wrong.

The player process:

* `pc` names the call the process is in; `Coarse` maps it to the four places of
  `Player`. `rbufs \o wire` is what `Player` calls `toPlayer`. Sound has no
  contents: `left` counts chunks of a buffer, `format` is what it must be played in
  and `told` what was set up for it.
* The two are not always the same. opus sets up what its header says, if it says
  anything (player_opus.c:84), and is decoded at 48 kHz whatever that is; vorbis
  sets up what the first link of a file has (player_oggvorbis.c:83), and others may
  follow: `Unset` is data that come without a set-up. The frames of a flac file are
  taken to be of the format in its STREAMINFO. With no set-up at all before the
  first data, as an opus file without a rate may have it, `audio_write()` divides
  by zero (audio_ao.c:212): `Fill` has the death of the process there.
* A signal finds the process in a blocking `poll()` or not. In the former case
  the call is interrupted and `fatal()` ends the process; in the latter only
  `halted` is set. `SA_RESTART` does not apply to `poll()`.
* A player that is halted in `while (nextfd == -1) player_dispatch(NULL, 1)`
  (player.c:348) stays there: `player_dispatch()` returns at once, for ever. It
  does not notice that the daemon has closed the pipe, and `main_shutdown()`
  waits for it. This takes a signal between the loop's test of `halted` and
  `poll()`; `ShutdownEndsOrSpins` names the case, and no other. With two signals
  the run reaches it by Ctrl-C, which goes to both processes.
* A step of the process is one of `Player`'s, or leaves alone what that sees, but for
  two kinds, which `Refinement` names: a signal ends a track without an order
  (`HaltedStop`), and a STOP during a seek in a flac file makes the seek fail, so that an
  EOF is sent for a track the daemon has stopped (`FlacEof`). The exceptions are
  for these steps only, and what comes after them is checked like all else.
* The ao thread opens the device with the format of one moment and records that
  of a later one (audio_ao.c:66 and 91). `crossed` marks a format that changed
  while a buffer was with the thread: the next track may then sound at the rate
  of the last until the thread is right about its device again. `RightFormat` says
  that sound is played in its format but for this case and the data of opus and
  vorbis files that were not set up for (`source`).

The event loop: `watched`, `revents` and `fresh` are `base->pfds` (a descriptor
in `fresh` was added since `poll()` returned, and `owed` are those of which that
said that they are ready and whose turn has not come); `timers` and `reserve` the two
parts of the array. Time is in whole units; `tv` is the field of the struct,
`rest` what is really left of the timer (history). The signal pipe is a
descriptor like any other, with a byte per signal.

The followers: `queueSince` and `playSince` hold all values since the last event
that told of a change, so "no older than the last event" can be stated. `missed`
marks a browser that came while a list was under way. HTTP text is reduced to
tokens: a line that is the request line, a header that matters, another or a bad
one, the end of the head, a form; "part" is the first half of a line or frame.
`Parse` takes the lines that have come as a set (`Lines`, `Heed`): in what order
they came matters for the first one only (`Opens`). `Requests` gives for each
request the answer that is due (`Due`), which the model does not look at.

## What is checked

Twelve runs. The two that look for a violation are listed further down.

| run | shows | bounds |
|---|---|---|
| `daemon_safety` | a daemon that plays or is paused has a song; `Agreement`: once all messages are delivered, a daemon that plays or is paused has a player that does, on the same song; `StoppedIsIdle`: one that has stopped has a silent player, unless the report that stopped it was of a track it had left already; the queue position is the current song's; the player is never killed by an order; `NextIsAdjacent`: NEXT goes to the follower but for songs it removes; monitors are told of pauses and of every start of playback but for two named cases | 2 songs, queue of up to 3, all 8 modes, loads without a position, one message waiting in a pipe when a command comes |
| `daemon_live` | `play_off` in range for loads that ask for any position; the loop of the shuffle produces exactly what SHUFFLE does in the model; every "playing" of the daemon is followed by the player's, or revoked; searches end | 2 songs, default modes, positions -1, 0, 1 (in range or not) |
| `control_safety` | `Control` implements `QueueService`; the lock's owner is alive and the staged list is a prefix of its own; what clients report is true | two loads (one with an unresolvable line and a mark), an add of two files, a flush; 4 clients on 2 descriptors, which are symmetric: no step depends on which is which |
| `control_live` | accepted clients are answered, or are an add that waits for nothing because a file of it has no path; the lock of the dead is released; accepting resumes | the load of an empty list, an add, an add of which one file cannot be resolved, a shuffle; 2 descriptors, without symmetry (which is not sound for liveness) |
| `startup` | while nothing goes wrong one daemon is started; whatever fails or dies, clients end unless a running daemon keeps the lock they wait for | 3 clients, one of them `amused -d`; 2 attempts (the code makes 100: two is what it takes to start a daemon, later ones repeat the same test); up to 2 faults |
| `event_loop` | `EvLoop` implements `TimerSet`; up to three timers are in order; no callback for an event of an earlier use of a descriptor; what `poll()` found ready is served in that turn, unless a callback deletes it or gives it to `ev_add()` again, which forgets what was found (ev.c:159); signals are served | 2 descriptors and the signal pipe, 3 timers, times 0 and 1, one call per callback (callbacks follow each other, so that sequences of calls arise) |
| `imsg` | `Imsg` implements `MessageQueue`; everything arrives if the sender stays | 4 messages of 4 kinds: a bare descriptor, a short and a long body, one that is too large; a socket of 5 units that cuts headers of 2 and bodies of 3 anywhere; 2 buffers to a write |
| `player_process` | every step of `PlayerProcess` is one of `PlayerAlone`'s, a stutter, or one of two named exceptions; one owner of the buffer; right format but for three named cases; a shutdown ends or spins; orders are taken while sound is played | 1 song in 2 formats, one of which is the one opus is decoded to, all 5 decoders, 3 orders, a socket of one message each way, two signals (one to each process, or both to one) |
| `views` | what each follower holds when all has been answered is no older than the last event about it; the page in the browser is the copy | 4 queues of 0 to 2 songs, 4 playbacks, 2 modes, 2 positions, 2 changes, one command |
| `web_conn` | answers are well framed and complete; a form sends its command once; who stays is answered | 2 connections, one of them a websocket that listens, the other any of ten dialogues, each cut into pieces; chunks of 2 pieces for a page of 3; a reader one piece behind; one event |

Two songs are enough for the daemon: one that can always be opened and one that
sometimes cannot, with queues that hold the latter twice, none, or both.
`MaxPipe` says when clients stop sending: while more than that number of
messages wait in a pipe. A handler sends up to two orders, so up to three wait
in each direction, and an EOF, an order and its answer can be in flight
together, which is the hazard. Longer queues of orders only repeat it. Nested
loops meet in `player_process` with three orders: one to start a track, one to
pause or seek, one to stop or replace it (a PLAY does both, and the track after it
starts with what this one left behind). Two signals are needed for Ctrl-C.

Deadlock is looked for in `Amused` and `Monitor`, which never stop. Elsewhere
clients, orders, changes or messages are bounded and the system rests at the end.

Two runs look for what the repository says and the program does not do; TLC
finds each, and `PROJECT.json` quotes the lines under `findings`:

* `stop_lasts`: a track ends while the main process handles STOP or PAUSE. The
  order reaches an idle player, which ignores it; the EOF makes the daemon play
  the next song.
* `timer_heap`: `cancel_timer()` moves the last timer into the place of the one
  removed and then only down. With seven timers the array is no heap afterwards,
  and `poll()` waits for `timers[0]` past the nearest one. `FewAreInOrder` and the
  single timer of the daemon (control.c:154) are why nobody has met it. No timer
  is lost: `TimersAreKept` holds, and says that a timer fires when its time is over, however late.

Two more such disagreements are exceptions that properties name, and hold but
for them; each run reaches its exception, and fails when the exception is taken out:

* `StoppedIsIdle`: `a`, `b` are queued and `a` ends while NEXT is handled, which
  sends STOP and PLAY `b`. The daemon takes the EOF for that of `b` (amused.c:163),
  runs off the end of the queue and is stopped, without a word to the player, which
  plays `b`. A STOP is then a no-op (control.c:356), until a PLAY. The manual says
  "stop: Stop the playback." (amused.1:221-222). `adrift` marks the case.
* `Answered`: an `add` of a path that `canonpath()` refuses sends no request for it
  (ctl.c:453) and yet waits for a reply (ctl.c:572), for ever: `WaitsForNothing`.
  The manual says "add: Enqueue the given files" (amused.1:71-72), and "Stop
  indefinitely" only of monitor (amused.1:99).

What events tell may differ from the state: `play` with nothing to play is announced as
playing, `seek` starts or resumes without any event; `StartIsTold` names the
exceptions. A load with an explicit position, while playing, moves the position
but not the current song, so that `show -p` marks a song that is not playing
until the next advance: the condition of `PositionIsCurrent`. `OneDaemon` is
conditional: after one fault (a client interrupted while it has the lock, or a
daemon that dies at start-up) two clients that waited for the lock start a
daemon each, without holding it. The web interface's mark of the current song is
stale after a PLAY from stopped, after the last track and after ADD, until the
next event that makes it ask for the queue again: `CopyIsRecent` says no more.
The server of the web interface reads and writes sockets that block
(`web_accept()` calls `client_ev()` at once): `Answered` needs peers that finish
what they send and read what they are sent. A peer that closes its sending half
before the answer is dropped without one.

### Fairness

`Amused` assumes that the main process gets on with a search it is in (WF), that
the player reads orders and starts what it was given (WF), and that reports are
eventually handled although clients keep the main process busy: `ev_step()`
visits every ready descriptor in each round, so commands cannot starve the
player's pipe (SF, since a search disables the handler). `AllServed` of `EvLoop`
is that fact. Its exception, a descriptor given to `ev_add()` again by a callback
of the same turn, does not meet this pipe: it is opened before the control socket
and its clients (amused.c:253), so it has a lower number and its turn comes first. Nothing obliges clients to act
or a track to end. `Control`
assumes the same of each connection, of the timer, and that a client blocked on
a reply wakes up; not that clients start, read their list to the end, or die.
`Startup` assumes that clients and daemons run (WF of their steps), not that
anything goes right or wrong. `EvLoop` assumes that callbacks return and the
loop runs. `Imsg` assumes that the descriptors that are ready are served (WF of
writing, reading and taking), not that the sender composes or stays.
`PlayerProcess` assumes that both processes and the thread run, that `ao_play()`
returns, and that a decoder that keeps being asked yields sound or ends (SF of
`Data \/ End`): mp3, vorbis and opus pass over errors in a loop, so a file that
gives nothing else would keep them busy without an end. Signals, orders and the
end of a track are not assumed. `WebConn` assumes that the loop serves what is
ready again and again (SF), and of peers what is said above.

## What is proved

| theorem | statement |
|---|---|
| `AmusedProofs!LoopIsTheShuffle` | the loop of `playlist_shuffle()` can produce exactly the orders that the models take, for a queue of any length |
| `AmusedProofs!PlayerNeverFatal` | whoever sends orders, the player reaches neither `fatalx("track already enqueued")` nor its assertion |
| `AmusedProofs!OffsetStaysInRange` | `play_off` is -1 or an offset of the queue, always; and all variables keep their types |
| `AmusedProofs!ActiveDaemonHasSong` | between events, a daemon that is not stopped has a current song |
| `AmusedProofs!DaemonNeverKillsPlayer` | `PlayerNeverFatal` for the player under the daemon |
| `AmusedProofs!PositionFollowsCurrent` | if no load asks for an explicit position, the position is that of the current song |
| `SocketProofs!OneDaemonIsStarted` | at most one daemon is started while nothing goes wrong |
| `AmusedProofs!DaemonAndPlayerAgree` | once all messages are delivered, a daemon that plays or is paused has a player that does, on the same song, and one that has stopped has an idle player but for the named exception |
| `AmusedProofs!StoppedDaemonIsSilent` | the second half alone: a stopped daemon leaves the player idle, unless a report of a track it had left already stopped it |
| `AmusedProofs!NextPlaysNeighbour` | NEXT plays the neighbour of the current song in the queue it leaves (an action property) |
| `AmusedProofs!DaemonObserved` | `Monitor` implements `Amused`: what is proved of the daemon holds of the daemon with its events |
| `AmusedProofs!PauseIsAnnounced` | the last event about playback sent while the daemon is paused is PAUSE |
| `AmusedProofs!StartIsAnnounced` | every start of playback is told, but for the two named cases (an action property) |
| `ControlProofs!ControlTypes` | all variables of the control socket keep their types |
| `ControlProofs!LockHasOwner` | the lock is that of a live connection, in the middle of its load; what is staged is the beginning of its own list |
| `ControlProofs!ClientsTellTheTruth` | success of a load or an add means that it has taken effect, failure of a load that it has not |
| `ControlProofs!LoadsAreAtomic` | `Control` implements `QueueService` |
| `PlayerProcessProofs!OneBufferTheorem` | the player and the audio thread never touch their buffer at the same time; and all variables keep their types |
| `PlayerProcessProofs!RightFormatTheorem` | sound is played in the format of the device, except for data of an opus or vorbis file that were not set up for, and after the format changed under a buffer that was handed over, until the thread is right about its device |
| `PlayerProcessProofs!PlayerIsPlayer` | every step of `PlayerProcess` is a step of `PlayerAlone` or a stutter, but for a track ended by a signal and the EOF for a flac track stopped in a seek |
| `ViewsProofs!WebKeepsUp` | when all has been answered, the web interface has a recent queue and playback and exactly the modes |
| `ViewsProofs!PageKeepsUp` | between lists, the page in the browser is the copy of the web interface |
| `ViewsProofs!BridgeKeepsUp` | when all has been answered, the bridge has a recent playback and exactly the modes |
| `EvLoopProofs!TimersAreSafe` | `EvLoop` implements `TimerSet`: a timer that was added and not cancelled fires once, and not before its time |
| `EvLoopProofs!EventsAreFresh` | a callback is made for what `poll()` said of this registration of the descriptor (an action property) |
| `EvLoopProofs!AllAreServed` | after a turn of the loop, what `poll()` found ready has been served, unless a callback deleted it or gave it to `ev_add()` again (an action property) |
| `EvLoopProofs!FewTimersAreInOrder` | with at most three timers pending at once, `poll()` waits for the nearest |
| `EvLoopProofs!EvTypes` | all variables of the event loop keep their types, for any number of timers |
| `SocketProofs!MessagesAreWhole` | `Imsg` implements `MessageQueue`: no message is torn, lost, doubled or overtaken, or comes without its descriptor |
| `SocketProofs!ImsgTypes` | the buffers of `imsg` keep their types, and what is being assembled is less than the message it is of |
| `WebConnProofs!CommandsAreSentOnce` | a form that is posted sends its command once, and has sent it when it is answered |
| `WebConnProofs!AnswersAreFramed` | what the web interface sends is well formed at any time and complete when it ends the connection; a websocket is told every event since it was opened, once and in order |

They hold for any set of clients, songs, files and descriptors, any queues,
playbacks and modes, any formats and timers, any requests and pieces, any bound
on the pipes and size of a chunk, any sizes of headers, bodies and sockets. The only assumptions are those the
modules name.

* Most say what a constant is: `NoneIsNoSong`, `NoneIsNoClient`, `NoneIsNobody`,
  `NoFormatIsNoFormat` (markers are no values), `LoadsAssumption`, `OpusAssumption`,
  `ModesAssumption`, `ClientAssumption`, `OpenAssumption`, `BoundsAssumption`,
  `EvAssumption` (finitely many descriptors), `ForegroundAssumption`,
  `LimitsAssumption` (a client makes at least two attempts), `BufCapIsPositive`,
  `SizesAssumption` (a socket has room for a header),
  `PageIsText`, `NotifierAssumption` (queues have their offset in range, as
  `OffsetStaysInRange` proves of the daemon; playbacks are those of `playlist.h`).
* `RequestsAssumption` says what the peers of the web interface send: any pieces,
  a whole request or not, of which the parser may refuse a line; but not two first
  lines or two lengths, and if a request that is not refused posts a form, some form
  begins within the length it announced (`http_read()` passes on all that has come,
  so for one that begins later the answer would depend on when it comes). The
  code, text and commands that are due are given by the first line, the handshake
  and the form (`Due`): that is what the answer is compared with.

`PositionFollowsCurrent` has a condition of its own, `Positions \subseteq {-1}`:
with an explicit position it is false, see above. `FewTimersAreInOrder` has
`MaxTimers <= Few`: the daemon has one timer, and `timer_heap` shows that seven
are too many.

The argument. `PlaylistProofs` has a lemma per operation of the queue: each keeps
it well formed (`WellFormed`: types, offset in range); stepping yields a stopped
queue or one that has a current song (`Stepped`); editing leaves the current song
of an active queue alone (`Edited`). For the player, `NeverFatal` is not
inductive: that no order is read while a track waits to be started is true only
because `nextfd` is set exactly in the place `starting`, where the process does
not read (`PlayerInv`). For the daemon, `ActiveHasSong` alone is not inductive
either: inside a search the current song is gone for a while, so `IInv` adds what
holds in mid-loop. `AmusedProofs` has one step per action.

`LoopMatches`. What is left of the loop when it has come down to a place is stated
without a recursion: `Cycled` is what the cyclic permutations of the places down
to `start` make of some queues. A cycle of the places below with the next place
put in before any of them is a cycle (`SplicedIsCycle`), and every cycle with that
place is made so (`CycleIsSpliced`); an exchange of the next place with one below
is such an insertion (`TurnThenCycle`). Hence a turn of the loop followed by the
cycles of what is below is the cycles of one place more (`OneTurn`), and by
induction over the turns the loop makes all of them and nothing else
(`LoopCycles`). That the recursive definition of `Outcomes` has a value at all is an
induction of its own (`LoopExists`).

For the start-up, the lock alone does not give one daemon: the client that has
started it removes the file, so that a later client locks another. `StartupInv`
says that until the daemon listens all open lock files are one (`OneFile`), that
one description holds its lock (`OneHolder`), that a client past the lock holds it
(`TurnInv`) and that a daemon that has been started does (`DaemonInv`); once it
listens, it goes on listening, and no client starts another because each connects
again after it got the lock. There is one lemma per action.

`PlayerProcessProofs`: `OneOwner` is inductive alone: the byte is in one direction
of the socket pair, or one of the two threads is at work for it. `RightFormat` is
not. It needs `SoundInv`, which says for each place of the thread which of the
formats agree, and that a process that fills the buffer was told of its track what
was set up last, which is the format of the data unless the decoder is opus or
vorbis (`FormatInv`). So only `audio_setup()` separates the formats, which is what
`crossed` records. `TrackInv` also has `left > 0` in `play()`, without
which the number of chunks has no lower bound. The steps that leave the buffer
alone share one lemma (`MoveKeeps`). `PlayerIsPlayer` goes action by action: most
stutter (`Hidden`: they stay within one of the four places and move an order from
the socket to the buffers at most), the others are one action of `Player` each.
It needs `Enqueued`: a track is enqueued only on the way to `player_playnext()`.

`Agreement` speaks of empty pipes only, and says nothing of the step before.
`Obeyed` says where agreement comes from while orders are under way: if nothing is
reported to the daemon, some place `p` in the pipe to the player (or the player
itself, if `p` is 0) has the daemon's song, and what follows it are pauses,
resumes and seeks that end in the daemon's state (`LeadsHere`). Every handler that
sends keeps it by its last orders, whatever was there before; the player keeps it
by taking the first order off, unless it ends the track, and then it reports.
`SilentInv` is its counterpart for a daemon that has stopped: unless it is adrift, what is
under way leaves the player idle (`LeftIdle`). For
`NextIsAdjacent`, `FromLeads` says that as long as a search goes on, the song behind its place in
the queue is the one that NEXT was given at: a song that is dropped on the way
leaves it there (`DropStaysBehind` in `PlaylistProofs`).

For the events, `AmusedProofs` first proves that `Monitor` implements `Amused`, so the invariant
of the latter is there to be used. `OwedInv`: a handler owes an event only inside a
loop, and a loop that owes none has announced the playback already or is the one of a SEEK.

`ControlProofs` follows each client through its dialogue. `Dialogue` is a
disjunction of stations: for a load `Unborn`, `Asking`, `Holding`, `Through`,
`Refused`; for an add how many of its requests have been answered; for a flush or
a shuffle whether its request has been taken. Each station fixes what is in both
sockets, what has taken effect and whether the client has the lock. `Wired` adds
that a client has one connection, and that the lock is that of a connection.
`LockIsOwned` and `AnswersAreTrue` follow from the station; `Atomic` needs one
more step per request, since each edits the queue as `QueueService` does. That a
client sends songs, and no more than the files it was given, is an induction over
the loop in `load_files()` (`ResolvedIsList`).

`ViewsProofs`: the properties are about followers that have been answered; the
invariant is about those that have not. `Orderly` says of the messages under way
that the songs of a list are consecutive replies to one SHOW, of which the follower
may have read a part (`Halfway`), and that each belongs to one of the queues the
daemon had. `Follows` says where the next state of the copy is: in it already, or
in the last message of its kind under way, or asked for by an event or a request
that is; in each case it is one that the daemon had since it last told of a
change, or it has it now. `Greets` covers the time before MONITOR is handled, when
no event tells of changes: SHOW and STATUS are before it in the pipe, and since
the three are read in one batch, nothing changes between their replies and the
first event. The module begins with a few operators on sequences of messages
(`Some`, `LastIn`, `Latest`: there is one of a kind; the k-th is the last of
them; the last of them is in a set) and their lemmas for appending and for taking
the head off.

`EvLoopProofs`. For descriptors `FdInv` relates the count that is left of what
`poll()` returned to the set `ToServe` of those that are ready and registered: it
is no less, since callbacks only take away from the set (`ev_add()` clears
`revents`) and `Serve` takes one from both; behind `i` nothing is to be served.
For timers `TimersInv` says that no id is twice in the two parts of the array, that
no timer has more time left than it counts, and, while they are counted down, that
those from `i` on still count `tv` more than is left to them (`Counted`), so that
one that is due is over. A callback may cancel a timer at any place in the middle of
this; `CancelLeaves` is why it does no harm: `cancel_timer()` takes just the one
timer out and moves the others towards the front, if at all, so that one that has
been counted down never comes to a place the loop still goes to. It rests on
`BubbleDownMoves`, by induction on the turns of the loop in `bubbledown()`: all timers
are there and each but the one that goes down has moved forward. `HeapifyShuffles`
is the same for the loop of `timerheapify()`. Neither says that the array is a heap
afterwards, and `NearestFirst` shows that it may not be one. `LeftAdd`, `LeftRemove`
and `LeftLater` then turn what a step does to the set of timers into a step of
`TimerSet`. The induction (`Induct`) comes without the library's theorems, which
take an operator: a set of numbers with 0 and all successors that lacked `x` would
fit below `x` into itself without 0, against the pigeonhole principle. `Loops`
yields from it that a loop of any number of turns has a result.
`FewAreInOrder` is about the array as a heap. `Bounded` says that there are no more
ids than `MaxTimers`, so that with three the heap never has more. Then one turn is all that
`bubbledown()` does (`TurnSuffices`), and `cancel_timer()` and `timerheapify()` keep the nearest in
front (`CancelKeepsNearest`, `HeapifyMakesNearest`). What remains is the time
during which the heap is counted down, when its first timer is ahead of the
others: `OrderInv` says that no other timer is due then (`NotDue`), since the
first was not, hence that no callback comes in between.

`Imsg` in `SocketProofs`. Seen as a `MessageQueue`, the queue is what has been
assembled, what ends in the socket and what is in the sender's buffers
(`Underway`). A write or a read of any length must leave it alone, which is proved
unit by unit. `Runs` says that the units in the socket go on where the reader
stopped, a unit with a descriptor being the first of its message; `SenderFollows`
that the first buffer goes on where they end. A unit that is taken keeps the reader
there and finishes a message exactly when it is the last one of it (`UnitIsTaken`),
a unit that is sent likewise (`ShortenIs`), and `UnitsAreTaken` and `UnitsAreSent`
are the inductions over their number. `UnitsAreSent` needs that no gathered buffer
but the first has a descriptor to send (`GatheredIs`): a message whose first unit
went out in the middle of a write would lose it. `UnitsAreTaken` needs that the
descriptor that came with a read is still there when its header is complete, and that
no other header takes it: what is marked is followed by its whole header
(`HeaderFollows`), and a header that needs a descriptor has its marked unit in the
same read (`MarkPrecedes`), because the read before left no such header in part
(`HeadersWhole`). That last step rests on `Readable`: a read that brings a descriptor
brings the header it was sent with, which a socket could break only with more than
65535 bytes before it (the size of `rbuf`).

`WebConnProofs`. A client that is not ended is in one of three states, and
`CommandOnce` and `WellFramed` follow from each (`HeldIsFramed`). It `Reads`:
nothing has been said, no command sent. It `Shows`: the route was taken once, the
command, if any, was sent, and what was written together with what is in `wbuf`
is the answer (`IsAnswer`), so that `bufio_write()` moves the border between the
two and no more. It `Talks`, and the events in what it was told are all
since it was opened. Two things make this inductive. That the route taken is
the route that is due needs to say how far the request has been read:
`Heard` says that the fields of `struct client` are those of the first `m` pieces of
the request, `Follow` that what comes next is what `rbuf`, the socket and the peer
have, in this order; `ParseHears` takes `http_parse()` from one `m` to a later one,
and arrivals (`HeldArrives`, `HeldReads`) only move the borders. That the text
arrives uncorrupted in chunks is hard to say with `Payload`, a recursive function,
while the text grows: `Cuts` gives for each item the place in the text up to which
it goes, and `PayloadIs` turns that into what `Payload` is, by induction. With
`AtInv`, that `client_ev()` is called to write only if there is something to write,
no client is dropped for having nothing.

Only model-checked are liveness and `ENABLED`, which are out of the prover's reach,
and `FewAreInOrder` where more than three timers are pending for a time: the heap may
shrink to three again, and with seven it may be out of order by then.

## Not modelled

* `songmeta/` reads the headers of one file and prints them. It keeps no state and
  its difficulty is in the bytes.
* The other audio backends make calls of a sound library from the player's thread.
  `audio_oboe.cpp` has a thread and hands its buffer over with the same two bytes
  as `audio_ao.c`; it records the format before it opens the device instead of
  after, and ends the process when it cannot.
* What the decoding libraries compute, and the arithmetic of seeks and reported
  positions (META): `Notifier` lets the position be anything.
* Malformed requests on the control socket are answered with an error and change
  nothing. `control.c` has no bound on what it buffers for a slow client; the
  sockets of the model have none either.
* Verbs of `ctl.c` that send one request and print the replies, the parsing of
  options, `canonpath()`; TLS, escaping and the look of the page in `web/`;
  marshalling in `mpris2/`, and the signals by which it tells the bus of a change
  (whether a client heeds them cannot be seen from here: they name another
  interface, mpris2.c:441, than the one that has the properties); failures of allocation everywhere.
* Logging, replacements of libc functions, scripts and the build.

A few things were seen in the code that no property covers. A client of several
files in one `add` gives up at the first refusal while the rest is carried out. A
shuffle that is refused is answered to nobody. The daemon inherits the lock
of the client that started it, so a client that was waiting for the lock waits on
(`OnlyDaemonBlocks` allows that). `previous` over a file that cannot be opened skips one
that can. An ERR or EOF that crosses a command removes another song than the one it is about.

## Plan

Done: all modules of the plan, and the theorems above: every safety property
that a run checks is stated by one of them. Left is `FewAreInOrder` for four and
five timers, where `bubbledown()` takes more than one turn.
