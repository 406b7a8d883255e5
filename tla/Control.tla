------------------------------ MODULE Control -------------------------------
(***************************************************************************)
(* The control socket: control.c in the daemon, and the clients of ctl.c   *)
(* that edit the playing queue.  Connections come and go, their file       *)
(* descriptors are used again, and a load is a dialogue: BEGIN takes a     *)
(* lock that is a descriptor number (control_state.tx), the ADDs fill a    *)
(* staged list, the COMMIT puts it in place of the queue.                  *)
(*                                                                         *)
(* The daemon handles one message per action: control_dispatch_imsg() may  *)
(* find any number of them in what it has read.  A client may die at any   *)
(* time.  The commands that neither take nor test the lock nor edit the    *)
(* queue, and the events for monitors, are in the modules Amused and       *)
(* Monitor.                                                                *)
(***************************************************************************)
EXTENDS QueueService, FiniteSets

CONSTANT Fd   (* descriptors the daemon has for clients *)

ASSUME NoneIsNobody == None \notin Client \cup Fd

VARIABLES
    tx,         (* control_state.tx: the descriptor with the lock, or None  *)
    staged,     (* control_state.play                                       *)
    conn,       (* conn[fd]: the client at the other end, or None           *)
    listening,  (* the listening socket is registered with the event loop   *)
    timer,      (* control_state.tout is pending                            *)
    backlog,    (* clients that have connected and are not accepted yet     *)
    inbox,      (* inbox[c]: what c has sent and the daemon has not handled *)
    outbox,     (* outbox[c]: replies to c that it has not read             *)
    heard,      (* heard[c]: replies to its ADDs that c has read            *)
    status      (* status[c]: see Status                                    *)

daemonVars == <<pl, done, tx, staged, conn, listening, timer>>
socketVars == <<inbox, outbox>>
clientVars == <<heard, status>>
vars == <<daemonVars, backlog, socketVars, clientVars>>

(* "new": not started; "asked": its requests are sent; "reading": a load   *)
(* that has the lock reads its list; "sent": the list is sent; "ok",       *)
(* "failed", "killed": it is over.                                         *)
Status == {"new", "asked", "reading", "sent", "ok", "failed", "killed"}
Gone(c) == status[c] \in {"ok", "failed", "killed"}

Init == /\ QueueInit
        /\ tx = None /\ staged = <<>>
        /\ conn = [fd \in Fd |-> None]
        /\ listening = TRUE /\ timer = FALSE
        /\ backlog = <<>>
        /\ inbox = [c \in Client |-> <<>>]
        /\ outbox = [c \in Client |-> <<>>]
        /\ heard = [c \in Client |-> 0]
        /\ status = [c \in Client |-> "new"]

(* A request: n is its index among those of the client that take effect.   *)
Request(t, s, n) == [type |-> t, song |-> s, nth |-> n]
Adds(c) == [n \in 1 .. Len(Paths(c)) |-> Request("ADD", Paths(c)[n], n)]

FirstRequests(c) ==
    CASE Verb[c] = "load"    -> <<Request("BEGIN", None, 1)>>
      [] Verb[c] = "add"     -> Adds(c)
      [] Verb[c] = "flush"   -> <<Request("FLUSH", None, 1)>>
      [] OTHER               -> <<Request("SHUFFLE", None, 1)>>

-----------------------------------------------------------------------------
(* The clients: ctl_connect() once the daemon is up, then ctlaction().     *)
(* flush and shuffle wait for no reply, nor does an add without files.     *)
Start(c) ==
    /\ status[c] = "new"
    /\ backlog' = Append(backlog, c)
    /\ inbox' = [inbox EXCEPT ![c] = FirstRequests(c)]
    /\ status' = [status EXCEPT ![c] =
                     IF Verb[c] = "add" /\ Files[c] = <<>> THEN "failed"
                     ELSE IF Verb[c] \in {"load", "add"} THEN "asked" ELSE "ok"]
    /\ UNCHANGED <<daemonVars, outbox, heard>>

(* One turn of the reply loop of ctlaction(). An add counts the replies    *)
(* against all its files, those it could not send among them.              *)
Hear(c) ==
    /\ status[c] \in {"asked", "sent"}
    /\ outbox[c] # <<>>
    /\ outbox' = [outbox EXCEPT ![c] = Tail(@)]
    /\ LET reply == Head(outbox[c])
           count == heard[c] + 1
       IN  IF reply = "ERR"
           THEN status' = [status EXCEPT ![c] = "failed"] /\ UNCHANGED heard
           ELSE IF Verb[c] = "add"
           THEN /\ heard' = [heard EXCEPT ![c] = count]
                /\ status' = [status EXCEPT ![c] =
                                 IF count = Len(Files[c]) THEN "ok" ELSE @]
           ELSE /\ status' = [status EXCEPT ![c] =
                                 CASE reply = "BEGIN"  -> "reading"
                                   [] reply = "COMMIT" -> "ok"
                                   [] OTHER            -> @]
                /\ UNCHANGED heard
    /\ UNCHANGED <<daemonVars, backlog, inbox>>

(* load_files()                                                            *)
SendList(c) ==
    /\ status[c] = "reading"
    /\ inbox' = [inbox EXCEPT ![c] = @ \o Append(Adds(c), Request("COMMIT", None, 1))]
    /\ status' = [status EXCEPT ![c] = "sent"]
    /\ UNCHANGED <<daemonVars, backlog, outbox, heard>>

(* The client dies; what it had not finished writing is lost.              *)
Die(c) ==
    /\ status[c] # "new" /\ ~Gone(c)
    /\ status' = [status EXCEPT ![c] = "killed"]
    /\ \E n \in 0 .. Len(inbox[c]) : inbox' = [inbox EXCEPT ![c] = SubSeq(@, 1, n)]
    /\ UNCHANGED <<daemonVars, backlog, outbox, heard>>

-----------------------------------------------------------------------------
(* control_accept(): the first client of the backlog gets a descriptor,    *)
(* or the listening socket is set aside until the timer or a close.        *)
Accept ==
    /\ listening /\ backlog # <<>>
    /\ \E fd \in Fd : /\ conn[fd] = None
                      /\ conn' = [conn EXCEPT ![fd] = Head(backlog)]
    /\ backlog' = Tail(backlog)
    /\ UNCHANGED <<pl, done, tx, staged, listening, timer, socketVars, clientVars>>

(* EMFILE, or ENFILE when others have used up the files of the system.     *)
AcceptFails ==
    /\ listening /\ backlog # <<>>
    /\ listening' = FALSE
    /\ timer' = TRUE
    /\ UNCHANGED <<pl, done, tx, staged, conn, backlog, socketVars, clientVars>>

(* enable_accept(), one second later.                                      *)
EnableAccept ==
    /\ timer
    /\ timer' = FALSE
    /\ listening' = TRUE
    /\ UNCHANGED <<pl, done, tx, staged, conn, backlog, socketVars, clientVars>>

(* A definition that follows one named Faulty... is what the code does;    *)
(* the faulty one is the bug that a run is shown to notice.                *)
FaultyAbortKeepsLock(fd) == IF tx = fd THEN staged' = <<>> /\ UNCHANGED tx
                            ELSE UNCHANGED <<staged, tx>>
FaultyAbortKeepsStaged(fd) == IF tx = fd THEN tx' = None /\ UNCHANGED staged
                              ELSE UNCHANGED <<staged, tx>>

(* control_close(): nothing is left to read from a client that is gone, or *)
(* a reply to it cannot be delivered, and then the rest is not read.       *)
AbortTx(fd) == IF tx = fd THEN staged' = <<>> /\ tx' = None
               ELSE UNCHANGED <<staged, tx>>

FaultyClose(fd) ==      (* cancels the timer and does not listen again *)
    /\ conn[fd] # None
    /\ Gone(conn[fd]) /\ inbox[conn[fd]] = <<>>
    /\ AbortTx(fd)
    /\ conn' = [conn EXCEPT ![fd] = None]
    /\ timer' = FALSE
    /\ UNCHANGED <<pl, done, listening, backlog, socketVars, clientVars>>

Close(fd) ==
    /\ conn[fd] # None
    /\ LET c == conn[fd] IN
       /\ Gone(c)
       /\ inbox[c] = <<>> \/ outbox[c] # <<>>
       /\ inbox' = [inbox EXCEPT ![c] = <<>>]
       /\ outbox' = [outbox EXCEPT ![c] = <<>>]
    /\ AbortTx(fd)
    /\ conn' = [conn EXCEPT ![fd] = None]
    /\ timer' = FALSE
    /\ listening' = (listening \/ timer)
    /\ UNCHANGED <<pl, done, backlog, clientVars>>

-----------------------------------------------------------------------------
(* control_dispatch_imsg(): the request r of the client at fd.             *)
Reply(c, what) == outbox' = [outbox EXCEPT ![c] = Append(@, what)]
LockedOut(fd) == tx \notin {None, fd}

FaultyBegin(fd, c, r) ==    (* locks by client and not by descriptor *)
    /\ r.type = "BEGIN"
    /\ IF tx # None THEN Reply(c, "ERR") /\ UNCHANGED tx
       ELSE tx' = c /\ Reply(c, "BEGIN")
    /\ UNCHANGED <<pl, done, staged>>

Begin(fd, c, r) ==
    /\ r.type = "BEGIN"
    /\ IF tx # None THEN Reply(c, "ERR") /\ UNCHANGED tx
       ELSE tx' = fd /\ Reply(c, "BEGIN")
    /\ UNCHANGED <<pl, done, staged>>

FaultyAdd(fd, c, r) ==      (* ignores a locked out ADD but confirms it *)
    /\ r.type = "ADD"
    /\ Reply(c, "ADD")
    /\ UNCHANGED tx
    /\ \/ LockedOut(fd) /\ UNCHANGED <<pl, done, staged>>
       \/ tx = fd /\ staged' = Append(staged, r.song) /\ UNCHANGED <<pl, done>>
       \/ /\ tx = None /\ UNCHANGED staged
          /\ pl' = Enqueue(pl, r.song)
          /\ done' = [done EXCEPT ![c] = @ \cup {r.nth}]

Add(fd, c, r) ==
    /\ r.type = "ADD"
    /\ UNCHANGED tx
    /\ \/ LockedOut(fd) /\ Reply(c, "ERR") /\ UNCHANGED <<pl, done, staged>>
       \/ /\ tx = fd
          /\ staged' = Append(staged, r.song)
          /\ Reply(c, "ADD") /\ UNCHANGED <<pl, done>>
       \/ /\ tx = None
          /\ pl' = Enqueue(pl, r.song)
          /\ done' = [done EXCEPT ![c] = @ \cup {r.nth}]
          /\ Reply(c, "ADD") /\ UNCHANGED staged

FaultyCommit(fd, c, r) ==   (* a commit is not answered *)
    /\ r.type = "COMMIT"
    /\ UNCHANGED outbox
    /\ IF tx # fd THEN UNCHANGED <<pl, done, staged, tx>>
       ELSE /\ pl' = Swap(pl, staged, -1)
            /\ done' = [done EXCEPT ![c] = @ \cup {r.nth}]
            /\ staged' = <<>> /\ tx' = None

Commit(fd, c, r) ==
    /\ r.type = "COMMIT"
    /\ \/ tx # fd /\ Reply(c, "ERR") /\ UNCHANGED <<pl, done, staged, tx>>
       \/ /\ tx = fd
          /\ \E i \in SwapOffset(pl, staged, Position(c)) : pl' = Swap(pl, staged, i)
          /\ done' = [done EXCEPT ![c] = @ \cup {r.nth}]
          /\ staged' = <<>> /\ tx' = None
          /\ Reply(c, "COMMIT")

Flush(c, r) ==
    /\ r.type = "FLUSH"
    /\ pl' = Truncate(pl)
    /\ done' = [done EXCEPT ![c] = @ \cup {r.nth}]
    /\ UNCHANGED <<staged, tx, outbox>>

FaultyShuffle(fd, c, r) ==  (* ignores the argument *)
    /\ r.type = "SHUFFLE"
    /\ ~LockedOut(fd)
    /\ pl' \in Shuffles(pl, FALSE)
    /\ done' = [done EXCEPT ![c] = @ \cup {r.nth}]
    /\ UNCHANGED <<staged, tx, outbox>>

Shuffle(fd, c, r) ==
    /\ r.type = "SHUFFLE"
    /\ UNCHANGED <<staged, tx>>
    /\ \/ LockedOut(fd) /\ Reply(c, "ERR") /\ UNCHANGED <<pl, done>>
       \/ /\ ~LockedOut(fd)
          /\ pl' \in Shuffles(pl, Verb[c] = "shuffle all")
          /\ done' = [done EXCEPT ![c] = @ \cup {r.nth}]
          /\ UNCHANGED outbox

DispatchImsg(fd) ==
    /\ conn[fd] # None
    /\ LET c == conn[fd] IN
       /\ inbox[c] # <<>>
       /\ inbox' = [inbox EXCEPT ![c] = Tail(@)]
       /\ LET r == Head(inbox[c]) IN
          Begin(fd, c, r) \/ Add(fd, c, r) \/ Commit(fd, c, r)
             \/ Flush(c, r) \/ Shuffle(fd, c, r)
    /\ UNCHANGED <<conn, listening, timer, backlog, clientVars>>

(* The other handlers of the daemon play through the queue meanwhile.      *)
Elsewhere == /\ Playing
             /\ UNCHANGED <<tx, staged, conn, listening, timer, backlog,
                            socketVars, clientVars>>

-----------------------------------------------------------------------------
ClientStep(c) == Start(c) \/ Hear(c) \/ SendList(c) \/ Die(c)
Daemon == \/ Accept \/ AcceptFails \/ EnableAccept
          \/ \E fd \in Fd : Close(fd) \/ DispatchImsg(fd)

Next == (\E c \in Client : ClientStep(c)) \/ Daemon \/ Elsewhere

Spec == Init /\ [][Next]_vars

(* The event loop visits every ready descriptor and every timer that has   *)
(* expired; a client blocked on a reply wakes up.  Nothing makes a client  *)
(* start, read its list to the end or die.                                 *)
Fairness == /\ \A fd \in Fd : WF_vars(DispatchImsg(fd)) /\ WF_vars(Close(fd))
            /\ WF_vars(EnableAccept)
            /\ \A c \in Client : WF_vars(Hear(c))

FairSpec == Spec /\ Fairness

-----------------------------------------------------------------------------
ControlTypeOK ==
    /\ pl \in PlaylistType
    /\ done \in [Client -> SUBSET (Nat \ {0})]
    /\ tx \in Fd \cup {None}
    /\ staged \in Seq(Song)
    /\ conn \in [Fd -> Client \cup {None}]
    /\ listening \in BOOLEAN /\ timer \in BOOLEAN
    /\ backlog \in Seq(Client)
    /\ inbox \in [Client -> Seq([type : {"BEGIN", "ADD", "COMMIT", "FLUSH", "SHUFFLE"},
                                 song : Song \cup {None}, nth : Nat \ {0}])]
    /\ outbox \in [Client -> Seq({"ERR", "BEGIN", "ADD", "COMMIT"})]
    /\ heard \in [Client -> Nat]
    /\ status \in [Client -> Status]

(* A load is atomic: whatever the dialogues, the deaths and the reuse of   *)
(* descriptors, the queue only ever changes as QueueService says.          *)
Atomic == QueueSpec

(* The lock belongs to a live connection, of a client that has begun a     *)
(* load and has not committed it, and what is staged is the beginning of   *)
(* that client's list.                                                     *)
LockIsOwned ==
    IF tx = None THEN staged = <<>>
    ELSE /\ conn[tx] # None
         /\ Verb[conn[tx]] = "load" /\ done[conn[tx]] = {}
         /\ IsPrefix(staged, Paths(conn[tx]))

(* What a client tells its user is true: a load or an add that succeeds    *)
(* has taken effect in full, a load that fails has not and never will.     *)
AnswersAreTrue ==
    \A c \in Client :
        /\ status[c] = "ok" /\ Verb[c] \in {"load", "add"} => done[c] = All(c)
        /\ status[c] = "failed" /\ Verb[c] = "load" => done[c] = {}

(* A client that the daemon has accepted is not left waiting forever,      *)
(* except for an add some of whose files have no path: canonpath() has     *)
(* refused them, so it has sent fewer requests than it waits for replies,  *)
(* and when it has heard them all it waits on. The manual has no such      *)
(* case: "add: Enqueue the given files at the end of the playing queue"    *)
(* (amused.1:71-72).                                                       *)
Accepted(c) == \E fd \in Fd : conn[fd] = c
Waiting(c) == status[c] \in {"asked", "sent"}

WaitsForNothing(c) == /\ Verb[c] = "add" /\ status[c] = "asked"
                      /\ heard[c] = Len(Paths(c)) /\ Len(Paths(c)) < Len(Files[c])

Answered == \A c \in Client :
    Waiting(c) /\ Accepted(c) ~> ~Waiting(c) \/ WaitsForNothing(c)

(* The lock of a client that died or left is released, so that the next    *)
(* load is not locked out forever.                                         *)
LockReleased == \A c \in Client :
    tx # None /\ conn[tx] = c /\ Gone(c) ~> tx = None

(* The daemon comes back to accept clients, with or without any of the     *)
(* connected ones leaving.                                                 *)
ListensAgain == ~listening ~> listening
=============================================================================
