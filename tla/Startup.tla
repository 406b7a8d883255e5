------------------------------ MODULE Startup -------------------------------
(***************************************************************************)
(* How the daemon is started: every client that cannot connect contends    *)
(* for a lock file, and the one that gets it starts the daemon             *)
(* (ctl_connect() and ctl_get_lock() in ctl.c, spawn_daemon() and          *)
(* amused_main() in amused.c, control_init() and control_listen()).        *)
(*                                                                         *)
(* A client starts at most one daemon, which goes by the client's name,    *)
(* and opens the lock file at most once, so that its name also stands for  *)
(* that open file description and, if it created the file, for the file.   *)
(* flock() locks belong to the description: it is shared with the daemon   *)
(* that the client forks, which does not close it.                         *)
(***************************************************************************)
EXTENDS Naturals

CONSTANTS
    Client,
    Foreground,   (* clients run as `amused -d': they become the daemon     *)
    None,         (* no client, no daemon, no file                          *)
    MaxAttempts,  (* 100 in ctl_connect()                                   *)
    MaxFaults     (* bound on what goes wrong: see faults                   *)

ASSUME NoneIsNoClient == None \notin Client
ASSUME ForegroundAssumption == Foreground \subseteq Client
(* A client needs two attempts to get as far as starting the daemon.       *)
ASSUME LimitsAssumption == MaxAttempts \in Nat \ {0, 1} /\ MaxFaults \in Nat

VARIABLES
    pc,         (* pc[c]: where the client is, see Place                    *)
    attempt,    (* the locals of ctl_connect()                              *)
    locked,
    spawned,
    lockfile,   (* the file that csock.lock names, or None                  *)
    inode,      (* inode[c]: the file of description c                      *)
    holds,      (* the descriptions that hold the lock of their file        *)
    ownFd,      (* the clients whose own descriptor of it is open           *)
    leakedFd,   (* the daemons that have inherited it                       *)
    daemon,     (* daemon[c]: the state of the daemon that c has started    *)
    sock,       (* the daemon whose socket is at csock, or None             *)
    faults      (* locks that failed, deaths of clients and daemons         *)

localVars == <<attempt, locked, spawned>>
lockVars == <<lockfile, inode, holds, ownFd, leakedFd>>
daemonVars == <<daemon, sock>>
vars == <<pc, localVars, lockVars, daemonVars, faults>>

Place == {"new", "connect", "open", "flock", "wait", "got", "spawn", "unlink",
          "close", "connected", "failed", "exec"}
Over(c) == pc[c] \in {"connected", "failed", "exec"}

DaemonState == {"none", "starting", "bound", "listening", "deaf", "dead"}
Running(d) == daemon[d] \notin {"none", "dead"}
Up == sock # None /\ daemon[sock] = "listening"

Init == /\ pc = [c \in Client |-> "new"]
        /\ attempt = [c \in Client |-> 0]
        /\ locked = [c \in Client |-> FALSE]
        /\ spawned = [c \in Client |-> FALSE]
        /\ lockfile = None
        /\ inode = [c \in Client |-> None]
        /\ holds = {} /\ ownFd = {} /\ leakedFd = {}
        /\ daemon = [c \in Client |-> "none"]
        /\ sock = None
        /\ faults = 0

Goto(c, place) == pc' = [pc EXCEPT ![c] = place]
Fault == faults < MaxFaults /\ faults' = faults + 1
Free(file) == \A d \in holds : inode[d] # file

(* The client closes its descriptor: the lock goes with the last one.      *)
CloseOwn(c) == /\ ownFd' = ownFd \ {c}
               /\ holds' = IF c \in leakedFd THEN holds ELSE holds \ {c}

-----------------------------------------------------------------------------
(* The user runs a command.                                                *)
Begin(c) == pc[c] = "new" /\ Goto(c, "connect")
            /\ UNCHANGED <<localVars, lockVars, daemonVars, faults>>

(* connect() finds a listening socket.                                     *)
Connected(c) ==
    /\ pc[c] = "connect" /\ Up
    /\ Goto(c, IF locked[c] /\ c \in ownFd THEN "unlink" ELSE "connected")
    /\ UNCHANGED <<localVars, lockVars, daemonVars, faults>>

(* What a client does next that cannot connect: it sleeps before it tries  *)
(* again if it has started a daemon already.                               *)
Proceed(c) == \/ ~locked[c] /\ Goto(c, "open")
              \/ locked[c] /\ ~spawned[c] /\ Goto(c, "spawn")
              \/ locked[c] /\ spawned[c] /\ Goto(c, "connect")

(* A definition that follows one named Faulty... is what the code does;    *)
(* the faulty one is the bug that a run is shown to notice.                *)
FaultyRefused(c) ==
    /\ pc[c] = "connect" /\ ~Up
    /\ Proceed(c)
    /\ UNCHANGED <<localVars, lockVars, daemonVars, faults>>

FaultyLimit(c) ==
    /\ pc[c] = "connect" /\ ~Up
    /\ attempt' = [attempt EXCEPT ![c] = @ + 1]
    /\ Proceed(c)
    /\ UNCHANGED <<locked, spawned, lockVars, daemonVars, faults>>

(* ENOENT or ECONNREFUSED.                                                 *)
Refused(c) ==
    /\ pc[c] = "connect" /\ ~Up
    /\ attempt[c] < MaxAttempts
    /\ attempt' = [attempt EXCEPT ![c] = @ + 1]
    /\ Proceed(c)
    /\ UNCHANGED <<locked, spawned, lockVars, daemonVars, faults>>

GiveUp(c) ==
    /\ pc[c] = "connect" /\ ~Up
    /\ attempt[c] >= MaxAttempts
    /\ Goto(c, "failed")
    /\ CloseOwn(c)
    /\ UNCHANGED <<localVars, lockfile, inode, leakedFd, daemonVars, faults>>

-----------------------------------------------------------------------------
(* ctl_get_lock(): open() with O_CREAT.                                    *)
Open(c) ==
    /\ pc[c] = "open"
    /\ lockfile' = IF lockfile = None THEN c ELSE lockfile
    /\ inode' = [inode EXCEPT ![c] = lockfile']
    /\ ownFd' = ownFd \cup {c}
    /\ Goto(c, "flock")
    /\ UNCHANGED <<localVars, holds, leakedFd, daemonVars, faults>>

(* It returns -1: open() or flock() failed.                                *)
LockFails(c) ==
    /\ pc[c] = "open" /\ Fault
    /\ Goto(c, "connect")
    /\ UNCHANGED <<localVars, lockVars, daemonVars>>

FaultyFlock(c) ==
    /\ pc[c] = "flock"
    /\ holds' = IF Free(inode[c]) THEN holds \cup {c} ELSE holds
    /\ Goto(c, "connect")
    /\ locked' = [locked EXCEPT ![c] = TRUE]
    /\ UNCHANGED <<attempt, spawned, lockfile, inode, ownFd, leakedFd,
                   daemonVars, faults>>

(* flock() with LOCK_NB.  A client that has the lock tries again to        *)
(* connect before it starts the daemon.                                    *)
Flock(c) ==
    /\ pc[c] = "flock"
    /\ \/ /\ Free(inode[c])
          /\ holds' = holds \cup {c}
          /\ locked' = [locked EXCEPT ![c] = TRUE]
          /\ Goto(c, "connect")
       \/ /\ ~Free(inode[c])
          /\ Goto(c, "wait")
          /\ UNCHANGED <<holds, locked>>
    /\ UNCHANGED <<attempt, spawned, lockfile, inode, ownFd, leakedFd,
                   daemonVars, faults>>

(* flock() without LOCK_NB returns once the lock is free ...               *)
Wait(c) ==
    /\ pc[c] = "wait" /\ Free(inode[c])
    /\ holds' = holds \cup {c}
    /\ Goto(c, "got")
    /\ UNCHANGED <<localVars, lockfile, inode, ownFd, leakedFd, daemonVars, faults>>

(* ... and the lock is dropped at once: -2 says that another client had    *)
(* it, and counts as locked.                                               *)
Got(c) ==
    /\ pc[c] = "got"
    /\ CloseOwn(c)
    /\ locked' = [locked EXCEPT ![c] = TRUE]
    /\ Goto(c, "connect")
    /\ UNCHANGED <<attempt, spawned, lockfile, inode, leakedFd, daemonVars, faults>>

(* spawn_daemon(): the child inherits the descriptor, which is not close-  *)
(* on-exec.  With -d there is no fork: the client becomes the daemon.      *)
Spawn(c) ==
    /\ pc[c] = "spawn"
    /\ daemon' = [daemon EXCEPT ![c] = "starting"]
    /\ leakedFd' = IF c \in ownFd THEN leakedFd \cup {c} ELSE leakedFd
    /\ spawned' = [spawned EXCEPT ![c] = TRUE]
    /\ IF c \in Foreground
       THEN ownFd' = ownFd \ {c} /\ Goto(c, "exec")
       ELSE UNCHANGED ownFd /\ Goto(c, "connect")
    /\ UNCHANGED <<attempt, locked, lockfile, inode, holds, sock, faults>>

(* Once connected, the client that had the lock removes the file, then     *)
(* closes it.                                                              *)
Unlink(c) ==
    /\ pc[c] = "unlink"
    /\ lockfile' = None
    /\ Goto(c, "close")
    /\ UNCHANGED <<localVars, inode, holds, ownFd, leakedFd, daemonVars, faults>>

CloseLock(c) ==
    /\ pc[c] = "close"
    /\ CloseOwn(c)
    /\ Goto(c, "connected")
    /\ UNCHANGED <<localVars, lockfile, inode, leakedFd, daemonVars, faults>>

(* The client is interrupted.                                              *)
Interrupt(c) ==
    /\ pc[c] # "new" /\ ~Over(c) /\ Fault
    /\ CloseOwn(c)
    /\ Goto(c, "failed")
    /\ UNCHANGED <<localVars, lockfile, inode, leakedFd, daemonVars>>

-----------------------------------------------------------------------------
(* control_init(): whatever is at csock goes, the new socket takes its     *)
(* place.  It does not listen yet: connect() is refused.                   *)
Bind(d) ==
    /\ daemon[d] = "starting"
    /\ sock' = d
    /\ daemon' = [daemon EXCEPT ![d] = "bound"]
    /\ UNCHANGED <<pc, localVars, lockVars, faults>>

(* control_listen(), after which the daemon serves clients.                *)
Listen(d) ==
    /\ daemon[d] = "bound"
    /\ daemon' = [daemon EXCEPT ![d] = "listening"]
    /\ UNCHANGED <<pc, localVars, lockVars, sock, faults>>

(* amused_main() does not look at what control_listen() returns.           *)
ListenFails(d) ==
    /\ daemon[d] = "bound" /\ Fault
    /\ daemon' = [daemon EXCEPT ![d] = "deaf"]
    /\ UNCHANGED <<pc, localVars, lockVars, sock>>

(* A fatal() while it starts, or a signal.  The socket stays behind.       *)
DaemonDies(d) ==
    /\ Running(d) /\ Fault
    /\ daemon' = [daemon EXCEPT ![d] = "dead"]
    /\ leakedFd' = leakedFd \ {d}
    /\ holds' = IF d \in ownFd THEN holds ELSE holds \ {d}
    /\ UNCHANGED <<pc, localVars, lockfile, inode, ownFd, sock>>

-----------------------------------------------------------------------------
ClientStep(c) == \/ Connected(c) \/ Refused(c) \/ GiveUp(c)
                 \/ Open(c) \/ Flock(c) \/ Wait(c) \/ Got(c)
                 \/ Spawn(c) \/ Unlink(c) \/ CloseLock(c)
DaemonStep(d) == Bind(d) \/ Listen(d)

Next == \E c \in Client : \/ Begin(c) \/ ClientStep(c) \/ DaemonStep(c)
                          \/ LockFails(c) \/ Interrupt(c)
                          \/ ListenFails(c) \/ DaemonDies(c)

Spec == Init /\ [][Next]_vars

(* Processes run; users need not start any, and nothing need go wrong.     *)
FairSpec == Spec /\ \A c \in Client : /\ WF_vars(ClientStep(c))
                                      /\ WF_vars(DaemonStep(c))

-----------------------------------------------------------------------------
(* The type invariant.                                                     *)
StartupTypeOK ==
    /\ pc \in [Client -> Place]
    /\ attempt \in [Client -> 0 .. MaxAttempts]
    /\ locked \in [Client -> BOOLEAN]
    /\ spawned \in [Client -> BOOLEAN]
    /\ lockfile \in Client \cup {None}
    /\ inode \in [Client -> Client \cup {None}]
    /\ holds \subseteq Client /\ ownFd \subseteq Client /\ leakedFd \subseteq Client
    /\ daemon \in [Client -> DaemonState]
    /\ sock \in Client \cup {None}
    /\ faults \in 0 .. MaxFaults

(* As long as nothing goes wrong, at most one daemon is started however    *)
(* many clients find none, however slow it is to listen, and although the  *)
(* lock file is removed while others wait for it and clients give up       *)
(* (ctl_connect()).                                                        *)
OneDaemon ==
    faults = 0 => \A d, e \in Client :
                      daemon[d] # "none" /\ daemon[e] # "none" => d = e

(* The client waits for a lock that a running daemon has kept.             *)
Blocked(c) == /\ pc[c] = "wait"
              /\ \E d \in leakedFd : Running(d) /\ inode[d] = inode[c]

(* ctl_connect() ends, connected or not, whatever dies, unless from some   *)
(* time on a running daemon keeps the lock that the client waits for       *)
(* ("don't get stuck if the server fails to start", CHANGES).              *)
OnlyDaemonBlocks ==
    \A c \in Client : []<>~Blocked(c) => (pc[c] = "connect" ~> Over(c))
=============================================================================
