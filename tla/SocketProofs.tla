---------------------------- MODULE SocketProofs ----------------------------
(***************************************************************************)
(* Theorems about the control socket: who binds it (Startup), and what it  *)
(* and the player's socket carry (Imsg).                                   *)
(*                                                                         *)
(* At most one daemon is started as long as nothing goes wrong, for any    *)
(* number of clients.  The lock on the file keeps clients from starting    *)
(* two daemons, yet the client that starts one removes the file: a later   *)
(* client locks another file.  What keeps the two apart is that the file   *)
(* is removed only when the daemon is up (Up), and that a client tries to  *)
(* connect again once it has the lock.  Until then there is one lock file  *)
(* (OneFile), one client with the lock (OneHolder), and the daemon that it *)
(* starts goes on holding the lock, even if the client gives up.           *)
(*                                                                         *)
(* The buffers of imsg and the socket between them implement a queue of    *)
(* whole messages, however reads and writes cut the stream.  The units in  *)
(* the socket go on where the reader stopped (Runs), and the sender's      *)
(* first buffer goes on where they end (SenderFollows).  Each unit that is *)
(* taken keeps that so (UnitIsTaken), as does each that is sent            *)
(* (ShortenIs); lengths follow by induction (Induct).  A descriptor comes  *)
(* with the first unit of its message and is due with the last one of its  *)
(* header: a read that brings one has the whole header (HeaderFollows), so *)
(* no header that needs one is ever left half read (HeadersWhole).         *)
(***************************************************************************)
EXTENDS Startup, Imsg, SequenceTheorems, FiniteSetTheorems, WellFoundedInduction, TLAPS

Has(c) == c \in ownFd \cup leakedFd

(* What a client has done when it gets to a place.                         *)
LocalInv ==
    \A c \in Client :
        /\ pc[c] = "new" => ~locked[c] /\ ~spawned[c] /\ attempt[c] = 0
        /\ pc[c] = "connect" /\ ~locked[c] => ~spawned[c] /\ attempt[c] = 0
        /\ pc[c] \in {"open", "flock", "wait", "got"} =>
               ~spawned[c] /\ attempt[c] = 1
        /\ pc[c] = "connect" /\ locked[c] /\ ~spawned[c] => attempt[c] = 1
        /\ pc[c] \in {"new", "open"} => ~Has(c)
        /\ pc[c] = "connect" /\ ~locked[c] => ~Has(c)
        /\ pc[c] \in {"flock", "wait", "got"} => c \in ownFd
        /\ pc[c] = "spawn" => locked[c] /\ ~spawned[c]

(* A daemon that has been started has the lock of its client.              *)
DaemonInv ==
    \A d \in Client :
        /\ daemon[d] \in {"none", "starting", "bound", "listening"}
        /\ spawned[d] <=> daemon[d] # "none"
        /\ spawned[d] => d \in holds /\ d \in leakedFd
        /\ daemon[d] \in {"bound", "listening"} => sock = d

OneStarted == \A d, e \in Client :
                  daemon[d] # "none" /\ daemon[e] # "none" => d = e

OneFile == \A c \in Client : Has(c) => /\ inode[c] # None
                                       /\ inode[c] = lockfile \/ Up

OneHolder == \A c, d \in holds : inode[c] = inode[d] => c = d

HolderInv == \A c \in holds : Has(c)

(* Until the daemon is up, a client past the lock has it, and one that     *)
(* waits for the lock waits for somebody.                                  *)
TurnInv ==
    \A c \in Client :
        /\ pc[c] = "connect" /\ locked[c] =>
               Up \/ spawned[c] \/ (c \in holds /\ c \in ownFd)
        /\ pc[c] = "spawn" => /\ c \in holds /\ c \in ownFd
                              /\ \A d \in Client : daemon[d] = "none"
        /\ pc[c] = "wait" => Up \/ ~Free(inode[c])
        /\ pc[c] \in {"got", "unlink", "close"} => Up

Faultless == /\ LocalInv /\ DaemonInv /\ OneStarted
             /\ OneFile /\ OneHolder /\ HolderInv /\ TurnInv

StartupInv == StartupTypeOK /\ (faults = 0 => Faultless)

-----------------------------------------------------------------------------
(* Every step keeps the types.                                             *)
LEMMA TypeStep == StartupTypeOK /\ [Next]_vars => StartupTypeOK'
<1> SUFFICES ASSUME StartupTypeOK, [Next]_vars PROVE StartupTypeOK'
  OBVIOUS
<1> USE NoneIsNoClient, LimitsAssumption
        DEF StartupTypeOK, Place, DaemonState, Goto, vars, localVars, lockVars,
            daemonVars
<1>1. CASE UNCHANGED vars
  BY <1>1
<1>2. ASSUME NEW c \in Client,
             \/ Begin(c) \/ ClientStep(c) \/ DaemonStep(c)
             \/ LockFails(c) \/ Interrupt(c)
             \/ ListenFails(c) \/ DaemonDies(c)
      PROVE  StartupTypeOK'
  <2>1. CASE Begin(c)
    BY <2>1 DEF Begin
  <2>2. CASE Connected(c)
    BY <2>2 DEF Connected
  <2>3. CASE Refused(c)
    BY <2>3 DEF Refused, Proceed
  <2>4. CASE GiveUp(c)
    BY <2>4 DEF GiveUp, CloseOwn
  <2>5. CASE Open(c)
    BY <2>5 DEF Open
  <2>6. CASE Flock(c)
    BY <2>6 DEF Flock
  <2>7. CASE Wait(c)
    BY <2>7 DEF Wait
  <2>8. CASE Got(c)
    BY <2>8 DEF Got, CloseOwn
  <2>9. CASE Spawn(c)
    BY <2>9 DEF Spawn
  <2>10. CASE Unlink(c)
    BY <2>10 DEF Unlink
  <2>11. CASE CloseLock(c)
    BY <2>11 DEF CloseLock, CloseOwn
  <2>12. CASE LockFails(c)
    BY <2>12 DEF LockFails, Fault
  <2>13. CASE Interrupt(c)
    BY <2>13 DEF Interrupt, Fault, CloseOwn
  <2>14. CASE Bind(c)
    BY <2>14 DEF Bind
  <2>15. CASE Listen(c)
    BY <2>15 DEF Listen
  <2>16. CASE ListenFails(c)
    BY <2>16 DEF ListenFails, Fault
  <2>17. CASE DaemonDies(c)
    BY <2>17 DEF DaemonDies, Fault
  <2>18. QED
    BY <1>2, <2>1, <2>2, <2>3, <2>4, <2>5, <2>6, <2>7, <2>8, <2>9, <2>10,
         <2>11, <2>12, <2>13, <2>14, <2>15, <2>16, <2>17 DEF ClientStep,
         DaemonStep
<1>3. QED
  BY <1>1, <1>2 DEF Next

-----------------------------------------------------------------------------
(* Until a daemon is up, one client or daemon has the lock.                *)
LEMMA HolderIsAlone ==
    ASSUME StartupTypeOK, Faultless, ~Up
    PROVE  \A c, d \in holds : c = d
BY DEF StartupTypeOK, Faultless, OneHolder, OneFile, HolderInv

-----------------------------------------------------------------------------
(* While nothing goes wrong, every action keeps what the proof rests on.   *)
LEMMA BeginKeeps ==
    ASSUME StartupTypeOK, Faultless, NEW c \in Client, Begin(c)
    PROVE  Faultless'
<1> USE DEF Faultless, Goto, localVars, lockVars, daemonVars, Begin
<1>1. /\ LocalInv' /\ DaemonInv' /\ OneStarted' /\ OneFile'
      /\ OneHolder' /\ HolderInv'
  BY DEF LocalInv, Has, DaemonInv, OneStarted, OneFile, Up, OneHolder,
         HolderInv
<1>2. TurnInv'
  BY DEF TurnInv, Free, Up, LocalInv, Has, StartupTypeOK
<1>3. QED
  BY <1>1, <1>2

LEMMA ConnectedKeeps ==
    ASSUME StartupTypeOK, Faultless, NEW c \in Client, Connected(c)
    PROVE  Faultless'
BY DEF Faultless, Goto, localVars, lockVars, daemonVars, Connected,
       LocalInv, Has, DaemonInv, OneStarted, OneFile, Up, OneHolder,
       HolderInv, TurnInv, Free

LEMMA RefusedKeeps ==
    ASSUME StartupTypeOK, Faultless, NEW c \in Client, Refused(c)
    PROVE  Faultless'
<1> USE DEF Faultless, Goto, localVars, lockVars, daemonVars, Refused, Proceed
<1>1. DaemonInv' /\ OneStarted' /\ OneFile' /\ OneHolder' /\ HolderInv'
  BY DEF DaemonInv, OneStarted, OneFile, Has, Up, OneHolder, HolderInv
<1>2. LocalInv'
  BY DEF LocalInv, Has, StartupTypeOK
<1>3. TurnInv'
  <2>1. ASSUME pc'[c] = "spawn"
        PROVE  /\ c \in holds /\ c \in ownFd
               /\ \A d \in Client : daemon[d] = "none"
    <3>1. locked[c] /\ ~spawned[c]
      BY <2>1 DEF StartupTypeOK
    <3>2. c \in holds /\ c \in ownFd
      BY <3>1 DEF TurnInv
    <3>3. \A d \in Client : d \in holds => d = c
      BY <3>2, HolderIsAlone
    <3>4. QED
      BY <3>1, <3>2, <3>3 DEF DaemonInv
  <2>2. \A d \in Client : d # c => pc'[d] = pc[d]
    BY DEF StartupTypeOK
  <2>3. pc'[c] \in {"open", "spawn", "connect"}
    BY DEF StartupTypeOK
  <2>4. pc'[c] = "connect" => spawned[c]
    BY DEF StartupTypeOK
  <2>5. QED
    BY <2>1, <2>2, <2>3, <2>4 DEF TurnInv, Up, Free
<1>4. QED
  BY <1>1, <1>2, <1>3

LEMMA GiveUpKeeps ==
    ASSUME StartupTypeOK, Faultless, NEW c \in Client, GiveUp(c)
    PROVE  Faultless'
<1> USE DEF Faultless, Goto, localVars, lockVars, daemonVars, GiveUp, CloseOwn
<1>1. /\ LocalInv' /\ DaemonInv' /\ OneStarted' /\ OneFile'
      /\ OneHolder' /\ HolderInv'
  BY DEF LocalInv, Has, DaemonInv, OneStarted, OneFile, Up, OneHolder,
         HolderInv
<1>2. TurnInv'
  <2>1. spawned[c]
    BY LimitsAssumption DEF LocalInv, StartupTypeOK
  <2>2. holds' = holds
    BY <2>1 DEF DaemonInv
  <2>3. QED
    BY <2>2 DEF TurnInv, Free, Up, StartupTypeOK
<1>3. QED
  BY <1>1, <1>2

LEMMA OpenKeeps ==
    ASSUME StartupTypeOK, Faultless, NEW c \in Client, Open(c)
    PROVE  Faultless'
<1> USE DEF Faultless, Goto, localVars, lockVars, daemonVars, Open
<1>1. DaemonInv' /\ OneStarted' /\ HolderInv'
  BY DEF DaemonInv, OneStarted, HolderInv, Has
<1>2. LocalInv'
  BY DEF LocalInv, Has, StartupTypeOK
<1>3. OneFile'
  BY NoneIsNoClient DEF OneFile, Has, Up, LocalInv, StartupTypeOK,
         DaemonState, Place
<1>4. OneHolder'
  BY DEF OneHolder, HolderInv, LocalInv, Has, StartupTypeOK
<1>5. TurnInv'
  <2>1. c \notin holds
    BY DEF LocalInv, HolderInv
  <2>2. \A d \in Client : d # c => pc'[d] = pc[d] /\ inode'[d] = inode[d]
    BY DEF StartupTypeOK
  <2>3. pc'[c] = "flock"
    BY DEF StartupTypeOK
  <2>4. QED
    BY <2>1, <2>2, <2>3 DEF TurnInv, Free, Up, StartupTypeOK
<1>6. QED
  BY <1>1, <1>2, <1>3, <1>4, <1>5

LEMMA FlockKeeps ==
    ASSUME StartupTypeOK, Faultless, NEW c \in Client, Flock(c)
    PROVE  Faultless'
<1> USE DEF Faultless, Goto, localVars, lockVars, daemonVars, Flock
<1>1. DaemonInv' /\ OneStarted' /\ OneFile'
  BY DEF DaemonInv, OneStarted, OneFile, Has, Up
<1>2. LocalInv'
  BY DEF LocalInv, Has, StartupTypeOK
<1>3. OneHolder'
  BY DEF OneHolder, Free
<1>4. HolderInv'
  BY DEF HolderInv, Has, LocalInv, StartupTypeOK
<1>5. TurnInv'
  BY DEF TurnInv, Free, Up, LocalInv, Has, StartupTypeOK
<1>6. QED
  BY <1>1, <1>2, <1>3, <1>4, <1>5

LEMMA WaitKeeps ==
    ASSUME StartupTypeOK, Faultless, NEW c \in Client, Wait(c)
    PROVE  Faultless'
<1> USE DEF Faultless, Goto, localVars, lockVars, daemonVars, Wait
<1>1. LocalInv' /\ DaemonInv' /\ OneStarted' /\ OneFile' /\ TurnInv'
  BY DEF LocalInv, Has, DaemonInv, OneStarted, OneFile, Up, TurnInv, Free
<1>2. OneHolder'
  BY DEF OneHolder, Free
<1>3. HolderInv'
  BY DEF HolderInv, Has, LocalInv, StartupTypeOK
<1>4. QED
  BY <1>1, <1>2, <1>3

LEMMA GotKeeps ==
    ASSUME StartupTypeOK, Faultless, NEW c \in Client, Got(c)
    PROVE  Faultless'
<1> USE DEF Faultless, Goto, localVars, lockVars, daemonVars, Got, CloseOwn
<1>1. /\ DaemonInv' /\ OneStarted' /\ OneFile' /\ OneHolder'
      /\ HolderInv' /\ TurnInv'
  BY DEF DaemonInv, OneStarted, OneFile, Has, Up, OneHolder, HolderInv,
         TurnInv, Free
<1>2. LocalInv'
  BY DEF LocalInv, Has, StartupTypeOK
<1>3. QED
  BY <1>1, <1>2

LEMMA SpawnKeeps ==
    ASSUME StartupTypeOK, Faultless, NEW c \in Client, Spawn(c)
    PROVE  Faultless'
<1> USE DEF Faultless, Goto, localVars, lockVars, daemonVars, Spawn
<1>1. OneHolder' /\ HolderInv'
  BY DEF OneHolder, HolderInv, Has
<1>2. LocalInv'
  BY DEF LocalInv, Has, StartupTypeOK
<1>3. DaemonInv'
  BY DEF DaemonInv, LocalInv, TurnInv, StartupTypeOK
<1>4. OneStarted'
  BY DEF OneStarted, TurnInv, StartupTypeOK
<1>5. OneFile'
  BY DEF OneFile, Has, Up, TurnInv, StartupTypeOK
<1>6. TurnInv'
  <2>1. ASSUME NEW d \in Client, d # c PROVE pc[d] # "spawn"
    BY <2>1, HolderIsAlone DEF TurnInv, Up, StartupTypeOK
  <2>2. \A d \in Client : d # c => pc'[d] = pc[d] /\ spawned'[d] = spawned[d]
    BY DEF StartupTypeOK
  <2>3. pc'[c] \in {"exec", "connect"} /\ spawned'[c]
    BY DEF StartupTypeOK
  <2>4. ~Up
    BY DEF TurnInv, Up, StartupTypeOK
  <2>5. QED
    BY <2>1, <2>2, <2>3, <2>4 DEF TurnInv, Free
<1>7. QED
  BY <1>1, <1>2, <1>3, <1>4, <1>5, <1>6

LEMMA UnlinkKeeps ==
    ASSUME StartupTypeOK, Faultless, NEW c \in Client, Unlink(c)
    PROVE  Faultless'
<1> USE DEF Faultless, Goto, localVars, lockVars, daemonVars, Unlink
<1>1. /\ LocalInv' /\ DaemonInv' /\ OneStarted' /\ OneHolder'
      /\ HolderInv' /\ TurnInv'
  BY DEF LocalInv, Has, DaemonInv, OneStarted, OneHolder, HolderInv,
         TurnInv, Free, Up
<1>2. OneFile'
  BY DEF OneFile, Has, Up, TurnInv
<1>3. QED
  BY <1>1, <1>2

LEMMA CloseLockKeeps ==
    ASSUME StartupTypeOK, Faultless, NEW c \in Client, CloseLock(c)
    PROVE  Faultless'
BY DEF Faultless, Goto, localVars, lockVars, daemonVars, CloseLock,
       CloseOwn, LocalInv, Has, DaemonInv, OneStarted, OneFile, Up,
       OneHolder, HolderInv, TurnInv, Free

LEMMA BindKeeps ==
    ASSUME StartupTypeOK, Faultless, NEW c \in Client, Bind(c)
    PROVE  Faultless'
<1> USE DEF Faultless, Goto, localVars, lockVars, daemonVars, Bind
<1>1. LocalInv' /\ OneStarted' /\ OneHolder' /\ HolderInv'
  BY DEF LocalInv, Has, OneStarted, OneHolder, HolderInv
<1>2. DaemonInv'
  BY DEF DaemonInv, OneStarted, StartupTypeOK
<1>3. OneFile'
  BY DEF OneFile, Has, Up, OneStarted, StartupTypeOK
<1>4. TurnInv'
  BY DEF TurnInv, Free, Up, OneStarted, StartupTypeOK
<1>5. QED
  BY <1>1, <1>2, <1>3, <1>4

LEMMA ListenKeeps ==
    ASSUME StartupTypeOK, Faultless, NEW c \in Client, Listen(c)
    PROVE  Faultless'
BY DEF Faultless, Goto, localVars, lockVars, daemonVars, Listen, LocalInv,
       Has, DaemonInv, OneStarted, OneFile, Up, OneHolder, HolderInv,
       TurnInv, Free

-----------------------------------------------------------------------------
LEMMA InvInit == Init => StartupInv
<1> SUFFICES ASSUME Init PROVE StartupInv
  OBVIOUS
<1> USE NoneIsNoClient, LimitsAssumption DEF Init
<1>1. StartupTypeOK
  BY DEF StartupTypeOK, Place, DaemonState
<1>2. LocalInv /\ DaemonInv /\ OneStarted
  BY DEF LocalInv, DaemonInv, OneStarted, Has
<1>3. OneFile /\ OneHolder /\ HolderInv
  BY DEF OneFile, OneHolder, HolderInv, Has
<1>4. TurnInv
  BY DEF TurnInv
<1>5. QED
  BY <1>1, <1>2, <1>3, <1>4 DEF StartupInv, Faultless

(* A step that leaves faults at 0 is one of the actions above.             *)
LEMMA InvStep == StartupInv /\ [Next]_vars => StartupInv'
<1> SUFFICES ASSUME StartupInv, [Next]_vars PROVE StartupInv'
  OBVIOUS
<1>1. StartupTypeOK /\ StartupTypeOK'
  BY TypeStep DEF StartupInv
<1>2. ASSUME faults' = 0 PROVE Faultless'
  <2>1. CASE UNCHANGED vars
    BY <1>2, <2>1 DEF StartupInv, Faultless, LocalInv, DaemonInv, OneStarted,
       OneFile, OneHolder, HolderInv, TurnInv, Has, Up, Free, vars, localVars,
       lockVars, daemonVars
  <2>2. ASSUME NEW c \in Client,
               LockFails(c) \/ Interrupt(c) \/ ListenFails(c) \/ DaemonDies(c)
        PROVE  FALSE
    <3>1. faults' = faults + 1
      BY <2>2 DEF LockFails, Interrupt, ListenFails, DaemonDies, Fault
    <3>2. QED
      BY <1>1, <1>2, <3>1 DEF StartupTypeOK
  <2>3. ASSUME NEW c \in Client, Begin(c) \/ ClientStep(c) \/ DaemonStep(c)
        PROVE  Faultless'
    <3>1. faults' = faults
      BY <2>3 DEF ClientStep, DaemonStep, Begin, Connected, Refused, GiveUp,
           Open,
         Flock, Wait, Got, Spawn, Unlink, CloseLock, Bind, Listen
    <3>2. Faultless
      BY <1>2, <3>1 DEF StartupInv
    <3>3. QED
      BY <1>1, <2>3, <3>2, BeginKeeps, ConnectedKeeps, RefusedKeeps,
           GiveUpKeeps,
         OpenKeeps, FlockKeeps, WaitKeeps, GotKeeps, SpawnKeeps, UnlinkKeeps,
         CloseLockKeeps, BindKeeps, ListenKeeps
         DEF ClientStep, DaemonStep
  <2>4. QED
    BY <2>1, <2>2, <2>3 DEF Next
<1>3. QED
  BY <1>1, <1>2 DEF StartupInv

LEMMA StartupInvariant == Spec => []StartupInv
<1>1. QED
  BY InvInit, InvStep, PTL DEF Spec

(* At most one daemon is started as long as nothing goes wrong, however    *)
(* many clients contend for it and however early they give up; and all     *)
(* variables keep their types (ctl_connect(), control_init()).             *)
THEOREM OneDaemonIsStarted == Spec => [](StartupTypeOK /\ OneDaemon)
<1>1. StartupInv => StartupTypeOK /\ OneDaemon
  BY DEF StartupInv, Faultless, OneStarted, OneDaemon
<1>2. QED
  BY <1>1, StartupInvariant, PTL

-----------------------------------------------------------------------------
Piece == Kind \X Nat \X BOOLEAN
Marked(u) == u[3] = TRUE
MessageType == [kind : Kind, fd : BOOLEAN]
PartType == [kind : Kind \cup {"none"}, got : Nat, fd : BOOLEAN]
BufType == [kind : Kind, rpos : Nat]

(* u can come after got units of a message of kind k, or after the end of  *)
(* one if got is 0.                                                        *)
Comes(k, got, u) == /\ u[2] = got + 1
                    /\ got > 0 => u[1] = k
                    /\ Marked(u) <=> got = 0 /\ u[1] \in Passes

(* How much of a message there is with u.                                  *)
Reached(u) == IF Ends(u) THEN 0 ELSE u[2]

-----------------------------------------------------------------------------
(* The reader, unit by unit.                                               *)

ReaderType == [head : Seq(Piece), msg : PartType, done : Seq(MessageType), fd : BOOLEAN]

ReaderOK(s) ==
    /\ s \in ReaderType /\ Len(s.head) < Header
    /\ IF s.msg.got = 0 THEN s.msg = NoMessage
       ELSE /\ s.head = <<>> /\ s.msg.kind \in Kind /\ Header <= s.msg.got
            /\ s.msg.got < Size(s.msg.kind)
            /\ s.msg.fd = (s.msg.kind \in Passes)

ReaderGot(s) == IF s.msg.got > 0 THEN s.msg.got ELSE Len(s.head)
ReaderKind(s) == IF s.msg.got > 0 THEN s.msg.kind ELSE s.head[1][1]

LEMMA Sizes ==
    /\ Header \in Nat \ {0} /\ MaxSize \in Nat /\ Passes \subseteq Kind /\ IovMax \in Nat \ {0}
    /\ Capacity \in Nat /\ MaxSent \in Nat
    /\ \A k \in Kind : Size(k) \in Nat /\ Size(k) >= Header
  BY SizesAssumption DEF Size

(* A header is whole with this unit.                                       *)
IsHeader(s, u) == ReaderGot(s) + 1 = Header /\ u[1] \in Passes

LEMMA HeaderIsParsed ==
    ASSUME NEW s, ReaderOK(s), s.msg = NoMessage, NEW k \in Kind
    PROVE  \E a \in BOOLEAN, b \in BOOLEAN :
               LET m == [kind |-> k, got |-> Header, fd |-> a] IN
               /\ a = (k \in Passes /\ s.fd) /\ b = (s.fd /\ k \notin Passes)
               /\ ParseHeader(s, k) = [head |-> <<>>, msg |-> m, done |-> s.done, fd |-> b]
               /\ m \in PartType
  <1> DEFINE a == k \in Passes /\ s.fd
             b == s.fd /\ k \notin Passes
             m == [kind |-> k, got |-> Header, fd |-> a]
  <1>1. a \in BOOLEAN /\ b \in BOOLEAN
    OBVIOUS
  <1>2. s = [head |-> s.head, msg |-> s.msg, done |-> s.done, fd |-> s.fd]
    BY DEF ReaderOK, ReaderType
  <1>3. ParseHeader(s, k) = [s EXCEPT !.head = <<>>, !.msg = m, !.fd = b]
    BY DEF ParseHeader
  <1> HIDE DEF a, b
  <1>4. m \in PartType
    BY <1>1, Sizes DEF PartType
  <1> HIDE DEF m
  <1>5. ParseHeader(s, k) = [head |-> <<>>, msg |-> m, done |-> s.done, fd |-> b]
    BY <1>2, <1>3
  <1>6. QED
    BY <1>1, <1>4, <1>5 DEF a, b, m

LEMMA UnitIsTaken ==
    ASSUME NEW s, ReaderOK(s), NEW u \in Piece, Comes(ReaderKind(s), ReaderGot(s), u),
           IsHeader(s, u) => s.fd = TRUE
    PROVE  LET t == TakeUnit(s, u) IN
           /\ ReaderOK(t) /\ ReaderGot(t) = Reached(u)
           /\ ReaderGot(t) > 0 => ReaderKind(t) = u[1]
           /\ t.done = IF Ends(u) THEN Append(s.done, AsSent(u[1])) ELSE s.done
           /\ t.fd = IF IsHeader(s, u) THEN FALSE ELSE s.fd
  <1> DEFINE t == TakeUnit(s, u)
  <1>1. u[1] \in Kind /\ u[2] \in Nat /\ u[2] = ReaderGot(s) + 1
        /\ (ReaderGot(s) > 0 => u[1] = ReaderKind(s))
    BY DEF Piece, Comes
  <1>0. /\ s = [head |-> s.head, msg |-> s.msg, done |-> s.done, fd |-> s.fd]
        /\ s.head \in Seq(Piece) /\ s.msg \in PartType /\ s.done \in Seq(MessageType)
        /\ s.fd \in BOOLEAN /\ Len(s.head) \in Nat /\ Len(s.head) < Header
        /\ s.msg = [kind |-> s.msg.kind, got |-> s.msg.got, fd |-> s.msg.fd]
        /\ s.msg.got \in Nat /\ s.msg.fd \in BOOLEAN
    BY LenProperties DEF ReaderOK, ReaderType, PartType
  <1>2. CASE s.msg # NoMessage
    <2> DEFINE k == s.msg.kind
               g == s.msg.got + 1
               m == [kind |-> k, got |-> g, fd |-> s.msg.fd]
               x == [head |-> s.head, msg |-> m, done |-> s.done, fd |-> s.fd]
    <2>1. /\ s.head = <<>> /\ k \in Kind /\ Header <= s.msg.got /\ s.msg.got < Size(k)
          /\ s.msg.fd = (k \in Passes) /\ s.msg.got > 0
      BY <1>2, Sizes, <1>0 DEF ReaderOK
    <2>2. /\ u[1] = k /\ u[2] = g /\ g \in Nat /\ g > 0 /\ Size(k) \in Nat /\ g <= Size(k)
          /\ ~IsHeader(s, u)
      BY <1>0, <1>1, <2>1, Sizes DEF ReaderGot, ReaderKind, IsHeader
    <2>3. t = Finish([s EXCEPT !.msg.got = @ + 1])
      BY <1>2 DEF TakeUnit
    <2>4. [s EXCEPT !.msg.got = @ + 1] = x
      BY <1>0
    <2>5. x.msg = m /\ x.head = <<>> /\ x.done = s.done /\ x.fd = s.fd /\ m.got = g
          /\ m.kind = k /\ m.fd = s.msg.fd
      BY <2>1
    <2>6. CASE g = Size(k)
      <3> DEFINE d == Append(s.done, [kind |-> k, fd |-> s.msg.fd])
      <3>1. t = [x EXCEPT !.msg = NoMessage, !.done = d]
        <4>1. t = Finish(x)
          BY <2>3, <2>4
        <4>2. x.msg.got = Size(x.msg.kind)
          BY <2>5, <2>6
        <4>3. d = Append(x.done, [kind |-> x.msg.kind, fd |-> x.msg.fd])
          BY <2>5
        <4> HIDE DEF t, x, d, m, k, g
        <4>4. Finish(x) = [x EXCEPT !.msg = NoMessage,
                                    !.done = Append(x.done, [kind |-> x.msg.kind,
                                                             fd |-> x.msg.fd])]
          BY <4>2 DEF Finish
        <4>5. QED
          BY <4>1, <4>3, <4>4
      <3> HIDE DEF d, t
      <3>2. t = [head |-> <<>>, msg |-> NoMessage, done |-> d, fd |-> s.fd]
        BY <3>1, <2>1
      <3>3. d \in Seq(MessageType) /\ d = Append(s.done, AsSent(u[1]))
        <4>1. [kind |-> k, fd |-> s.msg.fd] = AsSent(u[1])
          BY <2>1, <2>2 DEF AsSent
        <4>2. [kind |-> k, fd |-> s.msg.fd] \in MessageType
          BY <2>1, <1>0 DEF MessageType
        <4>3. QED
          BY <4>1, <4>2, <1>0, AppendProperties DEF d
      <3>4. NoMessage \in PartType /\ NoMessage.got = 0
        BY DEF NoMessage, PartType
      <3>5. t \in ReaderType /\ t.msg = NoMessage /\ t.head = <<>> /\ t.done = d /\ t.fd = s.fd
        BY <3>2, <3>3, <3>4, <1>0, EmptySeq DEF ReaderType
      <3>6. Len(<<>>) = 0
        OBVIOUS
      <3>7. ReaderOK(t) /\ ReaderGot(t) = 0
        BY <3>4, <3>5, <3>6, Sizes DEF ReaderOK, ReaderGot
      <3>8. Ends(u) /\ Reached(u) = 0
        BY <2>2, <2>6 DEF Ends, Reached
      <3>9. QED
        BY <3>3, <3>5, <3>7, <3>8, <2>2 DEF t
    <2>7. CASE g # Size(k)
      <3>1. t = x
        <4>1. t = Finish(x)
          BY <2>3, <2>4
        <4>2. x.msg.got # Size(x.msg.kind)
          BY <2>5, <2>7
        <4> HIDE DEF t, x, m, k, g
        <4>3. QED
          BY <4>1, <4>2 DEF Finish
      <3> HIDE DEF t
      <3>2. m \in PartType
        BY <2>1, <2>2, <1>0 DEF PartType
      <3> HIDE DEF m
      <3>3. t \in ReaderType /\ t.msg = m /\ t.head = <<>> /\ t.done = s.done /\ t.fd = s.fd
        BY <3>1, <3>2, <2>5, <1>0 DEF ReaderType
      <3>4. g < Size(k) /\ Header <= g /\ g # 0
        BY <2>1, <2>2, <2>7, Sizes, <1>0
      <3>5. Len(<<>>) = 0
        OBVIOUS
      <3>6. ReaderOK(t)
        BY <2>1, <2>5, <3>3, <3>4, <3>5, Sizes DEF ReaderOK
      <3>7. ReaderGot(t) = g /\ ReaderKind(t) = k
        BY <3>3, <2>2, <2>5 DEF ReaderGot, ReaderKind
      <3>8. ~Ends(u) /\ Reached(u) = g
        BY <2>2, <2>7 DEF Ends, Reached
      <3>9. QED
        BY <3>3, <3>6, <3>7, <3>8, <2>2 DEF t
    <2>8. QED
      BY <2>6, <2>7
  <1>3. CASE s.msg = NoMessage /\ Len(s.head) + 1 < Header
    <2> DEFINE h == Append(s.head, u)
    <2>1. t = [s EXCEPT !.head = h]
      BY <1>3 DEF TakeUnit
    <2>2. s.msg.got = 0 /\ ReaderGot(s) = Len(s.head)
      BY <1>3 DEF NoMessage, ReaderGot
    <2>3. h \in Seq(Piece) /\ Len(h) = Len(s.head) + 1 /\ h[Len(s.head) + 1] = u
          /\ (Len(s.head) > 0 => h[1] = s.head[1])
      BY <1>0, AppendProperties
    <2> HIDE DEF h, t
    <2>4. /\ t \in ReaderType /\ t.msg = NoMessage /\ t.head = h /\ t.done = s.done
          /\ t.fd = s.fd
      BY <2>1, <2>3, <1>0, <1>3 DEF ReaderType
    <2>5. ReaderOK(t) /\ ReaderGot(t) = Len(s.head) + 1 /\ ReaderKind(t) = h[1][1]
      BY <2>2, <2>3, <2>4, <1>3, <1>0 DEF ReaderOK, ReaderGot, ReaderKind
    <2>6. h[1][1] = u[1]
      BY <1>1, <2>2, <2>3, <1>0 DEF ReaderKind
    <2>7. ~Ends(u) /\ Reached(u) = Len(s.head) + 1
      BY <1>1, <2>2, <1>3, <1>0, Sizes DEF Ends, Reached
    <2>8. ~IsHeader(s, u)
      BY <2>2, <1>3, <1>0, Sizes DEF IsHeader
    <2>9. QED
      BY <2>4, <2>5, <2>6, <2>7, <2>8 DEF t
  <1>4. CASE s.msg = NoMessage /\ ~(Len(s.head) + 1 < Header)
    <2> DEFINE h == Append(s.head, u)
               k == u[1]
    <2>1. s.msg.got = 0 /\ ReaderGot(s) = Len(s.head) /\ Len(s.head) + 1 = Header
      BY <1>4, <1>0, Sizes DEF NoMessage, ReaderGot
    <2>2. h[1][1] = k
      <3>1. Len(s.head) = 0 => h[1] = u
        BY <1>0, AppendProperties
      <3>2. Len(s.head) > 0 => h[1] = s.head[1] /\ k = s.head[1][1]
        BY <1>0, <1>1, <2>1, AppendProperties DEF ReaderKind
      <3>3. QED
        BY <3>1, <3>2, <1>0
    <2>3. t = Finish(ParseHeader(s, k))
      BY <1>4, <2>2 DEF TakeUnit
    <2>4. PICK a \in BOOLEAN, b \in BOOLEAN :
               LET m == [kind |-> k, got |-> Header, fd |-> a] IN
               /\ a = (k \in Passes /\ s.fd) /\ b = (s.fd /\ k \notin Passes)
               /\ ParseHeader(s, k) = [head |-> <<>>, msg |-> m, done |-> s.done, fd |-> b]
               /\ m \in PartType
      BY <1>1, <1>4, HeaderIsParsed
    <2> DEFINE m == [kind |-> k, got |-> Header, fd |-> a]
               x == [head |-> <<>>, msg |-> m, done |-> s.done, fd |-> b]
    <2>5. IsHeader(s, u) <=> k \in Passes
      BY <2>1 DEF IsHeader
    <2>6. a = (k \in Passes)
      BY <2>4, <2>5
    <2>7. b = IF IsHeader(s, u) THEN FALSE ELSE s.fd
      BY <2>4, <2>5, <1>0
    <2>8. t = Finish(x) /\ x.msg = m /\ x.done = s.done /\ x.fd = b /\ x.head = <<>>
          /\ m.got = Header /\ m.kind = k /\ m.fd = a
      BY <2>3, <2>4
    <2>9. Header \in Nat /\ Header > 0 /\ Size(k) \in Nat /\ Header <= Size(k) /\ u[2] = Header
      BY Sizes, <1>1, <2>1
    <2>10. CASE Header = Size(k)
      <3> DEFINE d == Append(s.done, [kind |-> k, fd |-> a])
      <3>1. t = [x EXCEPT !.msg = NoMessage, !.done = d]
        BY <2>8, <2>10 DEF Finish
      <3> HIDE DEF d, t
      <3>2. t = [head |-> <<>>, msg |-> NoMessage, done |-> d, fd |-> b]
        BY <3>1
      <3>3. d \in Seq(MessageType) /\ d = Append(s.done, AsSent(k))
        <4>1. [kind |-> k, fd |-> a] = AsSent(k)
          BY <2>6 DEF AsSent
        <4>2. [kind |-> k, fd |-> a] \in MessageType
          BY <1>1 DEF MessageType
        <4>3. QED
          BY <4>1, <4>2, <1>0, AppendProperties DEF d
      <3>4. NoMessage \in PartType /\ NoMessage.got = 0
        BY DEF NoMessage, PartType
      <3>5. t \in ReaderType /\ t.msg = NoMessage /\ t.head = <<>> /\ t.done = d /\ t.fd = b
        BY <3>2, <3>3, <3>4, <1>0, EmptySeq DEF ReaderType
      <3>6. Len(<<>>) = 0
        OBVIOUS
      <3>7. ReaderOK(t) /\ ReaderGot(t) = 0
        BY <3>4, <3>5, <3>6, Sizes DEF ReaderOK, ReaderGot
      <3>8. Ends(u) /\ Reached(u) = 0
        BY <2>9, <2>10 DEF Ends, Reached
      <3>9. QED
        BY <3>3, <3>5, <3>7, <3>8, <2>7 DEF t
    <2>11. CASE Header # Size(k)
      <3>1. t = x
        BY <2>8, <2>11 DEF Finish
      <3>2. m \in PartType
        BY <2>4
      <3> HIDE DEF m, t
      <3>3. t \in ReaderType /\ t.msg = m /\ t.head = <<>> /\ t.done = s.done /\ t.fd = b
        BY <3>1, <3>2, <2>8, <1>0, EmptySeq DEF ReaderType
      <3>4. Header < Size(k) /\ Header # 0
        BY <2>9, <2>11
      <3>5. Len(<<>>) = 0
        OBVIOUS
      <3>6. ReaderOK(t)
        BY <1>1, <2>6, <2>8, <2>9, <3>3, <3>4, <3>5 DEF ReaderOK
      <3>7. ReaderGot(t) = Header /\ ReaderKind(t) = k
        BY <3>3, <2>8, <2>9 DEF ReaderGot, ReaderKind
      <3>8. ~Ends(u) /\ Reached(u) = Header
        BY <2>9, <2>11 DEF Ends, Reached
      <3>9. QED
        BY <3>3, <3>6, <3>7, <3>8, <2>7 DEF t
    <2>12. QED
      BY <2>10, <2>11
  <1>5. QED
    BY <1>2, <1>3, <1>4

-----------------------------------------------------------------------------
(* The stream.                                                             *)

(* s goes on where got units of a message of kind k are.                   *)
Runs(k, got, s) == \A i \in 1 .. Len(s) :
    IF i = 1 THEN Comes(k, got, s[i]) ELSE Comes(s[i - 1][1], Reached(s[i - 1]), s[i])

EndKind(k, s) == IF s = <<>> THEN k ELSE s[Len(s)][1]
EndGot(got, s) == IF s = <<>> THEN got ELSE Reached(s[Len(s)])

LEMMA Induct ==
    ASSUME NEW S, 0 \in S, \A m \in Nat : m \in S => m + 1 \in S
    PROVE  Nat \subseteq S
  <1> DEFINE T == Nat \ S
  <1>1. ASSUME T # {} PROVE FALSE
    <2>1. PICK x \in T : \A y \in T : ~(<<y, x>> \in OpToRel(<, Nat))
      BY <1>1, NatLessThanWellFounded, WFMin
    <2>2. x # 0 /\ x - 1 \in Nat /\ x - 1 < x
      OBVIOUS
    <2>3. <<x - 1, x>> \in OpToRel(<, Nat)
      BY <2>2 DEF OpToRel
    <2>4. x - 1 \notin T
      BY <2>1, <2>3
    <2>5. x - 1 \in S /\ (x - 1) + 1 = x
      BY <2>2, <2>4
    <2>6. QED
      BY <2>2, <2>5
  <1>2. QED
    BY <1>1

(* After a marked unit comes the rest of its header.                       *)
LEMMA HeaderFollows ==
    ASSUME NEW s \in Seq(Piece), NEW k, NEW got \in Nat, Runs(k, got, s),
           NEW j \in 1 .. Len(s), Marked(s[j]),
           NEW m \in Nat, m < Header, j + m <= Len(s)
    PROVE  s[j + m][2] = m + 1 /\ s[j + m][1] = s[j][1] /\ s[j][1] \in Passes
  <1> DEFINE Q == {d \in Nat : d < Header /\ j + d <= Len(s) =>
                        s[j + d][2] = d + 1 /\ s[j + d][1] = s[j][1]}
  <1>1. s[j][2] = 1 /\ s[j][1] \in Passes
    BY DEF Runs, Comes
  <1>2. 0 \in Q
    BY <1>1
  <1>3. ASSUME NEW d \in Nat, d \in Q PROVE d + 1 \in Q
    <2> SUFFICES ASSUME d + 1 < Header, j + (d + 1) <= Len(s)
                 PROVE  s[j + (d + 1)][2] = (d + 1) + 1 /\ s[j + (d + 1)][1] = s[j][1]
      OBVIOUS
    <2> DEFINE x == j + (d + 1)
    <2>1. d < Header /\ j + d <= Len(s) /\ Len(s) \in Nat
      BY Sizes, LenProperties
    <2>2. s[j + d][2] = d + 1 /\ s[j + d][1] = s[j][1]
      BY <1>3, <2>1
    <2>3. x \in 1 .. Len(s) /\ x # 1 /\ x - 1 = j + d
      BY <2>1
    <2>4. Comes(s[x - 1][1], Reached(s[x - 1]), s[x])
      BY <2>3 DEF Runs
    <2>5. s[j][1] \in Kind /\ Size(s[j][1]) >= Header /\ Size(s[j][1]) \in Nat /\ Header \in Nat
      BY <1>1, Sizes
    <2>6. Reached(s[j + d]) = d + 1
      BY <2>2, <2>5 DEF Reached, Ends
    <2> HIDE DEF x
    <2>7. s[x][2] = (d + 1) + 1 /\ s[x][1] = s[j][1]
      BY <2>2, <2>3, <2>4, <2>6 DEF Comes
    <2>8. QED
      BY <2>7 DEF x
  <1>4. m \in Q
    <2> HIDE DEF Q
    <2>1. Nat \subseteq Q
      BY <1>2, <1>3, Induct
    <2>2. QED
      BY <2>1
  <1>5. QED
    BY <1>1, <1>4

(* Before a unit of a header with a descriptor comes the marked one.       *)
LEMMA MarkPrecedes ==
    ASSUME NEW s \in Seq(Piece), NEW k, NEW got \in Nat, Runs(k, got, s),
           got > 0 /\ got < Header => k \notin Passes,
           NEW x \in 1 .. Len(s), NEW c \in Nat \ {0}, s[x][2] = c, c <= Header,
           s[x][1] \in Passes
    PROVE  x - c + 1 \in 1 .. Len(s) /\ Marked(s[x - c + 1])
  <1> DEFINE K == s[x][1]
             Q == {d \in Nat : d < c => /\ x - d >= 1 /\ s[x - d][2] = c - d
                                       /\ s[x - d][1] = K}
  <1>0. Len(s) \in Nat /\ Header \in Nat
    BY LenProperties, Sizes
  <1>1. 0 \in Q
    OBVIOUS
  <1>2. ASSUME NEW d \in Nat, d \in Q PROVE d + 1 \in Q
    <2> SUFFICES ASSUME d + 1 < c
                 PROVE  /\ x - (d + 1) >= 1 /\ s[x - (d + 1)][2] = c - (d + 1)
                        /\ s[x - (d + 1)][1] = K
      OBVIOUS
    <2> DEFINE y == x - d
    <2>1. y >= 1 /\ s[y][2] = c - d /\ s[y][1] = K /\ y \in 1 .. Len(s)
      BY <1>0, <1>2
    <2>2. c - d > 1 /\ c - d <= Header /\ c - d \in Nat
      BY <1>0
    <2>3. y - 1 = x - (d + 1) /\ y \in Int
      OBVIOUS
    <2> HIDE DEF y
    <2>4. y # 1
      <3>1. SUFFICES ASSUME y = 1 PROVE FALSE
        OBVIOUS
      <3>2. Comes(k, got, s[y])
        BY <2>1, <3>1 DEF Runs
      <3>3. got + 1 = c - d /\ (got > 0 => K = k)
        BY <2>1, <3>2 DEF Comes
      <3>4. got > 0 /\ got < Header
        BY <2>2, <3>3, <1>0
      <3>5. QED
        BY <3>3, <3>4
    <2>5. Comes(s[y - 1][1], Reached(s[y - 1]), s[y]) /\ y - 1 \in 1 .. Len(s)
      BY <2>1, <2>4, <1>0 DEF Runs
    <2>6. s[y - 1] \in Piece
      BY <2>5
    <2>7. s[y - 1][2] \in Nat
      BY <2>6 DEF Piece
    <2>8. Reached(s[y - 1]) \in Nat
      BY <2>7 DEF Reached
    <2>9. Reached(s[y - 1]) + 1 = c - d
      BY <2>1, <2>5 DEF Comes
    <2>10. Reached(s[y - 1]) > 0 /\ Reached(s[y - 1]) = c - (d + 1)
      BY <2>2, <2>8, <2>9
    <2>11. s[y - 1][2] = c - (d + 1)
      BY <2>10 DEF Reached
    <2>12. s[y - 1][1] = K
      BY <2>1, <2>5, <2>10 DEF Comes
    <2>13. y - 1 >= 1
      BY <2>5
    <2>14. QED
      BY <2>3, <2>11, <2>12, <2>13
  <1>3. c - 1 \in Q
    <2> HIDE DEF Q
    <2>1. Nat \subseteq Q
      BY <1>1, <1>2, Induct
    <2>2. QED
      BY <2>1
  <1> DEFINE j == x - (c - 1)
  <1>4. j >= 1 /\ s[j][2] = c - (c - 1) /\ s[j][1] = K /\ j <= Len(s) /\ j \in 1 .. Len(s)
        /\ j = x - c + 1 /\ c - (c - 1) = 1
    BY <1>3, <1>0
  <1> HIDE DEF j
  <1>5. Marked(s[j])
    <2>1. CASE j = 1
      <3>1. Comes(k, got, s[j])
        BY <2>1, <1>4 DEF Runs
      <3>2. got = 0
        BY <3>1, <1>4 DEF Comes
      <3>3. QED
        BY <3>1, <3>2, <1>4 DEF Comes
    <2>2. CASE j # 1
      <3>1. Comes(s[j - 1][1], Reached(s[j - 1]), s[j]) /\ j - 1 \in 1 .. Len(s)
        <4>1. j \in 1 .. Len(s) /\ Len(s) \in Nat
          BY <1>4, <1>0
        <4>2. j - 1 \in 1 .. Len(s)
          BY ONLY <2>2, <4>1
        <4>3. Runs(k, got, s)
          OBVIOUS
        <4>4. Comes(s[j - 1][1], Reached(s[j - 1]), s[j])
          BY ONLY <2>2, <4>1, <4>3 DEF Runs
        <4>5. QED
          BY <4>2, <4>4
      <3>2. Reached(s[j - 1]) \in Nat
        BY <3>1 DEF Reached, Piece
      <3>3. Reached(s[j - 1]) + 1 = 1
        BY <3>1, <1>4 DEF Comes
      <3>4. Reached(s[j - 1]) = 0
        BY <3>2, <3>3
      <3>5. QED
        BY <3>1, <3>4, <1>4 DEF Comes
    <2>3. QED
      BY <2>1, <2>2
  <1>6. QED
    BY <1>4, <1>5

-----------------------------------------------------------------------------
(* What the loops of the model compute: each has a value after any number  *)
(* of turns.                                                               *)

TakenUpTo(f, r, s, n) == f = [i \in 0 .. n |-> IF i = 0 THEN r ELSE TakeUnit(f[i - 1], s[i])]

LEMMA TakenIs ==
    ASSUME NEW r, NEW s, Len(s) \in Nat
    PROVE  \E f : TakenUpTo(f, r, s, Len(s)) /\ Taken(r, s) = f[Len(s)]
  <1> DEFINE Q == {n \in Nat : \E f : TakenUpTo(f, r, s, n)}
  <1>1. 0 \in Q
    <2>1. TakenUpTo([i \in 0 .. 0 |-> r], r, s, 0)
      BY DEF TakenUpTo
    <2>2. QED
      BY <2>1
  <1>2. ASSUME NEW n \in Nat, n \in Q PROVE n + 1 \in Q
    <2>1. PICK f : TakenUpTo(f, r, s, n)
      BY <1>2
    <2> DEFINE g == [i \in 0 .. n + 1 |-> IF i = n + 1 THEN TakeUnit(f[n], s[n + 1]) ELSE f[i]]
               G == [i \in 0 .. n + 1 |-> IF i = 0 THEN r ELSE TakeUnit(g[i - 1], s[i])]
    <2>2. ASSUME NEW i \in 0 .. n + 1 PROVE g[i] = G[i]
      <3>1. CASE i = 0
        BY <2>1, <3>1 DEF TakenUpTo
      <3>2. CASE i = n + 1
        <4>1. i # 0 /\ i - 1 = n /\ n \in 0 .. n + 1 /\ n # n + 1
          BY <3>2
        <4>2. g[i - 1] = f[n]
          BY <4>1
        <4>3. QED
          BY <3>2, <4>1, <4>2
      <3>3. CASE i # 0 /\ i # n + 1
        <4>1. i \in 0 .. n /\ i - 1 \in 0 .. n + 1 /\ i - 1 # n + 1
          BY <3>3
        <4>2. g[i - 1] = f[i - 1] /\ g[i] = f[i]
          BY <3>3, <4>1
        <4>3. f[i] = TakeUnit(f[i - 1], s[i])
          BY <2>1, <3>3, <4>1 DEF TakenUpTo
        <4>4. QED
          BY <3>3, <4>2, <4>3
      <3>4. QED
        BY <3>1, <3>2, <3>3
    <2>3. g = G
      <3> HIDE DEF TakenUpTo
      <3>1. QED
        BY <2>2
    <2>4. TakenUpTo(g, r, s, n + 1)
      BY <2>3 DEF TakenUpTo
    <2>5. QED
      BY <2>4
  <1>3. Len(s) \in Q
    <2> HIDE DEF Q
    <2>1. Nat \subseteq Q
      BY <1>1, <1>2, Induct
    <2>2. QED
      BY <2>1
  <1> DEFINE F(f) == [i \in 0 .. Len(s) |-> IF i = 0 THEN r ELSE TakeUnit(f[i - 1], s[i])]
             h == CHOOSE f : f = F(f)
  <1>4. \E f : f = F(f)
    BY <1>3 DEF TakenUpTo
  <1>5. h = F(h)
    <2> HIDE DEF F
    <2>1. QED
      BY <1>4
  <1>6. Taken(r, s) = h[Len(s)]
    BY DEF Taken
  <1>7. TakenUpTo(h, r, s, Len(s))
    BY <1>5 DEF TakenUpTo
  <1>8. QED
    BY <1>6, <1>7

(* The messages that have ended with the first n units.                    *)
ArrivedUpTo(f, s, n) ==
    f = [i \in 0 .. n |->
            IF i = 0 THEN <<>>
            ELSE IF Ends(s[i]) THEN Append(f[i - 1], AsSent(s[i][1])) ELSE f[i - 1]]

LEMMA ArrivingIs ==
    ASSUME NEW s, Len(s) \in Nat
    PROVE  \E f : ArrivedUpTo(f, s, Len(s)) /\ Arriving(s) = f[Len(s)]
  <1> DEFINE E(x, i) == IF Ends(s[i]) THEN Append(x, AsSent(s[i][1])) ELSE x
             Q == {n \in Nat : \E f : ArrivedUpTo(f, s, n)}
  <1>1. 0 \in Q
    <2>1. ArrivedUpTo([i \in 0 .. 0 |-> <<>>], s, 0)
      BY DEF ArrivedUpTo
    <2>2. QED
      BY <2>1
  <1>2. ASSUME NEW n \in Nat, n \in Q PROVE n + 1 \in Q
    <2>1. PICK f : ArrivedUpTo(f, s, n)
      BY <1>2
    <2> DEFINE g == [i \in 0 .. n + 1 |-> IF i = n + 1 THEN E(f[n], n + 1) ELSE f[i]]
               G == [i \in 0 .. n + 1 |-> IF i = 0 THEN <<>> ELSE E(g[i - 1], i)]
    <2>0. \A i \in 0 .. n : f[i] = IF i = 0 THEN <<>> ELSE E(f[i - 1], i)
      BY <2>1 DEF ArrivedUpTo
    <2> HIDE DEF E
    <2>2. ASSUME NEW i \in 0 .. n + 1 PROVE g[i] = G[i]
      <3>1. CASE i = 0
        BY <2>0, <3>1
      <3>2. CASE i = n + 1
        <4>1. i # 0 /\ i - 1 = n /\ n \in 0 .. n + 1 /\ n # n + 1
          BY <3>2
        <4>2. g[i - 1] = f[n]
          BY <4>1
        <4>3. QED
          BY <3>2, <4>1, <4>2
      <3>3. CASE i # 0 /\ i # n + 1
        <4>1. i \in 0 .. n /\ i - 1 \in 0 .. n + 1 /\ i - 1 # n + 1
          BY <3>3
        <4>2. g[i - 1] = f[i - 1] /\ g[i] = f[i]
          BY <3>3, <4>1
        <4>3. f[i] = E(f[i - 1], i)
          BY <2>0, <3>3, <4>1
        <4>4. QED
          BY <3>3, <4>2, <4>3
      <3>4. QED
        BY <3>1, <3>2, <3>3
    <2>3. g = G
      BY <2>2
    <2>4. ArrivedUpTo(g, s, n + 1)
      BY <2>3 DEF ArrivedUpTo, E
    <2>5. QED
      BY <2>4
  <1>3. Len(s) \in Q
    <2> HIDE DEF Q
    <2>1. Nat \subseteq Q
      BY <1>1, <1>2, Induct
    <2>2. QED
      BY <2>1
  <1> DEFINE F(f) == [i \in 0 .. Len(s) |->
                        IF i = 0 THEN <<>>
                        ELSE IF Ends(s[i]) THEN Append(f[i - 1], AsSent(s[i][1])) ELSE f[i - 1]]
             h == CHOOSE f : f = F(f)
  <1>4. \E f : f = F(f)
    BY <1>3 DEF ArrivedUpTo
  <1>5. h = F(h)
    <2> HIDE DEF F
    <2>1. QED
      BY <1>4
  <1>6. Arriving(s) = h[Len(s)]
    BY DEF Arriving
  <1>7. ArrivedUpTo(h, s, Len(s))
    BY <1>5 DEF ArrivedUpTo
  <1>8. QED
    BY <1>6, <1>7

DrainedUpTo(f, bs, n) ==
    f = [i \in 0 .. n |->
            IF i = 0 THEN bs ELSE IF f[i - 1] = <<>> THEN <<>> ELSE Shorten(f[i - 1])]

LEMMA DrainIs ==
    ASSUME NEW bs, NEW m \in Nat
    PROVE  DrainedUpTo(Drain(bs, m), bs, m)
  <1> DEFINE E(x) == IF x = <<>> THEN <<>> ELSE Shorten(x)
             Q == {n \in Nat : \E f : DrainedUpTo(f, bs, n)}
  <1>1. 0 \in Q
    <2>1. DrainedUpTo([i \in 0 .. 0 |-> bs], bs, 0)
      BY DEF DrainedUpTo
    <2>2. QED
      BY <2>1
  <1>2. ASSUME NEW n \in Nat, n \in Q PROVE n + 1 \in Q
    <2>1. PICK f : DrainedUpTo(f, bs, n)
      BY <1>2
    <2> DEFINE g == [i \in 0 .. n + 1 |-> IF i = n + 1 THEN E(f[n]) ELSE f[i]]
               G == [i \in 0 .. n + 1 |-> IF i = 0 THEN bs ELSE E(g[i - 1])]
    <2>0. \A i \in 0 .. n : f[i] = IF i = 0 THEN bs ELSE E(f[i - 1])
      BY <2>1 DEF DrainedUpTo
    <2> HIDE DEF E
    <2>2. ASSUME NEW i \in 0 .. n + 1 PROVE g[i] = G[i]
      <3>1. CASE i = 0
        BY <2>0, <3>1
      <3>2. CASE i = n + 1
        <4>1. i # 0 /\ i - 1 = n /\ n \in 0 .. n + 1 /\ n # n + 1
          BY <3>2
        <4>2. g[i - 1] = f[n]
          BY <4>1
        <4>3. QED
          BY <3>2, <4>1, <4>2
      <3>3. CASE i # 0 /\ i # n + 1
        <4>1. i \in 0 .. n /\ i - 1 \in 0 .. n + 1 /\ i - 1 # n + 1
          BY <3>3
        <4>2. g[i - 1] = f[i - 1] /\ g[i] = f[i]
          BY <3>3, <4>1
        <4>3. f[i] = E(f[i - 1])
          BY <2>0, <3>3, <4>1
        <4>4. QED
          BY <3>3, <4>2, <4>3
      <3>4. QED
        BY <3>1, <3>2, <3>3
    <2>3. g = G
      BY <2>2
    <2>4. DrainedUpTo(g, bs, n + 1)
      BY <2>3 DEF DrainedUpTo, E
    <2>5. QED
      BY <2>4
  <1>3. m \in Q
    <2> HIDE DEF Q
    <2>1. Nat \subseteq Q
      BY <1>1, <1>2, Induct
    <2>2. QED
      BY <2>1
  <1> DEFINE F(f) == [i \in 0 .. m |->
                        IF i = 0 THEN bs ELSE IF f[i - 1] = <<>> THEN <<>> ELSE Shorten(f[i - 1])]
             h == CHOOSE f : f = F(f)
  <1>4. \E f : f = F(f)
    BY <1>3 DEF DrainedUpTo
  <1>5. h = F(h)
    <2> HIDE DEF F
    <2>1. QED
      BY <1>4
  <1>6. Drain(bs, m) = h
    BY DEF Drain
  <1>7. DrainedUpTo(h, bs, m)
    BY <1>5 DEF DrainedUpTo
  <1>8. QED
    BY <1>6, <1>7

LEMMA JoinAssociates ==
    \A s, t, u \in Seq(MessageType) : (s \o t) \o u = s \o (t \o u)
  BY ONLY ConcatAssociative

LEMMA AppendToJoined ==
    \A s, t \in Seq(MessageType), e \in MessageType :
        Append(s \o t, e) = s \o Append(t, e)
  <1> TAKE s \in Seq(MessageType), t \in Seq(MessageType), e \in MessageType
  <1>1. s \o t \in Seq(MessageType) /\ <<e>> \in Seq(MessageType)
    BY ConcatProperties
  <1>2. Append(s \o t, e) = (s \o t) \o <<e>> /\ Append(t, e) = t \o <<e>>
    BY <1>1, AppendIsConcat
  <1>3. (s \o t) \o <<e>> = s \o (t \o <<e>>)
    BY ONLY <1>1, JoinAssociates
  <1>4. QED
    BY <1>2, <1>3

LEMMA AsSentIs == \A k \in Kind : AsSent(k) \in MessageType
  BY DEF AsSent, MessageType

LEMMA ArrivedAreMessages ==
    ASSUME NEW s \in Seq(Piece), NEW f, ArrivedUpTo(f, s, Len(s))
    PROVE  \A i \in 0 .. Len(s) : f[i] \in Seq(MessageType)
  <1> DEFINE Q == {i \in Nat : i <= Len(s) => f[i] \in Seq(MessageType)}
  <1>0. Len(s) \in Nat
    BY LenProperties
  <1>1. 0 \in Q
    BY <1>0, EmptySeq DEF ArrivedUpTo
  <1>2. ASSUME NEW n \in Nat, n \in Q PROVE n + 1 \in Q
    <2> SUFFICES ASSUME n + 1 <= Len(s) PROVE f[n + 1] \in Seq(MessageType)
      OBVIOUS
    <2>1. /\ n + 1 \in 1 .. Len(s) /\ n + 1 \in 0 .. Len(s) /\ n + 1 # 0
          /\ (n + 1) - 1 = n /\ n <= Len(s)
      BY <1>0
    <2>2. f[n + 1] = IF Ends(s[n + 1]) THEN Append(f[n], AsSent(s[n + 1][1])) ELSE f[n]
      BY <2>1 DEF ArrivedUpTo
    <2>3. f[n] \in Seq(MessageType)
      BY <1>2, <2>1
    <2>4. AsSent(s[n + 1][1]) \in MessageType
      BY <2>1, AsSentIs DEF Piece
    <2>5. QED
      BY <2>2, <2>3, <2>4, AppendProperties
  <1>3. Nat \subseteq Q
    <2> HIDE DEF Q
    <2>1. QED
      BY <1>1, <1>2, Induct
  <1>4. QED
    BY <1>3, <1>0

(* What has arrived with two pieces of the stream has arrived with one or  *)
(* the other.                                                              *)
LEMMA ArrivingJoins ==
    ASSUME NEW s \in Seq(Piece), NEW t \in Seq(Piece)
    PROVE  /\ Arriving(s) \in Seq(MessageType)
           /\ Arriving(s \o t) = Arriving(s) \o Arriving(t)
  <1> DEFINE w == s \o t
             l == Len(s)
             m == Len(t)
  <1>1. /\ l \in Nat /\ m \in Nat /\ w \in Seq(Piece) /\ Len(w) = l + m
        /\ \A i \in 1 .. l : w[i] = s[i]
        /\ \A i \in 1 .. m : w[l + i] = t[i]
    BY LenProperties, ConcatProperties
  <1>2. PICK a : ArrivedUpTo(a, s, l) /\ Arriving(s) = a[l]
    BY <1>1, ArrivingIs
  <1>3. PICK b : ArrivedUpTo(b, t, m) /\ Arriving(t) = b[m]
    BY <1>1, ArrivingIs
  <1> HIDE DEF w
  <1>4. PICK c : ArrivedUpTo(c, w, l + m) /\ Arriving(w) = c[l + m]
    <2>1. Len(w) \in Nat
      BY <1>1
    <2>2. PICK c : ArrivedUpTo(c, w, Len(w)) /\ Arriving(w) = c[Len(w)]
      BY <2>1, ArrivingIs
    <2>3. QED
      BY <1>1, <2>2
  <1>5. /\ \A i \in 0 .. l : a[i] \in Seq(MessageType)
        /\ \A i \in 0 .. m : b[i] \in Seq(MessageType)
    BY <1>2, <1>3, ArrivedAreMessages
  <1>6. c[l] = a[l]
    <2> DEFINE Q == {i \in Nat : i <= l => c[i] = a[i]}
    <2>1. 0 \in Q
      BY <1>1, <1>2, <1>4 DEF ArrivedUpTo
    <2>2. ASSUME NEW n \in Nat, n \in Q PROVE n + 1 \in Q
      <3> SUFFICES ASSUME n + 1 <= l PROVE c[n + 1] = a[n + 1]
        OBVIOUS
      <3>1. n + 1 \in 0 .. l /\ n + 1 \in 0 .. l + m /\ n + 1 # 0 /\ (n + 1) - 1 = n
            /\ n + 1 \in 1 .. l /\ n <= l
        BY <1>1
      <3>2. c[n] = a[n] /\ w[n + 1] = s[n + 1]
        BY <1>1, <2>2, <3>1
      <3>3. c[n + 1] = IF Ends(w[n + 1]) THEN Append(c[n], AsSent(w[n + 1][1])) ELSE c[n]
        BY <1>4, <3>1 DEF ArrivedUpTo
      <3>4. a[n + 1] = IF Ends(s[n + 1]) THEN Append(a[n], AsSent(s[n + 1][1])) ELSE a[n]
        BY <1>2, <3>1 DEF ArrivedUpTo
      <3>5. QED
        BY <3>2, <3>3, <3>4
    <2>3. Nat \subseteq Q
      <3> HIDE DEF Q
      <3>1. QED
        BY <2>1, <2>2, Induct
    <2>4. QED
      BY <1>1, <2>3
  <1>7. c[l + m] = a[l] \o b[m]
    <2> DEFINE Same(i) == c[l + i] = a[l] \o b[i]
               Q == {i \in Nat : i <= m => Same(i)}
    <2>0. a[l] \in Seq(MessageType)
      BY <1>1, <1>5
    <2>1. Same(0)
      <3>1. b[0] = <<>>
        BY <1>1, <1>3 DEF ArrivedUpTo
      <3>2. l + 0 = l
        BY <1>1
      <3>3. a[l] \o <<>> = a[l]
        BY <2>0, ConcatEmptySeq
      <3>4. QED
        BY <1>6, <3>1, <3>2, <3>3
    <2>2. ASSUME NEW n \in Nat, n + 1 <= m, Same(n) PROVE Same(n + 1)
      <3> DEFINE x == l + (n + 1)
      <3>1. n + 1 \in 0 .. m /\ x \in 0 .. l + m /\ n + 1 # 0 /\ (n + 1) - 1 = n
            /\ n + 1 \in 1 .. m /\ n <= m /\ x # 0 /\ x - 1 = l + n /\ n \in 0 .. m
        BY <1>1, <2>2
      <3>2. c[l + n] = a[l] \o b[n] /\ w[x] = t[n + 1]
        BY <1>1, <2>2, <3>1
      <3> HIDE DEF x
      <3>3. c[x] = IF Ends(w[x]) THEN Append(c[l + n], AsSent(w[x][1])) ELSE c[l + n]
        BY <1>4, <3>1 DEF ArrivedUpTo
      <3>4. b[n + 1] = IF Ends(t[n + 1]) THEN Append(b[n], AsSent(t[n + 1][1])) ELSE b[n]
        BY <1>3, <3>1 DEF ArrivedUpTo
      <3>5. b[n] \in Seq(MessageType) /\ AsSent(t[n + 1][1]) \in MessageType
        BY <1>5, <3>1, AsSentIs DEF Piece
      <3>6. ASSUME NEW e \in MessageType
            PROVE  Append(a[l] \o b[n], e) = a[l] \o Append(b[n], e)
        BY <2>0, <3>5, AppendToJoined
      <3>7. c[x] = a[l] \o b[n + 1]
        BY <3>2, <3>3, <3>4, <3>5, <3>6
      <3>8. QED
        BY <3>7 DEF x
    <2>3. Same(m)
      <3> HIDE DEF Same
      <3>1. 0 \in Q
        BY <2>1
      <3>2. ASSUME NEW n \in Nat, n \in Q PROVE n + 1 \in Q
        BY <2>2, <3>2, <1>1
      <3>3. Nat \subseteq Q
        <4> HIDE DEF Q
        <4>1. QED
          BY <3>1, <3>2, Induct
      <3>4. QED
        BY <1>1, <3>3
    <2>4. QED
      BY <2>3
  <1>8. QED
    BY <1>1, <1>2, <1>3, <1>4, <1>5, <1>7 DEF w

LEMMA NothingArrives == Arriving(<<>>) = <<>>
  <1>1. Len(<<>>) = 0 /\ Len(<<>>) \in Nat
    OBVIOUS
  <1>2. PICK f : ArrivedUpTo(f, <<>>, Len(<<>>)) /\ Arriving(<<>>) = f[Len(<<>>)]
    BY ONLY <1>1, ArrivingIs
  <1>3. QED
    BY <1>1, <1>2 DEF ArrivedUpTo

(* What a read takes, unit by unit: the reader is where the units end, has *)
(* the messages that end with them, and none is short of a descriptor.     *)
LEMMA UnitsAreTaken ==
    ASSUME NEW r, ReaderOK(r), NEW s \in Seq(Piece), Len(s) > 0,
           Runs(ReaderKind(r), ReaderGot(r), s),
           ReaderGot(r) > 0 /\ ReaderGot(r) < Header => ReaderKind(r) \notin Passes,
           \A i, j \in 1 .. Len(s) : Marked(s[i]) /\ Marked(s[j]) => i = j,
           \A i \in 1 .. Len(s) : Marked(s[i]) => Len(s) >= i + Header - 1,
           r.fd = TRUE <=> \E i \in 1 .. Len(s) : Marked(s[i])
    PROVE  LET t == Taken(r, s) IN
           /\ ReaderOK(t) /\ ReaderGot(t) = Reached(s[Len(s)])
           /\ ReaderGot(t) > 0 => ReaderKind(t) = s[Len(s)][1]
           /\ ReaderGot(t) > 0 /\ ReaderGot(t) < Header => ReaderKind(t) \notin Passes
           /\ t.done = r.done \o Arriving(s)
  <1> DEFINE n == Len(s)
             k == ReaderKind(r)
             got == ReaderGot(r)
  <1>0. n \in Nat /\ n > 0 /\ Header \in Nat \ {0} /\ got \in Nat
    BY LenProperties, Sizes DEF ReaderOK, ReaderType, PartType, ReaderGot
  <1>1. PICK f : TakenUpTo(f, r, s, n) /\ Taken(r, s) = f[n]
    BY <1>0, TakenIs
  <1>2. PICK a : ArrivedUpTo(a, s, n) /\ Arriving(s) = a[n]
    BY <1>0, ArrivingIs
  <1>3. \A i \in 0 .. n : a[i] \in Seq(MessageType)
    BY <1>2, ArrivedAreMessages
  <1> DEFINE At(i) == /\ ReaderOK(f[i])
                      /\ i = 0 => f[i] = r
                      /\ i > 0 => ReaderGot(f[i]) = Reached(s[i])
                      /\ i > 0 /\ ReaderGot(f[i]) > 0 => ReaderKind(f[i]) = s[i][1]
                      /\ f[i].done = r.done \o a[i]
                      /\ f[i].fd = TRUE <=>
                            \E j \in 1 .. n : Marked(s[j]) /\ j + Header - 1 > i
             Q == {i \in Nat : i <= n => At(i)}
  <1>4. At(0)
    <2>1. f[0] = r /\ a[0] = <<>>
      BY <1>0, <1>1, <1>2 DEF TakenUpTo, ArrivedUpTo
    <2>2. r.done \o <<>> = r.done
      BY ConcatEmptySeq DEF ReaderOK, ReaderType
    <2>3. \A j \in 1 .. n : j + Header - 1 > 0
      BY <1>0
    <2>4. QED
      BY <2>1, <2>2, <2>3
  <1>5. ASSUME NEW i \in Nat, i + 1 <= n, At(i) PROVE At(i + 1)
    <2> DEFINE x == i + 1
               u == s[x]
    <2>1. x \in 1 .. n /\ x \in 0 .. n /\ x # 0 /\ x - 1 = i /\ i \in 0 .. n /\ x \in Nat /\ x > 0
      BY <1>0, <1>5
    <2>2. f[x] = TakeUnit(f[i], u)
      BY <1>1, <2>1 DEF TakenUpTo
    <2>3. a[x] = IF Ends(u) THEN Append(a[i], AsSent(u[1])) ELSE a[i]
      <3>1. ASSUME NEW y \in 0 .. n, y # 0
            PROVE  a[y] = IF Ends(s[y]) THEN Append(a[y - 1], AsSent(s[y][1])) ELSE a[y - 1]
        BY ONLY <1>2, <3>1 DEF ArrivedUpTo
      <3> HIDE DEF x
      <3>2. QED
        BY <2>1, <3>1
    <2>4. u \in Piece
      BY <2>1
    <2>5. Comes(ReaderKind(f[i]), ReaderGot(f[i]), u)
      <3>1. CASE i = 0
        <4>1. x = 1 /\ f[i] = r
          BY <3>1, <1>5
        <4>2. QED
          BY <4>1, <2>1 DEF Runs
      <3>2. CASE i > 0
        <4>1. Comes(s[i][1], Reached(s[i]), u)
          BY <2>1, <3>2 DEF Runs
        <4>2. ReaderGot(f[i]) = Reached(s[i]) /\ (ReaderGot(f[i]) > 0 => ReaderKind(f[i]) = s[i][1])
          BY <3>2, <1>5
        <4>3. QED
          BY <4>1, <4>2 DEF Comes
      <3>3. QED
        BY <3>1, <3>2
    <2>6. ReaderGot(f[i]) + 1 = u[2]
      BY <2>5 DEF Comes
    <2>7. IsHeader(f[i], u) <=> u[2] = Header /\ u[1] \in Passes
      BY <2>6 DEF IsHeader
    <2>8. ASSUME IsHeader(f[i], u)
          PROVE  x - Header + 1 \in 1 .. n /\ Marked(s[x - Header + 1])
      <3>1. s[x][2] = Header /\ s[x][1] \in Passes
        BY <2>7, <2>8
      <3>2. Header \in Nat \ {0} /\ Header <= Header /\ x \in 1 .. Len(s)
        BY <1>0, <2>1
      <3>3. /\ s \in Seq(Piece) /\ Runs(k, got, s) /\ got \in Nat
            /\ got > 0 /\ got < Header => k \notin Passes
        BY <1>0
      <3> HIDE DEF k, got, x
      <3>4. QED
        BY ONLY <3>1, <3>2, <3>3, MarkPrecedes
    <2>9. ASSUME NEW j \in 1 .. n, Marked(s[j]), j + Header - 1 = x
          PROVE  IsHeader(f[i], u)
      <3>1. Header - 1 \in Nat /\ Header - 1 < Header /\ j + (Header - 1) = x
            /\ j + (Header - 1) <= n /\ (Header - 1) + 1 = Header
        BY <1>0, <2>1, <2>9
      <3>2. /\ s[j + (Header - 1)][2] = (Header - 1) + 1
            /\ s[j + (Header - 1)][1] = s[j][1] /\ s[j][1] \in Passes
        <4> DEFINE d == Header - 1
        <4>1. d \in Nat /\ d < Header /\ j + d <= Len(s)
          BY <3>1
        <4> HIDE DEF d
        <4>2. Runs(k, got, s) /\ j \in 1 .. Len(s) /\ Marked(s[j])
          BY <2>9
        <4> HIDE DEF k, got
        <4>3. s[j + d][2] = d + 1 /\ s[j + d][1] = s[j][1] /\ s[j][1] \in Passes
          BY <4>1, <4>2, <1>0, HeaderFollows
        <4>4. QED
          BY <4>3 DEF d
      <3>3. QED
        BY <3>1, <3>2, <2>7
    <2>10. f[i].fd \in BOOLEAN /\ ReaderOK(f[i]) /\ f[i].done = r.done \o a[i]
      BY <1>5 DEF ReaderOK, ReaderType
    <2>11. f[i].fd = TRUE <=> \E j \in 1 .. n : Marked(s[j]) /\ j + Header - 1 > i
      BY <1>5
    <2>12. IsHeader(f[i], u) => f[i].fd = TRUE
      <3>1. SUFFICES ASSUME IsHeader(f[i], u) PROVE f[i].fd = TRUE
        OBVIOUS
      <3>2. (x - Header + 1) + Header - 1 > i
        BY <1>0, <2>1
      <3>3. QED
        BY <2>8, <2>11, <3>1, <3>2
    <2> DEFINE t == TakeUnit(f[i], u)
    <2>13. /\ ReaderOK(t) /\ ReaderGot(t) = Reached(u)
           /\ ReaderGot(t) > 0 => ReaderKind(t) = u[1]
           /\ t.done = IF Ends(u) THEN Append(f[i].done, AsSent(u[1])) ELSE f[i].done
           /\ t.fd = IF IsHeader(f[i], u) THEN FALSE ELSE f[i].fd
      BY ONLY <2>4, <2>5, <2>10, <2>12, UnitIsTaken
    <2>14. t.done = r.done \o a[x]
      <3>1. r.done \in Seq(MessageType) /\ a[i] \in Seq(MessageType) /\ AsSent(u[1]) \in MessageType
        BY <1>3, <2>1, <2>4, AsSentIs DEF ReaderOK, ReaderType, Piece
      <3>2. ASSUME NEW e \in MessageType
            PROVE  Append(r.done \o a[i], e) = r.done \o Append(a[i], e)
        BY <3>1, AppendToJoined
      <3>3. QED
        BY <2>3, <2>10, <2>13, <3>1, <3>2
    <2>15. t.fd = TRUE <=> \E j \in 1 .. n : Marked(s[j]) /\ j + Header - 1 > x
      <3>1. CASE IsHeader(f[i], u)
        <4>1. ASSUME NEW j \in 1 .. n, Marked(s[j]) PROVE ~(j + Header - 1 > x)
          <5>1. j = x - Header + 1
            BY <2>8, <3>1, <4>1
          <5>2. QED
            BY <5>1, <1>0, <2>1
        <4>2. t.fd = FALSE
          BY <3>1, <2>13
        <4>3. QED
          BY <4>1, <4>2
      <3>2. CASE ~IsHeader(f[i], u)
        <4>1. ASSUME NEW j \in 1 .. n, Marked(s[j])
              PROVE  j + Header - 1 > i <=> j + Header - 1 > x
          <5>1. j + Header - 1 # x
            BY <2>9, <3>2, <4>1
          <5>2. QED
            BY <5>1, <1>0, <2>1
        <4>2. t.fd = f[i].fd
          BY <3>2, <2>13
        <4>3. QED
          BY <2>11, <4>1, <4>2
      <3>3. QED
        BY <3>1, <3>2
    <2>16. QED
      BY <2>1, <2>2, <2>13, <2>14, <2>15
  <1>6. At(n)
    <2> HIDE DEF At
    <2>1. 0 \in Q
      BY <1>4
    <2>2. ASSUME NEW i \in Nat, i \in Q PROVE i + 1 \in Q
      BY <1>5, <2>2, <1>0
    <2>3. Nat \subseteq Q
      <3> HIDE DEF Q
      <3>1. QED
        BY <2>1, <2>2, Induct
    <2>4. QED
      BY <1>0, <2>3
  <1>7. ASSUME ReaderGot(f[n]) > 0, ReaderGot(f[n]) < Header, ReaderKind(f[n]) \in Passes
        PROVE  FALSE
    <2> DEFINE c == s[n][2]
    <2>1. ReaderGot(f[n]) = Reached(s[n]) /\ ReaderKind(f[n]) = s[n][1] /\ n \in 1 .. n
          /\ s[n] \in Piece
      BY <1>0, <1>6, <1>7
    <2>2. c \in Nat /\ c > 0 /\ c < Header
      BY <2>1, <1>7 DEF Reached, Piece
    <2>3. n - c + 1 \in 1 .. n /\ Marked(s[n - c + 1])
      <3>1. s[n][2] = c /\ s[n][1] \in Passes /\ c \in Nat \ {0} /\ c <= Header
            /\ n \in 1 .. Len(s)
        BY <1>0, <1>7, <2>1, <2>2
      <3>2. /\ s \in Seq(Piece) /\ Runs(k, got, s) /\ got \in Nat
            /\ got > 0 /\ got < Header => k \notin Passes
        BY <1>0
      <3>3. n = Len(s)
        OBVIOUS
      <3> HIDE DEF k, got, c, n
      <3>4. n - c + 1 \in 1 .. Len(s) /\ Marked(s[n - c + 1])
        BY ONLY <3>1, <3>2, MarkPrecedes
      <3>5. QED
        BY <3>3, <3>4
    <2>4. n >= (n - c + 1) + Header - 1
      BY <2>3
    <2> HIDE DEF c, n
    <2>5. QED
      BY <1>0, <2>2, <2>4
  <1>8. QED
    BY <1>0, <1>1, <1>2, <1>6, <1>7

-----------------------------------------------------------------------------
(* The sender, unit by unit.                                               *)

(* Only the first buffer can have been written in part.                    *)
BufsOK(bs) == /\ bs \in Seq(BufType)
              /\ \A i \in 1 .. Len(bs) : bs[i].rpos < Size(bs[i].kind)
              /\ \A i \in 2 .. Len(bs) : bs[i].rpos = 0

SenderGot(bs) == IF bs = <<>> THEN 0 ELSE bs[1].rpos
SenderKind(bs) == bs[1].kind

(* What is queued, seen from outside.                                      *)
QOf(bs) == [i \in 1 .. Len(bs) |-> AsSent(bs[i].kind)]

LEMMA BufIs ==
    ASSUME NEW bs, BufsOK(bs), NEW i \in 1 .. Len(bs)
    PROVE  /\ bs[i] \in BufType /\ bs[i].kind \in Kind /\ bs[i].rpos \in Nat
           /\ bs[i].rpos < Size(bs[i].kind) /\ Size(bs[i].kind) \in Nat
  <1>1. bs[i] \in BufType
    BY ElementOfSeq DEF BufsOK
  <1>2. QED
    BY <1>1, Sizes DEF BufsOK, BufType

LEMMA QOfIs ==
    ASSUME NEW bs, BufsOK(bs)
    PROVE  /\ QOf(bs) \in Seq(MessageType) /\ Len(QOf(bs)) = Len(bs)
           /\ \A i \in 1 .. Len(bs) : QOf(bs)[i] = AsSent(bs[i].kind)
  <1>1. Len(bs) \in Nat
    BY LenProperties DEF BufsOK
  <1>2. \A i \in 1 .. Len(bs) : AsSent(bs[i].kind) \in MessageType
    BY BufIs, AsSentIs
  <1>3. QED
    BY <1>1, <1>2 DEF QOf

LEMMA AppendBefore ==
    \A s, t \in Seq(MessageType), e \in MessageType : Append(s, e) \o t = s \o (<<e>> \o t)
  <1> TAKE s \in Seq(MessageType), t \in Seq(MessageType), e \in MessageType
  <1>1. <<e>> \in Seq(MessageType) /\ Append(s, e) = s \o <<e>>
    BY AppendIsConcat
  <1>2. (s \o <<e>>) \o t = s \o (<<e>> \o t)
    BY ONLY <1>1, JoinAssociates
  <1>3. QED
    BY <1>1, <1>2

(* One more unit is written.                                               *)
LEMMA ShortenIs ==
    ASSUME NEW bs, BufsOK(bs), bs # <<>>, NEW first
    PROVE  LET u == Unit(Head(bs), first)
               new == Shorten(bs)
           IN  /\ BufsOK(new) /\ u[1] = bs[1].kind /\ u[2] = bs[1].rpos + 1
               /\ u[1] \in Kind /\ u[2] \in Nat
               /\ u[3] = (first /\ HasFd(bs[1]))
               /\ Len(new) = IF Ends(u) THEN Len(bs) - 1 ELSE Len(bs)
               /\ \A i \in 1 .. Len(new) : new[i].kind = bs[Len(bs) - Len(new) + i].kind
               /\ SenderGot(new) = Reached(u)
               /\ SenderGot(new) > 0 => SenderKind(new) = u[1]
               /\ QOf(bs) = IF Ends(u) THEN <<AsSent(u[1])>> \o QOf(new) ELSE QOf(new)
  <1> DEFINE b == bs[1]
             u == Unit(Head(bs), first)
             new == Shorten(bs)
             l == Len(bs)
  <1>1. bs \in Seq(BufType) /\ l \in Nat /\ l > 0 /\ Head(bs) = b /\ 1 \in 1 .. l
    BY EmptySeq, LenProperties DEF BufsOK
  <1>2. /\ b \in BufType /\ b.kind \in Kind /\ b.rpos \in Nat
        /\ b.rpos < Size(b.kind) /\ Size(b.kind) \in Nat
    BY <1>1, BufIs
  <1>3. /\ u[1] = b.kind /\ u[2] = b.rpos + 1 /\ u[3] = (first /\ HasFd(b))
        /\ Ends(u) <=> b.rpos + 1 = Size(b.kind)
        /\ Left(b) = 1 <=> b.rpos + 1 = Size(b.kind)
    BY <1>1, <1>2 DEF Unit, Ends, Left
  <1>4. /\ Tail(bs) \in Seq(BufType) /\ Len(Tail(bs)) = l - 1
        /\ \A i \in 1 .. l - 1 : Tail(bs)[i] = bs[i + 1]
    BY <1>1, HeadTailProperties
  <1> HIDE DEF b, u
  <1>5. CASE Ends(u)
    <2>1. new = Tail(bs)
      BY <1>1, <1>3, <1>5 DEF Shorten
    <2> HIDE DEF new
    <2>2. Len(new) = l - 1 /\ l - 1 \in Nat /\ \A i \in 1 .. l - 1 : new[i] = bs[i + 1]
      BY <1>1, <1>4, <2>1
    <2>3. BufsOK(new)
      <3>1. \A i \in 1 .. l - 1 : i + 1 \in 2 .. l /\ i + 1 \in 1 .. l
        BY <1>1
      <3>2. QED
        BY <1>4, <2>1, <2>2, <3>1 DEF BufsOK
    <2>4. \A i \in 1 .. Len(new) : Len(bs) - Len(new) + i = i + 1
      BY <1>1, <2>2
    <2>5. SenderGot(new) = 0
      <3>1. CASE new = <<>>
        BY <3>1 DEF SenderGot
      <3>2. CASE new # <<>>
        <4>1. Len(new) \in Nat /\ Len(new) > 0
          BY <3>2, <2>3, EmptySeq DEF BufsOK
        <4>2. 1 \in 1 .. l - 1 /\ 2 \in 2 .. l /\ 1 + 1 = 2
          BY <4>1, <2>2, <1>1
        <4>3. new[1] = bs[2] /\ bs[2].rpos = 0
          BY <4>2, <2>2 DEF BufsOK
        <4>4. QED
          BY <3>2, <4>3 DEF SenderGot
      <3>3. QED
        BY <3>1, <3>2
    <2>6. Reached(u) = 0
      BY <1>5 DEF Reached
    <2>7. QOf(bs) = <<AsSent(u[1])>> \o QOf(new)
      <3> DEFINE e == AsSent(u[1])
                 y == <<e>> \o QOf(new)
      <3>1. e \in MessageType /\ <<e>> \in Seq(MessageType) /\ Len(<<e>>) = 1 /\ <<e>>[1] = e
        BY <1>2, <1>3, AsSentIs
      <3>2. /\ QOf(new) \in Seq(MessageType) /\ Len(QOf(new)) = l - 1
            /\ \A i \in 1 .. l - 1 : QOf(new)[i] = AsSent(new[i].kind)
        BY <2>2, <2>3, QOfIs
      <3>3. /\ QOf(bs) \in Seq(MessageType) /\ Len(QOf(bs)) = l
            /\ \A i \in 1 .. l : QOf(bs)[i] = AsSent(bs[i].kind)
        BY QOfIs
      <3> HIDE DEF e
      <3>4. /\ y \in Seq(MessageType) /\ Len(y) = 1 + (l - 1)
            /\ \A i \in 1 .. 1 + (l - 1) : y[i] = IF i <= 1 THEN <<e>>[i] ELSE QOf(new)[i - 1]
        BY <3>1, <3>2, ConcatProperties
      <3> HIDE DEF y
      <3>5. ASSUME NEW i \in 1 .. l PROVE QOf(bs)[i] = y[i]
        <4>1. CASE i = 1
          BY <4>1, <3>1, <3>3, <3>4, <1>1, <1>3 DEF e, b
        <4>2. CASE i # 1
          <5>1. i - 1 \in 1 .. l - 1 /\ (i - 1) + 1 = i /\ ~(i <= 1) /\ i \in 1 .. 1 + (l - 1)
            BY <4>2, <1>1
          <5>2. y[i] = AsSent(new[i - 1].kind) /\ new[i - 1] = bs[i]
            BY <5>1, <3>2, <3>4, <2>2
          <5>3. QED
            BY <5>2, <3>3
        <4>3. QED
          BY <4>1, <4>2
      <3>6. Len(QOf(bs)) = Len(y)
        BY <1>1, <3>3, <3>4
      <3>7. QOf(bs) = y
        BY <3>3, <3>4, <3>5, <3>6, SeqEqual
      <3>8. QED
        BY <3>7 DEF y, e
    <2>8. \A i \in 1 .. Len(new) : new[i].kind = bs[Len(bs) - Len(new) + i].kind
      BY <2>2, <2>4
    <2>9. QED
      BY <1>2, <1>3, <1>5, <2>2, <2>3, <2>5, <2>6, <2>7, <2>8 DEF u, new, b
  <1>6. CASE ~Ends(u)
    <2> DEFINE c == [b EXCEPT !.rpos = @ + 1]
    <2>1. new = <<c>> \o Tail(bs)
      BY <1>1, <1>3, <1>6 DEF Shorten
    <2>2. c \in BufType /\ c.kind = b.kind /\ c.rpos = b.rpos + 1 /\ b.rpos + 1 < Size(b.kind)
      BY <1>2, <1>3, <1>6 DEF BufType
    <2> HIDE DEF c
    <2>3. <<c>> \in Seq(BufType) /\ Len(<<c>>) = 1 /\ <<c>>[1] = c
      BY <2>2
    <2>4. /\ new \in Seq(BufType) /\ Len(new) = 1 + (l - 1)
          /\ \A i \in 1 .. 1 + (l - 1) : new[i] = IF i <= 1 THEN <<c>>[i] ELSE Tail(bs)[i - 1]
      BY <1>4, <2>1, <2>3, ConcatProperties
    <2> HIDE DEF new
    <2>5. Len(new) = l /\ new[1] = c
      BY <1>1, <2>3, <2>4
    <2>6. ASSUME NEW i \in 2 .. l PROVE new[i] = bs[i]
      <3>1. i - 1 \in 1 .. l - 1 /\ (i - 1) + 1 = i /\ ~(i <= 1) /\ i \in 1 .. 1 + (l - 1)
        BY <1>1
      <3>2. QED
        BY <3>1, <2>4, <1>4
    <2>7. ASSUME NEW i \in 1 .. l PROVE new[i].kind = bs[i].kind
      <3>1. i = 1 \/ i \in 2 .. l
        BY <1>1
      <3>2. QED
        BY <3>1, <2>2, <2>5, <2>6 DEF b
    <2>8. BufsOK(new)
      <3>1. ASSUME NEW i \in 1 .. l PROVE new[i].rpos < Size(new[i].kind)
        <4>1. i = 1 \/ i \in 2 .. l
          BY <1>1
        <4>2. QED
          BY <4>1, <2>2, <2>5, <2>6 DEF BufsOK
      <3>2. QED
        BY <3>1, <2>4, <2>5, <2>6 DEF BufsOK
    <2>9. \A i \in 1 .. Len(new) : Len(bs) - Len(new) + i = i
      BY <1>1, <2>5
    <2>10. SenderGot(new) = b.rpos + 1 /\ SenderKind(new) = b.kind
      <3>1. new # <<>>
        BY <1>1, <2>5, EmptySeq
      <3>2. QED
        BY <3>1, <2>2, <2>5 DEF SenderGot, SenderKind
    <2>11. Reached(u) = b.rpos + 1
      BY <1>3, <1>6 DEF Reached
    <2>12. QOf(bs) = QOf(new)
      BY <2>5, <2>7 DEF QOf
    <2>13. \A i \in 1 .. Len(new) : new[i].kind = bs[Len(bs) - Len(new) + i].kind
      BY <2>5, <2>7, <2>9
    <2>14. QED
      BY <1>2, <1>3, <1>6, <2>5, <2>8, <2>10, <2>11, <2>12, <2>13 DEF u, new, b
  <1>7. QED
    BY <1>5, <1>6

(* What a write sends goes on where the stream was, descriptors come with  *)
(* the first unit of their message, and no message is lost or doubled: g   *)
(* of the buffers are gathered, and none of them but the first has one.    *)
LEMMA UnitsAreSent ==
    ASSUME NEW bs, BufsOK(bs), NEW g \in 1 .. Len(bs),
           \A p \in 2 .. g : ~HasFd(bs[p]),
           NEW n \in Nat \ {0}, Len(Drain(bs, n)[n - 1]) > Len(bs) - g
    PROVE  LET d == Drain(bs, n)
               v == [i \in 1 .. n |-> Unit(Head(d[i - 1]), i = 1)]
           IN  /\ v \in Seq(Piece) /\ Len(v) = n
               /\ Runs(SenderKind(bs), SenderGot(bs), v)
               /\ BufsOK(d[n])
               /\ SenderGot(d[n]) = Reached(v[n])
               /\ SenderGot(d[n]) > 0 => SenderKind(d[n]) = v[n][1]
               /\ QOf(bs) = Arriving(v) \o QOf(d[n])
  <1> DEFINE d == Drain(bs, n)
             v == [i \in 1 .. n |-> Unit(Head(d[i - 1]), i = 1)]
             l == Len(bs)
  <1>1. DrainedUpTo(d, bs, n)
    BY DrainIs
  <1>2. d[0] = bs
    BY <1>1 DEF DrainedUpTo
  <1>3. ASSUME NEW i \in Nat, i + 1 <= n
        PROVE  d[i + 1] = IF d[i] = <<>> THEN <<>> ELSE Shorten(d[i])
    <2>1. i + 1 \in 0 .. n /\ i + 1 # 0 /\ (i + 1) - 1 = i
      BY <1>3
    <2>2. QED
      BY <1>1, <2>1 DEF DrainedUpTo
  <1>4. l \in Nat /\ g \in Nat /\ bs # <<>>
    BY LenProperties, EmptySeq DEF BufsOK
  <1> HIDE DEF d
  <1>5. \A i \in 1 .. n : v[i] = Unit(Head(d[i - 1]), i = 1)
    OBVIOUS
  <1> HIDE DEF v
  <1>6. PICK f : ArrivedUpTo(f, v, n) /\ Arriving(v) = f[n]
    <2>1. Len(v) = n
      BY DEF v
    <2>2. QED
      BY <2>1, ArrivingIs
  <1>7. ASSUME NEW i \in 0 .. n PROVE BufsOK(d[i])
    <2> DEFINE Ok(x) == BufsOK(d[x])
               Q == {x \in Nat : x <= n => Ok(x)}
    <2>1. Ok(0)
      BY <1>2
    <2>2. ASSUME NEW x \in Nat, x + 1 <= n, Ok(x) PROVE Ok(x + 1)
      <3>1. CASE d[x] = <<>>
        BY <3>1, <1>3, <2>2
      <3>2. CASE d[x] # <<>>
        <4>1. BufsOK(Shorten(d[x]))
          BY <3>2, <2>2, ShortenIs
        <4>2. QED
          BY <3>2, <4>1, <1>3, <2>2
      <3>3. QED
        BY <3>1, <3>2
    <2> HIDE DEF Ok
    <2>3. 0 \in Q
      BY <2>1
    <2>4. ASSUME NEW x \in Nat, x \in Q PROVE x + 1 \in Q
      BY <2>2, <2>4
    <2>5. Nat \subseteq Q
      <3> HIDE DEF Q
      <3>1. QED
        BY <2>3, <2>4, Induct
    <2>6. Ok(i)
      BY <2>5
    <2>7. QED
      BY <2>6 DEF Ok
  <1>8. \A i \in 0 .. n : Len(d[i]) \in Nat
    BY <1>7, LenProperties DEF BufsOK
  <1>9. ASSUME NEW i \in Nat, i + 1 <= n PROVE Len(d[i + 1]) <= Len(d[i])
    <2>1. i \in 0 .. n
      BY <1>9
    <2>2. CASE d[i] = <<>>
      BY <2>1, <2>2, <1>3, <1>8, <1>9
    <2>3. CASE d[i] # <<>>
      <3>1. Len(Shorten(d[i])) = Len(d[i]) - 1 \/ Len(Shorten(d[i])) = Len(d[i])
        BY <2>1, <2>3, <1>7, ShortenIs
      <3>2. QED
        BY <2>1, <2>3, <3>1, <1>3, <1>8, <1>9
    <2>4. QED
      BY <2>2, <2>3
  <1>10. ASSUME NEW i \in 0 .. n - 1 PROVE Len(d[i]) > l - g
    <2> DEFINE Long(x) == Len(d[(n - 1) - x]) > l - g
               Q == {x \in Nat : x <= n - 1 => Long(x)}
    <2>1. Long(0)
      <3>1. (n - 1) - 0 = n - 1
        OBVIOUS
      <3>2. QED
        BY <3>1 DEF d
    <2>2. ASSUME NEW x \in Nat, x + 1 <= n - 1, Long(x) PROVE Long(x + 1)
      <3> DEFINE y == (n - 1) - (x + 1)
      <3>1. y \in Nat /\ y + 1 = (n - 1) - x /\ y + 1 <= n /\ y \in 0 .. n /\ y + 1 \in 0 .. n
        BY <2>2
      <3> HIDE DEF y
      <3>2. Len(d[y + 1]) <= Len(d[y]) /\ Len(d[y + 1]) > l - g
        BY <3>1, <1>9, <2>2
      <3>3. Len(d[y]) > l - g
        BY <3>1, <3>2, <1>4, <1>8
      <3>4. QED
        BY <3>3 DEF y
    <2> HIDE DEF Long
    <2>3. 0 \in Q
      BY <2>1
    <2>4. ASSUME NEW x \in Nat, x \in Q PROVE x + 1 \in Q
      BY <2>2, <2>4
    <2>5. Nat \subseteq Q
      <3> HIDE DEF Q
      <3>1. QED
        BY <2>3, <2>4, Induct
    <2>6. (n - 1) - i \in Nat /\ (n - 1) - i <= n - 1 /\ (n - 1) - ((n - 1) - i) = i
      OBVIOUS
    <2>7. Long((n - 1) - i)
      BY <2>5, <2>6
    <2>8. QED
      BY <2>6, <2>7 DEF Long
  <1> DEFINE Kinds(i) == \A j \in 1 .. Len(d[i]) : d[i][j].kind = bs[l - Len(d[i]) + j].kind
             Sent(i) == /\ v[i] \in Piece /\ SenderGot(d[i]) = Reached(v[i])
                        /\ SenderGot(d[i]) > 0 => SenderKind(d[i]) = v[i][1]
                        /\ Len(d[i]) = l => SenderGot(d[i]) > 0
                        /\ IF i = 1 THEN Comes(SenderKind(bs), SenderGot(bs), v[i])
                           ELSE Comes(v[i - 1][1], Reached(v[i - 1]), v[i])
             Same(i) == f[i] \in Seq(MessageType) /\ f[i] \o QOf(d[i]) = QOf(bs)
             At(i) == Len(d[i]) <= l /\ Kinds(i) /\ (i > 0 => Sent(i)) /\ Same(i)
  <1>11. At(0)
    <2>1. Kinds(0)
      <3>1. \A j \in 1 .. l : l - l + j = j
        BY <1>4
      <3>2. QED
        BY <1>2, <3>1
    <2>2. Same(0)
      <3>1. f[0] = <<>>
        BY <1>6 DEF ArrivedUpTo
      <3>2. QOf(bs) \in Seq(MessageType)
        BY QOfIs
      <3>3. <<>> \o QOf(bs) = QOf(bs)
        BY <3>2, ConcatEmptySeq
      <3>4. QED
        BY <1>2, <3>1, <3>3, EmptySeq
    <2>3. QED
      BY <1>2, <1>4, <2>1, <2>2
  <1>12. ASSUME NEW i \in Nat, i + 1 <= n, At(i) PROVE At(i + 1)
    <2> DEFINE x == i + 1
               c == d[i]
               u == v[x]
               new == d[x]
    <2>1. /\ i \in 0 .. n /\ i \in 0 .. n - 1 /\ x \in 1 .. n /\ x \in 0 .. n /\ x # 0
          /\ x - 1 = i /\ x > 0 /\ x \in Nat
      BY <1>12
    <2>2. BufsOK(c) /\ Len(c) \in Nat /\ Len(c) > l - g /\ Len(c) <= l
      BY <1>7, <1>8, <1>10, <1>12, <2>1
    <2>3. c # <<>> /\ Len(c) > 0 /\ 1 \in 1 .. Len(c)
      <3>1. Len(c) > 0
        BY <2>2, <1>4
      <3>2. QED
        BY <3>1, <2>2, EmptySeq
    <2>4. u = Unit(Head(c), x = 1) /\ new = Shorten(c)
      BY <1>3, <1>5, <1>12, <2>1, <2>3
    <2>5. /\ BufsOK(new) /\ u[1] = c[1].kind /\ u[2] = c[1].rpos + 1
          /\ u[1] \in Kind /\ u[2] \in Nat
          /\ u[3] = (x = 1 /\ HasFd(c[1]))
          /\ Len(new) = IF Ends(u) THEN Len(c) - 1 ELSE Len(c)
          /\ \A j \in 1 .. Len(new) : new[j].kind = c[Len(c) - Len(new) + j].kind
          /\ SenderGot(new) = Reached(u)
          /\ SenderGot(new) > 0 => SenderKind(new) = u[1]
          /\ QOf(c) = IF Ends(u) THEN <<AsSent(u[1])>> \o QOf(new) ELSE QOf(new)
      <3> DEFINE first == x = 1
      <3>1. u = Unit(Head(c), first) /\ new = Shorten(c)
        BY <2>4
      <3> HIDE DEF first, u, c, new
      <3>2. u[3] = (first /\ HasFd(c[1]))
        BY <2>2, <2>3, <3>1, ShortenIs
      <3>3. /\ BufsOK(new) /\ u[1] = c[1].kind /\ u[2] = c[1].rpos + 1
            /\ u[1] \in Kind /\ u[2] \in Nat
            /\ Len(new) = IF Ends(u) THEN Len(c) - 1 ELSE Len(c)
            /\ \A j \in 1 .. Len(new) : new[j].kind = c[Len(c) - Len(new) + j].kind
            /\ SenderGot(new) = Reached(u)
            /\ SenderGot(new) > 0 => SenderKind(new) = u[1]
            /\ QOf(c) = IF Ends(u) THEN <<AsSent(u[1])>> \o QOf(new) ELSE QOf(new)
        BY <2>2, <2>3, <3>1, ShortenIs
      <3>4. QED
        BY <3>2, <3>3 DEF first
    <2>6. u \in Piece
      <3>1. u = <<u[1], u[2], u[3]>>
        BY <2>4 DEF Unit
      <3>2. u[3] \in BOOLEAN
        BY <2>5
      <3>3. QED
        BY <2>5, <3>1, <3>2 DEF Piece
    <2>7. SenderGot(c) = c[1].rpos /\ SenderKind(c) = c[1].kind
      BY <2>3 DEF SenderGot, SenderKind
    <2>8. c[1].rpos \in Nat /\ Len(new) \in Nat
      BY <2>2, <2>3, <2>1, <1>8, BufIs
    <2>9. Len(new) <= l
      BY <2>2, <2>5, <1>4
    <2> HIDE DEF new, u, c
    <2>10. \A j \in 1 .. Len(new) : new[j].kind = bs[l - Len(new) + j].kind
      <3>1. SUFFICES ASSUME NEW j \in 1 .. Len(new)
                     PROVE  new[j].kind = bs[l - Len(new) + j].kind
        OBVIOUS
      <3> DEFINE y == Len(c) - Len(new) + j
      <3>2. y \in 1 .. Len(c) /\ l - Len(c) + y = l - Len(new) + j
        BY <2>2, <2>5, <2>8, <1>4
      <3>3. new[j].kind = c[y].kind
        BY <2>5
      <3> HIDE DEF y
      <3>4. c[y].kind = bs[l - Len(c) + y].kind
        BY <1>12, <3>2 DEF c
      <3>5. QED
        BY <3>2, <3>3, <3>4
    <2>11. Len(new) = l => SenderGot(new) > 0
      <3>1. SUFFICES ASSUME Len(new) = l PROVE SenderGot(new) > 0
        OBVIOUS
      <3>2. ~Ends(u)
        BY <3>1, <2>2, <2>5, <1>4
      <3>3. QED
        BY <3>2, <2>5, <2>8 DEF Reached
    <2>12. Marked(u) <=> x = 1 /\ c[1].rpos = 0 /\ c[1].kind \in Passes
      BY <2>5 DEF Marked, HasFd
    <2>13. ASSUME x = 1 PROVE Comes(SenderKind(bs), SenderGot(bs), u)
      <3>1. c = bs
        BY <2>13, <1>2, <2>1 DEF c
      <3>2. QED
        BY <3>1, <2>5, <2>7, <2>12, <2>13 DEF Comes
    <2>14. ASSUME x # 1 PROVE Comes(v[i][1], Reached(v[i]), u)
      <3>1. i > 0 /\ i + 1 # 1
        BY <2>1, <2>14
      <3>2. Sent(i) /\ SenderGot(c) = Reached(v[i]) /\ (SenderGot(c) > 0 => SenderKind(c) = v[i][1])
            /\ (Len(c) = l => SenderGot(c) > 0)
        BY <3>1, <1>12 DEF c
      <3>3. ASSUME c[1].rpos = 0 PROVE c[1].kind \notin Passes
        <4> DEFINE p == l - Len(c) + 1
        <4>1. Len(c) # l
          BY <3>2, <3>3, <2>7
        <4>2. p \in 2 .. g /\ p \in 1 .. l /\ p \in 2 .. l
          BY <4>1, <2>2, <1>4
        <4>3. c[1].kind = bs[p].kind
          BY <1>12, <2>3 DEF c
        <4> HIDE DEF p
        <4>4. bs[p].rpos = 0 /\ ~HasFd(bs[p])
          BY <4>2 DEF BufsOK
        <4>5. QED
          BY <4>3, <4>4 DEF HasFd
      <3>4. QED
        BY <3>2, <3>3, <2>5, <2>7, <2>12, <2>14 DEF Comes
    <2>15. IF x = 1 THEN Comes(SenderKind(bs), SenderGot(bs), u)
           ELSE Comes(v[x - 1][1], Reached(v[x - 1]), u)
      BY <2>1, <2>13, <2>14
    <2>16. Same(x)
      <3>1. f[i] \in Seq(MessageType) /\ f[i] \o QOf(c) = QOf(bs)
        BY <1>12 DEF c
      <3>2. f[x] = IF Ends(u) THEN Append(f[i], AsSent(u[1])) ELSE f[i]
        BY <1>6, <2>1 DEF ArrivedUpTo, u
      <3>3. AsSent(u[1]) \in MessageType /\ QOf(new) \in Seq(MessageType)
        BY <2>5, AsSentIs, QOfIs
      <3>4. f[x] \in Seq(MessageType)
        BY <3>1, <3>2, <3>3, AppendProperties
      <3>5. CASE Ends(u)
        <4>1. f[x] = Append(f[i], AsSent(u[1])) /\ QOf(c) = <<AsSent(u[1])>> \o QOf(new)
          BY <2>5, <3>2, <3>5
        <4>2. f[x] \o QOf(new) = f[i] \o (<<AsSent(u[1])>> \o QOf(new))
          <5>1. f[i] \in Seq(MessageType) /\ AsSent(u[1]) \in MessageType
                /\ QOf(new) \in Seq(MessageType) /\ f[x] = Append(f[i], AsSent(u[1]))
            BY <3>1, <3>3, <4>1
          <5> HIDE DEF u, new, x, c
          <5>2. Append(f[i], AsSent(u[1])) \o QOf(new) = f[i] \o (<<AsSent(u[1])>> \o QOf(new))
            BY ONLY <5>1, AppendBefore
          <5>3. QED
            BY ONLY <5>1, <5>2
        <4>3. f[x] \o QOf(new) = QOf(bs)
          BY <3>1, <4>1, <4>2
        <4>4. QED
          BY <3>4, <4>3 DEF new
      <3>6. CASE ~Ends(u)
        <4>1. f[x] = f[i] /\ QOf(c) = QOf(new)
          BY <2>5, <3>2, <3>6
        <4>2. QED
          BY <3>1, <3>4, <4>1 DEF new
      <3>7. QED
        BY <3>5, <3>6
    <2>17. Sent(x)
      BY <2>5, <2>6, <2>11, <2>15 DEF u, new
    <2>18. QED
      BY <2>9, <2>10, <2>16, <2>17 DEF new
  <1>13. ASSUME NEW i \in 0 .. n PROVE At(i)
    <2> DEFINE Q == {x \in Nat : x <= n => At(x)}
    <2> HIDE DEF At
    <2>1. 0 \in Q
      BY <1>11
    <2>2. ASSUME NEW x \in Nat, x \in Q PROVE x + 1 \in Q
      BY <1>12, <2>2
    <2>3. Nat \subseteq Q
      <3> HIDE DEF Q
      <3>1. QED
        BY <2>1, <2>2, Induct
    <2>4. QED
      BY <2>3
  <1>14. /\ n \in 1 .. n /\ n \in 0 .. n /\ n > 0
         /\ \A i \in 1 .. n : i \in 0 .. n /\ i > 0
    OBVIOUS
  <1>15. \A i \in 1 .. n : Sent(i)
    BY <1>13, <1>14
  <1>16. v \in Seq(Piece) /\ Len(v) = n
    <2>1. v = [i \in 1 .. n |-> v[i]]
      BY DEF v
    <2>2. \A i \in 1 .. n : v[i] \in Piece
      BY <1>15
    <2> HIDE DEF Sent
    <2>3. v \in [1 .. n -> Piece]
      BY <2>1, <2>2
    <2>4. QED
      BY <2>3
  <1>17. Runs(SenderKind(bs), SenderGot(bs), v)
    BY <1>15, <1>16 DEF Runs
  <1>18. QOf(bs) = Arriving(v) \o QOf(d[n])
    BY <1>6, <1>13, <1>14
  <1>19. /\ BufsOK(d[n]) /\ SenderGot(d[n]) = Reached(v[n])
         /\ SenderGot(d[n]) > 0 => SenderKind(d[n]) = v[n][1]
    BY <1>7, <1>14, <1>15
  <1>20. QED
    BY <1>16, <1>17, <1>18, <1>19 DEF d, v

-----------------------------------------------------------------------------
(* Two pieces of the stream, one after the other.                          *)
LEMMA RunsFrom ==
    ASSUME NEW k, NEW j, NEW got, got > 0 => k = j, NEW s \in Seq(Piece), Runs(k, got, s)
    PROVE  Runs(j, got, s)
  <1>1. ASSUME NEW u, Comes(k, got, u) PROVE Comes(j, got, u)
    BY <1>1 DEF Comes
  <1>2. QED
    BY <1>1 DEF Runs

LEMMA RunsJoin ==
    ASSUME NEW k, NEW got, NEW s \in Seq(Piece), NEW t \in Seq(Piece)
    PROVE  /\ Runs(k, got, s \o t) <=>
                 Runs(k, got, s) /\ Runs(EndKind(k, s), EndGot(got, s), t)
           /\ EndGot(got, s \o t) = EndGot(EndGot(got, s), t)
           /\ EndKind(k, s \o t) = EndKind(EndKind(k, s), t)
  <1> DEFINE w == s \o t
             l == Len(s)
             m == Len(t)
             ek == EndKind(k, s)
             eg == EndGot(got, s)
             Step(x, y, z, i) == IF i = 1 THEN Comes(x, y, z[i])
                                 ELSE Comes(z[i - 1][1], Reached(z[i - 1]), z[i])
  <1>1. l \in Nat /\ m \in Nat /\ (s = <<>> <=> l = 0) /\ (t = <<>> <=> m = 0)
    BY EmptySeq, LenProperties
  <1>2. /\ w \in Seq(Piece) /\ Len(w) = l + m
        /\ w = <<>> <=> l + m = 0
    <2>1. w \in Seq(Piece) /\ Len(w) = l + m
      BY ConcatProperties
    <2> HIDE DEF w
    <2>2. w = <<>> <=> Len(w) = 0
      BY <2>1, EmptySeq
    <2>3. QED
      BY <2>1, <2>2
  <1>3. \A i \in 1 .. l + m : w[i] = IF i <= l THEN s[i] ELSE t[i - l]
    BY ConcatProperties
  <1> HIDE DEF w
  <1>4. \A i \in 1 .. l : w[i] = s[i]
    BY <1>1, <1>3
  <1>5. ASSUME NEW i \in 1 .. m PROVE w[l + i] = t[i]
    <2>1. l + i \in 1 .. l + m /\ ~(l + i <= l) /\ (l + i) - l = i
      BY <1>1
    <2>2. QED
      BY <2>1, <1>3
  <1>6. ASSUME NEW i \in 1 .. l PROVE Step(k, got, w, i) <=> Step(k, got, s, i)
    <2>1. i # 1 => i - 1 \in 1 .. l
      BY <1>1
    <2>2. QED
      BY <2>1, <1>4
  <1>7. ASSUME NEW i \in 1 .. m PROVE Step(k, got, w, l + i) <=> Step(ek, eg, t, i)
    <2>1. CASE i = 1 /\ l = 0
      <3>1. l + i = 1 /\ ek = k /\ eg = got
        BY <2>1, <1>1 DEF EndKind, EndGot
      <3>2. QED
        BY <3>1, <2>1, <1>5
    <2>2. CASE i = 1 /\ l # 0
      <3>1. l + i # 1 /\ (l + i) - 1 = l /\ l \in 1 .. l
        BY <2>2, <1>1
      <3>2. ek = s[l][1] /\ eg = Reached(s[l])
        BY <2>2, <1>1 DEF EndKind, EndGot
      <3>3. w[l] = s[l] /\ w[l + i] = t[i]
        BY <3>1, <1>4, <1>5
      <3>4. QED
        BY <3>1, <3>2, <3>3, <2>2
    <2>3. CASE i # 1
      <3>1. l + i # 1 /\ (l + i) - 1 = l + (i - 1) /\ i - 1 \in 1 .. m
        BY <2>3, <1>1
      <3>2. w[l + (i - 1)] = t[i - 1] /\ w[l + i] = t[i]
        BY <3>1, <1>5
      <3>3. QED
        BY <3>1, <3>2, <2>3
    <2>4. QED
      BY <2>1, <2>2, <2>3
  <1> HIDE DEF ek, eg
  <1>8. /\ Runs(k, got, w) <=> \A i \in 1 .. l + m : Step(k, got, w, i)
        /\ Runs(k, got, s) <=> \A i \in 1 .. l : Step(k, got, s, i)
        /\ Runs(ek, eg, t) <=> \A i \in 1 .. m : Step(ek, eg, t, i)
    <2>1. Runs(k, got, w) <=> \A i \in 1 .. Len(w) : Step(k, got, w, i)
      BY DEF Runs
    <2>2. Runs(k, got, s) <=> \A i \in 1 .. l : Step(k, got, s, i)
      BY DEF Runs
    <2>3. Runs(ek, eg, t) <=> \A i \in 1 .. m : Step(ek, eg, t, i)
      BY DEF Runs
    <2> HIDE DEF Step, l, m
    <2>4. QED
      BY <1>2, <2>1, <2>2, <2>3
  <1> HIDE DEF Step
  <1>9. (\A i \in 1 .. l + m : Step(k, got, w, i)) <=>
            (\A i \in 1 .. l : Step(k, got, w, i)) /\ (\A i \in 1 .. m : Step(k, got, w, l + i))
    <2>1. \A i \in 1 .. l + m : i \in 1 .. l \/ (i - l \in 1 .. m /\ l + (i - l) = i)
      BY <1>1
    <2>2. /\ \A i \in 1 .. l : i \in 1 .. l + m
          /\ \A i \in 1 .. m : l + i \in 1 .. l + m
      BY <1>1
    <2>3. QED
      BY <2>1, <2>2
  <1>10. Runs(k, got, w) <=> Runs(k, got, s) /\ Runs(ek, eg, t)
    BY <1>6, <1>7, <1>8, <1>9
  <1>11. EndGot(got, w) = EndGot(eg, t) /\ EndKind(k, w) = EndKind(ek, t)
    <2>1. CASE m = 0
      <3>1. t = <<>> /\ w = s
        BY <2>1, <1>1, ConcatEmptySeq DEF w
      <3>2. QED
        BY <3>1 DEF EndGot, EndKind, ek, eg
    <2>2. CASE m # 0
      <3>1. w # <<>> /\ t # <<>> /\ m \in 1 .. m
        BY <2>2, <1>1, <1>2
      <3>2. w[Len(w)] = t[m]
        BY <3>1, <1>2, <1>5
      <3>3. QED
        BY <3>1, <3>2 DEF EndGot, EndKind
    <2>3. QED
      BY <2>1, <2>2
  <1>12. QED
    BY <1>10, <1>11 DEF w, ek, eg

(* The gathered buffers: at least one, and no descriptor after the first.  *)
LEMMA LeastOf ==
    ASSUME NEW S \in SUBSET Nat, S # {}
    PROVE  \E x \in S : \A y \in S : x <= y
  <1>1. PICK x \in S : \A y \in S : ~(<<y, x>> \in OpToRel(<, Nat))
    BY NatLessThanWellFounded, WFMin
  <1>2. ASSUME NEW y \in S PROVE x <= y
    <2>1. ~(y < x)
      BY <1>1 DEF OpToRel
    <2>2. QED
      BY <2>1
  <1>3. QED
    BY <1>2

LEMMA GatheredIs ==
    ASSUME bufs \in Seq(BufType), bufs # <<>>
    PROVE  /\ Len(Gathered) \in 1 .. Len(bufs)
           /\ \A p \in 2 .. Len(Gathered) : ~HasFd(bufs[p])
  <1> DEFINE stops == {i \in 2 .. Len(bufs) : HasFd(bufs[i])}
             S == {Len(bufs), IovMax} \cup {i - 1 : i \in stops}
             n == Min(S)
  <1>1. Len(bufs) \in Nat /\ Len(bufs) > 0 /\ IovMax \in Nat /\ IovMax > 0
    BY EmptySeq, Sizes
  <1>2. \A x \in S : x \in Nat /\ x > 0
    BY <1>1
  <1>3. S # {} /\ Len(bufs) \in S
    OBVIOUS
  <1>4. n \in S /\ \A x \in S : n <= x
    <2> HIDE DEF S
    <2>1. \E x \in S : \A y \in S : x <= y
      BY <1>2, <1>3, LeastOf
    <2>2. QED
      BY <2>1 DEF Min
  <1>5. \A i \in stops : n <= i - 1
    BY <1>4
  <1>6. n \in Nat /\ n > 0 /\ n <= Len(bufs)
    BY <1>2, <1>3, <1>4
  <1>7. Gathered = SubSeq(bufs, 1, n)
    BY DEF Gathered
  <1> HIDE DEF n
  <1>8. Len(Gathered) = n
    <2>1. \A i \in 1 .. n : bufs[i] \in BufType
      BY <1>1, <1>6, ElementOfSeq
    <2>2. Len(SubSeq(bufs, 1, n)) = IF 1 <= n THEN n - 1 + 1 ELSE 0
      BY <1>6, <2>1, SubSeqProperties
    <2>3. QED
      BY <1>6, <1>7, <2>2
  <1>9. ASSUME NEW p \in 2 .. n PROVE ~HasFd(bufs[p])
    <2>1. p \in 2 .. Len(bufs) /\ ~(n <= p - 1)
      BY <1>1, <1>6
    <2>2. p \notin stops
      BY <1>5, <2>1
    <2>3. QED
      BY <2>1, <2>2
  <1>10. QED
    BY <1>6, <1>8, <1>9

LEMMA StartOfJoined ==
    \A s, t \in Seq(MessageType) :
        Len(s) \in 0 .. Len(s \o t) /\ SubSeq(s \o t, 1, Len(s)) = s
  <1> TAKE s \in Seq(MessageType), t \in Seq(MessageType)
  <1> DEFINE w == s \o t
             z == SubSeq(w, 1, Len(s))
             l == Len(s)
  <1>1. /\ l \in Nat /\ Len(t) \in Nat /\ w \in Seq(MessageType) /\ Len(w) = l + Len(t)
        /\ \A i \in 1 .. l + Len(t) : w[i] = IF i <= l THEN s[i] ELSE t[i - l]
    BY LenProperties, ConcatProperties
  <1> HIDE DEF w
  <1>2. \A i \in 1 .. l : w[i] \in MessageType
    BY <1>1, ElementOfSeq
  <1>3. /\ z \in Seq(MessageType) /\ Len(z) = IF 1 <= l THEN l - 1 + 1 ELSE 0
        /\ \A i \in 1 .. l - 1 + 1 : z[i] = w[1 + i - 1]
    BY <1>1, <1>2, SubSeqProperties
  <1> HIDE DEF z
  <1>4. Len(z) = l
    BY <1>1, <1>3
  <1>5. ASSUME NEW i \in 1 .. l PROVE z[i] = s[i]
    <2>1. 1 + i - 1 = i /\ i \in 1 .. l - 1 + 1 /\ i \in 1 .. l + Len(t) /\ i <= l
      BY <1>1
    <2>2. QED
      BY <2>1, <1>1, <1>3
  <1>6. z = s
    BY <1>3, <1>4, <1>5, SeqEqual
  <1>7. l \in 0 .. Len(w)
    BY <1>1
  <1>8. QED
    BY <1>6, <1>7 DEF z, w

LEMMA TailOfJoined ==
    \A s, t \in Seq(MessageType) :
        s # <<>> => s \o t # <<>> /\ Tail(s \o t) = Tail(s) \o t
  <1> TAKE s \in Seq(MessageType), t \in Seq(MessageType)
  <1> SUFFICES ASSUME s # <<>> PROVE s \o t # <<>> /\ Tail(s \o t) = Tail(s) \o t
    OBVIOUS
  <1> DEFINE w == s \o t
             z == Tail(s) \o t
             l == Len(s)
             m == Len(t)
  <1>1. /\ l \in Nat /\ m \in Nat /\ l > 0 /\ w \in Seq(MessageType) /\ Len(w) = l + m
        /\ \A i \in 1 .. l + m : w[i] = IF i <= l THEN s[i] ELSE t[i - l]
    BY LenProperties, ConcatProperties, EmptySeq
  <1>2. /\ Tail(s) \in Seq(MessageType) /\ Len(Tail(s)) = l - 1
        /\ \A i \in 1 .. l - 1 : Tail(s)[i] = s[i + 1]
    BY HeadTailProperties
  <1>3. /\ z \in Seq(MessageType) /\ Len(z) = (l - 1) + m
        /\ \A i \in 1 .. (l - 1) + m :
               z[i] = IF i <= l - 1 THEN Tail(s)[i] ELSE t[i - (l - 1)]
    BY <1>2, ConcatProperties
  <1> HIDE DEF w, z
  <1>4. w # <<>>
    BY <1>1, EmptySeq
  <1>5. /\ Tail(w) \in Seq(MessageType) /\ Len(Tail(w)) = (l + m) - 1
        /\ \A i \in 1 .. (l + m) - 1 : Tail(w)[i] = w[i + 1]
    BY <1>1, <1>4, HeadTailProperties
  <1>6. Len(Tail(w)) = Len(z) /\ (l + m) - 1 = (l - 1) + m
    BY <1>1, <1>3, <1>5
  <1>7. ASSUME NEW i \in 1 .. (l + m) - 1 PROVE Tail(w)[i] = z[i]
    <2>1. /\ i + 1 \in 1 .. l + m /\ i \in 1 .. (l - 1) + m
          /\ i <= l - 1 => i \in 1 .. l - 1 /\ i + 1 <= l
          /\ ~(i <= l - 1) => ~(i + 1 <= l)
          /\ (i + 1) - l = i - (l - 1)
      BY <1>1
    <2>2. QED
      BY <2>1, <1>1, <1>2, <1>3, <1>5
  <1>8. Tail(w) = z
    BY <1>3, <1>5, <1>6, <1>7, SeqEqual
  <1>9. QED
    BY <1>4, <1>8 DEF w, z

-----------------------------------------------------------------------------
(* The inductive invariant: what is in the socket goes on where the reader *)
(* is, the first buffer goes on where the socket ends, and a header with a *)
(* descriptor has been read whole or not at all.                           *)

Received == [head |-> rbuf, msg |-> rpmsg, done |-> rbufs, fd |-> FALSE]

HeadersWhole == ReaderGot(Received) > 0 /\ ReaderGot(Received) < Header
                    => ReaderKind(Received) \notin Passes

SenderFollows ==
    /\ SenderGot(bufs) = EndGot(ReaderGot(Received), wire)
    /\ SenderGot(bufs) > 0 => SenderKind(bufs) = EndKind(ReaderKind(Received), wire)

StreamInv ==
    /\ ReaderOK(Received) /\ BufsOK(bufs) /\ wire \in Seq(Piece)
    /\ HeadersWhole
    /\ Runs(ReaderKind(Received), ReaderGot(Received), wire)
    /\ up => SenderFollows
    /\ wants = (bufs # <<>>) /\ up \in BOOLEAN /\ sent \in 0 .. MaxSent

LEMMA ReaderGotIs == \A s : ReaderOK(s) => ReaderGot(s) \in Nat
  BY LenProperties DEF ReaderOK, ReaderType, PartType, ReaderGot

LEMMA ReceivedIs ==
    /\ Received.head = rbuf /\ Received.msg = rpmsg /\ Received.done = rbufs
    /\ ReaderGot(Received) = IF rpmsg.got > 0 THEN rpmsg.got ELSE Len(rbuf)
    /\ ReaderKind(Received) = IF rpmsg.got > 0 THEN rpmsg.kind ELSE rbuf[1][1]
  BY DEF Received, ReaderGot, ReaderKind

LEMMA UnderwayIs ==
    ASSUME StreamInv
    PROVE  /\ Underway = (rbufs \o Arriving(wire)) \o QOf(bufs)
           /\ rbufs \in Seq(MessageType) /\ Arriving(wire) \in Seq(MessageType)
           /\ QOf(bufs) \in Seq(MessageType) /\ rbufs \o Arriving(wire) \in Seq(MessageType)
  <1>1. DOMAIN bufs = 1 .. Len(bufs)
    BY LenProperties DEF StreamInv, BufsOK
  <1>2. Underway = (rbufs \o Arriving(wire)) \o QOf(bufs)
    BY <1>1 DEF Underway, QOf
  <1>3. rbufs \in Seq(MessageType)
    BY ReceivedIs DEF StreamInv, ReaderOK, ReaderType
  <1>4. Arriving(wire) \in Seq(MessageType)
    BY EmptySeq, ArrivingJoins DEF StreamInv
  <1>5. QOf(bufs) \in Seq(MessageType)
    BY QOfIs DEF StreamInv
  <1>6. QED
    BY <1>2, <1>3, <1>4, <1>5, ConcatProperties

LEMMA UnderwayNext ==
    ASSUME BufsOK(bufs')
    PROVE  /\ Underway' = (rbufs' \o Arriving(wire')) \o QOf(bufs')
           /\ QOf(bufs') \in Seq(MessageType)
  <1>1. DOMAIN bufs' = 1 .. Len(bufs')
    BY LenProperties DEF BufsOK
  <1>2. QED
    BY <1>1, QOfIs DEF Underway, QOf

LEMMA StreamStarts == ASSUME ImsgInit PROVE StreamInv /\ Underway = <<>>
  <1>1. /\ bufs = <<>> /\ wire = <<>> /\ rbuf = <<>> /\ rbufs = <<>> /\ rpmsg = NoMessage
        /\ up = TRUE /\ wants = FALSE /\ sent = 0
    BY DEF ImsgInit
  <1>2. Received = [head |-> <<>>, msg |-> NoMessage, done |-> <<>>, fd |-> FALSE]
    BY <1>1 DEF Received
  <1>3. Received \in ReaderType /\ NoMessage.got = 0 /\ Len(<<>>) = 0
    BY <1>2, EmptySeq DEF ReaderType, PartType, NoMessage
  <1>4. ReaderOK(Received) /\ ReaderGot(Received) = 0
    BY <1>2, <1>3, Sizes DEF ReaderOK, ReaderGot
  <1>5. BufsOK(bufs) /\ SenderGot(bufs) = 0 /\ EndGot(0, wire) = 0
    BY <1>1, EmptySeq DEF BufsOK, SenderGot, EndGot
  <1>6. wire \in Seq(Piece) /\ Runs(ReaderKind(Received), 0, wire)
    BY <1>1, EmptySeq DEF Runs
  <1>7. StreamInv
    <2>1. HeadersWhole /\ SenderFollows
      BY <1>4, <1>5 DEF HeadersWhole, SenderFollows
    <2>2. sent \in 0 .. MaxSent
      BY <1>1, Sizes
    <2>3. wants = (bufs # <<>>) /\ up \in BOOLEAN
      BY <1>1
    <2>4. QED
      BY <1>4, <1>5, <1>6, <2>1, <2>2, <2>3 DEF StreamInv
  <1>8. Underway = <<>>
    <2>1. Underway = (<<>> \o <<>>) \o QOf(<<>>)
      BY <1>1, <1>7, UnderwayIs, NothingArrives
    <2>2. QOf(<<>>) = <<>>
      BY DEF QOf
    <2>3. <<>> \o <<>> = <<>>
      OBVIOUS
    <2>4. QED
      BY <2>1, <2>2, <2>3
  <1>9. QED
    BY <1>7, <1>8

LEMMA StreamStutters ==
    ASSUME StreamInv, UNCHANGED imsgVars
    PROVE  StreamInv' /\ Underway' = Underway
  BY DEF imsgVars, StreamInv, Underway, Received, HeadersWhole, SenderFollows

(* A message is composed: it is put at the end of the queue.               *)
LEMMA ComposePuts ==
    ASSUME StreamInv, NEW k \in Kind, Compose(k)
    PROVE  StreamInv' /\ Underway' = Append(Underway, AsSent(k)) /\ up /\ up' = up
  <1> DEFINE b == [kind |-> k, rpos |-> 0]
             l == Len(bufs)
  <1>1. /\ up /\ bufs' = Append(bufs, b) /\ wants' = TRUE /\ sent' = sent + 1
        /\ sent < MaxSent
        /\ wire' = wire /\ rbuf' = rbuf /\ rpmsg' = rpmsg /\ rbufs' = rbufs /\ up' = up
    BY DEF Compose
  <1>2. BufsOK(bufs) /\ bufs \in Seq(BufType) /\ l \in Nat
    BY LenProperties DEF StreamInv, BufsOK
  <1>3. b \in BufType /\ b.rpos = 0 /\ b.kind = k /\ 0 < Size(k)
    BY Sizes DEF BufType
  <1> HIDE DEF b
  <1>4. /\ bufs' \in Seq(BufType) /\ bufs' # <<>> /\ Len(bufs') = l + 1
        /\ \A i \in 1 .. l : bufs'[i] = bufs[i]
        /\ bufs'[l + 1] = b
    BY <1>1, <1>2, <1>3, AppendProperties
  <1>5. \A i \in 1 .. l + 1 : i \in 1 .. l \/ i = l + 1
    BY <1>2
  <1>6. BufsOK(bufs')
    <2>1. \A i \in 1 .. l + 1 : bufs'[i].rpos < Size(bufs'[i].kind)
      BY <1>2, <1>3, <1>4, <1>5 DEF BufsOK
    <2>2. \A i \in 2 .. l + 1 : i \in 2 .. l \/ i = l + 1
      BY <1>2
    <2>3. \A i \in 2 .. l : i \in 1 .. l
      OBVIOUS
    <2>4. \A i \in 2 .. l + 1 : bufs'[i].rpos = 0
      BY <1>2, <1>3, <1>4, <2>2, <2>3 DEF BufsOK
    <2>5. QED
      BY <1>4, <2>1, <2>4 DEF BufsOK
  <1>7. SenderGot(bufs') = SenderGot(bufs)
        /\ (SenderGot(bufs) > 0 => SenderKind(bufs') = SenderKind(bufs))
    <2>1. CASE bufs = <<>>
      <3>1. l = 0 /\ l + 1 = 1
        BY <2>1
      <3>2. QED
        BY <2>1, <3>1, <1>3, <1>4 DEF SenderGot
    <2>2. CASE bufs # <<>>
      <3>1. 1 \in 1 .. l
        BY <2>2, <1>2, EmptySeq
      <3>2. QED
        BY <2>2, <3>1, <1>4 DEF SenderGot, SenderKind
    <2>3. QED
      BY <2>1, <2>2
  <1>8. StreamInv'
    <2>1. Received' = Received
      BY <1>1 DEF Received
    <2>2. SenderFollows'
      BY <1>1, <1>7, <2>1 DEF StreamInv, SenderFollows
    <2>3. sent' \in 0 .. MaxSent
      BY <1>1, Sizes DEF StreamInv
    <2>4. wants' = (bufs' # <<>>) /\ up' \in BOOLEAN
      BY <1>1, <1>4 DEF StreamInv
    <2>5. HeadersWhole'
      BY <2>1 DEF StreamInv, HeadersWhole
    <2>6. /\ ReaderOK(Received') /\ wire' \in Seq(Piece)
          /\ Runs(ReaderKind(Received'), ReaderGot(Received'), wire')
      BY <1>1, <2>1 DEF StreamInv
    <2>7. QED
      BY <1>6, <2>2, <2>3, <2>4, <2>5, <2>6 DEF StreamInv
  <1>9. QOf(bufs') = Append(QOf(bufs), AsSent(k))
    <2> DEFINE e == AsSent(k)
               y == Append(QOf(bufs), e)
    <2>1. e \in MessageType
      BY AsSentIs
    <2>2. /\ QOf(bufs) \in Seq(MessageType) /\ Len(QOf(bufs)) = l
          /\ \A i \in 1 .. l : QOf(bufs)[i] = AsSent(bufs[i].kind)
      BY <1>2, QOfIs
    <2>3. /\ QOf(bufs') \in Seq(MessageType) /\ Len(QOf(bufs')) = l + 1
          /\ \A i \in 1 .. l + 1 : QOf(bufs')[i] = AsSent(bufs'[i].kind)
      BY <1>4, <1>6, QOfIs
    <2> HIDE DEF e
    <2>4. /\ y \in Seq(MessageType) /\ Len(y) = l + 1
          /\ \A i \in 1 .. l : y[i] = QOf(bufs)[i]
          /\ y[l + 1] = e
      BY <2>1, <2>2, AppendProperties
    <2> HIDE DEF y
    <2>5. ASSUME NEW i \in 1 .. l + 1 PROVE QOf(bufs')[i] = y[i]
      <3>1. CASE i \in 1 .. l
        BY <3>1, <1>4, <2>2, <2>3, <2>4
      <3>2. CASE i = l + 1
        BY <3>2, <1>3, <1>4, <2>3, <2>4 DEF e
      <3>3. QED
        BY <1>5, <3>1, <3>2
    <2>6. Len(QOf(bufs')) = Len(y)
      BY <2>3, <2>4
    <2>7. QOf(bufs') = y
      BY <2>3, <2>4, <2>5, <2>6, SeqEqual
    <2>8. QED
      BY <2>7 DEF y, e
  <1>10. Underway' = Append(Underway, AsSent(k))
    <2> DEFINE z == rbufs \o Arriving(wire)
    <2>1. Underway = z \o QOf(bufs) /\ z \in Seq(MessageType) /\ QOf(bufs) \in Seq(MessageType)
      BY UnderwayIs
    <2>2. Underway' = (rbufs' \o Arriving(wire')) \o QOf(bufs')
      BY <1>6, UnderwayNext
    <2>3. rbufs' \o Arriving(wire') = z
      BY <1>1
    <2>4. AsSent(k) \in MessageType
      BY AsSentIs
    <2> HIDE DEF z
    <2>5. QED
      BY <1>9, <2>1, <2>2, <2>3, <2>4, AppendToJoined
  <1>11. QED
    BY <1>1, <1>8, <1>10

(* Some of the buffers go into the socket: nothing happens to the queue.   *)
LEMMA WriteMovesNothing ==
    ASSUME StreamInv, Write
    PROVE  StreamInv' /\ Underway' = Underway /\ up' = up
  <1>1. /\ up /\ wants /\ wants' = WantsMore(bufs')
        /\ rbuf' = rbuf /\ rpmsg' = rpmsg /\ rbufs' = rbufs /\ up' = up /\ sent' = sent
    BY DEF Write
  <1>2. BufsOK(bufs) /\ bufs \in Seq(BufType) /\ bufs # <<>> /\ SenderFollows
        /\ wire \in Seq(Piece) /\ Len(wire) \in Nat /\ Len(bufs) \in Nat
    BY <1>1, LenProperties DEF StreamInv, BufsOK
  <1> DEFINE d(n) == Drain(bufs, n)
             v(n) == [i \in 1 .. n |-> Unit(Head(d(n)[i - 1]), i = 1)]
             g == Len(Gathered)
  <1>3. PICK n \in 1 .. Capacity - Len(wire) :
            /\ Len(d(n)[n - 1]) > Len(bufs) - g
            /\ wire' = wire \o v(n) /\ bufs' = d(n)[n]
    BY DEF Write
  <1>4. n \in Nat \ {0}
    BY <1>2, Sizes
  <1>5. g \in 1 .. Len(bufs) /\ \A p \in 2 .. g : ~HasFd(bufs[p])
    BY <1>2, GatheredIs
  <1>6. /\ v(n) \in Seq(Piece) /\ Len(v(n)) = n
        /\ Runs(SenderKind(bufs), SenderGot(bufs), v(n))
        /\ BufsOK(bufs')
        /\ SenderGot(bufs') = Reached(v(n)[n])
        /\ SenderGot(bufs') > 0 => SenderKind(bufs') = v(n)[n][1]
        /\ QOf(bufs) = Arriving(v(n)) \o QOf(bufs')
    <2>1. Len(Drain(bufs, n)[n - 1]) > Len(bufs) - g
      BY <1>3
    <2> HIDE DEF g
    <2>2. /\ v(n) \in Seq(Piece) /\ Len(v(n)) = n
          /\ Runs(SenderKind(bufs), SenderGot(bufs), v(n))
          /\ BufsOK(d(n)[n])
          /\ SenderGot(d(n)[n]) = Reached(v(n)[n])
          /\ SenderGot(d(n)[n]) > 0 => SenderKind(d(n)[n]) = v(n)[n][1]
          /\ QOf(bufs) = Arriving(v(n)) \o QOf(d(n)[n])
      BY <1>2, <1>4, <1>5, <2>1, UnitsAreSent
    <2> HIDE DEF v, d
    <2>3. QED
      BY <1>3, <2>2
  <1> HIDE DEF v, d, g
  <1> DEFINE w == v(n)
             k == ReaderKind(Received)
             got == ReaderGot(Received)
  <1>7. Received' = Received
    BY <1>1 DEF Received
  <1>8. w # <<>>
    BY <1>4, <1>6, EmptySeq
  <1>9. Runs(EndKind(k, wire), EndGot(got, wire), w)
    BY <1>2, <1>6, RunsFrom DEF SenderFollows
  <1>10. /\ Runs(k, got, wire \o w)
         /\ EndGot(got, wire \o w) = EndGot(EndGot(got, wire), w)
         /\ EndKind(k, wire \o w) = EndKind(EndKind(k, wire), w)
    BY <1>2, <1>6, <1>9, RunsJoin DEF StreamInv
  <1>11. EndGot(got, wire') = Reached(w[n]) /\ EndKind(k, wire') = w[n][1]
    BY <1>3, <1>6, <1>8, <1>10 DEF EndGot, EndKind
  <1>12. StreamInv'
    <2>1. SenderFollows'
      BY <1>6, <1>7, <1>11 DEF SenderFollows
    <2>2. wants' = (bufs' # <<>>) /\ up' \in BOOLEAN /\ sent' \in 0 .. MaxSent
      BY <1>1 DEF WantsMore, StreamInv
    <2>3. HeadersWhole'
      BY <1>7 DEF StreamInv, HeadersWhole
    <2>4. wire' \in Seq(Piece)
      BY <1>2, <1>3, <1>6, ConcatProperties
    <2>5. ReaderOK(Received') /\ Runs(ReaderKind(Received'), ReaderGot(Received'), wire')
      BY <1>3, <1>7, <1>10 DEF StreamInv
    <2>6. QED
      BY <1>6, <2>1, <2>2, <2>3, <2>4, <2>5 DEF StreamInv
  <1>13. Underway' = Underway
    <2> DEFINE a == Arriving(wire)
               q == QOf(bufs')
               c == Arriving(w)
    <2>1. /\ Underway = (rbufs \o a) \o QOf(bufs)
          /\ rbufs \in Seq(MessageType) /\ a \in Seq(MessageType)
      BY UnderwayIs
    <2>2. /\ Underway' = (rbufs' \o Arriving(wire')) \o q /\ q \in Seq(MessageType)
      BY <1>6, UnderwayNext
    <2>3. Arriving(wire') = a \o c /\ c \in Seq(MessageType)
      BY <1>2, <1>3, <1>6, ArrivingJoins
    <2>4. QOf(bufs) = c \o q
      BY <1>6
    <2> HIDE DEF a, q, c
    <2>5. (rbufs \o a) \o (c \o q) = (rbufs \o (a \o c)) \o q
      <3>1. rbufs \o a \in Seq(MessageType)
        BY <2>1, ConcatProperties
      <3> DEFINE y == rbufs \o a
      <3>2. y \in Seq(MessageType)
        BY <3>1
      <3> HIDE DEF y
      <3>3. y \o (c \o q) = (y \o c) \o q
        <4>1. y \in Seq(MessageType) /\ c \in Seq(MessageType) /\ q \in Seq(MessageType)
          BY <2>2, <2>3, <3>2
        <4>2. QED
          BY ONLY <4>1, JoinAssociates
      <3>4. y \o c = rbufs \o (a \o c)
        <4>1. rbufs \in Seq(MessageType) /\ a \in Seq(MessageType) /\ c \in Seq(MessageType)
          BY <2>1, <2>3
        <4>2. (rbufs \o a) \o c = rbufs \o (a \o c)
          BY ONLY <4>1, JoinAssociates
        <4>3. QED
          BY <4>2 DEF y
      <3>5. QED
        BY <3>3, <3>4 DEF y
    <2>6. QED
      BY <1>1, <2>1, <2>2, <2>3, <2>4, <2>5
  <1>14. QED
    BY <1>1, <1>12, <1>13

(* The sender goes: what it still had queued, or written in part, is cut   *)
(* off the end of the queue.                                               *)
LEMMA CloseCuts ==
    ASSUME StreamInv, Close
    PROVE  /\ StreamInv' /\ up' = FALSE
           /\ \E n \in 0 .. Len(Underway) : Underway' = SubSeq(Underway, 1, n)
  <1>1. /\ up' = FALSE /\ bufs' = <<>> /\ wants' = FALSE
        /\ wire' = wire /\ rbuf' = rbuf /\ rpmsg' = rpmsg /\ rbufs' = rbufs /\ sent' = sent
    BY DEF Close
  <1>2. Received' = Received
    BY <1>1 DEF Received
  <1>3. BufsOK(bufs')
    BY <1>1, EmptySeq DEF BufsOK
  <1>4. StreamInv'
    <2>1. HeadersWhole'
      BY <1>2 DEF StreamInv, HeadersWhole
    <2>2. wants' = (bufs' # <<>>) /\ up' \in BOOLEAN /\ sent' \in 0 .. MaxSent
      BY <1>1 DEF StreamInv
    <2>3. /\ ReaderOK(Received') /\ wire' \in Seq(Piece)
          /\ Runs(ReaderKind(Received'), ReaderGot(Received'), wire')
      BY <1>1, <1>2 DEF StreamInv
    <2>4. QED
      BY <1>1, <1>3, <2>1, <2>2, <2>3 DEF StreamInv
  <1> DEFINE z == rbufs \o Arriving(wire)
  <1>5. Underway = z \o QOf(bufs) /\ z \in Seq(MessageType) /\ QOf(bufs) \in Seq(MessageType)
    BY UnderwayIs
  <1>6. Underway' = z
    <2>1. Underway' = z \o QOf(bufs')
      BY <1>1, <1>3, UnderwayNext
    <2>2. QOf(bufs') = <<>>
      BY <1>1 DEF QOf
    <2> HIDE DEF z
    <2>3. z \o <<>> = z
      BY <1>5, ConcatEmptySeq
    <2>4. QED
      BY <2>1, <2>2, <2>3
  <1> HIDE DEF z
  <1>7. Len(z) \in 0 .. Len(Underway) /\ SubSeq(Underway, 1, Len(z)) = z
    BY <1>5, StartOfJoined
  <1>8. QED
    BY <1>1, <1>4, <1>6, <1>7

(* The reader takes what it finds: nothing happens to the queue.           *)
LEMMA ReadMovesNothing ==
    ASSUME StreamInv, Read
    PROVE  StreamInv' /\ Underway' = Underway /\ up' = up
  <1> DEFINE U(n) == SubSeq(wire, 1, n)
             R(n) == [head |-> rbuf, msg |-> rpmsg, done |-> rbufs, fd |-> Fds(U(n)) # {}]
             T(n) == Taken(R(n), U(n))
  <1>1. PICK n \in Readable :
            /\ rbuf' = T(n).head /\ rpmsg' = T(n).msg /\ rbufs' = T(n).done
            /\ wire' = SubSeq(wire, n + 1, Len(wire))
            /\ bufs' = bufs /\ wants' = wants /\ up' = up /\ sent' = sent
    BY DEF Read
  <1> DEFINE u == U(n)
             fd == Fds(u) # {}
             r == R(n)
             t == T(n)
             l == Len(wire)
             k == ReaderKind(Received)
             got == ReaderGot(Received)
  <1>2. /\ n \in 1 .. l /\ \A i, j \in Fds(u) : i = j
        /\ \A i \in Fds(u) : n >= i + Header - 1
    BY DEF Readable
  <1>3. /\ ReaderOK(Received) /\ BufsOK(bufs) /\ wire \in Seq(Piece) /\ HeadersWhole
        /\ Runs(k, got, wire) /\ l \in Nat /\ n \in Nat /\ n > 0 /\ n <= l
    BY <1>2, LenProperties DEF StreamInv
  <1>4. u \in Seq(Piece) /\ Len(u) = n /\ wire' \in Seq(Piece) /\ wire = u \o wire'
    <2>1. \A i \in 1 .. l : wire[i] \in Piece
      BY <1>3, ElementOfSeq
    <2>2. u \in Seq(Piece) /\ Len(u) = IF 1 <= n THEN n - 1 + 1 ELSE 0
      BY <1>3, <2>1, SubSeqProperties
    <2>3. \A i \in n + 1 .. l : i \in 1 .. l
      BY <1>3
    <2>4. wire' \in Seq(Piece)
      BY <1>1, <1>3, <2>1, <2>3, SubSeqProperties
    <2>5. SubSeq(wire, 1, l) = wire
      BY <1>3, SubSeqFull
    <2>6. 1 \in 1 .. l + 1 /\ n \in 1 - 1 .. l /\ l \in n .. l
      BY <1>3
    <2>7. SubSeq(wire, 1, n) \o SubSeq(wire, n + 1, l) = SubSeq(wire, 1, l)
      BY <1>3, <2>6, ConcatAdjacentSubSeq
    <2>8. wire = u \o wire'
      BY <1>1, <2>5, <2>7, Zenon
    <2> HIDE DEF U
    <2>9. QED
      BY <1>3, <2>2, <2>4, <2>8
  <1> HIDE DEF U
  <1>5. \A i : i \in Fds(u) <=> i \in 1 .. n /\ Marked(u[i])
    <2>1. DOMAIN u = 1 .. n
      BY <1>4, LenProperties
    <2>2. \A i \in 1 .. n : u[i][3] \in BOOLEAN
      BY <1>4 DEF Piece
    <2>3. QED
      BY <2>1, <2>2 DEF Fds, Marked
  <1>6. fd \in BOOLEAN /\ (fd = TRUE <=> \E i \in 1 .. n : Marked(u[i]))
    BY <1>5
  <1>7. /\ r = [head |-> rbuf, msg |-> rpmsg, done |-> rbufs, fd |-> fd]
        /\ t = Taken(r, u)
    OBVIOUS
  <1> HIDE DEF u, fd, R, T, r, t
  <1>8. ReaderOK(r) /\ ReaderGot(r) = got /\ ReaderKind(r) = k /\ r.done = rbufs /\ r.fd = fd
    <2>1. r \in ReaderType
      <3>1. Received \in ReaderType
        BY <1>3 DEF ReaderOK
      <3>2. rbuf \in Seq(Piece) /\ rpmsg \in PartType /\ rbufs \in Seq(MessageType)
        BY <3>1 DEF Received, ReaderType
      <3>3. QED
        BY <1>6, <1>7, <3>2 DEF ReaderType
    <2>2. r.head = rbuf /\ r.msg = rpmsg /\ r.done = rbufs /\ r.fd = fd
      BY <1>7
    <2>3. ReaderOK(r)
      BY <1>3, <2>1, <2>2, ReceivedIs DEF ReaderOK
    <2>4. ReaderGot(r) = got /\ ReaderKind(r) = k
      BY <2>2, ReceivedIs DEF ReaderGot, ReaderKind
    <2>5. QED
      BY <2>2, <2>3, <2>4
  <1>9. /\ ReaderOK(t) /\ ReaderGot(t) = Reached(u[n])
        /\ ReaderGot(t) > 0 => ReaderKind(t) = u[n][1]
        /\ ReaderGot(t) > 0 /\ ReaderGot(t) < Header => ReaderKind(t) \notin Passes
        /\ t.done = rbufs \o Arriving(u)
    <2>1. Runs(ReaderKind(r), ReaderGot(r), u)
      BY <1>3, <1>4, <1>8, RunsJoin
    <2>2. ReaderGot(r) > 0 /\ ReaderGot(r) < Header => ReaderKind(r) \notin Passes
      BY <1>3, <1>8 DEF HeadersWhole
    <2>3. \A i, j \in 1 .. Len(u) : Marked(u[i]) /\ Marked(u[j]) => i = j
      BY <1>2, <1>4, <1>5
    <2>4. \A i \in 1 .. Len(u) : Marked(u[i]) => Len(u) >= i + Header - 1
      BY <1>2, <1>4, <1>5
    <2>5. r.fd = TRUE <=> \E i \in 1 .. Len(u) : Marked(u[i])
      BY <1>4, <1>6, <1>8
    <2>6. Len(u) > 0
      BY <1>3, <1>4
    <2>7. /\ ReaderOK(Taken(r, u)) /\ ReaderGot(Taken(r, u)) = Reached(u[Len(u)])
          /\ ReaderGot(Taken(r, u)) > 0 => ReaderKind(Taken(r, u)) = u[Len(u)][1]
          /\ ReaderGot(Taken(r, u)) > 0 /\ ReaderGot(Taken(r, u)) < Header
                => ReaderKind(Taken(r, u)) \notin Passes
          /\ Taken(r, u).done = r.done \o Arriving(u)
      BY <1>4, <1>8, <2>1, <2>2, <2>3, <2>4, <2>5, <2>6, UnitsAreTaken
    <2>8. QED
      BY <1>4, <1>7, <1>8, <2>7
  <1>10. /\ ReaderOK(Received') /\ ReaderGot(Received') = ReaderGot(t)
         /\ ReaderKind(Received') = ReaderKind(t)
    <2>1. Received' = [head |-> t.head, msg |-> t.msg, done |-> t.done, fd |-> FALSE]
      BY <1>1 DEF Received, t
    <2>2. t \in ReaderType
      BY <1>9 DEF ReaderOK
    <2>3. Received' \in ReaderType
      BY <2>1, <2>2 DEF ReaderType
    <2>4. Received'.head = t.head /\ Received'.msg = t.msg
      BY <2>1
    <2>5. ReaderOK(Received')
      BY <1>9, <2>3, <2>4 DEF ReaderOK
    <2>6. QED
      BY <2>4, <2>5 DEF ReaderGot, ReaderKind
  <1>11. u # <<>> /\ EndGot(got, u) = Reached(u[n]) /\ EndKind(k, u) = u[n][1]
    BY <1>3, <1>4, EmptySeq DEF EndGot, EndKind
  <1>12. /\ Runs(EndKind(k, u), EndGot(got, u), wire')
         /\ EndGot(got, wire) = EndGot(EndGot(got, u), wire')
         /\ EndKind(k, wire) = EndKind(EndKind(k, u), wire')
    BY <1>3, <1>4, RunsJoin
  <1> DEFINE k2 == ReaderKind(Received')
             got2 == ReaderGot(Received')
  <1>13. got2 = EndGot(got, u) /\ (got2 > 0 => k2 = EndKind(k, u))
    BY <1>9, <1>10, <1>11
  <1> HIDE DEF k, got, k2, got2, l
  <1>14. Runs(k2, got2, wire')
    BY <1>4, <1>12, <1>13, RunsFrom
  <1>15. StreamInv'
    <2>1. up => SenderFollows'
      <3>1. SUFFICES ASSUME up PROVE SenderFollows'
        OBVIOUS
      <3>2. /\ SenderGot(bufs) = EndGot(got, wire)
            /\ SenderGot(bufs) > 0 => SenderKind(bufs) = EndKind(k, wire)
        BY <3>1 DEF StreamInv, SenderFollows, got, k
      <3>3. SenderGot(bufs') = EndGot(got2, wire')
        BY <1>1, <1>12, <1>13, <3>2
      <3>4. ASSUME SenderGot(bufs') > 0 PROVE SenderKind(bufs') = EndKind(k2, wire')
        <4>1. SenderKind(bufs') = EndKind(EndKind(k, u), wire')
          BY <1>1, <1>12, <3>2, <3>4
        <4>2. CASE wire' = <<>>
          <5>1. got2 > 0
            BY <3>3, <3>4, <4>2 DEF EndGot
          <5>2. QED
            BY <1>13, <4>1, <5>1
        <4>3. CASE wire' # <<>>
          BY <4>1, <4>3 DEF EndKind
        <4>4. QED
          BY <4>2, <4>3
      <3>5. QED
        BY <3>3, <3>4 DEF SenderFollows, got2, k2
    <2>2. HeadersWhole'
      BY <1>9, <1>10 DEF HeadersWhole
    <2>3. wants' = (bufs' # <<>>) /\ up' \in BOOLEAN /\ sent' \in 0 .. MaxSent
      BY <1>1 DEF StreamInv
    <2>4. BufsOK(bufs')
      BY <1>1, <1>3
    <2>5. up' => SenderFollows'
      BY <1>1, <2>1
    <2>6. QED
      BY <1>4, <1>10, <1>14, <2>2, <2>3, <2>4, <2>5 DEF StreamInv, k2, got2
  <1>16. Underway' = Underway
    <2> DEFINE a == Arriving(u)
               c == Arriving(wire')
               q == QOf(bufs)
    <2>1. Underway = (rbufs \o Arriving(wire)) \o q /\ rbufs \in Seq(MessageType)
      BY UnderwayIs
    <2>2. Arriving(wire) = a \o c /\ a \in Seq(MessageType) /\ c \in Seq(MessageType)
      BY <1>4, ArrivingJoins
    <2>3. Underway' = (rbufs' \o c) \o q
      BY <1>1, <1>3, UnderwayNext
    <2>4. rbufs' = rbufs \o a
      BY <1>1, <1>9 DEF t
    <2> HIDE DEF a, c, q
    <2>5. (rbufs \o a) \o c = rbufs \o (a \o c)
      BY ONLY <2>1, <2>2, JoinAssociates
    <2>6. QED
      BY <2>1, <2>2, <2>3, <2>4, <2>5
  <1>17. QED
    BY <1>1, <1>15, <1>16

(* The reader takes a message off the front of the queue.                  *)
LEMMA TakeGets ==
    ASSUME StreamInv, Take
    PROVE  StreamInv' /\ Underway # <<>> /\ Underway' = Tail(Underway) /\ up' = up
  <1>1. /\ rbufs # <<>> /\ rbufs' = Tail(rbufs)
        /\ bufs' = bufs /\ wants' = wants /\ wire' = wire /\ rbuf' = rbuf /\ rpmsg' = rpmsg
        /\ up' = up /\ sent' = sent
    BY DEF Take
  <1> DEFINE a == Arriving(wire)
             q == QOf(bufs)
  <1>2. /\ Underway = (rbufs \o a) \o q /\ rbufs \in Seq(MessageType)
        /\ a \in Seq(MessageType) /\ q \in Seq(MessageType)
        /\ rbufs \o a \in Seq(MessageType)
    BY UnderwayIs
  <1>3. rbufs' \in Seq(MessageType)
    BY <1>1, <1>2, HeadTailProperties
  <1>4. /\ ReaderOK(Received') /\ ReaderGot(Received') = ReaderGot(Received)
        /\ ReaderKind(Received') = ReaderKind(Received)
    <2>1. Received' = [head |-> rbuf, msg |-> rpmsg, done |-> rbufs', fd |-> FALSE]
      BY <1>1 DEF Received
    <2>2. Received \in ReaderType
      BY DEF StreamInv, ReaderOK
    <2>3. rbuf \in Seq(Piece) /\ rpmsg \in PartType
      BY <2>2 DEF Received, ReaderType
    <2>4. Received' \in ReaderType
      BY <1>3, <2>1, <2>3 DEF ReaderType
    <2>5. Received'.head = Received.head /\ Received'.msg = Received.msg
      BY <2>1, ReceivedIs
    <2>6. ReaderOK(Received')
      BY <2>4, <2>5 DEF StreamInv, ReaderOK
    <2>7. QED
      BY <2>5, <2>6 DEF ReaderGot, ReaderKind
  <1>5. BufsOK(bufs')
    BY <1>1 DEF StreamInv
  <1>6. StreamInv'
    <2>1. HeadersWhole' /\ (up' => SenderFollows')
      BY <1>1, <1>4 DEF StreamInv, HeadersWhole, SenderFollows
    <2>2. wants' = (bufs' # <<>>) /\ up' \in BOOLEAN /\ sent' \in 0 .. MaxSent
      BY <1>1 DEF StreamInv
    <2>3. wire' \in Seq(Piece) /\ Runs(ReaderKind(Received'), ReaderGot(Received'), wire')
      BY <1>1, <1>4 DEF StreamInv
    <2>4. QED
      BY <1>4, <1>5, <2>1, <2>2, <2>3 DEF StreamInv
  <1>7. Underway' = (rbufs' \o a) \o q
    BY <1>1, <1>5, UnderwayNext
  <1> HIDE DEF a, q
  <1>8. rbufs \o a # <<>> /\ Tail(rbufs \o a) = rbufs' \o a
    BY <1>1, <1>2, TailOfJoined
  <1> DEFINE y == rbufs \o a
  <1>9. y \in Seq(MessageType) /\ y # <<>> /\ Tail(y) = rbufs' \o a
    BY <1>2, <1>8
  <1> HIDE DEF y
  <1>10. y \o q # <<>> /\ Tail(y \o q) = Tail(y) \o q
    BY <1>2, <1>9, TailOfJoined
  <1>11. QED
    BY <1>1, <1>2, <1>6, <1>7, <1>9, <1>10 DEF y

-----------------------------------------------------------------------------
LEMMA StreamSteps ==
    ASSUME StreamInv, [ImsgNext]_imsgVars
    PROVE  StreamInv' /\ [Whole!QueueNext]_Whole!queueVars
  <1>1. CASE \E k \in Kind : Compose(k)
    <2>1. PICK k \in Kind : Compose(k)
      BY <1>1
    <2>2. StreamInv' /\ Underway' = Append(Underway, AsSent(k)) /\ up /\ up' = up
      BY <2>1, ComposePuts
    <2>3. Whole!Put
      BY <2>2 DEF Whole!Put
    <2>4. QED
      BY <2>2, <2>3 DEF Whole!QueueNext
  <1>2. CASE Write
    <2>1. StreamInv' /\ Underway' = Underway /\ up' = up
      BY <1>2, WriteMovesNothing
    <2>2. QED
      BY <2>1 DEF Whole!queueVars
  <1>3. CASE Close
    <2>1. /\ StreamInv' /\ up' = FALSE
          /\ \E n \in 0 .. Len(Underway) : Underway' = SubSeq(Underway, 1, n)
      BY <1>3, CloseCuts
    <2>2. Whole!Cut
      BY <2>1 DEF Whole!Cut
    <2>3. QED
      BY <2>1, <2>2 DEF Whole!QueueNext
  <1>4. CASE Read
    <2>1. StreamInv' /\ Underway' = Underway /\ up' = up
      BY <1>4, ReadMovesNothing
    <2>2. QED
      BY <2>1 DEF Whole!queueVars
  <1>5. CASE Take
    <2>1. StreamInv' /\ Underway # <<>> /\ Underway' = Tail(Underway) /\ up' = up
      BY <1>5, TakeGets
    <2>2. Whole!Get
      BY <2>1 DEF Whole!Get
    <2>3. QED
      BY <2>1, <2>2 DEF Whole!QueueNext
  <1>6. CASE UNCHANGED imsgVars
    <2>1. StreamInv' /\ Underway' = Underway
      BY <1>6, StreamStutters
    <2>2. up' = up
      BY <1>6 DEF imsgVars
    <2>3. QED
      BY <2>1, <2>2 DEF Whole!queueVars
  <1>7. QED
    BY <1>1, <1>2, <1>3, <1>4, <1>5, <1>6 DEF ImsgNext

(* The two buffers and the socket implement a queue of whole messages: a   *)
(* step of msgbuf_write(), of ibuf_read() or of the socket is none of the  *)
(* queue, and the sender that closes only cuts off its end.                *)
THEOREM MessagesAreWhole == ImsgSpec => IsMessageQueue
  <1>1. ImsgInit => StreamInv /\ Whole!QueueInit
    <2>1. ImsgInit => up = TRUE
      BY DEF ImsgInit
    <2>2. QED
      BY <2>1, StreamStarts DEF Whole!QueueInit
  <1>2. StreamInv /\ [ImsgNext]_imsgVars => StreamInv' /\ [Whole!QueueNext]_Whole!queueVars
    BY StreamSteps
  <1>3. QED
    BY <1>1, <1>2, PTL DEF ImsgSpec, IsMessageQueue, Whole!QueueSpec

(* The buffers and the message being assembled keep their types; what is   *)
(* being assembled is never longer than the message it is.                 *)
THEOREM ImsgTypes == ImsgSpec => []ImsgTypeOK
  <1>1. ImsgInit => StreamInv
    BY StreamStarts
  <1>2. StreamInv /\ [ImsgNext]_imsgVars => StreamInv'
    BY StreamSteps
  <1>3. StreamInv => ImsgTypeOK
    <2> SUFFICES ASSUME StreamInv PROVE ImsgTypeOK
      OBVIOUS
    <2>1. Received \in ReaderType /\ ReaderOK(Received)
      BY DEF StreamInv, ReaderOK
    <2>2. rbuf \in Seq(Piece) /\ rpmsg \in PartType /\ rbufs \in Seq(MessageType)
      BY <2>1 DEF Received, ReaderType
    <2>3. rpmsg # NoMessage => rpmsg.got < Size(rpmsg.kind)
      BY <2>1, ReceivedIs DEF ReaderOK
    <2>4. bufs \in Seq(BufType) /\ wire \in Seq(Piece)
      BY DEF StreamInv, BufsOK
    <2>5. {wants, up} \subseteq BOOLEAN /\ sent \in 0 .. MaxSent
      BY DEF StreamInv
    <2>6. QED
      BY <2>2, <2>3, <2>4, <2>5 DEF ImsgTypeOK, BufType, Piece, PartType, MessageType
  <1>4. QED
    BY <1>1, <1>2, <1>3, PTL DEF ImsgSpec
=============================================================================
