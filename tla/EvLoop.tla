------------------------------- MODULE EvLoop -------------------------------
(***************************************************************************)
(* The event loop of ev.c: a table of file descriptors for poll(), a heap  *)
(* of timers with a reserve behind it for those added by a callback, and a *)
(* pipe through which signal handlers wake the loop.  Everything runs in   *)
(* one thread; a callback may call any function of ev.c.                   *)
(***************************************************************************)
EXTENDS Naturals, Integers, Sequences, FiniteSetsExt, SequencesExt

CONSTANTS Fd,           (* descriptors, the signal pipe apart               *)
          SigFd,        (* base->sigpipe[0]                                 *)
          MaxTimers,    (* bound on the timers pending at once              *)
          MaxTime,      (* bound on the time a timer is set to              *)
          MaxCalls,     (* bound on the calls one callback makes            *)
          MaxSignals    (* what the signal pipe holds                       *)

ASSUME EvAssumption == /\ {MaxTimers, MaxTime, MaxCalls, MaxSignals} \subseteq Nat
                       /\ IsFiniteSet(Fd) /\ SigFd \notin Fd
                       /\ {"start", "timeout", "none"} \cap (Fd \cup {SigFd}) = {}

VARIABLES
    timers,     (* the heap: base->timers up to ntimers                     *)
    reserve,    (* base->timers from reserve_from to reserve_till           *)
    tid,        (* the last id given to a timer                             *)
    watched,    (* the descriptors in base->pfds                            *)
    revents,    (* those for which poll() returned something, not served    *)
    n,          (* what poll() returned, less the callbacks made            *)
    tv,         (* the time ev_step() believes to have passed               *)
    i,          (* where its loops are                                      *)
    stop,       (* ev_stop                                                  *)
    sigpipe,    (* bytes in the signal pipe                                 *)
    pc,         (* where ev_step() is                                       *)
    event,      (* what the running callback is called for                  *)
    calls,      (* how many functions of ev.c it may still call             *)
    fresh,      (* history: descriptors added since poll()                  *)
    owed        (* history: those poll() returned, whose callback is not made *)

timerVars == <<timers, reserve, tid>>
fdVars == <<watched, revents, fresh, owed>>
loopVars == <<n, tv, i>>
vars == <<timerVars, fdVars, loopVars, stop, sigpipe, pc, event, calls>>

AllFd == Fd \cup {SigFd}
FdSeq == SetToSeq(AllFd)        (* the order of base->pfds                  *)
TimerId == 1 .. MaxTimers + 1
Busy == "callback"

(* A timer counts down tv; rest is the time that is really left.           *)
Timer == [id : TimerId, tv : 0 .. MaxTime, rest : 0 .. MaxTime]

Pending == ToSet(timers) \cup ToSet(reserve)
Ids == {t.id : t \in Pending}
Less(t, d) == IF t > d THEN t - d ELSE 0
Later(s, d) == [k \in DOMAIN s |-> [s[k] EXCEPT !.rest = Less(@, d)]]

(* main() registers its descriptors and timers before ev_loop().           *)
EvInit ==
    /\ timers = <<>> /\ reserve = <<>> /\ tid = 0
    /\ watched = {SigFd} /\ revents = {} /\ fresh = {} /\ owed = {}
    /\ n = 0 /\ tv = 0 /\ i = 1
    /\ stop = FALSE /\ sigpipe = 0
    /\ pc = Busy /\ event = "start" /\ calls = MaxCalls

-----------------------------------------------------------------------------
(* The heap.                                                               *)
Swap(h, j, k) == [h EXCEPT ![j] = h[k], ![k] = h[j]]

(* bubbledown(): the smaller child, and the two ways to be in place.       *)
Child(h, j) ==
    IF 2 * j + 1 > Len(h) \/ h[2 * j].tv < h[2 * j + 1].tv THEN 2 * j ELSE 2 * j + 1

InPlace(h, j) == 2 * j > Len(h) \/ h[j].tv < h[Child(h, j)].tv

(* One turn of its loop moves the timer that is at d.at.                   *)
Turn(d) ==
    IF InPlace(d.heap, d.at) THEN d
    ELSE [heap |-> Swap(d.heap, d.at, Child(d.heap, d.at)), at |-> Child(d.heap, d.at)]

BubbleDown(h, j) ==
    LET after[k \in 0 .. Len(h)] ==
            IF k = 0 THEN [heap |-> h, at |-> j] ELSE Turn(after[k - 1])
    IN after[Len(h)].heap

(* A definition that follows one named Faulty... is what the code does;    *)
(* the faulty one is the bug that a run is shown to notice.                *)
FaultyHeapify(h, r) == h \o r           (* joined, but not ordered *)

(* timerheapify(): only when there is something in the reserve; from the   *)
(* last timer that has a child to the first.                               *)
Heapify(h, r) ==
    LET all == h \o r
        half == Len(all) \div 2
        after[k \in 0 .. half] ==
            IF k = 0 THEN all ELSE BubbleDown(after[k - 1], half + 1 - k)
    IN IF r = <<>> THEN h ELSE after[half]

(* The last timer takes the place of the j-th, and moves down from there.  *)
CancelTimer(h, j) ==
    LET last == Front(h)
    IN IF j = Len(h) THEN last ELSE BubbleDown([last EXCEPT ![j] = Last(h)], j)

-----------------------------------------------------------------------------
(* What a callback may do.                                                 *)
Call == /\ pc = Busy /\ calls > 0
        /\ calls' = calls - 1
        /\ UNCHANGED <<loopVars, sigpipe, pc, event>>

NextTid == IF tid = MaxTimers + 1 THEN 1 ELSE tid + 1

FaultyPut(t) == timers' = Append(timers, t) /\ UNCHANGED reserve

Put(t) == reserve' = Append(reserve, t) /\ UNCHANGED timers

(* ev_timer(): the ids wrap; none is given again while it is pending.      *)
EvTimer == /\ Call
           /\ Cardinality(Pending) < MaxTimers /\ NextTid \notin Ids
           /\ \E t \in 0 .. MaxTime : Put([id |-> NextTid, tv |-> t, rest |-> t])
           /\ tid' = NextTid
           /\ UNCHANGED <<fdVars, stop>>

EvTimerCancel ==
    /\ Call
    /\ \/ \E j \in DOMAIN timers : timers' = CancelTimer(timers, j) /\ UNCHANGED reserve
       \/ \E j \in DOMAIN reserve :
             /\ reserve' = Front([reserve EXCEPT ![j] = Last(reserve)])
             /\ UNCHANGED timers
    /\ UNCHANGED <<tid, fdVars, stop>>

FaultyEvAdd == /\ Call          (* keeps the events of an earlier use *)
               /\ \E f \in Fd : /\ watched' = watched \cup {f}
                                /\ fresh' = fresh \cup {f}
               /\ UNCHANGED <<timerVars, revents, owed, stop>>

(* ev_add(), also of a descriptor that is there already (imsg_event_add()  *)
(* does it for each message): what poll() said of it is forgotten.         *)
EvAdd == /\ Call
         /\ \E f \in Fd : /\ watched' = watched \cup {f}
                          /\ revents' = revents \ {f}
                          /\ fresh' = fresh \cup {f}
         /\ UNCHANGED <<timerVars, owed, stop>>

EvDel == /\ Call
         /\ \E f \in Fd \cap watched : watched' = watched \ {f}
         /\ UNCHANGED <<timerVars, revents, fresh, owed, stop>>

EvBreak == Call /\ stop' = TRUE /\ UNCHANGED <<timerVars, fdVars>>

(* The callback returns; it may have taken some time.                      *)
Return == /\ pc = Busy
          /\ pc' = CASE event = "start"   -> "step"
                     [] event = "timeout" -> "timers"
                     [] OTHER             -> "fds"
          /\ \E d \in 0 .. 1 : /\ timers' = Later(timers, d)
                               /\ reserve' = Later(reserve, d)
          /\ calls' = 0 /\ event' = "none"
          /\ UNCHANGED <<tid, fdVars, loopVars, stop, sigpipe>>

-----------------------------------------------------------------------------
(* ev_step().                                                              *)
Step == /\ pc = "step"
        /\ IF stop THEN pc' = "stopped" /\ UNCHANGED <<timers, reserve>>
           ELSE /\ pc' = "poll"
                /\ timers' = Heapify(timers, reserve) /\ reserve' = <<>>
        /\ UNCHANGED <<tid, fdVars, loopVars, stop, sigpipe, event, calls>>

(* poll() returns because of a timeout, of some descriptors, or of a       *)
(* signal.  After a timeout it is taken to have lasted just that long.     *)
Polled(found, elapsed, believed, result) ==
    /\ revents' = found /\ owed' = found
    /\ n' = result /\ tv' = believed
    /\ timers' = Later(timers, elapsed)

PollReturned == /\ i' = 1 /\ fresh' = {} /\ pc' = "timers"
                /\ UNCHANGED <<reserve, tid, watched, stop, event, calls>>

Ready == IF sigpipe > 0 THEN {SigFd} ELSE {}

Poll == /\ pc = "poll"
        /\ \/ /\ timers # <<>> /\ Ready = {}
              /\ \E late \in 0 .. 1 : Polled({}, timers[1].tv + late, timers[1].tv, 0)
           \/ \E found \in SUBSET (watched \ {SigFd}), d \in 0 .. MaxTime :
                 /\ found \cup Ready # {}
                 /\ Polled(found \cup Ready, d, d, Cardinality(found \cup Ready))
        /\ UNCHANGED sigpipe
        /\ PollReturned

(* A signal interrupts poll() when there is nothing to return.             *)
Interrupted == /\ pc = "poll" /\ Ready = {} /\ MaxSignals > 0
               /\ sigpipe' = 1
               /\ \E d \in 0 .. MaxTime : Polled({}, d, d, -1)
               /\ PollReturned

Callback(what) == pc' = Busy /\ event' = what /\ calls' = MaxCalls

Due(t) == t.tv <= tv

(* The due timer is cancelled before its callback is made.                 *)
Expire == /\ pc = "timers" /\ ~stop /\ i <= Len(timers)
          /\ Due(timers[i])
          /\ timers' = CancelTimer(timers, i)
          /\ Callback("timeout")
          /\ UNCHANGED <<reserve, tid, fdVars, loopVars, stop, sigpipe>>

CountDown == /\ pc = "timers" /\ ~stop /\ i <= Len(timers)
             /\ ~Due(timers[i])
             /\ timers' = [timers EXCEPT ![i].tv = @ - tv]
             /\ i' = i + 1
             /\ UNCHANGED <<reserve, tid, fdVars, n, tv, stop, sigpipe, pc, event, calls>>

TimersDone == /\ pc = "timers" /\ (stop \/ i > Len(timers))
              /\ pc' = "fds" /\ i' = 1
              /\ UNCHANGED <<timerVars, fdVars, n, tv, stop, sigpipe, event, calls>>

(* The descriptors in order, as long as some are left by the count.        *)
Serving == pc = "fds" /\ ~stop /\ n > 0 /\ i <= Len(FdSeq)

FaultySkip ==           (* counts what is not served *)
    /\ Serving /\ FdSeq[i] \notin watched \cap revents
    /\ i' = i + 1 /\ n' = n - 1
    /\ UNCHANGED <<timerVars, fdVars, tv, stop, sigpipe, pc, event, calls>>

Skip == /\ Serving /\ FdSeq[i] \notin watched \cap revents
        /\ i' = i + 1
        /\ UNCHANGED <<timerVars, fdVars, n, tv, stop, sigpipe, pc, event, calls>>

Serve == /\ Serving /\ FdSeq[i] \in watched \cap revents
         /\ i' = i + 1 /\ n' = n - 1
         /\ revents' = revents \ {FdSeq[i]} /\ owed' = owed \ {FdSeq[i]}
         /\ sigpipe' = IF FdSeq[i] = SigFd THEN sigpipe - 1 ELSE sigpipe
         /\ Callback(FdSeq[i])
         /\ UNCHANGED <<timerVars, watched, fresh, tv, stop>>

FdsDone == /\ pc = "fds" /\ (stop \/ n <= 0 \/ i > Len(FdSeq))
           /\ pc' = "step"
           /\ revents' = {} /\ fresh' = {} /\ owed' = {} /\ n' = 0 /\ tv' = 0 /\ i' = 1
           /\ UNCHANGED <<timerVars, watched, stop, sigpipe, event, calls>>

(* ev_sigcatch(), at any time: a byte more, unless the pipe is full.       *)
Signal == /\ pc # "stopped" /\ sigpipe < MaxSignals
          /\ sigpipe' = sigpipe + 1
          /\ UNCHANGED <<timerVars, fdVars, loopVars, stop, pc, event, calls>>

Calling == EvTimer \/ EvTimerCancel \/ EvAdd \/ EvDel \/ EvBreak
Looping == \/ Step \/ Poll \/ Interrupted \/ Expire \/ CountDown \/ TimersDone
           \/ Skip \/ Serve \/ FdsDone

EvNext == Calling \/ Return \/ Looping \/ Signal

EvSpec == EvInit /\ [][EvNext]_vars

(* Callbacks return and the loop runs on.                                  *)
EvFair == EvSpec /\ WF_vars(Return) /\ WF_vars(Looping)

-----------------------------------------------------------------------------
EvTypeOK ==
    /\ timers \in Seq(Timer) /\ reserve \in Seq(Timer)
    /\ tid \in 0 .. MaxTimers + 1
    /\ SigFd \in watched /\ {watched, revents, fresh, owed} \subseteq SUBSET AllFd
    /\ n \in -1 .. Cardinality(AllFd) /\ tv \in 0 .. MaxTime
    /\ i \in 1 .. 1 + MaxTimers + Cardinality(AllFd)
    /\ stop \in BOOLEAN /\ sigpipe \in 0 .. MaxSignals
    /\ pc \in {Busy, "step", "poll", "timers", "fds", "stopped"}
    /\ event \in AllFd \cup {"start", "timeout", "none"}
    /\ calls \in 0 .. MaxCalls

(* Heap and reserve together are the set of timers of module TimerSet: no  *)
(* timer is lost, doubled, fired after it was cancelled or too early, with *)
(* callbacks that add and cancel timers while the loop counts them down.   *)
Ahead == INSTANCE TimerSet WITH
    Id <- TimerId,
    pending <- [id \in Ids |-> (CHOOSE t \in Pending : t.id = id).rest],
    running <- event = "timeout"

TimersAreKept == Ahead!TimersSpec

(* poll() waits no longer than the nearest timer.                          *)
NearestFirst == pc = "poll" => \A t \in ToSet(timers) : timers[1].tv <= t.tv

(* It is so for a few timers (the daemon has one), whatever callbacks do   *)
(* while the heap is counted down; with seven it is not.                   *)
Few == 3
FewAreInOrder == EvTypeOK /\ (Len(timers) <= Few => NearestFirst)

(* A callback is made for what poll() said of this very registration, not  *)
(* for an event of a descriptor with the same number that was deleted.     *)
NoStaleEvent == [][\A f \in AllFd : event' = f /\ event # f => f \notin fresh]_vars

(* When the callbacks are over, every descriptor of which poll() said that *)
(* it is ready has had its callback in this turn, but for two kinds that   *)
(* another callback touched before its turn came: those deleted, and those *)
(* given to ev_add() again, which are passed over until the next poll().   *)
PassedOver == owed \cap watched
AllServed == [][pc = "fds" /\ pc' = "step" /\ ~stop => PassedOver \subseteq fresh]_vars

(* A signal that was caught is handled, whatever timers keep adding.       *)
SignalsServed == sigpipe > 0 ~> event = SigFd \/ stop
=============================================================================
