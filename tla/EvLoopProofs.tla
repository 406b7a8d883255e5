---------------------------- MODULE EvLoopProofs ----------------------------
(***************************************************************************)
(* The event loop for any descriptors, timers and callbacks: descriptors   *)
(* are served for what poll() said of them, and none is passed over unless *)
(* a callback deleted it or gave it to ev_add() again; it keeps            *)
(* what module TimerSet promises of timers; and the nearest of a few       *)
(* timers is the one that poll() waits for.                                *)
(***************************************************************************)
EXTENDS EvLoop, FiniteSetTheorems, SequenceTheorems, TLAPS

(* FdSeq goes through all descriptors.                                     *)
LEMMA FdsAreFinite == IsFiniteSet(AllFd) /\ Cardinality(AllFd) \in Nat
  <1>1. IsFiniteSet(AllFd)
    BY EvAssumption, FS_AddElement DEF AllFd
  <1>2. QED
    BY <1>1, FS_CardinalityType

LEMMA FdSeqIsAll ==
    /\ Len(FdSeq) \in Nat /\ Len(FdSeq) = Cardinality(AllFd)
    /\ \A k \in 1 .. Len(FdSeq) : FdSeq[k] \in AllFd
    /\ \A f \in AllFd : \E k \in 1 .. Len(FdSeq) : FdSeq[k] = f
  <1>1. PICK c \in Nat : c = Cardinality(AllFd)
    BY FdsAreFinite
  <1>2. \E g \in [1 .. c -> AllFd] : IsInjective(g)
    <2>1. PICK g : g \in Bijection(1 .. c, AllFd)
      BY <1>1, FdsAreFinite, FS_CardinalityType DEF ExistsBijection
    <2>2. QED
      BY <2>1 DEF Bijection, Injection, IsInjective
  <1>3. FdSeq \in [1 .. c -> AllFd] /\ IsInjective(FdSeq)
    BY <1>1, <1>2 DEF FdSeq, SetToSeq
  <1>4. Len(FdSeq) = c
    BY <1>3
  <1>5. FdSeq \in Injection(1 .. c, AllFd)
    BY <1>3 DEF Injection, IsInjective
  <1>6. Cardinality(1 .. c) = c
    BY <1>1, FS_Interval
  <1>7. FdSeq \in Surjection(1 .. c, AllFd)
    BY <1>1, <1>5, <1>6, FdsAreFinite, FS_Injection
  <1>8. QED
    BY <1>1, <1>3, <1>4, <1>7 DEF Surjection

-----------------------------------------------------------------------------
(* The descriptors with something to serve.  In the loop over descriptors  *)
(* those before i have none.                                               *)
ToServe == revents \cap watched

LoopType ==
    /\ watched \subseteq AllFd /\ revents \subseteq AllFd /\ fresh \subseteq AllFd
    /\ n \in Int /\ i \in Nat \ {0}
    /\ event \in AllFd \cup {"start", "timeout", "none"}
    /\ pc # Busy <=> event = "none"

InFds == pc = "fds" \/ event \in AllFd

FdInv ==
    /\ LoopType
    /\ revents \cap fresh = {} /\ owed \subseteq revents \cup fresh
    /\ revents = {} \/ Cardinality(ToServe) <= n
    /\ pc \in {"step", "poll", "stopped"} \/ event = "start" => revents = {}
    /\ InFds => \A k \in 1 .. Len(FdSeq) : k < i => FdSeq[k] \notin ToServe

LEMMA FdStart == EvInit => FdInv
  BY EvAssumption DEF EvInit, FdInv, LoopType, InFds, ToServe, AllFd, Busy

(* The functions that a callback calls.                                    *)
LEMMA FdCalling ==
    ASSUME FdInv, Calling
    PROVE  FdInv'
  <1>1. /\ calls' = calls - 1 /\ pc = Busy /\ UNCHANGED <<n, tv, i, sigpipe, pc, event>>
    BY DEF Calling, EvTimer, EvTimerCancel, EvAdd, EvDel, EvBreak, Call, loopVars
  <1>2. /\ watched' \subseteq AllFd /\ revents' \subseteq AllFd /\ fresh' \subseteq AllFd
        /\ revents' \cap fresh' = {} /\ revents' \subseteq revents /\ ToServe' \subseteq ToServe
        /\ owed' \subseteq revents' \cup fresh'
    BY DEF Calling, EvTimer, EvTimerCancel, EvAdd, EvDel, EvBreak, Call, fdVars, FdInv,
           LoopType, ToServe, AllFd
  <1>3. revents' = {} \/ Cardinality(ToServe') <= n'
    <2>1. IsFiniteSet(ToServe) /\ ToServe' \in SUBSET ToServe
      BY <1>2, FdsAreFinite, FS_Subset DEF ToServe, FdInv, LoopType
    <2>2. /\ Cardinality(ToServe') <= Cardinality(ToServe) /\ IsFiniteSet(ToServe')
      BY <2>1, FS_Subset
    <2>3. Cardinality(ToServe') \in Nat /\ Cardinality(ToServe) \in Nat
      BY <2>1, <2>2, FS_CardinalityType
    <2>4. n' = n /\ n \in Int /\ (revents = {} \/ Cardinality(ToServe) <= n)
      BY <1>1 DEF FdInv, LoopType
    <2>5. QED
      BY <1>2, <2>2, <2>3, <2>4
  <1>4. LoopType'
    BY <1>1, <1>2 DEF FdInv, LoopType
  <1>5. InFds' => InFds
    BY <1>1 DEF InFds
  <1>6. QED
    BY <1>1, <1>2, <1>3, <1>4, <1>5 DEF FdInv

(* Steps that leave the table of descriptors alone.                        *)
LEMMA FdKept ==
    ASSUME FdInv, UNCHANGED <<watched, revents, fresh, owed, n>>, LoopType',
           pc' \in {"step", "poll", "stopped"} \/ event' = "start" => revents = {},
           InFds' => \A k \in 1 .. Len(FdSeq) : k < i' => FdSeq[k] \notin ToServe
    PROVE  FdInv'
  BY DEF FdInv, ToServe

LEMMA FdReturn ==
    ASSUME FdInv, Return
    PROVE  FdInv'
  <1>1. /\ UNCHANGED <<watched, revents, fresh, owed, n, i>> /\ event' = "none" /\ pc = Busy
        /\ pc' = IF event = "start" THEN "step" ELSE IF event = "timeout" THEN "timers" ELSE "fds"
    BY DEF Return, fdVars, loopVars
  <1>2. LoopType'
    BY <1>1 DEF FdInv, LoopType, Busy
  <1>3. "none" \notin AllFd
    BY EvAssumption DEF AllFd
  <1>4. InFds' => InFds
    BY <1>1, <1>3 DEF InFds, FdInv, LoopType
  <1>5. QED
    BY <1>1, <1>2, <1>4, FdKept DEF FdInv

LEMMA FdPoll ==
    ASSUME FdInv, Poll \/ Interrupted
    PROVE  FdInv'
  <1>1. /\ i' = 1 /\ fresh' = {} /\ pc' = "timers" /\ pc = "poll"
        /\ UNCHANGED <<watched, event>>
    BY DEF Poll, Interrupted, PollReturned
  <1>0. owed' = revents'
    BY DEF Poll, Interrupted, Polled
  <1>2. \/ revents' = {} /\ n' \in {0, -1}
        \/ revents' \subseteq AllFd /\ n' = Cardinality(revents')
    <2>1. Ready \subseteq AllFd /\ watched \subseteq AllFd
      BY DEF Ready, AllFd, FdInv, LoopType
    <2>2. CASE Poll
      BY <2>1, <2>2 DEF Poll, Polled
    <2>3. CASE Interrupted
      BY <2>3 DEF Interrupted, Polled
    <2>4. QED
      BY <2>2, <2>3
  <1>3. /\ revents' \subseteq AllFd /\ n' \in Int
        /\ revents' = {} \/ Cardinality(ToServe') <= n'
    <2>1. CASE revents' = {} /\ n' \in {0, -1}
      BY <2>1
    <2>2. CASE revents' \subseteq AllFd /\ n' = Cardinality(revents')
      <3>1. IsFiniteSet(revents') /\ ToServe' \in SUBSET revents'
        BY <2>2, FdsAreFinite, FS_Subset DEF ToServe
      <3>2. Cardinality(ToServe') <= Cardinality(revents') /\ Cardinality(revents') \in Nat
        BY <3>1, FS_Subset, FS_CardinalityType
      <3>3. QED
        BY <2>2, <3>2
    <2>3. QED
      BY <1>2, <2>1, <2>2
  <1>4. event = "none" /\ "none" \notin AllFd
    BY <1>1, EvAssumption DEF AllFd, FdInv, LoopType, Busy
  <1>5. LoopType'
    BY <1>1, <1>3, <1>4 DEF FdInv, LoopType, Busy
  <1>6. QED
    BY <1>0, <1>1, <1>3, <1>4, <1>5 DEF FdInv, InFds

LEMMA FdServe ==
    ASSUME FdInv, Serve
    PROVE  FdInv'
  <1>1. /\ FdSeq[i] \in ToServe /\ i' = i + 1 /\ n' = n - 1
        /\ revents' = revents \ {FdSeq[i]} /\ owed' = owed \ {FdSeq[i]}
        /\ UNCHANGED <<watched, fresh>>
        /\ pc' = Busy /\ event' = FdSeq[i] /\ pc = "fds" /\ n > 0
    BY DEF Serve, Serving, Callback, ToServe
  <1>2. ToServe' = ToServe \ {FdSeq[i]}
    BY <1>1 DEF ToServe
  <1>3. IsFiniteSet(ToServe) /\ Cardinality(ToServe) \in Nat
    <2>1. ToServe \in SUBSET AllFd
      BY DEF ToServe, FdInv, LoopType
    <2>2. IsFiniteSet(ToServe)
      BY <2>1, FdsAreFinite, FS_Subset
    <2>3. QED
      BY <2>2, FS_CardinalityType
  <1>4. Cardinality(ToServe') = Cardinality(ToServe) - 1
    BY <1>1, <1>2, <1>3, FS_RemoveElement
  <1>5. Cardinality(ToServe') <= n' /\ n' \in Int
    <2>1. n \in Int /\ Cardinality(ToServe) <= n
      BY <1>1 DEF FdInv, LoopType, ToServe
    <2>2. QED
      BY <1>1, <1>3, <1>4, <2>1
  <1>6. FdSeq[i] \in AllFd /\ FdSeq[i] \notin {"start", "timeout", "none"}
    BY <1>1, EvAssumption DEF ToServe, FdInv, LoopType, AllFd
  <1>7. LoopType'
    <2>1. i' \in Nat \ {0}
      BY <1>1 DEF FdInv, LoopType
    <2>2. QED
      BY <1>1, <1>5, <1>6, <2>1 DEF FdInv, LoopType
  <1>8. \A k \in 1 .. Len(FdSeq) : k < i' => FdSeq[k] \notin ToServe'
    <2>1. \A k \in 1 .. Len(FdSeq) : k < i' => k < i \/ k = i
      BY <1>1, FdSeqIsAll DEF FdInv, LoopType
    <2>2. \A k \in 1 .. Len(FdSeq) : k < i => FdSeq[k] \notin ToServe
      BY <1>1 DEF FdInv, InFds
    <2>3. QED
      BY <1>2, <2>1, <2>2
  <1>9. QED
    BY <1>1, <1>5, <1>6, <1>7, <1>8 DEF FdInv, Busy

LEMMA FdLooping ==
    ASSUME FdInv, Looping
    PROVE  FdInv'
  <1>t. i + 1 \in Nat \ {0} /\ n \in Int
    BY DEF FdInv, LoopType
  <1>m. "none" \notin AllFd /\ "timeout" \notin AllFd /\ (pc # Busy => event = "none")
    BY EvAssumption DEF AllFd, FdInv, LoopType
  <1>1. CASE Step
    <2>1. UNCHANGED <<watched, revents, fresh, owed, n, i, event>> /\ pc = "step"
          /\ pc' \in {"stopped", "poll"}
      BY <1>1 DEF Step, fdVars, loopVars
    <2>2. LoopType' /\ ~InFds' /\ revents = {}
      BY <2>1, <1>m DEF FdInv, LoopType, InFds, Busy
    <2>3. QED
      BY <2>1, <2>2, FdKept
  <1>2. CASE Poll \/ Interrupted
    BY <1>2, FdPoll
  <1>3. CASE Expire
    <2>1. UNCHANGED <<watched, revents, fresh, owed, n, i>> /\ pc' = Busy /\ event' = "timeout"
      BY <1>3 DEF Expire, fdVars, loopVars, Callback
    <2>2. LoopType' /\ ~InFds'
      BY <2>1, <1>m DEF FdInv, LoopType, InFds, Busy
    <2>3. QED
      BY <2>1, <2>2, FdKept DEF Busy
  <1>4. CASE CountDown
    <2>1. UNCHANGED <<watched, revents, fresh, owed, n, event, pc>> /\ pc = "timers" /\ i' = i + 1
      BY <1>4 DEF CountDown, fdVars
    <2>2. LoopType' /\ ~InFds'
      BY <2>1, <1>m, <1>t DEF FdInv, LoopType, InFds, Busy
    <2>3. QED
      BY <2>1, <2>2, <1>m, FdKept DEF Busy
  <1>5. CASE TimersDone
    <2>1. UNCHANGED <<watched, revents, fresh, owed, n, event>> /\ i' = 1
          /\ pc = "timers" /\ pc' = "fds"
      BY <1>5 DEF TimersDone, fdVars
    <2>2. LoopType'
      BY <2>1, <1>m DEF FdInv, LoopType, Busy
    <2>3. \A k \in 1 .. Len(FdSeq) : ~(k < i')
      BY <2>1, FdSeqIsAll
    <2>4. QED
      BY <2>1, <2>2, <2>3, <1>m, FdKept DEF Busy
  <1>6. CASE Skip
    <2>1. /\ UNCHANGED <<watched, revents, fresh, owed, n, event, pc>> /\ pc = "fds" /\ i' = i + 1
          /\ FdSeq[i] \notin ToServe
      BY <1>6 DEF Skip, Serving, fdVars, ToServe
    <2>2. LoopType'
      BY <2>1, <1>t DEF FdInv, LoopType
    <2>3. \A k \in 1 .. Len(FdSeq) : k < i' => k < i \/ k = i
      BY <2>1, FdSeqIsAll DEF FdInv, LoopType
    <2>4. \A k \in 1 .. Len(FdSeq) : k < i' => FdSeq[k] \notin ToServe
      BY <2>1, <2>3 DEF FdInv, InFds
    <2>5. QED
      BY <2>1, <2>2, <2>4, <1>m, FdKept DEF Busy
  <1>7. CASE Serve
    BY <1>7, FdServe
  <1>8. CASE FdsDone
    <2>1. /\ pc = "fds" /\ pc' = "step" /\ revents' = {} /\ fresh' = {} /\ owed' = {}
          /\ n' = 0 /\ i' = 1
          /\ UNCHANGED <<watched, event>>
      BY <1>8 DEF FdsDone
    <2>2. LoopType' /\ ~InFds'
      BY <2>1, <1>m DEF FdInv, LoopType, InFds, Busy
    <2>3. QED
      BY <2>1, <2>2 DEF FdInv
  <1>9. QED
    BY <1>1, <1>2, <1>3, <1>4, <1>5, <1>6, <1>7, <1>8 DEF Looping

LEMMA FdStep ==
    ASSUME FdInv, [EvNext]_vars
    PROVE  FdInv'
  <1>1. CASE Calling
    BY <1>1, FdCalling
  <1>2. CASE Return
    BY <1>2, FdReturn
  <1>3. CASE Looping
    BY <1>3, FdLooping
  <1>4. CASE Signal \/ UNCHANGED vars
    <2>1. UNCHANGED <<watched, revents, fresh, owed, n, i, event, pc>>
      BY <1>4 DEF Signal, vars, fdVars, loopVars
    <2>2. QED
      BY <2>1 DEF FdInv, LoopType, ToServe, InFds
  <1>5. QED
    BY <1>1, <1>2, <1>3, <1>4 DEF EvNext

LEMMA FdInvariance == EvSpec => []FdInv
  BY FdStart, FdStep, PTL DEF EvSpec

(* A callback is made for what poll() said of a registration that was      *)
(* there when it was called, whatever has been deleted and added since     *)
(* (ev_add() resets revents).                                              *)
THEOREM EventsAreFresh == EvSpec => NoStaleEvent
  <1>1. FdInv /\ [EvNext]_vars => [\A f \in AllFd : event' = f /\ event # f => f \notin fresh]_vars
    <2> SUFFICES ASSUME FdInv, EvNext, NEW f \in AllFd, event' = f, event # f
                 PROVE  f \notin fresh
      OBVIOUS
    <2>1. f \notin {"start", "timeout", "none"}
      BY EvAssumption DEF AllFd
    <2>2. Serve
      BY <2>1 DEF EvNext, Calling, Call, EvTimer, EvTimerCancel, EvAdd, EvDel, EvBreak, Return,
                  Looping, Step, Poll, Interrupted, PollReturned, Expire, CountDown, TimersDone,
                  Skip, FdsDone, Signal, Callback
    <2>3. QED
      BY <2>2 DEF Serve, Callback, FdInv
  <1>2. QED
    BY <1>1, FdInvariance, PTL DEF EvSpec, NoStaleEvent

(* When ev_step() is done with the descriptors, a callback was made for    *)
(* each of those that poll() returned, except for those that an earlier    *)
(* callback of the same turn deleted or gave to ev_add() again (which sets *)
(* revents to 0, ev.c:159): no other is passed over, as the count that     *)
(* poll() returned outlives the deletions.                                 *)
THEOREM AllAreServed == EvSpec => AllServed
  <1>1. FdInv /\ [EvNext]_vars =>
            [pc = "fds" /\ pc' = "step" /\ ~stop => PassedOver \subseteq fresh]_vars
    <2> SUFFICES ASSUME FdInv, EvNext, pc = "fds", pc' = "step", ~stop
                 PROVE  ToServe = {}
      BY DEF ToServe, PassedOver, FdInv
    <2>1. FdsDone
      BY DEF EvNext, Calling, Call, EvTimer, EvTimerCancel, EvAdd, EvDel, EvBreak, Return, Busy,
             Looping, Step, Poll, Interrupted, PollReturned, Expire, CountDown, TimersDone,
             Skip, Serve, Serving, Callback, Signal
    <2>2. n <= 0 \/ i > Len(FdSeq)
      BY <2>1 DEF FdsDone
    <2>3. CASE n <= 0
      <3>1. ToServe \in SUBSET AllFd /\ n \in Int
        BY DEF ToServe, FdInv, LoopType
      <3>2. IsFiniteSet(ToServe)
        BY <3>1, FdsAreFinite, FS_Subset
      <3>3. Cardinality(ToServe) \in Nat
        BY <3>2, FS_CardinalityType
      <3>4. revents = {} \/ Cardinality(ToServe) = 0
        BY <2>3, <3>1, <3>3 DEF FdInv
      <3>5. QED
        BY <3>2, <3>4, FS_EmptySet DEF ToServe
    <2>4. CASE i > Len(FdSeq)
      <3>1. \A k \in 1 .. Len(FdSeq) : FdSeq[k] \notin ToServe
        BY <2>4, FdSeqIsAll DEF FdInv, LoopType, InFds
      <3>2. ToServe \subseteq AllFd
        BY DEF ToServe, FdInv, LoopType
      <3>3. QED
        BY <3>1, <3>2, FdSeqIsAll
    <2>5. QED
      BY <2>2, <2>3, <2>4
  <1>2. QED
    BY <1>1, FdInvariance, PTL DEF EvSpec, AllServed

-----------------------------------------------------------------------------
(* Induction over a set of natural numbers.  Were x the number that is     *)
(* missing, then k + 1 would be in it, and not be 0, for each k up to x:   *)
(* a set of numbers that fits in itself without 0.                         *)
LEMMA Induct ==
    ASSUME NEW S, 0 \in S, \A m \in Nat : m \in S => m + 1 \in S
    PROVE  Nat \subseteq S
  <1> SUFFICES ASSUME NEW x \in Nat, x \notin S
               PROVE  FALSE
    OBVIOUS
  <1> DEFINE I == S \cap (0 .. x)
  <1>1. IsFiniteSet(I)
    <2>1. IsFiniteSet(0 .. x)
      BY FS_Interval
    <2>2. S \cap (0 .. x) \in SUBSET (0 .. x)
      OBVIOUS
    <2>3. QED
      BY <2>1, <2>2, FS_Subset
  <1>2. 0 \in I
    OBVIOUS
  <1>3. /\ IsFiniteSet(I \ {0}) /\ Cardinality(I \ {0}) = Cardinality(I) - 1
        /\ Cardinality(I) \in Nat
    BY <1>1, <1>2, FS_RemoveElement, FS_CardinalityType
  <1> DEFINE f == [m \in I |-> m + 1]
  <1>4. f \in [I -> I \ {0}]
    <2>1. ASSUME NEW m \in I PROVE m + 1 \in I \ {0}
      OBVIOUS
    <2>2. QED
      BY <2>1
  <1>5. \E k, m \in I : k # m /\ f[k] = f[m]
    <2> HIDE DEF f, I
    <2>1. Cardinality(I \ {0}) < Cardinality(I)
      BY <1>3
    <2>2. QED
      BY <1>1, <1>3, <1>4, <2>1, FS_PigeonHole
  <1>6. \A k, m \in I : k \in Int /\ m \in Int /\ (k # m => k + 1 # m + 1)
    OBVIOUS
  <1>7. QED
    BY <1>5, <1>6

(* A loop of any number of turns, the k-th of which is step[k].            *)
IsLoop(g, S, x, m, step) ==
    /\ g \in [0 .. m -> S] /\ g[0] = x
    /\ \A k \in 1 .. m : g[k] = step[k][g[k - 1]]

LEMMA Loops ==
    ASSUME NEW S, NEW x \in S, NEW m \in Nat, NEW step \in [1 .. m -> [S -> S]]
    PROVE  \E g : IsLoop(g, S, x, m, step)
  <1> USE DEF IsLoop
  <1> DEFINE Upto(c, g) == IsLoop(g, S, x, c, step)
             Q == {c \in Nat : c <= m => \E g : Upto(c, g)}
  <1>1. 0 \in Q
    <2>1. Upto(0, [k \in 0 .. 0 |-> x])
      OBVIOUS
    <2>2. QED
      BY <2>1
  <1>2. ASSUME NEW c \in Nat, c \in Q
        PROVE  c + 1 \in Q
    <2> SUFFICES ASSUME c + 1 <= m
                 PROVE  \E g : Upto(c + 1, g)
      OBVIOUS
    <2>1. PICK g : Upto(c, g)
      BY <1>2
    <2> DEFINE y == step[c + 1][g[c]]
               h == [k \in 0 .. c + 1 |-> IF k = c + 1 THEN y ELSE g[k]]
    <2>2. y \in S
      <3>1. c \in 0 .. c /\ c + 1 \in 1 .. m
        OBVIOUS
      <3>2. g[c] \in S /\ step[c + 1] \in [S -> S]
        BY <2>1, <3>1
      <3>3. QED
        BY <3>2
    <2>3. h \in [0 .. c + 1 -> S]
      <3>1. \A k \in 0 .. c + 1 : k = c + 1 \/ k \in 0 .. c
        OBVIOUS
      <3>2. QED
        BY <2>1, <2>2, <3>1
    <2>4. h[0] = x
      BY <2>1
    <2>5. ASSUME NEW k \in 1 .. c + 1
          PROVE  h[k] = step[k][h[k - 1]]
      <3>1. k - 1 \in 0 .. c /\ k - 1 # c + 1 /\ k \in 0 .. c + 1
        OBVIOUS
      <3>2. h[k - 1] = g[k - 1]
        BY <3>1
      <3>3. CASE k = c + 1
        <4>1. k - 1 = c /\ h[k] = y
          BY <3>3
        <4>2. QED
          BY <3>2, <3>3, <4>1
      <3>4. CASE k # c + 1
        <4>1. k \in 1 .. c /\ h[k] = g[k]
          BY <3>1, <3>4
        <4>2. QED
          BY <2>1, <3>2, <4>1
      <3>5. QED
        BY <3>3, <3>4
    <2>6. Upto(c + 1, h)
      BY <2>3, <2>4, <2>5
    <2>7. QED
      BY <2>6
  <1>3. m \in Q
    <2> HIDE DEF Q
    <2>1. Nat \subseteq Q
      BY <1>1, <1>2, Induct
    <2>2. QED
      BY <2>1
  <1>4. QED
    BY <1>3

-----------------------------------------------------------------------------
(* What bubbledown() does to the array: it moves each timer towards the    *)
(* front, if at all, but for the one it was called for.                    *)
Perm(c) == {p \in [1 .. c -> 1 .. c] : /\ \A a, b \in 1 .. c : p[a] = p[b] => a = b
                                       /\ \A b \in 1 .. c : \E a \in 1 .. c : p[a] = b}

MovesUp(p, g, h, j) == \A k \in 1 .. Len(h) : g[k] = h[p[k]] /\ (p[k] >= k \/ p[k] = j)

OnItsWay(h, j) ==
    {d \in [heap : [1 .. Len(h) -> Timer], at : 1 .. Len(h)] :
        \E p \in Perm(Len(h)) : p[d.at] = j /\ MovesUp(p, d.heap, h, j)}

LEMMA TurnMoves ==
    ASSUME NEW h \in Seq(Timer), NEW j \in 1 .. Len(h), NEW d \in OnItsWay(h, j)
    PROVE  Turn(d) \in OnItsWay(h, j)
  <1>1. PICK c \in Nat : c = Len(h)
    BY LenProperties
  <1>2. PICK p \in Perm(c) : p[d.at] = j /\ MovesUp(p, d.heap, h, j)
    BY <1>1 DEF OnItsWay
  <1>3. d \in [heap : [1 .. c -> Timer], at : 1 .. c]
    BY <1>1 DEF OnItsWay
  <1>4. PICK a \in 1 .. c : a = d.at
    BY <1>3
  <1>5. PICK g \in [1 .. c -> Timer] : g = d.heap
    BY <1>3
  <1> SUFFICES ASSUME ~InPlace(g, a)
               PROVE  Turn(d) \in OnItsWay(h, j)
    BY <1>4, <1>5 DEF Turn
  <1>6. PICK b \in 1 .. c : b = Child(g, a) /\ b > a
    <2>1. Len(g) = c
      BY <1>1
    <2>2. 2 * a \in 1 .. c /\ 2 * a > a /\ 2 * a + 1 > a
      BY <2>1 DEF InPlace
    <2>3. CASE 2 * a + 1 > Len(g) \/ g[2 * a].tv < g[2 * a + 1].tv
      <3>1. Child(g, a) = 2 * a
        BY <2>3 DEF Child
      <3>2. QED
        BY <2>2, <3>1
    <2>4. CASE ~(2 * a + 1 > Len(g) \/ g[2 * a].tv < g[2 * a + 1].tv)
      <3>1. Child(g, a) = 2 * a + 1 /\ ~(2 * a + 1 > c)
        BY <2>1, <2>4 DEF Child
      <3>2. 2 * a + 1 \in 1 .. c
        BY <2>2, <3>1
      <3>3. QED
        BY <2>2, <3>1, <3>2
    <2>5. QED
      BY <2>3, <2>4
  <1> DEFINE e == [g EXCEPT ![a] = g[b], ![b] = g[a]]
             q == [p EXCEPT ![a] = p[b], ![b] = p[a]]
  <1>7. Turn(d) = [heap |-> e, at |-> b]
    <2>1. Swap(g, a, b) = e
      BY DEF Swap
    <2> HIDE DEF e
    <2>2. ~InPlace(d.heap, d.at) /\ Child(d.heap, d.at) = b /\ Swap(d.heap, d.at, b) = e
      BY <1>4, <1>5, <1>6, <2>1
    <2>3. QED
      BY <2>2 DEF Turn
  <1>8. p \in [1 .. c -> 1 .. c] /\ a # b
    <2> HIDE DEF e, q
    <2>1. p \in [1 .. c -> 1 .. c]
      BY DEF Perm
    <2>2. a # b
      BY <1>6
    <2>3. QED
      BY <2>1, <2>2
  <1>9. /\ q \in [1 .. c -> 1 .. c] /\ q[a] = p[b] /\ q[b] = p[a]
        /\ \A k \in 1 .. c : k # a /\ k # b => q[k] = p[k]
    BY <1>8
  <1>10. /\ e \in [1 .. c -> Timer] /\ e[a] = g[b] /\ e[b] = g[a]
         /\ \A k \in 1 .. c : k # a /\ k # b => e[k] = g[k]
    BY <1>8
  <1> HIDE DEF e, q
  <1>11. q \in Perm(c)
    <2>1. ASSUME NEW k \in 1 .. c, NEW m \in 1 .. c, q[k] = q[m]
          PROVE  k = m
      <3>1. \A x, y \in 1 .. c : p[x] = p[y] => x = y
        BY <1>2 DEF Perm
      <3>2. QED
        BY <1>9, <2>1, <3>1
    <2>2. ASSUME NEW m \in 1 .. c
          PROVE  \E k \in 1 .. c : q[k] = m
      <3>1. PICK x \in 1 .. c : p[x] = m
        BY <1>2 DEF Perm
      <3>2. QED
        BY <1>9, <3>1
    <2>3. QED
      BY <1>9, <2>1, <2>2 DEF Perm
  <1>12. MovesUp(q, e, h, j)
    <2>1. \A k \in 1 .. c : g[k] = h[p[k]] /\ (p[k] >= k \/ p[k] = j)
      BY <1>1, <1>2, <1>5 DEF MovesUp
    <2>2. p[a] = j /\ p[b] >= b
      <3>1. p[a] = j /\ p[b] # p[a]
        BY <1>2, <1>4, <1>8 DEF Perm
      <3>2. QED
        BY <2>1, <3>1
    <2>3. p[b] >= a
      BY <1>6, <1>8, <2>2
    <2>4. QED
      BY <1>1, <1>9, <1>10, <2>1, <2>2, <2>3 DEF MovesUp
  <1>13. q[b] = j
    BY <1>2, <1>4, <1>9
  <1>14. [heap |-> e, at |-> b].heap = e /\ [heap |-> e, at |-> b].at = b
         /\ [heap |-> e, at |-> b] \in [heap : [1 .. c -> Timer], at : 1 .. c]
    BY <1>10
  <1>15. QED
    BY <1>1, <1>7, <1>11, <1>12, <1>13, <1>14 DEF OnItsWay

LEMMA BubbleDownMoves ==
    ASSUME NEW h \in Seq(Timer), NEW j \in 1 .. Len(h)
    PROVE  /\ BubbleDown(h, j) \in Seq(Timer) /\ Len(BubbleDown(h, j)) = Len(h)
           /\ \E p \in Perm(Len(h)) : MovesUp(p, BubbleDown(h, j), h, j)
  <1>1. PICK c \in Nat : c = Len(h)
    BY LenProperties
  <1> DEFINE S == OnItsWay(h, j)
             x == [heap |-> h, at |-> j]
             step == [k \in 1 .. c |-> [d \in S |-> Turn(d)]]
             after == CHOOSE g : g = [k \in 0 .. c |-> IF k = 0 THEN x ELSE Turn(g[k - 1])]
  <1>2. x \in S
    <2> DEFINE id == [k \in 1 .. c |-> k]
    <2>1. id \in Perm(c) /\ id[j] = j
      BY <1>1 DEF Perm
    <2>2. MovesUp(id, h, h, j)
      BY <1>1 DEF MovesUp
    <2>3. x \in [heap : [1 .. c -> Timer], at : 1 .. c] /\ x.heap = h /\ x.at = j
      BY <1>1
    <2> HIDE DEF id, x
    <2>4. QED
      BY <1>1, <2>1, <2>2, <2>3 DEF OnItsWay
  <1>3. step \in [1 .. c -> [S -> S]]
    BY TurnMoves
  <1>4. PICK g : IsLoop(g, S, x, c, step)
    <2> HIDE DEF S, x, step
    <2>1. QED
      BY <1>2, <1>3, Loops
  <1>5. g = [k \in 0 .. c |-> IF k = 0 THEN x ELSE Turn(g[k - 1])]
    <2>1. ASSUME NEW k \in 0 .. c
          PROVE  g[k] = IF k = 0 THEN x ELSE Turn(g[k - 1])
      <3>1. CASE k = 0
        BY <1>4, <3>1 DEF IsLoop
      <3>2. CASE k # 0
        <4>1. k \in 1 .. c /\ k - 1 \in 0 .. c
          BY <3>2
        <4>2. g[k - 1] \in S /\ g[k] = step[k][g[k - 1]]
          BY <1>4, <4>1 DEF IsLoop
        <4>3. step[k][g[k - 1]] = Turn(g[k - 1])
          BY <4>1, <4>2
        <4>4. QED
          BY <3>2, <4>2, <4>3
      <3>3. QED
        BY <3>1, <3>2
    <2> HIDE DEF S, x
    <2>2. QED
      BY <1>4, <2>1 DEF IsLoop
  <1>6. after = [k \in 0 .. c |-> IF k = 0 THEN x ELSE Turn(after[k - 1])]
    <2> HIDE DEF x
    <2>1. QED
      BY <1>5
  <1>7. BubbleDown(h, j) = after[c].heap
    BY <1>1 DEF BubbleDown
  <1>8. after[c] \in S
    <2> DEFINE Q == {k \in Nat : k <= c => after[k] \in S}
    <2> HIDE DEF S, after, x
    <2>1. 0 \in Q
      BY <1>2, <1>6
    <2>2. ASSUME NEW k \in Nat, k \in Q
          PROVE  k + 1 \in Q
      <3> SUFFICES ASSUME k + 1 <= c
                   PROVE  after[k + 1] \in S
        OBVIOUS
      <3>1. k \in 0 .. c /\ k + 1 \in 0 .. c /\ k + 1 # 0 /\ k + 1 - 1 = k
        OBVIOUS
      <3>2. after[k] \in S
        BY <2>2, <3>1
      <3>3. after[k + 1] = Turn(after[k])
        BY <1>6, <3>1
      <3>4. QED
        BY <3>2, <3>3, TurnMoves DEF S
    <2>3. Nat \subseteq Q
      <3> HIDE DEF Q
      <3>1. QED
        BY <2>1, <2>2, Induct
    <2>4. QED
      BY <2>3
  <1>9. PICK e : e = after[c]
    OBVIOUS
  <1>10. /\ e \in [heap : [1 .. c -> Timer], at : 1 .. c]
         /\ \E p \in Perm(c) : MovesUp(p, e.heap, h, j)
    BY <1>1, <1>8, <1>9 DEF OnItsWay
  <1>11. e.heap \in Seq(Timer) /\ Len(e.heap) = c
    BY <1>10
  <1> HIDE DEF after
  <1>12. QED
    BY <1>1, <1>7, <1>9, <1>10, <1>11

-----------------------------------------------------------------------------
(* A timer taken out of the array: s says where each that is left was,     *)
(* which is not in front of where it is.                                   *)
Leaves(s, g, h, j) ==
    /\ g \in Seq(Timer) /\ Len(g) = Len(h) - 1
    /\ s \in [1 .. Len(h) - 1 -> 1 .. Len(h)]
    /\ \A k \in 1 .. Len(h) - 1 : s[k] # j /\ s[k] >= k /\ g[k] = h[s[k]]
    /\ \A k, m \in 1 .. Len(h) - 1 : s[k] = s[m] => k = m
    /\ \A m \in 1 .. Len(h) : m # j => \E k \in 1 .. Len(h) - 1 : s[k] = m

(* The last timer in the place of the j-th.                                *)
Filled(h, j) == [k \in 1 .. Len(h) - 1 |-> IF k = j THEN h[Len(h)] ELSE h[k]]
Source(h, j) == [k \in 1 .. Len(h) - 1 |-> IF k = j THEN Len(h) ELSE k]

LEMMA FilledLeaves ==
    ASSUME NEW h \in Seq(Timer), NEW j \in 1 .. Len(h)
    PROVE  Leaves(Source(h, j), Filled(h, j), h, j)
  <1>1. PICK c \in Nat : c = Len(h)
    BY LenProperties
  <1>2. h \in [1 .. c -> Timer]
    BY <1>1, LenProperties
  <1>3. Filled(h, j) \in [1 .. c - 1 -> Timer]
    BY <1>1, <1>2 DEF Filled
  <1>4. c - 1 \in Nat
    BY <1>1
  <1>5. Filled(h, j) \in Seq(Timer) /\ Len(Filled(h, j)) = c - 1
    BY <1>3, <1>4
  <1>6. \A k \in 1 .. c - 1 : /\ Source(h, j)[k] = IF k = j THEN c ELSE k
                              /\ Filled(h, j)[k] = IF k = j THEN h[c] ELSE h[k]
    BY <1>1 DEF Source, Filled
  <1>7. Source(h, j) \in [1 .. c - 1 -> 1 .. c]
    BY <1>1 DEF Source
  <1>8. \A m \in 1 .. c : m # j => \E k \in 1 .. c - 1 : Source(h, j)[k] = m
    <2>1. TAKE m \in 1 .. c
    <2>2. HAVE m # j
    <2>3. CASE m = c
      <3>1. j \in 1 .. c - 1
        BY <1>1, <2>2, <2>3
      <3>2. QED
        BY <1>6, <2>3, <3>1
    <2>4. CASE m # c
      <3>1. m \in 1 .. c - 1
        BY <2>4
      <3>2. QED
        BY <1>6, <2>2, <3>1
    <2>5. QED
      BY <2>3, <2>4
  <1>9. ASSUME NEW k \in 1 .. c - 1
        PROVE  /\ Source(h, j)[k] # j /\ Source(h, j)[k] >= k
               /\ Filled(h, j)[k] = h[Source(h, j)[k]]
    BY <1>1, <1>6
  <1>10. ASSUME NEW k \in 1 .. c - 1, NEW m \in 1 .. c - 1, Source(h, j)[k] = Source(h, j)[m]
         PROVE  k = m
    BY <1>6, <1>10
  <1>11. PICK f : f = Filled(h, j)
    OBVIOUS
  <1>12. PICK s : s = Source(h, j)
    OBVIOUS
  <1>13. Leaves(s, f, h, j)
    BY <1>1, <1>5, <1>7, <1>8, <1>9, <1>10, <1>11, <1>12 DEF Leaves
  <1>14. QED
    BY <1>11, <1>12, <1>13

LEMMA FrontIsFilled ==
    ASSUME NEW h \in Seq(Timer), NEW j \in 1 .. Len(h)
    PROVE  /\ Front([h EXCEPT ![j] = Last(h)]) = Filled(h, j)
           /\ j = Len(h) => Front(h) = Filled(h, j)
           /\ j # Len(h) => [Front(h) EXCEPT ![j] = Last(h)] = Filled(h, j)
  <1>1. PICK c \in Nat : c = Len(h)
    BY LenProperties
  <1>2. h \in [1 .. c -> Timer] /\ h[c] \in Timer
    BY <1>1, LenProperties
  <1>3. Filled(h, j) \in [1 .. c - 1 -> Timer] /\ c - 1 \in Nat
    BY <1>1, <1>2 DEF Filled
  <1>4. Filled(h, j) \in Seq(Timer) /\ Len(Filled(h, j)) = c - 1
    BY <1>3
  <1>5. ASSUME NEW g \in Seq(Timer), Len(g) = c
        PROVE  /\ Front(g) \in Seq(Timer) /\ Len(Front(g)) = c - 1
               /\ \A k \in 1 .. c - 1 : Front(g)[k] = g[k]
    <2>1. \A k \in 1 .. c - 1 : g[k] \in Timer
      BY <1>5, LenProperties
    <2>2. 1 \in Int /\ c - 1 \in Int /\ (IF 1 <= c - 1 THEN c - 1 - 1 + 1 ELSE 0) = c - 1
      BY <1>1
    <2>3. /\ SubSeq(g, 1, c - 1) \in Seq(Timer)
          /\ Len(SubSeq(g, 1, c - 1)) = c - 1
          /\ \A k \in 1 .. c - 1 - 1 + 1 : SubSeq(g, 1, c - 1)[k] = g[1 + k - 1]
      BY <2>1, <2>2, SubSeqProperties
    <2>4. QED
      BY <1>5, <2>3 DEF Front
  <1>6. Front([h EXCEPT ![j] = Last(h)]) = Filled(h, j)
    <2> DEFINE g == [h EXCEPT ![j] = h[c]]
    <2>1. g \in Seq(Timer) /\ Len(g) = c /\ \A k \in 1 .. c : g[k] = IF k = j THEN h[c] ELSE h[k]
      BY <1>1, <1>2, ExceptSeq
    <2>2. g = [h EXCEPT ![j] = Last(h)]
      BY <1>1 DEF Last
    <2> HIDE DEF g
    <2>3. \A k \in 1 .. c - 1 : Front(g)[k] = Filled(h, j)[k]
      BY <1>1, <1>5, <2>1 DEF Filled
    <2>4. Front(g) \in Seq(Timer) /\ Len(Front(g)) = c - 1
      BY <1>5, <2>1
    <2>5. QED
      BY <1>4, <2>2, <2>3, <2>4, SeqEqual
  <1>7. ASSUME j = Len(h) PROVE Front(h) = Filled(h, j)
    <2>1. \A k \in 1 .. c - 1 : Front(h)[k] = Filled(h, j)[k]
      BY <1>1, <1>5, <1>7 DEF Filled
    <2>2. QED
      BY <1>1, <1>4, <1>5, <2>1, SeqEqual
  <1>8. ASSUME j # Len(h) PROVE [Front(h) EXCEPT ![j] = Last(h)] = Filled(h, j)
    <2>1. j \in 1 .. c - 1
      BY <1>1, <1>8
    <2>2. Front(h) \in [1 .. c - 1 -> Timer]
      BY <1>1, <1>5, LenProperties
    <2>3. [Front(h) EXCEPT ![j] = Last(h)] \in [1 .. c - 1 -> Timer]
      BY <1>1, <1>2, <2>1, <2>2 DEF Last
    <2>4. ASSUME NEW k \in 1 .. c - 1
          PROVE  [Front(h) EXCEPT ![j] = Last(h)][k] = Filled(h, j)[k]
      BY <1>1, <1>5, <2>2 DEF Last, Filled
    <2>5. QED
      BY <1>3, <2>3, <2>4
  <1>9. QED
    BY <1>6, <1>7, <1>8

(* cancel_timer() takes just the one timer out, and moves the others       *)
(* towards the front, if at all: those that the loop over timers has not   *)
(* counted down stay at the places it still goes to or are left out.       *)
LEMMA CancelLeaves ==
    ASSUME NEW h \in Seq(Timer), NEW j \in 1 .. Len(h)
    PROVE  \E s : Leaves(s, CancelTimer(h, j), h, j)
  <1>1. PICK c \in Nat : c = Len(h)
    BY LenProperties
  <1>2. PICK f : f = Filled(h, j)
    OBVIOUS
  <1>3. PICK r : r = Source(h, j)
    OBVIOUS
  <1>4. Leaves(r, f, h, j)
    BY <1>2, <1>3, FilledLeaves
  <1>5. CASE j = Len(h)
    BY <1>2, <1>4, <1>5, FrontIsFilled DEF CancelTimer
  <1>6. CASE j # Len(h)
    <2>1. CancelTimer(h, j) = BubbleDown(f, j)
      BY <1>2, <1>6, FrontIsFilled DEF CancelTimer
    <2>2. f \in Seq(Timer) /\ Len(f) = c - 1 /\ j \in 1 .. Len(f)
      BY <1>1, <1>4, <1>6 DEF Leaves
    <2>3. PICK g : g = BubbleDown(f, j)
      OBVIOUS
    <2>4. g \in Seq(Timer) /\ Len(g) = c - 1 /\ \E p \in Perm(c - 1) : MovesUp(p, g, f, j)
      BY <2>2, <2>3, BubbleDownMoves
    <2>5. PICK p \in Perm(c - 1) : MovesUp(p, g, f, j)
      BY <2>4
    <2>6. /\ p \in [1 .. c - 1 -> 1 .. c - 1]
          /\ \A a, b \in 1 .. c - 1 : p[a] = p[b] => a = b
          /\ \A b \in 1 .. c - 1 : \E a \in 1 .. c - 1 : p[a] = b
      BY DEF Perm
    <2>7. \A k \in 1 .. c - 1 : g[k] = f[p[k]] /\ (p[k] >= k \/ p[k] = j)
      BY <2>2, <2>5 DEF MovesUp
    <2>8. /\ r \in [1 .. c - 1 -> 1 .. c] /\ r[j] = c
          /\ \A k \in 1 .. c - 1 : r[k] # j /\ r[k] >= k /\ f[k] = h[r[k]]
          /\ \A k, m \in 1 .. c - 1 : r[k] = r[m] => k = m
          /\ \A m \in 1 .. c : m # j => \E k \in 1 .. c - 1 : r[k] = m
      <3>1. r[j] = c
        BY <1>1, <1>3, <2>2 DEF Source
      <3>2. QED
        BY <1>1, <1>4, <3>1 DEF Leaves
    <2> DEFINE s == [k \in 1 .. c - 1 |-> r[p[k]]]
    <2>9. s \in [1 .. c - 1 -> 1 .. c]
      BY <2>6, <2>8
    <2>10. ASSUME NEW k \in 1 .. c - 1
           PROVE  s[k] # j /\ s[k] >= k /\ g[k] = h[s[k]]
      <3>1. PICK b \in 1 .. c - 1 : b = p[k] /\ s[k] = r[b]
        BY <2>6
      <3>2. b >= k \/ b = j
        BY <2>7, <3>1
      <3>3. r[b] >= b /\ r[b] \in 1 .. c /\ r[b] # j
        BY <2>8
      <3>4. r[b] >= k
        BY <1>1, <2>8, <3>2, <3>3
      <3>5. QED
        BY <2>7, <2>8, <3>1, <3>3, <3>4
    <2>11. ASSUME NEW k \in 1 .. c - 1, NEW m \in 1 .. c - 1, s[k] = s[m]
           PROVE  k = m
      <3>1. p[k] \in 1 .. c - 1 /\ p[m] \in 1 .. c - 1 /\ r[p[k]] = r[p[m]]
        BY <2>6, <2>11
      <3>2. p[k] = p[m]
        BY <2>8, <3>1
      <3>3. QED
        BY <2>6, <3>2
    <2>12. ASSUME NEW m \in 1 .. c, m # j
           PROVE  \E k \in 1 .. c - 1 : s[k] = m
      <3>1. PICK b \in 1 .. c - 1 : r[b] = m
        BY <2>8, <2>12
      <3>2. PICK k \in 1 .. c - 1 : p[k] = b
        BY <2>6
      <3>3. QED
        BY <3>1, <3>2
    <2> HIDE DEF s
    <2>13. Leaves(s, g, h, j)
      BY <1>1, <2>4, <2>9, <2>10, <2>11, <2>12 DEF Leaves
    <2>14. QED
      BY <2>1, <2>3, <2>13
  <1>7. QED
    BY <1>5, <1>6

(* timerheapify() loses none of the timers, and doubles none.              *)
Shuffled(h, c) ==
    {g \in [1 .. c -> Timer] : \E p \in Perm(c) : \A k \in 1 .. c : g[k] = h[p[k]]}

LEMMA BubbleDownShuffles ==
    ASSUME NEW c \in Nat, NEW h, NEW g \in Shuffled(h, c), NEW j \in 1 .. c
    PROVE  BubbleDown(g, j) \in Shuffled(h, c)
  <1>1. g \in Seq(Timer) /\ Len(g) = c
    BY DEF Shuffled
  <1>2. PICK f : f = BubbleDown(g, j)
    OBVIOUS
  <1>3. f \in Seq(Timer) /\ Len(f) = c /\ \E q \in Perm(c) : MovesUp(q, f, g, j)
    BY <1>1, <1>2, BubbleDownMoves
  <1>4. PICK q \in Perm(c) : MovesUp(q, f, g, j)
    BY <1>3
  <1>5. PICK p \in Perm(c) : \A k \in 1 .. c : g[k] = h[p[k]]
    BY DEF Shuffled
  <1>6. /\ q \in [1 .. c -> 1 .. c] /\ p \in [1 .. c -> 1 .. c]
        /\ \A a, b \in 1 .. c : q[a] = q[b] => a = b
        /\ \A a, b \in 1 .. c : p[a] = p[b] => a = b
        /\ \A b \in 1 .. c : \E a \in 1 .. c : q[a] = b
        /\ \A b \in 1 .. c : \E a \in 1 .. c : p[a] = b
    BY DEF Perm
  <1> DEFINE s == [k \in 1 .. c |-> p[q[k]]]
  <1>7. s \in [1 .. c -> 1 .. c]
    BY <1>6
  <1>8. ASSUME NEW a \in 1 .. c, NEW b \in 1 .. c, s[a] = s[b]
        PROVE  a = b
    <2>1. q[a] \in 1 .. c /\ q[b] \in 1 .. c /\ p[q[a]] = p[q[b]]
      BY <1>6, <1>8
    <2>2. \A x, y \in 1 .. c : p[x] = p[y] => x = y
      BY <1>6
    <2>3. q[a] = q[b]
      BY <2>1, <2>2
    <2>4. QED
      BY <1>6, <2>3
  <1>9. ASSUME NEW b \in 1 .. c
        PROVE  \E a \in 1 .. c : s[a] = b
    <2>1. PICK x \in 1 .. c : p[x] = b
      BY <1>6
    <2>2. PICK a \in 1 .. c : q[a] = x
      BY <1>6
    <2>3. QED
      BY <2>1, <2>2
  <1>10. ASSUME NEW k \in 1 .. c
         PROVE  f[k] = h[s[k]]
    <2>1. f[k] = g[q[k]] /\ q[k] \in 1 .. c
      BY <1>1, <1>4, <1>6 DEF MovesUp
    <2>2. QED
      BY <1>5, <2>1
  <1> HIDE DEF s
  <1>11. s \in Perm(c)
    BY <1>7, <1>8, <1>9 DEF Perm
  <1>12. f \in [1 .. c -> Timer]
    BY <1>3, LenProperties
  <1>13. QED
    BY <1>2, <1>10, <1>11, <1>12 DEF Shuffled

LEMMA HeapifyShuffles ==
    ASSUME NEW h \in Seq(Timer), NEW r \in Seq(Timer)
    PROVE  Heapify(h, r) \in Shuffled(h \o r, Len(h \o r))
  <1>1. PICK all : all = h \o r
    OBVIOUS
  <1>2. all \in Seq(Timer)
    BY <1>1, ConcatProperties
  <1>3. PICK c \in Nat : c = Len(all)
    BY <1>2, LenProperties
  <1>4. all \in [1 .. c -> Timer]
    BY <1>2, <1>3, LenProperties
  <1> DEFINE S == Shuffled(all, c)
             half == c \div 2
             step == [k \in 1 .. half |-> [g \in S |-> BubbleDown(g, half + 1 - k)]]
             after == CHOOSE g : g = [k \in 0 .. half |->
                          IF k = 0 THEN all ELSE BubbleDown(g[k - 1], half + 1 - k)]
  <1>5. half \in Nat /\ half <= c
    OBVIOUS
  <1>6. all \in S
    <2> DEFINE id == [k \in 1 .. c |-> k]
    <2>1. id \in Perm(c)
      BY DEF Perm
    <2>2. \A k \in 1 .. c : all[k] = all[id[k]]
      OBVIOUS
    <2> HIDE DEF id
    <2>3. QED
      BY <1>4, <2>1, <2>2 DEF Shuffled
  <1>7. CASE r = <<>>
    <2>1. all = h
      BY <1>1, <1>7, ConcatEmptySeq
    <2>2. Heapify(h, r) = h
      BY <1>7 DEF Heapify
    <2>3. QED
      BY <1>1, <1>3, <1>6, <2>1, <2>2
  <1>8. CASE r # <<>>
    <2>1. ASSUME NEW k \in 1 .. half, NEW g \in S
          PROVE  BubbleDown(g, half + 1 - k) \in S
      <3>1. half + 1 - k \in 1 .. c
        BY <1>5
      <3> HIDE DEF half
      <3>2. QED
        BY <3>1, BubbleDownShuffles
    <2>2. step \in [1 .. half -> [S -> S]]
      <3> HIDE DEF half, S
      <3>1. QED
        BY <2>1
    <2>3. PICK g : IsLoop(g, S, all, half, step)
      <3> HIDE DEF S, step, half
      <3>1. QED
        BY <1>5, <1>6, <2>2, Loops
    <2>4. /\ g \in [0 .. half -> S] /\ g[0] = all
          /\ \A k \in 1 .. half : g[k] = step[k][g[k - 1]]
      BY <2>3 DEF IsLoop
    <2>5. \A k \in 1 .. half : g[k] = BubbleDown(g[k - 1], half + 1 - k)
      <3> HIDE DEF S, half
      <3>1. TAKE k \in 1 .. half
      <3>2. k - 1 \in 0 .. half
        BY <1>5
      <3>3. g[k - 1] \in S /\ g[k] = step[k][g[k - 1]]
        BY <2>4, <3>2
      <3>4. QED
        BY <3>3
    <2>6. g = [k \in 0 .. half |-> IF k = 0 THEN all ELSE BubbleDown(g[k - 1], half + 1 - k)]
      <3> HIDE DEF S, step, half
      <3>1. \A k \in 0 .. half : k = 0 \/ k \in 1 .. half
        BY <1>5
      <3>2. \A k \in 0 .. half :
                g[k] = IF k = 0 THEN all ELSE BubbleDown(g[k - 1], half + 1 - k)
        BY <2>4, <2>5, <3>1
      <3>3. QED
        BY <2>4, <3>2
    <2>7. after = [k \in 0 .. half |->
                       IF k = 0 THEN all ELSE BubbleDown(after[k - 1], half + 1 - k)]
      <3> HIDE DEF S, step, half
      <3>1. QED
        BY <2>6
    <2>8. Heapify(h, r) = after[half]
      BY <1>1, <1>3, <1>8 DEF Heapify
    <2> DEFINE Q == {k \in Nat : k <= half => after[k] \in S}
    <2> HIDE DEF S, step, half, after
    <2>9. 0 \in Q
      BY <1>5, <1>6, <2>7
    <2>10. ASSUME NEW k \in Nat, k \in Q
           PROVE  k + 1 \in Q
      <3> SUFFICES ASSUME k + 1 <= half
                   PROVE  after[k + 1] \in S
        OBVIOUS
      <3>1. k \in 0 .. half /\ k + 1 \in 1 .. half /\ k + 1 \in 0 .. half
            /\ k + 1 # 0 /\ k + 1 - 1 = k
        BY <1>5
      <3>2. after[k] \in S
        BY <2>10, <3>1
      <3>3. after[k + 1] = BubbleDown(after[k], half + 1 - (k + 1))
        BY <2>7, <3>1
      <3>4. QED
        BY <2>1, <3>1, <3>2, <3>3
    <2>11. Nat \subseteq Q
      <3> HIDE DEF Q
      <3>1. QED
        BY <2>9, <2>10, Induct
    <2>12. after[half] \in S
      BY <1>5, <2>11
    <2>13. QED
      BY <1>1, <1>3, <2>8, <2>12 DEF S
  <1>9. QED
    BY <1>7, <1>8

-----------------------------------------------------------------------------
(* The timers of an array: no id twice, and none with more time left than  *)
(* it counts.  From some place on they are still to be counted down by d.  *)
Distinct(s) == \A a, b \in 1 .. Len(s) : s[a].id = s[b].id => a = b

Good(s) == /\ s \in Seq(Timer) /\ Distinct(s)
           /\ \A k \in 1 .. Len(s) : s[k].rest <= s[k].tv

Counted(s, from, d) ==
    \A k \in 1 .. Len(s) : k >= from => s[k].rest <= Less(s[k].tv, d)

LEMMA TimerFields ==
    ASSUME NEW t \in Timer
    PROVE  t.id \in TimerId /\ t.tv \in Nat /\ t.rest \in Nat
  BY EvAssumption DEF Timer

LEMMA InToSet ==
    ASSUME NEW s \in Seq(Timer)
    PROVE  /\ Len(s) \in Nat /\ s \in [1 .. Len(s) -> Timer]
           /\ \A x : x \in ToSet(s) <=> \E k \in 1 .. Len(s) : x = s[k]
           /\ ToSet(s) \subseteq Timer
  BY LenProperties DEF ToSet

LEMMA GoodLeaves ==
    ASSUME NEW h, Good(h), NEW j \in 1 .. Len(h), NEW s, NEW g, Leaves(s, g, h, j)
    PROVE  /\ Good(g) /\ ToSet(g) = ToSet(h) \ {h[j]}
           /\ \A from, d \in Nat : Counted(h, from, d) => Counted(g, from, d)
  <1>1. PICK c \in Nat : c = Len(h)
    BY LenProperties DEF Good
  <1>2. /\ g \in Seq(Timer) /\ Len(g) = c - 1
        /\ s \in [1 .. c - 1 -> 1 .. c]
        /\ \A k \in 1 .. c - 1 : s[k] # j /\ s[k] >= k /\ g[k] = h[s[k]]
        /\ \A k, m \in 1 .. c - 1 : s[k] = s[m] => k = m
        /\ \A m \in 1 .. c : m # j => \E k \in 1 .. c - 1 : s[k] = m
    BY <1>1 DEF Leaves
  <1>3. /\ h \in Seq(Timer) /\ \A a, b \in 1 .. c : h[a].id = h[b].id => a = b
        /\ \A k \in 1 .. c : h[k].rest <= h[k].tv
    BY <1>1 DEF Good, Distinct
  <1>4. Good(g)
    <2>1. \A k \in 1 .. c - 1 : s[k] \in 1 .. c /\ g[k] = h[s[k]]
      BY <1>2
    <2>2. ASSUME NEW a \in 1 .. c - 1, NEW b \in 1 .. c - 1, g[a].id = g[b].id
          PROVE  a = b
      <3>1. PICK x \in 1 .. c : x = s[a] /\ g[a] = h[x]
        BY <2>1
      <3>2. PICK y \in 1 .. c : y = s[b] /\ g[b] = h[y]
        BY <2>1
      <3>3. x = y
        BY <1>3, <2>2, <3>1, <3>2
      <3>4. \A k, m \in 1 .. c - 1 : s[k] = s[m] => k = m
        BY <1>2
      <3>5. QED
        BY <3>1, <3>2, <3>3, <3>4
    <2>3. \A k \in 1 .. c - 1 : g[k].rest <= g[k].tv
      BY <1>3, <2>1
    <2>4. QED
      BY <1>2, <2>2, <2>3 DEF Good, Distinct
  <1>5. ToSet(g) = ToSet(h) \ {h[j]}
    <2>1. ASSUME NEW x \in ToSet(g) PROVE x \in ToSet(h) /\ x # h[j]
      <3>1. PICK k \in 1 .. c - 1 : x = g[k]
        BY <1>2, InToSet
      <3>2. s[k] \in 1 .. c /\ s[k] # j /\ x = h[s[k]]
        BY <1>2, <3>1
      <3>3. x \in ToSet(h)
        BY <1>1, <1>3, <3>2, InToSet
      <3>4. QED
        BY <1>1, <1>3, <3>2, <3>3
    <2>2. ASSUME NEW x \in ToSet(h), x # h[j] PROVE x \in ToSet(g)
      <3>1. PICK m \in 1 .. c : x = h[m]
        BY <1>1, <1>3, InToSet
      <3>2. PICK k \in 1 .. c - 1 : s[k] = m
        BY <1>2, <2>2, <3>1
      <3>3. x = g[k]
        BY <1>2, <3>1, <3>2
      <3>4. QED
        BY <1>2, <3>3, InToSet
    <2>3. QED
      BY <2>1, <2>2
  <1>6. ASSUME NEW from \in Nat, NEW d \in Nat, Counted(h, from, d)
        PROVE  Counted(g, from, d)
    <2> SUFFICES ASSUME NEW k \in 1 .. c - 1, k >= from
                 PROVE  g[k].rest <= Less(g[k].tv, d)
      BY <1>2 DEF Counted
    <2>1. s[k] \in 1 .. c /\ s[k] >= from /\ g[k] = h[s[k]]
      BY <1>2
    <2>2. QED
      BY <1>1, <1>6, <2>1 DEF Counted
  <1>7. QED
    BY <1>4, <1>5, <1>6

LEMMA GoodLater ==
    ASSUME NEW h, Good(h), NEW d \in Nat
    PROVE  /\ Good(Later(h, d))
           /\ ToSet(Later(h, d)) = {[t EXCEPT !.rest = Less(@, d)] : t \in ToSet(h)}
           /\ \A from, e \in Nat : Counted(h, from, e) => Counted(Later(h, d), from, e)
           /\ \A e \in 0 .. d : Counted(Later(h, d), 1, e)
  <1>1. PICK c \in Nat : c = Len(h)
    BY LenProperties DEF Good
  <1>2. /\ h \in Seq(Timer) /\ \A a, b \in 1 .. c : h[a].id = h[b].id => a = b
        /\ \A k \in 1 .. c : h[k].rest <= h[k].tv
    BY <1>1 DEF Good, Distinct
  <1>3. \A k \in 1 .. c : h[k] \in Timer
    BY <1>1, <1>2, InToSet
  <1>4. DOMAIN h = 1 .. c
    BY <1>1, <1>2, LenProperties
  <1>5. PICK g : g = Later(h, d)
    OBVIOUS
  <1>6. \A k \in 1 .. c : g[k] = [h[k] EXCEPT !.rest = Less(@, d)]
    BY <1>4, <1>5 DEF Later
  <1>7. ASSUME NEW k \in 1 .. c
        PROVE  /\ g[k] \in Timer /\ g[k].id = h[k].id /\ g[k].tv = h[k].tv
               /\ g[k].rest = Less(h[k].rest, d) /\ g[k].rest <= h[k].rest
    <2>1. PICK t \in Timer : t = h[k]
      BY <1>3
    <2>2. t.rest \in 0 .. MaxTime /\ t.rest \in Nat /\ MaxTime \in Nat
      BY EvAssumption DEF Timer
    <2>3. Less(t.rest, d) \in 0 .. MaxTime /\ Less(t.rest, d) <= t.rest
      BY <2>2 DEF Less
    <2>4. g[k] = [t EXCEPT !.rest = Less(@, d)]
      BY <1>6, <2>1
    <2>5. g[k] = [t EXCEPT !.rest = Less(t.rest, d)]
      BY <2>4
    <2>6. /\ g[k] \in Timer /\ g[k].id = t.id /\ g[k].tv = t.tv
          /\ g[k].rest = Less(t.rest, d)
      BY <2>3, <2>5 DEF Timer
    <2>7. QED
      BY <2>1, <2>3, <2>6
  <1>8. g \in Seq(Timer) /\ Len(g) = c
    <2>1. g = [k \in 1 .. c |-> [h[k] EXCEPT !.rest = Less(@, d)]]
      BY <1>4, <1>5 DEF Later
    <2>2. g \in [1 .. c -> Timer]
      BY <1>7, <2>1
    <2>3. QED
      BY <2>2
  <1>9. \A k \in 1 .. c : h[k].rest \in Nat /\ h[k].tv \in Nat /\ g[k].rest \in Nat
    BY <1>3, <1>7, TimerFields
  <1>10. Good(g)
    <2>1. \A k \in 1 .. c : g[k].rest <= g[k].tv
      BY <1>2, <1>7, <1>9
    <2>2. \A a, b \in 1 .. c : g[a].id = g[b].id => a = b
      BY <1>2, <1>7
    <2>3. QED
      BY <1>8, <2>1, <2>2 DEF Good, Distinct
  <1>11. ToSet(g) = {[t EXCEPT !.rest = Less(@, d)] : t \in ToSet(h)}
    <2>1. ASSUME NEW x PROVE x \in ToSet(g) <=> \E k \in 1 .. c : x = g[k]
      BY <1>8, InToSet
    <2>2. ASSUME NEW x PROVE x \in ToSet(h) <=> \E k \in 1 .. c : x = h[k]
      BY <1>1, <1>2, InToSet
    <2> DEFINE L(t) == [t EXCEPT !.rest = Less(@, d)]
    <2>3. \A k \in 1 .. c : g[k] = L(h[k])
      BY <1>6
    <2> HIDE DEF L
    <2>4. ASSUME NEW x
          PROVE  x \in ToSet(g) <=> \E t \in ToSet(h) : x = L(t)
      <3>1. ASSUME NEW k \in 1 .. c, x = g[k]
            PROVE  \E t \in ToSet(h) : x = L(t)
        BY <2>2, <2>3, <3>1
      <3>2. ASSUME NEW t \in ToSet(h), x = L(t)
            PROVE  \E k \in 1 .. c : x = g[k]
        <4>1. PICK k \in 1 .. c : t = h[k]
          BY <2>2
        <4>2. QED
          BY <2>3, <3>2, <4>1
      <3>3. QED
        BY <2>1, <3>1, <3>2
    <2>5. ToSet(g) = {L(t) : t \in ToSet(h)}
      BY <2>4
    <2>6. QED
      BY <2>5 DEF L
  <1>12. ASSUME NEW from \in Nat, NEW e \in Nat, Counted(h, from, e)
         PROVE  Counted(g, from, e)
    <2> SUFFICES ASSUME NEW k \in 1 .. c, k >= from
                 PROVE  g[k].rest <= Less(g[k].tv, e)
      BY <1>8 DEF Counted
    <2>1. h[k].rest <= Less(h[k].tv, e)
      BY <1>1, <1>12 DEF Counted
    <2>2. QED
      BY <1>7, <1>9, <2>1 DEF Less
  <1>13. ASSUME NEW e \in 0 .. d
         PROVE  Counted(g, 1, e)
    <2> SUFFICES ASSUME NEW k \in 1 .. c
                 PROVE  g[k].rest <= Less(g[k].tv, e)
      BY <1>8 DEF Counted
    <2>1. g[k].rest = Less(h[k].rest, d) /\ h[k].rest <= g[k].tv
      BY <1>2, <1>7
    <2>2. QED
      BY <1>7, <1>9, <2>1 DEF Less
  <1>14. QED
    BY <1>5, <1>10, <1>11, <1>12, <1>13

LEMMA GoodAppend ==
    ASSUME NEW h, Good(h), NEW t \in Timer, t.rest <= t.tv,
           \A x \in ToSet(h) : x.id # t.id
    PROVE  Good(Append(h, t)) /\ ToSet(Append(h, t)) = ToSet(h) \cup {t}
  <1>1. h \in Seq(Timer)
    BY DEF Good
  <1>2. PICK c \in Nat : c = Len(h)
    BY <1>1, LenProperties
  <1>3. PICK g : g = Append(h, t)
    OBVIOUS
  <1>4. /\ g \in Seq(Timer) /\ Len(g) = c + 1 /\ g[c + 1] = t
        /\ \A k \in 1 .. c : g[k] = h[k]
    BY <1>1, <1>2, <1>3, AppendProperties
  <1>5. \A k \in 1 .. c + 1 : k = c + 1 \/ k \in 1 .. c
    OBVIOUS
  <1>6. \A k \in 1 .. c : h[k] \in ToSet(h)
    BY <1>1, <1>2, InToSet
  <1>7. Good(g)
    <2>1. \A a, b \in 1 .. c : h[a].id = h[b].id => a = b
      BY <1>2 DEF Good, Distinct
    <2>2. \A a, b \in 1 .. c + 1 : g[a].id = g[b].id => a = b
      BY <1>4, <1>5, <1>6, <2>1
    <2>3. \A k \in 1 .. c + 1 : g[k].rest <= g[k].tv
      BY <1>2, <1>4, <1>5 DEF Good
    <2>4. QED
      BY <1>4, <2>2, <2>3 DEF Good, Distinct
  <1>8. ToSet(g) = ToSet(h) \cup {t}
    <2>1. ASSUME NEW x PROVE x \in ToSet(g) <=> \E k \in 1 .. c + 1 : x = g[k]
      BY <1>4, InToSet
    <2>2. ASSUME NEW x PROVE x \in ToSet(h) <=> \E k \in 1 .. c : x = h[k]
      BY <1>1, <1>2, InToSet
    <2>3. c + 1 \in 1 .. c + 1 /\ \A k \in 1 .. c : k \in 1 .. c + 1
      OBVIOUS
    <2>4. QED
      BY <1>4, <1>5, <2>1, <2>2, <2>3
  <1>9. QED
    BY <1>3, <1>7, <1>8

LEMMA GoodHeapify ==
    ASSUME NEW h, Good(h), NEW r, Good(r),
           \A x \in ToSet(h), y \in ToSet(r) : x.id # y.id
    PROVE  Good(Heapify(h, r)) /\ ToSet(Heapify(h, r)) = ToSet(h) \cup ToSet(r)
  <1>1. h \in Seq(Timer) /\ r \in Seq(Timer)
    BY DEF Good
  <1>2. PICK a \in Nat : a = Len(h)
    BY <1>1, LenProperties
  <1>3. PICK b \in Nat : b = Len(r)
    BY <1>1, LenProperties
  <1>4. PICK c \in Nat : c = a + b
    OBVIOUS
  <1>5. PICK all : all = h \o r
    OBVIOUS
  <1>6. /\ all \in Seq(Timer) /\ Len(all) = c
        /\ \A k \in 1 .. c : all[k] = IF k <= a THEN h[k] ELSE r[k - a]
    BY <1>1, <1>2, <1>3, <1>4, <1>5, ConcatProperties
  <1>7. PICK g : g = Heapify(h, r)
    OBVIOUS
  <1>8. g \in Shuffled(all, c)
    BY <1>1, <1>5, <1>6, <1>7, HeapifyShuffles
  <1>9. PICK p \in Perm(c) : \A k \in 1 .. c : g[k] = all[p[k]]
    BY <1>8 DEF Shuffled
  <1>10. /\ p \in [1 .. c -> 1 .. c]
         /\ \A x, y \in 1 .. c : p[x] = p[y] => x = y
         /\ \A y \in 1 .. c : \E x \in 1 .. c : p[x] = y
    BY DEF Perm
  <1>11. g \in Seq(Timer) /\ Len(g) = c
    BY <1>8 DEF Shuffled
  <1>12. ASSUME NEW k \in 1 .. c
         PROVE  \/ k <= a /\ k \in 1 .. a /\ all[k] = h[k] /\ all[k] \in ToSet(h)
                \/ ~(k <= a) /\ k - a \in 1 .. b /\ all[k] = r[k - a] /\ all[k] \in ToSet(r)
    <2>1. CASE k <= a
      <3>1. k \in 1 .. a /\ all[k] = h[k]
        BY <1>6, <2>1
      <3>2. QED
        BY <1>1, <1>2, <2>1, <3>1, InToSet
    <2>2. CASE ~(k <= a)
      <3>1. k - a \in 1 .. b /\ all[k] = r[k - a]
        BY <1>4, <1>6, <2>2
      <3>2. QED
        BY <1>1, <1>3, <2>2, <3>1, InToSet
    <2>3. QED
      BY <2>1, <2>2
  <1>13. /\ \A x, y \in 1 .. a : h[x].id = h[y].id => x = y
         /\ \A x, y \in 1 .. b : r[x].id = r[y].id => x = y
         /\ \A x \in 1 .. a : h[x].rest <= h[x].tv
         /\ \A x \in 1 .. b : r[x].rest <= r[x].tv
    BY <1>2, <1>3 DEF Good, Distinct
  <1>14. ASSUME NEW x \in 1 .. c, NEW y \in 1 .. c, all[x].id = all[y].id
         PROVE  x = y
    <2>1. CASE x <= a /\ y <= a
      BY <1>12, <1>13, <1>14, <2>1
    <2>2. CASE ~(x <= a) /\ ~(y <= a)
      <3>1. x - a = y - a
        BY <1>12, <1>13, <1>14, <2>2
      <3>2. QED
        BY <3>1
    <2>3. CASE (x <= a) # (y <= a)
      BY <1>12, <1>14, <2>3
    <2>4. QED
      BY <2>1, <2>2, <2>3
  <1>15. \A k \in 1 .. c : all[k].rest <= all[k].tv
    BY <1>12, <1>13
  <1>16. Good(g)
    <2>1. \A k \in 1 .. c : p[k] \in 1 .. c
      BY <1>10
    <2>2. \A x, y \in 1 .. c : g[x].id = g[y].id => x = y
      <3>1. TAKE x, y \in 1 .. c
      <3>2. HAVE g[x].id = g[y].id
      <3>3. p[x] = p[y]
        BY <1>9, <1>14, <2>1, <3>2
      <3>4. QED
        BY <1>10, <3>3
    <2>3. \A k \in 1 .. c : g[k].rest <= g[k].tv
      BY <1>9, <1>15, <2>1
    <2>4. QED
      BY <1>11, <2>2, <2>3 DEF Good, Distinct
  <1>17. ToSet(g) = ToSet(h) \cup ToSet(r)
    <2>1. ASSUME NEW x \in ToSet(g) PROVE x \in ToSet(h) \cup ToSet(r)
      <3>1. PICK k \in 1 .. c : x = g[k]
        BY <1>11, InToSet
      <3>2. p[k] \in 1 .. c /\ x = all[p[k]]
        BY <1>9, <1>10, <3>1
      <3>3. QED
        BY <1>12, <3>2
    <2>2. ASSUME NEW x \in ToSet(h) \cup ToSet(r) PROVE \E m \in 1 .. c : x = all[m]
      <3>1. CASE x \in ToSet(h)
        <4>1. PICK k \in 1 .. a : x = h[k]
          BY <1>1, <1>2, <3>1, InToSet
        <4>2. k \in 1 .. c /\ all[k] = h[k]
          BY <1>4, <1>6
        <4>3. QED
          BY <4>1, <4>2
      <3>2. CASE x \in ToSet(r)
        <4>1. PICK k \in 1 .. b : x = r[k]
          BY <1>1, <1>3, <3>2, InToSet
        <4>2. a + k \in 1 .. c /\ ~(a + k <= a) /\ a + k - a = k
          BY <1>4
        <4>3. all[a + k] = r[k]
          BY <1>6, <4>2
        <4>4. QED
          BY <4>1, <4>2, <4>3
      <3>3. QED
        BY <2>2, <3>1, <3>2
    <2>3. ASSUME NEW x \in ToSet(h) \cup ToSet(r) PROVE x \in ToSet(g)
      <3>1. PICK m \in 1 .. c : x = all[m]
        BY <2>2
      <3>2. PICK k \in 1 .. c : p[k] = m
        BY <1>10
      <3>3. x = g[k]
        BY <1>9, <3>1, <3>2
      <3>4. QED
        BY <1>11, <3>3, InToSet
    <2>4. QED
      BY <2>1, <2>3
  <1>18. QED
    BY <1>7, <1>16, <1>17
 
(* One timer is counted down.                                              *)
CountedDown(h, j, d) == [h EXCEPT ![j].tv = @ - d]

LEMMA GoodCountDown ==
    ASSUME NEW h, Good(h), NEW j \in 1 .. Len(h), NEW d \in Nat, h[j].tv > d,
           Counted(h, j, d), NEW g, g = CountedDown(h, j, d)
    PROVE  /\ Good(g) /\ Len(g) = Len(h) /\ Counted(g, j + 1, d)
           /\ \A k \in 1 .. Len(h) : g[k].id = h[k].id /\ g[k].rest = h[k].rest
  <1>1. PICK c \in Nat : c = Len(h)
    BY LenProperties DEF Good
  <1>2. /\ h \in Seq(Timer) /\ h \in [1 .. c -> Timer]
        /\ \A a, b \in 1 .. c : h[a].id = h[b].id => a = b
        /\ \A k \in 1 .. c : h[k].rest <= h[k].tv
    BY <1>1, LenProperties DEF Good, Distinct
  <1>3. PICK t \in Timer : t = h[j]
    BY <1>1, <1>2
  <1>4. PICK u : u = [t EXCEPT !.tv = t.tv - d]
    OBVIOUS
  <1>5. t.tv \in 0 .. MaxTime /\ MaxTime \in Nat /\ t.rest \in Nat
    BY EvAssumption DEF Timer
  <1>6. u \in Timer /\ u.id = t.id /\ u.rest = t.rest /\ u.tv = t.tv - d
    <2>1. t.tv - d \in 0 .. MaxTime
      BY <1>3, <1>5
    <2>2. QED
      BY <1>4, <2>1 DEF Timer
  <1>7. g = [h EXCEPT ![j] = u]
    BY <1>3, <1>4 DEF CountedDown
  <1>8. g \in Seq(Timer) /\ Len(g) = c /\ \A k \in 1 .. c : g[k] = IF k = j THEN u ELSE h[k]
    BY <1>1, <1>2, <1>6, <1>7, ExceptSeq
  <1>9. \A k \in 1 .. c : g[k].id = h[k].id /\ g[k].rest = h[k].rest
    BY <1>3, <1>6, <1>8
  <1>10. u.rest <= u.tv
    <2>1. t.rest <= Less(t.tv, d)
      BY <1>1, <1>3 DEF Counted
    <2>2. QED
      BY <1>3, <1>5, <1>6, <2>1 DEF Less
  <1>11. Good(g)
    <2>1. \A a, b \in 1 .. c : g[a].id = g[b].id => a = b
      BY <1>2, <1>9
    <2>2. \A k \in 1 .. c : g[k].rest <= g[k].tv
      BY <1>2, <1>8, <1>10
    <2>3. QED
      BY <1>8, <2>1, <2>2 DEF Good, Distinct
  <1>12. Counted(g, j + 1, d)
    <2> SUFFICES ASSUME NEW k \in 1 .. c, k >= j + 1
                 PROVE  g[k].rest <= Less(g[k].tv, d)
      BY <1>8 DEF Counted
    <2>1. k # j /\ k >= j
      BY <1>1
    <2>2. QED
      BY <1>1, <1>8, <2>1 DEF Counted
  <1>13. QED
    BY <1>1, <1>8, <1>9, <1>11, <1>12

-----------------------------------------------------------------------------
(* The time left of each timer in a set of timers.                         *)
Unique(X) == \A t, u \in X : t.id = u.id => t = u
IdsOf(X) == {t.id : t \in X}
Left(X) == [id \in IdsOf(X) |-> (CHOOSE t \in X : t.id = id).rest]

WithTimer(p, t) == [id \in DOMAIN p \cup {t.id} |-> IF id = t.id THEN t.rest ELSE p[id]]
AllLater(X, d) == {[t EXCEPT !.rest = Less(@, d)] : t \in X}
LessOf(p, d) == [id \in DOMAIN p |-> Less(p[id], d)]

LEMMA LeftIs ==
    ASSUME NEW X, Unique(X)
    PROVE  /\ DOMAIN Left(X) = IdsOf(X)
           /\ \A t \in X : t.id \in IdsOf(X) /\ Left(X)[t.id] = t.rest
  <1>1. DOMAIN Left(X) = IdsOf(X)
    BY DEF Left
  <1>2. ASSUME NEW t \in X
        PROVE  t.id \in IdsOf(X) /\ Left(X)[t.id] = t.rest
    <2>1. t.id \in IdsOf(X)
      BY DEF IdsOf
    <2>2. (CHOOSE u \in X : u.id = t.id) = t
      BY DEF Unique
    <2>3. QED
      BY <2>1, <2>2 DEF Left
  <1>3. QED
    BY <1>1, <1>2

LEMMA LeftEquals ==
    ASSUME NEW X, Unique(X), NEW f, f = [id \in IdsOf(X) |-> f[id]],
           \A t \in X : f[t.id] = t.rest
    PROVE  Left(X) = f
  <1>1. ASSUME NEW id \in IdsOf(X)
        PROVE  Left(X)[id] = f[id]
    <2>1. PICK t \in X : t.id = id
      BY DEF IdsOf
    <2>2. QED
      BY <2>1, LeftIs
  <1>2. Left(X) = [id \in IdsOf(X) |-> Left(X)[id]]
    BY DEF Left
  <1>3. QED
    BY <1>1, <1>2

LEMMA LeftAdd ==
    ASSUME NEW X, Unique(X), NEW t, t.id \notin IdsOf(X)
    PROVE  /\ Unique(X \cup {t})
           /\ Left(X \cup {t}) = WithTimer(Left(X), t)
  <1>1. Unique(X \cup {t})
    BY DEF Unique, IdsOf
  <1> DEFINE f == [id \in DOMAIN Left(X) \cup {t.id} |->
                      IF id = t.id THEN t.rest ELSE Left(X)[id]]
  <1>2. IdsOf(X \cup {t}) = DOMAIN Left(X) \cup {t.id}
    BY LeftIs DEF IdsOf
  <1>3. ASSUME NEW u \in X \cup {t}
        PROVE  f[u.id] = u.rest
    <2>1. CASE u = t
      BY <2>1
    <2>2. CASE u \in X
      <3>1. u.id \in DOMAIN Left(X) /\ u.id # t.id /\ Left(X)[u.id] = u.rest
        BY <2>2, LeftIs
      <3>2. QED
        BY <3>1
    <2>3. QED
      BY <2>1, <2>2
  <1>4. f = [id \in IdsOf(X \cup {t}) |-> f[id]]
    BY <1>2
  <1> HIDE DEF f
  <1>5. Left(X \cup {t}) = f
    BY <1>1, <1>3, <1>4, LeftEquals
  <1>6. QED
    BY <1>1, <1>5 DEF f, WithTimer

LEMMA LeftRemove ==
    ASSUME NEW X, Unique(X), NEW t \in X
    PROVE  Left(X \ {t}) = Restrict(Left(X), DOMAIN Left(X) \ {t.id})
  <1>1. Unique(X \ {t})
    BY DEF Unique
  <1> DEFINE f == Restrict(Left(X), DOMAIN Left(X) \ {t.id})
  <1>2. IdsOf(X \ {t}) = DOMAIN Left(X) \ {t.id}
    <2>1. ASSUME NEW u \in X, u # t
          PROVE  u.id # t.id
      BY <2>1 DEF Unique
    <2>2. IdsOf(X \ {t}) = IdsOf(X) \ {t.id}
      BY <2>1 DEF IdsOf
    <2>3. QED
      BY <2>2, LeftIs
  <1>3. ASSUME NEW u \in X \ {t}
        PROVE  f[u.id] = u.rest
    <2>1. u.id \in DOMAIN Left(X) \ {t.id} /\ Left(X)[u.id] = u.rest
      BY LeftIs DEF Unique
    <2>2. QED
      BY <2>1 DEF Restrict
  <1>4. f = [id \in IdsOf(X \ {t}) |-> f[id]]
    BY <1>2 DEF Restrict
  <1> HIDE DEF f
  <1>5. QED
    BY <1>1, <1>3, <1>4, LeftEquals DEF f

LEMMA LeftLater ==
    ASSUME NEW X, X \subseteq Timer, Unique(X), NEW d,
           NEW Y, Y = AllLater(X, d)
    PROVE  Left(Y) = LessOf(Left(X), d)
  <1> DEFINE L(t) == [t EXCEPT !.rest = Less(@, d)]
             f == [id \in DOMAIN Left(X) |-> Less(Left(X)[id], d)]
  <1>1. ASSUME NEW t \in X
        PROVE  L(t).id = t.id /\ L(t).rest = Less(t.rest, d)
    BY DEF Timer
  <1> HIDE DEF L
  <1>2. Y = {L(t) : t \in X}
    BY DEF L, AllLater
  <1>3. Unique(Y)
    <2> SUFFICES ASSUME NEW x \in Y, NEW y \in Y, x.id = y.id
                 PROVE  x = y
      BY DEF Unique
    <2>1. PICK t \in X : x = L(t)
      BY <1>2
    <2>2. PICK u \in X : y = L(u)
      BY <1>2
    <2>3. t = u
      BY <1>1, <2>1, <2>2 DEF Unique
    <2>4. QED
      BY <2>1, <2>2, <2>3
  <1>4. IdsOf(Y) = DOMAIN Left(X)
    <2>1. IdsOf(Y) = IdsOf(X)
      BY <1>1, <1>2 DEF IdsOf
    <2>2. QED
      BY <2>1, LeftIs
  <1>5. ASSUME NEW y \in Y
        PROVE  f[y.id] = y.rest
    <2>1. PICK t \in X : y = L(t)
      BY <1>2
    <2>2. y.id = t.id /\ y.rest = Less(t.rest, d) /\ t.id \in DOMAIN Left(X)
          /\ Left(X)[t.id] = t.rest
      BY <1>1, <2>1, LeftIs
    <2>3. QED
      BY <2>2
  <1>6. f = [id \in IdsOf(Y) |-> f[id]]
    BY <1>4
  <1> HIDE DEF f
  <1>7. Left(Y) = f
    BY ONLY <1>3, <1>5, <1>6, LeftEquals
  <1>8. QED
    BY <1>7 DEF f, LessOf

LEMMA LeftSame ==
    ASSUME NEW X, Unique(X), NEW Y, Unique(Y),
           \A x \in X : \E y \in Y : y.id = x.id /\ y.rest = x.rest,
           \A y \in Y : \E x \in X : y.id = x.id /\ y.rest = x.rest
    PROVE  Left(Y) = Left(X)
  <1>1. IdsOf(Y) = IdsOf(X)
    BY DEF IdsOf
  <1>2. Left(X) = [id \in IdsOf(Y) |-> Left(X)[id]]
    BY <1>1 DEF Left
  <1>3. \A y \in Y : Left(X)[y.id] = y.rest
    BY LeftIs
  <1>4. QED
    BY <1>2, <1>3, LeftEquals

(* Both arrays together are one such set.                                  *)
Apart == \A x \in ToSet(timers), y \in ToSet(reserve) : x.id # y.id

LEMMA UnionIsUnique ==
    ASSUME NEW h, Good(h), NEW r, Good(r),
           \A x \in ToSet(h), y \in ToSet(r) : x.id # y.id
    PROVE  Unique(ToSet(h) \cup ToSet(r)) /\ ToSet(h) \cup ToSet(r) \subseteq Timer
  <1>1. ASSUME NEW g, Good(g)
        PROVE  Unique(ToSet(g)) /\ ToSet(g) \subseteq Timer
    BY <1>1, InToSet DEF Unique, Good, Distinct
  <1>2. QED
    BY <1>1 DEF Unique

LEMMA PendingIsUnique ==
    ASSUME Good(timers), Good(reserve), Apart
    PROVE  Unique(Pending) /\ Pending \subseteq Timer
  BY UnionIsUnique DEF Pending, Apart

-----------------------------------------------------------------------------
(* While timers are counted down, those from i on still count tv more than *)
(* is left to them: none is counted down twice, and a due one is over.     *)
InTimers == pc = "timers" \/ event = "timeout"

TimersInv ==
    /\ Good(timers) /\ Good(reserve) /\ Apart
    /\ tid \in 0 .. MaxTimers + 1 /\ tv \in Nat
    /\ pc = "poll" => reserve = <<>>
    /\ InTimers => Counted(timers, i, tv)

LEMMA EmptyIsGood == Good(<<>>) /\ ToSet(<<>>) = {}
  <1>1. <<>> \in Seq(Timer) /\ Len(<<>>) = 0
    BY EmptySeq
  <1>2. ToSet(<<>>) = {}
    <2>1. \A x : x \in ToSet(<<>>) <=> \E k \in 1 .. Len(<<>>) : x = <<>>[k]
      BY <1>1, InToSet
    <2>2. 1 .. Len(<<>>) = {}
      BY <1>1
    <2>3. QED
      BY <2>1, <2>2
  <1>3. QED
    BY <1>1, <1>2 DEF Good, Distinct

LEMMA TimersStart == EvInit => TimersInv
  <1> SUFFICES ASSUME EvInit PROVE TimersInv
    OBVIOUS
  <1>1. timers = <<>> /\ reserve = <<>> /\ tid = 0 /\ tv = 0 /\ pc = Busy /\ event = "start"
    BY DEF EvInit
  <1>2. ~InTimers
    BY <1>1 DEF InTimers, Busy
  <1>3. Good(timers) /\ Good(reserve) /\ ToSet(timers) = {}
    BY <1>1, EmptyIsGood
  <1>4. tid \in 0 .. MaxTimers + 1
    BY <1>1, EvAssumption
  <1>5. QED
    BY <1>1, <1>2, <1>3, <1>4 DEF TimersInv, Apart

(* Steps that leave the timers alone.                                      *)
LEMMA TimersKept ==
    ASSUME TimersInv, UNCHANGED <<timers, reserve, tid>>, tv' \in Nat,
           pc' = "poll" => pc = "poll",
           InTimers' => InTimers /\ UNCHANGED <<i, tv>>
    PROVE  TimersInv'
  BY DEF TimersInv, Apart

(* What a callback may do to the timers, and what becomes of the time that *)
(* is left.                                                                *)
LEMMA TimersCalling ==
    ASSUME TimersInv, FdInv, Calling
    PROVE  /\ TimersInv'
           /\ \/ Pending' = Pending
              \/ /\ EvTimer
                 /\ \E t \in Timer : t.id \notin IdsOf(Pending) /\ Pending' = Pending \cup {t}
              \/ \E t \in Pending : Pending' = Pending \ {t}
  <1>1. /\ pc = Busy /\ UNCHANGED <<n, tv, i, sigpipe, pc, event>>
    BY DEF Calling, EvTimer, EvTimerCancel, EvAdd, EvDel, EvBreak, Call, loopVars
  <1>2. InTimers' = InTimers
    BY <1>1 DEF InTimers
  <1>3. pc # "poll" /\ tv \in Nat /\ i \in Nat /\ tid \in 0 .. MaxTimers + 1
    BY <1>1 DEF Busy, TimersInv, FdInv, LoopType
  <1>4. Good(timers) /\ Good(reserve) /\ Apart
    BY DEF TimersInv
  <1>5. CASE EvTimer
    <2>1. PICK t \in 0 .. MaxTime :
              reserve' = Append(reserve, [id |-> NextTid, tv |-> t, rest |-> t])
      BY <1>5 DEF EvTimer, Put
    <2>2. PICK u : u = [id |-> NextTid, tv |-> t, rest |-> t]
      OBVIOUS
    <2>3. /\ NextTid \in TimerId /\ NextTid \notin IdsOf(Pending) /\ timers' = timers
          /\ tid' \in 0 .. MaxTimers + 1
      <3>1. tid' = NextTid /\ NextTid \notin Ids /\ timers' = timers
        BY <1>5 DEF EvTimer, Put
      <3>2. NextTid \in TimerId
        BY EvAssumption DEF NextTid, TimerId, TimersInv
      <3>3. QED
        BY <3>1, <3>2 DEF Ids, IdsOf, TimerId
    <2>4. u \in Timer /\ u.id = NextTid /\ u.rest <= u.tv
      BY <2>2, <2>3, EvAssumption DEF Timer
    <2>5. \A x \in Pending : x.id # u.id
      BY <2>3, <2>4 DEF IdsOf
    <2>6. Good(reserve') /\ ToSet(reserve') = ToSet(reserve) \cup {u}
      BY <1>4, <2>1, <2>2, <2>4, <2>5, GoodAppend DEF Pending
    <2>7. Apart'
      BY <1>4, <2>3, <2>5, <2>6 DEF Apart, Pending
    <2>8. TimersInv'
      BY <1>1, <1>2, <1>3, <1>4, <2>3, <2>6, <2>7 DEF TimersInv
    <2>9. Pending' = Pending \cup {u}
      BY <2>3, <2>6 DEF Pending
    <2>10. QED
      BY <1>5, <2>3, <2>4, <2>8, <2>9
  <1>6. CASE EvTimerCancel
    <2>t. tid' = tid
      BY <1>6 DEF EvTimerCancel
    <2>1. CASE \E j \in DOMAIN timers : timers' = CancelTimer(timers, j) /\ UNCHANGED reserve
      <3>1. timers \in Seq(Timer) /\ DOMAIN timers = 1 .. Len(timers)
        BY <1>4, LenProperties DEF Good
      <3>2. PICK j \in 1 .. Len(timers) : timers' = CancelTimer(timers, j)
        BY <2>1, <3>1
      <3>3. PICK s : Leaves(s, timers', timers, j)
        BY <3>1, <3>2, CancelLeaves
      <3>4. /\ Good(timers') /\ ToSet(timers') = ToSet(timers) \ {timers[j]}
            /\ Counted(timers, i, tv) => Counted(timers', i, tv)
        BY <1>3, <1>4, <3>3, GoodLeaves
      <3>5. timers[j] \in ToSet(timers) /\ reserve' = reserve
        BY <2>1, <3>1, InToSet
      <3>6. timers[j] \notin ToSet(reserve)
        BY <1>4, <3>5 DEF Apart
      <3>7. Pending' = Pending \ {timers[j]} /\ timers[j] \in Pending
        BY <3>4, <3>5, <3>6 DEF Pending
      <3>8. Apart'
        BY <1>4, <3>4, <3>5 DEF Apart
      <3>9. TimersInv'
        BY <1>1, <1>2, <1>3, <1>4, <2>t, <3>4, <3>5, <3>8 DEF TimersInv
      <3>10. QED
        BY <3>7, <3>9
    <2>2. CASE \E j \in DOMAIN reserve :
                  /\ reserve' = Front([reserve EXCEPT ![j] = Last(reserve)])
                  /\ UNCHANGED timers
      <3>1. reserve \in Seq(Timer) /\ DOMAIN reserve = 1 .. Len(reserve)
        BY <1>4, LenProperties DEF Good
      <3>2. PICK j \in 1 .. Len(reserve) :
                reserve' = Front([reserve EXCEPT ![j] = Last(reserve)])
        BY <2>2, <3>1
      <3>3. reserve' = Filled(reserve, j)
        BY <3>1, <3>2, FrontIsFilled
      <3>4. Leaves(Source(reserve, j), reserve', reserve, j)
        BY <3>1, <3>3, FilledLeaves
      <3>5. Good(reserve') /\ ToSet(reserve') = ToSet(reserve) \ {reserve[j]}
        BY <1>4, <3>4, GoodLeaves
      <3>6. reserve[j] \in ToSet(reserve) /\ timers' = timers
        BY <2>2, <3>1, InToSet
      <3>7. reserve[j] \notin ToSet(timers)
        BY <1>4, <3>6 DEF Apart
      <3>8. Pending' = Pending \ {reserve[j]} /\ reserve[j] \in Pending
        BY <3>5, <3>6, <3>7 DEF Pending
      <3>9. Apart'
        BY <1>4, <3>5, <3>6 DEF Apart
      <3>10. TimersInv'
        BY <1>1, <1>2, <1>3, <1>4, <2>t, <3>5, <3>6, <3>9 DEF TimersInv
      <3>11. QED
        BY <3>8, <3>10
    <2>3. QED
      BY <1>6, <2>1, <2>2 DEF EvTimerCancel
  <1>7. CASE EvAdd \/ EvDel \/ EvBreak
    <2>1. UNCHANGED <<timers, reserve, tid>>
      BY <1>7 DEF EvAdd, EvDel, EvBreak, timerVars
    <2>2. TimersInv'
      BY <1>1, <1>2, <1>3, <2>1, TimersKept
    <2>3. QED
      BY <2>1, <2>2 DEF Pending
  <1>8. QED
    BY <1>5, <1>6, <1>7 DEF Calling

(* Time passes for all timers.                                             *)
Elapsed(d) == Pending' = AllLater(Pending, d)

LEMMA TimersReturn ==
    ASSUME TimersInv, FdInv, Return
    PROVE  TimersInv' /\ event' = "none" /\ \E d \in 0 .. 1 : Elapsed(d)
  <1>1. PICK d \in 0 .. 1 : timers' = Later(timers, d) /\ reserve' = Later(reserve, d)
    BY DEF Return
  <1>2. Good(timers) /\ Good(reserve) /\ Apart /\ d \in Nat /\ tv \in Nat /\ i \in Nat
    BY DEF TimersInv, FdInv, LoopType
  <1>3. /\ Good(timers') /\ ToSet(timers') = {[t EXCEPT !.rest = Less(@, d)] : t \in ToSet(timers)}
        /\ Counted(timers, i, tv) => Counted(timers', i, tv)
    BY <1>1, <1>2, GoodLater
  <1>4. /\ Good(reserve')
        /\ ToSet(reserve') = {[t EXCEPT !.rest = Less(@, d)] : t \in ToSet(reserve)}
    BY <1>1, <1>2, GoodLater
  <1> DEFINE L(t) == [t EXCEPT !.rest = Less(@, d)]
  <1>5. \A t \in Timer : L(t).id = t.id
    BY DEF Timer
  <1>6. ToSet(timers') = {L(t) : t \in ToSet(timers)}
        /\ ToSet(reserve') = {L(t) : t \in ToSet(reserve)}
    BY <1>3, <1>4
  <1>7. ToSet(timers) \subseteq Timer /\ ToSet(reserve) \subseteq Timer
    BY <1>2, InToSet DEF Good
  <1>8. Elapsed(d)
    <2> HIDE DEF L
    <2>1. Pending' = {L(t) : t \in Pending}
      BY <1>6 DEF Pending
    <2>2. QED
      BY <2>1 DEF L, Elapsed, AllLater
  <1> HIDE DEF L
  <1>9. Apart'
    <2> SUFFICES ASSUME NEW x \in ToSet(timers'), NEW y \in ToSet(reserve')
                 PROVE  x.id # y.id
      BY DEF Apart
    <2>1. PICK t \in ToSet(timers) : x = L(t)
      BY <1>6
    <2>2. PICK u \in ToSet(reserve) : y = L(u)
      BY <1>6
    <2>3. QED
      BY <1>2, <1>5, <1>7, <2>1, <2>2 DEF Apart
  <1>10. /\ UNCHANGED <<i, tv, tid>> /\ event' = "none"
         /\ pc' = IF event = "start" THEN "step" ELSE IF event = "timeout" THEN "timers" ELSE "fds"
    BY DEF Return, loopVars
  <1>11. InTimers' => InTimers
    BY <1>10 DEF InTimers
  <1>12. TimersInv'
    BY <1>2, <1>3, <1>4, <1>9, <1>10, <1>11 DEF TimersInv
  <1>13. QED
    BY <1>8, <1>10, <1>12

LEMMA TimersPoll ==
    ASSUME TimersInv, FdInv, Poll \/ Interrupted
    PROVE  TimersInv' /\ UNCHANGED event /\ \E d \in 0 .. MaxTime + 1 : Elapsed(d)
  <1>1. /\ pc = "poll" /\ i' = 1 /\ pc' = "timers" /\ UNCHANGED <<reserve, event, tid>>
    BY DEF Poll, Interrupted, PollReturned
  <1>2. Good(timers) /\ reserve = <<>>
    BY <1>1 DEF TimersInv
  <1>3. \E d \in 0 .. MaxTime + 1 : \E e \in 0 .. d : timers' = Later(timers, d) /\ tv' = e
    <2>1. MaxTime \in Nat
      BY EvAssumption
    <2>2. CASE Interrupted
      BY <2>1, <2>2 DEF Interrupted, Polled
    <2>3. CASE /\ timers # <<>>
               /\ \E late \in 0 .. 1 : Polled({}, timers[1].tv + late, timers[1].tv, 0)
      <3>1. timers[1] \in Timer
        BY <1>2, <2>3, EmptySeq, ElementOfSeq DEF Good
      <3>2. timers[1].tv \in 0 .. MaxTime
        BY <3>1 DEF Timer
      <3>3. PICK late \in 0 .. 1 : /\ timers' = Later(timers, timers[1].tv + late)
                                   /\ tv' = timers[1].tv
        BY <2>3 DEF Polled
      <3>4. /\ timers[1].tv + late \in 0 .. MaxTime + 1
            /\ timers[1].tv \in 0 .. timers[1].tv + late
        BY <2>1, <3>2
      <3>5. QED
        BY <3>3, <3>4
    <2>4. CASE \E found \in SUBSET (watched \ {SigFd}), d \in 0 .. MaxTime :
                   Polled(found \cup Ready, d, d, Cardinality(found \cup Ready))
      BY <2>1, <2>4 DEF Polled
    <2>5. QED
      BY <2>2, <2>3, <2>4 DEF Poll
  <1>4. PICK d \in 0 .. MaxTime + 1 : \E e \in 0 .. d : timers' = Later(timers, d) /\ tv' = e
    BY <1>3
  <1>e. PICK e \in 0 .. d : timers' = Later(timers, d) /\ tv' = e
    BY <1>4
  <1>5. d \in Nat /\ e \in Nat
    BY EvAssumption
  <1>6. /\ Good(timers')
        /\ ToSet(timers') = {[t EXCEPT !.rest = Less(@, d)] : t \in ToSet(timers)}
        /\ Counted(timers', i', tv')
    BY <1>1, <1>2, <1>e, <1>5, GoodLater
  <1>7. ToSet(reserve) = {} /\ ToSet(reserve') = {} /\ Good(reserve')
    BY <1>1, <1>2, EmptyIsGood
  <1>8. TimersInv'
    BY <1>1, <1>e, <1>5, <1>6, <1>7 DEF TimersInv, Apart
  <1>9. Elapsed(d)
    BY <1>6, <1>7 DEF Elapsed, Pending, AllLater
  <1>10. QED
    BY <1>1, <1>8, <1>9

LEMMA TimersExpire ==
    ASSUME TimersInv, FdInv, Expire
    PROVE  /\ TimersInv' /\ event = "none" /\ event' = "timeout"
           /\ \E t \in Pending : t.rest = 0 /\ Pending' = Pending \ {t}
  <1>1. /\ pc = "timers" /\ i <= Len(timers) /\ timers[i].tv <= tv
        /\ timers' = CancelTimer(timers, i) /\ pc' = Busy /\ event' = "timeout"
        /\ UNCHANGED <<reserve, i, tv, tid>>
    BY DEF Expire, Due, Callback, loopVars
  <1>2. Good(timers) /\ Good(reserve) /\ Apart /\ tv \in Nat /\ i \in Nat \ {0}
    BY DEF TimersInv, FdInv, LoopType
  <1>3. timers \in Seq(Timer) /\ i \in 1 .. Len(timers)
    BY <1>1, <1>2, LenProperties DEF Good
  <1>4. PICK s : Leaves(s, timers', timers, i)
    BY <1>1, <1>3, CancelLeaves
  <1>5. Counted(timers, i, tv)
    BY <1>1 DEF TimersInv, InTimers
  <1>6. /\ Good(timers') /\ ToSet(timers') = ToSet(timers) \ {timers[i]}
        /\ Counted(timers', i, tv)
    BY <1>2, <1>3, <1>4, <1>5, GoodLeaves
  <1>7. timers[i] \in ToSet(timers) /\ timers[i] \in Timer
    BY <1>3, InToSet
  <1>8. timers[i].rest = 0
    <2>1. timers[i].rest <= Less(timers[i].tv, tv)
      BY <1>3, <1>5 DEF Counted
    <2>2. timers[i].rest \in Nat /\ timers[i].tv \in Nat
      BY <1>7, TimerFields
    <2>3. QED
      BY <1>1, <1>2, <2>1, <2>2 DEF Less
  <1>9. timers[i] \notin ToSet(reserve)
    BY <1>2, <1>7 DEF Apart
  <1>10. Pending' = Pending \ {timers[i]} /\ timers[i] \in Pending
    BY <1>1, <1>6, <1>7, <1>9 DEF Pending
  <1>11. Apart'
    BY <1>1, <1>2, <1>6 DEF Apart
  <1>12. TimersInv'
    BY <1>1, <1>2, <1>6, <1>11 DEF TimersInv, Busy
  <1>13. event = "none"
    BY <1>1 DEF FdInv, LoopType, Busy
  <1>14. QED
    BY <1>1, <1>8, <1>10, <1>12, <1>13

LEMMA TimersCountDown ==
    ASSUME TimersInv, FdInv, CountDown
    PROVE  TimersInv' /\ UNCHANGED event /\ Left(Pending') = Left(Pending)
  <1>1. /\ pc = "timers" /\ i <= Len(timers) /\ ~(timers[i].tv <= tv)
        /\ timers' = [timers EXCEPT ![i].tv = @ - tv] /\ i' = i + 1
        /\ UNCHANGED <<reserve, tv, tid, pc, event>>
    BY DEF CountDown, Due
  <1>2. Good(timers) /\ Good(reserve) /\ Apart /\ tv \in Nat /\ i \in Nat \ {0}
    BY DEF TimersInv, FdInv, LoopType
  <1>3. timers \in Seq(Timer) /\ i \in 1 .. Len(timers)
    BY <1>1, <1>2, LenProperties DEF Good
  <1>4. timers[i].tv > tv
    <2>1. timers[i].tv \in Nat
      BY <1>3, InToSet, TimerFields
    <2>2. QED
      BY <1>1, <1>2, <2>1
  <1>5. Counted(timers, i, tv)
    BY <1>1 DEF TimersInv, InTimers
  <1>6. /\ Good(timers') /\ Len(timers') = Len(timers) /\ Counted(timers', i + 1, tv)
        /\ \A k \in 1 .. Len(timers) :
              timers'[k].id = timers[k].id /\ timers'[k].rest = timers[k].rest
    <2>1. timers' = CountedDown(timers, i, tv)
      BY <1>1 DEF CountedDown
    <2>2. tv \in Nat /\ Good(timers)
      BY <1>2
    <2>3. QED
      BY ONLY <1>3, <1>4, <1>5, <2>1, <2>2, GoodCountDown
  <1>7. \A x \in ToSet(timers) : \E y \in ToSet(timers') : y.id = x.id /\ y.rest = x.rest
    <2>1. TAKE x \in ToSet(timers)
    <2>2. PICK k \in 1 .. Len(timers) : x = timers[k]
      BY <1>3, InToSet
    <2>3. timers'[k] \in ToSet(timers')
      BY <1>6, InToSet DEF Good
    <2>4. QED
      BY <1>6, <2>2, <2>3
  <1>8. \A y \in ToSet(timers') : \E x \in ToSet(timers) : y.id = x.id /\ y.rest = x.rest
    <2>1. TAKE y \in ToSet(timers')
    <2>2. PICK k \in 1 .. Len(timers) : y = timers'[k]
      BY <1>6, InToSet DEF Good
    <2>3. timers[k] \in ToSet(timers)
      BY <1>3, InToSet
    <2>4. QED
      BY <1>6, <2>2, <2>3
  <1>9. Apart'
    BY <1>1, <1>2, <1>8 DEF Apart
  <1>10. TimersInv'
    BY <1>1, <1>2, <1>6, <1>9 DEF TimersInv
  <1>11. Unique(Pending)
    BY <1>2, PendingIsUnique
  <1>12. Unique(Pending')
    <2>1. Unique(ToSet(timers') \cup ToSet(reserve'))
      BY <1>1, <1>2, <1>6, <1>9, UnionIsUnique DEF Apart
    <2>2. QED
      BY <2>1 DEF Pending
  <1>13. Left(Pending') = Left(Pending)
    <2>1. /\ \A x \in Pending : \E y \in Pending' : y.id = x.id /\ y.rest = x.rest
          /\ \A y \in Pending' : \E x \in Pending : y.id = x.id /\ y.rest = x.rest
      BY <1>1, <1>7, <1>8 DEF Pending
    <2>2. QED
      BY <1>11, <1>12, <2>1, LeftSame
  <1>14. QED
    BY <1>1, <1>10, <1>13

(* The steps that move no timer to another place but the one by which the  *)
(* reserve joins the heap.                                                 *)
LEMMA TimersElsewhere ==
    ASSUME TimersInv, FdInv,
           Step \/ TimersDone \/ Skip \/ Serve \/ FdsDone \/ Signal \/ UNCHANGED vars
    PROVE  /\ TimersInv' /\ Pending' = Pending
           /\ (event' = "timeout") = (event = "timeout")
  <1>t. "timeout" \notin AllFd /\ (pc # Busy => event # "timeout")
    BY EvAssumption DEF AllFd, FdInv, LoopType
  <1>1. CASE Step /\ ~stop
    <2>1. /\ pc = "step" /\ pc' = "poll" /\ UNCHANGED <<tid, tv, event>>
          /\ timers' = Heapify(timers, reserve) /\ reserve' = <<>>
      BY <1>1 DEF Step, loopVars
    <2>2. Good(timers) /\ Good(reserve) /\ Apart /\ tv \in Nat /\ tid \in 0 .. MaxTimers + 1
      BY DEF TimersInv
    <2>3. Good(timers') /\ ToSet(timers') = ToSet(timers) \cup ToSet(reserve)
      BY <2>1, <2>2, GoodHeapify DEF Apart
    <2>4. Good(reserve') /\ ToSet(reserve') = {}
      BY <2>1, EmptyIsGood
    <2>5. ~InTimers'
      BY <2>1, <1>t DEF InTimers, Busy
    <2>6. TimersInv'
      BY <2>1, <2>2, <2>3, <2>4, <2>5 DEF TimersInv, Apart
    <2>7. QED
      BY <2>1, <2>3, <2>4, <2>6 DEF Pending
  <1>2. CASE Step /\ stop
    <2>1. pc = "step" /\ pc' = "stopped" /\ UNCHANGED <<timers, reserve, tid, tv, event>>
      BY <1>2 DEF Step, loopVars
    <2>2. ~InTimers' /\ tv' \in Nat
      BY <2>1, <1>t DEF InTimers, Busy, TimersInv
    <2>3. QED
      BY <2>1, <2>2, TimersKept DEF Pending
  <1>3. CASE TimersDone \/ Skip
    <2>1. /\ pc \in {"timers", "fds"} /\ pc' = "fds"
          /\ UNCHANGED <<timers, reserve, tid, tv, event>>
      BY <1>3 DEF TimersDone, Skip, Serving, timerVars
    <2>2. ~InTimers' /\ tv' \in Nat
      BY <2>1, <1>t DEF InTimers, Busy, TimersInv
    <2>3. QED
      BY <2>1, <2>2, TimersKept DEF Pending
  <1>4. CASE Serve
    <2>1. /\ pc = "fds" /\ pc' = Busy /\ event' = FdSeq[i] /\ FdSeq[i] \in watched
          /\ UNCHANGED <<timers, reserve, tid, tv>>
      BY <1>4 DEF Serve, Serving, Callback, timerVars
    <2>2. event' # "timeout" /\ event # "timeout"
      BY <2>1, <1>t DEF FdInv, LoopType, Busy
    <2>3. ~InTimers' /\ tv' \in Nat
      BY <2>1, <2>2 DEF InTimers, Busy, TimersInv
    <2>4. QED
      BY <2>1, <2>2, <2>3, TimersKept DEF Pending, Busy
  <1>5. CASE FdsDone
    <2>1. /\ pc = "fds" /\ pc' = "step" /\ tv' = 0
          /\ UNCHANGED <<timers, reserve, tid, event>>
      BY <1>5 DEF FdsDone, timerVars
    <2>2. ~InTimers'
      BY <2>1, <1>t DEF InTimers, Busy
    <2>3. QED
      BY <2>1, <2>2, TimersKept DEF Pending
  <1>6. CASE Signal \/ UNCHANGED vars
    <2>1. UNCHANGED <<timers, reserve, tid, tv, i, pc, event>>
      BY <1>6 DEF Signal, vars, timerVars, loopVars
    <2>2. (InTimers' => InTimers) /\ tv' \in Nat
      BY <2>1 DEF InTimers, TimersInv
    <2>3. QED
      BY <2>1, <2>2, TimersKept DEF Pending
  <1>7. QED
    BY <1>1, <1>2, <1>3, <1>4, <1>5, <1>6

LEMMA TimersStep ==
    ASSUME TimersInv, FdInv, [EvNext]_vars
    PROVE  TimersInv'
  <1>1. CASE Calling
    BY <1>1, TimersCalling
  <1>2. CASE Return
    BY <1>2, TimersReturn
  <1>3. CASE Poll \/ Interrupted
    BY <1>3, TimersPoll
  <1>4. CASE Expire
    BY <1>4, TimersExpire
  <1>5. CASE CountDown
    BY <1>5, TimersCountDown
  <1>6. CASE Step \/ TimersDone \/ Skip \/ Serve \/ FdsDone \/ Signal \/ UNCHANGED vars
    BY <1>6, TimersElsewhere
  <1>7. QED
    BY <1>1, <1>2, <1>3, <1>4, <1>5, <1>6 DEF EvNext, Looping

LEMMA TimersInvariance == EvSpec => []TimersInv
  BY TimersStart, TimersStep, FdInvariance, PTL DEF EvSpec

(* The pending timers of module TimerSet.                                  *)
LEMMA AheadIsLeft ==
    /\ [id \in Ids |-> (CHOOSE t \in Pending : t.id = id).rest] = Left(Pending)
    /\ [id \in Ids |-> (CHOOSE t \in Pending : t.id = id).rest]' = Left(Pending')
  BY DEF Left, Ids, IdsOf

LEMMA AheadStart == EvInit => Ahead!TimersInit
  <1> SUFFICES ASSUME EvInit PROVE Ahead!TimersInit
    OBVIOUS
  <1>1. timers = <<>> /\ reserve = <<>> /\ event = "start"
    BY DEF EvInit
  <1>2. Pending = {}
    BY <1>1, EmptyIsGood DEF Pending
  <1>3. Left(Pending) = <<>>
    BY <1>2 DEF Left, IdsOf
  <1>4. QED
    BY <1>1, <1>3, AheadIsLeft DEF Ahead!TimersInit


(* Every step is one of the set of timers, or none.                        *)
LEMMA AheadStep ==
    ASSUME TimersInv, FdInv, [EvNext]_vars
    PROVE  [Ahead!TimersNext]_Ahead!timerVars
  <1> DEFINE Abs == [id \in Ids |-> (CHOOSE t \in Pending : t.id = id).rest]
             Running == event = "timeout"
  <1>1. Abs = Left(Pending) /\ Abs' = Left(Pending')
    BY AheadIsLeft
  <1>2. Unique(Pending) /\ Pending \subseteq Timer
    BY PendingIsUnique DEF TimersInv
  <1>3. DOMAIN Abs = IdsOf(Pending)
    BY <1>1, <1>2, LeftIs
  <1>4. ASSUME NEW t \in Timer, t.id \notin IdsOf(Pending), Pending' = Pending \cup {t},
               Running' = Running
        PROVE  Ahead!Add
    <2>0. Abs' = WithTimer(Abs, t)
      BY <1>1, <1>2, <1>4, LeftAdd
    <2>1. Abs' = [id \in DOMAIN Abs \cup {t.id} |-> IF id = t.id THEN t.rest ELSE Abs[id]]
      BY <2>0 DEF WithTimer
    <2>2. t.id \in TimerId \ DOMAIN Abs /\ t.rest \in 0 .. MaxTime
      BY <1>3, <1>4 DEF Timer
    <2> HIDE DEF Abs
    <2>3. /\ \E id \in TimerId \ DOMAIN Abs, r \in 0 .. MaxTime :
                 Abs' = [j \in DOMAIN Abs \cup {id} |-> IF j = id THEN r ELSE Abs[j]]
          /\ Running' = Running
      BY <1>4, <2>1, <2>2
    <2>4. QED
      BY <2>3 DEF Ahead!Add, Abs
  <1>5. ASSUME NEW t \in Pending, Pending' = Pending \ {t}
        PROVE  t.id \in DOMAIN Abs /\ Abs[t.id] = t.rest /\ Abs' = Ahead!Without(t.id)
    <2>1. Abs' = Restrict(Abs, DOMAIN Abs \ {t.id})
      BY <1>1, <1>2, <1>5, LeftRemove
    <2>2. t.id \in DOMAIN Abs /\ Abs[t.id] = t.rest
      BY <1>1, <1>2, LeftIs
    <2>3. Restrict(Abs, DOMAIN Abs \ {t.id}) = Ahead!Without(t.id)
      BY DEF Restrict, Ahead!Without, Ahead!Restrict
    <2>4. QED
      BY <2>1, <2>2, <2>3
  <1>6. ASSUME NEW d \in 0 .. MaxTime + 1, Elapsed(d), Running' => Running
        PROVE  Ahead!Pass
    <2>1. Abs' = LessOf(Abs, d)
      BY <1>1, <1>2, <1>6, LeftLater DEF Elapsed
    <2>2. Abs' = Ahead!Shorter(d)
      BY <2>1 DEF Ahead!Shorter, Less, LessOf
    <2>3. QED
      BY <1>6, <2>2 DEF Ahead!Pass
  <1>7. ASSUME Left(Pending') = Left(Pending), Running' = Running
        PROVE  UNCHANGED Ahead!timerVars
    BY <1>1, <1>7 DEF Ahead!timerVars
  <1>8. CASE Calling
    <2>1. Running' = Running
      BY <1>8 DEF Calling, EvTimer, EvTimerCancel, EvAdd, EvDel, EvBreak, Call
    <2>2. CASE \E t \in Pending : Pending' = Pending \ {t}
      <3>1. PICK t \in Pending : Pending' = Pending \ {t}
        BY <2>2
      <3>2. Ahead!Cancel
        BY <1>5, <2>1, <3>1 DEF Ahead!Cancel
      <3>3. QED
        BY <3>2 DEF Ahead!TimersNext
    <2>3. CASE \E t \in Timer : t.id \notin IdsOf(Pending) /\ Pending' = Pending \cup {t}
      BY <1>4, <2>1, <2>3 DEF Ahead!TimersNext
    <2>4. CASE Pending' = Pending
      BY <1>7, <2>1, <2>4
    <2>5. QED
      BY <1>8, <2>2, <2>3, <2>4, TimersCalling
  <1>9. CASE Return
    <2>1. PICK d \in 0 .. 1 : Elapsed(d)
      BY <1>9, TimersReturn
    <2>2. d \in 0 .. MaxTime + 1 /\ ~Running'
      BY <1>9, TimersReturn, EvAssumption
    <2>3. QED
      BY <1>6, <2>1, <2>2 DEF Ahead!TimersNext
  <1>10. CASE Poll \/ Interrupted
    BY <1>6, <1>10, TimersPoll DEF Ahead!TimersNext
  <1>11. CASE Expire
    <2>1. PICK t \in Pending : t.rest = 0 /\ Pending' = Pending \ {t}
      BY <1>11, TimersExpire
    <2>2. ~Running /\ Running'
      BY <1>11, TimersExpire
    <2>3. t.id \in DOMAIN Abs /\ Abs[t.id] = 0 /\ Abs' = Ahead!Without(t.id)
      BY <1>5, <2>1
    <2>4. Ahead!Fire
      BY <2>2, <2>3 DEF Ahead!Fire
    <2>5. QED
      BY <2>4 DEF Ahead!TimersNext
  <1>12. CASE CountDown
    BY <1>7, <1>12, TimersCountDown
  <1>13. CASE Step \/ TimersDone \/ Skip \/ Serve \/ FdsDone \/ Signal \/ UNCHANGED vars
    BY <1>7, <1>13, TimersElsewhere
  <1>14. QED
    BY <1>8, <1>9, <1>10, <1>11, <1>12, <1>13 DEF EvNext, Looping

(* The loop keeps what its users are promised of timers: each that was     *)
(* added and not cancelled fires once, and not before its time, however    *)
(* callbacks add and cancel timers while they are counted down.            *)
THEOREM TimersAreSafe == EvSpec => TimersAreKept
  BY AheadStart, AheadStep, FdInvariance, TimersInvariance, PTL
     DEF EvSpec, TimersAreKept, Ahead!TimersSpec

-----------------------------------------------------------------------------
(* No more timers are pending than MaxTimers.                              *)
LEMMA IdsAreFinite ==
    ASSUME NEW X, X \subseteq Timer
    PROVE  IsFiniteSet(IdsOf(X)) /\ Cardinality(IdsOf(X)) \in Nat
  <1>1. IsFiniteSet(TimerId)
    BY EvAssumption, FS_Interval DEF TimerId
  <1>2. IdsOf(X) \in SUBSET TimerId
    BY TimerFields DEF IdsOf
  <1>3. IsFiniteSet(IdsOf(X))
    BY <1>1, <1>2, FS_Subset
  <1>4. QED
    BY <1>3, FS_CardinalityType

LEMMA IdsAreCounted ==
    ASSUME NEW X, X \subseteq Timer, Unique(X)
    PROVE  Cardinality(X) = Cardinality(IdsOf(X))
  <1> DEFINE f == [t \in X |-> t.id]
  <1>1. f \in [X -> IdsOf(X)] /\ \A t \in X : f[t] = t.id
    BY DEF IdsOf
  <1> HIDE DEF f
  <1>2. f \in Injection(X, IdsOf(X))
    BY <1>1 DEF Injection, IsInjective, Unique
  <1>3. f \in Surjection(X, IdsOf(X))
    BY <1>1 DEF Surjection, IdsOf
  <1>4. QED
    BY <1>2, <1>3, IdsAreFinite, FS_Injection

LEMMA TimersAreCounted ==
    ASSUME NEW h, Good(h), NEW X, X \subseteq Timer, ToSet(h) \subseteq X
    PROVE  Len(h) <= Cardinality(IdsOf(X))
  <1>1. PICK c \in Nat : c = Len(h)
    BY LenProperties DEF Good
  <1> DEFINE f == [k \in 1 .. c |-> h[k].id]
  <1>2. \A k \in 1 .. c : h[k] \in X
    BY <1>1, InToSet DEF Good
  <1>3. f \in [1 .. c -> IdsOf(X)] /\ \A k \in 1 .. c : f[k] = h[k].id
    BY <1>2 DEF IdsOf
  <1> HIDE DEF f
  <1>4. \A a, b \in 1 .. c : f[a] = f[b] => a = b
    BY <1>1, <1>3 DEF Good, Distinct
  <1>5. f \in Injection(1 .. c, IdsOf(X))
    BY <1>3, <1>4 DEF Injection, IsInjective
  <1>6. Cardinality(1 .. c) <= Cardinality(IdsOf(X))
    BY <1>5, IdsAreFinite, FS_Injection
  <1>7. Cardinality(1 .. c) = c
    BY FS_Interval
  <1>8. QED
    BY <1>1, <1>6, <1>7

Bounded == Cardinality(IdsOf(Pending)) <= MaxTimers

LEMMA BoundedStart == EvInit => Bounded
  <1> SUFFICES ASSUME EvInit PROVE Bounded
    OBVIOUS
  <1>1. Pending = {}
    BY EmptyIsGood DEF EvInit, Pending
  <1>2. IdsOf(Pending) = {}
    BY <1>1 DEF IdsOf
  <1>3. QED
    BY <1>2, FS_EmptySet, EvAssumption DEF Bounded

LEMMA BoundedStep ==
    ASSUME Bounded, TimersInv, FdInv, [EvNext]_vars
    PROVE  Bounded'
  <1>1. Unique(Pending) /\ Pending \subseteq Timer
    BY PendingIsUnique DEF TimersInv
  <1>2. PICK c \in Nat : c = Cardinality(IdsOf(Pending))
    BY <1>1, IdsAreFinite
  <1>3. c <= MaxTimers /\ MaxTimers \in Nat
    BY <1>2, EvAssumption DEF Bounded
  <1>4. ASSUME IdsOf(Pending') \subseteq IdsOf(Pending)
        PROVE  Bounded'
    <2>1. IsFiniteSet(IdsOf(Pending)) /\ IdsOf(Pending') \in SUBSET IdsOf(Pending)
      BY <1>1, <1>4, IdsAreFinite
    <2>2. IsFiniteSet(IdsOf(Pending')) /\ Cardinality(IdsOf(Pending')) <= c
      BY <1>2, <2>1, FS_Subset
    <2>3. Cardinality(IdsOf(Pending')) \in Nat
      BY <2>2, FS_CardinalityType
    <2>4. Cardinality(IdsOf(Pending')) <= MaxTimers
      BY <1>3, <2>2, <2>3
    <2>5. QED
      BY <2>4 DEF Bounded
  <1>5. CASE Calling
    <2>1. \/ IdsOf(Pending') \subseteq IdsOf(Pending)
          \/ EvTimer /\ \E id : IdsOf(Pending') = IdsOf(Pending) \cup {id}
      BY <1>5, TimersCalling DEF IdsOf
    <2>2. CASE EvTimer /\ \E id : IdsOf(Pending') = IdsOf(Pending) \cup {id}
      <3>1. c < MaxTimers
        BY <1>1, <1>2, <2>2, IdsAreCounted DEF EvTimer
      <3>2. PICK id : IdsOf(Pending') = IdsOf(Pending) \cup {id}
        BY <2>2
      <3>3. Cardinality(IdsOf(Pending')) = IF id \in IdsOf(Pending) THEN c ELSE c + 1
        BY <1>1, <1>2, <3>2, IdsAreFinite, FS_AddElement
      <3>4. Cardinality(IdsOf(Pending')) <= MaxTimers
        BY <1>3, <3>1, <3>3
      <3>5. QED
        BY <3>4 DEF Bounded
    <2>3. QED
      BY <1>4, <2>1, <2>2
  <1>6. CASE Return \/ Poll \/ Interrupted
    <2>1. PICK d : Pending' = AllLater(Pending, d)
      BY <1>6, TimersReturn, TimersPoll DEF Elapsed
    <2>2. ASSUME NEW t \in Pending
          PROVE  [t EXCEPT !.rest = Less(@, d)].id = t.id
      BY <1>1 DEF Timer
    <2>3. IdsOf(Pending') \subseteq IdsOf(Pending)
      BY <2>1, <2>2 DEF IdsOf, AllLater
    <2>4. QED
      BY <1>4, <2>3
  <1>7. CASE Expire
    <2>1. IdsOf(Pending') \subseteq IdsOf(Pending)
      BY <1>7, TimersExpire DEF IdsOf
    <2>2. QED
      BY <1>4, <2>1
  <1>8. CASE CountDown
    <2>1. Left(Pending') = Left(Pending)
      BY <1>8, TimersCountDown
    <2>2. DOMAIN Left(Pending') = IdsOf(Pending') /\ DOMAIN Left(Pending) = IdsOf(Pending)
      BY DEF Left
    <2>3. QED
      BY <1>4, <2>1, <2>2
  <1>9. CASE Step \/ TimersDone \/ Skip \/ Serve \/ FdsDone \/ Signal \/ UNCHANGED vars
    <2>1. Pending' = Pending
      BY <1>9, TimersElsewhere
    <2>2. QED
      BY <1>4, <2>1
  <1>10. QED
    BY <1>5, <1>6, <1>7, <1>8, <1>9 DEF EvNext, Looping

LEMMA BoundedInvariance == EvSpec => []Bounded
  BY BoundedStart, BoundedStep, FdInvariance, TimersInvariance, PTL DEF EvSpec

LEMMA HeapIsBounded ==
    ASSUME TimersInv, Bounded
    PROVE  Len(timers) \in Nat /\ Len(timers) <= MaxTimers
  <1>1. Pending \subseteq Timer /\ ToSet(timers) \subseteq Pending /\ Good(timers)
    BY PendingIsUnique DEF TimersInv, Pending
  <1>2. Len(timers) \in Nat
    BY <1>1, LenProperties DEF Good
  <1>3. Len(timers) <= Cardinality(IdsOf(Pending)) /\ Cardinality(IdsOf(Pending)) \in Nat
    BY <1>1, IdsAreFinite, TimersAreCounted
  <1>4. QED
    BY <1>2, <1>3, EvAssumption DEF Bounded

-----------------------------------------------------------------------------
(* With three timers at most the first of the array is the nearest: one    *)
(* turn of bubbledown() is all there is to do.                             *)
Nearest(s) == \A k \in 1 .. Len(s) : s[1].tv <= s[k].tv

LEMMA TurnSuffices ==
    ASSUME NEW h \in Seq(Timer), NEW j \in 1 .. Len(h), Len(h) <= 3
    PROVE  BubbleDown(h, j) = Turn([heap |-> h, at |-> j]).heap
  <1>1. PICK c \in Nat : c = Len(h)
    BY LenProperties
  <1>2. PICK x : x = [heap |-> h, at |-> j]
    OBVIOUS
  <1>3. PICK d : d = Turn(x)
    OBVIOUS
  <1>4. x.heap = h /\ x.at = j /\ c \in 1 .. 3 /\ j \in 1 .. c
    BY <1>1, <1>2
  <1>5. Turn(d) = d
    <2>1. CASE InPlace(h, j)
      BY <1>3, <1>4, <2>1 DEF Turn
    <2>2. CASE ~InPlace(h, j)
      <3>1. PICK b : b = Child(h, j)
        OBVIOUS
      <3>2. b \in 2 .. c
        <4>1. 2 * j <= c
          BY <1>1, <1>4, <2>2 DEF InPlace
        <4>2. j = 1
          BY <1>4, <4>1
        <4>3. QED
          BY <1>1, <1>4, <3>1, <4>1, <4>2 DEF Child
      <3>3. PICK e : e = Swap(h, j, b)
        OBVIOUS
      <3>4. d = [heap |-> e, at |-> b]
        BY <1>3, <1>4, <2>2, <3>1, <3>3 DEF Turn
      <3>5. d.heap = e /\ d.at = b
        BY <3>4
      <3>6. Len(e) = c
        <4>1. h \in [1 .. c -> Timer]
          BY <1>1, LenProperties
        <4>2. e \in [1 .. c -> Timer]
          BY <1>4, <3>2, <3>3, <4>1 DEF Swap
        <4>3. QED
          BY <4>2
      <3>7. InPlace(e, b)
        BY <1>4, <3>2, <3>6 DEF InPlace
      <3>8. QED
        BY <3>5, <3>7 DEF Turn
    <2>3. QED
      BY <2>1, <2>2
  <1> DEFINE after == CHOOSE g : g = [k \in 0 .. c |-> IF k = 0 THEN x ELSE Turn(g[k - 1])]
             f == [k \in 0 .. c |-> IF k = 0 THEN x ELSE d]
  <1>6. f = [k \in 0 .. c |-> IF k = 0 THEN x ELSE Turn(f[k - 1])]
    <2>1. ASSUME NEW k \in 0 .. c, k # 0
          PROVE  d = Turn(f[k - 1])
      <3>1. k - 1 \in 0 .. c
        BY <2>1
      <3>2. CASE k - 1 = 0
        BY <1>3, <3>1, <3>2
      <3>3. CASE k - 1 # 0
        BY <1>5, <3>1, <3>3
      <3>4. QED
        BY <3>2, <3>3
    <2>2. QED
      BY <2>1
  <1>7. after = [k \in 0 .. c |-> IF k = 0 THEN x ELSE Turn(after[k - 1])]
    <2> HIDE DEF f
    <2>1. QED
      BY <1>6
  <1>8. BubbleDown(h, j) = after[c].heap
    BY <1>1, <1>2 DEF BubbleDown
  <1> HIDE DEF after, f
  <1>9. \A k \in 1 .. c : after[k] = Turn(after[k - 1])
    BY <1>7
  <1>10. after[0] = x
    BY <1>4, <1>7
  <1>11. after[1] = d
    BY <1>3, <1>4, <1>9, <1>10
  <1>12. c >= 2 => after[2] = d
    BY <1>4, <1>5, <1>9, <1>11
  <1>13. c >= 3 => after[3] = d
    BY <1>4, <1>5, <1>9, <1>12
  <1>14. after[c] = d
    BY <1>4, <1>11, <1>12, <1>13
  <1>15. QED
    BY <1>2, <1>3, <1>8, <1>14

LEMMA BubbleDownFirst ==
    ASSUME NEW h \in Seq(Timer), 1 \in 1 .. Len(h), Len(h) <= 3
    PROVE  Nearest(BubbleDown(h, 1))
  <1>1. PICK c \in Nat : c = Len(h)
    BY LenProperties
  <1>2. h \in [1 .. c -> Timer] /\ c \in 1 .. 3
    BY <1>1, LenProperties
  <1>3. PICK x : x = [heap |-> h, at |-> 1]
    OBVIOUS
  <1>4. x.heap = h /\ x.at = 1 /\ BubbleDown(h, 1) = Turn(x).heap
    BY <1>3, TurnSuffices
  <1>5. \A k \in 1 .. c : h[k].tv \in Nat
    BY <1>2, TimerFields
  <1>6. CASE InPlace(h, 1)
    <2>1. BubbleDown(h, 1) = h
      BY <1>4, <1>6 DEF Turn
    <2>2. \A k \in 1 .. c : h[1].tv <= h[k].tv
      <3>1. CASE c = 1
        BY <1>5, <3>1
      <3>2. CASE c = 2
        <4>1. h[1].tv < h[2].tv
          BY <1>1, <1>6, <3>2 DEF InPlace, Child
        <4>2. QED
          BY <1>5, <3>2, <4>1
      <3>3. CASE c = 3
        <4>1. h[1].tv < h[IF h[2].tv < h[3].tv THEN 2 ELSE 3].tv
          BY <1>1, <1>6, <3>3 DEF InPlace, Child
        <4>2. \A k \in 1 .. 3 : k = 1 \/ k = 2 \/ k = 3
          OBVIOUS
        <4>3. h[1].tv \in Nat /\ h[2].tv \in Nat /\ h[3].tv \in Nat
          BY <1>5, <3>3
        <4>4. h[1].tv <= h[1].tv /\ h[1].tv <= h[2].tv /\ h[1].tv <= h[3].tv
          BY <4>1, <4>3
        <4>5. QED
          BY <3>3, <4>2, <4>4
      <3>4. QED
        BY <1>2, <3>1, <3>2, <3>3
    <2>3. QED
      BY <1>1, <2>1, <2>2 DEF Nearest
  <1>7. CASE ~InPlace(h, 1)
    <2>1. PICK b : b = Child(h, 1)
      OBVIOUS
    <2>2. PICK e : e = Swap(h, 1, b)
      OBVIOUS
    <2>3. BubbleDown(h, 1) = e
      BY <1>4, <1>7, <2>1, <2>2 DEF Turn
    <2>4. c >= 2 /\ ~(h[1].tv < h[b].tv)
      BY <1>1, <1>7, <2>1 DEF InPlace
    <2>5. \/ c = 2 /\ b = 2
          \/ c = 3 /\ b = (IF h[2].tv < h[3].tv THEN 2 ELSE 3)
      BY <1>1, <1>2, <2>1, <2>4 DEF Child
    <2>6. b \in 2 .. c
      BY <2>5
    <2>7. /\ e \in [1 .. c -> Timer] /\ e[1] = h[b] /\ e[b] = h[1]
          /\ \A k \in 1 .. c : k # 1 /\ k # b => e[k] = h[k]
      BY <1>2, <2>2, <2>6 DEF Swap
    <2>8. h[b].tv <= h[1].tv /\ \A k \in 2 .. c : h[b].tv <= h[k].tv
      <3>1. h[1].tv \in Nat /\ h[b].tv \in Nat
        BY <1>5, <2>6
      <3>2. h[b].tv <= h[1].tv
        BY <2>4, <3>1
      <3>3. ASSUME NEW k \in 2 .. c
            PROVE  h[b].tv <= h[k].tv
        <4>1. h[k].tv \in Nat /\ h[2].tv \in Nat
          BY <1>5, <2>4
        <4>2. k = 2 \/ (k = 3 /\ c = 3)
          BY <2>5
        <4>3. CASE c = 2
          BY <2>5, <3>1, <4>2, <4>3
        <4>4. CASE c = 3
          BY <2>5, <3>1, <4>1, <4>2, <4>4
        <4>5. QED
          BY <2>5, <4>3, <4>4
      <3>4. QED
        BY <3>2, <3>3
    <2>9. ASSUME NEW k \in 1 .. c
          PROVE  e[1].tv <= e[k].tv
      <3>1. h[b].tv \in Nat
        BY <1>5, <2>6
      <3>2. CASE k = 1
        BY <2>7, <3>1, <3>2
      <3>3. CASE k = b
        BY <2>7, <2>8, <3>3
      <3>4. CASE k # 1 /\ k # b
        <4>1. k \in 2 .. c
          BY <3>4
        <4>2. QED
          BY <2>7, <2>8, <3>4, <4>1
      <3>5. QED
        BY <3>2, <3>3, <3>4
    <2>10. Len(e) = c
      BY <2>7
    <2>11. QED
      BY <2>3, <2>9, <2>10 DEF Nearest
  <1>8. QED
    BY <1>6, <1>7

LEMMA BubbleDownOther ==
    ASSUME NEW h \in Seq(Timer), NEW j \in 1 .. Len(h), j # 1, Len(h) <= 3
    PROVE  BubbleDown(h, j) = h
  <1>1. PICK x : x = [heap |-> h, at |-> j]
    OBVIOUS
  <1>2. x.heap = h /\ x.at = j /\ BubbleDown(h, j) = Turn(x).heap
    BY <1>1, TurnSuffices
  <1>3. InPlace(h, j)
    <2>1. Len(h) \in Nat
      BY LenProperties
    <2>2. 2 * j > Len(h)
      BY <2>1
    <2>3. QED
      BY <2>2 DEF InPlace
  <1>4. QED
    BY <1>2, <1>3 DEF Turn

(* cancel_timer() and timerheapify() keep the nearest of three in front.   *)
LEMMA CancelKeepsNearest ==
    ASSUME NEW h \in Seq(Timer), NEW j \in 1 .. Len(h), Len(h) <= 3, Nearest(h)
    PROVE  Nearest(CancelTimer(h, j))
  <1>1. PICK c \in Nat : c = Len(h)
    BY LenProperties
  <1>2. PICK f : f = Filled(h, j)
    OBVIOUS
  <1>3. f \in Seq(Timer) /\ Len(f) = c - 1
    BY <1>1, <1>2, FilledLeaves DEF Leaves
  <1>4. \A k \in 1 .. c - 1 : f[k] = IF k = j THEN h[c] ELSE h[k]
    BY <1>1, <1>2 DEF Filled
  <1>5. \A k \in 1 .. c : h[1].tv <= h[k].tv
    BY <1>1 DEF Nearest
  <1>6. j # 1 => Nearest(f)
    <2> SUFFICES ASSUME j # 1, NEW k \in 1 .. c - 1
                 PROVE  f[1].tv <= f[k].tv
      BY <1>3 DEF Nearest
    <2>1. k \in 1 .. c /\ c \in 1 .. c /\ 1 \in 1 .. c - 1
      OBVIOUS
    <2>2. f[1] = h[1] /\ (f[k] = h[c] \/ f[k] = h[k])
      BY <1>4, <2>1
    <2>3. QED
      BY <1>5, <2>1, <2>2
  <1>7. CASE j = c
    <2>1. CancelTimer(h, j) = f
      BY <1>1, <1>2, <1>7, FrontIsFilled DEF CancelTimer
    <2>2. CASE c = 1
      BY <1>3, <2>1, <2>2 DEF Nearest
    <2>3. QED
      BY <1>6, <1>7, <2>1, <2>2
  <1>8. CASE j # c
    <2>1. CancelTimer(h, j) = BubbleDown(f, j)
      BY <1>1, <1>2, <1>8, FrontIsFilled DEF CancelTimer
    <2>2. j \in 1 .. Len(f) /\ Len(f) <= 3
      BY <1>1, <1>3, <1>8
    <2>3. CASE j = 1
      <3>1. Nearest(BubbleDown(f, 1))
        BY <1>3, <2>2, <2>3, BubbleDownFirst
      <3>2. QED
        BY <2>1, <2>3, <3>1
    <2>4. CASE j # 1
      <3>1. BubbleDown(f, j) = f
        BY <1>3, <2>2, <2>4, BubbleDownOther
      <3>2. QED
        BY <1>6, <2>1, <2>4, <3>1
    <2>5. QED
      BY <2>3, <2>4
  <1>9. QED
    BY <1>7, <1>8

LEMMA HeapifyMakesNearest ==
    ASSUME NEW h \in Seq(Timer), NEW r \in Seq(Timer), Len(h \o r) <= 3, Nearest(h)
    PROVE  Nearest(Heapify(h, r))
  <1>1. PICK all : all = h \o r
    OBVIOUS
  <1>2. all \in Seq(Timer) /\ Len(all) \in Nat /\ Len(all) <= 3
    BY <1>1, ConcatProperties, LenProperties
  <1>3. PICK half \in 0 .. 1 : half = Len(all) \div 2
    <2>1. Len(all) \div 2 \in 0 .. 1
      BY <1>2
    <2>2. QED
      BY <2>1
  <1> DEFINE after == CHOOSE g : g = [k \in 0 .. half |->
                          IF k = 0 THEN all ELSE BubbleDown(g[k - 1], half + 1 - k)]
             f == [k \in 0 .. half |-> IF k = 0 THEN all ELSE BubbleDown(all, 1)]
  <1>4. f = [k \in 0 .. half |-> IF k = 0 THEN all ELSE BubbleDown(f[k - 1], half + 1 - k)]
    <2>1. ASSUME NEW k \in 0 .. half, k # 0
          PROVE  BubbleDown(f[k - 1], half + 1 - k) = BubbleDown(all, 1)
      <3>1. k - 1 = 0 /\ half + 1 - k = 1 /\ 0 \in 0 .. half
        BY <2>1
      <3>2. f[0] = all
        BY <3>1
      <3>3. QED
        BY <3>1, <3>2
    <2>2. QED
      BY <2>1
  <1>5. after = [k \in 0 .. half |->
                     IF k = 0 THEN all ELSE BubbleDown(after[k - 1], half + 1 - k)]
    <2> HIDE DEF f
    <2>1. QED
      BY <1>4
  <1>6. r # <<>> => Heapify(h, r) = after[half]
    BY <1>1, <1>3 DEF Heapify
  <1> HIDE DEF after, f
  <1>7. CASE r = <<>>
    BY <1>7 DEF Heapify
  <1>8. CASE r # <<>> /\ half = 0
    <2>1. Heapify(h, r) = all
      BY <1>5, <1>6, <1>8
    <2>2. \A k \in 1 .. Len(all) : k = 1
      BY <1>2, <1>3, <1>8
    <2>3. ASSUME NEW k \in 1 .. Len(all) PROVE all[1].tv <= all[k].tv
      <3>1. k = 1 /\ all[k] \in Timer
        BY <1>2, <2>2, InToSet
      <3>2. all[k].tv \in Nat
        BY <3>1, TimerFields
      <3>3. QED
        BY <3>1, <3>2
    <2>4. QED
      BY <2>1, <2>3 DEF Nearest
  <1>9. CASE r # <<>> /\ half = 1
    <2>1. after[0] = all /\ after[1] = BubbleDown(after[0], 1)
      BY <1>5, <1>9
    <2>2. Heapify(h, r) = BubbleDown(all, 1)
      BY <1>6, <1>9, <2>1
    <2>3. 1 \in 1 .. Len(all)
      BY <1>2, <1>3, <1>9
    <2>4. QED
      BY <1>2, <2>2, <2>3, BubbleDownFirst
  <1>10. QED
    BY <1>7, <1>8, <1>9

-----------------------------------------------------------------------------
(* While the heap is counted down its first timer is, so that the others   *)
(* seem further off than they are; but then none of them is due, and no    *)
(* callback comes in between.                                              *)
NotDue(s, from, d) ==
    \A k \in 1 .. Len(s) : k >= from => s[k].tv > d /\ s[k].tv >= s[1].tv + d

OrderInv ==
    /\ Nearest(timers)
    /\ pc = "timers" /\ i > 1 => NotDue(timers, i, tv)
    /\ event = "timeout" => i = 1

LEMMA OrderStart == EvInit => OrderInv
  <1> SUFFICES ASSUME EvInit PROVE OrderInv
    OBVIOUS
  <1>1. timers = <<>> /\ pc = Busy /\ i = 1
    BY DEF EvInit
  <1>2. Len(timers) = 0
    BY <1>1
  <1>3. QED
    BY <1>1, <1>2 DEF OrderInv, Nearest, Busy

(* Steps that leave the heap as it is, but for the time that is left.      *)
LEMMA LaterKeepsNearest ==
    ASSUME NEW h \in Seq(Timer), NEW d \in Nat, Good(h), Nearest(h)
    PROVE  Nearest(Later(h, d))
  <1>1. PICK c \in Nat : c = Len(h)
    BY LenProperties
  <1>2. PICK g : g = Later(h, d)
    OBVIOUS
  <1>3. DOMAIN h = 1 .. c /\ \A k \in 1 .. c : h[k] \in Timer
    BY <1>1, LenProperties, InToSet
  <1>4. g = [k \in 1 .. c |-> [h[k] EXCEPT !.rest = Less(@, d)]]
    BY <1>2, <1>3 DEF Later
  <1>5. ASSUME NEW k \in 1 .. c PROVE g[k].tv = h[k].tv
    BY <1>3, <1>4 DEF Timer
  <1>6. g \in Seq(Timer)
    BY <1>2, GoodLater DEF Good
  <1>7. Len(g) = c
    <2>1. DOMAIN g = 1 .. c /\ DOMAIN g = 1 .. Len(g) /\ Len(g) \in Nat
      BY <1>4, <1>6, LenProperties
    <2>2. QED
      BY <2>1
  <1>8. ASSUME NEW k \in 1 .. c PROVE g[1].tv <= g[k].tv
    <2>1. 1 \in 1 .. c
      OBVIOUS
    <2>2. h[1].tv <= h[k].tv
      BY <1>1 DEF Nearest
    <2>3. QED
      BY <1>5, <2>1, <2>2
  <1>9. QED
    BY <1>2, <1>7, <1>8 DEF Nearest

LEMMA OrderKept ==
    ASSUME OrderInv, timers' = timers,
           pc' = "timers" => i' = 1 \/ (pc = "timers" /\ UNCHANGED <<i, tv>>),
           event' = "timeout" => event = "timeout" /\ i' = i
    PROVE  OrderInv'
  BY DEF OrderInv

LEMMA OrderCountDown ==
    ASSUME OrderInv, TimersInv, FdInv, CountDown
    PROVE  OrderInv'
  <1>1. /\ pc = "timers" /\ i <= Len(timers) /\ ~(timers[i].tv <= tv)
        /\ timers' = [timers EXCEPT ![i].tv = @ - tv] /\ i' = i + 1
        /\ UNCHANGED <<tv, pc, event>>
    BY DEF CountDown, Due
  <1>2. /\ timers \in Seq(Timer) /\ tv \in Nat /\ i \in Nat \ {0} /\ event = "none"
    BY <1>1 DEF TimersInv, FdInv, LoopType, Good, Busy
  <1>3. PICK c \in Nat : c = Len(timers)
    BY <1>2, LenProperties
  <1>4. i \in 1 .. c
    BY <1>1, <1>2, <1>3
  <1>5. \A k \in 1 .. c : timers[k].tv \in Nat
    BY <1>2, <1>3, InToSet, TimerFields
  <1>6. timers[i].tv > tv
    BY <1>1, <1>2, <1>4, <1>5
  <1>7. PICK g : g = timers'
    OBVIOUS
  <1>8. Len(g) = c
    <2>1. g = CountedDown(timers, i, tv)
      BY <1>1, <1>7 DEF CountedDown
    <2>2. Good(timers) /\ Counted(timers, i, tv)
      BY <1>1 DEF TimersInv, InTimers
    <2>3. i \in 1 .. Len(timers)
      BY <1>3, <1>4
    <2>4. QED
      BY ONLY <1>2, <1>3, <1>6, <2>1, <2>2, <2>3, GoodCountDown
  <1>9. /\ g[i].tv = timers[i].tv - tv
        /\ \A k \in 1 .. c : k # i => g[k].tv = timers[k].tv
    <2>1. timers \in [1 .. c -> Timer]
      BY <1>2, <1>3, LenProperties
    <2>2. g[i] = [timers[i] EXCEPT !.tv = @ - tv] /\ timers[i] \in Timer
      BY <1>1, <1>4, <1>7, <2>1
    <2>3. QED
      BY <1>1, <1>4, <1>7, <2>1, <2>2 DEF Timer
  <1>10. \A k \in 1 .. c : timers[1].tv <= timers[k].tv
    BY <1>3 DEF OrderInv, Nearest
  <1>11. i > 1 => \A k \in 1 .. c : k >= i => timers[k].tv > tv /\ timers[k].tv >= timers[1].tv + tv
    BY <1>1, <1>3 DEF OrderInv, NotDue
  <1>12. 1 \in 1 .. c
    BY <1>4
  <1>13. ASSUME NEW k \in 1 .. c
         PROVE  /\ g[1].tv <= g[k].tv
                /\ k >= i + 1 => g[k].tv > tv /\ g[k].tv >= g[1].tv + tv
    <2>1. timers[1].tv \in Nat /\ timers[k].tv \in Nat /\ timers[i].tv \in Nat
      BY <1>4, <1>5, <1>12
    <2>2. timers[1].tv <= timers[k].tv /\ timers[1].tv <= timers[i].tv
      BY <1>4, <1>10
    <2>3. CASE i = 1
      <3>1. g[1].tv = timers[1].tv - tv /\ (k # 1 => g[k].tv = timers[k].tv)
        BY <1>9, <2>3
      <3>2. CASE k = 1
        BY <1>2, <2>1, <2>3, <3>1, <3>2
      <3>3. CASE k # 1
        <4>1. g[k].tv = timers[k].tv
          BY <3>1, <3>3
        <4>2. timers[1].tv > tv
          BY <1>6, <2>3
        <4>3. QED
          BY <1>2, <2>1, <2>2, <3>1, <4>1, <4>2
      <3>4. QED
        BY <3>2, <3>3
    <2>4. CASE i > 1
      <3>1. g[1].tv = timers[1].tv
        BY <1>9, <1>12, <2>4
      <3>2. timers[i].tv >= timers[1].tv + tv
        BY <1>2, <1>4, <1>11, <2>4
      <3>3. CASE k = i
        BY <1>2, <1>9, <2>1, <3>1, <3>2, <3>3
      <3>4. CASE k # i
        <4>1. g[k].tv = timers[k].tv
          BY <1>9, <3>4
        <4>2. k >= i + 1 => timers[k].tv > tv /\ timers[k].tv >= timers[1].tv + tv
          BY <1>2, <1>11, <2>4
        <4>3. QED
          BY <2>2, <3>1, <4>1, <4>2
      <3>5. QED
        BY <3>3, <3>4
    <2>5. QED
      BY <1>2, <2>3, <2>4
  <1>14. Nearest(g) /\ NotDue(g, i + 1, tv)
    BY <1>8, <1>13 DEF Nearest, NotDue
  <1>15. QED
    BY <1>1, <1>2, <1>7, <1>14 DEF OrderInv

LEMMA OrderStep ==
    ASSUME MaxTimers <= Few,
           OrderInv, Bounded, Bounded', TimersInv, TimersInv', FdInv, [EvNext]_vars
    PROVE  OrderInv'
  <1>1. /\ Good(timers) /\ Good(reserve) /\ timers \in Seq(Timer) /\ reserve \in Seq(Timer)
        /\ tv \in Nat /\ i \in Nat \ {0} /\ Nearest(timers)
    BY DEF TimersInv, Good, FdInv, LoopType, OrderInv
  <1>2. Len(timers) <= 3
    BY HeapIsBounded, EvAssumption DEF Few
  <1>3. pc # Busy => event # "timeout"
    BY DEF FdInv, LoopType
  <1>4. "timeout" \notin AllFd
    BY EvAssumption DEF AllFd
  <1>5. CASE EvTimerCancel
    <2>1. UNCHANGED <<i, tv, pc, event>> /\ pc = Busy
      BY <1>5 DEF EvTimerCancel, Call, loopVars
    <2>2. CASE \E j \in DOMAIN timers : timers' = CancelTimer(timers, j)
      <3>1. PICK j \in 1 .. Len(timers) : timers' = CancelTimer(timers, j)
        BY <1>1, <2>2, LenProperties
      <3>2. Nearest(timers')
        BY <1>1, <1>2, <3>1, CancelKeepsNearest
      <3>3. QED
        BY <2>1, <3>2 DEF OrderInv, Busy
    <2>3. CASE timers' = timers
      BY <2>1, <2>3, OrderKept DEF Busy
    <2>4. QED
      BY <1>5, <2>2, <2>3 DEF EvTimerCancel
  <1>6. CASE EvTimer \/ EvAdd \/ EvDel \/ EvBreak
    <2>1. UNCHANGED <<timers, i, tv, pc, event>> /\ pc = Busy
      BY <1>6 DEF EvTimer, Put, EvAdd, EvDel, EvBreak, Call, loopVars, timerVars
    <2>2. QED
      BY <2>1, OrderKept DEF Busy
  <1>7. CASE Return
    <2>1. PICK d \in 0 .. 1 : timers' = Later(timers, d)
      BY <1>7 DEF Return
    <2>2. UNCHANGED <<i, tv>> /\ event' = "none" /\ (pc' = "timers" => event = "timeout")
      BY <1>7, <1>3 DEF Return, loopVars
    <2>3. Nearest(timers')
      BY <1>1, <2>1, LaterKeepsNearest
    <2>4. QED
      BY <1>1, <2>2, <2>3 DEF OrderInv
  <1>8. CASE Step
    <2>1. UNCHANGED <<i, tv, event>> /\ pc = "step" /\ pc' # "timers"
      BY <1>8 DEF Step, loopVars
    <2>2. Nearest(timers')
      <3>1. CASE timers' = timers
        BY <1>1, <3>1
      <3>2. CASE timers' = Heapify(timers, reserve)
        <4>1. Good(timers') /\ Good(reserve') /\ Apart'
          BY DEF TimersInv
        <4>2. /\ ToSet(timers') \subseteq ToSet(timers') \cup ToSet(reserve')
              /\ ToSet(timers') \cup ToSet(reserve') \subseteq Timer
              /\ ToSet(timers') \cup ToSet(reserve') = Pending'
          BY <4>1, InToSet DEF Good, Pending
        <4>3. Len(timers') <= Cardinality(IdsOf(Pending'))
          BY <4>1, <4>2, TimersAreCounted
        <4>4. Cardinality(IdsOf(Pending')) \in Nat /\ Cardinality(IdsOf(Pending')) <= MaxTimers
          BY <4>2, IdsAreFinite DEF Bounded
        <4>5. timers \o reserve \in Seq(Timer) /\ Len(timers \o reserve) \in Nat
          BY <1>1, ConcatProperties, LenProperties
        <4>6. timers' \in Shuffled(timers \o reserve, Len(timers \o reserve))
          BY <1>1, <3>2, HeapifyShuffles
        <4>7. Len(timers') = Len(timers \o reserve)
          BY <4>5, <4>6 DEF Shuffled
        <4>8. Len(timers \o reserve) <= 3
          BY <4>3, <4>4, <4>5, <4>7, EvAssumption DEF Few
        <4>9. QED
          BY <1>1, <3>2, <4>8, HeapifyMakesNearest
      <3>3. QED
        BY <1>8, <3>1, <3>2 DEF Step
    <2>3. QED
      BY <1>3, <2>1, <2>2 DEF OrderInv, Busy
  <1>9. CASE Poll \/ Interrupted
    <2>1. i' = 1 /\ UNCHANGED event
      BY <1>9 DEF Poll, Interrupted, PollReturned
    <2>2. PICK d \in Nat : timers' = Later(timers, d)
      <3>1. \E d : timers' = Later(timers, d) /\ d \in Nat
        <4>1. CASE /\ timers # <<>>
                   /\ \E late \in 0 .. 1 : timers' = Later(timers, timers[1].tv + late)
          <5>1. timers[1].tv \in Nat
            BY <1>1, <4>1, EmptySeq, ElementOfSeq, TimerFields
          <5>2. PICK late \in 0 .. 1 : timers' = Later(timers, timers[1].tv + late)
            BY <4>1
          <5>3. timers[1].tv + late \in Nat
            BY <5>1
          <5>4. QED
            BY <5>2, <5>3
        <4>2. CASE \E d \in 0 .. MaxTime : timers' = Later(timers, d)
          BY <4>2
        <4>3. QED
          BY <1>9, <4>1, <4>2 DEF Poll, Interrupted, Polled
      <3>2. QED
        BY <3>1
    <2>3. Nearest(timers')
      BY <1>1, <2>2, LaterKeepsNearest
    <2>4. QED
      BY <2>1, <2>3 DEF OrderInv
  <1>10. CASE Expire
    <2>1. /\ pc = "timers" /\ i <= Len(timers) /\ timers[i].tv <= tv /\ i' = i /\ pc' = Busy
          /\ timers' = CancelTimer(timers, i)
      BY <1>10 DEF Expire, Due, Callback, loopVars
    <2>2. i \in 1 .. Len(timers)
      BY <1>1, <2>1, LenProperties
    <2>3. i = 1
      <3>1. timers[i].tv \in Nat
        BY <1>1, <2>2, InToSet, TimerFields
      <3>2. ~(timers[i].tv > tv)
        BY <1>1, <2>1, <3>1
      <3>3. ~(i > 1)
        BY <1>1, <2>1, <2>2, <3>2 DEF OrderInv, NotDue
      <3>4. QED
        BY <1>1, <3>3
    <2>4. Nearest(timers')
      BY <1>1, <1>2, <2>1, <2>2, CancelKeepsNearest
    <2>5. QED
      BY <2>1, <2>3, <2>4 DEF OrderInv, Busy
  <1>11. CASE CountDown
    BY <1>11, OrderCountDown
  <1>12. CASE TimersDone \/ Skip \/ Serve \/ FdsDone
    <2>1. UNCHANGED timers /\ pc' # "timers" /\ event' # "timeout"
      BY <1>3, <1>4, <1>12 DEF TimersDone, Skip, Serve, FdsDone, Serving, Callback, timerVars,
             Busy, FdInv, LoopType, AllFd
    <2>2. QED
      BY <2>1, OrderKept
  <1>13. CASE Signal \/ UNCHANGED vars
    <2>1. UNCHANGED <<timers, i, tv, pc, event>>
      BY <1>13 DEF Signal, vars, timerVars, loopVars
    <2>2. QED
      BY <2>1, OrderKept
  <1>14. QED
    BY <1>5, <1>6, <1>7, <1>8, <1>9, <1>10, <1>11, <1>12, <1>13 DEF EvNext, Calling, Looping

-----------------------------------------------------------------------------
(* The rest of the state.  The signal pipe is only read when there is a    *)
(* byte in it.                                                             *)
RestType ==
    /\ SigFd \in watched /\ (SigFd \in revents => sigpipe > 0)
    /\ n \in -1 .. Cardinality(AllFd) /\ tv \in 0 .. MaxTime
    /\ i \in 1 .. 1 + MaxTimers + Cardinality(AllFd)
    /\ stop \in BOOLEAN /\ sigpipe \in 0 .. MaxSignals
    /\ pc \in {Busy, "step", "poll", "timers", "fds", "stopped"}
    /\ calls \in 0 .. MaxCalls

LEMMA RestStart == EvInit => RestType
  <1> SUFFICES ASSUME EvInit PROVE RestType
    OBVIOUS
  <1>1. PICK c \in Nat : c = Cardinality(AllFd)
    BY FdsAreFinite
  <1>2. /\ watched = {SigFd} /\ revents = {} /\ n = 0 /\ tv = 0 /\ i = 1
        /\ stop = FALSE /\ sigpipe = 0 /\ pc = Busy /\ calls = MaxCalls
    BY DEF EvInit
  <1>3. MaxTime \in Nat /\ MaxSignals \in Nat /\ MaxTimers \in Nat /\ MaxCalls \in Nat
    BY EvAssumption
  <1>4. 0 \in -1 .. c /\ 0 \in 0 .. MaxTime /\ 1 \in 1 .. 1 + MaxTimers + c
    BY <1>3
  <1>5. 0 \in 0 .. MaxSignals /\ MaxCalls \in 0 .. MaxCalls
    BY <1>3
  <1>6. QED
    BY <1>1, <1>2, <1>4, <1>5 DEF RestType

LEMMA RestPoll ==
    ASSUME RestType, TimersInv, FdInv, Poll \/ Interrupted
    PROVE  RestType'
  <1>1. PICK c \in Nat : c = Cardinality(AllFd)
    BY FdsAreFinite
  <1>2. /\ i' = 1 /\ pc' = "timers" /\ UNCHANGED <<watched, stop, calls>>
    BY DEF Poll, Interrupted, PollReturned
  <1>3. MaxTime \in Nat /\ MaxSignals \in Nat /\ MaxTimers \in Nat
    BY EvAssumption
  <1>4. sigpipe \in Nat /\ sigpipe <= MaxSignals
    BY <1>3 DEF RestType
  <1>5. sigpipe' \in 0 .. MaxSignals /\ (SigFd \in revents' => sigpipe' > 0)
    <2>1. CASE Interrupted
      <3>1. sigpipe' = 1 /\ MaxSignals > 0 /\ revents' = {}
        BY <2>1 DEF Interrupted, Polled
      <3>2. QED
        BY <1>3, <3>1
    <2>2. CASE Poll
      <3>1. sigpipe' = sigpipe /\ (SigFd \in revents' => SigFd \in Ready)
        BY <2>2 DEF Poll, Polled
      <3>2. SigFd \in Ready => sigpipe > 0
        BY DEF Ready
      <3>3. QED
        BY <1>3, <1>4, <3>1, <3>2
    <2>3. QED
      BY <2>1, <2>2
  <1>6. tv' \in 0 .. MaxTime
    <2>1. CASE timers # <<>> /\ tv' = timers[1].tv
      <3>1. timers[1] \in Timer
        BY <2>1, EmptySeq, ElementOfSeq DEF TimersInv, Good
      <3>2. QED
        BY <2>1, <3>1 DEF Timer
    <2>2. CASE tv' \in 0 .. MaxTime
      BY <2>2
    <2>3. QED
      BY <2>1, <2>2 DEF Poll, Interrupted, Polled
  <1>7. n' \in -1 .. c
    <2>1. CASE n' \in {0, -1}
      BY <2>1
    <2>2. CASE revents' \in SUBSET AllFd /\ n' = Cardinality(revents')
      <3>1. Cardinality(revents') \in Nat /\ Cardinality(revents') <= c
        BY <1>1, <2>2, FdsAreFinite, FS_Subset, FS_CardinalityType
      <3>2. QED
        BY <2>2, <3>1
    <2>3. QED
      <3>1. Ready \subseteq AllFd /\ watched \subseteq AllFd
        BY DEF Ready, AllFd, FdInv, LoopType
      <3>2. QED
        BY <2>1, <2>2, <3>1 DEF Poll, Interrupted, Polled
  <1>8. i' \in 1 .. 1 + MaxTimers + c
    BY <1>2, <1>3
  <1>9. QED
    BY <1>1, <1>2, <1>5, <1>6, <1>7, <1>8 DEF RestType

LEMMA RestCalling ==
    ASSUME RestType, Calling
    PROVE  RestType'
  <1>1. /\ UNCHANGED <<n, tv, i, sigpipe, pc>> /\ calls > 0 /\ calls' = calls - 1
    BY DEF Calling, EvTimer, EvTimerCancel, EvAdd, EvDel, EvBreak, Call, loopVars
  <1>2. calls' \in 0 .. MaxCalls
    BY <1>1, EvAssumption DEF RestType
  <1>3. SigFd \in watched' /\ revents' \subseteq revents /\ stop' \in {TRUE, stop}
    BY EvAssumption DEF Calling, EvTimer, EvTimerCancel, EvAdd, EvDel, EvBreak, fdVars, RestType
  <1>4. stop' \in BOOLEAN
    BY <1>3 DEF RestType
  <1>5. QED
    BY <1>1, <1>2, <1>3, <1>4 DEF RestType

LEMMA RestStep ==
    ASSUME RestType, Bounded, TimersInv, FdInv, [EvNext]_vars
    PROVE  RestType'
  <1>1. PICK c \in Nat : c = Cardinality(AllFd)
    BY FdsAreFinite
  <1>2. Len(FdSeq) = c
    BY <1>1, FdSeqIsAll
  <1>3. MaxTime \in Nat /\ MaxSignals \in Nat /\ MaxTimers \in Nat /\ MaxCalls \in Nat
    BY EvAssumption
  <1>4. Len(timers) \in Nat /\ Len(timers) <= MaxTimers
    BY HeapIsBounded
  <1>5. /\ i \in Nat \ {0} /\ n \in Int /\ -1 <= n /\ n <= c
        /\ sigpipe \in Nat /\ sigpipe <= MaxSignals
    BY <1>1, <1>3 DEF RestType, FdInv, LoopType
  <1>6. CASE Calling
    BY <1>6, RestCalling
  <1>7. CASE Poll \/ Interrupted
    BY <1>7, RestPoll
  <1>8. CASE Return
    <2>1. /\ UNCHANGED <<watched, revents, n, tv, i, stop, sigpipe>> /\ calls' = 0
          /\ pc' \in {"step", "timers", "fds"}
      BY <1>8 DEF Return, fdVars, loopVars
    <2>2. QED
      BY <1>3, <2>1 DEF RestType
  <1>9. CASE Step
    <2>1. /\ UNCHANGED <<watched, revents, n, tv, i, stop, sigpipe, calls>>
          /\ pc' \in {"poll", "stopped"}
      BY <1>9 DEF Step, fdVars, loopVars
    <2>2. QED
      BY <2>1 DEF RestType
  <1>10. CASE Expire
    <2>1. /\ UNCHANGED <<watched, revents, n, tv, i, stop, sigpipe>>
          /\ pc' = Busy /\ calls' = MaxCalls
      BY <1>10 DEF Expire, Callback, fdVars, loopVars
    <2>2. QED
      BY <1>3, <2>1 DEF RestType
  <1>11. CASE CountDown
    <2>1. /\ UNCHANGED <<watched, revents, n, tv, stop, sigpipe, pc, calls>>
          /\ i' = i + 1 /\ i <= Len(timers)
      BY <1>11 DEF CountDown, fdVars
    <2>2. i' \in 1 .. 1 + MaxTimers + c
      BY <1>3, <1>4, <1>5, <2>1
    <2>3. QED
      BY <1>1, <2>1, <2>2 DEF RestType
  <1>12. CASE TimersDone
    <2>1. /\ UNCHANGED <<watched, revents, n, tv, stop, sigpipe, calls>>
          /\ i' = 1 /\ pc' = "fds"
      BY <1>12 DEF TimersDone, fdVars
    <2>2. i' \in 1 .. 1 + MaxTimers + c
      BY <1>3, <2>1
    <2>3. QED
      BY <1>1, <2>1, <2>2 DEF RestType
  <1>13. CASE Skip
    <2>1. /\ UNCHANGED <<watched, revents, n, tv, stop, sigpipe, pc, calls>>
          /\ i' = i + 1 /\ i <= c
      BY <1>2, <1>13 DEF Skip, Serving, fdVars
    <2>2. i' \in 1 .. 1 + MaxTimers + c
      BY <1>3, <1>5, <2>1
    <2>3. QED
      BY <1>1, <2>1, <2>2 DEF RestType
  <1>14. CASE Serve
    <2>1. /\ UNCHANGED <<watched, tv, stop>> /\ pc' = Busy /\ calls' = MaxCalls
          /\ i' = i + 1 /\ i <= c /\ n > 0 /\ n' = n - 1
          /\ FdSeq[i] \in revents /\ revents' = revents \ {FdSeq[i]}
          /\ sigpipe' = IF FdSeq[i] = SigFd THEN sigpipe - 1 ELSE sigpipe
      BY <1>2, <1>14 DEF Serve, Serving, Callback
    <2>2. i' \in 1 .. 1 + MaxTimers + c /\ n' \in -1 .. c /\ calls' \in 0 .. MaxCalls
      BY <1>3, <1>5, <2>1
    <2>3. sigpipe' \in 0 .. MaxSignals /\ (SigFd \in revents' => sigpipe' > 0)
      <3>1. SigFd \in revents => sigpipe > 0
        BY DEF RestType
      <3>2. CASE FdSeq[i] = SigFd
        BY <1>3, <1>5, <2>1, <3>1, <3>2
      <3>3. CASE FdSeq[i] # SigFd
        BY <1>3, <1>5, <2>1, <3>1, <3>3
      <3>4. QED
        BY <3>2, <3>3
    <2>4. QED
      BY <1>1, <2>1, <2>2, <2>3 DEF RestType
  <1>15. CASE FdsDone
    <2>1. /\ UNCHANGED <<watched, stop, sigpipe, calls>> /\ pc' = "step"
          /\ revents' = {} /\ n' = 0 /\ tv' = 0 /\ i' = 1
      BY <1>15 DEF FdsDone
    <2>2. i' \in 1 .. 1 + MaxTimers + c /\ n' \in -1 .. c /\ tv' \in 0 .. MaxTime
      BY <1>3, <2>1
    <2>3. QED
      BY <1>1, <2>1, <2>2 DEF RestType
  <1>16. CASE Signal
    <2>1. /\ UNCHANGED <<watched, revents, n, tv, i, stop, pc, calls>>
          /\ sigpipe' = sigpipe + 1 /\ sigpipe < MaxSignals
      BY <1>16 DEF Signal, fdVars, loopVars
    <2>2. sigpipe' \in 0 .. MaxSignals /\ sigpipe' > 0
      BY <1>3, <1>5, <2>1
    <2>3. QED
      BY <2>1, <2>2 DEF RestType
  <1>17. CASE UNCHANGED vars
    BY <1>17 DEF RestType, vars, fdVars, loopVars
  <1>18. QED
    BY <1>6, <1>7, <1>8, <1>9, <1>10, <1>11, <1>12, <1>13, <1>14, <1>15, <1>16, <1>17
       DEF EvNext, Looping

LEMMA TypesFollow == RestType /\ TimersInv /\ FdInv => EvTypeOK
  BY DEF RestType, TimersInv, FdInv, LoopType, Good, EvTypeOK

(* The state of the loop has its types for any number of timers: among     *)
(* them, a timer never counts below 0 when tv is taken from it, and a byte *)
(* is only read from the signal pipe when there is one.                    *)
THEOREM EvTypes == EvSpec => []EvTypeOK
  BY RestStart, RestStep, TypesFollow, BoundedInvariance, TimersInvariance, FdInvariance, PTL
     DEF EvSpec

(* Where no more than three timers are pending at once (the daemon has     *)
(* one) the first of the heap is the nearest, so that poll() never waits   *)
(* past a timer, whatever callbacks add and cancel while the heap is       *)
(* counted down.  The general claim of ev.c:65 is refuted by a run.        *)
THEOREM FewTimersAreInOrder == MaxTimers <= Few => (EvSpec => []FewAreInOrder)
  <1> SUFFICES ASSUME MaxTimers <= Few
               PROVE  EvSpec => []FewAreInOrder
    OBVIOUS
  <1>1. EvInit => OrderInv
    BY OrderStart
  <1>2. /\ OrderInv /\ Bounded /\ Bounded' /\ TimersInv /\ TimersInv' /\ FdInv
        /\ [EvNext]_vars
        => OrderInv'
    BY OrderStep
  <1>3. OrderInv /\ EvTypeOK => FewAreInOrder
    <2>1. SUFFICES ASSUME OrderInv, EvTypeOK, NEW t \in ToSet(timers)
                   PROVE  timers[1].tv <= t.tv
      BY DEF FewAreInOrder, NearestFirst
    <2>2. PICK k \in 1 .. Len(timers) : t = timers[k]
      BY <2>1, InToSet DEF EvTypeOK
    <2>3. QED
      BY <2>1, <2>2 DEF OrderInv, Nearest
  <1>4. QED
    BY <1>1, <1>2, <1>3, EvTypes, BoundedInvariance, TimersInvariance, FdInvariance,
       PTL DEF EvSpec
=============================================================================
