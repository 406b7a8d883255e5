------------------------------ MODULE TimerSet ------------------------------
(***************************************************************************)
(* What the users of ev.c are promised of its timers: a timer that was     *)
(* added and not cancelled fires once, after its time and never before,    *)
(* and no callback of a timer is made within another callback.             *)
(***************************************************************************)
EXTENDS Naturals, Functions

CONSTANTS Id, MaxTime

VARIABLES
    pending,    (* the time each pending timer has still to wait            *)
    running     (* the callback of a timer is running                       *)

timerVars == <<pending, running>>

Shorter(d) == [id \in DOMAIN pending |-> IF pending[id] > d THEN pending[id] - d ELSE 0]
Without(id) == Restrict(pending, DOMAIN pending \ {id})

TimersInit == pending = <<>> /\ running = FALSE

Add == /\ \E id \in Id \ DOMAIN pending, t \in 0 .. MaxTime :
             pending' = [j \in DOMAIN pending \cup {id} |->
                            IF j = id THEN t ELSE pending[j]]
       /\ UNCHANGED running

Cancel == \E id \in DOMAIN pending : pending' = Without(id) /\ UNCHANGED running

Fire == /\ ~running /\ running' = TRUE
        /\ \E id \in DOMAIN pending : pending[id] = 0 /\ pending' = Without(id)

(* Time passes, and a callback may be over.                                *)
Pass == \E d \in 0 .. MaxTime + 1 : pending' = Shorter(d) /\ (running' => running)

TimersNext == Add \/ Cancel \/ Fire \/ Pass
TimersSpec == TimersInit /\ [][TimersNext]_timerVars
=============================================================================
