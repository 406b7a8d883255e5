------------------------------ MODULE MCEvLoop ------------------------------
(***************************************************************************)
(* Instances of EvLoop for TLC.                                            *)
(***************************************************************************)
EXTENDS EvLoop

(* The loop starts with seven timers, a state reached from EvInit by seven *)
(* calls of ev_timer() when MaxCalls allows them.                          *)
Durations == <<1, 3, 1, 3, 3, 3, 2>>

SevenTimers ==
    /\ timers = <<>> /\ tid = Len(Durations)
    /\ reserve = [j \in DOMAIN Durations |->
                      [id |-> j, tv |-> Durations[j], rest |-> Durations[j]]]
    /\ watched = {SigFd} /\ revents = {} /\ fresh = {} /\ owed = {}
    /\ n = 0 /\ tv = 0 /\ i = 1
    /\ stop = FALSE /\ sigpipe = 0
    /\ pc = "step" /\ event = "none" /\ calls = 0

SevenSpec == SevenTimers /\ [][EvNext]_vars
=============================================================================
