---------------------------- MODULE MessageQueue ----------------------------
(***************************************************************************)
(* What one end of an imsg socket promises the other: whole messages, in   *)
(* order, each with its descriptor, until the sender is gone; then those   *)
(* that were under way, or the first of them.                              *)
(***************************************************************************)
EXTENDS Naturals, Sequences

CONSTANT Message        (* messages, with the descriptor they carry         *)

VARIABLES queue,        (* messages sent and not received                   *)
          up            (* the sender is there                              *)

queueVars == <<queue, up>>

QueueInit == queue = <<>> /\ up = TRUE

Put == /\ up
       /\ \E m \in Message : queue' = Append(queue, m)
       /\ UNCHANGED up

Get == queue # <<>> /\ queue' = Tail(queue) /\ UNCHANGED up

Cut == /\ up' = FALSE
       /\ \E n \in 0 .. Len(queue) : queue' = SubSeq(queue, 1, n)

QueueNext == Put \/ Get \/ Cut

QueueSpec == QueueInit /\ [][QueueNext]_queueVars
=============================================================================
