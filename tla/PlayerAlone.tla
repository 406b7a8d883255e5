---------------------------- MODULE PlayerAlone -----------------------------
(***************************************************************************)
(* The player process facing a peer that sends any order at any time: what *)
(* it guarantees without relying on the daemon's protocol, with pipes of   *)
(* any length.  Module AmusedProofs proves it; TLC checks the player       *)
(* together with the daemon.                                               *)
(***************************************************************************)
EXTENDS Player

PeerSends == /\ \E m \in OrderMsg : toPlayer' = Append(toPlayer, m)
             /\ UNCHANGED <<toMain, pc, nextfd, track>>

PeerReads == /\ toMain # <<>>
             /\ toMain' = Tail(toMain)
             /\ UNCHANGED <<toPlayer, pc, nextfd, track>>

AloneNext == PlayerNext \/ PeerSends \/ PeerReads

AloneSpec == PlayerInit /\ [][AloneNext]_playerVars
=============================================================================
