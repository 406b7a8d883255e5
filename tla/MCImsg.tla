------------------------------- MODULE MCImsg -------------------------------
(***************************************************************************)
(* Instances of Imsg for TLC: a PLAY (a header and a descriptor), a SEEK   *)
(* (a short body), a status (a long one) and a message that is too large.  *)
(***************************************************************************)
EXTENDS Imsg

MCKind == {"play", "seek", "status", "huge"}
MCBody == [k \in MCKind |-> CASE k = "play" -> 0 [] k = "seek" -> 1
                              [] k = "status" -> 3 [] OTHER -> 9]
MCPasses == {"play"}
=============================================================================
