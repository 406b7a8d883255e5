----------------------------- MODULE MCStartup ------------------------------
(***************************************************************************)
(* Three clients, one of them run as `amused -d', that give up early and   *)
(* with a few things that go wrong.                                        *)
(***************************************************************************)
EXTENDS Startup

CONSTANTS x, y, front

AllClients == {x, y, front}
OnlyFront == {front}
=============================================================================
