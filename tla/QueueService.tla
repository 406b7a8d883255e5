---------------------------- MODULE QueueService ----------------------------
(***************************************************************************)
(* What control.c promises the clients that edit the playing queue: each   *)
(* request takes effect as a whole, at one instant, at most once.  A load  *)
(* in particular replaces the queue by exactly the list of its client,     *)
(* whatever the other clients do meanwhile and whoever dies.               *)
(***************************************************************************)
EXTENDS Playlist

CONSTANTS Client,     (* runs of the amused command                         *)
          Verb,       (* Verb[c]: the command line of c                     *)
          Files,      (* Files[c]: the files c was given                    *)
          Mark,       (* Mark[c]: the one marked "> " in a load, 0 for none *)
          Resolvable  (* the files canonpath() makes a path of              *)

EditVerb == {"load", "add", "flush", "shuffle", "shuffle all"}

ASSUME ClientAssumption == /\ Verb \in [Client -> EditVerb]
                           /\ Files \in [Client -> Seq(Song)]
                           /\ Mark \in [Client -> Nat]

(* The paths a client sends: a file that cannot be resolved is left out.   *)
(* The position load_files() computes is the number of paths sent before   *)
(* the marked line.                                                        *)
Resolved(files) ==
    LET sent[k \in 0 .. Len(files)] ==
            IF k = 0 THEN <<>>
            ELSE IF files[k] \in Resolvable THEN Append(sent[k - 1], files[k])
            ELSE sent[k - 1]
    IN sent[Len(files)]

Paths(c) == Resolved(Files[c])
Position(c) == IF Mark[c] = 0 THEN -1
               ELSE Len(Resolved(SubSeq(Files[c], 1, Mark[c] - 1)))

VARIABLES pl,    (* the playing queue                                       *)
          done   (* done[c]: which of the requests of c have taken effect   *)

Whole == {1}
All(c) == IF Verb[c] = "add" THEN 1 .. Len(Paths(c)) ELSE Whole

QueueInit == pl = InitPlaylist /\ done = [c \in Client |-> {}]

Takes(c, n) == /\ \A m \in done[c] : m < n
               /\ done' = [done EXCEPT ![c] = @ \cup {n}]

Load(c) == /\ Verb[c] = "load" /\ Takes(c, 1)
           /\ \E i \in SwapOffset(pl, Paths(c), Position(c)) :
                 pl' = Swap(pl, Paths(c), i)

Append1(c, n) == /\ Verb[c] = "add" /\ Takes(c, n)
                 /\ pl' = Enqueue(pl, Paths(c)[n])

Clear(c) == Verb[c] = "flush" /\ Takes(c, 1) /\ pl' = Truncate(pl)

Mix(c) == /\ Verb[c] \in {"shuffle", "shuffle all"} /\ Takes(c, 1)
          /\ pl' \in Shuffles(pl, Verb[c] = "shuffle all")

(* The daemon goes on playing: see module Amused.                          *)
Playing == pl' \in {Advance(pl, TRUE), DropCurrent(pl)} /\ UNCHANGED done

QueueNext == \/ \E c \in Client : \/ Load(c) \/ Clear(c) \/ Mix(c)
                                  \/ \E n \in All(c) : Append1(c, n)
             \/ Playing

QueueSpec == QueueInit /\ [][QueueNext]_<<pl, done>>
=============================================================================
