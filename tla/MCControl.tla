----------------------------- MODULE MCControl ------------------------------
(***************************************************************************)
(* Instances of Control for TLC.                                           *)
(***************************************************************************)
EXTENDS Control, TLC

CONSTANTS x, y, z,                                   (* songs       *)
          fd4, fd5,                                  (* descriptors *)
          loader, other, adder, dropper, shuffler, flusher   (* clients *)

(* Two loads, the first with a marked line and a file it cannot resolve,   *)
(* an add, an add of which one file cannot be resolved, and the commands   *)
(* that edit the queue without a reply.                                    *)
Verbs == [c \in Client |-> CASE c \in {loader, other} -> "load"
                             [] c \in {adder, dropper} -> "add"
                             [] c = shuffler          -> "shuffle all"
                             [] OTHER                 -> "flush"]
SomeFiles == [c \in Client |-> CASE c = loader -> <<z, x, y>>
                                 [] c = other  -> <<y>>
                                 [] c = adder  -> <<x, y>>
                                 [] c = dropper -> <<x, z>>
                                 [] OTHER      -> <<>>]
Marks == [c \in Client |-> IF c = loader THEN 3 ELSE 0]

(* The load of an empty list, and a shorter add.                           *)
ShortFiles == [SomeFiles EXCEPT ![other] = <<>>, ![adder] = <<x>>]

(* The numbers of the descriptors do not matter.                           *)
Descriptors == Permutations(Fd)
=============================================================================
