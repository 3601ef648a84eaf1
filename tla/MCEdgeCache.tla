----------------------------- MODULE MCEdgeCache -----------------------------
(***************************************************************************)
(* The two caches of a read for TLC, each with a clock of its own, so a    *)
(* behaviour runs one of them: `part` says which, and the other stays as   *)
(* it begins.                                                              *)
(*                                                                         *)
(* The edge cache: two locations, two readers and a writer, two orders, a  *)
(* page size that an administrator raises once.  The settings: a number    *)
(* and a text, two requests over two isolates, one of them a save.         *)
(***************************************************************************)
EXTENDS Caches, TLC

CONSTANTS number, text

MCGroup == number :> "number" @@ text :> "text"
MCEnv   == number :> 2 @@ text :> 2

VARIABLE part

MCSymmetry == Permutations(Reader) \cup Permutations(Colo) \cup Permutations(Sort)
              \cup Permutations(Asker)

\* The page size begins small; from large on there is nothing to raise.  Where
\* the settings do not move, their table is empty.
MCInit ==
    /\ Init /\ size = 1 /\ S!Init
    /\ part \in {"edge", "settings"}
    /\ part = "edge" => \A k \in DOMAIN table : table[k] = S!Absent

MCNext ==
    \/ part = "edge" /\ Next /\ UNCHANGED <<part, settings>>
    \/ part = "settings" /\ S!Next /\ UNCHANGED <<part, vars>>

MCSpec == MCInit /\ [][MCNext]_<<part, vars, settings>>
=============================================================================
