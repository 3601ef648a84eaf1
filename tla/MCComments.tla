----------------------------- MODULE MCComments -----------------------------
(***************************************************************************)
(* The comments of a post for TLC.  The server, the thread in the browser  *)
(* and the boxes share no state, so a behaviour runs one of them: `part`   *)
(* says which.                                                             *)
(*                                                                         *)
(* The server: a top-level comment and a reply to it, a reader and the     *)
(* operator, two requests in flight.  The thread: two comments on the post *)
(* and at most four, a page of one, one reply shown.  The boxes: two of    *)
(* them, two submits under way, one challenge token.                       *)
(***************************************************************************)
EXTENDS Discussion, TLC

CONSTANTS c1, c2, u1, op, h1, h2

MCParent == (c1 :> c1) @@ (c2 :> c1)

Handlers == Permutations(Handler)

VARIABLE part

\* The parts that do not run stay as they begin.
MCInit ==
    /\ part \in {"server", "boxes", "thread"}
    /\ Init /\ Box!Init /\ Drawn!Init

MCNext ==
    \/ part = "server" /\ Next /\ UNCHANGED <<part, boxes, thread>>
    \/ part = "boxes" /\ Box!Next /\ UNCHANGED <<part, vars, thread>>
    \/ part = "thread" /\ Drawn!Next /\ UNCHANGED <<part, vars, boxes>>

MCSpec == MCInit /\ [][MCNext]_<<part, vars, boxes, thread>>
=============================================================================
