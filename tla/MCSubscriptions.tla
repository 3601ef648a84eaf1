-------------------------- MODULE MCSubscriptions --------------------------
(***************************************************************************)
(* An address on two posts, two requests in flight at once, three tokens   *)
(* and a pending cap of one.                                               *)
(***************************************************************************)
EXTENDS Subscriptions, TLC

CONSTANTS h1, h2, p1, p2

MCHandler  == {h1, h2}
MCPost     == {p1, p2}
MCSymmetry == Permutations(MCHandler)
=============================================================================
