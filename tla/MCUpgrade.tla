----------------------------- MODULE MCUpgrade -----------------------------
(***************************************************************************)
(* Upgrades for TLC: the release with the totals' migration between an     *)
(* older and a newer one, two requests of one reader on one page, two      *)
(* failures.                                                               *)
(***************************************************************************)
EXTENDS Upgrade, TLC

MCDeclared == 1 :> {1} @@ 2 :> {1, 2} @@ 3 :> {1, 2, 3}
MCOldest   == [v \in Release |-> 1]
MCSymmetry == Permutations(User) \cup Permutations(Request)
=============================================================================
