-------------------------------- MODULE MCMail --------------------------------
(***************************************************************************)
(* Subscriptions and their mail for TLC.  The double opt-in looks at one   *)
(* address and its posts, the digest at one post and its subscribers, so a *)
(* behaviour runs one of them: `part` says which.                          *)
(*                                                                         *)
(* The double opt-in: an address on two posts, two requests in flight at   *)
(* once, three tokens and a pending cap of one.  The reply digest: two     *)
(* comments for one subscriber who cancels and comes back.                 *)
(***************************************************************************)
EXTENDS Mail, TLC

CONSTANTS h1, h2, p1, p2, c1, c2

MCHandler  == {h1, h2}
MCPost     == {p1, p2}
MCComment  == {c1, c2}
MCGuests   == [c \in MCComment |-> 0]
MCSymmetry == Permutations(MCHandler)

VARIABLE part

\* The part that does not run stays as it begins.
MCInit == part \in {"signup", "digest"} /\ Init /\ R!Init

MCNext ==
    \/ part = "signup" /\ Next /\ UNCHANGED <<part, digests>>
    \/ part = "digest" /\ R!Next /\ UNCHANGED <<part, vars>>

MCSpec == MCInit /\ [][MCNext]_<<part, vars, digests>>
=============================================================================
