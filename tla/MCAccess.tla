------------------------------- MODULE MCAccess -------------------------------
(***************************************************************************)
(* Accounts and sessions for TLC, one of them in each behaviour: `part`    *)
(* says which.                                                             *)
(*                                                                         *)
(* The accounts: the owner, and a person who signs up and is made an       *)
(* administrator by ADMIN_EMAILS.  The sessions: two requests of one       *)
(* browser and of an administrator over two sessions of one user, through  *)
(* renewals and two revocations, or one that KV has time to forget; a put  *)
(* of a stamp takes a tick to be seen everywhere.                          *)
(***************************************************************************)
EXTENDS Access, TLC

CONSTANTS a1, a2, p1, p2

MCFounder  == a1 :> [person |-> p1, role |-> "admin"]
MCSymmetry == Permutations(Sid) \cup Permutations(Request)

VARIABLE part

\* A second revocation, or a third tick after the first.
Within == clock <= 2 \/ Cardinality(stamps) = 1

\* A request begins while there is room for the stamp or the session it ends with.
Roomy ==
    \A r \in Request : S!At(r, "idle") =>
        /\ req'[r].op \in {"revoke", "others"} =>
              IF clock <= 2 THEN Cardinality(stamps) < MaxStamp ELSE stamps = {}
        /\ req'[r].op \in {"login", "others"} => minted # Sid

\* The part that does not run stays as it begins.
MCInit == part \in {"accounts", "sessions"} /\ AccountsInit /\ S!Init

MCNext ==
    \/ part = "accounts" /\ AccountsNext /\ UNCHANGED <<part, sessions>>
    \/ part = "sessions" /\ S!Next /\ Within' /\ Roomy /\ UNCHANGED <<part, accountsVars>>

MCSpec == MCInit /\ [][MCNext]_<<part, accountsVars, sessions>>
=============================================================================
