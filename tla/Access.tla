------------------------------- MODULE Access -------------------------------
(***************************************************************************)
(* Who may act: the accounts and the sessions they sign in with.  A        *)
(* session is to the accounts no more than an account signed in or not,    *)
(* and an account to the sessions no more than an id, so each is a model   *)
(* of its own, and this module brings their promises together.             *)
(***************************************************************************)
EXTENDS Accounts

CONSTANTS Holder,    \* user ids, as the sessions know them
          Sid, Browser, TTL, Lag, MaxClock, MaxStamp

ASSUME SessionAssumption ==
    /\ {TTL, Lag, MaxClock, MaxStamp} \subseteq Nat
    /\ None \notin [user : Holder, epoch : Nat, landed : Nat, n : Nat]

VARIABLES clock, kv, rev, old, cookie, req, minted, own, stamps, gone, revived

sessions == <<clock, kv, rev, old, cookie, req, minted, own, stamps, gone,
              revived>>

S == INSTANCE Sessions WITH User <- Holder

\* What was revoked serves nobody while its stamp stands: see Sessions.
RevokedWhileStamped == S!RevokedWhileStamped
=============================================================================
