------------------------------- MODULE MCLimits -------------------------------
(***************************************************************************)
(* The two limiters for TLC.  They share nothing, so a behaviour runs one  *)
(* of them: `part` says which.                                             *)
(*                                                                         *)
(* The mail budget: three confirmation mails racing for a burst and a      *)
(* daily budget, one of them holding a smaller burst cap, from before or   *)
(* after the migration that seeds the rows.  The rate limiter: an identity *)
(* on two routes, one request in a tick and two in two ticks, for a route  *)
(* and for all.                                                            *)
(***************************************************************************)
EXTENDS Limits, TLC

CONSTANTS r1, r2, r3, burst, daily

MCRequest == {r1, r2, r3}
MCBudget  == {burst, daily}
MCChain   == [r \in MCRequest |-> <<burst, daily>>]
MCWindow  == [b \in MCBudget |-> IF b = daily THEN 2 ELSE 1]
MCCap     == [r \in MCRequest |-> [b \in MCBudget |-> IF r = r1 /\ b = burst
                                                      THEN 1 ELSE 2]]
MCSpan(max, ticks) == [max |-> max, ticks |-> ticks]
MCLimit == [x \in Scope \cup {"global"} |->
               [short |-> MCSpan(1, 1), long |-> MCSpan(2, 2)]]
MCSymmetry == Permutations({r2, r3}) \cup Permutations(Scope)

VARIABLE part

\* The part that does not run stays as it begins.
MCInit ==
    /\ part \in {"budget", "rate"}
    /\ Init /\ R!Init
    /\ part = "budget" => backend = "cache"
    /\ part = "rate" => seeded = {}

\* The rate limiter takes all requests alike, so that r1 may be the first.
InTurn == req'[r1].pc = "idle" => \A r \in Request : req'[r].pc = "idle"

MCNext ==
    \/ part = "budget" /\ Next /\ UNCHANGED <<part, buckets>>
    \/ part = "rate" /\ R!Next /\ InTurn /\ UNCHANGED <<part, vars>>

MCSpec == MCInit /\ [][MCNext]_<<part, vars, buckets>>
=============================================================================
