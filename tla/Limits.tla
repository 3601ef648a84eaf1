------------------------------- MODULE Limits -------------------------------
(***************************************************************************)
(* The two limiters of the worker: the budget of outbound mail and the     *)
(* rate limiter.  Neither reads what the other keeps, so each is a model   *)
(* of its own, and this module brings their promises together.             *)
(***************************************************************************)
EXTENDS EmailBudget

CONSTANTS Identity, Scope, Colo, Limit, MaxBuckets, EvictTo, MaxNow

\* Every configured limit lets something through, and its long window holds
\* its short one.  No route is called like the envelope, no colo like the shard.
ASSUME LimitAssumption ==
    /\ "global" \notin Scope /\ "shard" \notin Colo
    /\ \A x \in Scope \cup {"global"} :
          /\ Limit[x].short.max \in Nat \ {0} /\ Limit[x].long.max \in Nat \ {0}
          /\ Limit[x].short.ticks \in Nat \ {0} /\ Limit[x].long.ticks \in Nat
          /\ Limit[x].short.ticks <= Limit[x].long.ticks
    /\ EvictTo \in Nat /\ MaxBuckets \in Nat /\ EvictTo <= MaxBuckets
    /\ MaxNow \in Nat

VARIABLES now, backend, req, cache, shard, turn, stamped, overlap

buckets == <<now, backend, req, cache, shard, turn, stamped, overlap>>

R == INSTANCE RateLimit

\* A shard meters exactly: see RateLimit.
ShardHoldsCap == R!ShardHoldsCap

\* The Cache API lets more through only to overlapping requests: see RateLimit.
OvershootOnlyByOverlap == R!OvershootOnlyByOverlap
=============================================================================
