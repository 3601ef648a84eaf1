------------------------------- MODULE Outbox -------------------------------
(***************************************************************************)
(* What a queue drained by the cron promises, whatever it carries: an item *)
(* is queued once, leaves the queue only after it was delivered or became  *)
(* void, and is delivered only out of the queue.  Delivery is at least     *)
(* once: nothing here forbids delivering an item again while it is queued. *)
(***************************************************************************)
CONSTANT Item

VARIABLES
    queued,     \* waiting: sent_at IS NULL
    done,       \* settled: sent_at set
    delivered,  \* went out at least once
    void        \* nobody is owed it any more

vars == <<queued, done, delivered, void>>

Init == queued = {} /\ done = {} /\ delivered = {} /\ void = {}

Enqueue == \E S \in SUBSET (Item \ (queued \union done)) :
    /\ queued' = queued \union S
    /\ UNCHANGED <<done, delivered, void>>

\* A consumer works on the list it read: what was settled as void behind its
\* back may still go out.
Deliver == \E S \in SUBSET (queued \union (done \intersect void)) :
    /\ delivered' = delivered \union S
    /\ UNCHANGED <<queued, done, void>>

Revoke == \E S \in SUBSET (Item \ void) :
    /\ void' = void \union S
    /\ UNCHANGED <<queued, done, delivered>>

Settle == \E S \in SUBSET (queued \intersect (delivered \union void)) :
    /\ queued' = queued \ S
    /\ done' = done \union S
    /\ UNCHANGED <<delivered, void>>

\* Revoking and settling in one step, which is what stamping a cancelled
\* subscriber's rows does to those that were still owed.
Drop == \E S \in SUBSET queued :
    /\ queued' = queued \ S
    /\ done' = done \union S
    /\ void' = void \union S
    /\ UNCHANGED delivered

Next == Enqueue \/ Deliver \/ Revoke \/ Settle \/ Drop

Spec == Init /\ [][Next]_vars
=============================================================================
