------------------------------ MODULE Webhooks ------------------------------
(***************************************************************************)
(* Webhook delivery: src/lib/webhook.ts over webhook_endpoints and         *)
(* webhook_deliveries, with the admin's edits of endpoints.                *)
(*                                                                         *)
(* An event is posted at once to every enabled endpoint, in waitUntil of   *)
(* the request that caused it.  A post that fails becomes a row, which the *)
(* cron pass posts again, each time later, until it is accepted or given   *)
(* up; an endpoint with too many given up in a row is paused.  Both sides  *)
(* act, after a post that takes up to five seconds, on the fail_count they *)
(* read before it.  One pass runs at a time: a batch takes two minutes at  *)
(* most and the cron fires every fifteen.                                  *)
(***************************************************************************)
EXTENDS Naturals, FiniteSets

CONSTANTS
    Endpoint,   \* endpoint ids
    Delivery,   \* one event for one endpoint
    Target,     \* Target[d]: its endpoint
    Retries,    \* length of RETRY_SCHEDULE_MS
    Threshold,  \* AUTO_DISABLE_THRESHOLD
    Batch,      \* RETRY_BATCH
    MaxFault    \* bound on D1 errors and crashes of the pass, for TLC

ASSUME TargetAssumption    == Target \in [Delivery -> Endpoint]
ASSUME RetriesAssumption   == Retries \in Nat \ {0}
ASSUME ThresholdAssumption == Threshold \in Nat \ {0}
ASSUME BatchAssumption     == Batch \in Nat \ {0}
ASSUME FaultAssumption     == MaxFault \in Nat

VARIABLES
    endpoint,  \* webhook_endpoints: enabled, fail_count, disabled_at set
    task,      \* what the request that caused d does next about it
    seen,      \* the fail_count it read before it posted d
    row,       \* webhook_deliveries.status, "none" before it is queued
    attempts,  \* webhook_deliveries.attempts
    due,       \* pending rows with next_attempt_at <= now
    ahead,     \* ahead[d]: due rows with an earlier next_attempt_at than d
    pc,        \* what the cron pass does next
    batch,     \* the deliveries it has still to go through
    cur,       \* the one in hand
    read,      \* the fail_count of its endpoint when it was loaded
    faults,    \* D1 errors and crashes of the pass so far
    tries,     \* history: how often the pass has posted d
    accepted,  \* history: deliveries a post of the pass got through
    void,      \* history: given up, dropped, or deleted with their endpoint
    dropped,   \* history: of these, those whose endpoint was paused or gone
    stale      \* history: the endpoint in hand changed since it was loaded

inline  == <<task, seen>>
queue   == <<row, attempts, due, ahead>>
pass    == <<pc, batch, cur, read, faults>>
history == <<tries, accepted, void, dropped>>
vars    == <<endpoint, inline, queue, pass, history, stale>>

EndpointRow == [state : {"absent", "on", "off", "deleted"}, fails : Nat,
                marked : BOOLEAN]
Pending     == {d \in Delivery : row[d] = "pending"}
Settled     == {d \in Delivery : row[d] \in {"delivered", "giveup"}}
InHand      == {"drop", "post", "settle", "reset", "backoff", "count"}

TypeOK ==
    /\ endpoint \in [Endpoint -> EndpointRow]
    /\ task \in [Delivery -> {"none", "posting", "reset", "failed", "over"}]
    /\ seen \in [Delivery -> Nat]
    /\ row \in [Delivery -> {"none", "pending", "delivered", "giveup", "removed"}]
    /\ \A d \in Delivery : row[d] # "none" => task[d] = "over"
    /\ attempts \in [Delivery -> Nat]
    /\ due \subseteq Pending
    /\ ahead \in [Delivery -> SUBSET due]
    /\ pc \in InHand \union {"idle", "next"}
    /\ batch \subseteq Delivery /\ cur \in Delivery /\ read \in Nat
    /\ pc \in InHand => cur \notin batch
    /\ faults \in 0..MaxFault
    /\ tries \in [Delivery -> Nat]
    /\ accepted \subseteq Delivery
    /\ dropped \subseteq void /\ void \subseteq Delivery
    /\ stale \in BOOLEAN

Init ==
    /\ endpoint = [e \in Endpoint |-> [state |-> "absent", fails |-> 0, marked |-> FALSE]]
    /\ task = [d \in Delivery |-> "none"]
    /\ seen = [d \in Delivery |-> 0]
    /\ row = [d \in Delivery |-> "none"]
    /\ attempts = [d \in Delivery |-> 0]
    /\ due = {} /\ ahead = [d \in Delivery |-> {}]
    /\ pc = "idle" /\ batch = {} /\ cur \in Delivery /\ read = 0
    /\ faults = 0
    /\ tries = [d \in Delivery |-> 0]
    /\ accepted = {} /\ void = {} /\ dropped = {} /\ stale = FALSE

On(e)     == endpoint[e].state = "on"
Exists(e) == endpoint[e].state \in {"on", "off"}

\* The pass works with a copy of e it loaded earlier.
InUse(e) == pc \in InHand /\ Target[cur] = e
Touch(e) == stale' = (stale \/ InUse(e))

\* Rows that are no longer due.
Leave(S) ==
    /\ due' = due \ S
    /\ ahead' = [d \in Delivery |-> IF d \in S THEN {} ELSE ahead[d] \ S]

Put(e, r) == endpoint' = [endpoint EXCEPT ![e] = r]

-----------------------------------------------------------------------------
(* The admin's edits *)

Create(e, s) ==
    /\ endpoint[e].state = "absent"
    /\ Put(e, [state |-> s, fails |-> 0, marked |-> FALSE])
    /\ UNCHANGED <<inline, queue, pass, history, stale>>

\* updateWebhookEndpoint: enabling clears the counter and the marker, whether
\* the endpoint was paused or not.
Enable(e) ==
    /\ Exists(e)
    /\ Put(e, [state |-> "on", fails |-> 0, marked |-> FALSE])
    /\ Touch(e)
    /\ UNCHANGED <<inline, queue, pass, history>>

Disable(e) ==
    /\ Exists(e)
    /\ Put(e, [endpoint[e] EXCEPT !.state = "off"])
    /\ Touch(e)
    /\ UNCHANGED <<inline, queue, pass, history>>

\* ON DELETE CASCADE takes the deliveries along.
Delete(e) ==
    /\ Exists(e)
    /\ Put(e, [endpoint[e] EXCEPT !.state = "deleted"])
    /\ LET mine == {d \in Delivery : Target[d] = e}
       IN /\ row' = [d \in Delivery |-> IF d \in mine /\ row[d] # "none"
                                        THEN "removed" ELSE row[d]]
          /\ Leave(mine)
          /\ void' = void \union (mine \intersect Pending)
          /\ dropped' = dropped \union (mine \intersect Pending)
    /\ Touch(e)
    /\ UNCHANGED <<inline, attempts, pass, tries, accepted>>

\* resetWebhookFailCount: the counter and the marker, but not `enabled`.
ResetFailCount(e) ==
    endpoint' = IF Exists(e)
                THEN [endpoint EXCEPT ![e].fails = 0, ![e].marked = FALSE]
                ELSE endpoint

-----------------------------------------------------------------------------
(* dispatchToEndpoint, in waitUntil *)

Become(d, t) == task' = [task EXCEPT ![d] = t]

\* listEnabledWebhookEndpoints; the endpoint row is used as it was read here.
Fire(d) ==
    /\ task[d] = "none" /\ On(Target[d])
    /\ Become(d, "posting")
    /\ seen' = [seen EXCEPT ![d] = endpoint[Target[d]].fails]
    /\ UNCHANGED <<endpoint, queue, pass, history, stale>>

InlineOk(d) ==
    /\ task[d] = "posting"
    /\ Become(d, IF seen[d] > 0 THEN "reset" ELSE "over")
    /\ UNCHANGED <<endpoint, seen, queue, pass, history, stale>>

InlineReset(d) ==
    /\ task[d] = "reset"
    /\ ResetFailCount(Target[d]) /\ Touch(Target[d])
    /\ Become(d, "over")
    /\ UNCHANGED <<seen, queue, pass, history>>

\* An error, a status other than 2xx, or no answer within TIMEOUT_MS.
InlineFail(d) ==
    /\ task[d] = "posting"
    /\ Become(d, "failed")
    /\ UNCHANGED <<endpoint, seen, queue, pass, history, stale>>

\* enqueueWebhookDelivery; its foreign key refuses a deleted endpoint.
Enqueue(d) ==
    /\ task[d] = "failed" /\ Exists(Target[d])
    /\ row' = [row EXCEPT ![d] = "pending"]
    /\ Become(d, "over")
    /\ UNCHANGED <<endpoint, seen, attempts, due, ahead, pass, history, stale>>

\* The isolate dies, the body is too large to queue, or the endpoint is gone.
InlineLost(d) ==
    /\ task[d] \in {"posting", "reset", "failed"}
    /\ Become(d, "over")
    /\ UNCHANGED <<endpoint, seen, queue, pass, history, stale>>

-----------------------------------------------------------------------------
(* runWebhookRetries, from the cron *)

\* The backoff of d runs out.
Ripen(d) ==
    /\ d \in Pending \ due
    /\ due' = due \union {d}
    /\ ahead' = [ahead EXCEPT ![d] = due]
    /\ UNCHANGED <<endpoint, inline, row, attempts, pass, history, stale>>

\* listPendingWebhookDeliveries; with nothing due the pass ends at once.
List ==
    /\ pc = "idle" /\ due # {}
    /\ pc' = "next"
    /\ batch' = {d \in due : Cardinality(ahead[d]) < Batch}
    /\ UNCHANGED <<endpoint, inline, queue, cur, read, faults, history, stale>>

Goto(s) == pc' = s /\ UNCHANGED <<batch, cur, read, faults>>

\* Mutants: a delivery of a paused endpoint is skipped; the pass trusts the
\* endpoints it saw when it began.
LoadSkips(d) ==
    /\ pc = "next" /\ d \in batch /\ ahead[d] \intersect batch = {}
    /\ pc' = IF On(Target[d]) THEN "post" ELSE "next"
    /\ batch' = batch \ {d}
    /\ cur' = d
    /\ read' = endpoint[Target[d]].fails
    /\ stale' = FALSE
    /\ UNCHANGED <<endpoint, inline, queue, faults, history>>
\* getWebhookEndpoint, anew for every delivery, the earliest first.
Load(d) ==
    /\ pc = "next" /\ d \in batch /\ ahead[d] \intersect batch = {}
    /\ pc' = IF On(Target[d]) THEN "post" ELSE "drop"
    /\ batch' = batch \ {d}
    /\ cur' = d
    /\ read' = endpoint[Target[d]].fails
    /\ stale' = FALSE
    /\ UNCHANGED <<endpoint, inline, queue, faults, history>>

\* An update of the row of cur by id; it may have been deleted with its endpoint.
Write(s) ==
    /\ row' = IF row[cur] = "removed" THEN row ELSE [row EXCEPT ![cur] = s]
    /\ attempts' = [attempts EXCEPT ![cur] = @ + 1]
    /\ Leave({cur})

\* Paused or deleted: the delivery is given up without a post.
Drop ==
    /\ pc = "drop"
    /\ Write("giveup")
    /\ void' = void \union {cur} /\ dropped' = dropped \union {cur}
    /\ Goto("next")
    /\ UNCHANGED <<endpoint, inline, tries, accepted, stale>>

Post == tries' = [tries EXCEPT ![cur] = @ + 1]

PostOk ==
    /\ pc = "post" /\ Post
    /\ accepted' = accepted \union {cur}
    /\ Goto("settle")
    /\ UNCHANGED <<endpoint, inline, queue, void, dropped, stale>>

\* Mutant: a redirect passes for an answer.
PostFailRedirected(late) ==
    /\ pc = "post" /\ Post
    /\ Goto("settle")
    /\ UNCHANGED <<endpoint, inline, queue, accepted, void, dropped, stale>>

\* `late`: the receiver took it, but answered after TIMEOUT_MS.
PostFail(late) ==
    /\ pc = "post" /\ Post
    /\ accepted' = IF late THEN accepted \union {cur} ELSE accepted
    /\ Goto("backoff")
    /\ UNCHANGED <<endpoint, inline, queue, void, dropped, stale>>

\* markWebhookDelivered.
Settle ==
    /\ pc = "settle"
    /\ Write("delivered")
    /\ Goto(IF read > 0 THEN "reset" ELSE "next")
    /\ UNCHANGED <<endpoint, inline, history, stale>>

Reset ==
    /\ pc = "reset"
    /\ ResetFailCount(Target[cur])
    /\ Goto("next")
    /\ UNCHANGED <<inline, queue, history, stale>>

\* nextBackoffMs(attempts + 1) = null.
Exhausted(d) == attempts[d] + 1 >= Retries

\* markWebhookFailed: a later next_attempt_at, or the delivery is given up.
Backoff ==
    /\ pc = "backoff"
    /\ Write(IF Exhausted(cur) THEN "giveup" ELSE "pending")
    /\ void' = IF Exhausted(cur) THEN void \union {cur} ELSE void
    /\ Goto(IF Exhausted(cur) THEN "count" ELSE "next")
    /\ UNCHANGED <<endpoint, inline, tries, accepted, dropped, stale>>

\* Mutants: off by one, either way.
TooManyLate(n) == n >= Threshold
\* The count that was read decides, not the one in the row.
TooMany(n) == n + 1 >= Threshold

\* incrementWebhookFailCount; disabled_at keeps an earlier stamp.
Count ==
    /\ pc = "count"
    /\ endpoint' = IF Exists(Target[cur])
                   THEN [endpoint EXCEPT ![Target[cur]] =
                           [state  |-> IF TooMany(read) THEN "off" ELSE @.state,
                            fails  |-> @.fails + 1,
                            marked |-> @.marked \/ TooMany(read)]]
                   ELSE endpoint
    /\ Goto("next")
    /\ UNCHANGED <<inline, queue, history, stale>>

\* pruneWebhookDeliveries: settled rows that are thirty days old.
Prune(S) ==
    /\ pc = "next" /\ batch = {}
    /\ row' = [d \in Delivery |-> IF d \in S THEN "removed" ELSE row[d]]
    /\ Goto("idle")
    /\ UNCHANGED <<endpoint, inline, attempts, due, ahead, history, stale>>

\* D1 throws: the loop's catch goes on with the next delivery.
LoadError(d) ==
    /\ pc = "next" /\ d \in batch /\ ahead[d] \intersect batch = {}
    /\ faults < MaxFault
    /\ batch' = batch \ {d} /\ faults' = faults + 1
    /\ UNCHANGED <<endpoint, inline, queue, pc, cur, read, history, stale>>

StepError ==
    /\ pc \in InHand \ {"post"} /\ faults < MaxFault
    /\ pc' = "next" /\ faults' = faults + 1
    /\ UNCHANGED <<endpoint, inline, queue, batch, cur, read, history, stale>>

Crash ==
    /\ pc # "idle" /\ faults < MaxFault
    /\ pc' = "idle" /\ batch' = {} /\ faults' = faults + 1
    /\ UNCHANGED <<endpoint, inline, queue, cur, read, history, stale>>

-----------------------------------------------------------------------------
AdminStep(e) ==
    Create(e, "on") \/ Create(e, "off") \/ Enable(e) \/ Disable(e) \/ Delete(e)

InlineStep(d) ==
    Fire(d) \/ InlineOk(d) \/ InlineReset(d) \/ InlineFail(d) \/ Enqueue(d)
    \/ InlineLost(d)

PassStep ==
    \/ List \/ Drop \/ PostOk \/ PostFail(TRUE) \/ PostFail(FALSE) \/ Settle
    \/ Reset \/ Backoff \/ Count
    \/ \E d \in Delivery : Load(d)
    \/ \E S \in SUBSET Settled : Prune(S)

Next ==
    \/ \E e \in Endpoint : AdminStep(e)
    \/ \E d \in Delivery : InlineStep(d) \/ Ripen(d) \/ LoadError(d)
    \/ PassStep \/ StepError \/ Crash

Spec == Init /\ [][Next]_vars

\* The cron keeps firing, a pass that runs goes on, and time passes.
FairSpec == Spec /\ WF_vars(PassStep) /\ \A d \in Delivery : WF_vars(Ripen(d))

-----------------------------------------------------------------------------
(* Properties *)

\* A failing endpoint is paused in time: none stays enabled with Threshold
\* deliveries given up since it was last heard of or enabled, although the
\* decision rests on a count read before the post.
PausedInTime == \A e \in Endpoint : On(e) => endpoint[e].fails < Threshold

\* A delivery is given up after exactly the posts of the schedule, counting
\* again those whose outcome was never recorded, or because its endpoint was
\* found paused or is gone.
GivenUpAfterRetries ==
    \A d \in Delivery :
        /\ row[d] = "giveup" => tries[d] >= Retries \/ d \in dropped
        /\ tries[d] <= Retries + faults

\* The pass posts to an endpoint that is paused only when it was enabled as the
\* pass loaded it for this delivery: of a batch, what follows the delivery
\* whose failure paused the endpoint is not posted.
PausedLeftAlone ==
    [][PostOk \/ PostFail(TRUE) \/ PostFail(FALSE) => On(Target[cur]) \/ stale]_vars

\* The pass pauses an endpoint for Threshold deliveries given up since it was
\* last heard of or enabled, or it was touched while a post was out.
PauseEarned ==
    [][\A e \in Endpoint :
          Count /\ On(e) /\ endpoint'[e].state = "off"
             => endpoint'[e].fails >= Threshold \/ stale]_vars

\* Whatever is queued is settled at last: neither deliveries that keep failing
\* nor those of a paused endpoint hold up the ones behind them, though a pass
\* takes only Batch of them.
EverySettled == \A d \in Delivery : row[d] = "pending" ~> row[d] # "pending"

\* The retry queue is an outbox: a row leaves it only accepted or void, and
\* never comes back.
AsOutbox == INSTANCE Outbox WITH
    Item      <- Delivery,
    queued    <- Pending,
    done      <- {d \in Delivery : row[d] \in {"delivered", "giveup", "removed"}},
    delivered <- accepted,
    void      <- void

ImplementsOutbox == AsOutbox!Spec
=============================================================================
