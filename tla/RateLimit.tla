------------------------------ MODULE RateLimit ------------------------------
(* The sliding-window rate limiter on its two back ends.  Every request of an *)
(* identity consults two buckets, its route's and one envelope for all        *)
(* routes, each with a short and a long window over one list of stamps.  The  *)
(* Cache API back end reads, decides and overwrites, per colo; the optional   *)
(* shard, a Durable Object, decides both buckets at once in memory.           *)
(*                                                                           *)
(* A stamp is the request that left it.  Left out: the clamp on a bucket's    *)
(* length, which the configured limits stay under, and the choice among       *)
(* shards: an identity is always on the same one.                             *)
EXTENDS Integers, FiniteSets

CONSTANTS
    Request,      \* requests, each once
    Identity,     \* users and hashed addresses
    Scope,        \* the routes that are limited; "global" is not one of them
    Colo,         \* data centres, each with a cache of its own
    Limit,        \* per scope, and for "global": its two windows, each with
                  \*   how many it lets through and how long it is
    MaxBuckets,   \* buckets a shard holds
    EvictTo,      \* buckets it goes down to once it holds more
    MaxNow        \* bound on the clock, for TLC

Route == Scope \cup {"global"}

VARIABLES
    now,
    backend,    \* which of the two this install runs
    req,        \* per request: where it is, whose it is, what it read
    cache,      \* per colo and key: the stamps of that entry
    shard,      \* per key: the stamps of the shard's bucket, none if it has none
    turn,       \* per key: when its bucket was last written, before or after
                \*   which others
    stamped,    \* per place and key: who stamped it since it was last lost
    overlap     \* requests that met another of their identity in their colo

vars == <<now, backend, req, cache, shard, turn, stamped, overlap>>

Key == Route \X Identity
Place == Colo \cup {"shard"}

Open == {"scope", "global", "writing"}
Idle == [pc |-> "idle"]

TypeOK ==
    /\ now \in 0..MaxNow
    /\ backend \in {"cache", "shard"}
    /\ req \in [Request -> {Idle} \cup
          [pc : Open \cup {"allowed", "degraded", "short", "long", "envelope"},
           id : Identity, scope : Scope, colo : Place, at : 0..MaxNow,
           seen : [Route -> SUBSET Request], todo : SUBSET Route,
           failed : SUBSET Route]]
    /\ cache \in [Colo -> [Key -> SUBSET Request]]
    /\ shard \in [Key -> SUBSET Request]
    /\ turn \in [Key -> Nat]
    /\ stamped \in [Place -> [Key -> SUBSET Request]]
    /\ overlap \in SUBSET Request

Init ==
    /\ now = 0
    /\ backend \in {"cache", "shard"}
    /\ req = [r \in Request |-> Idle]
    /\ cache = [c \in Colo |-> [k \in Key |-> {}]]
    /\ shard = [k \in Key |-> {}]
    /\ turn = [k \in Key |-> 0]
    /\ stamped = [p \in Place |-> [k \in Key |-> {}]]
    /\ overlap = {}

-----------------------------------------------------------------------------
(* decideStamps: which stamps are still in a window, and whether one more     *)
(* fits.  The short window is looked at first.                                *)

Within(stamps, ticks, t) == {q \in stamps : req[q].at + ticks > t}

Live(stamps, x, t) == Within(stamps, Limit[x].long.ticks, t)

\* Mutant: the one that reaches the limit still fits.
VerdictOneMore(stamps, x, t) ==
    LET live == Live(stamps, x, t) IN
    IF Cardinality(Within(live, Limit[x].short.ticks, t)) > Limit[x].short.max
    THEN "short"
    ELSE IF Cardinality(live) > Limit[x].long.max THEN "long" ELSE "ok"

Verdict(stamps, x, t) ==
    LET live == Live(stamps, x, t) IN
    IF Cardinality(Within(live, Limit[x].short.ticks, t)) >= Limit[x].short.max
    THEN "short"
    ELSE IF Cardinality(live) >= Limit[x].long.max THEN "long" ELSE "ok"

Arrived(i, s, p) ==
    [pc |-> "scope", id |-> i, scope |-> s, colo |-> p, at |-> now,
     seen |-> [x \in Route |-> {}], todo |-> {}, failed |-> {}]

-----------------------------------------------------------------------------
(* The Cache API back end.                                                    *)

Meets(r, i, c) ==
    {q \in Request \ {r} : req[q].pc \in Open /\ req[q].id = i /\ req[q].colo = c}

Begin(r, i, s, c) ==
    /\ backend = "cache" /\ req[r] = Idle
    /\ req' = [req EXCEPT ![r] = Arrived(i, s, c)]
    /\ overlap' = IF Meets(r, i, c) = {} THEN overlap
                  ELSE overlap \cup Meets(r, i, c) \cup {r}
    /\ UNCHANGED <<now, backend, cache, shard, turn, stamped>>

\* The route's bucket is read and decided first: full, and nothing is written.
ReadScope(r) ==
    LET R == req[r] IN
    /\ R.pc = "scope"
    /\ LET S == cache[R.colo][<<R.scope, R.id>>]
           v == Verdict(S, R.scope, R.at)
       IN  req' = [req EXCEPT ![r] = [R EXCEPT
              !.pc = IF v = "ok" THEN "global" ELSE v,
              !.seen = IF v = "ok"
                       THEN [R.seen EXCEPT ![R.scope] = Live(S, R.scope, R.at)]
                       ELSE R.seen]]
    /\ UNCHANGED <<now, backend, cache, shard, turn, stamped, overlap>>

\* Then the envelope.
ReadGlobal(r) ==
    LET R == req[r] IN
    /\ R.pc = "global"
    /\ LET S == cache[R.colo][<<"global", R.id>>]
           ok == Verdict(S, "global", R.at) = "ok"
       IN  req' = [req EXCEPT ![r] = [R EXCEPT
              !.pc = IF ok THEN "writing" ELSE "envelope",
              !.todo = IF ok THEN {R.scope, "global"} ELSE {},
              !.seen = IF ok
                       THEN [R.seen EXCEPT !["global"] = Live(S, "global", R.at)]
                       ELSE [x \in Route |-> {}]]]
    /\ UNCHANGED <<now, backend, cache, shard, turn, stamped, overlap>>

Grown(seen, r) == seen \cup {r}

(* One of the two puts: what this request read, and its own stamp, replace    *)
(* the entry whatever it holds by now.  If one fails the request goes through *)
(* unmetered all the same.                                                    *)
Write(r, x) ==
    LET R == req[r]
        k == <<x, R.id>>
    IN
    /\ R.pc = "writing" /\ x \in R.todo
    /\ \E lands \in BOOLEAN :
          LET failed == IF lands THEN R.failed ELSE R.failed \cup {x} IN
          /\ req' = [req EXCEPT ![r] = [R EXCEPT
                !.todo = R.todo \ {x}, !.seen = [R.seen EXCEPT ![x] = {}],
                !.failed = IF R.todo = {x} THEN {} ELSE failed,
                !.pc = IF R.todo # {x} THEN "writing"
                       ELSE IF failed = {} THEN "allowed" ELSE "degraded"]]
          /\ IF lands
             THEN /\ cache' = [cache EXCEPT ![R.colo][k] = Grown(R.seen[x], r)]
                  /\ stamped' = [stamped EXCEPT ![R.colo][k] = @ \cup {r}]
             ELSE UNCHANGED <<cache, stamped>>
    /\ UNCHANGED <<now, backend, shard, turn, overlap>>

\* A read fails: the request goes through unmetered.
ReadFails(r) ==
    /\ req[r].pc \in {"scope", "global"}
    /\ req' = [req EXCEPT ![r] = [req[r] EXCEPT !.pc = "degraded",
                                       !.seen = [x \in Route |-> {}]]]
    /\ UNCHANGED <<now, backend, cache, shard, turn, stamped, overlap>>

\* The Cache API forgets an entry.
Lose(c, k) ==
    /\ cache[c][k] # {}
    /\ cache' = [cache EXCEPT ![c][k] = {}]
    /\ stamped' = [stamped EXCEPT ![c][k] = {}]
    /\ UNCHANGED <<now, backend, req, shard, turn, overlap>>

-----------------------------------------------------------------------------
(* The shard: a Map of buckets in the order they were last written.           *)

Buckets(i, s) == {<<s, i>>, <<"global", i>>}

Expired(k) == Live(shard[k], k[1], now) = {}

\* Mutant: the envelope is not charged.
ChargedScope(buckets, i, s, r) ==
    [k \in Key |-> IF k = <<s, i>> THEN Live(buckets[k], k[1], now) \cup {r}
                   ELSE buckets[k]]

\* Both buckets stamped.
Charged(buckets, i, s, r) ==
    [k \in Key |-> IF k \in Buckets(i, s) THEN Live(buckets[k], k[1], now) \cup {r}
                   ELSE buckets[k]]

\* Written last: the route's bucket, and the envelope after it.
Moved(i, s) ==
    LET n == 2 * Cardinality({q \in Request : req[q] # Idle}) IN
    [turn EXCEPT ![<<s, i>>] = n + 1, ![<<"global", i>>] = n + 2]

\* A shard that holds too many drops the ones written longest ago.
Evicted(buckets, order) ==
    LET held == {k \in Key : buckets[k] # {}} IN
    IF Cardinality(held) <= MaxBuckets THEN {}
    ELSE {k \in held : Cardinality({l \in held : order[l] > order[k]}) >= EvictTo}

\* What the shard makes of a request: the route first, then the envelope.
Judged(i, s) ==
    LET v == Verdict(shard[<<s, i>>], s, now) IN
    IF v # "ok" THEN v
    ELSE IF Verdict(shard[<<"global", i>>], "global", now) # "ok" THEN "envelope"
    ELSE "allowed"

(* handleDecide, in one go: the sweep takes some of the expired buckets, both *)
(* are decided, and only a request that passes both is stamped.  The answer   *)
(* may still be lost on its way; then the request goes through.               *)
Decide(r, i, s) ==
    /\ backend = "shard" /\ req[r] = Idle
    /\ \E lost \in BOOLEAN, swept \in SUBSET {k \in Key : Expired(k)} :
          LET rest == [k \in Key |-> IF k \in swept THEN {} ELSE shard[k]]
              full == Charged(rest, i, s, r)
              out == Evicted(full, Moved(i, s))
          IN
          /\ req' = [req EXCEPT ![r] = [Arrived(i, s, "shard") EXCEPT
                        !.pc = IF lost THEN "degraded" ELSE Judged(i, s)]]
          /\ IF Judged(i, s) = "allowed"
             THEN /\ shard' = [k \in Key |-> IF k \in out THEN {} ELSE full[k]]
                  /\ turn' = Moved(i, s)
                  /\ stamped' = [stamped EXCEPT !["shard"] = [k \in Key |->
                        IF k \in out THEN {}
                        ELSE IF k \in Buckets(i, s) THEN @[k] \cup {r} ELSE @[k]]]
             ELSE shard' = rest /\ UNCHANGED <<turn, stamped>>
    /\ UNCHANGED <<now, backend, cache, overlap>>

\* The shard is not reached in time.
Unreached(r, i, s) ==
    /\ backend = "shard" /\ req[r] = Idle
    /\ req' = [req EXCEPT ![r] = [Arrived(i, s, "shard") EXCEPT !.pc = "degraded"]]
    /\ UNCHANGED <<now, backend, cache, shard, turn, stamped, overlap>>

\* Hibernation and reclamation take the whole Map.
Hibernate ==
    /\ \E k \in Key : shard[k] # {}
    /\ shard' = [k \in Key |-> {}]
    /\ stamped' = [stamped EXCEPT !["shard"] = [k \in Key |-> {}]]
    /\ UNCHANGED <<now, backend, req, cache, turn, overlap>>

Tick ==
    /\ now < MaxNow
    /\ now' = now + 1
    /\ UNCHANGED <<backend, req, cache, shard, turn, stamped, overlap>>

Next ==
    \/ \E r \in Request, i \in Identity, s \in Scope :
          \/ \E c \in Colo : Begin(r, i, s, c)
          \/ Decide(r, i, s) \/ Unreached(r, i, s)
    \/ \E r \in Request :
          \/ ReadScope(r) \/ ReadGlobal(r) \/ ReadFails(r)
          \/ \E x \in Route : Write(r, x)
    \/ \E c \in Colo, k \in Key : Lose(c, k)
    \/ Hibernate
    \/ Tick

Spec == Init /\ [][Next]_vars

-----------------------------------------------------------------------------
Spread(S, ticks, t) == Cardinality({q \in S : req[q].at <= t /\ t - req[q].at < ticks})

\* Nowhere in S do more than a bucket's limits fall into one of its windows.
WithinLimits(S, x) ==
    \A q \in S :
        /\ Spread(S, Limit[x].short.ticks, req[q].at) <= Limit[x].short.max
        /\ Spread(S, Limit[x].long.ticks, req[q].at) <= Limit[x].long.max

(* The shard meters exactly: as long as a bucket is not evicted or hibernated *)
(* away, no window of it sees more than its limit, the envelope's included.   *)
ShardHoldsCap ==
    \A k \in Key : WithinLimits(stamped["shard"][k], k[1])

(* The Cache API back end lets more through, in a colo whose entry was not    *)
(* lost, only if requests of that identity overlapped there.                  *)
OvershootOnlyByOverlap ==
    \A c \in Colo, k \in Key :
        ~WithinLimits(stamped[c][k], k[1]) =>
            \E r \in overlap : req[r].id = k[2] /\ req[r].colo = c

(* On either back end, whatever raced or was lost, a request is turned away   *)
(* only if the limit's worth of requests that were let through fell into the  *)
(* window before it: what was refused or forgotten never counts.              *)
BlockIsEarned ==
    \A r \in Request : req[r].pc \in {"short", "long", "envelope"} =>
        LET past(x, ticks) ==
                {q \in Request : /\ req[q].pc \in {"writing", "allowed", "degraded"}
                                /\ req[q].id = req[r].id /\ req[q].colo = req[r].colo
                                /\ x \in {req[q].scope, "global"}
                                /\ req[r].at - req[q].at < ticks}
            full(x, w) == Cardinality(past(x, w.ticks)) >= w.max
        IN  CASE req[r].pc = "short" -> full(req[r].scope, Limit[req[r].scope].short)
              [] req[r].pc = "long"  -> full(req[r].scope, Limit[req[r].scope].long)
              [] OTHER -> full("global", Limit["global"].short)
                          \/ full("global", Limit["global"].long)
=============================================================================
