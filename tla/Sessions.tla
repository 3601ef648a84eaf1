------------------------------ MODULE Sessions ------------------------------
(***************************************************************************)
(* Session cookies backed by KV: src/lib/session.ts with its callers, the  *)
(* sign-in callback, the exchange and sign-out of src/routes/auth.ts and   *)
(* the revocations of an administrator.                                    *)
(*                                                                         *)
(* KV has no transactions.  A read is up to two gets and a put, a sign-out *)
(* a delete, a revocation a put of the clock as it was read before it, and *)
(* the requests of two tabs, of two browsers and of an administrator       *)
(* interleave between any two of them.  A failing KV operation ends the    *)
(* request; its response, and so its Set-Cookie, is then never sent.       *)
(***************************************************************************)
EXTENDS Integers, FiniteSets

CONSTANTS
    User,      \* user ids
    Sid,       \* session ids, each minted at most once
    Browser,   \* cookie jars
    Request,   \* requests under way at once
    None,      \* no record, no cookie, no session
    TTL,       \* SESSION_TTL_SECONDS
    Lag,       \* how long another location may go on reading the old stamp
    MaxClock,  \* bound on the clock, for TLC
    MaxStamp   \* bound on revocations, for TLC

Half == TTL \div 2      \* SESSION_REFRESH_BELOW_SECONDS

VARIABLES
    clock,    \* Date.now()
    kv,       \* sess:<sid>
    rev,      \* sessrev:<user>
    old,      \* what a location the last put has not reached still reads there
    cookie,   \* what each browser holds
    req,      \* the requests under way
    minted,   \* history: session ids ever minted
    own,      \* history: the stamp of the request that minted a session
    stamps,   \* history: the stamps that landed, numbered in that order
    gone,     \* history: sessions a completed request has ended
    revived   \* history: of these, those a slide under way has put back

store   == <<kv, rev, old, cookie>>
history == <<minted, own, stamps, gone, revived>>
vars    == <<clock, store, req, history>>

Rec   == [user : User, issued : Nat, expires : Nat]
Stamp == [user : User, epoch : Nat, landed : Nat, n : Nat]
Idle  == [op |-> "none", pc |-> "idle", br |-> None, sid |-> None, user |-> None,
          now |-> 0, rec |-> None, out |-> "keep", known |-> 0, n |-> 0,
          over |-> FALSE]

TypeOK ==
    /\ clock \in 0..MaxClock
    /\ kv \in [Sid -> Rec \union {None}]
    /\ \A u \in User : rev[u] \in stamps \union {None} /\ old[u] \in stamps \union {None}
    /\ cookie \in [Browser -> Sid \union {None}]
    /\ \A r \in Request :
         /\ req[r].op \in {"none", "read", "others", "signout", "login", "revoke"}
         /\ req[r].sid \in Sid \union {None}
         /\ req[r].pc = "slide" => req[r].rec \in Rec
    /\ minted \subseteq Sid /\ gone \subseteq minted /\ revived \subseteq minted
    /\ \A s \in Sid : kv[s] # None => s \in minted
    /\ \A h \in stamps : h \in Stamp /\ h.n \in 1..MaxStamp

Init ==
    /\ clock = 0
    /\ kv = [s \in Sid |-> None]
    /\ rev = [u \in User |-> None] /\ old = [u \in User |-> None]
    /\ cookie = [b \in Browser |-> None]
    /\ req = [r \in Request |-> Idle]
    /\ minted = {} /\ stamps = {} /\ gone = {} /\ revived = {}
    /\ own = [s \in Sid |-> 0]

At(r, pc) == req[r].pc = pc
Goto(r, pc) == req' = [req EXCEPT ![r].pc = pc]

\* How many of the stamps every location has seen by now.
Propagated == Cardinality({h \in stamps : h.landed + Lag <= clock})

Arrive(r, q) ==
    /\ At(r, "idle")
    /\ req' = [req EXCEPT ![r] = q]
    /\ UNCHANGED <<clock, store, history>>

From(op, b, pc) == [Idle EXCEPT !.op = op, !.br = b, !.sid = cookie[b], !.pc = pc]

\* All that is left is to answer, with the cookie that was set if one was.
Answered(q, out) ==
    IF out = "keep" THEN Idle
    ELSE [Idle EXCEPT !.op = q.op, !.br = q.br, !.sid = q.sid, !.pc = "respond",
                      !.out = out]

-----------------------------------------------------------------------------
\* readSession, and the sign-out everywhere else that starts with it.
StartRead(r, b) ==
    /\ cookie[b] # None
    /\ \E op \in {"read", "others"} :
         Arrive(r, [From(op, b, "get") EXCEPT !.known = Propagated,
                                              !.over = cookie[b] \in gone])

\* The first get, and the clock that is read right after it.
GetSession(r) ==
    LET rec == kv[req[r].sid] IN
    /\ At(r, "get")
    /\ req' = [req EXCEPT ![r] =
         CASE rec = None -> Answered(@, "keep")
           [] rec # None /\ rec.expires < clock -> [@ EXCEPT !.pc = "reap"]
           [] OTHER -> [@ EXCEPT !.pc = "rev", !.now = clock, !.rec = rec]]
    /\ UNCHANGED <<clock, store, history>>

\* KV forgets a stamp TTL after its put, and for Lag after a put a location
\* may still read what was there before.
Live(h) == h # None /\ clock <= h.landed + TTL
Readable(u) ==
    {rev[u]} \union {h \in {old[u]} : rev[u] # None /\ clock < rev[u].landed + Lag}

\* Mutant: the session of the very millisecond is spared.
RevokedBefore(rec, h) == Live(h) /\ rec.issued < h.epoch
Revoked(rec, h) == Live(h) /\ rec.issued <= h.epoch

\* Whether the lifetime left is short enough for the session to be slid.
Due(rec, now) == rec.expires - now < Half

GetRevocation(r) ==
    /\ At(r, "rev")
    /\ \E h \in Readable(req[r].rec.user) :
         Goto(r, CASE Revoked(req[r].rec, h) -> "reap"
                   [] ~Revoked(req[r].rec, h) /\ Due(req[r].rec, req[r].now) -> "slide"
                   [] OTHER -> "served")
    /\ UNCHANGED <<clock, store, history>>

\* The delete of a dead record; its failure is caught.
Reap(r) ==
    /\ At(r, "reap")
    /\ kv' \in {kv, [kv EXCEPT ![req[r].sid] = None]}
    /\ req' = [req EXCEPT ![r] = Answered(@, "keep")]
    /\ UNCHANGED <<clock, rev, old, cookie, history>>

Renewed(rec, now) == [rec EXCEPT !.expires = now + TTL]

Slide(r) ==
    LET s == req[r].sid IN
    /\ At(r, "slide")
    /\ kv' = [kv EXCEPT ![s] = Renewed(req[r].rec, req[r].now)]
    /\ revived' = IF kv[s] = None THEN revived \union {s} ELSE revived
    /\ req' = [req EXCEPT ![r].pc = "served", ![r].out = s]
    /\ UNCHANGED <<clock, rev, old, cookie, minted, own, stamps, gone>>

\* The handler goes on as the user of the session: a read answers, a sign-out
\* everywhere else reads the clock for its stamp.
Serve(r) ==
    /\ At(r, "served")
    /\ req' = [req EXCEPT ![r] =
         IF @.op = "read" THEN Answered(@, @.out)
         ELSE [From("others", @.br, "stamp") EXCEPT !.sid = req[r].sid,
                 !.user = req[r].rec.user, !.now = clock]]
    /\ UNCHANGED <<clock, store, history>>

-----------------------------------------------------------------------------
\* revokeUserSessions, for a ban, an erasure or the admin's button.
StartRevoke(r, u) ==
    Arrive(r, [Idle EXCEPT !.op = "revoke", !.user = u, !.now = clock, !.pc = "stamp"])

PutStamp(r) ==
    LET u == req[r].user
        h == [user |-> u, epoch |-> req[r].now, landed |-> clock,
              n |-> Cardinality(stamps) + 1]
    IN
    /\ At(r, "stamp") /\ h.n <= MaxStamp
    /\ rev' = [rev EXCEPT ![u] = h] /\ old' = [old EXCEPT ![u] = rev[u]]
    /\ stamps' = stamps \union {h}
    /\ req' = [req EXCEPT ![r] = IF @.op = "revoke" THEN Idle
                                 ELSE [@ EXCEPT !.n = h.n, !.pc = "drop"]]
    /\ UNCHANGED <<clock, kv, cookie, minted, own, gone, revived>>

\* Sign-out, and a sign-in whose user the provider or a handoff has vouched for.
StartSignout(r, b) == Arrive(r, From("signout", b, "drop"))
StartLogin(r, b, u) == Arrive(r, [From("login", b, "drop") EXCEPT !.user = u])

\* The owner's link signs in beside the session that the cookie names.
StartOwnerLogin(r, b, u) ==
    Arrive(r, [Idle EXCEPT !.op = "login", !.br = b, !.user = u, !.now = clock,
                           !.pc = "mint"])

\* The moment a session is issued at: past the stamp that is its own.
IssuedAt(q) == IF q.op = "others" /\ q.now + 1 > clock THEN q.now + 1 ELSE clock

\* revokeSession: the record the request's cookie names.  What follows is the
\* answer of a sign-out, or the clock and the put of a new session.
Drop(r) ==
    /\ At(r, "drop")
    /\ kv' = [s \in Sid |-> IF s = req[r].sid THEN None ELSE kv[s]]
    /\ req' = [req EXCEPT ![r] = IF @.op = "signout" THEN Answered(@, None)
                                 ELSE [@ EXCEPT !.now = IssuedAt(req[r]), !.pc = "mint"]]
    /\ UNCHANGED <<clock, rev, old, cookie, history>>

Mint(r) ==
    /\ At(r, "mint")
    /\ \E s \in Sid \ minted :
         /\ kv' = [kv EXCEPT ![s] = [user |-> req[r].user, issued |-> req[r].now,
                                     expires |-> req[r].now + TTL]]
         /\ minted' = minted \union {s}
         /\ own' = [own EXCEPT ![s] = req[r].n]
         /\ req' = [req EXCEPT ![r] = Answered(@, s)]
    /\ UNCHANGED <<clock, rev, old, cookie, stamps, gone, revived>>

-----------------------------------------------------------------------------
\* The response reaches the browser, with the cookie the request set.
Respond(r) ==
    LET q == req[r] IN
    /\ At(r, "respond")
    /\ cookie' = [cookie EXCEPT ![q.br] = q.out]
    /\ gone' = IF q.op = "read" THEN gone ELSE gone \union ({q.sid} \ {None})
    /\ req' = [req EXCEPT ![r] = Idle]
    /\ UNCHANGED <<clock, kv, rev, old, minted, own, stamps, revived>>

\* A KV operation, or the isolate, fails.
Fail(r) ==
    /\ ~At(r, "idle")
    /\ req' = [req EXCEPT ![r] = Idle]
    /\ UNCHANGED <<clock, store, history>>

\* A tick is a good part of TTL, thirty days, and a request takes milliseconds.
\* Ticks fall where a request is about to write a clock it has read; elsewhere a
\* tick would change nothing but the moment the request goes on at.  The two
\* gets of a read are taken to fall within one tick: left out is a read in the
\* millisecond at which a record and the stamp that refuses it both expire.
Tick ==
    /\ clock < MaxClock
    /\ \A r \in Request : req[r].pc \in {"idle", "slide", "stamp", "mint"}
    /\ clock' = clock + 1
    /\ UNCHANGED <<store, req, history>>

Next ==
    \/ \E r \in Request :
         \/ \E b \in Browser : StartRead(r, b) \/ StartSignout(r, b)
         \/ \E u \in User :
              \/ StartRevoke(r, u)
              \/ \E b \in Browser : StartLogin(r, b, u) \/ StartOwnerLogin(r, b, u)
         \/ GetSession(r) \/ GetRevocation(r) \/ Reap(r) \/ Slide(r) \/ Serve(r)
         \/ PutStamp(r) \/ Drop(r) \/ Mint(r) \/ Respond(r) \/ Fail(r)
    \/ Tick

Spec == Init /\ [][Next]_vars

-----------------------------------------------------------------------------
\* The handler runs on the session; a failure before it does not count.
Served(r) == At(r, "served") /\ Serve(r)

\* What revokeUserSessions' comment claims: a stamp stands for as long as
\* anything minted before it could.  It fails from a Lag of two on: a session
\* that is slid where the stamp cannot be seen yet outlives the stamp, and is
\* served again.
RevokedStaysDead ==
    [][\A r \in Request : Served(r) =>
         \A h \in stamps :
           h.n <= req[r].known /\ h.user = req[r].rec.user
             /\ req[r].rec.issued <= h.epoch =>
             \E g \in stamps : /\ g.user = h.user /\ g.n > h.n
                               /\ g.epoch < req[r].rec.issued]_vars

\* A request that starts after a revocation is known everywhere is not served
\* on a session issued at or before it while KV keeps the stamp, however long
\* the stamp took to reach a location and whatever slid meanwhile.  The one
\* exception is a revocation whose clock was read before and whose put came
\* after it: the later put wins and may spare what the earlier one had ended.
\* (revocationKey: "every session issued at or before this timestamp is dead".)
RevokedWhileStamped ==
    [][\A r \in Request : Served(r) =>
         \A h \in stamps :
           h.n <= req[r].known /\ h.user = req[r].rec.user
             /\ req[r].rec.issued <= h.epoch /\ Live(h) =>
             \E g \in stamps : /\ g.user = h.user /\ g.n > h.n
                               /\ g.epoch < req[r].rec.issued]_vars

\* A session that a completed sign-out, sign-in or sign-out everywhere else
\* has ended serves no later request, unless a slide that had read the record
\* before its delete wrote it back.
EndedStaysEnded ==
    [][\A r \in Request :
         Served(r) /\ req[r].over => req[r].sid \in revived]_vars

\* Signing out everywhere else does not sign out the caller: when a session is
\* refused, it is on account of another stamp than that of the request it was
\* issued by, the two being written in the same millisecond included.
CallerKeepsSession ==
    [][\A r \in Request :
         At(r, "rev") /\ req'[r].pc = "reap" =>
           \E g \in Readable(req[r].rec.user) :
             Revoked(req[r].rec, g) /\ g.n # own[req[r].sid]]_vars
=============================================================================
