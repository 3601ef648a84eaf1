---------------------------- MODULE EmailBudget ----------------------------
(***************************************************************************)
(* The global ceiling on outbound mail: src/lib/email-budget.ts, used by   *)
(* POST /api/v1/subscribe and by the moderator digest.                     *)
(*                                                                         *)
(* A budget is one row of email_send_budget, a fixed window and a count.   *)
(* A request reserves one send against each budget of its chain, in order, *)
(* then either mails or hands the slots back.  Every reservation and every *)
(* release is a single UPDATE and so one step here; between two of them    *)
(* any other request may run, and the timestamp a request works with is    *)
(* the one it read before its first statement.                             *)
(***************************************************************************)
EXTENDS Integers, FiniteSets, Sequences

CONSTANTS
    Request,    \* sends attempted, each once: a subscribe request or a digest tick
    Budget,     \* the scopes, "confirm:burst", "confirm:daily", "moderator:..."
    Chain,      \* Chain[r]: the budgets request r reserves, in order
    Window,     \* Window[b]: length of b's window
    Cap,        \* Cap[r][b]: the max request r reads for b; settings are cached
                \* per isolate, so two requests may hold different ones
    StartClock, \* when the first request may arrive
    MaxClock    \* bound on the clock, for TLC

ASSUME RequestAssumption == IsFiniteSet(Request) /\ Request # {}
ASSUME ChainAssumption   ==
    /\ Chain \in [Request -> Seq(Budget)]
    /\ \A r \in Request : \A i, j \in DOMAIN Chain[r] :
          Chain[r][i] = Chain[r][j] => i = j
ASSUME WindowAssumption  == Window \in [Budget -> Nat \ {0}]
\* "window_start = 0 is always outside any window" (migration 0018).
ASSUME ClockAssumption   ==
    StartClock \in Nat /\ \A b \in Budget : Window[b] <= StartClock
\* lib/settings.ts gives both caps a minimum of 1 and a maximum of its own.
ASSUME CapAssumption     == Cap \in [Request -> [Budget -> Nat \ {0}]]

VARIABLES
    clock,        \* Date.now()
    seeded,       \* the scopes whose row exists
    sent,         \* email_send_budget.sent, by scope
    windowStart,  \* email_send_budget.window_start, by scope
    pc,           \* where each request is in reserveSend and its caller
    at,           \* the `now` a request captured when it called reserveSend
    pos,          \* the index in its chain of the budget it reserves next
    held,         \* the budgets its Reservation would release
    counted       \* history: counted[b] is the requests whose increment is in
                  \* the present window of b and has not been taken back

vars == <<clock, seeded, sent, windowStart, pc, at, pos, held, counted>>

InFlight == {"reserving", "probing", "granted", "releasing"}
Done     == {"mailed", "unmailed", "denied", "crashed"}

TypeOK ==
    /\ clock \in Nat
    /\ seeded \subseteq Budget
    /\ sent \in [Budget -> Nat]
    /\ windowStart \in [Budget -> Nat]
    /\ pc \in [Request -> {"idle"} \union InFlight \union Done]
    /\ at \in [Request -> Nat]
    /\ pos \in [Request -> Nat \ {0}]
    /\ held \in [Request -> SUBSET Budget]
    /\ counted \in [Budget -> SUBSET Request]

Init ==
    /\ clock = StartClock
    /\ seeded \in {{}, Budget}
    /\ sent = [b \in Budget |-> 0]
    /\ windowStart = [b \in Budget |-> 0]
    /\ pc = [r \in Request |-> "idle"]
    /\ at = [r \in Request |-> 0]
    /\ pos = [r \in Request |-> 1]
    /\ held = [r \in Request |-> {}]
    /\ counted = [b \in Budget |-> {}]

-----------------------------------------------------------------------------
(* The two statements *)

\* window_start <= cutoff, with cutoff = now - windowSec
Expired(r, b) == windowStart[b] <= at[r] - Window[b]

\* Mutant: one send more than the cap.
CanReserveOneMore(r, b) == Expired(r, b) \/ sent[b] <= Cap[r][b]

\* The WHERE clause of reserveOne.
CanReserve(r, b) == Expired(r, b) \/ sent[b] < Cap[r][b]

\* The SET clause: an expired window is rolled forward and its count restarted.
ReserveOne(r, b) ==
    IF Expired(r, b)
    THEN /\ sent' = [sent EXCEPT ![b] = 1]
         /\ windowStart' = [windowStart EXCEPT ![b] = at[r]]
         /\ counted' = [counted EXCEPT ![b] = {r}]
    ELSE /\ sent' = [sent EXCEPT ![b] = @ + 1]
         /\ counted' = [counted EXCEPT ![b] = @ \union {r}]
         /\ UNCHANGED windowStart

\* Mutants: without `window_start <= reservedAt`, and without any guard.
CanReleaseAnyWindow(r, b) == sent[b] > 0
\* The WHERE clause of releaseOne.
CanRelease(r, b) == sent[b] > 0 /\ windowStart[b] <= at[r]

ReleaseOne(r, b) ==
    IF CanRelease(r, b)
    THEN /\ sent' = [sent EXCEPT ![b] = @ - 1]
         /\ counted' = [counted EXCEPT ![b] = @ \ {r}]
    ELSE UNCHANGED <<sent, counted>>

-----------------------------------------------------------------------------
(* reserveSend *)

\* A caller reads the clock once, then starts on its chain.
Begin(r) ==
    /\ pc[r] = "idle"
    /\ pc' = [pc EXCEPT ![r] = "reserving"]
    /\ at' = [at EXCEPT ![r] = clock]
    /\ UNCHANGED <<clock, seeded, sent, windowStart, pos, held, counted>>

AtBudget(r, b) == pos[r] \in DOMAIN Chain[r] /\ b = Chain[r][pos[r]]

\* The request ends without its Reservation; its locals are gone.
Abandon(r, outcome) ==
    /\ pc' = [pc EXCEPT ![r] = outcome]
    /\ at' = [at EXCEPT ![r] = 0]
    /\ pos' = [pos EXCEPT ![r] = 1]
    /\ held' = [held EXCEPT ![r] = {}]

\* changes > 0: the slot is ours; go on with the next budget.
Reserve(r, b) ==
    /\ pc[r] = "reserving" /\ AtBudget(r, b)
    /\ b \in seeded /\ CanReserve(r, b)
    /\ ReserveOne(r, b)
    /\ held' = [held EXCEPT ![r] = @ \union {b}]
    /\ pos' = [pos EXCEPT ![r] = @ + 1]
    /\ UNCHANGED <<clock, seeded, pc, at>>

\* changes = 0: the cap is spent, or there is no such row.
NoSlot(r, b) ==
    /\ pc[r] = "reserving" /\ AtBudget(r, b)
    /\ ~(b \in seeded /\ CanReserve(r, b))
    /\ pc' = [pc EXCEPT ![r] = "probing"]
    /\ UNCHANGED <<clock, seeded, sent, windowStart, at, pos, held, counted>>

\* scopeExists is false: fail open for this budget.
SkipMissing(r, b) ==
    /\ pc[r] = "probing" /\ AtBudget(r, b)
    /\ b \notin seeded
    /\ pc' = [pc EXCEPT ![r] = "reserving"]
    /\ pos' = [pos EXCEPT ![r] = @ + 1]
    /\ UNCHANGED <<clock, seeded, sent, windowStart, at, held, counted>>

\* scopeExists is true.  What the earlier budgets granted is kept on purpose,
\* and the Reservation's release is a no-op.
Deny(r, b) ==
    /\ pc[r] = "probing" /\ AtBudget(r, b)
    /\ b \in seeded
    /\ Abandon(r, "denied")
    /\ UNCHANGED <<clock, seeded, sent, windowStart, counted>>

\* The loop ended: ok.
Grant(r) ==
    /\ pc[r] = "reserving"
    /\ pos[r] \notin DOMAIN Chain[r]
    /\ pc' = [pc EXCEPT ![r] = "granted"]
    /\ UNCHANGED <<clock, seeded, sent, windowStart, at, pos, held, counted>>

\* D1 throws, before the statement took effect or after: ALLOW, whose release
\* is a no-op, so the slots reserved so far leak until their window rolls.
FailOpen(r, b) ==
    /\ pc[r] \in {"reserving", "probing"} /\ AtBudget(r, b)
    /\ \/ UNCHANGED <<sent, windowStart, counted>>
       \/ /\ pc[r] = "reserving" /\ b \in seeded /\ CanReserve(r, b)
          /\ ReserveOne(r, b)
    /\ pc' = [pc EXCEPT ![r] = "granted"]
    /\ held' = [held EXCEPT ![r] = {}]
    /\ UNCHANGED <<clock, seeded, at, pos>>

-----------------------------------------------------------------------------
(* The caller *)

\* sendEmail returned true: the slots stay spent.
Mail(r) ==
    /\ pc[r] = "granted"
    /\ pc' = [pc EXCEPT ![r] = "mailed"]
    /\ UNCHANGED <<clock, seeded, sent, windowStart, at, pos, held, counted>>

\* Mutant: the caller forgets release().
NoMailNoRelease(r) ==
    /\ pc[r] = "granted"
    /\ pc' = [pc EXCEPT ![r] = "unmailed"]
    /\ UNCHANGED <<clock, seeded, sent, windowStart, at, pos, held, counted>>

\* There was nothing to send, or sendEmail returned false: the provider refused,
\* or it took the mail and the answer was lost, which nobody can tell.
NoMail(r) ==
    /\ pc[r] = "granted"
    /\ pc' = [pc EXCEPT ![r] = "releasing"]
    /\ UNCHANGED <<clock, seeded, sent, windowStart, at, pos, held, counted>>

\* The first budget of r's chain it still has to release.
NextHeld(r, b) ==
    \E i \in DOMAIN Chain[r] :
        /\ Chain[r][i] = b /\ b \in held[r]
        /\ \A j \in DOMAIN Chain[r] : j < i => Chain[r][j] \notin held[r]

Release(r, b) ==
    /\ pc[r] = "releasing"
    /\ NextHeld(r, b)
    /\ ReleaseOne(r, b)
    /\ held' = [held EXCEPT ![r] = @ \ {b}]
    /\ UNCHANGED <<clock, seeded, windowStart, pc, at, pos>>

Released(r) ==
    /\ pc[r] = "releasing"
    /\ held[r] = {}
    /\ pc' = [pc EXCEPT ![r] = "unmailed"]
    /\ UNCHANGED <<clock, seeded, sent, windowStart, at, pos, held, counted>>

\* The isolate dies, or a D1 error ends the release loop: the rest leaks.
Crash(r) ==
    /\ pc[r] \in InFlight
    /\ Abandon(r, "crashed")
    /\ UNCHANGED <<clock, seeded, sent, windowStart, counted>>

\* Migrations 0018 and 0021 insert the rows, sent = 0 and window_start = 0.
Migrate ==
    /\ seeded = {}
    /\ seeded' = Budget
    /\ UNCHANGED <<clock, sent, windowStart, pc, at, pos, held, counted>>

Tick ==
    /\ clock < MaxClock
    /\ clock' = clock + 1
    /\ UNCHANGED <<seeded, sent, windowStart, pc, at, pos, held, counted>>

BudgetStep(r, b) ==
    \/ Reserve(r, b) \/ NoSlot(r, b) \/ SkipMissing(r, b) \/ Deny(r, b)
    \/ FailOpen(r, b) \/ Release(r, b)

RequestStep(r) ==
    \/ Begin(r) \/ Grant(r) \/ Mail(r) \/ NoMail(r) \/ Released(r) \/ Crash(r)
    \/ \E b \in Budget : BudgetStep(r, b)

Next == Tick \/ Migrate \/ \E r \in Request : RequestStep(r)

Spec == Init /\ [][Next]_vars

-----------------------------------------------------------------------------
(* Properties *)

\* The counter of a scope is exactly the number of reservations made in its
\* present window and not taken back, whatever the interleaving of the two
\* UPDATEs of email-budget.ts: no grant is lost, none is counted twice and no
\* release is charged to somebody else.
SentIsLedger == \A b \in Budget : sent[b] = Cardinality(counted[b])

\* r's mail went out on reservations it still holds, made in b's present window.
MailedIn(b) == {r \in Request : /\ pc[r] = "mailed"
                                /\ b \in held[r]
                                /\ windowStart[b] <= at[r]}

\* The ceiling: the mails of one window never outnumber the largest cap any
\* request was shown, not even when concurrent requests reserve, mail and
\* release around the roll of the window.  Only mail that failed open escapes, and
\* mail whose answer was lost: its slot was handed back.
MailWithinCap ==
    \A b \in Budget : \E r \in Request : Cardinality(MailedIn(b)) <= Cap[r][b]

\* "we correctly decline to decrement a window we never contributed to"
\* (email-budget.ts, releaseOne): a step lowers a counter without rolling its
\* window only by giving back the slot the releasing request has in it.
ReleaseOnlyOwnSlot ==
    [][\A b \in Budget :
          sent'[b] < sent[b] /\ windowStart'[b] = windowStart[b]
          => \E r \in counted[b] : /\ pc[r] = "releasing" /\ b \in held[r]
                                   /\ sent'[b] = sent[b] - 1]_vars

\* "a reader re-subscribing ... would silently burn global budget for an email
\* that was never sent": a slot of the present window belongs to a request that
\* mailed, is still running, was denied by a later budget, hit a fault, or
\* worked with a clock reading from before the window.
Faulted(r) == pc[r] = "crashed" \/ (pc[r] \in {"granted", "releasing", "unmailed"}
                                     /\ held[r] = {} /\ pos[r] \in DOMAIN Chain[r])
SlotsAccountedFor ==
    \A b \in Budget : \A r \in counted[b] :
        \/ pc[r] \in {"mailed", "denied"}
        \/ pc[r] \in InFlight /\ b \in held[r]
        \/ Faulted(r)
        \/ at[r] < windowStart[b]
=============================================================================
