------------------------------ MODULE Composer ------------------------------
(* A comment box of the embedded widget behind its anti-spam challenge: the  *)
(* gate that holds a challenge token, the submits that wait for one, and the *)
(* renders that take a box away from under them.  One box is the composer on *)
(* top of the thread, built anew by every render; another may be a reply     *)
(* form.  Every handler is one task of the browser: what it calls, and the   *)
(* continuations of the promises it settles, happen before the next.         *)
(*                                                                           *)
(* Left out: the words (the draft, the preview), the form-timing token       *)
(* beyond the wait for it, and boxes without a challenge.                    *)
EXTENDS Naturals, FiniteSets

CONSTANTS Submit,       \* submits under way at most, each a name to reuse
          MaxForm,      \* boxes built on this page
          MaxToken      \* tokens the challenge hands out

VARIABLES
    form,       \* per box: its place, its button and status line, its gate
    made,       \* boxes built so far; box number `made` is the latest
    sub,        \* per submit: where it is, its box, its token
    issued,     \* tokens handed out so far
    spent,      \* tokens the server has verified, each good once
    answered    \* tokens of posts whose outcome the page has handled

vars == <<form, made, sub, issued, spent, answered>>

Form == 1..MaxForm
Token == 1..MaxToken
None == 0               \* no token
Status == {"clear", "notice", "error", "failed", "posted"}

Idle == [pc |-> "idle", form |-> 1, token |-> None, pressed |-> FALSE,
         known |-> {}]

(* A box as it is built.  A reply form mounts its challenge at once, the      *)
(* composer on first focus.  `leaving`: its post asked for a reload.          *)
Built(kind) ==
    [kind |-> kind, live |-> TRUE, button |-> TRUE, box |-> "clear",
     input |-> None, leaving |-> FALSE, mounted |-> kind = "reply",
     failed |-> FALSE, disposed |-> FALSE, alive |-> FALSE,
     interactive |-> FALSE, retries |-> 1, held |-> None, timer |-> FALSE]

Unbuilt == [Built("top") EXCEPT !.live = FALSE]

TypeOK ==
    /\ form \in [Form -> [kind : {"top", "reply"}, live : BOOLEAN,
                          button : BOOLEAN, box : Status,
                          input : Token \cup {None}, leaving : BOOLEAN,
                          mounted : BOOLEAN, failed : BOOLEAN,
                          disposed : BOOLEAN, alive : BOOLEAN,
                          interactive : BOOLEAN, retries : {0, 1},
                          held : Token \cup {None}, timer : BOOLEAN]]
    /\ made \in Form
    /\ sub \in [Submit -> [pc : {"idle", "waiting", "minting", "posting"},
                           form : Form, token : Token \cup {None},
                           pressed : BOOLEAN, known : SUBSET Token]]
    /\ issued \in 0..MaxToken
    /\ spent \in SUBSET Token
    /\ answered \in SUBSET Token

Init ==
    /\ form = [f \in Form |-> IF f = 1 THEN Built("top") ELSE Unbuilt]
    /\ made = 1
    /\ sub = [s \in Submit |-> Idle]
    /\ issued = 0
    /\ spent = {}
    /\ answered = {}

-----------------------------------------------------------------------------
(* The gate.  A submit that waits is a waiter of its box's gate.              *)

Waiters(f) == {s \in Submit : sub[s].pc = "waiting" /\ sub[s].form = f}

(* A notice gives the button back, unless the challenge has failed for good.  *)
Notice(F) == IF F.failed THEN F
             ELSE [F EXCEPT !.box = "notice", !.button = TRUE]

\* Mutant: the timer is stopped and nobody is told.
ReleasedNone(f) == sub

(* What the gate tells those it turns away: every waiter leaves with a notice *)
(* and the one timer they share is stopped.                                   *)
TurnAway(f, F) ==
    LET G == [F EXCEPT !.timer = FALSE]
    IN IF Waiters(f) = {} THEN G ELSE Notice(G)

Released(f) == [s \in Submit |-> IF s \in Waiters(f) THEN Idle ELSE sub[s]]

(* reset() of the frame and clear() of the gate: the input is emptied, and    *)
(* the next wait waits for a token of its own.                                *)
Reset(F) == [F EXCEPT !.input = None]

Clear(F) == [F EXCEPT !.held = None, !.interactive = FALSE]

(* Focus in the box mounts the frame once.                                    *)
Focus(f) ==
    /\ form[f].live /\ ~form[f].mounted /\ ~form[f].failed
    /\ form' = [form EXCEPT ![f].mounted = TRUE]
    /\ UNCHANGED <<made, sub, issued, spent, answered>>

(* The frame speaks only while it is in the document.                         *)
Speaks(f) == form[f].live /\ form[f].mounted /\ ~form[f].disposed

(* A token goes to the hidden input and to everyone who waits.                *)
FrameToken(f) ==
    /\ Speaks(f) /\ issued < MaxToken
    /\ issued' = issued + 1
    /\ form' = [form EXCEPT ![f] = [@ EXCEPT
                   !.input = issued', !.held = issued', !.alive = TRUE,
                   !.interactive = FALSE, !.timer = FALSE]]
    /\ sub' = [s \in Submit |->
                  IF s \in Waiters(f)
                  THEN [sub[s] EXCEPT !.pc = "minting", !.token = issued']
                  ELSE sub[s]]
    /\ UNCHANGED <<made, spent, answered>>

FrameReady(f) ==
    /\ Speaks(f)
    /\ form' = [form EXCEPT ![f].alive = TRUE]
    /\ UNCHANGED <<made, sub, issued, spent, answered>>

(* The challenge renews itself: the stale token goes, those waiting stay.     *)
FrameExpired(f) ==
    /\ Speaks(f)
    /\ form' = [form EXCEPT ![f] = [@ EXCEPT !.input = None, !.held = None,
                                             !.alive = TRUE]]
    /\ UNCHANGED <<made, sub, issued, spent, answered>>

FrameInteractive(f) ==
    /\ Speaks(f)
    /\ form' = [form EXCEPT ![f] =
                   TurnAway(f, [@ EXCEPT !.alive = TRUE, !.interactive = TRUE])]
    /\ sub' = Released(f)
    /\ UNCHANGED <<made, issued, spent, answered>>

(* An error Turnstile says to retry spends the gate's one retry.              *)
FrameRetries(f) ==
    /\ Speaks(f) /\ form[f].retries > 0
    /\ form' = [form EXCEPT ![f] =
                   TurnAway(f, Reset(Clear([@ EXCEPT !.retries = 0,
                                                     !.alive = TRUE])))]
    /\ sub' = Released(f)
    /\ UNCHANGED <<made, issued, spent, answered>>

(* Any other error is final: the box says so, once, and its button is off.    *)
FrameFails(f) ==
    /\ Speaks(f)
    /\ form' = [form EXCEPT ![f] =
                   IF @.failed THEN @
                   ELSE [@ EXCEPT !.failed = TRUE, !.timer = FALSE,
                                  !.button = FALSE, !.box = "failed"]]
    /\ sub' = Released(f)
    /\ UNCHANGED <<made, issued, spent, answered>>

(* Nobody waits longer than the cap.                                          *)
CapExpires(f) ==
    /\ form[f].timer
    /\ form' = [form EXCEPT ![f] =
                   TurnAway(f, [@ EXCEPT !.interactive = form[f].interactive
                                                   \/ form[f].alive])]
    /\ sub' = Released(f)
    /\ UNCHANGED <<made, issued, spent, answered>>

-----------------------------------------------------------------------------
(* A submit: wait for the gate, wait for the form-timing token, post.         *)

(* The button works when it is on; the keyboard shortcut, requestSubmit(),    *)
(* does not ask it.                                                           *)
Begin(s, f, pressed) ==
    /\ sub[s].pc = "idle" /\ form[f].live
    /\ pressed => form[f].button
    /\ LET F == [form[f] EXCEPT !.button = FALSE, !.mounted = TRUE,
                                !.box = "clear"]
           S == [Idle EXCEPT !.form = f, !.pressed = pressed,
                             !.known = IF pressed THEN answered ELSE {}]
       IN \/ /\ form[f].failed
             /\ form' = [form EXCEPT ![f].button = FALSE]
             /\ UNCHANGED sub
          \/ /\ ~form[f].failed /\ F.held # None
             /\ form' = [form EXCEPT ![f] = F]
             /\ sub' = [sub EXCEPT ![s] = [S EXCEPT !.pc = "minting",
                                                    !.token = F.held]]
          \/ /\ ~form[f].failed /\ F.held = None /\ F.interactive
             /\ form' = [form EXCEPT ![f] = Notice(F)]
             /\ UNCHANGED sub
          \/ /\ ~form[f].failed /\ F.held = None /\ ~F.interactive
             /\ form' = [form EXCEPT ![f] = [F EXCEPT !.timer = TRUE]]
             /\ sub' = [sub EXCEPT ![s] = [S EXCEPT !.pc = "waiting"]]
    /\ UNCHANGED <<made, issued, spent, answered>>

(* The token is read as late as it can be: the live input before the one the  *)
(* wait returned.                                                             *)
Post(s) ==
    /\ sub[s].pc = "minting"
    /\ sub' = [sub EXCEPT ![s].pc = "posting",
                          ![s].token = IF form[sub[s].form].input # None
                                       THEN form[sub[s].form].input ELSE @]
    /\ UNCHANGED <<form, made, issued, spent, answered>>

(* The status line of the composer that is on the page now.                   *)
Announced(g) == [f \in Form |->
    IF g[f].live /\ g[f].kind = "top" THEN [g[f] EXCEPT !.box = "posted"]
    ELSE g[f]]

Dispose(f, F) == [TurnAway(f, F) EXCEPT !.disposed = TRUE, !.live = FALSE]

(* A 201: the comment is drawn and announced.  The composer is handed back    *)
(* for the next one; a reply form dismisses itself.                           *)
Accepted(s) ==
    /\ sub[s].pc = "posting" /\ sub[s].token \notin spent
    /\ LET f == sub[s].form IN
       /\ form' = Announced([form EXCEPT ![f] =
             IF @.kind = "reply" THEN Dispose(f, @)
             ELSE Clear(Reset([@ EXCEPT !.button = TRUE]))])
       /\ sub' = [Released(IF form[f].kind = "reply" THEN f ELSE MaxForm + 1)
                     EXCEPT ![s] = Idle]
    /\ spent' = spent \cup {sub[s].token}
    /\ answered' = answered \cup {sub[s].token}
    /\ UNCHANGED <<made, issued>>

(* A reply whose parent is no longer drawn asks for a reload instead.         *)
AcceptedUnseen(s) ==
    /\ sub[s].pc = "posting" /\ sub[s].token \notin spent
    /\ form[sub[s].form].kind = "reply"
    /\ form' = [form EXCEPT ![sub[s].form].leaving = TRUE]
    /\ sub' = [sub EXCEPT ![s] = Idle]
    /\ spent' = spent \cup {sub[s].token}
    /\ answered' = answered \cup {sub[s].token}
    /\ UNCHANGED <<made, issued>>

(* A refusal, or no answer at all: the server may or may not have come to the *)
(* token.  The box is handed back with a fresh challenge, unless it failed.   *)
Refused(s) ==
    /\ sub[s].pc = "posting"
    /\ spent' \in {spent, spent \cup {sub[s].token}}
    /\ answered' = answered \cup {sub[s].token}
    /\ form' = [form EXCEPT ![sub[s].form] =
                   IF @.failed THEN @
                   ELSE Clear(Reset([@ EXCEPT !.button = TRUE,
                                              !.box = "error"]))]
    /\ sub' = [sub EXCEPT ![s] = Idle]
    /\ UNCHANGED <<made, issued>>

-----------------------------------------------------------------------------
(* Boxes come and go.                                                         *)

OpenReply ==
    /\ made < MaxForm /\ \E f \in Form : form[f].live /\ form[f].kind = "top"
    /\ made' = made + 1
    /\ form' = [form EXCEPT ![made + 1] = Built("reply")]
    /\ UNCHANGED <<sub, issued, spent, answered>>

(* Cancel, or Escape.                                                         *)
Dismiss(f) ==
    /\ form[f].live /\ form[f].kind = "reply"
    /\ form' = [form EXCEPT ![f] = Dispose(f, @)]
    /\ sub' = Released(f)
    /\ UNCHANGED <<made, issued, spent, answered>>

(* A render replaces the tree and tears the composer's gate down.  The        *)
(* observer of a reply form does not see it go: it watches the form's parent, *)
(* which is removed with it.                                                  *)
Rerender ==
    /\ made < MaxForm
    /\ made' = made + 1
    /\ LET old == {f \in Form : form[f].live /\ form[f].kind = "top"} IN
       /\ form' = [f \in Form |->
             IF f = made + 1 THEN Built("top")
             ELSE IF f \in old THEN Dispose(f, form[f])
             ELSE [form[f] EXCEPT !.live = FALSE]]
       /\ sub' = [s \in Submit |->
             IF \E f \in old : s \in Waiters(f) THEN Idle ELSE sub[s]]
    /\ UNCHANGED <<issued, spent, answered>>

Next ==
    \/ \E f \in Form :
          \/ Focus(f) \/ FrameToken(f) \/ FrameReady(f) \/ FrameExpired(f)
          \/ FrameInteractive(f) \/ FrameRetries(f) \/ FrameFails(f)
          \/ CapExpires(f) \/ Dismiss(f)
    \/ \E s \in Submit :
          \/ \E f \in Form, pressed \in BOOLEAN : Begin(s, f, pressed)
          \/ Post(s) \/ Accepted(s) \/ AcceptedUnseen(s) \/ Refused(s)
    \/ OpenReply
    \/ Rerender

Spec == Init /\ [][Next]_vars

-----------------------------------------------------------------------------
(* A submit that waits for a token has the cap's timer running for it, on a   *)
(* gate that can still answer: no order of tokens, errors, expiries, second   *)
(* submits and renders leaves "Checking..." on the button for ever            *)
(* (turnstile-gate.ts, settle and wait).                                      *)
WaitersAreTimed ==
    \A s \in Submit : sub[s].pc = "waiting" =>
        /\ form[sub[s].form].timer
        /\ ~form[sub[s].form].failed
        /\ ~form[sub[s].form].disposed

(* A box on the page whose button is off has a reason that ends: a submit     *)
(* under way, the reload its post asked for, or a challenge that failed for   *)
(* good (embed.ts, notice and the refusal paths of submit).                   *)
ComposerComesBack ==
    \A f \in Form : form[f].live /\ ~form[f].button =>
        \/ form[f].failed
        \/ form[f].leaving
        \/ \E s \in Submit : sub[s].pc # "idle" /\ sub[s].form = f

(* A submit made with the button posts no token that had been posted and      *)
(* answered when it began: a verified token is not replayed into a refusal    *)
(* (embed.ts, reset and clear after every outcome).  A form that only waits   *)
(* for the reload it asked for has not cleared its gate.                      *)
PressedTokenFresh ==
    [][\A s \in Submit :
          (/\ sub[s].pc = "minting" /\ sub'[s].pc = "posting"
           /\ sub[s].pressed /\ ~form[sub[s].form].leaving)
          => sub'[s].token \notin sub[s].known]_vars

(* "It means the composer cannot produce a valid post at all, so nothing may  *)
(* overwrite it and nothing may re-enable the button" (embed.ts, submit).     *)
FailureSticky ==
    \A f \in Form : form[f].live /\ form[f].failed =>
        ~form[f].button /\ form[f].box = "failed"
=============================================================================
