--------------------------- MODULE Subscriptions ---------------------------
(***************************************************************************)
(* Double opt-in for one mail address: src/routes/api.subscriptions.ts and *)
(* the admin's resend button in src/routes/admin.ts.                       *)
(*                                                                         *)
(* Anyone may post a signup naming the address; only its owner reads the   *)
(* inbox, presses a confirm button or subscribes with a provider-verified  *)
(* session.  A request runs as one process, a handler, that reads the row, *)
(* then sends mail or writes by id; other handlers run in between.         *)
(***************************************************************************)
EXTENDS SubscriptionRow, FiniteSets

CONSTANTS
    Post,         \* the posts the address may follow
    Handler,      \* requests that may be in flight at once
    PendingCap,   \* PENDING_PER_EMAIL_CAP
    MaxToken      \* bound on the tokens minted, for TLC

ASSUME PostAssumption == Post # {}

VARIABLES
    row,      \* row[p]: the address's subscription row for post p
    aged,     \* the posts whose row is older than PENDING_WINDOW_MS
    minted,   \* how many tokens randomToken has produced
    inbox,    \* the confirm links the address has been mailed
    pc,       \* what each handler does next
    job,      \* the post and the token the handler works on
    lost,     \* history: tokens whose mail was refused or died with its handler
    opted,    \* history: posts the owner opted in to since they last cancelled
    barred,   \* history: links mailed before a confirmed row was cancelled with
              \* no other handler at work on it
    retired   \* history: links mailed before any cancel

vars == <<row, aged, minted, inbox, pc, job, lost, opted, barred, retired>>
history == <<lost, opted, barred, retired>>

Link == [post : Post, token : Nat]
State == {"idle", "counted", "upserted", "sending", "confirming", "cancelling",
          "resending", "rotating"}

TypeOK ==
    /\ row \in [Post -> Row]
    /\ \A p \in Post : /\ ~row[p].exists => row[p] = NoRow
                       /\ row[p].token <= minted /\ row[p].confirmToken <= minted
    /\ aged \subseteq {p \in Post : row[p].exists}
    /\ minted \in Nat
    /\ inbox \subseteq {l \in Link : l.token \in 1..minted}
    /\ pc \in [Handler -> State]
    /\ job \in [Handler -> Link]
    /\ lost \subseteq Nat
    /\ opted \subseteq Post
    /\ barred \subseteq Link
    /\ retired \subseteq Link

Idle == [post |-> CHOOSE p \in Post : TRUE, token |-> 0]

Init ==
    /\ row = [p \in Post |-> NoRow]
    /\ aged = {}
    /\ minted = 0
    /\ inbox = {}
    /\ pc = [h \in Handler |-> "idle"]
    /\ job = [h \in Handler |-> Idle]
    /\ lost = {} /\ opted = {} /\ barred = {} /\ retired = {}

\* Handler h goes on with job l at state s, or is finished.
Continue(h, s, l) ==
    pc' = [pc EXCEPT ![h] = s] /\ job' = [job EXCEPT ![h] = l]
Finish(h) == Continue(h, "idle", Idle)

-----------------------------------------------------------------------------
(* POST /subscribe *)

\* countPendingSubscriptionsForEmail
PendingCount == Cardinality({p \in Post \ aged : Pending(row[p])})

\* The cap is read here and the row written two awaits later.
SignupCount(h, p) ==
    /\ pc[h] = "idle"
    /\ PendingCount < PendingCap
    /\ Continue(h, "counted", [post |-> p, token |-> 0])
    /\ UNCHANGED <<row, aged, minted, inbox, history>>

\* The send budget refuses: 429, with nothing stored.
SignupDeny(h) ==
    /\ pc[h] = "counted"
    /\ Finish(h)
    /\ UNCHANGED <<row, aged, minted, inbox, history>>

SignupUpsert(h) ==
    /\ pc[h] = "counted"
    /\ minted < MaxToken
    /\ minted' = minted + 1
    /\ row' = [row EXCEPT ![job[h].post] = Upsert(@, minted', FALSE)]
    /\ Continue(h, "upserted", [job[h] EXCEPT !.token = minted'])
    /\ UNCHANGED <<aged, inbox, history>>

\* The SELECT after the upsert: the mail carries the token found here.
SignupSelect(h) ==
    /\ pc[h] = "upserted"
    /\ LET r == row[job[h].post]
       IN IF ~r.confirmed /\ r.confirmToken # 0
          THEN Continue(h, "sending", [job[h] EXCEPT !.token = r.confirmToken])
          ELSE Finish(h)
    /\ UNCHANGED <<row, aged, minted, inbox, history>>

SignupSend(h) ==
    /\ pc[h] = "sending"
    /\ inbox' = inbox \union {job[h]}
    /\ Finish(h)
    /\ UNCHANGED <<row, aged, minted, history>>

\* sendEmail returned false.
SignupUndelivered(h) ==
    /\ pc[h] = "sending"
    /\ lost' = lost \union {job[h].token}
    /\ Finish(h)
    /\ UNCHANGED <<row, aged, minted, inbox, opted, barred, retired>>

\* The owner subscribes with a provider-verified session: one statement.
AutoConfirm(p) ==
    /\ minted < MaxToken
    /\ minted' = minted + 1
    /\ row' = [row EXCEPT ![p] = Upsert(@, minted', TRUE)]
    /\ opted' = opted \union {p}
    /\ UNCHANGED <<aged, inbox, pc, job, lost, barred, retired>>

-----------------------------------------------------------------------------
(* POST /confirm/:token *)

\* The owner presses the button behind a link of the inbox.
ConfirmLookup(h, l) ==
    /\ pc[h] = "idle"
    /\ l \in inbox
    /\ Confirmable(row[l.post], l.token)
    /\ Continue(h, "confirming", l)
    /\ opted' = opted \union {l.post}
    /\ UNCHANGED <<row, aged, minted, inbox, lost, barred, retired>>

\* By the id found at the lookup, whatever the row's token is by now.
ConfirmWrite(h) ==
    /\ pc[h] = "confirming"
    /\ row' = [row EXCEPT ![job[h].post] = Confirm(@)]
    /\ Finish(h)
    /\ UNCHANGED <<aged, minted, inbox, history>>

-----------------------------------------------------------------------------
(* The four ways out, and the admin's *)

\* No handler other than h is about to write to the row of p.
QuietBut(h, p) == \A g \in Handler \ {h} : pc[g] # "idle" => job[g].post # p

RecordCancel(h, P) ==
    /\ opted' = opted \ {p \in P : \A g \in Handler \ {h} :
                                     pc[g] = "confirming" => job[g].post # p}
    /\ barred' = barred \union {l \in inbox : /\ l.post \in P
                                              /\ row[l.post].confirmed
                                              /\ QuietBut(h, l.post)}
    /\ retired' = retired \union {l \in inbox : l.post \in P}

\* unsubscribe/:token, its one-click form, .../row/:id, DELETE /mine/:id and the
\* admin's unsubscribe: find a row not cancelled, confirmed or not ...
CancelLookup(h, p) ==
    /\ pc[h] = "idle"
    /\ row[p].exists /\ ~row[p].cancelled
    /\ Continue(h, "cancelling", [post |-> p, token |-> 0])
    /\ UNCHANGED <<row, aged, minted, inbox, history>>

\* ... and stamp it by id.
CancelWrite(h) ==
    /\ pc[h] = "cancelling"
    /\ row' = [row EXCEPT ![job[h].post] = Cancel(@)]
    /\ RecordCancel(h, {job[h].post})
    /\ Finish(h)
    /\ UNCHANGED <<aged, minted, inbox, lost>>

\* .../all: one statement over every row of the address not yet cancelled.
CancelAll(h) ==
    /\ pc[h] = "idle"
    /\ \E p \in Post : row[p].exists
    /\ row' = [p \in Post |-> Cancel(row[p])]
    /\ RecordCancel(h, {p \in Post : row[p].exists /\ ~row[p].cancelled})
    /\ UNCHANGED <<aged, minted, inbox, pc, job, lost>>

-----------------------------------------------------------------------------
(* The admin's resend: mail a new link, then store its token *)

ResendLookup(h, p) ==
    /\ pc[h] = "idle"
    /\ Pending(row[p])
    /\ minted < MaxToken
    /\ minted' = minted + 1
    /\ Continue(h, "resending", [post |-> p, token |-> minted'])
    /\ UNCHANGED <<row, aged, inbox, history>>

ResendSend(h) ==
    /\ pc[h] = "resending"
    /\ inbox' = inbox \union {job[h]}
    /\ Continue(h, "rotating", job[h])
    /\ UNCHANGED <<row, aged, minted, history>>

ResendUndelivered(h) ==
    /\ pc[h] = "resending"
    /\ Finish(h)
    /\ UNCHANGED <<row, aged, minted, inbox, history>>

ResendRotate(h) ==
    /\ pc[h] = "rotating"
    /\ row' = [row EXCEPT ![job[h].post] = Rotate(@, job[h].token)]
    /\ Finish(h)
    /\ UNCHANGED <<aged, minted, inbox, history>>

-----------------------------------------------------------------------------
\* The isolate dies or D1 throws between two steps.
Crash(h) ==
    /\ pc[h] # "idle"
    /\ lost' = lost \union
                 IF pc[h] \in {"upserted", "sending"} THEN {job[h].token} ELSE {}
    /\ Finish(h)
    /\ UNCHANGED <<row, aged, minted, inbox, opted, barred, retired>>

\* Seven days pass over a row; no later write renews created_at.
Age(p) ==
    /\ row[p].exists /\ p \notin aged
    /\ aged' = aged \union {p}
    /\ UNCHANGED <<row, minted, inbox, pc, job, history>>

HandlerStep(h) ==
    \/ SignupDeny(h) \/ SignupUpsert(h) \/ SignupSelect(h)
    \/ SignupSend(h) \/ SignupUndelivered(h)
    \/ ConfirmWrite(h) \/ CancelWrite(h) \/ CancelAll(h)
    \/ ResendSend(h) \/ ResendUndelivered(h) \/ ResendRotate(h)
    \/ Crash(h)
    \/ \E p \in Post : SignupCount(h, p) \/ CancelLookup(h, p) \/ ResendLookup(h, p)
    \/ \E l \in inbox : ConfirmLookup(h, l)

Next ==
    \/ \E h \in Handler : HandlerStep(h)
    \/ \E p \in Post : AutoConfirm(p) \/ Age(p)

Spec == Init /\ [][Next]_vars

-----------------------------------------------------------------------------
(* Properties *)

\* Double opt-in: no digest is addressed to a row unless the owner opted in to
\* its post, and after a cancel not before they opt in anew, whoever names the
\* address and however the requests interleave.
ActiveMeansOptedIn == \A p \in Post : Active(row[p]) => p \in opted

\* "Re-subscribing clears `confirmed_at` and mints a fresh token, so the row
\* comes back through the new link, never this one"
\* (getSubscriptionByConfirmToken): once a confirmed row was cancelled, with
\* nothing else under way on it, no link mailed before the cancel revives it.
CancelIsFinal ==
    [][\A h \in Handler :
          ConfirmWrite(h) /\ ~Active(row[job[h].post]) /\ Active(row'[job[h].post])
          => job[h] \notin barred]_vars

\* "denying after it would leave behind ... a pending row whose confirmation
\* email never went out" (POST /subscribe), "the user would have no working
\* confirmation link at all" (admin resend): a pending row's own link has been
\* mailed, unless its mail failed or the handler that sends it is still running.
Sends(h, p) ==
    /\ pc[h] \in {"upserted", "sending"} /\ job[h].post = p
    /\ job[h].token = row[p].confirmToken
PendingHasLink ==
    \A p \in Post : Pending(row[p]) =>
        \/ [post |-> p, token |-> row[p].confirmToken] \in inbox
        \/ row[p].confirmToken \in lost
        \/ \E h \in Handler : Sends(h, p)

\* confirmSubscription's comment: its guard "stops a confirm link from
\* resurrecting a subscription the recipient later cancelled".
LinkRetiredByCancel ==
    [][\A h \in Handler :
          ConfirmWrite(h) /\ row[job[h].post].cancelled
          => job[h] \notin retired]_vars

\* The resend is refused "for a confirmed row": it unconfirms none.
ResendSparesConfirmed ==
    [][\A h \in Handler : ResendRotate(h) => ~row[job[h].post].confirmed]_vars
=============================================================================
