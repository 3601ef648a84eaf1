---------------------------- MODULE ReplyDigest ----------------------------
(***************************************************************************)
(* Reply notifications of one post: the fan-out behind POST /comments, the *)
(* `notifications` queue, and the cron pass runDigest (src/lib/digest.ts)  *)
(* that drains it, while readers cancel or renew their subscriptions and   *)
(* moderators hide and approve comments.                                   *)
(*                                                                         *)
(* A pass reads its whole work list first and then goes through it digest  *)
(* by digest: load the comments, call the mail provider, mark the rows.    *)
(* It holds no lock, so everything it read may have changed by the time it *)
(* is used, and it may die between any two steps.                          *)
(***************************************************************************)
EXTENDS SubscriptionRow, Sequences, FiniteSets, Functions

CONSTANTS
    Sub,           \* subscription ids, numbers: their order breaks ties
    Comment,       \* comments that may be posted
    Author,        \* Author[c]: the subscription of c's author, or 0
    Dead,          \* subscriptions whose address the provider always refuses
    MaxDigests,    \* MAX_DIGESTS_PER_TICK
    MaxPerDigest,  \* MAX_NOTIFICATIONS_PER_DIGEST
    MaxToken,      \* bound on the renewals, for TLC
    MaxCrash       \* bound on the crashes, for TLC

VARIABLES
    row,       \* the subscriptions to this post
    minted,    \* tokens minted so far
    stamping,  \* cancels between their two statements
    status,    \* comments.status, "held" for pending, spam and deleted
    fanout,    \* approved comments whose fan-out is still in waitUntil
    order,     \* the comments fanned out so far, oldest first
    young,     \* those fanned out less than DEBOUNCE_MS ago
    queued,    \* notifications with sent_at IS NULL, pairs <<sub, comment>>
    done,      \* notifications with sent_at set
    pc,        \* the cron pass: "idle", "next", "clear", "send", "mark"
    batch,     \* the digests it has listed and not come to yet
    digest,    \* the digest it is at
    items,     \* the comments of it that are still public
    crashes,   \* how often the pass has died
    delivered, \* history: notifications that were in a mail
    orphaned,  \* history: of these, those no pass knows of: it died, or had no answer
    void,      \* history: notifications nobody is owed any more
    lapsed,    \* history: subscriptions cancelled or renewed during this pass
    hidden     \* history: comments hidden during this pass

subs   == <<row, minted, stamping>>
posts  == <<status, fanout, order, young>>
queue  == <<queued, done>>
work   == <<batch, digest, items>>
pass   == <<pc, work, crashes>>
mails  == <<delivered, orphaned>>
past   == <<void, lapsed, hidden>>
vars   == <<subs, posts, queue, pass, mails, past>>

Item   == Sub \X Comment
Digest == [sub : Sub, token : Nat, comments : SUBSET Comment]

NoDigest == [sub |-> 0, token |-> 0, comments |-> {}]

TypeOK ==
    /\ row \in [Sub -> Row] /\ minted \in Nat /\ stamping \subseteq Sub
    /\ status \in [Comment -> {"none", "held", "approved"}]
    /\ fanout \subseteq Comment /\ young \subseteq Range(order)
    /\ order \in Seq(Comment)
    /\ queued \subseteq Item /\ done \subseteq Item /\ queued \intersect done = {}
    /\ \A n \in queued \union done : n[2] \in Range(order) /\ Author[n[2]] # n[1]
    /\ pc \in {"idle", "next", "clear", "send", "mark"}
    /\ batch \subseteq Digest /\ digest \in Digest \union {NoDigest}
    /\ items \subseteq digest.comments
    /\ pc \in {"clear", "send", "mark"} => digest \in Digest

Init ==
    /\ row = [s \in Sub |-> Upsert(NoRow, 1, TRUE)]
    /\ minted = 1 /\ stamping = {}
    /\ status = [c \in Comment |-> "none"]
    /\ fanout = {} /\ order = <<>> /\ young = {}
    /\ queued = {} /\ done = {}
    /\ pc = "idle" /\ crashes = 0
    /\ batch = {} /\ digest = NoDigest /\ items = {}
    /\ delivered = {} /\ orphaned = {}
    /\ void = {} /\ lapsed = {} /\ hidden = {}

\* What happened during a pass is recorded while the pass runs.
During(S, T) == IF pc = "idle" THEN S ELSE S \union T

-----------------------------------------------------------------------------
(* Comments *)

\* POST /comments stores the verdict's status; only "approved" starts a fan-out.
PostComment(c, verdict) ==
    /\ status[c] = "none"
    /\ status' = [status EXCEPT ![c] = verdict]
    /\ fanout' = IF verdict = "approved" THEN fanout \union {c} ELSE fanout
    /\ UNCHANGED <<subs, order, young, queue, pass, mails, past>>

\* enqueueNotificationsForPost: one INSERT ... SELECT over the rows of the post
\* that are active now, without the author's own.
Fanout(c) ==
    /\ c \in fanout
    /\ fanout' = fanout \ {c}
    /\ order' = Append(order, c)
    /\ young' = young \union {c}
    /\ queued' = queued \union
                   {<<s, c>> : s \in {s \in Sub : Active(row[s]) /\ s # Author[c]}}
    /\ UNCHANGED <<subs, status, done, pass, mails, past>>

\* The waitUntil promise dies with its isolate.
FanoutLost(c) ==
    /\ c \in fanout /\ crashes < MaxCrash
    /\ fanout' = fanout \ {c}
    /\ crashes' = crashes + 1
    /\ UNCHANGED <<subs, status, order, young, queue, pc, work, mails, past>>

\* A moderator, the author or an edit takes an approved comment down.
Hide(c) ==
    /\ status[c] = "approved"
    /\ status' = [status EXCEPT ![c] = "held"]
    /\ hidden' = During(hidden, {c})
    /\ UNCHANGED <<subs, fanout, order, young, queue, pass, mails, void, lapsed>>

\* moderateComment, adminBulkUpdateCommentStatus and the Telegram buttons write
\* the status, an audit row and a webhook event; none of them enqueues.
Approve(c) ==
    /\ status[c] = "held"
    /\ status' = [status EXCEPT ![c] = "approved"]
    /\ UNCHANGED <<subs, fanout, order, young, queue, pass, mails, past>>

\* Five minutes have passed over the oldest fan-out still young.
Ripen ==
    /\ young # {}
    /\ \E i \in DOMAIN order :
          /\ order[i] \in young
          /\ \A j \in 1..(i - 1) : order[j] \notin young
          /\ young' = young \ {order[i]}
    /\ UNCHANGED <<subs, status, fanout, order, queue, pass, mails, past>>

-----------------------------------------------------------------------------
(* Subscribers *)

\* The two statements of markSubscriptionUnsubscribed.
CancelRow(s) ==
    /\ row[s].exists /\ ~row[s].cancelled /\ s \notin stamping
    /\ row' = [row EXCEPT ![s] = Cancel(@)]
    /\ stamping' = stamping \union {s}
    /\ lapsed' = During(lapsed, {s})
    /\ void' = void \union {n \in queued : n[1] = s}
    /\ UNCHANGED <<minted, posts, queue, pass, mails, hidden>>

\* What was queued after the subscription came back is lost with the rest.
CancelStamp(s) ==
    /\ s \in stamping
    /\ stamping' = stamping \ {s}
    /\ LET mine == {n \in queued : n[1] = s}
       IN /\ queued' = queued \ mine
          /\ done' = done \union mine
          /\ void' = void \union mine
    /\ UNCHANGED <<row, minted, posts, pass, mails, lapsed, hidden>>

\* The isolate dies between the two.
CancelStampLost(s) ==
    /\ s \in stamping /\ crashes < MaxCrash
    /\ stamping' = stamping \ {s}
    /\ crashes' = crashes + 1
    /\ UNCHANGED <<row, minted, posts, queue, pc, work, mails, past>>

\* POST /subscribe for an address that has a row: by its owner's session
\* (rotates the token and revives), or by anyone.
Renew(s, auto) ==
    /\ minted < MaxToken
    /\ minted' = minted + 1
    /\ row' = [row EXCEPT ![s] = Upsert(@, minted', auto)]
    /\ lapsed' = During(lapsed, IF auto THEN {s} ELSE {})
    /\ UNCHANGED <<stamping, posts, queue, pass, mails, void, hidden>>

PressConfirm(s) ==
    /\ Pending([row[s] EXCEPT !.cancelled = FALSE])
    /\ row' = [row EXCEPT ![s] = Confirm(@)]
    /\ UNCHANGED <<minted, stamping, posts, queue, pass, mails, past>>

-----------------------------------------------------------------------------
(* runDigest *)

Rank(c) == CHOOSE i \in DOMAIN order : order[i] = c

\* Mutant: the join forgets confirmed_at and unsubscribed_at.
DueToAnybody(s) == {c \in Comment : <<s, c>> \in queued /\ c \notin young}

\* Mutant: the SELECT forgets sent_at IS NULL.
DueEvenIfSent(s) ==
    {c \in Comment : <<s, c>> \in queued \union done /\ c \notin young /\ Active(row[s])}

\* The rows of listPendingDigests' SELECT, by subscription.
Due(s) == {c \in Comment : <<s, c>> \in queued /\ c \notin young /\ Active(row[s])}

\* The first `n` of a set of comments, oldest first.
Oldest(n, C) == {c \in C : Cardinality({d \in C : Rank(d) < Rank(c)}) < n}

\* ORDER BY n.created_at, n.id: the rows of one comment share a timestamp and
\* an id prefix and differ in the subscription id.
Earlier(d, e) ==
    \E b \in Oldest(1, d.comments), c \in Oldest(1, e.comments) :
        Rank(b) < Rank(c) \/ (b = c /\ d.sub < e.sub)

\* One digest per subscription, at most MaxDigests of them, each with at most
\* MaxPerDigest comments; the rest waits for the next pass.
PendingDigests ==
    LET groups == {[sub |-> s, token |-> row[s].token, comments |-> Due(s)] :
                      s \in {s \in Sub : Due(s) # {}}}
        first  == {d \in groups : Cardinality({e \in groups : Earlier(e, d)})
                                      < MaxDigests}
    IN {[sub |-> d.sub, token |-> d.token,
         comments |-> Oldest(MaxPerDigest, d.comments)] : d \in first}

List ==
    /\ pc = "idle"
    /\ PendingDigests # {}
    /\ batch' = PendingDigests
    /\ pc' = "next"
    /\ UNCHANGED <<subs, posts, queue, digest, items, crashes, mails, past>>

Carried(d) == {<<d.sub, c>> : c \in d.comments}
InMail     == {<<digest.sub, c>> : c \in items}

\* getCommentsByIds: only approved comments become items; a digest without
\* items is cleared.
Load ==
    /\ pc = "next"
    /\ \E d \in batch :
          /\ \A e \in batch \ {d} : Earlier(d, e)
          /\ batch' = batch \ {d}
          /\ digest' = d
    /\ items' = {c \in digest'.comments : status[c] = "approved"}
    /\ pc' = IF items' = {} THEN "clear" ELSE "send"
    /\ void' = void \union (Carried(digest') \ InMail')
    /\ UNCHANGED <<subs, posts, queue, crashes, mails, lapsed, hidden>>

SendOk(s) ==
    /\ pc = "send" /\ digest.sub = s /\ s \notin Dead
    /\ delivered' = delivered \union InMail
    /\ pc' = "mark"
    /\ UNCHANGED <<subs, posts, queue, work, crashes, orphaned, past>>

\* Mutant: a refused mail is marked like a sent one.
SendFailMarks ==
    /\ pc = "send"
    /\ pc' = "mark"
    /\ UNCHANGED <<subs, posts, queue, work, crashes, mails, past>>

\* On to the next digest.
Proceed ==
    /\ digest' = NoDigest /\ items' = {}
    /\ pc' = "next"
    /\ UNCHANGED <<subs, posts, crashes, mails, past>>

\* Mutant: a refused mail ends the pass instead of the digest.
SendFailAborts == pc = "send" /\ Proceed /\ batch' = {} /\ UNCHANGED queue

\* sendEmail returned false: the rows stay pending, the pass goes on.
SendFail == pc = "send" /\ Proceed /\ UNCHANGED <<batch, queue>>

\* The same, of a mail that the provider took and whose answer was lost.
SendLost(s) ==
    /\ pc = "send" /\ digest.sub = s /\ s \notin Dead
    /\ delivered' = delivered \union InMail
    /\ orphaned' = orphaned \union InMail
    /\ digest' = NoDigest /\ items' = {}
    /\ pc' = "next"
    /\ UNCHANGED <<subs, posts, queue, batch, crashes, past>>

\* markNotificationsSent, for every id of the digest, and last_notified_at.
MarkSent ==
    /\ pc \in {"clear", "mark"}
    /\ queued' = queued \ Carried(digest)
    /\ done' = done \union Carried(digest)
    /\ Proceed /\ UNCHANGED batch

Finish ==
    /\ pc = "next" /\ batch = {}
    /\ pc' = "idle"
    /\ lapsed' = {} /\ hidden' = {}
    /\ UNCHANGED <<subs, posts, queue, work, crashes, mails, void>>

\* A throw ends the pass, and so does the runtime.
Crash ==
    /\ pc # "idle" /\ crashes < MaxCrash
    /\ crashes' = crashes + 1
    /\ orphaned' = IF pc = "mark" THEN orphaned \union InMail ELSE orphaned
    /\ pc' = "idle" /\ batch' = {} /\ digest' = NoDigest /\ items' = {}
    /\ lapsed' = {} /\ hidden' = {}
    /\ UNCHANGED <<subs, posts, queue, delivered, void>>

-----------------------------------------------------------------------------
CommentStep(c) == PostComment(c, "approved") \/ PostComment(c, "held") \/ Fanout(c)
                  \/ FanoutLost(c) \/ Hide(c) \/ Approve(c)
SubStep(s) == CancelRow(s) \/ CancelStamp(s) \/ CancelStampLost(s)
              \/ Renew(s, TRUE) \/ Renew(s, FALSE) \/ PressConfirm(s)
Mailed(s) == SendOk(s) \/ SendLost(s)
CronStep == List \/ Load \/ SendFail \/ MarkSent \/ Finish \/ Crash
            \/ \E s \in Sub : Mailed(s)

Next ==
    \/ \E c \in Comment : CommentStep(c)
    \/ \E s \in Sub : SubStep(s)
    \/ Ripen \/ CronStep

\* The cron comes back every fifteen minutes and a pass that started goes on;
\* time passes; the provider accepts a living address once in a while.
Fairness ==
    /\ WF_vars(List) /\ WF_vars(Load) /\ WF_vars(MarkSent) /\ WF_vars(Finish)
    /\ WF_vars(Ripen)
    /\ WF_vars(SendFail)
    /\ \A s \in Sub : SF_vars(SendOk(s))

Spec == Init /\ [][Next]_vars
FairSpec == Spec /\ Fairness

-----------------------------------------------------------------------------
(* Properties *)

\* A mail states nothing its own pass did not find true: its recipient is
\* subscribed and its unsubscribe link works, unless the reader cancelled or
\* renewed since the pass began; its comments are public, unless one was taken
\* down since.
FreshWithinPass ==
    [][\A s \in Sub : Mailed(s) =>
          /\ s \in lapsed \/ (Active(row[s]) /\ digest.token = row[s].token)
          /\ \A c \in items : c \in hidden \/ status[c] = "approved"]_vars

\* "send the email, then mark the listed notification_ids as sent"
\* (listPendingDigests): a notification is mailed again only when the pass that
\* mailed it died between the two, or the provider's answer to it was lost.
TwiceOnlyIfLost ==
    [][\A s \in Sub : Mailed(s) => InMail \intersect delivered \subseteq orphaned]_vars

\* markSubscriptionUnsubscribed stamps "pending rows for a cancelled
\* subscription" and nothing else may lose one: a notification is queued once
\* and leaves the queue after it was mailed, after its comment was found
\* hidden, or because its subscription was cancelled.
Abstract == INSTANCE Outbox
ImplementsOutbox == Abstract!Spec

\* "a subscriber with more queued replies gets the rest on the next tick",
\* "the next tick retries": what waits for a live address that stays subscribed
\* is settled at last, while fewer addresses are dead than one pass has room for.
QueueDrains ==
    \A n \in (Sub \ Dead) \X Comment :
        n \in queued ~> (n \notin queued \/ ~Active(row[n[1]]))

\* docs/notifications.md: "approval is what enqueues the notification".
ApprovalEnqueues ==
    [][\A c \in Comment : Approve(c) =>
          c \in fanout' \/ \E s \in Sub : <<s, c>> \in queued' \union done']_vars
=============================================================================
