------------------------------ MODULE Comments ------------------------------
(***************************************************************************)
(* The life of the comments of one post: src/routes/api.comments.ts, the   *)
(* moderation actions of src/lib/moderation.ts and src/routes/admin.ts,    *)
(* and the statements of src/db/queries.ts they write with.                *)
(*                                                                         *)
(* A request that checks and later writes is a process, a handler; between *)
(* its steps lies at least one await, for an edit the call to an outside   *)
(* spam classifier.  A statement or a batch is one step.  A moderator's    *)
(* status change names its comments by id and looks at nothing else.       *)
(***************************************************************************)
EXTENDS Naturals, FiniteSets

CONSTANTS
    Comment,    \* comments that may be posted
    Parent,     \* Parent[c]: what c answers, c itself when it is top-level
    User,       \* who may post
    Operator,   \* the admin, who moderates and is subject to no verdict
    Handler     \* requests that may be in flight at once

ASSUME CommentAssumption  == Comment # {}
ASSUME ParentAssumption   == Parent \in [Comment -> Comment]
ASSUME OperatorAssumption == Operator \in User

VARIABLES
    status,     \* comments.status, "none" before the row exists
    author,     \* comments.user_id; the operator's for a comment not yet posted
    text,       \* what the verdict said of body_md, "blank" without one
    pinned,     \* the comments with a pinned_at
    closed,     \* posts.closed
    standing,   \* users.is_banned and erased_at; a ban adds nothing to an erasure
    pc,         \* what each handler does next
    job,        \* what it works on
    vouched,    \* history: comments with a flagged text a moderator answers for
    overtaken   \* history: <<h, why>>, handlers whose user was barred, or whose
                \* thread was closed, after they checked

rows    == <<status, author, text, pinned>>
history == <<vouched, overtaken>>
vars    == <<rows, closed, standing, pc, job, history>>

Status == {"none", "approved", "pending", "spam", "deleted"}
Job    == [comment : Comment, by : User, seen : Status, ids : SUBSET Comment]
Busy   == {"posting", "gated", "accepted", "editing", "evaluating", "deleting",
           "cascading", "pinning", "replying"}

TypeOK ==
    /\ status \in [Comment -> Status]
    /\ \A c \in Comment : status[c] # "none" => status[Parent[c]] # "none"
    /\ author \in [Comment -> User]
    /\ text \in [Comment -> {"blank", "passed", "flagged"}]
    /\ pinned \subseteq {c \in Comment : Parent[c] = c}
    /\ closed \in BOOLEAN
    /\ standing \in [User -> {"active", "banned", "erased"}]
    /\ standing[Operator] = "active"
    /\ pc \in [Handler -> Busy \union {"idle"}]
    /\ job \in [Handler -> Job]
    /\ vouched \subseteq Comment
    /\ overtaken \subseteq Handler \X {"barred", "closed"}

NoJob == [comment |-> CHOOSE c \in Comment : TRUE, by |-> Operator,
          seen |-> "none", ids |-> {}]

Init ==
    /\ status = [c \in Comment |-> "none"]
    /\ author = [c \in Comment |-> Operator]
    /\ text = [c \in Comment |-> "blank"]
    /\ pinned = {} /\ closed = FALSE
    /\ standing = [u \in User |-> "active"]
    /\ pc = [h \in Handler |-> "idle"]
    /\ job = [h \in Handler |-> NoJob]
    /\ vouched = {} /\ overtaken = {}

Exists(c)   == status[c] # "none"
IsActive(u) == standing[u] = "active"

Continue(h, s, j) ==
    pc' = [pc EXCEPT ![h] = s] /\ job' = [job EXCEPT ![h] = j]
Start(h, s, c, u) ==
    pc[h] = "idle" /\ Continue(h, s, [NoJob EXCEPT !.comment = c, !.by = u])
Forget(h) == overtaken' = overtaken \ ({h} \X {"barred", "closed"})
Finish(h) == Continue(h, "idle", NoJob) /\ Forget(h)

\* No row has this id and no request is about to insert one.
Fresh(c) ==
    /\ ~Exists(c)
    /\ \A h \in Handler : pc[h] \in {"posting", "gated", "accepted", "replying"}
                             => job[h].comment # c

-----------------------------------------------------------------------------
(* POST /comments *)

\* The author's row is active.
PostStart(h, c, u) ==
    /\ Fresh(c)
    /\ IsActive(u)
    /\ Start(h, "posting", c, u)
    /\ UNCHANGED <<rows, closed, standing, history>>

\* resolveThreadOpen; a top-level comment has no parent to check.
PostGate(h) ==
    /\ pc[h] = "posting"
    /\ ~closed
    /\ Continue(h, IF Parent[job[h].comment] = job[h].comment
                   THEN "accepted" ELSE "gated", job[h])
    /\ UNCHANGED <<rows, closed, standing, history>>

\* A hidden parent answers like a missing one; a deleted one can be answered.
Answerable(p, u) ==
    \/ status[p] \in {"approved", "deleted"}
    \/ status[p] = "pending" /\ author[p] = u

PostParent(h) ==
    /\ pc[h] = "gated"
    /\ Answerable(Parent[job[h].comment], job[h].by)
    /\ Continue(h, "accepted", job[h])
    /\ UNCHANGED <<rows, closed, standing, history>>

Verdicts(u) == IF u = Operator THEN {"approved"} ELSE {"approved", "pending"}
TextOf(verdict) == IF verdict = "pending" THEN "flagged" ELSE "passed"

Insert(h, c, s) ==
    /\ status' = [status EXCEPT ![c] = s]
    /\ author' = [author EXCEPT ![c] = job[h].by]
    /\ text' = [text EXCEPT ![c] = TextOf(s)]
    /\ Finish(h)
    /\ UNCHANGED <<pinned, closed, standing, vouched>>

PostInsert(h, verdict) ==
    /\ pc[h] = "accepted"
    /\ verdict \in Verdicts(job[h].by)
    /\ Insert(h, job[h].comment, verdict)

-----------------------------------------------------------------------------
(* PATCH and DELETE /comments/:id *)

\* Mutant: a banned user keeps the edit path.
EditStartBanned(h, c) ==
    /\ Exists(c)
    /\ Start(h, "editing", c, author[c])
    /\ UNCHANGED <<rows, closed, standing, history>>

\* requireActiveUser.  (Whoever is not the author is refused at the read.)
EditStart(h, c) ==
    /\ Exists(c)
    /\ IsActive(author[c])
    /\ Start(h, "editing", c, author[c])
    /\ UNCHANGED <<rows, closed, standing, history>>

\* Only a live comment is editable.
EditRead(h) ==
    /\ pc[h] = "editing"
    /\ status[job[h].comment] \in {"approved", "pending"}
    /\ Continue(h, "evaluating", [job[h] EXCEPT !.seen = status[job[h].comment]])
    /\ UNCHANGED <<rows, closed, standing, history>>

\* Mutants: the verdict alone decides; the text is not evaluated again.
VerdictDecides(seen, verdict) == verdict
KeepsSeen(seen, verdict) == seen

\* nextStatus: an edit may send a comment back to the queue.
NextStatus(seen, verdict) ==
    IF verdict = "pending" \/ seen = "pending" THEN "pending" ELSE "approved"

\* The comment was held when the handler read it and is public now.
ApprovedSince(h) == job[h].seen = "pending" /\ status[job[h].comment] = "approved"

\* updateCommentBody, by id; the status is part of the statement only when it
\* differs from the one the handler read.
EditWrite(h, verdict) ==
    /\ pc[h] = "evaluating"
    /\ verdict \in Verdicts(job[h].by)
    /\ LET c    == job[h].comment
           next == NextStatus(job[h].seen, verdict)
       IN /\ text' = [text EXCEPT ![c] = TextOf(verdict)]
          /\ status' = IF next = job[h].seen THEN status
                       ELSE [status EXCEPT ![c] = next]
          /\ vouched' = IF verdict = "pending" /\ ApprovedSince(h)
                        THEN vouched \union {c} ELSE vouched \ {c}
    /\ Finish(h)
    /\ UNCHANGED <<author, pinned, closed, standing>>

\* The author, or the admin through the same route.
DeleteStart(h, c, u) ==
    /\ Exists(c)
    /\ IsActive(u) /\ u \in {author[c], Operator}
    /\ Start(h, "deleting", c, u)
    /\ UNCHANGED <<rows, closed, standing, history>>

\* softDeleteComment, by id.
DeleteWrite(h) ==
    /\ pc[h] = "deleting"
    /\ status' = [status EXCEPT ![job[h].comment] = "deleted"]
    /\ Finish(h)
    /\ UNCHANGED <<author, text, pinned, closed, standing, vouched>>

-----------------------------------------------------------------------------
(* Moderation *)

\* approve, restore, spam and delete, for one comment or in bulk.
Moderate(C, s) ==
    /\ C # {} /\ \A c \in C : Exists(c)
    /\ status' = [c \in Comment |-> IF c \in C THEN s ELSE status[c]]
    /\ vouched' = IF s = "approved"
                  THEN vouched \union {c \in C : text[c] = "flagged"} ELSE vouched
    /\ UNCHANGED <<author, text, pinned, closed, standing, pc, job, overtaken>>

\* The n-th ancestor; a top-level comment is its own.
Up[n \in Nat] ==
    IF n = 0 THEN [c \in Comment |-> c]
    ELSE [c \in Comment |-> Parent[Up[n - 1][c]]]
Subtree(c) == {d \in Comment : \E n \in 0..Cardinality(Comment) : Up[n][d] = c}

\* moderateThread reads the subtree ...
SpamThreadRead(h, c) ==
    /\ status[c] \notin {"none", "deleted"}
    /\ pc[h] = "idle"
    /\ LET ids == {d \in Subtree(c) : status[d] \in {"approved", "pending"}}
       IN /\ ids # {}
          /\ Continue(h, "cascading", [NoJob EXCEPT !.ids = ids])
    /\ UNCHANGED <<rows, closed, standing, history>>

\* Mutant: the cascade takes deleted rows along.
HitDeletedToo(c) == status[c] # "spam"

\* ... and adminSpamThread writes to what of it is still neither.
Hit(c) == status[c] \notin {"spam", "deleted"}

SpamThreadWrite(h) ==
    /\ pc[h] = "cascading"
    /\ status' = [c \in Comment |-> IF c \in job[h].ids /\ Hit(c)
                                    THEN "spam" ELSE status[c]]
    /\ Finish(h)
    /\ UNCHANGED <<author, text, pinned, closed, standing, vouched>>

PinRead(h, c) ==
    /\ Parent[c] = c /\ status[c] = "approved"
    /\ Start(h, "pinning", c, Operator)
    /\ UNCHANGED <<rows, closed, standing, history>>

\* The setter's WHERE clause.
Pinnable(c) == Parent[c] = c /\ status[c] = "approved"

\* setCommentPin: clear the post's pin, then set this one, in one batch.
PinWrite(h) ==
    /\ pc[h] = "pinning"
    /\ pinned' = {c \in {job[h].comment} : Pinnable(c)}
    /\ Finish(h)
    /\ UNCHANGED <<status, author, text, closed, standing, vouched>>

Unpin(c) ==
    /\ Exists(c)
    /\ pinned' = pinned \ {c}
    /\ UNCHANGED <<status, author, text, closed, standing, pc, job, history>>

\* POST /admin/api/comments/:id/reply: neither the thread nor a verdict stops it.
ReplyStart(h, c) ==
    /\ Fresh(c) /\ Parent[c] # c
    /\ status[Parent[c]] \notin {"none", "deleted"}
    /\ Start(h, "replying", c, Operator)
    /\ UNCHANGED <<rows, closed, standing, history>>

ReplyInsert(h) ==
    /\ pc[h] = "replying"
    /\ Insert(h, job[h].comment, "approved")

\* POST /admin/api/posts/close
SetClosed(b) ==
    /\ closed # b
    /\ closed' = b
    /\ overtaken' = IF b
         THEN overtaken \union {<<h, "closed">> :
                h \in {g \in Handler : pc[g] \in {"gated", "accepted"}}}
         ELSE overtaken
    /\ UNCHANGED <<rows, standing, pc, job, vouched>>

-----------------------------------------------------------------------------
(* Users *)

Overtake(u) ==
    overtaken' = overtaken \union {<<h, "barred">> :
        h \in {g \in Handler : /\ job[g].by = u
                               /\ pc[g] \in {"posting", "gated", "accepted",
                                             "editing", "evaluating", "deleting"}}}

Ban(u) ==
    /\ u # Operator /\ IsActive(u)
    /\ standing' = [standing EXCEPT ![u] = "banned"]
    /\ Overtake(u)
    /\ UNCHANGED <<rows, closed, pc, job, vouched>>

Unban(u) ==
    /\ standing[u] = "banned"
    /\ standing' = [standing EXCEPT ![u] = "active"]
    /\ UNCHANGED <<rows, closed, pc, job, history>>

\* eraseUserData, one batch; redact blanks and deletes what the user wrote.
Erase(u, redact) ==
    /\ u # Operator
    /\ standing' = [standing EXCEPT ![u] = "erased"]
    /\ LET mine == {c \in Comment : redact /\ Exists(c) /\ author[c] = u}
       IN /\ status' = [c \in Comment |-> IF c \in mine THEN "deleted" ELSE status[c]]
          /\ text' = [c \in Comment |-> IF c \in mine THEN "blank" ELSE text[c]]
          /\ vouched' = vouched \ mine
    /\ Overtake(u)
    /\ UNCHANGED <<author, pinned, closed, pc, job>>

-----------------------------------------------------------------------------
\* A later check refuses the request, or its isolate dies.
Abandon(h) ==
    /\ pc[h] # "idle"
    /\ Finish(h)
    /\ UNCHANGED <<rows, closed, standing, vouched>>

HandlerStep(h) ==
    \/ PostGate(h) \/ PostParent(h) \/ EditRead(h) \/ DeleteWrite(h)
    \/ SpamThreadWrite(h) \/ PinWrite(h) \/ ReplyInsert(h) \/ Abandon(h)
    \/ \E v \in {"approved", "pending"} : PostInsert(h, v) \/ EditWrite(h, v)
    \/ \E c \in Comment :
          \/ EditStart(h, c) \/ SpamThreadRead(h, c) \/ PinRead(h, c)
          \/ ReplyStart(h, c)
          \/ \E u \in User : PostStart(h, c, u) \/ DeleteStart(h, c, u)

UserStep(u) == Ban(u) \/ Unban(u) \/ Erase(u, TRUE) \/ Erase(u, FALSE)

Next ==
    \/ \E h \in Handler : HandlerStep(h)
    \/ \E C \in SUBSET Comment, s \in {"approved", "spam", "deleted"} : Moderate(C, s)
    \/ \E c \in Comment : Unpin(c)
    \/ SetClosed(TRUE) \/ SetClosed(FALSE)
    \/ \E u \in User : UserStep(u)

Spec == Init /\ [][Next]_vars
-----------------------------------------------------------------------------
(* Properties *)

ModeratorStep ==
    \E C \in SUBSET Comment, s \in {"approved", "spam", "deleted"} : Moderate(C, s)

Verdict == {"approved", "pending"}

\* A comment whose present text the classifier flagged is public only when a
\* moderator approved it, with that text or while its edit was under way: no
\* order of posts, edits, cascades and deletions gets it there otherwise.
FlaggedNeedsModerator ==
    \A c \in Comment : status[c] = "approved" /\ text[c] = "flagged" => c \in vouched

\* What waits in the queue or was marked as spam becomes public by a
\* moderator's action alone, whatever verdicts edits get and whatever they had
\* read ("approving is a moderator's call", PATCH).
HeldUntilModerator ==
    [][(\E c \in Comment : status[c] \in {"pending", "spam"} /\ status'[c] = "approved")
       => ModeratorStep]_vars

\* A deleted comment comes back by a moderator's action, or when an edit that
\* read it live sends it to the queue; a cascade that listed it before its
\* author deleted it leaves it alone (adminSpamThread).
DeletedStaysDeleted ==
    [][\A c \in Comment : status[c] = "deleted" /\ status'[c] # "deleted" =>
          \/ ModeratorStep
          \/ \E h \in Handler :
                /\ job[h].comment = c /\ job[h].seen = "approved"
                /\ EditWrite(h, "pending") /\ status'[c] = "pending"]_vars

\* A pin set on the strength of an old read still lands on an approved
\* top-level comment, and the post is left without its pin only by an unpin or
\* because the new target was hidden since it was read.
PinSwapsLive ==
    [][/\ \A c \in pinned' \ pinned : Parent[c] = c /\ status[c] = "approved"
       /\ pinned # {} /\ pinned' = {} =>
             \/ \E c \in Comment : Unpin(c)
             \/ \E h \in Handler : PinWrite(h) /\ status[job[h].comment] # "approved"]_vars

\* A banned or erased user's request writes only if it was past its check of
\* the user when the bar came down; each such request writes once.
BarredUserStops ==
    [][\A h \in Handler :
          /\ ~IsActive(job[h].by)
          /\ DeleteWrite(h) \/ \E v \in Verdict : PostInsert(h, v) \/ EditWrite(h, v)
          => <<h, "barred">> \in overtaken]_vars

\* A reader's comment reaches a closed thread only from a request that was
\* past the gate when the thread was closed.
GateHolds ==
    [][\A h \in Handler : closed /\ (\E v \in Verdict : PostInsert(h, v))
          => <<h, "closed">> \in overtaken]_vars

\* What PATCH says of its second spam pass: rewriting a comment into something
\* the classifier flags does not leave it public, even if it was approved.
EditFlaggedHeld ==
    [][\A c \in Comment : text[c] = "passed" /\ text'[c] = "flagged"
          => status'[c] # "approved"]_vars
=============================================================================
