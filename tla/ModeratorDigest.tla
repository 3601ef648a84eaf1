--------------------------- MODULE ModeratorDigest ---------------------------
(***************************************************************************)
(* Mail to the moderators: the rows that POST /comments and the report     *)
(* route queue in moderator_notifications, and the pass of                 *)
(* src/lib/moderator-digest.ts that mails them.                            *)
(*                                                                         *)
(* A row is queued for a comment and a reason, and a partial unique index  *)
(* keeps at most one of them unsent.  The pass reads a batch with the      *)
(* status each comment has then, drops what was handled, mails the rest to *)
(* one recipient after the other and settles the batch for all of them.    *)
(***************************************************************************)
EXTENDS Naturals, FiniteSets

CONSTANTS
    Comment,    \* comments
    Network,    \* reporters, by ip_hash
    Recipient,  \* MODERATOR_NOTIFY_EMAILS, or ADMIN_EMAILS
    Dead,       \* those whose mail the provider always refuses
    MaxItems,   \* MAX_ITEMS_PER_TICK
    MaxRow,     \* bound on the rows of one key, for TLC
    MaxCrash    \* bound on the passes that die and the answers lost, for TLC

ASSUME NetworkAssumption   == IsFiniteSet(Network)
ASSUME RecipientAssumption == Recipient # {} /\ Dead \subseteq Recipient
ASSUME ItemsAssumption     == MaxItems \in Nat \ {0}
ASSUME BoundAssumption     == MaxRow \in Nat /\ MaxCrash \in Nat

VARIABLES
    status,   \* comments.status, "new" before it is posted
    checked,  \* reports past the check of their target
    filed,    \* reports: UNIQUE(comment_id, reporter_ip_hash)
    note,     \* note[k]: calls of enqueueModeratorNotification under way
    made,     \* made[k]: rows ever queued for k; the last one may be unsent
    unsent,   \* keys that have a row with sent_at IS NULL
    older,    \* older[k]: unsent rows with an earlier created_at than k's
    due,      \* unsent rows past the debounce
    pc,       \* what the pass does next
    batch,    \* the rows it read
    items,    \* of these, those its mail lists
    left,     \* recipients it has still to mail
    sent,     \* whether any of them took the mail
    crashes,  \* passes that died and answers that were lost so far
    mailed,   \* history: rows that some recipient was mailed
    void,     \* history: rows whose comment was handled when they were read
    offered   \* history: recipients the mail in hand was offered to

Reason == {"pending", "reported"}
Key    == Comment \X Reason
Row    == Key \X (1..MaxRow)
Last(k) == <<k, made[k]>>

comments == <<status, checked, filed>>
queue    == <<made, unsent, older, due>>
pass     == <<pc, batch, items, left, sent, crashes>>
history  == <<mailed, void, offered>>
vars     == <<comments, note, queue, pass, history>>

TypeOK ==
    /\ status \in [Comment -> {"new", "approved", "pending", "spam", "deleted"}]
    /\ checked \subseteq Comment \X Network
    /\ filed \subseteq Comment \X Network
    /\ note \in [Key -> Nat]
    /\ made \in [Key -> 0..MaxRow]
    /\ unsent \subseteq {k \in Key : made[k] > 0}
    /\ older \in [Key -> SUBSET unsent]
    /\ due \subseteq unsent
    /\ pc \in {"idle", "reserve", "send", "mark"}
    /\ items \subseteq batch /\ batch \subseteq due
    /\ left \subseteq Recipient
    /\ sent \in BOOLEAN
    /\ crashes \in 0..MaxCrash
    /\ mailed \subseteq Row /\ void \subseteq Row
    /\ offered \subseteq Recipient

Init ==
    /\ status = [c \in Comment |-> "new"]
    /\ checked = {} /\ filed = {}
    /\ note = [k \in Key |-> 0]
    /\ made = [k \in Key |-> 0]
    /\ unsent = {} /\ older = [k \in Key |-> {}] /\ due = {}
    /\ pc = "idle" /\ batch = {} /\ items = {} /\ left = {} /\ sent = FALSE
    /\ crashes = 0
    /\ mailed = {} /\ void = {} /\ offered = {}

-----------------------------------------------------------------------------
(* Comments and reports *)

Notify(k) == note' = [note EXCEPT ![k] = @ + 1]

\* POST /comments: what is not published is noted.
Post(c, s) ==
    /\ status[c] = "new" /\ s \in {"approved", "pending"}
    /\ status' = [status EXCEPT ![c] = s]
    /\ IF s = "pending" THEN Notify(<<c, "pending">>) ELSE UNCHANGED note
    /\ UNCHANGED <<checked, filed, queue, pass, history>>

\* moderateComment, the author's deletion, and an edit the verdict holds, even
\* one that read the comment before; none of them is noted.
SetStatus(c, s) ==
    /\ status[c] # "new" /\ s \in {"approved", "pending", "spam", "deleted"}
    /\ status' = [status EXCEPT ![c] = s]
    /\ UNCHANGED <<checked, filed, note, queue, pass, history>>

\* Only a published comment can be reported.
ReportCheck(c, n) ==
    /\ status[c] = "approved"
    /\ checked' = checked \union {<<c, n>>}
    /\ UNCHANGED <<status, filed, note, queue, pass, history>>

\* Mutant: a report that was filed before is noted again.
ReportInsertAnew(c, n) ==
    /\ <<c, n>> \in checked
    /\ checked' = checked \ {<<c, n>>}
    /\ filed' = filed \union {<<c, n>>}
    /\ Notify(<<c, "reported">>)
    /\ UNCHANGED <<status, queue, pass, history>>

\* insertReport, with isNew.
ReportInsert(c, n) ==
    /\ <<c, n>> \in checked
    /\ checked' = checked \ {<<c, n>>}
    /\ filed' = filed \union {<<c, n>>}
    /\ IF <<c, n>> \in filed THEN UNCHANGED note ELSE Notify(<<c, "reported">>)
    /\ UNCHANGED <<status, queue, pass, history>>

Noted(k) == note[k] > 0 /\ note' = [note EXCEPT ![k] = @ - 1]

\* enqueueModeratorNotification: INSERT OR IGNORE.
Enqueue(k) ==
    /\ Noted(k)
    /\ IF k \in unsent
       THEN UNCHANGED queue
       ELSE /\ made[k] < MaxRow
            /\ made' = [made EXCEPT ![k] = @ + 1]
            /\ unsent' = unsent \union {k}
            /\ older' = [older EXCEPT ![k] = unsent]
            /\ UNCHANGED due
    /\ UNCHANGED <<comments, pass, history>>

\* moderator_email_enabled is off, or the isolate dies.
NoteLost(k) ==
    /\ Noted(k)
    /\ UNCHANGED <<comments, queue, pass, history>>

-----------------------------------------------------------------------------
(* runModeratorDigest *)

\* The row of k is DEBOUNCE_MS old.
Ripen(k) ==
    /\ k \in unsent \ due /\ older[k] \subseteq due
    /\ due' = due \union {k}
    /\ UNCHANGED <<comments, note, made, unsent, older, pass, history>>

\* stillActionable, by the status read with the row.
Actionable(k) ==
    IF k[2] = "pending" THEN status[k[1]] = "pending" ELSE status[k[1]] # "deleted"

\* listPendingModeratorNotifications: the earliest.
List ==
    /\ pc = "idle" /\ due # {}
    /\ batch' = {k \in due : Cardinality(older[k]) < MaxItems}
    /\ items' = {k \in batch' : Actionable(k)}
    /\ pc' = IF items' = {} THEN "mark" ELSE "reserve"
    /\ void' = void \union {Last(k) : k \in batch' \ items'}
    /\ UNCHANGED <<comments, note, queue, left, sent, crashes, mailed, offered>>

\* One reservation for the whole fan-out.
Reserve ==
    /\ pc = "reserve"
    /\ pc' = "send" /\ left' = Recipient /\ sent' = FALSE
    /\ offered' = {}
    /\ UNCHANGED <<comments, note, queue, batch, items, crashes, mailed, void>>

Stop == pc' = "idle" /\ batch' = {} /\ items' = {}

\* The ceiling is reached: nothing goes out and nothing is marked.
Denied ==
    /\ pc = "reserve" /\ Stop
    /\ UNCHANGED <<comments, note, queue, left, sent, crashes, history>>

SendOk(to) ==
    /\ pc = "send" /\ to \in left \ Dead
    /\ left' = left \ {to}
    /\ sent' = TRUE
    /\ mailed' = mailed \union {Last(k) : k \in items}
    /\ offered' = offered \union {to}
    /\ UNCHANGED <<comments, note, queue, pc, batch, items, crashes, void>>

\* sendEmail returned false.
SendFail(to) ==
    /\ pc = "send" /\ to \in left
    /\ left' = left \ {to}
    /\ offered' = offered \union {to}
    /\ UNCHANGED <<comments, note, queue, pc, batch, items, sent, crashes, mailed, void>>

\* The same, of a mail that the provider took and whose answer was lost.
SendLost(to) ==
    /\ pc = "send" /\ to \in left \ Dead /\ crashes < MaxCrash
    /\ crashes' = crashes + 1
    /\ left' = left \ {to}
    /\ mailed' = mailed \union {Last(k) : k \in items}
    /\ offered' = offered \union {to}
    /\ UNCHANGED <<comments, note, queue, pc, batch, items, sent, void>>

\* Mutant: the batch is settled whether or not anybody took the mail.
AllTriedMarks ==
    /\ pc = "send" /\ left = {}
    /\ pc' = "mark" /\ UNCHANGED <<batch, items>>
    /\ UNCHANGED <<comments, note, queue, left, sent, crashes, history>>

\* One recipient that took it settles the batch; none leaves it for the next
\* pass and returns the reservation.
AllTried ==
    /\ pc = "send" /\ left = {}
    /\ IF sent THEN pc' = "mark" /\ UNCHANGED <<batch, items>> ELSE Stop
    /\ UNCHANGED <<comments, note, queue, left, sent, crashes, history>>

\* Mutant: only what was mailed is settled.
SettledMailed == items

\* What the pass settles: all it read.
SettledRows == batch

\* markModeratorNotificationsSent.
Mark ==
    /\ pc = "mark" /\ Stop
    /\ unsent' = unsent \ SettledRows
    /\ due' = due \ SettledRows
    /\ older' = [k \in Key |-> IF k \in SettledRows THEN {} ELSE older[k] \ SettledRows]
    /\ UNCHANGED <<comments, note, made, left, sent, crashes, history>>

\* The isolate dies or D1 throws; what was mailed is mailed again.
Crash ==
    /\ pc # "idle" /\ crashes < MaxCrash
    /\ crashes' = crashes + 1
    /\ Stop
    /\ UNCHANGED <<comments, note, queue, left, sent, history>>

-----------------------------------------------------------------------------
Next ==
    \/ \E c \in Comment, s \in {"approved", "pending", "spam", "deleted"} :
          Post(c, s) \/ SetStatus(c, s)
    \/ \E c \in Comment, n \in Network : ReportCheck(c, n) \/ ReportInsert(c, n)
    \/ \E k \in Key : Enqueue(k) \/ NoteLost(k) \/ Ripen(k)
    \/ \E to \in Recipient : SendOk(to) \/ SendFail(to) \/ SendLost(to)
    \/ List \/ Reserve \/ Denied \/ AllTried \/ Mark \/ Crash

Spec == Init /\ [][Next]_vars

\* The cron keeps firing and a pass that runs goes on; the ceiling is a day's
\* and refills; the provider does not refuse a living address for ever.
Fairness ==
    /\ WF_vars(List) /\ SF_vars(Reserve) /\ WF_vars(AllTried) /\ WF_vars(Mark)
    /\ \A k \in Key : WF_vars(Ripen(k))
    /\ \A to \in Recipient : WF_vars(SendFail(to)) /\ SF_vars(SendOk(to))

FairSpec == Spec /\ Fairness

-----------------------------------------------------------------------------
(* Properties *)

\* The moderators' queue is an outbox: a row leaves it once somebody was mailed
\* about it or its comment was found handled, and never comes back.
AsOutbox == INSTANCE Outbox WITH
    Item      <- Row,
    queued    <- {Last(k) : k \in unsent},
    done      <- {r \in Row : r[2] <= made[r[1]] /\ ~(r[1] \in unsent /\ r[2] = made[r[1]])},
    delivered <- mailed,
    void      <- void

ImplementsOutbox == AsOutbox!Spec

\* The mark is for everyone, so the fan-out is whole: a row whose comment was
\* not handled is settled only by a pass that offered it to every recipient.
FanoutWhole ==
    [][\A k \in unsent \ unsent' : Last(k) \in void \/ offered = Recipient]_vars

\* A brigade stays small: a comment is queued as reported at most once for each
\* network that reported it, however often they do, and as held once.
RowPerReport ==
    \A c \in Comment :
        /\ made[<<c, "reported">>] <= Cardinality({n \in Network : <<c, n>> \in filed})
        /\ made[<<c, "pending">>] <= 1

\* Every row leaves the queue, though a pass takes only MaxItems of them, while
\* one recipient has a living address.
QueueDrains ==
    Dead # Recipient => \A k \in Key : k \in unsent ~> k \notin unsent
=============================================================================
