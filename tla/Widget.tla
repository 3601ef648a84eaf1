------------------------------- MODULE Widget -------------------------------
(* The thread as the widget draws it: loads that overlap and are squashed,   *)
(* the reader's choice of order, further pages, "Show N more replies", and   *)
(* the reader's own comment put into the tree from the answer to its POST.   *)
(* Fetches answer in any order; what a handler does between two awaits is    *)
(* one step.  The server's comments are numbered in the order of creation;   *)
(* the first is the thread whose replies are shown.                          *)
(*                                                                           *)
(* Left out: the order "top", pins, comments that go, tiers flattened past   *)
(* the depth limit, and everything about one comment once it is drawn.       *)
EXTENDS Naturals, Sequences, FiniteSets, Functions

CONSTANTS AtOpen,       \* top-level comments on the post when the page opens
          MaxComment,   \* comments ever
          PageSize,     \* comments_per_page
          ReplyCap      \* replies_per_thread, above 0

VARIABLES
    top, replies,   \* the server: top-level comments; replies to the first
    st,             \* loadState: running, queued, sort
    ask,            \* the load under way: its order, what the server answered
    tree,           \* "skeleton", "thread" or "error"
    order,          \* the order of the tree on screen
    list,           \* .gr-list: the threads, the reader's own marked
    tier,           \* the first comment's replies; Button where it stands
    hidden,         \* the batch behind that button
    more,           \* the cursor of Load More, 0 when there is none
    page,           \* the page Load More waits for
    post,           \* the reader's POST
    pending,        \* pendingReveal
    picked,         \* history: the order the reader last chose
    raced,          \* history: a load was running when they chose it
    overtook,       \* history: a comment was drawn while a page was under way
    stale           \* history: a reload was asked for since the last began

server == <<top, replies>>
past == <<picked, raced, overtook>>
screen == <<tree, order, list, tier, hidden, more>>
vars == <<server, st, ask, screen, page, post, pending, past, stale>>

CommentId == 1..MaxComment
Root == 1
Button == 0
Order == {"new", "old"}
Default == "new"                        \* the operator's default_sort
NoAsk == [stage |-> "none", sort |-> "any", rows |-> <<>>, below |-> <<>>,
          next |-> 0]
NoPost == [stage |-> "none", id |-> 0, reply |-> FALSE]

TypeOK ==
    /\ top \in SUBSET CommentId /\ replies \in SUBSET CommentId
    /\ st \in [running : BOOLEAN, queued : BOOLEAN, sort : Order \cup {"any"}]
    /\ \A a \in {ask, page} :
          /\ a.stage \in {"none", "asked", "answered"}
          /\ a.rows \in Seq(CommentId) /\ a.below \in Seq(CommentId)
          /\ a.sort \in Order \cup {"any"} /\ a.next \in 0..MaxComment
    /\ tree \in {"skeleton", "thread", "error"}
    /\ order \in Order
    /\ list \in Seq([id : CommentId, posted : BOOLEAN])
    /\ tier \in Seq(CommentId \cup {Button})
    /\ hidden \in Seq(CommentId)
    /\ more \in 0..MaxComment
    /\ post \in [stage : {"none", "sent", "committed"},
                 id : CommentId \cup {0}, reply : BOOLEAN]
    /\ pending \in CommentId \cup {0}
    /\ picked \in Order \cup {"any"}
    /\ raced \in BOOLEAN /\ overtook \in BOOLEAN /\ stale \in BOOLEAN

-----------------------------------------------------------------------------
(* Some numbers in an order: the k-th is the one that k - 1 come before.      *)
Before(a, b, sort) == IF sort = "new" THEN a > b ELSE a < b

Sorted(S, sort) ==
    [k \in 1..Cardinality(S) |->
        CHOOSE c \in S : Cardinality({b \in S : Before(b, c, sort)}) = k - 1]

(* A sequence less the places of a set.                                       *)
Without(l, I) ==
    LET left == Sorted(DOMAIN l \ I, "old") IN [k \in DOMAIN left |-> l[left[k]]]

-----------------------------------------------------------------------------
(* The server's pages: a keyset cursor into one order.                        *)

After(cursor, sort) ==
    {c \in top : \/ cursor = 0
                 \/ sort = "new" /\ c < cursor
                 \/ sort = "old" /\ c > cursor}

Answer(a, cursor) ==
    LET sort == IF a.sort = "any" THEN Default ELSE a.sort
        rest == Sorted(After(cursor, sort), sort)
        rows == SubSeq(rest, 1, IF Len(rest) < PageSize THEN Len(rest)
                                ELSE PageSize)
    IN [stage |-> "answered", sort |-> sort, rows |-> rows,
        below |-> IF Root \in Range(rows) THEN Sorted(replies, "old") ELSE <<>>,
        next |-> IF Len(rest) > PageSize THEN rows[PageSize] ELSE 0]

NextId == 1 + Cardinality(top) + Cardinality(replies)   \* the next id

OtherPosts ==
    /\ NextId \in CommentId
    /\ \/ top' = top \cup {NextId} /\ UNCHANGED replies
       \/ replies' = replies \cup {NextId} /\ UNCHANGED top
    /\ UNCHANGED <<st, ask, screen, page, post, pending, past, stale>>

-----------------------------------------------------------------------------
(* What is on the screen, and what a page adds to it.                         *)

Ids(l) == {l[i].id : i \in DOMAIN l}
OnScreen == Ids(list) \cup (Range(tier) \ {Button})

Fresh(id) == [id |-> id, posted |-> FALSE]
Own(id) == [id |-> id, posted |-> TRUE]

(* A thread the tree holds is left alone; the reader's own, placed by a guess,*)
(* is drawn again where the page has it.                                      *)
Add(l, rows) ==
    LET given == {i \in DOMAIN l : l[i].posted /\ l[i].id \in Range(rows)}
        kept == Without(l, given)
        new == [i \in DOMAIN rows |->
                   [id |-> rows[i], posted |-> \E j \in given : l[j].id = rows[i]]]
    IN kept \o Without(new, {i \in DOMAIN new : new[i].id \in Ids(kept)})

(* The replies of a thread as they are first drawn.                           *)
Drawn(below) == IF Len(below) <= ReplyCap THEN below
                ELSE Append(SubSeq(below, 1, ReplyCap), Button)
Behind(below) == SubSeq(below, ReplyCap + 1, Len(below))

-----------------------------------------------------------------------------
(* load(): one at a time, and one more after it for all that came meanwhile.  *)

Asking(sort) == [NoAsk EXCEPT !.stage = "asked", !.sort = sort]

\* Mutant: a request that meets a running load is dropped.
ReloadDropped(s) ==
    IF s.running
    THEN st' = s /\ stale' = TRUE /\ UNCHANGED ask
    ELSE st' = [s EXCEPT !.running = TRUE] /\ ask' = Asking(s.sort)
         /\ stale' = FALSE

(* A load asks for the order the mount state holds when it begins.            *)
Reload(s) ==
    IF s.running
    THEN st' = [s EXCEPT !.queued = TRUE] /\ stale' = TRUE /\ UNCHANGED ask
    ELSE st' = [s EXCEPT !.running = TRUE] /\ ask' = Asking(s.sort)
         /\ stale' = FALSE

(* The finally of load(): a queued request runs next.                         *)
Ended(s) ==
    IF s.queued
    THEN st' = [s EXCEPT !.queued = FALSE] /\ ask' = Asking(s.sort)
         /\ stale' = FALSE
    ELSE st' = [s EXCEPT !.running = FALSE] /\ ask' = NoAsk /\ UNCHANGED stale

LoadAnswered ==
    /\ ask.stage = "asked"
    /\ ask' = Answer(ask, 0)
    /\ UNCHANGED <<server, st, screen, page, post, pending, past, stale>>

(* The answer replaces the tree, pins the order it came in, and takes the     *)
(* pending reveal.  A Load More under way adds to a list that is gone.        *)
Render ==
    /\ ask.stage = "answered"
    /\ Ended([st EXCEPT !.sort = ask.sort])
    /\ tree' = "thread" /\ order' = ask.sort
    /\ list' = Add(<<>>, ask.rows)
    /\ tier' = Drawn(ask.below) /\ hidden' = Behind(ask.below)
    /\ more' = ask.next
    /\ page' = NoAsk
    /\ pending' = 0
    /\ overtook' = FALSE
    /\ UNCHANGED <<server, post, picked, raced>>

(* renderError: the tree goes too, the mount state keeps its order.           *)
LoadFails ==
    /\ ask.stage = "asked"
    /\ Ended(st)
    /\ tree' = "error"
    /\ list' = <<>> /\ tier' = <<>> /\ hidden' = <<>> /\ more' = 0
    /\ page' = NoAsk
    /\ UNCHANGED <<server, order, post, pending, past>>

Chosen(o) == Reload([st EXCEPT !.sort = o])

(* The sort control.                                                          *)
Pick(o) ==
    /\ tree = "thread" /\ list # <<>> /\ o # order
    /\ picked' = o /\ raced' = st.running
    /\ Chosen(o)
    /\ UNCHANGED <<server, screen, page, post, pending, overtook>>

(* An edit saved, a comment deleted, a sign-in: each ends in a reload, the    *)
(* first two with a comment to go back to.                                    *)
AskReload ==
    /\ tree = "thread" /\ list # <<>>
    /\ pending' \in {pending, list[1].id}
    /\ Reload(st)
    /\ UNCHANGED <<server, screen, page, post, past>>

-----------------------------------------------------------------------------
(* Load More, in the order of the tree it stands under.                       *)

LoadMore ==
    /\ more # 0 /\ page.stage = "none"
    /\ page' = [Asking(order) EXCEPT !.next = more]
    /\ UNCHANGED <<server, st, ask, screen, post, pending, past, stale>>

PageAnswered ==
    /\ page.stage = "asked"
    /\ page' = Answer(page, page.next)
    /\ UNCHANGED <<server, st, ask, screen, post, pending, past, stale>>

PageDrawn ==
    /\ page.stage = "answered"
    /\ list' = Add(list, page.rows)
    /\ IF Root \in Range(page.rows) \ Ids(list)
       THEN tier' = Drawn(page.below) /\ hidden' = Behind(page.below)
       ELSE UNCHANGED <<tier, hidden>>
    /\ more' = page.next
    /\ page' = NoAsk
    /\ UNCHANGED <<server, tree, order, st, ask, post, pending, past, stale>>

PageFails ==
    /\ page.stage = "asked"
    /\ page' = NoAsk
    /\ UNCHANGED <<server, st, ask, screen, post, pending, past, stale>>

\* Mutant: the batch goes in as it was captured.
BatchAll == hidden

(* What the button holds back, less what is drawn by now.                     *)
Batch == Without(hidden, {i \in DOMAIN hidden : hidden[i] \in Range(tier)})

(* "Show N more replies": the batch goes where the button stands.             *)
ShowMore ==
    /\ \E b \in DOMAIN tier :
          /\ tier[b] = Button
          /\ tier' = SubSeq(tier, 1, b - 1) \o Batch
                         \o SubSeq(tier, b + 1, Len(tier))
    /\ hidden' = <<>>
    /\ UNCHANGED <<server, tree, order, list, more, st, ask, page, post,
                   pending, past, stale>>

-----------------------------------------------------------------------------
(* The reader's own comment.                                                  *)

Send(reply) ==
    /\ post.stage = "none" /\ tree = "thread"
    /\ reply => Root \in Ids(list)
    /\ post' = [stage |-> "sent", id |-> 0, reply |-> reply]
    /\ UNCHANGED <<server, st, ask, screen, page, pending, past, stale>>

Commit ==
    /\ post.stage = "sent" /\ NextId \in CommentId
    /\ post' = [post EXCEPT !.stage = "committed", !.id = NextId]
    /\ IF post.reply THEN replies' = replies \cup {NextId} /\ UNCHANGED top
       ELSE top' = top \cup {NextId} /\ UNCHANGED replies
    /\ UNCHANGED <<st, ask, screen, page, pending, past, stale>>

(* No answer, or a refusal: before the commit, or lost on the way back.       *)
PostFails ==
    /\ post.stage # "none"
    /\ post' = NoPost
    /\ UNCHANGED <<server, st, ask, screen, page, pending, past, stale>>

(* insertPostedNode: a load may have drawn it already; under "old" a new      *)
(* comment joins the end, otherwise the start; a reply is last in its tier.   *)
Echo ==
    /\ post.stage = "committed" /\ tree = "thread"
    /\ post.reply => Root \in Ids(list)
    /\ post' = NoPost
    /\ list' = IF post.reply \/ post.id \in OnScreen THEN list
               ELSE IF st.sort = "old" THEN Append(list, Own(post.id))
               ELSE <<Own(post.id)>> \o list
    /\ tier' = IF post.reply /\ post.id \notin OnScreen
               THEN Append(tier, post.id) ELSE tier
    /\ overtook' = (overtook \/ page.stage # "none")
    /\ UNCHANGED <<server, tree, order, hidden, more, st, ask, page, pending,
                   picked, raced, stale>>

(* No tree, or no parent in it: back to post-then-reload.                     *)
EchoUnplaced ==
    /\ post.stage = "committed"
    /\ tree # "thread" \/ (post.reply /\ Root \notin Ids(list))
    /\ post' = NoPost
    /\ pending' = post.id
    /\ Reload(st)
    /\ UNCHANGED <<server, screen, page, past>>

-----------------------------------------------------------------------------
Init ==
    /\ top = 1..AtOpen /\ replies = {}
    /\ st = [running |-> TRUE, queued |-> FALSE, sort |-> "any"]
    /\ ask = Asking("any")
    /\ tree = "skeleton" /\ order = Default
    /\ list = <<>> /\ tier = <<>> /\ hidden = <<>> /\ more = 0
    /\ page = NoAsk /\ post = NoPost /\ pending = 0
    /\ picked = "any" /\ raced = FALSE /\ overtook = FALSE /\ stale = FALSE

Next ==
    \/ OtherPosts \/ LoadAnswered \/ Render \/ LoadFails \/ AskReload
    \/ \E o \in Order : Pick(o)
    \/ LoadMore \/ PageAnswered \/ PageDrawn \/ PageFails \/ ShowMore
    \/ \E reply \in BOOLEAN : Send(reply)
    \/ Commit \/ PostFails \/ Echo \/ EchoUnplaced

Spec == Init /\ [][Next]_vars

-----------------------------------------------------------------------------
(* No comment stands on the screen twice, whatever pages, loads, captured     *)
(* batches and POST answers bring it (embed.ts, appendThreads,                *)
(* renderReplyList and insertPostedNode).                                     *)
NeverTwice ==
    /\ \A i, j \in DOMAIN list : list[i].id = list[j].id => i = j
    /\ \A i, j \in DOMAIN tier : tier[i] = tier[j] => i = j

(* When the widget rests and no page is left to fetch, the threads stand in   *)
(* the server's order: every guess at the place of the reader's own comment   *)
(* has been corrected by the page that holds it, unless it was drawn while a  *)
(* page read before it was under way (embed.ts, appendThreads).               *)
SettledOrder ==
    ~st.running /\ tree = "thread" /\ more = 0 /\ ~overtook =>
        \A i, j \in DOMAIN list : i < j =>
            IF order = "new" THEN list[i].id > list[j].id
            ELSE list[i].id < list[j].id

(* When the widget rests, its last load began after the last request for one: *)
(* none is lost to the squashing (embed.ts, load).                            *)
NoReloadLost == ~st.running => ~stale

(* When the widget rests, the thread is in the order the reader chose last,   *)
(* unless a load was under way when they chose it (embed.ts, load and         *)
(* setSort).                                                                  *)
PickLostOnlyToALoad ==
    ~st.running /\ tree = "thread" /\ picked # "any" /\ ~raced =>
        order = picked

(* "`sort` is sticky across reloads on the same mount so an in-flight reload  *)
(* triggered by a reply doesn't drop the reader's selection" (embed.ts, above *)
(* loadState).                                                                *)
LastPickWins ==
    ~st.running /\ tree = "thread" /\ picked # "any" => order = picked
=============================================================================
