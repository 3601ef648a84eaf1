-------------------------------- MODULE Tree --------------------------------
(***************************************************************************)
(* The comments of a post as a reader gets them: which threads a page      *)
(* holds (listThreadRefsForPost), which of their comments SQL fetches      *)
(* (listCommentsForThreads), what the builder makes of these (buildTree),  *)
(* and the pages one after the other (buildTreePage), while comments are   *)
(* written, moderated, voted on and pinned.                                *)
(*                                                                         *)
(* Left out: the order in which siblings stand, TREE_SCAN_LIMIT and        *)
(* TREE_ROW_LIMIT, which cut threads of thousands of comments, and the     *)
(* edge's copies, which module EdgeCache has.                              *)
(***************************************************************************)
EXTENDS Integers, Sequences, FiniteSets

CONSTANTS
    N,         \* comments; their ids are 1..N, in the order of insertion
    Viewer,    \* signed-in readers
    Anonymous, \* a reader without a session
    PageSize,  \* comments_per_page
    MaxDepth,  \* MAX_DEPTH, where threads are flattened
    MaxWrite   \* bounds the writes

Comment == 1..N
Root    == 0

VARIABLES
    parent,  \* parent_id
    author,  \* user_id
    at,      \* created_at; an import's may be older than its id
    status,  \* absent, approved, pending, spam, deleted (by its author) or
             \* removed (deleted by a moderator)
    score,   \* score_up - score_down
    pinned,  \* the comments with a pinned_at, one at most
    pager,   \* the request under way and the pages it has had
    steady,  \* threads listed, and in one place, since the first page
    writes   \* writes so far

vars == <<parent, author, at, status, score, pinned, pager, steady, writes>>

Status == {"absent", "approved", "pending", "spam", "deleted", "removed"}
Sort   == {"new", "old", "top"}

Row      == {c \in Comment : status[c] # "absent"}
Roots    == {c \in Row : parent[c] = Root}
Child(c) == {d \in Row : parent[d] = c}

-----------------------------------------------------------------------------
(* Who sees what: kindOf, and the predicates of the queries *)

Kind(c, v) ==
    CASE status[c] \in {"deleted", "removed"} -> "deleted"
      [] status[c] = "approved" -> "live"
      [] status[c] = "pending" /\ author[c] = v -> "live"
      [] OTHER -> "masked"

Live(c, v)   == Kind(c, v) = "live"
Masked(c, v) == Kind(c, v) = "masked"

\* The proper ancestors of a comment, and the comments under it.
Up == LET up[c \in Comment] ==
              IF parent[c] = Root THEN {} ELSE {parent[c]} \cup up[parent[c]]
      IN up
Below(c) == {d \in Row : c \in Up[d]}

\* A hidden root is a thread for the sake of a live reply to itself.
Thread(c, v) == ~Masked(c, v) \/ \E d \in Child(c) : Live(d, v)

\* getPinnedThreadRef: a pin on a hidden comment is dormant.
PinnedThread == {c \in pinned : status[c] = "approved"}

Listed(v) == {c \in Roots : /\ Thread(c, v)
                            /\ c \notin PinnedThread}

\* THREAD_SCORE.
PublicScore(c) == IF status[c] = "approved" THEN score[c] ELSE 0

\* A thread's place in a sort, and whether place p comes before place q.
Place(sort, c) == [key |-> IF sort = "top" THEN PublicScore(c) ELSE at[c], id |-> c]

Before(sort, p, q) ==
    IF sort = "old" THEN p.key < q.key \/ (p.key = q.key /\ p.id < q.id)
    ELSE p.key > q.key \/ (p.key = q.key /\ p.id > q.id)

\* Those of a set that come before a comment.
Ahead(sort, set, c) == {d \in set : Before(sort, Place(sort, d), Place(sort, c))}

\* What a cursor leaves to come.  Mutant: the cursor is an id alone.
PastId(sort, cursor, c) ==
    cursor # <<>> => IF sort = "old" THEN cursor[1].id < c ELSE cursor[1].id > c

Past(sort, cursor, c) == cursor # <<>> => Before(sort, cursor[1], Place(sort, c))

\* One page of threads after the cursor, and one more to tell whether there
\* is a page after it; where that page begins.
Refs(sort, v, cursor, limit) ==
    LET left == {c \in Listed(v) : Past(sort, cursor, c)}
    IN {c \in left : Cardinality(Ahead(sort, left, c)) < limit}

NextCursor(sort, page, refs) ==
    IF refs = page THEN <<>>
    ELSE <<Place(sort, CHOOSE c \in page : page = {c} \cup Ahead(sort, page, c))>>

-----------------------------------------------------------------------------
(* listCommentsForThreads: the walk down from the threads *)

\* From a comment up to one above it, and whether nothing on that way is live.
Way(c, top)     == {d \in {c} \cup Up[c] : d = top \/ top \in Up[d]}
Dark(c, top, v) == \A d \in Way(c, top) : ~Live(d, v)

\* What is not live on the way up to the nearest live ancestor: `carry`.
Carry(c, v) == {d \in {c} \cup Up[c] : Dark(c, d, v)}
Need(c, v)  == IF parent[c] = Root THEN {} ELSE Carry(parent[c], v)

\* Mutant: what is hidden on the way up is not asked for.
TaintedNever(c, v) == FALSE

Tainted(c, v) == \E d \in Need(c, v) : Masked(d, v)

Walked(c, v) == Live(c, v) \/ status[c] \in {"deleted", "removed"} \/ Child(c) # {}

Fetched(threads, v, all) ==
    LET walk == {c \in Row : \/ c \in threads
                             \/ Up[c] \cap threads # {} /\ Walked(c, v)}
        seen == {c \in walk : \/ Live(c, v)
                              \/ all /\ Kind(c, v) = "deleted" /\ ~Tainted(c, v)}
    IN seen \cup UNION {Need(c, v) : c \in seen}

-----------------------------------------------------------------------------
(* buildTree *)

\* keepableSet of the rows fetched.
LivesOn(rows, v) == {c \in rows : \E d \in rows : c \in Up[d] /\ Live(d, v)}
Taint(rows, v) ==
    {c \in rows : \E d \in Carry(c, v) : Masked(d, v) /\ Way(c, d) \subseteq rows}
Keep(rows, v, all) ==
    LET keep == {c \in rows : \/ Live(c, v)
                              \/ c \in LivesOn(rows, v)
                              \/ all /\ Kind(c, v) = "deleted" /\ c \notin Taint(rows, v)}
    IN keep \cup (rows \cap UNION {Up[c] : c \in keep})

Depth(c) == Cardinality(Up[c])

\* buildSubtree: what a walk down from the roots through what is kept meets.
Reached(keep) == {c \in keep : Up[c] \subseteq keep}

\* Whose replies a node is put under, and whom it says it answers.
Holder(c)  == IF Depth(c) <= MaxDepth THEN parent[c]
              ELSE CHOOSE d \in Up[c] : Depth(d) = MaxDepth - 1
Removed(c, v) == Masked(c, v) \/ status[c] = "removed"
Name(c, v) == IF Removed(c, v) THEN "[deleted]" ELSE author[c]

\* toNode.
Node(c, v) ==
    [id |-> c, in |-> Holder(c), name |-> Name(c, v),
     status |-> IF Removed(c, v) THEN "deleted" ELSE status[c],
     votes |-> IF Live(c, v) THEN score[c] ELSE 0,
     from |-> IF Depth(c) >= MaxDepth THEN <<Name(parent[c], v)>> ELSE <<>>]

Built(rows, v, all) == [c \in Reached(Keep(rows, v, all)) |-> Node(c, v)]

-----------------------------------------------------------------------------
(* A reader, page by page *)

Idle == [pc |-> "idle", sort |-> "new", who |-> Anonymous, cursor |-> <<>>,
         refs |-> {}, pin |-> {}, got |-> <<>>]

Init == /\ parent \in [Comment -> Comment \cup {Root}]
        /\ \A c \in Comment : parent[c] < c
        /\ author \in [Comment -> Viewer]
        /\ at \in [Comment -> Nat]
        /\ status \in [Comment -> Status]
        /\ \A c \in Comment : parent[c] # Root /\ status[c] # "absent"
                                 => status[parent[c]] # "absent"
        /\ score = [c \in Comment |-> 0]
        /\ pinned \in {{}} \cup {{c} : c \in Roots}
        /\ pager = Idle
        /\ steady = {}
        /\ writes = 0

TypeOK == /\ status \in [Comment -> Status]
          /\ pinned \subseteq Comment /\ Cardinality(pinned) <= 1
          /\ pager \in [pc : {"idle", "refs", "pin", "rows", "done"}, sort : Sort,
                        who : Viewer \cup {Anonymous},
                        cursor : {<<>>} \cup {<<p>> : p \in [key : Int, id : Comment]},
                        refs : SUBSET Comment, pin : SUBSET Comment,
                        got : Seq(SUBSET Comment)]
          /\ steady \subseteq Comment
          /\ writes \in 0..MaxWrite

Unwritten == UNCHANGED <<parent, author, at, status, score, pinned, writes>>

\* Threads that a reader gets something of.
Drawn(v) == {c \in Roots : /\ Thread(c, v)
                           /\ Live(c, v) \/ c \in LivesOn(Row, v)}

\* Each read of the database is a step of its own.
Open == /\ pager.pc = "idle"
        /\ \E sort \in Sort, v \in Viewer \cup {Anonymous} :
              pager' = [Idle EXCEPT !.pc = "refs", !.sort = sort, !.who = v]
        /\ steady' = Drawn(pager'.who)
        /\ Unwritten

\* The pinned thread rides on the first page.
ReadRefs ==
    /\ pager.pc = "refs"
    /\ LET refs == Refs(pager.sort, pager.who, pager.cursor, PageSize + 1)
           page == Refs(pager.sort, pager.who, pager.cursor, PageSize)
       IN pager' = [pager EXCEPT
              !.refs = page,
              !.cursor = NextCursor(pager.sort, page, refs),
              !.pc = IF pager.cursor = <<>> THEN "pin" ELSE "rows"]
    /\ UNCHANGED steady /\ Unwritten

ReadPin ==
    /\ pager.pc = "pin"
    /\ pager' = [pager EXCEPT !.pc = "rows", !.pin = PinnedThread]
    /\ UNCHANGED steady /\ Unwritten

\* The reader asks for the next page until there is none.
ReadRows ==
    /\ pager.pc = "rows"
    /\ LET rows  == Fetched(pager.refs \cup pager.pin, pager.who, FALSE)
           built == Built(rows, pager.who, FALSE)
       IN pager' = [pager EXCEPT
              !.pc = IF pager.cursor = <<>> THEN "done" ELSE "refs",
              !.refs = {}, !.pin = {},
              !.got = Append(@, {c \in DOMAIN built : built[c].in = Root})]
    /\ UNCHANGED steady /\ Unwritten

\* A thread is steady no more when it leaves, moves, or is pinned or unpinned.
Written == /\ writes < MaxWrite
           /\ writes' = writes + 1
           /\ UNCHANGED <<parent, author, at, pager>>
           /\ steady' = {c \in steady : /\ c \in Drawn(pager.who)'
                                        /\ PublicScore(c)' = PublicScore(c)
                                        /\ (c \in PinnedThread') = (c \in PinnedThread)}

Post == /\ \E c \in Comment :
              /\ status[c] = "absent" /\ \A d \in 1..(c - 1) : status[d] # "absent"
              /\ parent[c] # Root => status[parent[c]] = "approved"
              /\ \E to \in {"approved", "pending"} : status' = [status EXCEPT ![c] = to]
        /\ UNCHANGED <<score, pinned>> /\ Written

SetStatus ==
    /\ \E c \in Row, to \in {"approved", "spam", "deleted", "removed"} :
          /\ to # status[c]
          /\ to = "deleted" => status[c] \in {"approved", "pending"}
          /\ status' = [status EXCEPT ![c] = to]
    /\ UNCHANGED <<score, pinned>> /\ Written

Vote == /\ \E c \in Comment, s \in {-1, 1} :
              status[c] = "approved" /\ score' = [score EXCEPT ![c] = s]
        /\ UNCHANGED <<status, pinned>> /\ Written

\* setCommentPin; whoever hides the comment leaves pinned_at as it is.
Pin == /\ \/ \E c \in Roots : status[c] = "approved" /\ pinned' = {c}
          \/ pinned' = {}
       /\ pinned' # pinned
       /\ UNCHANGED <<status, score>> /\ Written

Next == Open \/ ReadRefs \/ ReadPin \/ ReadRows \/ Post \/ SetStatus \/ Vote \/ Pin
Spec == Init /\ [][Next]_vars

-----------------------------------------------------------------------------
(* Properties *)

\* For any reader, with the placeholders of deleted comments or without, the
\* post is drawn exactly: what is live is there, unless its thread hangs on a
\* hidden root without a live reply of its own (a known ceiling), and under
\* something that is there; a hidden comment is never where a branch ends, nor
\* a deleted one without placeholders; with them, one that nothing hides is
\* there; the name of who wrote a removed or hidden comment is nowhere; and SQL
\* fetches no row that the builder then prunes.  listThreadRefsForPost,
\* listCommentsForThreads and keepableSet state these rules, each in its own
\* way.
TreeExact ==
    \A v \in Viewer \cup {Anonymous}, all \in BOOLEAN :
        LET rows   == Fetched(Listed(v) \cup PinnedThread, v, all)
            built  == Built(rows, v, all)
            drawn  == DOMAIN built
            Hung(c) == \E r \in {c} \cup Up[c] :
                          /\ parent[r] = Root /\ Masked(r, v)
                          /\ ~ \E d \in Child(r) : Live(d, v)
        IN /\ \A c \in Row : Live(c, v) /\ ~Hung(c) => c \in drawn
           /\ \A c \in drawn : built[c].in \in drawn \cup {Root}
           /\ \A c \in drawn : \/ Below(c) \cap drawn # {}
                               \/ Live(c, v)
                               \/ all /\ ~Masked(c, v)
           /\ all => \A c \in Row :
                 /\ status[c] \in {"deleted", "removed"}
                 /\ ~ \E d \in Up[c] : Masked(d, v)
                 => c \in drawn
           /\ \A c \in drawn : LET n == built[c] IN
                 /\ Removed(c, v) => n.name \notin Viewer /\ n.votes = 0
                 /\ n.from # <<>> /\ Removed(parent[c], v) => n.from[1] \notin Viewer
           /\ rows = drawn

\* Whatever is written while a reader pages, a thread that stays, and stays
\* where it is, is on their pages once: next_cursor names a place in the sort
\* and not a row.
ThreadsPagedOnce ==
    \A c \in steady :
        LET times == Cardinality({i \in DOMAIN pager.got : c \in pager.got[i]})
        IN times <= 1 /\ (pager.pc = "done" => times = 1)
=============================================================================
