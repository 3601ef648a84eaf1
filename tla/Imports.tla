------------------------------- MODULE Imports -------------------------------
(***************************************************************************)
(* Importing another system's export: runImport of src/lib/import/core.ts, *)
(* run by the admin's upload routes or the command line, while readers and *)
(* the operator use the site.                                              *)
(*                                                                         *)
(* A run creates the pages, then the ghost users, then the comments, all   *)
(* of them top-level, and last links each to its parent.  Every statement  *)
(* is a step; nothing is a transaction.  A run that dies is started again, *)
(* and nothing keeps two from running at once.  A dry run writes nothing.  *)
(***************************************************************************)
EXTENDS Naturals, FiniteSets

CONSTANTS
    N,         \* comments in the export, by their place in it
    PageCount, \* pages in it
    UserCount, \* authors in it
    Export,    \* exports to consider: of each comment the one it names as its
               \* parent (itself for none; a file may well name itself), its
               \* page and its author
    Junk,      \* comments deleted or spam at the source
    Blocked,   \* comments whose author the export calls banned
    Reply,     \* replies that readers may post here, numbers above N
    MaxDepth,  \* MAX_REPLY_DEPTH
    Run        \* runs that may overlap

Item == 1..N
Page == 1..PageCount
User == 1..UserCount
Id   == Item \union Reply

ASSUME SizeAssumption   == {N, PageCount, UserCount} \subseteq Nat \ {0}
ASSUME ExportAssumption == Export \subseteq
    [parent : [Item -> Item], thread : [Item -> Page], author : [Item -> User]]
ASSUME ReplyAssumption  == Reply \subseteq Nat \ (0..N)
ASSUME DepthAssumption  == MaxDepth \in Nat \ {0, 1}

VARIABLES
    export,  \* the export; it is the same file each time
    page,    \* posts
    user,    \* the ghosts: absent, clear or banned
    rows,    \* comments: the imported ones and the replies
    parent,  \* comments.parent_id, 0 for NULL
    depth,   \* comments.depth
    asked,   \* asked[x]: the comment a reply answers and the depth it read there
    pc,      \* what each run does next
    next,    \* the page, author or comment it has come to
    all,     \* whether its options include what is deleted or spam
    fresh,   \* usersToInsert
    known,   \* nativeIdBySourceId
    mine,    \* insertedThisRun
    memo     \* depthBySourceId, 0 where it has no entry

site    == <<page, user>>
tree    == <<rows, parent, depth>>
locals  == <<all, fresh, known, mine, memo>>
control == <<pc, next>>
vars    == <<export, site, tree, asked, control, locals>>

Phase  == {"idle", "page", "newpage", "author", "ghost", "comment",
           "newcomment", "link", "done"}
NoMemo == [i \in Item |-> 0]

TypeOK ==
    /\ export \in Export
    /\ page \subseteq Page
    /\ user \in [User -> {"absent", "clear", "banned"}]
    /\ rows \subseteq Id
    /\ parent \in [Id -> rows \union {0}]
    /\ depth \in [Id -> 1..MaxDepth]
    /\ asked \in [Reply -> [to : rows \union {0}, depth : 1..MaxDepth]]
    /\ pc \in [Run -> Phase]
    /\ next \in [Run -> Item \union Page \union User]
    /\ all \in [Run -> BOOLEAN]
    /\ fresh \in [Run -> SUBSET User]
    /\ known \in [Run -> SUBSET Item]
    /\ mine \in [Run -> SUBSET Item]
    /\ memo \in [Run -> [Item -> Nat]]

Init ==
    /\ export \in Export
    /\ page = {}
    /\ user = [u \in User |-> "absent"]
    /\ rows = {}
    /\ parent = [x \in Id |-> 0]
    /\ depth = [x \in Id |-> 1]
    /\ asked = [x \in Reply |-> [to |-> 0, depth |-> 1]]
    /\ pc = [r \in Run |-> "idle"]
    /\ next = [r \in Run |-> 1]
    /\ all = [r \in Run |-> FALSE]
    /\ fresh = [r \in Run |-> {}]
    /\ known = [r \in Run |-> {}]
    /\ mine = [r \in Run |-> {}]
    /\ memo = [r \in Run |-> NoMemo]

-----------------------------------------------------------------------------
(* The steps of a run *)

Goto(r, s) == pc' = [pc EXCEPT ![r] = s] /\ next' = next

\* On to the next of last pages or comments, and after them to phase s.
Forward(r, phase, last, s) ==
    IF next[r] < last
    THEN /\ pc' = [pc EXCEPT ![r] = phase]
         /\ next' = [next EXCEPT ![r] = @ + 1]
    ELSE /\ pc' = [pc EXCEPT ![r] = s]
         /\ next' = [next EXCEPT ![r] = 1]

\* The run ends, for whatever reason, and its isolate forgets.
Forget(r) ==
    /\ pc' = [pc EXCEPT ![r] = "idle"]
    /\ next' = [next EXCEPT ![r] = 1]
    /\ all' = [all EXCEPT ![r] = FALSE]
    /\ fresh' = [fresh EXCEPT ![r] = {}]
    /\ known' = [known EXCEPT ![r] = {}]
    /\ mine' = [mine EXCEPT ![r] = {}]
    /\ memo' = [memo EXCEPT ![r] = NoMemo]

Begin(r, b) ==
    /\ pc[r] = "idle"
    /\ Goto(r, "page")
    /\ all' = [all EXCEPT ![r] = b]
    /\ UNCHANGED <<export, site, tree, asked, fresh, known, mine, memo>>

\* isSkipped
Skipped(r, i) == i \in Junk /\ ~all[r]

PageSelect(r) ==
    /\ pc[r] = "page"
    /\ IF next[r] \notin page THEN Goto(r, "newpage")
                             ELSE Forward(r, "page", PageCount, "author")
    /\ UNCHANGED <<export, site, tree, asked, locals>>

\* An INSERT that meets a row of another run throws, and the run ends (Cut).
PageInsert(r) ==
    /\ pc[r] = "newpage" /\ next[r] \notin page
    /\ page' = page \union {next[r]}
    /\ Forward(r, "page", PageCount, "author")
    /\ UNCHANGED <<export, user, tree, asked, locals>>

AuthorSelect(r) ==
    /\ pc[r] = "author"
    /\ LET u == next[r]
       IN fresh' = [fresh EXCEPT ![r] =
              IF /\ user[u] = "absent"
                 /\ \E i \in Item : export.author[i] = u /\ ~Skipped(r, i)
              THEN @ \union {u} ELSE @]
    /\ Forward(r, "author", UserCount, "ghost")
    /\ UNCHANGED <<export, site, tree, asked, all, known, mine, memo>>

\* One comment with the mark is enough; an existing user's ban is left alone.
GhostInsert(r, u) ==
    /\ pc[r] = "ghost" /\ u \in fresh[r] /\ user[u] = "absent"
    /\ user' = [user EXCEPT ![u] =
          IF \E i \in Blocked : export.author[i] = u /\ ~Skipped(r, i)
          THEN "banned" ELSE "clear"]
    /\ fresh' = [fresh EXCEPT ![r] = @ \ {u}]
    /\ UNCHANGED <<export, page, tree, asked, control, all, known, mine, memo>>

GhostsDone(r) ==
    /\ pc[r] = "ghost" /\ fresh[r] = {}
    /\ Goto(r, "comment")
    /\ UNCHANGED <<export, site, tree, asked, locals>>

RowSelect(r) ==
    /\ pc[r] = "comment"
    /\ LET i == next[r]
       IN \/ /\ Skipped(r, i)
             /\ Forward(r, "comment", N, "link")
             /\ UNCHANGED known
          \/ /\ ~Skipped(r, i)
             /\ known' = [known EXCEPT ![r] = @ \union {i}]
             /\ IF i \in rows THEN Forward(r, "comment", N, "link")
                              ELSE Goto(r, "newcomment")
    /\ UNCHANGED <<export, site, tree, asked, all, fresh, mine, memo>>

\* "parent_id and depth are both NULL/1 here"; UNIQUE (import_source, import_id).
RowInsert(r) ==
    /\ pc[r] = "newcomment" /\ next[r] \notin rows
    /\ rows' = rows \union {next[r]}
    /\ mine' = [mine EXCEPT ![r] = @ \union {next[r]}]
    /\ Forward(r, "comment", N, "link")
    /\ UNCHANGED <<export, site, parent, depth, asked, all, fresh, known, memo>>

-----------------------------------------------------------------------------
(* Linking *)

\* Mutant: a parent on another page is taken as well.
EffectiveAnywhere(r) == [i \in Item |->
    IF i \in known[r] /\ export.parent[i] \in known[r] \ {i} THEN export.parent[i] ELSE 0]

\* effectiveParent, 0 where it has no entry.
Effective(r) == [i \in Item |->
    IF /\ i \in known[r] /\ export.parent[i] \in known[r] \ {i}
       /\ export.thread[export.parent[i]] = export.thread[i]
    THEN export.parent[i] ELSE 0]

\* The k-th ancestor of x under the parent function f, 0 beyond the root.
Ancestor(f, x, n) ==
    LET up[k \in 0..n] == IF k = 0 THEN x
                          ELSE IF up[k - 1] = 0 THEN 0 ELSE f[up[k - 1]]
    IN up

\* depthOf: climb to a root, to an entry of the memo, or round a cycle, and
\* give every comment on the way its depth.
MemoAfter(r, i) ==
    LET chain == Ancestor(Effective(r), i, N)
        Ends(k) == \/ chain[k] = 0
                   \/ memo[r][chain[k]] # 0
                   \/ \E j \in 0..k-1 : chain[j] = chain[k]
        len  == CHOOSE k \in 0..N : Ends(k) /\ \A j \in 0..k-1 : ~Ends(j)
        base == IF chain[len] # 0 /\ memo[r][chain[len]] # 0
                THEN memo[r][chain[len]] + 1 ELSE 1
    IN [x \in Item |->
          IF \E j \in 0..len-1 : chain[j] = x
          THEN base + len - 1 - (CHOOSE j \in 0..len-1 : chain[j] = x)
          ELSE memo[r][x]]

Least(a, b) == IF a <= b THEN a ELSE b

\* Past the cap, the deepest ancestor that leaves room.
LinkParent(r, i, d) ==
    Ancestor(Effective(r), i, N + 1)[IF d > MaxDepth THEN 1 + (d - MaxDepth) ELSE 1]

LinkDepth(d) == Least(d, MaxDepth)

\* Mutant: every comment of the export is linked anew.
LinksAll(r, i) == Effective(r)[i] # 0

\* "only rows minted here may be re-parented"
Links(r, i) == i \in mine[r] /\ Effective(r)[i] # 0

Link(r) ==
    /\ pc[r] = "link"
    /\ LET i == next[r]
           d == MemoAfter(r, i)[i]
       IN \/ /\ ~Links(r, i)
             /\ UNCHANGED <<tree, memo>>
          \/ /\ Links(r, i)
             /\ memo' = [memo EXCEPT ![r] = MemoAfter(r, i)]
             /\ IF parent[i] = 0
                THEN /\ parent' = [parent EXCEPT ![i] = LinkParent(r, i, d)]
                     /\ depth' = [depth EXCEPT ![i] = LinkDepth(d)]
                ELSE UNCHANGED <<parent, depth>>
             /\ UNCHANGED rows
    /\ Forward(r, "link", N, "done")
    /\ UNCHANGED <<export, site, asked, all, fresh, known, mine>>

\* The plan is returned.
Finish(r) ==
    /\ pc[r] = "done"
    /\ Forget(r)
    /\ UNCHANGED <<export, site, tree, asked>>

\* The isolate or the command line dies, or a statement fails.
Cut(r) ==
    /\ pc[r] # "idle"
    /\ Forget(r)
    /\ UNCHANGED <<export, site, tree, asked>>

-----------------------------------------------------------------------------
(* Everybody else *)

\* POST /comments reads the parent, which it refuses at the cap, and inserts
\* some awaits later with the depth it read.
ReplyRead(x, c) ==
    /\ x \notin rows /\ asked[x].to = 0
    /\ c \in rows /\ depth[c] < MaxDepth
    /\ asked' = [asked EXCEPT ![x] = [to |-> c, depth |-> depth[c]]]
    /\ UNCHANGED <<export, site, tree, control, locals>>

ReplyInsert(x) ==
    /\ x \notin rows /\ asked[x].to # 0
    /\ rows' = rows \union {x}
    /\ parent' = [parent EXCEPT ![x] = asked[x].to]
    /\ depth' = [depth EXCEPT ![x] = asked[x].depth + 1]
    /\ UNCHANGED <<export, site, asked, control, locals>>

\* The operator bans or unbans a ghost.
SetBanned(u, s) ==
    /\ user[u] # "absent"
    /\ user' = [user EXCEPT ![u] = s]
    /\ UNCHANGED <<export, page, tree, asked, control, locals>>

-----------------------------------------------------------------------------
RunStep(r) ==
    \/ Begin(r, TRUE) \/ Begin(r, FALSE)
    \/ PageSelect(r) \/ PageInsert(r) \/ AuthorSelect(r) \/ GhostsDone(r)
    \/ RowSelect(r) \/ RowInsert(r) \/ Link(r) \/ Finish(r) \/ Cut(r)
    \/ \E u \in User : GhostInsert(r, u)

Next ==
    \/ \E r \in Run : RunStep(r)
    \/ \E x \in Reply : ReplyInsert(x) \/ \E c \in Id : ReplyRead(x, c)
    \/ \E u \in User, s \in {"clear", "banned"} : SetBanned(u, s)

Spec == Init /\ [][Next]_vars

-----------------------------------------------------------------------------
(* Properties *)

\* "An import is not an operator": no step of a run changes a comment that
\* another run or a reader wrote, nor a user the operator may have judged,
\* however the runs overlap and whatever they read before.
OthersLeftAlone ==
    [][\A r \in Run : RunStep(r) =>
          /\ \A x \in rows \ mine[r] : parent'[x] = parent[x] /\ depth'[x] = depth[x]
          /\ \A u \in User : user[u] # "absent" => user'[u] = user[u]]_vars

\* A run that comes to its end has restored the threads of what it inserted:
\* each comment under its parent on the same page, or, where that is too deep,
\* under the ancestor one above the cap.  (A chain that runs into a cycle has
\* no root to be restored to.)
Above(r, i) == {Ancestor(Effective(r), i, N)[k] : k \in 1..N} \ {0}
Rooted(r, i) == Ancestor(Effective(r), i, N)[N] = 0
Restored(r, i) ==
    LET height == Cardinality(Above(r, i))
    IN IF height = 0
       THEN parent[i] = 0
       ELSE /\ depth[i] = Least(height + 1, MaxDepth)
            /\ parent[i] \in Above(r, i)
            /\ Cardinality(Above(r, parent[i])) = depth[i] - 2
            /\ export.thread[parent[i]] = export.thread[i]

ThreadsRestored ==
    [][\A r \in Run : Finish(r) => \A i \in mine[r] : Rooted(r, i) => Restored(r, i)]_vars
=============================================================================
