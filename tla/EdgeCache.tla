------------------------------ MODULE EdgeCache ------------------------------
(* The edge cache in front of one post: the first page of its comment tree   *)
(* per sort and page size, the deeper pages, its feed, the counts roll-up    *)
(* and the permalinks of its comments.  The Cache API keeps one cache per    *)
(* colo and promises nothing: a put or a delete may be lost, a match may     *)
(* miss.  A reader fills the cache, perhaps after its answer was sent; a     *)
(* mutation writes the database and then drops keys in its own colo only.    *)
(*                                                                           *)
(* A page is abstracted to the number of mutations its first statement saw.  *)
(* Left out: the tree itself, and how a cursor is spelled.                   *)
EXTENDS Integers

CONSTANTS Colo, Reader, Writer,
          Sort,         \* the sorts of a page
          Size,         \* page sizes the operator configures
          Kind,         \* kinds of entry, of the five below
          FastTTL,      \* ticks an entry of the tree or the counts is kept
          SlowTTL,      \* ticks a feed or a permalink is kept
          MaxFill,      \* ticks from a fill's first statement to its put
          MaxNow        \* the last tick

ASSUME KindAssumption ==
    Kind \subseteq {"first", "deep", "feed", "counts", "permalink"}
ASSUME TTLAssumption == FastTTL \in Nat \ {0} /\ SlowTTL \in Nat \ {0}
ASSUME FillAssumption == MaxFill \in Nat
ASSUME NowAssumption == MaxNow \in Nat
ASSUME SizeAssumption == Size \subseteq Nat \ {0}

VARIABLES
    now,
    version,    \* mutations of this post's comments committed so far
    when,       \* when each was committed
    size,       \* comments_per_page as configured
    memo,       \* the size an isolate may still remember
    entry,      \* per colo and key: what the cache holds
    reader,     \* per read request: where it is and what it saw
    writer,     \* per mutation request: where it is, what it failed to drop
    over        \* per mutation: fills under way in its colo as it dropped its keys

vars == <<now, version, when, size, memo, entry, reader, writer, over>>

None == 0               \* no page size

\* A page of the tree is keyed by sort and size, the other kinds are not.  One
\* deep page stands for all: nothing drops one, so nothing tells them apart.
FirstKey == [kind : Kind \cap {"first"}, sort : Sort, size : Size]
PlainKey == [kind : Kind \ {"first"}]
FeedKey == [kind : Kind \cap {"feed"}]
Key == FirstKey \cup PlainKey

Ttl(k) == IF k.kind \in {"feed", "permalink"} THEN SlowTTL ELSE FastTTL

\* The page size a request resolves: the configured one, or a memo of it.
Resolved == {size, memo}

Unasked == [st |-> "idle"]
Answered == [st |-> "done"]
Unwritten == [st |-> "idle", number |-> 0, size |-> None, lost |-> {}]

\* What a fill stored, and when; `by` is empty while there is no entry.
Entries == [seen : Nat, at : Nat, by : SUBSET Reader]
NoEntry == [seen |-> 0, at |-> 0, by |-> {}]

\* A read that has an answer to store, one that is over, a mutation under way.
Fill   == [st : {"putting"}, colo : Colo, key : Key, seen : Nat, begun : Nat]
AtWork == [st : {"written", "busted", "dead"}, colo : Colo, number : Nat,
           size : Size \cup {None}, lost : SUBSET Key]

TypeOK ==
    /\ now \in Nat /\ version \in Nat
    /\ when \in [1..version -> Nat]
    /\ size \in Size /\ memo \in Size
    /\ entry \in [Colo -> [Key -> Entries]]
    /\ reader \in [Reader -> {Unasked, Answered} \cup Fill]
    /\ writer \in [Writer -> {Unwritten} \cup AtWork]
    /\ over \in [Writer -> SUBSET Reader]

Init ==
    /\ now = 0 /\ version = 0 /\ when = << >>
    /\ size \in Size /\ memo = size
    /\ entry = [c \in Colo |-> [k \in Key |-> NoEntry]]
    /\ reader = [r \in Reader |-> Unasked]
    /\ writer = [w \in Writer |-> Unwritten]
    /\ over = [w \in Writer |-> {}]

-----------------------------------------------------------------------------
(* Readers.  A signed-in reader never meets the cached tree; the feed, the    *)
(* counts and the permalinks are the same for everyone.                       *)

\* Mutant: an entry never gets too old.
KeptForever(e, k, t) == e.by # {}

\* The Cache API keeps an entry until its max-age.
Kept(e, k, t) == e.by # {} /\ t - e.at < Ttl(k)

Shared(k, signed) == k.kind \in {"first", "deep"} => ~signed

Asking(r, k) ==
    /\ reader[r] = Unasked
    /\ k.kind = "first" => k.size \in Resolved

\* The cache is tried, and a hit is the answer.
Hit(r, c, k, signed) ==
    /\ Asking(r, k) /\ Shared(k, signed) /\ entry[c][k].by # {}
    /\ reader' = [reader EXCEPT ![r] = Answered]
    /\ UNCHANGED <<now, version, when, size, memo, entry, writer, over>>

(* There is nothing, or the match fails, or bootstrap cannot parse the page:  *)
(* the answer is built from the database and is to be stored.  (A request     *)
(* that waits between the match and the first statement is one that asks      *)
(* later.)                                                                    *)
Build(r, c, k, signed) ==
    /\ Asking(r, k) /\ Shared(k, signed)
    /\ reader' = [reader EXCEPT ![r] =
            [st |-> "putting", colo |-> c, key |-> k, seen |-> version, begun |-> now]]
    /\ UNCHANGED <<now, version, when, size, memo, entry, writer, over>>

\* Built for one reader, or a deep page that turns out empty: it is not stored.
BuildUnstored(r, k, signed) ==
    /\ Asking(r, k)
    /\ Shared(k, signed) => k.kind = "deep"
    /\ reader' = [reader EXCEPT ![r] = Answered]
    /\ UNCHANGED <<now, version, when, size, memo, entry, writer, over>>

\* The put lands, often behind the answer, or it is lost.
Put(r) ==
    /\ reader[r].st = "putting"
    /\ reader' = [reader EXCEPT ![r] = Answered]
    /\ \/ entry' = [entry EXCEPT ![reader[r].colo][reader[r].key] =
                        [seen |-> reader[r].seen, at |-> now, by |-> {r}]]
       \/ UNCHANGED entry
    /\ UNCHANGED <<now, version, when, size, memo, writer, over>>

-----------------------------------------------------------------------------
(* Mutations: a comment posted, edited, deleted, moderated, reacted to.       *)

\* The row is committed.
Write(w, c) ==
    /\ writer[w] = Unwritten
    /\ version' = version + 1
    /\ when' = [n \in 1..version' |-> IF n = version' THEN now ELSE when[n]]
    /\ writer' = [writer EXCEPT ![w] = 
            [st |-> "written", colo |-> c, number |-> version', size |-> None,
             lost |-> {}]]
    /\ UNCHANGED <<now, size, memo, entry, reader, over>>

\* Mutant: the page in one sort is forgotten.
DroppedSome(n) ==
    FeedKey \cup
        {k \in FirstKey : k.size = n /\ k.sort = CHOOSE s \in Sort : TRUE}

(* The keys a mutation drops, given the page size it resolved: the feed, and  *)
(* unless the settings could not be read the first page in every sort.        *)
Dropped(n) ==
    FeedKey \cup {k \in FirstKey : k.size = n}

Filling(c) == {r \in Reader : reader[r].st = "putting" /\ reader[r].colo = c}

(* bustTreeCache: the deletes go out together, each may fail and nobody is    *)
(* told.  A fill is of one key, so one step for the batch loses no order.     *)
Bust(w, n, lost) ==
    /\ writer[w].st = "written"
    /\ n \in Resolved \cup {None}
    /\ writer' = [writer EXCEPT ![w].st = "busted", ![w].size = n, ![w].lost = lost]
    /\ entry' = [entry EXCEPT ![writer[w].colo] =
                    [k \in Key |-> IF k \in Dropped(n) \ lost THEN NoEntry ELSE @[k]]]
    /\ over' = [over EXCEPT ![w] = Filling(writer[w].colo)]
    /\ UNCHANGED <<now, version, when, size, memo, reader>>

\* The isolate dies with the row written and the keys still to drop.
Die(w) ==
    /\ writer[w].st = "written"
    /\ writer' = [writer EXCEPT ![w].st = "dead"]
    /\ UNCHANGED <<now, version, when, size, memo, entry, reader, over>>

-----------------------------------------------------------------------------
(* The operator raises the page size; isolates remember the old one a while.  *)
(* (Sizes only grow, which bounds the changes.)                               *)
Resize(n) ==
    /\ n > size
    /\ size' = n /\ memo' = size
    /\ UNCHANGED <<now, version, when, entry, reader, writer, over>>

MemoLapses ==
    /\ memo # size /\ memo' = size
    /\ UNCHANGED <<now, version, when, size, entry, reader, writer, over>>

\* A fill takes at most MaxFill ticks from its first statement to its put.  What
\* has reached its max-age is gone.
Tick ==
    /\ now < MaxNow
    /\ \A r \in Reader : reader[r].st = "putting" => now - reader[r].begun < MaxFill
    /\ now' = now + 1
    /\ entry' = [c \in Colo |-> [k \in Key |->
                    IF Kept(entry[c][k], k, now') THEN entry[c][k] ELSE NoEntry]]
    /\ UNCHANGED <<version, when, size, memo, reader, writer, over>>

Next ==
    \/ \E r \in Reader :
          \/ \E k \in Key, signed \in BOOLEAN :
                \/ \E c \in Colo : Hit(r, c, k, signed) \/ Build(r, c, k, signed)
                \/ BuildUnstored(r, k, signed)
          \/ Put(r)
    \/ \E w \in Writer :
          \/ \E c \in Colo : Write(w, c)
          \/ \E n \in Size \cup {None} :
                \E lost \in SUBSET Dropped(n) : Bust(w, n, lost)
          \/ Die(w)
    \/ \E n \in Size : Resize(n)
    \/ MemoLapses
    \/ Tick

Spec == Init /\ [][Next]_vars

-----------------------------------------------------------------------------
(* Whatever was lost, raced or never dropped, in any colo: an entry the cache *)
(* still serves misses no mutation older than its time to live plus the time  *)
(* a fill may take.  ("the TTL is what bounds cross-colo staleness")          *)
StaleWithinWindow ==
    \A c \in Colo, k \in Key :
        entry[c][k].by # {} /\ entry[c][k].seen < version =>
            now - when[entry[c][k].seen + 1] < Ttl(k) + MaxFill

(* In the colo that served a mutation, once it is past its drops: the feed,   *)
(* and the first page in every sort at the page size it knew, if they are     *)
(* there without the mutation, were put by a fill under way as they were      *)
(* dropped.  Only a delete that failed leaves more.                           *)
StaleOnlyByOverlap ==
    \A w \in Writer, k \in Key :
        writer[w].st = "busted" /\ k \notin writer[w].lost
          /\ (k.kind = "feed" \/ (k.kind = "first" /\ k.size = writer[w].size))
          => LET e == entry[writer[w].colo][k] IN
             e.by # {} /\ e.seen < writer[w].number => e.by \subseteq over[w]
=============================================================================
