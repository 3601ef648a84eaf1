------------------------------ MODULE Adapters ------------------------------
(***************************************************************************)
(* Reading another system's export: the six formats of src/lib/import, and *)
(* what the core plans from what their adapters hand it.                   *)
(*                                                                         *)
(* A file is a list of pages, in the formats that have one, and a sequence *)
(* of comments, each with the page it is on, the site of that page, its    *)
(* author and its state, all in the words of its format.  An adapter       *)
(* refuses the file or turns it into pages and comments in Garrul's words. *)
(* The core gives each page a slug and each author a ghost.  How comments  *)
(* find their parents and rows their place in the database is module       *)
(* Imports.                                                                *)
(***************************************************************************)
EXTENDS Naturals, Sequences, FiniteSets

CONSTANTS
    Format,  \* formats considered
    Site,    \* hosts, domains, projects or site ids that a file may mix
    Account, \* authors that a source has ids for
    Page,    \* pages of a source, of those below
    Listing, \* what the list of pages of one site may be
    MaxLen   \* comments in a file

VARIABLES format, listing, file, options, result

vars == <<format, listing, file, options, result>>

\* A page as its source names it: the host of its link, or that it has none that
\* parses; its path without the slashes around it and in a row, of which "" is
\* nothing and "odd" is no slug; the query that follows, if any; and whether there
\* are other slashes than one before the path.  A guest has a name, "ann", or none.
Pages(f) ==
    {p \in Page : f \in {"commento", "isso", "cusdis"} => p.host = "here"}
None == "none"

\* What the state of a comment is called here.
DisqusStatus == [shown |-> "approved", deleted |-> "deleted", spam |-> "spam",
                 both |-> "deleted"]
RemarkStatus == [shown |-> "approved", deleted |-> "deleted"]
V1Status     == [approved |-> "approved", unapproved |-> "pending",
                 flagged |-> "spam", deleted |-> "deleted", blank |-> "deleted"]
V3Status     == [approved |-> "approved", pending |-> "pending",
                 rejected |-> "spam", deleted |-> "deleted"]
IssoStatus   == [mode1 |-> "approved", mode2 |-> "pending", mode4 |-> "deleted",
                 other |-> "refused"]
CusdisStatus == [approved |-> "approved", waiting |-> "pending", deleted |-> "deleted"]

Status == [disqus   |-> DisqusStatus, remark42   |-> RemarkStatus,
           commento |-> V1Status,     comentario |-> V3Status,
           isso     |-> IssoStatus,   cusdis     |-> CusdisStatus]

\* Commento and Remark42 keep no name for a guest; these have ids for members.
Author(f) == (IF f \in {"commento", "remark42"} THEN {""} ELSE {"", "ann"}) \cup
             (IF f \in {"remark42", "commento", "comentario"} THEN Account ELSE {})
Sites(f)  == IF f \in {"disqus", "isso"} THEN {None} ELSE Site
ByPath(f) == f \in {"isso", "cusdis"}

\* A file that lists pages has a list for each of its sites; in those of isso
\* and cusdis the comments are inside it, and comentario knows the site of a
\* comment only by its page.
Lists(f)    == f \in {"disqus", "comentario", "isso", "cusdis"}
Listings(f) ==
    IF Lists(f) THEN UNION {[S -> {L \cap Pages(f) : L \in Listing}] : S \in SUBSET Sites(f)}
    ELSE {<<>>}

Raw(f) == [page  : Pages(f),
           site  : Sites(f) \cup (IF f = "comentario" THEN {None} ELSE {}),
           who   : Author(f), state : DOMAIN Status[f]]

\* The domain or the project to take, the projects deleted at the source,
\* include_deleted with include_spam, and slug_override.
Options(f) ==
    [only : IF f \in {"commento", "comentario", "cusdis"}
            THEN Site \cup {None, "unknown"} ELSE {None},
     dead : IF f = "cusdis" THEN SUBSET Site ELSE {{}},
     all : BOOLEAN, override : BOOLEAN]

Init == /\ format \in Format
        /\ listing \in Listings(format)
        /\ file = <<>>
        /\ options \in Options(format)
        /\ result = [at |-> "writing"]

TypeOK == /\ format \in Format /\ listing \in Listings(format)
          /\ file \in Seq(Raw(format)) /\ Len(file) <= MaxLen
          /\ options \in Options(format)
          /\ result.at \in {"writing", "refused", "planned"}

-----------------------------------------------------------------------------
(* The adapters *)

Listed(c) == c.site \in DOMAIN listing /\ c.page \in listing[c.site]
InFile(c) == Lists(format) => Listed(c)

\* A comment on a page that is not listed: disqus and comentario.
Astray(c) == c.site = None /\ ~ByPath(format) /\ \A s \in DOMAIN listing : c.page \notin listing[s]

\* The sites that the file names: domains have pages, projects need none.
Named ==
    IF Lists(format) THEN {s \in DOMAIN listing : format = "cusdis" \/ listing[s] # {}}
    ELSE {file[i].site : i \in DOMAIN file}

\* requireKnownIdentifier and the refusal of several sites; selectProject takes
\* the one live project, and a deleted one only by its id.
Unselected == Named \ options.dead
Selected   == IF options.only \in Site THEN {options.only} ELSE Unselected

\* remark42 refuses a comment without an author, isso one in no known mode.
Malformed(c) == \/ format = "remark42" /\ c.who = ""
                \/ Status[format][c.state] = "refused"

\* Mutant: several sites in one file are read as one.
MixingNone ==
    \/ options.only # None /\ options.only \notin Named
    \/ \E i \in DOMAIN file : Malformed(file[i])

Refuse ==
    \/ options.only # None /\ options.only \notin Named
    \/ options.only = None /\ Cardinality(Unselected) > 1
    \/ options.only = None /\ Unselected = {} /\ Named # {}
    \/ \E i \in DOMAIN file : Malformed(file[i])

\* The comments handed on, by their place in the file.  Comentario drops those
\* of a page it does not list; disqus leaves them to the core.
Handed == {i \in DOMAIN file : file[i].site \in Selected \/ format = "disqus"}

\* The pages handed on: those with a comment, or for disqus those it lists.
Threads == IF format = "disqus" THEN UNION {listing[s] : s \in DOMAIN listing}
           ELSE {file[i].page : i \in Handed}

\* authorSeed over what the adapter takes for the author: its id where there
\* is one, a ghost of their own for the tombstones of isso, else the name.
Seed(c) ==
    IF c.who \in Account THEN <<"id", format, c.who>>
    ELSE IF format = "isso" /\ c.state = "mode4" THEN <<"id", "isso", "tombstone">>
    ELSE <<"name", IF c.who = "" THEN "anonymous" ELSE c.who>>

-----------------------------------------------------------------------------
(* The core *)

Skipped(c) == Status[format][c.state] \in {"deleted", "spam"} /\ ~options.all

\* linkPath: the path of a link, whatever its host, its query and its slashes.
LinkPath(p) == IF p.host = "none" THEN "" ELSE p.path

\* slugFromLink and slugFromPath up to the check: a path, with its query where it
\* is no link's, or what stands for none.
Candidate(p) ==
    IF ByPath(format) THEN (IF p.path = "" /\ p.query = "" THEN <<"root">>
                            ELSE <<"path", p.path, p.query>>)
    ELSE IF LinkPath(p) = "" THEN <<"id", p>> ELSE <<"path", LinkPath(p), "">>

\* No slug has a query.  A digest is taken to be of one candidate, and an id
\* with its prefix to be no page's path.
Addressable(slug) == slug[1] = "path" => slug[2] # "odd" /\ slug[3] = ""

Slug(p) == IF options.override THEN <<"override">>
           ELSE IF Addressable(Candidate(p)) THEN Candidate(p)
           ELSE <<"digest", Candidate(p)>>

\* Threads that fall on the slug of an earlier one.
Winner(slug) == CHOOSE p \in Threads : Slug(p) = slug
Merged == {p \in Threads : ~options.override /\ p # Winner(Slug(p))}

\* The plan: both passes over the comments, and the counters.
Row(c) == [of |-> c, page |-> Slug(c.page), ghost |-> Seed(c),
           status |-> Status[format][c.state]]
Kept == {i \in Handed : ~Skipped(file[i])}
Plan == [at      |-> "planned",
         pages   |-> {Slug(p) : p \in Threads},
         rows    |-> [i \in {j \in Kept : file[j].page \in Threads} |-> Row(file[i])],
         skipped |-> Cardinality(Handed \ Kept),
         merged  |-> Cardinality(Merged)]

Write == /\ result.at = "writing" /\ Len(file) < MaxLen
         /\ \E c \in {d \in Raw(format) : InFile(d) \/ Astray(d)} :
               file' = Append(file, c)
         /\ UNCHANGED <<format, listing, options, result>>

Parse == /\ result.at = "writing"
         /\ result' = IF Refuse THEN [at |-> "refused"] ELSE Plan
         /\ UNCHANGED <<format, listing, file, options>>

Next == Write \/ Parse
Spec == Init /\ [][Next]_vars

-----------------------------------------------------------------------------
(* Properties *)

Planned == result.at = "planned"
RowSet  == {result.rows[i] : i \in DOMAIN result.rows}

\* Two people stay two: an id names a ghost of its own, nobody without an id
\* gets the ghost of one who has, different names are different ghosts, and
\* what isso left of a deleted comment is nobody's.
Person(c) == IF format = "isso" /\ c.state = "mode4" THEN <<"tombstone">>
             ELSE <<c.who \in Account, c.who>>
PeopleKeptApart ==
    \A r, s \in RowSet : (r.ghost = s.ghost) = (Person(r.of) = Person(s.of))

\* A file that is taken is taken whole and from one site: each comment of that
\* site is a row or counted as skipped, unless its page is not in the file.
TakenWhole ==
    /\ Cardinality({r.of.site : r \in RowSet}) <= 1
    /\ Cardinality(DOMAIN result.rows) + result.skipped >=
          Cardinality({i \in DOMAIN file :
              /\ InFile(file[i])
              /\ \/ options.only = file[i].site
                 \/ options.only = None /\ file[i].site \notin options.dead})

\* Pages meet under one slug when they are one page to Garrul, and only then or
\* when the operator asked for it: the same path but for slashes, and in a link
\* but for its host and query too.  The plan tells when threads have met, and
\* how many followed another's slug.
SamePage(p, q) ==
    \/ p = q
    \/ /\ p.path = q.path
       /\ IF ByPath(format) THEN p.query = q.query
          ELSE p.path # "" /\ "none" \notin {p.host, q.host}

PagesKeptApart ==
    /\ \A r, s \in RowSet :
          r.page = s.page <=> options.override \/ SamePage(r.of.page, s.of.page)
    /\ ~options.override =>
          /\ Cardinality(result.pages) + result.merged = Cardinality(Threads)
          /\ result.merged = 0 <=> \A p, q \in Threads : SamePage(p, q) => p = q

\* What the import plans says of a file what the file says: authorSeed's and
\* TOMBSTONE_AUTHOR_ID's comments, the refusals of several sites in one file,
\* and merged_pages.
ImportsFaithful == Planned => PeopleKeptApart /\ TakenWhole /\ PagesKeptApart
=============================================================================
