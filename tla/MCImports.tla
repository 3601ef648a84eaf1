----------------------------- MODULE MCImports -----------------------------
(***************************************************************************)
(* Comments from elsewhere and comments as they are read, for TLC.  What a *)
(* file says, what an import writes and what a page shows have no state in *)
(* common here, so a behaviour runs one of them: `part` says which.        *)
(*                                                                         *)
(* The imports: a chain of three, each listed before its parent; a chain   *)
(* listed parents first, with its end on another page; two comments that   *)
(* name each other.  The files: two comments in each of the six formats,   *)
(* over two sites and six pages, with one of the choices an operator has,  *)
(* or none.  The trees: every shape of four comments in every mix of       *)
(* states.  The pages: threads read one by one while a reply or another    *)
(* thread is to come, through two writes.                                  *)
(***************************************************************************)
EXTENDS Archive, Reading, TLC

CONSTANTS u1, u2

VARIABLE part

File(p, t, a) == [parent |-> p, thread |-> t, author |-> a]
Circle == File(<<2, 1, 1>>, <<1, 1, 1>>, <<1, 1, 1>>)
MCExport == {File(<<2, 3, 3>>, <<1, 1, 1>>, <<1, 1, 1>>),
             File(<<1, 1, 2>>, <<1, 1, 2>>, <<1, 1, 1>>), Circle}
On(host, path, query, slashed) ==
    [host |-> host, path |-> path, query |-> query, slashed |-> slashed]
Unlinked == On("none", "", "", FALSE)
MCPage == {On("here", "a", "", FALSE), On("here", "a", "", TRUE),
           On("here", "a", "?q", FALSE), On("there", "a", "", FALSE),
           On("here", "", "", FALSE), Unlinked}
MCListing == {MCPage \ {Unlinked}}
MCSymmetry == Permutations(Run) \cup Permutations(Site)

\* Four comments by two people, of the same time; the first may be newer than
\* what an import then put in.
Newest == {<<2, 1, 1, 1>>}
Flat   == <<0, 0, 0, 1>>
Start(parents, times, states) ==
    /\ above \in parents /\ \A c \in 1..4 : above[c] < c
    /\ writer = <<u1, u2, u1, u2>>
    /\ at \in times /\ state \in states /\ pins = {}
    /\ votes = [c \in 1..4 |-> 0]
    /\ pager = T!Idle /\ steady = {} /\ writes = 0

Anyhow == T!Status \ {"absent"}
Trees == Start([1..4 -> 0..3], {<<1, 1, 1, 1>>}, [1..4 -> Anyhow])
Pages == \/ Start({Flat}, Newest, {<<"approved", "approved", "approved", "absent">>})
         \/ Start({<<0, 0, 1, 0>>}, Newest, {<<"spam", "approved", "approved", "absent">>})
Still == Start({Flat}, {<<1, 1, 1, 1>>}, {<<"absent", "absent", "absent", "absent">>})

\* An operator names the site, or takes all comments, or overrides the page.
MCOptions == options.all \/ options.override =>
                 options.only = A!None /\ ~(options.all /\ options.override)

\* The reader's reply goes into one of the chains.
MCImport == Next /\ (export = Circle => asked' = asked)

\* The parts that do not run stay as they begin, and begin in one way.
MCInit ==
    /\ part \in {"imports", "files", "trees", "pages"}
    /\ IF part = "imports" THEN Init ELSE Init /\ export = CHOOSE e \in Export : TRUE
    /\ IF part = "files" THEN A!Init /\ MCOptions
       ELSE A!Init /\ format = "remark42" /\ ~options.all /\ ~options.override
    /\ CASE part = "trees" -> Trees [] part = "pages" -> Pages [] OTHER -> Still

MCNext ==
    \/ part = "imports" /\ MCImport /\ UNCHANGED <<part, files, trees>>
    \/ part = "files" /\ A!Next /\ UNCHANGED <<part, vars, trees>>
    \/ part = "pages" /\ T!Next /\ UNCHANGED <<part, vars, files>>

MCSpec == MCInit /\ [][MCNext]_<<part, vars, files, trees>>
=============================================================================
