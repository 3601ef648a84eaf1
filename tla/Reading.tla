------------------------------ MODULE Reading ------------------------------
(***************************************************************************)
(* A post as its readers get it: module Tree, under names that stand       *)
(* beside those of the discussion it is a view of.  The views of a comment *)
(* are computed from its row and kept nowhere, so nothing the discussion   *)
(* does depends on them.                                                   *)
(***************************************************************************)
EXTENDS Naturals

CONSTANTS CommentCount, Reader, Visitor, PerPage, Levels, MaxWrite  \* of Tree

\* "[deleted]" is nobody's name.
ASSUME ReadingAssumption ==
    /\ CommentCount \in Nat /\ MaxWrite \in Nat
    /\ PerPage \in Nat \ {0} /\ Levels \in Nat \ {0}
    /\ "[deleted]" \notin Reader

VARIABLES above, writer, at, state, votes, pins, pager, steady, writes

trees == <<above, writer, at, state, votes, pins, pager, steady, writes>>

T == INSTANCE Tree WITH
        N <- CommentCount, Viewer <- Reader, Anonymous <- Visitor,
        PageSize <- PerPage, MaxDepth <- Levels,
        parent <- above, author <- writer, status <- state, score <- votes,
        pinned <- pins

\* A post is drawn exactly, for whoever reads it: see Tree.
TreeExact == T!TreeExact

\* No thread that stays is lost or shown twice between pages: see Tree.
ThreadsPagedOnce == T!ThreadsPagedOnce
=============================================================================
