----------------------------- MODULE Discussion -----------------------------
(***************************************************************************)
(* The comments of a post as a whole: on the server, and in the browser    *)
(* the thread that shows them and the boxes they are written in.  The page *)
(* knows of the server what it last answered, and a box knows nothing of   *)
(* the thread but that it is drawn anew, so the three are models of their  *)
(* own, and this module brings their promises together.                    *)
(***************************************************************************)
EXTENDS Comments

CONSTANTS Submit, MaxForm, MaxToken,                    \* of Composer
          AtOpen, MaxComment, PageSize, ReplyCap        \* of Widget

ASSUME BoxAssumption == MaxForm \in Nat \ {0} /\ MaxToken \in Nat
ASSUME ThreadAssumption ==
    /\ MaxComment \in Nat /\ AtOpen \in 0..MaxComment
    /\ PageSize \in Nat \ {0} /\ ReplyCap \in Nat \ {0}

VARIABLES
    form, made, sub, issued, spent, answered,           \* of Composer
    top, replies, st, ask, tree, order, list, tier,     \* of Widget
    hidden, more, page, post, pending, picked, raced, overtook, stale

boxes  == <<form, made, sub, issued, spent, answered>>
thread == <<top, replies, st, ask, tree, order, list, tier, hidden, more, page,
            post, pending, picked, raced, overtook, stale>>

Box    == INSTANCE Composer
Drawn  == INSTANCE Widget

\* Whoever waits for a challenge token is waited out: see Composer.
WaitersAreTimed == Box!WaitersAreTimed

\* A comment is on the page at most once: see Widget.
NeverTwice == Drawn!NeverTwice

\* A reload that was asked for is drawn or under way: see Widget.
NoReloadLost == Drawn!NoReloadLost
=============================================================================
