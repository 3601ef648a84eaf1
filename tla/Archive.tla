------------------------------ MODULE Archive ------------------------------
(***************************************************************************)
(* An import as a whole: what a file of another system becomes when it is  *)
(* read (module Adapters), and how a run writes it (module Imports).  A    *)
(* run is handed what was read and never looks at the file again, so the   *)
(* two share nothing.                                                      *)
(***************************************************************************)
EXTENDS Imports

CONSTANTS Format, Site, SourceAccount, SourcePage, Listing, MaxLen  \* of Adapters

\* The formats are those that Adapters tells apart; its words for a guest, a
\* name and no site are nobody's id.
ASSUME FileAssumption ==
    /\ Format \subseteq {"disqus", "remark42", "commento", "comentario", "isso", "cusdis"}
    /\ SourcePage \subseteq [host : {"here", "there", "none"}, path : STRING,
                             query : STRING, slashed : BOOLEAN]
    /\ \A L \in Listing : L \subseteq SourcePage /\ IsFiniteSet(L)
    /\ SourceAccount \intersect {"", "ann"} = {}
    /\ Site \intersect {"none", "unknown"} = {} /\ IsFiniteSet(Site)

VARIABLES format, listing, file, options, result

files == <<format, listing, file, options, result>>

A == INSTANCE Adapters WITH Account <- SourceAccount, Page <- SourcePage

\* An import says of a file what the file says: see Adapters.
ImportsFaithful == A!ImportsFaithful
=============================================================================
