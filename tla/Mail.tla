-------------------------------- MODULE Mail --------------------------------
(***************************************************************************)
(* Subscriptions and the mail they are for.  The double opt-in is about    *)
(* one address and its posts, the reply digest about one post and its      *)
(* subscribers; a row is the same to both, and neither reads what the      *)
(* other keeps beside it.  This module brings their promises together.     *)
(***************************************************************************)
EXTENDS Subscriptions

CONSTANTS Sub, Comment, Author, Refused, MaxDigests, MaxPerDigest, MaxRenewal,
          MaxCrash

VARIABLES subs, tokens, stamping, status, fanout, order, young, queued, done,
          cron, batch, digest, items, crashes, delivered, orphaned, void, lapsed,
          hidden

digests == <<subs, tokens, stamping, status, fanout, order, young, queued, done,
             cron, batch, digest, items, crashes, delivered, orphaned, void,
             lapsed, hidden>>

R == INSTANCE ReplyDigest WITH
        row <- subs, minted <- tokens, pc <- cron, Dead <- Refused,
        MaxToken <- MaxRenewal

\* A mail contradicts nothing its own pass read: see ReplyDigest.
FreshWithinPass == R!FreshWithinPass

\* Nobody is mailed a reply again unless the first mail was lost track of: see
\* ReplyDigest.
TwiceOnlyIfLost == R!TwiceOnlyIfLost

\* The queue of notifications is an at-least-once outbox: see ReplyDigest.
ImplementsOutbox == R!ImplementsOutbox
=============================================================================
