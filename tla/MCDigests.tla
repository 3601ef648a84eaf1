------------------------------ MODULE MCDigests ------------------------------
(***************************************************************************)
(* The two digests of the cron for TLC's liveness check.  Each has a queue *)
(* and a mail of its own, so a behaviour runs one of them: `part` says     *)
(* which.  The other stays as it begins, with nothing queued, and no       *)
(* action that is promised to happen is one that could.                    *)
(*                                                                         *)
(* The moderators': a comment, two reporters, two recipients and a pass of *)
(* one row.  The subscribers': a comment for two of them, who may cancel.  *)
(* In each an address is dead.                                             *)
(***************************************************************************)
EXTENDS ModeratorDigest, TLC

VARIABLES part,
          row, minted, stamping, shown, fanout, order, young, queued, done,
          cron, digests, digest, listed, deaths, delivered, orphaned, owed, lapsed, hidden

replies == <<row, minted, stamping, shown, fanout, order, young, queued, done,
             cron, digests, digest, listed, deaths, delivered, orphaned, owed, lapsed,
             hidden>>

R == INSTANCE ReplyDigest WITH
        status <- shown, pc <- cron, batch <- digests, items <- listed,
        crashes <- deaths, void <- owed,
        Sub <- {1, 2}, Author <- [c \in Comment |-> 0], Dead <- {1},
        MaxDigests <- 2, MaxPerDigest <- 1, MaxToken <- 1, MaxCrash <- 1

MCInit == part \in {"moderators", "subscribers"} /\ Init /\ R!Init

MCNext ==
    \/ part = "moderators" /\ Next /\ UNCHANGED <<part, replies>>
    \/ part = "subscribers" /\ R!Next /\ UNCHANGED <<part, vars>>

MCSpec == MCInit /\ [][MCNext]_<<part, vars, replies>> /\ Fairness /\ R!Fairness

\* What waits for a living address is settled at last: QueueDrains of
\* ReplyDigest.
RepliesDrain == R!QueueDrains
=============================================================================
