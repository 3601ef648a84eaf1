-------------------------- MODULE SubscriptionRow --------------------------
(***************************************************************************)
(* One row of `subscriptions` and the statements that write it             *)
(* (src/db/queries.ts).  A row belongs to one address and one post.  The   *)
(* timestamps confirmed_at and unsubscribed_at count only as set or NULL.  *)
(* The two secrets of a signup, the unsubscribe token and the confirm      *)
(* token, are minted together and stand for one number; 0 is NULL.         *)
(***************************************************************************)
EXTENDS Naturals

Row == [exists : BOOLEAN, token : Nat, confirmToken : Nat,
        confirmed : BOOLEAN, cancelled : BOOLEAN]

NoRow == [exists |-> FALSE, token |-> 0, confirmToken |-> 0,
          confirmed |-> FALSE, cancelled |-> FALSE]

\* Digests are addressed to these rows only.
Active(row)  == row.exists /\ row.confirmed /\ ~row.cancelled

\* What the per-address cap counts, before the seven-day window.
Pending(row) == row.exists /\ ~row.confirmed /\ ~row.cancelled

\* Mutant: a plain request clears unsubscribed_at and keeps confirmed_at.
UpsertRevives(row, t, auto) ==
    IF auto \/ ~row.exists
    THEN [exists |-> TRUE, token |-> t, confirmToken |-> IF auto THEN 0 ELSE t,
          confirmed |-> auto, cancelled |-> FALSE]
    ELSE [row EXCEPT !.confirmToken = IF Active(row) THEN @ ELSE t,
                     !.cancelled = FALSE]

\* Mutant: a cancelled row keeps the confirm token it has.
UpsertKeepsLink(row, t, auto) ==
    IF auto \/ ~row.exists
    THEN [exists |-> TRUE, token |-> t, confirmToken |-> IF auto THEN 0 ELSE t,
          confirmed |-> auto, cancelled |-> FALSE]
    ELSE [row EXCEPT !.confirmToken = IF row.confirmed THEN @ ELSE t,
                     !.confirmed = @ /\ ~row.cancelled]

\* INSERT ... ON CONFLICT(post_slug, email) DO UPDATE.  Only auto_confirm, the
\* proof that the caller owns the inbox, rotates the unsubscribe token or
\* revives a cancelled row; a plain request refreshes the confirm token of a
\* row that receives nothing, and makes a cancelled one confirm again.
Upsert(row, t, auto) ==
    IF auto \/ ~row.exists
    THEN [exists |-> TRUE, token |-> t, confirmToken |-> IF auto THEN 0 ELSE t,
          confirmed |-> auto, cancelled |-> FALSE]
    ELSE [row EXCEPT !.confirmToken = IF Active(row) THEN @ ELSE t,
                     !.confirmed = @ /\ ~row.cancelled]

\* getSubscriptionByConfirmToken: the row a confirm link still opens.
Confirmable(row, t) ==
    /\ row.exists /\ row.confirmToken = t
    /\ ~row.confirmed \/ ~row.cancelled

\* confirmSubscription: by id, WHERE confirmed_at IS NULL.
Confirm(row) ==
    IF row.exists /\ ~row.confirmed
    THEN [row EXCEPT !.confirmed = TRUE, !.cancelled = FALSE]
    ELSE row

\* markSubscriptionUnsubscribed, first statement: by id, unconditional.
Cancel(row) == [row EXCEPT !.cancelled = row.exists]

\* adminRotateSubscriptionConfirmToken: by id, unconditional.
Rotate(row, t) == [row EXCEPT !.confirmToken = t, !.confirmed = FALSE]
=============================================================================
