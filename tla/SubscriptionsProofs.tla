------------------------ MODULE SubscriptionsProofs ------------------------
(***************************************************************************)
(* Subscriptions for every set of posts and handlers, every cap and every  *)
(* number of tokens.                                                       *)
(*                                                                         *)
(* The argument for the double opt-in: a row becomes active only through a *)
(* handler whose button the owner has pressed (PressedIsOptIn), and a      *)
(* cancel ends an opt-in only where no such handler is still at work.  For *)
(* the cancel of a confirmed row: what it leaves is neither pending nor    *)
(* confirmed again but by a statement that replaces the confirm token      *)
(* (BarredLinkIsDead), so no handler holds a barred link (BarredUnheld).   *)
(*                                                                         *)
(* The argument for the reply digest, in the second half: what the pass    *)
(* carries is queued or was stamped behind its back, its digests are of    *)
(* different subscribers (CarriesOwed), and what it read is true unless    *)
(* the subscriber lapsed or the comment was hidden since (ReadIsFresh).    *)
(***************************************************************************)
EXTENDS Mail, Sequences, TLAPS

\* Handlers that write to a row by its id, which is never deleted.
WritesExisting ==
    \A h \in Handler : pc[h] \in {"confirming", "cancelling", "resending", "rotating"}
                       => row[job[h].post].exists

PressedIsOptIn ==
    \A h \in Handler : pc[h] = "confirming" => job[h].post \in opted

\* The resend's link is mailed before its token is stored, and is a real one.
ResendIsMailed ==
    \A h \in Handler :
        /\ pc[h] \in {"resending", "rotating"} => job[h].token \in 1..minted
        /\ pc[h] = "rotating" => job[h] \in inbox
        /\ pc[h] \in {"upserted", "sending"} => job[h].token \in 1..minted

\* A row that awaits its owner has a link that opens it.
PendingHasToken ==
    \A p \in Post : row[p].exists /\ ~row[p].confirmed => row[p].confirmToken # 0

BarredLinkIsDead ==
    \A l \in barred :
        /\ l.token \in 1..minted
        /\ \/ row[l.post].exists /\ row[l.post].confirmed /\ row[l.post].cancelled
           \/ row[l.post].confirmToken # l.token

BarredUnheld ==
    \A h \in Handler :
        pc[h] \in {"confirming", "resending", "rotating"} => job[h] \notin barred

IInv == /\ TypeOK
        /\ WritesExisting /\ PressedIsOptIn /\ ResendIsMailed /\ PendingHasToken
        /\ BarredLinkIsDead /\ BarredUnheld
        /\ ActiveMeansOptedIn /\ PendingHasLink

-----------------------------------------------------------------------------
(* The statements on a row *)

LEMMA IdleIsJob == Idle \in Link /\ Idle.token = 0
BY PostAssumption DEF Idle, Link

\* The upsert of a plain request, with a token nobody has seen.
LEMMA PlainUpsert ==
    ASSUME NEW r \in Row, NEW t \in Nat \ {0}
    PROVE  LET u == Upsert(r, t, FALSE) IN
           /\ u \in Row /\ u.exists
           /\ Active(u) => Active(r)
           /\ IF Active(r) THEN u = r ELSE u.confirmToken = t /\ ~u.confirmed
           /\ u.token \in {r.token, t} /\ u.confirmToken \in {r.confirmToken, t}
<1> DEFINE stays == r.confirmed /\ ~r.cancelled
           link  == IF Active(r) THEN r.confirmToken ELSE t
<1>1. r.confirmed \in BOOLEAN /\ r.cancelled \in BOOLEAN /\ stays \in BOOLEAN /\ link \in Nat
      /\ r.exists \in BOOLEAN
  BY DEF Row
<1>2. CASE r.exists
  <2>1. Upsert(r, t, FALSE) = [r EXCEPT !.confirmToken = link, !.confirmed = stays]
    BY <1>2 DEF Upsert
  <2>2. Active(r) <=> stays
    BY <1>2 DEF Active
  <2>3. Active(r) => r.confirmed = stays
    BY <2>2, <1>1 DEF Active
  <2> HIDE DEF stays
  <2>4. Active(r) => r = [r EXCEPT !.confirmToken = link, !.confirmed = stays]
    BY <2>3 DEF Row
  <2> QED BY <1>1, <1>2, <2>1, <2>2, <2>4 DEF Row, Active
<1>3. CASE ~r.exists
  BY <1>3 DEF Upsert, Row, Active
<1> QED BY <1>1, <1>2, <1>3

LEMMA VerifiedUpsert ==
    ASSUME NEW r \in Row, NEW t \in Nat \ {0}
    PROVE  LET u == Upsert(r, t, TRUE) IN
           /\ u \in Row /\ u.exists /\ Active(u)
           /\ u.token = t /\ u.confirmToken = 0
BY DEF Upsert, Row, Active

LEMMA ConfirmRow ==
    ASSUME NEW r \in Row
    PROVE  LET u == Confirm(r) IN
           /\ u \in Row
           /\ u.exists = r.exists
           /\ u.token = r.token /\ u.confirmToken = r.confirmToken
           /\ r.exists /\ r.confirmed => u = r
           /\ u.exists => u.confirmed
           /\ ~r.exists => u = r
BY DEF Confirm, Row

LEMMA CancelRow ==
    ASSUME NEW r \in Row
    PROVE  LET u == Cancel(r) IN
           /\ u \in Row
           /\ u.exists = r.exists /\ u.confirmed = r.confirmed
           /\ u.token = r.token /\ u.confirmToken = r.confirmToken
           /\ ~Active(u) /\ ~Pending(u)
           /\ u.exists => u.cancelled
           /\ r = NoRow => u = NoRow
<1> DEFINE there == r.exists
<1>1. Cancel(r) = [r EXCEPT !.cancelled = there] /\ there \in BOOLEAN
  BY DEF Cancel, Row
<1> HIDE DEF there
<1>2. /\ Cancel(r) \in Row /\ Cancel(r).cancelled = there
      /\ Cancel(r).exists = r.exists /\ Cancel(r).confirmed = r.confirmed
      /\ Cancel(r).token = r.token /\ Cancel(r).confirmToken = r.confirmToken
  BY <1>1 DEF Row
<1>3. ASSUME r = NoRow PROVE Cancel(r) = NoRow
  <2>1. there = r.cancelled
    BY <1>3 DEF there, NoRow
  <2> QED BY <1>1, <1>3, <2>1 DEF Row
<1> QED BY <1>2, <1>3 DEF Active, Pending, there

LEMMA RotateRow ==
    ASSUME NEW r \in Row, NEW t \in Nat
    PROVE  LET u == Rotate(r, t) IN
           /\ u \in Row
           /\ u.exists = r.exists /\ ~u.confirmed
           /\ u.token = r.token /\ u.confirmToken = t
           /\ ~Active(u)
BY DEF Rotate, Row, Active

-----------------------------------------------------------------------------
LEMMA InitInv == Init => IInv
<1> SUFFICES ASSUME Init PROVE IInv OBVIOUS
<1>1. NoRow \in Row /\ ~Active(NoRow) /\ ~Pending(NoRow) /\ ~NoRow.exists
      /\ NoRow.token = 0 /\ NoRow.confirmToken = 0
  BY DEF NoRow, Row, Active, Pending
<1>2. TypeOK
  BY <1>1, IdleIsJob DEF Init, TypeOK, State
<1>3. /\ WritesExisting /\ PressedIsOptIn /\ ResendIsMailed /\ PendingHasToken
      /\ BarredLinkIsDead /\ BarredUnheld
  BY <1>1 DEF Init, WritesExisting, PressedIsOptIn, ResendIsMailed, PendingHasToken,
              BarredLinkIsDead, BarredUnheld
<1>4. ActiveMeansOptedIn /\ PendingHasLink
  BY <1>1 DEF Init, ActiveMeansOptedIn, PendingHasLink
<1> QED BY <1>2, <1>3, <1>4 DEF IInv

-----------------------------------------------------------------------------
(* Steps that leave the rows alone *)

\* A handler goes on, or ends, and nobody has opted in or cancelled.
LEMMA QuietStep ==
    ASSUME IInv, NEW h \in Handler, NEW s \in State, NEW l \in Link,
           Continue(h, s, l), UNCHANGED <<row, aged, opted, barred, retired>>,
           minted' \in Nat, minted' >= minted,
           inbox \subseteq inbox', inbox' \subseteq {i \in Link : i.token \in 1..minted'},
           lost \subseteq lost', lost' \subseteq Nat,
           s \in {"confirming", "cancelling", "resending", "rotating"} => row[l.post].exists,
           s = "confirming" => l.post \in opted,
           s \in {"resending", "rotating", "upserted", "sending"} => l.token \in 1..minted',
           s = "rotating" => l \in inbox',
           s \in {"confirming", "resending", "rotating"} => l \notin barred,
           \A p \in Post : Sends(h, p) /\ Pending(row[p]) =>
              \/ s \in {"upserted", "sending"} /\ l.post = p /\ l.token = row[p].confirmToken
              \/ [post |-> p, token |-> row[p].confirmToken] \in inbox'
              \/ row[p].confirmToken \in lost'
    PROVE  IInv'
<1> USE DEF IInv
<1>1. /\ pc'[h] = s /\ job'[h] = l
      /\ \A g \in Handler : g # h => pc'[g] = pc[g] /\ job'[g] = job[g]
      /\ pc' \in [Handler -> State] /\ job' \in [Handler -> Link]
  BY DEF Continue, TypeOK
<1>2. TypeOK'
  BY <1>1 DEF TypeOK, Row
<1>3. WritesExisting' /\ PressedIsOptIn'
  BY <1>1 DEF WritesExisting, PressedIsOptIn
<1>4. ResendIsMailed'
  BY <1>1 DEF ResendIsMailed, TypeOK
<1>5. PendingHasToken' /\ BarredLinkIsDead'
  BY DEF PendingHasToken, BarredLinkIsDead, TypeOK
<1>6. BarredUnheld'
  BY <1>1 DEF BarredUnheld
<1>7. ActiveMeansOptedIn'
  BY DEF ActiveMeansOptedIn
<1>8. PendingHasLink'
  <2> SUFFICES ASSUME NEW p \in Post, Pending(row[p])
               PROVE  \/ [post |-> p, token |-> row[p].confirmToken] \in inbox'
                      \/ row[p].confirmToken \in lost'
                      \/ \E g \in Handler : Sends(g, p)'
    BY DEF PendingHasLink
  <2>1. \/ [post |-> p, token |-> row[p].confirmToken] \in inbox
        \/ row[p].confirmToken \in lost
        \/ \E g \in Handler : Sends(g, p)
    BY DEF PendingHasLink
  <2>2. ASSUME NEW g \in Handler, g # h, Sends(g, p) PROVE Sends(g, p)'
    BY <2>2, <1>1 DEF Sends
  <2>3. s \in {"upserted", "sending"} /\ l.post = p /\ l.token = row[p].confirmToken
        => Sends(h, p)'
    BY <1>1 DEF Sends
  <2> QED BY <2>1, <2>2, <2>3
<1> QED BY <1>2, <1>3, <1>4, <1>5, <1>6, <1>7, <1>8

\* A request that ends without a mail that somebody waits for.
LEMMA FinishStep ==
    ASSUME IInv, NEW h \in Handler, Finish(h),
           UNCHANGED <<row, aged, minted, opted, barred, retired>>,
           inbox \subseteq inbox', inbox' \subseteq {i \in Link : i.token \in 1..minted},
           lost \subseteq lost', lost' \subseteq Nat,
           pc[h] \in {"upserted", "sending"} =>
              \/ job[h] \in inbox' \/ job[h].token \in lost'
              \/ pc[h] = "upserted" /\ ~Pending(row[job[h].post])
    PROVE  IInv'
<1>1. Idle \in Link /\ "idle" \in State
  BY IdleIsJob DEF State
<1>2. minted \in Nat /\ job[h] \in Link
  BY DEF IInv, TypeOK
<1>3. ASSUME NEW p \in Post, Sends(h, p), Pending(row[p])
      PROVE  \/ [post |-> p, token |-> row[p].confirmToken] \in inbox'
             \/ row[p].confirmToken \in lost'
  BY <1>2, <1>3 DEF Sends, Link
<1> QED BY <1>1, <1>2, <1>3, QuietStep DEF Finish

LEMMA SignupInv ==
    ASSUME IInv, NEW h \in Handler,
           \/ \E p \in Post : SignupCount(h, p)
           \/ SignupDeny(h) \/ SignupSelect(h) \/ SignupSend(h) \/ SignupUndelivered(h)
    PROVE  IInv'
<1>1. inbox \subseteq {i \in Link : i.token \in 1..minted} /\ lost \subseteq Nat
      /\ minted \in Nat /\ job[h] \in Link
  BY DEF IInv, TypeOK
<1>2. ASSUME NEW p \in Post, SignupCount(h, p) PROVE IInv'
  <2>1. [post |-> p, token |-> 0] \in Link /\ "counted" \in State
    BY DEF Link, State
  <2> QED BY <1>1, <1>2, <2>1, QuietStep DEF SignupCount, history, Sends
<1>3. CASE SignupDeny(h)
  BY <1>1, <1>3, FinishStep DEF SignupDeny, history
<1>4. CASE SignupSelect(h)
  <2> DEFINE r == row[job[h].post]
             l == [job[h] EXCEPT !.token = r.confirmToken]
  <2>1. CASE ~r.confirmed /\ r.confirmToken # 0
    <3>1. /\ Continue(h, "sending", l) /\ pc[h] = "upserted"
          /\ UNCHANGED <<row, aged, minted, inbox, lost, opted, barred, retired>>
      BY <1>4, <2>1 DEF SignupSelect, history
    <3>2. /\ l \in Link /\ l.post = job[h].post /\ l.token = r.confirmToken
          /\ "sending" \in State
      BY <1>1 DEF Link, State, IInv, TypeOK, Row
    <3>3. l.token \in 1..minted
      BY <1>1, <2>1, <3>2 DEF Link, IInv, TypeOK, Row
    <3>4. \A p \in Post : Sends(h, p) => l.post = p /\ l.token = row[p].confirmToken
      BY <3>2 DEF Sends
    <3> HIDE DEF l
    <3> QED BY <1>1, <3>1, <3>2, <3>3, <3>4, QuietStep
  <2>2. CASE ~(~r.confirmed /\ r.confirmToken # 0)
    <3>1. /\ Finish(h) /\ pc[h] = "upserted"
          /\ UNCHANGED <<row, aged, minted, inbox, lost, opted, barred, retired>>
      BY <1>4, <2>2 DEF SignupSelect, history
    <3>2. ~Pending(r)
      BY <1>1, <2>2 DEF Pending, IInv, PendingHasToken, Link
    <3> QED BY <1>1, <3>1, <3>2, FinishStep
  <2> QED BY <2>1, <2>2
<1>5. CASE SignupSend(h)
  <2>1. job[h].token \in 1..minted
    BY <1>5 DEF SignupSend, IInv, ResendIsMailed
  <2> QED BY <1>1, <1>5, <2>1, FinishStep DEF SignupSend, history
<1>6. CASE SignupUndelivered(h)
  BY <1>1, <1>6, FinishStep DEF SignupUndelivered, Link
<1> QED BY <1>2, <1>3, <1>4, <1>5, <1>6

LEMMA LookupInv ==
    ASSUME IInv, NEW h \in Handler,
           \E p \in Post : CancelLookup(h, p) \/ ResendLookup(h, p)
    PROVE  IInv'
<1>1. inbox \subseteq {i \in Link : i.token \in 1..minted} /\ lost \subseteq Nat
      /\ minted \in Nat
  BY DEF IInv, TypeOK
<1>2. ASSUME NEW p \in Post, CancelLookup(h, p) PROVE IInv'
  <2>1. [post |-> p, token |-> 0] \in Link /\ "cancelling" \in State
    BY DEF Link, State
  <2> QED BY <1>1, <1>2, <2>1, QuietStep DEF CancelLookup, history, Sends
<1>3. ASSUME NEW p \in Post, ResendLookup(h, p) PROVE IInv'
  <2> DEFINE l == [post |-> p, token |-> minted']
  <2>1. minted' = minted + 1 /\ pc[h] = "idle" /\ row[p].exists
        /\ Continue(h, "resending", l)
        /\ UNCHANGED <<row, aged, inbox, lost, opted, barred, retired>>
    BY <1>3 DEF ResendLookup, history, Pending
  <2>2. l \in Link /\ l.post = p /\ l.token = minted + 1 /\ "resending" \in State
    BY <1>1, <2>1 DEF Link, State
  <2>3. l \notin barred
    BY <1>1, <2>2 DEF IInv, BarredLinkIsDead
  <2>4. inbox' \subseteq {i \in Link : i.token \in 1..minted'}
    BY <1>1, <2>1 DEF Link
  <2>5. ~\E q \in Post : Sends(h, q)
    BY <2>1 DEF Sends
  <2> HIDE DEF l
  <2> QED BY <1>1, <2>1, <2>2, <2>3, <2>4, <2>5, QuietStep
<1> QED BY <1>2, <1>3

LEMMA ResendInv ==
    ASSUME IInv, NEW h \in Handler, ResendSend(h) \/ ResendUndelivered(h)
    PROVE  IInv'
<1>1. inbox \subseteq {i \in Link : i.token \in 1..minted} /\ lost \subseteq Nat
      /\ minted \in Nat /\ job[h] \in Link /\ "rotating" \in State
  BY DEF IInv, TypeOK, State
<1>2. CASE ResendSend(h)
  <2>1. job[h].token \in 1..minted /\ job[h] \notin barred /\ row[job[h].post].exists
    BY <1>2 DEF ResendSend, IInv, ResendIsMailed, BarredUnheld, WritesExisting
  <2> QED BY <1>1, <1>2, <2>1, QuietStep DEF ResendSend, history, Sends
<1>3. CASE ResendUndelivered(h)
  BY <1>1, <1>3, FinishStep DEF ResendUndelivered, history
<1> QED BY <1>2, <1>3

LEMMA CrashInv ==
    ASSUME IInv, NEW h \in Handler, Crash(h)
    PROVE  IInv'
<1>1. inbox \subseteq {i \in Link : i.token \in 1..minted} /\ lost \subseteq Nat
      /\ minted \in Nat /\ job[h] \in Link
  BY DEF IInv, TypeOK
<1> QED BY <1>1, FinishStep DEF Crash, Link

LEMMA AgeInv ==
    ASSUME IInv, NEW p \in Post, Age(p)
    PROVE  IInv'
BY DEF Age, history, IInv, TypeOK, WritesExisting, PressedIsOptIn, ResendIsMailed,
       PendingHasToken, BarredLinkIsDead, BarredUnheld, ActiveMeansOptedIn,
       PendingHasLink, Sends

-----------------------------------------------------------------------------
(* The owner opts in *)

LEMMA OptInKeeps ==
    ASSUME IInv, NEW P \in SUBSET Post, opted' = opted \union P,
           UNCHANGED <<row, aged, minted, inbox, pc, job, lost, barred, retired>>
    PROVE  IInv'
BY DEF IInv, TypeOK, WritesExisting, PressedIsOptIn, ResendIsMailed,
       PendingHasToken, BarredLinkIsDead, BarredUnheld, ActiveMeansOptedIn,
       PendingHasLink, Sends

LEMMA ConfirmLookupInv ==
    ASSUME IInv, NEW h \in Handler, NEW l \in inbox, ConfirmLookup(h, l)
    PROVE  IInv'
<1> USE DEF IInv
<1>1. /\ l \in Link /\ l.post \in Post /\ l.token \in 1..minted /\ minted \in Nat
      /\ "confirming" \in State
  BY DEF TypeOK, Link, State
<1>2. /\ pc'[h] = "confirming" /\ job'[h] = l /\ pc[h] = "idle"
      /\ \A g \in Handler : g # h => pc'[g] = pc[g] /\ job'[g] = job[g]
      /\ pc' \in [Handler -> State] /\ job' \in [Handler -> Link]
      /\ opted' = opted \union {l.post}
      /\ UNCHANGED <<row, aged, minted, inbox, lost, barred, retired>>
  BY <1>1 DEF ConfirmLookup, Continue, TypeOK
<1>3. row[l.post].exists /\ l \notin barred
  BY DEF ConfirmLookup, Confirmable, BarredLinkIsDead
<1>4. TypeOK'
  BY <1>1, <1>2 DEF TypeOK
<1>5. WritesExisting' /\ PressedIsOptIn' /\ ResendIsMailed' /\ BarredUnheld'
  BY <1>2, <1>3 DEF WritesExisting, PressedIsOptIn, ResendIsMailed, BarredUnheld
<1>6. PendingHasToken' /\ BarredLinkIsDead' /\ ActiveMeansOptedIn'
  BY <1>2 DEF PendingHasToken, BarredLinkIsDead, ActiveMeansOptedIn
<1>7. PendingHasLink'
  <2>1. \A g \in Handler, p \in Post : Sends(g, p) => Sends(g, p)'
    BY <1>2 DEF Sends
  <2> QED BY <1>2, <2>1 DEF PendingHasLink
<1> QED BY <1>4, <1>5, <1>6, <1>7

-----------------------------------------------------------------------------
(* Statements that write a row *)

\* A statement leaves u as the row of p, for a handler that is over by then or,
\* after an upsert, has its mail to send.
Written(h, s, l, p, u) ==
    /\ s \in {"idle", "upserted"} /\ l \in Link /\ Continue(h, s, l)
    /\ pc[h] \notin {"upserted", "sending"}
    /\ p \in Post /\ u \in Row /\ row' = [row EXCEPT ![p] = u]
    /\ UNCHANGED <<aged, inbox, lost>> /\ retired' \subseteq Link
    /\ minted' \in Nat /\ minted' >= minted
    /\ u.token <= minted' /\ u.confirmToken <= minted'
    /\ row[p].exists => u.exists
    /\ ~u.exists => u = NoRow
    /\ u.exists /\ ~u.confirmed => u.confirmToken # 0
    /\ s = "upserted" => l.token \in 1..minted'
    /\ Pending(u) => \/ s = "upserted" /\ l.post = p /\ l.token = u.confirmToken
                     \/ [post |-> p, token |-> u.confirmToken] \in inbox
                     \/ u.confirmToken = row[p].confirmToken /\ Pending(row[p])

\* What the row is for a link barred by its cancel.
Dead(u, i) == \/ u.exists /\ u.confirmed /\ u.cancelled
              \/ u.confirmToken # i.token

LEMMA RowStep ==
    ASSUME IInv, NEW h \in Handler, NEW s, NEW l, NEW p, NEW u, Written(h, s, l, p, u),
           opted' \subseteq Post, opted \ {p} \subseteq opted',
           Active(u) => p \in opted',
           \A g \in Handler \ {h} : pc[g] = "confirming" /\ job[g].post = p => p \in opted',
           barred \subseteq barred', barred' \subseteq Link,
           \A i \in barred' : i.post # p => i \in barred,
           \A i \in barred' : i.post = p => i.token \in 1..minted' /\ Dead(u, i),
           \A g \in Handler \ {h} :
              pc[g] \in {"confirming", "resending", "rotating"} => job[g] \notin barred'
    PROVE  IInv'
<1> USE DEF IInv
<1>0. /\ s \in {"idle", "upserted"} /\ l \in Link /\ Continue(h, s, l)
      /\ pc[h] \notin {"upserted", "sending"}
      /\ p \in Post /\ u \in Row /\ row' = [row EXCEPT ![p] = u]
      /\ UNCHANGED <<aged, inbox, lost>> /\ retired' \subseteq Link
      /\ minted' \in Nat /\ minted' >= minted
      /\ u.token <= minted' /\ u.confirmToken <= minted'
      /\ row[p].exists => u.exists
      /\ ~u.exists => u = NoRow
      /\ u.exists /\ ~u.confirmed => u.confirmToken # 0
      /\ s = "upserted" => l.token \in 1..minted'
      /\ Pending(u) => \/ s = "upserted" /\ l.post = p /\ l.token = u.confirmToken
                       \/ [post |-> p, token |-> u.confirmToken] \in inbox
                       \/ u.confirmToken = row[p].confirmToken /\ Pending(row[p])
  BY DEF Written
<1>1. /\ pc'[h] = s /\ job'[h] = l
      /\ \A g \in Handler : g # h => pc'[g] = pc[g] /\ job'[g] = job[g]
      /\ pc' \in [Handler -> State] /\ job' \in [Handler -> Link]
  BY <1>0 DEF Continue, TypeOK, State
<1>2. /\ row' \in [Post -> Row] /\ row'[p] = u
      /\ \A q \in Post : q # p => row'[q] = row[q]
  BY <1>0 DEF TypeOK
<1>3. NoRow.token = 0 /\ NoRow.confirmToken = 0 /\ ~NoRow.exists
  BY <1>0 DEF NoRow
<1>4. TypeOK'
  <2>1. \A q \in Post : /\ ~row'[q].exists => row'[q] = NoRow
                        /\ row'[q].token <= minted' /\ row'[q].confirmToken <= minted'
    <3> TAKE q \in Post
    <3>1. CASE q = p
      BY <1>0, <3>1, <1>2, <1>3
    <3>2. CASE q # p
      BY <1>0, <3>2, <1>2 DEF TypeOK, Row
    <3> QED BY <1>0, <3>1, <3>2
  <2>2. aged' \subseteq {q \in Post : row'[q].exists}
    BY <1>0, <1>2 DEF TypeOK
  <2>3. inbox' \subseteq {i \in Link : i.token \in 1..minted'}
    BY <1>0 DEF TypeOK, Link
  <2> QED BY <1>0, <1>1, <1>2, <2>1, <2>2, <2>3 DEF TypeOK
<1>5. WritesExisting'
  BY <1>0, <1>1, <1>2 DEF WritesExisting, TypeOK, Link
<1>6. PressedIsOptIn'
  BY <1>0, <1>1 DEF PressedIsOptIn
<1>7. ResendIsMailed'
  BY <1>0, <1>1 DEF ResendIsMailed, TypeOK
<1>8. PendingHasToken'
  BY <1>0, <1>2 DEF PendingHasToken
<1>9. BarredLinkIsDead'
  <2> SUFFICES ASSUME NEW i \in barred'
               PROVE  /\ i.token \in 1..minted'
                      /\ \/ /\ row'[i.post].exists /\ row'[i.post].confirmed
                            /\ row'[i.post].cancelled
                         \/ row'[i.post].confirmToken # i.token
    BY DEF BarredLinkIsDead
  <2>1. i.post \in Post
    BY <1>0 DEF Link
  <2>2. CASE i.post = p
    BY <1>0, <2>2, <1>2 DEF Dead
  <2>3. CASE i.post # p
    BY <1>0, <2>1, <2>3, <1>2 DEF BarredLinkIsDead, TypeOK
  <2> QED BY <2>2, <2>3
<1>10. BarredUnheld'
  BY <1>0, <1>1 DEF BarredUnheld
<1>11. ActiveMeansOptedIn'
  BY <1>0, <1>2 DEF ActiveMeansOptedIn
<1>12. PendingHasLink'
  <2> SUFFICES ASSUME NEW q \in Post, Pending(row'[q])
               PROVE  \/ [post |-> q, token |-> row'[q].confirmToken] \in inbox
                      \/ row'[q].confirmToken \in lost
                      \/ \E g \in Handler : Sends(g, q)'
    BY <1>0 DEF PendingHasLink
  <2>1. ASSUME Pending(row[q]), row'[q].confirmToken = row[q].confirmToken
        PROVE  \/ [post |-> q, token |-> row'[q].confirmToken] \in inbox
               \/ row'[q].confirmToken \in lost
               \/ \E g \in Handler : Sends(g, q)'
    <3>1. ASSUME NEW g \in Handler, Sends(g, q) PROVE Sends(g, q)'
      BY <1>0, <3>1, <2>1, <1>1 DEF Sends
    <3> QED BY <1>0, <2>1, <3>1 DEF PendingHasLink
  <2>2. CASE q = p /\ s = "upserted" /\ l.post = p /\ l.token = u.confirmToken
    BY <1>0, <2>2, <1>1, <1>2 DEF Sends
  <2>3. CASE q # p
    BY <1>0, <2>1, <2>3, <1>2
  <2>4. CASE q = p /\ [post |-> p, token |-> u.confirmToken] \in inbox
    BY <1>0, <2>4, <1>2
  <2>5. CASE q = p /\ u.confirmToken = row[p].confirmToken /\ Pending(row[p])
    BY <1>0, <2>1, <2>5, <1>2
  <2> QED BY <1>0, <2>2, <2>3, <2>4, <2>5, <1>2
<1> QED BY <1>4, <1>5, <1>6, <1>7, <1>8, <1>9, <1>10, <1>11, <1>12

\* The same for a statement that is nobody's opt-in and no cancel.
LEMMA PlainRowStep ==
    ASSUME IInv, NEW h \in Handler, NEW s, NEW l, NEW p, NEW u, Written(h, s, l, p, u),
           UNCHANGED <<opted, barred>>,
           Active(u) => p \in opted,
           \A i \in barred : i.post = p => Dead(u, i)
    PROVE  IInv'
<1>1. opted \subseteq Post /\ barred \subseteq Link
  BY DEF IInv, TypeOK
<1>2. \A g \in Handler \ {h} : pc[g] = "confirming" /\ job[g].post = p => p \in opted'
  BY DEF IInv, PressedIsOptIn
<1>3. \A i \in barred' : i.post = p => i.token \in 1..minted' /\ Dead(u, i)
  <2>1. /\ \A i \in barred : i.token \in 1..minted
        /\ minted \in Nat /\ minted' \in Nat /\ minted' >= minted
    BY DEF IInv, BarredLinkIsDead, TypeOK, Written
  <2> QED BY <2>1
<1>4. \A g \in Handler \ {h} :
         pc[g] \in {"confirming", "resending", "rotating"} => job[g] \notin barred'
  BY DEF IInv, BarredUnheld
<1> QED BY <1>1, <1>2, <1>3, <1>4, RowStep

LEMMA SignupUpsertInv ==
    ASSUME IInv, NEW h \in Handler, SignupUpsert(h)
    PROVE  IInv'
<1> USE DEF IInv
<1> DEFINE p == job[h].post
           t == minted + 1
           u == Upsert(row[p], t, FALSE)
           l == [job[h] EXCEPT !.token = t]
<1>1. /\ retired \subseteq Link /\ p \in Post /\ row[p] \in Row /\ minted \in Nat /\ t \in Nat \ {0}
      /\ l \in Link /\ l.post = p /\ l.token = t
      /\ row[p].token <= minted /\ row[p].confirmToken <= minted
  BY DEF TypeOK, Link
<1>2. /\ pc[h] = "counted" /\ minted' = t
      /\ row' = [row EXCEPT ![p] = u]
      /\ Continue(h, "upserted", l)
      /\ UNCHANGED <<aged, inbox, lost, opted, barred, retired>>
  BY DEF SignupUpsert, history
<1>3. /\ u \in Row /\ u.exists
      /\ Active(u) => Active(row[p])
      /\ IF Active(row[p]) THEN u = row[p] ELSE u.confirmToken = t /\ ~u.confirmed
      /\ u.token \in {row[p].token, t} /\ u.confirmToken \in {row[p].confirmToken, t}
  BY <1>1, PlainUpsert
<1>4. u.token <= t /\ u.confirmToken <= t
  <2>1. row[p].token \in Nat /\ row[p].confirmToken \in Nat
    BY <1>1 DEF Row
  <2> HIDE DEF u, p
  <2> QED BY <1>1, <1>3, <2>1
<1>5. u.exists /\ ~u.confirmed => u.confirmToken # 0
  BY <1>1, <1>3 DEF Active
<1>6. Active(u) => p \in opted
  BY <1>1, <1>3 DEF ActiveMeansOptedIn
<1>7. \A i \in barred : i.post = p => Dead(u, i)
  <2> SUFFICES ASSUME NEW i \in barred, i.post = p PROVE Dead(u, i)
    OBVIOUS
  <2>1. /\ i.token \in 1..minted
        /\ \/ row[p].exists /\ row[p].confirmed /\ row[p].cancelled
           \/ row[p].confirmToken # i.token
    BY DEF BarredLinkIsDead
  <2>2. i.token # t
    BY <1>1, <2>1
  <2> HIDE DEF u, p, t
  <2> QED BY <1>3, <2>1, <2>2 DEF Active, Dead
<1>8. Pending(u) => l.token = u.confirmToken
  BY <1>1, <1>3 DEF Pending, Active
<1>9. Written(h, "upserted", l, p, u)
  <2> HIDE DEF p, u, l, IInv
  <2>1. minted' >= minted /\ l.token \in 1..minted'
    BY <1>1, <1>2
  <2> HIDE DEF t
  <2> QED BY <1>1, <1>2, <1>3, <1>4, <1>5, <1>8, <2>1 DEF Written
<1> HIDE DEF p, t, u, l, IInv
<1> QED BY <1>2, <1>6, <1>7, <1>9, PlainRowStep

LEMMA ConfirmWriteInv ==
    ASSUME IInv, NEW h \in Handler, ConfirmWrite(h)
    PROVE  IInv'
<1> USE DEF IInv
<1> DEFINE p == job[h].post
           u == Confirm(row[p])
<1>1. /\ retired \subseteq Link /\ p \in Post /\ row[p] \in Row /\ minted \in Nat
      /\ row[p].token <= minted /\ row[p].confirmToken <= minted
      /\ ~row[p].exists => row[p] = NoRow
  BY DEF TypeOK, Link
<1>2. /\ pc[h] = "confirming" /\ row' = [row EXCEPT ![p] = u]
      /\ Continue(h, "idle", Idle)
      /\ UNCHANGED <<aged, minted, inbox, lost, opted, barred, retired>>
  BY DEF ConfirmWrite, Finish, history
<1>3. /\ u \in Row /\ u.exists = row[p].exists
      /\ u.token = row[p].token /\ u.confirmToken = row[p].confirmToken
      /\ row[p].exists /\ row[p].confirmed => u = row[p]
      /\ u.exists => u.confirmed
      /\ ~row[p].exists => u = row[p]
  BY <1>1, ConfirmRow
<1>4. p \in opted
  BY <1>2 DEF PressedIsOptIn
<1>5. \A i \in barred : i.post = p => Dead(u, i)
  <2>1. \A i \in barred : i.post = p => Dead(row[p], i)
    BY DEF BarredLinkIsDead, Dead
  <2> HIDE DEF p, u
  <2> QED BY <1>3, <2>1 DEF Dead
<1> HIDE DEF p, u, IInv
<1>6. ~Pending(u)
  BY <1>3 DEF Pending
<1>7. Written(h, "idle", Idle, p, u)
  BY <1>1, <1>2, <1>3, <1>6, IdleIsJob DEF Written
<1> QED BY <1>2, <1>4, <1>5, <1>7, PlainRowStep

LEMMA ResendRotateInv ==
    ASSUME IInv, NEW h \in Handler, ResendRotate(h)
    PROVE  IInv'
<1> USE DEF IInv
<1> DEFINE p == job[h].post
           t == job[h].token
           u == Rotate(row[p], t)
<1>1. /\ retired \subseteq Link /\ p \in Post /\ row[p] \in Row /\ minted \in Nat /\ job[h] \in Link
      /\ row[p].token <= minted
  BY DEF TypeOK, Link
<1>2. /\ pc[h] = "rotating" /\ row' = [row EXCEPT ![p] = u]
      /\ Continue(h, "idle", Idle)
      /\ UNCHANGED <<aged, minted, inbox, lost, opted, barred, retired>>
  BY DEF ResendRotate, Finish, history
<1>3. t \in 1..minted /\ job[h] \in inbox /\ job[h] \notin barred /\ row[p].exists
  BY <1>2 DEF ResendIsMailed, BarredUnheld, WritesExisting
<1>4. /\ u \in Row /\ u.exists = row[p].exists /\ ~u.confirmed
      /\ u.token = row[p].token /\ u.confirmToken = t /\ ~Active(u)
  <2>1. t \in Nat
    BY <1>1, <1>3
  <2> HIDE DEF p, t
  <2> QED BY <1>1, <2>1, RotateRow
<1>5. \A i \in barred : i.post = p => Dead(u, i)
  <2> SUFFICES ASSUME NEW i \in barred, i.post = p PROVE Dead(u, i)
    OBVIOUS
  <2>1. i \in Link /\ i.token \in 1..minted
    BY DEF TypeOK, BarredLinkIsDead
  <2>2. i.token = t => i = job[h]
    BY <1>1, <2>1 DEF Link
  <2> QED BY <2>1, <2>2, <1>3, <1>4 DEF Dead
<1>6. [post |-> p, token |-> u.confirmToken] \in inbox
  <2>1. job[h] = [post |-> p, token |-> t]
    BY <1>1 DEF Link
  <2> QED BY <2>1, <1>3, <1>4
<1> HIDE DEF p, t, u, IInv
<1>7. Written(h, "idle", Idle, p, u)
  BY <1>1, <1>2, <1>3, <1>4, <1>6, IdleIsJob DEF Written
<1> QED BY <1>2, <1>4, <1>5, <1>7, PlainRowStep

\* A verified session's own signup: the row is active, its confirm token gone.
LEMMA AutoConfirmInv ==
    ASSUME IInv, NEW p \in Post, AutoConfirm(p)
    PROVE  IInv'
<1> USE DEF IInv
<1> DEFINE t == minted + 1
           u == Upsert(row[p], t, TRUE)
<1>1. row[p] \in Row /\ minted \in Nat /\ t \in Nat \ {0}
  BY DEF TypeOK
<1>2. /\ minted' = t /\ row' = [row EXCEPT ![p] = u] /\ opted' = opted \union {p}
      /\ UNCHANGED <<aged, inbox, pc, job, lost, barred, retired>>
  BY DEF AutoConfirm
<1>3. u \in Row /\ u.exists /\ Active(u) /\ u.token = t /\ u.confirmToken = 0
  BY <1>1, VerifiedUpsert
<1> HIDE DEF u
<1>4. /\ row' \in [Post -> Row] /\ row'[p] = u
      /\ \A q \in Post : q # p => row'[q] = row[q]
  BY <1>2, <1>3 DEF TypeOK
<1>5. TypeOK'
  <2>1. \A q \in Post : /\ ~row'[q].exists => row'[q] = NoRow
                        /\ row'[q].token <= minted' /\ row'[q].confirmToken <= minted'
    <3> TAKE q \in Post
    <3>1. CASE q = p
      BY <3>1, <1>1, <1>2, <1>3, <1>4
    <3>2. CASE q # p
      BY <3>2, <1>1, <1>2, <1>4 DEF TypeOK, Row
    <3> QED BY <3>1, <3>2
  <2>2. aged' \subseteq {q \in Post : row'[q].exists}
    BY <1>2, <1>3, <1>4 DEF TypeOK
  <2>3. inbox' \subseteq {i \in Link : i.token \in 1..minted'}
    BY <1>1, <1>2 DEF TypeOK, Link
  <2> QED BY <1>1, <1>2, <1>4, <2>1, <2>2, <2>3 DEF TypeOK
<1>6. WritesExisting' /\ PressedIsOptIn' /\ BarredUnheld'
  BY <1>2, <1>3, <1>4 DEF WritesExisting, PressedIsOptIn, BarredUnheld, TypeOK, Link
<1>7. ResendIsMailed'
  BY <1>1, <1>2 DEF ResendIsMailed, TypeOK
<1>8. PendingHasToken' /\ ActiveMeansOptedIn'
  BY <1>2, <1>3, <1>4 DEF PendingHasToken, ActiveMeansOptedIn, Active
<1>9. BarredLinkIsDead'
  <2> SUFFICES ASSUME NEW i \in barred
               PROVE  /\ i.token \in 1..minted'
                      /\ \/ /\ row'[i.post].exists /\ row'[i.post].confirmed
                            /\ row'[i.post].cancelled
                         \/ row'[i.post].confirmToken # i.token
    BY <1>2 DEF BarredLinkIsDead
  <2>1. i.post \in Post /\ i.token \in 1..minted /\ i.token \in 1..minted'
    BY <1>1, <1>2 DEF Link, TypeOK, BarredLinkIsDead
  <2>2. CASE i.post = p
    BY <2>1, <2>2, <1>3, <1>4
  <2>3. CASE i.post # p
    BY <2>1, <2>3, <1>4 DEF BarredLinkIsDead
  <2> QED BY <2>2, <2>3
<1>10. PendingHasLink'
  <2>1. ~Pending(row'[p])
    BY <1>3, <1>4 DEF Active, Pending
  <2>2. \A g \in Handler, q \in Post : q # p /\ Sends(g, q) => Sends(g, q)'
    BY <1>2, <1>4 DEF Sends
  <2> QED BY <1>2, <1>4, <2>1, <2>2 DEF PendingHasLink
<1> QED BY <1>5, <1>6, <1>7, <1>8, <1>9, <1>10

-----------------------------------------------------------------------------
(* The ways out *)

\* A handler other than h is about to write the row of a barred link: never.
LEMMA BarsNobody ==
    ASSUME IInv, NEW h \in Handler, NEW P, RecordCancel(h, P),
           NEW g \in Handler \ {h}, pc[g] \in {"confirming", "resending", "rotating"}
    PROVE  job[g] \notin barred'
BY DEF IInv, BarredUnheld, RecordCancel, QuietBut

\* Who has pressed the button and not yet been served stays opted in.
LEMMA KeepsPressed ==
    ASSUME IInv, NEW h \in Handler, NEW P, RecordCancel(h, P),
           NEW g \in Handler \ {h}, pc[g] = "confirming"
    PROVE  job[g].post \in opted'
BY DEF IInv, PressedIsOptIn, RecordCancel

LEMMA CancelWriteInv ==
    ASSUME IInv, NEW h \in Handler, CancelWrite(h)
    PROVE  IInv'
<1> USE DEF IInv
<1> DEFINE p == job[h].post
           u == Cancel(row[p])
<1>1. /\ p \in Post /\ row[p] \in Row /\ minted \in Nat
      /\ row[p].token <= minted /\ row[p].confirmToken <= minted
      /\ ~row[p].exists => row[p] = NoRow
      /\ opted \subseteq Post /\ barred \subseteq Link /\ retired \subseteq Link
      /\ inbox \subseteq {i \in Link : i.token \in 1..minted}
  BY DEF TypeOK, Link
<1>2. /\ pc[h] = "cancelling" /\ row' = [row EXCEPT ![p] = u]
      /\ Continue(h, "idle", Idle) /\ RecordCancel(h, {p})
      /\ UNCHANGED <<aged, minted, inbox, lost>>
  BY DEF CancelWrite, Finish
<1>3. /\ u \in Row /\ u.exists = row[p].exists /\ u.confirmed = row[p].confirmed
      /\ u.token = row[p].token /\ u.confirmToken = row[p].confirmToken
      /\ ~Active(u) /\ ~Pending(u)
      /\ u.exists => u.cancelled
      /\ row[p] = NoRow => u = NoRow
  BY <1>1, CancelRow
<1>4. row[p].exists /\ (~row[p].confirmed => row[p].confirmToken # 0)
  BY <1>1, <1>2 DEF WritesExisting, PendingHasToken
<1>5. \A i \in barred : i.token \in 1..minted /\ (i.post = p => Dead(row[p], i))
  BY DEF BarredLinkIsDead, Dead
<1>6. \A g \in Handler \ {h} :
         /\ pc[g] = "confirming" => job[g].post \in opted'
         /\ pc[g] \in {"confirming", "resending", "rotating"} => job[g] \notin barred'
  BY <1>2, BarsNobody, KeepsPressed
<1> HIDE DEF p, u, IInv
<1>7. /\ opted' \subseteq opted /\ opted \ {p} \subseteq opted'
      /\ barred \subseteq barred'
      /\ \A i \in barred' : i \in barred \/ (i \in inbox /\ i.post = p /\ row[p].confirmed)
  BY <1>2 DEF RecordCancel
<1>8. \A i \in barred' : i.post = p => i.token \in 1..minted' /\ Dead(u, i)
  BY <1>1, <1>2, <1>3, <1>4, <1>5, <1>7 DEF Dead
<1>9. retired' \subseteq Link
  BY <1>1, <1>2 DEF RecordCancel
<1>10. Written(h, "idle", Idle, p, u)
  BY <1>1, <1>2, <1>3, <1>4, <1>9, IdleIsJob DEF Written
<1>11. barred' \subseteq Link /\ opted' \subseteq Post
       /\ \A i \in barred' : i.post # p => i \in barred
  BY <1>1, <1>7
<1> QED BY <1>3, <1>6, <1>7, <1>8, <1>10, <1>11, RowStep

LEMMA CancelAllInv ==
    ASSUME IInv, NEW h \in Handler, CancelAll(h)
    PROVE  IInv'
<1> USE DEF IInv
<1> DEFINE P == {p \in Post : row[p].exists /\ ~row[p].cancelled}
<1>1. /\ pc[h] = "idle" /\ row' = [p \in Post |-> Cancel(row[p])]
      /\ RecordCancel(h, P)
      /\ UNCHANGED <<aged, minted, inbox, pc, job, lost>>
  BY DEF CancelAll
<1>2. /\ minted \in Nat /\ opted \subseteq Post /\ barred \subseteq Link
      /\ retired \subseteq Link /\ inbox \subseteq {i \in Link : i.token \in 1..minted}
  BY DEF TypeOK
<1>3. \A p \in Post :
         /\ row'[p] \in Row
         /\ row'[p].exists = row[p].exists /\ row'[p].confirmed = row[p].confirmed
         /\ row'[p].token = row[p].token /\ row'[p].confirmToken = row[p].confirmToken
         /\ ~Active(row'[p]) /\ ~Pending(row'[p])
         /\ row'[p].exists => row'[p].cancelled
         /\ row[p] = NoRow => row'[p] = NoRow
  <2> TAKE p \in Post
  <2>1. row[p] \in Row /\ row'[p] = Cancel(row[p])
    BY <1>1 DEF TypeOK
  <2> QED BY <2>1, CancelRow
<1>4. /\ opted' \subseteq opted /\ barred \subseteq barred'
      /\ \A i \in barred' :
            i \in barred \/ (i \in inbox /\ row[i.post].exists /\ row[i.post].confirmed)
      /\ barred' \subseteq Link /\ retired' \subseteq Link
  BY <1>1, <1>2 DEF RecordCancel
<1>5. TypeOK'
  <2>1. row' \in [Post -> Row]
    BY <1>1, <1>3
  <2> QED BY <1>1, <1>2, <1>3, <1>4, <2>1 DEF TypeOK
<1>6. WritesExisting' /\ ResendIsMailed' /\ PendingHasToken'
  <2>1. WritesExisting'
    BY <1>1, <1>3 DEF WritesExisting, TypeOK, Link
  <2>2. ResendIsMailed'
    BY <1>1 DEF ResendIsMailed
  <2>3. PendingHasToken'
    BY <1>3 DEF PendingHasToken
  <2> QED BY <2>1, <2>2, <2>3
<1>7. PressedIsOptIn'
  <2> HIDE DEF P, IInv
  <2>1. \A g \in Handler \ {h} : pc[g] = "confirming" => job[g].post \in opted'
    BY <1>1, KeepsPressed
  <2> QED BY <1>1, <2>1 DEF PressedIsOptIn
<1>8. BarredUnheld'
  <2> HIDE DEF P, IInv
  <2>1. \A g \in Handler \ {h} :
           pc[g] \in {"confirming", "resending", "rotating"} => job[g] \notin barred'
    BY <1>1, BarsNobody
  <2> QED BY <1>1, <2>1 DEF BarredUnheld
<1>9. BarredLinkIsDead'
  <2> SUFFICES ASSUME NEW i \in barred'
               PROVE  /\ i.token \in 1..minted'
                      /\ \/ /\ row'[i.post].exists /\ row'[i.post].confirmed
                            /\ row'[i.post].cancelled
                         \/ row'[i.post].confirmToken # i.token
    BY DEF BarredLinkIsDead
  <2>1. i.post \in Post
    BY <1>4 DEF Link
  <2>2. CASE i \in barred
    BY <2>1, <2>2, <1>1, <1>3 DEF BarredLinkIsDead
  <2>3. CASE i \in inbox /\ row[i.post].exists /\ row[i.post].confirmed
    BY <2>1, <2>3, <1>1, <1>2, <1>3
  <2> QED BY <2>2, <2>3, <1>4
<1>10. ActiveMeansOptedIn' /\ PendingHasLink'
  BY <1>3 DEF ActiveMeansOptedIn, PendingHasLink
<1> QED BY <1>5, <1>6, <1>7, <1>8, <1>9, <1>10

-----------------------------------------------------------------------------
LEMMA StutterInv ==
    ASSUME IInv, UNCHANGED vars
    PROVE  IInv'
BY DEF vars, IInv, TypeOK, WritesExisting, PressedIsOptIn, ResendIsMailed,
       PendingHasToken, BarredLinkIsDead, BarredUnheld, ActiveMeansOptedIn,
       PendingHasLink, Sends

LEMMA NextInv == IInv /\ [Next]_vars => IInv'
<1> SUFFICES ASSUME IInv, [Next]_vars PROVE IInv'
  OBVIOUS
<1>1. ASSUME NEW h \in Handler, HandlerStep(h) PROVE IInv'
  BY <1>1, SignupInv, SignupUpsertInv, LookupInv, ResendInv, CrashInv,
     ConfirmLookupInv, ConfirmWriteInv, CancelWriteInv, CancelAllInv,
     ResendRotateInv DEF HandlerStep
<1>2. ASSUME NEW p \in Post, AutoConfirm(p) \/ Age(p) PROVE IInv'
  BY <1>2, AutoConfirmInv, AgeInv
<1> QED BY <1>1, <1>2, StutterInv DEF Next

\* The inductive invariant: who holds which link, whoever runs when.
THEOREM SubscriptionsInvariant == Spec => []IInv
BY InitInv, NextInv, PTL DEF Spec

\* Rows, links and handlers have their types; tokens are never ahead of the mint.
THEOREM TypeCorrect == Spec => []TypeOK
<1>1. IInv => TypeOK
  BY DEF IInv
<1> QED BY <1>1, SubscriptionsInvariant, PTL

\* upsertSubscription and confirmSubscription: no row receives mail whose post
\* the owner of the address has not opted in to since they last cancelled.
THEOREM DoubleOptIn == Spec => []ActiveMeansOptedIn
<1>1. IInv => ActiveMeansOptedIn
  BY DEF IInv
<1> QED BY <1>1, SubscriptionsInvariant, PTL

\* POST /subscribe and the admin's resend: a pending row is never left without
\* a mailed link, but by a mail that failed.
THEOREM PendingRowHasLink == Spec => []PendingHasLink
<1>1. IInv => PendingHasLink
  BY DEF IInv
<1> QED BY <1>1, SubscriptionsInvariant, PTL

\* getSubscriptionByConfirmToken: a link mailed before the cancel of a confirmed
\* row revives nothing, however many requests, resends and cancels follow.
THEOREM CancelHolds == Spec => CancelIsFinal
<1>1. IInv /\ [Next]_vars
      => [\A h \in Handler :
             ConfirmWrite(h) /\ ~Active(row[job[h].post]) /\ Active(row'[job[h].post])
             => job[h] \notin barred]_vars
  BY DEF IInv, BarredUnheld, ConfirmWrite
<1> QED BY <1>1, SubscriptionsInvariant, PTL DEF Spec, CancelIsFinal
-----------------------------------------------------------------------------
(* The reply digest *)

\* A digest is loaded, being mailed, or to be marked.
AtDigest == cron \in {"clear", "send", "mark"}

\* The digests the pass has still to settle, the one it is at among them.
Ahead == batch \union {d \in {digest} : AtDigest}

\* A comment is fanned out once.
FannedOnce ==
    /\ fanout \intersect R!Range(order) = {}
    /\ \A c \in Comment : status[c] = "none" =>
           c \notin fanout /\ c \notin R!Range(order)

\* What the pass carries is queued, or was stamped behind its back as void; no
\* subscriber is in two of its digests.
CarriesOwed ==
    /\ cron = "idle" => batch = {}
    /\ AtDigest => digest \notin batch
    /\ \A d, e \in Ahead : d.sub = e.sub => d = e
    /\ \A d \in Ahead : R!Carried(d) \subseteq queued \union (done \intersect void)
    /\ AtDigest => R!Carried(digest) \subseteq R!InMail \union void
    /\ cron = "clear" => items = {}
    /\ cron = "mark" => R!InMail \subseteq delivered

\* What the pass read of a subscriber or a comment is true unless it changed
\* during the pass.
ReadIsFresh ==
    /\ \A d \in Ahead : d.sub \in lapsed
           \/ (R!Active(subs[d.sub]) /\ d.token = subs[d.sub].token)
    /\ AtDigest => \A c \in items : c \in hidden \/ status[c] = "approved"

\* What is still to be mailed was not mailed before, or no pass knows of it.
MailedOnce ==
    /\ delivered \subseteq queued \union done
    /\ queued \intersect delivered
         \subseteq orphaned \union {n \in R!InMail : cron = "mark"}
    /\ \A d \in Ahead : R!Carried(d) \intersect delivered
         \subseteq orphaned \union {n \in R!InMail : cron = "mark"}

DigestsInv ==
    R!TypeOK /\ FannedOnce /\ CarriesOwed /\ ReadIsFresh /\ MailedOnce

-----------------------------------------------------------------------------
\* A row is the same to the routes and to the digest.
LEMMA SameRows ==
    /\ R!Row = Row
    /\ \A r : R!Active(r) = Active(r) /\ R!Confirm(r) = Confirm(r)
              /\ R!Cancel(r) = Cancel(r)
    /\ \A r, t, auto : R!Upsert(r, t, auto) = Upsert(r, t, auto)
BY Zenon DEF R!Row, Row, R!Active, Active, R!Confirm, Confirm, R!Cancel, Cancel, R!Upsert,
             Upsert

LEMMA RenewedRow ==
    ASSUME NEW r \in R!Row, NEW t \in Nat, NEW auto \in BOOLEAN
    PROVE  LET u == R!Upsert(r, t + 1, auto) IN
           /\ u \in R!Row
           /\ ~auto /\ R!Active(r) => u = r
<1>1. t + 1 \in Nat \ {0} OBVIOUS
<1>2. CASE auto
  BY <1>1, <1>2, SameRows, VerifiedUpsert
<1>3. CASE ~auto
  BY <1>1, <1>3, SameRows, PlainUpsert
<1> QED BY <1>2, <1>3

LEMMA WrittenRow ==
    ASSUME NEW r \in R!Row
    PROVE  /\ R!Confirm(r) \in R!Row
           /\ R!Cancel(r) \in R!Row
           /\ R!Pending([r EXCEPT !.cancelled = FALSE]) => ~R!Active(r)
<1>1. R!Confirm(r) \in R!Row /\ R!Cancel(r) \in R!Row
  BY SameRows, ConfirmRow, CancelRow
<1>2. R!Pending([r EXCEPT !.cancelled = FALSE]) => ~R!Active(r)
  BY DEF R!Pending, R!Active, R!Row
<1> QED BY <1>1, <1>2

LEMMA Appended ==
    ASSUME order \in Seq(Comment), NEW c \in Comment
    PROVE  /\ Append(order, c) \in Seq(Comment)
           /\ R!Range(Append(order, c)) = R!Range(order) \union {c}
<1>1. /\ Append(order, c) \in Seq(Comment)
      /\ DOMAIN Append(order, c) = 1..(Len(order) + 1)
      /\ \A i \in 1..Len(order) : Append(order, c)[i] = order[i]
      /\ Append(order, c)[Len(order) + 1] = c
      /\ DOMAIN order = 1..Len(order) /\ Len(order) \in Nat
  OBVIOUS
<1>2. R!Range(order) = {order[i] : i \in 1..Len(order)}
  BY <1>1 DEF R!Range
<1>3. R!Range(Append(order, c)) = {Append(order, c)[i] : i \in 1..(Len(order) + 1)}
  BY <1>1 DEF R!Range
<1>4. 1..(Len(order) + 1) = (1..Len(order)) \union {Len(order) + 1}
  BY <1>1
<1> HIDE DEF R!Range
<1> QED BY <1>1, <1>2, <1>3, <1>4

LEMMA ListsDigests ==
    ASSUME NEW d \in R!PendingDigests
    PROVE  /\ d.sub \in Sub /\ d.comments \subseteq R!Due(d.sub)
           /\ d = [sub |-> d.sub, token |-> subs[d.sub].token,
                   comments |-> R!Oldest(MaxPerDigest, R!Due(d.sub))]
           /\ R!Due(d.sub) # {}
<1> DEFINE Groups == {[sub |-> s, token |-> subs[s].token, comments |-> R!Due(s)] :
                         s \in {s \in Sub : R!Due(s) # {}}}
           Cut(g) == [sub |-> g.sub, token |-> g.token,
                      comments |-> R!Oldest(MaxPerDigest, g.comments)]
<1>1. PICK g \in Groups : d = Cut(g)
  BY DEF R!PendingDigests
<1>2. PICK s \in Sub : g = [sub |-> s, token |-> subs[s].token, comments |-> R!Due(s)]
                       /\ R!Due(s) # {}
  BY <1>1
<1>3. R!Oldest(MaxPerDigest, R!Due(s)) \subseteq R!Due(s)
  BY DEF R!Oldest
<1> QED BY <1>1, <1>2, <1>3

LEMMA DueIsQueued ==
    ASSUME NEW s \in Sub
    PROVE  /\ R!Due(s) \subseteq Comment
           /\ \A c \in R!Due(s) : <<s, c>> \in queued
           /\ R!Due(s) # {} => R!Active(subs[s])
BY DEF R!Due

\* The digests of a list, and what the statement behind it has found.
LEMMA Listed ==
    ASSUME R!TypeOK, NEW d \in R!PendingDigests
    PROVE  /\ d \in R!Digest
           /\ R!Carried(d) \subseteq queued
           /\ R!Active(subs[d.sub]) /\ d.token = subs[d.sub].token
           /\ \A e \in R!PendingDigests : e.sub = d.sub => e = d
<1>1. d.sub \in Sub /\ d.comments \subseteq R!Due(d.sub) /\ d.token = subs[d.sub].token
      /\ R!Active(subs[d.sub]) /\ R!Due(d.sub) \subseteq Comment
      /\ \A c \in R!Due(d.sub) : <<d.sub, c>> \in queued
  BY ListsDigests, DueIsQueued
<1>2. d = [sub |-> d.sub, token |-> subs[d.sub].token,
           comments |-> R!Oldest(MaxPerDigest, R!Due(d.sub))]
  BY ListsDigests
<1>3. subs[d.sub].token \in Nat
  BY <1>1 DEF R!TypeOK, R!Row
<1>4. d \in R!Digest
  BY <1>1, <1>2, <1>3 DEF R!Digest
<1>5. R!Carried(d) \subseteq queued
  BY <1>1 DEF R!Carried
<1>6. \A e \in R!PendingDigests : e.sub = d.sub => e = d
  BY <1>2, ListsDigests
<1> QED BY <1>1, <1>4, <1>5, <1>6

\* What is carried of comments is a set of notifications.
LEMMA CarriedItems ==
    ASSUME NEW d \in R!Digest
    PROVE  R!Carried(d) \subseteq R!Item /\ \A n \in R!Carried(d) : n[1] = d.sub
BY DEF R!Carried, R!Digest, R!Item

\* No step of one part writes what another part holds.
LEMMA FannedKept ==
    ASSUME FannedOnce, UNCHANGED <<status, fanout, order>>
    PROVE  FannedOnce'
BY DEF FannedOnce, R!Range

LEMMA RowsKeepType ==
    ASSUME R!TypeOK, NEW s \in Sub,
           \/ R!CancelRow(s) \/ R!CancelStampLost(s) \/ R!PressConfirm(s)
           \/ R!Renew(s, TRUE) \/ R!Renew(s, FALSE)
    PROVE  R!TypeOK'
<1>1. subs' \in [Sub -> R!Row] /\ tokens' \in Nat /\ stamping' \subseteq Sub
  <2>1. CASE R!CancelRow(s)
    BY <2>1, WrittenRow DEF R!CancelRow, R!TypeOK
  <2>2. CASE R!CancelStampLost(s)
    BY <2>2 DEF R!CancelStampLost, R!TypeOK
  <2>3. CASE R!PressConfirm(s)
    BY <2>3, WrittenRow DEF R!PressConfirm, R!TypeOK
  <2>4. ASSUME NEW auto \in BOOLEAN, R!Renew(s, auto)
        PROVE  subs' \in [Sub -> R!Row] /\ tokens' \in Nat /\ stamping' \subseteq Sub
    <3>1. R!Upsert(subs[s], tokens', auto) \in R!Row
      BY <2>4, RenewedRow DEF R!Renew, R!TypeOK
    <3> QED BY <2>4, <3>1 DEF R!Renew, R!TypeOK
  <2> QED BY <2>1, <2>2, <2>3, <2>4
<1>2. UNCHANGED <<status, fanout, order, young, queued, done, cron, batch, digest, items>>
  BY DEF R!CancelRow, R!CancelStampLost, R!PressConfirm, R!Renew, R!posts, R!queue,
         R!pass, R!work
<1> QED BY <1>1, <1>2 DEF R!TypeOK, R!Range, R!Item

LEMMA CommentsKeepType ==
    ASSUME R!TypeOK, FannedOnce, NEW c \in Comment, R!CommentStep(c)
    PROVE  R!TypeOK' /\ FannedOnce'
<1>1. UNCHANGED <<subs, tokens, stamping, done, cron, batch, digest, items>>
  BY DEF R!CommentStep, R!PostComment, R!Fanout, R!FanoutLost, R!Hide, R!Approve,
         R!subs, R!queue, R!pass, R!work
<1>2. CASE R!Fanout(c)
  <2>1. R!Range(order') = R!Range(order) \union {c} /\ order' \in Seq(Comment)
    BY <1>2, Appended DEF R!Fanout, R!TypeOK
  <2>2. UNCHANGED status /\ fanout' = fanout \ {c} /\ young' = young \union {c}
        /\ c \in fanout
    BY <1>2 DEF R!Fanout
  <2>3. queued' = queued \union
          {<<s, c>> : s \in {s \in Sub : R!Active(subs[s]) /\ s # Author[c]}}
    BY <1>2 DEF R!Fanout
  <2>4. FannedOnce'
    BY <2>1, <2>2 DEF FannedOnce
  <2>5. /\ queued' \subseteq R!Item
        /\ \A n \in queued' : n[2] \in R!Range(order') /\ Author[n[2]] # n[1]
        /\ queued' \intersect done = {}
    <3>1. \A n \in done : n[2] # c
      BY <2>2 DEF R!TypeOK, FannedOnce
    <3> QED BY <2>1, <2>3, <3>1 DEF R!TypeOK, R!Item
  <2>6. R!Range(order)' = R!Range(order')
    BY DEF R!Range
  <2> QED BY <1>1, <2>1, <2>2, <2>4, <2>5, <2>6 DEF R!TypeOK, R!Item
<1>3. ASSUME UNCHANGED <<order, young, queued>>,
             status' \in [Comment -> {"none", "held", "approved"}],
             fanout' \subseteq fanout \union {x \in {c} : status[c] = "none"},
             \A x \in Comment : status'[x] = "none" => status[x] = "none" /\ x \notin fanout'
      PROVE  R!TypeOK' /\ FannedOnce'
  BY <1>1, <1>3 DEF R!TypeOK, FannedOnce, R!Range, R!Item
<1>4. CASE ~R!Fanout(c)
  <2>1. UNCHANGED <<order, young, queued>>
    BY <1>4 DEF R!CommentStep, R!PostComment, R!FanoutLost, R!Hide, R!Approve, R!queue
  <2>2. \/ \E v \in {"approved", "held"} : R!PostComment(c, v)
        \/ R!FanoutLost(c) \/ R!Hide(c) \/ R!Approve(c)
    BY <1>4 DEF R!CommentStep
  <2>3. /\ status' \in [Comment -> {"none", "held", "approved"}]
        /\ fanout' \subseteq fanout \union {x \in {c} : status[c] = "none"}
        /\ \A x \in Comment : status'[x] = "none" => status[x] = "none" /\ x \notin fanout'
    <3>1. /\ status \in [Comment -> {"none", "held", "approved"}]
          /\ \A x \in Comment : status[x] = "none" => x \notin fanout
      BY DEF R!TypeOK, FannedOnce
    <3>2. CASE R!FanoutLost(c)
      BY <3>1, <3>2 DEF R!FanoutLost
    <3>3. ASSUME NEW v \in {"approved", "held"}, R!PostComment(c, v)
          PROVE  /\ status' = [status EXCEPT ![c] = v]
                 /\ fanout' \subseteq fanout \union {x \in {c} : status[c] = "none"}
      BY <3>3 DEF R!PostComment
    <3>4. CASE R!Hide(c)
      BY <3>1, <3>4 DEF R!Hide
    <3>5. CASE R!Approve(c)
      BY <3>1, <3>5 DEF R!Approve
    <3> QED BY <2>2, <3>1, <3>2, <3>3, <3>4, <3>5
  <2> QED BY <1>3, <2>1, <2>3
<1> QED BY <1>2, <1>4

LEMMA CronKeepsType ==
    ASSUME R!TypeOK, CarriesOwed, R!CronStep
    PROVE  R!TypeOK'
<1>1. UNCHANGED <<subs, tokens, stamping, status, fanout, order, young>>
  BY DEF R!CronStep, R!List, R!Load, R!SendFail, R!MarkSent, R!Finish, R!Crash,
         R!Mailed, R!SendOk, R!SendLost, R!Proceed, R!subs, R!posts
<1>2. ASSUME queued' \subseteq queued, done' \subseteq done \union (queued \ queued'),
             batch' \subseteq R!Digest, digest' \in R!Digest \union {R!NoDigest},
             items' \subseteq digest'.comments,
             cron' \in {"idle", "next", "clear", "send", "mark"},
             cron' \in {"clear", "send", "mark"} => digest' \in R!Digest
      PROVE  R!TypeOK'
  BY <1>1, <1>2 DEF R!TypeOK, R!Range, R!Item, R!Digest, R!NoDigest
<1>3. CASE R!List
  <2>1. batch' \subseteq R!Digest
    BY <1>3, Listed DEF R!List
  <2> QED BY <1>2, <1>3, <2>1 DEF R!List, R!TypeOK, R!queue
<1>4. CASE R!Load
  <2>1. batch' \subseteq R!Digest /\ digest' \in R!Digest
    BY <1>4 DEF R!Load, R!TypeOK
  <2> QED BY <1>2, <1>4, <2>1 DEF R!Load, R!queue
<1>5. CASE R!SendFail \/ \E s \in Sub : R!SendLost(s)
  BY <1>2, <1>5 DEF R!SendFail, R!SendLost, R!Proceed, R!queue, R!TypeOK, R!NoDigest
<1>6. CASE R!MarkSent
  <2>1. /\ queued' = queued \ R!Carried(digest)
        /\ done' = done \union R!Carried(digest)
    BY <1>6 DEF R!MarkSent
  <2>2. R!Carried(digest) \subseteq queued \union done
    BY <1>6 DEF R!MarkSent, CarriesOwed, AtDigest, Ahead
  <2>3. done' \subseteq done \union (queued \ queued')
    BY <2>1, <2>2
  <2> QED BY <1>1, <1>2, <1>6, <2>1, <2>3 DEF R!MarkSent, R!Proceed, R!TypeOK, R!NoDigest
<1>7. CASE R!Finish \/ \E s \in Sub : R!SendOk(s)
  BY <1>2, <1>7 DEF R!Finish, R!SendOk, R!queue, R!work, R!TypeOK
<1>8. CASE R!Crash
  BY <1>2, <1>8 DEF R!Crash, R!queue, R!TypeOK, R!NoDigest
<1> QED BY <1>3, <1>4, <1>5, <1>6, <1>7, <1>8 DEF R!CronStep, R!Mailed

LEMMA StampKeepsType ==
    ASSUME R!TypeOK, NEW s \in Sub, R!CancelStamp(s)
    PROVE  R!TypeOK'
<1>1. UNCHANGED <<subs, tokens, status, fanout, order, young, cron, batch, digest, items>>
  BY DEF R!CancelStamp, R!posts, R!pass, R!work
<1>2. /\ queued' \subseteq queued /\ done' = done \union (queued \ queued')
      /\ stamping' \subseteq stamping
  BY DEF R!CancelStamp
<1> QED BY <1>1, <1>2 DEF R!TypeOK, R!Range, R!Item

LEMMA RipenKeepsType ==
    ASSUME R!TypeOK, R!Ripen
    PROVE  R!TypeOK'
BY DEF R!TypeOK, R!Ripen, R!Range, R!Item, R!subs, R!queue, R!pass, R!work

\* Of these only the comments' own steps can be about who was fanned out.
LEMMA DigestTypes ==
    ASSUME R!TypeOK, FannedOnce, CarriesOwed, [R!Next]_(R!vars)
    PROVE  R!TypeOK' /\ FannedOnce'
<1>1. ASSUME NEW c \in Comment, R!CommentStep(c)
      PROVE  R!TypeOK' /\ FannedOnce'
  BY <1>1, CommentsKeepType
<1>2. CASE \E s \in Sub : R!SubStep(s)
  <2>1. R!TypeOK'
    BY <1>2, RowsKeepType, StampKeepsType DEF R!SubStep
  <2>2. UNCHANGED <<status, fanout, order>>
    BY <1>2 DEF R!SubStep, R!CancelRow, R!CancelStamp, R!CancelStampLost, R!Renew,
                R!PressConfirm, R!posts
  <2> QED BY <2>1, <2>2, FannedKept
<1>3. CASE R!CronStep
  <2>1. UNCHANGED <<status, fanout, order>>
    BY <1>3 DEF R!CronStep, R!List, R!Load, R!SendFail, R!MarkSent, R!Finish, R!Crash,
           R!Mailed, R!SendOk, R!SendLost, R!Proceed, R!posts
  <2> QED BY <1>3, <2>1, FannedKept, CronKeepsType
<1>4. CASE R!Ripen
  <2>1. UNCHANGED <<status, fanout, order>>
    BY <1>4 DEF R!Ripen
  <2> QED BY <1>4, <2>1, FannedKept, RipenKeepsType
<1>5. CASE UNCHANGED R!vars
  <2>1. UNCHANGED <<status, fanout, order, subs, tokens, stamping, young, queued, done,
                    cron, batch, digest, items>>
    BY <1>5 DEF R!vars, R!subs, R!posts, R!queue, R!pass, R!work
  <2> QED BY <2>1, FannedKept DEF R!TypeOK, R!Range, R!Item, R!Digest
<1> QED BY <1>1, <1>2, <1>3, <1>4, <1>5 DEF R!Next

\* What everybody but the pass leaves alone.
PassKept == UNCHANGED <<cron, batch, digest, items>>

LEMMA OthersKeepPass ==
    ASSUME \/ \E c \in Comment : R!CommentStep(c)
           \/ \E s \in Sub : R!SubStep(s)
           \/ R!Ripen
           \/ UNCHANGED R!vars
    PROVE  /\ PassKept
           /\ UNCHANGED <<delivered, orphaned>> /\ void \subseteq void'
           /\ \/ queued \subseteq queued' /\ UNCHANGED done
              \/ /\ queued' \subseteq queued
                 /\ done' = done \union (queued \ queued')
                 /\ queued \ queued' \subseteq void'
<1>1. CASE \E c \in Comment : R!CommentStep(c)
  BY <1>1 DEF R!CommentStep, R!PostComment, R!Fanout, R!FanoutLost, R!Hide, R!Approve,
              R!queue, R!pass, R!work, R!past, R!mails, PassKept
<1>2. CASE \E s \in Sub : R!CancelStamp(s)
  BY <1>2 DEF R!CancelStamp, R!pass, R!work, R!mails, PassKept
<1>3. CASE \E s \in Sub : R!SubStep(s) /\ ~R!CancelStamp(s)
  BY <1>3 DEF R!SubStep, R!CancelRow, R!CancelStampLost, R!Renew, R!PressConfirm,
              R!queue, R!pass, R!work, R!past, R!mails, PassKept
<1>4. CASE R!Ripen \/ UNCHANGED R!vars
  BY <1>4 DEF R!Ripen, R!vars, R!queue, R!pass, R!work, R!past, R!mails, PassKept
<1> QED BY <1>1, <1>2, <1>3, <1>4

LEMMA PassHolds ==
    ASSUME PassKept
    PROVE  /\ Ahead' = Ahead /\ AtDigest' = AtDigest /\ R!InMail' = R!InMail
           /\ \A d : R!Carried(d)' = R!Carried(d)
BY DEF PassKept, Ahead, AtDigest, R!InMail, R!Carried

LEMMA CarriesQuietly ==
    ASSUME CarriesOwed, PassKept, delivered \subseteq delivered', void \subseteq void',
           queued \union (done \intersect void)
             \subseteq queued' \union (done' \intersect void')
    PROVE  CarriesOwed'
<1>1. /\ cron = "idle" => batch = {}
      /\ AtDigest => digest \notin batch
      /\ \A d, e \in Ahead : d.sub = e.sub => d = e
  BY DEF CarriesOwed
<1>2. \A d \in Ahead : R!Carried(d) \subseteq queued \union (done \intersect void)
  BY DEF CarriesOwed
<1>3. /\ AtDigest => R!Carried(digest) \subseteq R!InMail \union void
      /\ cron = "clear" => items = {}
      /\ cron = "mark" => R!InMail \subseteq delivered
  BY DEF CarriesOwed
<1>4. UNCHANGED <<cron, batch, digest, items, Ahead, AtDigest, R!InMail>>
      /\ \A d : R!Carried(d)' = R!Carried(d)
      /\ R!Carried(digest)' = R!Carried(digest)
  BY PassHolds DEF PassKept, R!Carried
<1>5. \A d \in Ahead : R!Carried(d) \subseteq queued' \union (done' \intersect void')
  BY <1>2
<1>6. /\ AtDigest => R!Carried(digest) \subseteq R!InMail \union void'
      /\ cron = "mark" => R!InMail \subseteq delivered'
  BY <1>3
<1> HIDE DEF Ahead, AtDigest
<1> QED BY <1>1, <1>3, <1>4, <1>5, <1>6 DEF CarriesOwed

\* The pass goes on to the digests it has not come to, or ends.
LEMMA CarriesOn ==
    ASSUME CarriesOwed, batch' \subseteq batch, cron' \in {"idle", "next"},
           cron' = "idle" => batch' = {},
           \A d \in batch' : R!Carried(d) \subseteq queued' \union (done' \intersect void')
    PROVE  CarriesOwed'
<1>1. ~AtDigest' /\ Ahead' = batch'
  BY DEF AtDigest, Ahead
<1>2. \A d, e \in batch' : d.sub = e.sub => d = e
  BY DEF CarriesOwed, Ahead
<1>3. \A d : R!Carried(d)' = R!Carried(d)
  BY DEF R!Carried
<1> QED BY <1>1, <1>2, <1>3 DEF CarriesOwed

LEMMA CronCarries ==
    ASSUME R!TypeOK, CarriesOwed, R!CronStep
    PROVE  CarriesOwed'
<1>1. CASE R!List
  <2>1. cron' = "next" /\ batch' = R!PendingDigests /\ UNCHANGED <<queued, done, void>>
    BY <1>1 DEF R!List, R!queue, R!past
  <2>2. ~AtDigest' /\ Ahead' = batch'
    BY <2>1 DEF AtDigest, Ahead
  <2>3. \A d, e \in batch' : d.sub = e.sub => d = e
    BY <2>1, Listed
  <2>4. \A d \in batch' : R!Carried(d) \subseteq queued
    BY <2>1, Listed
  <2>5. \A d : R!Carried(d)' = R!Carried(d)
    BY DEF R!Carried
  <2> QED BY <2>1, <2>2, <2>3, <2>4, <2>5 DEF CarriesOwed
<1>2. CASE R!Load
  <2>1. /\ cron = "next" /\ digest' \in batch /\ batch' = batch \ {digest'}
        /\ cron' = (IF items' = {} THEN "clear" ELSE "send")
        /\ void' = void \union (R!Carried(digest') \ R!InMail')
        /\ UNCHANGED <<queued, done>>
    BY <1>2 DEF R!Load, R!queue
  <2>2. Ahead' = batch /\ Ahead = batch /\ AtDigest'
    BY <2>1 DEF Ahead, AtDigest
  <2>3. \A d : R!Carried(d)' = R!Carried(d)
    BY DEF R!Carried
  <2>4. R!Carried(digest)' = R!Carried(digest')
    BY DEF R!Carried
  <2>5. /\ \A d, e \in batch : d.sub = e.sub => d = e
        /\ \A d \in batch : R!Carried(d) \subseteq queued \union (done \intersect void)
    BY <2>2 DEF CarriesOwed
  <2>6. /\ digest' \notin batch'
        /\ \A d \in batch : R!Carried(d) \subseteq queued' \union (done' \intersect void')
    BY <2>1, <2>5
  <2> QED BY <2>1, <2>2, <2>3, <2>4, <2>5, <2>6 DEF CarriesOwed
<1>3. ASSUME NEW s \in Sub, R!SendOk(s)
      PROVE  CarriesOwed'
  <2>1. /\ cron = "send" /\ cron' = "mark" /\ delivered' = delivered \union R!InMail
        /\ UNCHANGED <<batch, digest, items, queued, done, void>>
    BY <1>3 DEF R!SendOk, R!queue, R!work, R!past
  <2>2. Ahead' = Ahead /\ AtDigest /\ AtDigest' /\ R!InMail' = R!InMail
    BY <2>1 DEF Ahead, AtDigest, R!InMail
  <2>3. \A d : R!Carried(d)' = R!Carried(d)
    BY DEF R!Carried
  <2>4. R!Carried(digest)' = R!Carried(digest)
    BY <2>1 DEF R!Carried
  <2> QED BY <2>1, <2>2, <2>3, <2>4 DEF CarriesOwed
<1>4. CASE R!SendFail \/ R!Finish \/ R!Crash \/ \E s \in Sub : R!SendLost(s)
  <2>1. /\ batch' \subseteq batch /\ cron' \in {"idle", "next"} /\ (cron' = "idle" => batch' = {})
        /\ UNCHANGED <<queued, done, void>>
    BY <1>4 DEF R!SendFail, R!SendLost, R!Finish, R!Crash, R!Proceed, R!queue, R!past, R!work
  <2> QED BY <2>1, CarriesOn DEF CarriesOwed, Ahead
<1>5. CASE R!MarkSent
  <2>1. /\ cron' = "next" /\ UNCHANGED <<batch, void>> /\ AtDigest
        /\ queued' = queued \ R!Carried(digest)
        /\ done' = done \union R!Carried(digest)
    BY <1>5 DEF R!MarkSent, R!Proceed, R!past, AtDigest
  <2>2. digest \notin batch /\ digest \in R!Digest /\ batch \subseteq R!Digest
        /\ \A d \in batch : d.sub # digest.sub
    BY <2>1 DEF CarriesOwed, Ahead, AtDigest, R!TypeOK
  <2>3. \A d \in batch : R!Carried(d) \intersect R!Carried(digest) = {}
    BY <2>2, CarriedItems
  <2>4. \A d \in batch : R!Carried(d) \subseteq queued \union (done \intersect void)
    BY DEF CarriesOwed, Ahead
  <2>5. \A d \in batch : R!Carried(d) \subseteq queued' \union (done' \intersect void')
    BY <2>1, <2>3, <2>4
  <2> QED BY <2>1, <2>5, CarriesOn
<1> QED BY <1>1, <1>2, <1>3, <1>4, <1>5 DEF R!CronStep, R!Mailed

LEMMA CarriesStep ==
    ASSUME R!TypeOK, CarriesOwed, [R!Next]_(R!vars)
    PROVE  CarriesOwed'
<1>1. CASE R!CronStep
  BY <1>1, CronCarries
<1>2. CASE ~R!CronStep
  <2>1. \/ \E c \in Comment : R!CommentStep(c)
        \/ \E s \in Sub : R!SubStep(s)
        \/ R!Ripen
        \/ UNCHANGED R!vars
    BY <1>2 DEF R!Next
  <2> QED BY <2>1, OthersKeepPass, CarriesQuietly
<1> QED BY <1>1, <1>2

\* While a pass runs, who was active stays so with the same token, or lapses,
\* and who was public stays so, or is hidden.
LEMMA DuringPass ==
    ASSUME R!TypeOK, cron # "idle",
           \/ \E c \in Comment : R!CommentStep(c)
           \/ \E s \in Sub : R!SubStep(s)
           \/ R!Ripen
           \/ UNCHANGED R!vars
    PROVE  /\ lapsed \subseteq lapsed' /\ hidden \subseteq hidden'
           /\ \A t \in Sub : R!Active(subs[t]) =>
                 t \in lapsed' \/ subs'[t] = subs[t]
           /\ \A c \in Comment : status[c] = "approved" =>
                 c \in hidden' \/ status'[c] = "approved"
<1>1. subs \in [Sub -> R!Row] /\ tokens \in Nat
      /\ status \in [Comment -> {"none", "held", "approved"}]
  BY DEF R!TypeOK
<1>2. ASSUME NEW c \in Comment, R!CommentStep(c)
      PROVE  /\ UNCHANGED <<subs, lapsed>> /\ hidden \subseteq hidden'
             /\ \A x \in Comment : status[x] = "approved" =>
                   x \in hidden' \/ status'[x] = "approved"
  <2>1. CASE R!Hide(c)
    BY <1>1, <2>1 DEF R!Hide, R!During, R!subs
  <2>2. CASE R!Approve(c)
    BY <1>1, <2>2 DEF R!Approve, R!subs, R!past
  <2>3. CASE R!Fanout(c) \/ R!FanoutLost(c)
    BY <2>3 DEF R!Fanout, R!FanoutLost, R!subs, R!past
  <2>4. ASSUME NEW v, R!PostComment(c, v)
        PROVE  /\ UNCHANGED <<subs, lapsed>> /\ hidden \subseteq hidden'
               /\ \A x \in Comment : status[x] = "approved" => status'[x] = "approved"
    BY <1>1, <2>4 DEF R!PostComment, R!subs, R!past
  <2> QED BY <1>2, <2>1, <2>2, <2>3, <2>4 DEF R!CommentStep
<1>3. ASSUME NEW s \in Sub, R!SubStep(s)
      PROVE  /\ UNCHANGED <<status, hidden>> /\ lapsed \subseteq lapsed'
             /\ \A t \in Sub : R!Active(subs[t]) => t \in lapsed' \/ subs'[t] = subs[t]
  <2>1. CASE R!CancelRow(s)
    BY <1>1, <2>1 DEF R!CancelRow, R!During, R!posts
  <2>2. CASE R!CancelStamp(s) \/ R!CancelStampLost(s)
    BY <2>2 DEF R!CancelStamp, R!CancelStampLost, R!posts, R!past
  <2>3. CASE R!PressConfirm(s)
    BY <1>1, <2>3, WrittenRow DEF R!PressConfirm, R!posts, R!past
  <2>4. CASE R!Renew(s, TRUE)
    BY <1>1, <2>4 DEF R!Renew, R!During, R!posts
  <2>5. CASE R!Renew(s, FALSE)
    <3>1. R!Active(subs[s]) => R!Upsert(subs[s], tokens', FALSE) = subs[s]
      BY <1>1, <2>5, RenewedRow DEF R!Renew
    <3>2. UNCHANGED <<status, hidden>> /\ lapsed \subseteq lapsed'
          /\ subs' = [subs EXCEPT ![s] = R!Upsert(subs[s], tokens', FALSE)]
      BY <2>5 DEF R!Renew, R!During, R!posts
    <3> QED BY <1>1, <3>1, <3>2
  <2> QED BY <1>3, <2>1, <2>2, <2>3, <2>4, <2>5 DEF R!SubStep
<1>4. CASE R!Ripen \/ UNCHANGED R!vars
  BY <1>4 DEF R!Ripen, R!vars, R!subs, R!posts, R!past
<1> QED BY <1>2, <1>3, <1>4

LEMMA FreshStep ==
    ASSUME R!TypeOK, CarriesOwed, ReadIsFresh, [R!Next]_(R!vars)
    PROVE  ReadIsFresh'
<1> DEFINE Fits(d) == d.sub \in lapsed
                      \/ (R!Active(subs[d.sub]) /\ d.token = subs[d.sub].token)
<1>1. \A d \in Ahead : Fits(d) /\ d \in R!Digest /\ d.sub \in Sub
  <2>1. Ahead \subseteq R!Digest
    BY DEF Ahead, AtDigest, R!TypeOK
  <2> QED BY <2>1 DEF ReadIsFresh, R!Digest
<1>2. CASE \/ \E c \in Comment : R!CommentStep(c)
           \/ \E s \in Sub : R!SubStep(s)
           \/ R!Ripen
           \/ UNCHANGED R!vars
  <2>1. PassKept
    BY <1>2, OthersKeepPass
  <2>2. UNCHANGED <<Ahead, AtDigest, items, digest>>
    BY <2>1, PassHolds DEF PassKept
  <2>3. CASE cron = "idle"
    BY <2>2, <2>3 DEF ReadIsFresh, CarriesOwed, Ahead, AtDigest
  <2>4. CASE cron # "idle"
    <3>1. \A d \in Ahead : Fits(d)'
      <4> SUFFICES ASSUME NEW d \in Ahead PROVE Fits(d)'
        OBVIOUS
      <4>1. d.sub \in lapsed' \/ (R!Active(subs[d.sub]) /\ d.token = subs[d.sub].token)
        BY <1>1, <1>2, <2>4, DuringPass
      <4>2. d.sub \in lapsed' \/ subs'[d.sub] = subs[d.sub]
        BY <1>1, <1>2, <2>4, <4>1, DuringPass
      <4> QED BY <4>1, <4>2 DEF R!Active
    <3>2. AtDigest => \A c \in items : c \in hidden' \/ status'[c] = "approved"
      <4>1. AtDigest => items \subseteq Comment
        BY DEF AtDigest, R!TypeOK, R!Digest
      <4> QED BY <1>2, <2>4, <4>1, DuringPass DEF ReadIsFresh
    <3> HIDE DEF Ahead, AtDigest
    <3> QED BY <2>2, <3>1, <3>2 DEF ReadIsFresh
  <2> QED BY <2>3, <2>4
<1>3. CASE R!CronStep
  <2>1. UNCHANGED <<subs, status>>
    BY <1>3 DEF R!CronStep, R!List, R!Load, R!SendFail, R!MarkSent, R!Finish, R!Crash,
                R!Mailed, R!SendOk, R!SendLost, R!Proceed, R!subs, R!posts
  <2>2. CASE R!List
    <3>1. batch' = R!PendingDigests /\ cron' = "next"
      BY <2>2 DEF R!List
    <3> QED BY <2>1, <3>1, Listed DEF ReadIsFresh, Ahead, AtDigest
  <2>3. CASE R!Load
    <3>1. /\ cron = "next" /\ digest' \in batch /\ batch' = batch \ {digest'}
          /\ items' = {c \in digest'.comments : status[c] = "approved"}
          /\ UNCHANGED <<lapsed, hidden>>
      BY <2>3 DEF R!Load
    <3>2. Ahead' \subseteq batch /\ batch \subseteq Ahead
      BY <3>1 DEF Ahead
    <3>3. \A c \in items' : status'[c] = "approved"
      BY <2>1, <3>1
    <3> QED BY <1>1, <2>1, <3>1, <3>2, <3>3 DEF ReadIsFresh
  <2>4. CASE \E s \in Sub : R!SendOk(s)
    <3>1. cron = "send" /\ cron' = "mark"
          /\ UNCHANGED <<batch, digest, items, lapsed, hidden>>
      BY <2>4 DEF R!SendOk, R!work, R!past
    <3>2. Ahead' = Ahead /\ AtDigest
      BY <3>1 DEF Ahead, AtDigest
    <3> HIDE DEF Ahead, AtDigest
    <3> QED BY <2>1, <3>1, <3>2 DEF ReadIsFresh
  <2>5. CASE R!SendFail \/ R!MarkSent \/ \E s \in Sub : R!SendLost(s)
    <3>1. batch' \subseteq batch /\ cron' = "next" /\ UNCHANGED lapsed
      BY <2>5 DEF R!SendFail, R!SendLost, R!MarkSent, R!Proceed, R!past
    <3>2. Ahead' \subseteq Ahead /\ ~AtDigest'
      BY <3>1 DEF Ahead, AtDigest
    <3> HIDE DEF Ahead, AtDigest
    <3> QED BY <1>1, <2>1, <3>1, <3>2 DEF ReadIsFresh
  <2>6. CASE R!Finish \/ R!Crash
    <3>1. batch' = {} /\ cron' = "idle"
      BY <2>6 DEF R!Finish, R!Crash, R!work
    <3> QED BY <3>1 DEF ReadIsFresh, Ahead, AtDigest
  <2> QED BY <1>3, <2>2, <2>3, <2>4, <2>5, <2>6 DEF R!CronStep, R!Mailed
<1> QED BY <1>2, <1>3 DEF R!Next

LEMMA OnceStep ==
    ASSUME R!TypeOK, FannedOnce, CarriesOwed, MailedOnce, [R!Next]_(R!vars)
    PROVE  MailedOnce'
<1> DEFINE Mailing == {n \in R!InMail : cron = "mark"}
<1>1. /\ delivered \subseteq queued \union done
      /\ queued \intersect delivered \subseteq orphaned \union Mailing
      /\ \A d \in Ahead : R!Carried(d) \intersect delivered \subseteq orphaned \union Mailing
  BY DEF MailedOnce
<1>2. \A d : R!Carried(d)' = R!Carried(d)
  BY DEF R!Carried
<1>3. CASE \/ \E c \in Comment : R!CommentStep(c)
           \/ \E s \in Sub : R!SubStep(s)
           \/ R!Ripen
           \/ UNCHANGED R!vars
  <2>1. /\ PassKept /\ UNCHANGED <<delivered, orphaned>>
        /\ queued \union done \subseteq queued' \union done'
    BY <1>3, OthersKeepPass
  <2>2. UNCHANGED <<Ahead, Mailing>>
    BY <2>1, PassHolds DEF PassKept
  <2>3. queued' \intersect delivered \subseteq queued
    <3>1. ASSUME NEW c \in Comment, R!Fanout(c)
          PROVE  queued' \intersect delivered \subseteq queued
      <4>1. /\ c \in fanout
            /\ queued' = queued \union
                 {<<s, c>> : s \in {s \in Sub : R!Active(subs[s]) /\ s # Author[c]}}
        BY <3>1 DEF R!Fanout
      <4>2. \A n \in queued \union done : n[2] # c
        BY <4>1 DEF R!TypeOK, FannedOnce
      <4> QED BY <1>1, <4>1, <4>2
    <3>2. CASE \A c \in Comment : ~R!Fanout(c)
      <4>1. queued' \subseteq queued
        BY <1>3, <3>2 DEF R!CommentStep, R!PostComment, R!FanoutLost, R!Hide, R!Approve,
             R!SubStep, R!CancelRow, R!CancelStamp, R!CancelStampLost, R!Renew,
             R!PressConfirm, R!Ripen, R!vars, R!queue
      <4> QED BY <4>1
    <3> QED BY <3>1, <3>2
  <2>4. /\ delivered' \subseteq queued' \union done'
        /\ queued' \intersect delivered' \subseteq orphaned' \union Mailing
        /\ \A d \in Ahead : R!Carried(d) \intersect delivered'
               \subseteq orphaned' \union Mailing
    BY <1>1, <2>1, <2>3
  <2> HIDE DEF Ahead
  <2> QED BY <1>2, <2>2, <2>4 DEF MailedOnce
<1>4. CASE R!CronStep
  <2>1. ASSUME batch' \subseteq batch, cron' \in {"idle", "next"},
               UNCHANGED delivered, orphaned \subseteq orphaned',
               queued' \subseteq queued, queued \union done \subseteq queued' \union done',
               \/ Mailing = {}
               \/ Mailing \subseteq orphaned'
               \/ /\ queued' \intersect Mailing = {}
                  /\ \A d \in batch : R!Carried(d) \intersect Mailing = {}
        PROVE  MailedOnce'
    <3>1. Ahead' = batch' /\ batch \subseteq Ahead
      BY <2>1 DEF Ahead, AtDigest
    <3>2. \A d \in batch : R!Carried(d) \intersect delivered \subseteq orphaned \union Mailing
      BY <1>1, <3>1
    <3>3. queued' \intersect delivered \subseteq orphaned'
      BY <1>1, <2>1
    <3>4. \A d \in batch : R!Carried(d) \intersect delivered \subseteq orphaned'
      BY <2>1, <3>2
    <3> QED BY <1>1, <1>2, <2>1, <3>1, <3>3, <3>4 DEF MailedOnce
  <2>2. CASE R!List
    <3>1. /\ cron = "idle" /\ cron' = "next" /\ batch' = R!PendingDigests
          /\ UNCHANGED <<queued, done, delivered, orphaned>>
      BY <2>2 DEF R!List, R!queue, R!mails
    <3>2. Ahead' = batch' /\ \A d \in batch' : R!Carried(d) \subseteq queued
      BY <3>1, Listed DEF Ahead, AtDigest
    <3>3. queued \intersect delivered \subseteq orphaned
      BY <1>1, <3>1
    <3> QED BY <1>1, <1>2, <3>1, <3>2, <3>3 DEF MailedOnce
  <2>3. CASE R!Load
    <3>1. /\ cron = "next" /\ digest' \in batch /\ batch' = batch \ {digest'}
          /\ UNCHANGED <<queued, done, delivered, orphaned>>
      BY <2>3 DEF R!Load, R!queue, R!mails
    <3>2. Ahead' \subseteq batch /\ batch \subseteq Ahead
      BY <3>1 DEF Ahead
    <3>3. Mailing = {}
      BY <3>1
    <3> HIDE DEF Mailing
    <3> QED BY <1>1, <1>2, <3>1, <3>2, <3>3 DEF MailedOnce
  <2>4. CASE \E s \in Sub : R!SendOk(s)
    <3>1. /\ cron = "send" /\ cron' = "mark" /\ delivered' = delivered \union R!InMail
          /\ UNCHANGED <<batch, digest, items, queued, done, orphaned>>
      BY <2>4 DEF R!SendOk, R!queue, R!work
    <3>2. UNCHANGED <<Ahead, R!InMail>> /\ digest \in Ahead
      BY <3>1 DEF Ahead, AtDigest, R!InMail
    <3>3. R!InMail \subseteq R!Carried(digest)
      BY DEF R!InMail, R!Carried, R!TypeOK
    <3>4. R!InMail \subseteq queued \union done
      BY <3>2, <3>3 DEF CarriesOwed
    <3>5. Mailing = {} /\ Mailing' = R!InMail
      BY <3>1, <3>2
    <3>6. /\ delivered' \subseteq queued \union done
          /\ queued \intersect delivered' \subseteq orphaned \union R!InMail
          /\ \A d \in Ahead : R!Carried(d) \intersect delivered'
                 \subseteq orphaned \union R!InMail
      BY <1>1, <3>1, <3>4, <3>5
    <3> HIDE DEF Ahead
    <3> QED BY <1>2, <3>1, <3>2, <3>5, <3>6 DEF MailedOnce
  <2>5. CASE R!SendFail \/ R!Finish
    <3>1. /\ cron \in {"send", "next"} /\ cron' \in {"idle", "next"} /\ batch' \subseteq batch
          /\ UNCHANGED <<queued, done, delivered, orphaned>>
      BY <2>5 DEF R!SendFail, R!Finish, R!Proceed, R!queue, R!mails, R!work
    <3> QED BY <2>1, <3>1
  <2>6. CASE R!Crash
    <3>1. /\ cron' = "idle" /\ batch' = {}
          /\ orphaned' = (IF cron = "mark" THEN orphaned \union R!InMail ELSE orphaned)
          /\ UNCHANGED <<queued, done, delivered>>
      BY <2>6 DEF R!Crash, R!queue
    <3> QED BY <2>1, <3>1
  <2>7. CASE R!MarkSent
    <3>1. /\ AtDigest /\ cron' = "next" /\ UNCHANGED <<batch, delivered, orphaned>>
          /\ queued' = queued \ R!Carried(digest)
          /\ done' = done \union R!Carried(digest)
      BY <2>7 DEF R!MarkSent, R!Proceed, R!mails, AtDigest
    <3>2. digest \in R!Digest /\ batch \subseteq R!Digest
          /\ \A d \in batch : d.sub # digest.sub
      BY <3>1 DEF CarriesOwed, Ahead, AtDigest, R!TypeOK
    <3>3. Mailing \subseteq R!Carried(digest)
      BY DEF R!InMail, R!Carried, R!TypeOK
    <3>4. \A d \in batch : R!Carried(d) \intersect Mailing = {}
      BY <3>2, <3>3, CarriedItems
    <3> HIDE DEF Mailing
    <3> QED BY <2>1, <3>1, <3>3, <3>4
  <2>8. CASE \E s \in Sub : R!SendLost(s)
    <3>1. /\ cron = "send" /\ cron' = "next" /\ delivered' = delivered \union R!InMail
          /\ orphaned' = orphaned \union R!InMail
          /\ UNCHANGED <<batch, queued, done>>
      BY <2>8 DEF R!SendLost, R!queue
    <3>2. digest \in Ahead /\ batch \subseteq Ahead /\ Ahead' = batch
      BY <3>1 DEF Ahead, AtDigest
    <3>3. R!InMail \subseteq R!Carried(digest)
      BY DEF R!InMail, R!Carried, R!TypeOK
    <3>4. R!InMail \subseteq queued \union done
      BY <3>2, <3>3 DEF CarriesOwed
    <3>5. Mailing = {} /\ Mailing' = {}
      BY <3>1
    <3> HIDE DEF Ahead, Mailing
    <3>6. /\ delivered' \subseteq queued \union done
          /\ queued \intersect delivered' \subseteq orphaned'
          /\ \A d \in batch : R!Carried(d) \intersect delivered' \subseteq orphaned'
      BY <1>1, <3>1, <3>2, <3>4, <3>5
    <3> QED BY <1>2, <3>1, <3>2, <3>6 DEF MailedOnce
  <2> QED BY <1>4, <2>2, <2>3, <2>4, <2>5, <2>6, <2>7, <2>8 DEF R!CronStep, R!Mailed
<1> QED BY <1>3, <1>4 DEF R!Next

\* The inductive invariant of the reply digest holds in every reachable state.
THEOREM DigestsInvariant == R!Spec => []DigestsInv
<1>1. R!Init => DigestsInv
  <2> SUFFICES ASSUME R!Init PROVE DigestsInv
    OBVIOUS
  <2>1. /\ subs = [s \in Sub |-> R!Upsert(R!NoRow, 1, TRUE)] /\ tokens = 1
        /\ stamping = {} /\ status = [c \in Comment |-> "none"]
        /\ fanout = {} /\ order = <<>> /\ young = {} /\ queued = {} /\ done = {}
        /\ cron = "idle" /\ batch = {} /\ digest = R!NoDigest /\ items = {}
        /\ delivered = {}
    BY DEF R!Init
  <2>2. R!Upsert(R!NoRow, 1, TRUE) \in R!Row
    BY DEF R!Upsert, R!NoRow, R!Row
  <2>3. R!Range(order) = {} /\ order \in Seq(Comment)
    BY <2>1 DEF R!Range
  <2>4. R!TypeOK
    BY <2>1, <2>2, <2>3 DEF R!TypeOK, R!Item, R!NoDigest
  <2>5. ~AtDigest /\ Ahead = {}
    BY <2>1 DEF AtDigest, Ahead
  <2>6. FannedOnce
    BY <2>1, <2>3 DEF FannedOnce
  <2>7. CarriesOwed /\ ReadIsFresh /\ MailedOnce
    BY <2>1, <2>5 DEF CarriesOwed, ReadIsFresh, MailedOnce
  <2> QED BY <2>4, <2>6, <2>7 DEF DigestsInv
<1>2. DigestsInv /\ [R!Next]_(R!vars) => DigestsInv'
  BY DigestTypes, CarriesStep, FreshStep, OnceStep DEF DigestsInv
<1> QED BY <1>1, <1>2, PTL DEF R!Spec

\* Rows, notifications and the digests of the pass keep their types, and no
\* notification is queued and settled at once, or made for the comment's author.
THEOREM DigestsTypeCorrect == R!Spec => []R!TypeOK
BY DigestsInvariant, PTL DEF DigestsInv

\* A mail states nothing its own pass did not find true (runDigest reads the
\* whole list first and writes to people long after).
THEOREM MailIsFresh == R!Spec => FreshWithinPass
<1>1. DigestsInv => \A s \in Sub : R!Mailed(s) =>
          /\ s \in lapsed \/ (R!Active(subs[s]) /\ digest.token = subs[s].token)
          /\ \A c \in items : c \in hidden \/ status[c] = "approved"
  <2> SUFFICES ASSUME DigestsInv, NEW s \in Sub, R!Mailed(s)
               PROVE  /\ s \in lapsed \/ (R!Active(subs[s]) /\ digest.token = subs[s].token)
                      /\ \A c \in items : c \in hidden \/ status[c] = "approved"
    OBVIOUS
  <2>1. AtDigest /\ digest \in Ahead /\ digest.sub = s
    BY DEF R!Mailed, R!SendOk, R!SendLost, AtDigest, Ahead
  <2> QED BY <2>1 DEF DigestsInv, ReadIsFresh
<1> QED BY <1>1, DigestsInvariant, PTL DEF FreshWithinPass, R!FreshWithinPass

\* A reply is mailed to a subscriber twice only when the pass that mailed it
\* died before it marked the rows (listPendingDigests' "send the email, then
\* mark"), or sendEmail had no answer to a mail the provider had taken.
THEOREM NoMailTwiceUnlessLost == R!Spec => TwiceOnlyIfLost
<1>1. DigestsInv => \A s \in Sub : R!Mailed(s) =>
          R!InMail \intersect delivered \subseteq orphaned
  <2> SUFFICES ASSUME DigestsInv, NEW s \in Sub, R!Mailed(s)
               PROVE  R!InMail \intersect delivered \subseteq orphaned
    OBVIOUS
  <2>1. cron = "send" /\ digest \in Ahead
    BY DEF R!Mailed, R!SendOk, R!SendLost, AtDigest, Ahead
  <2>2. R!InMail \subseteq R!Carried(digest)
    BY DEF R!InMail, R!Carried, DigestsInv, R!TypeOK
  <2> QED BY <2>1, <2>2 DEF DigestsInv, MailedOnce
<1> QED BY <1>1, DigestsInvariant, PTL DEF TwiceOnlyIfLost, R!TwiceOnlyIfLost

-----------------------------------------------------------------------------
\* A step of the digest is a step of an outbox, or none that it sees.
LEMMA DigestRefines ==
    ASSUME DigestsInv, [R!Next]_(R!vars)
    PROVE  [R!Abstract!Next]_(R!Abstract!vars)
<1> USE DEF R!Abstract!vars
<1>1. CASE UNCHANGED <<queued, done, delivered, void>>
  BY <1>1
<1>2. ASSUME NEW c \in Comment, R!Fanout(c)
      PROVE  R!Abstract!Enqueue
  <2> DEFINE S == {<<s, c>> : s \in {s \in Sub : R!Active(subs[s]) /\ s # Author[c]}}
  <2>1. c \in fanout /\ queued' = queued \union S /\ UNCHANGED <<done, delivered, void>>
    BY <1>2 DEF R!Fanout, R!mails, R!past
  <2>2. \A n \in queued \union done : n[2] # c
    BY <2>1 DEF DigestsInv, R!TypeOK, FannedOnce
  <2>3. S \in SUBSET (R!Item \ (queued \union done))
    BY <2>2 DEF R!Item
  <2> HIDE DEF S
  <2> QED BY <2>1, <2>3 DEF R!Abstract!Enqueue
<1>3. ASSUME NEW s \in Sub, R!CancelRow(s)
      PROVE  R!Abstract!Revoke
  <2> DEFINE S == {n \in queued : n[1] = s} \ void
  <2>1. void' = void \union S /\ UNCHANGED <<queued, done, delivered>>
    BY <1>3 DEF R!CancelRow, R!queue, R!mails
  <2>2. S \in SUBSET (R!Item \ void)
    BY DEF DigestsInv, R!TypeOK
  <2> HIDE DEF S
  <2> QED BY <2>1, <2>2 DEF R!Abstract!Revoke
<1>4. ASSUME NEW s \in Sub, R!CancelStamp(s)
      PROVE  R!Abstract!Drop
  <2> DEFINE S == {n \in queued : n[1] = s}
  <2>1. /\ queued' = queued \ S /\ done' = done \union S /\ void' = void \union S
        /\ UNCHANGED delivered /\ S \in SUBSET queued
    BY <1>4 DEF R!CancelStamp, R!mails
  <2> HIDE DEF S
  <2> QED BY <2>1 DEF R!Abstract!Drop
<1>5. CASE R!Load
  <2> DEFINE S == (R!Carried(digest') \ R!InMail') \ void
  <2>1. digest' \in R!Digest /\ void' = void \union S
        /\ UNCHANGED <<queued, done, delivered>>
    BY <1>5 DEF R!Load, R!queue, R!mails, DigestsInv, R!TypeOK
  <2>2. S \in SUBSET (R!Item \ void)
    BY <2>1, CarriedItems
  <2> HIDE DEF S
  <2> QED BY <2>1, <2>2 DEF R!Abstract!Revoke, R!Abstract!Next
<1>6. ASSUME NEW s \in Sub, R!Mailed(s)
      PROVE  R!Abstract!Deliver
  <2>1. cron = "send" /\ delivered' = delivered \union R!InMail
        /\ UNCHANGED <<queued, done, void>>
    BY <1>6 DEF R!Mailed, R!SendOk, R!SendLost, R!queue, R!past
  <2>2. R!InMail \subseteq R!Carried(digest)
    BY DEF R!InMail, R!Carried, DigestsInv, R!TypeOK
  <2>3. R!InMail \in SUBSET (queued \union (done \intersect void))
    BY <2>1, <2>2 DEF DigestsInv, CarriesOwed, Ahead, AtDigest
  <2> QED BY <2>1, <2>3 DEF R!Abstract!Deliver
<1>7. CASE R!MarkSent
  <2> DEFINE S == R!Carried(digest) \intersect queued
  <2>1. /\ AtDigest /\ cron \in {"clear", "mark"}
        /\ queued' = queued \ R!Carried(digest)
        /\ done' = done \union R!Carried(digest)
        /\ UNCHANGED <<delivered, void>>
    BY <1>7 DEF R!MarkSent, R!Proceed, R!mails, R!past, AtDigest
  <2>2. /\ R!Carried(digest) \subseteq queued \union done
        /\ R!Carried(digest) \subseteq R!InMail \union void
        /\ cron = "clear" => items = {}
        /\ cron = "mark" => R!InMail \subseteq delivered
    BY <2>1 DEF DigestsInv, CarriesOwed, Ahead
  <2>3. R!InMail \subseteq delivered
    BY <2>1, <2>2 DEF R!InMail
  <2>4. S \in SUBSET (queued \intersect (delivered \union void))
    BY <2>2, <2>3
  <2>5. queued' = queued \ S /\ done' = done \union S
    BY <2>1, <2>2
  <2> HIDE DEF S
  <2> QED BY <2>1, <2>4, <2>5 DEF R!Abstract!Settle, R!Abstract!Next
<1>8. \/ UNCHANGED <<queued, done, delivered, void>>
      \/ \E c \in Comment : R!Fanout(c)
      \/ \E s \in Sub : R!CancelRow(s) \/ R!CancelStamp(s) \/ R!Mailed(s)
      \/ R!Load \/ R!MarkSent
  BY DEF R!Next, R!CommentStep, R!SubStep, R!CronStep, R!PostComment, R!FanoutLost,
         R!Hide, R!Approve, R!CancelStampLost, R!Renew, R!PressConfirm, R!Ripen, R!List,
         R!SendFail, R!Proceed, R!Finish, R!Crash, R!vars, R!queue, R!mails, R!past
<1> QED BY <1>1, <1>2, <1>3, <1>4, <1>5, <1>6, <1>7, <1>8 DEF R!Abstract!Next

\* What waits in notifications leaves it mailed, or void because its comment was
\* found hidden or its subscription cancelled, whatever dies in between.
THEOREM ReplyQueueIsOutbox == R!Spec => ImplementsOutbox
<1>1. R!Init => R!Abstract!Init
  BY DEF R!Init, R!Abstract!Init
<1> QED BY <1>1, DigestRefines, DigestsInvariant, PTL DEF R!Spec, ImplementsOutbox, R!ImplementsOutbox, R!Abstract!Spec
=============================================================================
