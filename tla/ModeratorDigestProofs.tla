------------------------ MODULE ModeratorDigestProofs ------------------------
(***************************************************************************)
(* Theorems about ModeratorDigest, for any comments, recipients and batch, *)
(* and any finite number of reporters.                                     *)
(*                                                                         *)
(* The invariant follows the batch: what its mail does not list was found  *)
(* handled, what it lists is mailed once somebody took it, and the         *)
(* recipients the mail was offered to are those it has not still to try.   *)
(***************************************************************************)
EXTENDS ModeratorDigest, FiniteSetTheorems, TLAPS

BatchFits ==
    /\ pc = "idle" => batch = {}
    /\ \A k \in batch \ items : Last(k) \in void
    /\ pc = "send" => left \union offered = Recipient
    /\ pc = "send" /\ sent => \A k \in items : Last(k) \in mailed
    /\ pc = "mark" => \A k \in items : Last(k) \in mailed /\ offered = Recipient

\* Each filed report, and each held comment, was noted once at most.
Filed(c) == {n \in Network : <<c, n>> \in filed}
Reported(c) == <<c, "reported">>
Held(c)     == <<c, "pending">>
NotesFit ==
    \A c \in Comment :
        /\ made[Reported(c)] + note[Reported(c)] <= Cardinality(Filed(c))
        /\ made[Held(c)] + note[Held(c)] <= (IF status[c] = "new" THEN 0 ELSE 1)

IInv == TypeOK /\ BatchFits /\ NotesFit

LEMMA FiledCard ==
    ASSUME NEW c \in Comment
    PROVE  IsFiniteSet(Filed(c)) /\ Cardinality(Filed(c)) \in Nat
<1>1. IsFiniteSet(Filed(c)) BY NetworkAssumption, FS_Subset DEF Filed
<1>2. QED BY <1>1, FS_CardinalityType

LEMMA Keys ==
    /\ \A c \in Comment : Reported(c) \in Key /\ Held(c) \in Key
    /\ \A c, d \in Comment : Reported(c) # Held(d)
    /\ \A c, d \in Comment : Reported(c) = Reported(d) \/ Held(c) = Held(d) => c = d
BY DEF Key, Reason, Reported, Held

LEMMA InitInv == Init => IInv
<1> SUFFICES ASSUME Init PROVE IInv OBVIOUS
<1> USE DEF Init
<1>1. TypeOK
  <2>1. sent \in BOOLEAN BY Zenon
  <2>2. QED BY <2>1, BoundAssumption DEF TypeOK
<1>2. BatchFits BY DEF BatchFits
<1>3. NotesFit
  <2>1. \A c \in Comment : Cardinality(Filed(c)) \in Nat BY FiledCard
  <2>2. QED BY <2>1, Keys DEF NotesFit
<1>4. QED BY <1>1, <1>2, <1>3 DEF IInv

-----------------------------------------------------------------------------
(* Steps of the requests leave the pass alone, and steps of the pass the    *)
(* notes.                                                                   *)

LEMMA BatchKept ==
    ASSUME IInv, UNCHANGED <<pass, history>>,
           \A k \in batch : made'[k] = made[k]
    PROVE  BatchFits'
BY DEF IInv, TypeOK, BatchFits, Last, pass, history

LEMMA NotesKept ==
    ASSUME IInv, UNCHANGED <<comments, note, made>>
    PROVE  NotesFit'
BY DEF IInv, NotesFit, Filed, comments

LEMMA PostInv ==
    ASSUME IInv, NEW c \in Comment,
           NEW s \in {"approved", "pending", "spam", "deleted"},
           Post(c, s) \/ SetStatus(c, s)
    PROVE  IInv'
<1> USE DEF IInv, queue, pass, history
<1>1. note \in [Key -> Nat] /\ status \in [Comment -> {"new", "approved", "pending", "spam", "deleted"}]
  BY DEF TypeOK
<1>2. /\ status' = [status EXCEPT ![c] = s] /\ UNCHANGED <<checked, filed, queue, pass, history>>
      /\ \/ UNCHANGED note
         \/ status[c] = "new" /\ note' = [note EXCEPT ![Held(c)] = @ + 1]
  BY DEF Post, SetStatus, Notify, Held
<1>3. TypeOK' BY <1>1, <1>2 DEF TypeOK
<1>4. BatchFits' BY <1>2, BatchKept
<1>5. NotesFit'
  <2> SUFFICES ASSUME NEW d \in Comment
               PROVE  /\ made[Reported(d)] + note'[Reported(d)] <= Cardinality(Filed(d))
                      /\ made[Held(d)] + note'[Held(d)] <= (IF status'[d] = "new" THEN 0 ELSE 1)
    BY <1>2 DEF NotesFit, Filed
  <2>1. note'[Reported(d)] = note[Reported(d)] BY <1>1, <1>2, Keys
  <2>2. d # c => note'[Held(d)] = note[Held(d)] /\ status'[d] = status[d]
    BY <1>1, <1>2, Keys
  <2>3. d = c => /\ status'[d] # "new"
                 /\ \/ note'[Held(d)] = note[Held(d)]
                    \/ status[d] = "new" /\ note'[Held(d)] = note[Held(d)] + 1
    BY <1>1, <1>2, Keys
  <2>4. made[Held(d)] \in Nat /\ note[Held(d)] \in Nat
    BY <1>1, Keys, BoundAssumption DEF TypeOK
  <2>5. QED BY <2>1, <2>2, <2>3, <2>4 DEF NotesFit
<1>6. QED BY <1>3, <1>4, <1>5

LEMMA ReportInv ==
    ASSUME IInv, NEW c \in Comment, NEW n \in Network,
           ReportCheck(c, n) \/ ReportInsert(c, n)
    PROVE  IInv'
<1> USE DEF IInv, queue, pass, history
<1>1. note \in [Key -> Nat] BY DEF TypeOK
<1>2. UNCHANGED <<status, queue, pass, history>>
  BY DEF ReportCheck, ReportInsert
<1>3. /\ checked' \subseteq Comment \X Network /\ filed \subseteq filed'
      /\ \/ UNCHANGED <<filed, note>>
         \/ /\ <<c, n>> \notin filed /\ filed' = filed \union {<<c, n>>}
            /\ note' = [note EXCEPT ![Reported(c)] = @ + 1]
  <2>1. CASE ReportCheck(c, n) BY <2>1 DEF ReportCheck, TypeOK
  <2>2. CASE ReportInsert(c, n) /\ <<c, n>> \in filed
    <3>1. filed' = filed \union {<<c, n>>} /\ UNCHANGED note
      BY <2>2 DEF ReportInsert
    <3>2. filed' = filed BY <2>2, <3>1
    <3>3. QED BY <2>2, <3>1, <3>2 DEF ReportInsert, TypeOK
  <2>3. CASE ReportInsert(c, n) /\ <<c, n>> \notin filed
    BY <2>3 DEF ReportInsert, Notify, Reported, TypeOK
  <2>4. QED BY <2>1, <2>2, <2>3
<1>4. TypeOK'
  BY <1>1, <1>2, <1>3 DEF TypeOK
<1>5. BatchFits' BY <1>2, BatchKept
<1>6. NotesFit'
  <2>1. CASE UNCHANGED <<filed, note>> BY <1>2, <2>1 DEF NotesFit, Filed
  <2>2. CASE /\ <<c, n>> \notin filed /\ filed' = filed \union {<<c, n>>}
             /\ note' = [note EXCEPT ![Reported(c)] = @ + 1]
    <3> SUFFICES ASSUME NEW d \in Comment
                 PROVE  /\ made[Reported(d)] + note'[Reported(d)] <= Cardinality(Filed(d)')
                        /\ made[Held(d)] + note'[Held(d)] <= (IF status[d] = "new" THEN 0 ELSE 1)
      BY <1>2 DEF NotesFit
    <3>1. note'[Held(d)] = note[Held(d)] BY <1>1, <2>2, Keys
    <3>2. CASE d # c
      <4>1. Filed(d)' = Filed(d) BY <2>2, <3>2 DEF Filed
      <4>2. note'[Reported(d)] = note[Reported(d)] BY <1>1, <2>2, <3>2, Keys
      <4>3. QED BY <3>1, <4>1, <4>2 DEF NotesFit
    <3>3. CASE d = c
      <4>1. Filed(d)' = Filed(d) \union {n} /\ n \notin Filed(d)
        BY <2>2, <3>3 DEF Filed
      <4>2. Cardinality(Filed(d)') = Cardinality(Filed(d)) + 1
        BY <4>1, FiledCard, FS_AddElement
      <4>3. note'[Reported(d)] = note[Reported(d)] + 1
        BY <1>1, <2>2, <3>3, Keys
      <4>4. made[Reported(d)] \in Nat /\ note[Reported(d)] \in Nat
            /\ Cardinality(Filed(d)) \in Nat
        BY <1>1, Keys, FiledCard, BoundAssumption DEF TypeOK
      <4>5. QED BY <3>1, <4>2, <4>3, <4>4 DEF NotesFit
    <3>4. QED BY <3>2, <3>3
  <2>3. QED BY <1>3, <2>1, <2>2
<1>7. QED BY <1>4, <1>5, <1>6

LEMMA NoteInv ==
    ASSUME IInv, NEW k \in Key, Enqueue(k) \/ NoteLost(k)
    PROVE  IInv'
<1> USE BoundAssumption DEF IInv, comments, queue, pass, history
<1>1. note \in [Key -> Nat] /\ made \in [Key -> Nat] BY DEF TypeOK
<1>2. /\ UNCHANGED <<comments, pass, history, due>>
      /\ note[k] > 0 /\ note' = [note EXCEPT ![k] = @ - 1]
      /\ \/ UNCHANGED <<made, unsent, older>>
         \/ /\ k \notin unsent /\ made[k] < MaxRow
            /\ made' = [made EXCEPT ![k] = @ + 1]
            /\ unsent' = unsent \union {k}
            /\ older' = [older EXCEPT ![k] = unsent]
  BY DEF Enqueue, NoteLost, Noted
<1>3. TypeOK'
  <2>1. note' \in [Key -> Nat] BY <1>1, <1>2
  <2>2. CASE UNCHANGED <<made, unsent, older>> BY <1>2, <2>1, <2>2 DEF TypeOK
  <2>3. CASE /\ k \notin unsent /\ made[k] < MaxRow
             /\ made' = [made EXCEPT ![k] = @ + 1]
             /\ unsent' = unsent \union {k}
             /\ older' = [older EXCEPT ![k] = unsent]
    <3>1. made' \in [Key -> 0..MaxRow] BY <1>1, <2>3 DEF TypeOK
    <3>2. unsent' \subseteq {x \in Key : made'[x] > 0}
      BY <1>1, <2>3 DEF TypeOK
    <3>3. older' \in [Key -> SUBSET unsent'] /\ due' \subseteq unsent'
      BY <1>2, <2>3 DEF TypeOK
    <3>4. QED BY <1>2, <2>1, <3>1, <3>2, <3>3 DEF TypeOK
  <2>4. QED BY <1>2, <2>2, <2>3
<1>4. BatchFits'
  <2>1. \A x \in batch : made'[x] = made[x] BY <1>1, <1>2 DEF TypeOK
  <2>2. QED BY <1>2, <2>1, BatchKept
<1>5. NotesFit'
  <2>1. \A x \in Key : /\ made'[x] + note'[x] <= made[x] + note[x]
    <3> SUFFICES ASSUME NEW x \in Key PROVE made'[x] + note'[x] <= made[x] + note[x]
      OBVIOUS
    <3>1. made'[x] \in {made[x], made[x] + 1} /\ (x # k => made'[x] = made[x])
      BY <1>1, <1>2
    <3>2. note'[x] = IF x = k THEN note[x] - 1 ELSE note[x] BY <1>1, <1>2
    <3>3. made[x] \in Nat /\ note[x] \in Nat BY <1>1
    <3>4. QED BY <3>1, <3>2, <3>3
  <2>2. \A x \in Key : made'[x] + note'[x] \in Int /\ made[x] + note[x] \in Int
    BY <1>1, <1>2
  <2>3. \A c \in Comment : Filed(c)' = Filed(c) /\ Cardinality(Filed(c)) \in Int
    BY <1>2, FiledCard DEF Filed
  <2> SUFFICES ASSUME NEW d \in Comment
               PROVE  /\ made'[Reported(d)] + note'[Reported(d)] <= Cardinality(Filed(d))
                      /\ made'[Held(d)] + note'[Held(d)] <= (IF status[d] = "new" THEN 0 ELSE 1)
    BY <1>2, <2>3 DEF NotesFit
  <2>4. Reported(d) \in Key /\ Held(d) \in Key BY Keys
  <2>5. made[Reported(d)] + note[Reported(d)] <= Cardinality(Filed(d))
        /\ made[Held(d)] + note[Held(d)] <= (IF status[d] = "new" THEN 0 ELSE 1)
    BY DEF NotesFit
  <2>6. QED BY <2>1, <2>2, <2>3, <2>4, <2>5
<1>6. QED BY <1>3, <1>4, <1>5

LEMMA PassInv ==
    ASSUME IInv,
           \/ \E k \in Key : Ripen(k)
           \/ \E to \in Recipient : SendOk(to) \/ SendFail(to) \/ SendLost(to)
           \/ List \/ Reserve \/ Denied \/ AllTried \/ Mark \/ Crash
    PROVE  IInv'
<1> USE BoundAssumption DEF IInv
<1>1. NotesFit'
  <2>1. UNCHANGED <<comments, note, made>>
    BY DEF Ripen, SendOk, SendFail, SendLost, List, Reserve, Denied, AllTried, Mark, Crash, queue
  <2>2. QED BY <2>1, NotesKept
<1>2. \A k \in batch : Last(k) \in Row
  BY DEF TypeOK, Last, Row
<1>3. CASE \E k \in Key : Ripen(k)
  <2> USE <1>3 DEF Ripen
  <2>1. TypeOK' BY DEF TypeOK, comments, pass, history
  <2>2. BatchFits' BY BatchKept
  <2>3. QED BY <1>1, <2>1, <2>2
<1>4. CASE List
  <2> USE <1>4 DEF List
  <2>1. batch' \subseteq due /\ items' \subseteq batch' /\ due \subseteq Key
    BY DEF TypeOK
  <2>2. \A k \in batch' : Last(k) \in Row /\ Last(k)' = Last(k)
    BY <2>1 DEF TypeOK, Last, Row, queue
  <2>3. void' \subseteq Row BY <2>2 DEF TypeOK
  <2>4. TypeOK' BY <2>1, <2>3 DEF TypeOK, comments, queue
  <2>5. BatchFits' BY <2>2 DEF BatchFits
  <2>6. QED BY <1>1, <2>4, <2>5
<1>5. CASE Reserve \/ Denied \/ Crash
  <2> USE <1>5 DEF Reserve, Denied, Crash, Stop
  <2>1. sent \in BOOLEAN /\ (sent' = sent \/ sent' = FALSE) BY DEF TypeOK
  <2>2. sent' \in BOOLEAN BY <2>1, Zenon
  <2>3. TypeOK' BY <2>2 DEF TypeOK, comments, queue, history
  <2>4. BatchFits' BY DEF BatchFits, Last, queue, history
  <2>5. QED BY <1>1, <2>3, <2>4
<1>6. ASSUME NEW to \in Recipient, SendOk(to) \/ SendFail(to) \/ SendLost(to) PROVE IInv'
  <2> USE <1>6 DEF SendOk, SendFail, SendLost
  <2>1. mailed' \subseteq Row BY <1>2 DEF TypeOK
  <2>2. TypeOK'
    <3>1. CASE SendOk(to) BY <2>1, <3>1 DEF TypeOK, comments, queue
    <3>2. CASE SendFail(to) BY <2>1, <3>2 DEF TypeOK, comments, queue
    <3>3. CASE SendLost(to)
      <4>1. crashes' \in 0..MaxCrash BY <3>3 DEF TypeOK
      <4>2. sent' \in BOOLEAN BY <3>3, Zenon DEF TypeOK
      <4>3. QED BY <2>1, <3>3, <4>1, <4>2 DEF TypeOK, comments, queue
    <3>4. QED BY <3>1, <3>2, <3>3
  <2>3. BatchFits' BY DEF BatchFits, Last, queue, TypeOK
  <2>4. QED BY <1>1, <2>2, <2>3
<1>7. CASE AllTried
  <2> USE <1>7 DEF AllTried, Stop
  <2>1. TypeOK' BY DEF TypeOK, comments, queue, history
  <2>2. BatchFits' BY DEF BatchFits, Last, queue, history, TypeOK
  <2>3. QED BY <1>1, <2>1, <2>2
<1>8. CASE Mark
  <2> USE <1>8 DEF Mark, Stop, SettledRows
  <2>1. TypeOK' BY DEF TypeOK, comments, history
  <2>2. BatchFits' BY DEF BatchFits
  <2>3. QED BY <1>1, <2>1, <2>2
<1>9. QED BY <1>3, <1>4, <1>5, <1>6, <1>7, <1>8

LEMMA StepInv == IInv /\ [Next]_vars => IInv'
<1> SUFFICES ASSUME IInv, [Next]_vars PROVE IInv' OBVIOUS
<1>1. CASE UNCHANGED vars
  <2>1. UNCHANGED <<comments, note, queue, pass, history>> BY <1>1 DEF vars
  <2>2. NotesFit' BY <2>1, NotesKept DEF queue
  <2>3. BatchFits' BY <2>1, BatchKept DEF queue
  <2>4. TypeOK' BY <2>1 DEF IInv, TypeOK, comments, queue, pass, history
  <2>5. QED BY <2>2, <2>3, <2>4 DEF IInv
<1>2. CASE Next
  BY <1>2, PostInv, ReportInv, NoteInv, PassInv DEF Next
<1>3. QED BY <1>1, <1>2

-----------------------------------------------------------------------------
(* Theorems *)

\* The inductive invariant of the moderator digest (moderator-digest.ts): every
\* reachable state satisfies IInv, which says what a pass holds of the queue.
THEOREM DigestInvariant == Spec => []IInv
<1>1. QED BY InitInv, StepInv, PTL DEF Spec

\* Every variable keeps its type: among others the rows in hand are unsent, and
\* a key has at most one unsent row.
THEOREM TypeCorrect == Spec => []TypeOK
<1>1. IInv => TypeOK BY DEF IInv
<1>2. QED BY <1>1, DigestInvariant, PTL

\* However many requests, repeats and digests overlap, a comment is queued as
\* reported once per reporting network at most, and once as held.
THEOREM BrigadeBounded == Spec => []RowPerReport
<1>1. ASSUME IInv PROVE RowPerReport
  <2> SUFFICES ASSUME NEW c \in Comment
               PROVE  /\ made[<<c, "reported">>] <= Cardinality({n \in Network : <<c, n>> \in filed})
                      /\ made[<<c, "pending">>] <= 1
    BY DEF RowPerReport
  <2>1. /\ made[Reported(c)] + note[Reported(c)] <= Cardinality(Filed(c))
        /\ made[Held(c)] + note[Held(c)] <= (IF status[c] = "new" THEN 0 ELSE 1)
    BY <1>1 DEF IInv, NotesFit
  <2>2. /\ made[Reported(c)] \in Nat /\ note[Reported(c)] \in Nat
        /\ made[Held(c)] \in Nat /\ note[Held(c)] \in Nat
        /\ Cardinality(Filed(c)) \in Nat
    BY <1>1, Keys, FiledCard, BoundAssumption DEF IInv, TypeOK
  <2>3. made[Reported(c)] <= Cardinality(Filed(c)) /\ made[Held(c)] <= 1
    BY <2>1, <2>2
  <2>4. QED BY <2>3 DEF Reported, Held, Filed
<1>2. QED BY <1>1, DigestInvariant, PTL

\* Only the mark takes a row out of the queue.
LEMMA OnlyMark ==
    ASSUME IInv, [Next]_vars, unsent \ unsent' # {}
    PROVE  Mark
BY DEF vars, queue, Next, Post, SetStatus, ReportCheck, ReportInsert, Enqueue,
       NoteLost, Ripen, SendOk, SendFail, SendLost, List, Reserve, Denied, AllTried, Crash

\* The mark is for everyone: no recipient is passed over by a batch that is
\* settled because of others.
THEOREM FanoutIsWhole == Spec => FanoutWhole
<1>1. ASSUME IInv, [Next]_vars, NEW k \in unsent \ unsent'
      PROVE  Last(k) \in void \/ offered = Recipient
  <2>1. Mark BY <1>1, OnlyMark
  <2>2. pc = "mark" /\ k \in batch BY <1>1, <2>1 DEF Mark, SettledRows
  <2>3. QED BY <1>1, <2>2 DEF IInv, BatchFits
<1>2. IInv /\ [Next]_vars =>
         [\A k \in unsent \ unsent' : Last(k) \in void \/ offered = Recipient]_vars
  BY <1>1
<1>3. QED BY <1>2, DigestInvariant, PTL DEF Spec, FanoutWhole

-----------------------------------------------------------------------------
(* The queue implements the outbox. *)

Queued == {Last(k) : k \in unsent}
Done   == {r \in Row : r[2] <= made[r[1]] /\ ~(r[1] \in unsent /\ r[2] = made[r[1]])}

LEMMA OutboxStutters ==
    ASSUME UNCHANGED <<made, unsent, mailed, void>>
    PROVE  UNCHANGED AsOutbox!vars
BY DEF AsOutbox!vars, Last

LEMMA EnqueueRefines ==
    ASSUME IInv, NEW k \in Key, Enqueue(k)
    PROVE  AsOutbox!Enqueue \/ UNCHANGED AsOutbox!vars
<1> USE BoundAssumption
<1>1. UNCHANGED <<mailed, void>> BY DEF Enqueue, history
<1>2. CASE k \in unsent
  BY <1>1, <1>2, OutboxStutters DEF Enqueue, queue
<1>3. CASE k \notin unsent
  <2> DEFINE new == <<k, made[k] + 1>>
  <2>1. /\ made \in [Key -> 0..MaxRow] /\ made[k] < MaxRow
        /\ made' = [made EXCEPT ![k] = @ + 1]
        /\ unsent' = unsent \union {k} /\ unsent \subseteq Key
    BY <1>3 DEF Enqueue, IInv, TypeOK
  <2>2. new \in Row \ (Queued \union Done)
    BY <1>3, <2>1 DEF Queued, Done, Row, Last
  <2>3. Queued' = Queued \union {new}
    <3>1. \A x \in unsent : Last(x)' = Last(x) BY <1>3, <2>1 DEF Last
    <3>2. Last(k)' = new BY <2>1 DEF Last
    <3>3. QED BY <2>1, <3>1, <3>2 DEF Queued
  <2>4. Done' = Done
    <3> SUFFICES ASSUME NEW r \in Row PROVE r \in Done' <=> r \in Done
      BY DEF Done
    <3>1. r[1] \in Key /\ r[2] \in 1..MaxRow BY DEF Row
    <3>2. CASE r[1] = k BY <1>3, <2>1, <3>1, <3>2 DEF Done
    <3>3. CASE r[1] # k BY <1>3, <2>1, <3>1, <3>3 DEF Done
    <3>4. QED BY <3>2, <3>3
  <2> HIDE DEF new
  <2>5. QED BY <1>1, <2>2, <2>3, <2>4 DEF AsOutbox!Enqueue, Queued, Done
<1>4. QED BY <1>2, <1>3

LEMMA SendRefines ==
    ASSUME IInv, NEW to \in Recipient, SendOk(to) \/ SendLost(to)
    PROVE  AsOutbox!Deliver
<1> DEFINE S == {Last(k) : k \in items}
<1>1. S \in SUBSET Queued BY DEF IInv, TypeOK, Queued
<1>2. mailed' = mailed \union S /\ UNCHANGED <<made, unsent, void>>
  BY DEF SendOk, SendLost, queue
<1>3. Queued' = Queued /\ Done' = Done BY <1>2 DEF Queued, Done, Last
<1> HIDE DEF S
<1>4. QED BY <1>1, <1>2, <1>3 DEF AsOutbox!Deliver, Queued, Done

LEMMA ListRefines ==
    ASSUME IInv, List
    PROVE  AsOutbox!Revoke
<1> DEFINE S == {Last(k) : k \in batch' \ items'}
<1>1. UNCHANGED <<made, unsent, mailed>> BY DEF List, queue
<1>2. batch' \subseteq unsent BY DEF List, IInv, TypeOK
<1>3. S \subseteq Row BY <1>2, BoundAssumption DEF IInv, TypeOK, Last, Row
<1>4. S \ void \in SUBSET (Row \ void) BY <1>3
<1>5. void' = void \union (S \ void) BY DEF List
<1>6. Queued' = Queued /\ Done' = Done BY <1>1 DEF Queued, Done, Last
<1> HIDE DEF S
<1>7. QED BY <1>1, <1>4, <1>5, <1>6 DEF AsOutbox!Revoke, Queued, Done

LEMMA MarkRefines ==
    ASSUME IInv, Mark
    PROVE  AsOutbox!Settle
<1> USE BoundAssumption
<1> DEFINE S == {Last(k) : k \in batch}
<1>1. /\ unsent' = unsent \ batch /\ batch \subseteq unsent
      /\ unsent \subseteq {k \in Key : made[k] > 0} /\ made \in [Key -> 0..MaxRow]
      /\ UNCHANGED <<made, mailed, void>>
  BY DEF Mark, SettledRows, IInv, TypeOK, history
<1>2. \A k \in batch : Last(k) \in mailed \union void
  BY DEF Mark, IInv, BatchFits
<1>3. S \in SUBSET (Queued \intersect (mailed \union void))
  BY <1>1, <1>2 DEF Queued
<1>4. \A x, y \in unsent : Last(x) = Last(y) => x = y BY DEF Last
<1>5. Queued' = Queued \ S
  BY <1>1, <1>4 DEF Queued, Last
<1>6. Done' = Done \union S
  <2>1. \A k \in batch : Last(k) \in Row BY <1>1 DEF Last, Row
  <2> SUFFICES ASSUME NEW r \in Row PROVE r \in Done' <=> r \in Done \/ r \in S
    BY <2>1 DEF Done
  <2>2. r[1] \in Key /\ r[2] \in 1..MaxRow /\ r = <<r[1], r[2]>> BY DEF Row
  <2>3. r \in S <=> r[1] \in batch /\ r[2] = made[r[1]] BY <2>2 DEF Last
  <2>4. QED BY <1>1, <2>2, <2>3 DEF Done
<1> HIDE DEF S
<1>7. QED BY <1>1, <1>3, <1>5, <1>6 DEF AsOutbox!Settle, Queued, Done

\* What waits in moderator_notifications leaves only mailed or found handled,
\* and never comes back, whatever dies or is refused in between.
THEOREM ModeratorQueueIsOutbox == Spec => ImplementsOutbox
<1>1. Init => AsOutbox!Init
  <2> SUFFICES ASSUME Init PROVE AsOutbox!Init OBVIOUS
  <2>1. Done = {}
    BY DEF Init, Done, Row
  <2>2. QED BY <2>1 DEF Init, AsOutbox!Init, Done
<1>2. ASSUME IInv, [Next]_vars PROVE [AsOutbox!Next]_(AsOutbox!vars)
  <2>1. CASE UNCHANGED <<made, unsent, mailed, void>> BY <2>1, OutboxStutters
  <2>2. CASE \E k \in Key : Enqueue(k)
    BY <1>2, <2>2, EnqueueRefines DEF AsOutbox!Next
  <2>3. CASE \E to \in Recipient : SendOk(to) \/ SendLost(to)
    BY <1>2, <2>3, SendRefines DEF AsOutbox!Next
  <2>4. CASE List BY <1>2, <2>4, ListRefines DEF AsOutbox!Next
  <2>5. CASE Mark BY <1>2, <2>5, MarkRefines DEF AsOutbox!Next
  <2>6. \/ UNCHANGED <<made, unsent, mailed, void>> \/ List \/ Mark
        \/ (\E k \in Key : Enqueue(k)) \/ (\E to \in Recipient : SendOk(to) \/ SendLost(to))
    BY <1>2 DEF vars, queue, history, Next, Post, SetStatus, ReportCheck,
       ReportInsert, NoteLost, Ripen, SendFail, Reserve, Denied, AllTried, Crash
  <2>7. QED BY <2>1, <2>2, <2>3, <2>4, <2>5, <2>6
<1>3. QED
  BY <1>1, <1>2, DigestInvariant, PTL DEF Spec, ImplementsOutbox, AsOutbox!Spec
=============================================================================
