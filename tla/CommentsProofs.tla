--------------------------- MODULE CommentsProofs ---------------------------
(***************************************************************************)
(* Comments for every set of comments, however they answer each other,     *)
(* every set of users and any number of requests in flight.                *)
(*                                                                         *)
(* The argument: nothing protects a row between a handler's read and its   *)
(* write, so what the handler still knows when it writes is what no other  *)
(* step can undo: that the row exists, that an id about to be inserted is  *)
(* its own, that it has read a live comment, and that it carries a mark    *)
(* when its user was barred or its thread closed since it looked.          *)
(*                                                                         *)
(* In the browser, the thread: a request for a reload is remembered by a   *)
(* flag that only the end of the running load takes down, to begin it;     *)
(* what a page, a captured batch or an answer brings is one enumeration of *)
(* comments, and is drawn less what the screen holds by then; and the      *)
(* boxes: whatever stops the timer of a gate sends its waiters away.       *)
(*                                                                         *)
(* On the server, the reading of a post: a forest has a depth because an   *)
(* answer is younger than what it answers, so what holds of a comment when *)
(* it holds of its parent holds of all (DownTheTree); three rules that are *)
(* applied in different places draw one and the same tree.  And the pages: *)
(* at every step of a request, a thread that stays is on the pages so far  *)
(* if it is before the cursor or pinned, and else is still to come         *)
(* (PagesFit).                                                             *)
(***************************************************************************)
EXTENDS Discussion, Reading, Sequences, FiniteSetTheorems, TLAPS

Inserting == {"posting", "gated", "accepted", "replying"}

\* What a handler at s with job j still knows, whatever the others did:
\* the id it is about to insert is new and its own;
\* the parent it found is still there;
\* the row it read is still there, and was live or top-level when it was read;
\* a mark, if its user was barred or its thread closed since it checked.
Fits(h, s, j) ==
    /\ s \in Inserting =>
          /\ ~Exists(j.comment)
          /\ \A g \in Handler : pc[g] \in Inserting /\ job[g].comment = j.comment
                                 => g = h
    /\ s \in {"accepted", "replying"} =>
          Parent[j.comment] = j.comment \/ Exists(Parent[j.comment])
    /\ s \in {"editing", "evaluating", "deleting"} => Exists(j.comment)
    /\ s = "evaluating" => j.seen \in {"approved", "pending"}
    /\ s = "pinning" => Parent[j.comment] = j.comment
    /\ \A c \in j.ids : Exists(c)
    /\ s \in {"posting", "gated", "accepted", "editing", "evaluating", "deleting"} =>
          IsActive(j.by) \/ <<h, "barred">> \in overtaken
    /\ s \in {"gated", "accepted"} => ~closed \/ <<h, "closed">> \in overtaken

HandlersFit == \A h \in Handler : Fits(h, pc[h], job[h])

IInv == TypeOK /\ HandlersFit /\ FlaggedNeedsModerator

-----------------------------------------------------------------------------
LEMMA NoJobType == NoJob \in Job
BY CommentAssumption, OperatorAssumption DEF NoJob, Job, Status

LEMMA InitInv == Init => IInv
<1> SUFFICES ASSUME Init PROVE IInv OBVIOUS
<1> USE DEF Init
<1>1. TypeOK
  BY NoJobType, OperatorAssumption, ParentAssumption DEF TypeOK, Status, Busy
<1>2. HandlersFit
  BY DEF HandlersFit, Fits, NoJob, Inserting
<1> QED BY <1>1, <1>2 DEF IInv, FlaggedNeedsModerator

-----------------------------------------------------------------------------
(* The three kinds of step: a handler moves on, a handler writes and is        *)
(* done, somebody else writes.                                                 *)

LEMMA ContinueType ==
    ASSUME TypeOK, NEW h \in Handler, NEW s \in Busy \union {"idle"}, NEW j \in Job,
           Continue(h, s, j)
    PROVE  /\ pc' \in [Handler -> Busy \union {"idle"}]
           /\ job' \in [Handler -> Job]
           /\ pc'[h] = s /\ job'[h] = j
           /\ \A g \in Handler \ {h} : pc'[g] = pc[g] /\ job'[g] = job[g]
BY DEF TypeOK, Continue

\* A handler reads, decides, and goes on; no row changes.
LEMMA MoveInv ==
    ASSUME IInv, NEW h \in Handler, NEW s \in Busy, NEW j \in Job,
           Continue(h, s, j), Fits(h, s, j),
           UNCHANGED <<rows, closed, standing, history>>
    PROVE  IInv'
<1> USE DEF IInv, rows, history
<1>1. /\ pc' \in [Handler -> Busy \union {"idle"}]
      /\ job' \in [Handler -> Job]
      /\ pc'[h] = s /\ job'[h] = j
      /\ \A g \in Handler \ {h} : pc'[g] = pc[g] /\ job'[g] = job[g]
  BY ContinueType
<1>2. TypeOK'
  BY <1>1 DEF TypeOK
<1>3. HandlersFit'
  <2> SUFFICES ASSUME NEW g \in Handler PROVE Fits(g, pc[g], job[g])'
    BY DEF HandlersFit
  <2>1. Fits(g, pc'[g], job'[g])
    <3>1. CASE g = h BY <1>1, <3>1
    <3>2. CASE g # h BY <1>1, <3>2 DEF HandlersFit
    <3> QED BY <3>1, <3>2
  <2>2. pc'[g] \in Inserting =>
           \A k \in Handler : pc'[k] \in Inserting /\ job'[k].comment = job'[g].comment
                               => k = g
    <3> SUFFICES ASSUME pc'[g] \in Inserting, NEW k \in Handler, pc'[k] \in Inserting,
                        job'[k].comment = job'[g].comment, k # g
                 PROVE  FALSE
      OBVIOUS
    <3>1. CASE k = h
      BY <1>1, <3>1 DEF Fits
    <3>2. CASE k # h
      BY <1>1, <2>1, <3>2 DEF Fits
    <3> QED BY <3>1, <3>2
  <2> QED BY <2>1, <2>2 DEF Fits, Exists, IsActive
<1>4. FlaggedNeedsModerator'
  BY DEF FlaggedNeedsModerator
<1> QED BY <1>2, <1>3, <1>4

\* A handler writes its row, or gives up, and is done: no row disappears, and
\* only the row whose id the handler had reserved appears.
LEMMA FinishFits ==
    ASSUME IInv, NEW h \in Handler, Finish(h),
           UNCHANGED <<closed, standing>>,
           \A c \in Comment : Exists(c) => Exists(c)',
           \A c \in Comment : Exists(c)' =>
               Exists(c) \/ (c = job[h].comment /\ pc[h] \in Inserting)
    PROVE  /\ pc' \in [Handler -> Busy \union {"idle"}]
           /\ job' \in [Handler -> Job]
           /\ overtaken' \subseteq overtaken
           /\ HandlersFit'
<1> USE DEF IInv
<1>1. /\ pc' \in [Handler -> Busy \union {"idle"}]
      /\ job' \in [Handler -> Job]
      /\ pc'[h] = "idle" /\ job'[h] = NoJob
      /\ \A g \in Handler \ {h} : pc'[g] = pc[g] /\ job'[g] = job[g]
  BY ContinueType, NoJobType DEF Finish
<1>2. /\ overtaken' \subseteq overtaken
      /\ \A g \in Handler \ {h} : \A why \in {"barred", "closed"} :
            <<g, why>> \in overtaken => <<g, why>> \in overtaken'
  BY DEF Finish, Forget
<1>3. HandlersFit'
  <2> SUFFICES ASSUME NEW g \in Handler PROVE Fits(g, pc[g], job[g])'
    BY DEF HandlersFit
  <2>1. CASE g = h
    BY <1>1, <2>1 DEF Fits, NoJob, Inserting
  <2>2. CASE g # h
    <3>1. Fits(g, pc[g], job[g]) /\ Fits(h, pc[h], job[h])
      BY DEF HandlersFit
    <3>2. pc'[g] = pc[g] /\ job'[g] = job[g] /\ job[g] \in Job /\ job[h] \in Job
      BY <1>1, <2>2 DEF TypeOK
    <3>3. job[g].comment \in Comment /\ Parent[job[g].comment] \in Comment
          /\ job[g].ids \subseteq Comment
      BY <3>2, ParentAssumption DEF Job
    <3>4. pc[g] \in Inserting => status'[job[g].comment] = "none"
      BY <2>2, <3>1, <3>3 DEF Fits, Exists
    <3>5. pc[g] \in Inserting =>
            \A k \in Handler : pc'[k] \in Inserting /\ job'[k].comment = job[g].comment
                                => k = g
      BY <1>1, <3>1 DEF Fits, Inserting
    <3> QED BY <1>2, <2>2, <3>1, <3>2, <3>3, <3>4, <3>5 DEF Fits, IsActive, Exists
  <2> QED BY <2>1, <2>2
<1> QED BY <1>1, <1>2, <1>3

\* A step outside the handlers: rows stay rows, and marks are only added.
LEMMA OutsideFits ==
    ASSUME IInv, UNCHANGED <<pc, job>>,
           \A c \in Comment : Exists(c)' <=> Exists(c),
           overtaken \subseteq overtaken',
           \A h \in Handler :
              /\ pc[h] \in {"posting", "gated", "accepted", "editing", "evaluating", "deleting"}
              /\ IsActive(job[h].by)
              => IsActive(job[h].by)' \/ <<h, "barred">> \in overtaken',
           \A h \in Handler : pc[h] \in {"gated", "accepted"} /\ ~closed
              => ~closed' \/ <<h, "closed">> \in overtaken'
    PROVE  HandlersFit'
<1> SUFFICES ASSUME NEW h \in Handler PROVE Fits(h, pc[h], job[h])'
  BY DEF HandlersFit
<1>1. Fits(h, pc[h], job[h])
  BY DEF IInv, HandlersFit
<1>2. job[h].comment \in Comment /\ Parent[job[h].comment] \in Comment
      /\ job[h].ids \subseteq Comment
  BY ParentAssumption DEF IInv, TypeOK, Job
<1> QED BY <1>1, <1>2 DEF Fits

-----------------------------------------------------------------------------
(* One lemma per group of actions *)

LEMMA StartJob ==
    ASSUME NEW c \in Comment, NEW u \in User
    PROVE  LET j == [NoJob EXCEPT !.comment = c, !.by = u]
           IN j \in Job /\ j.comment = c /\ j.by = u /\ j.ids = {}
BY NoJobType DEF NoJob, Job, Status

\* POST /comments and the operator's reply, up to the insert.
LEMMA PostSteps ==
    ASSUME IInv, NEW h \in Handler,
           \/ \E c \in Comment, u \in User : PostStart(h, c, u)
           \/ PostGate(h) \/ PostParent(h)
           \/ \E c \in Comment : ReplyStart(h, c)
    PROVE  IInv'
<1>1. ASSUME NEW c \in Comment, NEW u \in User, PostStart(h, c, u) PROVE IInv'
  <2> DEFINE j == [NoJob EXCEPT !.comment = c, !.by = u]
  <2>1. j \in Job /\ j.comment = c /\ j.by = u /\ j.ids = {}
    BY StartJob
  <2> HIDE DEF j
  <2>2. Continue(h, "posting", j) /\ UNCHANGED <<rows, closed, standing, history>>
    BY <1>1 DEF PostStart, Start, j
  <2>3. Fits(h, "posting", j)
    BY <1>1, <2>1 DEF PostStart, Fits, Fresh, Inserting
  <2> QED BY <2>1, <2>2, <2>3, MoveInv DEF Busy
<1>2. ASSUME NEW c \in Comment, ReplyStart(h, c) PROVE IInv'
  <2> DEFINE j == [NoJob EXCEPT !.comment = c, !.by = Operator]
  <2>1. j \in Job /\ j.comment = c /\ j.by = Operator /\ j.ids = {}
    BY StartJob, OperatorAssumption
  <2> HIDE DEF j
  <2>2. Continue(h, "replying", j) /\ UNCHANGED <<rows, closed, standing, history>>
    BY <1>2 DEF ReplyStart, Start, j
  <2>3. Fits(h, "replying", j)
    BY <1>2, <2>1 DEF ReplyStart, Fits, Fresh, Inserting, Exists
  <2> QED BY <2>1, <2>2, <2>3, MoveInv DEF Busy
<1> DEFINE j == job[h]
<1>3. j \in Job /\ Fits(h, pc[h], j)
  BY DEF IInv, TypeOK, HandlersFit
<1> HIDE DEF j
<1>4. CASE PostGate(h)
  <2> DEFINE s == IF Parent[j.comment] = j.comment THEN "accepted" ELSE "gated"
  <2>1. Continue(h, s, j) /\ UNCHANGED <<rows, closed, standing, history>>
    BY <1>4 DEF PostGate, j
  <2>2. Fits(h, s, j)
    BY <1>3, <1>4 DEF PostGate, Fits, Inserting
  <2>3. s \in Busy
    BY DEF Busy
  <2> HIDE DEF s
  <2> QED BY <1>3, <2>1, <2>2, <2>3, MoveInv
<1>5. CASE PostParent(h)
  <2>1. Continue(h, "accepted", j) /\ UNCHANGED <<rows, closed, standing, history>>
    BY <1>5 DEF PostParent, j
  <2>2. Fits(h, "accepted", j)
    BY <1>3, <1>5 DEF PostParent, Answerable, Exists, Fits, Inserting, j
  <2> QED BY <1>3, <2>1, <2>2, MoveInv DEF Busy
<1> QED BY <1>1, <1>2, <1>4, <1>5

\* PATCH and DELETE, the cascade and the pin, up to the write.
LEMMA ReadSteps ==
    ASSUME IInv, NEW h \in Handler,
           \/ \E c \in Comment : EditStart(h, c) \/ SpamThreadRead(h, c) \/ PinRead(h, c)
           \/ \E c \in Comment, u \in User : DeleteStart(h, c, u)
           \/ EditRead(h)
    PROVE  IInv'
<1> USE DEF Inserting, Busy
<1>1. ASSUME NEW c \in Comment, EditStart(h, c) PROVE IInv'
  <2> DEFINE j == [NoJob EXCEPT !.comment = c, !.by = author[c]]
  <2>1. j \in Job /\ j.comment = c /\ j.by = author[c] /\ j.ids = {}
    BY StartJob DEF IInv, TypeOK
  <2> HIDE DEF j
  <2>2. Continue(h, "editing", j) /\ UNCHANGED <<rows, closed, standing, history>>
    BY <1>1 DEF EditStart, Start, j
  <2>3. Fits(h, "editing", j)
    BY <1>1, <2>1 DEF EditStart, Fits
  <2> QED BY <2>1, <2>2, <2>3, MoveInv
<1>2. ASSUME NEW c \in Comment, NEW u \in User, DeleteStart(h, c, u) PROVE IInv'
  <2> DEFINE j == [NoJob EXCEPT !.comment = c, !.by = u]
  <2>1. j \in Job /\ j.comment = c /\ j.by = u /\ j.ids = {}
    BY StartJob
  <2> HIDE DEF j
  <2>2. Continue(h, "deleting", j) /\ UNCHANGED <<rows, closed, standing, history>>
    BY <1>2 DEF DeleteStart, Start, j
  <2>3. Fits(h, "deleting", j)
    BY <1>2, <2>1 DEF DeleteStart, Fits
  <2> QED BY <2>1, <2>2, <2>3, MoveInv
<1>3. ASSUME NEW c \in Comment, PinRead(h, c) PROVE IInv'
  <2> DEFINE j == [NoJob EXCEPT !.comment = c, !.by = Operator]
  <2>1. j \in Job /\ j.comment = c /\ j.ids = {}
    BY StartJob, OperatorAssumption
  <2> HIDE DEF j
  <2>2. Continue(h, "pinning", j) /\ UNCHANGED <<rows, closed, standing, history>>
    BY <1>3 DEF PinRead, Start, j
  <2>3. Fits(h, "pinning", j)
    BY <1>3, <2>1 DEF PinRead, Fits
  <2> QED BY <2>1, <2>2, <2>3, MoveInv
<1>4. ASSUME NEW c \in Comment, SpamThreadRead(h, c) PROVE IInv'
  <2> DEFINE ids == {d \in Subtree(c) : status[d] \in {"approved", "pending"}}
             j   == [NoJob EXCEPT !.ids = ids]
  <2>1. ids \subseteq Comment /\ \A d \in ids : Exists(d)
    BY DEF Subtree, Exists
  <2> HIDE DEF ids
  <2>2. j \in Job /\ j.ids = ids
    BY <2>1, NoJobType DEF NoJob, Job
  <2>3. Continue(h, "cascading", j) /\ UNCHANGED <<rows, closed, standing, history>>
    BY <1>4 DEF SpamThreadRead, ids
  <2> HIDE DEF j
  <2>4. Fits(h, "cascading", j)
    BY <2>1, <2>2 DEF Fits
  <2> QED BY <2>2, <2>3, <2>4, MoveInv
<1>5. CASE EditRead(h)
  <2> DEFINE j == [job[h] EXCEPT !.seen = status[job[h].comment]]
  <2>1. job[h] \in Job /\ Fits(h, pc[h], job[h])
    BY DEF IInv, TypeOK, HandlersFit
  <2>2. /\ j \in Job /\ j.comment = job[h].comment /\ j.by = job[h].by /\ j.ids = job[h].ids
        /\ j.seen \in {"approved", "pending"}
    BY <1>5, <2>1 DEF EditRead, Job, Status
  <2>3. Continue(h, "evaluating", j) /\ UNCHANGED <<rows, closed, standing, history>>
    BY <1>5 DEF EditRead
  <2> HIDE DEF j
  <2>4. Fits(h, "evaluating", j)
    BY <1>5, <2>1, <2>2 DEF EditRead, Fits
  <2> QED BY <2>2, <2>3, <2>4, MoveInv
<1> QED BY <1>1, <1>2, <1>3, <1>4, <1>5

\* The steps that write a row, and a request that is refused late or dies.
LEMMA InsertStep ==
    ASSUME IInv, NEW h \in Handler, NEW s \in {"approved", "pending"},
           pc[h] \in {"accepted", "replying"}, Insert(h, job[h].comment, s)
    PROVE  IInv'
<1> DEFINE c == job[h].comment
<1>1. /\ c \in Comment /\ job[h].by \in User /\ status[c] = "none"
      /\ Parent[c] = c \/ Exists(Parent[c])
  BY DEF IInv, TypeOK, HandlersFit, Fits, Inserting, Job, Exists
<1>2. status' = [status EXCEPT ![c] = s] /\ text' = [text EXCEPT ![c] = TextOf(s)]
      /\ author' = [author EXCEPT ![c] = job[h].by]
      /\ Finish(h) /\ UNCHANGED <<pinned, closed, standing, vouched>>
  BY DEF Insert
<1> HIDE DEF c
<1>3. \A d \in Comment : status'[d] = IF d = c THEN s ELSE status[d]
  BY <1>1, <1>2 DEF IInv, TypeOK
<1>4. /\ pc' \in [Handler -> Busy \union {"idle"}] /\ job' \in [Handler -> Job]
      /\ overtaken' \subseteq overtaken /\ HandlersFit'
  <2>1. /\ \A d \in Comment : Exists(d) => Exists(d)'
        /\ \A d \in Comment : Exists(d)' => Exists(d) \/ d = c
    BY <1>3 DEF Exists
  <2> QED BY <1>2, <2>1, FinishFits DEF c, Inserting
<1>5. TypeOK'
  <2>1. \A d \in Comment : status'[d] # "none" => status'[Parent[d]] # "none"
    BY <1>1, <1>3, ParentAssumption DEF IInv, TypeOK, Exists
  <2> QED BY <1>1, <1>2, <1>4, <2>1 DEF IInv, TypeOK, Status, TextOf
<1>6. FlaggedNeedsModerator'
  BY <1>1, <1>2 DEF IInv, TypeOK, FlaggedNeedsModerator, TextOf
<1> QED BY <1>4, <1>5, <1>6 DEF IInv

LEMMA EditWriteStep ==
    ASSUME IInv, NEW h \in Handler, NEW verdict \in {"approved", "pending"},
           EditWrite(h, verdict)
    PROVE  IInv'
<1> DEFINE c    == job[h].comment
           next == NextStatus(job[h].seen, verdict)
<1>1. /\ c \in Comment /\ status[c] # "none"
      /\ job[h].seen \in {"approved", "pending"}
      /\ next \in {"approved", "pending"}
  BY DEF IInv, TypeOK, HandlersFit, Fits, Job, Exists, EditWrite, NextStatus
<1>2. /\ text' = [text EXCEPT ![c] = TextOf(verdict)]
      /\ status' = IF next = job[h].seen THEN status ELSE [status EXCEPT ![c] = next]
      /\ vouched' = IF verdict = "pending" /\ ApprovedSince(h)
                    THEN vouched \union {c} ELSE vouched \ {c}
      /\ Finish(h) /\ UNCHANGED <<author, pinned, closed, standing>>
  BY DEF EditWrite
<1>3. verdict = "pending" => next = "pending"
  BY DEF NextStatus
<1>4. ApprovedSince(h) <=> job[h].seen = "pending" /\ status[c] = "approved"
  BY DEF ApprovedSince
<1> HIDE DEF c, next
<1>5. /\ status' \in [Comment -> Status]
      /\ \A d \in Comment : status'[d] # "none" <=> status[d] # "none"
      /\ \A d \in Comment : d # c => status'[d] = status[d]
  BY <1>1, <1>2 DEF IInv, TypeOK, Status
<1>6. /\ pc' \in [Handler -> Busy \union {"idle"}] /\ job' \in [Handler -> Job]
      /\ overtaken' \subseteq overtaken /\ HandlersFit'
  BY <1>2, <1>5, FinishFits DEF Exists
<1>7. TypeOK'
  BY <1>1, <1>2, <1>5, <1>6, ParentAssumption DEF IInv, TypeOK, TextOf
<1>8. FlaggedNeedsModerator'
  <2> SUFFICES ASSUME NEW d \in Comment, status'[d] = "approved", text'[d] = "flagged"
               PROVE  d \in vouched'
    BY DEF FlaggedNeedsModerator
  <2>1. CASE d = c
    <3>1. verdict = "pending"
      BY <1>1, <1>2, <2>1 DEF IInv, TypeOK, TextOf
    <3>2. job[h].seen = "pending" /\ status[c] = "approved"
      BY <1>1, <1>2, <1>3, <2>1, <3>1 DEF IInv, TypeOK
    <3> QED BY <1>2, <1>4, <2>1, <3>1, <3>2
  <2>2. CASE d # c
    BY <1>2, <1>5, <2>2 DEF IInv, TypeOK, FlaggedNeedsModerator
  <2> QED BY <2>1, <2>2
<1> QED BY <1>6, <1>7, <1>8 DEF IInv

LEMMA OtherWrites ==
    ASSUME IInv, NEW h \in Handler,
           DeleteWrite(h) \/ SpamThreadWrite(h) \/ PinWrite(h) \/ Abandon(h)
    PROVE  IInv'
<1>1. job[h] \in Job /\ Fits(h, pc[h], job[h])
  BY DEF IInv, TypeOK, HandlersFit
<1>2. /\ Finish(h) /\ UNCHANGED <<author, text, closed, standing, vouched>>
      /\ pinned' \subseteq {c \in Comment : Parent[c] = c}
  BY <1>1 DEF IInv, TypeOK, DeleteWrite, SpamThreadWrite, PinWrite, Pinnable, Abandon, rows, Job
<1>3. /\ status' \in [Comment -> Status]
      /\ \A c \in Comment : /\ status'[c] # "none" <=> status[c] # "none"
                            /\ status'[c] = "approved" => status[c] = "approved"
  <2>1. CASE DeleteWrite(h)
    BY <1>1, <2>1 DEF IInv, TypeOK, DeleteWrite, Fits, Exists, Job, Status
  <2>2. CASE SpamThreadWrite(h)
    BY <1>1, <2>2 DEF IInv, TypeOK, SpamThreadWrite, Fits, Exists, Job, Status
  <2>3. CASE PinWrite(h) \/ Abandon(h)
    BY <2>3 DEF IInv, TypeOK, PinWrite, Abandon, rows
  <2> QED BY <2>1, <2>2, <2>3
<1>4. /\ pc' \in [Handler -> Busy \union {"idle"}] /\ job' \in [Handler -> Job]
      /\ overtaken' \subseteq overtaken /\ HandlersFit'
  BY <1>2, <1>3, FinishFits DEF Exists
<1>5. TypeOK'
  BY <1>2, <1>3, <1>4, ParentAssumption DEF IInv, TypeOK
<1>6. FlaggedNeedsModerator'
  BY <1>2, <1>3 DEF IInv, FlaggedNeedsModerator
<1> QED BY <1>4, <1>5, <1>6 DEF IInv

\* A moderator writes statuses; the author and the text stay.
LEMMA ModerateStep ==
    ASSUME IInv, NEW C \in SUBSET Comment, NEW s \in {"approved", "spam", "deleted"},
           Moderate(C, s)
    PROVE  IInv'
<1>1. /\ \A c \in C : status[c] # "none"
      /\ status' = [c \in Comment |-> IF c \in C THEN s ELSE status[c]]
      /\ vouched' = IF s = "approved"
                    THEN vouched \union {c \in C : text[c] = "flagged"} ELSE vouched
      /\ UNCHANGED <<author, text, pinned, closed, standing, pc, job, overtaken>>
  BY DEF Moderate, Exists
<1>2. HandlersFit'
  BY <1>1, OutsideFits DEF Exists, IsActive
<1>3. TypeOK'
  BY <1>1, ParentAssumption DEF IInv, TypeOK, Status
<1>4. FlaggedNeedsModerator'
  BY <1>1 DEF IInv, FlaggedNeedsModerator
<1> QED BY <1>2, <1>3, <1>4 DEF IInv

\* A pin, a thread or a user changes and no comment does.
LEMMA ThreadSteps ==
    ASSUME IInv,
           \/ \E c \in Comment : Unpin(c)
           \/ \E b \in BOOLEAN : SetClosed(b)
           \/ \E u \in User : Ban(u) \/ Unban(u)
    PROVE  IInv'
<1> USE DEF IInv, TypeOK
<1>1. ASSUME NEW c \in Comment, Unpin(c) PROVE IInv'
  <2>1. HandlersFit'
    BY <1>1, OutsideFits DEF Unpin, history, Exists, IsActive
  <2> QED BY <1>1, <2>1 DEF Unpin, history, FlaggedNeedsModerator
<1>2. ASSUME NEW b \in BOOLEAN, SetClosed(b) PROVE IInv'
  <2>1. HandlersFit'
    BY <1>2, OutsideFits DEF SetClosed, rows, Exists, IsActive
  <2> QED BY <1>2, <2>1 DEF SetClosed, rows, FlaggedNeedsModerator
<1>3. ASSUME NEW u \in User, Ban(u) PROVE IInv'
  <2>1. HandlersFit'
    BY <1>3, OutsideFits DEF Ban, Overtake, rows, Exists, IsActive, Job
  <2> QED BY <1>3, <2>1, OperatorAssumption DEF Ban, Overtake, rows, FlaggedNeedsModerator
<1>4. ASSUME NEW u \in User, Unban(u) PROVE IInv'
  <2>1. HandlersFit'
    BY <1>4, OutsideFits DEF Unban, rows, history, Exists, IsActive, Job
  <2> QED BY <1>4, <2>1, OperatorAssumption DEF Unban, rows, history, FlaggedNeedsModerator
<1> QED BY <1>1, <1>2, <1>3, <1>4

LEMMA EraseStep ==
    ASSUME IInv, NEW u \in User, NEW redact \in BOOLEAN, Erase(u, redact)
    PROVE  IInv'
<1> DEFINE mine == {c \in Comment : redact /\ Exists(c) /\ author[c] = u}
<1>1. /\ \A c \in mine : status[c] # "none"
      /\ status' = [c \in Comment |-> IF c \in mine THEN "deleted" ELSE status[c]]
      /\ text' = [c \in Comment |-> IF c \in mine THEN "blank" ELSE text[c]]
      /\ vouched' = vouched \ mine
      /\ u # Operator /\ standing' = [standing EXCEPT ![u] = "erased"]
      /\ Overtake(u) /\ UNCHANGED <<author, pinned, closed, pc, job>>
  BY DEF Erase, Exists
<1> HIDE DEF mine
<1>2. HandlersFit'
  BY <1>1, OutsideFits DEF IInv, TypeOK, Overtake, Exists, IsActive, Job
<1>3. TypeOK'
  BY <1>1, ParentAssumption, OperatorAssumption DEF IInv, TypeOK, Status, Overtake
<1>4. FlaggedNeedsModerator'
  BY <1>1 DEF IInv, FlaggedNeedsModerator
<1> QED BY <1>2, <1>3, <1>4 DEF IInv

LEMMA Inductive == IInv /\ [Next]_vars => IInv'
<1> SUFFICES ASSUME IInv, [Next]_vars PROVE IInv'
  OBVIOUS
<1>1. ASSUME NEW h \in Handler, HandlerStep(h) PROVE IInv'
  <2>1. CASE \E v \in {"approved", "pending"} : PostInsert(h, v)
    BY <2>1, InsertStep DEF PostInsert
  <2>2. CASE ReplyInsert(h)
    BY <2>2, InsertStep DEF ReplyInsert
  <2> QED BY <1>1, <2>1, <2>2, PostSteps, ReadSteps, EditWriteStep, OtherWrites
          DEF HandlerStep
<1>2. ASSUME NEW u \in User, UserStep(u) PROVE IInv'
  BY <1>2, ThreadSteps, EraseStep DEF UserStep
<1>3. CASE UNCHANGED vars
  <2> USE <1>3 DEF vars, rows, history, IInv
  <2>1. HandlersFit'
    BY OutsideFits DEF Exists, IsActive
  <2> QED BY <2>1 DEF TypeOK, FlaggedNeedsModerator
<1> QED BY <1>1, <1>2, <1>3, ModerateStep, ThreadSteps DEF Next

-----------------------------------------------------------------------------
(* Theorems *)

\* In every reachable state each handler still knows what its next write needs.
THEOREM CommentsInvariant == Spec => []IInv
BY InitInv, Inductive, PTL DEF Spec

\* Every row keeps its shape, no row loses its parent and only top-level
\* comments are pinned, for any thread and any number of requests.
THEOREM TypeCorrect == Spec => []TypeOK
<1>1. IInv => TypeOK
  BY DEF IInv
<1> QED BY <1>1, CommentsInvariant, PTL

\* No interleaving of posts, edits, cascades, deletions and erasures makes a
\* flagged text public without a moderator's approval.
THEOREM NothingFlaggedUnseen == Spec => []FlaggedNeedsModerator
<1>1. IInv => FlaggedNeedsModerator
  BY DEF IInv
<1> QED BY <1>1, CommentsInvariant, PTL

\* Who changes a status, other than a moderator: an insert, an edit that sends
\* a comment it read as approved to the queue, a cascade, a deletion.
LEMMA WhoWrites ==
    ASSUME IInv, [Next]_vars, ~ModeratorStep, NEW c \in Comment, status'[c] # status[c]
    PROVE  \/ status[c] = "none"
           \/ status'[c] = "deleted"
           \/ status'[c] = "spam" /\ status[c] # "deleted"
           \/ \E h \in Handler :
                 /\ job[h].comment = c /\ job[h].seen = "approved"
                 /\ EditWrite(h, "pending") /\ status'[c] = "pending"
<1> USE DEF IInv, TypeOK
<1>1. ASSUME NEW h \in Handler, HandlerStep(h)
      PROVE  \/ status[c] = "none"
             \/ status'[c] = "deleted"
             \/ status'[c] = "spam" /\ status[c] # "deleted"
             \/ /\ job[h].comment = c /\ job[h].seen = "approved"
                /\ EditWrite(h, "pending") /\ status'[c] = "pending"
  <2>1. Fits(h, pc[h], job[h]) /\ job[h] \in Job
    BY DEF HandlersFit
  <2>2. ASSUME NEW s \in {"approved", "pending"}, pc[h] \in {"accepted", "replying"},
               Insert(h, job[h].comment, s)
        PROVE  status[c] = "none"
    BY <2>1, <2>2 DEF Insert, Fits, Inserting, Exists, Job
  <2>3. CASE \E v \in {"approved", "pending"} : PostInsert(h, v)
    BY <2>2, <2>3 DEF PostInsert
  <2>4. CASE ReplyInsert(h)
    BY <2>2, <2>4 DEF ReplyInsert
  <2>5. ASSUME NEW v \in {"approved", "pending"}, EditWrite(h, v)
        PROVE  /\ job[h].comment = c /\ job[h].seen = "approved"
               /\ EditWrite(h, "pending") /\ status'[c] = "pending"
    <3>1. NextStatus(job[h].seen, v) # job[h].seen /\ job[h].comment = c
          /\ status'[c] = NextStatus(job[h].seen, v)
      BY <2>1, <2>5 DEF EditWrite, Job
    <3>2. job[h].seen \in {"approved", "pending"}
      BY <2>1, <2>5 DEF EditWrite, Fits
    <3>3. job[h].seen = "approved" /\ v = "pending" /\ status'[c] = "pending"
      BY <3>1, <3>2 DEF NextStatus
    <3> QED BY <2>5, <3>1, <3>3
  <2>6. CASE DeleteWrite(h)
    BY <2>6 DEF DeleteWrite
  <2>7. CASE SpamThreadWrite(h)
    BY <2>7 DEF SpamThreadWrite, Hit
  <2>8. ASSUME UNCHANGED status PROVE FALSE
    BY <2>8
  <2> QED BY <1>1, <2>3, <2>4, <2>5, <2>6, <2>7, <2>8
          DEF HandlerStep, PostGate, PostParent, EditRead, PinWrite, Abandon, EditStart,
              SpamThreadRead, PinRead, ReplyStart, PostStart, DeleteStart, rows
<1>2. ASSUME NEW u \in User, UserStep(u) PROVE status'[c] = "deleted"
  BY <1>2 DEF UserStep, Ban, Unban, Erase, rows
<1>3. ~\E d \in Comment : Unpin(d)
  BY DEF Unpin
<1>4. ~(SetClosed(TRUE) \/ SetClosed(FALSE))
  BY DEF SetClosed, rows
<1>5. ~UNCHANGED vars
  BY DEF vars, rows
<1> QED BY <1>1, <1>2, <1>3, <1>4, <1>5 DEF Next, ModeratorStep

\* What is held or marked as spam becomes public by a moderator's step alone.
THEOREM ApprovalIsModerators == Spec => HeldUntilModerator
<1>1. IInv /\ [Next]_vars =>
        [(\E c \in Comment : status[c] \in {"pending", "spam"} /\ status'[c] = "approved")
         => ModeratorStep]_vars
  BY WhoWrites
<1> QED BY <1>1, CommentsInvariant, PTL DEF Spec, HeldUntilModerator

\* A deleted comment comes back only through a moderator or through the one
\* edit that had read it live.
THEOREM DeletionHolds == Spec => DeletedStaysDeleted
<1>1. IInv /\ [Next]_vars =>
        [\A c \in Comment : status[c] = "deleted" /\ status'[c] # "deleted" =>
            \/ ModeratorStep
            \/ \E h \in Handler :
                  /\ job[h].comment = c /\ job[h].seen = "approved"
                  /\ EditWrite(h, "pending") /\ status'[c] = "pending"]_vars
  BY WhoWrites
<1> QED BY <1>1, CommentsInvariant, PTL DEF Spec, DeletedStaysDeleted

\* A pin lands on an approved top-level comment or nowhere, and the post loses
\* its pin only to an unpin or to a target hidden since it was read.
THEOREM PinHolds == Spec => PinSwapsLive
<1> DEFINE P == /\ \A c \in pinned' \ pinned : Parent[c] = c /\ status[c] = "approved"
                /\ pinned # {} /\ pinned' = {} =>
                      \/ \E c \in Comment : Unpin(c)
                      \/ \E h \in Handler :
                            PinWrite(h) /\ status[job[h].comment] # "approved"
<1> HIDE DEF P
<1>1. ASSUME IInv, [Next]_vars PROVE P \/ UNCHANGED vars
  <2>1. ASSUME NEW h \in Handler, PinWrite(h) PROVE P
    <3>1. Parent[job[h].comment] = job[h].comment
      BY <1>1, <2>1 DEF IInv, HandlersFit, Fits, PinWrite
    <3>2. pinned' = {c \in {job[h].comment} : Pinnable(c)}
      BY <2>1 DEF PinWrite
    <3>3. \A c \in pinned' : Parent[c] = c /\ status[c] = "approved"
      BY <3>2 DEF Pinnable
    <3>4. pinned' = {} => status[job[h].comment] # "approved"
      BY <3>1, <3>2 DEF Pinnable
    <3> QED BY <2>1, <3>3, <3>4 DEF P
  <2>2. ASSUME NEW c \in Comment, Unpin(c) PROVE P
    BY <2>2 DEF Unpin, P
  <2>3. ASSUME UNCHANGED pinned PROVE P
    <3>1. pinned' = pinned
      BY <2>3
    <3>2. pinned' \ pinned = {} /\ ~(pinned # {} /\ pinned' = {})
      BY <3>1
    <3> QED BY <3>2 DEF P
  <2>4. ASSUME NEW h \in Handler, HandlerStep(h), ~PinWrite(h) PROVE UNCHANGED pinned
    BY <2>4 DEF HandlerStep, PostGate, PostParent, EditRead, Abandon, EditStart,
                SpamThreadRead, PinRead, ReplyStart, PostStart, DeleteStart, rows,
                PostInsert, ReplyInsert, Insert, EditWrite, DeleteWrite, SpamThreadWrite
  <2>5. ASSUME NEW u \in User, UserStep(u) PROVE UNCHANGED pinned
    BY <2>5 DEF UserStep, Ban, Unban, Erase, rows
  <2> QED BY <1>1, <2>1, <2>2, <2>3, <2>4, <2>5 DEF Next, Moderate, SetClosed, rows
<1>2. IInv /\ [Next]_vars => [P]_vars
  BY <1>1
<1> QED BY <1>2, CommentsInvariant, PTL DEF Spec, PinSwapsLive, P

\* The write of a barred user is always one that was past its check.
THEOREM BarHolds == Spec => BarredUserStops
<1>1. IInv /\ [Next]_vars =>
        [\A h \in Handler :
            /\ ~IsActive(job[h].by)
            /\ DeleteWrite(h) \/ \E v \in Verdict : PostInsert(h, v) \/ EditWrite(h, v)
            => <<h, "barred">> \in overtaken]_vars
  BY DEF IInv, HandlersFit, Fits, DeleteWrite, PostInsert, EditWrite
<1> QED BY <1>1, CommentsInvariant, PTL DEF Spec, BarredUserStops

\* A comment that lands in a closed thread passed the gate while it was open.
THEOREM ClosedThreadHolds == Spec => GateHolds
<1>1. IInv /\ [Next]_vars =>
        [\A h \in Handler : closed /\ (\E v \in Verdict : PostInsert(h, v))
            => <<h, "closed">> \in overtaken]_vars
  BY DEF IInv, HandlersFit, Fits, PostInsert
<1> QED BY <1>1, CommentsInvariant, PTL DEF Spec, GateHolds

-----------------------------------------------------------------------------
(* The thread: what the flags of load() mean whenever it may be asked again.   *)

LoadState == [running : BOOLEAN, queued : BOOLEAN, sort : Drawn!Order \cup {"any"}]

LoadsFit ==
    /\ st \in LoadState
    /\ ask.sort \in Drawn!Order \cup {"any"}
    /\ st.running <=> ask.stage # "none"
    /\ stale => st.running /\ st.queued

\* A request for a reload begins one or is queued behind the one that runs.
LEMMA ReloadFits ==
    ASSUME LoadsFit, NEW s \in LoadState, s.running = st.running,
           s.queued = st.queued, Drawn!Reload(s)
    PROVE  LoadsFit'
<1>1. CASE s.running
  <2>1. st' = [s EXCEPT !.queued = TRUE] /\ ask' = ask
    BY <1>1 DEF Drawn!Reload
  <2> QED BY <1>1, <2>1 DEF LoadsFit, LoadState
<1>2. CASE ~s.running
  <2>1. st' = [s EXCEPT !.running = TRUE] /\ ~stale'
         /\ ask'.stage = "asked" /\ ask'.sort = s.sort
    BY <1>2 DEF Drawn!Reload, Drawn!Asking, Drawn!NoAsk
  <2> QED BY <1>2, <2>1 DEF LoadsFit, LoadState
<1> QED BY <1>1, <1>2

\* A load that ends leaves no request behind: the queued one begins.
LEMMA EndedFits ==
    ASSUME LoadsFit, NEW s \in LoadState, s.queued = st.queued, st.running,
           s.running = st.running, Drawn!Ended(s)
    PROVE  LoadsFit'
<1>1. CASE s.queued
  <2>1. st' = [s EXCEPT !.queued = FALSE] /\ ~stale'
         /\ ask'.stage = "asked" /\ ask'.sort = s.sort
    BY <1>1 DEF Drawn!Ended, Drawn!Asking, Drawn!NoAsk
  <2> QED BY <1>1, <2>1 DEF LoadsFit, LoadState
<1>2. CASE ~s.queued
  <2>1. st' = [s EXCEPT !.running = FALSE] /\ stale' = stale
         /\ ask'.stage = "none" /\ ask'.sort = "any"
    BY <1>2 DEF Drawn!Ended, Drawn!NoAsk
  <2> QED BY <1>2, <2>1 DEF LoadsFit, LoadState
<1> QED BY <1>1, <1>2

\* Every step of the thread.
LEMMA LoadsFitStep == LoadsFit /\ [Drawn!Next]_(Drawn!vars) => LoadsFit'
<1> SUFFICES ASSUME LoadsFit, [Drawn!Next]_(Drawn!vars) PROVE LoadsFit' OBVIOUS
<1>q. UNCHANGED <<st, ask, stale>> => LoadsFit'
  BY DEF LoadsFit
<1>s. st \in LoadState
  BY DEF LoadsFit
<1>r. Drawn!Reload(st) => LoadsFit'
  BY <1>s, ReloadFits
<1>1. CASE Drawn!OtherPosts
  BY <1>1, <1>q DEF Drawn!OtherPosts
<1>2. CASE Drawn!LoadAnswered
  <2>1. UNCHANGED <<st, stale>> /\ ask'.stage = "answered" /\ ask.stage = "asked"
        /\ ask'.sort = IF ask.sort = "any" THEN "new" ELSE ask.sort
    BY <1>2 DEF Drawn!LoadAnswered, Drawn!Answer, Drawn!Default
  <2> QED BY <2>1 DEF LoadsFit, Drawn!Order
<1>3. CASE Drawn!Render
  <2>1. PICK s : s = [st EXCEPT !.sort = ask.sort]
    OBVIOUS
  <2>2. s \in LoadState /\ s.running = st.running /\ s.queued = st.queued
    BY <1>s, <2>1 DEF LoadsFit, LoadState
  <2> QED BY <1>3, <2>1, <2>2, EndedFits DEF Drawn!Render, LoadsFit
<1>4. CASE Drawn!LoadFails
  BY <1>4, <1>s, EndedFits DEF Drawn!LoadFails, LoadsFit
<1>5. CASE Drawn!AskReload
  BY <1>5, <1>r DEF Drawn!AskReload
<1>6. ASSUME NEW o \in Drawn!Order, Drawn!Pick(o) PROVE LoadsFit'
  <2>1. PICK s : s = [st EXCEPT !.sort = o]
    OBVIOUS
  <2>2. s \in LoadState /\ s.running = st.running /\ s.queued = st.queued
    BY <1>s, <2>1 DEF LoadState
  <2> QED BY <1>6, <2>1, <2>2, ReloadFits DEF Drawn!Pick, Drawn!Chosen
<1>7. CASE \/ Drawn!LoadMore \/ Drawn!PageAnswered \/ Drawn!PageDrawn
           \/ Drawn!PageFails \/ Drawn!ShowMore
  BY <1>7, <1>q DEF Drawn!LoadMore, Drawn!PageAnswered, Drawn!PageDrawn,
                    Drawn!PageFails, Drawn!ShowMore
<1>8. CASE \/ \E reply \in BOOLEAN : Drawn!Send(reply)
           \/ Drawn!Commit \/ Drawn!PostFails \/ Drawn!Echo
  BY <1>8, <1>q DEF Drawn!Send, Drawn!Commit, Drawn!PostFails, Drawn!Echo
<1>9. CASE Drawn!EchoUnplaced
  BY <1>9, <1>r DEF Drawn!EchoUnplaced
<1>10. CASE UNCHANGED Drawn!vars
  BY <1>10, <1>q DEF Drawn!vars
<1> QED BY <1>1, <1>2, <1>3, <1>4, <1>5, <1>6, <1>7, <1>8, <1>9, <1>10 DEF Drawn!Next

\* No reload is lost: when the widget rests, its last load began after the last
\* request for one, whatever was squashed into it (embed.ts, load).
THEOREM EveryReloadRuns == Drawn!Spec => []NoReloadLost
<1>1. Drawn!Init => LoadsFit
  BY DEF Drawn!Init, Drawn!Asking, Drawn!NoAsk, Drawn!Order, LoadsFit, LoadState
<1>2. LoadsFit => NoReloadLost
  BY DEF LoadsFit, NoReloadLost, Drawn!NoReloadLost
<1> QED BY <1>1, <1>2, LoadsFitStep, PTL DEF Drawn!Spec

-----------------------------------------------------------------------------
(* The thread: a comment is drawn once.  First what the operators the pages,   *)
(* the list and the tiers are built from keep of what they are given.          *)

\* The thread counts with its own instance of the library.
LEMMA ThreadCounts ==
    /\ \A X : Drawn!Cardinality(X) = Cardinality(X)
    /\ \A X : Drawn!Range(X) = Range(X)
BY DEF Drawn!Cardinality, Cardinality, Drawn!Range, Range

\* Sorted enumerates: as many come before an element as its place says, so two
\* elements never compete for a place and every place has one.
LEMMA SortedOnce ==
    ASSUME NEW S \in SUBSET Nat, IsFiniteSet(S), NEW sort
    PROVE  /\ Drawn!Sorted(S, sort) \in [1..Cardinality(S) -> S]
           /\ IsInjective(Drawn!Sorted(S, sort))
<1> DEFINE ahead(c) == {b \in S : Drawn!Before(b, c, sort)}
           n == Cardinality(S)
           Q == 0..(n - 1)
           rank == [c \in S |-> Cardinality(ahead(c))]
<1>1. n \in Nat
  BY FS_CardinalityType
<1>2. \A c \in S : IsFiniteSet(ahead(c)) /\ Cardinality(ahead(c)) \in Q
  <2> SUFFICES ASSUME NEW c \in S
               PROVE  IsFiniteSet(ahead(c)) /\ Cardinality(ahead(c)) \in Q
    OBVIOUS
  <2>1. ahead(c) \in SUBSET (S \ {c})
    BY DEF Drawn!Before
  <2>2. IsFiniteSet(S \ {c}) /\ Cardinality(S \ {c}) = n - 1
    BY FS_RemoveElement
  <2> HIDE DEF ahead, n
  <2>3. IsFiniteSet(ahead(c)) /\ Cardinality(ahead(c)) <= n - 1
    BY <2>1, <2>2, FS_Subset
  <2>4. Cardinality(ahead(c)) \in Nat
    BY <2>3, FS_CardinalityType
  <2> QED BY <1>1, <2>3, <2>4
<1>3. ASSUME NEW c \in S, NEW d \in S, Drawn!Before(c, d, sort)
      PROVE  rank[c] # rank[d]
  <2>1. ahead(c) \in SUBSET ahead(d) /\ c \in ahead(d) /\ c \notin ahead(c)
    <3>1. /\ \A b \in S : Drawn!Before(b, c, sort) => Drawn!Before(b, d, sort)
          /\ ~Drawn!Before(c, c, sort)
      BY <1>3, S \in SUBSET Nat DEF Drawn!Before
    <3> QED BY <1>3, <3>1
  <2>2. IsFiniteSet(ahead(d))
    BY <1>2
  <2> HIDE DEF ahead
  <2> QED BY <2>1, <2>2, FS_Subset
<1>4. \A c, d \in S : c # d => Drawn!Before(c, d, sort) \/ Drawn!Before(d, c, sort)
  BY DEF Drawn!Before
<1>5. rank \in Injection(S, Q)
  <2>1. rank \in [S -> Q]
    BY <1>2
  <2>2. \A c, d \in S : rank[c] = rank[d] => c = d
    BY <1>3, <1>4
  <2> QED BY <2>1, <2>2 DEF Injection, IsInjective
<1>6. IsFiniteSet(Q) /\ Cardinality(Q) = n
  <2>1. 0 \in Int /\ n - 1 \in Int /\ (0 > n - 1 => n = 0)
    BY <1>1
  <2>2. IsFiniteSet(Q) /\ Cardinality(Q) = IF 0 > n - 1 THEN 0 ELSE (n - 1) - 0 + 1
    BY <2>1, FS_Interval
  <2> QED BY <1>1, <2>1, <2>2
<1>7. rank \in Surjection(S, Q)
  <2> HIDE DEF rank, Q
  <2> QED BY <1>5, <1>6, FS_Injection
<1>8. \A k \in 1..n : \E c \in S : Cardinality(ahead(c)) = k - 1
  <2> SUFFICES ASSUME NEW k \in 1..n PROVE \E c \in S : Cardinality(ahead(c)) = k - 1
    OBVIOUS
  <2>1. k - 1 \in Q
    BY <1>1
  <2>2. \E c \in S : rank[c] = k - 1
    BY <1>7, <2>1 DEF Surjection
  <2> QED BY <2>2
<1>9. Drawn!Sorted(S, sort) = [k \in 1..n |-> CHOOSE c \in S : Cardinality(ahead(c)) = k - 1]
  BY DEF Drawn!Sorted, Drawn!Cardinality, Cardinality
<1>10. \A k \in 1..n : /\ Drawn!Sorted(S, sort)[k] \in S
                       /\ Cardinality(ahead(Drawn!Sorted(S, sort)[k])) = k - 1
  <2> SUFFICES ASSUME NEW k \in 1..n
               PROVE  /\ Drawn!Sorted(S, sort)[k] \in S
                      /\ Cardinality(ahead(Drawn!Sorted(S, sort)[k])) = k - 1
    OBVIOUS
  <2>1. Drawn!Sorted(S, sort)[k] = CHOOSE c \in S : Cardinality(ahead(c)) = k - 1
    BY <1>9
  <2> HIDE DEF ahead, n
  <2> QED BY <1>8, <2>1
<1>11. Drawn!Sorted(S, sort) \in [1..n -> S]
  BY <1>9, <1>10
<1>12. \A j, k \in 1..n : j - 1 = k - 1 => j = k
  BY <1>1
<1> HIDE DEF ahead, n
<1> QED BY <1>10, <1>11, <1>12 DEF IsInjective, n

\* No two entries of a list are of one comment.
OnePerId(l) == \A i, j \in DOMAIN l : l[i].id = l[j].id => i = j

\* Without keeps the rest in place: what it leaves stood at one place each.
LEMMA WithoutKeeps ==
    ASSUME NEW X, NEW l \in Seq(X), NEW I
    PROVE  /\ Drawn!Without(l, I) \in Seq(X)
           /\ \A k \in DOMAIN Drawn!Without(l, I) :
                 \E i \in DOMAIN l \ I : Drawn!Without(l, I)[k] = l[i]
           /\ IsInjective(l) => IsInjective(Drawn!Without(l, I))
           /\ OnePerId(l) => OnePerId(Drawn!Without(l, I))
<1> DEFINE S == DOMAIN l \ I
           left == Drawn!Sorted(S, "old")
           w == Drawn!Without(l, I)
<1>1. S \in SUBSET Nat /\ IsFiniteSet(S) /\ Cardinality(S) \in Nat
  <2>1. Len(l) \in Nat /\ DOMAIN l = 1..Len(l)
    OBVIOUS
  <2>2. IsFiniteSet(1..Len(l))
    BY <2>1, FS_Interval
  <2>3. S \in SUBSET (1..Len(l)) /\ S \in SUBSET Nat
    BY <2>1
  <2> HIDE DEF S
  <2> QED BY <2>2, <2>3, FS_Subset, FS_CardinalityType
<1>2. left \in [1..Cardinality(S) -> S] /\ IsInjective(left)
  <2> HIDE DEF S
  <2> QED BY <1>1, SortedOnce
<1>3. w = [k \in DOMAIN left |-> l[left[k]]] /\ DOMAIN left = 1..Cardinality(S)
  <2>1. w = [k \in DOMAIN left |-> l[left[k]]]
    BY DEF Drawn!Without
  <2> QED BY <1>2, <2>1
<1> HIDE DEF w, left
<1>4. \A k \in 1..Cardinality(S) : /\ left[k] \in DOMAIN l \ I
                                   /\ w[k] = l[left[k]] /\ l[left[k]] \in X
  <2> SUFFICES ASSUME NEW k \in 1..Cardinality(S)
               PROVE  left[k] \in S /\ w[k] = l[left[k]] /\ l[left[k]] \in X
    OBVIOUS
  <2>1. left[k] \in S /\ w[k] = l[left[k]]
    BY <1>2, <1>3
  <2> QED BY <2>1
<1>5. w \in Seq(X) /\ DOMAIN w = 1..Cardinality(S)
  <2>1. DOMAIN w = 1..Cardinality(S) /\ w \in [1..Cardinality(S) -> X]
    BY <1>3, <1>4
  <2> HIDE DEF S
  <2> QED BY <1>1, <2>1
<1>6. \A j, k \in 1..Cardinality(S) : left[j] = left[k] => j = k
  BY <1>2 DEF IsInjective
<1> HIDE DEF S
<1>7. \A k \in DOMAIN w : \E i \in DOMAIN l \ I : w[k] = l[i]
  BY <1>4, <1>5
<1>8. IsInjective(l) => IsInjective(w)
  BY <1>4, <1>5, <1>6 DEF IsInjective
<1>9. OnePerId(l) => OnePerId(w)
  BY <1>4, <1>5, <1>6 DEF OnePerId
<1> QED BY <1>5, <1>7, <1>8, <1>9 DEF w

\* One sequence after another that shares nothing with it.
LEMMA JoinedOnce ==
    ASSUME NEW X, NEW s \in Seq(X), NEW t \in Seq(X)
    PROVE  /\ s \o t \in Seq(X)
           /\ Range(s \o t) = Range(s) \cup Range(t)
           /\ IsInjective(s) /\ IsInjective(t) /\ Range(s) \cap Range(t) = {}
                 => IsInjective(s \o t)
           /\ OnePerId(s) /\ OnePerId(t)
                 /\ (\A i \in DOMAIN s, j \in DOMAIN t : s[i].id # t[j].id)
                 => OnePerId(s \o t)
<1>1. /\ s \o t \in Seq(X) /\ Len(s) \in Nat /\ Len(t) \in Nat
      /\ DOMAIN (s \o t) = 1..(Len(s) + Len(t))
      /\ DOMAIN s = 1..Len(s) /\ DOMAIN t = 1..Len(t)
  OBVIOUS
<1>2. \A k \in DOMAIN (s \o t) :
         \/ k \in DOMAIN s /\ (s \o t)[k] = s[k]
         \/ k - Len(s) \in DOMAIN t /\ k \notin DOMAIN s /\ (s \o t)[k] = t[k - Len(s)]
  BY <1>1
<1>3. /\ \A k \in DOMAIN s : k \in DOMAIN (s \o t) /\ (s \o t)[k] = s[k]
      /\ \A k \in DOMAIN t : k + Len(s) \in DOMAIN (s \o t)
                             /\ (s \o t)[k + Len(s)] = t[k]
  BY <1>1
<1>4. Range(s \o t) = Range(s) \cup Range(t)
  <2>1. Range(s \o t) \in SUBSET (Range(s) \cup Range(t))
    BY <1>2 DEF Range
  <2>2. Range(s) \in SUBSET Range(s \o t) /\ Range(t) \in SUBSET Range(s \o t)
    BY <1>3 DEF Range
  <2> QED BY <2>1, <2>2
<1>5. \A j, k \in DOMAIN (s \o t) : j - Len(s) = k - Len(s) => j = k
  BY <1>1
<1>6. ASSUME IsInjective(s), IsInjective(t), Range(s) \cap Range(t) = {}
      PROVE  IsInjective(s \o t)
  <2>1. \A i \in DOMAIN s, j \in DOMAIN t : s[i] # t[j]
    BY <1>6 DEF Range
  <2> QED BY <1>2, <1>5, <1>6, <2>1 DEF IsInjective
<1>7. ASSUME OnePerId(s), OnePerId(t),
             \A i \in DOMAIN s, j \in DOMAIN t : s[i].id # t[j].id
      PROVE  OnePerId(s \o t)
  BY <1>2, <1>5, <1>7 DEF OnePerId
<1> QED BY <1>1, <1>4, <1>6, <1>7

\* A stretch of a sequence.
LEMMA StretchOnce ==
    ASSUME NEW X, NEW s \in Seq(X), IsInjective(s), NEW m \in Nat \ {0},
           NEW n \in 0..Len(s)
    PROVE  /\ SubSeq(s, m, n) \in Seq(X) /\ IsInjective(SubSeq(s, m, n))
           /\ \A k \in DOMAIN SubSeq(s, m, n) :
                 \E i \in m..n : i \in DOMAIN s /\ SubSeq(s, m, n)[k] = s[i]
<1>1. /\ SubSeq(s, m, n) \in Seq(X)
      /\ DOMAIN SubSeq(s, m, n) = 1..(IF m <= n THEN 1 + n - m ELSE 0)
      /\ \A k \in DOMAIN SubSeq(s, m, n) : /\ SubSeq(s, m, n)[k] = s[m + k - 1]
                                           /\ m + k - 1 \in m..n /\ m + k - 1 \in DOMAIN s
  OBVIOUS
<1>2. \A j, k \in DOMAIN SubSeq(s, m, n) : m + j - 1 = m + k - 1 => j = k
  BY <1>1
<1> QED BY <1>1, <1>2 DEF IsInjective

\* A sequence of one.
LEMMA SingleOnce ==
    ASSUME NEW X, NEW x \in X
    PROVE  /\ <<x>> \in Seq(X) /\ Range(<<x>>) = {x}
           /\ IsInjective(<<x>>) /\ OnePerId(<<x>>)
           /\ DOMAIN <<x>> = {1} /\ <<x>>[1] = x
           /\ \A s \in Seq(X) : Append(s, x) = s \o <<x>>
<1>1. <<x>> \in Seq(X) /\ DOMAIN <<x>> = {1} /\ <<x>>[1] = x
  OBVIOUS
<1>2. Range(<<x>>) = {x} /\ IsInjective(<<x>>) /\ OnePerId(<<x>>)
  BY <1>1 DEF Range, IsInjective, OnePerId
<1>3. \A s \in Seq(X) : Append(s, x) = s \o <<x>>
  OBVIOUS
<1> QED BY <1>1, <1>2, <1>3

-----------------------------------------------------------------------------
\* A fetch, under way or answered: a page holds no comment twice.
FetchOK(a) ==
    /\ a.stage \in {"none", "asked", "answered"}
    /\ a.sort \in Drawn!Order \cup {"any"} /\ a.next \in 0..MaxComment
    /\ a.stage = "answered" => a.sort \in Drawn!Order
    /\ a.rows \in Seq(Drawn!CommentId) /\ IsInjective(a.rows)
    /\ a.below \in Seq(Drawn!CommentId) /\ IsInjective(a.below)

Entry == [id : Drawn!CommentId, posted : BOOLEAN]
TierItem == Drawn!CommentId \cup {Drawn!Button}

ListOK(l) == l \in Seq(Entry) /\ OnePerId(l)
TierOK(t, h) ==
    /\ t \in Seq(TierItem) /\ IsInjective(t)
    /\ h \in Seq(Drawn!CommentId) /\ IsInjective(h)

ServerOK == top \in SUBSET Drawn!CommentId /\ replies \in SUBSET Drawn!CommentId
LoadOK == st \in LoadState /\ FetchOK(ask) /\ stale \in BOOLEAN
ScreenOK ==
    /\ tree \in {"skeleton", "thread", "error"} /\ order \in Drawn!Order
    /\ ListOK(list) /\ TierOK(tier, hidden) /\ more \in 0..MaxComment
PostOK ==
    /\ post \in [stage : {"none", "sent", "committed"},
                 id : Drawn!CommentId \cup {0}, reply : BOOLEAN]
    /\ post.stage = "committed" => post.id \in Drawn!CommentId
PastOK ==
    /\ pending \in Drawn!CommentId \cup {0}
    /\ picked \in Drawn!Order \cup {"any"}
    /\ raced \in BOOLEAN /\ overtook \in BOOLEAN

ThreadFits == ServerOK /\ LoadOK /\ ScreenOK /\ FetchOK(page) /\ PostOK /\ PastOK

\* The comments are numbers from one, and the button is none of them.
LEMMA CommentIds ==
    /\ Drawn!CommentId \in SUBSET Nat /\ IsFiniteSet(Drawn!CommentId)
    /\ Drawn!Button \notin Drawn!CommentId
    /\ Drawn!CommentId \in SUBSET (0..MaxComment)
<1>1. IsFiniteSet(1..MaxComment)
  BY ThreadAssumption, FS_Interval
<1> QED BY <1>1, ThreadAssumption DEF Drawn!CommentId, Drawn!Button

\* A wider set of elements.
LEMMA WiderSeq == ASSUME NEW X, NEW Y, X \in SUBSET Y, NEW s \in Seq(X)
                  PROVE  s \in Seq(Y)
OBVIOUS

\* Sorted makes a sequence of comments.
LEMMA SortedIds ==
    ASSUME NEW S \in SUBSET Drawn!CommentId, NEW sort
    PROVE  /\ Drawn!Sorted(S, sort) \in Seq(Drawn!CommentId)
           /\ IsInjective(Drawn!Sorted(S, sort))
<1>1. S \in SUBSET Nat /\ IsFiniteSet(S) /\ Cardinality(S) \in Nat
  BY CommentIds, FS_Subset, FS_CardinalityType
<1>2. /\ Drawn!Sorted(S, sort) \in [1..Cardinality(S) -> S]
      /\ IsInjective(Drawn!Sorted(S, sort))
  BY <1>1, SortedOnce
<1>3. Drawn!Sorted(S, sort) \in [1..Cardinality(S) -> Drawn!CommentId]
  BY <1>2
<1> QED BY <1>1, <1>2, <1>3

\* What the server answers is a page: a stretch of the thread in one order.
LEMMA AnswerOK ==
    ASSUME ServerOK, NEW a, a.sort \in Drawn!Order \cup {"any"}, NEW cursor
    PROVE  FetchOK(Drawn!Answer(a, cursor)) /\ Drawn!Answer(a, cursor).sort \in Drawn!Order
<1> DEFINE sort == IF a.sort = "any" THEN Drawn!Default ELSE a.sort
           rest == Drawn!Sorted(Drawn!After(cursor, sort), sort)
           size == IF Len(rest) < PageSize THEN Len(rest) ELSE PageSize
           cut == SubSeq(rest, 1, size)
           below == IF Drawn!Root \in Drawn!Range(cut) THEN Drawn!Sorted(replies, "old")
                    ELSE <<>>
           next == IF Len(rest) > PageSize THEN cut[PageSize] ELSE 0
<1>1. sort \in Drawn!Order
  BY DEF Drawn!Order, Drawn!Default
<1>2. rest \in Seq(Drawn!CommentId) /\ IsInjective(rest)
  <2>1. Drawn!After(cursor, sort) \in SUBSET Drawn!CommentId
    BY DEF ServerOK, Drawn!After
  <2> QED BY <2>1, SortedIds
<1>3. Drawn!Answer(a, cursor) = [stage |-> "answered", sort |-> sort, rows |-> cut,
                                 below |-> below, next |-> next]
  BY DEF Drawn!Answer
<1> HIDE DEF sort, rest
<1>4. size \in 0..Len(rest) /\ (Len(rest) > PageSize => size = PageSize)
  BY <1>2, ThreadAssumption
<1> HIDE DEF size
<1>5. cut \in Seq(Drawn!CommentId) /\ IsInjective(cut)
  BY <1>2, <1>4, StretchOnce
<1>6. Len(rest) > PageSize => PageSize \in DOMAIN cut
  BY <1>2, <1>4, ThreadAssumption
<1> HIDE DEF cut
<1>7. below \in Seq(Drawn!CommentId) /\ IsInjective(below)
  <2>1. <<>> \in Seq(Drawn!CommentId) /\ IsInjective(<<>>)
    BY DEF IsInjective
  <2>2. /\ Drawn!Sorted(replies, "old") \in Seq(Drawn!CommentId)
        /\ IsInjective(Drawn!Sorted(replies, "old"))
    BY SortedIds DEF ServerOK
  <2> QED BY <2>1, <2>2
<1>8. next \in 0..MaxComment
  <2>1. Len(rest) > PageSize => cut[PageSize] \in Drawn!CommentId
    BY <1>5, <1>6
  <2>2. 0 \in 0..MaxComment /\ Drawn!CommentId \in SUBSET (0..MaxComment)
    BY CommentIds, ThreadAssumption
  <2>3. next = 0 \/ (Len(rest) > PageSize /\ next = cut[PageSize])
    OBVIOUS
  <2> HIDE DEF next
  <2> QED BY <2>1, <2>2, <2>3
<1> HIDE DEF below, next
<1> QED BY <1>1, <1>3, <1>5, <1>7, <1>8 DEF FetchOK

\* A fetch that is asked for, and none.
LEMMA AskingOK ==
    /\ FetchOK(Drawn!NoAsk)
    /\ \A o \in Drawn!Order \cup {"any"}, c \in 0..MaxComment :
          /\ FetchOK(Drawn!Asking(o))
          /\ FetchOK([Drawn!Asking(o) EXCEPT !.next = c])
<1>1. <<>> \in Seq(Drawn!CommentId) /\ IsInjective(<<>>) /\ 0 \in 0..MaxComment
  BY ThreadAssumption DEF IsInjective
<1> QED BY <1>1 DEF FetchOK, Drawn!Asking, Drawn!NoAsk

\* Whatever a reload or the end of a load does to the flags, the rest fits.
LEMMA ReloadOK == ASSUME LoadOK, NEW s \in LoadState, Drawn!Reload(s) PROVE LoadOK'
<1>1. CASE s.running
  <2>1. st' = [s EXCEPT !.queued = TRUE] /\ ask' = ask /\ stale' = TRUE
    BY <1>1 DEF Drawn!Reload
  <2> QED BY <2>1 DEF LoadOK, LoadState, FetchOK
<1>2. CASE ~s.running
  <2>1. st' = [s EXCEPT !.running = TRUE] /\ ask' = Drawn!Asking(s.sort) /\ stale' = FALSE
    BY <1>2 DEF Drawn!Reload
  <2>2. s.sort \in Drawn!Order \cup {"any"} /\ 0 \in 0..MaxComment
    BY ThreadAssumption DEF LoadState
  <2>3. FetchOK(Drawn!Asking(s.sort))
    BY <2>2, AskingOK
  <2>4. FetchOK(ask)'
    BY <2>1, <2>3 DEF FetchOK
  <2> QED BY <2>1, <2>4 DEF LoadOK, LoadState
<1> QED BY <1>1, <1>2

LEMMA EndedOK == ASSUME LoadOK, NEW s \in LoadState, Drawn!Ended(s) PROVE LoadOK'
<1>1. CASE s.queued
  <2>1. st' = [s EXCEPT !.queued = FALSE] /\ ask' = Drawn!Asking(s.sort) /\ stale' = FALSE
    BY <1>1 DEF Drawn!Ended
  <2>2. s.sort \in Drawn!Order \cup {"any"} /\ 0 \in 0..MaxComment
    BY ThreadAssumption DEF LoadState
  <2>3. FetchOK(Drawn!Asking(s.sort))
    BY <2>2, AskingOK
  <2>4. FetchOK(ask)'
    BY <2>1, <2>3 DEF FetchOK
  <2> QED BY <2>1, <2>4 DEF LoadOK, LoadState
<1>2. CASE ~s.queued
  <2>1. st' = [s EXCEPT !.running = FALSE] /\ ask' = Drawn!NoAsk /\ stale' = stale
    BY <1>2 DEF Drawn!Ended
  <2>2. FetchOK(ask)'
    BY <2>1, AskingOK DEF FetchOK
  <2> QED BY <2>1, <2>2 DEF LoadOK, LoadState
<1> QED BY <1>1, <1>2

\* A page added to the list: the page's own entries differ, and one that the
\* list keeps is left out of them.
LEMMA AddOnce ==
    ASSUME NEW l, ListOK(l), NEW new \in Seq(Drawn!CommentId), IsInjective(new)
    PROVE  ListOK(Drawn!Add(l, new))
<1> DEFINE given == {i \in DOMAIN l : l[i].posted /\ l[i].id \in Drawn!Range(new)}
           kept == Drawn!Without(l, given)
           come == [i \in DOMAIN new |->
                      [id |-> new[i], posted |-> \E j \in given : l[j].id = new[i]]]
           again == {i \in DOMAIN come : come[i].id \in Drawn!Ids(kept)}
           rest == Drawn!Without(come, again)
<1>1. Drawn!Add(l, new) = kept \o rest
  BY DEF Drawn!Add
<1>2. kept \in Seq(Entry) /\ OnePerId(kept)
  <2> HIDE DEF given
  <2> QED BY WithoutKeeps DEF ListOK
<1> HIDE DEF kept
<1>3. come \in Seq(Entry) /\ OnePerId(come)
  <2>1. Len(new) \in Nat /\ DOMAIN new = 1..Len(new)
    OBVIOUS
  <2>2. \A i \in 1..Len(new) : new[i] \in Drawn!CommentId
    OBVIOUS
  <2>3. \A i \in DOMAIN come : come[i].id = new[i] /\ come[i] \in Entry
    BY <2>1, <2>2 DEF Entry
  <2>4. DOMAIN come = 1..Len(new) /\ come \in [1..Len(new) -> Entry]
    BY <2>1, <2>3
  <2>5. come \in Seq(Entry)
    <3> HIDE DEF come
    <3> QED BY <2>1, <2>4
  <2>6. OnePerId(come)
    BY <2>1, <2>3, <2>4 DEF OnePerId, IsInjective
  <2> QED BY <2>5, <2>6
<1> HIDE DEF come
<1>4. /\ rest \in Seq(Entry) /\ OnePerId(rest)
      /\ \A k \in DOMAIN rest : \E i \in DOMAIN come \ again : rest[k] = come[i]
  <2> HIDE DEF again
  <2> QED BY <1>3, WithoutKeeps
<1> HIDE DEF rest
<1>5. \A i \in DOMAIN kept, k \in DOMAIN rest : kept[i].id # rest[k].id
  BY <1>4 DEF Drawn!Ids
<1> HIDE DEF again
<1> QED BY <1>1, <1>2, <1>4, <1>5, JoinedOnce DEF ListOK

\* A comment of the reader's own, at either end of a list that has it not.
LEMMA OwnOnce ==
    ASSUME NEW l, ListOK(l), NEW c \in Drawn!CommentId, c \notin Drawn!Ids(l)
    PROVE  ListOK(Append(l, Drawn!Own(c))) /\ ListOK(<<Drawn!Own(c)>> \o l)
<1> DEFINE x == Drawn!Own(c)
<1>1. x \in Entry /\ x.id = c
  BY DEF Drawn!Own, Entry
<1>2. l \in Seq(Entry) /\ OnePerId(l) /\ \A i \in DOMAIN l : l[i].id # x.id
  BY <1>1 DEF ListOK, Drawn!Ids
<1> HIDE DEF x
<1>3. /\ <<x>> \in Seq(Entry) /\ OnePerId(<<x>>)
      /\ DOMAIN <<x>> = {1} /\ <<x>>[1] = x /\ Append(l, x) = l \o <<x>>
  BY <1>1, <1>2, SingleOnce
<1>4. /\ \A i \in DOMAIN l, j \in DOMAIN <<x>> : l[i].id # <<x>>[j].id
      /\ \A j \in DOMAIN <<x>>, i \in DOMAIN l : <<x>>[j].id # l[i].id
  BY <1>2, <1>3
<1>5. OnePerId(l \o <<x>>) /\ l \o <<x>> \in Seq(Entry)
  BY <1>2, <1>3, <1>4, JoinedOnce
<1>6. OnePerId(<<x>> \o l) /\ <<x>> \o l \in Seq(Entry)
  BY <1>2, <1>3, <1>4, JoinedOnce
<1> QED BY <1>3, <1>5, <1>6 DEF ListOK, x

\* The replies of a thread as they are drawn: some, a button, the rest behind it.
LEMMA DrawnOnce ==
    ASSUME NEW below \in Seq(Drawn!CommentId), IsInjective(below)
    PROVE  TierOK(Drawn!Drawn(below), Drawn!Behind(below))
<1>1. Drawn!CommentId \in SUBSET TierItem /\ Drawn!Button \in TierItem
      /\ Drawn!Button \notin Drawn!CommentId
  BY CommentIds DEF TierItem
<1>2. /\ Drawn!Behind(below) \in Seq(Drawn!CommentId)
      /\ IsInjective(Drawn!Behind(below))
  <2>1. ReplyCap + 1 \in Nat \ {0} /\ Len(below) \in 0..Len(below)
    BY ThreadAssumption
  <2> QED BY <2>1, StretchOnce DEF Drawn!Behind
<1>3. Drawn!Drawn(below) \in Seq(TierItem) /\ IsInjective(Drawn!Drawn(below))
  <2>1. CASE Len(below) <= ReplyCap
    BY <1>1, <2>1, WiderSeq DEF Drawn!Drawn
  <2>2. CASE ~(Len(below) <= ReplyCap)
    <3> DEFINE s == SubSeq(below, 1, ReplyCap)
               b == Drawn!Button
    <3>1. ReplyCap \in 0..Len(below) /\ 1 \in Nat \ {0}
      BY <2>2, ThreadAssumption
    <3>2. s \in Seq(Drawn!CommentId) /\ IsInjective(s)
      BY <3>1, StretchOnce
    <3>3. Drawn!Drawn(below) = Append(s, b)
      BY <2>2 DEF Drawn!Drawn
    <3> HIDE DEF s, b
    <3>4. s \in Seq(TierItem) /\ b \notin Range(s)
      <4>1. \A i \in DOMAIN s : s[i] \in Drawn!CommentId
        BY <3>2
      <4> QED BY <1>1, <3>2, <4>1, WiderSeq DEF Range, b
    <3>5. /\ <<b>> \in Seq(TierItem) /\ Range(<<b>>) = {b} /\ IsInjective(<<b>>)
          /\ Append(s, b) = s \o <<b>>
      BY <1>1, <3>4, SingleOnce DEF b
    <3>6. Range(s) \cap Range(<<b>>) = {}
      BY <3>4, <3>5
    <3>7. s \o <<b>> \in Seq(TierItem) /\ IsInjective(s \o <<b>>)
      BY <3>2, <3>4, <3>5, <3>6, JoinedOnce
    <3> QED BY <3>3, <3>5, <3>7
  <2> QED BY <2>1, <2>2
<1> QED BY <1>2, <1>3 DEF TierOK

\* A reply at the end of a tier that has it not.
LEMMA ReplyOnce ==
    ASSUME NEW t, NEW h, TierOK(t, h), NEW c \in Drawn!CommentId, c \notin Range(t)
    PROVE  TierOK(Append(t, c), h)
<1>1. t \in Seq(TierItem) /\ IsInjective(t) /\ c \in TierItem
  BY DEF TierOK, TierItem
<1>2. /\ <<c>> \in Seq(TierItem) /\ Range(<<c>>) = {c} /\ IsInjective(<<c>>)
      /\ Append(t, c) = t \o <<c>>
  BY <1>1, SingleOnce
<1>3. Range(t) \cap Range(<<c>>) = {}
  BY <1>2
<1>4. t \o <<c>> \in Seq(TierItem) /\ IsInjective(t \o <<c>>)
  BY <1>1, <1>2, <1>3, JoinedOnce
<1> QED BY <1>2, <1>4 DEF TierOK

\* The batch in the button's place: what the tier holds by now is left out of it.
LEMMA BatchOnce ==
    ASSUME TierOK(tier, hidden), NEW b \in DOMAIN tier, tier[b] = Drawn!Button
    PROVE  TierOK(SubSeq(tier, 1, b - 1) \o Drawn!Batch \o SubSeq(tier, b + 1, Len(tier)),
                  <<>>)
<1> DEFINE last == b - 1
           first == b + 1
           pre == SubSeq(tier, 1, last)
           fin == SubSeq(tier, first, Len(tier))
           gone == {i \in DOMAIN hidden : hidden[i] \in Drawn!Range(tier)}
           mid == Drawn!Batch
<1>1. /\ tier \in Seq(TierItem) /\ IsInjective(tier)
      /\ hidden \in Seq(Drawn!CommentId) /\ IsInjective(hidden)
  BY DEF TierOK
<1>2. /\ last \in 0..Len(tier) /\ Len(tier) \in 0..Len(tier)
      /\ 1 \in Nat \ {0} /\ first \in Nat \ {0}
      /\ \A i \in 1..last, j \in first..Len(tier) : i # j
  BY <1>1
<1> HIDE DEF last, first
<1>3. /\ pre \in Seq(TierItem) /\ IsInjective(pre)
      /\ \A k \in DOMAIN pre : \E i \in 1..last : i \in DOMAIN tier /\ pre[k] = tier[i]
  BY <1>1, <1>2, StretchOnce
<1>4. /\ fin \in Seq(TierItem) /\ IsInjective(fin)
      /\ \A k \in DOMAIN fin : \E i \in first..Len(tier) :
             i \in DOMAIN tier /\ fin[k] = tier[i]
  BY <1>1, <1>2, StretchOnce
<1>5. mid = Drawn!Without(hidden, gone)
  BY DEF Drawn!Batch
<1> HIDE DEF pre, fin, mid
<1>6. /\ mid \in Seq(Drawn!CommentId) /\ IsInjective(mid)
      /\ \A k \in DOMAIN mid : \E i \in DOMAIN hidden \ gone : mid[k] = hidden[i]
  <2> HIDE DEF gone
  <2> QED BY <1>1, <1>5, WithoutKeeps
<1>7. mid \in Seq(TierItem)
  BY <1>6, WiderSeq DEF TierItem
<1>8. Range(pre) \in SUBSET Range(tier) /\ Range(fin) \in SUBSET Range(tier)
  BY <1>3, <1>4 DEF Range
<1>9. Range(mid) \cap Range(tier) = {}
  <2>1. \A k \in DOMAIN mid : mid[k] \notin Range(tier)
    BY <1>6, ThreadCounts
  <2> QED BY <2>1 DEF Range
<1>10. Range(pre) \cap Range(fin) = {}
  <2>1. \A k \in DOMAIN pre, m \in DOMAIN fin : pre[k] # fin[m]
    BY <1>1, <1>2, <1>3, <1>4 DEF IsInjective
  <2> QED BY <2>1 DEF Range
<1>11. /\ pre \o mid \in Seq(TierItem) /\ IsInjective(pre \o mid)
       /\ Range(pre \o mid) = Range(pre) \cup Range(mid)
  <2>1. Range(pre) \cap Range(mid) = {}
    BY <1>8, <1>9
  <2> QED BY <1>3, <1>6, <1>7, <2>1, JoinedOnce
<1>12. /\ (pre \o mid) \o fin \in Seq(TierItem) /\ IsInjective((pre \o mid) \o fin)
  <2>1. Range(pre \o mid) \cap Range(fin) = {}
    BY <1>8, <1>9, <1>10, <1>11
  <2> QED BY <1>4, <1>11, <2>1, JoinedOnce
<1>13. <<>> \in Seq(Drawn!CommentId) /\ IsInjective(<<>>)
  BY DEF IsInjective
<1> QED BY <1>12, <1>13 DEF TierOK, pre, mid, fin, last, first

-----------------------------------------------------------------------------
\* What a step leaves alone.
LEMMA ThreadKept ==
    /\ ServerOK /\ UNCHANGED <<top, replies>> => ServerOK'
    /\ LoadOK /\ UNCHANGED <<st, ask, stale>> => LoadOK'
    /\ ScreenOK /\ UNCHANGED <<tree, order, list, tier, hidden, more>> => ScreenOK'
    /\ FetchOK(page) /\ UNCHANGED page => FetchOK(page)'
    /\ PostOK /\ UNCHANGED post => PostOK'
    /\ PastOK /\ UNCHANGED <<pending, picked, raced, overtook>> => PastOK'
BY DEF ServerOK, LoadOK, ScreenOK, FetchOK, PostOK, PastOK, ListOK, TierOK, OnePerId

LEMMA FetchStep == ASSUME NEW a, FetchOK(a), page' = a PROVE FetchOK(page)'
BY DEF FetchOK

LEMMA NothingDrawn == ListOK(<<>>) /\ TierOK(<<>>, <<>>)
BY DEF ListOK, TierOK, OnePerId, IsInjective

\* What makes the next screen.
LEMMA ScreenStep ==
    ASSUME tree' \in {"skeleton", "thread", "error"}, order' \in Drawn!Order,
           NEW l, ListOK(l), list' = l, NEW t, NEW h, TierOK(t, h), tier' = t,
           hidden' = h, more' \in 0..MaxComment
    PROVE  ScreenOK'
BY DEF ScreenOK, ListOK, TierOK, OnePerId

LEMMA ThreadStep == ThreadFits /\ [Drawn!Next]_(Drawn!vars) => ThreadFits'
<1> SUFFICES ASSUME ThreadFits, [Drawn!Next]_(Drawn!vars) PROVE ThreadFits'
  OBVIOUS
<1>a. /\ ServerOK /\ LoadOK /\ ScreenOK /\ FetchOK(page) /\ PostOK /\ PastOK
      /\ 0 \in 0..MaxComment
  BY ThreadAssumption DEF ThreadFits
<1> USE DEF Drawn!server, Drawn!past, Drawn!screen
<1>1. CASE Drawn!OtherPosts
  <2>1. ServerOK'
    BY <1>1, <1>a DEF Drawn!OtherPosts, ServerOK, Drawn!CommentId
  <2> QED BY <1>1, <1>a, <2>1, ThreadKept DEF Drawn!OtherPosts, ThreadFits
<1>2. CASE Drawn!LoadAnswered
  <2>1. FetchOK(Drawn!Answer(ask, 0))
    BY <1>a, AnswerOK DEF LoadOK, FetchOK
  <2>2. LoadOK'
    BY <1>2, <1>a, <2>1 DEF Drawn!LoadAnswered, LoadOK, FetchOK
  <2> QED BY <1>2, <1>a, <2>2, ThreadKept DEF Drawn!LoadAnswered, ThreadFits
<1>3. CASE Drawn!Render
  <2>1. PICK s : s = [st EXCEPT !.sort = ask.sort]
    OBVIOUS
  <2>2. s \in LoadState /\ ask.sort \in Drawn!Order /\ ask.next \in 0..MaxComment
    BY <1>3, <1>a, <2>1 DEF Drawn!Render, LoadOK, LoadState, FetchOK
  <2>3. LoadOK'
    BY <1>3, <1>a, <2>1, <2>2, EndedOK DEF Drawn!Render
  <2>4. ScreenOK'
    <3>1. ListOK(Drawn!Add(<<>>, ask.rows))
      BY <1>a, NothingDrawn, AddOnce DEF LoadOK, FetchOK
    <3>2. TierOK(Drawn!Drawn(ask.below), Drawn!Behind(ask.below))
      BY <1>a, DrawnOnce DEF LoadOK, FetchOK
    <3> QED BY <1>3, <2>2, <3>1, <3>2, ScreenStep DEF Drawn!Render
  <2>5. FetchOK(page)'
    BY <1>3, AskingOK, FetchStep DEF Drawn!Render
  <2>6. PastOK'
    BY <1>3, <1>a DEF Drawn!Render, PastOK
  <2> QED BY <1>3, <1>a, <2>3, <2>4, <2>5, <2>6, ThreadKept DEF Drawn!Render, ThreadFits
<1>4. CASE Drawn!LoadFails
  <2>1. LoadOK'
    BY <1>4, <1>a, EndedOK DEF Drawn!LoadFails, LoadOK
  <2>2. ScreenOK'
    BY <1>4, <1>a, NothingDrawn, ScreenStep DEF Drawn!LoadFails, ScreenOK
  <2>3. FetchOK(page)'
    BY <1>4, AskingOK, FetchStep DEF Drawn!LoadFails
  <2> QED BY <1>4, <1>a, <2>1, <2>2, <2>3, ThreadKept DEF Drawn!LoadFails, ThreadFits
<1>5. CASE Drawn!AskReload
  <2>1. LoadOK'
    BY <1>5, <1>a, ReloadOK DEF Drawn!AskReload, LoadOK
  <2>2. PastOK'
    <3>1. list # <<>> /\ list \in Seq(Entry)
      BY <1>5, <1>a DEF Drawn!AskReload, ScreenOK, ListOK
    <3>2. list[1] \in Entry
      BY <3>1
    <3> QED BY <1>5, <1>a, <3>2 DEF Drawn!AskReload, PastOK, Entry
  <2> QED BY <1>5, <1>a, <2>1, <2>2, ThreadKept DEF Drawn!AskReload, ThreadFits
<1>6. ASSUME NEW o \in Drawn!Order, Drawn!Pick(o) PROVE ThreadFits'
  <2>1. PICK s : s = [st EXCEPT !.sort = o]
    OBVIOUS
  <2>2. s \in LoadState
    BY <1>a, <2>1 DEF LoadOK, LoadState
  <2>3. LoadOK'
    BY <1>6, <1>a, <2>1, <2>2, ReloadOK DEF Drawn!Pick, Drawn!Chosen
  <2>4. PastOK'
    BY <1>6, <1>a DEF Drawn!Pick, PastOK, LoadOK, LoadState
  <2> QED BY <1>6, <1>a, <2>3, <2>4, ThreadKept DEF Drawn!Pick, ThreadFits
<1>7. CASE Drawn!LoadMore
  <2>1. FetchOK([Drawn!Asking(order) EXCEPT !.next = more])
    BY <1>a, AskingOK DEF ScreenOK
  <2>2. FetchOK(page)'
    BY <1>7, <2>1, FetchStep DEF Drawn!LoadMore
  <2> QED BY <1>7, <1>a, <2>2, ThreadKept DEF Drawn!LoadMore, ThreadFits
<1>8. CASE Drawn!PageAnswered
  <2>1. FetchOK(Drawn!Answer(page, page.next))
    BY <1>a, AnswerOK DEF FetchOK
  <2>2. FetchOK(page)'
    BY <1>8, <2>1, FetchStep DEF Drawn!PageAnswered
  <2> QED BY <1>8, <1>a, <2>2, ThreadKept DEF Drawn!PageAnswered, ThreadFits
<1>9. CASE Drawn!PageDrawn
  <2>1. ScreenOK'
    <3>1. ListOK(Drawn!Add(list, page.rows))
      BY <1>a, AddOnce DEF ScreenOK, FetchOK
    <3>2. TierOK(Drawn!Drawn(page.below), Drawn!Behind(page.below)) /\ TierOK(tier, hidden)
      BY <1>a, DrawnOnce DEF ScreenOK, FetchOK
    <3>3. \/ /\ tier' = Drawn!Drawn(page.below)
             /\ hidden' = Drawn!Behind(page.below)
          \/ tier' = tier /\ hidden' = hidden
      BY <1>9 DEF Drawn!PageDrawn
    <3>4. /\ tree' \in {"skeleton", "thread", "error"} /\ order' \in Drawn!Order
          /\ list' = Drawn!Add(list, page.rows) /\ more' \in 0..MaxComment
      BY <1>9, <1>a DEF Drawn!PageDrawn, ScreenOK, FetchOK
    <3> QED BY <3>1, <3>2, <3>3, <3>4, ScreenStep
  <2>2. FetchOK(page)'
    BY <1>9, AskingOK, FetchStep DEF Drawn!PageDrawn
  <2> QED BY <1>9, <1>a, <2>1, <2>2, ThreadKept DEF Drawn!PageDrawn, ThreadFits
<1>10. CASE Drawn!PageFails
  <2>1. FetchOK(page)'
    BY <1>10, AskingOK, FetchStep DEF Drawn!PageFails
  <2> QED BY <1>10, <1>a, <2>1, ThreadKept DEF Drawn!PageFails, ThreadFits
<1>11. CASE Drawn!ShowMore
  <2>1. PICK b \in DOMAIN tier :
            /\ tier[b] = Drawn!Button
            /\ tier' = SubSeq(tier, 1, b - 1) \o Drawn!Batch
                          \o SubSeq(tier, b + 1, Len(tier))
    BY <1>11 DEF Drawn!ShowMore
  <2>2. TierOK(SubSeq(tier, 1, b - 1) \o Drawn!Batch \o SubSeq(tier, b + 1, Len(tier)), <<>>)
    BY <1>a, <2>1, BatchOnce DEF ScreenOK
  <2>3. ScreenOK'
    BY <1>11, <1>a, <2>1, <2>2, ScreenStep DEF Drawn!ShowMore, ScreenOK
  <2> QED BY <1>11, <1>a, <2>3, ThreadKept DEF Drawn!ShowMore, ThreadFits
<1>12. ASSUME NEW r \in BOOLEAN, Drawn!Send(r) PROVE ThreadFits'
  <2>1. PostOK'
    BY <1>12 DEF Drawn!Send, PostOK
  <2> QED BY <1>12, <1>a, <2>1, ThreadKept DEF Drawn!Send, ThreadFits
<1>13. CASE Drawn!Commit
  <2>1. ServerOK'
    BY <1>13, <1>a DEF Drawn!Commit, ServerOK
  <2>2. PostOK'
    BY <1>13, <1>a DEF Drawn!Commit, PostOK
  <2> QED BY <1>13, <1>a, <2>1, <2>2, ThreadKept DEF Drawn!Commit, ThreadFits
<1>14. CASE Drawn!PostFails
  <2>1. PostOK'
    BY <1>14 DEF Drawn!PostFails, PostOK, Drawn!NoPost
  <2> QED BY <1>14, <1>a, <2>1, ThreadKept DEF Drawn!PostFails, ThreadFits
<1>15. CASE Drawn!Echo
  <2>1. PostOK'
    BY <1>15 DEF Drawn!Echo, PostOK, Drawn!NoPost
  <2>2. post.id \in Drawn!CommentId
    BY <1>15, <1>a DEF Drawn!Echo, PostOK
  <2>3. ListOK(list) /\ TierOK(tier, hidden)
    BY <1>a DEF ScreenOK
  <2>4. post.id \notin Drawn!OnScreen =>
            /\ post.id \notin Drawn!Ids(list)
            /\ post.id \notin Range(tier)
    BY <2>2, CommentIds, ThreadCounts DEF Drawn!OnScreen
  <2>5. PICK l : l = list' /\ ListOK(l)
    <3>1. post.id \notin Drawn!OnScreen => /\ ListOK(Append(list, Drawn!Own(post.id)))
                                           /\ ListOK(<<Drawn!Own(post.id)>> \o list)
      BY <2>2, <2>3, <2>4, OwnOnce
    <3> QED BY <1>15, <2>3, <3>1 DEF Drawn!Echo
  <2>6. PICK t : t = tier' /\ TierOK(t, hidden)
    <3>1. post.id \notin Drawn!OnScreen => TierOK(Append(tier, post.id), hidden)
      BY <2>2, <2>3, <2>4, ReplyOnce
    <3> QED BY <1>15, <2>3, <3>1 DEF Drawn!Echo
  <2>7. ScreenOK'
    <3>1. /\ tree' \in {"skeleton", "thread", "error"} /\ order' \in Drawn!Order
          /\ more' \in 0..MaxComment /\ hidden' = hidden
      BY <1>15, <1>a DEF Drawn!Echo, ScreenOK
    <3> QED BY <2>5, <2>6, <3>1, ScreenStep
  <2>8. PastOK'
    BY <1>15, <1>a DEF Drawn!Echo, PastOK
  <2> QED BY <1>15, <1>a, <2>1, <2>7, <2>8, ThreadKept DEF Drawn!Echo, ThreadFits
<1>16. CASE Drawn!EchoUnplaced
  <2>1. LoadOK'
    BY <1>16, <1>a, ReloadOK DEF Drawn!EchoUnplaced, LoadOK
  <2>2. PostOK' /\ PastOK'
    BY <1>16, <1>a DEF Drawn!EchoUnplaced, PostOK, PastOK, Drawn!NoPost
  <2> QED BY <1>16, <1>a, <2>1, <2>2, ThreadKept DEF Drawn!EchoUnplaced, ThreadFits
<1>17. CASE UNCHANGED Drawn!vars
  BY <1>17, <1>a, ThreadKept DEF Drawn!vars, ThreadFits
<1> QED BY <1>1, <1>2, <1>3, <1>4, <1>5, <1>6, <1>7, <1>8, <1>9, <1>10, <1>11,
           <1>12, <1>13, <1>14, <1>15, <1>16, <1>17 DEF Drawn!Next

LEMMA ThreadBegins == Drawn!Init => ThreadFits
<1> SUFFICES ASSUME Drawn!Init PROVE ThreadFits
  OBVIOUS
<1>1. ServerOK
  BY ThreadAssumption DEF Drawn!Init, ServerOK, Drawn!CommentId
<1>2. LoadOK /\ FetchOK(page)
  BY AskingOK, ThreadAssumption DEF Drawn!Init, LoadOK, LoadState
<1>3. ScreenOK
  BY NothingDrawn, ThreadAssumption DEF Drawn!Init, ScreenOK, Drawn!Order, Drawn!Default
<1>4. PostOK /\ PastOK
  BY DEF Drawn!Init, PostOK, PastOK, Drawn!NoPost
<1> QED BY <1>1, <1>2, <1>3, <1>4 DEF ThreadFits

\* What is fetched, captured and drawn has its type and holds no comment twice, for
\* any number of comments, any page and any cap (embed.ts, loadOnce).
THEOREM ThreadInvariant == Drawn!Spec => [](Drawn!TypeOK /\ ThreadFits)
<1>1. ThreadFits => Drawn!TypeOK
  BY DEF ThreadFits, Drawn!TypeOK, ServerOK, LoadOK, ScreenOK, PostOK, PastOK,
         FetchOK, ListOK, TierOK, LoadState, Entry, TierItem
<1> QED BY <1>1, ThreadBegins, ThreadStep, PTL DEF Drawn!Spec

\* No comment stands on the screen twice, whatever pages, loads, captured batches and
\* answers to the reader's own POST bring it (embed.ts, appendThreads, renderReplyList
\* and insertPostedNode).
THEOREM OncePerPage == Drawn!Spec => []NeverTwice
<1>1. ThreadFits => NeverTwice
  BY DEF ThreadFits, ScreenOK, ListOK, TierOK, OnePerId, IsInjective, NeverTwice,
         Drawn!NeverTwice
<1> QED BY <1>1, ThreadBegins, ThreadStep, PTL DEF Drawn!Spec

-----------------------------------------------------------------------------
(* The boxes: a wait is timed, and what takes the timer away ends the wait.    *)

BoxRecord == [kind : {"top", "reply"}, live : BOOLEAN, button : BOOLEAN,
              box : Box!Status, input : Box!Token \cup {Box!None},
              leaving : BOOLEAN, mounted : BOOLEAN, failed : BOOLEAN,
              disposed : BOOLEAN, alive : BOOLEAN, interactive : BOOLEAN,
              retries : {0, 1}, held : Box!Token \cup {Box!None}, timer : BOOLEAN]

\* Whoever is past the gate has a token.
SubmitRecord ==
    {S \in [pc : {"idle", "waiting", "minting", "posting"}, form : Box!Form,
            token : Box!Token \cup {Box!None}, pressed : BOOLEAN,
            known : SUBSET Box!Token] :
        S.pc \in {"minting", "posting"} => S.token \in Box!Token}

Timed(F) == F.timer /\ ~F.failed /\ ~F.disposed

BoxesFit ==
    /\ Box!TypeOK
    /\ sub \in [Submit -> SubmitRecord]
    /\ \A f \in Box!Form : form[f].live => f <= made /\ ~form[f].disposed
    /\ \A s \in Submit : sub[s].pc = "waiting" =>
          sub[s].form <= made /\ Timed(form[sub[s].form])

\* What a box is turned into keeps its shape and what does not concern it.
Kin(F, G) == /\ G \in BoxRecord
             /\ G.kind = F.kind
             /\ G.live = F.live
             /\ G.disposed = F.disposed

\* What the gate's helpers leave of a box.
LEMMA NoticeKin == ASSUME NEW F \in BoxRecord
                   PROVE  Kin(F, Box!Notice(F)) /\ Box!Notice(F).timer = F.timer
                          /\ Box!Notice(F).failed = F.failed
<1>1. CASE F.failed
  BY <1>1 DEF Box!Notice, Kin
<1>2. CASE ~F.failed
  <2>1. Box!Notice(F) = [F EXCEPT !.box = "notice", !.button = TRUE]
    BY <1>2 DEF Box!Notice
  <2> QED BY <2>1 DEF Kin, BoxRecord, Box!Status
<1> QED BY <1>1, <1>2

LEMMA ResetKin == ASSUME NEW F \in BoxRecord
                  PROVE  Kin(F, Box!Reset(F)) /\ Box!Reset(F).timer = F.timer
                         /\ Box!Reset(F).failed = F.failed
BY DEF Box!Reset, Kin, BoxRecord

LEMMA ClearKin == ASSUME NEW F \in BoxRecord
                  PROVE  Kin(F, Box!Clear(F)) /\ Box!Clear(F).timer = F.timer
                         /\ Box!Clear(F).failed = F.failed
BY DEF Box!Clear, Kin, BoxRecord

LEMMA TurnAwayKin == ASSUME NEW F \in BoxRecord, NEW f \in Box!Form
                     PROVE  Kin(F, Box!TurnAway(f, F))
<1>1. PICK G : G = [F EXCEPT !.timer = FALSE]
  OBVIOUS
<1>2. Kin(F, G)
  BY <1>1 DEF Kin, BoxRecord
<1>3. Kin(F, Box!Notice(G))
  BY <1>2, NoticeKin DEF Kin
<1> QED BY <1>1, <1>2, <1>3 DEF Box!TurnAway

LEMMA DisposeShape == ASSUME NEW F \in BoxRecord, NEW f \in Box!Form
                      PROVE  Box!Dispose(f, F) \in BoxRecord /\ ~Box!Dispose(f, F).live
<1>1. PICK G : G = Box!TurnAway(f, F)
  OBVIOUS
<1>2. G \in BoxRecord
  BY <1>1, TurnAwayKin DEF Kin
<1>3. Box!Dispose(f, F) = [G EXCEPT !.disposed = TRUE, !.live = FALSE]
  BY <1>1 DEF Box!Dispose
<1> QED BY <1>2, <1>3 DEF BoxRecord

\* A box as it is built.
LEMMA BuiltShape ==
    ASSUME NEW k \in {"top", "reply"}
    PROVE  Box!Built(k) \in BoxRecord /\ Box!Built(k).live /\ ~Box!Built(k).disposed
<1> DEFINE m == k = "reply"
<1>1. m \in BOOLEAN
  OBVIOUS
<1> HIDE DEF m
<1>2. Box!Built(k) = [kind |-> k, live |-> TRUE, button |-> TRUE, box |-> "clear",
     input |-> Box!None, leaving |-> FALSE, mounted |-> m,
     failed |-> FALSE, disposed |-> FALSE, alive |-> FALSE,
     interactive |-> FALSE, retries |-> 1, held |-> Box!None, timer |-> FALSE]
  BY DEF Box!Built, m
<1> QED BY <1>1, <1>2 DEF BoxRecord, Box!Status

\* Whoever waits at f leaves, the others stay.
LEMMA ReleasedShape ==
    ASSUME BoxesFit, NEW f
    PROVE  /\ Box!Released(f) \in [Submit -> SubmitRecord]
           /\ \A s \in Submit : Box!Released(f)[s].pc = "waiting" =>
                 Box!Released(f)[s] = sub[s] /\ sub[s].form # f
<1>1. Box!Idle \in SubmitRecord /\ Box!Idle.pc = "idle"
  BY BoxAssumption DEF Box!Idle, SubmitRecord, Box!Form
<1> QED BY <1>1 DEF Box!Released, Box!Waiters, BoxesFit, Box!TypeOK, SubmitRecord

\* One box changes; whoever still waits is timed there, or is where they were.
LEMMA OneBox ==
    ASSUME BoxesFit, NEW f \in Box!Form, NEW F \in BoxRecord,
           form' = [form EXCEPT ![f] = F], made' = made,
           F.live => form[f].live /\ ~F.disposed,
           sub' \in [Submit -> SubmitRecord],
           issued' \in 0..MaxToken, spent' \subseteq Box!Token,
           answered' \subseteq Box!Token,
           \A s \in Submit : sub'[s].pc = "waiting" =>
              \/ sub'[s].form = f /\ form[f].live /\ Timed(F)
              \/ sub'[s] = sub[s] /\ (sub[s].form = f => Timed(F))
    PROVE  BoxesFit'
<1> USE DEF BoxesFit
<1>1. form \in [Box!Form -> BoxRecord] /\ sub \in [Submit -> SubmitRecord]
      /\ made \in Box!Form
  BY DEF Box!TypeOK, BoxRecord, SubmitRecord
<1>2. /\ form' \in [Box!Form -> BoxRecord]
      /\ form'[f] = F
      /\ \A g \in Box!Form \ {f} : form'[g] = form[g]
  BY <1>1
<1>3. Box!TypeOK'
  BY <1>1, <1>2 DEF Box!TypeOK, BoxRecord, SubmitRecord
<1>4. \A g \in Box!Form : form'[g].live => g <= made' /\ ~form'[g].disposed
  BY <1>2
<1>5. ASSUME NEW s \in Submit, sub'[s].pc = "waiting"
      PROVE  sub'[s].form <= made' /\ Timed(form'[sub'[s].form])
  <2>1. sub[s].form \in Box!Form
    BY <1>1 DEF SubmitRecord
  <2>2. CASE sub'[s].form = f /\ form[f].live /\ Timed(F)
    BY <1>2, <2>2
  <2>3. CASE sub'[s] = sub[s] /\ (sub[s].form = f => Timed(F))
    <3>1. sub[s].form <= made /\ Timed(form[sub[s].form])
      BY <1>5, <2>3
    <3> QED BY <1>2, <2>1, <2>3, <3>1
  <2> QED BY <1>5, <2>2, <2>3
<1> QED BY <1>3, <1>4, <1>5

\* The records of what is there.
LEMMA FitTypes ==
    ASSUME BoxesFit
    PROVE  /\ form \in [Box!Form -> BoxRecord]
           /\ sub \in [Submit -> SubmitRecord]
           /\ made \in Box!Form /\ issued \in 0..MaxToken
           /\ spent \subseteq Box!Token /\ answered \subseteq Box!Token
BY DEF BoxesFit, Box!TypeOK, BoxRecord, SubmitRecord

\* A box changes under nobody who waits, or goes on being timed.
LEMMA QuietBox ==
    ASSUME BoxesFit, NEW f \in Box!Form, NEW F \in BoxRecord,
           form' = [form EXCEPT ![f] = F],
           F.live = form[f].live, F.disposed = form[f].disposed,
           F.failed = form[f].failed, F.timer = form[f].timer,
           UNCHANGED <<made, sub, issued, spent, answered>>
    PROVE  BoxesFit'
<1>1. sub' \in [Submit -> SubmitRecord] /\ issued' \in 0..MaxToken
      /\ spent' \subseteq Box!Token /\ answered' \subseteq Box!Token
  BY FitTypes
<1>2. \A s \in Submit : sub'[s].pc = "waiting" =>
         sub'[s] = sub[s] /\ (sub[s].form = f => Timed(F))
  BY DEF BoxesFit, Timed
<1>3. F.live => form[f].live /\ ~F.disposed
  BY DEF BoxesFit
<1> QED BY <1>1, <1>2, <1>3, OneBox

\* The gate turns away whoever waits for it, and is left as it is.
LEMMA ReleasedBox ==
    ASSUME BoxesFit, NEW f \in Box!Form, NEW F \in BoxRecord,
           form' = [form EXCEPT ![f] = F], sub' = Box!Released(f),
           F.live => form[f].live /\ ~F.disposed,
           UNCHANGED <<made, issued, spent, answered>>
    PROVE  BoxesFit'
<1>1. sub' \in [Submit -> SubmitRecord] /\ issued' \in 0..MaxToken
      /\ spent' \subseteq Box!Token /\ answered' \subseteq Box!Token
  BY FitTypes, ReleasedShape
<1>2. \A s \in Submit : sub'[s].pc = "waiting" => sub'[s] = sub[s] /\ sub[s].form # f
  BY ReleasedShape
<1> QED BY <1>1, <1>2, OneBox

\* A submit that is over.
LEMMA IdleShape == Box!Idle \in SubmitRecord /\ Box!Idle.pc = "idle"
BY BoxAssumption DEF Box!Idle, SubmitRecord, Box!Form

\* A submit moves on, and waits for nothing; its box keeps its gate.
LEMMA SubmitMoves ==
    ASSUME BoxesFit, NEW f \in Box!Form, NEW F \in BoxRecord,
           NEW s \in Submit, NEW S \in SubmitRecord, S.pc # "waiting",
           form' = [form EXCEPT ![f] = F], sub' = [sub EXCEPT ![s] = S],
           F.live = form[f].live, F.disposed = form[f].disposed,
           F.failed = form[f].failed, F.timer = form[f].timer,
           UNCHANGED <<made, issued>>, spent' \subseteq Box!Token,
           answered' \subseteq Box!Token
    PROVE  BoxesFit'
<1>1. /\ sub' \in [Submit -> SubmitRecord] /\ issued' \in 0..MaxToken
      /\ sub'[s] = S /\ \A t \in Submit \ {s} : sub'[t] = sub[t]
  BY FitTypes
<1>2. \A t \in Submit : sub'[t].pc = "waiting" =>
         sub'[t] = sub[t] /\ (sub[t].form = f => Timed(F))
  BY <1>1 DEF BoxesFit, Timed
<1>3. F.live => form[f].live /\ ~F.disposed
  BY DEF BoxesFit
<1> QED BY <1>1, <1>2, <1>3, OneBox

\* A submit begins: it posts, waits with the timer on, or is turned away.
LEMMA BeginInv ==
    ASSUME BoxesFit, NEW s \in Submit, NEW f \in Box!Form, NEW pressed \in BOOLEAN,
           Box!Begin(s, f, pressed)
    PROVE  BoxesFit'
<1>t. /\ form \in [Box!Form -> BoxRecord] /\ sub \in [Submit -> SubmitRecord]
      /\ made \in Box!Form /\ issued \in 0..MaxToken
      /\ spent \subseteq Box!Token /\ answered \subseteq Box!Token
  BY FitTypes
<1>u. form[f].live /\ UNCHANGED <<made, issued, spent, answered>>
  BY DEF Box!Begin
<1>b. PICK B \in BoxRecord : B = form[f]
  BY <1>t
<1>1. PICK F : F = [B EXCEPT !.button = FALSE, !.mounted = TRUE, !.box = "clear"]
  OBVIOUS
<1>2. /\ F \in BoxRecord /\ F.live = form[f].live /\ F.disposed = form[f].disposed
      /\ F.failed = form[f].failed /\ F.timer = form[f].timer
      /\ F.held \in Box!Token \cup {Box!None}
  BY <1>b, <1>1 DEF BoxRecord, Box!Status
<1>3. PICK S : S = [Box!Idle EXCEPT !.form = f, !.pressed = pressed,
                           !.known = IF pressed THEN answered ELSE {}]
  OBVIOUS
<1>4. S \in SubmitRecord /\ S.form = f
  BY <1>t, <1>3 DEF Box!Idle, SubmitRecord
<1>5. CASE form[f].failed /\ form' = [form EXCEPT ![f].button = FALSE] /\ UNCHANGED sub
  <2>1. PICK G : G = [B EXCEPT !.button = FALSE]
    OBVIOUS
  <2>2. G \in BoxRecord /\ G.live = form[f].live /\ G.disposed = form[f].disposed
        /\ G.failed = form[f].failed /\ G.timer = form[f].timer
    BY <1>b, <2>1 DEF BoxRecord
  <2>3. form' = [form EXCEPT ![f] = G]
    BY <1>5, <1>b, <2>1
  <2> QED BY <1>5, <1>u, <2>2, <2>3, QuietBox
<1>6. CASE /\ form' = [form EXCEPT ![f] = F] /\ F.held # Box!None
           /\ sub' = [sub EXCEPT ![s] = [S EXCEPT !.pc = "minting", !.token = F.held]]
  <2>1. PICK R : R = [S EXCEPT !.pc = "minting", !.token = F.held]
    OBVIOUS
  <2>2. R \in SubmitRecord /\ R.pc # "waiting"
    BY <1>2, <1>4, <1>6, <2>1 DEF SubmitRecord
  <2> QED BY <1>6, <1>t, <1>u, <1>2, <2>1, <2>2, SubmitMoves
<1>7. CASE form' = [form EXCEPT ![f] = Box!Notice(F)] /\ UNCHANGED sub
  <2>1. PICK G : G = Box!Notice(F)
    OBVIOUS
  <2>2. G \in BoxRecord /\ G.live = form[f].live /\ G.disposed = form[f].disposed
        /\ G.failed = form[f].failed /\ G.timer = form[f].timer
    BY <1>2, <2>1, NoticeKin DEF Kin
  <2> QED BY <1>7, <1>u, <2>1, <2>2, QuietBox
<1>8. CASE /\ ~form[f].failed
           /\ form' = [form EXCEPT ![f] = [F EXCEPT !.timer = TRUE]]
           /\ sub' = [sub EXCEPT ![s] = [S EXCEPT !.pc = "waiting"]]
  <2>1. PICK G : G = [F EXCEPT !.timer = TRUE]
    OBVIOUS
  <2>2. G \in BoxRecord /\ G.live = form[f].live /\ G.disposed = form[f].disposed
        /\ G.failed = form[f].failed /\ G.timer
    BY <1>2, <2>1 DEF BoxRecord
  <2>3. ~form[f].disposed
    BY <1>u DEF BoxesFit
  <2>4. Timed(G)
    BY <1>8, <2>2, <2>3 DEF Timed
  <2>5. PICK R : R = [S EXCEPT !.pc = "waiting"]
    OBVIOUS
  <2>6. R \in SubmitRecord /\ R.form = f
    BY <1>4, <2>5 DEF SubmitRecord
  <2>7. /\ sub' \in [Submit -> SubmitRecord]
        /\ sub'[s] = R /\ \A t \in Submit \ {s} : sub'[t] = sub[t]
    BY <1>8, <1>t, <2>5, <2>6
  <2>8. \A t \in Submit : \/ sub'[t].form = f /\ form[f].live /\ Timed(G)
                          \/ sub'[t] = sub[t] /\ (sub[t].form = f => Timed(G))
    BY <1>u, <2>4, <2>6, <2>7
  <2>9. /\ form' = [form EXCEPT ![f] = G] /\ (G.live => form[f].live /\ ~G.disposed)
        /\ made' = made /\ issued' \in 0..MaxToken /\ spent' \subseteq Box!Token
        /\ answered' \subseteq Box!Token
    BY <1>8, <1>t, <1>u, <2>1, <2>2, <2>3
  <2> QED BY <2>2, <2>7, <2>8, <2>9, OneBox
<1>9. \/ form[f].failed /\ form' = [form EXCEPT ![f].button = FALSE] /\ UNCHANGED sub
      \/ /\ form' = [form EXCEPT ![f] = F] /\ F.held # Box!None
         /\ sub' = [sub EXCEPT ![s] = [S EXCEPT !.pc = "minting", !.token = F.held]]
      \/ form' = [form EXCEPT ![f] = Box!Notice(F)] /\ UNCHANGED sub
      \/ /\ ~form[f].failed
         /\ form' = [form EXCEPT ![f] = [F EXCEPT !.timer = TRUE]]
         /\ sub' = [sub EXCEPT ![s] = [S EXCEPT !.pc = "waiting"]]
  BY <1>b, <1>1, <1>3 DEF Box!Begin
<1> QED BY <1>5, <1>6, <1>7, <1>8, <1>9

\* Every box may change, and boxes are built.
LEMMA ManyBoxes ==
    ASSUME BoxesFit, form' \in [Box!Form -> BoxRecord], made' \in Box!Form,
           sub' \in [Submit -> SubmitRecord],
           issued' \in 0..MaxToken, spent' \subseteq Box!Token,
           answered' \subseteq Box!Token,
           \A g \in Box!Form : form'[g].live => g <= made' /\ ~form'[g].disposed,
           \A s \in Submit : sub'[s].pc = "waiting" =>
              sub'[s].form <= made' /\ Timed(form'[sub'[s].form])
    PROVE  BoxesFit'
BY DEF BoxesFit, Box!TypeOK, BoxRecord, SubmitRecord

\* The status line of a box concerns no wait.
LEMMA AnnouncedShape ==
    ASSUME NEW g \in [Box!Form -> BoxRecord]
    PROVE  /\ Box!Announced(g) \in [Box!Form -> BoxRecord]
           /\ \A f \in Box!Form : /\ Box!Announced(g)[f].live = g[f].live
                                  /\ Box!Announced(g)[f].disposed = g[f].disposed
                                  /\ Box!Announced(g)[f].failed = g[f].failed
                                  /\ Box!Announced(g)[f].timer = g[f].timer
BY DEF Box!Announced, BoxRecord, Box!Status

\* A box is built, and a render takes all of them off the page.
LEMMA OpenReplyInv == ASSUME BoxesFit, Box!OpenReply PROVE BoxesFit'
<1>t. /\ form \in [Box!Form -> BoxRecord] /\ sub \in [Submit -> SubmitRecord]
      /\ made \in Box!Form /\ issued \in 0..MaxToken
      /\ spent \subseteq Box!Token /\ answered \subseteq Box!Token
  BY FitTypes
<1>1. PICK F : F = Box!Built("reply")
  OBVIOUS
<1>2. F \in BoxRecord /\ F.live /\ ~F.disposed
  BY <1>1, BuiltShape
<1>3. /\ made < MaxForm /\ made' = made + 1 /\ form' = [form EXCEPT ![made + 1] = F]
      /\ UNCHANGED <<sub, issued, spent, answered>>
  BY <1>1 DEF Box!OpenReply
<1>4. made + 1 \in Box!Form /\ made \in Nat
  BY <1>t, <1>3, BoxAssumption DEF Box!Form
<1>5. /\ form' \in [Box!Form -> BoxRecord] /\ form'[made + 1] = F
      /\ \A g \in Box!Form : g # made + 1 => form'[g] = form[g]
  BY <1>t, <1>2, <1>3, <1>4
<1>6. \A g \in Box!Form : form'[g].live => g <= made' /\ ~form'[g].disposed
  BY <1>2, <1>3, <1>4, <1>5 DEF BoxesFit, Box!Form
<1>7. ASSUME NEW s \in Submit, sub'[s].pc = "waiting"
      PROVE  sub'[s].form <= made' /\ Timed(form'[sub'[s].form])
  <2>1. sub'[s] = sub[s] /\ sub[s].form <= made /\ Timed(form[sub[s].form])
    BY <1>3, <1>7 DEF BoxesFit
  <2>2. sub[s].form \in Box!Form /\ sub[s].form \in Nat
    BY <1>t DEF SubmitRecord, Box!Form
  <2> QED BY <1>3, <1>4, <1>5, <2>1, <2>2
<1> QED BY <1>t, <1>3, <1>4, <1>5, <1>6, <1>7, ManyBoxes

LEMMA RerenderInv == ASSUME BoxesFit, Box!Rerender PROVE BoxesFit'
<1>t. /\ form \in [Box!Form -> BoxRecord] /\ sub \in [Submit -> SubmitRecord]
      /\ made \in Box!Form /\ issued \in 0..MaxToken
      /\ spent \subseteq Box!Token /\ answered \subseteq Box!Token
  BY FitTypes
<1> DEFINE old == {f \in Box!Form : form[f].live /\ form[f].kind = "top"}
<1>1. /\ made < MaxForm /\ made' = made + 1
      /\ form' = [f \in Box!Form |->
             IF f = made + 1 THEN Box!Built("top")
             ELSE IF f \in old THEN Box!Dispose(f, form[f])
             ELSE [form[f] EXCEPT !.live = FALSE]]
      /\ sub' = [s \in Submit |->
             IF \E f \in old : s \in Box!Waiters(f) THEN Box!Idle ELSE sub[s]]
      /\ UNCHANGED <<issued, spent, answered>>
  BY DEF Box!Rerender
<1>2. made + 1 \in Box!Form /\ made \in Nat
  BY <1>t, <1>1, BoxAssumption DEF Box!Form
<1>3. form'[made + 1] = Box!Built("top")
  BY <1>1, <1>2
<1>4. form'[made + 1] \in BoxRecord /\ ~form'[made + 1].disposed
  BY <1>3, BuiltShape
<1>5. ASSUME NEW f \in Box!Form, f # made + 1
      PROVE  /\ form'[f] \in BoxRecord /\ ~form'[f].live
             /\ f \notin old /\ Timed(form[f]) => Timed(form'[f])
  <2>1. PICK B \in BoxRecord : B = form[f]
    BY <1>t
  <2>2. CASE f \in old
    BY <1>1, <1>5, <2>1, <2>2, DisposeShape
  <2>3. CASE f \notin old
    <3>1. form'[f] = [B EXCEPT !.live = FALSE]
      BY <1>1, <1>5, <2>1, <2>3
    <3> QED BY <2>1, <3>1 DEF BoxRecord, Timed
  <2> QED BY <2>2, <2>3
<1>6. form' \in [Box!Form -> BoxRecord]
  BY <1>1, <1>4, <1>5
<1>7. ASSUME NEW g \in Box!Form, form'[g].live
      PROVE  g <= made' /\ ~form'[g].disposed
  <2>1. g = made + 1
    BY <1>5, <1>7
  <2> QED BY <1>1, <1>2, <1>4, <2>1
<1>8. sub' \in [Submit -> SubmitRecord]
  BY <1>t, <1>1, IdleShape
<1>9. ASSUME NEW s \in Submit, sub'[s].pc = "waiting"
      PROVE  sub'[s].form <= made' /\ Timed(form'[sub'[s].form])
  <2>1. sub'[s] = sub[s] /\ ~\E f \in old : s \in Box!Waiters(f)
    BY <1>1, <1>9, IdleShape
  <2>2. PICK f \in Box!Form : f = sub[s].form
    BY <1>t DEF SubmitRecord
  <2>3. f \notin old
    BY <1>9, <2>1, <2>2 DEF Box!Waiters
  <2>4. f <= made /\ Timed(form[f])
    BY <1>9, <2>1, <2>2 DEF BoxesFit
  <2>5. f # made + 1 /\ f <= made'
    BY <1>1, <1>2, <2>2, <2>4 DEF Box!Form
  <2> QED BY <1>5, <2>1, <2>2, <2>3, <2>4, <2>5
<1> QED BY <1>t, <1>1, <1>2, <1>6, <1>7, <1>8, <1>9, ManyBoxes

\* The answer to a post dismisses a reply form, and whoever waits for it.
LEMMA AcceptedInv ==
    ASSUME BoxesFit, NEW s \in Submit, Box!Accepted(s)
    PROVE  BoxesFit'
<1>t. /\ form \in [Box!Form -> BoxRecord] /\ sub \in [Submit -> SubmitRecord]
      /\ made \in Box!Form /\ issued \in 0..MaxToken
      /\ spent \subseteq Box!Token /\ answered \subseteq Box!Token
  BY FitTypes
<1>1. PICK f \in Box!Form : f = sub[s].form
  BY <1>t DEF SubmitRecord
<1>b. PICK B \in BoxRecord : B = form[f]
  BY <1>t
<1>2. /\ spent' = spent \cup {sub[s].token} /\ answered' = answered \cup {sub[s].token}
      /\ sub[s].token \in Box!Token /\ UNCHANGED <<made, issued>>
  BY <1>t DEF Box!Accepted, SubmitRecord
<1>3. ASSUME NEW F \in BoxRecord, NEW Q \in [Submit -> SubmitRecord],
             F.live => form[f].live /\ ~F.disposed,
             form' = Box!Announced([form EXCEPT ![f] = F]),
             sub' = [Q EXCEPT ![s] = Box!Idle],
             \A t \in Submit : Q[t].pc = "waiting" =>
                Q[t] = sub[t] /\ (sub[t].form = f => Timed(F))
      PROVE  BoxesFit'
  <2>1. PICK g \in [Box!Form -> BoxRecord] : g = [form EXCEPT ![f] = F]
    BY <1>t
  <2>2. form' \in [Box!Form -> BoxRecord]
    BY <1>3, <2>1, AnnouncedShape
  <2>3. \A h \in Box!Form : /\ form'[h].live => form[h].live /\ ~form'[h].disposed
                            /\ h # f /\ Timed(form[h]) => Timed(form'[h])
                            /\ h = f /\ Timed(F) => Timed(form'[h])
    <3>1. ASSUME NEW h \in Box!Form
          PROVE  /\ form'[h].live = g[h].live /\ form'[h].disposed = g[h].disposed
                 /\ form'[h].failed = g[h].failed /\ form'[h].timer = g[h].timer
                 /\ g[h] = IF h = f THEN F ELSE form[h]
      BY <1>t, <1>3, <2>1, AnnouncedShape
    <3> QED BY <1>3, <3>1 DEF Timed, BoxesFit
  <2>4. /\ sub' \in [Submit -> SubmitRecord] /\ sub'[s].pc = "idle"
        /\ \A t \in Submit \ {s} : sub'[t] = Q[t]
    BY <1>3, IdleShape
  <2>5. \A h \in Box!Form : form'[h].live => h <= made' /\ ~form'[h].disposed
    BY <1>2, <2>3 DEF BoxesFit
  <2>6. ASSUME NEW t \in Submit, sub'[t].pc = "waiting"
        PROVE  sub'[t].form <= made' /\ Timed(form'[sub'[t].form])
    <3>1. sub'[t] = sub[t] /\ (sub[t].form = f => Timed(F))
      BY <1>3, <2>4, <2>6
    <3>2. sub[t].form \in Box!Form
      BY <1>t DEF SubmitRecord
    <3>3. sub[t].form <= made /\ Timed(form[sub[t].form])
      BY <2>6, <3>1 DEF BoxesFit
    <3> QED BY <1>2, <2>3, <3>1, <3>2, <3>3
  <2> QED BY <1>t, <1>2, <2>2, <2>4, <2>5, <2>6, ManyBoxes
<1>4. CASE form[f].kind = "reply"
  <2>1. PICK F : F = Box!Dispose(f, B)
    OBVIOUS
  <2>2. F \in BoxRecord /\ ~F.live
    BY <2>1, DisposeShape
  <2>3. PICK Q : Q = Box!Released(f)
    OBVIOUS
  <2>4. Q \in [Submit -> SubmitRecord] /\ \A t \in Submit : Q[t].pc = "waiting" =>
           Q[t] = sub[t] /\ sub[t].form # f
    BY <2>3, ReleasedShape
  <2>5. form' = Box!Announced([form EXCEPT ![f] = F]) /\ sub' = [Q EXCEPT ![s] = Box!Idle]
    BY <1>1, <1>b, <1>4, <2>1, <2>3 DEF Box!Accepted
  <2> QED BY <1>3, <2>2, <2>4, <2>5
<1>5. CASE form[f].kind # "reply"
  <2>1. PICK G : G = [B EXCEPT !.button = TRUE]
    OBVIOUS
  <2>2. G \in BoxRecord /\ G.live = form[f].live /\ G.disposed = form[f].disposed
        /\ G.failed = form[f].failed /\ G.timer = form[f].timer
    BY <1>b, <2>1 DEF BoxRecord
  <2>3. PICK F : F = Box!Clear(Box!Reset(G))
    OBVIOUS
  <2>4. F \in BoxRecord /\ F.live = form[f].live /\ F.disposed = form[f].disposed
        /\ F.failed = form[f].failed /\ F.timer = form[f].timer
    BY <2>2, <2>3, ResetKin, ClearKin DEF Kin
  <2>5. PICK Q : Q = Box!Released(MaxForm + 1)
    OBVIOUS
  <2>6. Q \in [Submit -> SubmitRecord] /\ \A t \in Submit : Q[t].pc = "waiting" =>
           Q[t] = sub[t] /\ (sub[t].form = f => Timed(F))
    BY <2>4, <2>5, ReleasedShape DEF BoxesFit, Timed
  <2>7. form' = Box!Announced([form EXCEPT ![f] = F]) /\ sub' = [Q EXCEPT ![s] = Box!Idle]
    BY <1>1, <1>b, <1>5, <2>1, <2>3, <2>5 DEF Box!Accepted
  <2>8. F.live => form[f].live /\ ~F.disposed
    BY <2>4 DEF BoxesFit
  <2> QED BY <1>3, <2>4, <2>6, <2>7, <2>8
<1> QED BY <1>4, <1>5

\* Every step of the boxes.
LEMMA BoxesFitStep == BoxesFit /\ [Box!Next]_(Box!vars) => BoxesFit'
<1> SUFFICES ASSUME BoxesFit, [Box!Next]_(Box!vars) PROVE BoxesFit' OBVIOUS
<1>t. /\ form \in [Box!Form -> BoxRecord] /\ sub \in [Submit -> SubmitRecord]
      /\ made \in Box!Form /\ issued \in 0..MaxToken
      /\ spent \subseteq Box!Token /\ answered \subseteq Box!Token
  BY FitTypes
<1>1. ASSUME NEW f \in Box!Form, Box!Focus(f) PROVE BoxesFit'
  <2>b. PICK B \in BoxRecord : B = form[f]
    BY <1>t
  <2>1. PICK F : F = [B EXCEPT !.mounted = TRUE]
    OBVIOUS
  <2>2. F \in BoxRecord /\ F.live = form[f].live /\ F.disposed = form[f].disposed
        /\ F.failed = form[f].failed /\ F.timer = form[f].timer
    BY <2>b, <2>1 DEF BoxRecord
  <2> QED BY <2>b, <1>1, <2>1, <2>2, QuietBox DEF Box!Focus
<1>2. ASSUME NEW f \in Box!Form, Box!FrameToken(f) PROVE BoxesFit'
  <2>b. PICK B \in BoxRecord : B = form[f]
    BY <1>t
  <2>0. issued' \in Box!Token /\ issued' \in 0..MaxToken
    <3>1. issued < MaxToken /\ issued' = issued + 1
      BY <1>2 DEF Box!FrameToken
    <3> QED BY <1>t, <3>1, BoxAssumption DEF Box!Token
  <2>1. PICK F : F = [B EXCEPT !.input = issued', !.held = issued', !.alive = TRUE,
                   !.interactive = FALSE, !.timer = FALSE]
    OBVIOUS
  <2>2. F \in BoxRecord /\ F.live = form[f].live /\ F.disposed = form[f].disposed
    BY <2>b, <2>0, <2>1 DEF BoxRecord
  <2>3. sub' = [s \in Submit |-> IF s \in Box!Waiters(f)
                  THEN [sub[s] EXCEPT !.pc = "minting", !.token = issued']
                  ELSE sub[s]]
    BY <1>2 DEF Box!FrameToken
  <2>4. sub' \in [Submit -> SubmitRecord]
    BY <1>t, <2>0, <2>3 DEF SubmitRecord
  <2>5. \A s \in Submit : sub'[s].pc = "waiting" => sub'[s] = sub[s] /\ sub[s].form # f
    BY <1>t, <2>3 DEF Box!Waiters, SubmitRecord
  <2>6. form' = [form EXCEPT ![f] = F] /\ UNCHANGED <<made, spent, answered>>
    BY <1>2, <2>b, <2>1 DEF Box!FrameToken
  <2>7. F.live => form[f].live /\ ~F.disposed
    BY <2>2 DEF BoxesFit
  <2> QED BY <1>t, <2>0, <2>2, <2>4, <2>5, <2>6, <2>7, OneBox
<1>3. ASSUME NEW f \in Box!Form, Box!FrameReady(f) PROVE BoxesFit'
  <2>b. PICK B \in BoxRecord : B = form[f]
    BY <1>t
  <2>1. PICK F : F = [B EXCEPT !.alive = TRUE]
    OBVIOUS
  <2>2. F \in BoxRecord /\ F.live = form[f].live /\ F.disposed = form[f].disposed
        /\ F.failed = form[f].failed /\ F.timer = form[f].timer
    BY <2>b, <2>1 DEF BoxRecord
  <2> QED BY <2>b, <1>3, <2>1, <2>2, QuietBox DEF Box!FrameReady
<1>4. ASSUME NEW f \in Box!Form, Box!FrameExpired(f) PROVE BoxesFit'
  <2>b. PICK B \in BoxRecord : B = form[f]
    BY <1>t
  <2>1. PICK F : F = [B EXCEPT !.input = Box!None, !.held = Box!None, !.alive = TRUE]
    OBVIOUS
  <2>2. F \in BoxRecord /\ F.live = form[f].live /\ F.disposed = form[f].disposed
        /\ F.failed = form[f].failed /\ F.timer = form[f].timer
    BY <2>b, <2>1 DEF BoxRecord
  <2> QED BY <2>b, <1>4, <2>1, <2>2, QuietBox DEF Box!FrameExpired
<1>5. ASSUME NEW f \in Box!Form, Box!FrameInteractive(f) PROVE BoxesFit'
  <2>b. PICK B \in BoxRecord : B = form[f]
    BY <1>t
  <2>1. PICK G : G = [B EXCEPT !.alive = TRUE, !.interactive = TRUE]
    OBVIOUS
  <2>2. G \in BoxRecord /\ G.live = form[f].live /\ G.disposed = form[f].disposed
    BY <2>b, <2>1 DEF BoxRecord
  <2>3. PICK F : F = Box!TurnAway(f, G)
    OBVIOUS
  <2>4. F \in BoxRecord /\ (F.live => form[f].live /\ ~F.disposed)
    BY <2>2, <2>3, TurnAwayKin DEF Kin, BoxesFit
  <2>5. form' = [form EXCEPT ![f] = F] /\ sub' = Box!Released(f)
        /\ UNCHANGED <<made, issued, spent, answered>>
    BY <1>5, <2>b, <2>1, <2>3 DEF Box!FrameInteractive
  <2> QED BY <2>4, <2>5, ReleasedBox
<1>6. ASSUME NEW f \in Box!Form, Box!FrameRetries(f) PROVE BoxesFit'
  <2>b. PICK B \in BoxRecord : B = form[f]
    BY <1>t
  <2>1. PICK G : G = [B EXCEPT !.retries = 0, !.alive = TRUE]
    OBVIOUS
  <2>2. G \in BoxRecord /\ G.live = form[f].live /\ G.disposed = form[f].disposed
    BY <2>b, <2>1 DEF BoxRecord
  <2>3. PICK H : H = Box!Reset(Box!Clear(G))
    OBVIOUS
  <2>4. H \in BoxRecord /\ H.live = form[f].live /\ H.disposed = form[f].disposed
    BY <2>2, <2>3, ResetKin, ClearKin DEF Kin
  <2>5. PICK F : F = Box!TurnAway(f, H)
    OBVIOUS
  <2>6. F \in BoxRecord /\ (F.live => form[f].live /\ ~F.disposed)
    BY <2>4, <2>5, TurnAwayKin DEF Kin, BoxesFit
  <2>7. form' = [form EXCEPT ![f] = F] /\ sub' = Box!Released(f)
        /\ UNCHANGED <<made, issued, spent, answered>>
    BY <1>6, <2>b, <2>1, <2>3, <2>5 DEF Box!FrameRetries
  <2> QED BY <2>6, <2>7, ReleasedBox
<1>7. ASSUME NEW f \in Box!Form, Box!FrameFails(f) PROVE BoxesFit'
  <2>b. PICK B \in BoxRecord : B = form[f]
    BY <1>t
  <2>1. PICK F : F = IF form[f].failed THEN form[f]
                     ELSE [B EXCEPT !.failed = TRUE, !.timer = FALSE,
                                  !.button = FALSE, !.box = "failed"]
    OBVIOUS
  <2>2. F \in BoxRecord /\ F.live = form[f].live /\ F.disposed = form[f].disposed
    BY <2>b, <2>1 DEF BoxRecord, Box!Status
  <2> QED BY <2>b, <1>7, <2>1, <2>2, ReleasedBox DEF Box!FrameFails, BoxesFit
<1>8. ASSUME NEW f \in Box!Form, Box!CapExpires(f) PROVE BoxesFit'
  <2>b. PICK B \in BoxRecord : B = form[f]
    BY <1>t
  <2>1. PICK b \in BOOLEAN : b = (form[f].interactive \/ form[f].alive)
    OBVIOUS
  <2>2. PICK G : G = [B EXCEPT !.interactive = b]
    OBVIOUS
  <2>3. G \in BoxRecord /\ G.live = form[f].live /\ G.disposed = form[f].disposed
    BY <2>b, <2>2 DEF BoxRecord
  <2>4. PICK F : F = Box!TurnAway(f, G)
    OBVIOUS
  <2>5. F \in BoxRecord /\ (F.live => form[f].live /\ ~F.disposed)
    BY <2>3, <2>4, TurnAwayKin DEF Kin, BoxesFit
  <2>6. sub' = Box!Released(f) /\ UNCHANGED <<made, issued, spent, answered>>
    BY <1>8 DEF Box!CapExpires
  <2>7. form' = [form EXCEPT ![f] = F]
    <3>1. form' = [form EXCEPT ![f] =
             Box!TurnAway(f, [B EXCEPT !.interactive = (B.interactive \/ B.alive)])]
      BY <1>8, <2>b DEF Box!CapExpires
    <3>2. [B EXCEPT !.interactive = (B.interactive \/ B.alive)] = G
      BY <2>b, <2>1, <2>2
    <3> QED BY <2>4, <3>1, <3>2
  <2> QED BY <2>5, <2>6, <2>7, ReleasedBox
<1>9. ASSUME NEW f \in Box!Form, Box!Dismiss(f) PROVE BoxesFit'
  <2>b. PICK B \in BoxRecord : B = form[f]
    BY <1>t
  <2>1. PICK F : F = Box!Dispose(f, form[f])
    OBVIOUS
  <2> QED BY <2>b, <1>9, <1>t, <2>1, DisposeShape, ReleasedBox DEF Box!Dismiss
<1>10. ASSUME NEW s \in Submit, NEW f \in Box!Form, NEW pressed \in BOOLEAN,
              Box!Begin(s, f, pressed) PROVE BoxesFit'
  BY <1>10, BeginInv
<1>11. ASSUME NEW s \in Submit, Box!Post(s) PROVE BoxesFit'
  <2>1. PICK f \in Box!Form : f = sub[s].form
    BY <1>t DEF SubmitRecord
  <2>2. PICK F \in BoxRecord : F = form[f]
    BY <1>t
  <2>3. PICK k : k = IF F.input # Box!None THEN F.input ELSE sub[s].token
    OBVIOUS
  <2>4. PICK S : S = [sub[s] EXCEPT !.pc = "posting", !.token = k]
    OBVIOUS
  <2>5. k \in Box!Token
    BY <1>t, <1>11, <2>3 DEF BoxRecord, SubmitRecord, Box!Post
  <2>6. S \in SubmitRecord /\ S.pc # "waiting"
    BY <1>t, <2>4, <2>5 DEF SubmitRecord
  <2>7. sub' = [sub EXCEPT ![s] = S] /\ UNCHANGED <<form, made, issued, spent, answered>>
    BY <1>11, <2>1, <2>2, <2>3, <2>4 DEF Box!Post
  <2>8. form' = [form EXCEPT ![f] = F]
    BY <1>t, <2>2, <2>7
  <2> QED BY <1>t, <2>2, <2>6, <2>7, <2>8, SubmitMoves
<1>12. ASSUME NEW s \in Submit, Box!Accepted(s) PROVE BoxesFit'
  BY <1>12, AcceptedInv
<1>13. ASSUME NEW s \in Submit, Box!AcceptedUnseen(s) PROVE BoxesFit'
  <2>1. PICK f \in Box!Form : f = sub[s].form
    BY <1>t DEF SubmitRecord
  <2>2. PICK B \in BoxRecord : B = form[f]
    BY <1>t
  <2>3. PICK F : F = [B EXCEPT !.leaving = TRUE]
    OBVIOUS
  <2>4. F \in BoxRecord /\ F.live = form[f].live /\ F.disposed = form[f].disposed
        /\ F.failed = form[f].failed /\ F.timer = form[f].timer
    BY <2>2, <2>3 DEF BoxRecord
  <2>5. /\ form' = [form EXCEPT ![f] = F] /\ sub' = [sub EXCEPT ![s] = Box!Idle]
        /\ spent' = spent \cup {sub[s].token} /\ answered' = answered \cup {sub[s].token}
        /\ sub[s].token \notin spent /\ UNCHANGED <<made, issued>>
    BY <1>13, <2>1, <2>2, <2>3 DEF Box!AcceptedUnseen
  <2>6. sub[s].token \in Box!Token
    BY <1>t, <1>13 DEF SubmitRecord, Box!AcceptedUnseen
  <2> QED BY <1>t, <2>4, <2>5, <2>6, IdleShape, SubmitMoves
<1>14. ASSUME NEW s \in Submit, Box!Refused(s) PROVE BoxesFit'
  <2>1. PICK f \in Box!Form : f = sub[s].form
    BY <1>t DEF SubmitRecord
  <2>2. PICK B \in BoxRecord : B = form[f]
    BY <1>t
  <2>3. PICK G : G = [B EXCEPT !.button = TRUE, !.box = "error"]
    OBVIOUS
  <2>4. G \in BoxRecord /\ G.live = form[f].live /\ G.disposed = form[f].disposed
        /\ G.failed = form[f].failed /\ G.timer = form[f].timer
    BY <2>2, <2>3 DEF BoxRecord, Box!Status
  <2>5. PICK F : F = IF B.failed THEN B ELSE Box!Clear(Box!Reset(G))
    OBVIOUS
  <2>6. F \in BoxRecord /\ F.live = form[f].live /\ F.disposed = form[f].disposed
        /\ F.failed = form[f].failed /\ F.timer = form[f].timer
    BY <2>2, <2>4, <2>5, ResetKin, ClearKin DEF Kin
  <2>7. /\ form' = [form EXCEPT ![f] = F] /\ sub' = [sub EXCEPT ![s] = Box!Idle]
        /\ UNCHANGED <<made, issued>>
    BY <1>14, <2>1, <2>2, <2>3, <2>5 DEF Box!Refused
  <2>8. spent' \subseteq Box!Token /\ answered' \subseteq Box!Token
    BY <1>t, <1>14 DEF SubmitRecord, Box!Refused
  <2> QED BY <1>t, <2>6, <2>7, <2>8, IdleShape, SubmitMoves
<1>15. CASE Box!OpenReply
  BY <1>15, OpenReplyInv
<1>16. CASE Box!Rerender
  BY <1>16, RerenderInv
<1>17. CASE UNCHANGED Box!vars
  BY <1>17 DEF Box!vars, BoxesFit, Box!TypeOK, Timed
<1> QED BY <1>1, <1>2, <1>3, <1>4, <1>5, <1>6, <1>7, <1>8, <1>9, <1>10, <1>11, <1>12,
           <1>13, <1>14, <1>15, <1>16, <1>17 DEF Box!Next

\* Nobody waits for a challenge token without the timer that ends the wait, on a
\* gate that can still answer (turnstile-gate.ts, settle and wait).
THEOREM WaitsAreTimed == Box!Spec => []WaitersAreTimed
<1>1. Box!Init => BoxesFit
  <2> SUFFICES ASSUME Box!Init PROVE BoxesFit OBVIOUS
  <2> USE DEF Box!Init
  <2>1. 1 \in Box!Form /\ 0 \in 0..MaxToken
    BY BoxAssumption DEF Box!Form
  <2>2. PICK Q : Q = Box!Built("top")
    OBVIOUS
  <2>3. Q \in BoxRecord /\ Q.live /\ ~Q.disposed
    BY <2>2, BuiltShape
  <2>4. PICK U : U = [Q EXCEPT !.live = FALSE]
    OBVIOUS
  <2>5. U \in BoxRecord /\ ~U.live
    BY <2>3, <2>4 DEF BoxRecord
  <2>6. form = [f \in Box!Form |-> IF f = 1 THEN Q ELSE U]
    BY <2>2, <2>4 DEF Box!Unbuilt
  <2>7. form \in [Box!Form -> BoxRecord] /\ sub \in [Submit -> SubmitRecord]
    BY <2>3, <2>5, <2>6, IdleShape
  <2>8. Box!TypeOK
    BY <2>1, <2>7 DEF Box!TypeOK, BoxRecord, SubmitRecord
  <2>9. \A s \in Submit : sub[s].pc # "waiting"
    BY IdleShape
  <2>10. \A f \in Box!Form : form[f].live => f <= made /\ ~form[f].disposed
    BY <2>3, <2>5, <2>6
  <2> QED BY <2>7, <2>8, <2>9, <2>10 DEF BoxesFit
<1>2. BoxesFit => WaitersAreTimed
  BY DEF BoxesFit, Timed, WaitersAreTimed, Box!WaitersAreTimed
<1> QED BY <1>1, <1>2, BoxesFitStep, PTL DEF Box!Spec

-----------------------------------------------------------------------------
(* Reading: trees *)

LEMMA LeastOf == ASSUME NEW S \in SUBSET Nat, S # {} PROVE \E m \in S : \A k \in S : m <= k
<1> DEFINE R == OpToRel(<, Nat)
<1>1. IsWellFoundedOn(R, Nat)
  BY NatLessThanWellFounded
<1>2. \A a, b \in Nat : a < b => <<a, b>> \in R
  BY DEF OpToRel
<1> HIDE DEF R
<1>3. \E m \in S : \A k \in S : <<k, m>> \notin R
  BY <1>1, WFMin
<1>4. PICK m \in S : \A k \in S : <<k, m>> \notin R
  BY <1>3
<1>5. \A k \in S : ~(k < m)
  BY <1>2, <1>4
<1> QED BY <1>5

\* A comment answers one before it, if any.
Forest ==
    /\ above \in [T!Comment -> 0..CommentCount]
    /\ \A c \in T!Comment : above[c] < c

\* What holds of a comment when it holds of the one it answers holds of all.
LEMMA DownTheTree ==
    ASSUME Forest, NEW S \in SUBSET T!Comment,
           \A c \in T!Comment : (above[c] = 0 \/ above[c] \in S) => c \in S
    PROVE  S = T!Comment
<1> USE ReadingAssumption DEF ReadingAssumption
<1>1. SUFFICES ASSUME T!Comment \ S # {} PROVE FALSE
  OBVIOUS
<1>2. T!Comment \ S \in SUBSET Nat
  BY DEF T!Comment
<1>3. PICK m \in T!Comment \ S : \A k \in T!Comment \ S : m <= k
  BY <1>1, <1>2, LeastOf
<1>4. above[m] \in 0..CommentCount /\ above[m] < m /\ m \in Nat
  BY <1>2, <1>3 DEF Forest
<1>5. CASE above[m] = 0
  BY <1>3, <1>5
<1>6. CASE above[m] # 0
  <2>1. above[m] \in T!Comment
    BY <1>4, <1>6 DEF T!Comment
  <2>2. ~(m <= above[m])
    BY <1>4
  <2> QED BY <1>3, <2>1, <2>2
<1> QED BY <1>5, <1>6

\* Up is well defined: what is above a comment is the one it answers, and what
\* is above that.
LEMMA UpIs ==
    ASSUME Forest
    PROVE  T!Up = [c \in T!Comment |->
                     IF above[c] = 0 THEN {} ELSE {above[c]} \cup T!Up[above[c]]]
<1> USE ReadingAssumption DEF ReadingAssumption
<1> DEFINE D(f, c) == IF above[c] = 0 THEN {} ELSE {above[c]} \cup f[above[c]]
           Good(f, n) == \A c \in 1..n : f[c] = D(f, c)
           Bad == {n \in 0..CommentCount : ~ \E f : Good(f, n)}
<1>1. Bad = {}
  <2>1. SUFFICES ASSUME Bad # {} PROVE FALSE
    OBVIOUS
  <2>2. PICK n \in Bad : \A k \in Bad : n <= k
    <3>1. Bad \in SUBSET Nat
      OBVIOUS
    <3> HIDE DEF Bad
    <3> QED BY <2>1, <3>1, LeastOf
  <2>3. n \in 0..CommentCount /\ n \in Nat
    OBVIOUS
  <2> HIDE DEF Good
  <2>4. CASE n = 0
    <3>1. \A c \in 1..0 : FALSE
      OBVIOUS
    <3>2. \E f : Good(f, 0)
      BY <3>1 DEF Good
    <3> QED BY <2>4, <3>2
  <2>5. CASE n # 0
    <3>1. n - 1 \in 0..CommentCount /\ ~(n <= n - 1)
      BY <2>3, <2>5
    <3>2. n - 1 \notin Bad
      BY <2>2, <3>1
    <3>3. PICK f : Good(f, n - 1)
      BY <3>1, <3>2
    <3> DEFINE g == [c \in 1..n |-> IF c = n THEN D(f, n) ELSE f[c]]
    <3>4. ASSUME NEW c \in 1..n PROVE g[c] = D(g, c)
      <4> HIDE DEF Bad
      <4>1. c \in T!Comment /\ above[c] \in 0..CommentCount /\ above[c] < c
        BY <2>3 DEF Forest, T!Comment
      <4>2. above[c] # 0 => above[c] \in 1..n /\ above[c] # n
        BY <4>1, <2>3
      <4>3. above[c] # 0 => g[above[c]] = f[above[c]]
        BY <4>2
      <4>4. D(g, c) = D(f, c)
        BY <4>3
      <4>5. c # n => g[c] = f[c] /\ c \in 1..(n - 1)
        BY <2>3
      <4>6. c # n => f[c] = D(f, c)
        BY <3>3, <4>5 DEF Good
      <4>7. c = n => g[c] = D(f, c)
        OBVIOUS
      <4> HIDE DEF g, D
      <4> QED BY <4>4, <4>5, <4>6, <4>7
    <3>5. \E h : Good(h, n)
      <4> HIDE DEF g, D
      <4> QED BY <3>4 DEF Good
    <3> QED BY <3>5
  <2> QED BY <2>4, <2>5
<1>2. \E f : Good(f, CommentCount)
  <2> HIDE DEF Good
  <2>1. CommentCount \in 0..CommentCount
    OBVIOUS
  <2> QED BY <1>1, <2>1
<1>3. PICK f : Good(f, CommentCount)
  BY <1>2
<1> DEFINE u == [c \in T!Comment |-> f[c]]
<1>4. u = [c \in T!Comment |-> D(u, c)]
  <2>1. ASSUME NEW c \in T!Comment PROVE u[c] = D(u, c)
    <3>1. f[c] = D(f, c)
      BY <1>3 DEF T!Comment
    <3>2. above[c] # 0 => above[c] \in T!Comment
      BY DEF Forest, T!Comment
    <3>3. above[c] # 0 => u[above[c]] = f[above[c]]
      BY <3>2
    <3> QED BY <3>1, <3>3
  <2> HIDE DEF D
  <2>2. [c \in T!Comment |-> u[c]] = [c \in T!Comment |-> D(u, c)]
    BY <2>1
  <2> QED BY <2>2
<1>5. \E h : h = [c \in T!Comment |-> D(h, c)]
  <2> HIDE DEF D, u
  <2> QED BY <1>4
<1>6. T!Up = CHOOSE h : h = [c \in T!Comment |-> D(h, c)]
  BY DEF T!Up, T!Root
<1>7. T!Up = [c \in T!Comment |-> D(T!Up, c)]
  <2> HIDE DEF D
  <2> QED BY <1>5, <1>6
<1> QED BY <1>7

LEMMA UpStep ==
    ASSUME Forest
    PROVE  \A c \in T!Comment :
              /\ above[c] = 0 => T!Up[c] = {}
              /\ above[c] # 0 => /\ above[c] \in T!Comment
                                 /\ T!Up[c] = {above[c]} \cup T!Up[above[c]]
<1> USE ReadingAssumption DEF ReadingAssumption
<1>1. \A c \in T!Comment : T!Up[c] = IF above[c] = 0 THEN {}
                                     ELSE {above[c]} \cup T!Up[above[c]]
  BY UpIs
<1>2. \A c \in T!Comment : above[c] # 0 => above[c] \in T!Comment
  BY DEF Forest, T!Comment
<1> QED BY <1>1, <1>2

\* Up holds comments, older ones, with whatever is above these, and of any two
\* that are above a comment one is above the other.
LEMMA UpIsChain ==
    ASSUME Forest
    PROVE  \A c \in T!Comment :
              /\ \A d \in T!Up[c] : d \in T!Comment /\ d < c
              /\ \A d \in T!Up[c] : T!Up[d] \subseteq T!Up[c]
              /\ \A d, e \in T!Up[c] : d = e \/ d \in T!Up[e] \/ e \in T!Up[d]
<1> USE ReadingAssumption DEF ReadingAssumption
<1> DEFINE Older(c) == \A d \in T!Up[c] : d \in T!Comment /\ d < c
           Whole(c) == \A d \in T!Up[c] : T!Up[d] \subseteq T!Up[c]
           Chain(c) == \A d, e \in T!Up[c] : d = e \/ d \in T!Up[e] \/ e \in T!Up[d]
           S == {c \in T!Comment : Older(c) /\ Whole(c) /\ Chain(c)}
<1>1. ASSUME NEW c \in T!Comment, above[c] = 0 \/ above[c] \in S PROVE c \in S
  <2>1. CASE above[c] = 0
    <3>1. T!Up[c] = {}
      BY <2>1, UpStep
    <3> QED BY <3>1
  <2>2. CASE above[c] # 0
    <3> DEFINE p == above[c]
    <3>1. p \in S /\ p \in T!Comment /\ T!Up[c] = {p} \cup T!Up[p] /\ p < c
      BY <1>1, <2>2, UpStep DEF Forest
    <3> HIDE DEF p
    <3>2. Older(p) /\ Whole(p) /\ Chain(p)
      BY <3>1
    <3>3. Older(c)
      <4>1. \A d \in T!Comment : d \in Int
        BY DEF T!Comment
      <4> QED BY <3>1, <3>2, <4>1
    <3>4. Whole(c)
      BY <3>1, <3>2
    <3>5. Chain(c)
      BY <3>1, <3>2
    <3> QED BY <3>3, <3>4, <3>5
  <2> QED BY <2>1, <2>2
<1>2. S = T!Comment
  <2>1. S \in SUBSET T!Comment
    OBVIOUS
  <2> HIDE DEF S
  <2> QED BY <1>1, <2>1, DownTheTree
<1> QED BY <1>2

\* Above every comment, or in it, is one root.
LEMMA OneRoot ==
    ASSUME Forest, NEW c \in T!Comment
    PROVE  /\ \E r \in {c} \cup T!Up[c] : above[r] = 0
           /\ \A r, t \in {c} \cup T!Up[c] : above[r] = 0 /\ above[t] = 0 => r = t
<1> DEFINE S == {d \in T!Comment : \E r \in {d} \cup T!Up[d] : above[r] = 0}
<1>1. ASSUME NEW d \in T!Comment, above[d] = 0 \/ above[d] \in S PROVE d \in S
  <2>1. CASE above[d] = 0
    BY <2>1
  <2>2. CASE above[d] # 0
    <3>1. above[d] \in S /\ T!Up[d] = {above[d]} \cup T!Up[above[d]]
      BY <1>1, <2>2, UpStep
    <3> QED BY <3>1
  <2> QED BY <2>1, <2>2
<1>2. S = T!Comment
  <2>1. S \in SUBSET T!Comment
    OBVIOUS
  <2> HIDE DEF S
  <2> QED BY <1>1, <2>1, DownTheTree
<1>3. ASSUME NEW r \in {c} \cup T!Up[c], NEW t \in {c} \cup T!Up[c], above[r] = 0, above[t] = 0
      PROVE  r = t
  <2>1. r \in T!Comment /\ t \in T!Comment
    BY UpIsChain
  <2>2. T!Up[r] = {} /\ T!Up[t] = {}
    BY <1>3, <2>1, UpStep
  <2>3. r = t \/ r \in T!Up[t] \/ t \in T!Up[r]
    BY UpIsChain
  <2> QED BY <2>2, <2>3
<1> QED BY <1>2, <1>3

\* The tree counts with its own instance of the library.
LEMMA TreeCounts == \A X : T!Cardinality(X) = Cardinality(X)
BY DEF T!Cardinality, Cardinality

\* A reply is one level under what it answers, and there is something above it
\* at every level.
LEMMA DepthIs ==
    ASSUME Forest, NEW c \in T!Comment
    PROVE  /\ T!Depth(c) \in Nat
           /\ above[c] = 0 => T!Depth(c) = 0
           /\ above[c] # 0 => T!Depth(c) = T!Depth(above[c]) + 1
<1> USE ReadingAssumption DEF ReadingAssumption
<1>1. IsFiniteSet(T!Comment)
  BY FS_Interval DEF T!Comment
<1>2. \A d \in T!Comment : IsFiniteSet(T!Up[d]) /\ T!Depth(d) = Cardinality(T!Up[d])
  <2> TAKE d \in T!Comment
  <2>1. T!Up[d] \in SUBSET T!Comment
    BY UpIsChain
  <2> QED BY <1>1, <2>1, FS_Subset, TreeCounts DEF T!Depth
<1>3. T!Depth(c) \in Nat
  BY <1>2, FS_CardinalityType
<1>4. CASE above[c] = 0
  BY <1>2, <1>3, <1>4, UpStep, FS_EmptySet
<1>5. CASE above[c] # 0
  <2> DEFINE p == above[c]
  <2>1. p \in T!Comment /\ T!Up[c] = T!Up[p] \cup {p}
    BY <1>5, UpStep
  <2>2. p \notin T!Up[p]
    <3>1. p \in Int
      BY <2>1 DEF T!Comment
    <3> QED BY <2>1, <3>1, UpIsChain
  <2> HIDE DEF p
  <2>3. Cardinality(T!Up[c]) = Cardinality(T!Up[p]) + 1
    BY <1>2, <2>1, <2>2, FS_AddElement
  <2> QED BY <1>2, <1>3, <1>5, <2>1, <2>3 DEF p
<1> QED BY <1>3, <1>4, <1>5

LEMMA EveryDepth ==
    ASSUME Forest, NEW c \in T!Comment
    PROVE  \A k \in 0..(T!Depth(c) - 1) : \E d \in T!Up[c] : T!Depth(d) = k
<1> DEFINE Full(d) == \A k \in 0..(T!Depth(d) - 1) : \E e \in T!Up[d] : T!Depth(e) = k
           S == {d \in T!Comment : Full(d)}
<1>1. ASSUME NEW d \in T!Comment, above[d] = 0 \/ above[d] \in S PROVE d \in S
  <2>1. CASE above[d] = 0
    <3>1. T!Depth(d) = 0
      BY <2>1, DepthIs
    <3>2. 0..(T!Depth(d) - 1) = {}
      BY <3>1
    <3> QED BY <3>2
  <2>2. CASE above[d] # 0
    <3> DEFINE p == above[d]
    <3>1. p \in T!Comment /\ T!Up[d] = {p} \cup T!Up[p] /\ T!Depth(d) = T!Depth(p) + 1
      BY <2>2, UpStep, DepthIs
    <3>2. Full(p)
      BY <1>1, <2>2
    <3>3. T!Depth(p) \in Nat
      BY <3>1, DepthIs
    <3> HIDE DEF p
    <3>4. ASSUME NEW k \in 0..(T!Depth(d) - 1) PROVE \E e \in T!Up[d] : T!Depth(e) = k
      <4>1. k = T!Depth(p) \/ k \in 0..(T!Depth(p) - 1)
        BY <3>1, <3>3
      <4> QED BY <3>1, <3>2, <4>1
    <3> QED BY <3>4
  <2> QED BY <2>1, <2>2
<1>2. S = T!Comment
  <2>1. S \in SUBSET T!Comment
    OBVIOUS
  <2> HIDE DEF S
  <2> QED BY <1>1, <2>1, DownTheTree
<1> QED BY <1>2

\* A root is put under nothing, and whatever is not is put under a comment.
LEMMA HolderIs ==
    ASSUME Forest, NEW c \in T!Comment
    PROVE  /\ above[c] = 0 => T!Holder(c) = T!Root
           /\ above[c] # 0 => T!Holder(c) \in T!Up[c]
<1> USE ReadingAssumption DEF ReadingAssumption
<1>1. CASE above[c] = 0
  BY <1>1, DepthIs DEF T!Holder, T!Root
<1>2. CASE above[c] # 0 /\ T!Depth(c) <= Levels
  BY <1>2, UpStep DEF T!Holder
<1>3. CASE above[c] # 0 /\ ~(T!Depth(c) <= Levels)
  <2>1. T!Depth(c) \in Nat
    BY DepthIs
  <2>2. Levels - 1 \in 0..(T!Depth(c) - 1)
    BY <1>3, <2>1
  <2>3. \E d \in T!Up[c] : T!Depth(d) = Levels - 1
    BY <2>2, EveryDepth
  <2>4. T!Holder(c) = CHOOSE d \in T!Up[c] : T!Depth(d) = Levels - 1
    BY <1>3 DEF T!Holder
  <2> QED BY <1>3, <2>3, <2>4
<1> QED BY <1>1, <1>2, <1>3

\* The rows of a post: a reply's is written after that of what it answers.
RowsFit ==
    /\ Forest
    /\ state \in [T!Comment -> T!Status]
    /\ \A c \in T!Comment : above[c] # 0 /\ state[c] # "absent" => state[above[c]] # "absent"

LEMMA RowsUpwards ==
    ASSUME RowsFit, NEW c \in T!Row
    PROVE  c \in T!Comment /\ T!Up[c] \subseteq T!Row
<1> DEFINE S == {d \in T!Comment : d \in T!Row => T!Up[d] \subseteq T!Row}
<1>1. Forest
  BY DEF RowsFit
<1>2. ASSUME NEW d \in T!Comment, above[d] = 0 \/ above[d] \in S PROVE d \in S
  <2>1. CASE above[d] = 0
    BY <1>1, <2>1, UpStep
  <2>2. CASE above[d] # 0
    <3>1. above[d] \in T!Comment /\ T!Up[d] = {above[d]} \cup T!Up[above[d]]
      BY <1>1, <2>2, UpStep
    <3>2. d \in T!Row => above[d] \in T!Row
      BY <2>2, <3>1 DEF RowsFit, T!Row
    <3> QED BY <1>2, <2>2, <3>1, <3>2
  <2> QED BY <2>1, <2>2
<1>3. S = T!Comment
  <2>1. S \in SUBSET T!Comment
    OBVIOUS
  <2> HIDE DEF S
  <2> QED BY <1>1, <1>2, <2>1, DownTheTree
<1> QED BY <1>3 DEF T!Row

\* Of what is live under a hidden comment, the oldest asks for that comment.
LEMMA HiddenIsAskedFor ==
    ASSUME RowsFit, NEW v, NEW c \in T!Comment, ~T!Live(c, v),
           NEW d \in T!Row, c \in T!Up[d], T!Live(d, v)
    PROVE  \E e \in T!Row : c \in T!Up[e] /\ T!Live(e, v) /\ c \in T!Need(e, v)
<1> USE ReadingAssumption DEF ReadingAssumption
<1> DEFINE S == {e \in T!Row : c \in T!Up[e] /\ T!Live(e, v)}
<1>1. Forest
  BY DEF RowsFit
<1>2. S \in SUBSET Nat /\ S # {}
  BY DEF T!Row, T!Comment
<1>3. PICK e \in S : \A k \in S : e <= k
  <2> HIDE DEF S
  <2> QED BY <1>2, LeastOf
<1>4. e \in T!Row /\ e \in T!Comment /\ c \in T!Up[e] /\ T!Live(e, v)
  BY DEF T!Row
<1>5. above[e] # 0 /\ above[e] \in T!Comment /\ T!Up[e] = {above[e]} \cup T!Up[above[e]]
  BY <1>1, <1>4, UpStep
<1>6. ASSUME NEW x \in T!Way(above[e], c) PROVE ~T!Live(x, v)
  <2>1. x \in T!Up[e] /\ (x = c \/ c \in T!Up[x])
    BY <1>5 DEF T!Way
  <2>2. x \in T!Row /\ x < e
    BY <1>1, <1>4, <2>1, RowsUpwards, UpIsChain
  <2>3. x \in Nat /\ e \in Nat
    BY <1>4, <2>2 DEF T!Row, T!Comment
  <2>4. x \notin S
    <3> HIDE DEF S
    <3> QED BY <1>3, <2>2, <2>3
  <2> QED BY <2>1, <2>2, <2>4
<1>7. c \in T!Carry(above[e], v)
  BY <1>4, <1>5, <1>6 DEF T!Carry, T!Dark
<1>8. c \in T!Need(e, v)
  BY <1>5, <1>7 DEF T!Need, T!Root
<1> QED BY <1>4, <1>8

\* What a node is asked for is above it.
LEMMA NeedIsAbove ==
    ASSUME Forest, NEW c \in T!Comment, NEW v
    PROVE  T!Need(c, v) \subseteq T!Up[c]
BY UpStep DEF T!Need, T!Carry, T!Root

\* The roots among the nodes of some threads are those threads, and a thread
\* that a reader gets something of is one of them.
LEMMA TopsDrawn ==
    ASSUME RowsFit, NEW v, NEW threads \in SUBSET T!Comment, \A t \in threads : above[t] = 0
    PROVE  LET built == T!Built(T!Fetched(threads, v, FALSE), v, FALSE)
           IN /\ \A c \in DOMAIN built : built[c].in = T!Root => c \in threads
              /\ \A c \in threads : c \in T!Drawn(v)
                                    => c \in DOMAIN built /\ built[c].in = T!Root
<1> USE ReadingAssumption DEF ReadingAssumption
<1> DEFINE took == T!Fetched(threads, v, FALSE)
           keep == T!Keep(took, v, FALSE)
           built == T!Built(took, v, FALSE)
           tops == {c \in DOMAIN built : built[c].in = T!Root}
           walk == {c \in T!Row : \/ c \in threads
                                  \/ T!Up[c] \cap threads # {} /\ T!Walked(c, v)}
           seen == {c \in walk : T!Live(c, v)}
<1>1. Forest
  BY DEF RowsFit
<1>2. took = seen \cup UNION {T!Need(c, v) : c \in seen}
  BY DEF T!Fetched
<1>3. DOMAIN built = {c \in keep : T!Up[c] \subseteq keep}
  BY DEF T!Built, T!Reached
<1>4. \A c \in DOMAIN built : built[c].in = T!Holder(c)
  BY DEF T!Built, T!Node
<1>5. seen \subseteq T!Comment /\ took \subseteq T!Comment
  <2>1. seen \subseteq T!Comment
    BY DEF T!Row
  <2>2. \A c \in seen : T!Need(c, v) \subseteq T!Comment
    BY <1>1, <2>1, NeedIsAbove, UpIsChain
  <2> HIDE DEF seen, took
  <2> QED BY <1>2, <2>1, <2>2
<1>6. keep \subseteq took
  BY DEF T!Keep
<1>7. ASSUME NEW c \in tops PROVE c \in threads
  <2>1. c \in took /\ c \in T!Comment /\ T!Holder(c) = T!Root
    BY <1>3, <1>4, <1>5, <1>6
  <2>2. above[c] = 0
    <3>1. ~(0 \in T!Up[c])
      BY <1>1, <2>1, UpIsChain DEF T!Comment
    <3> QED BY <1>1, <2>1, <3>1, HolderIs DEF T!Root
  <2>3. CASE c \in seen
    <3>1. T!Up[c] = {}
      BY <1>1, <2>1, <2>2, UpStep
    <3> QED BY <2>3, <3>1
  <2>4. CASE c \notin seen
    <3>1. PICK d \in seen : c \in T!Need(d, v)
      <4> HIDE DEF seen, took
      <4> QED BY <1>2, <2>1, <2>4
    <3>2. d \in T!Comment /\ c \in T!Up[d]
      BY <1>1, <1>5, <3>1, NeedIsAbove
    <3>3. T!Up[d] # {} /\ above[d] # 0
      BY <1>1, <3>2, UpStep
    <3>4. PICK t \in threads : t \in T!Up[d]
      BY <3>3
    <3> QED BY <1>1, <2>2, <3>2, <3>4, OneRoot
  <2> QED BY <2>3, <2>4
<1>8. ASSUME NEW c \in threads, c \in T!Drawn(v) PROVE c \in tops
  <2>1. c \in T!Row /\ above[c] = 0 /\ T!Up[c] = {} /\ c \in T!Comment
    BY <1>1, <1>8, UpStep DEF T!Drawn, T!Roots, T!Row, T!Root
  <2>2. CASE T!Live(c, v)
    <3>1. c \in took
      <4>1. c \in seen
        BY <2>1, <2>2
      <4> HIDE DEF seen, took
      <4> QED BY <1>2, <4>1
    <3>2. c \in keep
      <4> HIDE DEF took
      <4> QED BY <2>2, <3>1 DEF T!Keep
    <3> QED BY <1>1, <1>3, <1>4, <2>1, <3>2, HolderIs
  <2>3. CASE ~T!Live(c, v)
    <3>1. PICK d \in T!Row : c \in T!Up[d] /\ T!Live(d, v)
      BY <1>8, <2>3 DEF T!Drawn, T!LivesOn
    <3>2. PICK e \in T!Row : c \in T!Up[e] /\ T!Live(e, v) /\ c \in T!Need(e, v)
      BY <2>1, <2>3, <3>1, HiddenIsAskedFor
    <3>3. e \in seen
      BY <3>2 DEF T!Walked
    <3>4. c \in took /\ e \in took
      <4> HIDE DEF seen, took
      <4> QED BY <1>2, <3>2, <3>3
    <3>5. c \in keep
      <4> HIDE DEF took
      <4> QED BY <3>2, <3>4 DEF T!Keep, T!LivesOn
    <3> QED BY <1>1, <1>3, <1>4, <2>1, <3>5, HolderIs
  <2> QED BY <2>2, <2>3
<1> HIDE DEF built
<1> QED BY <1>7, <1>8 DEF built, took

Places == [key : Int, id : T!Comment]

\* A sort is a strict order, and no two places in it are the same.
LEMMA BeforeOrders ==
    ASSUME NEW sort, NEW p \in Places, NEW q \in Places
    PROVE  /\ ~T!Before(sort, p, p)
           /\ p.id # q.id => T!Before(sort, p, q) \/ T!Before(sort, q, p)
           /\ \A r \in Places : T!Before(sort, p, q) /\ T!Before(sort, q, r)
                                   => T!Before(sort, p, r)
BY DEF Places, T!Before, T!Comment

Scored == at \in [T!Comment -> Nat] /\ votes \in [T!Comment -> Int]

LEMMA PlaceIs ==
    ASSUME Scored, NEW sort, NEW c \in T!Comment
    PROVE  T!Place(sort, c) \in Places /\ T!Place(sort, c).id = c
BY DEF Scored, Places, T!Place, T!PublicScore

\* Of two comments in a set, fewer are ahead of the first.
LEMMA AheadGrows ==
    ASSUME Scored, NEW sort, NEW S \in SUBSET T!Comment, NEW c \in S, NEW d \in S,
           T!Before(sort, T!Place(sort, c), T!Place(sort, d))
    PROVE  /\ T!Ahead(sort, S, c) \subseteq T!Ahead(sort, S, d)
           /\ Cardinality(T!Ahead(sort, S, c)) < Cardinality(T!Ahead(sort, S, d))
<1> USE ReadingAssumption DEF ReadingAssumption
<1> DEFINE A == T!Ahead(sort, S, c)
           B == T!Ahead(sort, S, d)
<1>1. A \subseteq B /\ c \in B /\ c \notin A
  <2>1. \A x \in S : T!Place(sort, x) \in Places
    BY PlaceIs
  <2>2. \A x \in S : T!Before(sort, T!Place(sort, x), T!Place(sort, c))
                        => T!Before(sort, T!Place(sort, x), T!Place(sort, d))
    BY <2>1, BeforeOrders
  <2>3. ~T!Before(sort, T!Place(sort, c), T!Place(sort, c))
    BY <2>1, BeforeOrders
  <2> QED BY <2>2, <2>3 DEF T!Ahead
<1>2. IsFiniteSet(B)
  <2>1. IsFiniteSet(T!Comment)
    BY FS_Interval DEF T!Comment
  <2>2. B \in SUBSET T!Comment
    BY DEF T!Ahead
  <2> HIDE DEF B
  <2> QED BY <2>1, <2>2, FS_Subset
<1> HIDE DEF A, B
<1>3. /\ IsFiniteSet(A) /\ Cardinality(A) <= Cardinality(B)
      /\ Cardinality(A) # Cardinality(B)
  BY <1>1, <1>2, FS_Subset
<1>4. Cardinality(A) \in Nat /\ Cardinality(B) \in Nat
  BY <1>2, <1>3, FS_CardinalityType
<1> QED BY <1>1, <1>3, <1>4 DEF A, B

\* A set that is not empty has a last comment.
LEMMA LastOf ==
    ASSUME Scored, NEW sort, NEW S \in SUBSET T!Comment, S # {}
    PROVE  \E c \in S : S = {c} \cup T!Ahead(sort, S, c)
<1> USE ReadingAssumption DEF ReadingAssumption
<1> DEFINE n == Cardinality(S)
           rank(c) == Cardinality(T!Ahead(sort, S, c))
           Gaps == {n - rank(c) : c \in S}
<1>1. IsFiniteSet(S) /\ n \in Nat
  <2>1. IsFiniteSet(T!Comment)
    <3> HIDE DEF n, rank, Gaps
    <3> QED BY FS_Interval DEF T!Comment
  <2> QED BY <2>1, FS_Subset, FS_CardinalityType
<1>2. ASSUME NEW c \in S PROVE rank(c) \in Nat /\ rank(c) <= n
  <2>1. T!Ahead(sort, S, c) \in SUBSET S
    BY DEF T!Ahead
  <2> QED BY <1>1, <2>1, FS_Subset, FS_CardinalityType
<1>3. Gaps \in SUBSET Nat /\ Gaps # {}
  <2> HIDE DEF n, rank
  <2> QED BY <1>1, <1>2
<1>4. PICK m \in Gaps : \A k \in Gaps : m <= k
  <2> HIDE DEF Gaps
  <2> QED BY <1>3, LeastOf
<1>5. PICK c \in S : m = n - rank(c)
  OBVIOUS
<1>6. ASSUME NEW d \in S, d # c PROVE d \in T!Ahead(sort, S, c)
  <2>1. /\ T!Place(sort, c) \in Places /\ T!Place(sort, c).id = c
        /\ T!Place(sort, d) \in Places /\ T!Place(sort, d).id = d
    BY PlaceIs
  <2>2. CASE T!Before(sort, T!Place(sort, d), T!Place(sort, c))
    BY <2>2 DEF T!Ahead
  <2>3. CASE T!Before(sort, T!Place(sort, c), T!Place(sort, d))
    <3>1. rank(c) < rank(d)
      BY <2>3, AheadGrows
    <3>2. m <= n - rank(d)
      BY <1>4
    <3> HIDE DEF n, rank
    <3> QED BY <1>1, <1>2, <1>5, <3>1, <3>2
  <2> QED BY <1>6, <2>1, <2>2, <2>3, BeforeOrders
<1> QED BY <1>5, <1>6 DEF T!Ahead

\* A page is what comes first of what is left: when something is left over, its
\* cursor stands after all of the page and before all of the rest.
LEMMA PageIsFirst ==
    ASSUME Scored, NEW sort, NEW S \in SUBSET T!Comment
    PROVE  LET leaf == {c \in S : T!Cardinality(T!Ahead(sort, S, c)) < PerPage}
               refs == {c \in S : T!Cardinality(T!Ahead(sort, S, c)) < PerPage + 1}
               next == T!NextCursor(sort, leaf, refs)
           IN /\ next = <<>> => leaf = S
              /\ next # <<>> => \E c \in leaf :
                    /\ next = <<T!Place(sort, c)>>
                    /\ \A d \in leaf : ~T!Before(sort, T!Place(sort, c), T!Place(sort, d))
                    /\ \A d \in S \ leaf : T!Before(sort, T!Place(sort, c), T!Place(sort, d))
<1> USE ReadingAssumption DEF ReadingAssumption
<1> DEFINE rank(c) == Cardinality(T!Ahead(sort, S, c))
           leaf == {c \in S : rank(c) < PerPage}
           refs == {c \in S : rank(c) < PerPage + 1}
           Ends(c) == leaf = {c} \cup T!Ahead(sort, leaf, c)
           next == T!NextCursor(sort, leaf, refs)
<1>1. IsFiniteSet(S) /\ \A c \in S : rank(c) \in Nat
  <2>1. IsFiniteSet(T!Comment)
    <3> HIDE DEF next, refs, leaf, Ends, rank
    <3> QED BY FS_Interval DEF T!Comment
  <2>2. IsFiniteSet(S)
    BY <2>1, FS_Subset
  <2>3. \A c \in S : T!Ahead(sort, S, c) \in SUBSET S
    BY DEF T!Ahead
  <2> QED BY <2>2, <2>3, FS_Subset, FS_CardinalityType
<1>2. ASSUME NEW c \in S, NEW d \in S, T!Before(sort, T!Place(sort, c), T!Place(sort, d))
      PROVE  rank(c) < rank(d)
  BY <1>2, AheadGrows
<1>3. ASSUME NEW c \in S \ leaf PROVE refs # leaf
  <2> DEFINE Gaps == {rank(x) : x \in S \ leaf}
  <2>1. Gaps \in SUBSET Nat /\ Gaps # {}
    <3> HIDE DEF rank
    <3> QED BY <1>1
  <2>2. PICK m \in Gaps : \A k \in Gaps : m <= k
    <3> HIDE DEF Gaps
    <3> QED BY <2>1, LeastOf
  <2>3. PICK x \in S \ leaf : m = rank(x)
    OBVIOUS
  <2> DEFINE B == T!Ahead(sort, S, x)
  <2>4. rank(x) \in Nat /\ rank(x) >= PerPage
    <3> HIDE DEF rank
    <3> QED BY <1>1, <2>3
  <2>5. B \in SUBSET S /\ IsFiniteSet(B) /\ rank(x) = Cardinality(B)
    <3>1. B \in SUBSET S
      BY DEF T!Ahead
    <3> QED BY <1>1, <3>1, FS_Subset
  <2>6. B # {}
    <3> HIDE DEF B, rank
    <3> QED BY <2>4, <2>5, FS_EmptySet
  <2>7. PICK l \in B : B = {l} \cup T!Ahead(sort, B, l)
    <3> HIDE DEF B
    <3> QED BY <2>5, <2>6, LastOf
  <2>8. l \in S /\ rank(l) < rank(x)
    BY <1>2, <2>5, <2>7 DEF T!Ahead
  <2>9. rank(l) < PerPage
    <3>1. l \in leaf
      <4> SUFFICES ASSUME l \notin leaf PROVE FALSE
        OBVIOUS
      <4>1. rank(x) <= rank(l)
        BY <2>2, <2>3, <2>8
      <4> HIDE DEF rank
      <4> QED BY <1>1, <2>4, <2>8, <4>1
    <3> QED BY <3>1
  <2>10. rank(x) <= rank(l) + 1
    <3> DEFINE C == T!Ahead(sort, S, l)
    <3>1. B \in SUBSET (C \cup {l})
      BY <2>5, <2>7 DEF T!Ahead
    <3>2. IsFiniteSet(C) /\ rank(l) = Cardinality(C)
      <4>1. C \in SUBSET S
        BY DEF T!Ahead
      <4> QED BY <1>1, <4>1, FS_Subset
    <3> HIDE DEF B, C, rank
    <3>3. IsFiniteSet(C \cup {l}) /\ Cardinality(C \cup {l}) <= rank(l) + 1
      <4>1. Cardinality(C \cup {l}) = IF l \in C THEN Cardinality(C) ELSE Cardinality(C) + 1
        BY <3>2, FS_AddElement
      <4>2. rank(l) \in Nat
        BY <1>1, <2>8
      <4> QED BY <3>2, <4>1, <4>2, FS_AddElement
    <3>4. Cardinality(B) <= Cardinality(C \cup {l})
      BY <3>1, <3>3, FS_Subset
    <3>5. Cardinality(C \cup {l}) \in Nat /\ rank(l) \in Nat
      BY <1>1, <2>8, <3>3, FS_CardinalityType
    <3> QED BY <2>4, <2>5, <3>3, <3>4, <3>5
  <2> HIDE DEF rank
  <2>11. rank(x) < PerPage + 1 /\ ~(rank(x) < PerPage)
    BY <1>1, <2>4, <2>8, <2>9, <2>10
  <2> QED BY <2>3, <2>11
<1>4. next = IF refs = leaf THEN <<>> ELSE <<T!Place(sort, CHOOSE c \in leaf : Ends(c))>>
  BY DEF T!NextCursor
<1>5. ASSUME next # <<>>
      PROVE  \E c \in leaf :
                /\ next = <<T!Place(sort, c)>>
                /\ \A d \in leaf : ~T!Before(sort, T!Place(sort, c), T!Place(sort, d))
                /\ \A d \in S \ leaf : T!Before(sort, T!Place(sort, c), T!Place(sort, d))
  <2>1. refs # leaf
    BY <1>4, <1>5
  <2>2. PICK x \in S : rank(x) < PerPage + 1 /\ ~(rank(x) < PerPage)
    <3> HIDE DEF rank
    <3>1. \A x \in S : rank(x) < PerPage => rank(x) < PerPage + 1
      BY <1>1
    <3> QED BY <2>1, <3>1
  <2>3. leaf # {}
    <3>1. T!Ahead(sort, S, x) # {}
      <4> SUFFICES ASSUME T!Ahead(sort, S, x) = {} PROVE FALSE
        OBVIOUS
      <4>1. rank(x) = 0
        BY FS_EmptySet
      <4> HIDE DEF rank
      <4> QED BY <2>2, <4>1
    <3>2. PICK l \in T!Ahead(sort, S, x) : TRUE
      BY <3>1
    <3>3. l \in S /\ rank(l) < rank(x)
      BY <1>2, <3>2 DEF T!Ahead
    <3>4. rank(l) < PerPage
      <4> HIDE DEF rank
      <4> QED BY <1>1, <2>2, <3>3
    <3> QED BY <3>3, <3>4
  <2> DEFINE last == CHOOSE c \in leaf : Ends(c)
  <2>4. last \in leaf /\ Ends(last)
    <3>1. \E c \in leaf : Ends(c)
      <4>1. leaf \in SUBSET T!Comment
        OBVIOUS
      <4> HIDE DEF leaf
      <4> QED BY <2>3, <4>1, LastOf DEF Ends
    <3> HIDE DEF Ends, leaf
    <3> QED BY <3>1
  <2>5. next = <<T!Place(sort, last)>>
    BY <1>4, <2>1
  <2> HIDE DEF last
  <2>6. \A d \in S : T!Place(sort, d) \in Places /\ T!Place(sort, d).id = d
    BY PlaceIs
  <2>7. ASSUME NEW d \in leaf, T!Before(sort, T!Place(sort, last), T!Place(sort, d))
        PROVE  FALSE
    <3>1. rank(last) < rank(d)
      BY <1>2, <2>4, <2>7
    <3>2. d = last \/ d \in T!Ahead(sort, leaf, last)
      BY <2>4
    <3>3. d # last => rank(d) < rank(last)
      BY <1>2, <2>4, <3>2 DEF T!Ahead
    <3> HIDE DEF rank
    <3> QED BY <1>1, <2>4, <3>1, <3>3
  <2>8. ASSUME NEW d \in S \ leaf PROVE T!Before(sort, T!Place(sort, last), T!Place(sort, d))
    <3> SUFFICES ASSUME T!Before(sort, T!Place(sort, d), T!Place(sort, last)) PROVE FALSE
      BY <2>4, <2>6, BeforeOrders
    <3>1. rank(d) < rank(last)
      BY <1>2, <2>4
    <3> HIDE DEF rank
    <3> QED BY <1>1, <2>4, <3>1
  <2> HIDE DEF next, leaf
  <2> QED BY <2>4, <2>5, <2>7, <2>8
<1>6. next = <<>> => leaf = S
  <2> SUFFICES ASSUME next = <<>>, leaf # S PROVE FALSE
    OBVIOUS
  <2>1. PICK x \in S : x \notin leaf
    OBVIOUS
  <2>2. refs # leaf
    BY <1>3, <2>1
  <2>3. next = <<T!Place(sort, CHOOSE c \in leaf : Ends(c))>>
    BY <1>4, <2>2
  <2> HIDE DEF next
  <2> QED BY <2>3
<1>7. /\ leaf = {c \in S : T!Cardinality(T!Ahead(sort, S, c)) < PerPage}
      /\ refs = {c \in S : T!Cardinality(T!Ahead(sort, S, c)) < PerPage + 1}
  BY TreeCounts
<1> HIDE DEF leaf, refs
<1> QED BY <1>5, <1>6, <1>7

-----------------------------------------------------------------------------
(* The pages *)

\* The place where the pages that a reader has had so far end.
Cursor == {<<>>} \cup {<<p>> : p \in Places}

PagerType ==
    pager \in [pc : {"idle", "refs", "pin", "rows", "done"}, sort : T!Sort,
               who : Reader \cup {Visitor}, cursor : Cursor,
               refs : SUBSET T!Comment, pin : SUBSET T!Comment,
               got : Seq(SUBSET T!Comment)]

RootsOnly(set) == \A c \in set : c \in T!Comment /\ above[c] = 0

OnPages(c) == \E i \in DOMAIN pager.got : c \in pager.got[i]
Once(c)    == \A i, j \in DOMAIN pager.got :
                 c \in pager.got[i] /\ c \in pager.got[j] => i = j
AtHand(c)  == c \in pager.refs \cup pager.pin

\* The pages up to the cursor are those that hold the thread.
Due(c) == \/ c \in T!PinnedThread
          \/ ~T!Past(pager.sort, pager.cursor, c)

\* Where a thread that stays is, at each step of a request.
Tracked(c) ==
    /\ Once(c)
    /\ pager.pc = "refs" => (OnPages(c) <=> pager.cursor # <<>> /\ Due(c))
    /\ pager.pc = "pin" => /\ ~OnPages(c)
                           /\ AtHand(c) <=> /\ c \notin T!PinnedThread
                                            /\ pager.cursor = <<>> \/ Due(c)
    /\ pager.pc = "rows" => /\ ~(OnPages(c) /\ AtHand(c))
                            /\ OnPages(c) \/ AtHand(c) <=> pager.cursor = <<>> \/ Due(c)
    /\ pager.pc = "done" => OnPages(c)

PagesFit ==
    /\ RowsFit /\ Scored /\ PagerType
    /\ pins \in SUBSET T!Comment /\ RootsOnly(pins)
    /\ RootsOnly(pager.refs) /\ RootsOnly(pager.pin)
    /\ pager.pc \in {"idle", "refs", "done"} => pager.refs = {} /\ pager.pin = {}
    /\ pager.pc = "pin" => pager.pin = {}
    /\ pager.pc = "idle" => steady = {}
    /\ pager.pc = "refs" /\ pager.cursor = <<>> => pager.got = <<>>
    /\ pager.pc = "pin" => pager.got = <<>>
    /\ steady \subseteq T!Drawn(pager.who)
    /\ \A c \in steady : Tracked(c)

\* The views of a post are views of its rows.
LEMMA SameView ==
    ASSUME UNCHANGED <<above, writer, state>>
    PROVE  (T!Drawn(pager.who))' = T!Drawn(pager'.who)
<1>1. T!Up' = T!Up
  BY DEF T!Up, T!Comment, T!Root
<1>2. T!Row' = T!Row /\ T!Roots' = T!Roots
  BY DEF T!Roots, T!Row, T!Comment, T!Root
<1>3. \A c, v : (T!Live(c, v)' <=> T!Live(c, v)) /\ (T!Masked(c, v)' <=> T!Masked(c, v))
  BY DEF T!Live, T!Masked, T!Kind
<1>4. \A c : T!Child(c)' = T!Child(c)
  BY <1>2 DEF T!Child
<1> QED BY <1>1, <1>2, <1>3, <1>4 DEF T!Drawn, T!LivesOn, T!Thread

\* Nor does a thread's place depend on anything but when it was posted, its
\* score and whether it is pinned.
LEMMA SamePlace ==
    ASSUME NEW c, UNCHANGED at, T!PublicScore(c)' = T!PublicScore(c),
           (c \in T!PinnedThread') = (c \in T!PinnedThread)
    PROVE  Due(c)' <=> \/ c \in T!PinnedThread
                       \/ ~T!Past(pager'.sort, pager'.cursor, c)
<1>1. (c \in T!PinnedThread)' <=> c \in T!PinnedThread
  OBVIOUS
<1>2. T!Past(pager.sort, pager.cursor, c)' <=> T!Past(pager'.sort, pager'.cursor, c)
  BY DEF T!Past, T!Before, T!Place
<1> QED BY <1>1, <1>2 DEF Due

LEMMA SamePages ==
    ASSUME NEW c
    PROVE  /\ pager'.got = pager.got => (OnPages(c)' <=> OnPages(c)) /\ (Once(c)' <=> Once(c))
           /\ AtHand(c)' <=> c \in pager'.refs \cup pager'.pin
BY DEF OnPages, Once, AtHand

LEMMA PagesFitInit == T!Init => PagesFit
<1> USE ReadingAssumption DEF ReadingAssumption
<1> SUFFICES ASSUME T!Init PROVE PagesFit
  OBVIOUS
<1>1. RowsFit
  <2>1. Forest
    BY DEF T!Init, T!Comment, T!Root, Forest
  <2> QED BY <2>1 DEF T!Init, T!Comment, T!Root, RowsFit
<1>2. Scored
  BY DEF T!Init, Scored
<1>3. PagerType
  BY DEF T!Init, T!Idle, PagerType, Cursor, T!Sort
<1>4. pins \in SUBSET T!Comment /\ RootsOnly(pins)
  BY DEF T!Init, T!Roots, T!Row, T!Root, RootsOnly
<1> QED BY <1>1, <1>2, <1>3, <1>4 DEF T!Init, T!Idle, PagesFit, RootsOnly

\* Opening the post: nothing is on a page yet.
LEMMA OpenFits == PagesFit /\ T!Open => PagesFit'
<1> SUFFICES ASSUME PagesFit, T!Open PROVE PagesFit'
  OBVIOUS
<1>1. PICK sort \in T!Sort, v \in Reader \cup {Visitor} :
         pager' = [T!Idle EXCEPT !.pc = "refs", !.sort = sort, !.who = v]
  BY DEF T!Open
<1>2. /\ pager' = [pc |-> "refs", sort |-> sort, who |-> v, cursor |-> <<>>,
                   refs |-> {}, pin |-> {}, got |-> <<>>]
      /\ UNCHANGED <<above, writer, at, state, votes, pins, writes>>
  BY <1>1 DEF T!Open, T!Idle, T!Unwritten
<1>3. PagerType'
  BY <1>2 DEF PagerType, Cursor, T!Comment, Places
<1>4. RowsFit' /\ Scored' /\ (pins \in SUBSET T!Comment)' /\ RootsOnly(pins)'
  BY <1>2 DEF PagesFit, RowsFit, Forest, Scored, RootsOnly, T!Comment, T!Status
<1>5. RootsOnly(pager.refs)' /\ RootsOnly(pager.pin)'
  BY <1>2 DEF RootsOnly
<1>6. (steady \subseteq T!Drawn(pager.who))'
  BY <1>2, SameView DEF T!Open
<1>7. ASSUME NEW c PROVE Tracked(c)'
  BY <1>2 DEF Tracked, Once, OnPages
<1> QED BY <1>2, <1>3, <1>4, <1>5, <1>6, <1>7 DEF PagesFit

\* What a thread's place depends on: who writes something else leaves it.
LEMMA Passed ==
    ASSUME Scored, NEW sort, NEW c \in T!Comment, NEW cursor \in Cursor
    PROVE  /\ cursor = <<>> => T!Past(sort, cursor, c)
           /\ cursor # <<>> => /\ cursor[1] \in Places
                               /\ T!Past(sort, cursor, c)
                                    <=> T!Before(sort, cursor[1], T!Place(sort, c))
BY DEF T!Past, Cursor

\* The page's threads are read.
LEMMA ReadRefsFits == PagesFit /\ T!ReadRefs => PagesFit'
<1> USE ReadingAssumption DEF ReadingAssumption
<1> SUFFICES ASSUME PagesFit, T!ReadRefs PROVE PagesFit'
  OBVIOUS
<1> DEFINE sort == pager.sort
           cursor == pager.cursor
           left == {c \in T!Listed(pager.who) : T!Past(sort, cursor, c)}
           leaf == T!Refs(sort, pager.who, cursor, PerPage)
           next == T!NextCursor(sort, leaf, T!Refs(sort, pager.who, cursor, PerPage + 1))
           Parts == /\ next = <<>> => leaf = left
                    /\ next # <<>> => \E c \in leaf :
                          /\ next = <<T!Place(sort, c)>>
                          /\ \A d \in leaf : ~T!Before(sort, T!Place(sort, c), T!Place(sort, d))
                          /\ \A d \in left \ leaf : T!Before(sort, T!Place(sort, c), T!Place(sort, d))
<1>1. /\ RowsFit /\ Scored /\ PagerType
      /\ pager.pc = "refs" /\ pager.refs = {} /\ pager.pin = {}
      /\ sort \in T!Sort /\ cursor \in Cursor
      /\ pager.got \in Seq(SUBSET T!Comment)
  BY DEF PagesFit, PagerType, T!ReadRefs
<1>2. \A c \in T!Listed(pager.who) : c \in T!Comment /\ above[c] = 0
  BY DEF T!Listed, T!Roots, T!Row, T!Root
<1>3. leaf \subseteq left /\ left \subseteq T!Comment
  BY <1>2 DEF T!Refs
<1>4. Parts
  <2>1. /\ leaf = {c \in left : T!Cardinality(T!Ahead(sort, left, c)) < PerPage}
        /\ T!Refs(sort, pager.who, cursor, PerPage + 1)
             = {c \in left : T!Cardinality(T!Ahead(sort, left, c)) < PerPage + 1}
    BY DEF T!Refs
  <2>2. left \in SUBSET T!Comment
    BY <1>3
  <2> HIDE DEF left, leaf
  <2>3. LET p == {c \in left : T!Cardinality(T!Ahead(sort, left, c)) < PerPage}
            r == {c \in left : T!Cardinality(T!Ahead(sort, left, c)) < PerPage + 1}
            n == T!NextCursor(sort, p, r)
        IN /\ n = <<>> => p = left
           /\ n # <<>> => \E c \in p :
                 /\ n = <<T!Place(sort, c)>>
                 /\ \A d \in p : ~T!Before(sort, T!Place(sort, c), T!Place(sort, d))
                 /\ \A d \in left \ p : T!Before(sort, T!Place(sort, c), T!Place(sort, d))
    BY <1>1, <2>2, PageIsFirst
  <2> QED BY <2>1, <2>3
<1>5. UNCHANGED <<above, writer, at, state, votes, pins, writes, steady>>
  BY DEF T!ReadRefs, T!Unwritten
<1>13. pager' = [pager EXCEPT !.refs = leaf, !.cursor = next,
                              !.pc = IF cursor = <<>> THEN "pin" ELSE "rows"]
  BY DEF T!ReadRefs
<1> HIDE DEF next, leaf, left, sort, cursor
<1>6. next \in Cursor
  <2>1. CASE next = <<>>
    BY <2>1 DEF Cursor
  <2>2. CASE next # <<>>
    BY <1>1, <1>3, <1>4, <2>2, PlaceIs DEF Cursor
  <2> QED BY <2>1, <2>2
<1>7. pager' = [pc |-> IF cursor = <<>> THEN "pin" ELSE "rows", sort |-> sort,
                who |-> pager.who, cursor |-> next, refs |-> leaf, pin |-> {},
                got |-> pager.got]
  BY <1>1, <1>13 DEF PagerType, sort, cursor
<1>8. PagerType'
  BY <1>1, <1>3, <1>6, <1>7 DEF PagerType, Cursor, Places, T!Comment
<1>9. RowsFit' /\ Scored' /\ (pins \in SUBSET T!Comment)' /\ RootsOnly(pins)'
  BY <1>5 DEF PagesFit, RowsFit, Forest, Scored, RootsOnly, T!Comment, T!Status
<1>10. RootsOnly(pager.refs)' /\ RootsOnly(pager.pin)'
  <2>1. pager'.refs = leaf /\ pager'.pin = {} /\ above' = above
    BY <1>5, <1>7
  <2>2. \A c \in leaf : c \in T!Comment /\ above[c] = 0
    BY <1>2, <1>3 DEF left
  <2> QED BY <2>1, <2>2 DEF RootsOnly, T!Comment
<1>11. (steady \subseteq T!Drawn(pager.who))'
  <2>1. pager'.who = pager.who
    BY <1>7
  <2>3. steady' = steady
    BY <1>5
  <2>2. (T!Drawn(pager.who))' = T!Drawn(pager'.who)
    BY <1>5, SameView
  <2> QED BY <2>1, <2>2, <2>3 DEF PagesFit
<1>12. ASSUME NEW c \in steady PROVE Tracked(c)'
  <2>1. c \in T!Comment /\ c \in T!Drawn(pager.who) /\ Tracked(c)
    BY DEF PagesFit, T!Drawn, T!Roots, T!Row
  <2>2. c \in T!PinnedThread \/ c \in T!Listed(pager.who)
    BY <2>1 DEF T!Drawn, T!Listed
  <2>3. c \in T!PinnedThread => c \notin leaf
    BY <1>3 DEF left, T!Listed
  <2>4. c \in left <=> c \notin T!PinnedThread /\ T!Past(sort, cursor, c)
    BY <2>2 DEF left, T!Listed
  <2>5. c \in left => (c \in leaf <=> next = <<>> \/ ~T!Past(sort, next, c))
    BY <1>1, <1>4, <1>6, <2>1, Passed
  <2>6. ~T!Past(sort, cursor, c) => next = <<>> \/ ~T!Past(sort, next, c)
    <3> SUFFICES ASSUME ~T!Past(sort, cursor, c), next # <<>>, T!Past(sort, next, c)
                 PROVE  FALSE
      OBVIOUS
    <3>1. PICK d \in leaf : next = <<T!Place(sort, d)>>
      BY <1>4
    <3>2. d \in T!Comment /\ T!Past(sort, cursor, d)
      BY <1>3 DEF left
    <3>3. /\ cursor # <<>> /\ cursor[1] \in Places
          /\ T!Before(sort, cursor[1], T!Place(sort, d))
          /\ ~T!Before(sort, cursor[1], T!Place(sort, c))
      BY <1>1, <2>1, <3>2, Passed
    <3>4. T!Before(sort, T!Place(sort, d), T!Place(sort, c))
      BY <1>1, <1>6, <2>1, <3>1, Passed
    <3>5. T!Place(sort, d) \in Places /\ T!Place(sort, c) \in Places
      BY <1>1, <2>1, <3>2, PlaceIs
    <3> QED BY <3>3, <3>4, <3>5, BeforeOrders
  <2>7. OnPages(c) <=> cursor # <<>> /\ (c \in T!PinnedThread \/ ~T!Past(sort, cursor, c))
    BY <1>1, <2>1 DEF Tracked, Due, sort, cursor
  <2>8. /\ pager'.sort = sort /\ pager'.cursor = next /\ pager'.refs = leaf
        /\ pager'.pin = {} /\ pager'.got = pager.got
        /\ pager'.pc = IF cursor = <<>> THEN "pin" ELSE "rows"
    BY <1>7
  <2>9. Due(c)' <=> c \in T!PinnedThread \/ ~T!Past(sort, next, c)
    <3>1. /\ T!PublicScore(c)' = T!PublicScore(c) /\ at' = at
          /\ (c \in T!PinnedThread') = (c \in T!PinnedThread)
      BY <1>5 DEF T!PublicScore, T!PinnedThread
    <3> QED BY <2>8, <3>1, SamePlace
  <2>10. /\ AtHand(c)' <=> c \in leaf
         /\ OnPages(c)' <=> OnPages(c)
         /\ Once(c)' <=> Once(c)
    BY <2>8, SamePages
  <2>11. cursor = <<>> => T!Past(sort, cursor, c)
    BY <1>1, <2>1, Passed
  <2>12. Once(c)' /\ ((c \in T!PinnedThread)' <=> c \in T!PinnedThread)
    BY <1>5, <2>1, <2>10 DEF Tracked, T!PinnedThread
  <2>13. CASE cursor = <<>>
    <3>1. ~OnPages(c) /\ pager'.pc = "pin" /\ (c \in leaf <=> c \notin T!PinnedThread
                                                     /\ (next = <<>> \/ ~T!Past(sort, next, c)))
      BY <2>3, <2>4, <2>5, <2>7, <2>8, <2>11, <2>13
    <3> QED BY <2>8, <2>9, <2>10, <2>12, <3>1 DEF Tracked
  <2>14. CASE cursor # <<>>
    <3>1. /\ pager'.pc = "rows"
          /\ ~(OnPages(c) /\ c \in leaf)
          /\ OnPages(c) \/ c \in leaf <=> \/ next = <<>> \/ c \in T!PinnedThread
                                          \/ ~T!Past(sort, next, c)
      BY <1>3, <2>3, <2>4, <2>5, <2>6, <2>7, <2>8, <2>14
    <3> QED BY <2>8, <2>9, <2>10, <2>12, <3>1 DEF Tracked
  <2> QED BY <2>13, <2>14
<1> QED
  <2>1. (pager.pc = "pin" => pager.got = <<>>)'
    BY <1>1, <1>7 DEF PagesFit, cursor
  <2> QED BY <1>5, <1>7, <1>8, <1>9, <1>10, <1>11, <1>12, <2>1 DEF PagesFit

\* The pinned thread is read, for the first page.
LEMMA ReadPinFits == PagesFit /\ T!ReadPin => PagesFit'
<1> SUFFICES ASSUME PagesFit, T!ReadPin PROVE PagesFit'
  OBVIOUS
<1>1. /\ RowsFit /\ Scored /\ PagerType
      /\ pager.pc = "pin" /\ pager.pin = {} /\ pager.got = <<>>
  BY DEF PagesFit, T!ReadPin
<1>2. UNCHANGED <<above, writer, at, state, votes, pins, writes, steady>>
  BY DEF T!ReadPin, T!Unwritten
<1>3. pager' = [pager EXCEPT !.pc = "rows", !.pin = T!PinnedThread]
  BY DEF T!ReadPin
<1>4. pager' = [pc |-> "rows", sort |-> pager.sort, who |-> pager.who,
                cursor |-> pager.cursor, refs |-> pager.refs,
                pin |-> T!PinnedThread, got |-> pager.got]
  BY <1>1, <1>3 DEF PagerType
<1>5. T!PinnedThread \in SUBSET T!Comment /\ \A c \in T!PinnedThread : above[c] = 0
  BY DEF T!PinnedThread, PagesFit, RootsOnly
<1>6. PagerType'
  BY <1>1, <1>4, <1>5 DEF PagerType, Cursor, Places, T!Comment
<1>7. RowsFit' /\ Scored' /\ (pins \in SUBSET T!Comment)' /\ RootsOnly(pins)'
  BY <1>2 DEF PagesFit, RowsFit, Forest, Scored, RootsOnly, T!Comment, T!Status
<1>8. RootsOnly(pager.refs)' /\ RootsOnly(pager.pin)'
  <2>1. pager'.refs = pager.refs /\ pager'.pin = T!PinnedThread
    BY <1>4
  <2>2. above' = above
    BY <1>2
  <2> QED BY <1>5, <2>1, <2>2 DEF PagesFit, RootsOnly, T!Comment
<1>9. (steady \subseteq T!Drawn(pager.who))'
  <2>1. pager'.who = pager.who
    BY <1>4
  <2>2. (T!Drawn(pager.who))' = T!Drawn(pager'.who)
    BY <1>2, SameView
  <2>3. steady' = steady
    BY <1>2
  <2> QED BY <2>1, <2>2, <2>3 DEF PagesFit
<1>10. ASSUME NEW c \in steady PROVE Tracked(c)'
  <2>1. Tracked(c)
    BY DEF PagesFit
  <2>2. /\ pager'.pc = "rows" /\ pager'.sort = pager.sort /\ pager'.cursor = pager.cursor
        /\ pager'.refs = pager.refs /\ pager'.pin = T!PinnedThread /\ pager'.got = pager.got
    BY <1>4
  <2>3. /\ T!PublicScore(c)' = T!PublicScore(c) /\ at' = at
        /\ (c \in T!PinnedThread') = (c \in T!PinnedThread)
    BY <1>2 DEF T!PublicScore, T!PinnedThread
  <2>4. Due(c)' <=> Due(c)
    BY <2>2, <2>3, SamePlace DEF Due
  <2>5. /\ AtHand(c)' <=> AtHand(c) \/ c \in T!PinnedThread
        /\ OnPages(c)' <=> OnPages(c)
        /\ Once(c)' <=> Once(c)
    BY <1>1, <2>2, SamePages DEF AtHand
  <2>6. c \in T!PinnedThread => Due(c)
    BY DEF Due
  <2> QED BY <1>1, <2>1, <2>2, <2>4, <2>5, <2>6 DEF Tracked
<1> QED BY <1>1, <1>2, <1>4, <1>6, <1>7, <1>8, <1>9, <1>10 DEF PagesFit

\* One page more.
LEMMA PageMore ==
    ASSUME NEW got \in Seq(SUBSET T!Comment), NEW leaf \in SUBSET T!Comment, NEW c
    PROVE  LET most == Append(got, leaf)
           IN /\ most \in Seq(SUBSET T!Comment)
              /\ (\E i \in DOMAIN most : c \in most[i])
                   <=> (\E i \in DOMAIN got : c \in got[i]) \/ c \in leaf
              /\ /\ \A i, j \in DOMAIN got : c \in got[i] /\ c \in got[j] => i = j
                 /\ c \in leaf => ~ \E i \in DOMAIN got : c \in got[i]
                 => \A i, j \in DOMAIN most : c \in most[i] /\ c \in most[j] => i = j
<1> DEFINE most == Append(got, leaf)
           n == Len(got)
<1>1. /\ most \in Seq(SUBSET T!Comment) /\ n \in Nat
      /\ DOMAIN got = 1..n /\ DOMAIN most = 1..(n + 1)
      /\ \A i \in 1..n : most[i] = got[i]
      /\ most[n + 1] = leaf
  OBVIOUS
<1> HIDE DEF most, n
<1>2. 1..(n + 1) = (1..n) \cup {n + 1} /\ n + 1 \notin 1..n
  BY <1>1
<1>3. (\E i \in DOMAIN most : c \in most[i])
        <=> (\E i \in DOMAIN got : c \in got[i]) \/ c \in leaf
  BY <1>1, <1>2
<1>4. ASSUME \A i, j \in DOMAIN got : c \in got[i] /\ c \in got[j] => i = j,
             c \in leaf => ~ \E i \in DOMAIN got : c \in got[i]
      PROVE  \A i, j \in DOMAIN most : c \in most[i] /\ c \in most[j] => i = j
  BY <1>1, <1>2, <1>4
<1> QED BY <1>1, <1>3, <1>4 DEF most

\* A page's comments are read and the page is built.
LEMMA ReadRowsFits == PagesFit /\ T!ReadRows => PagesFit'
<1> SUFFICES ASSUME PagesFit, T!ReadRows PROVE PagesFit'
  OBVIOUS
<1> DEFINE threads == pager.refs \cup pager.pin
           built == T!Built(T!Fetched(threads, pager.who, FALSE), pager.who, FALSE)
           leaf == {c \in DOMAIN built : built[c].in = T!Root}
<1>1. RowsFit /\ Scored /\ PagerType /\ pager.pc = "rows"
  BY DEF PagesFit, T!ReadRows
<1>2. UNCHANGED <<above, writer, at, state, votes, pins, writes, steady>>
  BY DEF T!ReadRows, T!Unwritten
<1>3. pager' = [pager EXCEPT !.pc = IF pager.cursor = <<>> THEN "done" ELSE "refs",
                             !.refs = {}, !.pin = {}, !.got = Append(@, leaf)]
  BY DEF T!ReadRows
<1>4. threads \in SUBSET T!Comment /\ \A t \in threads : above[t] = 0
  BY <1>1 DEF PagesFit, PagerType, RootsOnly
<1>5. leaf \subseteq threads /\ \A c \in threads : c \in T!Drawn(pager.who) => c \in leaf
  <2> HIDE DEF threads
  <2>1. /\ \A c \in DOMAIN built : built[c].in = T!Root => c \in threads
        /\ \A c \in threads : c \in T!Drawn(pager.who)
                              => c \in DOMAIN built /\ built[c].in = T!Root
    BY <1>1, <1>4, TopsDrawn
  <2> HIDE DEF built
  <2> QED BY <2>1
<1> HIDE DEF leaf, built
<1>6. leaf \in SUBSET T!Comment /\ pager.got \in Seq(SUBSET T!Comment)
  BY <1>1, <1>4, <1>5 DEF PagerType
<1>7. pager' = [pc |-> IF pager.cursor = <<>> THEN "done" ELSE "refs",
                sort |-> pager.sort, who |-> pager.who, cursor |-> pager.cursor,
                refs |-> {}, pin |-> {}, got |-> Append(pager.got, leaf)]
  BY <1>1, <1>3 DEF PagerType
<1>8. PagerType'
  <2>1. Append(pager.got, leaf) \in Seq(SUBSET T!Comment)
    BY <1>6
  <2> HIDE DEF threads
  <2> QED BY <1>1, <1>7, <2>1 DEF PagerType, Cursor, Places, T!Comment
<1>9. RowsFit' /\ Scored' /\ (pins \in SUBSET T!Comment)' /\ RootsOnly(pins)'
  BY <1>2 DEF PagesFit, RowsFit, Forest, Scored, RootsOnly, T!Comment, T!Status
<1>10. RootsOnly(pager.refs)' /\ RootsOnly(pager.pin)'
  BY <1>7 DEF RootsOnly
<1>11. (steady \subseteq T!Drawn(pager.who))'
  <2>1. pager'.who = pager.who
    BY <1>7
  <2>2. (T!Drawn(pager.who))' = T!Drawn(pager'.who)
    BY <1>2, SameView
  <2>3. steady' = steady
    BY <1>2
  <2> QED BY <2>1, <2>2, <2>3 DEF PagesFit
<1>12. ASSUME NEW c \in steady PROVE Tracked(c)'
  <2>1. Tracked(c) /\ c \in T!Drawn(pager.who)
    BY DEF PagesFit
  <2>2. /\ pager'.pc = (IF pager.cursor = <<>> THEN "done" ELSE "refs")
        /\ pager'.sort = pager.sort /\ pager'.cursor = pager.cursor
        /\ pager'.got = Append(pager.got, leaf)
    BY <1>7
  <2>3. /\ T!PublicScore(c)' = T!PublicScore(c) /\ at' = at
        /\ (c \in T!PinnedThread') = (c \in T!PinnedThread)
    BY <1>2 DEF T!PublicScore, T!PinnedThread
  <2>4. Due(c)' <=> Due(c)
    BY <2>2, <2>3, SamePlace DEF Due
  <2>5. AtHand(c) <=> c \in leaf
    BY <1>5, <2>1 DEF AtHand
  <2>6. OnPages(c)' <=> OnPages(c) \/ c \in leaf
    BY <1>6, <2>2, PageMore DEF OnPages
  <2>7. Once(c)'
    <3>1. Once(c) /\ ~(OnPages(c) /\ c \in leaf)
      BY <1>1, <2>1, <2>5 DEF Tracked
    <3> QED BY <1>6, <2>2, <3>1, PageMore DEF OnPages, Once
  <2>8. OnPages(c) \/ c \in leaf <=> pager.cursor = <<>> \/ Due(c)
    BY <1>1, <2>1, <2>5 DEF Tracked
  <2> QED BY <2>2, <2>4, <2>6, <2>7, <2>8 DEF Tracked
<1> QED BY <1>2, <1>7, <1>8, <1>9, <1>10, <1>11, <1>12 DEF PagesFit

\* Whoever writes, the pages are not written, and a thread that is still steady
\* is where it was.
LEMMA WrittenFits ==
    ASSUME PagesFit, T!Written, RowsFit', Scored', (pins \in SUBSET T!Comment)', RootsOnly(pins)'
    PROVE  PagesFit'
<1>1. /\ UNCHANGED <<above, writer, at, pager>>
      /\ steady' \subseteq steady
  BY DEF T!Written
<1>2. \A c \in steady' : /\ c \in (T!Drawn(pager.who))'
                         /\ T!PublicScore(c)' = T!PublicScore(c)
                         /\ (c \in T!PinnedThread') = (c \in T!PinnedThread)
  BY DEF T!Written
<1>3. PagerType' /\ RootsOnly(pager.refs)' /\ RootsOnly(pager.pin)'
  BY <1>1 DEF PagesFit, PagerType, RootsOnly, Cursor, Places, T!Comment
<1>4. (steady \subseteq T!Drawn(pager.who))'
  BY <1>2
<1>5. ASSUME NEW c \in steady' PROVE Tracked(c)'
  <2>1. Tracked(c)
    BY <1>1 DEF PagesFit
  <2>2. Due(c)' <=> Due(c)
    BY <1>1, <1>2, SamePlace DEF Due
  <2>3. /\ AtHand(c)' <=> AtHand(c)
        /\ OnPages(c)' <=> OnPages(c)
        /\ Once(c)' <=> Once(c)
    BY <1>1 DEF AtHand, OnPages, Once
  <2>4. (c \in T!PinnedThread)' <=> c \in T!PinnedThread
    BY <1>2
  <2> QED BY <1>1, <2>1, <2>2, <2>3, <2>4 DEF Tracked
<1> QED BY <1>1, <1>3, <1>4, <1>5 DEF PagesFit

LEMMA PostFits == PagesFit /\ T!Post => PagesFit'
<1> SUFFICES ASSUME PagesFit, T!Post PROVE PagesFit'
  OBVIOUS
<1>1. PICK c \in T!Comment, to \in {"approved", "pending"} :
         /\ above[c] # 0 => state[above[c]] = "approved"
         /\ state' = [state EXCEPT ![c] = to]
  BY DEF T!Post, T!Root
<1>2. /\ T!Written /\ UNCHANGED <<above, at, votes, pins>>
  BY DEF T!Post, T!Written
<1>3. RowsFit
  BY DEF PagesFit
<1>4. Forest'
  BY <1>2, <1>3 DEF RowsFit, Forest, T!Comment
<1>5. RowsFit'
  BY <1>1, <1>2, <1>3, <1>4 DEF RowsFit, Forest, T!Comment, T!Status
<1>6. Scored' /\ (pins \in SUBSET T!Comment)' /\ RootsOnly(pins)'
  BY <1>2 DEF PagesFit, Scored, RootsOnly, T!Comment
<1> QED BY <1>2, <1>5, <1>6, WrittenFits

LEMMA SetStatusFits == PagesFit /\ T!SetStatus => PagesFit'
<1> SUFFICES ASSUME PagesFit, T!SetStatus PROVE PagesFit'
  OBVIOUS
<1>1. PICK c \in T!Row, to \in {"approved", "spam", "deleted", "removed"} :
         state' = [state EXCEPT ![c] = to]
  BY DEF T!SetStatus
<1>2. /\ T!Written /\ UNCHANGED <<above, at, votes, pins>>
  BY DEF T!SetStatus, T!Written
<1>3. RowsFit
  BY DEF PagesFit
<1>4. Forest'
  BY <1>2, <1>3 DEF RowsFit, Forest, T!Comment
<1>5. RowsFit'
  <2>1. state' \in [T!Comment -> T!Status] /\ \A d \in T!Comment : state'[d] = "absent" <=> state[d] = "absent"
    BY <1>1, <1>3 DEF RowsFit, T!Status, T!Row
  <2>2. \A d \in T!Comment : above[d] # 0 => above[d] \in T!Comment
    BY <1>3, UpStep DEF RowsFit
  <2> QED BY <1>2, <1>3, <1>4, <2>1, <2>2 DEF RowsFit, T!Comment, T!Status
<1>6. Scored' /\ (pins \in SUBSET T!Comment)' /\ RootsOnly(pins)'
  BY <1>2 DEF PagesFit, Scored, RootsOnly, T!Comment
<1> QED BY <1>2, <1>5, <1>6, WrittenFits

LEMMA VoteFits == PagesFit /\ T!Vote => PagesFit'
<1> SUFFICES ASSUME PagesFit, T!Vote PROVE PagesFit'
  OBVIOUS
<1>1. PICK c \in T!Comment, s \in {-1, 1} : votes' = [votes EXCEPT ![c] = s]
  BY DEF T!Vote
<1>2. /\ T!Written /\ UNCHANGED <<above, at, state, pins>>
  BY DEF T!Vote, T!Written
<1>3. RowsFit' /\ (pins \in SUBSET T!Comment)' /\ RootsOnly(pins)'
  BY <1>2 DEF PagesFit, RowsFit, Forest, RootsOnly, T!Comment, T!Status
<1>4. Scored'
  BY <1>1, <1>2 DEF PagesFit, Scored, T!Comment
<1> QED BY <1>2, <1>3, <1>4, WrittenFits

LEMMA PinFits == PagesFit /\ T!Pin => PagesFit'
<1> SUFFICES ASSUME PagesFit, T!Pin PROVE PagesFit'
  OBVIOUS
<1>1. pins' = {} \/ \E c \in T!Roots : pins' = {c}
  BY DEF T!Pin
<1>2. /\ T!Written /\ UNCHANGED <<above, at, state, votes>>
  BY DEF T!Pin, T!Written
<1>3. RowsFit' /\ Scored'
  BY <1>2 DEF PagesFit, RowsFit, Forest, Scored, T!Comment, T!Status
<1>4. (pins \in SUBSET T!Comment)' /\ RootsOnly(pins)'
  BY <1>1, <1>2 DEF RootsOnly, T!Roots, T!Row, T!Root, T!Comment
<1> QED BY <1>2, <1>3, <1>4, WrittenFits

\* At every step of a reader's request the threads on the pages so far are those
\* up to the cursor and the pinned one: the reads of buildTreePage, one by one.
THEOREM PagesInv == T!Spec => []PagesFit
<1>1. PagesFit /\ [T!Next]_T!vars => PagesFit'
  <2> SUFFICES ASSUME PagesFit, [T!Next]_T!vars PROVE PagesFit'
    OBVIOUS
  <2>1. CASE UNCHANGED T!vars
    <3>1. UNCHANGED <<above, writer, at, state, votes, pins, pager, steady, writes>>
      BY <2>1 DEF T!vars
    <3>2. (T!Drawn(pager.who))' = T!Drawn(pager'.who)
      BY <3>1, SameView
    <3>3. \A c : Tracked(c) => Tracked(c)'
      BY <3>1 DEF Tracked, Once, OnPages, AtHand, Due, T!PinnedThread, T!Past, T!Before,
                  T!Place, T!PublicScore
    <3> QED BY <3>1, <3>2, <3>3 DEF PagesFit, RowsFit, Forest, Scored, RootsOnly, PagerType,
                                    Cursor, Places, T!Comment, T!Status
  <2> QED BY <2>1, OpenFits, ReadRefsFits, ReadPinFits, ReadRowsFits, PostFits,
             SetStatusFits, VoteFits, PinFits DEF T!Next
<1> QED BY <1>1, PagesFitInit, PTL DEF T!Spec

\* Whatever is written while a reader pages, a thread that stays, and stays where
\* it is, is on the reader's pages once: listThreadRefsForPost, the cursor and
\* the pin of buildTreePage.
THEOREM ThreadsOnce == T!Spec => []ThreadsPagedOnce
<1>1. ASSUME PagesFit PROVE ThreadsPagedOnce
  <2> SUFFICES ASSUME NEW c \in steady
               PROVE  LET times == T!Cardinality({i \in DOMAIN pager.got : c \in pager.got[i]})
                      IN times <= 1 /\ (pager.pc = "done" => times = 1)
    BY DEF ThreadsPagedOnce, T!ThreadsPagedOnce
  <2> DEFINE on == {i \in DOMAIN pager.got : c \in pager.got[i]}
  <2>1. T!Cardinality(on) = Cardinality(on)
    BY TreeCounts
  <2>2. Once(c) /\ (pager.pc = "done" => OnPages(c))
    BY <1>1 DEF PagesFit, Tracked
  <2>3. CASE OnPages(c)
    <3>1. PICK i : on = {i}
      BY <2>2, <2>3 DEF Once, OnPages
    <3>2. Cardinality({i}) = 1
      BY FS_Singleton
    <3> HIDE DEF on
    <3> QED BY <2>1, <3>1, <3>2 DEF on
  <2>4. CASE ~OnPages(c)
    <3>1. on = {}
      BY <2>4 DEF OnPages
    <3>2. Cardinality({}) = 0
      BY FS_EmptySet
    <3> HIDE DEF on
    <3> QED BY <2>1, <2>2, <2>4, <3>1, <3>2 DEF on
  <2> QED BY <2>3, <2>4
<1> QED BY <1>1, PagesInv, PTL

-----------------------------------------------------------------------------
(* What is drawn *)

\* The threads of a post for a reader: those listed, and the pinned one.
LEMMA ThreadsAre ==
    ASSUME RowsFit, pins \in SUBSET T!Comment, RootsOnly(pins), NEW v
    PROVE  T!Listed(v) \cup T!PinnedThread = {c \in T!Roots : T!Thread(c, v)}
<1>1. ASSUME NEW c \in T!PinnedThread PROVE c \in T!Roots /\ T!Thread(c, v)
  BY DEF T!PinnedThread, RootsOnly, T!Roots, T!Row, T!Root, T!Thread, T!Masked, T!Kind
<1> QED BY <1>1 DEF T!Listed

\* A comment is live, deleted or hidden, and one of them only.
LEMMA OneKind ==
    ASSUME NEW c, NEW v
    PROVE  /\ T!Live(c, v) <=> T!Kind(c, v) = "live"
           /\ T!Masked(c, v) <=> T!Kind(c, v) = "masked"
           /\ T!Kind(c, v) \in {"live", "deleted", "masked"}
           /\ T!Kind(c, v) = "deleted" <=> state[c] \in {"deleted", "removed"}
BY DEF T!Live, T!Masked, T!Kind

\* What a node that is not live passes on: itself and what it is asked for.
LEMMA CarryIs ==
    ASSUME Forest, NEW c \in T!Comment, NEW v, ~T!Live(c, v)
    PROVE  T!Carry(c, v) = {c} \cup T!Need(c, v)
<1> USE ReadingAssumption DEF ReadingAssumption
<1>1. ~(c \in T!Up[c]) /\ \A d \in T!Up[c] : ~(c \in T!Up[d])
  <2>1. \A d \in T!Comment : d \in Int
    BY DEF T!Comment
  <2> QED BY <2>1, UpIsChain
<1>2. T!Way(c, c) = {c}
  BY <1>1 DEF T!Way
<1>3. CASE above[c] = 0
  BY <1>2, <1>3, UpStep DEF T!Carry, T!Need, T!Dark, T!Root
<1>4. CASE above[c] # 0
  <2> DEFINE p == above[c]
  <2>1. p \in T!Comment /\ T!Up[c] = {p} \cup T!Up[p]
    BY <1>4, UpStep
  <2>2. T!Need(c, v) = T!Carry(p, v)
    BY <1>4 DEF T!Need, T!Root
  <2> HIDE DEF p
  <2>3. ASSUME NEW d \in T!Up[c] PROVE T!Way(c, d) = {c} \cup T!Way(p, d)
    BY <1>1, <2>1 DEF T!Way
  <2>4. \A d \in T!Up[c] : d \in T!Carry(c, v) <=> d \in T!Carry(p, v)
    BY <2>1, <2>3 DEF T!Carry, T!Dark
  <2>5. c \in T!Carry(c, v)
    BY <1>2 DEF T!Carry, T!Dark
  <2>6. T!Carry(c, v) \subseteq {c} \cup T!Up[c] /\ T!Carry(p, v) \subseteq T!Up[c]
    BY <2>1 DEF T!Carry
  <2> QED BY <2>2, <2>4, <2>5, <2>6
<1> QED BY <1>3, <1>4

\* The rows that SQL fetches of a post: with each, all that is above it.
LEMMA FetchedIs ==
    ASSUME RowsFit, NEW v, NEW all \in BOOLEAN,
           NEW threads, threads = {c \in T!Roots : T!Thread(c, v)}
    PROVE  LET took == T!Fetched(threads, v, all)
               Seen(c) == /\ c \in T!Row
                          /\ \E r \in {c} \cup T!Up[c] : r \in threads
                          /\ \/ T!Live(c, v)
                             \/ all /\ T!Kind(c, v) = "deleted" /\ ~T!Tainted(c, v)
           IN /\ took \subseteq T!Row
              /\ \A c \in took : T!Up[c] \subseteq took
              /\ \A c : Seen(c) => c \in took
              /\ \A c \in took : \/ Seen(c)
                                 \/ \E e \in took : Seen(e) /\ c \in T!Up[e]
<1> DEFINE took == T!Fetched(threads, v, all)
           Seen(c) == /\ c \in T!Row
                      /\ \E r \in {c} \cup T!Up[c] : r \in threads
                      /\ \/ T!Live(c, v)
                         \/ all /\ T!Kind(c, v) = "deleted" /\ ~T!Tainted(c, v)
           walk == {c \in T!Row : \/ c \in threads
                                  \/ T!Up[c] \cap threads # {} /\ T!Walked(c, v)}
           seen == {c \in walk : \/ T!Live(c, v)
                                 \/ all /\ T!Kind(c, v) = "deleted" /\ ~T!Tainted(c, v)}
<1>1. Forest /\ \A c \in T!Row : c \in T!Comment /\ T!Up[c] \subseteq T!Row
  BY RowsUpwards DEF RowsFit
<1>2. \A c : c \in seen <=> Seen(c)
  BY OneKind DEF T!Walked
<1>3. took = seen \cup UNION {T!Need(c, v) : c \in seen}
  BY DEF T!Fetched
<1> HIDE DEF seen, walk, took
<1>4. \A c \in took : Seen(c) \/ \E e : Seen(e) /\ c \in T!Need(e, v)
  BY <1>2, <1>3
<1>5. \A c : Seen(c) => c \in took /\ T!Need(c, v) \subseteq took
  BY <1>2, <1>3
<1>6. \A c : Seen(c) => c \in T!Row /\ c \in T!Comment /\ T!Need(c, v) \subseteq T!Up[c]
  BY <1>1, NeedIsAbove
<1>7. ASSUME NEW c, Seen(c), NEW x \in T!Up[c] PROVE x \in took
  <2>1. c \in T!Row /\ c \in T!Comment /\ x \in T!Row /\ x \in T!Comment
    BY <1>1, <1>6, <1>7
  <2>2. PICK r \in T!Up[c] : r \in threads /\ above[r] = 0
    <3>1. PICK r \in {c} \cup T!Up[c] : r \in threads
      BY <1>7
    <3>2. above[r] = 0
      BY <3>1 DEF T!Roots, T!Root
    <3>3. above[c] # 0
      BY <1>1, <1>7, <2>1, UpStep
    <3> QED BY <3>1, <3>2, <3>3
  <2>3. ASSUME NEW y \in T!Up[c], T!Live(y, v) PROVE Seen(y)
    <3>1. y \in T!Row /\ y \in T!Comment
      BY <1>1, <2>1
    <3>2. PICK t \in {y} \cup T!Up[y] : above[t] = 0
      BY <1>1, <3>1, OneRoot
    <3>3. t \in T!Up[c]
      BY <1>1, <2>1, <3>2, UpIsChain
    <3>4. t = r
      BY <1>1, <2>1, <2>2, <3>2, <3>3, OneRoot
    <3> QED BY <2>2, <2>3, <3>1, <3>2, <3>4
  <2>4. CASE T!Live(x, v)
    BY <1>5, <2>3, <2>4
  <2>5. CASE ~T!Live(x, v)
    <3> DEFINE S == {e \in {c} \cup T!Up[c] : Seen(e) /\ x \in T!Up[e]}
    <3>1. S \in SUBSET Nat /\ S # {}
      <4>1. \A e : Seen(e) => e \in Nat
        BY <1>6, ReadingAssumption DEF T!Comment, ReadingAssumption
      <4> HIDE DEF Seen
      <4> QED BY <1>7, <4>1
    <3> HIDE DEF Seen
    <3>2. PICK e \in S : \A k \in S : e <= k
      <4> HIDE DEF S
      <4> QED BY <3>1, LeastOf
    <3>3. e \in {c} \cup T!Up[c] /\ Seen(e) /\ x \in T!Up[e] /\ e \in T!Comment /\ e \in Nat
      BY <1>6, <3>1, <3>2
    <3>4. above[e] # 0 /\ above[e] \in T!Comment /\ T!Up[e] = {above[e]} \cup T!Up[above[e]]
      BY <1>1, <3>3, UpStep
    <3>5. ASSUME NEW y \in T!Way(above[e], x) PROVE ~T!Live(y, v)
      <4> SUFFICES ASSUME T!Live(y, v) PROVE FALSE
        OBVIOUS
      <4>1. y \in T!Up[e] /\ x \in T!Up[y]
        BY <2>5, <3>4 DEF T!Way
      <4>2. y \in T!Up[c] /\ y < e /\ y \in T!Comment
        BY <1>1, <2>1, <3>3, <4>1, UpIsChain
      <4>3. y \in S /\ y \in Nat
        BY <2>3, <3>1, <4>1, <4>2
      <4> HIDE DEF S
      <4> QED BY <3>2, <3>3, <4>2, <4>3
    <3>6. x \in T!Need(e, v)
      BY <3>3, <3>4, <3>5 DEF T!Need, T!Carry, T!Dark, T!Root
    <3> QED BY <1>5, <3>3, <3>6
  <2> QED BY <2>4, <2>5
<1>8. ASSUME NEW c \in took
      PROVE  /\ c \in T!Row /\ T!Up[c] \subseteq took
             /\ Seen(c) \/ \E e \in took : Seen(e) /\ c \in T!Up[e]
  <2> HIDE DEF Seen
  <2>1. CASE Seen(c)
    BY <1>6, <1>7, <2>1
  <2>2. CASE \E e : Seen(e) /\ c \in T!Need(e, v)
    <3>1. PICK e : Seen(e) /\ c \in T!Need(e, v)
      BY <2>2
    <3>2. e \in T!Comment /\ c \in T!Up[e] /\ e \in took /\ e \in T!Row
      BY <1>5, <1>6, <3>1
    <3>3. T!Up[c] \subseteq T!Up[e] /\ T!Up[e] \subseteq took /\ c \in T!Row
      BY <1>1, <1>7, <3>1, <3>2, UpIsChain
    <3> QED BY <3>1, <3>2, <3>3
  <2> QED BY <1>4, <2>1, <2>2
<1> QED
  <2> HIDE DEF Seen
  <2>1. \A c : Seen(c) => c \in took
    BY <1>5
  <2>2. /\ took \subseteq T!Row
        /\ \A c \in took : T!Up[c] \subseteq took
        /\ \A c \in took : Seen(c) \/ \E e \in took : Seen(e) /\ c \in T!Up[e]
    BY <1>8
  <2> QED BY <2>1, <2>2 DEF Seen, took

\* The builder prunes nothing of what SQL fetches.
LEMMA AllIsKept ==
    ASSUME RowsFit, NEW v, NEW all \in BOOLEAN,
           NEW threads, threads = {c \in T!Roots : T!Thread(c, v)}
    PROVE  LET took == T!Fetched(threads, v, all)
           IN T!Keep(took, v, all) = took /\ DOMAIN T!Built(took, v, all) = took
<1> DEFINE took == T!Fetched(threads, v, all)
           Seen(c) == /\ c \in T!Row
                      /\ \E r \in {c} \cup T!Up[c] : r \in threads
                      /\ \/ T!Live(c, v)
                         \/ all /\ T!Kind(c, v) = "deleted" /\ ~T!Tainted(c, v)
           first == {c \in took : \/ T!Live(c, v)
                                  \/ c \in T!LivesOn(took, v)
                                  \/ all /\ T!Kind(c, v) = "deleted" /\ c \notin T!Taint(took, v)}
           keep == T!Keep(took, v, all)
<1>1. /\ took \subseteq T!Row
      /\ \A c \in took : T!Up[c] \subseteq took
      /\ \A c \in took : Seen(c) \/ \E e \in took : Seen(e) /\ c \in T!Up[e]
  BY FetchedIs
<1>2. Forest
  BY DEF RowsFit
<1>3. keep = first \cup (took \cap UNION {T!Up[c] : c \in first})
  BY DEF T!Keep
<1> HIDE DEF took
<1>4. ASSUME NEW c \in took, Seen(c) PROVE c \in first
  <2>1. CASE T!Live(c, v)
    BY <2>1
  <2>2. CASE ~T!Live(c, v)
    <3>1. all /\ T!Kind(c, v) = "deleted" /\ ~T!Tainted(c, v)
      BY <1>4, <2>2
    <3>2. c \in T!Comment /\ ~T!Masked(c, v)
      BY <1>1, <3>1, OneKind DEF T!Row
    <3>3. T!Carry(c, v) = {c} \cup T!Need(c, v)
      BY <1>2, <2>2, <3>2, CarryIs
    <3>4. c \notin T!Taint(took, v)
      BY <3>1, <3>2, <3>3 DEF T!Taint, T!Tainted
    <3> QED BY <3>1, <3>4
  <2> QED BY <2>1, <2>2
<1> HIDE DEF first, Seen, keep
<1>5. keep = took
  <2>1. first \subseteq took
    BY DEF first
  <2> QED BY <1>1, <1>3, <1>4, <2>1
<1>6. DOMAIN T!Built(took, v, all) = {c \in keep : T!Up[c] \subseteq keep}
  BY DEF T!Built, T!Reached, keep
<1>7. {c \in keep : T!Up[c] \subseteq keep} = took
  BY <1>1, <1>5
<1> QED BY <1>5, <1>6, <1>7 DEF keep, took

\* A hidden comment's name and score are nowhere.
LEMMA NobodyNamed ==
    ASSUME NEW c, NEW v
    PROVE  LET n == T!Node(c, v)
           IN /\ T!Removed(c, v) => n.name \notin Reader /\ n.votes = 0
              /\ n.from # <<>> /\ T!Removed(above[c], v) => n.from[1] \notin Reader
              /\ n.in = T!Holder(c)
<1> DEFINE n == T!Node(c, v)
<1>1. /\ n.name = T!Name(c, v) /\ n.in = T!Holder(c)
      /\ n.votes = (IF T!Live(c, v) THEN votes[c] ELSE 0)
      /\ n.from = (IF T!Depth(c) >= Levels THEN <<T!Name(above[c], v)>> ELSE <<>>)
  BY DEF T!Node
<1>2. \A d : T!Removed(d, v) => T!Name(d, v) \notin Reader /\ ~T!Live(d, v)
  BY ReadingAssumption, OneKind DEF T!Removed, T!Name, ReadingAssumption
<1>3. ASSUME n.from # <<>> PROVE n.from[1] = T!Name(above[c], v)
  BY <1>1, <1>3
<1> HIDE DEF n
<1>4. /\ T!Removed(c, v) => n.name \notin Reader /\ n.votes = 0
      /\ n.from # <<>> /\ T!Removed(above[c], v) => n.from[1] \notin Reader
      /\ n.in = T!Holder(c)
  BY <1>1, <1>2, <1>3
<1> QED BY <1>4 DEF n

\* For any reader, with placeholders or without, a post is drawn exactly: what
\* listThreadRefsForPost, listCommentsForThreads and keepableSet decide, each
\* for itself, is one and the same.
THEOREM PostDrawnExactly == T!Spec => []TreeExact
<1>1. ASSUME PagesFit PROVE TreeExact
  <2> SUFFICES ASSUME NEW v \in Reader \cup {Visitor}, NEW all \in BOOLEAN
      PROVE LET took   == T!Fetched(T!Listed(v) \cup T!PinnedThread, v, all)
                built  == T!Built(took, v, all)
                drawn  == DOMAIN built
                Hung(c) == \E r \in {c} \cup T!Up[c] :
                              /\ above[r] = T!Root /\ T!Masked(r, v)
                              /\ ~ \E d \in T!Child(r) : T!Live(d, v)
            IN /\ \A c \in T!Row : T!Live(c, v) /\ ~Hung(c) => c \in drawn
               /\ \A c \in drawn : built[c].in \in drawn \cup {T!Root}
               /\ \A c \in drawn : \/ T!Below(c) \cap drawn # {}
                                   \/ T!Live(c, v)
                                   \/ all /\ ~T!Masked(c, v)
               /\ all => \A c \in T!Row :
                     /\ state[c] \in {"deleted", "removed"}
                     /\ ~ \E d \in T!Up[c] : T!Masked(d, v)
                     => c \in drawn
               /\ \A c \in drawn : LET n == built[c] IN
                     /\ T!Removed(c, v) => n.name \notin Reader /\ n.votes = 0
                     /\ n.from # <<>> /\ T!Removed(above[c], v) => n.from[1] \notin Reader
               /\ took = drawn
    BY DEF TreeExact, T!TreeExact
  <2> DEFINE threads == T!Listed(v) \cup T!PinnedThread
             took    == T!Fetched(threads, v, all)
             built   == T!Built(took, v, all)
             drawn   == DOMAIN built
             Hung(c) == \E r \in {c} \cup T!Up[c] :
                           /\ above[r] = T!Root /\ T!Masked(r, v)
                           /\ ~ \E d \in T!Child(r) : T!Live(d, v)
             Seen(c) == /\ c \in T!Row
                        /\ \E r \in {c} \cup T!Up[c] : r \in threads
                        /\ \/ T!Live(c, v)
                           \/ all /\ T!Kind(c, v) = "deleted" /\ ~T!Tainted(c, v)
  <2>1. RowsFit /\ Forest
    BY <1>1 DEF PagesFit, RowsFit
  <2>2. threads = {c \in T!Roots : T!Thread(c, v)}
    BY <1>1, ThreadsAre DEF PagesFit
  <2> HIDE DEF threads
  <2>3. /\ took \subseteq T!Row
        /\ \A c \in took : T!Up[c] \subseteq took
        /\ \A c : Seen(c) => c \in took
        /\ \A c \in took : Seen(c) \/ \E e \in took : Seen(e) /\ c \in T!Up[e]
    BY <2>1, <2>2, FetchedIs
  <2>4. drawn = took
    BY <2>1, <2>2, AllIsKept
  <2>5. \A c \in drawn : built[c] = T!Node(c, v)
    BY DEF T!Built
  <2> HIDE DEF took, built, drawn
  <2>6. \A c \in T!Row : /\ c \in T!Comment /\ T!Up[c] \subseteq T!Row
                         /\ \E r \in {c} \cup T!Up[c] : above[r] = 0 /\ r \in T!Roots
    <3> TAKE c \in T!Row
    <3>1. c \in T!Comment /\ T!Up[c] \subseteq T!Row
      BY <2>1, RowsUpwards
    <3>2. PICK r \in {c} \cup T!Up[c] : above[r] = 0
      BY <2>1, <3>1, OneRoot
    <3> QED BY <3>1, <3>2 DEF T!Roots, T!Root
  <2>7. ASSUME NEW c \in T!Row, T!Live(c, v), ~Hung(c) PROVE c \in drawn
    <3>1. PICK r \in {c} \cup T!Up[c] : above[r] = 0 /\ r \in T!Roots
      BY <2>6
    <3>2. T!Thread(r, v)
      BY <2>7, <3>1 DEF T!Thread, T!Root
    <3> QED BY <2>2, <2>3, <2>4, <2>7, <3>1, <3>2
  <2>8. ASSUME NEW c \in drawn PROVE built[c].in \in drawn \cup {T!Root}
    <3>1. c \in T!Row /\ c \in T!Comment /\ built[c].in = T!Holder(c)
      BY <2>3, <2>4, <2>5, <2>6, NobodyNamed
    <3> QED BY <2>1, <2>3, <2>4, <3>1, HolderIs
  <2>9. ASSUME NEW c \in drawn
        PROVE  \/ T!Below(c) \cap drawn # {}
               \/ T!Live(c, v)
               \/ all /\ ~T!Masked(c, v)
    <3>1. CASE Seen(c)
      BY <3>1, OneKind
    <3>2. CASE \E e \in took : Seen(e) /\ c \in T!Up[e]
      BY <2>3, <2>4, <3>2 DEF T!Below
    <3> HIDE DEF Seen
    <3> QED BY <2>3, <2>4, <3>1, <3>2
  <2>10. ASSUME all, NEW c \in T!Row, state[c] \in {"deleted", "removed"},
                ~ \E d \in T!Up[c] : T!Masked(d, v)
         PROVE  c \in drawn
    <3>1. PICK r \in {c} \cup T!Up[c] : above[r] = 0 /\ r \in T!Roots
      BY <2>6
    <3>2. T!Kind(c, v) = "deleted" /\ ~T!Masked(c, v)
      BY <2>10, OneKind
    <3>3. r \in threads
      BY <2>2, <2>10, <3>1, <3>2 DEF T!Thread
    <3>4. ~T!Tainted(c, v)
      BY <2>1, <2>6, <2>10, NeedIsAbove DEF T!Tainted
    <3> QED BY <2>3, <2>4, <2>10, <3>1, <3>2, <3>3, <3>4
  <2>11. ASSUME NEW c \in drawn
         PROVE  LET n == built[c] IN
                  /\ T!Removed(c, v) => n.name \notin Reader /\ n.votes = 0
                  /\ n.from # <<>> /\ T!Removed(above[c], v) => n.from[1] \notin Reader
    <3>1. built[c] = T!Node(c, v)
      BY <2>5
    <3> QED BY <3>1, NobodyNamed
  <2> HIDE DEF Hung
  <2>12. /\ \A c \in T!Row : T!Live(c, v) /\ ~Hung(c) => c \in drawn
         /\ \A c \in drawn : built[c].in \in drawn \cup {T!Root}
         /\ \A c \in drawn : \/ T!Below(c) \cap drawn # {}
                             \/ T!Live(c, v)
                             \/ all /\ ~T!Masked(c, v)
         /\ all => \A c \in T!Row :
               /\ state[c] \in {"deleted", "removed"}
               /\ ~ \E d \in T!Up[c] : T!Masked(d, v)
               => c \in drawn
         /\ \A c \in drawn : LET n == built[c] IN
               /\ T!Removed(c, v) => n.name \notin Reader /\ n.votes = 0
               /\ n.from # <<>> /\ T!Removed(above[c], v) => n.from[1] \notin Reader
         /\ took = drawn
    BY <2>4, <2>7, <2>8, <2>9, <2>10, <2>11
  <2> QED BY <2>12 DEF Hung, drawn, built, took, threads
<1> QED BY <1>1, PagesInv, PTL
=============================================================================
