---------------------------- MODULE AdminProofs ----------------------------
(***************************************************************************)
(* What administrators do: to accounts and to sessions, for every set of   *)
(* people and requests, and by imports, for every export, any number of    *)
(* overlapping runs and any replies.  The three share no variable.         *)
(*                                                                         *)
(* Accounts: a write that takes something from an account leaves a mark on *)
(* every request that had read before it.  So the argument is about the    *)
(* others: what a request without the mark goes on with is still so        *)
(* (Sound).                                                                *)
(*                                                                         *)
(* Imports: what a run may change it holds in insertedThisRun, so the      *)
(* argument is about that set alone: the unique index lets a row be        *)
(* inserted once, so it is in the set of one run at most, and a run        *)
(* forgets its set when it ends.  Hence what a run has linked stays as it  *)
(* was linked until the run ends, and what its memo holds of a comment     *)
(* that has a root is how many steps away the root is, however many of the *)
(* chain were already known when depthOf climbed it (LinkInv).  That a     *)
(* climb ends is the pigeonhole principle; that a file says what its plan  *)
(* says is about the plan alone, which is the same as long as the file is. *)
(*                                                                         *)
(* Sessions: stamps are numbered in the order they landed in, and what is  *)
(* known everywhere is a prefix of them, so that any stamp a request may   *)
(* read is as late as any it is known to have (ReadsKnown).                *)
(***************************************************************************)
EXTENDS Access, Archive, Sequences, FiniteSetTheorems, TLAPS

-----------------------------------------------------------------------------
(* Accounts *)


\* What job j is about to do rests on rows that are there and, unless a write
\* has overtaken it, still as it read them.
Sound(j) ==
    /\ j.pc = "insert" => j.who \in Person \ {Owner}
    /\ j.pc \in {"admins", "demote"} => j.to \in Role
    /\ j.pc \in {"update", "issue", "count", "ban", "admins", "demote", "erase", "stamp",
               "mark"} => j.who \in Exists
    /\ ~j.stale =>
         /\ j.pc = "admin" => j.actor \in Active
         /\ j.pc \in {"count", "ban", "admins", "demote"} => \E a \in Active : a # j.who
         /\ j.pc = "update" => /\ ~row[j.who].erased
                               /\ row[j.who].banned => j.banned
         /\ j.pc = "issue" => ~Barred(j.who)
         /\ j.pc = "mark" => row[j.who].role # "user"

\* An erased row belongs to nobody who could sign in.
ErasedHasNoPerson == \A a \in Exists : row[a].erased => row[a].person = None

RowsOK == /\ row \in [Account -> Row \union {None}]
          /\ signed \subseteq Exists /\ handoff \subseteq Exists /\ staff \subseteq Exists
          /\ link \in BOOLEAN
          /\ ErasedHasNoPerson
JobsOK == /\ job \in [Request -> Job]
          /\ \A r \in Request : Sound(job[r])

AccountsInv == RowsOK /\ JobsOK

-----------------------------------------------------------------------------
LEMMA IdleIsSound == Idle \in Job /\ Sound(Idle) /\ Idle.pc = "idle"
BY DEF Idle, Job, Sound

LEMMA NoneIsNoRow == ASSUME NEW x \in Row PROVE x # None
BY NoneAssumption

LEMMA AccountsInitInv == AccountsInit => AccountsInv
<1> SUFFICES ASSUME AccountsInit PROVE AccountsInv
  OBVIOUS
<1>1. \A a \in Account :
         IF a \in DOMAIN Founder
         THEN row[a] \in Row /\ row[a] # None /\ ~row[a].erased
         ELSE row[a] = None
  <2> TAKE a \in Account
  <2>1. CASE a \in DOMAIN Founder
    <3>1. row[a] = [person |-> Founder[a].person, role |-> Founder[a].role,
                    banned |-> FALSE, erased |-> FALSE, named |-> TRUE]
      BY <2>1 DEF AccountsInit
    <3>2. row[a] \in Row /\ ~row[a].erased
      BY <2>1, <3>1, FounderAssumption DEF Row
    <3> QED BY <2>1, <3>2, NoneIsNoRow
  <2>2. CASE a \notin DOMAIN Founder
    BY <2>2 DEF AccountsInit
  <2> QED BY <2>1, <2>2
<1>2. row = [a \in Account |-> row[a]]
  BY DEF AccountsInit
<1>3. RowsOK
  BY <1>1, <1>2, FounderAssumption DEF AccountsInit, RowsOK, Exists, ErasedHasNoPerson
<1>4. JobsOK
  BY IdleIsSound DEF AccountsInit, JobsOK
<1> QED BY <1>3, <1>4 DEF AccountsInv

-----------------------------------------------------------------------------
(* Steps of one request that leave the rows alone *)

LEMMA JobStep ==
    ASSUME AccountsInv, NEW r \in Request, NEW j \in Job, Sound(j),
           job' = [job EXCEPT ![r] = j], row' = row,
           signed' \subseteq Exists, handoff' \subseteq Exists, staff' \subseteq Exists,
           link' \in BOOLEAN
    PROVE  AccountsInv'
<1>1. RowsOK'
  BY DEF AccountsInv, RowsOK, Exists, ErasedHasNoPerson
<1>2. job' \in [Request -> Job] /\ job'[r] = j
      /\ \A q \in Request : q # r => job'[q] = job[q]
  BY DEF AccountsInv, JobsOK
<1>3. ASSUME NEW q \in Request PROVE Sound(job[q])'
  <2>1. CASE q = r
    BY <2>1, <1>2 DEF Sound, Exists, Active, Barred
  <2>2. CASE q # r
    BY <2>2, <1>2 DEF AccountsInv, JobsOK, Sound, Exists, Active, Barred
  <2> QED BY <2>1, <2>2
<1> QED BY <1>1, <1>2, <1>3 DEF AccountsInv, JobsOK

\* Nothing that a request could have read changes.
LEMMA SessionStep ==
    ASSUME AccountsInv, UNCHANGED <<row, job, staff>>,
           signed' \subseteq Exists, handoff' \subseteq Exists, link' \in BOOLEAN
    PROVE  AccountsInv'
BY DEF AccountsInv, RowsOK, JobsOK, Exists, ErasedHasNoPerson, Sound, Active, Barred

-----------------------------------------------------------------------------
(* Steps that write a row *)

\* A write that takes nothing from anybody.
LEMMA GivingStep ==
    ASSUME AccountsInv, NEW r \in Request, NEW j \in Job, Sound(j)',
           job' = [job EXCEPT ![r] = j],
           NEW b \in Account, NEW x \in Row, row' = [row EXCEPT ![b] = x],
           x.erased => x.person = None,
           b \in Exists => /\ x.role = row[b].role
                           /\ x.erased => row[b].erased
                           /\ x.banned => row[b].banned,
           UNCHANGED <<signed, handoff, staff, link>>
    PROVE  AccountsInv'
<1>1. /\ row' \in [Account -> Row \union {None}] /\ row'[b] = x /\ x # None
      /\ \A a \in Account : a # b => row'[a] = row[a]
  BY NoneIsNoRow DEF AccountsInv, RowsOK
<1>2. Exists \subseteq Exists' /\ \A a \in Exists' : a = b \/ a \in Exists
  BY <1>1 DEF Exists
<1>3. Active \subseteq Active'
  BY <1>1, <1>2 DEF Active, Exists
<1>4. \A a \in Exists : /\ row'[a].role = row[a].role
                        /\ row'[a].erased => row[a].erased
                        /\ row'[a].banned => row[a].banned
  BY <1>1 DEF Exists
<1>5. RowsOK'
  BY <1>1, <1>2, <1>4 DEF AccountsInv, RowsOK, ErasedHasNoPerson, Exists
<1>6. job' \in [Request -> Job] /\ job'[r] = j
      /\ \A q \in Request : q # r => job'[q] = job[q]
  BY DEF AccountsInv, JobsOK
<1>7. ASSUME NEW q \in Request PROVE Sound(job[q])'
  <2>1. CASE q = r
    BY <2>1, <1>6 DEF Sound
  <2>2. CASE q # r
    <3>1. Sound(job[q]) /\ job'[q] = job[q]
      BY <2>2, <1>6 DEF AccountsInv, JobsOK
    <3> QED BY <3>1, <1>2, <1>3, <1>4 DEF Sound, Barred
  <2> QED BY <2>1, <2>2
<1> QED BY <1>5, <1>6, <1>7 DEF AccountsInv, JobsOK

\* Whom a write takes something from, and who has read before it.
LEMMA TakesMarks ==
    ASSUME job \in [Request -> Job], NEW r \in Request, NEW b, NEW j \in Job,
           Takes(r, b, j)
    PROVE  /\ job' \in [Request -> Job] /\ job'[r] = j
           /\ \A q \in Request : q # r =>
                 /\ job'[q].pc = job[q].pc /\ job'[q].actor = job[q].actor
                 /\ job'[q].who = job[q].who /\ job'[q].banned = job[q].banned
                 /\ job'[q].to = job[q].to
                 /\ ~job'[q].stale =>
                       /\ ~job[q].stale
                       /\ job[q].pc \notin {"admin", "count", "ban", "admins", "demote"}
                       /\ job[q].pc \in {"update", "issue", "mark"} => job[q].who # b
<1>1. job'[r] = j /\ DOMAIN job' = Request /\ job' = [q \in Request |-> job'[q]]
  BY DEF Takes
<1>2. ASSUME NEW q \in Request, q # r
      PROVE  /\ job'[q] \in Job
             /\ job'[q].pc = job[q].pc /\ job'[q].actor = job[q].actor
             /\ job'[q].who = job[q].who /\ job'[q].banned = job[q].banned
             /\ job'[q].to = job[q].to
             /\ ~job'[q].stale =>
                   /\ ~job[q].stale
                   /\ job[q].pc \notin {"admin", "count", "ban", "admins", "demote"}
                   /\ job[q].pc \in {"update", "issue", "mark"} => job[q].who # b
  <2> DEFINE mark == \/ job[q].stale
                     \/ job[q].pc \in {"admin", "count", "ban", "admins", "demote"}
                     \/ job[q].pc \in {"update", "issue", "mark"} /\ job[q].who = b
  <2>1. job'[q] = [job[q] EXCEPT !.stale = mark]
    BY <1>2 DEF Takes
  <2>2. mark \in BOOLEAN /\ job[q] \in Job
    BY DEF Job
  <2>3. ~mark => /\ ~job[q].stale
                 /\ job[q].pc \notin {"admin", "count", "ban", "admins", "demote"}
                 /\ job[q].pc \in {"update", "issue", "mark"} => job[q].who # b
    OBVIOUS
  <2> HIDE DEF mark
  <2>4. /\ job'[q] \in Job /\ job'[q].stale = mark
        /\ job'[q].pc = job[q].pc /\ job'[q].actor = job[q].actor
        /\ job'[q].who = job[q].who /\ job'[q].banned = job[q].banned
        /\ job'[q].to = job[q].to
    BY <2>1, <2>2 DEF Job
  <2> QED BY <2>3, <2>4
<1> QED BY <1>1, <1>2

\* A write that takes something from b, and marks who relied on it.
LEMMA TakingStep ==
    ASSUME AccountsInv, NEW r \in Request, NEW j \in Job, Sound(j)',
           NEW b \in Exists, Takes(r, b, j),
           NEW x \in Row, row' = [row EXCEPT ![b] = x],
           x.erased => x.person = None,
           staff' \subseteq staff, UNCHANGED <<signed, handoff, link>>
    PROVE  AccountsInv'
<1>1. /\ row' \in [Account -> Row \union {None}] /\ row'[b] = x /\ x # None
      /\ \A a \in Account : a # b => row'[a] = row[a]
  BY NoneIsNoRow DEF AccountsInv, RowsOK, Exists
<1>2. Exists' = Exists
  BY <1>1 DEF Exists
<1>3. RowsOK'
  BY <1>1, <1>2 DEF AccountsInv, RowsOK, ErasedHasNoPerson, Exists
<1>4. /\ job' \in [Request -> Job] /\ job'[r] = j
      /\ \A q \in Request : q # r =>
            /\ job'[q].pc = job[q].pc /\ job'[q].actor = job[q].actor
            /\ job'[q].who = job[q].who /\ job'[q].banned = job[q].banned
            /\ job'[q].to = job[q].to
            /\ ~job'[q].stale =>
                  /\ ~job[q].stale
                  /\ job[q].pc \notin {"admin", "count", "ban", "admins", "demote"}
                  /\ job[q].pc \in {"update", "issue", "mark"} => job[q].who # b
  BY TakesMarks DEF AccountsInv, JobsOK
<1>5. ASSUME NEW q \in Request PROVE Sound(job[q])'
  <2>1. CASE q = r
    BY <2>1, <1>4 DEF Sound
  <2>2. CASE q # r
    <3>1. Sound(job[q])
      BY DEF AccountsInv, JobsOK
    <3>2. \A a \in Exists : a # b => row'[a] = row[a]
      BY <1>1 DEF Exists
    <3> QED BY <2>2, <3>1, <3>2, <1>2, <1>4 DEF Sound, Barred
  <2> QED BY <2>1, <2>2
<1> QED BY <1>3, <1>4, <1>5 DEF AccountsInv, JobsOK
-----------------------------------------------------------------------------
(* The requests *)

LEMMA JobFacts ==
    ASSUME AccountsInv, NEW r \in Request
    PROVE  /\ job[r] \in Job /\ Sound(job[r])
           /\ \A a \in Exists : a \in Account /\ row[a] \in Row
           /\ signed \subseteq Exists /\ handoff \subseteq Exists /\ staff \subseteq Exists
           /\ link \in BOOLEAN
BY DEF AccountsInv, JobsOK, RowsOK, Exists

LEMMA LoginLookupInv ==
    ASSUME AccountsInv, NEW r \in Request, NEW p \in Person, LoginLookup(r, p)
    PROVE  AccountsInv'
<1> DEFINE a == CHOOSE x \in Mine(p) : TRUE
           j == IF Mine(p) = {} THEN [Idle EXCEPT !.pc = "insert", !.who = p]
                ELSE [Idle EXCEPT !.pc = "update", !.who = a, !.banned = row[a].banned]
<1>1. p # Owner /\ job' = [job EXCEPT ![r] = j] /\ UNCHANGED <<row, signed, handoff, link, staff>>
  BY DEF LoginLookup
<1>2. CASE Mine(p) = {}
  <2>1. j = [pc |-> "insert", actor |-> None, who |-> p, banned |-> FALSE,
             to |-> "none", stale |-> FALSE]
    BY <1>2 DEF Idle
  <2> HIDE DEF j
  <2>2. j \in Job /\ Sound(j)
    BY <1>1, <2>1 DEF Job, Sound
  <2> QED BY <1>1, <2>2, JobFacts, JobStep
<1>3. CASE Mine(p) # {}
  <2>1. a \in Mine(p)
    BY <1>3
  <2> DEFINE banned == row[a].banned
  <2>2. j = [pc |-> "update", actor |-> None, who |-> a, banned |-> banned,
             to |-> "none", stale |-> FALSE]
    BY <1>3 DEF Idle
  <2> HIDE DEF a, j
  <2>3. a \in Exists /\ a \in Account /\ row[a] \in Row /\ row[a].person = p /\ p # None
    BY <2>1, JobFacts, PersonAssumption DEF Mine
  <2>4. ~row[a].erased
    BY <2>3 DEF AccountsInv, RowsOK, ErasedHasNoPerson
  <2>5. banned \in BOOLEAN
    BY <2>3 DEF Row
  <2>6. row[a].banned => banned
    OBVIOUS
  <2> HIDE DEF banned
  <2>7. /\ j \in Job /\ j.pc = "update" /\ j.who = a /\ j.banned = banned
    BY <2>2, <2>3, <2>5 DEF Job
  <2>8. Sound(j)
    BY <2>3, <2>4, <2>6, <2>7 DEF Sound
  <2> QED BY <1>1, <2>7, <2>8, JobFacts, JobStep
<1> QED BY <1>2, <1>3

LEMMA LoginUpdateInv ==
    ASSUME AccountsInv, NEW r \in Request, LoginUpdate(r)
    PROVE  AccountsInv'
<1>1. /\ job[r].pc = "update" /\ UNCHANGED <<signed, handoff, link, staff>>
      /\ job[r] \in Job /\ Sound(job[r])
  BY JobFacts DEF LoginUpdate, At
<1>2. PICK a \in Exists : a = job[r].who
  BY <1>1 DEF Sound
<1>3. a \in Account /\ row[a] \in Row
  BY JobFacts
<1>4. PICK x \in Row : /\ x = [row[a] EXCEPT !.named = TRUE]
                       /\ x.person = row[a].person /\ x.role = row[a].role
                       /\ x.erased = row[a].erased /\ x.banned = row[a].banned
  <2>1. [row[a] EXCEPT !.named = TRUE] \in Row
    BY <1>3 DEF Row
  <2>2. ASSUME NEW x \in Row, x = [row[a] EXCEPT !.named = TRUE]
      PROVE  /\ x.person = row[a].person /\ x.role = row[a].role
             /\ x.erased = row[a].erased /\ x.banned = row[a].banned
    BY <1>3, <2>2 DEF Row
  <2> QED BY <2>1, <2>2
<1>5. row' = [row EXCEPT ![a] = x]
  BY <1>2, <1>3, <1>4 DEF LoginUpdate
<1>6. x.erased => x.person = None
  BY <1>3, <1>4 DEF AccountsInv, RowsOK, ErasedHasNoPerson
<1>7. row'[a] = x /\ a \in Exists'
  BY <1>3, <1>5, NoneIsNoRow DEF AccountsInv, RowsOK, Exists
<1>8. PICK j \in Job : job' = [job EXCEPT ![r] = j] /\ Sound(j)'
  <2>1. CASE job[r].banned
    BY <1>1, <2>1, IdleIsSound DEF LoginUpdate, Sound, Idle
  <2>2. CASE ~job[r].banned
    <3>1. PICK j \in Job : /\ j = [job[r] EXCEPT !.pc = "issue"]
                           /\ j.pc = "issue" /\ j.who = a /\ j.stale = job[r].stale
      <4>1. [job[r] EXCEPT !.pc = "issue"] \in Job
        BY <1>1, <1>2 DEF Job
      <4>2. ASSUME NEW j \in Job, j = [job[r] EXCEPT !.pc = "issue"]
          PROVE  /\ j.pc = "issue" /\ j.who = a /\ j.stale = job[r].stale
        BY <1>1, <1>2, <4>2 DEF Job
      <4> QED BY <4>1, <4>2
    <3>2. ~job[r].stale => ~row[a].erased /\ ~row[a].banned
      BY <2>2, <1>1, <1>2 DEF Sound
    <3>3. Sound(j)'
      BY <3>1, <3>2, <1>4, <1>7 DEF Sound, Barred
    <3>4. job' = [job EXCEPT ![r] = j]
      BY <2>2, <3>1 DEF LoginUpdate, AccountsInv, JobsOK
    <3> QED BY <3>3, <3>4
  <2> QED BY <2>1, <2>2
<1> QED BY <1>1, <1>3, <1>4, <1>5, <1>6, <1>8, GivingStep

LEMMA LoginInsertInv ==
    ASSUME AccountsInv, NEW r \in Request, LoginInsert(r)
    PROVE  AccountsInv'
<1>1. CASE Idles(r) /\ UNCHANGED row
  BY <1>1, IdleIsSound, JobFacts, JobStep DEF LoginInsert, Idles
<1>2. CASE ~(Idles(r) /\ UNCHANGED row)
  <2> DEFINE p == job[r].who
             x == [person |-> p, role |-> IF p \in Promoted THEN "admin" ELSE "user",
                   banned |-> FALSE, erased |-> FALSE, named |-> TRUE]
  <2>1. PICK a \in Account \ Exists :
           /\ row' = [row EXCEPT ![a] = x]
           /\ job' = [job EXCEPT ![r] = [Idle EXCEPT !.pc = "issue", !.who = a]]
    BY <1>2 DEF LoginInsert
  <2> DEFINE j == [Idle EXCEPT !.pc = "issue", !.who = a]
  <2>2. job[r].pc = "insert" /\ UNCHANGED <<signed, handoff, link, staff>>
    BY DEF LoginInsert, At
  <2>3. p \in Person
    BY <2>2, JobFacts DEF Sound
  <2>4. x \in Row /\ ~x.erased /\ ~x.banned
    BY <2>3, RoleAssumption DEF Row
  <2>5. j \in Job /\ j.pc = "issue" /\ j.who = a
    BY DEF Idle, Job
  <2>6. row'[a] = x /\ a \in Exists'
    BY <2>1, <2>4, NoneIsNoRow DEF AccountsInv, RowsOK, Exists
  <2> HIDE DEF x, j
  <2>7. Sound(j)'
    BY <2>4, <2>5, <2>6 DEF Sound, Barred
  <2>8. job' = [job EXCEPT ![r] = j]
    BY <2>1 DEF j
  <2> HIDE DEF p
  <2> QED BY <2>1, <2>2, <2>4, <2>5, <2>7, <2>8, GivingStep
<1> QED BY <1>1, <1>2

LEMMA SessionsInv ==
    ASSUME AccountsInv,
           \/ PrintLink
           \/ \E a \in Exists : Exchange(a) \/ HandoffExpires(a) \/ SignOut(a)
    PROVE  AccountsInv'
<1>1. signed \subseteq Exists /\ handoff \subseteq Exists /\ link \in BOOLEAN
  BY DEF AccountsInv, RowsOK
<1> QED BY <1>1, SessionStep DEF PrintLink, Exchange, HandoffExpires, SignOut

\* What ends, or goes on without a row it has to trust.
LEMMA PlainJobInv ==
    ASSUME AccountsInv, NEW r \in Request,
           \/ Issue(r) \/ Redeem(r) \/ Revoke(r) \/ Abandon(r) \/ StaffInsert(r)
    PROVE  AccountsInv'
<1>1. /\ Idle \in Job /\ Sound(Idle)
      /\ [Idle EXCEPT !.pc = "owner"] \in Job /\ Sound([Idle EXCEPT !.pc = "owner"])
  BY IdleIsSound DEF Idle, Job, Sound
<1>2. /\ signed \subseteq Exists /\ handoff \subseteq Exists /\ staff \subseteq Exists
      /\ link \in BOOLEAN
      /\ job[r].pc \in {"issue", "stamp", "mark"} => job[r].who \in Exists
  BY JobFacts DEF Sound
<1>3. CASE Issue(r)
  BY <1>1, <1>2, <1>3, JobStep DEF Issue, Idles, At
<1>4. CASE Redeem(r)
  BY <1>1, <1>2, <1>4, JobStep DEF Redeem
<1>5. CASE Revoke(r) \/ Abandon(r)
  BY <1>1, <1>2, <1>5, JobStep DEF Revoke, Abandon, Idles
<1>6. CASE StaffInsert(r)
  BY <1>1, <1>2, <1>6, JobStep DEF StaffInsert, Idles, At
<1> QED BY <1>3, <1>4, <1>5, <1>6

LEMMA OwnerCheckInv ==
    ASSUME AccountsInv, NEW r \in Request, OwnerCheck(r)
    PROVE  AccountsInv'
<1> DEFINE a == CHOOSE x \in Exists : OwnerFit(x)
           j == IF \E x \in Exists : OwnerFit(x)
                THEN [Idle EXCEPT !.pc = "issue", !.who = a] ELSE Idle
<1>1. job' = [job EXCEPT ![r] = j] /\ UNCHANGED <<row, signed, handoff, link, staff>>
  BY DEF OwnerCheck
<1>2. j \in Job /\ Sound(j)
  <2>1. CASE \E x \in Exists : OwnerFit(x)
    <3>1. a \in Exists /\ OwnerFit(a)
      BY <2>1
    <3>2. j = [Idle EXCEPT !.pc = "issue", !.who = a]
      BY <2>1
    <3> HIDE DEF a, j
    <3> QED BY <3>1, <3>2, JobFacts DEF OwnerFit, Idle, Job, Sound
  <2>2. CASE ~\E x \in Exists : OwnerFit(x)
    BY <2>2, IdleIsSound
  <2> QED BY <2>1, <2>2
<1> HIDE DEF j
<1> QED BY <1>1, <1>2, JobFacts, JobStep

\* What a request reads is so at that moment.
LEMMA ReadInv ==
    ASSUME AccountsInv, NEW r \in Request, NEW b \in Exists,
           \/ AdminStart(r, b) \/ StaffRead(r, b)
           \/ BanRead(r, b) \/ EraseRead(r, b) \/ \E to \in Role : RoleRead(r, b, to)
    PROVE  AccountsInv'
<1>1. /\ b \in Account /\ row[b] \in Row /\ job[r] \in Job /\ Sound(job[r])
      /\ signed \subseteq Exists /\ handoff \subseteq Exists /\ staff \subseteq Exists
      /\ link \in BOOLEAN
  BY JobFacts
<1>2. CASE AdminStart(r, b)
  <2> DEFINE j == [Idle EXCEPT !.pc = "admin", !.actor = b]
  <2>1. j \in Job /\ Sound(j)
    BY <1>1, <1>2 DEF AdminStart, Idle, Job, Sound
  <2> QED BY <1>1, <1>2, <2>1, JobStep DEF AdminStart
<1>3. CASE StaffRead(r, b)
  <2> DEFINE j == [Idle EXCEPT !.pc = "mark", !.who = b]
  <2>1. j \in Job /\ Sound(j)
    BY <1>1, <1>3 DEF StaffRead, Idle, Job, Sound
  <2> QED BY <1>1, <1>3, <2>1, JobStep DEF StaffRead
<1>4. CASE BanRead(r, b)
  <2> DEFINE s == IF b \in Active THEN "count" ELSE "ban"
             j == [job[r] EXCEPT !.actor = None, !.who = b, !.pc = s]
  <2>1. /\ job' = [job EXCEPT ![r] = j] /\ UNCHANGED <<row, signed, handoff, link, staff>>
        /\ job[r].pc = "admin" /\ b # job[r].actor
    BY <1>1, <1>4 DEF BanRead, At, AccountsInv, JobsOK
  <2>2. s \in {"count", "ban"}
    OBVIOUS
  <2> HIDE DEF s
  <2>3. j \in Job /\ j.pc = s /\ j.who = b /\ j.stale = job[r].stale
    BY <1>1, <2>2 DEF Job
  <2>4. ~job[r].stale => \E a \in Active : a # b
    BY <1>1, <2>1 DEF Sound
  <2> HIDE DEF j
  <2>5. Sound(j)
    BY <2>2, <2>3, <2>4 DEF Sound
  <2> QED BY <1>1, <2>1, <2>3, <2>5, JobStep
<1>5. CASE EraseRead(r, b)
  <2> DEFINE j == [Idle EXCEPT !.who = b, !.pc = "erase"]
  <2>1. j \in Job /\ Sound(j)
    BY <1>1 DEF Idle, Job, Sound
  <2> QED BY <1>1, <1>5, <2>1, JobStep DEF EraseRead
<1>6. ASSUME NEW to \in Role, RoleRead(r, b, to) PROVE AccountsInv'
  <2> DEFINE s == IF row[b].role = "admin" THEN "admins" ELSE "demote"
             j == [job[r] EXCEPT !.actor = None, !.who = b, !.to = to, !.pc = s]
  <2>1. /\ job' = [job EXCEPT ![r] = j] /\ UNCHANGED <<row, signed, handoff, link, staff>>
        /\ job[r].pc = "admin" /\ b # job[r].actor
    BY <1>1, <1>6 DEF RoleRead, At, AccountsInv, JobsOK
  <2>2. s \in {"admins", "demote"}
    OBVIOUS
  <2> HIDE DEF s
  <2>3. j \in Job /\ j.pc = s /\ j.who = b /\ j.to = to /\ j.stale = job[r].stale
    BY <1>1, <2>2 DEF Job
  <2>4. ~job[r].stale => \E a \in Active : a # b
    BY <1>1, <2>1 DEF Sound
  <2> HIDE DEF j
  <2>5. Sound(j)
    BY <2>2, <2>3, <2>4 DEF Sound
  <2> QED BY <1>1, <2>1, <2>3, <2>5, JobStep
<1> QED BY <1>2, <1>3, <1>4, <1>5, <1>6

LEMMA BanCountInv ==
    ASSUME AccountsInv, NEW r \in Request, BanCount(r)
    PROVE  AccountsInv'
<1> DEFINE j == [job[r] EXCEPT !.pc = "ban"]
<1>1. /\ job[r].pc = "count" /\ UNCHANGED <<row, signed, handoff, link, staff>>
      /\ job' = [job EXCEPT ![r] = Idle] \/ job' = [job EXCEPT ![r] = j]
  BY DEF BanCount, At
<1>2. job[r] \in Job /\ Sound(job[r])
  BY JobFacts
<1>3. j \in Job /\ j.pc = "ban" /\ j.who = job[r].who /\ j.stale = job[r].stale
  BY <1>2 DEF Job
<1> HIDE DEF j
<1>4. Sound(j)
  BY <1>1, <1>2, <1>3 DEF Sound
<1> QED BY <1>1, <1>3, <1>4, IdleIsSound, JobFacts, JobStep

LEMMA RoleCountInv ==
    ASSUME AccountsInv, NEW r \in Request, RoleCount(r)
    PROVE  AccountsInv'
<1> DEFINE j == [job[r] EXCEPT !.pc = "demote"]
<1>1. /\ job[r].pc = "admins" /\ UNCHANGED <<row, signed, handoff, link, staff>>
      /\ job' = [job EXCEPT ![r] = Idle] \/ job' = [job EXCEPT ![r] = j]
  BY DEF RoleCount, At
<1>2. job[r] \in Job /\ Sound(job[r])
  BY JobFacts
<1>3. /\ j \in Job /\ j.pc = "demote" /\ j.who = job[r].who /\ j.to = job[r].to
      /\ j.stale = job[r].stale
  BY <1>2 DEF Job
<1> HIDE DEF j
<1>4. Sound(j)
  BY <1>1, <1>2, <1>3 DEF Sound
<1> QED BY <1>1, <1>3, <1>4, IdleIsSound, JobFacts, JobStep

LEMMA UnbanInv ==
    ASSUME AccountsInv, NEW r \in Request, NEW b \in Exists, UnbanWrite(r, b)
    PROVE  AccountsInv'
<1>1. b \in Account /\ row[b] \in Row
  BY JobFacts
<1>2. PICK x \in Row : /\ x = [row[b] EXCEPT !.banned = FALSE] /\ ~x.banned
                       /\ x.person = row[b].person /\ x.role = row[b].role
                       /\ x.erased = row[b].erased
  <2>1. [row[b] EXCEPT !.banned = FALSE] \in Row
    BY <1>1 DEF Row
  <2>2. ASSUME NEW x \in Row, x = [row[b] EXCEPT !.banned = FALSE]
      PROVE  /\ ~x.banned
                       /\ x.person = row[b].person /\ x.role = row[b].role
                       /\ x.erased = row[b].erased
    BY <1>1, <2>2 DEF Row
  <2> QED BY <2>1, <2>2
<1>3. x.erased => x.person = None
  BY <1>2 DEF AccountsInv, RowsOK, ErasedHasNoPerson
<1>4. /\ row' = [row EXCEPT ![b] = x] /\ job' = [job EXCEPT ![r] = Idle]
      /\ UNCHANGED <<signed, handoff, staff, link>>
  BY <1>1, <1>2 DEF UnbanWrite, Idles
<1>5. Idle \in Job /\ Sound(Idle)'
  BY IdleIsSound DEF Idle, Sound
<1> QED BY <1>1, <1>2, <1>3, <1>4, <1>5, GivingStep

\* A ban, a change of role, an erasure.
LEMMA BanWriteInv ==
    ASSUME AccountsInv, NEW r \in Request, BanWrite(r)
    PROVE  AccountsInv'
<1>1. job[r].pc = "ban" /\ UNCHANGED <<signed, handoff, link, staff>> /\ Sound(job[r])
  BY JobFacts DEF BanWrite, At
<1>2. PICK b \in Exists : b = job[r].who
  BY <1>1 DEF Sound
<1>3. b \in Account /\ row[b] \in Row
  BY JobFacts
<1>4. PICK x \in Row : /\ x = [row[b] EXCEPT !.banned = TRUE]
                       /\ x.person = row[b].person /\ x.erased = row[b].erased
  <2>1. [row[b] EXCEPT !.banned = TRUE] \in Row
    BY <1>3 DEF Row
  <2>2. ASSUME NEW x \in Row, x = [row[b] EXCEPT !.banned = TRUE]
      PROVE  /\ x.person = row[b].person /\ x.erased = row[b].erased
    BY <1>3, <2>2 DEF Row
  <2> QED BY <2>1, <2>2
<1>5. row' = [row EXCEPT ![b] = x] /\ b \in Exists'
  BY <1>2, <1>3, <1>4, NoneIsNoRow DEF BanWrite, Exists, AccountsInv, RowsOK
<1>6. x.erased => x.person = None
  BY <1>4 DEF AccountsInv, RowsOK, ErasedHasNoPerson
<1> DEFINE j == [Idle EXCEPT !.who = b, !.pc = "stamp"]
<1>7. j \in Job /\ Sound(j)'
  BY <1>3, <1>5 DEF Idle, Job, Sound
<1>8. Takes(r, b, j)
  BY <1>2 DEF BanWrite
<1> HIDE DEF j
<1> QED BY <1>1, <1>4, <1>5, <1>6, <1>7, <1>8, TakingStep

LEMMA RoleWriteInv ==
    ASSUME AccountsInv, NEW r \in Request, RoleWrite(r)
    PROVE  AccountsInv'
<1>1. /\ job[r].pc = "demote" /\ UNCHANGED <<signed, handoff, link>> /\ staff' \subseteq staff
      /\ Sound(job[r])
  BY JobFacts DEF RoleWrite, At
<1>2. PICK b \in Exists : b = job[r].who
  BY <1>1 DEF Sound
<1>3. b \in Account /\ row[b] \in Row /\ job[r].to \in Role
  BY <1>1, JobFacts DEF Sound
<1>4. PICK x \in Row : /\ x = [row[b] EXCEPT !.role = job[r].to]
                       /\ x.person = row[b].person /\ x.erased = row[b].erased
  <2>1. [row[b] EXCEPT !.role = job[r].to] \in Row
    BY <1>3 DEF Row
  <2>2. ASSUME NEW x \in Row, x = [row[b] EXCEPT !.role = job[r].to]
      PROVE  /\ x.person = row[b].person /\ x.erased = row[b].erased
    BY <1>3, <2>2 DEF Row
  <2> QED BY <2>1, <2>2
<1>5. row' = [row EXCEPT ![b] = x]
  BY <1>2, <1>3, <1>4 DEF RoleWrite
<1>6. x.erased => x.person = None
  BY <1>4 DEF AccountsInv, RowsOK, ErasedHasNoPerson
<1>7. Idle \in Job /\ Sound(Idle)'
  BY IdleIsSound DEF Idle, Sound
<1>8. Takes(r, b, Idle)
  BY <1>2 DEF RoleWrite
<1> QED BY <1>1, <1>4, <1>5, <1>6, <1>7, <1>8, TakingStep

LEMMA EraseWriteInv ==
    ASSUME AccountsInv, NEW r \in Request, EraseWrite(r)
    PROVE  AccountsInv'
<1>1. /\ job[r].pc = "erase" /\ UNCHANGED <<signed, handoff, link>> /\ staff' \subseteq staff
      /\ Sound(job[r])
  BY JobFacts DEF EraseWrite, At
<1>2. PICK b \in Exists : b = job[r].who
  BY <1>1 DEF Sound
<1>3. b \in Account /\ row[b] \in Row
  BY JobFacts
<1>4. PICK x \in Row : /\ x = [row[b] EXCEPT !.person = None, !.named = FALSE, !.erased = TRUE]
                       /\ x.person = None
  <2>1. [row[b] EXCEPT !.person = None, !.named = FALSE, !.erased = TRUE] \in Row
    BY <1>3 DEF Row
  <2>2. ASSUME NEW x \in Row, x = [row[b] EXCEPT !.person = None, !.named = FALSE, !.erased = TRUE]
      PROVE  x.person = None
    BY <1>3, <2>2 DEF Row
  <2> QED BY <2>1, <2>2
<1>5. row' = [row EXCEPT ![b] = x] /\ b \in Exists'
  <2>1. row' = [row EXCEPT ![b] = x]
    BY <1>2, <1>3, <1>4 DEF EraseWrite, AccountsInv, RowsOK
  <2> QED BY <2>1, <1>3, <1>4, NoneIsNoRow DEF Exists, AccountsInv, RowsOK
<1> DEFINE j == [Idle EXCEPT !.who = b, !.pc = "stamp"]
<1>6. j \in Job /\ Sound(j)'
  BY <1>3, <1>5 DEF Idle, Job, Sound
<1>7. Takes(r, b, j)
  BY <1>2 DEF EraseWrite
<1> HIDE DEF j
<1> QED BY <1>1, <1>4, <1>5, <1>6, <1>7, TakingStep

LEMMA AccountsNextInv == AccountsInv /\ [AccountsNext]_accountsVars => AccountsInv'
<1> SUFFICES ASSUME AccountsInv, [AccountsNext]_accountsVars PROVE AccountsInv'
  OBVIOUS
<1>1. CASE UNCHANGED accountsVars
  BY <1>1, SessionStep DEF accountsVars, AccountsInv, RowsOK
<1>2. CASE AccountsNext
  BY <1>2, LoginLookupInv, LoginUpdateInv, LoginInsertInv, PlainJobInv, OwnerCheckInv,
     ReadInv, UnbanInv, BanCountInv, RoleCountInv, BanWriteInv, RoleWriteInv, EraseWriteInv,
     SessionsInv DEF AccountsNext
<1> QED BY <1>1, <1>2

\* What every request that no write has overtaken relies on is so.
THEOREM AccountsInvariant == AccountsSpec => []AccountsInv
BY AccountsInitInv, AccountsNextInv, PTL DEF AccountsSpec

\* Accounts, roles, sessions and requests keep their types.
THEOREM AccountsTypeCorrect == AccountsSpec => []AccountsTypeOK
<1>1. AccountsInv => AccountsTypeOK
  BY DEF AccountsInv, RowsOK, JobsOK, Sound, AccountsTypeOK
<1> QED BY <1>1, AccountsInvariant, PTL

-----------------------------------------------------------------------------
(* What a step may not do *)

\* Which steps change what of an account.
LEMMA Effects ==
    ASSUME AccountsInv, AccountsNext, NEW a \in Exists
    PROVE  /\ a \in Exists'
           /\ row'[a].role # row[a].role => \E r \in Request : RoleWrite(r) /\ job[r].who = a
           /\ row'[a].banned /\ ~row[a].banned
                => \E r \in Request : BanWrite(r) /\ job[r].who = a
           /\ row'[a].named /\ ~row[a].named
                => \E r \in Request : LoginUpdate(r) /\ job[r].who = a
<1>0. a \in Account /\ row[a] \in Row /\ row[a] # None
      /\ row \in [Account -> Row \union {None}]
  BY DEF AccountsInv, RowsOK, Exists
<1>1. CASE row' = row
  BY <1>1 DEF Exists
<1>2. ASSUME NEW r \in Request, LoginUpdate(r)
      PROVE  /\ row'[a] \in Row
             /\ row'[a].role = row[a].role /\ row'[a].banned = row[a].banned
             /\ job[r].who # a => row'[a].named = row[a].named
  BY <1>0, <1>2 DEF LoginUpdate, Row
<1>3. ASSUME NEW r \in Request, LoginInsert(r) PROVE row'[a] = row[a]
  BY <1>0, <1>3 DEF LoginInsert
<1>4. ASSUME NEW r \in Request, BanWrite(r)
      PROVE  /\ row'[a] \in Row
             /\ row'[a].role = row[a].role /\ row'[a].named = row[a].named
             /\ job[r].who # a => row'[a].banned = row[a].banned
  BY <1>0, <1>4 DEF BanWrite, Row
<1>5. ASSUME NEW r \in Request, NEW b \in Exists, UnbanWrite(r, b)
      PROVE  /\ row'[a] \in Row
             /\ row'[a].role = row[a].role /\ row'[a].named = row[a].named
             /\ row'[a].banned => row[a].banned
  BY <1>0, <1>5 DEF UnbanWrite, Row
<1>6. ASSUME NEW r \in Request, RoleWrite(r)
      PROVE  /\ row'[a] \in Row
             /\ row'[a].banned = row[a].banned /\ row'[a].named = row[a].named
             /\ job[r].who # a => row'[a].role = row[a].role
  <2>1. job[r].to \in Role
    BY <1>6, JobFacts DEF RoleWrite, At, Sound
  <2> QED BY <2>1, <1>0, <1>6 DEF RoleWrite, Row
<1>7. ASSUME NEW r \in Request, EraseWrite(r)
      PROVE  /\ row'[a] \in Row
             /\ row'[a].role = row[a].role /\ row'[a].banned = row[a].banned
             /\ row'[a].named => row[a].named
  BY <1>0, <1>7 DEF EraseWrite, Row
<1>8. \/ row' = row
      \/ \E r \in Request : \/ LoginUpdate(r) \/ LoginInsert(r) \/ BanWrite(r)
                            \/ RoleWrite(r) \/ EraseWrite(r)
                            \/ \E b \in Exists : UnbanWrite(r, b)
  BY DEF AccountsNext, LoginLookup, Issue, Redeem, OwnerCheck, AdminStart, StaffRead,
         BanRead, EraseRead, RoleRead, BanCount, RoleCount, Revoke, StaffInsert, Abandon,
         Exchange, HandoffExpires, SignOut, PrintLink
<1>9. row' # row => a \in Exists'
  BY <1>0, <1>2, <1>3, <1>4, <1>5, <1>6, <1>7, <1>8, NoneIsNoRow DEF Exists
<1> QED BY <1>1, <1>2, <1>3, <1>4, <1>5, <1>6, <1>7, <1>8, <1>9

\* banUser and the role route: while requests do not overlap, no sequence of
\* bans and demotions leaves the site without an administrator who can act.
THEOREM LastAdminStays == AccountsSpec => LastAdminOnlyByRace
<1> DEFINE Races == \E r \in Request : (BanWrite(r) \/ RoleWrite(r)) /\ job[r].stale
<1>1. AccountsInv /\ [AccountsNext]_accountsVars
      => [Active # {} /\ Active' = {} => Races]_accountsVars
  <2> SUFFICES ASSUME AccountsInv, AccountsNext, Active # {}, Active' = {}
               PROVE  Races
    BY DEF accountsVars
  <2>1. PICK a \in Exists : row[a].role = "admin" /\ ~row[a].banned
    BY DEF Active
  <2>2. row'[a].role # row[a].role \/ (row'[a].banned /\ ~row[a].banned)
    BY <2>1, Effects DEF Active
  <2>3. PICK r \in Request : (BanWrite(r) \/ RoleWrite(r)) /\ job[r].who = a
    BY <2>2, Effects
  <2>4. CASE job[r].stale
    BY <2>3, <2>4
  <2>5. CASE ~job[r].stale
    <3>1. PICK b \in Active : b # a
      BY <2>3, <2>5, JobFacts DEF BanWrite, RoleWrite, At, Sound
    <3>2. b \in Account /\ row'[b] = row[b]
      BY <2>3, <3>1 DEF BanWrite, RoleWrite, Active, Exists, AccountsInv, RowsOK
    <3>3. b \in Active'
      BY <3>1, <3>2 DEF Active, Exists
    <3> QED BY <3>3
  <2> QED BY <2>4, <2>5
<1> QED BY <1>1, AccountsInvariant, PTL DEF AccountsSpec, LastAdminOnlyByRace

\* eraseUserData: an erased row gets a name back only from a sign-in that had
\* looked the person up before.
THEOREM ErasureIsOvertaken == AccountsSpec => ErasedByNameOnly
<1> DEFINE Overtaken ==
      \A a \in Exists : row[a].erased /\ ~row[a].named /\ row'[a].named =>
         \E r \in Request : LoginUpdate(r) /\ job[r].who = a /\ job[r].stale
<1>1. AccountsInv /\ [AccountsNext]_accountsVars => [Overtaken]_accountsVars
  <2> SUFFICES ASSUME AccountsInv, AccountsNext,
                      NEW a \in Exists, row[a].erased, ~row[a].named, row'[a].named
               PROVE  \E r \in Request : LoginUpdate(r) /\ job[r].who = a /\ job[r].stale
    BY DEF accountsVars
  <2>1. PICK r \in Request : LoginUpdate(r) /\ job[r].who = a
    BY Effects
  <2>2. job[r].stale
    BY <2>1, JobFacts DEF LoginUpdate, At, Sound
  <2> QED BY <2>1, <2>2
<1> QED BY <1>1, AccountsInvariant, PTL DEF AccountsSpec, ErasedByNameOnly

\* upsertOauthUser, the hand-off and its exchange: nobody barred is signed in
\* but by what was under way, or handed over, before.
THEOREM BarredStaysOut == AccountsSpec => BarredNotSignedIn
<1> DEFINE Overtaken ==
      \A a \in Exists : Barred(a) /\ a \notin signed /\ a \in signed' =>
         \/ a \in handoff
         \/ \E r \in Request : Issue(r) /\ job[r].who = a /\ job[r].stale
<1>1. AccountsInv /\ [AccountsNext]_accountsVars => [Overtaken]_accountsVars
  <2> SUFFICES ASSUME AccountsInv, AccountsNext,
                      NEW a \in Exists, Barred(a), a \notin signed, a \in signed'
               PROVE  \/ a \in handoff
                      \/ \E r \in Request : Issue(r) /\ job[r].who = a /\ job[r].stale
    BY DEF accountsVars
  <2>1. \/ a \in handoff
        \/ \E r \in Request : Issue(r) /\ job[r].who = a
    BY DEF AccountsNext, LoginLookup, LoginUpdate, LoginInsert, Issue, Redeem, OwnerCheck,
           AdminStart, StaffRead, BanRead, UnbanWrite, EraseRead, RoleRead, RoleCount, BanCount,
           BanWrite, Revoke, RoleWrite, EraseWrite, StaffInsert, Abandon, Exchange,
           HandoffExpires, SignOut, PrintLink
  <2>2. ASSUME NEW r \in Request, Issue(r), job[r].who = a PROVE job[r].stale
    BY <2>2, JobFacts DEF Issue, At, Sound
  <2> QED BY <2>1, <2>2
<1> QED BY <1>1, AccountsInvariant, PTL DEF AccountsSpec, BarredNotSignedIn

\* setUserRole: a mark that outlives the role is one a post under way wrote.
THEOREM StaffMarksFollowRole == AccountsSpec => StaffMarkHonest
<1> DEFINE Honest ==
      \A a \in staff' : row'[a].role = "user" =>
         \/ a \in staff /\ row[a].role = "user"
         \/ \E r \in Request : StaffInsert(r) /\ job[r].who = a /\ job[r].stale
<1>1. AccountsInv /\ [AccountsNext]_accountsVars => [Honest]_accountsVars
  <2> SUFFICES ASSUME AccountsInv, AccountsNext, NEW a \in staff', row'[a].role = "user"
               PROVE  \/ a \in staff /\ row[a].role = "user"
                      \/ \E r \in Request : StaffInsert(r) /\ job[r].who = a /\ job[r].stale
    BY DEF accountsVars
  <2>1. CASE a \in staff
    <3>1. a \in Exists
      BY <2>1 DEF AccountsInv, RowsOK
    <3>2. CASE row[a].role # "user"
      <4>1. PICK r \in Request : RoleWrite(r) /\ job[r].who = a
        BY <3>1, <3>2, Effects
      <4>2. row'[a].role = job[r].to
        BY <3>1, <4>1 DEF RoleWrite, Exists, AccountsInv, RowsOK
      <4> QED BY <4>1, <4>2 DEF RoleWrite
    <3> QED BY <2>1, <3>2
  <2>2. CASE a \notin staff
    <3>1. PICK r \in Request : StaffInsert(r) /\ job[r].who = a
      BY <2>2
         DEF AccountsNext, LoginLookup, LoginUpdate, LoginInsert, Issue, Redeem, OwnerCheck,
             AdminStart, StaffRead, BanRead, UnbanWrite, EraseRead, RoleRead, RoleCount, BanCount,
             BanWrite, Revoke, RoleWrite, EraseWrite, StaffInsert, Abandon, Exchange,
             HandoffExpires, SignOut, PrintLink
    <3>2. job[r].stale
      BY <3>1, JobFacts DEF StaffInsert, At, Sound
    <3> QED BY <3>1, <3>2
  <2> QED BY <2>1, <2>2
<1> QED BY <1>1, AccountsInvariant, PTL DEF AccountsSpec, StaffMarkHonest

-----------------------------------------------------------------------------
(* Imports *)

Total(s) == IF s \in {"page", "newpage"} THEN PageCount
            ELSE IF s = "author" THEN UserCount
            ELSE IF s \in {"comment", "newcomment", "link"} THEN N ELSE 1

\* The loops stay within the export.
Counting == /\ pc \in [Run -> Phase]
            /\ next \in [Run -> Nat]
            /\ \A r \in Run : next[r] \in 1..Total(pc[r])

\* Every row and every user has the columns that a run may write.
Columns == /\ rows \subseteq Id
           /\ parent = [x \in Id |-> parent[x]]
           /\ depth = [x \in Id |-> depth[x]]
           /\ user = [u \in User |-> user[u]]

\* A run holds rows that are stored, and no row is held by two runs.
Held == /\ mine \in [Run -> SUBSET rows]
        /\ \A q, r \in Run : q # r => mine[q] \cap mine[r] = {}

IInv == Counting /\ Columns /\ Held

-----------------------------------------------------------------------------
LEMMA Sizes == N \in Nat /\ 1 <= N /\ PageCount \in Nat /\ 1 <= PageCount
               /\ UserCount \in Nat /\ 1 <= UserCount
BY SizeAssumption

LEMMA InitInv == Init => IInv
<1> SUFFICES ASSUME Init PROVE IInv OBVIOUS
<1> USE DEF Init
<1>1. Counting
  BY Sizes DEF Counting, Phase, Total
<1>2. Columns
  BY DEF Columns
<1>3. Held
  BY DEF Held
<1> QED BY <1>1, <1>2, <1>3 DEF IInv

\* A loop that goes on to its next element, or ends, stays within the export.
LEMMA ForwardCounts ==
    ASSUME Counting, NEW r \in Run, NEW s \in Phase, NEW t \in Phase,
           NEW last \in Nat, last = Total(s), next[r] \in Nat,
           Forward(r, s, last, t)
    PROVE  Counting'
<1>1. 1 \in 1..Total(t)
  BY Sizes DEF Total
<1>2. CASE next[r] < last
  <2>1. /\ pc' = [pc EXCEPT ![r] = s]
        /\ next' = [next EXCEPT ![r] = next[r] + 1]
    BY <1>2 DEF Forward
  <2>2. next[r] + 1 \in 1..Total(s)
    BY <1>2
  <2> QED BY <2>1, <2>2 DEF Counting
<1>3. CASE ~(next[r] < last)
  <2>1. /\ pc' = [pc EXCEPT ![r] = t]
        /\ next' = [next EXCEPT ![r] = 1]
    BY <1>3 DEF Forward
  <2> QED BY <2>1, <1>1 DEF Counting
<1> QED BY <1>2, <1>3

LEMMA GotoCounts ==
    ASSUME Counting, NEW r \in Run, NEW s \in Phase, Goto(r, s),
           next[r] \in 1..Total(s)
    PROVE  Counting'
BY DEF Counting, Goto

LEMMA ForgetInv ==
    ASSUME Counting, Held, NEW r \in Run, Forget(r), UNCHANGED rows
    PROVE  Counting' /\ Held'
<1>1. Counting'
  BY Sizes DEF Counting, Forget, Phase, Total
<1>2. Held'
  BY DEF Held, Forget
<1> QED BY <1>1, <1>2

-----------------------------------------------------------------------------
LEMMA RunStepInv ==
    ASSUME IInv, NEW r \in Run, RunStep(r) PROVE IInv'
<1> USE DEF IInv, site, tree, locals, control
<1>0. /\ next[r] \in Nat /\ 1 <= next[r] /\ next[r] \in 1..Total(pc[r])
      /\ {"idle", "page", "newpage", "author", "ghost", "comment", "newcomment",
          "link", "done"} = Phase
  BY Sizes DEF Counting, Phase, Total
<1>1. ASSUME NEW b \in BOOLEAN, Begin(r, b) PROVE IInv'
  <2>1. 1 \in 1..Total("page") /\ next[r] = 1
    BY <1>0, <1>1, Sizes DEF Begin, Total
  <2>2. Counting'
    BY <2>1, <1>0, <1>1, GotoCounts DEF Begin
  <2> QED BY <2>2, <1>1 DEF Begin, Columns, Held
<1>2. CASE PageSelect(r)
  <2>1. CASE next[r] \notin page
    <3>1. Goto(r, "newpage") /\ next[r] \in 1..Total("newpage")
      BY <1>0, <1>2, <2>1 DEF PageSelect, Total
    <3>2. Counting'
      BY <3>1, <1>0, GotoCounts
    <3> QED BY <3>2, <1>2 DEF PageSelect, Columns, Held
  <2>2. CASE next[r] \in page
    <3>1. Forward(r, "page", PageCount, "author") /\ PageCount = Total("page")
      BY <1>2, <2>2 DEF PageSelect, Total
    <3>2. Counting'
      BY <3>1, <1>0, Sizes, ForwardCounts
    <3> QED BY <3>2, <1>2 DEF PageSelect, Columns, Held
  <2> QED BY <2>1, <2>2
<1>3. CASE PageInsert(r)
  <2>1. Forward(r, "page", PageCount, "author") /\ PageCount = Total("page")
    BY <1>3 DEF PageInsert, Total
  <2>2. Counting'
    BY <2>1, <1>0, Sizes, ForwardCounts
  <2> QED BY <2>2, <1>3 DEF PageInsert, Columns, Held
<1>4. CASE AuthorSelect(r)
  <2>1. Forward(r, "author", UserCount, "ghost") /\ UserCount = Total("author")
    BY <1>4 DEF AuthorSelect, Total
  <2>2. Counting'
    BY <2>1, <1>0, Sizes, ForwardCounts
  <2> QED BY <2>2, <1>4 DEF AuthorSelect, Columns, Held
<1>5. CASE GhostsDone(r)
  <2>1. Goto(r, "comment") /\ next[r] \in 1..Total("comment")
    BY <1>0, <1>5, Sizes DEF GhostsDone, Total
  <2>2. Counting'
    BY <2>1, <1>0, GotoCounts
  <2> QED BY <2>2, <1>5 DEF GhostsDone, Columns, Held
<1>6. CASE RowSelect(r)
  <2>1. pc[r] = "comment" /\ N = Total("comment") /\ N = Total("newcomment")
    BY <1>6 DEF RowSelect, Total
  <2>2. Forward(r, "comment", N, "link") \/ Goto(r, "newcomment")
    BY <1>6 DEF RowSelect
  <2>3. Counting'
    BY <2>1, <2>2, <1>0, Sizes, ForwardCounts, GotoCounts
  <2> QED BY <2>3, <1>6 DEF RowSelect, Columns, Held
<1>7. CASE RowInsert(r)
  <2>1. Forward(r, "comment", N, "link") /\ N = Total("comment") /\ next[r] \in Item
    BY <1>0, <1>7 DEF RowInsert, Total, Item
  <2>2. Counting'
    BY <2>1, <1>0, Sizes, ForwardCounts
  <2>3. Columns'
    BY <2>1, <1>7 DEF RowInsert, Columns, Id
  <2>4. Held'
    <3>1. /\ rows' = rows \union {next[r]} /\ next[r] \notin rows
          /\ mine' = [mine EXCEPT ![r] = mine[r] \union {next[r]}]
      BY <1>7 DEF RowInsert
    <3> QED BY <3>1 DEF Held
  <2> QED BY <2>2, <2>3, <2>4
<1>8. CASE Link(r)
  <2>1. Forward(r, "link", N, "done") /\ N = Total("link")
    BY <1>8 DEF Link, Total
  <2>2. Counting'
    BY <2>1, <1>0, Sizes, ForwardCounts
  <2>3. UNCHANGED <<rows, mine, user>>
    BY <1>8 DEF Link
  <2>4. \/ UNCHANGED <<parent, depth>>
        \/ \E i, p, d : /\ parent' = [parent EXCEPT ![i] = p]
                        /\ depth' = [depth EXCEPT ![i] = d]
    BY <1>8 DEF Link
  <2> QED BY <2>2, <2>3, <2>4 DEF Columns, Held
<1>9. CASE Finish(r) \/ Cut(r)
  BY <1>9, ForgetInv DEF Finish, Cut, Columns
<1>10. ASSUME NEW u \in User, GhostInsert(r, u) PROVE IInv'
  BY <1>10 DEF GhostInsert, Counting, Columns, Held
<1> QED BY <1>1, <1>2, <1>3, <1>4, <1>5, <1>6, <1>7, <1>8, <1>9, <1>10 DEF RunStep

LEMMA NextInv == IInv /\ [Next]_vars => IInv'
<1> SUFFICES ASSUME IInv, [Next]_vars PROVE IInv' OBVIOUS
<1> USE DEF IInv, site, tree, locals, control
<1>1. ASSUME NEW r \in Run, RunStep(r) PROVE IInv'
  BY <1>1, RunStepInv
<1>2. ASSUME NEW x \in Reply, ReplyInsert(x) PROVE IInv'
  <2>1. Columns'
    BY <1>2 DEF ReplyInsert, Columns, Id
  <2>2. Counting' /\ Held'
    BY <1>2 DEF ReplyInsert, Counting, Held
  <2> QED BY <2>1, <2>2
<1>3. ASSUME NEW x \in Reply, NEW c \in Id, ReplyRead(x, c) PROVE IInv'
  BY <1>3 DEF ReplyRead, Counting, Columns, Held
<1>4. ASSUME NEW u \in User, NEW s \in {"clear", "banned"}, SetBanned(u, s) PROVE IInv'
  BY <1>4 DEF SetBanned, Counting, Columns, Held
<1>5. CASE UNCHANGED vars
  BY <1>5 DEF vars, Counting, Columns, Held
<1> QED BY <1>1, <1>2, <1>3, <1>4, <1>5 DEF Next

\* The invariant of the argument holds of every run of the system.
THEOREM ImportsInvariant == Spec => []IInv
BY InitInv, NextInv, PTL DEF Spec

\* Two imports that overlap never both take a comment for theirs, so no comment
\* is linked by one of them against what the other knows.
THEOREM RunsApart ==
    Spec => [](\A q, r \in Run : q # r => mine[q] \cap mine[r] = {})
<1>1. IInv => \A q, r \in Run : q # r => mine[q] \cap mine[r] = {}
  BY DEF IInv, Held
<1> QED BY <1>1, ImportsInvariant, PTL

-----------------------------------------------------------------------------
\* "An import is not an operator": whatever a run read before, none of its steps
\* rewrites a comment it did not insert or the ban of a user who exists.
THEOREM LeavesOthersAlone == Spec => OthersLeftAlone
<1> DEFINE Leaves == \A r \in Run : RunStep(r) =>
          /\ \A x \in rows \ mine[r] : parent'[x] = parent[x] /\ depth'[x] = depth[x]
          /\ \A u \in User : user[u] # "absent" => user'[u] = user[u]
<1>1. IInv /\ [Next]_vars => [Leaves]_vars
  <2> SUFFICES ASSUME IInv, NEW r \in Run, RunStep(r)
               PROVE  /\ \A x \in rows \ mine[r] :
                            parent'[x] = parent[x] /\ depth'[x] = depth[x]
                      /\ \A u \in User : user[u] # "absent" => user'[u] = user[u]
    OBVIOUS
  <2>1. CASE Link(r)
    <3>1. UNCHANGED user
      BY <2>1 DEF Link, site
    <3>2. CASE UNCHANGED <<parent, depth>>
      BY <3>1, <3>2
    <3>3. CASE ~UNCHANGED <<parent, depth>>
      <4>1. PICK i \in mine[r] : \E p, d : /\ parent' = [parent EXCEPT ![i] = p]
                                           /\ depth' = [depth EXCEPT ![i] = d]
        BY <2>1, <3>3 DEF Link, Links, tree
      <4>2. \A x \in rows \ mine[r] : x \in Id /\ x # i
        BY <4>1 DEF IInv, Columns
      <4> QED BY <3>1, <4>1, <4>2 DEF IInv, Columns
    <3> QED BY <3>2, <3>3
  <2>2. ASSUME NEW u \in User, GhostInsert(r, u)
        PROVE  UNCHANGED tree /\ \A v \in User : user[v] # "absent" => user'[v] = user[v]
    BY <2>2 DEF GhostInsert, IInv, Columns
  <2>3. CASE \/ Begin(r, TRUE) \/ Begin(r, FALSE) \/ PageSelect(r) \/ PageInsert(r)
             \/ AuthorSelect(r) \/ GhostsDone(r) \/ RowSelect(r) \/ RowInsert(r)
             \/ Finish(r) \/ Cut(r)
    BY <2>3 DEF Begin, PageSelect, PageInsert, AuthorSelect, GhostsDone, RowSelect,
                RowInsert, Finish, Cut, site, tree
  <2> QED BY <2>1, <2>2, <2>3 DEF RunStep, tree
<1> QED BY <1>1, ImportsInvariant, PTL DEF Spec, OthersLeftAlone

-----------------------------------------------------------------------------
(* Sessions *)

\* The sessions count with their own instance of FiniteSets.
LEMMA SameCardinality ==
    /\ \A X : S!Cardinality(X) = Cardinality(X)
BY DEF S!Cardinality, Cardinality

Place   == {"idle", "get", "reap", "rev", "slide", "served", "stamp", "drop", "mint",
            "respond"}
Visit   == [op : {"none", "read", "others", "signout", "login", "revoke"}, pc : Place,
            br : Browser \union {None}, sid : Sid \union {None},
            user : Holder \union {None}, now : Nat, rec : S!Rec \union {None},
            out : Sid \union {None, "keep"}, known : Nat, n : Nat, over : BOOLEAN]

\* The stamps are numbered in the order they landed in.
StampsOK ==
    /\ IsFiniteSet(stamps) /\ clock \in Nat
    /\ \A h \in stamps : /\ h \in S!Stamp /\ h.n \in 1..Cardinality(stamps)
                         /\ h.epoch <= h.landed /\ h.landed <= clock
    /\ \A g, h \in stamps : /\ g.n = h.n => g = h
                            /\ g.n <= h.n => g.landed <= h.landed

\* The last stamp of a user is in KV, and the one before it may still be read.
LastStamps ==
    /\ rev \in [Holder -> stamps \union {None}]
    /\ old \in [Holder -> stamps \union {None}]
    /\ \A u \in Holder : /\ rev[u] # None => rev[u].user = u
                         /\ old[u] # None => old[u].user = u
    /\ \A h \in stamps :
          /\ rev[h.user] # None /\ h.n <= rev[h.user].n
          /\ h.n < rev[h.user].n => old[h.user] # None /\ h.n <= old[h.user].n

StoreOK ==
    /\ kv \in [Sid -> S!Rec \union {None}]
    /\ cookie \in [Browser -> Sid \union {None}]

\* A later stamp h's own revocation was overwritten by, and which spares rec.
Spared(h, rec) ==
    \E g \in stamps : g.user = h.user /\ g.n > h.n /\ g.epoch < rec.issued

\* What a request knows of the stamps: those that were everywhere when it began.
Knows(q) ==
    /\ q.known <= Cardinality(stamps)
    /\ \A h \in stamps : h.n <= q.known => h.landed + Lag <= clock
    /\ q.pc \in {"slide", "served"} =>
          \A h \in stamps : h.n <= q.known /\ h.user = q.rec.user
                            /\ q.rec.issued <= h.epoch /\ clock <= h.landed + TTL
                            => Spared(h, q.rec)

VisitOK(q) ==
    /\ q \in Visit
    /\ q.pc \in {"get", "rev", "slide"} => q.sid \in Sid
    /\ q.pc \in {"rev", "slide", "served"} => q.rec \in S!Rec
    /\ q.pc \in {"stamp", "mint"} => q.user \in Holder
    /\ q.pc = "drop" /\ q.op # "signout" => q.user \in Holder
    /\ q.pc = "respond" => q.out # "keep"
    /\ q.pc = "stamp" => q.now <= clock

VisitsOK == req \in [Request -> Visit] /\ \A r \in Request : VisitOK(req[r])
KnowsAll == \A r \in Request : Knows(req[r])

StampInv == StampsOK /\ LastStamps /\ StoreOK /\ VisitsOK /\ KnowsAll

-----------------------------------------------------------------------------

LEMMA IdleVisit ==
    /\ VisitOK(S!Idle) /\ S!Idle.known = 0 /\ S!Idle.pc = "idle"
BY DEF VisitOK, Visit, Place, S!Idle

LEMMA AnsweredOK ==
    ASSUME NEW q \in Visit, NEW out \in Sid \union {None, "keep"}
    PROVE  /\ VisitOK(S!Answered(q, out))
           /\ S!Answered(q, out).pc \in {"idle", "respond"}
           /\ S!Answered(q, out).known = 0
<1>1. CASE out = "keep"
  BY <1>1, IdleVisit DEF S!Answered
<1>2. CASE out # "keep"
  <2>1. S!Answered(q, out) = [S!Idle EXCEPT !.op = q.op, !.br = q.br, !.sid = q.sid,
                                !.pc = "respond", !.out = out]
    BY <1>2 DEF S!Answered
  <2>2. S!Answered(q, out) =
          [op |-> q.op, pc |-> "respond", br |-> q.br, sid |-> q.sid, user |-> None,
           now |-> 0, rec |-> None, out |-> out, known |-> 0, n |-> 0, over |-> FALSE]
    BY <2>1 DEF S!Idle
  <2>3. S!Answered(q, out) \in Visit
    BY <2>2 DEF Visit, Place
  <2> QED BY <1>2, <2>2, <2>3 DEF VisitOK
<1> QED BY <1>1, <1>2

LEMMA FromOK ==
    ASSUME StoreOK, NEW b \in Browser, NEW pc_ \in {"get", "drop"},
           NEW op \in {"read", "others", "signout", "login"}
    PROVE  LET q == S!From(op, b, pc_) IN
           q \in Visit /\ q.op = op /\ q.pc = pc_ /\ q.sid = cookie[b] /\ q.known = 0
<1>1. S!From(op, b, pc_) =
        [op |-> op, pc |-> pc_, br |-> b, sid |-> cookie[b], user |-> None,
         now |-> 0, rec |-> None, out |-> "keep", known |-> 0, n |-> 0, over |-> FALSE]
  <2>1. S!From(op, b, pc_) = [S!Idle EXCEPT !.op = op, !.br = b, !.sid = cookie[b], !.pc = pc_]
    BY DEF S!From
  <2> QED BY <2>1 DEF S!Idle
<1>2. cookie[b] \in Sid \union {None}
  BY DEF StoreOK
<1> QED BY <1>1, <1>2 DEF Visit, Place

\* A request that is neither about to slide nor served knows no more than it
\* did.
LEMMA KnowsPlain ==
    ASSUME StampsOK, NEW p, Knows(p), NEW q,
           q.known = 0 \/ q.known = p.known,
           q.pc \in {"slide", "served"} => p.pc \in {"slide", "served"} /\ p.rec = q.rec
                                           /\ q.known = p.known
    PROVE  Knows(q)
<1>1. Cardinality(stamps) \in Nat /\ \A h \in stamps : h.n \in 1..Cardinality(stamps)
  BY FS_CardinalityType DEF StampsOK
<1> QED BY <1>1 DEF Knows

\* One request moves, no stamp lands and the clock stands still.
LEMMA OneVisit ==
    ASSUME StampInv, UNCHANGED <<clock, rev, old, stamps>>, StoreOK',
           NEW r \in Request, NEW q, req' = [req EXCEPT ![r] = q], VisitOK(q), Knows(q)
    PROVE  StampInv'
<1>1. StampsOK' /\ LastStamps'
  BY DEF StampInv, StampsOK, LastStamps
<1>2. \A p \in Visit : (VisitOK(p) <=> VisitOK(p)') /\ (Knows(p) <=> Knows(p)')
  BY DEF VisitOK, Knows, Spared
<1>3. q \in Visit /\ req \in [Request -> Visit]
  BY DEF StampInv, VisitsOK, VisitOK
<1>4. \A p \in Request : req'[p] \in Visit /\ VisitOK(req'[p]) /\ Knows(req'[p])
  <2> SUFFICES ASSUME NEW p \in Request
               PROVE  req'[p] \in Visit /\ VisitOK(req'[p]) /\ Knows(req'[p])
    OBVIOUS
  <2>1. CASE p = r
    <3>1. req'[p] = q
      BY <2>1, <1>3
    <3> QED BY <3>1, <1>3
  <2>2. CASE p # r
    <3>1. req'[p] = req[p]
      BY <2>2, <1>3
    <3> QED BY <3>1, <1>3 DEF StampInv, VisitsOK, KnowsAll
  <2> QED BY <2>1, <2>2
<1>5. req' \in [Request -> Visit]
  BY <1>3
<1>6. VisitsOK'
  BY <1>2, <1>4, <1>5 DEF VisitsOK
<1>7. KnowsAll'
  BY <1>2, <1>4 DEF KnowsAll
<1> QED BY <1>1, <1>6, <1>7 DEF StampInv

\* What is known everywhere are the first stamps.
LEMMA PropagatedFirst ==
    ASSUME StampsOK
    PROVE  /\ S!Propagated \in Nat /\ S!Propagated <= Cardinality(stamps)
           /\ \A h \in stamps : h.n <= S!Propagated => h.landed + Lag <= clock
<1> DEFINE P == {h \in stamps : h.landed + Lag <= clock}
<1>1. IsFiniteSet(P) /\ Cardinality(P) <= Cardinality(stamps) /\ Cardinality(P) \in Nat
  BY FS_Subset, FS_CardinalityType DEF StampsOK
<1>2. S!Propagated = Cardinality(P)
  BY SameCardinality DEF S!Propagated
<1>3. ASSUME NEW h \in stamps, h.n <= Cardinality(P), h \notin P
      PROVE  FALSE
  <2> DEFINE f == [g \in P |-> g.n]
  <2>1. h.n \in Nat \ {0} /\ h.landed \in Nat /\ clock \in Nat /\ Lag \in Nat
    BY SessionAssumption, FS_CardinalityType DEF StampsOK, S!Stamp
  <2>2. \A g \in P : g.n \in 1..(h.n - 1)
    <3> SUFFICES ASSUME NEW g \in P, ~(g.n \in 1..(h.n - 1))
                 PROVE  FALSE
      OBVIOUS
    <3>1. g \in stamps /\ g.n \in Nat \ {0} /\ g.landed \in Nat
      BY FS_CardinalityType DEF StampsOK, S!Stamp
    <3>2. h.n <= g.n
      BY <3>1, <2>1
    <3>3. h.landed <= g.landed
      BY <3>1, <3>2 DEF StampsOK
    <3> QED BY <1>3, <2>1, <3>1, <3>3
  <2>3. IsFiniteSet(1..(h.n - 1)) /\ Cardinality(1..(h.n - 1)) = h.n - 1
    <3>1. 1 \in Int /\ h.n - 1 \in Int /\ (1 > h.n - 1 => h.n - 1 = 0)
      BY <2>1
    <3>2. /\ IsFiniteSet(1..(h.n - 1))
          /\ Cardinality(1..(h.n - 1)) = IF 1 > h.n - 1 THEN 0 ELSE (h.n - 1) - 1 + 1
      BY <3>1, FS_Interval
    <3> QED BY <2>1, <3>1, <3>2
  <2>4. f \in [P -> 1..(h.n - 1)]
    BY <2>2
  <2>5. \A g, k \in P : f[g] = f[k] => g = k
    BY DEF StampsOK
  <2>6. Cardinality(P) > Cardinality(1..(h.n - 1))
    BY <1>1, <1>3, <2>1, <2>3
  <2>7. \E g, k \in P : g # k /\ f[g] = f[k]
    <3> DEFINE T == 1..(h.n - 1)
    <3>1. IsFiniteSet(T) /\ Cardinality(T) < Cardinality(P) /\ f \in [P -> T]
      BY <1>1, <2>1, <2>3, <2>4, <2>6
    <3> HIDE DEF P, T, f
    <3> QED BY <1>1, <3>1, FS_PigeonHole
  <2> QED BY <2>5, <2>7
<1> QED BY <1>1, <1>2, <1>3

LEMMA StampsBegin == S!Init => StampInv
<1> SUFFICES ASSUME S!Init PROVE StampInv
  OBVIOUS
<1>1. StampsOK /\ LastStamps /\ StoreOK
  BY FS_EmptySet DEF S!Init, StampsOK, LastStamps, StoreOK
<1>2. \A r \in Request : req[r] = S!Idle
  BY DEF S!Init
<1>3. VisitsOK
  BY <1>2, IdleVisit DEF S!Init, VisitsOK, VisitOK
<1>4. KnowsAll
  BY <1>2, IdleVisit, FS_EmptySet DEF S!Init, KnowsAll, Knows
<1> QED BY <1>1, <1>3, <1>4 DEF StampInv

\* A request that begins.
LEMMA StartsStamps ==
    ASSUME StampInv, NEW r \in Request,
           \/ \E b \in Browser : S!StartRead(r, b) \/ S!StartSignout(r, b)
           \/ \E u \in Holder :
                \/ S!StartRevoke(r, u)
                \/ \E b \in Browser : S!StartLogin(r, b, u) \/ S!StartOwnerLogin(r, b, u)
    PROVE  StampInv'
<1>1. StampsOK /\ StoreOK /\ VisitsOK /\ clock \in Nat
  BY DEF StampInv, StampsOK
<1>2. ASSUME NEW q, S!Arrive(r, q), VisitOK(q), Knows(q)
      PROVE  StampInv'
  <2>1. UNCHANGED <<clock, rev, old, stamps>> /\ req' = [req EXCEPT ![r] = q] /\ StoreOK'
    BY <1>1, <1>2 DEF S!Arrive, S!store, S!history, StoreOK
  <2> QED BY <1>2, <2>1, OneVisit
<1>3. ASSUME NEW q, q.known = 0, q.pc \notin {"slide", "served"}
      PROVE  Knows(q)
  BY <1>1, <1>3, FS_CardinalityType DEF Knows, StampsOK
<1>4. ASSUME NEW b \in Browser, S!StartRead(r, b)
      PROVE  StampInv'
  <2>1. PICK op \in {"read", "others"} :
          S!Arrive(r, [S!From(op, b, "get") EXCEPT !.known = S!Propagated,
                                                   !.over = cookie[b] \in gone])
    BY <1>4 DEF S!StartRead
  <2> DEFINE p == S!From(op, b, "get")
             q == [p EXCEPT !.known = S!Propagated, !.over = cookie[b] \in gone]
  <2>2. p \in Visit /\ p.op = op /\ p.pc = "get" /\ p.sid = cookie[b] /\ p.known = 0
    BY <1>1, FromOK
  <2>3. cookie[b] \in Sid /\ S!Propagated \in Nat
    BY <1>1, <1>4, PropagatedFirst DEF S!StartRead, StoreOK
  <2> HIDE DEF p
  <2>4. q \in Visit /\ q.pc = "get" /\ q.sid = cookie[b] /\ q.known = S!Propagated
    <3>1. [p EXCEPT !.known = S!Propagated] \in Visit
      BY <2>2, <2>3 DEF Visit
    <3> DEFINE x == cookie[b] \in gone
    <3>2. x \in BOOLEAN
      OBVIOUS
    <3> HIDE DEF x
    <3>3. [p EXCEPT !.known = S!Propagated, !.over = x] \in Visit
      BY <3>1, <3>2 DEF Visit
    <3>4. q = [p EXCEPT !.known = S!Propagated, !.over = x]
      BY DEF x
    <3> QED BY <2>2, <3>1, <3>3, <3>4 DEF Visit
  <2>5. VisitOK(q)
    BY <2>3, <2>4 DEF VisitOK
  <2>6. Knows(q)
    BY <1>1, <2>4, PropagatedFirst DEF Knows
  <2>7. S!Arrive(r, q)
    BY <2>1 DEF p
  <2> HIDE DEF q
  <2> QED BY <1>2, <2>5, <2>6, <2>7
<1>5. ASSUME NEW b \in Browser, S!StartSignout(r, b)
      PROVE  StampInv'
  <2> DEFINE q == S!From("signout", b, "drop")
  <2>1. q \in Visit /\ q.op = "signout" /\ q.pc = "drop" /\ q.known = 0
    BY <1>1, FromOK
  <2>2. S!Arrive(r, q)
    BY <1>5 DEF S!StartSignout
  <2> HIDE DEF q
  <2>3. VisitOK(q) /\ Knows(q)
    BY <1>3, <2>1 DEF VisitOK
  <2> QED BY <1>2, <2>2, <2>3
<1>6. ASSUME NEW b \in Browser, NEW u \in Holder, S!StartLogin(r, b, u)
      PROVE  StampInv'
  <2> DEFINE p == S!From("login", b, "drop")
             q == [p EXCEPT !.user = u]
  <2>1. p \in Visit /\ p.op = "login" /\ p.pc = "drop" /\ p.known = 0
    BY <1>1, FromOK
  <2>2. S!Arrive(r, q)
    BY <1>6 DEF S!StartLogin
  <2> HIDE DEF p
  <2>3. q \in Visit /\ q.op = "login" /\ q.pc = "drop" /\ q.known = 0 /\ q.user = u
    BY <2>1 DEF Visit
  <2> HIDE DEF q
  <2>4. VisitOK(q) /\ Knows(q)
    BY <1>3, <2>3 DEF VisitOK
  <2> QED BY <1>2, <2>2, <2>4
<1>7. ASSUME NEW u \in Holder, S!StartRevoke(r, u)
      PROVE  StampInv'
  <2> DEFINE q == [S!Idle EXCEPT !.op = "revoke", !.user = u, !.now = clock, !.pc = "stamp"]
  <2>1. S!Arrive(r, q)
    BY <1>7 DEF S!StartRevoke
  <2>2. q \in Visit /\ q.pc = "stamp" /\ q.known = 0 /\ q.user = u /\ q.now = clock
    BY <1>1, IdleVisit DEF Visit, Place, S!Idle
  <2> HIDE DEF q
  <2>3. VisitOK(q) /\ Knows(q)
    BY <1>1, <1>3, <2>2 DEF VisitOK
  <2> QED BY <1>2, <2>1, <2>3
<1>8. ASSUME NEW b \in Browser, NEW u \in Holder, S!StartOwnerLogin(r, b, u)
      PROVE  StampInv'
  <2> DEFINE q == [S!Idle EXCEPT !.op = "login", !.br = b, !.user = u, !.now = clock,
                                 !.pc = "mint"]
  <2>1. S!Arrive(r, q)
    BY <1>8 DEF S!StartOwnerLogin
  <2>2. q \in Visit /\ q.pc = "mint" /\ q.known = 0 /\ q.user = u
    BY <1>1, IdleVisit DEF Visit, Place, S!Idle
  <2> HIDE DEF q
  <2>3. VisitOK(q) /\ Knows(q)
    BY <1>3, <2>2 DEF VisitOK
  <2> QED BY <1>2, <2>1, <2>3
<1> QED BY <1>4, <1>5, <1>6, <1>7, <1>8

LEMMA GetKeeps ==
    ASSUME StampInv, NEW r \in Request, S!GetSession(r)
    PROVE  StampInv'
<1> DEFINE p == req[r]
           rec == kv[p.sid]
           q == CASE rec = None -> S!Answered(p, "keep")
                  [] rec # None /\ rec.expires < clock -> [p EXCEPT !.pc = "reap"]
                  [] OTHER -> [p EXCEPT !.pc = "rev", !.now = clock, !.rec = rec]
<1>1. StampsOK /\ StoreOK /\ VisitsOK /\ clock \in Nat /\ Knows(p) /\ p \in Visit /\ VisitOK(p)
  BY DEF StampInv, StampsOK, VisitsOK, KnowsAll
<1>2. p.pc = "get" /\ p.sid \in Sid /\ rec \in S!Rec \union {None}
  BY <1>1 DEF S!GetSession, S!At, VisitOK, StoreOK
<1>3. req \in [Request -> Visit] /\ req' = [req EXCEPT ![r] = q]
  BY <1>1 DEF S!GetSession, VisitsOK
<1>4. UNCHANGED <<clock, rev, old, stamps>> /\ StoreOK'
  BY <1>1 DEF S!GetSession, S!store, S!history, StoreOK
<1>5. VisitOK(q) /\ Knows(q)
  <2>1. CASE rec = None
    <3>1. q = S!Answered(p, "keep")
      BY <2>1
    <3>2. VisitOK(S!Answered(p, "keep")) /\ S!Answered(p, "keep").pc \in {"idle", "respond"}
          /\ S!Answered(p, "keep").known = 0
      BY <1>1, AnsweredOK
    <3> HIDE DEF q, p
    <3> QED BY <1>1, <3>1, <3>2, KnowsPlain
  <2>2. CASE rec # None /\ rec.expires < clock
    <3>1. q = [p EXCEPT !.pc = "reap"]
      BY <2>2
    <3> HIDE DEF q, p
    <3>2. q \in Visit /\ q.pc = "reap" /\ q.known = p.known
      BY <1>1, <3>1 DEF Visit, Place
    <3> QED BY <1>1, <3>2, KnowsPlain DEF VisitOK
  <2>3. CASE rec # None /\ ~(rec.expires < clock)
    <3>1. q = [p EXCEPT !.pc = "rev", !.now = clock, !.rec = rec] /\ rec \in S!Rec
      BY <1>2, <2>3
    <3> HIDE DEF q, p, rec
    <3>2. q \in Visit /\ q.pc = "rev" /\ q.known = p.known /\ q.rec = rec /\ q.sid = p.sid
      BY <1>1, <3>1 DEF Visit, Place
    <3>3. VisitOK(q)
      BY <1>2, <3>1, <3>2 DEF VisitOK
    <3> QED BY <1>1, <3>2, <3>3, KnowsPlain
  <2> QED BY <2>1, <2>2, <2>3
<1> HIDE DEF q
<1> QED BY <1>3, <1>4, <1>5, OneVisit

\* Whatever stamp a location reads, it is no older than those it is known to
\* have: the one before last is readable only for Lag after the last.
LEMMA ReadsKnown ==
    ASSUME StampsOK, LastStamps, NEW u \in Holder, NEW g \in S!Readable(u),
           NEW h \in stamps, h.user = u, h.landed + Lag <= clock
    PROVE  g \in stamps /\ g.user = u /\ h.n <= g.n /\ h.landed <= g.landed
<1>1. /\ h.n \in Nat /\ h.landed \in Nat /\ clock \in Nat /\ Lag \in Nat
      /\ rev[u] \in stamps /\ rev[u].user = u /\ h.n <= rev[u].n
      /\ rev[u].n \in Nat /\ rev[u].landed \in Nat
  BY SessionAssumption DEF StampsOK, LastStamps, S!Stamp
<1>2. CASE g = rev[u]
  BY <1>1, <1>2 DEF StampsOK
<1>3. CASE g = old[u] /\ clock < rev[u].landed + Lag
  <2>1. h # rev[u]
    BY <1>1, <1>3
  <2>2. h.n < rev[u].n
    BY <1>1, <2>1 DEF StampsOK
  <2>3. old[u] \in stamps /\ old[u].user = u /\ h.n <= old[u].n
    BY <2>2 DEF LastStamps
  <2> QED BY <1>3, <2>3 DEF StampsOK
<1>4. g \in {rev[u]} \/ (g \in {old[u]} /\ clock < rev[u].landed + Lag)
  BY DEF S!Readable
<1> QED BY <1>2, <1>3, <1>4

LEMMA RevocationKeeps ==
    ASSUME StampInv, NEW r \in Request, S!GetRevocation(r)
    PROVE  StampInv'
<1> DEFINE p == req[r]
           u == p.rec.user
<1>1. StampsOK /\ LastStamps /\ StoreOK /\ VisitsOK /\ clock \in Nat /\ Knows(p) /\ p \in Visit
      /\ VisitOK(p)
  BY DEF StampInv, StampsOK, VisitsOK, KnowsAll
<1>2. p.pc = "rev" /\ p.sid \in Sid /\ p.rec \in S!Rec /\ u \in Holder
  BY <1>1 DEF S!GetRevocation, S!At, VisitOK, S!Rec
<1>3. UNCHANGED <<clock, rev, old, stamps>> /\ StoreOK'
  BY <1>1 DEF S!GetRevocation, S!store, S!history, StoreOK
<1>4. PICK g \in S!Readable(u), pc_ \in {"reap", "slide", "served"} :
          /\ req' = [req EXCEPT ![r].pc = pc_]
          /\ S!Revoked(p.rec, g) => pc_ = "reap"
  <2>1. PICK g \in S!Readable(u) :
          S!Goto(r, CASE S!Revoked(p.rec, g) -> "reap"
                      [] ~S!Revoked(p.rec, g) /\ S!Due(p.rec, p.now) -> "slide"
                      [] OTHER -> "served")
    BY DEF S!GetRevocation
  <2> DEFINE pc_ == CASE S!Revoked(p.rec, g) -> "reap"
                      [] ~S!Revoked(p.rec, g) /\ S!Due(p.rec, p.now) -> "slide"
                      [] OTHER -> "served"
  <2>2. pc_ \in {"reap", "slide", "served"} /\ (S!Revoked(p.rec, g) => pc_ = "reap")
    OBVIOUS
  <2>3. S!Goto(r, pc_)
    BY <2>1
  <2> HIDE DEF pc_
  <2> QED BY <2>2, <2>3 DEF S!Goto
<1> DEFINE q == [p EXCEPT !.pc = pc_]
<1>5. req' = [req EXCEPT ![r] = q]
  BY <1>1, <1>4 DEF VisitsOK
<1>6. q \in Visit /\ q.pc = pc_ /\ q.known = p.known /\ q.rec = p.rec /\ q.sid = p.sid
      /\ q.known \in Nat
  BY <1>1 DEF Visit, Place
<1> HIDE DEF p, u, q
<1>7. VisitOK(q)
  BY <1>2, <1>6 DEF VisitOK
<1>8. Knows(q)
  <2>1. CASE pc_ = "reap"
    BY <1>1, <1>6, <2>1, KnowsPlain
  <2>2. CASE ~S!Revoked(p.rec, g)
    <3> SUFFICES ASSUME NEW h \in stamps, h.n <= q.known, h.user = q.rec.user,
                        q.rec.issued <= h.epoch, clock <= h.landed + TTL
                 PROVE  Spared(h, q.rec)
      BY <1>1, <1>6 DEF Knows
    <3>1. h.user = u /\ h.landed + Lag <= clock
      BY <1>1, <1>6 DEF Knows, u
    <3>2. g \in stamps /\ g.user = u /\ h.n <= g.n /\ h.landed <= g.landed
      BY <1>1, <1>2, <3>1, ReadsKnown
    <3>3. /\ g.epoch \in Nat /\ h.epoch \in Nat /\ g.landed \in Nat /\ h.landed \in Nat
          /\ g.n \in Nat /\ h.n \in Nat /\ q.rec.issued \in Nat /\ TTL \in Nat /\ clock \in Nat
      BY <1>1, <1>2, <1>6, <3>2, SessionAssumption DEF StampsOK, S!Stamp, S!Rec
    <3>4. S!Live(g)
      <4>1. g # None
        BY <1>1, <3>2, SessionAssumption DEF StampsOK, S!Stamp
      <4>2. clock <= g.landed + TTL
        BY <3>2, <3>3
      <4> QED BY <4>1, <4>2 DEF S!Live
    <3>5. g.epoch < q.rec.issued
      BY <1>6, <2>2, <3>3, <3>4 DEF S!Revoked
    <3>6. g.n > h.n
      BY <1>1, <3>2, <3>3, <3>5 DEF StampsOK
    <3> QED BY <3>1, <3>2, <3>5, <3>6 DEF Spared
  <2> QED BY <1>4, <2>1, <2>2
<1> QED BY <1>3, <1>5, <1>7, <1>8, OneVisit

LEMMA ReapKeeps ==
    ASSUME StampInv, NEW r \in Request, S!Reap(r)
    PROVE  StampInv'
<1> DEFINE p == req[r]
           q == S!Answered(p, "keep")
<1>1. StampsOK /\ StoreOK /\ VisitsOK /\ Knows(p) /\ p \in Visit
  BY DEF StampInv, VisitsOK, KnowsAll
<1>2. UNCHANGED <<clock, rev, old, stamps>> /\ req' = [req EXCEPT ![r] = q]
  BY <1>1 DEF S!Reap, S!history, VisitsOK
<1>3. StoreOK'
  BY <1>1 DEF S!Reap, StoreOK
<1>4. VisitOK(q) /\ q.pc \in {"idle", "respond"} /\ q.known = 0
  BY <1>1, AnsweredOK
<1> HIDE DEF p, q
<1>5. Knows(q)
  BY <1>1, <1>4, KnowsPlain
<1> QED BY <1>2, <1>3, <1>4, <1>5, OneVisit

LEMMA SlideKeeps ==
    ASSUME StampInv, NEW r \in Request, S!Slide(r)
    PROVE  StampInv'
<1> DEFINE p == req[r]
           q == [p EXCEPT !.pc = "served", !.out = p.sid]
<1>1. StampsOK /\ StoreOK /\ VisitsOK /\ Knows(p) /\ p \in Visit /\ VisitOK(p)
  BY DEF StampInv, VisitsOK, KnowsAll
<1>2. p.pc = "slide" /\ p.sid \in Sid /\ p.rec \in S!Rec
  BY <1>1 DEF S!Slide, S!At, VisitOK
<1>3. UNCHANGED <<clock, rev, old, stamps>> /\ req' = [req EXCEPT ![r] = q]
  BY <1>1 DEF S!Slide, VisitsOK
<1>4. S!Renewed(p.rec, p.now) \in S!Rec
  BY <1>1, <1>2, SessionAssumption DEF S!Renewed, S!Rec, Visit
<1>5. StoreOK'
  BY <1>1, <1>2, <1>4 DEF S!Slide, StoreOK
<1>6. q \in Visit /\ q.pc = "served" /\ q.known = p.known /\ q.rec = p.rec
  BY <1>1, <1>2 DEF Visit, Place
<1> HIDE DEF p, q
<1>7. VisitOK(q) /\ Knows(q)
  BY <1>1, <1>2, <1>6, KnowsPlain DEF VisitOK
<1> QED BY <1>3, <1>5, <1>7, OneVisit

LEMMA ServeKeeps ==
    ASSUME StampInv, NEW r \in Request, S!Serve(r)
    PROVE  StampInv'
<1> DEFINE p == req[r]
           e == S!From("others", p.br, "stamp")
           q == IF p.op = "read" THEN S!Answered(p, p.out)
                ELSE [e EXCEPT !.sid = p.sid, !.user = p.rec.user, !.now = clock]
<1>1. StampsOK /\ StoreOK /\ VisitsOK /\ Knows(p) /\ p \in Visit /\ VisitOK(p) /\ clock \in Nat
  BY DEF StampInv, StampsOK, VisitsOK, KnowsAll
<1>2. p.pc = "served" /\ p.rec \in S!Rec /\ p.rec.user \in Holder
  BY <1>1 DEF S!Serve, S!At, VisitOK, S!Rec
<1>3. UNCHANGED <<clock, rev, old, stamps>> /\ StoreOK'
  BY <1>1 DEF S!Serve, S!store, S!history, StoreOK
<1>4. req' = [req EXCEPT ![r] = q]
  BY <1>1 DEF S!Serve, VisitsOK
<1>5. VisitOK(q) /\ Knows(q)
  <2>1. CASE p.op = "read"
    <3>1. q = S!Answered(p, p.out) /\ p.out \in Sid \union {None, "keep"}
      BY <1>1, <2>1 DEF Visit
    <3>2. VisitOK(S!Answered(p, p.out)) /\ S!Answered(p, p.out).pc \in {"idle", "respond"}
          /\ S!Answered(p, p.out).known = 0
      BY <1>1, <3>1, AnsweredOK
    <3> HIDE DEF p, q
    <3> QED BY <1>1, <3>1, <3>2, KnowsPlain
  <2>2. CASE p.op # "read"
    <3>1. e = [op |-> "others", pc |-> "stamp", br |-> p.br, sid |-> cookie[p.br],
               user |-> None, now |-> 0, rec |-> None, out |-> "keep", known |-> 0, n |-> 0,
               over |-> FALSE]
      <4>1. e = [S!Idle EXCEPT !.op = "others", !.br = p.br, !.sid = cookie[p.br], !.pc = "stamp"]
        BY DEF S!From
      <4> HIDE DEF e, p
      <4> QED BY <4>1 DEF S!Idle
    <3>2. q = [e EXCEPT !.sid = p.sid, !.user = p.rec.user, !.now = clock]
      BY <2>2
    <3> HIDE DEF e, q
    <3>3. q = [op |-> "others", pc |-> "stamp", br |-> p.br, sid |-> p.sid,
               user |-> p.rec.user, now |-> clock, rec |-> None, out |-> "keep", known |-> 0,
               n |-> 0, over |-> FALSE]
      BY <3>1, <3>2
    <3> HIDE DEF p
    <3>4. q \in Visit /\ q.pc = "stamp" /\ q.known = 0 /\ q.user \in Holder /\ q.now = clock
      BY <1>1, <1>2, <3>3 DEF Visit, Place
    <3> QED BY <1>1, <3>4, KnowsPlain DEF VisitOK
  <2> QED BY <2>1, <2>2
<1> HIDE DEF q
<1> QED BY <1>3, <1>4, <1>5, OneVisit

LEMMA DropKeeps ==
    ASSUME StampInv, NEW r \in Request, S!Drop(r)
    PROVE  StampInv'
<1> DEFINE p == req[r]
           q == IF p.op = "signout" THEN S!Answered(p, None)
                ELSE [p EXCEPT !.now = S!IssuedAt(p), !.pc = "mint"]
<1>1. StampsOK /\ StoreOK /\ VisitsOK /\ Knows(p) /\ p \in Visit /\ VisitOK(p) /\ clock \in Nat
  BY DEF StampInv, StampsOK, VisitsOK, KnowsAll
<1>2. p.pc = "drop"
  BY DEF S!Drop, S!At
<1>3. UNCHANGED <<clock, rev, old, stamps>> /\ req' = [req EXCEPT ![r] = q]
  BY <1>1 DEF S!Drop, S!history, VisitsOK
<1>4. StoreOK'
  BY <1>1 DEF S!Drop, StoreOK
<1>5. VisitOK(q) /\ Knows(q)
  <2>1. CASE p.op = "signout"
    <3>1. q = S!Answered(p, None)
      BY <2>1
    <3>2. VisitOK(S!Answered(p, None)) /\ S!Answered(p, None).pc \in {"idle", "respond"}
          /\ S!Answered(p, None).known = 0
      BY <1>1, AnsweredOK
    <3> HIDE DEF p, q
    <3> QED BY <1>1, <3>1, <3>2, KnowsPlain
  <2>2. CASE p.op # "signout"
    <3>1. q = [p EXCEPT !.now = S!IssuedAt(p), !.pc = "mint"] /\ S!IssuedAt(p) \in Nat
      BY <1>1, <2>2 DEF S!IssuedAt, Visit
    <3> HIDE DEF p, q
    <3>2. q \in Visit /\ q.pc = "mint" /\ q.known = p.known /\ q.user = p.user
      BY <1>1, <3>1 DEF Visit, Place
    <3> QED BY <1>1, <1>2, <2>2, <3>2, KnowsPlain DEF VisitOK
  <2> QED BY <2>1, <2>2
<1> HIDE DEF p, q
<1> QED BY <1>3, <1>4, <1>5, OneVisit

LEMMA MintKeeps ==
    ASSUME StampInv, NEW r \in Request, S!Mint(r)
    PROVE  StampInv'
<1> DEFINE p == req[r]
<1>1. StampsOK /\ StoreOK /\ VisitsOK /\ Knows(p) /\ p \in Visit /\ VisitOK(p)
  BY DEF StampInv, VisitsOK, KnowsAll
<1>2. p.pc = "mint" /\ p.user \in Holder /\ p.now \in Nat
  BY <1>1 DEF S!Mint, S!At, VisitOK, Visit
<1>3. PICK s \in Sid \ minted :
          /\ kv' = [kv EXCEPT ![s] = [user |-> p.user, issued |-> p.now,
                                      expires |-> p.now + TTL]]
          /\ req' = [req EXCEPT ![r] = S!Answered(@, s)]
  BY DEF S!Mint
<1> DEFINE q == S!Answered(p, s)
<1>4. UNCHANGED <<clock, rev, old, cookie, stamps>> /\ req' = [req EXCEPT ![r] = q]
  BY <1>1, <1>3 DEF S!Mint, VisitsOK
<1>5. [user |-> p.user, issued |-> p.now, expires |-> p.now + TTL] \in S!Rec
  BY <1>2, SessionAssumption DEF S!Rec
<1>6. StoreOK'
  BY <1>1, <1>3, <1>4, <1>5 DEF StoreOK
<1>7. VisitOK(q) /\ q.pc \in {"idle", "respond"} /\ q.known = 0
  BY <1>1, AnsweredOK
<1> HIDE DEF p, q
<1>8. Knows(q)
  BY <1>1, <1>7, KnowsPlain
<1> QED BY <1>4, <1>6, <1>7, <1>8, OneVisit

LEMMA RespondKeeps ==
    ASSUME StampInv, NEW r \in Request, S!Respond(r) \/ S!Fail(r)
    PROVE  StampInv'
<1> DEFINE p == req[r]
<1>1. StampsOK /\ StoreOK /\ VisitsOK /\ Knows(p) /\ p \in Visit /\ VisitOK(p)
  BY DEF StampInv, VisitsOK, KnowsAll
<1>2. UNCHANGED <<clock, rev, old, stamps>> /\ req' = [req EXCEPT ![r] = S!Idle]
  BY DEF S!Respond, S!Fail, S!store, S!history
<1>3. StoreOK'
  <2>1. CASE S!Respond(r)
    <3>1. p.pc = "respond" /\ p.out \in Sid \union {None}
      BY <1>1, <2>1 DEF S!Respond, S!At, VisitOK, Visit
    <3>2. cookie' = [cookie EXCEPT ![p.br] = p.out] /\ kv' = kv
      BY <2>1 DEF S!Respond
    <3> QED BY <1>1, <3>1, <3>2 DEF StoreOK
  <2>2. CASE S!Fail(r)
    BY <1>1, <2>2 DEF S!Fail, S!store, StoreOK
  <2> QED BY <2>1, <2>2
<1>4. VisitOK(S!Idle) /\ Knows(S!Idle)
  BY <1>1, IdleVisit, KnowsPlain
<1> QED BY <1>2, <1>3, <1>4, OneVisit

\* The one step at which a stamp lands: it becomes the user's last.
LEMMA StampKeeps ==
    ASSUME StampInv, NEW r \in Request, S!PutStamp(r)
    PROVE  StampInv'
<1> DEFINE p == req[r]
           u == p.user
           total == Cardinality(stamps)
           h == [user |-> u, epoch |-> p.now, landed |-> clock, n |-> total + 1]
           q == IF p.op = "revoke" THEN S!Idle ELSE [p EXCEPT !.n = h.n, !.pc = "drop"]
<1>1. /\ StampsOK /\ LastStamps /\ StoreOK /\ VisitsOK /\ KnowsAll
      /\ Knows(p) /\ p \in Visit /\ VisitOK(p)
  BY DEF StampInv, VisitsOK, KnowsAll
<1>2. p.pc = "stamp" /\ u \in Holder /\ p.now \in Nat /\ p.now <= clock /\ clock \in Nat /\ total \in Nat
  BY <1>1, FS_CardinalityType DEF S!PutStamp, S!At, VisitOK, Visit, StampsOK
<1>3. /\ rev' = [rev EXCEPT ![u] = h] /\ old' = [old EXCEPT ![u] = rev[u]]
      /\ stamps' = stamps \union {h} /\ UNCHANGED <<clock, kv, cookie>>
      /\ req' = [req EXCEPT ![r] = q]
  BY <1>1, SameCardinality DEF S!PutStamp, VisitsOK
<1>4. h \in S!Stamp /\ h.user = u /\ h.epoch = p.now /\ h.landed = clock /\ h.n = total + 1
  BY <1>2 DEF S!Stamp
<1>5. h \notin stamps
  BY <1>1, <1>2, <1>4 DEF StampsOK
<1>6. q \in Visit /\ VisitOK(q) /\ (q.known = 0 \/ q.known = p.known)
      /\ q.pc \notin {"slide", "served"} /\ q.pc # "stamp"
  <2>1. CASE p.op = "revoke"
    BY <2>1, IdleVisit DEF VisitOK, S!Idle
  <2>2. CASE p.op # "revoke"
    <3>1. q = [p EXCEPT !.n = h.n, !.pc = "drop"]
      BY <2>2
    <3> HIDE DEF q, h
    <3>2. q \in Visit /\ q.pc = "drop" /\ q.known = p.known /\ q.user = u
      <4>1. h.n \in Nat
        BY <1>2, <1>4
      <4> HIDE DEF p, u, total
      <4> QED BY <1>1, <3>1, <4>1 DEF Visit, Place, u
    <3> QED BY <1>2, <3>2 DEF VisitOK
  <2> QED BY <2>1, <2>2
<1> HIDE DEF h, q
<1>7. IsFiniteSet(stamps') /\ Cardinality(stamps') = total + 1
  BY <1>1, <1>3, <1>5, FS_AddElement DEF StampsOK
<1>8. StampsOK'
  <2>1. \A g \in stamps' : /\ g \in S!Stamp /\ g.n \in 1..(total + 1)
                           /\ g.epoch <= g.landed /\ g.landed <= clock
    BY <1>1, <1>2, <1>3, <1>4 DEF StampsOK
  <2>2. \A g, k \in stamps' : /\ g.n = k.n => g = k
                              /\ g.n <= k.n => g.landed <= k.landed
    BY <1>1, <1>2, <1>3, <1>4 DEF StampsOK, S!Stamp
  <2> QED BY <1>2, <1>3, <1>7, <2>1, <2>2 DEF StampsOK
<1>9. LastStamps'
  <2>1. rev' \in [Holder -> stamps' \union {None}] /\ old' \in [Holder -> stamps' \union {None}]
    BY <1>1, <1>2, <1>3 DEF LastStamps
  <2>2. rev'[u] = h /\ old'[u] = rev[u]
        /\ \A v \in Holder \ {u} : rev'[v] = rev[v] /\ old'[v] = old[v]
    BY <1>1, <1>2, <1>3 DEF LastStamps
  <2>3. h # None
    BY <1>4, SessionAssumption DEF S!Stamp
  <2>4. \A v \in Holder : /\ rev'[v] # None => rev'[v].user = v
                          /\ old'[v] # None => old'[v].user = v
    BY <1>1, <1>4, <2>2 DEF LastStamps
  <2>5. ASSUME NEW g \in stamps'
        PROVE  /\ rev'[g.user] # None /\ g.n <= rev'[g.user].n
               /\ g.n < rev'[g.user].n => old'[g.user] # None /\ g.n <= old'[g.user].n
    <3>1. CASE g = h
      BY <1>2, <1>4, <2>2, <2>3, <3>1
    <3>2. CASE g \in stamps /\ g.user = u
      <4>1. rev[u] # None /\ g.n <= rev[u].n /\ g.n \in 1..total
        BY <1>1, <3>2 DEF LastStamps, StampsOK
      <4> QED BY <1>2, <1>4, <2>2, <2>3, <3>2, <4>1
    <3>3. CASE g \in stamps /\ g.user # u
      <4>1. g.user \in Holder
        BY <1>1, <3>3 DEF StampsOK, S!Stamp
      <4> QED BY <1>1, <2>2, <3>3, <4>1 DEF LastStamps
    <3> QED BY <1>3, <3>1, <3>2, <3>3
  <2> QED BY <2>1, <2>4, <2>5 DEF LastStamps
<1>10. StoreOK'
  BY <1>1, <1>3 DEF StoreOK
<1>11. \A k \in Visit : VisitOK(k) => VisitOK(k)'
  BY <1>3 DEF VisitOK
<1>12. ASSUME NEW k \in Visit, Knows(k)
       PROVE  Knows(k)'
  <2>1. k.known \in Nat /\ k.known <= total
    BY <1>12 DEF Knows, Visit
  <2>2. \A g \in stamps' : g.n <= k.known => g \in stamps
    BY <1>2, <1>3, <1>4, <2>1
  <2>3. ASSUME NEW g \in stamps, NEW rec, Spared(g, rec)
        PROVE  Spared(g, rec)'
    BY <1>3, <2>3 DEF Spared
  <2> QED BY <1>2, <1>3, <1>7, <1>12, <2>1, <2>2, <2>3 DEF Knows
<1>13. Knows(q)
  BY <1>1, <1>6, KnowsPlain
<1>14. req' \in [Request -> Visit]
  BY <1>1, <1>3, <1>6 DEF VisitsOK
<1>15. \A k \in Request : req'[k] \in Visit /\ VisitOK(req'[k]) /\ Knows(req'[k])
  <2> SUFFICES ASSUME NEW k \in Request
               PROVE  req'[k] \in Visit /\ VisitOK(req'[k]) /\ Knows(req'[k])
    OBVIOUS
  <2>1. CASE k = r
    <3>1. req'[k] = q
      BY <1>1, <1>3, <2>1 DEF VisitsOK
    <3> QED BY <3>1, <1>6, <1>13
  <2>2. CASE k # r
    <3>1. req'[k] = req[k]
      BY <1>1, <1>3, <2>2 DEF VisitsOK
    <3> QED BY <3>1, <1>1 DEF VisitsOK, KnowsAll
  <2> QED BY <2>1, <2>2
<1>16. VisitsOK'
  BY <1>11, <1>14, <1>15 DEF VisitsOK
<1>17. KnowsAll'
  BY <1>12, <1>15 DEF KnowsAll
<1> QED BY <1>8, <1>9, <1>10, <1>16, <1>17 DEF StampInv

LEMMA TickKeeps ==
    ASSUME StampInv, S!Tick
    PROVE  StampInv'
<1>1. UNCHANGED <<kv, rev, old, cookie, req, stamps>> /\ clock' = clock + 1 /\ clock \in Nat
  BY DEF S!Tick, S!store, S!history, StampInv, StampsOK
<1>2. StampsOK'
  BY <1>1 DEF StampInv, StampsOK, S!Stamp
<1>3. LastStamps' /\ StoreOK'
  BY <1>1 DEF StampInv, LastStamps, StoreOK
<1>4. VisitsOK'
  BY <1>1 DEF StampInv, VisitsOK, VisitOK, Visit
<1>5. ASSUME NEW r \in Request
      PROVE  Knows(req[r])'
  <2>1. Knows(req[r])
    BY DEF StampInv, KnowsAll
  <2>2. \A g \in stamps : g.landed \in Nat
    BY DEF StampInv, StampsOK, S!Stamp
  <2>3. TTL \in Nat /\ Lag \in Nat
    BY SessionAssumption
  <2> QED BY <1>1, <2>1, <2>2, <2>3 DEF Knows, Spared
<1> QED BY <1>1, <1>2, <1>3, <1>4, <1>5 DEF StampInv, KnowsAll

\* Every step keeps what a request knows of the stamps.
LEMMA StampsStep == StampInv /\ [S!Next]_(S!vars) => StampInv'
<1> SUFFICES ASSUME StampInv, [S!Next]_(S!vars)
             PROVE  StampInv'
  OBVIOUS
<1>1. CASE UNCHANGED S!vars
  <2>1. UNCHANGED <<clock, kv, rev, old, cookie, req, stamps>>
    BY <1>1 DEF S!vars, S!store, S!history
  <2> QED BY <2>1 DEF StampInv, StampsOK, LastStamps, StoreOK, VisitsOK, VisitOK, KnowsAll,
                      Knows, Spared
<1>2. CASE S!Next
  <2>1. CASE S!Tick
    BY <2>1, TickKeeps
  <2>2. ASSUME NEW r \in Request,
               \/ \E b \in Browser : S!StartRead(r, b) \/ S!StartSignout(r, b)
               \/ \E u \in Holder :
                    \/ S!StartRevoke(r, u)
                    \/ \E b \in Browser : S!StartLogin(r, b, u) \/ S!StartOwnerLogin(r, b, u)
        PROVE  StampInv'
    BY <2>2, StartsStamps
  <2>3. ASSUME NEW r \in Request,
               \/ S!GetSession(r) \/ S!GetRevocation(r) \/ S!Reap(r) \/ S!Slide(r) \/ S!Serve(r)
               \/ S!PutStamp(r) \/ S!Drop(r) \/ S!Mint(r) \/ S!Respond(r) \/ S!Fail(r)
        PROVE  StampInv'
    BY <2>3, GetKeeps, RevocationKeeps, ReapKeeps, SlideKeeps, ServeKeeps, StampKeeps,
       DropKeeps, MintKeeps, RespondKeeps
  <2> QED BY <1>2, <2>1, <2>2, <2>3 DEF S!Next
<1> QED BY <1>1, <1>2

\* The stamps of each user land in an order, the last and the one before it
\* are what KV may answer, and a request that has passed the check of its
\* session knows a later stamp for each it was refused by before.
THEOREM SessionsInvariant == S!Spec => []StampInv
BY StampsBegin, StampsStep, PTL DEF S!Spec

\* However long KV takes to show a stamp everywhere: a request that begins
\* once it is, and as long as KV keeps it, is not served on a session issued
\* at or before it, unless a later put spared the session.
THEOREM StampedStaysDead == S!Spec => RevokedWhileStamped
<1>1. ASSUME StampInv, NEW r \in Request, S!Served(r), NEW h \in stamps, h.n <= req[r].known,
             h.user = req[r].rec.user, req[r].rec.issued <= h.epoch, S!Live(h)
      PROVE  \E g \in stamps : g.user = h.user /\ g.n > h.n /\ g.epoch < req[r].rec.issued
  <2>1. Knows(req[r]) /\ req[r].pc = "served" /\ clock <= h.landed + TTL
    BY <1>1 DEF StampInv, KnowsAll, S!Served, S!At, S!Live
  <2> QED BY <1>1, <2>1 DEF Knows, Spared
<1>2. StampInv => [\A r \in Request : S!Served(r) =>
         \A h \in stamps :
           h.n <= req[r].known /\ h.user = req[r].rec.user
             /\ req[r].rec.issued <= h.epoch /\ S!Live(h) =>
             \E g \in stamps : /\ g.user = h.user /\ g.n > h.n
                               /\ g.epoch < req[r].rec.issued]_(S!vars)
  BY <1>1
<1> QED BY <1>2, SessionsInvariant, PTL DEF RevokedWhileStamped, S!RevokedWhileStamped

-----------------------------------------------------------------------------
\* What a sign-out, a sign-in or a sign-out everywhere else has ended is gone
\* from KV, or a slide under way has put it back.
Buried(s) == s \in minted /\ (kv[s] = None \/ s \in revived)

EndedOK(q) ==
    /\ q.sid \in minted \union {None} /\ q.out \in minted \union {None, "keep"}
    /\ q.pc \in {"get", "rev", "slide"} => q.sid \in minted
    /\ q.pc = "mint" \/ (q.pc = "respond" /\ q.op # "read") => q.sid = None \/ Buried(q.sid)
    /\ q.over /\ q.pc = "get" => q.sid \in gone
    /\ q.over /\ q.pc \in {"rev", "slide", "served"} => q.sid \in revived

EndedInv ==
    /\ minted \subseteq Sid /\ cookie \in [Browser -> minted \union {None}]
    /\ \A s \in gone : Buried(s)
    /\ \A r \in Request : EndedOK(req[r])

\* What the two ways of making a request leave in it.
AnswerFits(q, out, a) ==
    /\ a.over = FALSE /\ a.sid \in {None, q.sid}
    /\ out = "keep" => a = S!Idle
    /\ out # "keep" => a.pc = "respond" /\ a.op = q.op /\ a.sid = q.sid /\ a.out = out

Fresh(op, b, pc_) ==
    [op : {op}, pc : {pc_}, br : {b}, sid : {cookie[b]}, user : {None}, now : {0},
     rec : {None}, out : {"keep"}, known : {0}, n : {0}, over : {FALSE}]

LEMMA AnsweredIs == \A q, out : AnswerFits(q, out, S!Answered(q, out))
<1> SUFFICES ASSUME NEW q, NEW out
             PROVE  AnswerFits(q, out, S!Answered(q, out))
  OBVIOUS
<1>1. CASE out = "keep"
  <2>1. S!Answered(q, out) = S!Idle
    BY <1>1 DEF S!Answered
  <2> QED BY <1>1, <2>1 DEF AnswerFits, S!Idle
<1>2. CASE out # "keep"
  <2>1. S!Answered(q, out) = [S!Idle EXCEPT !.op = q.op, !.br = q.br, !.sid = q.sid,
                                !.pc = "respond", !.out = out]
    BY <1>2 DEF S!Answered
  <2> QED BY <1>2, <2>1 DEF AnswerFits, S!Idle
<1> QED BY <1>1, <1>2

LEMMA FromIs == \A op, b, pc_ : S!From(op, b, pc_) \in Fresh(op, b, pc_)
<1> SUFFICES ASSUME NEW op, NEW b, NEW pc_
             PROVE  S!From(op, b, pc_) \in Fresh(op, b, pc_)
  OBVIOUS
<1>1. S!From(op, b, pc_) = [S!Idle EXCEPT !.op = op, !.br = b, !.sid = cookie[b], !.pc = pc_]
  BY DEF S!From
<1> QED BY <1>1 DEF S!Idle, Fresh

LEMMA IdleEnded == EndedOK(S!Idle)
BY DEF EndedOK, S!Idle

\* One request moves, and what is buried stays so.
LEMMA OneEnded ==
    ASSUME StampInv, EndedInv, NEW r \in Request, NEW q, req' = [req EXCEPT ![r] = q],
           \A k : k = q => EndedOK(k)', minted \subseteq minted', gone \subseteq gone',
           revived \subseteq revived', minted' \subseteq Sid, cookie' \in [Browser -> minted' \union {None}],
           \A s \in minted : kv'[s] \in {kv[s], None} \/ s \in revived' \/ kv[s] # None,
           \A s \in gone' \ gone : Buried(s)'
    PROVE  EndedInv'
<1>1. \A s : Buried(s) => Buried(s)'
  BY DEF Buried
<1>2. \A k : EndedOK(k) => EndedOK(k)'
  BY <1>1 DEF EndedOK
<1>3. \A k \in Request : req'[k] = q \/ EndedOK(req'[k])
  BY DEF StampInv, VisitsOK, EndedInv
<1>4. \A k \in Request : EndedOK(req[k])'
  BY <1>2, <1>3
<1>5. \A s \in gone' : Buried(s)'
  BY <1>1 DEF EndedInv
<1> QED BY <1>4, <1>5 DEF EndedInv

LEMMA QuietEnded ==
    ASSUME StampInv, EndedInv, UNCHANGED <<kv, cookie, minted, gone, revived>>,
           NEW r \in Request, NEW q, req' = [req EXCEPT ![r] = q], EndedOK(q)
    PROVE  EndedInv'
<1>1. \A k : EndedOK(k) => EndedOK(k)'
  BY DEF EndedOK, Buried
<1>2. cookie' \in [Browser -> minted' \union {None}]
  BY DEF EndedInv
<1>3. minted' \subseteq Sid
  BY DEF EndedInv
<1> QED BY <1>1, <1>2, <1>3, OneEnded

LEMMA StartsEnded ==
    ASSUME StampInv, EndedInv, NEW r \in Request,
           \/ \E b \in Browser : S!StartRead(r, b) \/ S!StartSignout(r, b)
           \/ \E u \in Holder :
                \/ S!StartRevoke(r, u)
                \/ \E b \in Browser : S!StartLogin(r, b, u) \/ S!StartOwnerLogin(r, b, u)
    PROVE  EndedInv'
<1>1. ASSUME NEW q, S!Arrive(r, q), EndedOK(q)
      PROVE  EndedInv'
  <2>1. UNCHANGED <<kv, cookie, minted, gone, revived>> /\ req' = [req EXCEPT ![r] = q]
    BY <1>1 DEF S!Arrive, S!store, S!history
  <2> QED BY <1>1, <2>1, QuietEnded
<1>2. ASSUME NEW b \in Browser, S!StartRead(r, b)
      PROVE  EndedInv'
  <2>1. PICK op \in {"read", "others"} :
          S!Arrive(r, [S!From(op, b, "get") EXCEPT !.known = S!Propagated,
                                                   !.over = cookie[b] \in gone])
    BY <1>2 DEF S!StartRead
  <2> DEFINE p == S!From(op, b, "get")
             x == cookie[b] \in gone
             q == [p EXCEPT !.known = S!Propagated, !.over = x]
  <2>2. p \in Fresh(op, b, "get") /\ cookie[b] \in minted
    <3>1. cookie[b] # None
      BY <1>2 DEF S!StartRead
    <3>2. p \in Fresh(op, b, "get")
      BY FromIs
    <3> HIDE DEF p
    <3> QED BY <3>1, <3>2 DEF EndedInv
  <2>3. S!Arrive(r, q)
    BY <2>1 DEF p
  <2>4. x => cookie[b] \in gone
    OBVIOUS
  <2> HIDE DEF p, x
  <2>5. q.sid = cookie[b] /\ q.out = "keep" /\ q.pc = "get" /\ q.over = x
    BY <2>2 DEF Fresh
  <2> HIDE DEF q
  <2>6. EndedOK(q)
    BY <2>2, <2>4, <2>5 DEF EndedOK
  <2> QED BY <1>1, <2>3, <2>6
<1>3. ASSUME NEW b \in Browser, S!StartSignout(r, b)
      PROVE  EndedInv'
  <2> DEFINE q == S!From("signout", b, "drop")
  <2>1. q \in Fresh("signout", b, "drop") /\ cookie[b] \in minted \union {None} /\ S!Arrive(r, q)
    BY <1>3, FromIs DEF EndedInv, S!StartSignout
  <2> HIDE DEF q
  <2> QED BY <1>1, <2>1 DEF EndedOK, Fresh
<1>4. ASSUME NEW b \in Browser, NEW u \in Holder, S!StartLogin(r, b, u)
      PROVE  EndedInv'
  <2> DEFINE p == S!From("login", b, "drop")
             q == [p EXCEPT !.user = u]
  <2>1. p \in Fresh("login", b, "drop") /\ cookie[b] \in minted \union {None} /\ S!Arrive(r, q)
    BY <1>4, FromIs DEF EndedInv, S!StartLogin
  <2> HIDE DEF p
  <2>2. q.sid = cookie[b] /\ q.out = "keep" /\ q.pc = "drop" /\ q.over = FALSE
    BY <2>1 DEF Fresh
  <2> HIDE DEF q
  <2> QED BY <1>1, <2>1, <2>2 DEF EndedOK
<1>5. ASSUME NEW u \in Holder, S!StartRevoke(r, u)
      PROVE  EndedInv'
  <2> DEFINE q == [S!Idle EXCEPT !.op = "revoke", !.user = u, !.now = clock, !.pc = "stamp"]
  <2>1. S!Arrive(r, q)
    BY <1>5 DEF S!StartRevoke
  <2>2. q.sid = None /\ q.out = "keep" /\ q.pc = "stamp" /\ q.over = FALSE
    BY DEF S!Idle
  <2> HIDE DEF q
  <2> QED BY <1>1, <2>1, <2>2 DEF EndedOK
<1>6. ASSUME NEW b \in Browser, NEW u \in Holder, S!StartOwnerLogin(r, b, u)
      PROVE  EndedInv'
  <2> DEFINE q == [S!Idle EXCEPT !.op = "login", !.br = b, !.user = u, !.now = clock,
                                 !.pc = "mint"]
  <2>1. S!Arrive(r, q)
    BY <1>6 DEF S!StartOwnerLogin
  <2>2. q.sid = None /\ q.out = "keep" /\ q.pc = "mint" /\ q.over = FALSE
    BY DEF S!Idle
  <2> HIDE DEF q
  <2> QED BY <1>1, <2>1, <2>2 DEF EndedOK
<1> QED BY <1>2, <1>3, <1>4, <1>5, <1>6

\* The steps of a read up to its answer.
LEMMA ReadEnded ==
    ASSUME StampInv, EndedInv, NEW r \in Request,
           S!GetSession(r) \/ S!GetRevocation(r) \/ S!Reap(r) \/ S!Slide(r)
    PROVE  EndedInv'
<1> DEFINE p == req[r]
<1>1. /\ req \in [Request -> Visit] /\ p \in Visit /\ VisitOK(p) /\ EndedOK(p)
      /\ kv \in [Sid -> S!Rec \union {None}] /\ cookie \in [Browser -> minted \union {None}]
      /\ minted \subseteq Sid
  BY DEF StampInv, VisitsOK, StoreOK, EndedInv
<1>2. CASE S!GetSession(r)
  <2> DEFINE rec == kv[p.sid]
             q == CASE rec = None -> S!Answered(p, "keep")
                    [] rec # None /\ rec.expires < clock -> [p EXCEPT !.pc = "reap"]
                    [] OTHER -> [p EXCEPT !.pc = "rev", !.now = clock, !.rec = rec]
  <2>1. /\ UNCHANGED <<kv, cookie, minted, gone, revived>> /\ req' = [req EXCEPT ![r] = q]
        /\ p.pc = "get"
    BY <1>1, <1>2 DEF S!GetSession, S!At, S!store, S!history
  <2>2. EndedOK(q)
    <3>1. CASE rec = None
      <4>1. q = S!Answered(p, "keep") /\ S!Answered(p, "keep") = S!Idle
        BY <3>1, AnsweredIs DEF AnswerFits
      <4> HIDE DEF q
      <4> QED BY <4>1, IdleEnded
    <3>2. CASE rec # None
      <4>1. \/ q = [p EXCEPT !.pc = "reap"]
            \/ q = [p EXCEPT !.pc = "rev", !.now = clock, !.rec = rec]
        BY <3>2
      <4>2. p.over => p.sid \in revived
        BY <1>1, <2>1, <3>2 DEF EndedInv, EndedOK, Buried
      <4> HIDE DEF q, p, rec
      <4>3. /\ q.sid = p.sid /\ q.out = p.out /\ q.over = p.over /\ q.pc \in {"reap", "rev"}
        BY <1>1, <4>1 DEF Visit
      <4> QED BY <1>1, <2>1, <4>2, <4>3 DEF EndedOK, p
    <3> QED BY <3>1, <3>2
  <2> HIDE DEF q
  <2> QED BY <2>1, <2>2, QuietEnded
<1>3. CASE S!GetRevocation(r)
  <2>1. PICK pc_ \in {"reap", "slide", "served"} : req' = [req EXCEPT ![r].pc = pc_]
    <3>1. PICK g \in S!Readable(p.rec.user) :
            S!Goto(r, CASE S!Revoked(p.rec, g) -> "reap"
                        [] ~S!Revoked(p.rec, g) /\ S!Due(p.rec, p.now) -> "slide"
                        [] OTHER -> "served")
      BY <1>3 DEF S!GetRevocation
    <3> DEFINE pc_ == CASE S!Revoked(p.rec, g) -> "reap"
                        [] ~S!Revoked(p.rec, g) /\ S!Due(p.rec, p.now) -> "slide"
                        [] OTHER -> "served"
    <3>2. pc_ \in {"reap", "slide", "served"} /\ S!Goto(r, pc_)
      BY <3>1
    <3> HIDE DEF pc_
    <3> QED BY <3>2 DEF S!Goto
  <2> DEFINE q == [p EXCEPT !.pc = pc_]
  <2>2. UNCHANGED <<kv, cookie, minted, gone, revived>> /\ req' = [req EXCEPT ![r] = q]
    BY <1>1, <1>3, <2>1 DEF S!GetRevocation, S!store, S!history
  <2>3. p.pc = "rev"
    BY <1>3 DEF S!GetRevocation, S!At
  <2>4. q.sid = p.sid /\ q.out = p.out /\ q.over = p.over /\ q.pc = pc_
    BY <1>1 DEF Visit
  <2> HIDE DEF q, p
  <2>5. EndedOK(q)
    BY <1>1, <2>3, <2>4 DEF EndedOK
  <2> QED BY <2>2, <2>5, QuietEnded
<1>4. CASE S!Reap(r)
  <2>1. /\ UNCHANGED <<cookie, minted, gone, revived>>
        /\ req' = [req EXCEPT ![r] = S!Answered(p, "keep")]
        /\ \A s \in Sid : kv'[s] \in {kv[s], None}
    BY <1>1, <1>4 DEF S!Reap, S!history
  <2>2. req' = [req EXCEPT ![r] = S!Idle]
    BY <2>1, AnsweredIs DEF AnswerFits
  <2>3. \A k : k = S!Idle => EndedOK(k)'
    BY DEF EndedOK, S!Idle
  <2> QED BY <1>1, <2>1, <2>2, <2>3, OneEnded
<1>5. CASE S!Slide(r)
  <2> DEFINE q == [p EXCEPT !.pc = "served", !.out = p.sid]
  <2>1. /\ UNCHANGED <<cookie, minted, gone>> /\ p.pc = "slide" /\ p.sid \in Sid
        /\ req' = [req EXCEPT ![r] = q]
        /\ revived' = IF kv[p.sid] = None THEN revived \union {p.sid} ELSE revived
        /\ kv' = [kv EXCEPT ![p.sid] = S!Renewed(p.rec, p.now)]
    BY <1>1, <1>5 DEF S!Slide, S!At, VisitOK
  <2>2. q.sid = p.sid /\ q.out = p.sid /\ q.over = p.over /\ q.pc = "served"
    BY <1>1 DEF Visit
  <2>3. p.sid \in minted
    BY <1>1, <2>1 DEF EndedOK
  <2> HIDE DEF p, q
  <2>4. \A k : k = q => EndedOK(k)'
    BY <1>1, <2>1, <2>2, <2>3 DEF EndedOK
  <2>5. \A s \in minted : kv'[s] = kv[s] \/ s \in revived' \/ kv[s] # None
    BY <1>1, <2>1
  <2> QED BY <1>1, <2>1, <2>4, <2>5, OneEnded
<1> QED BY <1>2, <1>3, <1>4, <1>5

\* The steps of what follows a read.
LEMMA WriteEnded ==
    ASSUME StampInv, EndedInv, NEW r \in Request,
           S!Serve(r) \/ S!PutStamp(r) \/ S!Drop(r) \/ S!Mint(r) \/ S!Respond(r) \/ S!Fail(r)
    PROVE  EndedInv'
<1> DEFINE p == req[r]
<1>1. /\ req \in [Request -> Visit] /\ p \in Visit /\ VisitOK(p) /\ EndedOK(p)
      /\ kv \in [Sid -> S!Rec \union {None}] /\ cookie \in [Browser -> minted \union {None}]
      /\ minted \subseteq Sid
  BY DEF StampInv, VisitsOK, StoreOK, EndedInv
<1>2. CASE S!Serve(r)
  <2> DEFINE e == S!From("others", p.br, "stamp")
             q == IF p.op = "read" THEN S!Answered(p, p.out)
                  ELSE [e EXCEPT !.sid = p.sid, !.user = p.rec.user, !.now = clock]
  <2>1. UNCHANGED <<kv, cookie, minted, gone, revived>> /\ req' = [req EXCEPT ![r] = q]
    BY <1>1, <1>2 DEF S!Serve, S!store, S!history
  <2>2. CASE p.op = "read"
    <3> DEFINE a == S!Answered(p, p.out)
    <3>1. q = a
      BY <2>2
    <3>2. AnswerFits(p, p.out, a)
      BY AnsweredIs
    <3> HIDE DEF a, q, p
    <3>3. EndedOK(a)
      BY <1>1, <2>2, <3>2, IdleEnded DEF EndedOK, AnswerFits
    <3> QED BY <2>1, <3>1, <3>3, QuietEnded
  <2>3. CASE p.op # "read"
    <3>1. e \in Fresh("others", p.br, "stamp")
      BY FromIs
    <3>2. q = [e EXCEPT !.sid = p.sid, !.user = p.rec.user, !.now = clock]
      BY <2>3
    <3> HIDE DEF e, q, p
    <3>3. q.sid = p.sid /\ q.out = "keep" /\ q.over = FALSE /\ q.pc = "stamp"
      BY <3>1, <3>2 DEF Fresh
    <3>4. EndedOK(q)
      BY <1>1, <3>3 DEF EndedOK
    <3> QED BY <2>1, <3>4, QuietEnded
  <2> QED BY <2>2, <2>3
<1>3. CASE S!PutStamp(r)
  <2>1. PICK m :
          /\ UNCHANGED <<kv, cookie, minted, gone, revived>>
          /\ req' = [req EXCEPT ![r] = IF p.op = "revoke" THEN S!Idle
                                       ELSE [p EXCEPT !.n = m, !.pc = "drop"]]
    BY <1>1, <1>3 DEF S!PutStamp
  <2> DEFINE q == IF p.op = "revoke" THEN S!Idle ELSE [p EXCEPT !.n = m, !.pc = "drop"]
  <2>2. EndedOK(q)
    <3>1. CASE p.op = "revoke"
      BY <3>1, IdleEnded
    <3>2. CASE p.op # "revoke"
      <4>1. q = [p EXCEPT !.n = m, !.pc = "drop"]
        BY <3>2
      <4> HIDE DEF q, p
      <4>2. q.sid = p.sid /\ q.out = p.out /\ q.over = p.over /\ q.pc = "drop"
        BY <1>1, <4>1 DEF Visit
      <4> QED BY <1>1, <4>2 DEF EndedOK
    <3> QED BY <3>1, <3>2
  <2>3. req' = [req EXCEPT ![r] = q]
    BY <2>1
  <2> HIDE DEF q
  <2> QED BY <2>1, <2>2, <2>3, QuietEnded
<1>4. CASE S!Drop(r)
  <2> DEFINE a == S!Answered(p, None)
             q == IF p.op = "signout" THEN a ELSE [p EXCEPT !.now = S!IssuedAt(p), !.pc = "mint"]
  <2>1. /\ UNCHANGED <<cookie, minted, gone, revived>> /\ req' = [req EXCEPT ![r] = q]
        /\ \A s \in Sid : kv'[s] = IF s = p.sid THEN None ELSE kv[s]
        /\ p.pc = "drop"
    BY <1>1, <1>4 DEF S!Drop, S!At, S!history
  <2>2. q.sid \in {p.sid, None} /\ q.out \in {None, p.out, "keep"} /\ q.pc \in {"idle", "respond", "mint"}
    <3>1. CASE p.op = "signout"
      <4>1. q = a
        BY <3>1
      <4>2. AnswerFits(p, None, a)
        BY AnsweredIs
      <4> HIDE DEF q, a, p
      <4> QED BY <4>1, <4>2, IdleVisit DEF S!Idle, AnswerFits
    <3>2. CASE p.op # "signout"
      <4>1. q = [p EXCEPT !.now = S!IssuedAt(p), !.pc = "mint"]
        BY <3>2
      <4> HIDE DEF q, a, p
      <4> QED BY <1>1, <4>1 DEF Visit
    <3> QED BY <3>1, <3>2
  <2> HIDE DEF p, q
  <2>3. \A k : k = q => EndedOK(k)'
    BY <1>1, <2>1, <2>2 DEF EndedOK, Buried
  <2> QED BY <1>1, <2>1, <2>3, OneEnded
<1>5. CASE S!Mint(r)
  <2>1. PICK s \in Sid \ minted :
          /\ kv' = [kv EXCEPT ![s] = [user |-> p.user, issued |-> p.now,
                                      expires |-> p.now + TTL]]
          /\ minted' = minted \union {s} /\ req' = [req EXCEPT ![r] = S!Answered(p, s)]
          /\ UNCHANGED <<cookie, gone, revived>> /\ p.pc = "mint"
    BY <1>1, <1>5 DEF S!Mint, S!At
  <2> DEFINE a == S!Answered(p, s)
  <2>2. AnswerFits(p, s, a)
    BY AnsweredIs
  <2>3. /\ cookie' \in [Browser -> minted' \union {None}] /\ minted' \subseteq Sid
        /\ \A k \in minted : kv'[k] = kv[k]
    BY <1>1, <2>1
  <2> HIDE DEF a, p
  <2>4. p.sid = None \/ (p.sid \in minted' /\ (kv'[p.sid] = None \/ p.sid \in revived'))
    BY <1>1, <2>1, <2>3 DEF EndedOK, Buried
  <2>5. \A k : k = a => EndedOK(k)'
    <3>1. CASE s = "keep"
      BY <2>2, <3>1 DEF EndedOK, S!Idle, AnswerFits
    <3>2. CASE s # "keep"
      BY <2>1, <2>2, <2>4, <3>2 DEF EndedOK, Buried, AnswerFits
    <3> QED BY <3>1, <3>2
  <2>6. req' = [req EXCEPT ![r] = a]
    BY <2>1 DEF a
  <2> QED BY <2>1, <2>3, <2>5, <2>6, OneEnded
<1>6. CASE S!Respond(r)
  <2>1. /\ UNCHANGED <<kv, minted, revived>> /\ p.pc = "respond"
        /\ req' = [req EXCEPT ![r] = S!Idle] /\ cookie' = [cookie EXCEPT ![p.br] = p.out]
        /\ gone' = IF p.op = "read" THEN gone ELSE gone \union ({p.sid} \ {None})
    BY <1>6 DEF S!Respond, S!At
  <2>2. p.out \in minted \union {None}
    BY <1>1, <2>1 DEF VisitOK, EndedOK
  <2>3. cookie' \in [Browser -> minted' \union {None}]
    BY <1>1, <2>1, <2>2
  <2>4. \A s \in gone' \ gone : Buried(s)'
    BY <1>1, <2>1 DEF EndedOK, Buried
  <2>5. \A k : k = S!Idle => EndedOK(k)'
    BY DEF EndedOK, S!Idle
  <2> QED BY <1>1, <2>1, <2>3, <2>4, <2>5, OneEnded
<1>7. CASE S!Fail(r)
  BY <1>7, IdleEnded, QuietEnded DEF S!Fail, S!store, S!history
<1> QED BY <1>2, <1>3, <1>4, <1>5, <1>6, <1>7

LEMMA EndedBegin == S!Init => EndedInv
BY IdleEnded DEF S!Init, EndedInv

LEMMA EndedStep == StampInv /\ EndedInv /\ [S!Next]_(S!vars) => EndedInv'
<1> SUFFICES ASSUME StampInv, EndedInv, [S!Next]_(S!vars)
             PROVE  EndedInv'
  OBVIOUS
<1>1. CASE UNCHANGED S!vars \/ S!Tick
  <2>1. UNCHANGED <<kv, cookie, req, minted, gone, revived>>
    BY <1>1 DEF S!vars, S!store, S!history, S!Tick
  <2> QED BY <2>1 DEF EndedInv, EndedOK, Buried
<1>2. CASE S!Next
  <2>1. ASSUME NEW r \in Request,
               \/ \E b \in Browser : S!StartRead(r, b) \/ S!StartSignout(r, b)
               \/ \E u \in Holder :
                    \/ S!StartRevoke(r, u)
                    \/ \E b \in Browser : S!StartLogin(r, b, u) \/ S!StartOwnerLogin(r, b, u)
        PROVE  EndedInv'
    BY <2>1, StartsEnded
  <2>2. ASSUME NEW r \in Request,
               \/ S!GetSession(r) \/ S!GetRevocation(r) \/ S!Reap(r) \/ S!Slide(r) \/ S!Serve(r)
               \/ S!PutStamp(r) \/ S!Drop(r) \/ S!Mint(r) \/ S!Respond(r) \/ S!Fail(r)
        PROVE  EndedInv'
    BY <2>2, ReadEnded, WriteEnded
  <2> QED BY <1>1, <1>2, <2>1, <2>2 DEF S!Next
<1> QED BY <1>1, <1>2

\* What a completed sign-out, sign-in or sign-out everywhere else has ended
\* serves no request that begins after it, unless a slide under way when the
\* record was deleted has put it back.
THEOREM SignedOutStaysOut == S!Spec => S!EndedStaysEnded
<1>1. EndedInv => [\A r \in Request :
         S!Served(r) /\ req[r].over => req[r].sid \in revived]_(S!vars)
  BY DEF EndedInv, EndedOK, S!Served, S!At
<1>2. S!Spec => []EndedInv
  BY SessionsInvariant, EndedBegin, EndedStep, PTL DEF S!Spec
<1> QED BY <1>1, <1>2, PTL DEF S!EndedStaysEnded

-----------------------------------------------------------------------------
\* A session is issued past the stamp of the request it was issued by.
Past(rec, n) == \A h \in stamps : h.n = n => h.epoch < rec.issued

OwnOK(q) ==
    /\ q.n <= Cardinality(stamps)
    /\ q.pc = "stamp" => q.op \in {"others", "revoke"}
    /\ q.pc = "drop" => \A h \in stamps : h.n = q.n => q.op = "others" /\ h.epoch = q.now
    /\ q.pc = "mint" => \A h \in stamps : h.n = q.n => h.epoch < q.now
    /\ q.pc \in {"rev", "slide"} => Past(q.rec, own[q.sid])

OwnInv ==
    /\ own \in [Sid -> Nat]
    /\ \A s \in Sid : own[s] <= Cardinality(stamps) /\ (kv[s] # None => Past(kv[s], own[s]))
    /\ \A r \in Request : OwnOK(req[r])

LEMMA StampNumbers ==
    ASSUME StampsOK
    PROVE  /\ Cardinality(stamps) \in Nat
           /\ \A h \in stamps : h.n \in Nat \ {0} /\ h.epoch \in Nat /\ h.n <= Cardinality(stamps)
BY FS_CardinalityType DEF StampsOK, S!Stamp

\* One request moves, no stamp lands and no session is issued.
LEMMA OneOwn ==
    ASSUME StampInv, OwnInv, UNCHANGED <<stamps, own>>, NEW r \in Request, NEW q,
           req' = [req EXCEPT ![r] = q], OwnOK(q),
           \A s \in Sid : kv'[s] \notin {kv[s], None} => Past(kv'[s], own[s])
    PROVE  OwnInv'
<1>1. \A k : OwnOK(k) => OwnOK(k)'
  BY DEF OwnOK, Past
<1>2. \A k \in Request : OwnOK(req'[k])
  BY DEF StampInv, VisitsOK, OwnInv
<1>3. \A s \in Sid : own'[s] <= Cardinality(stamps)' /\ (kv'[s] # None => Past(kv'[s], own[s]))
  BY DEF OwnInv
<1>4. own' \in [Sid -> Nat]
  BY DEF OwnInv
<1> QED BY <1>1, <1>2, <1>3, <1>4 DEF OwnInv, Past

\* The steps at which nothing is stamped, issued or slid.
LEMMA QuietOwn ==
    ASSUME StampInv, EndedInv, OwnInv, NEW r \in Request,
           \/ \E b \in Browser : S!StartRead(r, b) \/ S!StartSignout(r, b)
           \/ \E u \in Holder :
                \/ S!StartRevoke(r, u)
                \/ \E b \in Browser : S!StartLogin(r, b, u) \/ S!StartOwnerLogin(r, b, u)
           \/ S!Reap(r) \/ S!Serve(r) \/ S!Drop(r) \/ S!Respond(r) \/ S!Fail(r)
    PROVE  OwnInv'
<1> DEFINE p == req[r]
<1>1. /\ req \in [Request -> Visit] /\ p \in Visit /\ StampsOK /\ OwnOK(p)
      /\ kv \in [Sid -> S!Rec \union {None}] /\ clock \in Nat
  BY DEF StampInv, StampsOK, VisitsOK, StoreOK, OwnInv
<1>2. \A q : q.n = 0 /\ (q.pc = "stamp" => q.op \in {"others", "revoke"})
             /\ q.pc \notin {"rev", "slide"} => OwnOK(q)
  BY <1>1, StampNumbers DEF OwnOK
<1>3. ASSUME NEW q, S!Arrive(r, q), OwnOK(q)
      PROVE  OwnInv'
  <2>1. UNCHANGED <<kv, stamps, own>> /\ req' = [req EXCEPT ![r] = q]
    BY <1>3 DEF S!Arrive, S!store, S!history
  <2> QED BY <1>3, <2>1, OneOwn
<1>4. ASSUME NEW b \in Browser, S!StartRead(r, b)
      PROVE  OwnInv'
  <2>1. PICK op \in {"read", "others"} :
          S!Arrive(r, [S!From(op, b, "get") EXCEPT !.known = S!Propagated,
                                                   !.over = cookie[b] \in gone])
    BY <1>4 DEF S!StartRead
  <2> DEFINE f == S!From(op, b, "get")
             q == [f EXCEPT !.known = S!Propagated, !.over = cookie[b] \in gone]
  <2>2. f \in Fresh(op, b, "get")
    BY FromIs
  <2>3. S!Arrive(r, q)
    BY <2>1 DEF f
  <2> HIDE DEF f
  <2>4. q.n = f.n /\ q.pc = f.pc
    BY <2>2 DEF Fresh
  <2> HIDE DEF q
  <2>5. OwnOK(q)
    BY <1>2, <2>2, <2>4 DEF Fresh
  <2> QED BY <1>3, <2>3, <2>5
<1>5. ASSUME NEW b \in Browser, S!StartSignout(r, b)
      PROVE  OwnInv'
  <2> DEFINE q == S!From("signout", b, "drop")
  <2>1. q \in Fresh("signout", b, "drop") /\ S!Arrive(r, q)
    BY <1>5, FromIs DEF S!StartSignout
  <2> HIDE DEF q
  <2>2. OwnOK(q)
    BY <1>2, <2>1 DEF Fresh
  <2> QED BY <1>3, <2>1, <2>2
<1>6. ASSUME NEW b \in Browser, NEW u \in Holder, S!StartLogin(r, b, u)
      PROVE  OwnInv'
  <2> DEFINE f == S!From("login", b, "drop")
             q == [f EXCEPT !.user = u]
  <2>1. f \in Fresh("login", b, "drop") /\ S!Arrive(r, q)
    BY <1>6, FromIs DEF S!StartLogin
  <2> HIDE DEF f
  <2>2. q.n = 0 /\ q.pc = "drop"
    BY <2>1 DEF Fresh
  <2> HIDE DEF q
  <2> QED BY <1>2, <1>3, <2>1, <2>2
<1>7. ASSUME NEW u \in Holder, S!StartRevoke(r, u)
      PROVE  OwnInv'
  <2> DEFINE q == [S!Idle EXCEPT !.op = "revoke", !.user = u, !.now = clock, !.pc = "stamp"]
  <2>1. S!Arrive(r, q)
    BY <1>7 DEF S!StartRevoke
  <2>2. q.n = 0 /\ q.pc = "stamp" /\ q.op = "revoke"
    BY DEF S!Idle
  <2> HIDE DEF q
  <2> QED BY <1>2, <1>3, <2>1, <2>2
<1>13. ASSUME NEW b \in Browser, NEW u \in Holder, S!StartOwnerLogin(r, b, u)
      PROVE  OwnInv'
  <2> DEFINE q == [S!Idle EXCEPT !.op = "login", !.br = b, !.user = u, !.now = clock,
                                 !.pc = "mint"]
  <2>1. S!Arrive(r, q)
    BY <1>13 DEF S!StartOwnerLogin
  <2>2. q.n = 0 /\ q.pc = "mint"
    BY DEF S!Idle
  <2> HIDE DEF q
  <2> QED BY <1>2, <1>3, <2>1, <2>2
<1>8. CASE S!Reap(r)
  <2>1. /\ UNCHANGED <<stamps, own>> /\ req' = [req EXCEPT ![r] = S!Answered(p, "keep")]
        /\ \A s \in Sid : kv'[s] \in {kv[s], None}
    BY <1>1, <1>8 DEF S!Reap, S!history
  <2>2. OwnOK(S!Idle)
    BY <1>2 DEF S!Idle
  <2>3. S!Answered(p, "keep") = S!Idle
    BY DEF S!Answered
  <2> QED BY <2>1, <2>2, <2>3, OneOwn
<1>9. \A k, out : S!Answered(k, out).n = 0 /\ S!Answered(k, out).pc \in {"idle", "respond"}
  BY DEF S!Answered, S!Idle
<1>10. CASE S!Serve(r)
  <2> DEFINE e == S!From("others", p.br, "stamp")
             q == IF p.op = "read" THEN S!Answered(p, p.out)
                  ELSE [e EXCEPT !.sid = p.sid, !.user = p.rec.user, !.now = clock]
  <2>1. UNCHANGED <<kv, stamps, own>> /\ req' = [req EXCEPT ![r] = q]
    BY <1>1, <1>10 DEF S!Serve, S!store, S!history
  <2>2. e \in Fresh("others", p.br, "stamp") /\ OwnOK(S!Answered(p, p.out))
    BY <1>2, <1>9, FromIs
  <2> HIDE DEF e
  <2>3. CASE p.op # "read"
    <3>1. q = [e EXCEPT !.sid = p.sid, !.user = p.rec.user, !.now = clock]
      BY <2>3
    <3> HIDE DEF q, p
    <3>2. q.n = 0 /\ q.pc = "stamp" /\ q.op = "others"
      BY <2>2, <3>1 DEF Fresh
    <3> QED BY <1>2, <2>1, <3>2, OneOwn
  <2>4. CASE p.op = "read"
    <3>1. OwnOK(q)
      BY <2>2, <2>4
    <3> HIDE DEF q
    <3> QED BY <2>1, <3>1, OneOwn
  <2> QED BY <2>3, <2>4
<1>11. CASE S!Drop(r)
  <2> DEFINE q == IF p.op = "signout" THEN S!Answered(p, None)
                  ELSE [p EXCEPT !.now = S!IssuedAt(p), !.pc = "mint"]
  <2>1. /\ req' = [req EXCEPT ![r] = q] /\ UNCHANGED <<stamps, own>>
        /\ \A s \in Sid : kv'[s] \in {kv[s], None}
        /\ p.pc = "drop"
    BY <1>1, <1>11 DEF S!Drop, S!At, S!history
  <2>2. CASE p.op = "signout"
    <3>1. OwnOK(q)
      BY <1>2, <1>9, <2>2
    <3> HIDE DEF q
    <3> QED BY <2>1, <3>1, OneOwn
  <2>3. CASE p.op # "signout"
    <3>1. q = [p EXCEPT !.now = S!IssuedAt(p), !.pc = "mint"]
      BY <2>3
    <3>2. p.op = "others" => S!IssuedAt(p) > p.now
      BY <1>1 DEF S!IssuedAt, Visit
    <3>3. p.now \in Nat /\ S!IssuedAt(p) \in Nat
      BY <1>1 DEF S!IssuedAt, Visit
    <3> HIDE DEF q, p
    <3>4. q.n = p.n /\ q.pc = "mint" /\ q.now = S!IssuedAt(p)
      BY <1>1, <3>1 DEF Visit
    <3>5. \A h \in stamps : h.n = q.n => h.epoch < q.now
      BY <1>1, <2>1, <3>2, <3>3, <3>4, StampNumbers DEF OwnOK
    <3>6. OwnOK(q)
      BY <1>1, <3>4, <3>5 DEF OwnOK
    <3> QED BY <2>1, <3>6, OneOwn
  <2> QED BY <2>2, <2>3
<1>12. CASE S!Respond(r) \/ S!Fail(r)
  <2>1. UNCHANGED <<kv, stamps, own>> /\ req' = [req EXCEPT ![r] = S!Idle]
    BY <1>12 DEF S!Respond, S!Fail, S!store, S!history
  <2>2. OwnOK(S!Idle)
    BY <1>2 DEF S!Idle
  <2> QED BY <2>1, <2>2, OneOwn
<1> QED BY <1>4, <1>5, <1>6, <1>7, <1>13, <1>8, <1>10, <1>11, <1>12

\* The check and the slide carry the record to where it came from.
LEMMA CheckOwn ==
    ASSUME StampInv, EndedInv, OwnInv, NEW r \in Request,
           S!GetSession(r) \/ S!GetRevocation(r) \/ S!Slide(r)
    PROVE  OwnInv'
<1> DEFINE p == req[r]
<1>1. /\ req \in [Request -> Visit] /\ p \in Visit /\ VisitOK(p) /\ StampsOK /\ OwnOK(p)
      /\ kv \in [Sid -> S!Rec \union {None}]
  BY DEF StampInv, VisitsOK, StoreOK, OwnInv
<1>2. CASE S!GetSession(r)
  <2> DEFINE rec == kv[p.sid]
             q == CASE rec = None -> S!Answered(p, "keep")
                    [] rec # None /\ rec.expires < clock -> [p EXCEPT !.pc = "reap"]
                    [] OTHER -> [p EXCEPT !.pc = "rev", !.now = clock, !.rec = rec]
  <2>1. UNCHANGED <<kv, stamps, own>> /\ req' = [req EXCEPT ![r] = q] /\ p.pc = "get"
    BY <1>1, <1>2 DEF S!GetSession, S!At, S!store, S!history
  <2>2. OwnOK(q)
    <3>1. CASE rec = None
      <4>1. q = S!Idle
        BY <3>1 DEF S!Answered
      <4> HIDE DEF q
      <4> QED BY <1>1, <4>1, StampNumbers DEF OwnOK, S!Idle
    <3>2. CASE rec # None
      <4>1. \/ q = [p EXCEPT !.pc = "reap"]
            \/ q = [p EXCEPT !.pc = "rev", !.now = clock, !.rec = rec]
        BY <3>2
      <4>2. Past(rec, own[p.sid])
        BY <1>1, <2>1, <3>2 DEF OwnInv, VisitOK
      <4> HIDE DEF q, p, rec
      <4>3. q.n = p.n /\ q.sid = p.sid /\ (q.pc = "reap" \/ (q.pc = "rev" /\ q.rec = rec))
        BY <1>1, <4>1 DEF Visit
      <4> QED BY <1>1, <4>2, <4>3 DEF OwnOK
    <3> QED BY <3>1, <3>2
  <2> HIDE DEF q
  <2> QED BY <2>1, <2>2, OneOwn
<1>3. CASE S!GetRevocation(r)
  <2>1. PICK pc_ \in {"reap", "slide", "served"} : req' = [req EXCEPT ![r].pc = pc_]
    <3>1. PICK g \in S!Readable(p.rec.user) :
            S!Goto(r, CASE S!Revoked(p.rec, g) -> "reap"
                        [] ~S!Revoked(p.rec, g) /\ S!Due(p.rec, p.now) -> "slide"
                        [] OTHER -> "served")
      BY <1>3 DEF S!GetRevocation
    <3> DEFINE pc_ == CASE S!Revoked(p.rec, g) -> "reap"
                        [] ~S!Revoked(p.rec, g) /\ S!Due(p.rec, p.now) -> "slide"
                        [] OTHER -> "served"
    <3>2. pc_ \in {"reap", "slide", "served"} /\ S!Goto(r, pc_)
      BY <3>1
    <3> HIDE DEF pc_
    <3> QED BY <3>2 DEF S!Goto
  <2> DEFINE q == [p EXCEPT !.pc = pc_]
  <2>2. UNCHANGED <<kv, stamps, own>> /\ req' = [req EXCEPT ![r] = q] /\ p.pc = "rev"
    BY <1>1, <1>3, <2>1 DEF S!GetRevocation, S!At, S!store, S!history
  <2>3. q.sid = p.sid /\ q.n = p.n /\ q.rec = p.rec /\ q.pc = pc_
    BY <1>1 DEF Visit
  <2> HIDE DEF q, p
  <2>4. OwnOK(q)
    BY <1>1, <2>2, <2>3 DEF OwnOK
  <2> QED BY <2>2, <2>4, OneOwn
<1>4. CASE S!Slide(r)
  <2> DEFINE q == [p EXCEPT !.pc = "served", !.out = p.sid]
             w == S!Renewed(p.rec, p.now)
  <2>1. /\ UNCHANGED <<stamps, own>> /\ p.pc = "slide" /\ p.sid \in Sid /\ p.rec \in S!Rec
        /\ req' = [req EXCEPT ![r] = q] /\ kv' = [kv EXCEPT ![p.sid] = w]
    BY <1>1, <1>4 DEF S!Slide, S!At, VisitOK
  <2>2. q.n = p.n /\ q.pc = "served" /\ w.issued = p.rec.issued
    BY <1>1, <2>1 DEF Visit, S!Renewed, S!Rec
  <2> HIDE DEF p, q, w
  <2>3. OwnOK(q) /\ Past(w, own[p.sid])
    BY <1>1, <2>1, <2>2 DEF OwnOK, Past
  <2>4. \A s \in Sid : kv'[s] = kv[s] \/ (s = p.sid /\ kv'[s] = w)
    BY <1>1, <2>1
  <2> QED BY <2>1, <2>3, <2>4, OneOwn
<1> QED BY <1>2, <1>3, <1>4

\* The stamp that lands is later than any a session was issued by.
LEMMA StampOwn ==
    ASSUME StampInv, OwnInv, NEW r \in Request, S!PutStamp(r)
    PROVE  OwnInv'
<1> DEFINE p == req[r]
           total == Cardinality(stamps)
           h == [user |-> p.user, epoch |-> p.now, landed |-> clock, n |-> total + 1]
           q == IF p.op = "revoke" THEN S!Idle ELSE [p EXCEPT !.n = h.n, !.pc = "drop"]
<1>1. /\ req \in [Request -> Visit] /\ p \in Visit /\ StampsOK /\ OwnOK(p) /\ total \in Nat
      /\ kv \in [Sid -> S!Rec \union {None}]
  BY FS_CardinalityType DEF StampInv, StampsOK, VisitsOK, StoreOK, OwnInv
<1>2. /\ UNCHANGED <<kv, own>> /\ stamps' = stamps \union {h} /\ req' = [req EXCEPT ![r] = q]
      /\ p.pc = "stamp"
  BY <1>1, SameCardinality DEF S!PutStamp, S!At
<1>3. h.n = total + 1 /\ h.epoch = p.now
  OBVIOUS
<1>4. Cardinality(stamps') = total + 1
  <2>1. h \notin stamps
    BY <1>1, <1>3, StampNumbers
  <2> QED BY <1>1, <1>2, <2>1, FS_AddElement DEF StampsOK
<1>5. \/ q = S!Idle
      \/ p.op # "revoke" /\ q = [p EXCEPT !.n = h.n, !.pc = "drop"]
  OBVIOUS
<1> HIDE DEF h, q, total, p
<1>6. \A n \in Nat : \A rec : n <= total /\ Past(rec, n) => Past(rec, n)'
  BY <1>1, <1>2, <1>3 DEF Past
<1>7. ASSUME NEW k \in Visit, OwnOK(k), VisitOK(k)
      PROVE  OwnOK(k)'
  <2>1. k.n \in Nat /\ k.n <= total
    BY <1>7 DEF Visit, OwnOK, total
  <2>2. \A g \in stamps' : g.n = k.n => g \in stamps
    BY <1>1, <1>2, <1>3, <2>1
  <2>3. k.pc \in {"rev", "slide"} => own[k.sid] \in Nat /\ own[k.sid] <= total
    BY <1>7 DEF VisitOK, OwnInv, total
  <2> QED BY <1>1, <1>2, <1>4, <1>6, <1>7, <2>1, <2>2, <2>3 DEF OwnOK
<1>8. \A k : k = q => OwnOK(k)'
  <2>1. CASE q = S!Idle
    <3>1. \A g \in stamps' : g.n # 0
      BY <1>1, <1>2, <1>3, StampNumbers
    <3> QED BY <1>1, <1>4, <2>1, <3>1 DEF OwnOK, S!Idle
  <2>2. CASE p.op # "revoke" /\ q = [p EXCEPT !.n = h.n, !.pc = "drop"]
    <3>1. q.n = h.n /\ q.pc = "drop" /\ q.op = p.op /\ q.now = p.now /\ p.op = "others"
      BY <1>1, <1>2, <2>2 DEF Visit, OwnOK
    <3>2. \A g \in stamps' : g.n = h.n => g.epoch = p.now
      BY <1>1, <1>2, <1>3, StampNumbers DEF total
    <3> QED BY <1>1, <1>3, <1>4, <3>1, <3>2 DEF OwnOK
  <2> QED BY <1>5, <2>1, <2>2
<1>9. \A k \in Request : req'[k] = q \/ (req'[k] \in Visit /\ OwnOK(req'[k]) /\ VisitOK(req'[k]))
  BY <1>1, <1>2 DEF StampInv, VisitsOK, OwnInv
<1>10. \A k \in Request : OwnOK(req[k])'
  BY <1>7, <1>8, <1>9
<1>11. \A s \in Sid : own'[s] <= Cardinality(stamps)' /\ (kv'[s] # None => Past(kv[s], own[s])')
  <2>1. \A s \in Sid : own[s] \in Nat /\ own[s] <= total /\ (kv[s] # None => Past(kv[s], own[s]))
    BY DEF OwnInv, total
  <2> QED BY <1>1, <1>2, <1>4, <1>6, <2>1
<1> QED BY <1>2, <1>10, <1>11 DEF OwnInv

LEMMA MintOwn ==
    ASSUME StampInv, EndedInv, OwnInv, NEW r \in Request, S!Mint(r)
    PROVE  OwnInv'
<1> DEFINE p == req[r]
<1>1. /\ req \in [Request -> Visit] /\ p \in Visit /\ StampsOK /\ OwnOK(p) /\ p.pc = "mint"
      /\ kv \in [Sid -> S!Rec \union {None}] /\ own \in [Sid -> Nat]
  BY DEF StampInv, VisitsOK, StoreOK, OwnInv, S!Mint, S!At
<1>2. PICK s \in Sid \ minted :
          /\ kv' = [kv EXCEPT ![s] = [user |-> p.user, issued |-> p.now,
                                      expires |-> p.now + TTL]]
          /\ own' = [own EXCEPT ![s] = p.n]
          /\ req' = [req EXCEPT ![r] = S!Answered(p, s)] /\ UNCHANGED stamps
  BY <1>1 DEF S!Mint
<1> DEFINE w == [user |-> p.user, issued |-> p.now, expires |-> p.now + TTL]
           a == S!Answered(p, s)
<1>3. w.issued = p.now /\ a.n = 0 /\ a.pc \in {"idle", "respond"}
  BY DEF S!Answered, S!Idle
<1>4. kv' = [kv EXCEPT ![s] = w] /\ req' = [req EXCEPT ![r] = a]
  BY <1>2
<1> HIDE DEF w, a
<1>5. Past(w, p.n) /\ p.n \in Nat /\ p.n <= Cardinality(stamps)
  BY <1>1, <1>3 DEF OwnOK, Past, Visit
<1>6. \A k : k = a => OwnOK(k)'
  BY <1>1, <1>2, <1>3, StampNumbers DEF OwnOK
<1>7. ASSUME NEW k \in Request, k # r
      PROVE  OwnOK(req[k])'
  <2>1. req'[k] = req[k] /\ OwnOK(req[k]) /\ EndedOK(req[k])
    BY <1>1, <1>4, <1>7 DEF OwnInv, EndedInv
  <2>2. req[k].pc \in {"rev", "slide"} => own'[req[k].sid] = own[req[k].sid]
    BY <1>1, <1>2, <2>1 DEF EndedOK
  <2> QED BY <1>2, <2>1, <2>2 DEF OwnOK, Past
<1>8. OwnOK(req[r])'
  BY <1>1, <1>4, <1>6
<1>9. \A k \in Sid : own'[k] <= Cardinality(stamps)' /\ (kv'[k] # None => Past(kv'[k], own'[k]))
  BY <1>1, <1>2, <1>4, <1>5 DEF OwnInv
<1>10. own' \in [Sid -> Nat]
  BY <1>1, <1>2, <1>5
<1> QED BY <1>2, <1>7, <1>8, <1>9, <1>10 DEF OwnInv, Past

LEMMA OwnBegin == S!Init => OwnInv
<1> SUFFICES ASSUME S!Init PROVE OwnInv
  OBVIOUS
<1>1. stamps = {} /\ Cardinality(stamps) = 0
  BY FS_EmptySet DEF S!Init
<1>2. OwnOK(S!Idle)
  BY <1>1 DEF OwnOK, S!Idle
<1> QED BY <1>1, <1>2 DEF S!Init, OwnInv

LEMMA OwnStep == StampInv /\ EndedInv /\ OwnInv /\ [S!Next]_(S!vars) => OwnInv'
<1> SUFFICES ASSUME StampInv, EndedInv, OwnInv, [S!Next]_(S!vars)
             PROVE  OwnInv'
  OBVIOUS
<1>1. CASE UNCHANGED S!vars \/ S!Tick
  <2>1. UNCHANGED <<kv, req, own, stamps>>
    BY <1>1 DEF S!vars, S!store, S!history, S!Tick
  <2> QED BY <2>1 DEF OwnInv, OwnOK, Past
<1>2. CASE S!Next
  <2>1. ASSUME NEW r \in Request,
               \/ \E b \in Browser : S!StartRead(r, b) \/ S!StartSignout(r, b)
               \/ \E u \in Holder :
                    \/ S!StartRevoke(r, u)
                    \/ \E b \in Browser : S!StartLogin(r, b, u) \/ S!StartOwnerLogin(r, b, u)
               \/ S!Reap(r) \/ S!Serve(r) \/ S!Drop(r) \/ S!Respond(r) \/ S!Fail(r)
        PROVE  OwnInv'
    BY <2>1, QuietOwn
  <2>2. ASSUME NEW r \in Request,
               S!GetSession(r) \/ S!GetRevocation(r) \/ S!Slide(r) \/ S!PutStamp(r) \/ S!Mint(r)
        PROVE  OwnInv'
    BY <2>2, CheckOwn, StampOwn, MintOwn
  <2> QED BY <1>1, <1>2, <2>1, <2>2 DEF S!Next
<1> QED BY <1>1, <1>2

\* Signing out everywhere else keeps the caller signed in: no session is
\* refused on account of the stamp of the request it was issued by.
THEOREM CallerStaysIn == S!Spec => S!CallerKeepsSession
<1>1. ASSUME StampInv, [S!Next]_(S!vars), NEW r \in Request,
             S!At(r, "rev"), req'[r].pc = "reap"
      PROVE  S!GetRevocation(r)
  <2>1. req \in [Request -> Visit] /\ req[r].pc = "rev" /\ req'[r] # req[r]
    BY <1>1 DEF StampInv, VisitsOK, S!At
  <2>2. PICK k \in Request :
          \/ \E b \in Browser : S!StartRead(k, b) \/ S!StartSignout(k, b)
          \/ \E u \in Holder :
               \/ S!StartRevoke(k, u)
               \/ \E b \in Browser : S!StartLogin(k, b, u) \/ S!StartOwnerLogin(k, b, u)
          \/ S!GetSession(k) \/ S!GetRevocation(k) \/ S!Reap(k) \/ S!Slide(k) \/ S!Serve(k)
          \/ S!PutStamp(k) \/ S!Drop(k) \/ S!Mint(k) \/ S!Respond(k) \/ S!Fail(k)
    <3>1. ~S!Tick /\ ~(UNCHANGED S!vars)
      BY <2>1 DEF S!Tick, S!vars, S!store, S!history
    <3> QED BY <1>1, <3>1 DEF S!Next
  <2>3. \E q : req' = [req EXCEPT ![k] = q]
    BY <2>2 DEF S!StartRead, S!StartSignout, S!StartRevoke, S!StartLogin, S!StartOwnerLogin,
       S!Arrive, S!GetSession, S!GetRevocation, S!Goto, S!Reap, S!Slide, S!Serve, S!PutStamp, S!Drop, S!Mint,
       S!Respond, S!Fail
  <2>4. k = r
    BY <2>1, <2>3
  <2>5. CASE S!Fail(k)
    BY <1>1, <2>1, <2>4, <2>5, IdleVisit DEF S!Fail
  <2> QED BY <2>1, <2>2, <2>4, <2>5 DEF S!StartRead, S!StartSignout, S!StartRevoke, S!StartLogin,
           S!StartOwnerLogin, S!Arrive, S!GetSession, S!Reap, S!Slide, S!Serve, S!PutStamp, S!Drop, S!Mint,
           S!Respond, S!At
<1>2. ASSUME StampInv, OwnInv, [S!Next]_(S!vars), NEW r \in Request,
             S!At(r, "rev"), req'[r].pc = "reap"
      PROVE  \E g \in S!Readable(req[r].rec.user) :
               S!Revoked(req[r].rec, g) /\ g.n # own[req[r].sid]
  <2> DEFINE p == req[r]
             u == p.rec.user
  <2>1. /\ req \in [Request -> Visit] /\ p \in Visit /\ p.pc = "rev" /\ StampsOK /\ LastStamps
        /\ VisitOK(p) /\ OwnOK(p)
    BY <1>2 DEF StampInv, VisitsOK, OwnInv, S!At
  <2>2. p.rec \in S!Rec /\ u \in Holder /\ p.rec.issued \in Nat
    BY <2>1 DEF VisitOK, S!Rec
  <2>3. PICK g \in S!Readable(u) : S!Revoked(p.rec, g)
    <3>1. PICK g \in S!Readable(u) :
            S!Goto(r, CASE S!Revoked(p.rec, g) -> "reap"
                        [] ~S!Revoked(p.rec, g) /\ S!Due(p.rec, p.now) -> "slide"
                        [] OTHER -> "served")
      BY <1>1, <1>2 DEF S!GetRevocation
    <3> DEFINE pc_ == CASE S!Revoked(p.rec, g) -> "reap"
                        [] ~S!Revoked(p.rec, g) /\ S!Due(p.rec, p.now) -> "slide"
                        [] OTHER -> "served"
    <3>2. S!Goto(r, pc_) /\ (pc_ = "reap" => S!Revoked(p.rec, g))
      BY <3>1
    <3> HIDE DEF pc_
    <3>3. req' = [req EXCEPT ![r].pc = pc_]
      BY <3>2 DEF S!Goto
    <3>4. req'[r].pc = pc_
      BY <2>1, <3>3 DEF Visit
    <3> QED BY <1>2, <3>2, <3>4
  <2>4. g \in stamps /\ g.epoch \in Nat
    BY <2>1, <2>2, <2>3, StampNumbers DEF S!Revoked, S!Live, S!Readable, LastStamps
  <2>5. Past(p.rec, own[p.sid])
    BY <2>1 DEF OwnOK
  <2> HIDE DEF p, u
  <2>6. g.n # own[p.sid]
    BY <2>2, <2>3, <2>4, <2>5 DEF S!Revoked, Past
  <2> QED BY <2>3, <2>6 DEF p, u
<1>3. StampInv /\ OwnInv /\ [S!Next]_(S!vars) =>
        [\A r \in Request :
           S!At(r, "rev") /\ req'[r].pc = "reap" =>
             \E g \in S!Readable(req[r].rec.user) :
               S!Revoked(req[r].rec, g) /\ g.n # own[req[r].sid]]_(S!vars)
  BY <1>2
<1>4. S!Spec => [](StampInv /\ EndedInv /\ OwnInv)
  BY SessionsInvariant, EndedBegin, EndedStep, OwnBegin, OwnStep, PTL DEF S!Spec
<1> QED BY <1>3, <1>4, PTL DEF S!Spec, S!CallerKeepsSession

-----------------------------------------------------------------------------
(* Numbers *)

LEMMA LeastOf == ASSUME NEW M \in SUBSET Nat, M # {} PROVE \E m \in M : \A k \in M : m <= k
<1> DEFINE R == OpToRel(<, Nat)
<1>1. IsWellFoundedOn(R, Nat)
  BY NatLessThanWellFounded
<1>2. \A a, b \in Nat : a < b => <<a, b>> \in R
  BY DEF OpToRel
<1> HIDE DEF R
<1>3. \E m \in M : \A k \in M : <<k, m>> \notin R
  BY <1>1, WFMin
<1>4. PICK m \in M : \A k \in M : <<k, m>> \notin R
  BY <1>3
<1>5. \A k \in M : ~(k < m)
  BY <1>2, <1>4
<1> QED BY <1>5

-----------------------------------------------------------------------------
(* Files *)

\* The adapters count with their own instance of FiniteSets.
LEMMA FilesCount == \A X : A!Cardinality(X) = Cardinality(X)
BY DEF A!Cardinality, Cardinality

\* What has been planned was planned of the file as it stands.
FileFits ==
    /\ format \in Format /\ listing \in A!Listings(format)
    /\ file \in Seq(A!Raw(format))
    /\ options \in A!Options(format)
    /\ result.at = "planned" => result = A!Plan /\ ~A!Refuse

\* What a file may hold depends on its format only.
LEMMA SameFormat ==
    ASSUME UNCHANGED format
    PROVE  /\ (A!Raw(format))' = A!Raw(format) /\ (A!Options(format))' = A!Options(format)
           /\ (A!Listings(format))' = A!Listings(format)
BY DEF A!Raw, A!Options, A!Listings, A!Lists, A!Pages, A!Author, A!Sites, A!Status

\* What is planned depends on the file, its format and the options only.
LEMMA SameFile ==
    ASSUME UNCHANGED <<format, listing, file, options>>
    PROVE  /\ (A!Raw(format))' = A!Raw(format) /\ (A!Options(format))' = A!Options(format)
           /\ (A!Listings(format))' = A!Listings(format)
           /\ A!Plan' = A!Plan /\ (A!Refuse' <=> A!Refuse)
<1>1. /\ (A!Raw(format))' = A!Raw(format) /\ (A!Options(format))' = A!Options(format)
      /\ (A!Listings(format))' = A!Listings(format)
  BY SameFormat
<1>2. A!Named' = A!Named /\ A!Unselected' = A!Unselected /\ A!Selected' = A!Selected
  <2>1. A!Named' = A!Named
    BY DEF A!Named, A!Lists
  <2> QED BY <2>1 DEF A!Unselected, A!Selected
<1>3. A!Handed' = A!Handed
  BY <1>2 DEF A!Handed
<1>4. A!Threads' = A!Threads
  BY <1>3 DEF A!Threads
<1>5. \A p : (A!Slug(p))' = A!Slug(p)
  BY DEF A!Slug, A!Candidate, A!ByPath
<1>6. \A c : (A!Row(c))' = A!Row(c) /\ (A!Skipped(c)' <=> A!Skipped(c))
  BY <1>5 DEF A!Row, A!Seed, A!Skipped
<1>7. A!Kept' = A!Kept
  BY <1>3, <1>6 DEF A!Kept
<1>8. A!Merged' = A!Merged
  <2>1. \A g : (A!Winner(g))' = A!Winner(g)
    BY <1>4, <1>5 DEF A!Winner
  <2>2. \A p : (A!Winner(A!Slug(p)))' = A!Winner(A!Slug(p))
    BY <1>4, <1>5 DEF A!Winner
  <2> QED BY <1>4, <1>5, <2>2 DEF A!Merged
<1>9. A!Plan' = A!Plan
  <2>1. {A!Slug(p) : p \in A!Threads}' = {A!Slug(p) : p \in A!Threads}
    BY <1>4, <1>5
  <2>2. [i \in {j \in A!Kept : file[j].page \in A!Threads} |-> A!Row(file[i])]'
          = [i \in {j \in A!Kept : file[j].page \in A!Threads} |-> A!Row(file[i])]
    <3>1. \A i : (A!Row(file[i]))' = A!Row(file[i])
      BY <1>5 DEF A!Row, A!Seed
    <3> QED BY <1>4, <1>7, <3>1
  <2> QED BY <1>3, <1>7, <1>8, <2>1, <2>2 DEF A!Plan
<1>10. A!Refuse' <=> A!Refuse
  BY <1>2 DEF A!Refuse, A!Malformed
<1> QED BY <1>1, <1>9, <1>10

\* A plan is of the file as it stands, or there is none and the file was refused:
\* what parsing returns is not touched until the next file.
THEOREM FilesInvariant == A!Spec => []FileFits
<1>1. A!Init => FileFits
  <2> SUFFICES ASSUME A!Init PROVE FileFits
    OBVIOUS
  <2>1. result.at # "planned"
    BY DEF A!Init
  <2> QED BY <2>1 DEF A!Init, FileFits
<1>2. FileFits /\ [A!Next]_(A!vars) => FileFits'
  <2> SUFFICES ASSUME FileFits, [A!Next]_(A!vars) PROVE FileFits'
    OBVIOUS
  <2>1. CASE A!Write
    <3>1. PICK c \in A!Raw(format) : file' = Append(file, c)
      BY <2>1 DEF A!Write
    <3>2. UNCHANGED <<format, listing, options, result>> /\ result.at = "writing"
      BY <2>1 DEF A!Write
    <3>3. /\ (A!Raw(format))' = A!Raw(format) /\ (A!Options(format))' = A!Options(format)
          /\ (A!Listings(format))' = A!Listings(format)
      BY <3>2, SameFormat
    <3>4. file' \in Seq(A!Raw(format))
      BY <3>1 DEF FileFits
    <3> QED BY <3>2, <3>3, <3>4 DEF FileFits
  <2>2. CASE A!Parse
    <3>1. UNCHANGED <<format, listing, file, options>>
      BY <2>2 DEF A!Parse
    <3>2. result' = IF A!Refuse THEN [at |-> "refused"] ELSE A!Plan
      BY <2>2 DEF A!Parse
    <3>3. result'.at = "planned" => result' = A!Plan /\ ~A!Refuse
      BY <3>2
    <3> QED BY <3>1, <3>3, SameFile DEF FileFits
  <2>3. CASE UNCHANGED A!vars
    BY <2>3, SameFile DEF A!vars, FileFits
  <2> QED BY <2>1, <2>2, <2>3 DEF A!Next
<1> QED BY <1>1, <1>2, PTL DEF A!Spec

\* What a comment of a file is made of.
LEMMA RawIs ==
    ASSUME format \in Format, NEW c \in A!Raw(format)
    PROVE  /\ c.page \in A!Pages(format) /\ c.site \in A!Sites(format) \cup {A!None}
           /\ c.who \in {"", "ann"} \cup SourceAccount
           /\ c.who \in SourceAccount => format \in {"remark42", "commento", "comentario"}
<1> USE FileAssumption DEF FileAssumption
<1>1. /\ c.page \in A!Pages(format) /\ c.who \in A!Author(format)
      /\ c.site \in A!Sites(format) \cup (IF format = "comentario" THEN {A!None} ELSE {})
  BY DEF A!Raw
<1> QED BY <1>1 DEF A!Author

\* OneOrTwo differ when their lengths do, or an element.
LEMMA OneOrTwo == \A x, u, v : <<x>> # <<u, v>>
<1>1. \A x, u, v : Len(<<x>>) = 1 /\ Len(<<u, v>>) = 2
  OBVIOUS
<1> QED BY <1>1

LEMMA TwoOrThree == \A x, y, u, v, w : <<x, y>> # <<u, v, w>>
<1>1. \A x, u, v, w : Len(<<x, u>>) = 2 /\ Len(<<u, v, w>>) = 3
  OBVIOUS
<1> QED BY <1>1

\* authorSeed: two comments get one ghost when they are one person's.
LEMMA GhostsArePeople ==
    ASSUME format \in Format, NEW c \in A!Raw(format), NEW d \in A!Raw(format)
    PROVE  (A!Seed(c) = A!Seed(d)) = (A!Person(c) = A!Person(d))
<1> DEFINE Known(x)  == x.who \in SourceAccount
           Erased(x) == format = "isso" /\ x.state = "mode4"
<1>1. \A x \in {c, d} : /\ x.who \in {"", "ann"} \cup SourceAccount
                        /\ Known(x) => format # "isso"
  BY RawIs
<1>2. \A x \in {c, d} :
         /\ Known(x) => A!Seed(x) = <<"id", format, x.who>>
         /\ Erased(x) => A!Seed(x) = <<"id", "isso", "tombstone">>
         /\ ~Known(x) /\ ~Erased(x) =>
              A!Seed(x) = <<"name", IF x.who = "" THEN "anonymous" ELSE x.who>>
  BY <1>1 DEF A!Seed
<1>3. \A x \in {c, d} :
         /\ Erased(x) => A!Person(x) = <<"tombstone">>
         /\ ~Erased(x) => A!Person(x) = <<Known(x), x.who>>
  BY DEF A!Person
<1> HIDE DEF Known, Erased
<1>4. CASE Erased(c) /\ Erased(d)
  BY <1>2, <1>3, <1>4
<1>5. CASE Erased(c) /\ ~Erased(d)
  <2>1. A!Person(c) # A!Person(d)
    BY <1>3, <1>5, OneOrTwo
  <2>2. A!Seed(c) # A!Seed(d)
    <3>1. A!Seed(c) = <<"id", "isso", "tombstone">>
      BY <1>2, <1>5
    <3>2. CASE Known(d)
      <4>1. A!Seed(d) = <<"id", format, d.who>> /\ format # "isso"
        BY <1>1, <1>2, <3>2
      <4>2. A!Seed(c)[2] # A!Seed(d)[2]
        BY <3>1, <4>1
      <4> QED BY <4>2
    <3>3. CASE ~Known(d)
      <4>1. \E x : A!Seed(d) = <<"name", x>>
        BY <1>2, <1>5, <3>3
      <4> QED BY <3>1, <4>1, TwoOrThree
    <3> QED BY <3>2, <3>3
  <2> QED BY <2>1, <2>2
<1>6. CASE ~Erased(c) /\ Erased(d)
  <2>1. A!Person(c) # A!Person(d)
    BY <1>3, <1>6, OneOrTwo
  <2>2. A!Seed(c) # A!Seed(d)
    <3>1. A!Seed(d) = <<"id", "isso", "tombstone">>
      BY <1>2, <1>6
    <3>2. CASE Known(c)
      <4>1. A!Seed(c) = <<"id", format, c.who>> /\ format # "isso"
        BY <1>1, <1>2, <3>2
      <4>2. A!Seed(c)[2] # A!Seed(d)[2]
        BY <3>1, <4>1
      <4> QED BY <4>2
    <3>3. CASE ~Known(c)
      <4>1. \E x : A!Seed(c) = <<"name", x>>
        BY <1>2, <1>6, <3>3
      <4> QED BY <3>1, <4>1, TwoOrThree
    <3> QED BY <3>2, <3>3
  <2> QED BY <2>1, <2>2
<1>7. CASE ~Erased(c) /\ ~Erased(d)
  <2>1. A!Person(c) = A!Person(d) <=> c.who = d.who
    <3>1. A!Person(c) = <<Known(c), c.who>> /\ A!Person(d) = <<Known(d), d.who>>
      BY <1>3, <1>7
    <3>2. c.who = d.who => A!Person(c) = A!Person(d)
      BY <3>1 DEF Known
    <3>3. A!Person(c) = A!Person(d) => c.who = d.who
      <4>1. A!Person(c)[2] = c.who /\ A!Person(d)[2] = d.who
        BY <3>1
      <4> QED BY <4>1
    <3> QED BY <3>2, <3>3
  <2>2. A!Seed(c) = A!Seed(d) <=> c.who = d.who
    <3> DEFINE Ghost(x) == IF x.who = "" THEN "anonymous" ELSE x.who
    <3>1. \A x \in {c, d} : /\ Known(x) => A!Seed(x) = <<"id", format, x.who>>
                            /\ ~Known(x) => A!Seed(x) = <<"name", Ghost(x)>>
      BY <1>2, <1>7
    <3>2. ~Known(c) /\ ~Known(d) => (Ghost(c) = Ghost(d) <=> c.who = d.who)
      BY <1>1, FileAssumption DEF Known, FileAssumption
    <3>3. c.who = d.who => (Known(c) <=> Known(d))
      BY DEF Known
    <3> HIDE DEF Ghost
    <3>4. CASE Known(c) /\ Known(d)
      <4>1. A!Seed(c) = <<"id", format, c.who>> /\ A!Seed(d) = <<"id", format, d.who>>
        BY <3>1, <3>4
      <4>2. A!Seed(c)[3] = c.who /\ A!Seed(d)[3] = d.who
        BY <4>1
      <4> QED BY <4>1, <4>2
    <3>5. CASE ~Known(c) /\ ~Known(d)
      <4>1. A!Seed(c) = <<"name", Ghost(c)>> /\ A!Seed(d) = <<"name", Ghost(d)>>
        BY <3>1, <3>5
      <4>2. A!Seed(c)[2] = Ghost(c) /\ A!Seed(d)[2] = Ghost(d)
        BY <4>1
      <4> QED BY <3>2, <3>5, <4>1, <4>2
    <3>6. CASE ~(Known(c) <=> Known(d))
      <4>1. A!Seed(c) # A!Seed(d)
        BY <3>1, <3>6, TwoOrThree
      <4> QED BY <3>3, <3>6, <4>1
    <3> QED BY <3>4, <3>5, <3>6
  <2> QED BY <2>1, <2>2
<1> QED BY <1>4, <1>5, <1>6, <1>7

\* linkPath, slugFromPath and their fallbacks: pages meet under a slug when they
\* are the same to Garrul.
LEMMA PagesAre ==
    ASSUME NEW p \in A!Pages(format)
    PROVE  /\ p \in [host : {"here", "there", "none"}, path : STRING,
                     query : STRING, slashed : BOOLEAN]
           /\ A!ByPath(format) => p.host = "here"
BY FileAssumption DEF FileAssumption, A!Pages, A!ByPath

LEMMA CandidatesMeet ==
    ASSUME NEW p \in A!Pages(format), NEW q \in A!Pages(format)
    PROVE  A!Candidate(p) = A!Candidate(q) <=> A!SamePage(p, q)
<1>1. \A x, y, z : /\ <<"root">>[1] = "root"
                   /\ <<"path", x, y>>[1] = "path" /\ <<"path", x, y>>[2] = x
                   /\ <<"path", x, y>>[3] = y
                   /\ <<"id", z>>[1] = "id" /\ <<"id", z>>[2] = z
  OBVIOUS
<1>2. CASE A!ByPath(format)
  <2> DEFINE Root(x) == x.path = "" /\ x.query = ""
  <2>1. ASSUME NEW x \in {p, q}
        PROVE  /\ Root(x) => A!Candidate(x) = <<"root">>
               /\ ~Root(x) => A!Candidate(x) = <<"path", x.path, x.query>>
    BY <1>2 DEF A!Candidate
  <2>2. A!SamePage(p, q) <=> p.path = q.path /\ p.query = q.query
    BY <1>2 DEF A!SamePage
  <2>3. Root(p) /\ Root(q) => A!SamePage(p, q)
    BY <2>2
  <2>4. A!SamePage(p, q) => (Root(p) <=> Root(q))
    BY <2>2
  <2> HIDE DEF Root
  <2>5. CASE Root(p) /\ Root(q)
    BY <2>1, <2>3, <2>5
  <2>6. CASE ~(Root(p) <=> Root(q))
    <3>1. A!Candidate(p)[1] # A!Candidate(q)[1]
      BY <1>1, <2>1, <2>6
    <3> QED BY <2>4, <2>6, <3>1
  <2>7. CASE ~Root(p) /\ ~Root(q)
    <3>1. /\ A!Candidate(p) = <<"path", p.path, p.query>>
          /\ A!Candidate(q) = <<"path", q.path, q.query>>
      BY <2>1, <2>7
    <3>2. /\ A!Candidate(p)[2] = p.path /\ A!Candidate(p)[3] = p.query
          /\ A!Candidate(q)[2] = q.path /\ A!Candidate(q)[3] = q.query
      BY <1>1, <3>1
    <3> QED BY <2>2, <3>1, <3>2
  <2> QED BY <2>5, <2>6, <2>7
<1>3. CASE ~A!ByPath(format)
  <2> DEFINE Bare(x) == x.host = "none" \/ x.path = ""
  <2>1. ASSUME NEW x \in {p, q}
        PROVE  /\ Bare(x) => A!Candidate(x) = <<"id", x>>
               /\ ~Bare(x) => A!Candidate(x) = <<"path", x.path, "">>
    BY <1>3 DEF A!Candidate, A!LinkPath
  <2>2. A!SamePage(p, q) <=> p = q \/ (p.path = q.path /\ ~Bare(p) /\ ~Bare(q))
    BY <1>3 DEF A!SamePage
  <2> HIDE DEF Bare
  <2>3. CASE Bare(p) /\ Bare(q)
    <3>1. A!Candidate(p) = <<"id", p>> /\ A!Candidate(q) = <<"id", q>>
      BY <2>1, <2>3
    <3>2. A!Candidate(p)[2] = p /\ A!Candidate(q)[2] = q
      BY <1>1, <3>1
    <3> QED BY <2>2, <2>3, <3>2
  <2>4. CASE ~(Bare(p) <=> Bare(q))
    <3>1. ASSUME NEW x \in {p, q}
          PROVE  A!Candidate(x)[1] = "id" <=> Bare(x)
      <4>1. CASE Bare(x)
        <5>1. A!Candidate(x) = <<"id", x>>
          BY <2>1, <4>1
        <5> QED BY <1>1, <4>1, <5>1
      <4>2. CASE ~Bare(x)
        <5>1. A!Candidate(x) = <<"path", x.path, "">>
          BY <2>1, <4>2
        <5>2. \A y : <<"path", y, "">>[1] = "path"
          OBVIOUS
        <5>3. <<"path", x.path, "">>[1] = "path"
          BY <5>2
        <5> QED BY <4>2, <5>1, <5>3
      <4> QED BY <4>1, <4>2
    <3>2. A!Candidate(p) # A!Candidate(q)
      BY <2>4, <3>1
    <3> QED BY <2>2, <2>4, <3>2
  <2>5. CASE ~Bare(p) /\ ~Bare(q)
    <3>1. /\ A!Candidate(p) = <<"path", p.path, "">>
          /\ A!Candidate(q) = <<"path", q.path, "">>
      BY <2>1, <2>5
    <3>2. <<"path", p.path, "">> = <<"path", q.path, "">> <=> p.path = q.path
      OBVIOUS
    <3> QED BY <2>2, <2>5, <3>1, <3>2
  <2> QED BY <2>3, <2>4, <2>5
<1> QED BY <1>2, <1>3

LEMMA SlugsMeet ==
    ASSUME ~options.override, NEW p \in A!Pages(format), NEW q \in A!Pages(format)
    PROVE  A!Slug(p) = A!Slug(q) <=> A!SamePage(p, q)
<1>1. \A x : A!Slug(x) = IF A!Addressable(A!Candidate(x)) THEN A!Candidate(x)
                         ELSE <<"digest", A!Candidate(x)>>
  BY DEF A!Slug
<1>2. \A x : A!Candidate(x)[1] # "digest"
  BY DEF A!Candidate
<1>3. A!Slug(p) = A!Slug(q) <=> A!Candidate(p) = A!Candidate(q)
  <2>1. \A c : <<"digest", c>>[1] = "digest" /\ <<"digest", c>>[2] = c
    OBVIOUS
  <2>2. CASE ~(A!Addressable(A!Candidate(p)) <=> A!Addressable(A!Candidate(q)))
    <3>1. A!Candidate(p) # A!Candidate(q)
      BY <2>2
    <3> QED BY <1>1, <1>2, <2>1, <2>2, <3>1
  <2>3. CASE A!Addressable(A!Candidate(p)) <=> A!Addressable(A!Candidate(q))
    BY <1>1, <2>1, <2>3
  <2> QED BY <2>2, <2>3
<1> QED BY <1>3, CandidatesMeet

\* The places in a file, and its rows, are finitely many.
LEMMA PlacesFinite ==
    ASSUME FileFits
    PROVE  /\ DOMAIN file \in SUBSET Nat /\ IsFiniteSet(DOMAIN file)
           /\ \A i \in DOMAIN file : file[i] \in A!Raw(format)
           /\ A!Handed \in SUBSET DOMAIN file /\ A!Kept \in SUBSET A!Handed
<1>1. Len(file) \in Nat /\ DOMAIN file = 1..Len(file)
      /\ \A i \in DOMAIN file : file[i] \in A!Raw(format)
  BY DEF FileFits
<1>2. IsFiniteSet(1..Len(file))
  BY <1>1, FS_Interval
<1>3. A!Handed \in SUBSET DOMAIN file
  BY DEF A!Handed
<1>4. A!Kept \in SUBSET A!Handed
  BY DEF A!Kept
<1> QED BY <1>1, <1>2, <1>3, <1>4

\* What is planned, row by row.
LEMMA PlanIs ==
    ASSUME FileFits, A!Planned
    PROVE  /\ ~A!Refuse
           /\ result.pages = {A!Slug(p) : p \in A!Threads}
           /\ DOMAIN result.rows = {i \in A!Kept : file[i].page \in A!Threads}
           /\ \A i \in DOMAIN result.rows : result.rows[i] = A!Row(file[i])
           /\ result.skipped = Cardinality(A!Handed \ A!Kept)
           /\ result.merged = Cardinality(A!Merged)
<1>1. result = A!Plan /\ ~A!Refuse
  BY DEF FileFits, A!Planned
<1> DEFINE rs == [i \in {j \in A!Kept : file[j].page \in A!Threads} |-> A!Row(file[i])]
<1>2. /\ A!Plan.pages = {A!Slug(p) : p \in A!Threads}
      /\ A!Plan.rows = rs
      /\ A!Plan.skipped = A!Cardinality(A!Handed \ A!Kept)
      /\ A!Plan.merged = A!Cardinality(A!Merged)
  BY DEF A!Plan
<1>3. /\ DOMAIN rs = {i \in A!Kept : file[i].page \in A!Threads}
      /\ \A i \in DOMAIN rs : rs[i] = A!Row(file[i])
  OBVIOUS
<1> HIDE DEF rs
<1> QED BY <1>1, <1>2, <1>3, FilesCount

LEMMA RowIs ==
    ASSUME FileFits, A!Planned, NEW r \in A!RowSet
    PROVE  \E i \in A!Handed : /\ file[i] \in A!Raw(format)
                               /\ r = A!Row(file[i])
                               /\ r.of = file[i] /\ r.page = A!Slug(file[i].page)
                               /\ r.ghost = A!Seed(file[i])
<1>1. PICK i \in DOMAIN result.rows : r = result.rows[i]
  BY DEF A!RowSet
<1>2. i \in A!Handed /\ file[i] \in A!Raw(format) /\ r = A!Row(file[i])
  BY <1>1, PlanIs, PlacesFinite
<1> QED BY <1>2 DEF A!Row

LEMMA PeopleApart == ASSUME FileFits, A!Planned PROVE A!PeopleKeptApart
<1> SUFFICES ASSUME NEW r \in A!RowSet, NEW s \in A!RowSet
             PROVE  (r.ghost = s.ghost) = (A!Person(r.of) = A!Person(s.of))
  BY DEF A!PeopleKeptApart
<1>1. PICK i \in A!Handed : /\ file[i] \in A!Raw(format)
                            /\ r.of = file[i] /\ r.ghost = A!Seed(file[i])
  BY RowIs
<1>2. PICK j \in A!Handed : /\ file[j] \in A!Raw(format)
                            /\ s.of = file[j] /\ s.ghost = A!Seed(file[j])
  BY RowIs
<1>3. format \in Format
  BY DEF FileFits
<1>4. (A!Seed(file[i]) = A!Seed(file[j])) = (A!Person(file[i]) = A!Person(file[j]))
  BY <1>1, <1>2, <1>3, GhostsArePeople
<1> QED BY <1>1, <1>2, <1>4

\* Lists of pages are finite and of sites the format may have.
LEMMA ListsFinite ==
    ASSUME FileFits
    PROVE  /\ A!Lists(format) => DOMAIN listing \subseteq A!Sites(format)
           /\ A!Lists(format) => \A s \in DOMAIN listing :
                 listing[s] \subseteq A!Pages(format) /\ IsFiniteSet(listing[s])
<1> SUFFICES ASSUME A!Lists(format)
             PROVE  /\ DOMAIN listing \subseteq A!Sites(format)
                    /\ \A s \in DOMAIN listing :
                          listing[s] \subseteq A!Pages(format) /\ IsFiniteSet(listing[s])
  OBVIOUS
<1>1. PICK K \in SUBSET A!Sites(format) :
         listing \in [K -> {L \cap A!Pages(format) : L \in Listing}]
  BY DEF FileFits, A!Listings
<1>2. ASSUME NEW s \in DOMAIN listing
      PROVE  listing[s] \subseteq A!Pages(format) /\ IsFiniteSet(listing[s])
  <2>1. PICK L \in Listing : listing[s] = L \cap A!Pages(format)
    BY <1>1
  <2>2. IsFiniteSet(L)
    BY FileAssumption DEF FileAssumption
  <2>3. listing[s] \in SUBSET L
    BY <2>1
  <2> QED BY <2>1, <2>2, <2>3, FS_Subset
<1> QED BY <1>1, <1>2

\* The sites a file names are finitely many, and every comment in it is of one.
LEMMA NamedIs ==
    ASSUME FileFits
    PROVE  /\ A!Named \subseteq Site \cup {A!None} /\ IsFiniteSet(A!Named)
           /\ \A i \in DOMAIN file : A!InFile(file[i]) => file[i].site \in A!Named
<1>1. A!Named \subseteq Site \cup {A!None}
  <2>1. A!Sites(format) \subseteq Site \cup {A!None}
    BY DEF A!Sites
  <2>2. \A i \in DOMAIN file : file[i].site \in Site \cup {A!None}
    BY <2>1, PlacesFinite, RawIs DEF FileFits
  <2> QED BY <2>1, <2>2, ListsFinite DEF A!Named
<1>2. IsFiniteSet(Site \cup {A!None})
  BY FileAssumption, FS_AddElement DEF FileAssumption
<1>3. IsFiniteSet(A!Named)
  BY <1>1, <1>2, FS_Subset
<1>4. ASSUME NEW i \in DOMAIN file, A!InFile(file[i]) PROVE file[i].site \in A!Named
  BY <1>4 DEF A!InFile, A!Listed, A!Named
<1> QED BY <1>1, <1>3, <1>4

\* What is taken of a file is of one site.
LEMMA OneSite ==
    ASSUME FileFits, ~A!Refuse, NEW i \in A!Handed, NEW j \in A!Handed
    PROVE  file[i].site = file[j].site
<1>1. CASE format = "disqus"
  <2>1. file[i].site \in A!Sites(format) \cup {A!None} /\ file[j].site \in A!Sites(format) \cup {A!None}
    BY PlacesFinite, RawIs DEF FileFits
  <2> QED BY <1>1, <2>1 DEF A!Sites
<1>2. CASE format # "disqus" /\ options.only \in Site
  BY <1>2 DEF A!Handed, A!Selected
<1>3. CASE format # "disqus" /\ options.only \notin Site
  <2>1. options.only = A!None
    BY <1>3, NamedIs DEF A!Refuse
  <2>2. file[i].site \in A!Unselected /\ file[j].site \in A!Unselected
    BY <1>3 DEF A!Handed, A!Selected
  <2>3. ~(Cardinality(A!Unselected) > 1)
    BY <2>1, FilesCount DEF A!Refuse
  <2>4. IsFiniteSet(A!Unselected)
    <3>1. A!Unselected \in SUBSET A!Named
      BY DEF A!Unselected
    <3> QED BY <3>1, NamedIs, FS_Subset
  <2> DEFINE x == file[i].site
             y == file[j].site
  <2> HIDE DEF x, y
  <2>5. SUFFICES ASSUME x # y PROVE FALSE
    BY DEF x, y
  <2>6. Cardinality({x} \cup {y}) = 2
    <3>1. IsFiniteSet({x}) /\ Cardinality({x}) = 1
      BY FS_Singleton
    <3> QED BY <2>5, <3>1, FS_AddElement
  <2>7. ({x} \cup {y}) \in SUBSET A!Unselected
    BY <2>2 DEF x, y
  <2>8. Cardinality({x} \cup {y}) <= Cardinality(A!Unselected)
    BY <2>4, <2>7, FS_Subset
  <2>9. Cardinality(A!Unselected) \in Nat
    BY <2>4, FS_CardinalityType
  <2> QED BY <2>3, <2>6, <2>8, <2>9
<1> QED BY <1>1, <1>2, <1>3

LEMMA WholeFile == ASSUME FileFits, A!Planned PROVE A!TakenWhole
<1> DEFINE sites  == {r.of.site : r \in A!RowSet}
           stored == {i \in A!Kept : file[i].page \in A!Threads}
           left   == A!Handed \ A!Kept
           asked_ == {i \in DOMAIN file :
                        /\ A!InFile(file[i])
                        /\ \/ options.only = file[i].site
                           \/ options.only = A!None /\ file[i].site \notin options.dead}
<1>1. Cardinality(sites) <= 1
  <2>1. ASSUME NEW x \in sites, NEW y \in sites PROVE x = y
    <3>1. PICK r \in A!RowSet, s \in A!RowSet : x = r.of.site /\ y = s.of.site
      OBVIOUS
    <3>2. PICK i \in A!Handed : r.of = file[i]
      BY RowIs
    <3>3. PICK j \in A!Handed : s.of = file[j]
      BY RowIs
    <3> QED BY <3>1, <3>2, <3>3, OneSite, PlanIs
  <2> HIDE DEF sites
  <2>2. sites = {} \/ \E x : sites = {x}
    BY <2>1
  <2>3. CASE sites = {}
    <3>1. Cardinality(sites) = 0
      BY <2>3, FS_EmptySet
    <3> QED BY <3>1
  <2>4. CASE sites # {}
    <3>1. PICK x : sites = {x}
      BY <2>2, <2>4
    <3>2. Cardinality({x}) = 1
      BY FS_Singleton
    <3> QED BY <3>1, <3>2
  <2> QED BY <2>3, <2>4
<1>2. asked_ \subseteq stored \cup left
  <2>1. ASSUME NEW i \in asked_ PROVE i \in A!Handed /\ file[i].page \in A!Threads
    <3>1. file[i].site \in A!Named
      BY NamedIs
    <3>2. A!None \notin Site /\ options.dead \subseteq Site
      BY FileAssumption DEF FileAssumption, A!None, FileFits, A!Options
    <3>3. file[i].site \in A!Selected
      BY <3>1, <3>2 DEF A!Selected, A!Unselected
    <3>4. i \in A!Handed
      BY <3>3 DEF A!Handed
    <3>5. CASE format = "disqus"
      BY <3>4, <3>5 DEF A!InFile, A!Lists, A!Listed, A!Threads
    <3>6. CASE format # "disqus"
      BY <3>4, <3>6 DEF A!Threads
    <3> QED BY <3>4, <3>5, <3>6
  <2> QED BY <2>1
<1>3. /\ IsFiniteSet(stored) /\ IsFiniteSet(left) /\ IsFiniteSet(stored \cup left)
      /\ Cardinality(stored \cup left) = Cardinality(stored) + Cardinality(left)
  <2>1. IsFiniteSet(A!Handed) /\ stored \in SUBSET A!Handed /\ left \in SUBSET A!Handed
    BY PlacesFinite, FS_Subset
  <2>2. stored \cap left = {}
    OBVIOUS
  <2> HIDE DEF stored, left
  <2>3. IsFiniteSet(stored) /\ IsFiniteSet(left)
    BY <2>1, FS_Subset
  <2>4. Cardinality(stored) \in Nat /\ Cardinality(left) \in Nat /\ Cardinality(stored \cap left) = 0
    BY <2>2, <2>3, FS_CardinalityType, FS_EmptySet
  <2>5. /\ IsFiniteSet(stored \cup left)
        /\ Cardinality(stored \cup left)
             = Cardinality(stored) + Cardinality(left) - Cardinality(stored \cap left)
    BY <2>3, FS_Union
  <2> QED BY <2>3, <2>4, <2>5
<1>4. DOMAIN result.rows = stored /\ result.skipped = Cardinality(left)
  BY PlanIs
<1>5. Cardinality(stored) + Cardinality(left) >= Cardinality(asked_)
  <2> HIDE DEF stored, left, asked_
  <2>1. asked_ \in SUBSET (stored \cup left)
    BY <1>2
  <2>2. /\ Cardinality(asked_) <= Cardinality(stored \cup left)
        /\ Cardinality(asked_) \in Nat /\ Cardinality(stored \cup left) \in Nat
    BY <1>3, <2>1, FS_Subset, FS_CardinalityType
  <2> QED BY <1>3, <2>2
<1>6. /\ A!Cardinality(sites) <= 1
      /\ A!Cardinality(DOMAIN result.rows) + result.skipped >= A!Cardinality(asked_)
  <2> HIDE DEF sites, stored, left, asked_
  <2> QED BY <1>1, <1>4, <1>5, FilesCount
<1> QED BY <1>6 DEF A!TakenWhole

\* Threads are pages of the source, and finitely many.
LEMMA ThreadsAre == ASSUME FileFits PROVE A!Threads \subseteq A!Pages(format) /\ IsFiniteSet(A!Threads)
<1>1. CASE format = "disqus"
  <2>1. DOMAIN listing \subseteq {A!None}
    BY <1>1, ListsFinite DEF A!Lists, A!Sites
  <2>2. A!Threads = UNION {listing[s] : s \in DOMAIN listing}
    BY <1>1 DEF A!Threads
  <2>3. CASE A!None \notin DOMAIN listing
    <3>1. A!Threads = {}
      BY <2>1, <2>2, <2>3
    <3> QED BY <3>1, FS_EmptySet
  <2>4. CASE A!None \in DOMAIN listing
    <3>1. A!Threads = listing[A!None]
      BY <2>1, <2>2, <2>4
    <3> QED BY <1>1, <2>4, <3>1, ListsFinite DEF A!Lists
  <2> QED BY <2>3, <2>4
<1>2. CASE format # "disqus"
  <2> DEFINE g == [i \in A!Handed |-> file[i].page]
  <2>1. A!Threads = {file[i].page : i \in A!Handed}
    BY <1>2 DEF A!Threads
  <2>2. IsFiniteSet(A!Handed)
    BY PlacesFinite, FS_Subset
  <2>3. g \in Surjection(A!Handed, A!Threads)
    BY <2>1 DEF Surjection
  <2> HIDE DEF g
  <2>4. IsFiniteSet(A!Threads)
    BY <2>2, <2>3, FS_Surjection
  <2>5. \A i \in A!Handed : file[i].page \in A!Pages(format)
    BY PlacesFinite, RawIs DEF FileFits
  <2> QED BY <2>1, <2>4, <2>5
<1> QED BY <1>1, <1>2

\* A thread that got its slug first stands for that slug.
LEMMA WinnerIs ==
    ASSUME NEW p \in A!Threads
    PROVE  /\ A!Winner(A!Slug(p)) \in A!Threads
           /\ A!Slug(A!Winner(A!Slug(p))) = A!Slug(p)
BY DEF A!Winner

LEMMA SlugsCounted ==
    ASSUME FileFits, ~options.override
    PROVE  Cardinality({A!Slug(p) : p \in A!Threads}) + Cardinality(A!Merged)
             = Cardinality(A!Threads)
<1> DEFINE lot   == A!Threads \ A!Merged
           slugs == {A!Slug(p) : p \in A!Threads}
           f     == [p \in lot |-> A!Slug(p)]
<1>1. \A p \in A!Threads : p \in A!Merged <=> p # A!Winner(A!Slug(p))
  BY DEF A!Merged
<1>2. A!Merged \subseteq A!Threads /\ IsFiniteSet(A!Threads)
  BY ThreadsAre DEF A!Merged
<1>3. ASSUME NEW p \in lot, NEW q \in lot, A!Slug(p) = A!Slug(q) PROVE p = q
  BY <1>1, <1>3
<1>4. ASSUME NEW s \in slugs PROVE \E p \in lot : A!Slug(p) = s
  <2>1. PICK q \in A!Threads : s = A!Slug(q)
    OBVIOUS
  <2>2. A!Winner(s) \in A!Threads /\ A!Slug(A!Winner(s)) = s
    BY <2>1, WinnerIs
  <2>3. A!Winner(s) \in lot
    BY <1>1, <2>2
  <2> QED BY <2>2, <2>3
<1>5. f \in Bijection(lot, slugs)
  <2>1. f \in [lot -> slugs]
    OBVIOUS
  <2>2. f \in Injection(lot, slugs)
    BY <1>3, <2>1 DEF Injection, IsInjective
  <2>3. f \in Surjection(lot, slugs)
    BY <1>4, <2>1 DEF Surjection
  <2> QED BY <2>2, <2>3 DEF Bijection
<1> HIDE DEF lot, slugs, f
<1>6. IsFiniteSet(lot) /\ Cardinality(slugs) = Cardinality(lot)
  <2>1. lot \in SUBSET A!Threads
    BY DEF lot
  <2>2. IsFiniteSet(lot)
    BY <1>2, <2>1, FS_Subset
  <2>3. ExistsBijection(lot, slugs)
    BY <1>5 DEF ExistsBijection
  <2> QED BY <2>2, <2>3, FS_Bijection
<1>7. IsFiniteSet(A!Merged)
  <2>1. A!Merged \in SUBSET A!Threads
    BY <1>2
  <2> QED BY <1>2, <2>1, FS_Subset
<1>8. lot \cup A!Merged = A!Threads /\ lot \cap A!Merged = {}
  BY <1>2 DEF lot
<1>9. /\ Cardinality(A!Threads) = Cardinality(lot) + Cardinality(A!Merged) - Cardinality({})
      /\ Cardinality({}) = 0
      /\ Cardinality(lot) \in Nat /\ Cardinality(A!Merged) \in Nat
  BY <1>6, <1>7, <1>8, FS_Union, FS_EmptySet, FS_CardinalityType
<1> QED BY <1>6, <1>9 DEF slugs

\* merged_pages is 0 when no two threads are one page, and only then.
LEMMA MergedTells ==
    ASSUME FileFits, ~options.override
    PROVE  Cardinality(A!Merged) = 0 <=>
             \A p, q \in A!Threads : A!SamePage(p, q) => p = q
<1>1. IsFiniteSet(A!Merged)
  <2>1. A!Merged \in SUBSET A!Threads
    BY DEF A!Merged
  <2> QED BY <2>1, ThreadsAre, FS_Subset
<1>2. Cardinality(A!Merged) = 0 <=> A!Merged = {}
  BY <1>1, FS_EmptySet
<1>3. \A p, q \in A!Threads : A!Slug(p) = A!Slug(q) <=> A!SamePage(p, q)
  BY ThreadsAre, SlugsMeet
<1>4. A!Merged = {} <=> \A p \in A!Threads : p = A!Winner(A!Slug(p))
  BY DEF A!Merged
<1>5. (\A p \in A!Threads : p = A!Winner(A!Slug(p)))
        <=> \A p, q \in A!Threads : A!Slug(p) = A!Slug(q) => p = q
  <2>1. ASSUME \A p \in A!Threads : p = A!Winner(A!Slug(p)),
               NEW p \in A!Threads, NEW q \in A!Threads, A!Slug(p) = A!Slug(q)
        PROVE  p = q
    BY <2>1
  <2>2. ASSUME \A p, q \in A!Threads : A!Slug(p) = A!Slug(q) => p = q, NEW p \in A!Threads
        PROVE  p = A!Winner(A!Slug(p))
    BY <2>2, WinnerIs
  <2> QED BY <2>1, <2>2
<1> QED BY <1>2, <1>3, <1>4, <1>5

LEMMA PagesApart == ASSUME FileFits, A!Planned PROVE A!PagesKeptApart
<1>1. ASSUME NEW r \in A!RowSet, NEW s \in A!RowSet
      PROVE  r.page = s.page <=> options.override \/ A!SamePage(r.of.page, s.of.page)
  <2>1. PICK i \in A!Handed : /\ file[i] \in A!Raw(format)
                              /\ r.of = file[i] /\ r.page = A!Slug(file[i].page)
    BY RowIs
  <2>2. PICK j \in A!Handed : /\ file[j] \in A!Raw(format)
                              /\ s.of = file[j] /\ s.page = A!Slug(file[j].page)
    BY RowIs
  <2>3. file[i].page \in A!Pages(format) /\ file[j].page \in A!Pages(format)
    BY <2>1, <2>2, RawIs DEF FileFits
  <2>4. CASE options.override
    BY <2>1, <2>2, <2>4 DEF A!Slug
  <2>5. CASE ~options.override
    BY <2>1, <2>2, <2>3, <2>5, SlugsMeet
  <2> QED BY <2>4, <2>5
<1>2. ASSUME ~options.override
      PROVE  /\ A!Cardinality(result.pages) + result.merged = A!Cardinality(A!Threads)
             /\ result.merged = 0 <=> \A p, q \in A!Threads : A!SamePage(p, q) => p = q
  BY <1>2, PlanIs, SlugsCounted, MergedTells, FilesCount
<1> QED BY <1>1, <1>2 DEF A!PagesKeptApart

\* What an import plans says of a file what the file says: authorSeed's ghosts,
\* the refusals of several sites in one file, slugs and merged_pages.
THEOREM PlansSayWhatFilesSay == A!Spec => []ImportsFaithful
<1>1. FileFits => ImportsFaithful
  BY PeopleApart, WholeFile, PagesApart DEF ImportsFaithful, A!ImportsFaithful
<1> QED BY <1>1, FilesInvariant, PTL

-----------------------------------------------------------------------------
(* Chains *)

LEMMA Inductive ==
    ASSUME NEW K \in SUBSET Nat, 0 \in K, \A k \in K : k + 1 \in K
    PROVE  K = Nat
<1>1. SUFFICES ASSUME Nat \ K # {} PROVE FALSE
  OBVIOUS
<1>2. PICK m \in Nat \ K : \A k \in Nat \ K : m <= k
  <2>1. Nat \ K \in SUBSET Nat
    OBVIOUS
  <2> QED BY <1>1, <2>1, LeastOf
<1>3. m # 0 /\ m - 1 \in Nat /\ ~(m <= m - 1)
  BY <1>2
<1> QED BY <1>2, <1>3

\* One comment up, from nowhere to nowhere.
Up1(f, x) == IF x = 0 THEN 0 ELSE f[x]

\* The climb is well defined, however far it is meant to go.
LEMMA ClimbIs ==
    ASSUME NEW f, NEW x, NEW n \in Nat
    PROVE  Ancestor(f, x, n) = [k \in 0..n |-> IF k = 0 THEN x
                                               ELSE Up1(f, Ancestor(f, x, n)[k - 1])]
<1> DEFINE D(u, k) == IF k = 0 THEN x ELSE Up1(f, u[k - 1])
           Good(u, m) == \A k \in 0..m : u[k] = D(u, k)
           K == {m \in Nat : \E u : Good(u, m)}
<1>1. K = Nat
  <2>1. 0 \in K
    <3>1. Good([k \in {0} |-> x], 0)
      OBVIOUS
    <3> QED BY <3>1
  <2>2. ASSUME NEW m \in K PROVE m + 1 \in K
    <3>1. PICK u : Good(u, m)
      OBVIOUS
    <3> DEFINE v == [k \in 0..(m + 1) |-> IF k = m + 1 THEN Up1(f, u[m]) ELSE u[k]]
    <3>2. m \in Nat
      OBVIOUS
    <3>3. ASSUME NEW k \in 0..(m + 1) PROVE v[k] = D(v, k)
      <4> HIDE DEF K
      <4>1. CASE k = m + 1
        <5>1. v[k - 1] = u[m] /\ v[k] = Up1(f, u[m]) /\ k # 0
          BY <3>2, <4>1
        <5> QED BY <5>1
      <4>2. CASE k # m + 1
        <5>1. k \in 0..m /\ v[k] = u[k]
          BY <3>2, <4>2
        <5>2. k # 0 => v[k - 1] = u[k - 1]
          BY <3>2, <5>1
        <5>3. u[k] = D(u, k)
          BY <3>1, <5>1
        <5> QED BY <5>1, <5>2, <5>3
      <4> QED BY <4>1, <4>2
    <3>4. Good(v, m + 1)
      <4> HIDE DEF v, D, K
      <4> QED BY <3>3
    <3>5. \E w : Good(w, m + 1)
      <4> HIDE DEF Good, v
      <4> QED BY <3>4
    <3> QED BY <3>2, <3>5
  <2>3. K \in SUBSET Nat
    OBVIOUS
  <2> HIDE DEF K
  <2> QED BY <2>1, <2>2, <2>3, Inductive
<1>2. PICK u : Good(u, n)
  <2>1. n \in K
    BY <1>1
  <2> QED BY <2>1
<1> DEFINE w == [k \in 0..n |-> u[k]]
<1>3. w = [k \in 0..n |-> D(w, k)]
  <2>1. ASSUME NEW k \in 0..n PROVE u[k] = D(w, k)
    <3>1. u[k] = D(u, k)
      BY <1>2
    <3>2. k # 0 => w[k - 1] = u[k - 1]
      OBVIOUS
    <3> QED BY <3>1, <3>2
  <2> HIDE DEF D
  <2> QED BY <2>1
<1>4. Ancestor(f, x, n) = CHOOSE h : h = [k \in 0..n |-> IF k = 0 THEN x
                              ELSE IF h[k - 1] = 0 THEN 0 ELSE f[h[k - 1]]]
  BY DEF Ancestor
<1>5. \A h : [k \in 0..n |-> IF k = 0 THEN x ELSE IF h[k - 1] = 0 THEN 0 ELSE f[h[k - 1]]]
             = [k \in 0..n |-> D(h, k)]
  BY DEF Up1
<1>6. Ancestor(f, x, n) = CHOOSE h : h = [k \in 0..n |-> D(h, k)]
  <2> HIDE DEF D
  <2> QED BY <1>4, <1>5
<1>7. \E h : h = [k \in 0..n |-> D(h, k)]
  <2> HIDE DEF D, w
  <2> QED BY <1>3
<1>8. Ancestor(f, x, n) = [k \in 0..n |-> D(Ancestor(f, x, n), k)]
  <2> HIDE DEF D
  <2> QED BY <1>6, <1>7
<1> QED BY <1>8

\* The k-th comment up from x.
Nth(f, x, k) == Ancestor(f, x, k)[k]

LEMMA NthIs ==
    ASSUME NEW f, NEW x
    PROVE  /\ Nth(f, x, 0) = x
           /\ \A k \in Nat : Nth(f, x, k + 1) = Up1(f, Nth(f, x, k))
           /\ \A k \in Nat : \A n \in Nat : k <= n => Ancestor(f, x, n)[k] = Nth(f, x, k)
<1>1. ASSUME NEW n \in Nat
      PROVE  /\ Ancestor(f, x, n)[0] = x
             /\ \A k \in 0..n : k # 0 => Ancestor(f, x, n)[k]
                                         = Up1(f, Ancestor(f, x, n)[k - 1])
  <2>1. PICK u : u = Ancestor(f, x, n)
    OBVIOUS
  <2>2. u = [k \in 0..n |-> IF k = 0 THEN x ELSE Up1(f, u[k - 1])]
    BY <2>1, ClimbIs
  <2>3. u[0] = x /\ \A k \in 0..n : k # 0 => u[k] = Up1(f, u[k - 1])
    BY <2>2
  <2> QED BY <2>1, <2>3
<1> DEFINE K == {k \in Nat : \A n \in Nat : k <= n => Ancestor(f, x, n)[k] = Nth(f, x, k)}
<1>2. 0 \in K
  BY <1>1 DEF Nth
<1>3. ASSUME NEW k \in Nat, \A n \in Nat : k <= n => Ancestor(f, x, n)[k] = Nth(f, x, k)
      PROVE  /\ Nth(f, x, k + 1) = Up1(f, Nth(f, x, k))
             /\ \A n \in Nat : k + 1 <= n => Ancestor(f, x, n)[k + 1] = Nth(f, x, k + 1)
  <2>1. ASSUME NEW n \in Nat, k + 1 <= n
        PROVE  Ancestor(f, x, n)[k + 1] = Up1(f, Nth(f, x, k))
    <3>1. k + 1 \in 0..n /\ k + 1 # 0 /\ (k + 1) - 1 = k /\ k <= n
      BY <2>1
    <3>2. Ancestor(f, x, n)[k + 1] = Up1(f, Ancestor(f, x, n)[(k + 1) - 1])
      BY <1>1, <3>1
    <3> QED BY <1>3, <3>1, <3>2
  <2>2. k + 1 \in Nat /\ k + 1 <= k + 1
    OBVIOUS
  <2>3. Nth(f, x, k + 1) = Up1(f, Nth(f, x, k))
    BY <2>1, <2>2 DEF Nth
  <2> QED BY <2>1, <2>3
<1>4. \A k \in K : k + 1 \in K
  <2> SUFFICES ASSUME NEW k \in K PROVE k + 1 \in K
    OBVIOUS
  <2>1. k \in Nat /\ \A n \in Nat : k <= n => Ancestor(f, x, n)[k] = Nth(f, x, k)
    OBVIOUS
  <2>2. \A n \in Nat : k + 1 <= n => Ancestor(f, x, n)[k + 1] = Nth(f, x, k + 1)
    BY <1>3, <2>1
  <2> QED BY <2>1, <2>2
<1>5. K = Nat
  <2>1. K \in SUBSET Nat
    OBVIOUS
  <2> HIDE DEF K
  <2> QED BY <1>2, <1>4, <2>1, Inductive
<1>6. \A k \in Nat : \A n \in Nat : k <= n => Ancestor(f, x, n)[k] = Nth(f, x, k)
  BY <1>5
<1>7. \A k \in Nat : Nth(f, x, k + 1) = Up1(f, Nth(f, x, k))
  BY <1>3, <1>6
<1>8. Nth(f, x, 0) = x
  BY <1>1 DEF Nth
<1> QED BY <1>6, <1>7, <1>8

LEMMA NthZero == ASSUME NEW f, NEW x PROVE Nth(f, x, 0) = x
BY NthIs

LEMMA NthNext == ASSUME NEW f, NEW x, NEW k \in Nat
                 PROVE  Nth(f, x, k + 1) = Up1(f, Nth(f, x, k))
BY NthIs

LEMMA NthOf == ASSUME NEW f, NEW x, NEW n \in Nat, NEW k \in 0..n
               PROVE  Ancestor(f, x, n)[k] = Nth(f, x, k)
<1>1. k \in Nat /\ k <= n
  OBVIOUS
<1>2. \A j \in Nat : \A h \in Nat : j <= h => Ancestor(f, x, h)[j] = Nth(f, x, j)
  BY NthIs
<1> QED BY <1>1, <1>2

\* Beyond the root there is nothing.
LEMMA ZeroStays ==
    ASSUME NEW f, NEW x, NEW k \in Nat, Nth(f, x, k) = 0, NEW n \in Nat, k <= n
    PROVE  Nth(f, x, n) = 0
<1> DEFINE K == {j \in Nat : Nth(f, x, k + j) = 0}
<1>1. 0 \in K
  BY k + 0 = k
<1>2. \A j \in K : j + 1 \in K
  <2> SUFFICES ASSUME NEW j \in Nat, Nth(f, x, k + j) = 0 PROVE Nth(f, x, k + (j + 1)) = 0
    OBVIOUS
  <2>1. k + j \in Nat /\ k + (j + 1) = (k + j) + 1
    OBVIOUS
  <2>2. Nth(f, x, (k + j) + 1) = Up1(f, Nth(f, x, k + j))
    BY <2>1, NthNext
  <2> QED BY <2>1, <2>2 DEF Up1
<1>3. K = Nat
  <2>1. K \in SUBSET Nat
    OBVIOUS
  <2> HIDE DEF K
  <2> QED BY <1>1, <1>2, <2>1, Inductive
<1>4. n - k \in K /\ k + (n - k) = n
  <2> HIDE DEF K
  <2> QED BY <1>3
<1> QED BY <1>4

\* To climb j and then k is to climb j + k.
LEMMA ClimbOn ==
    ASSUME NEW f, NEW x, NEW j \in Nat, NEW k \in Nat
    PROVE  Nth(f, x, j + k) = Nth(f, Nth(f, x, j), k)
<1> DEFINE K == {i \in Nat : Nth(f, x, j + i) = Nth(f, Nth(f, x, j), i)}
<1>1. 0 \in K
  BY NthZero, j + 0 = j
<1>2. \A i \in K : i + 1 \in K
  <2> SUFFICES ASSUME NEW i \in Nat, Nth(f, x, j + i) = Nth(f, Nth(f, x, j), i)
               PROVE  Nth(f, x, j + (i + 1)) = Nth(f, Nth(f, x, j), i + 1)
    OBVIOUS
  <2>1. j + i \in Nat /\ j + (i + 1) = (j + i) + 1
    OBVIOUS
  <2>2. Nth(f, x, (j + i) + 1) = Up1(f, Nth(f, x, j + i))
    BY <2>1, NthNext
  <2>3. Nth(f, Nth(f, x, j), i + 1) = Up1(f, Nth(f, Nth(f, x, j), i))
    BY NthNext
  <2> QED BY <2>1, <2>2, <2>3
<1>3. K = Nat
  <2>1. K \in SUBSET Nat
    OBVIOUS
  <2> HIDE DEF K
  <2> QED BY <1>1, <1>2, <2>1, Inductive
<1>4. k \in K
  <2> HIDE DEF K
  <2> QED BY <1>3
<1> QED BY <1>4

\* Of a function on the comments: of comment to parent, 0 for none.
Upward == [Item -> Item \cup {0}]

LEMMA NthType ==
    ASSUME NEW f \in Upward, NEW x \in Item, NEW k \in Nat
    PROVE  Nth(f, x, k) \in Item \cup {0}
<1> DEFINE K == {j \in Nat : Nth(f, x, j) \in Item \cup {0}}
<1>1. 0 \in K
  BY NthZero
<1>2. \A j \in K : j + 1 \in K
  <2> SUFFICES ASSUME NEW j \in Nat, Nth(f, x, j) \in Item \cup {0}
               PROVE  Nth(f, x, j + 1) \in Item \cup {0}
    OBVIOUS
  <2>1. Nth(f, x, j + 1) = Up1(f, Nth(f, x, j))
    BY NthNext
  <2> QED BY <2>1 DEF Up1, Upward
<1>3. K = Nat
  <2>1. K \in SUBSET Nat
    OBVIOUS
  <2> HIDE DEF K
  <2> QED BY <1>1, <1>2, <2>1, Inductive
<1>4. k \in K
  <2> HIDE DEF K
  <2> QED BY <1>3
<1> QED BY <1>4

\* x has a root, and is the m-th from above.
Top(f, x, m) == m \in Nat /\ Nth(f, x, m) = 0 /\ \A k \in Nat : k < m => Nth(f, x, k) # 0

LEMMA TopUnique ==
    ASSUME NEW f, NEW x, NEW m, NEW n, Top(f, x, m), Top(f, x, n)
    PROVE  m = n
<1>1. ~(m < n) /\ ~(n < m) /\ m \in Nat /\ n \in Nat
  BY DEF Top
<1> QED BY <1>1

LEMMA TopExists ==
    ASSUME NEW f, NEW x, NEW n \in Nat, Nth(f, x, n) = 0
    PROVE  \E m \in Nat : m <= n /\ Top(f, x, m)
<1> DEFINE K == {k \in Nat : Nth(f, x, k) = 0}
<1>1. K \in SUBSET Nat /\ n \in K
  OBVIOUS
<1>2. PICK m \in K : \A k \in K : m <= k
  <2> HIDE DEF K
  <2> QED BY <1>1, LeastOf
<1>3. m \in Nat /\ Nth(f, x, m) = 0 /\ m <= n
  BY <1>1, <1>2
<1>4. ASSUME NEW k \in Nat, k < m PROVE Nth(f, x, k) # 0
  <2>1. ~(m <= k)
    BY <1>3, <1>4
  <2> QED BY <1>2, <2>1
<1> QED BY <1>3, <1>4 DEF Top

LEMMA TopAbove ==
    ASSUME NEW f, NEW x, NEW m, Top(f, x, m), NEW k \in Nat, k <= m
    PROVE  Top(f, Nth(f, x, k), m - k)
<1>1. m \in Nat /\ m - k \in Nat /\ k + (m - k) = m
  BY DEF Top
<1>2. Nth(f, Nth(f, x, k), m - k) = 0
  BY <1>1, ClimbOn DEF Top
<1>3. ASSUME NEW j \in Nat, j < m - k PROVE Nth(f, Nth(f, x, k), j) # 0
  <2>1. k + j \in Nat /\ k + j < m
    BY <1>1, <1>3
  <2>2. Nth(f, x, k + j) # 0
    BY <2>1 DEF Top
  <2> QED BY <2>2, ClimbOn
<1> QED BY <1>1, <1>2, <1>3 DEF Top

LEMMA TopApart ==
    ASSUME NEW f, NEW x, NEW m, Top(f, x, m), NEW j \in Nat, NEW k \in Nat, j <= m, k <= m,
           Nth(f, x, j) = Nth(f, x, k)
    PROVE  j = k
<1>1. Top(f, Nth(f, x, j), m - j) /\ Top(f, Nth(f, x, j), m - k)
  BY TopAbove
<1>2. m - j = m - k
  BY <1>1, TopUnique
<1>3. m \in Nat
  BY DEF Top
<1> QED BY <1>2, <1>3

\* Nobody has more above them than there are comments.
LEMMA TopBounded ==
    ASSUME NEW f \in Upward, NEW x \in Item, NEW m, Top(f, x, m)
    PROVE  m \in 1..N
<1>1. m \in Nat /\ N \in Nat
  BY Sizes DEF Top
<1>2. m # 0
  BY NthZero, Sizes DEF Top, Item
<1>3. SUFFICES ASSUME N < m PROVE FALSE
  BY <1>1, <1>2
<1> DEFINE h == [k \in 0..(m - 1) |-> Nth(f, x, k)]
<1>4. \A k \in 0..(m - 1) : k \in Nat /\ k < m
  BY <1>1
<1>5. h \in [0..(m - 1) -> Item]
  <2>1. \A k \in 0..(m - 1) : Nth(f, x, k) \in Item
    BY <1>4, NthType DEF Top
  <2> QED BY <2>1
<1>6. /\ IsFiniteSet(0..(m - 1)) /\ Cardinality(0..(m - 1)) = m
      /\ IsFiniteSet(Item) /\ Cardinality(Item) = N
  <2>1. 0 \in Int /\ m - 1 \in Int /\ 1 \in Int /\ N \in Int
    BY <1>1
  <2>2. /\ IsFiniteSet(0..(m - 1)) /\ IsFiniteSet(1..N)
        /\ Cardinality(0..(m - 1)) = IF 0 > m - 1 THEN 0 ELSE (m - 1) - 0 + 1
        /\ Cardinality(1..N) = IF 1 > N THEN 0 ELSE N - 1 + 1
    BY <2>1, FS_Interval
  <2> QED BY <1>1, <1>2, <2>2, Sizes DEF Item
<1>7. PICK j, k \in 0..(m - 1) : j # k /\ h[j] = h[k]
  <2> HIDE DEF h
  <2> QED BY <1>3, <1>5, <1>6, FS_PigeonHole
<1>8. Nth(f, x, j) = Nth(f, x, k) /\ j \in Nat /\ k \in Nat /\ j <= m /\ k <= m
  BY <1>1, <1>4, <1>7
<1> QED BY <1>7, <1>8, TopApart

\* A climb long enough meets the root or a comment it has met.
LEMMA ClimbEnds ==
    ASSUME NEW f \in Upward, NEW x \in Item
    PROVE  \E k \in 0..N : \/ Nth(f, x, k) = 0
                           \/ \E j \in 0..(k - 1) : Nth(f, x, j) = Nth(f, x, k)
<1>1. N \in Nat
  BY Sizes
<1>2. SUFFICES ASSUME \A k \in 0..N : Nth(f, x, k) # 0
               PROVE  \E k \in 0..N : \E j \in 0..(k - 1) : Nth(f, x, j) = Nth(f, x, k)
  OBVIOUS
<1> DEFINE h == [k \in 0..N |-> Nth(f, x, k)]
<1>3. h \in [0..N -> Item]
  <2>1. \A k \in 0..N : Nth(f, x, k) \in Item
    BY <1>1, <1>2, NthType
  <2> QED BY <2>1
<1>4. /\ IsFiniteSet(0..N) /\ Cardinality(0..N) = N + 1
      /\ IsFiniteSet(Item) /\ Cardinality(Item) = N
  <2>1. 0 \in Int /\ 1 \in Int /\ N \in Int
    BY <1>1
  <2>2. /\ IsFiniteSet(0..N) /\ IsFiniteSet(1..N)
        /\ Cardinality(0..N) = IF 0 > N THEN 0 ELSE N - 0 + 1
        /\ Cardinality(1..N) = IF 1 > N THEN 0 ELSE N - 1 + 1
    BY <2>1, FS_Interval
  <2> QED BY <1>1, <2>2, Sizes DEF Item
<1>5. PICK j, k \in 0..N : j # k /\ h[j] = h[k]
  <2>1. Cardinality(Item) < Cardinality(0..N)
    BY <1>1, <1>4
  <2> HIDE DEF h
  <2> QED BY <1>3, <1>4, <2>1, FS_PigeonHole
<1>6. Nth(f, x, j) = Nth(f, x, k)
  BY <1>5
<1>7. j \in 0..(k - 1) \/ k \in 0..(j - 1)
  BY <1>1, <1>5
<1> QED BY <1>6, <1>7

\* A comment with m - 1 above it has m - 1 above it.
LEMMA AboveCounts ==
    ASSUME NEW f \in Upward, NEW x \in Item, NEW m, Top(f, x, m)
    PROVE  Cardinality({Ancestor(f, x, N)[k] : k \in 1..N} \ {0}) = m - 1
<1>1. m \in 1..N /\ m \in Nat /\ N \in Nat
  BY TopBounded, Sizes DEF Top
<1> DEFINE U == {Ancestor(f, x, N)[k] : k \in 1..N} \ {0}
           h == [k \in 1..(m - 1) |-> Nth(f, x, k)]
<1>2. \A k \in 1..N : Ancestor(f, x, N)[k] = Nth(f, x, k)
  <2> SUFFICES ASSUME NEW k \in 1..N PROVE Ancestor(f, x, N)[k] = Nth(f, x, k)
    OBVIOUS
  <2>1. k \in 0..N
    BY <1>1
  <2> QED BY <1>1, <2>1, NthOf
<1>3. \A k \in 1..(m - 1) : k \in 1..N /\ k \in Nat /\ k < m /\ k <= m
  BY <1>1
<1>4. h \in [1..(m - 1) -> U]
  <2>1. \A k \in 1..(m - 1) : Nth(f, x, k) \in U
    <3> SUFFICES ASSUME NEW k \in 1..(m - 1) PROVE Nth(f, x, k) \in U
      OBVIOUS
    <3>1. k \in 1..N /\ Nth(f, x, k) # 0 /\ Ancestor(f, x, N)[k] = Nth(f, x, k)
      BY <1>2, <1>3 DEF Top
    <3> QED BY <3>1
  <2> HIDE DEF U
  <2> QED BY <2>1
<1>5. \A j, k \in 1..(m - 1) : h[j] = h[k] => j = k
  <2> SUFFICES ASSUME NEW j \in 1..(m - 1), NEW k \in 1..(m - 1), h[j] = h[k]
               PROVE  j = k
    OBVIOUS
  <2>1. Nth(f, x, j) = Nth(f, x, k)
    OBVIOUS
  <2> HIDE DEF h, U
  <2> QED BY <1>3, <2>1, TopApart
<1>6. \A u \in U : \E k \in 1..(m - 1) : h[k] = u
  <2> SUFFICES ASSUME NEW u \in U PROVE \E k \in 1..(m - 1) : h[k] = u
    OBVIOUS
  <2>1. PICK k \in 1..N : u = Ancestor(f, x, N)[k] /\ u # 0
    OBVIOUS
  <2>2. u = Nth(f, x, k) /\ k \in Nat
    BY <1>1, <1>2, <2>1
  <2>3. ~(m <= k)
    <3>1. SUFFICES ASSUME m <= k PROVE FALSE
      OBVIOUS
    <3> HIDE DEF U, h
    <3>2. Nth(f, x, m) = 0
      BY DEF Top
    <3> QED BY <1>1, <2>1, <2>2, <3>1, <3>2, ZeroStays
  <2>4. k \in 1..(m - 1)
    BY <1>1, <2>2, <2>3
  <2> QED BY <2>2, <2>4
<1>7. h \in Bijection(1..(m - 1), U)
  <2> HIDE DEF h, U
  <2> QED BY <1>4, <1>5, <1>6 DEF Bijection, Injection, Surjection, IsInjective
<1>8. IsFiniteSet(1..(m - 1)) /\ Cardinality(1..(m - 1)) = m - 1
  <2>1. 1 \in Int /\ m - 1 \in Int
    BY <1>1
  <2>2. IsFiniteSet(1..(m - 1))
        /\ Cardinality(1..(m - 1)) = IF 1 > m - 1 THEN 0 ELSE (m - 1) - 1 + 1
    BY <2>1, FS_Interval
  <2> QED BY <1>1, <2>2
<1>9. Cardinality(U) = m - 1
  <2> HIDE DEF h, U
  <2>1. ExistsBijection(1..(m - 1), U)
    BY <1>7 DEF ExistsBijection
  <2> QED BY <1>8, <2>1, FS_Bijection
<1> QED BY <1>9

-----------------------------------------------------------------------------
(* What a run computes *)

\* What the memo says of a comment that has a root is how deep it is.
MemoFits(f, g) == \A x \in Item, m \in Nat : g[x] # 0 /\ Top(f, x, m) => g[x] = m

LEMMA EffectiveType ==
    ASSUME export \in Export, NEW r
    PROVE  Effective(r) \in Upward
<1>1. export.parent \in [Item -> Item]
  BY ExportAssumption
<1> QED BY <1>1 DEF Effective, Upward

\* depthOf gives every comment that has a root its depth, and remembers it.
LEMMA MemoIs ==
    ASSUME NEW r, export \in Export, memo[r] \in [Item -> Nat],
           MemoFits(Effective(r), memo[r]), NEW i \in Item
    PROVE  /\ MemoAfter(r, i) \in [Item -> Nat]
           /\ MemoFits(Effective(r), MemoAfter(r, i))
           /\ \A m \in Nat : Top(Effective(r), i, m) => MemoAfter(r, i)[i] = m
<1>1. PICK f \in Upward : f = Effective(r)
  BY EffectiveType
<1>2. PICK g \in [Item -> Nat] : g = memo[r]
  OBVIOUS
<1>3. N \in Nat /\ 0 \notin Item
  BY Sizes DEF Item
<1> DEFINE chain == Ancestor(f, i, N)
           Ends(k) == \/ chain[k] = 0
                      \/ g[chain[k]] # 0
                      \/ \E j \in 0..(k - 1) : chain[j] = chain[k]
           First(k) == k \in 0..N /\ Ends(k) /\ \A j \in 0..(k - 1) : ~Ends(j)
           len  == CHOOSE k \in 0..N : Ends(k) /\ \A j \in 0..(k - 1) : ~Ends(j)
           base == IF chain[len] # 0 /\ g[chain[len]] # 0 THEN g[chain[len]] + 1 ELSE 1
           place(x) == CHOOSE j \in 0..(len - 1) : chain[j] = x
           after == [x \in Item |-> IF \E j \in 0..(len - 1) : chain[j] = x
                                    THEN base + len - 1 - place(x) ELSE g[x]]
<1>4. MemoAfter(r, i) = after
  BY <1>1, <1>2 DEF MemoAfter
<1>5. \A k \in 0..N : chain[k] = Nth(f, i, k) /\ k \in Nat
  BY <1>3, NthOf
<1>6. \E k \in 0..N : First(k)
  <2> DEFINE K == {k \in 0..N : Ends(k)}
  <2>1. \E k \in 0..N : Ends(k)
    <3>1. PICK k \in 0..N : \/ Nth(f, i, k) = 0
                            \/ \E j \in 0..(k - 1) : Nth(f, i, j) = Nth(f, i, k)
      BY ClimbEnds
    <3>2. \A j \in 0..(k - 1) : j \in 0..N
      BY <1>3
    <3> HIDE DEF chain
    <3> QED BY <1>5, <3>1, <3>2
  <2>2. K \in SUBSET Nat /\ K # {}
    BY <2>1, <1>3
  <2>3. PICK m \in K : \A k \in K : m <= k
    <3> HIDE DEF K
    <3> QED BY <2>2, LeastOf
  <2>4. m \in 0..N /\ Ends(m)
    OBVIOUS
  <2>5. ASSUME NEW j \in 0..(m - 1) PROVE ~Ends(j)
    <3>1. j \in 0..N /\ ~(m <= j)
      BY <1>3, <2>4
    <3> HIDE DEF Ends, chain
    <3> QED BY <2>3, <3>1
  <2> HIDE DEF Ends, chain, K
  <2> QED BY <2>4, <2>5
<1>7. First(len)
  <2> HIDE DEF Ends, chain
  <2> QED BY <1>6
<1>8. len \in 0..N /\ len \in Nat
  <2> HIDE DEF Ends, chain, len
  <2> QED BY <1>3, <1>7
<1>9. \A j \in 0..(len - 1) : j \in 0..N /\ j \in Nat /\ j < len
  <2> HIDE DEF len
  <2> QED BY <1>3, <1>8
<1>10. base \in Nat /\ base # 0
  <2>1. chain[len] # 0 => chain[len] \in Item
    <3> HIDE DEF chain, len
    <3> QED BY <1>5, <1>8, NthType
  <2>2. chain[len] # 0 => g[chain[len]] \in Nat
    <3> HIDE DEF chain, len
    <3> QED BY <2>1
  <2> HIDE DEF chain, len
  <2> QED BY <2>2
<1>11. ASSUME NEW x \in Item, \E j \in 0..(len - 1) : chain[j] = x
       PROVE  /\ place(x) \in 0..(len - 1) /\ chain[place(x)] = x
              /\ after[x] = base + len - 1 - place(x)
  <2> HIDE DEF chain, len, base
  <2> QED BY <1>11
<1>12. after \in [Item -> Nat]
  <2>1. ASSUME NEW x \in Item PROVE after[x] \in Nat
    <3>1. CASE \E j \in 0..(len - 1) : chain[j] = x
      <4>1. place(x) \in 0..(len - 1) /\ after[x] = base + len - 1 - place(x)
        BY <1>11, <3>1
      <4> HIDE DEF len, chain, base, place, after
      <4> QED BY <1>8, <1>10, <4>1
    <3>2. CASE ~\E j \in 0..(len - 1) : chain[j] = x
      <4>1. after[x] = g[x]
        <5> HIDE DEF chain, len, base, place
        <5> QED BY <3>2
      <4> QED BY <4>1
    <3> QED BY <3>1, <3>2
  <2>2. after = [x \in Item |-> after[x]]
    <3> HIDE DEF chain, len, base, place
    <3> QED OBVIOUS
  <2> HIDE DEF after
  <2> QED BY <2>1, <2>2
\* For a comment that has a root the climb ends at it or at what is known.
<1>13. ASSUME NEW m, Top(f, i, m)
       PROVE  base + len - 1 = m /\ len <= m
  <2>1. m \in 1..N /\ m \in Nat
    BY <1>13, TopBounded DEF Top
  <2>2. chain[m] = 0 /\ m \in 0..N
    <3> HIDE DEF chain, len
    <3> QED BY <1>3, <1>5, <1>13, <2>1 DEF Top
  <2>3. len <= m
    <3>1. SUFFICES ASSUME m < len PROVE FALSE
      <4> HIDE DEF len
      <4> QED BY <1>8, <2>1
    <3>2. m \in 0..(len - 1)
      <4> HIDE DEF len
      <4> QED BY <1>8, <2>1, <3>1
    <3>3. ~Ends(m)
      <4> HIDE DEF Ends, chain, len
      <4> QED BY <1>7, <3>2
    <3> HIDE DEF chain, len
    <3> QED BY <2>2, <3>3
  <2>4. chain[len] = Nth(f, i, len)
    <3> HIDE DEF chain, len
    <3> QED BY <1>5, <1>8
  <2>5. CASE chain[len] = 0
    <3>1. ~(len < m)
      <4> HIDE DEF chain, len
      <4> QED BY <1>8, <1>13, <2>4, <2>5 DEF Top
    <3>2. len = m
      <4> HIDE DEF chain, len
      <4> QED BY <1>8, <2>1, <2>3, <3>1
    <3>3. base = 1
      <4> HIDE DEF chain, len
      <4> QED BY <2>5
    <3> HIDE DEF chain, len, base
    <3> QED BY <2>1, <3>2, <3>3
  <2>6. CASE chain[len] # 0
    <3>1. ~\E j \in 0..(len - 1) : chain[j] = chain[len]
      <4>1. SUFFICES ASSUME NEW j \in 0..(len - 1), chain[j] = chain[len] PROVE FALSE
        OBVIOUS
      <4>2. chain[j] = Nth(f, i, j) /\ j \in Nat /\ j < len
        <5> HIDE DEF chain, len
        <5> QED BY <1>5, <1>9
      <4> HIDE DEF chain, len
      <4>3. j <= m /\ Nth(f, i, j) = Nth(f, i, len)
        BY <1>8, <2>1, <2>3, <2>4, <4>1, <4>2
      <4>4. j = len
        BY <1>8, <1>13, <2>3, <4>2, <4>3, TopApart
      <4> QED BY <1>8, <4>2, <4>4
    <3>2. g[chain[len]] # 0
      <4>1. Ends(len)
        <5> HIDE DEF chain, len, Ends
        <5> QED BY <1>7
      <4> HIDE DEF chain, len
      <4> QED BY <2>6, <3>1, <4>1
    <3>3. Top(f, chain[len], m - len)
      <4> HIDE DEF chain, len
      <4> QED BY <1>8, <1>13, <2>3, <2>4, TopAbove
    <3>4. chain[len] \in Item /\ m - len \in Nat
      <4> HIDE DEF chain, len
      <4> QED BY <1>8, <2>1, <2>3, <2>4, <2>6, NthType
    <3>5. g[chain[len]] = m - len
      <4> HIDE DEF chain, len
      <4> QED BY <1>1, <1>2, <3>2, <3>3, <3>4 DEF MemoFits
    <3>6. base = g[chain[len]] + 1
      <4> HIDE DEF chain, len
      <4> QED BY <2>6, <3>2
    <3> HIDE DEF chain, len, base
    <3>7. base = (m - len) + 1
      BY <3>5, <3>6
    <3> QED BY <1>8, <1>10, <2>1, <3>7
  <2> QED BY <2>3, <2>5, <2>6
<1>14. ASSUME NEW x \in Item, NEW n \in Nat, after[x] # 0, Top(f, x, n)
       PROVE  after[x] = n
  <2>1. CASE \E j \in 0..(len - 1) : chain[j] = x
    <3>1. PICK j \in 0..(len - 1) : j = place(x) /\ chain[j] = x
                                    /\ after[x] = base + len - 1 - j
      <4>1. place(x) \in 0..(len - 1) /\ chain[place(x)] = x
            /\ after[x] = base + len - 1 - place(x)
        BY <1>11, <2>1
      <4> HIDE DEF chain, len, base, place, after
      <4> QED BY <4>1
    <3> HIDE DEF chain, len, base, place, after
    <3>2. j \in Nat /\ j \in 0..N /\ j < len /\ Nth(f, i, j) = x
      BY <1>5, <1>9, <3>1
    <3>3. Nth(f, i, j + n) = 0
      <4>1. Nth(f, x, n) = 0
        BY <1>14 DEF Top
      <4> QED BY <3>2, <4>1, ClimbOn
    <3>4. PICK m \in Nat : Top(f, i, m)
      <4>1. j + n \in Nat
        BY <3>2
      <4> QED BY <3>3, <4>1, TopExists
    <3>5. base + len - 1 = m /\ len <= m
      BY <1>13, <3>4
    <3>6. j <= m
      BY <1>8, <3>2, <3>5
    <3>7. Top(f, x, m - j)
      BY <3>2, <3>4, <3>6, TopAbove
    <3>8. n = m - j
      BY <1>14, <3>7, TopUnique
    <3>9. after[x] = (base + len - 1) - j
      BY <1>8, <1>10, <3>1, <3>2
    <3> QED BY <3>5, <3>8, <3>9
  <2>2. CASE ~\E j \in 0..(len - 1) : chain[j] = x
    <3>1. after[x] = g[x]
      <4> HIDE DEF chain, len, base, place
      <4> QED BY <2>2
    <3> HIDE DEF after, chain, len
    <3> QED BY <1>1, <1>2, <1>14, <3>1 DEF MemoFits
  <2> QED BY <2>1, <2>2
<1>15. ASSUME NEW m \in Nat, Top(f, i, m) PROVE after[i] = m
  <2>1. chain[0] = i /\ i # 0
    <3>1. 0 \in 0..N
      BY <1>3
    <3> HIDE DEF chain
    <3> QED BY <1>3, <1>5, <3>1, NthZero
  <2>2. after[i] # 0
    <3>1. CASE len = 0
      <4>1. Ends(0) /\ ~\E j \in 0..(0 - 1) : chain[j] = chain[0]
        <5>1. Ends(0)
          <6> HIDE DEF chain, len, Ends
          <6> QED BY <1>7, <3>1
        <5> HIDE DEF chain, len, Ends
        <5> QED BY <5>1
      <4>2. g[i] # 0
        <5> HIDE DEF chain, len
        <5> QED BY <2>1, <4>1
      <4>3. after[i] = g[i]
        <5>1. ~\E j \in 0..(len - 1) : chain[j] = i
          <6> HIDE DEF chain, len
          <6> QED BY <3>1
        <5> HIDE DEF chain, len, base, place
        <5> QED BY <5>1
      <4> HIDE DEF after
      <4> QED BY <4>2, <4>3
    <3>2. CASE len # 0
      <4>1. \E j \in 0..(len - 1) : chain[j] = i
        <5>1. 0 \in 0..(len - 1)
          <6> HIDE DEF len
          <6> QED BY <1>8, <3>2
        <5> HIDE DEF len, chain
        <5> QED BY <2>1, <5>1
      <4>2. place(i) \in 0..(len - 1) /\ after[i] = base + len - 1 - place(i)
        BY <1>11, <4>1
      <4> HIDE DEF len, chain, base, place, after
      <4> QED BY <1>8, <1>10, <4>2
    <3> QED BY <3>1, <3>2
  <2> HIDE DEF after, chain, len
  <2> QED BY <1>14, <1>15, <2>2
<1> HIDE DEF after
<1>16. MemoFits(f, after)
  BY <1>14 DEF MemoFits
<1> QED BY <1>1, <1>4, <1>12, <1>15, <1>16

-----------------------------------------------------------------------------
(* What a run leaves *)

\* Run r has linked comment i, or has found nothing to link it to.
Linked(r, i) == \/ pc[r] = "done"
                \/ pc[r] = "link" /\ i < next[r]

\* Comment i, the m-th from a root, is where it should be.
Placed(r, i) ==
    \A m \in Nat : Top(Effective(r), i, m) =>
        /\ m = 1 => parent[i] = 0
        /\ m > 1 => /\ depth[i] = Least(m, MaxDepth)
                    /\ \E k \in 1..(m - 1) : /\ parent[i] = Nth(Effective(r), i, k)
                                             /\ m - k = depth[i] - 1

\* What is not stored yet has no parent, nor has what a run has inserted and not
\* yet come to.
RunFits(r) ==
    /\ pc[r] \notin {"link", "done"} => memo[r] = NoMemo
    /\ MemoFits(Effective(r), memo[r])
    /\ mine[r] \subseteq Item
    /\ \A i \in mine[r] : IF Linked(r, i) THEN Placed(r, i) ELSE parent[i] = 0

LinkInv ==
    /\ export \in Export
    /\ known \in [Run -> SUBSET Item] /\ memo \in [Run -> [Item -> Nat]]
    /\ \A i \in Item \ rows : parent[i] = 0
    /\ \A r \in Run : RunFits(r)

LEMMA SameEffective ==
    ASSUME NEW r, UNCHANGED export, known'[r] = known[r]
    PROVE  Effective(r)' = Effective(r)
BY DEF Effective

LEMMA NothingFits == \A f : MemoFits(f, NoMemo) /\ NoMemo \in [Item -> Nat]
BY DEF MemoFits, NoMemo

LEMMA LinkInit == Init => LinkInv
<1> SUFFICES ASSUME Init PROVE LinkInv
  OBVIOUS
<1>1. Item \subseteq Id
  BY DEF Id
<1>2. \A r \in Run : RunFits(r)
  BY NothingFits DEF Init, RunFits
<1>3. known \in [Run -> SUBSET Item] /\ memo \in [Run -> [Item -> Nat]]
  BY NothingFits DEF Init
<1> QED BY <1>1, <1>2, <1>3 DEF Init, LinkInv

\* A run that another one's step leaves alone, and whose rows it leaves alone.
LEMMA RunKept ==
    ASSUME NEW r \in Run, RunFits(r), UNCHANGED export,
           known'[r] = known[r], memo'[r] = memo[r], mine'[r] = mine[r],
           pc'[r] = pc[r], next'[r] = next[r],
           \A i \in mine[r] : parent'[i] = parent[i] /\ depth'[i] = depth[i]
    PROVE  RunFits(r)'
<1>1. Effective(r)' = Effective(r)
  BY SameEffective
<1>2. ASSUME NEW i \in mine[r] PROVE /\ Linked(r, i)' <=> Linked(r, i)
                                     /\ Placed(r, i)' <=> Placed(r, i)
  <2>1. parent'[i] = parent[i] /\ depth'[i] = depth[i]
    BY <1>2
  <2> QED BY <1>1, <2>1 DEF Linked, Placed
<1> QED BY <1>1, <1>2 DEF RunFits

\* A run that is not linking and has linked nothing.
LEMMA RunQuiet ==
    ASSUME NEW r \in Run, RunFits(r),
           \A i \in mine[r] : ~Linked(r, i),
           memo[r] = NoMemo, memo'[r] = memo[r],
           mine'[r] \subseteq Item,
           \A i \in mine'[r] : parent'[i] = 0 /\ ~Linked(r, i)'
    PROVE  RunFits(r)'
<1>1. MemoFits(Effective(r)', NoMemo)
  BY NothingFits
<1>2. NoMemo' = NoMemo
  BY DEF NoMemo
<1>3. MemoFits(Effective(r), memo[r])'
  BY <1>1 DEF MemoFits, Top, Nth, Ancestor
<1> QED BY <1>2, <1>3 DEF RunFits

LEMMA OneRun ==
    ASSUME IInv, LinkInv, NEW q \in Run, UNCHANGED export,
           \A r \in Run \ {q} : /\ known'[r] = known[r] /\ memo'[r] = memo[r]
                                /\ mine'[r] = mine[r] /\ pc'[r] = pc[r]
                                /\ next'[r] = next[r],
           \A x \in rows \ mine[q] : parent'[x] = parent[x] /\ depth'[x] = depth[x],
           \A i \in Item \ rows' : parent'[i] = 0,
           known' \in [Run -> SUBSET Item], memo' \in [Run -> [Item -> Nat]],
           RunFits(q)'
    PROVE  LinkInv'
<1>1. ASSUME NEW r \in Run \ {q} PROVE RunFits(r)'
  <2>1. \A i \in mine[r] : i \in rows \ mine[q]
    BY DEF IInv, Held
  <2>2. RunFits(r)
    BY DEF LinkInv
  <2> QED BY <2>1, <2>2, RunKept
<1>2. \A r \in Run : RunFits(r)'
  BY <1>1
<1>3. (export \in Export)'
  BY DEF LinkInv
<1> QED BY <1>2, <1>3 DEF LinkInv

LEMMA ForwardGoes ==
    ASSUME Counting, NEW r \in Run, NEW s, NEW t, NEW last, Forward(r, s, last, t)
    PROVE  /\ \A q \in Run \ {r} : pc'[q] = pc[q] /\ next'[q] = next[q]
           /\ \/ next[r] < last /\ pc'[r] = s /\ next'[r] = next[r] + 1
              \/ ~(next[r] < last) /\ pc'[r] = t /\ next'[r] = 1
BY DEF Forward, Counting

\* The steps of a run before it inserts comments.
LEMMA EarlyKeeps ==
    ASSUME IInv, LinkInv, NEW q \in Run,
           \/ Begin(q, TRUE) \/ Begin(q, FALSE)
           \/ PageSelect(q) \/ PageInsert(q) \/ AuthorSelect(q) \/ GhostsDone(q)
           \/ \E u \in User : GhostInsert(q, u)
    PROVE  LinkInv'
<1>1. /\ UNCHANGED <<export, rows, parent, depth, known, mine, memo>>
      /\ pc[q] \notin {"link", "done"}
  BY DEF Begin, PageSelect, PageInsert, AuthorSelect, GhostsDone, GhostInsert, site, tree,
         locals, control
<1>2. /\ \A r \in Run \ {q} : pc'[r] = pc[r] /\ next'[r] = next[r]
      /\ pc'[q] \notin {"link", "done"}
  <2>1. CASE \/ Begin(q, TRUE) \/ Begin(q, FALSE) \/ GhostsDone(q)
             \/ PageSelect(q) /\ next[q] \notin page
    <3>1. Goto(q, "page") \/ Goto(q, "comment") \/ Goto(q, "newpage")
      BY <2>1 DEF Begin, GhostsDone, PageSelect
    <3> QED BY <3>1 DEF Goto, IInv, Counting
  <2>2. CASE \/ PageSelect(q) /\ next[q] \in page
             \/ PageInsert(q) \/ AuthorSelect(q)
    <3>1. \/ Forward(q, "page", PageCount, "author")
          \/ Forward(q, "author", UserCount, "ghost")
      BY <2>2 DEF PageSelect, PageInsert, AuthorSelect
    <3> QED BY <3>1, ForwardGoes DEF IInv
  <2>3. CASE \E u \in User : GhostInsert(q, u)
    BY <1>1, <2>3 DEF GhostInsert, control
  <2> QED BY <2>1, <2>2, <2>3
<1>3. RunFits(q) /\ memo[q] = NoMemo
  BY <1>1 DEF LinkInv, RunFits
<1>4. \A i \in mine[q] : ~Linked(q, i) /\ parent[i] = 0
  BY <1>1, <1>3 DEF RunFits, Linked
<1>5. \A i \in mine'[q] : ~Linked(q, i)' /\ parent'[i] = 0
  BY <1>1, <1>2, <1>4 DEF Linked
<1>6. RunFits(q)'
  BY <1>1, <1>3, <1>4, <1>5, RunQuiet DEF RunFits
<1> QED BY <1>1, <1>2, <1>6, OneRun DEF LinkInv

LEMMA RowSelectKeeps ==
    ASSUME IInv, LinkInv, NEW q \in Run, RowSelect(q)
    PROVE  LinkInv'
<1>1. /\ UNCHANGED <<export, rows, parent, depth, mine, memo>>
      /\ pc[q] = "comment"
      /\ Forward(q, "comment", N, "link") \/ Goto(q, "newcomment")
      /\ known' = known \/ known' = [known EXCEPT ![q] = known[q] \cup {next[q]}]
  BY DEF RowSelect, tree
<1>2. /\ \A r \in Run \ {q} : pc'[r] = pc[r] /\ next'[r] = next[r]
      /\ pc'[q] \in {"comment", "newcomment"} \/ (pc'[q] = "link" /\ next'[q] = 1)
  <2>1. CASE Forward(q, "comment", N, "link")
    BY <2>1, ForwardGoes DEF IInv
  <2>2. CASE Goto(q, "newcomment")
    BY <2>2 DEF Goto, IInv, Counting
  <2> QED BY <1>1, <2>1, <2>2
<1>3. RunFits(q) /\ memo[q] = NoMemo
  BY <1>1 DEF LinkInv, RunFits
<1>4. \A i \in mine[q] : ~Linked(q, i) /\ parent[i] = 0 /\ ~(i < 1)
  BY <1>1, <1>3, Sizes DEF RunFits, Linked, Item
<1>5. \A i \in mine'[q] : ~Linked(q, i)' /\ parent'[i] = 0
  BY <1>1, <1>2, <1>4 DEF Linked
<1>6. RunFits(q)'
  BY <1>1, <1>3, <1>4, <1>5, RunQuiet DEF RunFits
<1>7. known' \in [Run -> SUBSET Item] /\ \A r \in Run \ {q} : known'[r] = known[r]
  <2>1. next[q] \in Item /\ known \in [Run -> SUBSET Item]
    BY <1>1 DEF IInv, Counting, Total, Item, LinkInv
  <2> QED BY <1>1, <2>1
<1> QED BY <1>1, <1>2, <1>6, <1>7, OneRun DEF LinkInv

LEMMA RowInsertKeeps ==
    ASSUME IInv, LinkInv, NEW q \in Run, RowInsert(q)
    PROVE  LinkInv'
<1>1. /\ UNCHANGED <<export, parent, depth, known, memo>>
      /\ pc[q] = "newcomment" /\ next[q] \notin rows
      /\ rows' = rows \cup {next[q]}
      /\ Forward(q, "comment", N, "link")
  BY DEF RowInsert
<1>2. mine' = [mine EXCEPT ![q] = mine[q] \cup {next[q]}]
  BY DEF RowInsert
<1>3. /\ mine'[q] = mine[q] \cup {next[q]}
      /\ \A r \in Run \ {q} : mine'[r] = mine[r]
  BY <1>2 DEF IInv, Held
<1>4. /\ \A r \in Run \ {q} : pc'[r] = pc[r] /\ next'[r] = next[r]
      /\ pc'[q] = "comment" \/ (pc'[q] = "link" /\ next'[q] = 1)
  BY <1>1, ForwardGoes DEF IInv
<1>5. RunFits(q) /\ memo[q] = NoMemo
  BY <1>1 DEF LinkInv, RunFits
<1>6. next[q] \in Item /\ parent[next[q]] = 0
  BY <1>1 DEF IInv, Counting, Total, Item, LinkInv
<1>7. mine'[q] \subseteq Item
  BY <1>3, <1>5, <1>6 DEF RunFits
<1>8. \A i \in mine[q] : ~Linked(q, i) /\ parent[i] = 0
  BY <1>1, <1>5 DEF RunFits, Linked
<1>9. \A i \in mine'[q] : ~Linked(q, i)' /\ parent'[i] = 0
  <2>1. \A i \in mine'[q] : parent'[i] = 0
    BY <1>1, <1>3, <1>6, <1>8
  <2>2. \A i \in mine'[q] : ~(i < 1)
    BY <1>7, Sizes DEF Item
  <2> QED BY <1>4, <2>1, <2>2 DEF Linked
<1>10. RunFits(q)'
  BY <1>1, <1>5, <1>7, <1>8, <1>9, RunQuiet
<1>11. \A i \in Item \ rows' : parent'[i] = 0
  BY <1>1 DEF LinkInv
<1> QED BY <1>1, <1>3, <1>4, <1>10, <1>11, OneRun DEF LinkInv

LEMMA ForgetKeeps ==
    ASSUME IInv, LinkInv, NEW q \in Run, Finish(q) \/ Cut(q)
    PROVE  LinkInv'
<1>1. UNCHANGED <<export, rows, parent, depth>> /\ Forget(q)
  BY DEF Finish, Cut, tree
<1>2. /\ pc'[q] = "idle" /\ mine'[q] = {} /\ memo'[q] = NoMemo
      /\ \A r \in Run \ {q} : /\ known'[r] = known[r] /\ memo'[r] = memo[r]
                              /\ mine'[r] = mine[r] /\ pc'[r] = pc[r]
                              /\ next'[r] = next[r]
      /\ known' \in [Run -> SUBSET Item] /\ memo' \in [Run -> [Item -> Nat]]
  BY <1>1, NothingFits DEF Forget, IInv, Counting, Held, LinkInv
<1>3. RunFits(q)'
  <2>1. MemoFits(Effective(q)', NoMemo)
    BY NothingFits
  <2>2. NoMemo' = NoMemo
    BY DEF NoMemo
  <2>3. MemoFits(Effective(q), memo[q])'
    BY <1>2, <2>1 DEF MemoFits, Top, Nth, Ancestor
  <2> QED BY <1>2, <2>2, <2>3 DEF RunFits
<1> QED BY <1>1, <1>2, <1>3, OneRun DEF LinkInv

\* The comment that a run links next is one level below its parent, and the last
\* ancestor that leaves room for it when it is too deep.
LEMMA LinkPlaces ==
    ASSUME IInv, LinkInv, NEW q \in Run, pc[q] = "link", Links(q, next[q]),
           NEW m \in Nat, Top(Effective(q), next[q], m)
    PROVE  /\ m > 1
           /\ \E k \in 1..(m - 1) :
                 /\ LinkParent(q, next[q], MemoAfter(q, next[q])[next[q]])
                    = Nth(Effective(q), next[q], k)
                 /\ m - k = LinkDepth(MemoAfter(q, next[q])[next[q]]) - 1
           /\ LinkDepth(MemoAfter(q, next[q])[next[q]]) = Least(m, MaxDepth)
<1>1. PICK i \in Item : i = next[q]
  BY DEF IInv, Counting, Total, Item
<1>2. PICK f \in Upward : f = Effective(q)
  BY EffectiveType DEF LinkInv
<1>3. MemoAfter(q, i)[i] = m
  <2>1. memo[q] \in [Item -> Nat] /\ MemoFits(Effective(q), memo[q]) /\ export \in Export
    BY DEF LinkInv, RunFits
  <2> QED BY <1>1, <2>1, MemoIs
<1>4. m \in 1..N /\ N \in Nat
  BY <1>1, <1>2, TopBounded, Sizes
<1>5. m # 1
  <2>1. SUFFICES ASSUME m = 1 PROVE FALSE
    OBVIOUS
  <2>2. Nth(f, i, 0 + 1) = 0
    BY <1>1, <1>2, <2>1 DEF Top
  <2>3. Nth(f, i, 0 + 1) = Up1(f, i)
    BY NthNext, NthZero
  <2>4. f[i] # 0 /\ i # 0
    BY <1>1, <1>2 DEF Links, Item
  <2> QED BY <2>2, <2>3, <2>4 DEF Up1
<1> DEFINE k == IF m > MaxDepth THEN 1 + (m - MaxDepth) ELSE 1
<1>6. MaxDepth \in Nat /\ MaxDepth >= 2
  BY DepthAssumption
<1>7. k \in 1..(m - 1) /\ k \in 0..(N + 1) /\ m - k = Least(m, MaxDepth) - 1
  BY <1>4, <1>5, <1>6 DEF Least
<1>8. LinkParent(q, i, m) = Nth(f, i, k)
  <2>1. LinkParent(q, i, m) = Ancestor(f, i, N + 1)[k]
    BY <1>2 DEF LinkParent
  <2>2. N + 1 \in Nat
    BY <1>4
  <2> HIDE DEF k
  <2> QED BY <1>7, <2>1, <2>2, NthOf
<1>9. LinkDepth(m) = Least(m, MaxDepth)
  BY DEF LinkDepth
<1> HIDE DEF k
<1>10. m > 1
  BY <1>4, <1>5
<1> QED BY <1>1, <1>2, <1>3, <1>7, <1>8, <1>9, <1>10

LEMMA LinkKeeps ==
    ASSUME IInv, LinkInv, NEW q \in Run, Link(q)
    PROVE  LinkInv'
<1>1. PICK i \in Item : i = next[q]
  BY DEF IInv, Counting, Total, Item, Link
<1>2. /\ UNCHANGED <<export, rows, known, mine>> /\ pc[q] = "link"
      /\ Forward(q, "link", N, "done")
  BY DEF Link, tree
<1>3. /\ \A r \in Run \ {q} : pc'[r] = pc[r] /\ next'[r] = next[r]
      /\ \/ i < N /\ pc'[q] = "link" /\ next'[q] = i + 1
         \/ ~(i < N) /\ pc'[q] = "done" /\ next'[q] = 1
  BY <1>1, <1>2, ForwardGoes DEF IInv
<1>4. \A j \in Item : /\ Linked(q, j) <=> j < i
                      /\ Linked(q, j)' <=> (j < i \/ j = i)
  BY <1>1, <1>2, <1>3, Sizes DEF Linked, Item
<1>5. RunFits(q) /\ mine[q] \subseteq Item
  BY DEF LinkInv, RunFits
<1>6. PICK f \in Upward : f = Effective(q)
  BY EffectiveType DEF LinkInv
<1>7. Effective(q)' = f
  BY <1>2, <1>6, SameEffective
<1>8. ASSUME NEW g \in [Item -> Nat], MemoFits(f, g), memo' = [memo EXCEPT ![q] = g],
             \A x \in Id \ {i} : parent'[x] = parent[x] /\ depth'[x] = depth[x],
             i \notin mine[q] => parent'[i] = parent[i] /\ depth'[i] = depth[i],
             i \in mine[q] => Placed(q, i)'
      PROVE  LinkInv'
  <2>1. \A x \in rows \ mine[q] : parent'[x] = parent[x] /\ depth'[x] = depth[x]
    BY <1>8 DEF IInv, Columns
  <2>2. \A j \in Item \ rows' : parent'[j] = 0
    <3>1. mine[q] \subseteq rows /\ Item \subseteq Id
      BY DEF IInv, Held, Id
    <3> QED BY <1>2, <1>8, <3>1 DEF LinkInv
  <2>3. /\ memo' \in [Run -> [Item -> Nat]] /\ memo'[q] = g
        /\ \A r \in Run \ {q} : memo'[r] = memo[r]
    BY <1>8 DEF LinkInv
  <2>4. ASSUME NEW j \in mine[q] PROVE IF Linked(q, j)' THEN Placed(q, j)' ELSE parent'[j] = 0
    <3>1. j \in Item /\ j \in Id
      BY <1>5 DEF Id
    <3>2. CASE j = i
      BY <1>4, <1>8, <3>1, <3>2
    <3>3. CASE j # i
      <4>1. parent'[j] = parent[j] /\ depth'[j] = depth[j]
        BY <1>8, <3>1, <3>3
      <4>2. Placed(q, j)' <=> Placed(q, j)
        BY <1>6, <1>7, <4>1 DEF Placed
      <4>3. Linked(q, j)' <=> Linked(q, j)
        BY <1>4, <3>1, <3>3
      <4> QED BY <1>5, <4>1, <4>2, <4>3 DEF RunFits
    <3> QED BY <3>2, <3>3
  <2>5. pc'[q] \in {"link", "done"}
    BY <1>3
  <2>6. MemoFits(Effective(q), memo[q])'
    <3>1. MemoFits(Effective(q)', g)
      BY <1>7, <1>8
    <3> QED BY <2>3, <3>1 DEF MemoFits, Top, Nth, Ancestor
  <2>7. RunFits(q)'
    BY <1>2, <1>5, <2>4, <2>5, <2>6 DEF RunFits
  <2>8. known' \in [Run -> SUBSET Item] /\ \A r \in Run \ {q} : known'[r] = known[r]
    BY <1>2 DEF LinkInv
  <2> QED BY <1>2, <1>3, <2>1, <2>2, <2>3, <2>7, <2>8, OneRun
<1>9. CASE ~Links(q, i)
  <2>1. UNCHANGED <<parent, depth, memo>>
    BY <1>1, <1>9 DEF Link, tree
  <2>2. ASSUME i \in mine[q] PROVE Placed(q, i)'
    <3>1. f[i] = 0 /\ parent[i] = 0
      <4>1. f[i] = 0
        BY <1>6, <1>9, <2>2 DEF Links
      <4>2. ~Linked(q, i)
        BY <1>1, <1>4, Sizes DEF Item
      <4> QED BY <1>5, <2>2, <4>1, <4>2 DEF RunFits
    <3>2. Nth(f, i, 0 + 1) = 0
      <4>1. Nth(f, i, 0 + 1) = Up1(f, i)
        BY NthNext, NthZero
      <4> QED BY <3>1, <4>1 DEF Up1
    <3>3. ASSUME NEW m \in Nat, Top(f, i, m) PROVE ~(m > 1)
      BY <3>2, <3>3 DEF Top
    <3> QED BY <1>7, <2>1, <3>1, <3>3 DEF Placed
  <2>3. memo' = [memo EXCEPT ![q] = memo[q]] /\ memo[q] \in [Item -> Nat]
    BY <2>1 DEF LinkInv
  <2>4. MemoFits(f, memo[q])
    BY <1>5, <1>6 DEF RunFits
  <2> QED BY <1>8, <2>1, <2>2, <2>3, <2>4
<1>10. CASE Links(q, i)
  <2>1. i \in mine[q] /\ parent[i] = 0 /\ i \in Id
    <3>1. i \in mine[q]
      BY <1>10 DEF Links
    <3>2. ~Linked(q, i)
      BY <1>1, <1>4, Sizes DEF Item
    <3> QED BY <1>5, <3>1, <3>2 DEF RunFits, Id
  <2>2. PICK d : d = MemoAfter(q, i)[i]
    OBVIOUS
  <2>3. /\ memo' = [memo EXCEPT ![q] = MemoAfter(q, i)]
        /\ parent' = [parent EXCEPT ![i] = LinkParent(q, i, d)]
        /\ depth' = [depth EXCEPT ![i] = LinkDepth(d)]
    BY <1>1, <1>10, <2>1, <2>2 DEF Link
  <2>4. MemoAfter(q, i) \in [Item -> Nat] /\ MemoFits(f, MemoAfter(q, i))
    <3>1. memo[q] \in [Item -> Nat] /\ MemoFits(Effective(q), memo[q]) /\ export \in Export
      BY DEF LinkInv, RunFits
    <3> QED BY <1>6, <3>1, MemoIs
  <2>5. /\ parent'[i] = LinkParent(q, i, d) /\ depth'[i] = LinkDepth(d)
        /\ \A x \in Id \ {i} : parent'[x] = parent[x] /\ depth'[x] = depth[x]
    BY <2>1, <2>3 DEF IInv, Columns
  <2>6. ASSUME NEW m \in Nat, Top(f, i, m)
        PROVE  /\ m > 1 /\ depth'[i] = Least(m, MaxDepth)
               /\ \E k \in 1..(m - 1) : parent'[i] = Nth(f, i, k) /\ m - k = depth'[i] - 1
    BY <1>1, <1>2, <1>6, <1>10, <2>2, <2>5, <2>6, LinkPlaces
  <2>7. Placed(q, i)'
    BY <1>7, <2>6 DEF Placed
  <2> QED BY <1>8, <2>1, <2>3, <2>4, <2>5, <2>7
<1> QED BY <1>9, <1>10

LEMMA LinkStep == IInv /\ LinkInv /\ [Next]_vars => LinkInv'
<1> SUFFICES ASSUME IInv, LinkInv, [Next]_vars PROVE LinkInv'
  OBVIOUS
<1>1. ASSUME NEW q \in Run, RunStep(q) PROVE LinkInv'
  BY <1>1, EarlyKeeps, RowSelectKeeps, RowInsertKeeps, LinkKeeps, ForgetKeeps DEF RunStep
<1>2. ASSUME UNCHANGED <<export, control, locals>>,
             \A i \in Item : parent'[i] = parent[i] /\ depth'[i] = depth[i],
             rows \subseteq rows'
      PROVE  LinkInv'
  <2>1. UNCHANGED <<export, pc, next, known, mine, memo>>
    BY <1>2 DEF control, locals
  <2>2. ASSUME NEW r \in Run PROVE RunFits(r)'
    <3>1. RunFits(r) /\ mine[r] \subseteq Item
      BY DEF LinkInv, RunFits
    <3> QED BY <1>2, <2>1, <3>1, RunKept
  <2> QED BY <1>2, <2>1, <2>2 DEF LinkInv
<1>3. ASSUME NEW x \in Reply, ReplyInsert(x) PROVE LinkInv'
  <2>1. \A i \in Item : i \in Id /\ i # x
    BY ReplyAssumption, Sizes DEF Item, Id
  <2>2. \A i \in Item : parent'[i] = parent[i] /\ depth'[i] = depth[i]
    BY <1>3, <2>1 DEF ReplyInsert, IInv, Columns
  <2> QED BY <1>2, <1>3, <2>2 DEF ReplyInsert
<1>4. CASE \/ UNCHANGED vars
           \/ \E x \in Reply, c \in Id : ReplyRead(x, c)
           \/ \E u \in User, s \in {"clear", "banned"} : SetBanned(u, s)
  <2>1. UNCHANGED <<export, control, locals, tree>>
    BY <1>4 DEF vars, ReplyRead, SetBanned
  <2> QED BY <1>2, <2>1 DEF tree
<1> QED BY <1>1, <1>3, <1>4 DEF Next

\* The parents are on one page.
LEMMA OnePage ==
    ASSUME NEW r, export \in Export, NEW x \in Item, NEW k \in Nat,
           Nth(Effective(r), x, k) # 0
    PROVE  export.thread[Nth(Effective(r), x, k)] = export.thread[x]
<1>1. PICK f \in Upward : f = Effective(r)
  BY EffectiveType
<1>2. \A i \in Item : f[i] # 0 => export.thread[f[i]] = export.thread[i]
  BY <1>1 DEF Effective
<1> DEFINE K == {j \in Nat : Nth(f, x, j) # 0 => export.thread[Nth(f, x, j)] = export.thread[x]}
<1>3. 0 \in K
  BY NthZero
<1>4. \A j \in K : j + 1 \in K
  <2> SUFFICES ASSUME NEW j \in Nat,
                      Nth(f, x, j) # 0 => export.thread[Nth(f, x, j)] = export.thread[x],
                      Nth(f, x, j + 1) # 0
               PROVE  export.thread[Nth(f, x, j + 1)] = export.thread[x]
    OBVIOUS
  <2>1. Nth(f, x, j + 1) = Up1(f, Nth(f, x, j))
    BY NthNext
  <2>2. Nth(f, x, j) # 0 /\ Nth(f, x, j) \in Item /\ Nth(f, x, j + 1) = f[Nth(f, x, j)]
    BY <2>1, NthType DEF Up1
  <2> QED BY <1>2, <2>2
<1>5. K = Nat
  <2>1. K \in SUBSET Nat
    OBVIOUS
  <2> HIDE DEF K
  <2> QED BY <1>3, <1>4, <2>1, Inductive
<1>6. k \in K
  <2> HIDE DEF K
  <2> QED BY <1>5
<1> QED BY <1>1, <1>6

\* A run that comes to its end has put every comment it inserted, if the export's
\* chain from it has a root, at its depth under its parent, or under the ancestor
\* just above the cap: depthOf, effectiveParent and the second pass of runImport.
THEOREM ThreadsAreRestored == Spec => ThreadsRestored
<1> DEFINE Right == \A r \in Run : Finish(r) =>
                       \A i \in mine[r] : Rooted(r, i) => Restored(r, i)
<1>1. IInv /\ LinkInv => Right
  <2> SUFFICES ASSUME IInv, LinkInv, NEW r \in Run, Finish(r), NEW i \in mine[r],
                      Rooted(r, i)
               PROVE  Restored(r, i)
    OBVIOUS
  <2>1. i \in Item /\ pc[r] = "done" /\ RunFits(r) /\ export \in Export
    BY DEF LinkInv, RunFits, Finish
  <2>2. Placed(r, i)
    BY <2>1 DEF RunFits, Linked
  <2>3. PICK f \in Upward : f = Effective(r)
    BY <2>1, EffectiveType
  <2>4. N \in Nat /\ N \in 0..N
    BY Sizes
  <2>5. PICK m \in Nat : Top(f, i, m)
    <3>1. Nth(f, i, N) = 0
      BY <2>3, <2>4, NthOf DEF Rooted
    <3> QED BY <2>4, <3>1, TopExists
  <2>6. m \in 1..N
    BY <2>1, <2>3, <2>5, TopBounded
  <2>7. Cardinality(Above(r, i)) = m - 1
    BY <2>1, <2>3, <2>5, AboveCounts DEF Above
  <2>8. CASE m = 1
    BY <2>2, <2>3, <2>5, <2>7, <2>8 DEF Placed, Restored
  <2>9. CASE m # 1
    <3>1. m > 1
      BY <2>6, <2>9
    <3>2. PICK k \in 1..(m - 1) : parent[i] = Nth(f, i, k) /\ m - k = depth[i] - 1
      BY <2>2, <2>3, <2>5, <3>1 DEF Placed
    <3>3. depth[i] = Least(m, MaxDepth)
      BY <2>2, <2>3, <2>5, <3>1 DEF Placed
    <3>4. k \in Nat /\ k < m /\ k <= m /\ k \in 1..N /\ k \in 0..N
      BY <2>4, <2>6
    <3>5. parent[i] # 0
      BY <2>5, <3>2, <3>4 DEF Top
    <3>6. parent[i] \in Item
      BY <2>1, <2>3, <3>2, <3>4, <3>5, NthType
    <3>7. parent[i] \in Above(r, i)
      <4>1. Ancestor(f, i, N)[k] = parent[i]
        BY <2>4, <3>2, <3>4, NthOf
      <4> QED BY <2>3, <3>4, <3>5, <4>1 DEF Above
    <3>8. Cardinality(Above(r, parent[i])) = (m - k) - 1
      <4>1. Top(f, parent[i], m - k)
        BY <2>5, <3>2, <3>4, TopAbove
      <4> QED BY <2>3, <3>6, <4>1, AboveCounts DEF Above
    <3>9. Cardinality(Above(r, parent[i])) = depth[i] - 2
      <4>1. depth[i] \in Nat
        BY <3>3, DepthAssumption DEF Least
      <4> QED BY <3>2, <3>8, <4>1
    <3>10. export.thread[parent[i]] = export.thread[i]
      BY <2>1, <2>3, <3>2, <3>4, <3>5, OnePage
    <3>11. depth[i] = Least((m - 1) + 1, MaxDepth) /\ m - 1 # 0
      BY <3>1, <3>3
    <3> HIDE DEF Right
    <3> QED BY <2>7, <3>7, <3>9, <3>10, <3>11 DEF Restored
  <2> QED BY <2>8, <2>9
<1>2. Spec => [](IInv /\ LinkInv)
  BY InitInv, NextInv, LinkInit, LinkStep, PTL DEF Spec
<1>3. IInv /\ LinkInv => [Right]_vars
  BY <1>1
<1> QED BY <1>2, <1>3, PTL DEF Spec, ThreadsRestored
=============================================================================
