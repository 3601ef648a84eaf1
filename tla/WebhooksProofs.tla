--------------------------- MODULE WebhooksProofs ---------------------------
(***************************************************************************)
(* Theorems about Webhooks, for any endpoints and deliveries, any length   *)
(* of the schedule, any threshold and batch, and any number of faults.     *)
(*                                                                         *)
(* The invariant ties what the pass holds in its hands to the rows: its    *)
(* copy of the fail count is never below the one in the row and equals it  *)
(* unless the endpoint was touched; a row it is about to settle is still   *)
(* pending, or went with its endpoint; and the posts made for a row are    *)
(* the attempts it shows, up to one per fault and the one in flight.       *)
(***************************************************************************)
EXTENDS Webhooks, TLAPS

Posted == {"settle", "backoff"}
Copied == {"post", "settle", "reset", "backoff", "count"}

\* The copy of the fail count, against the row.
CopyFits ==
    pc \in Copied =>
        /\ pc \in {"post", "backoff", "count"} =>
              endpoint[Target[cur]].fails <= read
        /\ ~stale => On(Target[cur]) /\ endpoint[Target[cur]].fails = read

\* What the pass has still to settle.
Open(d) ==
    \/ row[d] = "pending"
    \/ row[d] = "removed" /\ endpoint[Target[d]].state = "deleted" /\ d \in void

HandsFit ==
    /\ \A d \in batch : Open(d)
    /\ pc \in {"drop", "post"} \union Posted => Open(cur)
    /\ pc = "settle" => cur \in accepted

\* A post whose row still shows the attempt before it.
Flight(d) == IF pc \in Posted /\ d = cur THEN 1 ELSE 0

Ledger ==
    /\ \A d \in Delivery : row[d] = "none" => tries[d] = 0 /\ attempts[d] = 0
    /\ \A d \in Pending : /\ attempts[d] < Retries
                          /\ attempts[d] + Flight(d) <= tries[d]
                          /\ tries[d] <= attempts[d] + faults + Flight(d)
    /\ pc = "post" => tries[cur] < Retries + faults

IInv ==
    /\ TypeOK
    /\ CopyFits
    /\ PausedInTime
    /\ HandsFit
    /\ Ledger
    /\ GivenUpAfterRetries

LEMMA InitInv == Init => IInv
<1> SUFFICES ASSUME Init PROVE IInv OBVIOUS
<1> USE TargetAssumption, RetriesAssumption, ThresholdAssumption, FaultAssumption DEF Init
<1>1. TypeOK
  <2>1. endpoint \in [Endpoint -> EndpointRow]
    <3>1. [state |-> "absent", fails |-> 0, marked |-> FALSE] \in EndpointRow
      BY DEF EndpointRow
    <3>2. QED BY <3>1
  <2>2. due \subseteq Pending /\ ahead \in [Delivery -> SUBSET due] OBVIOUS
  <2>3. stale \in BOOLEAN BY Zenon
  <2>4. QED BY <2>1, <2>2, <2>3 DEF TypeOK, InHand
<1>2. CopyFits /\ HandsFit BY DEF CopyFits, HandsFit, Copied, Posted
<1>3. PausedInTime BY DEF PausedInTime, On
<1>4. Ledger BY DEF Ledger, Pending
<1>5. GivenUpAfterRetries BY DEF GivenUpAfterRetries
<1>6. QED BY <1>1, <1>2, <1>3, <1>4, <1>5 DEF IInv

-----------------------------------------------------------------------------
(* What a step that stays out of one part leaves alone. *)

\* Neither the rows nor the pass move: only endpoints and requests do.
LEMMA LedgerKept ==
    ASSUME IInv, UNCHANGED <<row, attempts, pass, history>>,
           \A e \in Endpoint : endpoint[e].state = "deleted"
                                  => endpoint'[e].state = "deleted"
    PROVE  HandsFit' /\ Ledger' /\ GivenUpAfterRetries'
<1> USE DEF IInv, pass, history
<1>1. HandsFit'
  BY TargetAssumption DEF TypeOK, HandsFit, Open, Posted
<1>2. Ledger' /\ GivenUpAfterRetries'
  BY DEF Ledger, GivenUpAfterRetries, Pending, Flight, Posted
<1>3. QED BY <1>1, <1>2

\* No endpoint changes and the pass stays with its copy, or puts it away.
LEMMA CopyKept ==
    ASSUME IInv, UNCHANGED <<endpoint, cur, read, stale>>,
           \/ pc' \notin Copied
           \/ pc = "post" /\ pc' \in Posted
           \/ pc = "backoff" /\ pc' = "count"
           \/ pc = "settle" /\ pc' = "reset"
           \/ pc' = pc
    PROVE  CopyFits' /\ PausedInTime'
BY DEF IInv, CopyFits, PausedInTime, On, Copied, Posted

\* An endpoint changes under the pass.
LEMMA EndpointMoves ==
    ASSUME IInv, NEW e \in Endpoint, NEW r \in EndpointRow,
           endpoint' = [endpoint EXCEPT ![e] = r],
           endpoint[e].state # "deleted",
           r.state = "on" => r.fails < Threshold,
           r.fails <= endpoint[e].fails,
           stale => stale', pc \in Copied /\ Target[cur] = e => stale',
           UNCHANGED pass
    PROVE  /\ endpoint' \in [Endpoint -> EndpointRow]
           /\ \A x \in Endpoint : endpoint[x].state = "deleted"
                                     => endpoint'[x].state = "deleted"
           /\ CopyFits' /\ PausedInTime'
<1> USE TargetAssumption, ThresholdAssumption DEF IInv, pass
<1>1. \A x \in Endpoint : endpoint'[x] = IF x = e THEN r ELSE endpoint[x]
  BY DEF TypeOK
<1>2. endpoint' \in [Endpoint -> EndpointRow]
  BY DEF TypeOK
<1>3. \A x \in Endpoint : endpoint[x].fails \in Nat /\ endpoint'[x].fails \in Nat
  BY <1>2 DEF TypeOK, EndpointRow
<1>4. CopyFits'
  <2> SUFFICES ASSUME pc \in Copied
               PROVE  /\ pc \in {"post", "backoff", "count"} =>
                            endpoint'[Target[cur]].fails <= read
                      /\ ~stale' => On(Target[cur])'
                                    /\ endpoint'[Target[cur]].fails = read
    BY DEF CopyFits
  <2>1. Target[cur] \in Endpoint /\ read \in Nat BY DEF TypeOK
  <2>2. CASE Target[cur] = e
    BY <1>1, <1>3, <2>1, <2>2 DEF CopyFits
  <2>3. CASE Target[cur] # e
    BY <1>1, <2>1, <2>3 DEF CopyFits, On
  <2>4. QED BY <2>2, <2>3
<1>5. PausedInTime'
  BY <1>1 DEF PausedInTime, On
<1>6. QED BY <1>1, <1>2, <1>4, <1>5

LEMMA TouchMoves ==
    ASSUME IInv, NEW e \in Endpoint, Touch(e)
    PROVE  /\ stale' \in BOOLEAN /\ (stale => stale')
           /\ pc \in Copied /\ Target[cur] = e => stale'
<1>1. stale' = (stale \/ InUse(e)) BY DEF Touch
<1>2. pc \in Copied /\ Target[cur] = e => InUse(e) BY DEF InUse, InHand, Copied
<1>3. stale' \in BOOLEAN BY <1>1
<1>4. QED BY <1>1, <1>2, <1>3

\* resetWebhookFailCount, by a request or by the pass.
LEMMA ResetMoves ==
    ASSUME IInv, NEW e \in Endpoint, ResetFailCount(e)
    PROVE  \/ UNCHANGED endpoint
           \/ \E r \in EndpointRow :
                 /\ endpoint' = [endpoint EXCEPT ![e] = r]
                 /\ endpoint[e].state # "deleted"
                 /\ r.state = endpoint[e].state /\ r.fails = 0
<1> DEFINE r == [endpoint[e] EXCEPT !.fails = 0, !.marked = FALSE]
<1>1. endpoint[e] \in EndpointRow BY DEF IInv, TypeOK
<1>2. r \in EndpointRow /\ r.state = endpoint[e].state /\ r.fails = 0
  BY <1>1 DEF EndpointRow
<1>3. CASE Exists(e)
  <2>1. endpoint' = [endpoint EXCEPT ![e] = r]
    BY <1>3 DEF ResetFailCount, IInv, TypeOK
  <2>2. QED BY <1>2, <1>3, <2>1 DEF Exists
<1>4. CASE ~Exists(e) BY <1>4 DEF ResetFailCount
<1>5. QED BY <1>3, <1>4

-----------------------------------------------------------------------------
(* The admin's edits. *)

LEMMA EditsInv ==
    ASSUME IInv, NEW e \in Endpoint,
           Create(e, "on") \/ Create(e, "off") \/ Enable(e) \/ Disable(e)
    PROVE  IInv'
<1> USE ThresholdAssumption DEF IInv
<1>1. endpoint[e] \in EndpointRow /\ endpoint[e].fails \in Nat
  BY DEF TypeOK, EndpointRow
<1>2. ASSUME NEW r \in EndpointRow, Put(e, r), endpoint[e].state # "deleted",
             r.state = "on" => r.fails < Threshold,
             r.fails <= endpoint[e].fails,
             stale' \in BOOLEAN, stale => stale',
             pc \in Copied /\ Target[cur] = e => stale',
             UNCHANGED <<inline, queue, pass, history>>
      PROVE  IInv'
  <2>1. /\ endpoint' \in [Endpoint -> EndpointRow]
        /\ \A x \in Endpoint : endpoint[x].state = "deleted"
                                  => endpoint'[x].state = "deleted"
        /\ CopyFits' /\ PausedInTime'
    BY <1>2, EndpointMoves DEF Put
  <2>2. TypeOK'
    BY <1>2, <2>1 DEF TypeOK, inline, queue, pass, history, Pending
  <2>3. QED BY <1>2, <2>1, <2>2, LedgerKept DEF queue
<1>3. ASSUME NEW s \in {"on", "off"}, Create(e, s) PROVE IInv'
  <2> DEFINE r == [state |-> s, fails |-> 0, marked |-> FALSE]
  <2>1. r \in EndpointRow BY DEF EndpointRow
  <2>2. pc \in Copied /\ Target[cur] = e => stale
    BY <1>3 DEF Create, CopyFits, On
  <2>3. stale' = stale /\ stale' \in BOOLEAN
    <3>1. UNCHANGED stale BY <1>3 DEF Create
    <3>2. stale \in BOOLEAN BY DEF TypeOK
    <3>3. QED BY <3>1, <3>2
  <2>4. QED BY <1>1, <1>2, <1>3, <2>1, <2>2, <2>3 DEF Create
<1>4. CASE Enable(e)
  <2> DEFINE r == [state |-> "on", fails |-> 0, marked |-> FALSE]
  <2>1. r \in EndpointRow BY DEF EndpointRow
  <2>2. QED BY <1>1, <1>2, <1>4, <2>1, TouchMoves DEF Enable, Exists
<1>5. CASE Disable(e)
  <2> DEFINE r == [endpoint[e] EXCEPT !.state = "off"]
  <2>1. r \in EndpointRow /\ r.state = "off" /\ r.fails = endpoint[e].fails
    BY <1>1 DEF EndpointRow
  <2>2. Put(e, r) /\ endpoint[e].state # "deleted" /\ Touch(e)
        /\ UNCHANGED <<inline, queue, pass, history>>
    BY <1>5 DEF Disable, Exists
  <2> HIDE DEF r
  <2>3. /\ stale' \in BOOLEAN /\ (stale => stale')
        /\ pc \in Copied /\ Target[cur] = e => stale'
    BY <2>2, TouchMoves
  <2>4. QED BY <1>1, <1>2, <2>1, <2>2, <2>3
<1>6. QED BY <1>3, <1>4, <1>5

LEMMA DeleteInv ==
    ASSUME IInv, NEW e \in Endpoint, Delete(e)
    PROVE  IInv'
<1> USE DEF IInv
<1> DEFINE r    == [endpoint[e] EXCEPT !.state = "deleted"]
           mine == {d \in Delivery : Target[d] = e}
<1>1. endpoint[e] \in EndpointRow BY DEF TypeOK
<1>2. r \in EndpointRow /\ r.state = "deleted" /\ r.fails = endpoint[e].fails
      /\ r.fails \in Nat
  BY <1>1 DEF EndpointRow
<1>3. /\ endpoint' = [endpoint EXCEPT ![e] = r] /\ endpoint[e].state # "deleted"
      /\ row' = [d \in Delivery |-> IF d \in mine /\ row[d] # "none"
                                    THEN "removed" ELSE row[d]]
      /\ due' = due \ mine
      /\ ahead' = [d \in Delivery |-> IF d \in mine THEN {} ELSE ahead[d] \ mine]
      /\ void' = void \union (mine \intersect Pending)
      /\ dropped' = dropped \union (mine \intersect Pending)
      /\ Touch(e)
      /\ UNCHANGED <<inline, attempts, pass, tries, accepted>>
  BY DEF Delete, Put, Exists, Leave
<1> HIDE DEF r, mine
<1>4. /\ stale' \in BOOLEAN /\ (stale => stale')
      /\ pc \in Copied /\ Target[cur] = e => stale'
  BY <1>3, TouchMoves
<1>5. /\ endpoint' \in [Endpoint -> EndpointRow]
      /\ \A x \in Endpoint : endpoint[x].state = "deleted"
                                => endpoint'[x].state = "deleted"
      /\ CopyFits' /\ PausedInTime'
  <2>1. endpoint[e].fails \in Nat /\ r.fails <= endpoint[e].fails
    BY <1>1, <1>2 DEF EndpointRow
  <2>2. UNCHANGED pass /\ (r.state = "on" => r.fails < Threshold)
    BY <1>2, <1>3
  <2>3. QED BY <1>2, <1>3, <1>4, <2>1, <2>2, EndpointMoves
<1>6. TypeOK'
  BY <1>3, <1>4, <1>5 DEF TypeOK, inline, pass, Pending
<1>7. HandsFit'
  <2>1. endpoint'[e].state = "deleted" BY <1>2, <1>3 DEF TypeOK
  <2>2. ASSUME NEW d \in Delivery, Open(d) PROVE Open(d)'
    BY <1>3, <1>5, <2>1, <2>2, TargetAssumption DEF Open, mine, Pending, TypeOK
  <2>3. QED BY <1>3, <2>2 DEF HandsFit, TypeOK, pass
<1>8. Ledger' /\ GivenUpAfterRetries'
  BY <1>3 DEF TypeOK, Ledger, GivenUpAfterRetries, Pending, Flight, Posted, pass
<1>9. QED BY <1>5, <1>6, <1>7, <1>8

-----------------------------------------------------------------------------
(* The requests. *)

LEMMA InlineInv ==
    ASSUME IInv, NEW d \in Delivery, InlineStep(d)
    PROVE  IInv'
<1> USE TargetAssumption, RetriesAssumption DEF IInv, inline, queue, pass, history
<1>1. CASE Fire(d)
  <2>1. seen' \in [Delivery -> Nat]
    BY <1>1 DEF Fire, TypeOK, EndpointRow
  <2>2. TypeOK' BY <1>1, <2>1 DEF Fire, Become, TypeOK, Pending
  <2>3. UNCHANGED <<endpoint, row, attempts, pass, history, stale>>
    BY <1>1 DEF Fire
  <2>4. QED BY <2>2, <2>3, LedgerKept, CopyKept
<1>2. CASE InlineOk(d) \/ InlineFail(d) \/ InlineLost(d)
  <2>1. TypeOK'
    BY <1>2 DEF InlineOk, InlineFail, InlineLost, Become, TypeOK, Pending
  <2>2. UNCHANGED <<endpoint, row, attempts, pass, history, stale>>
    BY <1>2 DEF InlineOk, InlineFail, InlineLost
  <2>3. QED BY <2>1, <2>2, LedgerKept, CopyKept
<1>3. CASE InlineReset(d)
  <2>1. /\ ResetFailCount(Target[d]) /\ Touch(Target[d])
        /\ UNCHANGED <<seen, queue, pass, history>>
        /\ Become(d, "over")
    BY <1>3 DEF InlineReset
  <2>2. Target[d] \in Endpoint OBVIOUS
  <2>3. /\ stale' \in BOOLEAN /\ (stale => stale')
        /\ pc \in Copied /\ Target[cur] = Target[d] => stale'
    BY <2>1, <2>2, TouchMoves
  <2>4. /\ endpoint' \in [Endpoint -> EndpointRow]
        /\ \A x \in Endpoint : endpoint[x].state = "deleted"
                                  => endpoint'[x].state = "deleted"
        /\ CopyFits' /\ PausedInTime'
    <3>1. CASE UNCHANGED endpoint
      BY <2>1, <2>3, <3>1 DEF TypeOK, CopyFits, PausedInTime, On
    <3>2. CASE endpoint' # endpoint
      <4>1. PICK r \in EndpointRow :
                /\ endpoint' = [endpoint EXCEPT ![Target[d]] = r]
                /\ endpoint[Target[d]].state # "deleted"
                /\ r.state = endpoint[Target[d]].state /\ r.fails = 0
        BY <2>1, <2>2, <3>2, ResetMoves
      <4>2. r.fails <= endpoint[Target[d]].fails
            /\ (r.state = "on" => r.fails < Threshold)
        BY <2>2, <4>1, ThresholdAssumption DEF TypeOK, EndpointRow
      <4>3. QED BY <2>1, <2>2, <2>3, <4>1, <4>2, EndpointMoves
    <3>3. QED BY <3>1, <3>2
  <2>5. TypeOK'
    BY <2>1, <2>3, <2>4 DEF Become, TypeOK, Pending
  <2>6. QED BY <2>1, <2>4, <2>5, LedgerKept
<1>4. CASE Enqueue(d)
  <2> USE <1>4 DEF Enqueue, Become
  <2>1. row[d] = "none" /\ Exists(Target[d]) BY DEF TypeOK
  <2>2. TypeOK' BY DEF TypeOK, Pending
  <2>3. CopyFits' /\ PausedInTime' BY CopyKept
  <2>4. HandsFit' BY <2>1 DEF TypeOK, HandsFit, Open, Posted
  <2>5. Ledger'
    BY <2>1 DEF TypeOK, Ledger, Pending, Flight, Posted, HandsFit, Open
  <2>6. GivenUpAfterRetries' BY <2>1 DEF TypeOK, GivenUpAfterRetries
  <2>7. QED BY <2>2, <2>3, <2>4, <2>5, <2>6
<1>5. QED BY <1>1, <1>2, <1>3, <1>4 DEF InlineStep

-----------------------------------------------------------------------------
(* The pass. *)

\* Updating the row in hand, which is open, keeps the queue a queue.
LEMMA WriteMoves ==
    ASSUME IInv, NEW s \in {"pending", "delivered", "giveup"}, Write(s), Open(cur),
           UNCHANGED task
    PROVE  /\ row' \in [Delivery -> {"none", "pending", "delivered", "giveup", "removed"}]
           /\ row'[cur] = IF row[cur] = "removed" THEN "removed" ELSE s
           /\ \A d \in Delivery \ {cur} : row'[d] = row[d] /\ attempts'[d] = attempts[d]
           /\ attempts' \in [Delivery -> Nat] /\ attempts'[cur] = attempts[cur] + 1
           /\ due' \subseteq Pending' /\ ahead' \in [Delivery -> SUBSET due']
           /\ \A d \in Delivery : row'[d] # "none" => task'[d] = "over"
<1> USE DEF IInv, Write, Open, Leave
<1>1. cur \in Delivery /\ task[cur] = "over" BY DEF TypeOK
<1>2. /\ row' \in [Delivery -> {"none", "pending", "delivered", "giveup", "removed"}]
      /\ row'[cur] = IF row[cur] = "removed" THEN "removed" ELSE s
      /\ \A d \in Delivery \ {cur} : row'[d] = row[d]
  BY <1>1 DEF TypeOK
<1>3. /\ attempts' \in [Delivery -> Nat] /\ attempts'[cur] = attempts[cur] + 1
      /\ \A d \in Delivery \ {cur} : attempts'[d] = attempts[d]
  BY <1>1 DEF TypeOK
<1>4. due' \subseteq Pending' /\ ahead' \in [Delivery -> SUBSET due']
  BY <1>2 DEF TypeOK, Pending
<1>5. \A d \in Delivery : row'[d] # "none" => task'[d] = "over"
  BY <1>1, <1>2 DEF TypeOK
<1>6. QED BY <1>2, <1>3, <1>4, <1>5

\* The ends of an attempt on the row in hand.
LEMMA SettleInv ==
    ASSUME IInv, Drop \/ Settle \/ Backoff
    PROVE  IInv'
<1> USE RetriesAssumption DEF IInv
<1>1. /\ Open(cur) /\ cur \in Delivery /\ cur \notin batch
      /\ attempts[cur] \in Nat /\ tries[cur] \in Nat
  BY DEF HandsFit, Posted, Drop, Settle, Backoff, TypeOK, InHand
<1>2. CASE Drop
  <2>1. Write("giveup") /\ UNCHANGED task BY <1>2 DEF Drop, inline
  <2>2. /\ row'[cur] = IF row[cur] = "removed" THEN "removed" ELSE "giveup"
        /\ \A d \in Delivery \ {cur} : row'[d] = row[d] /\ attempts'[d] = attempts[d]
    BY <1>1, <2>1, WriteMoves
  <2>3. TypeOK'
    BY <1>1, <1>2, <2>1, WriteMoves DEF Drop, Goto, TypeOK, inline
  <2>4. CopyFits' /\ PausedInTime'
    BY <1>2, CopyKept DEF Drop, Goto, Copied
  <2>5. HandsFit'
    BY <1>1, <1>2, <2>2 DEF Drop, Goto, HandsFit, Open, Posted, TypeOK
  <2>6. Ledger'
    BY <1>1, <1>2, <2>2 DEF Drop, Goto, Ledger, Pending, Flight, Posted, TypeOK, Open
  <2>7. GivenUpAfterRetries'
    BY <1>1, <1>2, <2>2 DEF Drop, Goto, GivenUpAfterRetries, TypeOK
  <2>8. QED BY <2>3, <2>4, <2>5, <2>6, <2>7
<1>3. CASE Settle
  <2>1. Write("delivered") /\ UNCHANGED task BY <1>3 DEF Settle, inline
  <2>2. /\ row'[cur] = IF row[cur] = "removed" THEN "removed" ELSE "delivered"
        /\ \A d \in Delivery \ {cur} : row'[d] = row[d] /\ attempts'[d] = attempts[d]
    BY <1>1, <2>1, WriteMoves
  <2>3. TypeOK'
    BY <1>1, <1>3, <2>1, WriteMoves DEF Settle, Goto, TypeOK, inline, history, InHand
  <2>4. CopyFits' /\ PausedInTime'
    BY <1>3, CopyKept DEF Settle, Goto, Copied
  <2>5. HandsFit'
    BY <1>1, <1>3, <2>2 DEF Settle, Goto, HandsFit, Open, Posted, TypeOK, history
  <2>6. Ledger'
    BY <1>1, <1>3, <2>2
       DEF Settle, Goto, Ledger, Pending, Flight, Posted, TypeOK, Open, history
  <2>7. GivenUpAfterRetries'
    BY <1>1, <1>3, <2>2 DEF Settle, Goto, GivenUpAfterRetries, TypeOK, history
  <2>8. QED BY <2>3, <2>4, <2>5, <2>6, <2>7
<1>4. CASE Backoff
  <2> DEFINE s == IF Exhausted(cur) THEN "giveup" ELSE "pending"
  <2>1. Write(s) /\ UNCHANGED task BY <1>4 DEF Backoff, inline
  <2>2. s \in {"pending", "delivered", "giveup"} OBVIOUS
  <2> HIDE DEF s
  <2>3. /\ row'[cur] = IF row[cur] = "removed" THEN "removed" ELSE s
        /\ attempts'[cur] = attempts[cur] + 1
        /\ \A d \in Delivery \ {cur} : row'[d] = row[d] /\ attempts'[d] = attempts[d]
    BY <1>1, <2>1, <2>2, WriteMoves
  <2>4. TypeOK'
    BY <1>1, <1>4, <2>1, <2>2, WriteMoves DEF Backoff, Goto, TypeOK, inline, InHand
  <2>5. CopyFits' /\ PausedInTime'
    BY <1>4, CopyKept DEF Backoff, Goto, Copied
  <2>6. HandsFit'
    BY <1>1, <1>4, <2>3 DEF Backoff, Goto, HandsFit, Open, Posted, TypeOK
  <2>7. row[cur] = "pending" =>
           /\ attempts[cur] + 1 <= tries[cur]
           /\ tries[cur] <= attempts[cur] + faults + 1
    BY <1>1, <1>4 DEF Backoff, Ledger, Pending, Flight, Posted
  <2>8. Ledger'
    <3>1. s = "pending" => attempts[cur] + 1 < Retries
      BY <1>1 DEF s, Exhausted
    <3>2. \A d \in Pending' : /\ attempts'[d] < Retries
                              /\ attempts'[d] + Flight(d)' <= tries'[d]
                              /\ tries'[d] <= attempts'[d] + faults' + Flight(d)'
      <4> SUFFICES ASSUME NEW d \in Pending'
                   PROVE  /\ attempts'[d] < Retries
                          /\ attempts'[d] + 0 <= tries[d]
                          /\ tries[d] <= attempts'[d] + faults + 0
        BY <1>4 DEF Backoff, Goto, Flight, Posted
      <4>1. attempts[d] \in Nat /\ tries[d] \in Nat /\ faults \in Nat
        BY DEF TypeOK, Pending
      <4>2. CASE d = cur
        BY <1>1, <2>3, <2>7, <3>1, <4>1, <4>2 DEF Pending, Open
      <4>3. CASE d # cur
        BY <2>3, <4>1, <4>3 DEF Pending, Ledger, Flight
      <4>4. QED BY <4>2, <4>3
    <3>3. QED
      BY <1>1, <1>4, <2>3, <3>2 DEF Backoff, Goto, Ledger, Open, s
  <2>9. GivenUpAfterRetries'
    <3>1. s = "giveup" => attempts[cur] + 1 >= Retries
      BY DEF s, Exhausted
    <3>2. QED
      BY <1>1, <1>4, <2>3, <2>7, <3>1
         DEF Backoff, Goto, GivenUpAfterRetries, TypeOK, Open
  <2>10. QED BY <2>4, <2>5, <2>6, <2>8, <2>9
<1>5. QED BY <1>2, <1>3, <1>4

LEMMA PostInv ==
    ASSUME IInv, PostOk \/ PostFail(TRUE) \/ PostFail(FALSE)
    PROVE  IInv'
<1> USE RetriesAssumption DEF IInv, Post, Goto
<1>1. /\ pc = "post" /\ pc' \in Posted /\ Post
      /\ pc' = "settle" => cur \in accepted'
      /\ accepted' \subseteq Delivery
      /\ UNCHANGED <<endpoint, inline, queue, batch, cur, read, faults, void,
                    dropped, stale>>
  BY DEF PostOk, PostFail, Posted, TypeOK
<1>2. cur \in Delivery /\ tries' \in [Delivery -> Nat]
  BY <1>1 DEF TypeOK
<1>3. TypeOK'
  BY <1>1, <1>2 DEF TypeOK, inline, queue, Pending, InHand, Posted
<1>4. CopyFits' /\ PausedInTime' BY <1>1, CopyKept
<1>5. HandsFit' BY <1>1 DEF HandsFit, Open, Posted, queue
<1>6. Ledger'
  BY <1>1, <1>2 DEF Ledger, Pending, Flight, Posted, HandsFit, Open, TypeOK, queue
<1>7. GivenUpAfterRetries'
  BY <1>1, <1>2 DEF GivenUpAfterRetries, HandsFit, Open, Ledger, TypeOK, queue
<1>8. QED BY <1>3, <1>4, <1>5, <1>6, <1>7

\* The pass takes or puts away work; no row is settled.
LEMMA TakeInv ==
    ASSUME IInv, NEW d \in Delivery, List \/ Load(d) \/ LoadError(d) \/ StepError \/ Crash
    PROVE  IInv'
<1> USE TargetAssumption, FaultAssumption, RetriesAssumption
    DEF IInv, inline, queue, history
<1>1. CASE List
  <2> USE <1>1 DEF List
  <2>1. TypeOK' BY DEF TypeOK, Pending, InHand
  <2>2. CopyFits' /\ PausedInTime' BY CopyKept DEF Copied
  <2>3. HandsFit' BY DEF HandsFit, Open, Posted, TypeOK, Pending
  <2>4. Ledger' /\ GivenUpAfterRetries'
    BY DEF Ledger, Pending, Flight, Posted, GivenUpAfterRetries
  <2>5. QED BY <2>1, <2>2, <2>3, <2>4
<1>2. CASE Load(d)
  <2> USE <1>2 DEF Load
  <2>1. endpoint[Target[d]].fails \in Nat /\ (pc' = "post" \/ pc' = "drop")
        /\ (pc' = "post" => On(Target[d]))
    BY DEF TypeOK, EndpointRow
  <2>2. /\ endpoint \in [Endpoint -> EndpointRow]
        /\ stale' \in BOOLEAN
    BY DEF TypeOK
  <2>3. TypeOK' BY <2>1, <2>2 DEF TypeOK, Pending, InHand
  <2>4. CopyFits' /\ PausedInTime'
    BY <2>1 DEF CopyFits, PausedInTime, Copied, On
  <2>5. HandsFit' BY <2>1 DEF HandsFit, Open, Posted
  <2>6. Ledger'
    <3>1. ~On(Target[d]) \/ row[d] = "pending" BY DEF HandsFit, Open, On
    <3>2. pc' = "post" => tries[d] < Retries + faults
      BY <2>1, <3>1 DEF Ledger, Pending, Flight, Posted, TypeOK
    <3>3. QED BY <2>1, <3>2 DEF Ledger, Pending, Flight, Posted
  <2>7. GivenUpAfterRetries' BY DEF GivenUpAfterRetries
  <2>8. QED BY <2>3, <2>4, <2>5, <2>6, <2>7
<1>3. CASE LoadError(d) \/ StepError \/ Crash
  <2> USE <1>3 DEF LoadError, StepError, Crash
  <2>1. /\ UNCHANGED <<endpoint, row, attempts, cur, read, history, stale>>
        /\ pc' \notin InHand /\ batch' \subseteq batch /\ faults' = faults + 1
        /\ faults' \in 0..MaxFault
    BY DEF TypeOK, InHand
  <2>2. TypeOK' BY <2>1 DEF TypeOK, Pending, InHand
  <2>3. CopyFits' /\ PausedInTime' BY <2>1, CopyKept DEF Copied, InHand
  <2>4. HandsFit' BY <2>1 DEF HandsFit, Open, Posted, InHand
  <2>5. Ledger'
    <3>1. ASSUME NEW x \in Pending
          PROVE  /\ attempts[x] < Retries /\ attempts[x] <= tries[x]
                 /\ tries[x] <= attempts[x] + faults'
      BY <2>1 DEF Ledger, Flight, TypeOK, Pending
    <3>2. ASSUME NEW x \in Delivery PROVE Flight(x)' = 0
      BY <2>1 DEF Flight, Posted, InHand
    <3>3. \A x \in Pending : attempts[x] \in Nat /\ tries[x] \in Nat
      BY DEF TypeOK, Pending
    <3>4. QED
      BY <2>1, <3>1, <3>2, <3>3 DEF Ledger, Pending, InHand, TypeOK
  <2>6. GivenUpAfterRetries' BY <2>1 DEF GivenUpAfterRetries, TypeOK
  <2>7. QED BY <2>2, <2>3, <2>4, <2>5, <2>6
<1>4. QED BY <1>1, <1>2, <1>3

\* The pass moves the counter of the endpoint in hand.
LEMMA CounterInv ==
    ASSUME IInv, Reset \/ Count
    PROVE  IInv'
<1> USE TargetAssumption, ThresholdAssumption, RetriesAssumption DEF IInv
<1> DEFINE e == Target[cur]
<1>1. e \in Endpoint /\ endpoint[e] \in EndpointRow /\ endpoint[e].fails \in Nat
      /\ read \in Nat
  BY DEF TypeOK, EndpointRow
<1>2. /\ pc' = "next" /\ pc \in {"reset", "count"}
      /\ UNCHANGED <<inline, queue, batch, cur, read, faults, history, stale>>
  BY DEF Reset, Count, Goto
<1>3. \/ UNCHANGED endpoint
      \/ \E r \in EndpointRow :
            /\ endpoint' = [endpoint EXCEPT ![e] = r]
            /\ endpoint[e].state # "deleted"
            /\ r.state = "on" => r.fails < Threshold
  <2>1. CASE Reset
    <3>1. ResetFailCount(e) BY <2>1 DEF Reset
    <3>2. QED BY <1>1, <3>1, ResetMoves
  <2>2. CASE Count /\ ~Exists(e)
    BY <2>2 DEF Count
  <2>3. CASE Count /\ Exists(e)
    <3> DEFINE r == [state  |-> IF TooMany(read) THEN "off" ELSE endpoint[e].state,
                     fails  |-> endpoint[e].fails + 1,
                     marked |-> endpoint[e].marked \/ TooMany(read)]
    <3>1. endpoint' = [endpoint EXCEPT ![e] = r]
      BY <2>3 DEF Count, TypeOK
    <3>2. (endpoint[e].marked \/ TooMany(read)) \in BOOLEAN
      BY <1>1 DEF EndpointRow
    <3>3. r \in EndpointRow
      BY <1>1, <3>2 DEF EndpointRow
    <3>4. endpoint[e].fails <= read
      BY <2>3 DEF Count, CopyFits, Copied
    <3>5. r.state = "on" => r.fails < Threshold
      BY <1>1, <3>4 DEF TooMany
    <3> HIDE DEF r
    <3>6. QED BY <2>3, <3>1, <3>3, <3>5 DEF Exists
  <2>4. QED BY <2>1, <2>2, <2>3
<1>4. /\ endpoint' \in [Endpoint -> EndpointRow]
      /\ \A x \in Endpoint : endpoint[x].state = "deleted"
                                => endpoint'[x].state = "deleted"
      /\ PausedInTime'
  <2>1. CASE UNCHANGED endpoint
    BY <2>1 DEF TypeOK, PausedInTime, On
  <2>2. CASE endpoint' # endpoint
    BY <1>1, <1>3, <2>2 DEF TypeOK, PausedInTime, On
  <2>3. QED BY <2>1, <2>2
<1>5. TypeOK'
  BY <1>2, <1>4 DEF TypeOK, inline, queue, history, Pending, InHand
<1>6. CopyFits' BY <1>2 DEF CopyFits, Copied
<1>7. HandsFit' BY <1>2, <1>4 DEF HandsFit, Open, Posted, TypeOK, queue, history
<1>8. Ledger' /\ GivenUpAfterRetries'
  BY <1>2 DEF Ledger, GivenUpAfterRetries, Pending, Flight, Posted, queue, history
<1>9. QED BY <1>4, <1>5, <1>6, <1>7, <1>8

LEMMA QueueInv ==
    ASSUME IInv, \/ \E d \in Delivery : Ripen(d)
                 \/ \E S \in SUBSET Settled : Prune(S)
    PROVE  IInv'
<1> USE RetriesAssumption DEF IInv, inline, pass, history
<1>1. CASE \E d \in Delivery : Ripen(d)
  <2> USE <1>1 DEF Ripen
  <2>1. TypeOK' BY DEF TypeOK, Pending
  <2>2. /\ UNCHANGED <<endpoint, row, attempts, pass, history, stale>> OBVIOUS
  <2>3. QED BY <2>1, <2>2, CopyKept, LedgerKept
<1>2. ASSUME NEW S \in SUBSET Settled, Prune(S) PROVE IInv'
  <2> USE <1>2 DEF Prune, Goto
  <2>1. /\ \A d \in Delivery :
              \/ row'[d] = row[d]
              \/ row'[d] = "removed" /\ row[d] \in {"delivered", "giveup"}
        /\ row' \in [Delivery -> {"none", "pending", "delivered", "giveup", "removed"}]
        /\ \A d \in Delivery : row'[d] = "pending" <=> row[d] = "pending"
    BY DEF TypeOK, Settled
  <2>2. \A d \in Delivery : row'[d] # "none" => row[d] # "none"
    BY <2>1
  <2>3. TypeOK' BY <2>1, <2>2 DEF TypeOK, Pending, InHand
  <2>4. CopyFits' /\ PausedInTime' BY CopyKept DEF Copied
  <2>5. HandsFit' BY <2>1 DEF HandsFit, Posted
  <2>6. Ledger'
    BY <2>1 DEF Ledger, Pending, Flight, Posted
  <2>7. GivenUpAfterRetries' BY <2>1 DEF GivenUpAfterRetries
  <2>8. QED BY <2>3, <2>4, <2>5, <2>6, <2>7
<1>3. QED BY <1>1, <1>2

LEMMA StepInv == IInv /\ [Next]_vars => IInv'
<1> SUFFICES ASSUME IInv, [Next]_vars PROVE IInv' OBVIOUS
<1>1. CASE UNCHANGED vars
  <2>1. UNCHANGED <<endpoint, inline, queue, pass, history, stale>>
    BY <1>1 DEF vars
  <2>2. TypeOK'
    <3>1. Pending' = Pending BY <2>1 DEF Pending, queue
    <3>2. QED
      BY <2>1, <3>1, Zenon
         DEF IInv, TypeOK, InHand, inline, queue, pass, history
  <2>3. CopyFits' /\ PausedInTime' BY <2>1, CopyKept DEF pass
  <2>4. HandsFit' /\ Ledger' /\ GivenUpAfterRetries'
    <3>1. UNCHANGED <<row, attempts, pass, history>> BY <2>1 DEF queue
    <3>2. \A e \in Endpoint : endpoint[e].state = "deleted"
                               => endpoint'[e].state = "deleted"
      BY <2>1
    <3>3. QED BY <3>1, <3>2, LedgerKept
  <2>5. QED BY <2>2, <2>3, <2>4 DEF IInv
<1>2. ASSUME NEW e \in Endpoint, AdminStep(e) PROVE IInv'
  BY <1>2, EditsInv, DeleteInv DEF AdminStep
<1>3. ASSUME NEW d \in Delivery, InlineStep(d) \/ Ripen(d) \/ LoadError(d) PROVE IInv'
  BY <1>3, InlineInv, QueueInv, TakeInv
<1>4. CASE PassStep \/ StepError \/ Crash
  <2>1. cur \in Delivery BY DEF IInv, TypeOK
  <2>2. QED
    BY <1>4, <2>1, TakeInv, SettleInv, PostInv, CounterInv, QueueInv DEF PassStep
<1>5. QED BY <1>1, <1>2, <1>3, <1>4 DEF Next

-----------------------------------------------------------------------------
(* Theorems *)

\* The inductive invariant of webhook delivery (webhook.ts): every reachable state
\* satisfies IInv, which says what a pass and an inline post hold of an endpoint.
THEOREM WebhooksInvariant == Spec => []IInv
<1>1. QED BY InitInv, StepInv, PTL DEF Spec

\* Every variable keeps its type: among others a row exists only once the
\* request that caused it is over, and only pending rows are due.
THEOREM TypeCorrect == Spec => []TypeOK
<1>1. IInv => TypeOK BY DEF IInv
<1>2. QED BY <1>1, WebhooksInvariant, PTL

\* No endpoint stays enabled with Threshold deliveries given up, however a
\* slow post overlaps the requests and the admin's edits: the copy of the
\* counter that decides is never below the row's.
THEOREM PausesInTime == Spec => []PausedInTime
<1>1. IInv => PausedInTime BY DEF IInv
<1>2. QED BY <1>1, WebhooksInvariant, PTL

\* A delivery is given up after the posts of the schedule and no sooner, and
\* only a fault makes the pass post it once more.
THEOREM RetriesAll == Spec => []GivenUpAfterRetries
<1>1. IInv => GivenUpAfterRetries BY DEF IInv
<1>2. QED BY <1>1, WebhooksInvariant, PTL

\* No post reaches an endpoint that was paused before it was loaded.
THEOREM LeavesPausedAlone == Spec => PausedLeftAlone
<1>1. ASSUME IInv,
             PostOk \/ PostFail(TRUE) \/ PostFail(FALSE)
      PROVE  On(Target[cur]) \/ stale
  BY <1>1 DEF IInv, CopyFits, Copied, PostOk, PostFail
<1>2. IInv /\ [Next]_vars =>
         [PostOk \/ PostFail(TRUE) \/ PostFail(FALSE) => On(Target[cur]) \/ stale]_vars
  BY <1>1
<1>3. QED BY <1>2, WebhooksInvariant, PTL DEF Spec, PausedLeftAlone

\* The pass pauses no endpoint that has not used up its threshold, unless it
\* was touched during the post: the stale copy errs only there.
THEOREM PausesAreEarned == Spec => PauseEarned
<1>1. ASSUME IInv, NEW e \in Endpoint, Count, On(e), endpoint'[e].state = "off"
      PROVE  endpoint'[e].fails >= Threshold \/ stale
  <2> USE TargetAssumption, ThresholdAssumption
  <2>1. CASE e = Target[cur] /\ ~stale
    <3>1. endpoint[e].fails = read /\ read \in Nat /\ pc = "count"
      BY <1>1, <2>1 DEF IInv, TypeOK, CopyFits, Copied, Count
    <3>2. /\ endpoint'[e].fails = endpoint[e].fails + 1
          /\ endpoint'[e].state = "off" => TooMany(read)
      BY <1>1, <2>1 DEF IInv, TypeOK, Count, Exists, On
    <3>3. QED BY <1>1, <3>1, <3>2 DEF TooMany
  <2>2. CASE e # Target[cur]
    <3>1. endpoint'[e] = endpoint[e]
      BY <1>1, <2>2 DEF IInv, TypeOK, Count
    <3>2. QED BY <1>1, <3>1 DEF On
  <2>3. QED BY <2>1, <2>2
<1>2. IInv /\ [Next]_vars =>
         [\A e \in Endpoint : Count /\ On(e) /\ endpoint'[e].state = "off"
             => endpoint'[e].fails >= Threshold \/ stale]_vars
  BY <1>1
<1>3. QED BY <1>2, WebhooksInvariant, PTL DEF Spec, PauseEarned

-----------------------------------------------------------------------------
(* The retry queue implements the outbox. *)

Done == {d \in Delivery : row[d] \in {"delivered", "giveup", "removed"}}

\* Rows that are queued or settled, and what goes out, stay as they are.
LEMMA OutboxStutters ==
    ASSUME UNCHANGED <<row, accepted, void>>
    PROVE  UNCHANGED AsOutbox!vars
BY DEF AsOutbox!vars, Pending

LEMMA DeleteDrops ==
    ASSUME IInv, NEW e \in Endpoint, Delete(e)
    PROVE  AsOutbox!Drop
<1> DEFINE S == {d \in Delivery : Target[d] = e} \intersect Pending
<1>1. /\ \A d \in Delivery : row'[d] = IF Target[d] = e /\ row[d] # "none"
                                       THEN "removed" ELSE row[d]
      /\ void' = void \union S /\ UNCHANGED accepted
  BY DEF Delete
<1>2. S \in SUBSET Pending OBVIOUS
<1>3. Pending' = Pending \ S BY <1>1 DEF Pending
<1>4. Done' = Done \union S BY <1>1 DEF Done, Pending, IInv, TypeOK
<1> HIDE DEF S
<1>5. QED BY <1>1, <1>2, <1>3, <1>4 DEF AsOutbox!Drop, Done

\* Giving up the delivery in hand, whose row may be gone.
LEMMA GiveUpDrops ==
    ASSUME IInv, Open(cur), Write("giveup"), void' = void \union {cur},
           UNCHANGED accepted
    PROVE  AsOutbox!Drop \/ UNCHANGED AsOutbox!vars
<1>1. cur \in Delivery /\ row \in [Delivery -> {"none", "pending", "delivered", "giveup", "removed"}]
  BY DEF IInv, TypeOK
<1>2. CASE row[cur] = "pending"
  <2>1. \A d \in Delivery : row'[d] = IF d = cur THEN "giveup" ELSE row[d]
    BY <1>1, <1>2 DEF Write
  <2>2. Pending' = Pending \ {cur} /\ Done' = Done \union {cur}
        /\ {cur} \in SUBSET Pending
    BY <1>1, <1>2, <2>1 DEF Pending, Done
  <2>3. QED BY <2>2 DEF AsOutbox!Drop, Done
<1>3. CASE row[cur] = "removed" /\ cur \in void
  <2>1. UNCHANGED <<row, accepted, void>> BY <1>3 DEF Write
  <2>2. QED BY <2>1, OutboxStutters
<1>4. QED BY <1>2, <1>3 DEF Open

LEMMA PassRefines ==
    ASSUME IInv, PassStep
    PROVE  AsOutbox!Next \/ UNCHANGED AsOutbox!vars
<1> USE DEF AsOutbox!Next
<1>1. /\ cur \in Delivery /\ accepted \subseteq Delivery
      /\ row \in [Delivery -> {"none", "pending", "delivered", "giveup", "removed"}]
  BY DEF IInv, TypeOK
<1>2. CASE List \/ Reset \/ Count \/ \E d \in Delivery : Load(d)
  <2>1. UNCHANGED <<row, accepted, void>>
    BY <1>2 DEF List, Reset, Count, Load, queue, history
  <2>2. QED BY <2>1, OutboxStutters
<1>3. CASE \E S \in SUBSET Settled : Prune(S)
  <2>1. UNCHANGED <<accepted, void>> /\ Pending' = Pending /\ Done' = Done
    BY <1>1, <1>3 DEF Prune, Settled, Pending, Done, history
  <2>2. QED BY <2>1 DEF AsOutbox!vars, Done
<1>4. CASE Drop
  <2>1. Open(cur) BY <1>4 DEF Drop, IInv, HandsFit
  <2>2. QED BY <1>4, <2>1, GiveUpDrops DEF Drop
<1>5. CASE Backoff /\ Exhausted(cur)
  <2>1. Open(cur) BY <1>5 DEF Backoff, IInv, HandsFit, Posted
  <2>2. QED BY <1>5, <2>1, GiveUpDrops DEF Backoff
<1>6. CASE Backoff /\ ~Exhausted(cur)
  <2>1. Open(cur) BY <1>6 DEF Backoff, IInv, HandsFit, Posted
  <2>2. UNCHANGED <<row, accepted, void>>
    BY <1>1, <1>6, <2>1 DEF Backoff, Write, Open
  <2>3. QED BY <2>2, OutboxStutters
<1>7. CASE PostOk \/ PostFail(TRUE) \/ PostFail(FALSE)
  <2>1. Open(cur) BY <1>7 DEF PostOk, PostFail, IInv, HandsFit
  <2>2. {cur} \in SUBSET (Pending \union (Done \intersect void))
    BY <1>1, <2>1 DEF Open, Pending, Done
  <2>3. UNCHANGED <<row, void>>
        /\ (accepted' = accepted \/ accepted' = accepted \union {cur})
    BY <1>7 DEF PostOk, PostFail, queue
  <2>4. CASE accepted' = accepted BY <2>3, <2>4, OutboxStutters
  <2>5. CASE accepted' = accepted \union {cur}
    <3>1. AsOutbox!Deliver
      BY <2>2, <2>3, <2>5 DEF AsOutbox!Deliver, Pending, Done
    <3>2. QED BY <3>1
  <2>6. QED BY <2>3, <2>4, <2>5
<1>8. CASE Settle
  <2>1. /\ Open(cur) /\ cur \in accepted
        /\ Write("delivered") /\ UNCHANGED <<accepted, void>>
    BY <1>8 DEF Settle, IInv, HandsFit, Posted, history
  <2>2. CASE row[cur] = "removed"
    BY <2>1, <2>2, OutboxStutters DEF Write
  <2>3. CASE row[cur] = "pending"
    <3>1. \A d \in Delivery : row'[d] = IF d = cur THEN "delivered" ELSE row[d]
      BY <1>1, <2>1, <2>3 DEF Write
    <3>2. Pending' = Pending \ {cur} /\ Done' = Done \union {cur}
          /\ {cur} \in SUBSET (Pending \intersect (accepted \union void))
      BY <1>1, <2>1, <2>3, <3>1 DEF Pending, Done
    <3>3. AsOutbox!Settle BY <2>1, <3>2 DEF AsOutbox!Settle, Done
    <3>4. QED BY <3>3
  <2>4. QED BY <2>1, <2>2, <2>3 DEF Open
<1>9. QED BY <1>2, <1>3, <1>4, <1>5, <1>6, <1>7, <1>8 DEF PassStep

\* What waits in webhook_deliveries leaves only accepted by the receiver or
\* void, given up or gone with its endpoint, and never comes back.
THEOREM RetryQueueIsOutbox == Spec => ImplementsOutbox
<1>1. Init => AsOutbox!Init
  BY DEF Init, AsOutbox!Init, Pending
<1>2. ASSUME IInv, [Next]_vars PROVE [AsOutbox!Next]_(AsOutbox!vars)
  <2>1. CASE UNCHANGED vars
    <3>1. UNCHANGED <<row, accepted, void>> BY <2>1 DEF vars, queue, history
    <3>2. QED BY <3>1, OutboxStutters
  <2>2. ASSUME NEW e \in Endpoint, AdminStep(e)
        PROVE  [AsOutbox!Next]_(AsOutbox!vars)
    <3>1. CASE Delete(e) BY <3>1, <1>2, DeleteDrops DEF AsOutbox!Next
    <3>2. CASE Create(e, "on") \/ Create(e, "off") \/ Enable(e) \/ Disable(e)
      <4>1. UNCHANGED <<row, accepted, void>>
        BY <3>2 DEF Create, Enable, Disable, queue, history
      <4>2. QED BY <4>1, OutboxStutters
    <3>3. QED BY <2>2, <3>1, <3>2 DEF AdminStep
  <2>3. ASSUME NEW d \in Delivery, InlineStep(d) \/ Ripen(d) \/ LoadError(d)
        PROVE  [AsOutbox!Next]_(AsOutbox!vars)
    <3>1. CASE Enqueue(d)
      <4>1. row[d] = "none" /\ row' = [row EXCEPT ![d] = "pending"]
            /\ row \in [Delivery -> {"none", "pending", "delivered", "giveup", "removed"}]
        BY <1>2, <3>1 DEF IInv, TypeOK, Enqueue
      <4>2. /\ {d} \in SUBSET (Delivery \ (Pending \union Done))
            /\ Pending' = Pending \union {d} /\ Done' = Done
        BY <4>1 DEF Pending, Done
      <4>3. UNCHANGED <<accepted, void>> BY <3>1 DEF Enqueue, history
      <4>4. AsOutbox!Enqueue BY <4>2, <4>3 DEF AsOutbox!Enqueue, Done
      <4>5. QED BY <4>4 DEF AsOutbox!Next
    <3>2. CASE ~Enqueue(d)
      <4>1. UNCHANGED <<row, accepted, void>>
        BY <2>3, <3>2
           DEF InlineStep, Fire, InlineOk, InlineReset, InlineFail, InlineLost,
               Ripen, LoadError, queue, history
      <4>2. QED BY <4>1, OutboxStutters
    <3>3. QED BY <3>1, <3>2
  <2>4. CASE PassStep BY <1>2, <2>4, PassRefines
  <2>5. CASE StepError \/ Crash
    <3>1. UNCHANGED <<row, accepted, void>>
      BY <2>5 DEF StepError, Crash, queue, history
    <3>2. QED BY <3>1, OutboxStutters
  <2>6. QED BY <1>2, <2>1, <2>2, <2>3, <2>4, <2>5 DEF Next
<1>3. QED
  BY <1>1, <1>2, WebhooksInvariant, PTL DEF Spec, ImplementsOutbox, AsOutbox!Spec
=============================================================================
