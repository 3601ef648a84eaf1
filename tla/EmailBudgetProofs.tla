------------------------- MODULE EmailBudgetProofs -------------------------
(***************************************************************************)
(* EmailBudget for every set of requests, every chain of budgets, every    *)
(* window length and every cap.                                            *)
(*                                                                         *)
(* The argument: a reservation made at time t in a window that started at  *)
(* ws has t < ws + Window, and a roll moves ws forward by at least Window. *)
(* So once the window a slot was counted in has rolled, window_start is    *)
(* greater than t for ever, and releaseOne's guard, window_start <= t,     *)
(* holds exactly while the slot is still counted.  Nothing is assumed of   *)
(* the clocks: the timestamps may reach the database in any order.         *)
(***************************************************************************)
EXTENDS Limits, FiniteSetTheorems, TLAPS

\* What a reservation still held knows of its window.
HeldInWindow ==
    \A r \in Request : \A b \in held[r] :
        /\ at[r] < windowStart[b] + Window[b]
        /\ windowStart[b] <= at[r] => r \in counted[b]

\* While it is reserving, a request is counted only where it holds a slot, and
\* holds slots only of the budgets it has passed.
HeldIsPast ==
    \A r \in Request : pc[r] \in {"reserving", "probing"} =>
        /\ \A b \in held[r] :
              \E j \in DOMAIN Chain[r] : j < pos[r] /\ b = Chain[r][j]
        /\ \A b \in Budget : r \in counted[b] => b \in held[r]

IdleIsFresh ==
    \A r \in Request : pc[r] = "idle" =>
        held[r] = {} /\ \A b \in Budget : r \notin counted[b]

SentWithinCap == \A b \in Budget : \E r \in Request : sent[b] <= Cap[r][b]

IInv == /\ TypeOK
        /\ SentIsLedger
        /\ HeldInWindow
        /\ HeldIsPast
        /\ IdleIsFresh
        /\ SentWithinCap
        /\ SlotsAccountedFor

-----------------------------------------------------------------------------
\* A ledger holds finitely many requests, so it has a size.
LEMMA CountedIsFinite ==
    ASSUME TypeOK, NEW b \in Budget
    PROVE  IsFiniteSet(counted[b]) /\ Cardinality(counted[b]) \in Nat
BY FS_Subset, FS_CardinalityType, RequestAssumption DEF TypeOK

\* The next budget of a request that is still reserving does not count it yet.
LEMMA NotYetCounted ==
    ASSUME IInv, NEW r \in Request, NEW b \in Budget,
           pc[r] \in {"reserving", "probing"}, AtBudget(r, b)
    PROVE  r \notin counted[b] /\ b \notin held[r]
<1>1. b \notin held[r]
  <2> SUFFICES ASSUME b \in held[r] PROVE FALSE OBVIOUS
  <2>1. PICK j \in DOMAIN Chain[r] : j < pos[r] /\ b = Chain[r][j]
    BY DEF IInv, HeldIsPast
  <2>2. pos[r] \in DOMAIN Chain[r] /\ b = Chain[r][pos[r]]
    BY DEF AtBudget
  <2>3. j = pos[r]
    BY <2>1, <2>2, ChainAssumption
  <2> QED BY <2>1, <2>3 DEF IInv, TypeOK
<1> QED BY <1>1 DEF IInv, HeldIsPast

\* A slot whose window is still the one its timestamp falls in is a slot of the
\* present window: the guard of releaseOne never spares its own slot wrongly
\* nor takes another's.
LEMMA ReleaseTakesOwnSlot ==
    ASSUME IInv, NEW r \in Request, NEW b \in Budget, b \in held[r],
           CanRelease(r, b)
    PROVE  r \in counted[b]
BY DEF IInv, HeldInWindow, CanRelease

-----------------------------------------------------------------------------
(* What each statement does to the ledger *)

\* The rows as the migrations seed them.
LEMMA InitInv == Init => IInv
<1> SUFFICES ASSUME Init PROVE IInv OBVIOUS
<1> USE DEF Init
<1>1. TypeOK
  BY ClockAssumption DEF TypeOK
<1>2. SentIsLedger
  BY FS_EmptySet DEF SentIsLedger
<1>3. SentWithinCap
  <2>1. PICK r \in Request : TRUE
    BY RequestAssumption
  <2> QED BY <2>1, CapAssumption DEF SentWithinCap
<1> QED BY <1>1, <1>2, <1>3
     DEF IInv, HeldInWindow, HeldIsPast, IdleIsFresh, SlotsAccountedFor

\* reserveOne: the count stays the ledger and stays within some cap.
LEMMA ReserveOneCounts ==
    ASSUME IInv, NEW r \in Request, NEW b \in Budget,
           pc[r] \in {"reserving", "probing"}, AtBudget(r, b),
           CanReserve(r, b), ReserveOne(r, b)
    PROVE  /\ sent' \in [Budget -> Nat]
           /\ windowStart' \in [Budget -> Nat]
           /\ counted' \in [Budget -> SUBSET Request]
           /\ SentIsLedger'
           /\ SentWithinCap'
           /\ r \in counted'[b]
           /\ at[r] < windowStart'[b] + Window[b]
           /\ \A c \in Budget :
                 /\ \/ windowStart'[c] = windowStart[c] /\ counted[c] \subseteq counted'[c]
                    \/ windowStart'[c] >= windowStart[c] + Window[c]
                 /\ counted'[c] \subseteq counted[c] \union {r}
                 /\ r \in counted'[c] => c = b \/ r \in counted[c]
<1> USE DEF IInv, TypeOK
<1>1. r \notin counted[b]
  BY NotYetCounted
<1>2. Window[b] \in Nat \ {0} /\ Cap[r][b] \in Nat \ {0}
  BY WindowAssumption, CapAssumption
<1>3. IsFiniteSet(counted[b]) /\ Cardinality(counted[b]) = sent[b]
  BY CountedIsFinite DEF SentIsLedger
<1>4. CASE Expired(r, b)
  <2>1. /\ sent' = [sent EXCEPT ![b] = 1]
        /\ windowStart' = [windowStart EXCEPT ![b] = at[r]]
        /\ counted' = [counted EXCEPT ![b] = {r}]
    BY <1>4 DEF ReserveOne
  <2>2. Cardinality({r}) = 1
    BY FS_Singleton
  <2>3. SentIsLedger'
    BY <2>1, <2>2 DEF SentIsLedger
  <2>4. SentWithinCap'
    BY <2>1, <1>2 DEF SentWithinCap
  <2>5. at[r] >= windowStart[b] + Window[b]
    BY <1>4, <1>2 DEF Expired
  <2> QED BY <2>1, <2>3, <2>4, <2>5, <1>2
<1>5. CASE ~Expired(r, b)
  <2>1. /\ sent' = [sent EXCEPT ![b] = @ + 1]
        /\ windowStart' = windowStart
        /\ counted' = [counted EXCEPT ![b] = @ \union {r}]
    BY <1>5 DEF ReserveOne
  <2>2. Cardinality(counted[b] \union {r}) = sent[b] + 1
    BY <1>1, <1>3, FS_AddElement
  <2>3. SentIsLedger'
    BY <2>1, <2>2 DEF SentIsLedger
  <2>4. sent[b] + 1 <= Cap[r][b]
    BY <1>5, <1>2 DEF CanReserve
  <2>5. SentWithinCap'
    BY <2>1, <2>4 DEF SentWithinCap
  <2>6. at[r] < windowStart[b] + Window[b]
    BY <1>5, <1>2 DEF Expired
  <2> QED BY <2>1, <2>3, <2>5, <2>6
<1> QED BY <1>4, <1>5

\* releaseOne: likewise.
LEMMA ReleaseOneCounts ==
    ASSUME IInv, NEW r \in Request, NEW b \in held[r], ReleaseOne(r, b)
    PROVE  /\ sent' \in [Budget -> Nat]
           /\ counted' \in [Budget -> SUBSET Request]
           /\ SentIsLedger'
           /\ SentWithinCap'
           /\ \A c \in Budget, q \in Request :
                 /\ q \in counted'[c] => q \in counted[c]
                 /\ q \in counted[c] => q \in counted'[c] \/ (q = r /\ c = b)
           /\ r \in counted'[b] => at[r] < windowStart[b]
<1> USE DEF IInv, TypeOK
<1>0. b \in Budget
  OBVIOUS
<1>1. IsFiniteSet(counted[b]) /\ Cardinality(counted[b]) = sent[b]
  BY <1>0, CountedIsFinite DEF SentIsLedger
<1>2. CASE CanRelease(r, b)
  <2>1. /\ sent' = [sent EXCEPT ![b] = @ - 1]
        /\ counted' = [counted EXCEPT ![b] = @ \ {r}]
    BY <1>2 DEF ReleaseOne
  <2>2. r \in counted[b]
    BY <1>0, <1>2, ReleaseTakesOwnSlot
  <2>3. Cardinality(counted[b] \ {r}) = sent[b] - 1 /\ sent[b] > 0
    <3>1. Cardinality(counted[b] \ {r}) = Cardinality(counted[b]) - 1
      BY ONLY <1>1, <2>2, FS_RemoveElement
    <3> QED BY <3>1, <1>1, <1>2 DEF CanRelease
  <2>4. SentIsLedger'
    BY <2>1, <2>3 DEF SentIsLedger
  <2>5. SentWithinCap'
    <3> SUFFICES ASSUME NEW c \in Budget
                 PROVE  \E q \in Request : sent'[c] <= Cap[q][c]
      BY DEF SentWithinCap
    <3>1. PICK q \in Request : sent[c] <= Cap[q][c]
      BY DEF SentWithinCap
    <3>2. sent'[c] <= sent[c] /\ sent'[c] \in Int
      BY <2>1, <2>3
    <3>3. Cap[q][c] \in Nat
      BY CapAssumption
    <3> QED BY <3>1, <3>2, <3>3
  <2>6. /\ \A c \in Budget : counted'[c] = IF c = b THEN counted[b] \ {r}
                                                 ELSE counted[c]
        /\ counted' \in [Budget -> SUBSET Request]
    BY <1>0, <2>1
  <2>7. sent' \in [Budget -> Nat]
    BY <1>0, <2>1, <2>3
  <2>8. r \notin counted'[b]
    BY <1>0, <2>6
  <2>9. \A c \in Budget, q \in Request :
           /\ q \in counted'[c] => q \in counted[c]
           /\ q \in counted[c] => q \in counted'[c] \/ (q = r /\ c = b)
    <3> TAKE c \in Budget, q \in Request
    <3>1. CASE c = b
      BY <2>6, <3>1
    <3>2. CASE c # b
      BY <2>6, <3>2
    <3> QED BY <3>1, <3>2
  <2> QED BY ONLY <2>4, <2>5, <2>6, <2>7, <2>8, <2>9
<1>3. CASE ~CanRelease(r, b)
  <2>1. UNCHANGED <<sent, counted>>
    BY <1>3 DEF ReleaseOne
  <2>2. r \in counted[b] => sent[b] > 0
    BY <1>1, FS_EmptySet, FS_RemoveElement, FS_CardinalityType
  <2>3. r \in counted[b] => at[r] < windowStart[b]
    BY <1>0, <1>3, <2>2 DEF CanRelease
  <2>4. SentIsLedger' /\ SentWithinCap'
    BY <2>1 DEF SentIsLedger, SentWithinCap
  <2>5. \A c \in Budget, q \in Request : q \in counted'[c] <=> q \in counted[c]
    BY <2>1
  <2> QED BY <1>0, <2>1, <2>3, <2>4, <2>5
<1> QED BY <1>2, <1>3

-----------------------------------------------------------------------------
(* Every step keeps the invariant *)

\* A step that leaves the rows alone disturbs no ledger.
LEMMA RowsUntouched ==
    ASSUME IInv, UNCHANGED <<sent, windowStart, counted>>
    PROVE  SentIsLedger' /\ SentWithinCap'
BY DEF IInv, SentIsLedger, SentWithinCap

\* reserveSend's loop took a slot.
LEMMA ReserveKeepsInv ==
    ASSUME IInv, NEW r \in Request, NEW b \in Budget, Reserve(r, b)
    PROVE  IInv'
<1>0. /\ pc[r] = "reserving" /\ AtBudget(r, b)
      /\ CanReserve(r, b) /\ ReserveOne(r, b)
      /\ held' = [held EXCEPT ![r] = @ \union {b}]
      /\ pos' = [pos EXCEPT ![r] = @ + 1]
      /\ UNCHANGED <<clock, seeded, pc, at>>
  BY DEF Reserve
<1>1. /\ sent' \in [Budget -> Nat]
      /\ windowStart' \in [Budget -> Nat]
      /\ counted' \in [Budget -> SUBSET Request]
      /\ SentIsLedger'
      /\ SentWithinCap'
      /\ r \in counted'[b]
      /\ at[r] < windowStart'[b] + Window[b]
      /\ \A c \in Budget :
            /\ \/ windowStart'[c] = windowStart[c] /\ counted[c] \subseteq counted'[c]
               \/ windowStart'[c] >= windowStart[c] + Window[c]
            /\ counted'[c] \subseteq counted[c] \union {r}
            /\ r \in counted'[c] => c = b \/ r \in counted[c]
  BY <1>0, ReserveOneCounts
<1> USE DEF IInv, TypeOK
<1>2. TypeOK'
  BY <1>0, <1>1
<1>3. HeldInWindow'
  <2> SUFFICES ASSUME NEW q \in Request, NEW c \in held'[q]
               PROVE  /\ at[q] < windowStart'[c] + Window[c]
                      /\ windowStart'[c] <= at[q] => q \in counted'[c]
    BY <1>0 DEF HeldInWindow
  <2>1. c \in Budget /\ Window[c] \in Nat \ {0}
    BY <1>0, WindowAssumption
  <2>2. CASE q = r /\ c = b
    BY <2>2, <1>1
  <2>3. CASE c \in held[q]
    BY <2>1, <2>3, <1>1 DEF HeldInWindow
  <2> QED BY <2>2, <2>3, <1>0
<1>4. HeldIsPast'
  <2> SUFFICES ASSUME NEW q \in Request, pc[q] \in {"reserving", "probing"}
               PROVE  /\ \A c \in held'[q] :
                           \E j \in DOMAIN Chain[q] : j < pos'[q] /\ c = Chain[q][j]
                      /\ \A c \in Budget : q \in counted'[c] => c \in held'[q]
    BY <1>0 DEF HeldIsPast
  <2>1. CASE q = r
    <3>1. \A c \in held[r] :
             \E j \in DOMAIN Chain[r] : j < pos[r] + 1 /\ c = Chain[r][j]
      <4> TAKE c \in held[r]
      <4>1. PICK j \in DOMAIN Chain[r] : j < pos[r] /\ c = Chain[r][j]
        BY <1>0 DEF HeldIsPast
      <4>2. j \in Int
        BY ChainAssumption
      <4> QED BY <4>1, <4>2
    <3>2. b = Chain[r][pos[r]] /\ pos[r] \in DOMAIN Chain[r] /\ pos[r] < pos[r] + 1
      BY <1>0 DEF AtBudget
    <3>3. \A c \in held'[r] :
             \E j \in DOMAIN Chain[r] : j < pos'[r] /\ c = Chain[r][j]
      BY <1>0, <3>1, <3>2
    <3>4. \A c \in Budget : r \in counted'[c] => c \in held'[r]
      BY <1>0, <1>1 DEF HeldIsPast
    <3> QED BY <2>1, <3>3, <3>4
  <2>2. CASE q # r
    BY <2>2, <1>0, <1>1 DEF HeldIsPast
  <2> QED BY <2>1, <2>2
<1>5. IdleIsFresh'
  <2> SUFFICES ASSUME NEW q \in Request, pc[q] = "idle"
               PROVE  held'[q] = {} /\ \A c \in Budget : q \notin counted'[c]
    BY <1>0 DEF IdleIsFresh
  <2>1. q # r
    BY <1>0
  <2> QED BY <2>1, <1>0, <1>1 DEF IdleIsFresh
<1>6. SlotsAccountedFor'
  <2> SUFFICES ASSUME NEW c \in Budget, NEW q \in counted'[c]
               PROVE  \/ pc[q] \in {"mailed", "denied"}
                      \/ pc[q] \in InFlight /\ c \in held'[q]
                      \/ Faulted(q)'
                      \/ at[q] < windowStart'[c]
    BY <1>0 DEF SlotsAccountedFor
  <2>1. CASE q = r
    <3>1. c \in held'[r]
      BY <2>1, <1>0, <1>1 DEF HeldIsPast
    <3> QED BY <2>1, <3>1, <1>0 DEF InFlight
  <2>2. CASE q # r
    <3>1. q \in counted[c] /\ q \in Request
      BY <2>2, <1>1
    <3>2. Faulted(q) => Faulted(q)'
      BY <3>1, <2>2, <1>0 DEF Faulted
    <3>3. at[q] < windowStart[c] => at[q] < windowStart'[c]
      BY <3>1, <1>1, WindowAssumption
    <3>4. held'[q] = held[q]
      BY <3>1, <2>2, <1>0
    <3> QED BY <3>1, <3>2, <3>3, <3>4 DEF SlotsAccountedFor
  <2> QED BY <2>1, <2>2
<1> QED BY <1>1, <1>2, <1>3, <1>4, <1>5, <1>6

\* reserveSend's catch: the slots leak, and are accounted to a fault.
LEMMA FailOpenKeepsInv ==
    ASSUME IInv, NEW r \in Request, NEW b \in Budget, FailOpen(r, b)
    PROVE  IInv'
<1>0. /\ pc[r] \in {"reserving", "probing"} /\ AtBudget(r, b)
      /\ pc' = [pc EXCEPT ![r] = "granted"]
      /\ held' = [held EXCEPT ![r] = {}]
      /\ UNCHANGED <<clock, seeded, at, pos>>
  BY DEF FailOpen
<1>1. /\ sent' \in [Budget -> Nat]
      /\ windowStart' \in [Budget -> Nat]
      /\ counted' \in [Budget -> SUBSET Request]
      /\ SentIsLedger'
      /\ SentWithinCap'
      /\ \A c \in Budget :
            /\ \/ windowStart'[c] = windowStart[c] /\ counted[c] \subseteq counted'[c]
               \/ windowStart'[c] >= windowStart[c] + Window[c]
            /\ counted'[c] \subseteq counted[c] \union {r}
  <2>1. CASE UNCHANGED <<sent, windowStart, counted>>
    BY <2>1, RowsUntouched DEF IInv, TypeOK
  <2>2. CASE CanReserve(r, b) /\ ReserveOne(r, b)
    BY <1>0, <2>2, ReserveOneCounts
  <2> QED BY <2>1, <2>2 DEF FailOpen
<1> USE DEF IInv, TypeOK
<1>2. TypeOK'
  BY <1>0, <1>1 DEF InFlight
<1>3. HeldInWindow'
  <2> SUFFICES ASSUME NEW q \in Request, NEW c \in held'[q]
               PROVE  /\ at[q] < windowStart'[c] + Window[c]
                      /\ windowStart'[c] <= at[q] => q \in counted'[c]
    BY <1>0 DEF HeldInWindow
  <2>1. q # r /\ c \in held[q] /\ c \in Budget /\ Window[c] \in Nat \ {0}
    BY <1>0, WindowAssumption
  <2> QED BY <2>1, <1>1 DEF HeldInWindow
<1>4. HeldIsPast'
  BY <1>0, <1>1 DEF HeldIsPast
<1>5. IdleIsFresh'
  BY <1>0, <1>1 DEF IdleIsFresh
<1>6. SlotsAccountedFor'
  <2> SUFFICES ASSUME NEW c \in Budget, NEW q \in counted'[c]
               PROVE  \/ pc'[q] \in {"mailed", "denied"}
                      \/ pc'[q] \in InFlight /\ c \in held'[q]
                      \/ Faulted(q)'
                      \/ at[q] < windowStart'[c]
    BY <1>0 DEF SlotsAccountedFor
  <2>1. CASE q = r
    BY <2>1, <1>0 DEF Faulted, AtBudget
  <2>2. CASE q # r
    <3>1. q \in counted[c] /\ q \in Request
      BY <2>2, <1>1
    <3>2. pc'[q] = pc[q] /\ held'[q] = held[q] /\ (Faulted(q) => Faulted(q)')
      BY <3>1, <2>2, <1>0 DEF Faulted
    <3>3. at[q] < windowStart[c] => at[q] < windowStart'[c]
      BY <3>1, <1>1, WindowAssumption
    <3> QED BY <3>1, <3>2, <3>3 DEF SlotsAccountedFor
  <2> QED BY <2>1, <2>2
<1> QED BY <1>1, <1>2, <1>3, <1>4, <1>5, <1>6

\* release() gave a slot back, or found its window gone.
LEMMA ReleaseKeepsInv ==
    ASSUME IInv, NEW r \in Request, NEW b \in Budget, Release(r, b)
    PROVE  IInv'
<1>0. /\ pc[r] = "releasing" /\ b \in held[r]
      /\ ReleaseOne(r, b)
      /\ held' = [held EXCEPT ![r] = @ \ {b}]
      /\ UNCHANGED <<clock, seeded, windowStart, pc, at, pos>>
  BY DEF Release, NextHeld
<1>1. /\ sent' \in [Budget -> Nat]
      /\ counted' \in [Budget -> SUBSET Request]
      /\ SentIsLedger'
      /\ SentWithinCap'
      /\ \A c \in Budget, q \in Request :
            /\ q \in counted'[c] => q \in counted[c]
            /\ q \in counted[c] => q \in counted'[c] \/ (q = r /\ c = b)
      /\ r \in counted'[b] => at[r] < windowStart[b]
  BY <1>0, ReleaseOneCounts
<1> USE DEF IInv, TypeOK
<1>2. TypeOK'
  BY <1>0, <1>1
<1>3. HeldInWindow'
  BY <1>0, <1>1 DEF HeldInWindow
<1>4. HeldIsPast'
  BY <1>0, <1>1 DEF HeldIsPast
<1>5. IdleIsFresh'
  BY <1>0, <1>1 DEF IdleIsFresh
<1>6. SlotsAccountedFor'
  <2> SUFFICES ASSUME NEW c \in Budget, NEW q \in counted'[c]
               PROVE  \/ pc[q] \in {"mailed", "denied"}
                      \/ pc[q] \in InFlight /\ c \in held'[q]
                      \/ Faulted(q)'
                      \/ at[q] < windowStart[c]
    BY <1>0 DEF SlotsAccountedFor
  <2>1. q \in counted[c] /\ q \in Request
    BY <1>1
  <2>2. CASE q = r /\ c = b
    BY <2>2, <1>1
  <2>3. CASE ~(q = r /\ c = b)
    <3>1. c \in held[q] => c \in held'[q]
      BY <2>1, <2>3, <1>0
    <3>2. Faulted(q) => Faulted(q)'
      BY <2>1, <1>0 DEF Faulted
    <3> QED BY <2>1, <3>1, <3>2 DEF SlotsAccountedFor
  <2> QED BY <2>2, <2>3
<1> QED BY <1>1, <1>2, <1>3, <1>4, <1>5, <1>6

\* The steps that touch no row: what matters is who moved and what it holds.
LEMMA QuietStepKeepsInv ==
    ASSUME IInv, NEW r \in Request,
           UNCHANGED <<sent, windowStart, counted>>,
           \/ Begin(r) \/ Grant(r) \/ Mail(r) \/ NoMail(r) \/ Released(r)
           \/ Crash(r)
           \/ \E b \in Budget : NoSlot(r, b) \/ SkipMissing(r, b) \/ Deny(r, b)
    PROVE  IInv'
<1>0. SentIsLedger' /\ SentWithinCap'
  BY RowsUntouched
<1> USE DEF IInv, TypeOK, InFlight, Done
<1>1. CASE Begin(r)
  BY <1>0, <1>1 DEF Begin, HeldInWindow, HeldIsPast, IdleIsFresh,
                    SlotsAccountedFor, Faulted
<1>2. CASE Grant(r)
  BY <1>0, <1>2 DEF Grant, HeldInWindow, HeldIsPast, IdleIsFresh,
                    SlotsAccountedFor, Faulted
<1>3. CASE Mail(r)
  BY <1>0, <1>3 DEF Mail, HeldInWindow, HeldIsPast, IdleIsFresh,
                    SlotsAccountedFor, Faulted
<1>4. CASE NoMail(r)
  BY <1>0, <1>4 DEF NoMail, HeldInWindow, HeldIsPast, IdleIsFresh,
                    SlotsAccountedFor, Faulted
<1>5. CASE Released(r)
  BY <1>0, <1>5 DEF Released, HeldInWindow, HeldIsPast, IdleIsFresh,
                    SlotsAccountedFor, Faulted
<1>6. CASE Crash(r)
  BY <1>0, <1>6 DEF Crash, Abandon, HeldInWindow, HeldIsPast, IdleIsFresh,
                    SlotsAccountedFor, Faulted
<1>7. ASSUME NEW b \in Budget, NoSlot(r, b)
      PROVE  IInv'
  BY <1>0, <1>7 DEF NoSlot, HeldInWindow, HeldIsPast, IdleIsFresh,
                    SlotsAccountedFor, Faulted
<1>8. ASSUME NEW b \in Budget, SkipMissing(r, b)
      PROVE  IInv'
  <2>1. HeldIsPast'
    <3>1. \A c \in held[r] :
             \E j \in DOMAIN Chain[r] : j < pos[r] + 1 /\ c = Chain[r][j]
      <4> TAKE c \in held[r]
      <4>1. PICK j \in DOMAIN Chain[r] : j < pos[r] /\ c = Chain[r][j]
        BY <1>8 DEF SkipMissing, HeldIsPast
      <4>2. j \in Int
        BY ChainAssumption
      <4> QED BY <4>1, <4>2
    <3> QED BY <3>1, <1>8 DEF SkipMissing, HeldIsPast
  <2> QED BY <1>0, <1>8, <2>1 DEF SkipMissing, HeldInWindow, IdleIsFresh,
                                  SlotsAccountedFor, Faulted
<1>9. ASSUME NEW b \in Budget, Deny(r, b)
      PROVE  IInv'
  BY <1>0, <1>9 DEF Deny, Abandon, HeldInWindow, HeldIsPast, IdleIsFresh,
                    SlotsAccountedFor, Faulted
<1> QED BY <1>1, <1>2, <1>3, <1>4, <1>5, <1>6, <1>7, <1>8, <1>9

\* Every step of the specification.
LEMMA StepKeepsInv == IInv /\ [Next]_vars => IInv'
<1> SUFFICES ASSUME IInv, [Next]_vars PROVE IInv' OBVIOUS
<1>1. CASE UNCHANGED vars
  <2>1. SentIsLedger' /\ SentWithinCap'
    BY <1>1, RowsUntouched DEF vars
  <2> QED BY <1>1, <2>1 DEF vars, IInv, TypeOK, HeldInWindow, HeldIsPast,
             IdleIsFresh, SlotsAccountedFor, Faulted
<1>2. CASE Tick \/ Migrate
  <2>1. SentIsLedger' /\ SentWithinCap'
    BY <1>2, RowsUntouched DEF Tick, Migrate
  <2> QED BY <1>2, <2>1 DEF Tick, Migrate, IInv, TypeOK, HeldInWindow,
             HeldIsPast, IdleIsFresh, SlotsAccountedFor, Faulted
<1>3. ASSUME NEW r \in Request, RequestStep(r)
      PROVE  IInv'
  <2>1. CASE \/ Begin(r) \/ Grant(r) \/ Mail(r) \/ NoMail(r) \/ Released(r)
             \/ Crash(r)
    BY <2>1, QuietStepKeepsInv
       DEF Begin, Grant, Mail, NoMail, Released, Crash
  <2>2. ASSUME NEW b \in Budget, BudgetStep(r, b)
        PROVE  IInv'
    <3>1. CASE NoSlot(r, b) \/ SkipMissing(r, b) \/ Deny(r, b)
      BY <3>1, QuietStepKeepsInv DEF NoSlot, SkipMissing, Deny
    <3> QED BY <2>2, <3>1, ReserveKeepsInv, FailOpenKeepsInv, ReleaseKeepsInv
            DEF BudgetStep
  <2> QED BY <1>3, <2>1, <2>2 DEF RequestStep
<1> QED BY <1>1, <1>2, <1>3 DEF Next

-----------------------------------------------------------------------------
(* The theorems *)

\* The strengthening is an invariant of email-budget.ts.
THEOREM BudgetInvariant == Spec => []IInv
<1>1. Init => IInv
  BY InitInv
<1>2. IInv /\ [Next]_vars => IInv'
  BY StepKeepsInv
<1> QED BY <1>1, <1>2, PTL DEF Spec

\* Every variable keeps its type; in particular no counter goes negative.
THEOREM TypeCorrect == Spec => []TypeOK
<1>1. IInv => TypeOK
  BY DEF IInv
<1> QED BY <1>1, BudgetInvariant, PTL

\* The counter of each scope is exactly the reservations of its window that
\* were not taken back, for any number of concurrent requests.
THEOREM LedgerCorrect == Spec => []SentIsLedger
<1>1. IInv => SentIsLedger
  BY DEF IInv
<1> QED BY <1>1, BudgetInvariant, PTL

\* The slots of a window all have an owner that explains them.
THEOREM NoSilentBurn == Spec => []SlotsAccountedFor
<1>1. IInv => SlotsAccountedFor
  BY DEF IInv
<1> QED BY <1>1, BudgetInvariant, PTL

\* The ceiling of email-budget.ts holds for every cap and window.
THEOREM CeilingHolds == Spec => []MailWithinCap
<1>1. IInv => MailWithinCap
  <2> SUFFICES ASSUME IInv, NEW b \in Budget
               PROVE  \E r \in Request : Cardinality(MailedIn(b)) <= Cap[r][b]
    BY DEF MailWithinCap
  <2> USE DEF IInv
  <2>1. MailedIn(b) \subseteq counted[b]
    BY DEF MailedIn, HeldInWindow
  <2>2. IsFiniteSet(counted[b]) /\ Cardinality(counted[b]) = sent[b]
    BY CountedIsFinite DEF SentIsLedger
  <2>3. Cardinality(MailedIn(b)) \in Nat /\ Cardinality(MailedIn(b)) <= sent[b]
    BY <2>1, <2>2, FS_Subset, FS_CardinalityType
  <2>4. PICK r \in Request : sent[b] <= Cap[r][b]
    BY DEF SentWithinCap
  <2>5. sent[b] \in Nat /\ Cap[r][b] \in Nat
    BY CapAssumption DEF TypeOK
  <2> QED BY <2>3, <2>4, <2>5
<1> QED BY <1>1, BudgetInvariant, PTL

\* A release gives back only the releasing request's own slot.
THEOREM ReleaseSafe == Spec => ReleaseOnlyOwnSlot
<1> DEFINE Own == \A b \in Budget :
             sent'[b] < sent[b] /\ windowStart'[b] = windowStart[b]
             => \E r \in counted[b] : /\ pc[r] = "releasing" /\ b \in held[r]
                                      /\ sent'[b] = sent[b] - 1
<1>1. IInv /\ [Next]_vars => [Own]_vars
  <2> SUFFICES ASSUME IInv, Next, NEW b \in Budget,
                      sent'[b] < sent[b], windowStart'[b] = windowStart[b]
               PROVE  \E r \in counted[b] : /\ pc[r] = "releasing" /\ b \in held[r]
                                            /\ sent'[b] = sent[b] - 1
    OBVIOUS
  <2> USE DEF IInv, TypeOK
  <2>1. ASSUME NEW r \in Request, NEW c \in Budget, ReserveOne(r, c)
        PROVE  FALSE
    <3>1. Window[c] \in Nat \ {0}
      BY WindowAssumption
    <3>2. c = b
      BY <2>1 DEF ReserveOne
    <3>3. ~Expired(r, b)
      BY <2>1, <3>1, <3>2 DEF ReserveOne, Expired
    <3> QED BY <2>1, <3>2, <3>3 DEF ReserveOne
  <2>2. ~ UNCHANGED sent
    OBVIOUS
  <2>3. PICK r \in Request, c \in Budget : Release(r, c)
    BY <2>1, <2>2 DEF Next, Tick, Migrate, RequestStep, Begin, Grant, Mail, NoMail,
         Released, Crash, BudgetStep, Reserve, NoSlot, SkipMissing, Deny, FailOpen
  <2>4. pc[r] = "releasing" /\ c \in held[r] /\ ReleaseOne(r, c)
    BY <2>3 DEF Release, NextHeld
  <2>5. CanRelease(r, c) /\ sent' = [sent EXCEPT ![c] = @ - 1]
    BY <2>2, <2>4 DEF ReleaseOne
  <2>6. c = b
    BY <2>5
  <2>7. r \in counted[b]
    BY <2>4, <2>5, <2>6, ReleaseTakesOwnSlot
  <2> QED BY <2>4, <2>5, <2>6, <2>7
<1> QED BY <1>1, BudgetInvariant, PTL DEF Spec, ReleaseOnlyOwnSlot

-----------------------------------------------------------------------------
(***************************************************************************)
(* The rate limiter, for every set of requests, identities, routes, colos  *)
(* and limits.  (R is RateLimit.)                                          *)
(*                                                                         *)
(* The argument, on the shard: a request that has stamped a bucket since   *)
(* the bucket was last lost is still in it, or out of its windows; so a    *)
(* verdict counts all that a window can hold.  In a colo's cache the same  *)
(* is true as long as no two requests of the identity overlap there:       *)
(* whoever has read an entry and not yet written it has seen every stamp   *)
(* of its windows, nobody else is open to add one, and no stamp is later   *)
(* than its own.  An entry the Cache API loses takes its stamps with it.   *)
(***************************************************************************)

RateRec == [pc : R!Open \cup {"allowed", "degraded", "short", "long", "envelope"},
            id : Identity, scope : Scope, colo : R!Place, at : 0..MaxNow,
            seen : [R!Route -> SUBSET Request], todo : SUBSET R!Route,
            failed : SUBSET R!Route]

\* Only the shard's requests name the shard as their place, and a clock that
\* stamped is behind the clock.
Placed ==
    \A r \in Request :
        /\ req[r] # R!Idle => req[r].at <= now
        /\ req[r].pc \in R!Open => req[r] # R!Idle /\ req[r].colo \in Colo

LEMMA SameCount == \A S : R!Cardinality(S) = Cardinality(S)
  BY DEF R!Cardinality, Cardinality

LEMMA LimitIsNat ==
    ASSUME NEW x \in R!Route
    PROVE  /\ Limit[x].short.max \in Nat \ {0} /\ Limit[x].long.max \in Nat \ {0}
           /\ Limit[x].short.ticks \in Nat \ {0} /\ Limit[x].long.ticks \in Nat
           /\ Limit[x].short.ticks <= Limit[x].long.ticks
  BY LimitAssumption DEF R!Route

LEMMA NotIdleIsTyped ==
    ASSUME R!TypeOK, NEW r \in Request, req[r] # R!Idle
    PROVE  req[r] \in RateRec
  BY DEF R!TypeOK, RateRec

LEMMA IdleIsClosed ==
    ASSUME NEW r, req[r] = R!Idle
    PROVE  req[r].pc = "idle"
  BY DEF R!Idle

LEMMA VerdictIsKnown ==
    ASSUME NEW S, NEW x, NEW t
    PROVE  R!Verdict(S, x, t) \in {"ok", "short", "long"}
  BY DEF R!Verdict

LEMMA LiveIsPart ==
    ASSUME NEW S \in SUBSET Request, NEW x, NEW t
    PROVE  R!Live(S, x, t) \in SUBSET Request /\ R!Live(S, x, t) \subseteq S
  BY DEF R!Live, R!Within

LEMMA ArrivedIsTyped ==
    ASSUME R!TypeOK, NEW i \in Identity, NEW s \in Scope, NEW p \in R!Place
    PROVE  R!Arrived(i, s, p) \in RateRec
  BY DEF R!TypeOK, RateRec, R!Arrived, R!Open, R!Route

LEMMA RateTypeInit == R!Init => R!TypeOK /\ Placed
<1> SUFFICES ASSUME R!Init PROVE R!TypeOK /\ Placed
  OBVIOUS
<1>1. now \in 0..MaxNow
  BY LimitAssumption DEF R!Init
<1>2. turn \in [R!Key -> Nat]
  BY DEF R!Init
<1>3. req \in [Request -> {R!Idle} \cup RateRec]
  BY DEF R!Init
<1>4. /\ cache \in [Colo -> [R!Key -> SUBSET Request]]
      /\ stamped \in [R!Place -> [R!Key -> SUBSET Request]]
      /\ shard \in [R!Key -> SUBSET Request] /\ overlap \in SUBSET Request
      /\ backend \in {"cache", "shard"}
  BY DEF R!Init
<1>5. R!TypeOK
  BY <1>1, <1>2, <1>3, <1>4 DEF R!TypeOK, RateRec
<1>6. Placed
  <2> SUFFICES ASSUME NEW r \in Request
               PROVE  req[r] = R!Idle /\ req[r].pc \notin R!Open
    BY DEF Placed
  <2>1. req[r] = R!Idle
    BY DEF R!Init
  <2> QED BY <2>1, IdleIsClosed DEF R!Open
<1> QED BY <1>5, <1>6

\* What no step of a request changes of it once it has arrived.
Kept == \A q \in Request : req[q] # R!Idle =>
            /\ req'[q] # R!Idle
            /\ req'[q].at = req[q].at /\ req'[q].id = req[q].id
            /\ req'[q].colo = req[q].colo /\ req'[q].scope = req[q].scope

\* One request goes from one record to the next.
Moves(r, rec) == rec \in RateRec /\ req' = [req EXCEPT ![r] = rec]

LEMMA MovesKeepTypes ==
    ASSUME R!TypeOK, Placed, NEW r \in Request, NEW rec, Moves(r, rec),
           now' = now, rec.at <= now, rec.pc \in R!Open => rec.colo \in Colo,
           req[r] # R!Idle => /\ rec.at = req[r].at /\ rec.id = req[r].id
                              /\ rec.colo = req[r].colo /\ rec.scope = req[r].scope
    PROVE  /\ Placed' /\ Kept
           /\ \A q \in Request : req'[q] = R!Idle \/ req'[q] \in RateRec
<1>1. rec # R!Idle
  BY DEF Moves, RateRec, R!Idle, R!Open
<1>2. \A q \in Request : req'[q] = IF q = r THEN rec ELSE req[q]
  BY DEF Moves, R!TypeOK
<1>3. Placed'
  BY <1>1, <1>2 DEF Placed
<1>4. Kept
  BY <1>1, <1>2 DEF Kept
<1> QED BY <1>2, <1>3, <1>4, NotIdleIsTyped DEF Moves

Answers == {"allowed", "degraded", "short", "long", "envelope"}

\* A request that has arrived goes on: its place, what it read, what it still
\* has to write, and no more than these.
Turns(r, p, S, T) ==
    \E rec \in RateRec :
        /\ req' = [req EXCEPT ![r] = rec]
        /\ rec.pc = p /\ rec.seen = S /\ rec.todo = T
        /\ rec.at = req[r].at /\ rec.id = req[r].id
        /\ rec.colo = req[r].colo /\ rec.scope = req[r].scope

LEMMA TurnsByExcept ==
    ASSUME NEW r \in Request, req[r] \in RateRec, NEW p \in R!Open \cup Answers,
           NEW S \in [R!Route -> SUBSET Request], NEW T \in SUBSET R!Route,
           NEW f \in SUBSET R!Route,
           \/ /\ req' = [req EXCEPT ![r] = [req[r] EXCEPT !.pc = p, !.seen = S]]
              /\ T = req[r].todo
           \/ req' = [req EXCEPT ![r] = [req[r] EXCEPT !.pc = p, !.todo = T, !.seen = S]]
           \/ req' = [req EXCEPT ![r] = [req[r] EXCEPT !.todo = T, !.seen = S,
                                                       !.failed = f, !.pc = p]]
    PROVE  Turns(r, p, S, T)
<1>1. PICK B \in RateRec : B = req[r]
  OBVIOUS
<1>2. CASE T = B.todo /\ req' = [req EXCEPT ![r] = [B EXCEPT !.pc = p, !.seen = S]]
  <2> DEFINE rec == [B EXCEPT !.pc = p, !.seen = S]
  <2>1. /\ rec \in RateRec /\ rec.pc = p /\ rec.seen = S /\ rec.todo = T
        /\ rec.at = B.at /\ rec.id = B.id /\ rec.colo = B.colo /\ rec.scope = B.scope
    BY <1>2 DEF RateRec, Answers
  <2>2. req' = [req EXCEPT ![r] = rec]
    BY <1>2
  <2> HIDE DEF rec
  <2> QED BY <1>1, <2>1, <2>2 DEF Turns
<1>3. CASE req' = [req EXCEPT ![r] = [B EXCEPT !.pc = p, !.todo = T, !.seen = S]]
  <2> DEFINE rec == [B EXCEPT !.pc = p, !.todo = T, !.seen = S]
  <2>1. /\ rec \in RateRec /\ rec.pc = p /\ rec.seen = S /\ rec.todo = T
        /\ rec.at = B.at /\ rec.id = B.id /\ rec.colo = B.colo /\ rec.scope = B.scope
    BY DEF RateRec, Answers
  <2>2. req' = [req EXCEPT ![r] = rec]
    BY <1>3
  <2> HIDE DEF rec
  <2> QED BY <1>1, <2>1, <2>2 DEF Turns
<1>4. CASE req' = [req EXCEPT ![r] = [B EXCEPT !.todo = T, !.seen = S,
                                               !.failed = f, !.pc = p]]
  <2> DEFINE rec == [B EXCEPT !.todo = T, !.seen = S, !.failed = f, !.pc = p]
  <2>1. /\ rec \in RateRec /\ rec.pc = p /\ rec.seen = S /\ rec.todo = T
        /\ rec.at = B.at /\ rec.id = B.id /\ rec.colo = B.colo /\ rec.scope = B.scope
    BY DEF RateRec, Answers
  <2>2. req' = [req EXCEPT ![r] = rec]
    BY <1>4
  <2> HIDE DEF rec
  <2> QED BY <1>1, <2>1, <2>2 DEF Turns
<1> QED BY <1>1, <1>2, <1>3, <1>4

\* What a route or the envelope holds, and the verdict on it, for a request.
Entry(r, x) == cache[req[r].colo][<<x, req[r].id>>]
Says(r, x) == R!Verdict(Entry(r, x), x, req[r].at)
LiveAt(r, x) == R!Live(Entry(r, x), x, req[r].at)

LEMMA EntryIsTyped ==
    ASSUME R!TypeOK, NEW r \in Request, req[r] \in RateRec, req[r].colo \in Colo,
           NEW x \in R!Route
    PROVE  Entry(r, x) \in SUBSET Request /\ LiveAt(r, x) \in SUBSET Request
<1>1. Entry(r, x) \in SUBSET Request
  BY DEF R!TypeOK, R!Key, RateRec, Entry
<1> QED BY <1>1, LiveIsPart DEF LiveAt

LEMMA ReadScopeTurns ==
    ASSUME R!TypeOK, NEW r \in Request, R!ReadScope(r), req[r] \in RateRec,
           req[r].colo \in Colo
    PROVE  IF Says(r, req[r].scope) = "ok"
           THEN Turns(r, "global", [req[r].seen EXCEPT ![req[r].scope] =
                                       LiveAt(r, req[r].scope)], req[r].todo)
           ELSE Turns(r, Says(r, req[r].scope), req[r].seen, req[r].todo)
<1> DEFINE s == req[r].scope
           S == IF Says(r, s) = "ok" THEN [req[r].seen EXCEPT ![s] = LiveAt(r, s)]
                ELSE req[r].seen
           p == IF Says(r, s) = "ok" THEN "global" ELSE Says(r, s)
<1>1. req' = [req EXCEPT ![r] = [req[r] EXCEPT !.pc = p, !.seen = S]]
  BY DEF R!ReadScope, Says, LiveAt, Entry
<1>2. s \in R!Route /\ req[r].seen \in [R!Route -> SUBSET Request]
      /\ req[r].todo \in SUBSET R!Route
  BY DEF RateRec, R!Route
<1>3. p \in R!Open \cup Answers
  BY VerdictIsKnown DEF Says, R!Open, Answers
<1>4. S \in [R!Route -> SUBSET Request]
  BY <1>2, EntryIsTyped
<1> HIDE DEF S, p
<1>5. Turns(r, p, S, req[r].todo)
  BY <1>1, <1>2, <1>3, <1>4, TurnsByExcept
<1> QED BY <1>5 DEF S, p

LEMMA ReadGlobalTurns ==
    ASSUME R!TypeOK, NEW r \in Request, R!ReadGlobal(r), req[r] \in RateRec,
           req[r].colo \in Colo
    PROVE  IF Says(r, "global") = "ok"
           THEN Turns(r, "writing", [req[r].seen EXCEPT !["global"] =
                                       LiveAt(r, "global")], {req[r].scope, "global"})
           ELSE Turns(r, "envelope", [x \in R!Route |-> {}], {})
<1> DEFINE ok == Says(r, "global") = "ok"
           S == IF ok THEN [req[r].seen EXCEPT !["global"] = LiveAt(r, "global")]
                ELSE [x \in R!Route |-> {}]
           p == IF ok THEN "writing" ELSE "envelope"
           T == IF ok THEN {req[r].scope, "global"} ELSE {}
<1>1. req' = [req EXCEPT ![r] = [req[r] EXCEPT !.pc = p, !.todo = T, !.seen = S]]
  BY DEF R!ReadGlobal, Says, LiveAt, Entry
<1>2. "global" \in R!Route /\ req[r].seen \in [R!Route -> SUBSET Request]
  BY DEF RateRec, R!Route
<1>3. p \in R!Open \cup Answers /\ T \in SUBSET R!Route
  BY DEF R!Open, Answers, RateRec, R!Route
<1>4. S \in [R!Route -> SUBSET Request]
  BY <1>2, EntryIsTyped
<1> HIDE DEF S, p, T
<1>5. Turns(r, p, S, T)
  BY <1>1, <1>3, <1>4, TurnsByExcept
<1> QED BY <1>5 DEF S, p, T

LEMMA ReadFailsTurns ==
    ASSUME NEW r \in Request, R!ReadFails(r), req[r] \in RateRec
    PROVE  Turns(r, "degraded", [x \in R!Route |-> {}], req[r].todo)
<1> DEFINE S == [x \in R!Route |-> {}]
<1>1. req' = [req EXCEPT ![r] = [req[r] EXCEPT !.pc = "degraded", !.seen = S]]
  BY DEF R!ReadFails
<1>2. S \in [R!Route -> SUBSET Request]
  OBVIOUS
<1>3. "degraded" \in R!Open \cup Answers /\ req[r].todo \in SUBSET R!Route
  BY DEF RateRec, Answers
<1> HIDE DEF S
<1> QED BY <1>1, <1>2, <1>3, TurnsByExcept DEF S

LEMMA WriteTurns ==
    ASSUME NEW r \in Request, NEW x \in R!Route, R!Write(r, x), req[r] \in RateRec
    PROVE  \E p \in {"writing", "allowed", "degraded"} :
              /\ Turns(r, p, [req[r].seen EXCEPT ![x] = {}], req[r].todo \ {x})
              /\ p = "writing" <=> req[r].todo # {x}
<1> DEFINE S == [req[r].seen EXCEPT ![x] = {}]
           T == req[r].todo \ {x}
<1>1. PICK p \in {"writing", "allowed", "degraded"}, f \in SUBSET R!Route :
          /\ req' = [req EXCEPT ![r] = [req[r] EXCEPT !.todo = T, !.seen = S,
                                                     !.failed = f, !.pc = p]]
          /\ p = "writing" <=> req[r].todo # {x}
  <2>1. PICK lands \in BOOLEAN :
           LET g == IF lands THEN req[r].failed ELSE req[r].failed \cup {x} IN
           req' = [req EXCEPT ![r] = [req[r] EXCEPT
                     !.todo = T, !.seen = S,
                     !.failed = IF req[r].todo = {x} THEN {} ELSE g,
                     !.pc = IF req[r].todo # {x} THEN "writing"
                            ELSE IF g = {} THEN "allowed" ELSE "degraded"]]
    BY DEF R!Write
  <2> DEFINE g == IF lands THEN req[r].failed ELSE req[r].failed \cup {x}
             f == IF req[r].todo = {x} THEN {} ELSE g
             p == IF req[r].todo # {x} THEN "writing"
                  ELSE IF g = {} THEN "allowed" ELSE "degraded"
  <2>2. f \in SUBSET R!Route
    BY DEF RateRec
  <2> QED BY <2>1, <2>2
<1>2. S \in [R!Route -> SUBSET Request] /\ T \in SUBSET R!Route
  BY DEF RateRec
<1>3. p \in R!Open \cup Answers
  BY DEF R!Open, Answers
<1> HIDE DEF S, T
<1> QED BY <1>1, <1>2, <1>3, TurnsByExcept DEF S, T

\* The cells besides req keep their types.
CellsTyped ==
    /\ cache' \in [Colo -> [R!Key -> SUBSET Request]]
    /\ shard' \in [R!Key -> SUBSET Request]
    /\ turn' \in [R!Key -> Nat]
    /\ stamped' \in [R!Place -> [R!Key -> SUBSET Request]]
    /\ overlap' \in SUBSET Request
    /\ backend' \in {"cache", "shard"}

LEMMA TurnsKeepType ==
    ASSUME R!TypeOK, Placed, NEW r \in Request, NEW p, NEW S, NEW T, Turns(r, p, S, T),
           req[r] # R!Idle, p \in R!Open => req[r].colo \in Colo, now' = now, CellsTyped
    PROVE  R!TypeOK' /\ Placed' /\ Kept
<1>1. PICK rec \in RateRec :
        /\ req' = [req EXCEPT ![r] = rec]
        /\ rec.pc = p /\ rec.at = req[r].at /\ rec.id = req[r].id
        /\ rec.colo = req[r].colo /\ rec.scope = req[r].scope
  BY DEF Turns
<1>2. rec.at <= now
  BY <1>1 DEF Placed
<1>3. /\ Placed' /\ Kept
      /\ \A q \in Request : req'[q] = R!Idle \/ req'[q] \in RateRec
  BY <1>1, <1>2, MovesKeepTypes DEF Moves
<1>4. req' \in [Request -> {R!Idle} \cup RateRec]
  BY <1>1, <1>3 DEF R!TypeOK
<1>5. now' \in 0..MaxNow
  BY DEF R!TypeOK
<1> QED BY <1>3, <1>4, <1>5 DEF R!TypeOK, RateRec, CellsTyped

LEMMA ArrivesKeepsType ==
    ASSUME R!TypeOK, Placed, NEW r \in Request, NEW rec \in RateRec,
           req' = [req EXCEPT ![r] = rec], req[r] = R!Idle, rec.at = now,
           rec.pc \in R!Open => rec.colo \in Colo, now' = now, CellsTyped
    PROVE  R!TypeOK' /\ Placed' /\ Kept
<1>1. rec.at <= now
  BY DEF R!TypeOK
<1>2. /\ Placed' /\ Kept
      /\ \A q \in Request : req'[q] = R!Idle \/ req'[q] \in RateRec
  BY <1>1, MovesKeepTypes DEF Moves
<1>3. req' \in [Request -> {R!Idle} \cup RateRec]
  BY <1>2 DEF R!TypeOK
<1>4. now' \in 0..MaxNow
  BY DEF R!TypeOK
<1> QED BY <1>2, <1>3, <1>4 DEF R!TypeOK, RateRec, CellsTyped

LEMMA RestKeepsType ==
    ASSUME R!TypeOK, Placed, req' = req, now' \in 0..MaxNow, now <= now', CellsTyped
    PROVE  R!TypeOK' /\ Placed' /\ Kept
<1>1. R!TypeOK'
  BY DEF R!TypeOK, CellsTyped
<1>2. \A r \in Request : req[r] # R!Idle => req[r].at \in Nat
  BY NotIdleIsTyped DEF RateRec
<1>3. now \in Nat /\ now' \in Nat
  BY DEF R!TypeOK
<1>4. Placed'
  BY <1>2, <1>3 DEF Placed
<1> QED BY <1>1, <1>4 DEF Kept

LEMMA OpenIsTyped ==
    ASSUME R!TypeOK, Placed, NEW r \in Request, req[r].pc \in R!Open
    PROVE  /\ req[r] # R!Idle /\ req[r] \in RateRec /\ req[r].colo \in Colo
           /\ req[r].at <= now
  BY NotIdleIsTyped DEF Placed

\* The shard's Map and what is known of it after one decision.
Rest(swept) == [k \in R!Key |-> IF k \in swept THEN {} ELSE shard[k]]
Full(swept, i, s, r) == R!Charged(Rest(swept), i, s, r)
Out(swept, i, s, r) == R!Evicted(Full(swept, i, s, r), R!Moved(i, s))

LEMMA FullIsTyped ==
    ASSUME R!TypeOK, NEW r \in Request, NEW i, NEW s, NEW swept
    PROVE  /\ Rest(swept) \in [R!Key -> SUBSET Request]
           /\ Full(swept, i, s, r) \in [R!Key -> SUBSET Request]
<1>1. Rest(swept) \in [R!Key -> SUBSET Request]
  BY DEF R!TypeOK, Rest
<1>2. \A k \in R!Key : R!Live(Rest(swept)[k], k[1], now) \in SUBSET Request
  BY <1>1, LiveIsPart
<1> QED BY <1>1, <1>2 DEF Full, R!Charged

LEMMA DecideSays ==
    ASSUME NEW r \in Request, NEW i \in Identity, NEW s \in Scope, R!Decide(r, i, s)
    PROVE  \E lost \in BOOLEAN, swept \in SUBSET {k \in R!Key : R!Expired(k)} :
              /\ req' = [req EXCEPT ![r] = [R!Arrived(i, s, "shard") EXCEPT
                            !.pc = IF lost THEN "degraded" ELSE R!Judged(i, s)]]
              /\ \/ /\ R!Judged(i, s) = "allowed"
                    /\ shard' = [k \in R!Key |-> IF k \in Out(swept, i, s, r) THEN {}
                                                ELSE Full(swept, i, s, r)[k]]
                    /\ turn' = R!Moved(i, s)
                    /\ stamped' = [stamped EXCEPT !["shard"] = [k \in R!Key |->
                          IF k \in Out(swept, i, s, r) THEN {}
                          ELSE IF k \in R!Buckets(i, s) THEN stamped["shard"][k] \cup {r}
                               ELSE stamped["shard"][k]]]
                 \/ shard' = Rest(swept) /\ UNCHANGED <<turn, stamped>>
  BY DEF R!Decide, Rest, Full, Out

LEMMA JudgedIsKnown ==
    ASSUME NEW i, NEW s
    PROVE  R!Judged(i, s) \in Answers
  BY VerdictIsKnown DEF R!Judged, Answers

LEMMA RateTypeNext == R!TypeOK /\ Placed /\ R!Next => R!TypeOK' /\ Placed' /\ Kept
<1> SUFFICES ASSUME R!TypeOK, Placed, R!Next PROVE R!TypeOK' /\ Placed' /\ Kept
  OBVIOUS
<1>0. Colo \subseteq R!Place /\ "shard" \in R!Place
  BY DEF R!Place
<1>1. ASSUME NEW r \in Request, NEW i \in Identity, NEW s \in Scope, NEW c \in Colo,
             R!Begin(r, i, s, c)
      PROVE  R!TypeOK' /\ Placed' /\ Kept
  <2>1. R!Arrived(i, s, c) \in RateRec
    BY <1>0, ArrivedIsTyped
  <2>2. R!Meets(r, i, c) \subseteq Request
    BY DEF R!Meets
  <2>3. CellsTyped
    BY <1>1, <2>2 DEF R!Begin, R!TypeOK, CellsTyped
  <2>4. R!Arrived(i, s, c).at = now /\ R!Arrived(i, s, c).colo = c
    BY DEF R!Arrived
  <2> QED BY <1>1, <2>1, <2>3, <2>4, ArrivesKeepsType DEF R!Begin
<1>2. ASSUME NEW r \in Request, NEW i \in Identity, NEW s \in Scope, R!Decide(r, i, s)
      PROVE  R!TypeOK' /\ Placed' /\ Kept
  <2>0. now' = now /\ req[r] = R!Idle
        /\ UNCHANGED <<backend, cache, overlap>>
    BY <1>2 DEF R!Decide
  <2>1. PICK lost \in BOOLEAN, swept \in SUBSET {k \in R!Key : R!Expired(k)} :
              /\ req' = [req EXCEPT ![r] = [R!Arrived(i, s, "shard") EXCEPT
                            !.pc = IF lost THEN "degraded" ELSE R!Judged(i, s)]]
              /\ \/ /\ shard' = [k \in R!Key |-> IF k \in Out(swept, i, s, r) THEN {}
                                                ELSE Full(swept, i, s, r)[k]]
                    /\ turn' = R!Moved(i, s)
                    /\ stamped' = [stamped EXCEPT !["shard"] = [k \in R!Key |->
                          IF k \in Out(swept, i, s, r) THEN {}
                          ELSE IF k \in R!Buckets(i, s) THEN stamped["shard"][k] \cup {r}
                               ELSE stamped["shard"][k]]]
                 \/ shard' = Rest(swept) /\ UNCHANGED <<turn, stamped>>
    BY <1>2, DecideSays
  <2> DEFINE p == IF lost THEN "degraded" ELSE R!Judged(i, s)
             rec == [R!Arrived(i, s, "shard") EXCEPT !.pc = p]
  <2>2. p \in Answers
    BY JudgedIsKnown DEF Answers
  <2>3. rec \in RateRec /\ rec.at = now /\ rec.pc = p
    <3>1. R!Arrived(i, s, "shard") \in RateRec /\ R!Arrived(i, s, "shard").at = now
      BY <1>0, ArrivedIsTyped DEF R!Arrived
    <3> HIDE DEF p
    <3> QED BY <2>2, <3>1 DEF RateRec, Answers
  <2>4. p \notin R!Open
    BY <2>2 DEF Answers, R!Open
  <2>5. shard' \in [R!Key -> SUBSET Request]
    BY <2>1, FullIsTyped
  <2>6. turn' \in [R!Key -> Nat]
    <3> DEFINE m == R!Cardinality({q \in Request : req[q] # R!Idle})
    <3>1. m \in Nat
      <4> DEFINE S == {q \in Request : req[q] # R!Idle}
      <4>1. S \in SUBSET Request
        OBVIOUS
      <4>2. R!Cardinality(S) = Cardinality(S)
        BY SameCount
      <4> HIDE DEF S
      <4>3. Cardinality(S) \in Nat
        BY <4>1, RequestAssumption, FS_Subset, FS_CardinalityType
      <4> QED BY <4>2, <4>3 DEF S
    <3>2. R!Moved(i, s) = [turn EXCEPT ![<<s, i>>] = 2 * m + 1,
                                       ![<<"global", i>>] = 2 * m + 2]
      BY DEF R!Moved
    <3> HIDE DEF m
    <3>3. 2 * m + 1 \in Nat /\ 2 * m + 2 \in Nat
      BY <3>1
    <3>4. R!Moved(i, s) \in [R!Key -> Nat]
      <4> DEFINE a == <<s, i>>
                 b == <<"global", i>>
                 u == 2 * m + 1
                 v == 2 * m + 2
      <4>1. R!Moved(i, s) = [turn EXCEPT ![a] = u, ![b] = v]
        BY <3>2
      <4>2. u \in Nat /\ v \in Nat
        BY <3>3
      <4> HIDE DEF a, b, u, v
      <4>3. [turn EXCEPT ![a] = u, ![b] = v] \in [R!Key -> Nat]
        BY <4>2 DEF R!TypeOK
      <4> QED BY <4>1, <4>3
    <3> QED BY <2>1, <3>4 DEF R!TypeOK
  <2>7. stamped' \in [R!Place -> [R!Key -> SUBSET Request]]
    <3>1. stamped["shard"] \in [R!Key -> SUBSET Request]
      BY <1>0 DEF R!TypeOK
    <3> DEFINE new == [k \in R!Key |-> IF k \in Out(swept, i, s, r) THEN {}
                          ELSE IF k \in R!Buckets(i, s) THEN stamped["shard"][k] \cup {r}
                               ELSE stamped["shard"][k]]
    <3>2. new \in [R!Key -> SUBSET Request]
      BY <3>1
    <3>3. stamped' = [stamped EXCEPT !["shard"] = new] \/ stamped' = stamped
      BY <2>1
    <3> HIDE DEF new
    <3> QED BY <3>2, <3>3 DEF R!TypeOK
  <2>8. CellsTyped
    BY <2>0, <2>5, <2>6, <2>7 DEF R!TypeOK, CellsTyped
  <2>9. req' = [req EXCEPT ![r] = rec]
    BY <2>1
  <2> HIDE DEF rec, p
  <2> QED BY <2>0, <2>3, <2>4, <2>8, <2>9, ArrivesKeepsType
<1>3. ASSUME NEW r \in Request, NEW i \in Identity, NEW s \in Scope, R!Unreached(r, i, s)
      PROVE  R!TypeOK' /\ Placed' /\ Kept
  <2> DEFINE rec == [R!Arrived(i, s, "shard") EXCEPT !.pc = "degraded"]
  <2>1. R!Arrived(i, s, "shard") \in RateRec /\ R!Arrived(i, s, "shard").at = now
    BY <1>0, ArrivedIsTyped DEF R!Arrived
  <2>2. rec \in RateRec /\ rec.at = now /\ rec.pc = "degraded"
    BY <2>1 DEF RateRec
  <2>3. req' = [req EXCEPT ![r] = rec] /\ CellsTyped
    BY <1>3 DEF R!Unreached, R!TypeOK, CellsTyped
  <2>4. now' = now /\ req[r] = R!Idle /\ "degraded" \notin R!Open
    BY <1>3 DEF R!Unreached, R!Open
  <2> HIDE DEF rec
  <2> QED BY <2>2, <2>3, <2>4, ArrivesKeepsType
<1>4. ASSUME NEW r \in Request, R!ReadScope(r) \/ R!ReadGlobal(r) \/ R!ReadFails(r)
      PROVE  R!TypeOK' /\ Placed' /\ Kept
  <2>1. req[r] \in RateRec /\ req[r] # R!Idle /\ req[r].colo \in Colo
    BY <1>4, OpenIsTyped DEF R!ReadScope, R!ReadGlobal, R!ReadFails, R!Open
  <2>2. \E p, S, T : Turns(r, p, S, T)
    BY <1>4, <2>1, ReadScopeTurns, ReadGlobalTurns, ReadFailsTurns
  <2>3. now' = now /\ CellsTyped
    BY <1>4 DEF R!ReadScope, R!ReadGlobal, R!ReadFails, R!TypeOK, CellsTyped
  <2> QED BY <2>1, <2>2, <2>3, TurnsKeepType
<1>5. ASSUME NEW r \in Request, NEW x \in R!Route, R!Write(r, x)
      PROVE  R!TypeOK' /\ Placed' /\ Kept
  <2>1. req[r] \in RateRec /\ req[r] # R!Idle /\ req[r].colo \in Colo
    BY <1>5, OpenIsTyped DEF R!Write, R!Open
  <2>2. \E p, S, T : Turns(r, p, S, T)
    BY <1>5, <2>1, WriteTurns
  <2>3. R!Grown(req[r].seen[x], r) \in SUBSET Request
    BY <2>1 DEF RateRec, R!Grown
  <2>4. cache' \in [Colo -> [R!Key -> SUBSET Request]]
        /\ stamped' \in [R!Place -> [R!Key -> SUBSET Request]]
    <3> DEFINE k == <<x, req[r].id>>
               c == req[r].colo
               new == [stamped[c] EXCEPT ![k] = stamped[c][k] \cup {r}]
               put == [cache[c] EXCEPT ![k] = R!Grown(req[r].seen[x], r)]
    <3>1. c \in Colo /\ c \in R!Place /\ k \in R!Key
      BY <1>0, <2>1 DEF RateRec, R!Key
    <3>2. put \in [R!Key -> SUBSET Request] /\ new \in [R!Key -> SUBSET Request]
      <4> HIDE DEF k, c
      <4> QED BY <2>3, <3>1 DEF R!TypeOK
    <3>3. \/ cache' = [cache EXCEPT ![c] = put] /\ stamped' = [stamped EXCEPT ![c] = new]
          \/ UNCHANGED <<cache, stamped>>
      BY <1>5 DEF R!Write
    <3> HIDE DEF new, put
    <3> QED BY <3>1, <3>2, <3>3 DEF R!TypeOK
  <2>5. now' = now /\ CellsTyped
    BY <1>5, <2>4 DEF R!Write, R!TypeOK, CellsTyped
  <2> QED BY <2>1, <2>2, <2>5, TurnsKeepType
<1>6. ASSUME NEW c \in Colo, NEW k \in R!Key, R!Lose(c, k)
      PROVE  R!TypeOK' /\ Placed' /\ Kept
  <2>1. CellsTyped /\ req' = req /\ now' = now
    BY <1>0, <1>6 DEF R!Lose, R!TypeOK, CellsTyped
  <2> QED BY <2>1, RestKeepsType DEF R!TypeOK
<1>7. ASSUME R!Hibernate
      PROVE  R!TypeOK' /\ Placed' /\ Kept
  <2>1. CellsTyped /\ req' = req /\ now' = now
    BY <1>0, <1>7 DEF R!Hibernate, R!TypeOK, CellsTyped
  <2> QED BY <2>1, RestKeepsType DEF R!TypeOK
<1>8. ASSUME R!Tick
      PROVE  R!TypeOK' /\ Placed' /\ Kept
  <2>1. CellsTyped /\ req' = req /\ now' = now + 1
    BY <1>8 DEF R!Tick, R!TypeOK, CellsTyped
  <2>2. now' \in 0..MaxNow /\ now <= now'
    BY <1>8, <2>1, LimitAssumption DEF R!Tick, R!TypeOK
  <2> QED BY <2>1, <2>2, RestKeepsType
<1> QED BY <1>1, <1>2, <1>3, <1>4, <1>5, <1>6, <1>7, <1>8 DEF R!Next

\* Those of S whose stamp f falls into the window of some ticks that ends at t.
Near(S, f, ticks, t) == {p \in S : f[p].at <= t /\ t - f[p].at < ticks}

\* What WithinLimits says, of one of the windows.
Fits(S, f, ticks, max) == \A q \in S : Cardinality(Near(S, f, ticks, f[q].at)) <= max

LEMMA RoomForOne ==
    ASSUME NEW S \in SUBSET Request, NEW r \in Request, NEW f,
           NEW T \in SUBSET Request, NEW ticks \in Nat, NEW max \in Nat \ {0},
           f[r].at \in Nat, \A q \in S : f[q].at \in Nat /\ f[q].at <= f[r].at,
           \A q \in S : f[q].at + ticks > f[r].at => q \in T,
           Cardinality(T) < max, Fits(S, f, ticks, max)
    PROVE  Fits(S \cup {r}, f, ticks, max)
<1> DEFINE t == f[r].at
<1>1. SUFFICES ASSUME NEW q \in S \cup {r}
               PROVE  Cardinality(Near(S \cup {r}, f, ticks, f[q].at)) <= max
  BY DEF Fits
<1>2. CASE f[q].at < t
  <2>1. q \in S /\ f[q].at \in Nat
    BY <1>2
  <2>2. Near(S \cup {r}, f, ticks, f[q].at) = Near(S, f, ticks, f[q].at)
    BY <1>2, <2>1 DEF Near
  <2> QED BY <2>1, <2>2 DEF Fits
<1>3. CASE ~(f[q].at < t)
  <2>1. f[q].at = t
    BY <1>3
  <2>2. Near(S \cup {r}, f, ticks, t) \subseteq T \cup {r}
    BY DEF Near
  <2>3. IsFiniteSet(T) /\ Cardinality(T) \in Nat
    BY RequestAssumption, FS_Subset, FS_CardinalityType
  <2>4. IsFiniteSet(T \cup {r}) /\ Cardinality(T \cup {r}) <= Cardinality(T) + 1
    BY <2>3, FS_AddElement
  <2>5. Cardinality(T \cup {r}) \in Nat
    BY <2>4, FS_CardinalityType
  <2> DEFINE N == Near(S \cup {r}, f, ticks, t)
  <2>6. IsFiniteSet(N) /\ Cardinality(N) <= Cardinality(T \cup {r})
    <3> HIDE DEF N
    <3> QED BY <2>2, <2>4, FS_Subset DEF N
  <2>7. Cardinality(N) \in Nat
    <3> HIDE DEF N
    <3> QED BY <2>6, FS_CardinalityType
  <2> HIDE DEF N
  <2>8. Cardinality(N) <= max
    BY <2>3, <2>4, <2>5, <2>6, <2>7
  <2> QED BY <2>1, <2>8 DEF N
<1> QED BY <1>2, <1>3

\* Stamps do not change: what fits goes on to fit.
LEMMA FitsIsKept ==
    ASSUME NEW S \in SUBSET Request, Kept, \A q \in S : req[q] # R!Idle,
           NEW ticks, NEW max, Fits(S, req, ticks, max)
    PROVE  Fits(S, req', ticks, max)
<1>1. \A q \in S : req'[q].at = req[q].at
  BY DEF Kept
<1>2. \A q \in S : Near(S, req', ticks, req'[q].at) = Near(S, req, ticks, req[q].at)
  BY <1>1 DEF Near
<1> QED BY <1>2 DEF Fits

Meters(S, x, f) == /\ Fits(S, f, Limit[x].short.ticks, Limit[x].short.max)
                   /\ Fits(S, f, Limit[x].long.ticks, Limit[x].long.max)

LEMMA MetersIsWithinLimits ==
    \A S, x : R!WithinLimits(S, x) <=> Meters(S, x, req)
  BY SameCount DEF R!WithinLimits, R!Spread, Meters, Fits, Near

LEMMA MetersIsWithinLimitsNext ==
    \A S, x : R!WithinLimits(S, x)' <=> Meters(S, x, req')
  BY SameCount DEF R!WithinLimits, R!Spread, Meters, Fits, Near

\* A verdict that lets a request through found room in both windows.
LEMMA VerdictFindsRoom ==
    ASSUME NEW S \in SUBSET Request, NEW x \in R!Route, NEW t,
           R!Verdict(S, x, t) = "ok"
    PROVE  /\ Cardinality(R!Within(R!Live(S, x, t), Limit[x].short.ticks, t))
                  < Limit[x].short.max
           /\ Cardinality(R!Live(S, x, t)) < Limit[x].long.max
<1> DEFINE W == R!Within(R!Live(S, x, t), Limit[x].short.ticks, t)
           L == R!Live(S, x, t)
<1>1. W \in SUBSET Request /\ L \in SUBSET Request
  BY LiveIsPart DEF R!Within
<1>2. R!Cardinality(W) < Limit[x].short.max /\ R!Cardinality(L) < Limit[x].long.max
  <2>1. ~(R!Cardinality(W) >= Limit[x].short.max)
        /\ ~(R!Cardinality(L) >= Limit[x].long.max)
    BY DEF R!Verdict
  <2>2. R!Cardinality(W) \in Nat /\ R!Cardinality(L) \in Nat
    <3> HIDE DEF W, L
    <3> QED BY <1>1, SameCount, RequestAssumption, FS_Subset, FS_CardinalityType
  <2> HIDE DEF W, L
  <2> QED BY <2>1, <2>2, LimitIsNat
<1> HIDE DEF W, L
<1> QED BY <1>2, SameCount DEF W, L

LEMMA OneMore ==
    ASSUME R!TypeOK, Kept, NEW S \in SUBSET Request, NEW r \in Request, NEW x \in R!Route,
           Meters(S, x, req), req'[r].at \in Nat,
           \A q \in S : req[q] # R!Idle /\ req[q].at <= req'[r].at,
           NEW L \in SUBSET Request, Cardinality(L) < Limit[x].long.max,
           \A q \in S : req[q].at + Limit[x].long.ticks > req'[r].at => q \in L,
           NEW W \in SUBSET Request, Cardinality(W) < Limit[x].short.max,
           \A q \in S : req[q].at + Limit[x].short.ticks > req'[r].at => q \in W
    PROVE  Meters(S \cup {r}, x, req')
<1>1. \A q \in S : req'[q].at = req[q].at /\ req[q].at \in Nat
  BY NotIdleIsTyped DEF Kept, RateRec
<1>2. /\ Fits(S, req', Limit[x].short.ticks, Limit[x].short.max)
      /\ Fits(S, req', Limit[x].long.ticks, Limit[x].long.max)
  BY FitsIsKept DEF Meters
<1>3. /\ Limit[x].short.ticks \in Nat /\ Limit[x].short.max \in Nat \ {0}
      /\ Limit[x].long.ticks \in Nat /\ Limit[x].long.max \in Nat \ {0}
  BY LimitIsNat
<1>4. Fits(S \cup {r}, req', Limit[x].short.ticks, Limit[x].short.max)
  BY <1>1, <1>2, <1>3, RoomForOne
<1>5. Fits(S \cup {r}, req', Limit[x].long.ticks, Limit[x].long.max)
  BY <1>1, <1>2, <1>3, RoomForOne
<1> QED BY <1>4, <1>5 DEF Meters

LEMMA MetersIsKept ==
    ASSUME NEW S \in SUBSET Request, Kept, \A q \in S : req[q] # R!Idle,
           NEW x, Meters(S, x, req)
    PROVE  Meters(S, x, req')
  BY FitsIsKept DEF Meters

LEMMA NothingMeters == \A x \in R!Route : \A f : Meters({}, x, f)
  BY DEF Meters, Fits

\* What the shard knows of a bucket since it last lost it: whoever stamped it
\* is still in it or out of its windows.
ShardRemembers ==
    \A k \in R!Key : \A q \in stamped["shard"][k] :
        /\ req[q] # R!Idle
        /\ q \in shard[k] \/ req[q].at + Limit[k[1]].long.ticks <= now

ShardMeters == \A k \in R!Key : Meters(stamped["shard"][k], k[1], req)

Shard == ShardRemembers /\ ShardMeters

LEMMA KeyIsRoute == \A k \in R!Key : k[1] \in R!Route
  BY DEF R!Key

LEMMA StampsTyped ==
    ASSUME R!TypeOK, NEW k \in R!Key
    PROVE  /\ stamped["shard"][k] \in SUBSET Request
           /\ shard[k] \in SUBSET Request
           /\ \A c \in Colo : /\ stamped[c][k] \in SUBSET Request
                              /\ cache[c][k] \in SUBSET Request
  BY DEF R!TypeOK, R!Place

\* A step that leaves the shard alone.
LEMMA ShardLeftAlone ==
    ASSUME R!TypeOK, Kept, Shard, shard' = shard, now' \in Nat, now <= now',
           stamped'["shard"] = stamped["shard"]
    PROVE  Shard'
<1>1. \A k \in R!Key : \A q \in stamped["shard"][k] :
         /\ q \in Request /\ req[q] # R!Idle /\ req[q].at \in Nat
         /\ req'[q] # R!Idle /\ req'[q].at = req[q].at
         /\ k[1] \in R!Route /\ Limit[k[1]].long.ticks \in Nat
  BY StampsTyped, NotIdleIsTyped, KeyIsRoute, LimitIsNat
     DEF Kept, RateRec, Shard, ShardRemembers
<1>2. now \in Nat
  BY DEF R!TypeOK
<1>3. ShardRemembers'
  BY <1>1, <1>2 DEF Shard, ShardRemembers
<1>4. ShardMeters'
  BY <1>1, StampsTyped, MetersIsKept DEF Shard, ShardMeters
<1> QED BY <1>3, <1>4 DEF Shard

LEMMA ShardDecides ==
    ASSUME R!TypeOK, Placed, Kept, Shard, NEW r \in Request, NEW i \in Identity,
           NEW s \in Scope, R!Decide(r, i, s)
    PROVE  Shard'
<1>0. now' = now /\ now \in Nat /\ req[r] = R!Idle
  BY DEF R!Decide, R!TypeOK
<1>1. PICK lost \in BOOLEAN, swept \in SUBSET {k \in R!Key : R!Expired(k)} :
         /\ req' = [req EXCEPT ![r] = [R!Arrived(i, s, "shard") EXCEPT
                       !.pc = IF lost THEN "degraded" ELSE R!Judged(i, s)]]
         /\ \/ /\ R!Judged(i, s) = "allowed"
               /\ shard' = [k \in R!Key |-> IF k \in Out(swept, i, s, r) THEN {}
                                           ELSE Full(swept, i, s, r)[k]]
               /\ stamped' = [stamped EXCEPT !["shard"] = [k \in R!Key |->
                     IF k \in Out(swept, i, s, r) THEN {}
                     ELSE IF k \in R!Buckets(i, s) THEN stamped["shard"][k] \cup {r}
                          ELSE stamped["shard"][k]]]
            \/ shard' = Rest(swept) /\ UNCHANGED stamped
  BY DecideSays
<1> DEFINE S(k) == stamped["shard"][k]
           T(k) == stamped'["shard"][k]
<1>2. req'[r].at = now /\ req'[r] # R!Idle
  <2>1. req'[r] = [R!Arrived(i, s, "shard") EXCEPT
                      !.pc = IF lost THEN "degraded" ELSE R!Judged(i, s)]
    BY <1>1 DEF R!TypeOK
  <2>2. R!Judged(i, s) \in Answers
    BY JudgedIsKnown
  <2> DEFINE p == IF lost THEN "degraded" ELSE R!Judged(i, s)
  <2>3. p \in Answers
    BY <2>2 DEF Answers
  <2> HIDE DEF p
  <2>4. [R!Arrived(i, s, "shard") EXCEPT !.pc = p].at = now
        /\ [R!Arrived(i, s, "shard") EXCEPT !.pc = p].pc = p
    BY DEF R!Arrived
  <2>5. req'[r].at = now /\ req'[r].pc = p
    BY <2>1, <2>4 DEF p
  <2> QED BY <2>3, <2>5, IdleIsClosed DEF Answers, R!Idle
<1>3. ASSUME NEW k \in R!Key
      PROVE  /\ k[1] \in R!Route /\ Limit[k[1]].long.ticks \in Nat
             /\ Limit[k[1]].short.ticks \in Nat
             /\ Limit[k[1]].short.ticks <= Limit[k[1]].long.ticks
             /\ S(k) \in SUBSET Request /\ shard[k] \in SUBSET Request
             /\ \A q \in S(k) : /\ req[q] # R!Idle /\ req[q].at \in Nat
                                /\ req[q].at <= now
                                /\ req'[q] # R!Idle /\ req'[q].at = req[q].at
                                /\ q \in R!Live(shard[k], k[1], now)
                                   \/ req[q].at + Limit[k[1]].long.ticks <= now
  <2>1. /\ k[1] \in R!Route /\ Limit[k[1]].long.ticks \in Nat
        /\ Limit[k[1]].short.ticks \in Nat
        /\ Limit[k[1]].short.ticks <= Limit[k[1]].long.ticks
    BY KeyIsRoute, LimitIsNat
  <2>2. S(k) \in SUBSET Request /\ shard[k] \in SUBSET Request
    BY StampsTyped
  <2>3. ASSUME NEW q \in S(k)
        PROVE  /\ req[q] # R!Idle /\ req[q].at \in Nat /\ req[q].at <= now
               /\ req'[q] # R!Idle /\ req'[q].at = req[q].at
    BY <2>2, NotIdleIsTyped DEF Shard, ShardRemembers, Kept, Placed, RateRec
  <2>4. ASSUME NEW q \in S(k)
        PROVE  \/ q \in R!Live(shard[k], k[1], now)
               \/ req[q].at + Limit[k[1]].long.ticks <= now
    BY <1>0, <2>1, <2>3 DEF Shard, ShardRemembers, R!Live, R!Within
  <2> QED BY <2>1, <2>2, <2>3, <2>4
<1>4. ASSUME NEW k \in R!Key
      PROVE  R!Live(Rest(swept)[k], k[1], now) = R!Live(shard[k], k[1], now)
  <2>1. CASE k \in swept
    <3>1. Rest(swept)[k] = {} /\ R!Live(shard[k], k[1], now) = {}
      BY <2>1 DEF Rest, R!Expired
    <3> QED BY <3>1 DEF R!Live, R!Within
  <2>2. CASE k \notin swept
    BY <2>2 DEF Rest
  <2> QED BY <2>1, <2>2
<1>5. \A k \in R!Key : R!Live(shard[k], k[1], now) \subseteq Rest(swept)[k]
  <2> TAKE k \in R!Key
  <2>1. Rest(swept)[k] \in SUBSET Request
    BY FullIsTyped
  <2>2. R!Live(Rest(swept)[k], k[1], now) \subseteq Rest(swept)[k]
    BY <2>1, LiveIsPart
  <2> QED BY <1>4, <2>2
\* A bucket that is not charged may be swept, and keeps its stamps otherwise.
<1>6. ASSUME NEW k \in R!Key, T(k) = S(k), shard'[k] = Rest(swept)[k]
      PROVE  /\ \A q \in T(k) : /\ req'[q] # R!Idle
                                /\ \/ q \in shard'[k]
                                   \/ req'[q].at + Limit[k[1]].long.ticks <= now'
             /\ Meters(T(k), k[1], req')
  <2>1. Meters(S(k), k[1], req')
    BY <1>3, MetersIsKept DEF Shard, ShardMeters
  <2>2. \A q \in T(k) : /\ req'[q] # R!Idle
                        /\ \/ q \in shard'[k]
                           \/ req'[q].at + Limit[k[1]].long.ticks <= now'
    <3> HIDE DEF S, T
    <3> QED BY <1>0, <1>3, <1>5, <1>6
  <2> HIDE DEF S, T
  <2> QED BY <1>6, <2>1, <2>2
<1>7. CASE shard' = Rest(swept) /\ UNCHANGED stamped
  <2>1. \A k \in R!Key : T(k) = S(k) /\ shard'[k] = Rest(swept)[k]
    BY <1>7
  <2> QED BY <1>6, <2>1 DEF Shard, ShardRemembers, ShardMeters
<1>8. CASE /\ R!Judged(i, s) = "allowed"
           /\ shard' = [k \in R!Key |-> IF k \in Out(swept, i, s, r) THEN {}
                                       ELSE Full(swept, i, s, r)[k]]
           /\ stamped' = [stamped EXCEPT !["shard"] = [k \in R!Key |->
                 IF k \in Out(swept, i, s, r) THEN {}
                 ELSE IF k \in R!Buckets(i, s) THEN stamped["shard"][k] \cup {r}
                      ELSE stamped["shard"][k]]]
  <2>1. "shard" \in R!Place
    BY DEF R!Place
  <2>2. ASSUME NEW k \in R!Key
        PROVE  /\ T(k) = IF k \in Out(swept, i, s, r) THEN {}
                         ELSE IF k \in R!Buckets(i, s) THEN S(k) \cup {r} ELSE S(k)
               /\ shard'[k] = IF k \in Out(swept, i, s, r) THEN {}
                              ELSE Full(swept, i, s, r)[k]
    BY <1>8, <2>1 DEF R!TypeOK
  <2>3. ASSUME NEW k \in R!Buckets(i, s)
        PROVE  R!Verdict(shard[k], k[1], now) = "ok"
    <3> DEFINE v == R!Verdict(shard[<<s, i>>], s, now)
               w == R!Verdict(shard[<<"global", i>>], "global", now)
    <3>1. v \in {"ok", "short", "long"}
      BY VerdictIsKnown
    <3>2. v = "ok" /\ w = "ok"
      <4>1. R!Judged(i, s) = IF v # "ok" THEN v ELSE IF w # "ok" THEN "envelope"
                             ELSE "allowed"
        BY DEF R!Judged
      <4> HIDE DEF v, w
      <4> QED BY <1>8, <3>1, <4>1
    <3>3. k = <<s, i>> \/ k = <<"global", i>>
      BY DEF R!Buckets
    <3>4. CASE k = <<s, i>>
      BY <3>2, <3>4
    <3>5. CASE k = <<"global", i>>
      BY <3>2, <3>5
    <3> QED BY <3>3, <3>4, <3>5
  <2>4. ASSUME NEW k \in R!Key
        PROVE  Full(swept, i, s, r)[k] =
                   IF k \in R!Buckets(i, s)
                   THEN R!Live(shard[k], k[1], now) \cup {r} ELSE Rest(swept)[k]
    BY <1>4 DEF Full, R!Charged
  <2>5. ASSUME NEW k \in R!Key
        PROVE  /\ \A q \in T(k) : /\ req'[q] # R!Idle
                                  /\ \/ q \in shard'[k]
                                     \/ req'[q].at + Limit[k[1]].long.ticks <= now'
               /\ Meters(T(k), k[1], req')
    <3>1. CASE k \in Out(swept, i, s, r)
      <4>1. T(k) = {}
        BY <2>2, <3>1
      <4> HIDE DEF T
      <4> QED BY <1>3, <4>1, NothingMeters
    <3>2. CASE k \notin Out(swept, i, s, r) /\ k \notin R!Buckets(i, s)
      BY <1>6, <2>2, <2>4, <3>2
    <3>3. CASE k \notin Out(swept, i, s, r) /\ k \in R!Buckets(i, s)
      <4> DEFINE L == R!Live(shard[k], k[1], now)
                 W == R!Within(L, Limit[k[1]].short.ticks, now)
      <4>1. T(k) = S(k) \cup {r} /\ shard'[k] = L \cup {r}
        BY <2>2, <2>4, <3>3
      <4>2. L \in SUBSET Request /\ W \in SUBSET Request
        BY <1>3, LiveIsPart DEF R!Within
      <4>3. Cardinality(W) < Limit[k[1]].short.max /\ Cardinality(L) < Limit[k[1]].long.max
        BY <1>3, <2>3, <3>3, VerdictFindsRoom
      <4>4. \A q \in S(k) : req[q].at + Limit[k[1]].long.ticks > now => q \in L
        <5> HIDE DEF L, S
        <5> QED BY <1>0, <1>3 DEF L
      <4>5. \A q \in S(k) : req[q].at + Limit[k[1]].short.ticks > now => q \in W
        <5>1. \A q \in S(k) : req[q].at + Limit[k[1]].short.ticks > now => q \in L
          <6> HIDE DEF L, S
          <6> QED BY <1>0, <1>3, <4>4
        <5> QED BY <5>1 DEF R!Within
      <4>6. Meters(S(k), k[1], req)
        BY DEF Shard, ShardMeters
      <4> HIDE DEF L, W, S, T
      <4>7. Meters(S(k) \cup {r}, k[1], req')
        BY <1>0, <1>2, <1>3, <4>2, <4>3, <4>4, <4>5, <4>6, OneMore
      <4> QED BY <1>0, <1>2, <1>3, <4>1, <4>4, <4>7
    <3> QED BY <3>1, <3>2, <3>3
  <2> QED BY <2>5 DEF Shard, ShardRemembers, ShardMeters
<1> QED BY <1>1, <1>7, <1>8

LEMMA ShardNext ==
    ASSUME R!TypeOK, Placed, R!TypeOK', Kept, Shard, R!Next
    PROVE  Shard'
<1>0. now \in Nat /\ now' \in Nat
  BY DEF R!TypeOK
<1>1. ASSUME shard' = shard, now <= now', stamped'["shard"] = stamped["shard"]
      PROVE  Shard'
  BY <1>0, <1>1, ShardLeftAlone
<1>2. ASSUME NEW r \in Request, NEW i \in Identity, NEW s \in Scope,
             (\E c \in Colo : R!Begin(r, i, s, c)) \/ R!Unreached(r, i, s)
      PROVE  Shard'
  BY <1>0, <1>1, <1>2 DEF R!Begin, R!Unreached
<1>3. ASSUME NEW r \in Request, R!ReadScope(r) \/ R!ReadGlobal(r) \/ R!ReadFails(r)
      PROVE  Shard'
  BY <1>0, <1>1, <1>3 DEF R!ReadScope, R!ReadGlobal, R!ReadFails
<1>4. ASSUME NEW r \in Request, NEW x \in R!Route, R!Write(r, x)
      PROVE  Shard'
  <2>1. req[r].colo \in Colo /\ req[r].colo # "shard"
    BY <1>4, OpenIsTyped, LimitAssumption DEF R!Write, R!Open
  <2>2. stamped'["shard"] = stamped["shard"]
    BY <1>4, <2>1 DEF R!Write, R!TypeOK, R!Place
  <2> QED BY <1>0, <1>1, <1>4, <2>2 DEF R!Write
<1>5. ASSUME NEW c \in Colo, NEW k \in R!Key, R!Lose(c, k)
      PROVE  Shard'
  <2>1. stamped'["shard"] = stamped["shard"]
    BY <1>5, LimitAssumption DEF R!Lose, R!TypeOK, R!Place
  <2> QED BY <1>0, <1>1, <1>5, <2>1 DEF R!Lose
<1>6. ASSUME R!Hibernate
      PROVE  Shard'
  <2>1. stamped'["shard"] = [k \in R!Key |-> {}]
    BY <1>6 DEF R!Hibernate, R!TypeOK, R!Place
  <2> QED BY <2>1, NothingMeters, KeyIsRoute DEF Shard, ShardRemembers, ShardMeters
<1>7. ASSUME R!Tick
      PROVE  Shard'
  BY <1>0, <1>1, <1>7 DEF R!Tick
<1> QED BY <1>2, <1>3, <1>4, <1>5, <1>6, <1>7, ShardDecides DEF R!Next

-----------------------------------------------------------------------------
Clean(i, c) == ~\E r \in overlap : req[r].id = i /\ req[r].colo = c

Here(r, i, c) == req[r].pc \in R!Open /\ req[r].id = i /\ req[r].colo = c

\* Two requests of an identity that are open in a colo have met.
OverlapsSeen ==
    /\ \A r \in overlap : req[r] # R!Idle
    /\ \A r, q \in Request : \A i \in Identity, c \in Colo :
          r # q /\ Here(r, i, c) /\ Here(q, i, c) => r \in overlap

\* Who stamped an entry is in it, or out of the windows of whoever looks at it.
Remembers(c, k) ==
    Clean(k[2], c) =>
        \A q \in stamped[c][k] :
            /\ q \in cache[c][k] \/ req[q].at + Limit[k[1]].long.ticks <= now
            /\ \A r \in Request : Here(r, k[2], c) =>
                  /\ req[q].at <= req[r].at
                  /\ q \in cache[c][k]
                     \/ req[q].at + Limit[k[1]].long.ticks <= req[r].at

\* The buckets a request has read and not yet written.
Pending(r) == IF req[r].pc = "global" THEN {req[r].scope}
              ELSE IF req[r].pc = "writing" THEN req[r].todo ELSE {}

\* What it read is what its write needs: all the stamps in its windows, and
\* room in each for one more.
Informed(r, x) ==
    LET S == stamped[req[r].colo][<<x, req[r].id>>] IN
    /\ Cardinality(req[r].seen[x]) < Limit[x].long.max
    /\ \A q \in S : req[q].at + Limit[x].long.ticks > req[r].at
                        => q \in req[r].seen[x]
    /\ \E W \in SUBSET Request :
          /\ Cardinality(W) < Limit[x].short.max
          /\ \A q \in S : req[q].at + Limit[x].short.ticks > req[r].at => q \in W

Knows(r) == Clean(req[r].id, req[r].colo) => \A x \in Pending(r) : Informed(r, x)

MetersIfClean(c, k) == Clean(k[2], c) => Meters(stamped[c][k], k[1], req)

Caches ==
    /\ OverlapsSeen
    /\ \A c \in Colo, k \in R!Key :
          /\ \A q \in stamped[c][k] : req[q] # R!Idle
          /\ Remembers(c, k)
          /\ MetersIfClean(c, k)
    /\ \A r \in Request : Knows(r)

LEMMA CleanBefore ==
    ASSUME R!TypeOK, OverlapsSeen, Kept, overlap \subseteq overlap', NEW i, NEW c, Clean(i, c)'
    PROVE  Clean(i, c)
  BY DEF Clean, OverlapsSeen, Kept, R!TypeOK

LEMMA StampedIsTyped ==
    ASSUME R!TypeOK, Placed, Caches, Kept, NEW c \in Colo, NEW k \in R!Key
    PROVE  /\ stamped[c][k] \in SUBSET Request
           /\ k[1] \in R!Route /\ Limit[k[1]].long.ticks \in Nat
           /\ Limit[k[1]].short.ticks \in Nat
           /\ Limit[k[1]].short.ticks <= Limit[k[1]].long.ticks
           /\ \A q \in stamped[c][k] :
                 /\ req[q] # R!Idle /\ req[q].at \in Nat /\ req[q].at <= now
                 /\ req'[q] # R!Idle /\ req'[q].at = req[q].at
  BY StampsTyped, NotIdleIsTyped, KeyIsRoute, LimitIsNat
     DEF Caches, Kept, Placed, RateRec

\* An entry that nobody stamped.
LEMMA EntryLeftAlone ==
    ASSUME R!TypeOK, Placed, Caches, Kept, overlap \subseteq overlap', now' \in Nat,
           now <= now', NEW c \in Colo, NEW k \in R!Key,
           \/ stamped'[c][k] = stamped[c][k] /\ cache'[c][k] = cache[c][k]
           \/ stamped'[c][k] = {},
           \A r \in Request : Here(r, k[2], c)' =>
               \/ Here(r, k[2], c)
               \/ req'[r].at = now
    PROVE  /\ \A q \in stamped'[c][k] : req'[q] # R!Idle
           /\ Remembers(c, k)' /\ MetersIfClean(c, k)'
<1>1. CASE stamped'[c][k] = {}
  <2>1. Remembers(c, k)'
    BY <1>1 DEF Remembers
  <2>2. MetersIfClean(c, k)'
    BY <1>1, NothingMeters, KeyIsRoute DEF MetersIfClean
  <2> QED BY <1>1, <2>1, <2>2
<1>2. CASE stamped'[c][k] = stamped[c][k] /\ cache'[c][k] = cache[c][k]
  <2>1. \A q \in stamped'[c][k] : req'[q] # R!Idle
    BY <1>2, StampedIsTyped
  <2>2. ASSUME Clean(k[2], c)', NEW q \in stamped[c][k]
        PROVE  /\ q \in cache[c][k] \/ req[q].at + Limit[k[1]].long.ticks <= now'
               /\ \A r \in Request : Here(r, k[2], c)' =>
                     /\ req[q].at <= req'[r].at
                     /\ q \in cache[c][k]
                        \/ req[q].at + Limit[k[1]].long.ticks <= req'[r].at
    <3>1. Clean(k[2], c)
      BY <2>2, CleanBefore DEF Caches
    <3>2. /\ q \in cache[c][k] \/ req[q].at + Limit[k[1]].long.ticks <= now
          /\ \A r \in Request : Here(r, k[2], c) =>
                     /\ req[q].at <= req[r].at
                     /\ q \in cache[c][k]
                        \/ req[q].at + Limit[k[1]].long.ticks <= req[r].at
      BY <2>2, <3>1 DEF Caches, Remembers
    <3>3. /\ req[q].at \in Nat /\ req[q].at <= now
          /\ Limit[k[1]].long.ticks \in Nat /\ now \in Nat
      BY <2>2, StampedIsTyped DEF R!TypeOK
    <3>4. q \in cache[c][k] \/ req[q].at + Limit[k[1]].long.ticks <= now'
      BY <3>2, <3>3
    <3>5. ASSUME NEW r \in Request, Here(r, k[2], c)'
          PROVE  /\ req[q].at <= req'[r].at
                 /\ q \in cache[c][k]
                    \/ req[q].at + Limit[k[1]].long.ticks <= req'[r].at
      <4>1. CASE Here(r, k[2], c)
        <5>1. req'[r].at = req[r].at
          BY <4>1, OpenIsTyped DEF Here, Kept
        <5> QED BY <3>2, <4>1, <5>1
      <4>2. CASE req'[r].at = now
        BY <3>2, <3>3, <4>2
      <4> QED BY <3>5, <4>1, <4>2
    <3> QED BY <3>4, <3>5
  <2>3. Remembers(c, k)'
    <3> SUFFICES ASSUME Clean(k[2], c)', NEW q \in stamped'[c][k]
                 PROVE  /\ q \in cache'[c][k]
                            \/ req'[q].at + Limit[k[1]].long.ticks <= now'
                        /\ \A r \in Request : Here(r, k[2], c)' =>
                              /\ req'[q].at <= req'[r].at
                              /\ q \in cache'[c][k]
                                 \/ req'[q].at + Limit[k[1]].long.ticks <= req'[r].at
      BY DEF Remembers
    <3>1. q \in stamped[c][k] /\ req'[q].at = req[q].at
      BY <1>2, StampedIsTyped
    <3> QED BY <1>2, <2>2, <3>1
  <2>4. MetersIfClean(c, k)'
    <3> SUFFICES ASSUME Clean(k[2], c)'
                 PROVE  Meters(stamped'[c][k], k[1], req')
      BY DEF MetersIfClean
    <3>1. Meters(stamped[c][k], k[1], req)
      BY CleanBefore DEF Caches, MetersIfClean
    <3> QED BY <1>2, <3>1, StampedIsTyped, MetersIsKept
  <2> QED BY <2>1, <2>3, <2>4
<1> QED BY <1>1, <1>2

\* A request that does nothing, while nobody stamps what it has read.
LEMMA RequestLeftAlone ==
    ASSUME R!TypeOK, Placed, Caches, Kept, overlap \subseteq overlap', NEW r \in Request,
           req'[r] = req[r], req[r].pc \in R!Open,
           Clean(req[r].id, req[r].colo)' => \A x \in Pending(r) :
               \/ stamped'[req[r].colo][<<x, req[r].id>>]
                      = stamped[req[r].colo][<<x, req[r].id>>]
               \/ stamped'[req[r].colo][<<x, req[r].id>>] = {}
    PROVE  Knows(r)'
<1> SUFFICES ASSUME Clean(req[r].id, req[r].colo)', NEW x \in Pending(r)
             PROVE  Informed(r, x)'
  BY DEF Knows, Pending
<1> DEFINE c == req[r].colo
           k == <<x, req[r].id>>
<1>1. req[r] \in RateRec /\ c \in Colo
  BY OpenIsTyped
<1>2. x \in R!Route /\ k \in R!Key
  BY <1>1 DEF Pending, RateRec, R!Key, R!Route
<1>3. Informed(r, x)
  BY CleanBefore DEF Caches, Knows
<1>4. \A q \in stamped[c][k] : req'[q].at = req[q].at
  BY <1>1, <1>2, StampedIsTyped
<1>5. stamped'[c][k] = stamped[c][k] \/ stamped'[c][k] = {}
  OBVIOUS
<1> QED BY <1>3, <1>4, <1>5 DEF Informed

LEMMA NothingPending ==
    ASSUME NEW r, req[r].pc \notin {"global", "writing"}
    PROVE  Knows(r)
  BY DEF Knows, Pending

LEMMA NothingPendingNext ==
    ASSUME NEW r, req'[r].pc \notin {"global", "writing"}
    PROVE  Knows(r)'
  BY DEF Knows, Pending

LEMMA RequestsLeftAlone ==
    ASSUME R!TypeOK, Placed, Caches, Kept, overlap \subseteq overlap', NEW r \in Request,
           req'[r] = req[r],
           \A c \in Colo, k \in R!Key : stamped'[c][k] = stamped[c][k]
                                        \/ stamped'[c][k] = {}
    PROVE  Knows(r)'
<1>1. CASE req[r].pc \in {"global", "writing"}
  <2>1. req[r].pc \in R!Open
    BY <1>1 DEF R!Open
  <2>2. req[r] \in RateRec /\ req[r].colo \in Colo
    BY <2>1, OpenIsTyped
  <2>3. \A x \in Pending(r) : <<x, req[r].id>> \in R!Key
    BY <1>1, <2>2 DEF Pending, RateRec, R!Key, R!Route
  <2>4. \A x \in Pending(r) :
           \/ stamped'[req[r].colo][<<x, req[r].id>>]
                      = stamped[req[r].colo][<<x, req[r].id>>]
           \/ stamped'[req[r].colo][<<x, req[r].id>>] = {}
    BY <2>2, <2>3
  <2> QED BY <2>1, <2>4, RequestLeftAlone
<1>2. CASE req[r].pc \notin {"global", "writing"}
  BY <1>2, NothingPendingNext
<1> QED BY <1>1, <1>2

LEMMA QuietStep ==
    ASSUME R!TypeOK, Placed, Caches, Kept, overlap' = overlap, now' \in Nat, now <= now',
           \A c \in Colo, k \in R!Key :
               \/ stamped'[c][k] = stamped[c][k] /\ cache'[c][k] = cache[c][k]
               \/ stamped'[c][k] = {},
           \A r \in Request : \A i, c : Here(r, i, c)' => Here(r, i, c),
           \A r \in Request : req'[r] = req[r] \/ Knows(r)'
    PROVE  Caches'
<1>1. OverlapsSeen'
  BY DEF Caches, OverlapsSeen, Kept, R!TypeOK
<1>2. ASSUME NEW c \in Colo, NEW k \in R!Key
      PROVE  /\ \A q \in stamped'[c][k] : req'[q] # R!Idle
             /\ Remembers(c, k)' /\ MetersIfClean(c, k)'
  BY EntryLeftAlone
<1>3. ASSUME NEW r \in Request
      PROVE  Knows(r)'
  BY RequestsLeftAlone
<1> QED BY <1>1, <1>2, <1>3 DEF Caches

\* Whoever was met on arrival overlaps, and so does the one that arrives.
LEMMA CachesBegin ==
    ASSUME R!TypeOK, Placed, Caches, Kept, NEW r \in Request, NEW i \in Identity,
           NEW s \in Scope, NEW c \in Colo, R!Begin(r, i, s, c)
    PROVE  Caches'
<1>1. /\ req[r] = R!Idle /\ req' = [req EXCEPT ![r] = R!Arrived(i, s, c)]
      /\ overlap' = IF R!Meets(r, i, c) = {} THEN overlap
                    ELSE overlap \cup R!Meets(r, i, c) \cup {r}
      /\ UNCHANGED <<now, cache, stamped>>
  BY DEF R!Begin
<1>2. /\ \A q \in Request : q # r => req'[q] = req[q]
      /\ req'[r].pc = "scope" /\ req'[r].id = i /\ req'[r].colo = c /\ req'[r].at = now
  BY <1>1 DEF R!TypeOK, R!Arrived
<1>3. overlap \subseteq overlap'
  BY <1>1
<1>4. req'[r] # R!Idle
  BY <1>2, IdleIsClosed DEF R!Idle
<1>5. \A q \in R!Meets(r, i, c) : q \in Request /\ req[q] # R!Idle
  BY OpenIsTyped DEF R!Meets
<1>6. \A q \in overlap' : req'[q] # R!Idle
  BY <1>1, <1>4, <1>5 DEF Caches, OverlapsSeen, Kept, R!TypeOK
<1>7. \A q \in Request : \A j \in Identity, d \in Colo :
          q # r /\ Here(q, j, d)' => Here(q, j, d)
  BY <1>2 DEF Here
<1>8. \A q \in Request : q # r /\ Here(q, i, c) => q \in R!Meets(r, i, c)
  BY DEF Here, R!Meets
<1>9. ASSUME NEW p \in Request, NEW q \in Request, NEW j \in Identity, NEW d \in Colo,
             p # q, Here(p, j, d)', Here(q, j, d)'
      PROVE  p \in overlap'
  <2>1. CASE p # r /\ q # r
    <3>1. Here(p, j, d) /\ Here(q, j, d)
      BY <1>7, <1>9, <2>1
    <3> QED BY <1>3, <1>9, <3>1 DEF Caches, OverlapsSeen
  <2>2. CASE p = r \/ q = r
    <3>1. j = i /\ d = c
      BY <1>2, <1>9, <2>2 DEF Here
    <3>2. R!Meets(r, i, c) # {} /\ (p # r => p \in R!Meets(r, i, c))
      BY <1>7, <1>8, <1>9, <2>2, <3>1
    <3> QED BY <1>1, <3>2
  <2> QED BY <2>1, <2>2
<1>10. OverlapsSeen'
  <2>1. \A p, q \in Request : \A j \in Identity, d \in Colo :
          (p # q /\ Here(p, j, d) /\ Here(q, j, d) => p \in overlap)'
    BY <1>9
  <2> QED BY <1>6, <2>1 DEF OverlapsSeen
<1>11. now \in Nat /\ now' = now /\ now <= now'
  BY <1>1 DEF R!TypeOK
<1>12. ASSUME NEW d \in Colo, NEW k \in R!Key
       PROVE  /\ \A q \in stamped'[d][k] : req'[q] # R!Idle
              /\ Remembers(d, k)' /\ MetersIfClean(d, k)'
  <2>1. \A q \in Request : Here(q, k[2], d)' => Here(q, k[2], d) \/ req'[q].at = now
    BY <1>2 DEF Here
  <2>2. stamped'[d][k] = stamped[d][k] /\ cache'[d][k] = cache[d][k]
    BY <1>1
  <2> QED BY <1>3, <1>11, <2>1, <2>2, EntryLeftAlone
<1>13. ASSUME NEW q \in Request
       PROVE  Knows(q)'
  <2>1. CASE q = r
    BY <1>2, <2>1, NothingPendingNext
  <2>2. CASE q # r
    BY <1>1, <1>2, <1>3, <2>2, RequestsLeftAlone
  <2> QED BY <2>1, <2>2
<1> QED BY <1>10, <1>12, <1>13 DEF Caches

LEMMA TurnsIs ==
    ASSUME R!TypeOK, NEW r \in Request, NEW p, NEW S, NEW T, Turns(r, p, S, T)
    PROVE  /\ \A q \in Request : q # r => req'[q] = req[q]
           /\ req'[r].pc = p /\ req'[r].seen = S /\ req'[r].todo = T
           /\ req'[r].at = req[r].at /\ req'[r].id = req[r].id
           /\ req'[r].colo = req[r].colo /\ req'[r].scope = req[r].scope
  BY DEF Turns, R!TypeOK

LEMMA HereBefore ==
    ASSUME R!TypeOK, NEW r \in Request, NEW p, NEW S, NEW T, Turns(r, p, S, T),
           req[r].pc \in R!Open
    PROVE  \A q \in Request : \A i, c : Here(q, i, c)' => Here(q, i, c)
<1> TAKE q \in Request
<1> TAKE i, c
<1>1. CASE q = r
  BY <1>1, TurnsIs DEF Here
<1>2. CASE q # r
  BY <1>2, TurnsIs DEF Here
<1> QED BY <1>1, <1>2

\* What a request reads with a verdict of "ok" is what its write needs.
LEMMA ReadInforms ==
    ASSUME R!TypeOK, Placed, Caches, NEW r \in Request, req[r].pc \in R!Open,
           NEW x \in R!Route, Says(r, x) = "ok", Clean(req[r].id, req[r].colo)
    PROVE  LET S == stamped[req[r].colo][<<x, req[r].id>>] IN
           /\ Cardinality(LiveAt(r, x)) < Limit[x].long.max
           /\ \A q \in S : req[q].at + Limit[x].long.ticks > req[r].at
                              => q \in LiveAt(r, x)
           /\ \E W \in SUBSET Request :
                 /\ Cardinality(W) < Limit[x].short.max
                 /\ \A q \in S : req[q].at + Limit[x].short.ticks > req[r].at => q \in W
<1> DEFINE c == req[r].colo
           k == <<x, req[r].id>>
           S == stamped[c][k]
           L == LiveAt(r, x)
           W == R!Within(L, Limit[x].short.ticks, req[r].at)
<1>1. req[r] \in RateRec /\ c \in Colo
  BY OpenIsTyped
<1>2. k \in R!Key /\ k[1] = x /\ k[2] = req[r].id
  BY <1>1 DEF RateRec, R!Key
<1>3. Entry(r, x) = cache[c][k] /\ Entry(r, x) \in SUBSET Request
  BY <1>1, EntryIsTyped DEF Entry
<1>4. L \in SUBSET Request /\ W \in SUBSET Request
  BY <1>1, EntryIsTyped DEF R!Within
<1>5. Cardinality(W) < Limit[x].short.max /\ Cardinality(L) < Limit[x].long.max
  BY <1>3, VerdictFindsRoom DEF Says, LiveAt
<1>6. S \in SUBSET Request /\ \A q \in S : req[q].at \in Nat
  BY <1>1, <1>2, StampsTyped, NotIdleIsTyped DEF Caches, RateRec
<1>7. /\ Limit[x].long.ticks \in Nat /\ Limit[x].short.ticks \in Nat
      /\ Limit[x].short.ticks <= Limit[x].long.ticks /\ req[r].at \in Nat
  BY <1>1, LimitIsNat DEF RateRec
<1>8. ASSUME NEW q \in S, req[q].at + Limit[x].long.ticks > req[r].at
      PROVE  q \in L
  <2>1. Here(r, k[2], c)
    BY <1>2 DEF Here
  <2>2. q \in cache[c][k] \/ req[q].at + Limit[x].long.ticks <= req[r].at
    <3>1. Remembers(c, k) /\ Clean(k[2], c)
      BY <1>1, <1>2 DEF Caches
    <3> HIDE DEF k, c
    <3> QED BY <1>2, <1>8, <2>1, <3>1 DEF Remembers
  <2>3. q \in cache[c][k]
    BY <1>6, <1>7, <1>8, <2>2
  <2> QED BY <1>3, <1>8, <2>3 DEF LiveAt, R!Live, R!Within
<1>9. ASSUME NEW q \in S, req[q].at + Limit[x].short.ticks > req[r].at
      PROVE  q \in W
  <2>1. q \in L
    BY <1>6, <1>7, <1>8, <1>9
  <2> QED BY <1>9, <2>1 DEF R!Within
<1> HIDE DEF L, W, S
<1>10. \E V \in SUBSET Request :
          /\ Cardinality(V) < Limit[x].short.max
          /\ \A q \in S : req[q].at + Limit[x].short.ticks > req[r].at => q \in V
  BY <1>4, <1>5, <1>9
<1> QED BY <1>5, <1>8, <1>10 DEF L, S

\* What L knows of the stamps S, for a bucket x read at t.
Tells(L, S, x, t) ==
    /\ Cardinality(L) < Limit[x].long.max
    /\ \A q \in S : req[q].at + Limit[x].long.ticks > t => q \in L
    /\ \E W \in SUBSET Request :
          /\ Cardinality(W) < Limit[x].short.max
          /\ \A q \in S : req[q].at + Limit[x].short.ticks > t => q \in W

LEMMA InformedIsTold ==
    ASSUME NEW r, NEW x
    PROVE  Informed(r, x) <=> Tells(req[r].seen[x],
                stamped[req[r].colo][<<x, req[r].id>>], x, req[r].at)
  BY DEF Informed, Tells

LEMMA InformedNext ==
    ASSUME R!TypeOK, Placed, Caches, Kept, NEW r \in Request, req[r].pc \in R!Open,
           NEW x \in R!Route, NEW L,
           Tells(L, stamped[req[r].colo][<<x, req[r].id>>], x, req[r].at),
           req'[r].seen[x] = L,
           stamped'[req[r].colo][<<x, req[r].id>>]
               = stamped[req[r].colo][<<x, req[r].id>>]
    PROVE  Informed(r, x)'
<1> DEFINE c == req[r].colo
           k == <<x, req[r].id>>
<1>1. c \in Colo /\ k \in R!Key
  BY OpenIsTyped DEF RateRec, R!Key
<1>2. req'[r].at = req[r].at /\ req'[r].colo = c /\ req'[r].id = req[r].id
  BY OpenIsTyped DEF Kept
<1>3. \A q \in stamped[c][k] : req'[q].at = req[q].at
  BY <1>1, StampedIsTyped
<1> QED BY <1>2, <1>3 DEF Informed, Tells

LEMMA CachesRead ==
    ASSUME R!TypeOK, Placed, R!TypeOK', Caches, Kept, NEW r \in Request,
           R!ReadScope(r) \/ R!ReadGlobal(r) \/ R!ReadFails(r)
    PROVE  Caches'
<1>1. req[r].pc \in R!Open /\ UNCHANGED <<now, cache, stamped, overlap>>
  BY DEF R!ReadScope, R!ReadGlobal, R!ReadFails, R!Open
<1>2. req[r] \in RateRec /\ req[r].colo \in Colo /\ now \in Nat
  BY <1>1, OpenIsTyped DEF R!TypeOK
<1>0. PICK s \in Scope, i \in Identity, c \in Colo :
          s = req[r].scope /\ i = req[r].id /\ c = req[r].colo
  BY <1>2 DEF RateRec
<1> DEFINE S(x) == stamped[c][<<x, i>>]
<1>3. s \in R!Route /\ "global" \in R!Route /\ s # "global"
      /\ req[r].seen \in [R!Route -> SUBSET Request]
  BY <1>0, <1>2, LimitAssumption DEF RateRec, R!Route
<1>4. Clean(i, c)' => Clean(i, c)
  BY <1>1, CleanBefore DEF Caches
<1>5. ASSUME NEW p, NEW L, NEW T, Turns(r, p, L, T), Knows(r)'
      PROVE  Caches'
  <2>1. \A q \in Request : \A j, d : Here(q, j, d)' => Here(q, j, d)
    BY <1>1, <1>5, HereBefore
  <2>2. \A q \in Request : req'[q] = req[q] \/ Knows(q)'
    BY <1>5, TurnsIs
  <2> QED BY <1>1, <1>2, <2>1, <2>2, QuietStep
<1>6. ASSUME R!ReadScope(r), Says(r, s) = "ok"
      PROVE  Caches'
  <2> DEFINE L == [req[r].seen EXCEPT ![s] = LiveAt(r, s)]
  <2>1. Turns(r, "global", L, req[r].todo)
    BY <1>0, <1>2, <1>6, ReadScopeTurns
  <2>2. req'[r].pc = "global" /\ req'[r].seen[s] = LiveAt(r, s) /\ req'[r].scope = s
        /\ req'[r].id = i /\ req'[r].colo = c
    BY <1>0, <1>3, <2>1, TurnsIs
  <2>3. ASSUME Clean(i, c)'
        PROVE  Informed(r, s)'
    <3>1. Tells(LiveAt(r, s), S(s), s, req[r].at)
      BY <1>0, <1>1, <1>3, <1>4, <1>6, <2>3, ReadInforms DEF Tells
    <3> QED BY <1>0, <1>1, <1>3, <2>2, <3>1, InformedNext
  <2>4. Knows(r)'
    BY <2>2, <2>3 DEF Knows, Pending
  <2> QED BY <1>5, <2>1, <2>4
<1>7. ASSUME R!ReadScope(r), Says(r, s) # "ok"
      PROVE  Caches'
  <2>1. Turns(r, Says(r, s), req[r].seen, req[r].todo)
    BY <1>0, <1>2, <1>7, ReadScopeTurns
  <2>2. Says(r, s) \notin {"global", "writing"}
    BY VerdictIsKnown DEF Says
  <2>3. Knows(r)'
    BY <2>1, <2>2, TurnsIs, NothingPendingNext
  <2> QED BY <1>5, <2>1, <2>3
<1>8. ASSUME R!ReadGlobal(r), Says(r, "global") = "ok"
      PROVE  Caches'
  <2> DEFINE L == [req[r].seen EXCEPT !["global"] = LiveAt(r, "global")]
  <2>1. Turns(r, "writing", L, {s, "global"})
    BY <1>0, <1>2, <1>8, ReadGlobalTurns
  <2>2. /\ req'[r].pc = "writing" /\ req'[r].todo = {s, "global"}
        /\ req'[r].seen["global"] = LiveAt(r, "global")
        /\ req'[r].seen[s] = req[r].seen[s]
        /\ req'[r].id = i /\ req'[r].colo = c
    BY <1>0, <1>3, <2>1, TurnsIs
  <2>3. ASSUME Clean(i, c)'
        PROVE  Informed(r, "global")' /\ Informed(r, s)'
    <3>1. Tells(LiveAt(r, "global"), S("global"), "global", req[r].at)
      BY <1>0, <1>1, <1>3, <1>4, <1>8, <2>3, ReadInforms DEF Tells
    <3>2. Informed(r, s)
      BY <1>0, <1>4, <1>8, <2>3 DEF Caches, Knows, Pending, R!ReadGlobal
    <3>3. Tells(req[r].seen[s], S(s), s, req[r].at)
      BY <1>0, <3>2, InformedIsTold
    <3> QED BY <1>0, <1>1, <1>3, <2>2, <3>1, <3>3, InformedNext
  <2>4. Knows(r)'
    BY <2>2, <2>3 DEF Knows, Pending
  <2> QED BY <1>5, <2>1, <2>4
<1>9. ASSUME R!ReadGlobal(r), Says(r, "global") # "ok"
      PROVE  Caches'
  <2>1. Turns(r, "envelope", [x \in R!Route |-> {}], {})
    BY <1>2, <1>9, ReadGlobalTurns
  <2>2. Knows(r)'
    BY <2>1, TurnsIs, NothingPendingNext
  <2> QED BY <1>5, <2>1, <2>2
<1>10. ASSUME R!ReadFails(r)
       PROVE  Caches'
  <2>1. Turns(r, "degraded", [x \in R!Route |-> {}], req[r].todo)
    BY <1>2, <1>10, ReadFailsTurns
  <2>2. Knows(r)'
    BY <2>1, TurnsIs, NothingPendingNext
  <2> QED BY <1>5, <2>1, <2>2
<1> QED BY <1>6, <1>7, <1>8, <1>9, <1>10

LEMMA CachesWrite ==
    ASSUME R!TypeOK, Placed, R!TypeOK', Caches, Kept, NEW r \in Request,
           NEW x \in R!Route, R!Write(r, x)
    PROVE  Caches'
<1>0. req[r].pc \in R!Open /\ req[r] \in RateRec /\ req[r].colo \in Colo
  BY OpenIsTyped DEF R!Write, R!Open
<1> PICK i \in Identity, c \in Colo : i = req[r].id /\ c = req[r].colo
  BY <1>0 DEF RateRec
<1> DEFINE k == <<x, i>>
<1>1. /\ req[r].pc = "writing" /\ x \in req[r].todo
      /\ UNCHANGED <<now, overlap>>
      /\ \/ /\ cache' = [cache EXCEPT ![c][k] = R!Grown(req[r].seen[x], r)]
            /\ stamped' = [stamped EXCEPT ![c][k] = stamped[c][k] \cup {r}]
         \/ UNCHANGED <<cache, stamped>>
  BY DEF R!Write
<1>2. req[r].pc \in R!Open /\ req[r] \in RateRec /\ c \in Colo /\ now \in Nat
  BY <1>1, OpenIsTyped DEF R!TypeOK, R!Open
<1>3. k \in R!Key /\ k[1] = x /\ k[2] = i /\ i \in Identity
      /\ req[r].seen \in [R!Route -> SUBSET Request]
  BY <1>2 DEF RateRec, R!Key
<1>4. PICK p \in {"writing", "allowed", "degraded"} :
          /\ Turns(r, p, [req[r].seen EXCEPT ![x] = {}], req[r].todo \ {x})
          /\ p = "writing" <=> req[r].todo # {x}
  BY <1>2, WriteTurns
<1>5. /\ \A q \in Request : q # r => req'[q] = req[q]
      /\ req'[r].pc = p /\ req'[r].todo = req[r].todo \ {x}
      /\ req'[r].seen = [req[r].seen EXCEPT ![x] = {}]
      /\ req'[r].at = req[r].at /\ req'[r].id = i /\ req'[r].colo = c
  BY <1>4, TurnsIs
<1>6. \A q \in Request : \A j, d : Here(q, j, d)' => Here(q, j, d)
  BY <1>2, <1>4, HereBefore
<1>7. \A j, d : Clean(j, d)' => Clean(j, d)
  BY <1>1, CleanBefore DEF Caches
<1> HIDE DEF k
\* The other bucket of the request.
<1>8. ASSUME \A y \in Pending(r) : y # x =>
                  stamped'[c][<<y, i>>] = stamped[c][<<y, i>>]
      PROVE  Knows(r)'
  <2>1. SUFFICES ASSUME Clean(i, c)', NEW y \in Pending(r)'
                 PROVE  Informed(r, y)'
    BY <1>5 DEF Knows
  <2>2. y \in req[r].todo /\ y # x /\ y \in Pending(r) /\ y \in R!Route
    BY <1>1, <1>2, <1>4, <1>5 DEF Pending, RateRec
  <2>3. Informed(r, y)
    BY <1>7, <2>1, <2>2 DEF Caches, Knows
  <2>4. Tells(req[r].seen[y], stamped[c][<<y, i>>], y, req[r].at)
    BY <2>3, InformedIsTold
  <2>5. req'[r].seen[y] = req[r].seen[y]
    BY <1>3, <1>5, <2>2
  <2> QED BY <1>2, <1>8, <2>2, <2>4, <2>5, InformedNext
<1>9. CASE UNCHANGED <<cache, stamped>>
  <2>1. Knows(r)'
    BY <1>8, <1>9
  <2>2. \A q \in Request : req'[q] = req[q] \/ Knows(q)'
    BY <1>5, <2>1
  <2> QED BY <1>1, <1>2, <1>6, <1>9, <2>2, QuietStep
<1>10. CASE /\ cache' = [cache EXCEPT ![c][k] = R!Grown(req[r].seen[x], r)]
            /\ stamped' = [stamped EXCEPT ![c][k] = stamped[c][k] \cup {r}]
  <2>1. /\ stamped'[c][k] = stamped[c][k] \cup {r}
        /\ cache'[c][k] = req[r].seen[x] \cup {r}
        /\ \A d \in Colo, l \in R!Key : d # c \/ l # k =>
              stamped'[d][l] = stamped[d][l] /\ cache'[d][l] = cache[d][l]
    BY <1>2, <1>3, <1>10 DEF R!TypeOK, R!Place, R!Grown
  <2>2. ASSUME Clean(i, c)
        PROVE  /\ Informed(r, x) /\ Meters(stamped[c][k], x, req)
               /\ \A q \in stamped[c][k] : req[q].at <= req[r].at
               /\ \A q \in Request : Here(q, i, c) => q = r
    <3>1. Informed(r, x)
      BY <1>1, <2>2 DEF Caches, Knows, Pending
    <3>2. Meters(stamped[c][k], x, req)
      BY <1>2, <1>3, <2>2 DEF Caches, MetersIfClean
    <3>3. \A q \in Request : Here(q, i, c) => q = r
      <4>1. r \notin overlap
        BY <2>2 DEF Clean
      <4>2. Here(r, i, c)
        BY <1>2 DEF Here
      <4> QED BY <1>2, <1>3, <4>1, <4>2 DEF Caches, OverlapsSeen
    <3>4. \A q \in stamped[c][k] : req[q].at <= req[r].at
      <4>1. Remembers(c, k) /\ Here(r, k[2], c)
        BY <1>2, <1>3 DEF Caches, Here
      <4> QED BY <1>2, <1>3, <2>2, <4>1 DEF Remembers
    <3> QED BY <3>1, <3>2, <3>3, <3>4
  <2>3. /\ stamped[c][k] \in SUBSET Request
        /\ Limit[x].long.ticks \in Nat
        /\ \A q \in stamped[c][k] :
              /\ req[q] # R!Idle /\ req[q].at \in Nat /\ req[q].at <= now
              /\ req'[q] # R!Idle /\ req'[q].at = req[q].at
    BY <1>2, <1>3, StampedIsTyped
  <2>4. req'[r] # R!Idle /\ req[r].at \in Nat /\ req[r].at <= now
    BY <1>2, OpenIsTyped DEF Kept, RateRec
  <2>5. OverlapsSeen'
    BY <1>1, <1>6 DEF Caches, OverlapsSeen, Kept, R!TypeOK
  <2>6. \A q \in stamped'[c][k] : req'[q] # R!Idle
    BY <2>1, <2>3, <2>4
  <2>7. Remembers(c, k)'
    <3> SUFFICES ASSUME Clean(i, c)', NEW q \in stamped'[c][k]
                 PROVE  /\ q \in cache'[c][k]
                            \/ req'[q].at + Limit[x].long.ticks <= now
                        /\ \A z \in Request : Here(z, i, c)' =>
                              /\ req'[q].at <= req'[z].at
                              /\ q \in cache'[c][k]
                                 \/ req'[q].at + Limit[x].long.ticks <= req'[z].at
      BY <1>1, <1>3 DEF Remembers
    <3>1. Clean(i, c)
      BY <1>7
    <3>2. \A z \in Request : Here(z, i, c)' => z = r
      BY <1>6, <2>2, <3>1
    <3>3. CASE q = r
      BY <1>5, <2>1, <2>4, <3>2, <3>3
    <3>4. CASE q \in stamped[c][k]
      <4>1. req'[q].at = req[q].at /\ req[q].at \in Nat /\ req[q].at <= req[r].at
        BY <2>2, <2>3, <3>1, <3>4
      <4>2. req[q].at + Limit[x].long.ticks > req[r].at => q \in req[r].seen[x]
        BY <2>2, <3>1, <3>4 DEF Informed, k
      <4>3. q \in cache'[c][k] \/ req[q].at + Limit[x].long.ticks <= req[r].at
        BY <2>1, <2>3, <2>4, <4>1, <4>2
      <4> QED BY <1>2, <1>5, <2>3, <2>4, <3>2, <4>1, <4>3
    <3> QED BY <2>1, <3>3, <3>4
  <2>8. MetersIfClean(c, k)'
    <3> SUFFICES ASSUME Clean(i, c)'
                 PROVE  Meters(stamped'[c][k], x, req')
      BY <1>3 DEF MetersIfClean
    <3>1. Clean(i, c)
      BY <1>7
    <3>2. PICK W \in SUBSET Request :
             /\ Cardinality(W) < Limit[x].short.max
             /\ \A q \in stamped[c][k] :
                   req[q].at + Limit[x].short.ticks > req[r].at => q \in W
      BY <2>2, <3>1 DEF Informed, k
    <3>3. /\ Cardinality(req[r].seen[x]) < Limit[x].long.max
          /\ \A q \in stamped[c][k] :
                req[q].at + Limit[x].long.ticks > req[r].at => q \in req[r].seen[x]
      BY <2>2, <3>1 DEF Informed, k
    <3>4. req[r].seen[x] \in SUBSET Request
      BY <1>3
    <3>5. Meters(stamped[c][k] \cup {r}, x, req')
      BY <1>5, <2>2, <2>3, <2>4, <3>1, <3>2, <3>3, <3>4, OneMore
    <3> QED BY <2>1, <3>5
  <2>9. ASSUME NEW d \in Colo, NEW l \in R!Key, d # c \/ l # k
        PROVE  /\ \A q \in stamped'[d][l] : req'[q] # R!Idle
               /\ Remembers(d, l)' /\ MetersIfClean(d, l)'
    <3>1. now \in Nat /\ now' \in Nat /\ now <= now' /\ overlap \subseteq overlap'
      BY <1>1, <1>2
    <3> QED BY <1>6, <2>1, <2>9, <3>1, EntryLeftAlone
  <2>10. Knows(r)'
    <3>1. ASSUME NEW y \in Pending(r), y # x
          PROVE  stamped'[c][<<y, i>>] = stamped[c][<<y, i>>]
      <4>1. <<y, i>> \in R!Key /\ <<y, i>> # k
        BY <1>1, <1>2, <1>3, <3>1 DEF Pending, RateRec, R!Key, k
      <4> QED BY <1>2, <2>1, <4>1
    <3> QED BY <1>8, <3>1
  <2>11. ASSUME NEW q \in Request
         PROVE  Knows(q)'
    <3>1. CASE q = r
      BY <2>10, <3>1
    <3>2. CASE q # r /\ req[q].pc \notin R!Open
      <4>1. req'[q].pc \notin {"global", "writing"}
        BY <1>5, <3>2 DEF R!Open
      <4> QED BY <4>1, NothingPendingNext
    <3>3. CASE q # r /\ req[q].pc \in R!Open
      <4>1. req'[q] = req[q] /\ req[q].colo \in Colo /\ req[q] \in RateRec
        BY <1>5, <3>3, OpenIsTyped
      <4>2. ASSUME Clean(req[q].id, req[q].colo)', NEW y \in Pending(q)
            PROVE  stamped'[req[q].colo][<<y, req[q].id>>]
                       = stamped[req[q].colo][<<y, req[q].id>>]
        <5>1. req[q].colo # c \/ req[q].id # i
          <6>1. SUFFICES ASSUME req[q].colo = c, req[q].id = i
                         PROVE  FALSE
            OBVIOUS
          <6>2. Clean(i, c)
            <7>1. req'[q].id = i /\ req'[q].colo = c
              BY <4>1, <6>1
            <7>2. Clean(i, c)'
              BY <4>2, <7>1 DEF Clean
            <7> QED BY <1>7, <7>2
          <6>3. Here(q, i, c)
            BY <3>3, <6>1 DEF Here
          <6> QED BY <2>2, <3>3, <6>2, <6>3
        <5>2. <<y, req[q].id>> \in R!Key
          BY <4>1, <4>2 DEF Pending, RateRec, R!Key, R!Route
        <5>3. req[q].colo # c \/ <<y, req[q].id>> # k
          BY <5>1 DEF k
        <5> QED BY <2>1, <4>1, <5>2, <5>3
      <4>3. overlap \subseteq overlap'
        BY <1>1
      <4> QED BY <3>3, <4>1, <4>2, <4>3, RequestLeftAlone
    <3> QED BY <3>1, <3>2, <3>3
  <2>12. \A d \in Colo, l \in R!Key :
            /\ \A q \in stamped'[d][l] : req'[q] # R!Idle
            /\ Remembers(d, l)' /\ MetersIfClean(d, l)'
    <3> TAKE d \in Colo, l \in R!Key
    <3>1. CASE d = c /\ l = k
      BY <2>6, <2>7, <2>8, <3>1
    <3>2. CASE d # c \/ l # k
      BY <2>9, <3>2
    <3> QED BY <3>1, <3>2
  <2> QED BY <2>5, <2>11, <2>12 DEF Caches
<1> QED BY <1>1, <1>9, <1>10

\* The inductive invariant of the rate limiter.
RateInv == R!TypeOK /\ Placed /\ Shard /\ Caches

LEMMA RateInit == R!Init => RateInv
<1> SUFFICES ASSUME R!Init PROVE RateInv
  OBVIOUS
<1>1. R!TypeOK /\ Placed
  BY RateTypeInit
<1>2. \A k \in R!Key : stamped["shard"][k] = {} /\ \A c \in Colo : stamped[c][k] = {}
  BY DEF R!Init, R!Place
<1>3. Shard
  BY <1>2, NothingMeters, KeyIsRoute DEF Shard, ShardRemembers, ShardMeters
<1>4. \A r \in Request : req[r].pc = "idle"
  BY IdleIsClosed DEF R!Init
<1>5. OverlapsSeen
  BY <1>4 DEF R!Init, OverlapsSeen, Here, R!Open
<1>6. \A c \in Colo, k \in R!Key : Remembers(c, k) /\ MetersIfClean(c, k)
  BY <1>2, NothingMeters, KeyIsRoute DEF Remembers, MetersIfClean
<1>7. \A r \in Request : Knows(r)
  BY <1>4, NothingPending
<1> QED BY <1>1, <1>2, <1>3, <1>5, <1>6, <1>7 DEF RateInv, Caches

LEMMA CachesNext ==
    ASSUME R!TypeOK, Placed, R!TypeOK', Caches, Kept, R!Next
    PROVE  Caches'
<1>0. now \in Nat /\ now' \in Nat
  BY DEF R!TypeOK
\* An answer that came in one go: the request is never open.
<1>1. ASSUME NEW r \in Request, NEW rec, req[r] = R!Idle, req' = [req EXCEPT ![r] = rec],
             rec.pc \in Answers, UNCHANGED <<now, cache, overlap>>,
             \A c \in Colo : stamped'[c] = stamped[c]
      PROVE  Caches'
  <2>1. req'[r].pc \in Answers /\ \A q \in Request : q # r => req'[q] = req[q]
    BY <1>1 DEF R!TypeOK
  <2>2. req'[r].pc \notin R!Open /\ Knows(r)'
    BY <2>1, NothingPendingNext DEF Answers, R!Open
  <2>3. \A q \in Request : \A i, c : Here(q, i, c)' => Here(q, i, c)
    <3> TAKE q \in Request
    <3> TAKE i, c
    <3>1. CASE q = r
      BY <2>2, <3>1 DEF Here
    <3>2. CASE q # r
      BY <2>1, <3>2 DEF Here
    <3> QED BY <3>1, <3>2
  <2>4. \A q \in Request : req'[q] = req[q] \/ Knows(q)'
    BY <2>1, <2>2
  <2> QED BY <1>0, <1>1, <2>3, <2>4, QuietStep
<1>2. ASSUME NEW r \in Request, NEW i \in Identity, NEW s \in Scope, R!Decide(r, i, s)
      PROVE  Caches'
  <2>1. PICK lost \in BOOLEAN :
           req' = [req EXCEPT ![r] = [R!Arrived(i, s, "shard") EXCEPT
                            !.pc = IF lost THEN "degraded" ELSE R!Judged(i, s)]]
    BY <1>2, DecideSays
  <2> DEFINE p == IF lost THEN "degraded" ELSE R!Judged(i, s)
             rec == [R!Arrived(i, s, "shard") EXCEPT !.pc = p]
  <2>2. p \in Answers
    BY JudgedIsKnown DEF Answers
  <2>3. rec.pc = p
    <3> HIDE DEF p
    <3> QED BY DEF R!Arrived
  <2>4. \A c \in Colo : stamped'[c] = stamped[c]
    <3>1. (\E new : stamped' = [stamped EXCEPT !["shard"] = new]) \/ stamped' = stamped
      BY <1>2, DecideSays
    <3> QED BY <3>1, LimitAssumption DEF R!TypeOK, R!Place
  <2>5. req[r] = R!Idle /\ UNCHANGED <<now, cache, overlap>>
    BY <1>2 DEF R!Decide
  <2>6. req' = [req EXCEPT ![r] = rec]
    BY <2>1
  <2> HIDE DEF rec, p
  <2> QED BY <1>1, <2>2, <2>3, <2>4, <2>5, <2>6
<1>3. ASSUME NEW r \in Request, NEW i \in Identity, NEW s \in Scope, R!Unreached(r, i, s)
      PROVE  Caches'
  <2> DEFINE rec == [R!Arrived(i, s, "shard") EXCEPT !.pc = "degraded"]
  <2>1. rec.pc \in Answers
    BY DEF R!Arrived, Answers
  <2>2. req' = [req EXCEPT ![r] = rec]
    BY <1>3 DEF R!Unreached
  <2> HIDE DEF rec
  <2> QED BY <1>1, <1>3, <2>1, <2>2 DEF R!Unreached
<1>4. ASSUME req' = req, overlap' = overlap, now <= now',
             \A c \in Colo, k \in R!Key :
               \/ stamped'[c][k] = stamped[c][k] /\ cache'[c][k] = cache[c][k]
               \/ stamped'[c][k] = {}
      PROVE  Caches'
  <2>1. \A r \in Request : \A i, c : Here(r, i, c)' => Here(r, i, c)
    BY <1>4 DEF Here
  <2> QED BY <1>0, <1>4, <2>1, QuietStep
<1>5. ASSUME NEW c \in Colo, NEW k \in R!Key, R!Lose(c, k)
      PROVE  Caches'
  <2>1. \A d \in Colo, l \in R!Key :
               \/ stamped'[d][l] = stamped[d][l] /\ cache'[d][l] = cache[d][l]
               \/ stamped'[d][l] = {}
    BY <1>5 DEF R!Lose, R!TypeOK, R!Place
  <2> QED BY <1>0, <1>4, <1>5, <2>1 DEF R!Lose
<1>6. ASSUME R!Hibernate
      PROVE  Caches'
  <2>1. \A c \in Colo : stamped'[c] = stamped[c]
    BY <1>6, LimitAssumption DEF R!Hibernate, R!TypeOK, R!Place
  <2> QED BY <1>0, <1>4, <1>6, <2>1 DEF R!Hibernate
<1>7. ASSUME R!Tick
      PROVE  Caches'
  BY <1>0, <1>4, <1>7 DEF R!Tick
<1> QED BY <1>2, <1>3, <1>5, <1>6, <1>7, CachesBegin, CachesRead, CachesWrite DEF R!Next

LEMMA RateNext == RateInv /\ [R!Next]_(R!vars) => RateInv'
<1> SUFFICES ASSUME RateInv, [R!Next]_(R!vars) PROVE RateInv'
  OBVIOUS
<1>1. CASE R!Next
  <2>1. R!TypeOK' /\ Placed' /\ Kept
    BY <1>1, RateTypeNext DEF RateInv
  <2> QED BY <1>1, <2>1, ShardNext, CachesNext DEF RateInv
<1>2. CASE UNCHANGED R!vars
  <2>1. UNCHANGED <<now, backend, req, cache, shard, turn, stamped, overlap>>
    BY <1>2 DEF R!vars
  <2>2. R!TypeOK' /\ Placed' /\ Kept /\ now \in Nat /\ now' \in Nat /\ now <= now'
    BY <2>1 DEF RateInv, R!TypeOK, Placed, Kept
  <2>3. Shard'
    BY <2>1, <2>2, ShardLeftAlone DEF RateInv
  <2>4. \A r \in Request : \A i, c : Here(r, i, c)' => Here(r, i, c)
    BY <2>1 DEF Here
  <2>5. Caches'
    BY <2>1, <2>2, <2>4, QuietStep DEF RateInv
  <2> QED BY <2>2, <2>3, <2>5 DEF RateInv
<1> QED BY <1>1, <1>2

\* The inductive invariant of the rate limiter (ratelimit.ts, ratelimit-shard.ts):
\* what a key still has to count is in its bucket or older than its long window,
\* no key is over its limits there, and an entry of a colo that is over them has
\* been lost or has seen requests overlap.
THEOREM RateInvariant == R!Spec => []RateInv
BY RateInit, RateNext, PTL DEF R!Spec

\* Buckets, requests, colo entries and the clock keep their types, for any limits.
THEOREM RateTypeCorrect == R!Spec => []R!TypeOK
<1>1. RateInv => R!TypeOK
  BY DEF RateInv
<1> QED BY <1>1, RateInvariant, PTL

\* handleDecide: on the Durable Object no window of a key ever admits more than
\* the limit of its route, unless its bucket was evicted or the object hibernated.
THEOREM ShardMetersExactly == R!Spec => []ShardHoldsCap
<1>1. RateInv => ShardHoldsCap
  BY MetersIsWithinLimits
     DEF RateInv, Shard, ShardMeters, ShardHoldsCap, R!ShardHoldsCap
<1> QED BY <1>1, RateInvariant, PTL

\* checkRateLimit on the Cache API: a colo whose entry was not lost admits more
\* than the limit only by requests of one identity that overlapped there.
THEOREM OnlyOverlapsOvershoot == R!Spec => []OvershootOnlyByOverlap
<1>1. RateInv => OvershootOnlyByOverlap
  BY MetersIsWithinLimits
     DEF RateInv, Caches, MetersIfClean, Clean, OvershootOnlyByOverlap,
         R!OvershootOnlyByOverlap
<1> QED BY <1>1, RateInvariant, PTL

-----------------------------------------------------------------------------
(* Who is turned away.                                                         *)

LetThrough == {"writing", "allowed", "degraded"}

\* q was let through, and counts in the buckets of k at p.
Paid(q, k, p) ==
    /\ q \in Request /\ req[q].pc \in LetThrough
    /\ req[q].id = k[2] /\ req[q].colo = p /\ k[1] \in {req[q].scope, "global"}

\* Those let through count for a window, and are as many as it takes.
Counted(i, p, x, t, ticks) ==
    {q \in Request : Paid(q, <<x, i>>, p) /\ t - req[q].at < ticks}
Reached(i, p, x, t, w) == Cardinality(Counted(i, p, x, t, w.ticks)) >= w.max

\* What a request read is of requests that were let through, it writes its own
\* two buckets, and if it is turned away the window it met was full.
Sound(r) == req[r] # R!Idle =>
    LET A == req[r] IN
    /\ \A x \in R!Route : \A q \in A.seen[x] : Paid(q, <<x, A.id>>, A.colo)
    /\ A.todo \in SUBSET {A.scope, "global"}
    /\ A.pc = "short" => Reached(A.id, A.colo, A.scope, A.at, Limit[A.scope].short)
    /\ A.pc = "long" => Reached(A.id, A.colo, A.scope, A.at, Limit[A.scope].long)
    /\ A.pc = "envelope" => \/ Reached(A.id, A.colo, "global", A.at, Limit["global"].short)
                            \/ Reached(A.id, A.colo, "global", A.at, Limit["global"].long)

StampsPaid ==
    /\ \A c \in Colo, k \in R!Key : \A q \in cache[c][k] : Paid(q, k, c)
    /\ \A k \in R!Key : \A q \in shard[k] : Paid(q, k, "shard")

EarnedInv ==
    /\ R!TypeOK /\ Placed /\ StampsPaid
    /\ \A r \in Request : Sound(r)

\* Nobody who was let through is refused afterwards.
Final == \A q \in Request : req[q].pc \in LetThrough => req'[q].pc \in LetThrough

LEMMA PaidStays ==
    ASSUME R!TypeOK, Kept, Final
    PROVE  \A q, k, p : Paid(q, k, p) => Paid(q, k, p)'
<1>1. \A q \in Request : req[q].pc \in LetThrough => req[q] # R!Idle
  BY IdleIsClosed DEF LetThrough
<1> QED BY <1>1 DEF Kept, Final, Paid

LEMMA ReachedStays ==
    ASSUME R!TypeOK, Kept, Final, NEW i, NEW p, NEW t, NEW x \in R!Route,
           NEW w, w.max \in Nat, Reached(i, p, x, t, w)
    PROVE  Reached(i, p, x, t, w)'
<1> DEFINE A == Counted(i, p, x, t, w.ticks)
           B == {q \in Request : /\ Paid(q, <<x, i>>, p)' /\ t - req'[q].at < w.ticks}
<1>1. \A q \in Request : Paid(q, <<x, i>>, p) => req[q] # R!Idle
  BY IdleIsClosed DEF LetThrough, Paid
<1>2. A \in SUBSET B
  BY <1>1, PaidStays DEF Kept, Counted
<1>4. IsFiniteSet(B)
  <2>1. B \in SUBSET Request
    OBVIOUS
  <2> HIDE DEF B
  <2> QED BY <2>1, RequestAssumption, FS_Subset
<1>5. Cardinality(A) <= Cardinality(B) /\ Cardinality(A) \in Nat /\ Cardinality(B) \in Nat
  <2> HIDE DEF A, B
  <2> QED BY <1>2, <1>4, FS_Subset, FS_CardinalityType
<1>6. Cardinality(A) >= w.max
  BY DEF Reached
<1>7. Reached(i, p, x, t, w)' <=> Cardinality(B) >= w.max
  BY DEF Reached, Counted
<1> HIDE DEF A, B
<1> QED BY <1>5, <1>6, <1>7

\* A verdict against a request counts stamps, and every stamp is paid.
LEMMA VerdictReached ==
    ASSUME R!TypeOK, NEW i, NEW p, NEW x \in R!Route, NEW t \in Nat,
           NEW S \in SUBSET Request, \A q \in S : Paid(q, <<x, i>>, p)
    PROVE  /\ R!Verdict(S, x, t) = "short" => Reached(i, p, x, t, Limit[x].short)
           /\ R!Verdict(S, x, t) = "long" => Reached(i, p, x, t, Limit[x].long)
<1> DEFINE live == R!Live(S, x, t)
           near == R!Within(live, Limit[x].short.ticks, t)
<1>1. \A q \in S : req[q] # R!Idle /\ req[q].at \in Nat
  <2>1. \A q \in S : req[q] # R!Idle
    BY IdleIsClosed DEF LetThrough, Paid
  <2> QED BY <2>1, NotIdleIsTyped DEF RateRec
<1>2. Limit[x].short.ticks \in Nat /\ Limit[x].long.ticks \in Nat
      /\ Limit[x].short.max \in Nat /\ Limit[x].long.max \in Nat
  BY LimitIsNat
<1>3. live \in SUBSET Counted(i, p, x, t, Limit[x].long.ticks)
  BY <1>1, <1>2 DEF R!Live, R!Within, Counted
<1>4. near \in SUBSET Counted(i, p, x, t, Limit[x].short.ticks)
  BY <1>1, <1>2 DEF R!Live, R!Within, Counted
<1>5. \A n : IsFiniteSet(Counted(i, p, x, t, n))
  <2>1. \A n : Counted(i, p, x, t, n) \in SUBSET Request
    BY DEF Counted
  <2> QED BY <2>1, RequestAssumption, FS_Subset
<1> HIDE DEF live, near
<1>6. /\ Cardinality(live) <= Cardinality(Counted(i, p, x, t, Limit[x].long.ticks))
      /\ Cardinality(near) <= Cardinality(Counted(i, p, x, t, Limit[x].short.ticks))
      /\ Cardinality(live) \in Nat /\ Cardinality(near) \in Nat
      /\ Cardinality(Counted(i, p, x, t, Limit[x].long.ticks)) \in Nat
      /\ Cardinality(Counted(i, p, x, t, Limit[x].short.ticks)) \in Nat
  BY <1>3, <1>4, <1>5, FS_Subset, FS_CardinalityType
<1>7. /\ R!Verdict(S, x, t) = "short" => Cardinality(near) >= Limit[x].short.max
      /\ R!Verdict(S, x, t) = "long" => Cardinality(live) >= Limit[x].long.max
  BY SameCount DEF R!Verdict, live, near
<1> QED BY <1>2, <1>6, <1>7 DEF Reached

\* What makes the next record of a request sound.
LEMMA SoundNext ==
    ASSUME NEW r \in Request, NEW p, NEW S, NEW T, NEW i, NEW c, NEW s, NEW t,
           req'[r].pc = p, req'[r].seen = S, req'[r].todo = T, req'[r].id = i,
           req'[r].colo = c, req'[r].scope = s, req'[r].at = t,
           \A x \in R!Route : \A q \in S[x] : Paid(q, <<x, i>>, c)',
           T \in SUBSET {s, "global"},
           p = "short" => Reached(i, c, s, t, Limit[s].short)',
           p = "long" => Reached(i, c, s, t, Limit[s].long)',
           p = "envelope" => \/ Reached(i, c, "global", t, Limit["global"].short)'
                             \/ Reached(i, c, "global", t, Limit["global"].long)'
    PROVE  Sound(r)'
BY DEF Sound, Reached, Counted, Paid

\* A request nothing happens to.
LEMMA SoundStays ==
    ASSUME R!TypeOK, Kept, Final, NEW r \in Request, req'[r] = req[r], Sound(r)
    PROVE  Sound(r)'
<1> SUFFICES ASSUME req[r] # R!Idle PROVE Sound(r)'
  BY DEF Sound
<1> PICK A : A = req[r]
  OBVIOUS
<1>1. A \in RateRec
  BY NotIdleIsTyped
<1>2. /\ A.scope \in R!Route /\ "global" \in R!Route
  BY <1>1 DEF RateRec, R!Route
<1>3. \A x \in R!Route : Limit[x].short.max \in Nat /\ Limit[x].long.max \in Nat
  BY LimitIsNat
<1>4. \A x \in R!Route : \A w \in {Limit[x].short, Limit[x].long} :
         Reached(A.id, A.colo, x, A.at, w) => Reached(A.id, A.colo, x, A.at, w)'
  BY <1>3, ReachedStays
<1>5. \A x \in R!Route : \A q \in A.seen[x] :
         Paid(q, <<x, A.id>>, A.colo) => Paid(q, <<x, A.id>>, A.colo)'
  BY PaidStays
<1>6. Sound(r) <=>
        /\ \A x \in R!Route : \A q \in A.seen[x] : Paid(q, <<x, A.id>>, A.colo)
        /\ A.todo \in SUBSET {A.scope, "global"}
        /\ A.pc = "short" => Reached(A.id, A.colo, A.scope, A.at, Limit[A.scope].short)
        /\ A.pc = "long" => Reached(A.id, A.colo, A.scope, A.at, Limit[A.scope].long)
        /\ A.pc = "envelope" =>
              \/ Reached(A.id, A.colo, "global", A.at, Limit["global"].short)
              \/ Reached(A.id, A.colo, "global", A.at, Limit["global"].long)
  BY DEF Sound
<1>7. Sound(r)' <=>
        /\ \A x \in R!Route : \A q \in A.seen[x] : Paid(q, <<x, A.id>>, A.colo)'
        /\ A.todo \in SUBSET {A.scope, "global"}
        /\ A.pc = "short" => Reached(A.id, A.colo, A.scope, A.at, Limit[A.scope].short)'
        /\ A.pc = "long" => Reached(A.id, A.colo, A.scope, A.at, Limit[A.scope].long)'
        /\ A.pc = "envelope" =>
              \/ Reached(A.id, A.colo, "global", A.at, Limit["global"].short)'
              \/ Reached(A.id, A.colo, "global", A.at, Limit["global"].long)'
  BY DEF Sound, Reached, Counted, Paid
<1> QED BY <1>2, <1>4, <1>5, <1>6, <1>7

\* One step of one request, or of none.
LEMMA EarnedStep ==
    ASSUME EarnedInv, R!TypeOK', Placed', Kept, Final, NEW r \in Request,
           \A q \in Request : q # r => req'[q] = req[q],
           \/ req'[r] = req[r]
           \/ Sound(r)',
           \A c \in Colo, k \in R!Key : \A q \in cache'[c][k] :
               q \in cache[c][k] \/ Paid(q, k, c)',
           \A k \in R!Key : \A q \in shard'[k] :
               q \in shard[k] \/ Paid(q, k, "shard")'
    PROVE  EarnedInv'
<1>2. StampsPaid'
  <2>1. /\ \A c \in Colo, k \in R!Key : \A q \in cache'[c][k] : Paid(q, k, c)'
        /\ \A k \in R!Key : \A q \in shard'[k] : Paid(q, k, "shard")'
    BY PaidStays DEF EarnedInv, StampsPaid
  <2> QED BY <2>1 DEF StampsPaid
<1>3. ASSUME NEW q \in Request PROVE Sound(q)'
  <2>1. CASE req'[q] = req[q]
    BY <2>1, SoundStays DEF EarnedInv
  <2>2. CASE req'[q] # req[q]
    BY <2>2
  <2> QED BY <2>1, <2>2
<1> QED BY <1>2, <1>3 DEF EarnedInv

\* A request goes on.
LEMMA EarnedTurn ==
    ASSUME EarnedInv, R!TypeOK', Placed', Kept, NEW r \in Request, req[r] \in RateRec,
           NEW p, NEW S, NEW T, Turns(r, p, S, T),
           req[r].pc \in LetThrough => p \in LetThrough,
           \A x \in R!Route : \A q \in S[x] : Paid(q, <<x, req[r].id>>, req[r].colo),
           T \in SUBSET {req[r].scope, "global"},
           p \in {"short", "long"} =>
               Reached(req[r].id, req[r].colo, req[r].scope, req[r].at,
                       IF p = "short" THEN Limit[req[r].scope].short
                       ELSE Limit[req[r].scope].long),
           p = "envelope" =>
               \/ Reached(req[r].id, req[r].colo, "global", req[r].at, Limit["global"].short)
               \/ Reached(req[r].id, req[r].colo, "global", req[r].at, Limit["global"].long),
           \A c \in Colo, k \in R!Key : \A q \in cache'[c][k] :
               q \in cache[c][k] \/ Paid(q, k, c),
           shard' = shard
    PROVE  EarnedInv'
<1> PICK A \in RateRec : A = req[r]
  OBVIOUS
<1>1. /\ \A q \in Request : q # r => req'[q] = req[q]
      /\ req'[r].pc = p /\ req'[r].seen = S /\ req'[r].todo = T
      /\ req'[r].at = A.at /\ req'[r].id = A.id
      /\ req'[r].colo = A.colo /\ req'[r].scope = A.scope
  BY TurnsIs DEF EarnedInv
<1>2. Final
  BY <1>1 DEF Final
<1>4. A.scope \in R!Route /\ "global" \in R!Route
  BY DEF RateRec, R!Route
<1>5. \A x \in R!Route : Limit[x].short.max \in Nat /\ Limit[x].long.max \in Nat
  BY LimitIsNat
<1>6. \A x \in R!Route : \A w \in {Limit[x].short, Limit[x].long} :
         Reached(A.id, A.colo, x, A.at, w) => Reached(A.id, A.colo, x, A.at, w)'
  BY <1>2, <1>5, ReachedStays DEF EarnedInv
<1>7. \A q, k, c : Paid(q, k, c) => Paid(q, k, c)'
  BY <1>2, PaidStays DEF EarnedInv
<1>9. Sound(r)'
  <2>1. \A x \in R!Route : \A q \in S[x] : Paid(q, <<x, A.id>>, A.colo)'
    BY <1>7
  <2>2. p = "short" => Reached(A.id, A.colo, A.scope, A.at, Limit[A.scope].short)'
    BY <1>4, <1>6
  <2>3. p = "long" => Reached(A.id, A.colo, A.scope, A.at, Limit[A.scope].long)'
    BY <1>4, <1>6
  <2>4. p = "envelope" =>
              \/ Reached(A.id, A.colo, "global", A.at, Limit["global"].short)'
              \/ Reached(A.id, A.colo, "global", A.at, Limit["global"].long)'
    BY <1>4, <1>6
  <2>5. T \in SUBSET {A.scope, "global"}
    OBVIOUS
  <2> QED BY <1>1, <2>1, <2>2, <2>3, <2>4, <2>5, SoundNext
<1>10. /\ \A c \in Colo, k \in R!Key : \A q \in cache'[c][k] :
               q \in cache[c][k] \/ Paid(q, k, c)'
       /\ \A k \in R!Key : \A q \in shard'[k] :
               q \in shard[k] \/ Paid(q, k, "shard")'
  BY <1>7
<1> QED BY <1>1, <1>2, <1>9, <1>10, EarnedStep

LEMMA EntryPaid ==
    ASSUME EarnedInv, NEW r \in Request, req[r] \in RateRec, req[r].colo \in Colo,
           NEW x \in R!Route
    PROVE  /\ \A q \in Entry(r, x) : Paid(q, <<x, req[r].id>>, req[r].colo)
           /\ \A q \in LiveAt(r, x) : Paid(q, <<x, req[r].id>>, req[r].colo)
           /\ Says(r, x) = "short" =>
                 Reached(req[r].id, req[r].colo, x, req[r].at, Limit[x].short)
           /\ Says(r, x) = "long" =>
                 Reached(req[r].id, req[r].colo, x, req[r].at, Limit[x].long)
<1>1. <<x, req[r].id>> \in R!Key /\ req[r].at \in Nat
  BY DEF RateRec, R!Key
<1>2. /\ Entry(r, x) \in SUBSET Request
      /\ \A q \in Entry(r, x) : Paid(q, <<x, req[r].id>>, req[r].colo)
  BY <1>1, EntryIsTyped DEF EarnedInv, StampsPaid, Entry
<1>3. LiveAt(r, x) \subseteq Entry(r, x)
  BY <1>2, LiveIsPart DEF LiveAt
<1>4. /\ Says(r, x) = "short" =>
            Reached(req[r].id, req[r].colo, x, req[r].at, Limit[x].short)
      /\ Says(r, x) = "long" =>
            Reached(req[r].id, req[r].colo, x, req[r].at, Limit[x].long)
  BY <1>1, <1>2, VerdictReached DEF EarnedInv, Says
<1> QED BY <1>2, <1>3, <1>4

LEMMA EarnedReads ==
    ASSUME EarnedInv, R!TypeOK', Placed', Kept, NEW r \in Request,
           R!ReadScope(r) \/ R!ReadGlobal(r) \/ R!ReadFails(r)
    PROVE  EarnedInv'
<1>1. /\ req[r].pc \in {"scope", "global"} /\ cache' = cache /\ shard' = shard
  BY DEF R!ReadScope, R!ReadGlobal, R!ReadFails
<1>2. req[r] # R!Idle /\ req[r] \in RateRec /\ req[r].colo \in Colo /\ Sound(r)
  BY <1>1, OpenIsTyped DEF EarnedInv, R!Open
<1>3. /\ \A x \in R!Route : \A q \in req[r].seen[x] : Paid(q, <<x, req[r].id>>, req[r].colo)
      /\ req[r].todo \in SUBSET {req[r].scope, "global"}
      /\ req[r].seen \in [R!Route -> SUBSET Request]
      /\ req[r].scope \in R!Route /\ "global" \in R!Route
  BY <1>2 DEF Sound, RateRec, R!Route
<1>4. req[r].pc \notin LetThrough
  BY <1>1 DEF LetThrough
<1>5. CASE R!ReadScope(r)
  <2> DEFINE s == req[r].scope
             seen == [req[r].seen EXCEPT ![s] = LiveAt(r, s)]
  <2>1. CASE Says(r, s) = "ok"
    <3>1. Turns(r, "global", seen, req[r].todo)
      BY <1>2, <1>5, <2>1, ReadScopeTurns DEF EarnedInv
    <3>2. \A x \in R!Route : \A q \in seen[x] : Paid(q, <<x, req[r].id>>, req[r].colo)
      BY <1>2, <1>3, EntryPaid
    <3> HIDE DEF seen
    <3> QED BY <1>1, <1>2, <1>3, <1>4, <3>1, <3>2, EarnedTurn
  <2>2. CASE Says(r, s) # "ok"
    <3>1. PICK v : v = Says(r, s)
      OBVIOUS
    <3>2. v \in {"short", "long"}
      BY <2>2, <3>1, VerdictIsKnown DEF Says
    <3>3. Turns(r, v, req[r].seen, req[r].todo)
      BY <1>2, <1>5, <2>2, <3>1, ReadScopeTurns DEF EarnedInv
    <3>4. Reached(req[r].id, req[r].colo, s, req[r].at,
                  IF v = "short" THEN Limit[s].short ELSE Limit[s].long)
      BY <1>2, <1>3, <3>1, <3>2, EntryPaid
    <3> QED BY <1>1, <1>2, <1>3, <1>4, <3>2, <3>3, <3>4, EarnedTurn
  <2> QED BY <2>1, <2>2
<1>6. CASE R!ReadGlobal(r)
  <2> DEFINE seen == [req[r].seen EXCEPT !["global"] = LiveAt(r, "global")]
             none == [x \in R!Route |-> {}]
  <2>1. CASE Says(r, "global") = "ok"
    <3>1. Turns(r, "writing", seen, {req[r].scope, "global"})
      BY <1>2, <1>6, <2>1, ReadGlobalTurns DEF EarnedInv
    <3>2. \A x \in R!Route : \A q \in seen[x] : Paid(q, <<x, req[r].id>>, req[r].colo)
      BY <1>2, <1>3, EntryPaid
    <3> HIDE DEF seen
    <3> QED BY <1>1, <1>2, <1>4, <3>1, <3>2, EarnedTurn
  <2>2. CASE Says(r, "global") # "ok"
    <3>1. Turns(r, "envelope", none, {})
      BY <1>2, <1>6, <2>2, ReadGlobalTurns DEF EarnedInv
    <3>2. Says(r, "global") \in {"short", "long"}
      BY <2>2, VerdictIsKnown DEF Says
    <3>3. \/ Reached(req[r].id, req[r].colo, "global", req[r].at, Limit["global"].short)
          \/ Reached(req[r].id, req[r].colo, "global", req[r].at, Limit["global"].long)
      BY <1>2, <1>3, <3>2, EntryPaid
    <3>4. \A x \in R!Route : none[x] = {}
      OBVIOUS
    <3> HIDE DEF none
    <3> QED BY <1>1, <1>2, <1>4, <3>1, <3>3, <3>4, EarnedTurn
  <2> QED BY <2>1, <2>2
<1>7. CASE R!ReadFails(r)
  <2> DEFINE none == [x \in R!Route |-> {}]
  <2>1. Turns(r, "degraded", none, req[r].todo)
    BY <1>2, <1>7, ReadFailsTurns
  <2>2. \A x \in R!Route : none[x] = {}
    OBVIOUS
  <2> HIDE DEF none
  <2> QED BY <1>1, <1>2, <1>3, <1>4, <2>1, <2>2, EarnedTurn
<1> QED BY <1>5, <1>6, <1>7

LEMMA EarnedWrites ==
    ASSUME EarnedInv, R!TypeOK', Placed', Kept, NEW r \in Request, NEW x \in R!Route,
           R!Write(r, x)
    PROVE  EarnedInv'
<1>1. req[r].pc = "writing" /\ x \in req[r].todo /\ shard' = shard
  BY DEF R!Write
<1>2. req[r] # R!Idle /\ req[r] \in RateRec /\ req[r].colo \in Colo /\ Sound(r)
  BY <1>1, OpenIsTyped DEF EarnedInv, R!Open
<1> DEFINE seen == [req[r].seen EXCEPT ![x] = {}]
           k == <<x, req[r].id>>
           c == req[r].colo
<1>3. /\ \A y \in R!Route : \A q \in req[r].seen[y] : Paid(q, <<y, req[r].id>>, req[r].colo)
      /\ req[r].todo \in SUBSET {req[r].scope, "global"}
      /\ req[r].seen \in [R!Route -> SUBSET Request]
  BY <1>2 DEF Sound, RateRec
<1>4. PICK p \in LetThrough : Turns(r, p, seen, req[r].todo \ {x})
  BY <1>2, WriteTurns DEF LetThrough
<1>5. \A y \in R!Route : \A q \in seen[y] : Paid(q, <<y, req[r].id>>, req[r].colo)
  BY <1>3
<1>6. Paid(r, k, c)
  BY <1>1, <1>3 DEF Paid, LetThrough
<1>7. k \in R!Key
  BY <1>2 DEF RateRec, R!Key
<1>8. cache' = [cache EXCEPT ![c][k] = R!Grown(req[r].seen[x], r)] \/ cache' = cache
  BY DEF R!Write
<1>9. \A d \in Colo, l \in R!Key : \A q \in cache'[d][l] :
           q \in cache[d][l] \/ Paid(q, l, d)
  <2>1. \A q \in R!Grown(req[r].seen[x], r) : Paid(q, k, c)
    BY <1>3, <1>6 DEF R!Grown
  <2> HIDE DEF k, c
  <2>2. cache \in [Colo -> [R!Key -> SUBSET Request]]
    BY DEF EarnedInv, R!TypeOK
  <2> QED BY <1>7, <1>8, <2>1, <2>2
<1>10. p \notin {"short", "long", "envelope"}
  BY <1>4 DEF LetThrough
<1>11. req[r].todo \ {x} \in SUBSET {req[r].scope, "global"}
  BY <1>3
<1> HIDE DEF seen
<1> QED BY <1>1, <1>2, <1>4, <1>5, <1>9, <1>10, <1>11, EarnedTurn

\* A request arrives.
LEMMA EarnedArrives ==
    ASSUME EarnedInv, R!TypeOK', Placed', Kept, NEW r \in Request, req[r] = R!Idle,
           NEW rec \in RateRec, req' = [req EXCEPT ![r] = rec],
           rec.todo = {}, \A x \in R!Route : rec.seen[x] = {},
           rec.pc = "short" =>
               Reached(rec.id, rec.colo, rec.scope, rec.at, Limit[rec.scope].short),
           rec.pc = "long" =>
               Reached(rec.id, rec.colo, rec.scope, rec.at, Limit[rec.scope].long),
           rec.pc = "envelope" =>
               \/ Reached(rec.id, rec.colo, "global", rec.at, Limit["global"].short)
               \/ Reached(rec.id, rec.colo, "global", rec.at, Limit["global"].long),
           cache' = cache,
           \A k \in R!Key : \A q \in shard'[k] :
               \/ q \in shard[k]
               \/ /\ q = r /\ rec.pc \in LetThrough /\ rec.colo = "shard"
                  /\ rec.id = k[2] /\ k[1] \in {rec.scope, "global"}
    PROVE  EarnedInv'
<1>1. \A q \in Request : req'[q] = IF q = r THEN rec ELSE req[q]
  BY DEF EarnedInv, R!TypeOK
<1>2. Final
  <2>1. req[r].pc \notin LetThrough
    BY IdleIsClosed DEF LetThrough
  <2> QED BY <1>1, <2>1 DEF Final
<1>4. rec.scope \in R!Route /\ "global" \in R!Route
  BY DEF RateRec, R!Route
<1>5. \A x \in R!Route : Limit[x].short.max \in Nat /\ Limit[x].long.max \in Nat
  BY LimitIsNat
<1>6. \A x \in R!Route : \A w \in {Limit[x].short, Limit[x].long} :
         Reached(rec.id, rec.colo, x, rec.at, w)
             => Reached(rec.id, rec.colo, x, rec.at, w)'
  BY <1>2, <1>5, ReachedStays DEF EarnedInv
<1>7. /\ req'[r] = rec
      /\ req'[r].pc = rec.pc /\ req'[r].seen = rec.seen /\ req'[r].todo = rec.todo
      /\ req'[r].at = rec.at /\ req'[r].id = rec.id
      /\ req'[r].colo = rec.colo /\ req'[r].scope = rec.scope
  BY <1>1
<1>9. Sound(r)'
  <2>1. \A x \in R!Route : \A q \in rec.seen[x] : Paid(q, <<x, rec.id>>, rec.colo)'
    OBVIOUS
  <2>2. rec.pc = "short" =>
           Reached(rec.id, rec.colo, rec.scope, rec.at, Limit[rec.scope].short)'
    BY <1>4, <1>6
  <2>3. rec.pc = "long" =>
           Reached(rec.id, rec.colo, rec.scope, rec.at, Limit[rec.scope].long)'
    BY <1>4, <1>6
  <2>4. rec.pc = "envelope" =>
           \/ Reached(rec.id, rec.colo, "global", rec.at, Limit["global"].short)'
           \/ Reached(rec.id, rec.colo, "global", rec.at, Limit["global"].long)'
    BY <1>4, <1>6
  <2>5. rec.todo \in SUBSET {rec.scope, "global"}
    OBVIOUS
  <2> QED BY <1>7, <2>1, <2>2, <2>3, <2>4, <2>5, SoundNext
<1>10. \A k \in R!Key : \A q \in shard'[k] : q \in shard[k] \/ Paid(q, k, "shard")'
  BY <1>7 DEF Paid
<1> QED BY <1>1, <1>2, <1>9, <1>10, EarnedStep

LEMMA EarnedDecides ==
    ASSUME EarnedInv, R!TypeOK', Placed', Kept, NEW r \in Request, NEW i \in Identity,
           NEW s \in Scope, R!Decide(r, i, s)
    PROVE  EarnedInv'
<1>1. PICK lost \in BOOLEAN, swept \in SUBSET {k \in R!Key : R!Expired(k)} :
              /\ req' = [req EXCEPT ![r] = [R!Arrived(i, s, "shard") EXCEPT
                            !.pc = IF lost THEN "degraded" ELSE R!Judged(i, s)]]
              /\ \/ /\ R!Judged(i, s) = "allowed"
                    /\ shard' = [k \in R!Key |-> IF k \in Out(swept, i, s, r) THEN {}
                                                ELSE Full(swept, i, s, r)[k]]
                 \/ shard' = Rest(swept)
  BY DecideSays
<1> DEFINE p == IF lost THEN "degraded" ELSE R!Judged(i, s)
           rec == [R!Arrived(i, s, "shard") EXCEPT !.pc = p]
<1>2. p \in Answers /\ (p # "degraded" => p = R!Judged(i, s))
      /\ (R!Judged(i, s) = "allowed" => p \in LetThrough)
  BY JudgedIsKnown DEF Answers, LetThrough
<1>3. req' = [req EXCEPT ![r] = rec]
  BY <1>1
<1>4. req[r] = R!Idle /\ cache' = cache
  BY DEF R!Decide
<1>5. <<s, i>> \in R!Key /\ <<"global", i>> \in R!Key /\ s \in R!Route
      /\ "global" \in R!Route /\ now \in Nat /\ shard \in [R!Key -> SUBSET Request]
  BY DEF R!Key, R!Route, EarnedInv, R!TypeOK
<1> HIDE DEF p
<1>6. /\ rec \in RateRec /\ rec.pc = p /\ rec.id = i /\ rec.scope = s
      /\ rec.colo = "shard" /\ rec.at = now /\ rec.todo = {}
      /\ \A x \in R!Route : rec.seen[x] = {}
  <2>1. R!Arrived(i, s, "shard") \in RateRec
    BY ArrivedIsTyped DEF R!Place, EarnedInv
  <2> QED BY <1>2, <2>1 DEF RateRec, R!Arrived, Answers
<1> HIDE DEF rec
<1>7. \A x \in {s, "global"} :
         /\ R!Verdict(shard[<<x, i>>], x, now) = "short" =>
               Reached(i, "shard", x, now, Limit[x].short)
         /\ R!Verdict(shard[<<x, i>>], x, now) = "long" =>
               Reached(i, "shard", x, now, Limit[x].long)
  BY <1>5, VerdictReached DEF EarnedInv, StampsPaid
<1>8. /\ p = "short" => R!Verdict(shard[<<s, i>>], s, now) = "short"
      /\ p = "long" => R!Verdict(shard[<<s, i>>], s, now) = "long"
      /\ p = "envelope" =>
            R!Verdict(shard[<<"global", i>>], "global", now) \in {"short", "long"}
  <2>1. /\ R!Verdict(shard[<<s, i>>], s, now) \in {"ok", "short", "long"}
        /\ R!Verdict(shard[<<"global", i>>], "global", now) \in {"ok", "short", "long"}
    BY VerdictIsKnown
  <2>2. p \in {"short", "long", "envelope"} => p = R!Judged(i, s)
    BY <1>2
  <2> QED BY <2>1, <2>2 DEF R!Judged
<1>9. \A k \in R!Key : \A q \in shard'[k] :
               \/ q \in shard[k]
               \/ /\ q = r /\ p \in LetThrough
                  /\ i = k[2] /\ k[1] \in {s, "global"}
  <2>1. \A k \in R!Key : Rest(swept)[k] \subseteq shard[k]
    BY DEF Rest
  <2>2. \A k \in R!Key : \A q \in Full(swept, i, s, r)[k] :
           q \in shard[k] \/ (q = r /\ k \in {<<s, i>>, <<"global", i>>})
    BY <2>1 DEF Full, R!Charged, R!Live, R!Within, R!Buckets
  <2>3. CASE shard' = Rest(swept)
    BY <2>1, <2>3
  <2>4. CASE R!Judged(i, s) = "allowed" /\
             shard' = [k \in R!Key |-> IF k \in Out(swept, i, s, r) THEN {}
                                       ELSE Full(swept, i, s, r)[k]]
    <3>1. p \in LetThrough
      BY <1>2, <2>4
    <3>2. \A k \in R!Key : \A q \in shard'[k] : q \in Full(swept, i, s, r)[k]
      BY <2>4
    <3> QED BY <2>2, <3>1, <3>2
  <2> QED BY <1>1, <2>3, <2>4
<1>10. /\ p = "short" => Reached(i, "shard", s, now, Limit[s].short)
       /\ p = "long" => Reached(i, "shard", s, now, Limit[s].long)
       /\ p = "envelope" => \/ Reached(i, "shard", "global", now, Limit["global"].short)
                            \/ Reached(i, "shard", "global", now, Limit["global"].long)
  BY <1>7, <1>8
<1>11. /\ rec.pc = "short" =>
            Reached(rec.id, rec.colo, rec.scope, rec.at, Limit[rec.scope].short)
       /\ rec.pc = "long" =>
            Reached(rec.id, rec.colo, rec.scope, rec.at, Limit[rec.scope].long)
       /\ rec.pc = "envelope" =>
            \/ Reached(rec.id, rec.colo, "global", rec.at, Limit["global"].short)
            \/ Reached(rec.id, rec.colo, "global", rec.at, Limit["global"].long)
  BY <1>6, <1>10
<1>12. \A k \in R!Key : \A q \in shard'[k] :
               \/ q \in shard[k]
               \/ /\ q = r /\ rec.pc \in LetThrough /\ rec.colo = "shard"
                  /\ rec.id = k[2] /\ k[1] \in {rec.scope, "global"}
  BY <1>6, <1>9
<1> QED BY <1>3, <1>4, <1>6, <1>11, <1>12, EarnedArrives

LEMMA EarnedNext == EarnedInv /\ [R!Next]_(R!vars) => EarnedInv'
<1> SUFFICES ASSUME EarnedInv, [R!Next]_(R!vars) PROVE EarnedInv'
  OBVIOUS
<1>0. R!TypeOK' /\ Placed' /\ Kept
  <2>1. CASE R!Next
    BY <2>1, RateTypeNext DEF EarnedInv
  <2>2. CASE UNCHANGED R!vars
    BY <2>2 DEF EarnedInv, R!vars, R!TypeOK, Placed, Kept
  <2> QED BY <2>1, <2>2
<1>1. ASSUME NEW r \in Request, NEW i \in Identity, NEW s \in Scope, NEW c \in Colo,
             R!Begin(r, i, s, c)
      PROVE  EarnedInv'
  <2>1. R!Arrived(i, s, c) \in RateRec
    BY ArrivedIsTyped DEF EarnedInv, R!Place
  <2>2. R!Arrived(i, s, c).pc = "scope" /\ R!Arrived(i, s, c).todo = {}
        /\ \A x \in R!Route : R!Arrived(i, s, c).seen[x] = {}
    BY DEF R!Arrived
  <2>3. PICK rec \in RateRec : rec = R!Arrived(i, s, c)
    BY <2>1
  <2> QED BY <1>0, <1>1, <2>2, <2>3, EarnedArrives DEF R!Begin
<1>2. ASSUME NEW r \in Request, NEW i \in Identity, NEW s \in Scope, R!Unreached(r, i, s)
      PROVE  EarnedInv'
  <2> DEFINE a == [R!Arrived(i, s, "shard") EXCEPT !.pc = "degraded"]
  <2>1. R!Arrived(i, s, "shard") \in RateRec
    BY ArrivedIsTyped DEF EarnedInv, R!Place
  <2>2. a \in RateRec /\ a.pc = "degraded" /\ a.todo = {} /\ \A x \in R!Route : a.seen[x] = {}
    BY <2>1 DEF R!Arrived, RateRec
  <2>3. req' = [req EXCEPT ![r] = a] /\ req[r] = R!Idle /\ cache' = cache /\ shard' = shard
    BY <1>2 DEF R!Unreached
  <2> HIDE DEF a
  <2> QED BY <1>0, <2>2, <2>3, EarnedArrives
<1>3. ASSUME req' = req, \A c \in Colo, k \in R!Key : cache'[c][k] \subseteq cache[c][k],
             \A k \in R!Key : shard'[k] \subseteq shard[k]
      PROVE  EarnedInv'
  <2>1. CASE Request = {}
    <3>2. StampsPaid'
      BY <1>3, <2>1 DEF EarnedInv, StampsPaid, Paid
    <3> QED BY <1>0, <2>1, <3>2 DEF EarnedInv
  <2>2. ASSUME NEW r \in Request PROVE EarnedInv'
    BY <1>0, <1>3, EarnedStep DEF Final
  <2> QED BY <2>1, <2>2
<1>4. ASSUME NEW c \in Colo, NEW k \in R!Key, R!Lose(c, k)
      PROVE  EarnedInv'
  <2>1. \A d \in Colo, l \in R!Key : cache'[d][l] \subseteq cache[d][l]
    BY <1>4 DEF R!Lose, EarnedInv, R!TypeOK
  <2> QED BY <1>3, <1>4, <2>1 DEF R!Lose
<1>5. ASSUME R!Hibernate
      PROVE  EarnedInv'
  <2>1. \A k \in R!Key : shard'[k] \subseteq shard[k]
    BY <1>5 DEF R!Hibernate
  <2> QED BY <1>3, <1>5, <2>1 DEF R!Hibernate
<1>6. ASSUME R!Tick \/ UNCHANGED R!vars
      PROVE  EarnedInv'
  BY <1>3, <1>6 DEF R!Tick, R!vars
<1> QED BY <1>0, <1>1, <1>2, <1>4, <1>5, <1>6, EarnedReads, EarnedWrites, EarnedDecides
     DEF R!Next

\* checkRateLimit and handleDecide: on either back end a request is turned away only
\* if the limit's worth of requests of its identity was let through in the window
\* before it, whatever raced, failed, was evicted or was lost.
THEOREM NoUndueBlock == R!Spec => []R!BlockIsEarned
<1>1. R!Init => EarnedInv
  <2> SUFFICES ASSUME R!Init PROVE EarnedInv
    OBVIOUS
  <2>1. \A r \in Request : req[r] = R!Idle
    BY DEF R!Init
  <2>3. StampsPaid
    BY DEF R!Init, StampsPaid, R!Key
  <2> QED BY <2>1, <2>3, RateTypeInit DEF EarnedInv, Sound
<1>2. ASSUME EarnedInv PROVE R!BlockIsEarned
  <2> SUFFICES ASSUME NEW r \in Request, req[r].pc \in {"short", "long", "envelope"}
               PROVE
        LET past(x, ticks) ==
                {q \in Request : /\ req[q].pc \in {"writing", "allowed", "degraded"}
                                /\ req[q].id = req[r].id /\ req[q].colo = req[r].colo
                                /\ x \in {req[q].scope, "global"}
                                /\ req[r].at - req[q].at < ticks}
            full(x, w) == Cardinality(past(x, w.ticks)) >= w.max
        IN  CASE req[r].pc = "short" -> full(req[r].scope, Limit[req[r].scope].short)
              [] req[r].pc = "long"  -> full(req[r].scope, Limit[req[r].scope].long)
              [] OTHER -> full("global", Limit["global"].short)
                          \/ full("global", Limit["global"].long)
    BY SameCount DEF R!BlockIsEarned
  <2> DEFINE past(x, ticks) ==
                {q \in Request : /\ req[q].pc \in {"writing", "allowed", "degraded"}
                                /\ req[q].id = req[r].id /\ req[q].colo = req[r].colo
                                /\ x \in {req[q].scope, "global"}
                                /\ req[r].at - req[q].at < ticks}
  <2>1. Sound(r) /\ req[r] # R!Idle
    BY <1>2, IdleIsClosed DEF EarnedInv
  <2>2. \A x, ticks : past(x, ticks) = Counted(req[r].id, req[r].colo, x, req[r].at, ticks)
    BY DEF Counted, Paid, LetThrough
  <2>3. \A x, w : Reached(req[r].id, req[r].colo, x, req[r].at, w)
                    => Cardinality(past(x, w.ticks)) >= w.max
    BY <2>2 DEF Reached
  <2> HIDE DEF past
  <2>4. CASE req[r].pc = "short"
    BY <2>1, <2>3, <2>4 DEF Sound, past
  <2>5. CASE req[r].pc = "long"
    BY <2>1, <2>3, <2>5 DEF Sound, past
  <2>6. CASE req[r].pc = "envelope"
    BY <2>1, <2>3, <2>6 DEF Sound, past
  <2> QED BY <2>4, <2>5, <2>6
<1> QED BY <1>1, <1>2, EarnedNext, PTL DEF R!Spec
=============================================================================
