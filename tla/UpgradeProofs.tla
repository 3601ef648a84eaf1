--------------------------- MODULE UpgradeProofs ---------------------------
(***************************************************************************)
(* Upgrade for every set of releases, migration files, readers, requests   *)
(* and every number of failures.                                           *)
(*                                                                         *)
(* SchemaBeforeCode is about what was deployed, so the argument follows    *)
(* the files of the target through the script: those the plan left out     *)
(* are in the ledger (PlanIsWhole), those the runner has not listed any    *)
(* more are in it too (RunnerIsWhole), the ledger names only files the     *)
(* database has been through (RecordedWasRun), and so a script that gets   *)
(* as far as the deploy finds them all there (DeployIsReady), and so does  *)
(* an operator who was told to deploy by hand (LeftIsReady).               *)
(***************************************************************************)
EXTENDS Upgrade, FiniteSetTheorems, TLAPS

\* What a request in flight has with it.
VoteReq  == [at : {"vote"}, by : Release, user : User, value : 0..2]
ReactReq == [at : {"insert", "delete"}, by : Release, user : User, kind : Kind]
ReqOK    == req \in [Request -> {Idle} \union VoteReq \union ReactReq]

RecordedWasRun == ledger \subseteq schema

\* Only the migration runner may be the operator's own; an upgrade whose files
\* are on disk works for the release on disk, and its end is not known yet.
PhaseOK ==
    /\ byHand => pc \in {"idle", "ledger", "migrate", "record"}
    /\ pc \notin {"idle", "checkout"} => to = checkout
    /\ pc # "idle" /\ ~byHand => outcome = "running"

\* Until it migrates, the plan lists what the target lacks.
PlanIsWhole ==
    pc \in {"checkout", "verify", "install"} => Declared[to] \subseteq ledger \union pending

\* The runner has yet to go through whatever the ledger does not name.
RunnerIsWhole ==
    /\ pc \in {"migrate", "record"} => Declared[to] \subseteq ledger \union todo
    /\ pc = "record" => file \in schema /\ file \in todo

DeployIsReady == pc \in {"deploy", "reconcile", "log"} => Declared[to] \subseteq schema
LeftIsReady   == outcome = "undeployed" => Declared[checkout] \subseteq schema

\* A file that the ledger does not name was run only by runs that were lost,
\* but for the one that is about to be recorded.
RunsAccountedFor ==
    \A f \in File : f \notin ledger =>
        \/ runs[f] <= lost[f]
        \/ pc = "record" /\ file = f /\ runs[f] <= 1 + lost[f]

\* A runner has a recorded file before it only if it misread the ledger, and
\* the first one it comes to is its last.
MisreadOnce ==
    /\ pc = "migrate" \/ (pc = "record" /\ file \notin ledger)
    /\ todo \intersect ledger # {}
    => again < misread

IInv == /\ TypeOK /\ ReqOK
        /\ RecordedWasRun /\ PhaseOK /\ PlanIsWhole /\ RunnerIsWhole
        /\ DeployIsReady /\ LeftIsReady /\ MisreadOnce
        /\ RunsAccountedFor
        /\ SchemaBeforeCode /\ RunAgainOnlyIfLost /\ TotalsExact

-----------------------------------------------------------------------------
(* The readers' rows *)

\* What the totals count is a number.
LEMMA CountIsNat ==
    ASSUME NEW f, NEW S, NEW k
    PROVE  /\ Votes(f) \in [up : Nat, down : Nat]
           /\ Count(S, k) \in Nat
<1>1. \A T \in SUBSET User : Cardinality(T) \in Nat
  BY FS_Subset, FS_CardinalityType, UserAssumption
<1>2. /\ {u \in User : f[u] = 1} \in SUBSET User
      /\ {u \in User : f[u] = 2} \in SUBSET User
      /\ {u \in User : <<u, k>> \in S} \in SUBSET User
  OBVIOUS
<1> QED BY <1>1, <1>2 DEF Votes, Up, Down, Count

\* The count of a kind is about the rows of that kind.
LEMMA CountIsByKind ==
    ASSUME NEW S, NEW T, NEW j,
           \A v \in User : <<v, j>> \in S <=> <<v, j>> \in T
    PROVE  Count(S, j) = Count(T, j)
<1>1. {v \in User : <<v, j>> \in S} = {v \in User : <<v, j>> \in T}
  OBVIOUS
<1> QED BY <1>1 DEF Count

\* What a script that has ended is left with.
LEMMA ExitOK ==
    /\ 1 \in Release /\ Totals \in File
    /\ FALSE \in Skips
<1>1. FALSE \in Skips
  BY SkipAssumption, Zenon
<1> QED BY <1>1, ReleaseAssumption, FileAssumption

LEMMA InitInv == Init => IInv
<1> SUFFICES ASSUME Init PROVE IInv OBVIOUS
<1> USE DEF Init
<1>1. TypeOK
  <2>1. score \in [up : Nat, down : Nat]
    BY CountIsNat
  <2>2. skip \in Skips
    BY SkipAssumption
  <2>3. schema \subseteq File /\ ledger \subseteq File /\ file \in File
    BY ReleaseAssumption, FileAssumption, DeclaredAssumption
  <2>4. /\ vote \in [User -> 0..2] /\ react \subseteq User \X Kind
        /\ count \in [Kind -> Nat] /\ faults \in 0..MaxFault
    BY FaultAssumption
  <2>5. runs \in [File -> Nat] /\ lost \in [File -> Nat]
    OBVIOUS
  <2> QED BY <2>1, <2>2, <2>3, <2>4, <2>5, ReleaseAssumption DEF TypeOK, Phase
<1>2. ReqOK
  BY DEF ReqOK
<1>3. /\ RecordedWasRun /\ PhaseOK /\ PlanIsWhole /\ RunnerIsWhole
      /\ DeployIsReady /\ LeftIsReady /\ SchemaBeforeCode /\ TotalsExact
  BY DEF RecordedWasRun, PhaseOK, PlanIsWhole, RunnerIsWhole, DeployIsReady,
         LeftIsReady, SchemaBeforeCode, TotalsExact
<1>4. RunsAccountedFor /\ RunAgainOnlyIfLost /\ MisreadOnce
  BY DEF RunsAccountedFor, RunAgainOnlyIfLost, MisreadOnce
<1> QED BY <1>1, <1>2, <1>3, <1>4 DEF IInv

-----------------------------------------------------------------------------
(* The scripts *)

\* A step that leaves the readers' rows and the totals alone.
LEMMA SiteUntouched ==
    ASSUME IInv, UNCHANGED <<vote, react, score, count, req, settled, late>>
    PROVE  /\ vote' \in [User -> 0..2] /\ react' \subseteq User \X Kind
           /\ score' \in [up : Nat, down : Nat] /\ count' \in [Kind -> Nat]
           /\ settled' \in BOOLEAN /\ late' \subseteq Kind \union {"vote"}
           /\ ReqOK' /\ TotalsExact'
BY DEF IInv, TypeOK, ReqOK, TotalsExact, Votes, Up, Down, Count

LEMMA UpgradeInv == IInv /\ UpgradeStep => IInv'
<1> SUFFICES ASSUME IInv, UpgradeStep PROVE IInv' OBVIOUS
<1> USE DEF IInv, TypeOK, PhaseOK, PlanIsWhole, RunnerIsWhole, RecordedWasRun,
            DeployIsReady, LeftIsReady, MisreadOnce, RunsAccountedFor,
            SchemaBeforeCode, RunAgainOnlyIfLost, disk, db, site, rows, totals, exact, past, script,
            Phase, Goto, Exit
<1>1. ASSUME NEW v \in Release, Begin(v) PROVE IInv'
  <2>1. UNCHANGED <<vote, react, score, count, req, settled, late>>
    BY <1>1 DEF Begin
  <2> QED BY <1>1, <2>1, SiteUntouched, DeclaredAssumption DEF Begin
<1>2. CASE NothingToDo
  <2>1. UNCHANGED <<vote, react, score, count, req, settled, late>>
    BY <1>2 DEF NothingToDo
  <2> QED BY <1>2, <2>1, SiteUntouched DEF NothingToDo
<1>3. CASE Checkout
  <2>1. UNCHANGED <<vote, react, score, count, req, settled, late>>
    BY <1>3 DEF Checkout
  <2> QED BY <1>3, <2>1, SiteUntouched DEF Checkout
<1>4. CASE Verify
  <2>1. UNCHANGED <<vote, react, score, count, req, settled, late>>
    BY <1>4 DEF Verify
  <2> QED BY <1>4, <2>1, SiteUntouched DEF Verify
<1>5. CASE Install
  <2>1. UNCHANGED <<vote, react, score, count, req, settled, late>>
    BY <1>5 DEF Install
  <2> QED BY <1>5, <2>1, SiteUntouched DEF Install
<1>6. CASE Deploy
  <2>1. UNCHANGED <<vote, react, score, count, req, settled, late>>
    BY <1>6 DEF Deploy
  <2> QED BY <1>6, <2>1, SiteUntouched DEF Deploy
<1>7. CASE DeployFails
  <2>1. UNCHANGED <<vote, react, score, count, req, settled, late>>
    BY <1>7 DEF DeployFails
  <2>2. faults' \in 0..MaxFault
    BY <1>7, FaultAssumption DEF DeployFails
  <2>3. TypeOK' /\ ReqOK' /\ TotalsExact'
    BY ONLY IInv, <1>7, <2>1, <2>2, SiteUntouched, ExitOK DEF DeployFails
  <2> QED BY <1>7, <2>1, <2>3 DEF DeployFails
<1>8. CASE DeploySkipped
  <2>1. UNCHANGED <<vote, react, score, count, req, settled, late>>
    BY <1>8 DEF DeploySkipped
  <2> QED BY <1>8, <2>1, SiteUntouched, ExitOK DEF DeploySkipped
<1>9. CASE Log
  <2>1. UNCHANGED <<vote, react, score, count, req, settled, late>>
    BY <1>9 DEF Log
  <2> QED BY <1>9, <2>1, SiteUntouched, ExitOK DEF Log
<1>10. CASE ReconcileFails
  <2>1. UNCHANGED <<vote, react, score, count, req, settled, late>>
    BY <1>10 DEF ReconcileFails
  <2> QED BY <1>10, <2>1, SiteUntouched, FaultAssumption DEF ReconcileFails
<1>11. CASE Stop
  <2>1. UNCHANGED <<vote, react, score, count, req, settled, late>>
    BY <1>11 DEF Stop
  <2>2. lost' \in [File -> Nat] /\ \A f \in File : lost[f] <= lost'[f]
    BY <1>11 DEF Stop
  <2>3. pc = "record" /\ file \notin ledger => lost'[file] = lost[file] + 1
    BY <1>11 DEF Stop
  <2>4. UNCHANGED <<runs, ledger, schema, again, misread>>
    BY <1>11 DEF Stop
  <2>5. ASSUME NEW f \in File, f \notin ledger PROVE runs[f] <= lost'[f]
    <3>1. runs[f] <= lost[f] \/ (pc = "record" /\ file = f /\ runs[f] <= 1 + lost[f])
      BY <2>5
    <3>2. runs[f] \in Nat /\ lost[f] \in Nat /\ lost'[f] \in Nat /\ lost[f] <= lost'[f]
      BY <2>2
    <3> QED BY ONLY <2>5, <3>1, <3>2, <2>3
  <2>6. RunsAccountedFor' /\ RunAgainOnlyIfLost'
    <3>1. RunsAccountedFor'
      BY ONLY <2>4, <2>5 DEF RunsAccountedFor
    <3>2. ASSUME NEW f \in File PROVE runs[f] <= 1 + lost'[f]
      <4>1. runs[f] \in Nat /\ lost[f] \in Nat /\ lost'[f] \in Nat /\ lost[f] <= lost'[f]
        BY <2>2
      <4>2. runs[f] <= 1 + lost[f]
        OBVIOUS
      <4> QED BY ONLY <4>1, <4>2
    <3>3. again' <= misread'
      BY <2>4
    <3>4. \A f \in File : runs'[f] <= 1 + lost'[f]
      BY ONLY <3>2, <2>4
    <3> QED BY ONLY <3>1, <3>3, <3>4 DEF RunAgainOnlyIfLost
  <2>7. ReqOK' /\ TotalsExact' /\ TypeOK'
    <3>1. faults' \in 0..MaxFault
      BY <1>11, FaultAssumption DEF Stop
    <3> QED BY ONLY IInv, <1>11, <2>1, <2>2, <3>1, SiteUntouched, ExitOK DEF Stop
  <2>8. /\ RecordedWasRun' /\ PhaseOK' /\ PlanIsWhole' /\ RunnerIsWhole'
        /\ DeployIsReady' /\ LeftIsReady' /\ SchemaBeforeCode' /\ MisreadOnce'
    BY <1>11 DEF Stop
  <2> QED BY ONLY <2>6, <2>7, <2>8 DEF IInv
<1>12. CASE Reconcile
  <2>1. UNCHANGED <<vote, react, req>> /\ ReqOK'
    BY <1>12 DEF Reconcile, ReqOK
  <2>2. /\ score' \in [up : Nat, down : Nat] /\ count' \in [Kind -> Nat]
        /\ settled' \in BOOLEAN /\ late' \subseteq Kind \union {"vote"}
    <3>1. CASE Totals \in pending
      <4>1. /\ score' = Votes(vote) /\ count' = [k \in Kind |-> Count(react, k)]
            /\ settled' = TRUE /\ late' = {}
        BY <1>12, <3>1 DEF Reconcile, Recount
      <4>2. Votes(vote) \in [up : Nat, down : Nat]
            /\ \A k \in Kind : Count(react, k) \in Nat
        BY CountIsNat
      <4> QED BY ONLY <4>1, <4>2
    <3>2. CASE Totals \notin pending
      BY <1>12, <3>2 DEF Reconcile
    <3> QED BY <3>1, <3>2
  <2>3. TotalsExact'
    <3>1. CASE Totals \in pending
      <4>1. /\ score' = Votes(vote) /\ count' = [k \in Kind |-> Count(react, k)]
            /\ vote' = vote /\ react' = react
        BY <1>12, <2>1, <3>1 DEF Reconcile, Recount
      <4>2. score' = Votes(vote)' /\ \A k \in Kind : count'[k] = Count(react, k)'
        BY ONLY <4>1 DEF Votes, Up, Down, Count
      <4> QED BY ONLY <4>2 DEF TotalsExact
    <3>2. CASE Totals \notin pending
      <4>1. UNCHANGED <<vote, react, score, count, settled, late>>
        BY <1>12, <2>1, <3>2 DEF Reconcile
      <4>2. TotalsExact
        OBVIOUS
      <4> QED BY ONLY <4>1, <4>2 DEF TotalsExact, Votes, Up, Down, Count
    <3> QED BY <3>1, <3>2
  <2> QED BY <1>12, <2>1, <2>2, <2>3 DEF Reconcile
<1> QED BY <1>1, <1>2, <1>3, <1>4, <1>5, <1>6, <1>7, <1>8, <1>9, <1>10, <1>11, <1>12
       DEF UpgradeStep

LEMMA MigrateInv == IInv /\ MigrateStep => IInv'
<1> SUFFICES ASSUME IInv, MigrateStep PROVE IInv' OBVIOUS
<1> USE DEF IInv, TypeOK, PhaseOK, PlanIsWhole, RunnerIsWhole, RecordedWasRun,
            DeployIsReady, LeftIsReady, MisreadOnce, RunsAccountedFor,
            SchemaBeforeCode, RunAgainOnlyIfLost, disk, db, site, rows, totals, exact, past, script,
            Phase, Goto, Exit
<1>1. CASE ReadLedger
  <2>1. UNCHANGED <<vote, react, score, count, req, settled, late>>
    BY <1>1 DEF ReadLedger, Plans
  <2> QED BY <1>1, <2>1, SiteUntouched, DeclaredAssumption DEF ReadLedger, Plans
<1>2. CASE MisreadLedger
  <2>1. UNCHANGED <<vote, react, score, count, req, settled, late>>
    BY <1>2 DEF MisreadLedger, Plans
  <2>2. TypeOK' /\ ReqOK' /\ TotalsExact'
    BY <1>2, <2>1, SiteUntouched, DeclaredAssumption, FaultAssumption DEF MisreadLedger, Plans
  <2>3. MisreadOnce' /\ RunAgainOnlyIfLost'
    BY <1>2 DEF MisreadLedger, Plans
  <2>4. /\ RecordedWasRun' /\ PhaseOK' /\ PlanIsWhole' /\ RunnerIsWhole'
        /\ DeployIsReady' /\ LeftIsReady' /\ SchemaBeforeCode' /\ RunsAccountedFor'
    BY <1>2, DeclaredAssumption DEF MisreadLedger, Plans
  <2> QED BY ONLY <2>2, <2>3, <2>4 DEF IInv
<1>3. CASE RunFile
  <2>1. PICK f \in File :
           /\ First(f) /\ file' = f
           /\ schema' = schema \union {f}
           /\ IF f \in ledger THEN again' = again + 1 /\ UNCHANGED runs
              ELSE runs' = [runs EXCEPT ![f] = @ + 1] /\ UNCHANGED again
    BY <1>3 DEF RunFile
  <2>2. /\ pc = "migrate" /\ pc' = "record"
        /\ UNCHANGED <<checkout, live, ledger, to, byHand, pending, todo, skip,
                       outcome, faults, vote, react, req, settled, late, lost, misread>>
    BY <1>3 DEF RunFile
  <2>3. f \in todo
    BY <2>1 DEF First
  <2>4. /\ score' \in [up : Nat, down : Nat] /\ count' \in [Kind -> Nat]
        /\ TotalsExact'
    <3>1. CASE file' = Totals
      <4>1. score' = Votes(vote) /\ count' = [k \in Kind |-> Count(react, k)]
        BY <1>3, <3>1 DEF RunFile
      <4>2. /\ Votes(vote) \in [up : Nat, down : Nat]
            /\ \A k \in Kind : Count(react, k) \in Nat
        BY CountIsNat
      <4> QED BY ONLY <4>1, <4>2, <2>2 DEF TotalsExact, Votes, Up, Down, Count
    <3>2. CASE file' # Totals
      <4>1. UNCHANGED <<score, count>>
        BY <1>3, <3>2 DEF RunFile
      <4> QED BY <4>1, <2>2, SiteUntouched
    <3> QED BY <3>1, <3>2
  <2>5. /\ runs' \in [File -> Nat] /\ again' \in Nat
        /\ \A g \in File : g # f => runs'[g] = runs[g]
        /\ f \notin ledger => runs'[f] = runs[f] + 1
        /\ f \in ledger => runs' = runs
    BY <2>1
  <2>6. RunsAccountedFor' /\ \A g \in File : runs'[g] <= 1 + lost'[g]
    <3>1. CASE f \in ledger
      BY <2>1, <2>2, <2>5, <3>1
    <3>2. CASE f \notin ledger
      <4>1. runs[f] <= lost[f] /\ runs[f] \in Nat /\ lost[f] \in Nat
        BY <2>2, <3>2
      <4>2. runs'[f] <= 1 + lost[f]
        BY ONLY <2>5, <3>2, <4>1
      <4> QED BY <2>1, <2>2, <2>5, <4>2
    <3> QED BY <3>1, <3>2
  <2>7. MisreadOnce' /\ again' <= misread'
    <3>1. CASE f \in ledger
      <4>1. again < misread
        <5>1. todo \intersect ledger # {}
          BY <2>3, <3>1
        <5>2. MisreadOnce
          BY DEF IInv
        <5> QED BY ONLY <5>1, <5>2, <2>2 DEF MisreadOnce
      <4>2. again' = again + 1 /\ again \in Nat /\ misread \in Nat
        BY <2>1, <3>1
      <4>3. again' <= misread'
        BY ONLY <2>2, <4>1, <4>2
      <4> QED BY <2>1, <2>2, <3>1, <4>3
    <3>2. CASE f \notin ledger
      <4>1. again' = again
        BY <2>1, <3>2
      <4>2. MisreadOnce /\ again <= misread
        BY DEF IInv
      <4> QED BY ONLY <4>1, <4>2, <2>2 DEF MisreadOnce
    <3> QED BY <3>1, <3>2
  <2>8. ReqOK'
    BY <2>2 DEF ReqOK
  <2> QED BY <2>1, <2>2, <2>3, <2>4, <2>5, <2>6, <2>7, <2>8
<1>4. CASE FileRefused
  <2>1. UNCHANGED <<vote, react, score, count, req, settled, late>>
    BY <1>4 DEF FileRefused
  <2> QED BY <1>4, <2>1, SiteUntouched, ExitOK DEF FileRefused
<1>5. CASE RecordFile
  <2>1. UNCHANGED <<vote, react, score, count, req, settled, late>>
    BY <1>5 DEF RecordFile
  <2>2. RunsAccountedFor' /\ MisreadOnce'
    BY <1>5 DEF RecordFile
  <2> QED BY <1>5, <2>1, <2>2, SiteUntouched DEF RecordFile
<1>6. CASE RecordRefused
  <2>1. UNCHANGED <<vote, react, score, count, req, settled, late>>
    BY <1>6 DEF RecordRefused
  <2> QED BY <1>6, <2>1, SiteUntouched, ExitOK DEF RecordRefused
<1>7. CASE Migrated
  <2>1. UNCHANGED <<vote, react, score, count, req, settled, late>>
    BY <1>7 DEF Migrated
  <2> QED BY <1>7, <2>1, SiteUntouched, ExitOK DEF Migrated
<1> QED BY <1>1, <1>2, <1>3, <1>4, <1>5, <1>6, <1>7 DEF MigrateStep

LEMMA HandInv == IInv /\ HandStep => IInv'
<1> SUFFICES ASSUME IInv, HandStep PROVE IInv' OBVIOUS
<1> USE DEF IInv, TypeOK, PhaseOK, PlanIsWhole, RunnerIsWhole, RecordedWasRun,
            DeployIsReady, LeftIsReady, MisreadOnce, RunsAccountedFor,
            SchemaBeforeCode, RunAgainOnlyIfLost, disk, db, site, rows, totals, exact, past, script,
            Phase
<1>1. CASE MigrateByHand
  <2>1. UNCHANGED <<vote, react, score, count, req, settled, late>>
    BY <1>1 DEF MigrateByHand
  <2> QED BY <1>1, <2>1, SiteUntouched DEF MigrateByHand
<1>2. CASE DeployByHand
  <2>1. UNCHANGED <<vote, react, score, count, req, settled, late>>
    BY <1>2 DEF DeployByHand
  <2> QED BY <1>2, <2>1, SiteUntouched DEF DeployByHand
<1>3. CASE ReconcileByHand
  <2>1. UNCHANGED <<vote, react, req>> /\ ReqOK'
    BY <1>3 DEF ReconcileByHand, ReqOK
  <2>2. /\ score' = Votes(vote) /\ count' = [k \in Kind |-> Count(react, k)]
        /\ settled' = TRUE /\ late' = {}
    BY <1>3 DEF ReconcileByHand, Recount
  <2>3. /\ Votes(vote) \in [up : Nat, down : Nat]
        /\ \A k \in Kind : Count(react, k) \in Nat
    BY CountIsNat
  <2>4. /\ score' \in [up : Nat, down : Nat] /\ count' \in [Kind -> Nat]
        /\ settled' \in BOOLEAN /\ late' \subseteq Kind \union {"vote"}
    BY ONLY <2>2, <2>3
  <2>5. TotalsExact'
    BY ONLY <2>1, <2>2 DEF TotalsExact, Votes, Up, Down, Count
  <2> QED BY <1>3, <2>1, <2>4, <2>5 DEF ReconcileByHand
<1> QED BY <1>1, <1>2, <1>3 DEF HandStep

-----------------------------------------------------------------------------
(* The requests *)

\* A step that leaves the release, the database and the scripts alone.
LEMMA ScriptsUntouched ==
    ASSUME IInv, UNCHANGED <<disk, db, script, outcome, faults, past>>,
           vote' \in [User -> 0..2], react' \subseteq User \X Kind,
           score' \in [up : Nat, down : Nat], count' \in [Kind -> Nat],
           settled' = settled, late' \subseteq Kind \union {"vote"},
           ReqOK', TotalsExact'
    PROVE  IInv'
BY DEF IInv, TypeOK, PhaseOK, PlanIsWhole, RunnerIsWhole, RecordedWasRun,
       DeployIsReady, LeftIsReady, MisreadOnce, RunsAccountedFor,
       SchemaBeforeCode, RunAgainOnlyIfLost, disk, db, past, script

\* What the handler that has yet to write knows of its request.
LEMMA ReqShape ==
    ASSUME ReqOK, NEW r \in Request
    PROVE  /\ req[r].at = "vote" => req[r] \in VoteReq
           /\ req[r].at \in {"insert", "delete"} => req[r] \in ReactReq
BY DEF ReqOK, Idle, VoteReq, ReactReq

LEMMA RequestInv == IInv /\ (\E r \in Request : RequestStep(r)) => IInv'
<1> SUFFICES ASSUME IInv, NEW r \in Request, RequestStep(r) PROVE IInv'
  OBVIOUS
<1> USE DEF IInv, site, rows, totals, exact
<1>1. CASE Arrive(r)
  <2>1. UNCHANGED <<vote, react, score, count, settled, late>>
    BY <1>1 DEF Arrive
  <2>2. ReqOK'
    <3>1. \/ \E u \in User, value \in 0..2 :
                req' = [req EXCEPT ![r] = [at |-> "vote", by |-> live, user |-> u,
                                           value |-> value]]
          \/ \E u \in User, k \in Kind :
                req' = [req EXCEPT ![r] = [at |-> "insert", by |-> live, user |-> u,
                                           kind |-> k]]
      BY <1>1 DEF Arrive
    <3>2. \E q \in VoteReq \union ReactReq : req' = [req EXCEPT ![r] = q]
      BY <3>1 DEF VoteReq, ReactReq, TypeOK
    <3> QED BY <3>2 DEF ReqOK
  <2>3. TotalsExact'
    BY <2>1 DEF TotalsExact, Votes, Up, Down, Count
  <2> QED BY <1>1, <2>1, <2>2, <2>3, ScriptsUntouched DEF Arrive, TypeOK
<1>2. CASE CastPageVote(r)
  <2>1. req[r] \in VoteReq
    BY <1>2, ReqShape DEF CastPageVote
  <2>2. vote' = [vote EXCEPT ![req[r].user] = req[r].value]
        /\ vote' \in [User -> 0..2]
    BY <1>2, <2>1 DEF CastPageVote, VoteReq, TypeOK
  <2>3. ReqOK'
    BY <1>2 DEF CastPageVote, Settle, ReqOK
  <2>4. /\ score' = IF Keeps(r) THEN Votes(vote') ELSE score
        /\ UNCHANGED <<react, count, settled>>
        /\ Note(r, "vote")
    BY <1>2 DEF CastPageVote
  <2>5. score' \in [up : Nat, down : Nat]
    <3>1. Votes(vote') \in [up : Nat, down : Nat]
      BY CountIsNat
    <3> QED BY ONLY <3>1, <2>4, IInv DEF IInv, TypeOK
  <2>6. late' \subseteq Kind \union {"vote"}
    BY <2>4 DEF Note, TypeOK
  <2>7. TotalsExact'
    <3>1. settled /\ "vote" \notin late' => score' = Votes(vote')
      BY <2>4, <2>6 DEF Note, TotalsExact
    <3>2. \A k \in Kind : k \notin late' => k \notin late
      BY <2>4, KindAssumption DEF Note
    <3> QED BY <2>4, <3>1, <3>2 DEF TotalsExact, Votes, Up, Down, Count
  <2> QED BY <1>2, <2>2, <2>3, <2>4, <2>5, <2>6, <2>7, ScriptsUntouched DEF CastPageVote, TypeOK
<1>3. CASE AddReaction(r)
  <2> DEFINE u == req[r].user
             k == req[r].kind
  <2>1. req[r] \in ReactReq /\ u \in User /\ k \in Kind
    BY <1>3, ReqShape DEF AddReaction, ReactReq
  <2>2. react' = react \union {<<u, k>>}
    BY <1>3 DEF AddReaction
  <2>3. ReqOK'
    BY <1>3, <2>1 DEF AddReaction, ReqOK, ReactReq
  <2>4. RecountKind(r, k) /\ Note(r, k) /\ UNCHANGED <<vote, score, settled>>
    BY <1>3 DEF AddReaction
  <2> HIDE DEF u, k
  <2>5. \A j \in Kind : j # k => Count(react', j) = Count(react, j)
    <3> SUFFICES ASSUME NEW j \in Kind, j # k PROVE Count(react', j) = Count(react, j)
      OBVIOUS
    <3>1. \A v \in User : <<v, j>> \in react' <=> <<v, j>> \in react
      BY <2>2
    <3> QED BY <3>1, CountIsByKind
  <2>6. count' \in [Kind -> Nat] /\ late' \subseteq Kind \union {"vote"}
    <3>1. Count(react', k) \in Nat
      BY CountIsNat
    <3> QED BY <3>1, <2>1, <2>4 DEF RecountKind, Note, TypeOK
  <2>7. TotalsExact'
    <3>1. ASSUME settled, NEW j \in Kind, j \notin late' PROVE count'[j] = Count(react', j)
      <4>1. CASE j = k
        BY <3>1, <4>1, <2>4 DEF RecountKind, Note, TypeOK
      <4>2. CASE j # k
        <5>1. j \notin late /\ count'[j] = count[j]
          BY <3>1, <4>2, <2>4 DEF RecountKind, Note, TypeOK
        <5> QED BY <5>1, <4>2, <3>1, <2>5 DEF TotalsExact
      <4> QED BY <4>1, <4>2
    <3>2. "vote" \notin late' => "vote" \notin late
      BY <2>1, <2>4, KindAssumption DEF Note
    <3> QED BY <2>4, <3>1, <3>2 DEF TotalsExact, Votes, Up, Down
  <2> QED BY <1>3, <2>1, <2>2, <2>3, <2>4, <2>6, <2>7, ScriptsUntouched DEF AddReaction, TypeOK
<1>4. CASE RemoveReaction(r)
  <2> DEFINE u == req[r].user
             k == req[r].kind
  <2>1. req[r] \in ReactReq /\ u \in User /\ k \in Kind
    BY <1>4, ReqShape DEF RemoveReaction, ReactReq
  <2>2. react' = react \ {<<u, k>>}
    BY <1>4 DEF RemoveReaction
  <2>3. ReqOK'
    BY <1>4 DEF RemoveReaction, Settle, ReqOK
  <2>4. RecountKind(r, k) /\ Note(r, k) /\ UNCHANGED <<vote, score, settled>>
    BY <1>4 DEF RemoveReaction
  <2> HIDE DEF u, k
  <2>5. \A j \in Kind : j # k => Count(react', j) = Count(react, j)
    <3> SUFFICES ASSUME NEW j \in Kind, j # k PROVE Count(react', j) = Count(react, j)
      OBVIOUS
    <3>1. \A v \in User : <<v, j>> \in react' <=> <<v, j>> \in react
      BY <2>2
    <3> QED BY <3>1, CountIsByKind
  <2>6. count' \in [Kind -> Nat] /\ late' \subseteq Kind \union {"vote"}
    <3>1. Count(react', k) \in Nat
      BY CountIsNat
    <3> QED BY <3>1, <2>1, <2>4 DEF RecountKind, Note, TypeOK
  <2>7. TotalsExact'
    <3>1. ASSUME settled, NEW j \in Kind, j \notin late' PROVE count'[j] = Count(react', j)
      <4>1. CASE j = k
        BY <3>1, <4>1, <2>4 DEF RecountKind, Note, TypeOK
      <4>2. CASE j # k
        <5>1. j \notin late /\ count'[j] = count[j]
          BY <3>1, <4>2, <2>4 DEF RecountKind, Note, TypeOK
        <5> QED BY <5>1, <4>2, <3>1, <2>5 DEF TotalsExact
      <4> QED BY <4>1, <4>2
    <3>2. "vote" \notin late' => "vote" \notin late
      BY <2>1, <2>4, KindAssumption DEF Note
    <3> QED BY <2>4, <3>1, <3>2 DEF TotalsExact, Votes, Up, Down
  <2> QED BY <1>4, <2>1, <2>2, <2>3, <2>4, <2>6, <2>7, ScriptsUntouched DEF RemoveReaction, TypeOK
<1> QED BY <1>1, <1>2, <1>3, <1>4 DEF RequestStep

LEMMA StutterInv == IInv /\ UNCHANGED vars => IInv'
<1> SUFFICES ASSUME IInv, UNCHANGED vars PROVE IInv' OBVIOUS
<1>1. UNCHANGED <<vote, react, score, count, req, settled, late>>
  BY DEF vars, site, rows, totals, exact
<1>2. UNCHANGED <<disk, db, script, outcome, faults, past>>
  BY DEF vars
<1> QED BY <1>1, <1>2, SiteUntouched, ScriptsUntouched

-----------------------------------------------------------------------------
\* Every reachable state satisfies the inductive invariant.
THEOREM UpgradeInvariant == Spec => []IInv
<1>1. IInv /\ [Next]_vars => IInv'
  BY UpgradeInv, MigrateInv, HandInv, RequestInv, StutterInv DEF Next
<1> QED BY InitInv, <1>1, PTL DEF Spec

\* The scripts, the database and the requests keep their shape, and the totals
\* are never negative: each is a count.
THEOREM TypeCorrect == Spec => []TypeOK
BY UpgradeInvariant, PTL DEF IInv

\* No Worker ever serves without a migration it declares: applyPlan, however
\* it fails, is killed, is run again or is finished by hand.
THEOREM MigratedBeforeDeployed == Spec => []SchemaBeforeCode
BY UpgradeInvariant, PTL DEF IInv

\* appliedSet and recordApplied: a migration that is not recorded is run again
\* only after a run whose record was lost, and one that is recorded only by a
\* runner that took the ledger for an empty one.
THEOREM RunOnceUnlessLost == Spec => []RunAgainOnlyIfLost
BY UpgradeInvariant, PTL DEF IInv

\* runPostDeploy and the recount of every write: the totals of a page are what
\* its rows add up to, but where an outgoing Worker wrote last.
THEOREM TotalsAreCounts == Spec => []TotalsExact
BY UpgradeInvariant, PTL DEF IInv
=============================================================================
