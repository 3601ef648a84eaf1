------------------------------- MODULE Upgrade -------------------------------
(***************************************************************************)
(* Upgrading an instance while it serves: `npm run upgrade`                *)
(* (scripts/upgrade.ts) and the migration runner it starts                 *)
(* (src/db/migrate.ts), over one checkout, one database and the Worker     *)
(* that is live, and the readers whose votes and reactions on a page meet  *)
(* the migration that added their totals (0032).                           *)
(*                                                                         *)
(* The operator's script checks the target out, migrates, deploys and then *)
(* recounts what the outgoing Worker left stale; it can fail or be killed  *)
(* at each of these, and be run again.  A request runs the code of the     *)
(* Worker it began on, even when another is deployed before it writes.     *)
(* What only waits for a prompt or is read without effect is left out, and *)
(* so are the bindings, the secrets, the re-rendering and                  *)
(* --skip-migrations, with which the operator asks for the wrong order.    *)
(***************************************************************************)
EXTENDS Naturals, FiniteSets

CONSTANTS
    Release,  \* the releases, 1 the one that is installed
    File,     \* migration files, numbered in the order they run
    Declared, \* the files in each release's manifest
    Once,     \* the files with an ALTER TABLE ADD COLUMN: a second run fails
    Totals,   \* 0032_page_engagement_totals.sql
    Oldest,   \* minPreviousVersion of each release's manifest
    Skips,    \* whether to consider a run with --skip-deploy
    User, Kind, Request,
    MaxFault  \* failures, deaths and misread answers of the operator's script

ASSUME ReleaseAssumption  == Release \subseteq Nat /\ 1 \in Release
ASSUME FileAssumption     == File \subseteq Nat /\ Totals \in File
ASSUME DeclaredAssumption ==
    /\ Declared \in [Release -> SUBSET File]
    /\ Oldest \in [Release -> Release]
    /\ \A v, w \in Release : v < w => Declared[v] \subseteq Declared[w]
ASSUME SkipAssumption     == Skips \in {{FALSE}, BOOLEAN}
ASSUME FaultAssumption    == MaxFault \in Nat
ASSUME UserAssumption     == IsFiniteSet(User)
ASSUME KindAssumption     == "vote" \notin Kind

VARIABLES
    checkout, \* the release whose files are on the operator's disk
    live,     \* the release whose Worker serves
    schema,   \* the files the database has been through
    ledger,   \* the names in _migrations
    pc,       \* what the script does next, "idle" when none runs
    to,       \* its target
    byHand,   \* whether it is `npm run migrate`, started by the operator
    pending,  \* plan.migrations.pending, [] for a migrate run by hand
    todo,     \* the files the migration runner has still to apply
    file,     \* the one it is at
    skip,     \* --skip-deploy
    outcome,  \* how the last upgrade ended
    faults,   \* of those, how many there were
    vote,     \* page_votes: of each user 1 up, 2 down or 0 for no row
    react,    \* page_reactions, pairs <<user, kind>>
    score,    \* posts.page_votes_up and page_votes_down
    count,    \* page_reaction_totals
    req,      \* what each request does next, and the release it began on
    runs,     \* history: how often each file was run before it was recorded
    lost,     \* history: how often it was run and then not recorded
    again,    \* history: runs of files that the ledger named
    misread,  \* history: answers that were taken for an empty ledger
    settled,  \* history: the totals were recounted for a Worker that keeps them
    late      \* history: slices an outgoing Worker's request wrote after that

disk   == <<checkout, live>>
db     == <<schema, ledger>>
script == <<pc, to, byHand, pending, todo, file, skip>>
rows   == <<vote, react>>
totals == <<score, count>>
past   == <<runs, lost, again, misread>>
exact  == <<settled, late>>
site   == <<rows, totals, req, exact>>
vars   == <<disk, db, script, outcome, faults, site, past>>

Idle  == [at |-> "idle"]
Phase == {"idle", "checkout", "verify", "install", "ledger", "migrate",
          "record", "deploy", "reconcile", "log"}

Up(f)    == Cardinality({u \in User : f[u] = 1})
Down(f)  == Cardinality({u \in User : f[u] = 2})
Votes(f) == [up |-> Up(f), down |-> Down(f)]
Count(S, k) == Cardinality({u \in User : <<u, k>> \in S})

TypeOK ==
    /\ checkout \in Release /\ live \in Release /\ to \in Release
    /\ schema \subseteq File /\ ledger \subseteq File
    /\ pc \in Phase /\ byHand \in BOOLEAN
    /\ pending \subseteq File /\ todo \subseteq File /\ file \in File
    /\ skip \in Skips
    /\ outcome \in {"none", "running", "stopped", "undeployed", "nothing", "ok"}
    /\ faults \in 0..MaxFault
    /\ vote \in [User -> 0..2] /\ react \subseteq User \X Kind
    /\ score \in [up : Nat, down : Nat] /\ count \in [Kind -> Nat]
    /\ runs \in [File -> Nat] /\ lost \in [File -> Nat]
    /\ again \in Nat /\ misread \in Nat
    /\ settled \in BOOLEAN /\ late \subseteq Kind \union {"vote"}

Init ==
    /\ checkout = 1 /\ live = 1
    /\ schema = Declared[1] /\ ledger = schema
    /\ pc = "idle" /\ to = 1 /\ byHand = FALSE
    /\ pending = {} /\ todo = {} /\ file = Totals /\ skip = FALSE
    /\ outcome = "none" /\ faults = 0
    /\ vote = [u \in User |-> 0] /\ react = {}
    /\ score = Votes(vote) /\ count = [k \in Kind |-> 0]
    /\ req = [r \in Request |-> Idle]
    /\ runs = [f \in File |-> IF f \in schema THEN 1 ELSE 0]
    /\ lost = [f \in File |-> 0] /\ again = 0 /\ misread = 0
    /\ settled = FALSE /\ late = {}

-----------------------------------------------------------------------------
(* npm run upgrade *)

\* main: the target is newer than the release on disk, its manifest allows the
\* step from there, it declares whatever is applied, and the operator agrees.
Begin(v) ==
    /\ pc = "idle" /\ v > checkout
    /\ Oldest[v] <= checkout
    /\ ledger \subseteq Declared[v]
    /\ pc' = "checkout" /\ to' = v /\ byHand' = FALSE /\ skip' \in Skips
    /\ pending' = Declared[v] \ ledger
    /\ outcome' = "running"
    /\ UNCHANGED <<disk, db, todo, file, faults, site, past>>

\* main: the target is the release on disk, and that is all it looks at.
NothingToDo ==
    /\ pc = "idle"
    /\ outcome' = "nothing"
    /\ UNCHANGED <<disk, db, script, faults, site, past>>

Goto(s) == pc' = s /\ UNCHANGED <<to, byHand, pending, todo, file, skip>>

\* The process ends, and what it had in memory is gone.
Exit ==
    /\ pc' = "idle" /\ to' = 1 /\ byHand' = FALSE
    /\ pending' = {} /\ todo' = {} /\ file' = Totals /\ skip' = FALSE

Checkout ==
    /\ pc = "checkout"
    /\ checkout' = to /\ Goto("verify")
    /\ UNCHANGED <<live, db, outcome, faults, site, past>>

\* The release-manifest.json on disk is the one that was fetched.
Verify ==
    /\ pc = "verify" /\ Goto("install")
    /\ UNCHANGED <<disk, db, outcome, faults, site, past>>

\* npm ci, and then the migrations when the plan had any.
Install ==
    /\ pc = "install"
    /\ Goto(IF pending = {} THEN "deploy" ELSE "ledger")
    /\ UNCHANGED <<disk, db, outcome, faults, site, past>>

\* Mutant: a migration runner that failed does not stop the deploy.
DeployAnyway ==
    /\ pc \in {"deploy", "migrate"} /\ ~byHand /\ ~skip
    /\ live' = to /\ Goto("reconcile")
    /\ UNCHANGED <<checkout, db, outcome, faults, site, past>>

\* wrangler deploy.
Deploy ==
    /\ pc = "deploy" /\ ~skip
    /\ live' = to /\ Goto("reconcile")
    /\ UNCHANGED <<checkout, db, outcome, faults, site, past>>

\* Logged, and the operator is told to deploy by hand.
DeployFails ==
    /\ pc = "deploy" /\ ~skip /\ faults < MaxFault
    /\ Exit /\ outcome' = "undeployed" /\ faults' = faults + 1
    /\ UNCHANGED <<disk, db, site, past>>

DeploySkipped ==
    /\ pc = "deploy" /\ skip
    /\ Exit /\ outcome' = "undeployed"
    /\ UNCHANGED <<disk, db, faults, site, past>>

\* src/db/post-deploy/0032_page_engagement_totals.sql.
Recount ==
    /\ score' = Votes(vote) /\ count' = [k \in Kind |-> Count(react, k)]
    /\ settled' = TRUE /\ late' = {}

\* runPostDeploy: the file of each migration that this run applied.
Reconcile ==
    /\ pc = "reconcile" /\ Goto("log")
    /\ IF Totals \in pending THEN Recount ELSE UNCHANGED <<totals, exact>>
    /\ UNCHANGED <<disk, db, outcome, faults, rows, req, past>>

\* It fails with a warning.
ReconcileFails ==
    /\ pc = "reconcile" /\ Totals \in pending /\ faults < MaxFault
    /\ Goto("log") /\ faults' = faults + 1
    /\ UNCHANGED <<disk, db, outcome, site, past>>

Log ==
    /\ pc = "log"
    /\ Exit /\ outcome' = "ok"
    /\ UNCHANGED <<disk, db, faults, site, past>>

\* A step of either script fails and ends it, or the script is killed: with
\* the file run and its name not recorded, at worst.
Stop ==
    /\ pc # "idle" /\ faults < MaxFault
    /\ Exit /\ faults' = faults + 1
    /\ outcome' = IF byHand THEN outcome ELSE "stopped"
    /\ lost' = IF pc = "record" /\ file \notin ledger
               THEN [lost EXCEPT ![file] = @ + 1] ELSE lost
    /\ UNCHANGED <<disk, db, site, runs, again, misread>>

-----------------------------------------------------------------------------
(* npm run migrate *)

\* Started by the operator, on the files that are on disk.
MigrateByHand ==
    /\ pc = "idle"
    /\ pc' = "ledger" /\ to' = checkout /\ byHand' = TRUE
    /\ pending' = {} /\ UNCHANGED <<todo, file, skip>>
    /\ UNCHANGED <<disk, db, outcome, faults, site, past>>

\* What the runner lists is what it then goes through.
Plans(files) ==
    /\ pc = "ledger" /\ todo' = files
    /\ pc' = "migrate" /\ UNCHANGED <<to, byHand, pending, file, skip>>
    /\ UNCHANGED <<disk, db, outcome, site, runs, lost, again>>

\* appliedSet; output that is no JSON ends the run (Stop).
ReadLedger == Plans(Declared[to] \ ledger) /\ UNCHANGED <<faults, misread>>

\* `parsed[0]?.results ?? []`: JSON of another shape is an empty ledger.
MisreadLedger ==
    /\ faults < MaxFault
    /\ Plans(Declared[to])
    /\ faults' = faults + 1 /\ misread' = misread + 1

First(f) == f \in todo /\ \A g \in todo : f <= g

\* One file goes through whole or not at all.  0032 counts what there is.
RunFile ==
    /\ pc = "migrate"
    /\ \E f \in File \ (Once \intersect schema) :
          /\ First(f)
          /\ schema' = schema \union {f}
          /\ IF f \in ledger THEN again' = again + 1 /\ UNCHANGED runs
             ELSE runs' = [runs EXCEPT ![f] = @ + 1] /\ UNCHANGED again
          /\ file' = f
    /\ pc' = "record" /\ UNCHANGED <<to, byHand, pending, todo, skip>>
    /\ IF file' = Totals
       THEN score' = Votes(vote) /\ count' = [k \in Kind |-> Count(react, k)]
       ELSE UNCHANGED totals
    /\ UNCHANGED <<disk, ledger, outcome, faults, rows, req, exact, lost, misread>>

\* The column is there already: the runner fails, and the upgrade with it.
FileRefused ==
    /\ pc = "migrate"
    /\ \E f \in Once \intersect schema : First(f)
    /\ Exit
    /\ outcome' = IF byHand THEN outcome ELSE "stopped"
    /\ UNCHANGED <<disk, db, faults, site, past>>

\* Mutant: a record that fails is passed over.
RecordOrNot ==
    /\ pc = "record"
    /\ ledger' \in {ledger, ledger \union {file}}
    /\ todo' = todo \ {file}
    /\ pc' = "migrate" /\ UNCHANGED <<to, byHand, pending, file, skip>>
    /\ UNCHANGED <<disk, schema, outcome, faults, site, past>>

\* recordApplied.
RecordFile ==
    /\ pc = "record" /\ file \notin ledger
    /\ ledger' = ledger \union {file}
    /\ todo' = todo \ {file}
    /\ pc' = "migrate" /\ UNCHANGED <<to, byHand, pending, file, skip>>
    /\ UNCHANGED <<disk, schema, outcome, faults, site, past>>

\* The names of _migrations are unique: the runner fails.
RecordRefused ==
    /\ pc = "record" /\ file \in ledger
    /\ Exit
    /\ outcome' = IF byHand THEN outcome ELSE "stopped"
    /\ UNCHANGED <<disk, db, faults, site, past>>

Migrated ==
    /\ pc = "migrate" /\ todo = {}
    /\ IF byHand THEN Exit ELSE Goto("deploy")
    /\ UNCHANGED <<disk, db, outcome, faults, site, past>>

-----------------------------------------------------------------------------
(* What the operator does by hand *)

\* npm run deploy, as an upgrade that did not deploy asks for.
DeployByHand ==
    /\ pc = "idle" /\ outcome = "undeployed"
    /\ live' = checkout /\ outcome' = "ok"
    /\ UNCHANGED <<checkout, db, script, faults, site, past>>

\* The file in src/db/post-deploy/, which asks to be run after that.
ReconcileByHand ==
    /\ pc = "idle" /\ outcome = "ok" /\ Totals \in Declared[live]
    /\ Recount
    /\ UNCHANGED <<disk, db, script, outcome, faults, rows, req, past>>

-----------------------------------------------------------------------------
(* Requests.  A Worker that knows of the totals recounts what it wrote in   *)
(* the same batch; one from before them does not.                           *)

Keeps(r) == Totals \in Declared[req[r].by]

Settle(r) == req' = [req EXCEPT ![r] = Idle]

\* What request r wrote to slice s is in the totals, or is not.
Note(r, s) == late' = IF Keeps(r) THEN late \ {s}
                      ELSE IF settled THEN late \union {s} ELSE late

\* POST /page/votes or /page/reactions, past its checks.
Arrive(r) ==
    /\ req[r] = Idle
    /\ \E u \in User :
          \/ \E value \in 0..2 :
                req' = [req EXCEPT ![r] = [at |-> "vote", by |-> live, user |-> u,
                                           value |-> value]]
          \/ \E k \in Kind :
                req' = [req EXCEPT ![r] = [at |-> "insert", by |-> live, user |-> u,
                                           kind |-> k]]
    /\ UNCHANGED <<disk, db, script, outcome, faults, rows, totals, exact, past>>

\* castPageVote's batch.
CastPageVote(r) ==
    /\ req[r].at = "vote"
    /\ vote' = [vote EXCEPT ![req[r].user] = req[r].value]
    /\ score' = IF Keeps(r) THEN Votes(vote') ELSE score
    /\ Note(r, "vote") /\ Settle(r)
    /\ UNCHANGED <<disk, db, script, outcome, faults, react, count, settled, past>>

RecountKind(r, k) ==
    count' = IF Keeps(r) THEN [count EXCEPT ![k] = Count(react', k)] ELSE count

\* togglePageReaction's first batch: it added the row, or the row was there.
AddReaction(r) ==
    /\ req[r].at = "insert"
    /\ LET row == <<req[r].user, req[r].kind>> IN
          /\ react' = react \union {row}
          /\ req' = [req EXCEPT ![r] = IF row \in react THEN [@ EXCEPT !.at = "delete"]
                                       ELSE Idle]
    /\ RecountKind(r, req[r].kind) /\ Note(r, req[r].kind)
    /\ UNCHANGED <<disk, db, script, outcome, faults, vote, score, settled, past>>

\* Mutant: the second batch is a single statement.
RemoveWithoutRecount(r) ==
    /\ req[r].at = "delete"
    /\ react' = react \ {<<req[r].user, req[r].kind>>}
    /\ Note(r, req[r].kind) /\ Settle(r)
    /\ UNCHANGED <<disk, db, script, outcome, faults, vote, score, count, settled, past>>

\* Its second: it takes the row away.
RemoveReaction(r) ==
    /\ req[r].at = "delete"
    /\ react' = react \ {<<req[r].user, req[r].kind>>}
    /\ RecountKind(r, req[r].kind) /\ Note(r, req[r].kind) /\ Settle(r)
    /\ UNCHANGED <<disk, db, script, outcome, faults, vote, score, settled, past>>

-----------------------------------------------------------------------------
UpgradeStep == \/ \E v \in Release : Begin(v)
               \/ NothingToDo \/ Checkout \/ Verify \/ Install
               \/ Deploy \/ DeployFails \/ DeploySkipped
               \/ Reconcile \/ ReconcileFails \/ Log \/ Stop
MigrateStep == ReadLedger \/ MisreadLedger \/ RunFile \/ FileRefused \/ RecordFile
               \/ RecordRefused \/ Migrated
HandStep    == MigrateByHand \/ DeployByHand \/ ReconcileByHand
RequestStep(r) == Arrive(r) \/ CastPageVote(r) \/ AddReaction(r) \/ RemoveReaction(r)

Next == UpgradeStep \/ MigrateStep \/ HandStep \/ \E r \in Request : RequestStep(r)

Spec == Init /\ [][Next]_vars

-----------------------------------------------------------------------------
(* Properties *)

\* The database has been through every migration of the Worker that serves,
\* however upgrades failed, were run again or were finished by hand: the order
\* "migrate before deploy" that applyPlan enforces.
SchemaBeforeCode == Declared[live] \subseteq schema

\* A migration file that is not recorded is run again only when a run that had
\* gone through it did not live to record it.  A file that is recorded is run
\* again only by a runner that took an answer of another shape for an empty
\* ledger, against what the comment in appliedSet wants; such a runner gets one
\* file too far and no further, for the name is there already (recordApplied).
RunAgainOnlyIfLost ==
    /\ \A f \in File : runs[f] <= 1 + lost[f]
    /\ again <= misread

\* Once the totals were recounted for the Worker that serves, they are what the
\* rows add up to, but where a request that had begun on the Worker before it
\* wrote later still: runPostDeploy and the recount of each write.
TotalsExact ==
    settled => /\ "vote" \in late \/ score = Votes(vote)
               /\ \A k \in Kind : k \in late \/ count[k] = Count(react, k)

\* A run that finds nothing to do finds the release on disk deployed, so that
\* running the upgrade again completes one that stopped.
NothingLeftToDo == outcome = "nothing" => live = checkout
=============================================================================
