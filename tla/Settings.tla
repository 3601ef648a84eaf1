------------------------------ MODULE Settings ------------------------------
(***************************************************************************)
(* The settings layer: rows of the `settings` table over environment       *)
(* variables over defaults (lib/settings.ts), the memo each isolate keeps  *)
(* of the resolved whole, and POST /admin/settings, which writes row by    *)
(* row, awaiting each, and then drops the memo of its own isolate.         *)
(*                                                                         *)
(* One derivation is shared by all who ask while it runs; it reads the     *)
(* rows, and resolves and publishes some time later, unless a save dropped *)
(* the memo meanwhile.  Values are numbers: 0 and 1 of a flag, the options *)
(* of a string, the length of a text.                                      *)
(***************************************************************************)
EXTENDS Integers, Sequences

CONSTANTS
    Key,       \* the settings considered
    Group,     \* which of the four groups a setting is in
    Env,       \* what the deploy gives it, perhaps Absent
    Value,     \* what operators ask for
    Isolate, Request,
    Memo,      \* SETTINGS_MEMO_MS, in ticks
    MaxDerive, \* ticks a derivation takes at most
    MaxSaves,  \* saves begun
    MaxNow     \* the last tick

VARIABLES
    now,
    row,      \* the settings table
    memo,     \* of each isolate, none or the one resolved whole and its time
    inFlight, \* the request whose derivation others join, or None
    stale,    \* derivations under way that a bust detached
    req,      \* what each request does next
    saves,    \* saves begun
    log,      \* history: what each row has meant, and since when
    acked     \* history: per isolate, how much of log its last bust covers

vars == <<now, row, memo, inFlight, stale, req, saves, log, acked>>

Absent == -2
Junk   == -1
None   == "none"
Low    == 1                     \* bounds of a number, and a text's cap
High   == 2
Option == {1, 2}                \* of a string
Idle   == [at |-> "idle"]

Default(k) == IF Group[k] = "text" THEN 0 ELSE 1
Clamp(n)   == IF n < Low THEN Low ELSE IF n > High THEN High ELSE n

\* parseBool, parseIntSetting, parseStringSetting, parseTextSetting.
Parse(k, raw) ==
    CASE raw \in {Absent, Junk}  -> Default(k)
      [] Group[k] = "flag"       -> IF raw = 0 THEN 0 ELSE 1
      [] Group[k] = "number"     -> Clamp(raw)
      [] Group[k] = "string"     -> IF raw \in Option THEN raw ELSE Default(k)
      [] OTHER                   -> IF raw > High THEN High ELSE raw

\* A row wins over the environment even when it cannot be parsed.
Resolve(k, table) == Parse(k, IF table[k] = Absent THEN Env[k] ELSE table[k])

\* What the save path takes, and how it stores it: numbers are clamped,
\* strings off the list and texts over the cap refuse the whole request.
Accepted(k, v) == CASE Group[k] = "flag"   -> v \in {0, 1}
                    [] Group[k] = "string" -> v \in Option
                    [] Group[k] = "text"   -> v <= High
                    [] OTHER               -> TRUE
Stored(k, v) == IF Group[k] = "number" THEN Clamp(v) ELSE v

Table == [Key -> Nat \cup {Absent, Junk}]
Whole == [Key -> Nat]

TypeOK ==
    /\ now \in 0..MaxNow /\ saves \in 0..MaxSaves
    /\ row \in Table
    /\ memo \in [Isolate -> SUBSET [value : Whole, at : 0..now]]
    /\ inFlight \in [Isolate -> Request \cup {None}]
    /\ stale \in SUBSET Request
    /\ log \in [Key -> Seq([v : Nat, t : 0..now])]
    /\ acked \in [Isolate -> [Key -> Nat]]
    /\ DOMAIN req = Request

Init ==
    /\ now = 0 /\ saves = 0
    /\ row \in [Key -> {Absent, Junk}]
    /\ memo = [i \in Isolate |-> {}]
    /\ inFlight = [i \in Isolate |-> None] /\ stale = {}
    /\ req = [r \in Request |-> Idle]
    /\ log = [k \in Key |-> <<[v |-> Resolve(k, row), t |-> 0]>>]
    /\ acked = [i \in Isolate |-> [k \in Key |-> 1]]

-----------------------------------------------------------------------------
(* loadSettings *)

\* The entries of the log that a load that begins now must have seen: what a
\* save of its own isolate told, and what is older than a memo and its derivation.
Floor(i) == [k \in Key |-> {n \in DOMAIN log[k] :
                n <= acked[i][k] \/ log[k][n].t + Memo + MaxDerive <= now}]

Fresh(i) == {m \in memo[i] : now - m.at < Memo}

\* An answered request stands for the next one too.
Ready(r) == req[r].at \in {"idle", "answered"}

Answer(r, value, floor) ==
    [req EXCEPT ![r] = [at |-> "answered", value |-> value, floor |-> floor]]

FromMemo(r, i) ==
    /\ Ready(r)
    /\ \E m \in Fresh(i) : req' = Answer(r, m.value, Floor(i))
    /\ UNCHANGED <<now, row, memo, inFlight, stale, saves, log, acked>>

Join(r, i) ==
    /\ Ready(r) /\ Fresh(i) = {} /\ inFlight[i] # None
    /\ req' = [req EXCEPT ![r] = [at |-> "joined", on |-> inFlight[i],
                                  floor |-> Floor(i)]]
    /\ UNCHANGED <<now, row, memo, inFlight, stale, saves, log, acked>>

Derive(r, i) ==
    /\ Ready(r) /\ Fresh(i) = {} /\ inFlight[i] = None
    /\ inFlight' = [inFlight EXCEPT ![i] = r]
    /\ req' = [req EXCEPT ![r] = [at |-> "deriving", in |-> i, since |-> now,
                                  floor |-> Floor(i)]]
    /\ UNCHANGED <<now, row, memo, stale, saves, log, acked>>

\* getAllSettings, and the resolution of what it found.
ReadRows(r) ==
    /\ req[r].at = "deriving"
    /\ req' = [req EXCEPT ![r] = [at |-> "read", in |-> req[r].in,
                                  since |-> req[r].since, floor |-> req[r].floor,
                                  value |-> [k \in Key |-> Resolve(k, row)]]]
    /\ UNCHANGED <<now, row, memo, inFlight, stale, saves, log, acked>>

Joined(r) == {j \in Request : req[j].at = "joined" /\ req[j].on = r}

\* Mutant: the generation is not compared.
PublishAlways(r) ==
    /\ memo' = [memo EXCEPT ![req[r].in] = {[value |-> req[r].value, at |-> now]}]
    /\ inFlight' = [inFlight EXCEPT ![req[r].in] = IF @ = r THEN None ELSE @]

\* Into the memo when no bust came between, which also frees the slot.
Publish(r) ==
    IF r \in stale THEN UNCHANGED <<memo, inFlight>>
    ELSE /\ memo' = [memo EXCEPT ![req[r].in] = {[value |-> req[r].value, at |-> now]}]
         /\ inFlight' = [inFlight EXCEPT ![req[r].in] = None]

Settle(r) ==
    /\ req[r].at = "read"
    /\ Publish(r)
    /\ req' = [q \in Request |->
                 IF q \in {r} \cup Joined(r)
                 THEN [at |-> "answered", value |-> req[r].value, floor |-> req[q].floor]
                 ELSE req[q]]
    /\ stale' = stale \ {r}
    /\ UNCHANGED <<now, row, saves, log, acked>>

\* D1 fails: nothing is kept, and the next to ask derives again.
DeriveFails(r) ==
    /\ req[r].at = "deriving"
    /\ inFlight' = IF r \in stale THEN inFlight
                   ELSE [inFlight EXCEPT ![req[r].in] = None]
    /\ req' = [q \in Request |-> IF q \in {r} \cup Joined(r) THEN Idle ELSE req[q]]
    /\ stale' = stale \ {r}
    /\ UNCHANGED <<now, row, memo, saves, log, acked>>

-----------------------------------------------------------------------------
(* POST /admin/settings *)

\* The operator asks for values of some settings, and all are accepted.
Save(r, i) ==
    /\ Ready(r) /\ saves < MaxSaves
    /\ \E K \in SUBSET Key \ {{}} : \E wish \in [K -> Value] :
          /\ \A k \in K : Accepted(k, wish[k])
          /\ req' = [req EXCEPT ![r] = [at |-> "saving", in |-> i, left |-> wish]]
    /\ saves' = saves + 1
    /\ UNCHANGED <<now, row, memo, inFlight, stale, log, acked>>

Logged(K, table) == [k \in Key |-> IF k \in K
    THEN Append(log[k], [v |-> Resolve(k, table), t |-> now]) ELSE log[k]]

\* setSetting, of the next of them.
WriteRow(r) ==
    /\ req[r].at = "saving"
    /\ \E k \in DOMAIN req[r].left :
          /\ row' = [row EXCEPT ![k] = Stored(k, req[r].left[k])]
          /\ log' = Logged({k}, row')
          /\ req' = [req EXCEPT ![r] = [at |-> "saving", in |-> req[r].in,
                       left |-> [l \in DOMAIN req[r].left \ {k} |-> req[r].left[l]]]]
    /\ UNCHANGED <<now, memo, inFlight, stale, saves, acked>>

\* deleteSettings, of every row at once.
Reset(r, i) ==
    /\ Ready(r) /\ saves < MaxSaves
    /\ saves' = saves + 1
    /\ row' = [k \in Key |-> Absent]
    /\ log' = Logged(Key, row')
    /\ req' = [req EXCEPT ![r] = [at |-> "saving", in |-> i, left |-> <<>>]]
    /\ UNCHANGED <<now, memo, inFlight, stale, acked>>

\* bustSettingsCache.
Bust(r) ==
    /\ req[r].at = "saving" /\ DOMAIN req[r].left = {}
    /\ LET i == req[r].in IN
          /\ memo' = [memo EXCEPT ![i] = {}]
          /\ inFlight' = [inFlight EXCEPT ![i] = None]
          /\ stale' = stale \cup ({inFlight[i]} \ {None})
          /\ acked' = [acked EXCEPT ![i] = [k \in Key |-> Len(log[k])]]
    /\ req' = [req EXCEPT ![r] = Idle]
    /\ UNCHANGED <<now, row, saves, log>>

\* D1 fails: the rows written so far stay, and no memo is dropped.
SaveFails(r) ==
    /\ req[r].at = "saving" /\ DOMAIN req[r].left # {}
    /\ req' = [req EXCEPT ![r] = Idle]
    /\ UNCHANGED <<now, row, memo, inFlight, stale, saves, log, acked>>

Tick ==
    /\ now < MaxNow
    /\ \A r \in Request : req[r].at \in {"deriving", "read"} =>
                             now - req[r].since < MaxDerive
    /\ now' = now + 1
    /\ UNCHANGED <<row, memo, inFlight, stale, req, saves, log, acked>>

-----------------------------------------------------------------------------
RequestStep(r) ==
    \/ \E i \in Isolate : FromMemo(r, i) \/ Join(r, i) \/ Derive(r, i)
                          \/ Save(r, i) \/ Reset(r, i)
    \/ ReadRows(r) \/ Settle(r) \/ DeriveFails(r)
    \/ WriteRow(r) \/ Bust(r) \/ SaveFails(r)

Next == Tick \/ \E r \in Request : RequestStep(r)

Spec == Init /\ [][Next]_vars

-----------------------------------------------------------------------------
(* Properties *)

\* What a save of this isolate was acknowledged for is served by every load
\* that begins there afterwards, however a derivation overlapped it, and what
\* any other isolate saved a memo's life and a derivation earlier is served
\* too; and it is served as it was saved (generation, SETTINGS_MEMO_MS).
SavesAreSeen ==
    \A r \in Request : req[r].at = "answered" =>
        \A k \in Key : \E n \in DOMAIN log[k] :
            /\ req[r].value[k] = log[k][n].v
            /\ \A m \in req[r].floor[k] : m <= n
=============================================================================
