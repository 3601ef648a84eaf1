------------------------------- MODULE Caches -------------------------------
(***************************************************************************)
(* The two caches of a read: the edge cache of answers, and the memo of    *)
(* the settings each isolate keeps.  Neither reads the other, so each is a *)
(* model of its own, and this module brings their promises together.       *)
(***************************************************************************)
EXTENDS EdgeCache, Sequences

CONSTANTS Setting, Group, Env, Wish, Isolate, Asker, Memo, MaxDerive, MaxSaves,
          MaxClock

VARIABLES clock, table, memos, inFlight, detached, asked, saves, log, acked

settings == <<clock, table, memos, inFlight, detached, asked, saves, log, acked>>

S == INSTANCE Settings WITH
        now <- clock, row <- table, memo <- memos, stale <- detached, req <- asked,
        Key <- Setting, Value <- Wish, Request <- Asker, MaxNow <- MaxClock

\* A memo lives at least a tick, and "none" asks for nothing.
ASSUME SettingsAssumption ==
    /\ Memo \in Nat \ {0} /\ MaxDerive \in Nat
    /\ MaxSaves \in Nat /\ MaxClock \in Nat
    /\ Wish \subseteq Nat /\ S!None \notin Asker
    /\ Env \in [Setting -> Nat \cup {S!Absent, S!Junk}]

\* Loads and saves of one isolate and of others: see Settings.
SavesAreSeen == S!SavesAreSeen
=============================================================================
