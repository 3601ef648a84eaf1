-------------------------- MODULE EdgeCacheProofs --------------------------
(***************************************************************************)
(* EdgeCache for every set of colos, readers, mutations, sorts, page       *)
(* sizes and times to live, and Settings for every set of settings, what   *)
(* the deploy gives them, isolates, askers and lives of a memo.            *)
(*                                                                         *)
(* The argument for the pages: a fill carries what its first statement     *)
(* saw, so the first mutation it misses was committed after it began       *)
(* (FillInTime), and it takes at most MaxFill ticks to reach the cache, so *)
(* what an entry misses was committed less than MaxFill ticks before the   *)
(* put (EntryInTime); the rest is the time to live.  And a fill that       *)
(* begins once a mutation was committed has seen it, so after the drops of *)
(* that mutation only a fill that was under way then can bring back a page *)
(* without it (LateIsOver).                                                *)
(*                                                                         *)
(* And for the settings: each row has a log of what it has meant.  Whoever *)
(* asks notes what the answer must have seen; a derivation that has read   *)
(* the rows has seen it for all who joined it (ReadOK), for a save that    *)
(* its isolate is told of detaches it from those who ask later; and a memo *)
(* misses only what is younger than a derivation and its own age (MemoOK). *)
(***************************************************************************)
EXTENDS Caches, SequenceTheorems, TLAPS

\* A fill under way, and the mutations it has not seen.
FillInTime ==
    \A r \in Reader : reader[r].st = "putting" =>
        /\ reader[r].begun <= now /\ now <= reader[r].begun + MaxFill
        /\ reader[r].seen <= version
        /\ reader[r].seen < version => reader[r].begun <= when[reader[r].seen + 1]

\* An entry, and the mutations it misses.
EntryInTime ==
    \A c \in Colo, k \in Key : entry[c][k].by # {} =>
        /\ entry[c][k].at <= now /\ now < entry[c][k].at + Ttl(k)
        /\ entry[c][k].seen <= version
        /\ entry[c][k].seen < version =>
              entry[c][k].at <= when[entry[c][k].seen + 1] + MaxFill

\* A fill that is without a mutation whose drops are done overlapped them.
LateIsOver ==
    \A w \in Writer, r \in Reader :
        writer[w].st = "busted" /\ reader[r].st = "putting"
          /\ reader[r].colo = writer[w].colo /\ reader[r].seen < writer[w].number
          => r \in over[w]

NumbersPast == \A w \in Writer : writer[w].number <= version

IInv == /\ TypeOK
        /\ FillInTime /\ EntryInTime /\ StaleWithinWindow
        /\ NumbersPast /\ LateIsOver /\ StaleOnlyByOverlap

-----------------------------------------------------------------------------
\* A request under way has the fields of its kind.
LEMMA Shapes ==
    ASSUME TypeOK
    PROVE  /\ \A r \in Reader : reader[r].st = "putting" => reader[r] \in Fill
           /\ \A w \in Writer : writer[w].st # "idle" => writer[w] \in AtWork
           /\ \A w \in Writer : writer[w].number \in Nat
BY DEF TypeOK, Fill, AtWork, Unasked, Answered, Unwritten

LEMMA TtlIsTime ==
    ASSUME NEW k PROVE Ttl(k) \in Nat \ {0}
BY TTLAssumption DEF Ttl

\* What the times of an entry say of the mutations it misses.
LEMMA EntryIsFresh == TypeOK /\ EntryInTime => StaleWithinWindow
<1> SUFFICES ASSUME TypeOK, EntryInTime, NEW c \in Colo, NEW k \in Key,
                    entry[c][k].by # {}, entry[c][k].seen < version
             PROVE  now - when[entry[c][k].seen + 1] < Ttl(k) + MaxFill
  BY DEF StaleWithinWindow
<1>1. /\ now < entry[c][k].at + Ttl(k)
      /\ entry[c][k].at <= when[entry[c][k].seen + 1] + MaxFill
  BY DEF EntryInTime
<1>2. entry[c][k] \in Entries /\ now \in Nat /\ version \in Nat
  BY DEF TypeOK
<1>3. entry[c][k].seen + 1 \in 1..version /\ entry[c][k].at \in Nat
  BY <1>2 DEF Entries
<1>4. when[entry[c][k].seen + 1] \in Nat
  BY <1>3 DEF TypeOK
<1> QED BY ONLY <1>1, <1>2, <1>3, <1>4, TtlIsTime, FillAssumption

LEMMA InitInv == Init => IInv
<1> SUFFICES ASSUME Init PROVE IInv OBVIOUS
<1>1. TypeOK
  BY DEF Init, TypeOK, NoEntry, Entries
<1>2. /\ FillInTime /\ EntryInTime /\ NumbersPast /\ LateIsOver
      /\ StaleOnlyByOverlap
  BY DEF Init, FillInTime, EntryInTime, NumbersPast, LateIsOver, StaleOnlyByOverlap,
         NoEntry, Unasked, Unwritten
<1> QED BY <1>1, <1>2, EntryIsFresh DEF IInv

-----------------------------------------------------------------------------
(* Readers *)

\* A request that ends without storing anything.
LEMMA AnswerInv ==
    ASSUME IInv, NEW r \in Reader, reader' = [reader EXCEPT ![r] = Answered],
           UNCHANGED <<now, version, when, size, memo, entry, writer, over>>
    PROVE  IInv'
<1> USE DEF IInv
<1>1. reader'[r].st = "done" /\ \A q \in Reader : q # r => reader'[q] = reader[q]
  BY DEF Answered, TypeOK
<1>2. TypeOK'
  BY DEF TypeOK
<1>3. FillInTime'
  BY <1>1 DEF FillInTime
<1>4. EntryInTime' /\ NumbersPast' /\ StaleWithinWindow' /\ StaleOnlyByOverlap'
  BY DEF EntryInTime, NumbersPast, StaleWithinWindow, StaleOnlyByOverlap, Ttl
<1>5. LateIsOver'
  BY <1>1 DEF LateIsOver
<1> QED BY <1>2, <1>3, <1>4, <1>5

LEMMA HitInv ==
    ASSUME IInv, NEW r \in Reader, NEW c \in Colo, NEW k \in Key,
           NEW signed \in BOOLEAN, Hit(r, c, k, signed)
    PROVE  IInv'
BY AnswerInv DEF Hit

LEMMA BuildUnstoredInv ==
    ASSUME IInv, NEW r \in Reader, NEW k \in Key, NEW signed \in BOOLEAN,
           BuildUnstored(r, k, signed)
    PROVE  IInv'
BY AnswerInv DEF BuildUnstored

LEMMA BuildInv ==
    ASSUME IInv, NEW r \in Reader, NEW c \in Colo, NEW k \in Key,
           NEW signed \in BOOLEAN, Build(r, c, k, signed)
    PROVE  IInv'
<1> USE DEF IInv
<1>1. /\ reader[r].st = "idle"
      /\ reader' = [reader EXCEPT ![r] =
             [st |-> "putting", colo |-> c, key |-> k, seen |-> version, begun |-> now]]
  BY DEF Build, Asking, Unasked
<1>2. UNCHANGED <<now, version, when, size, memo, entry, writer, over>>
  BY DEF Build
<1>3. reader'[r] = [st |-> "putting", colo |-> c, key |-> k, seen |-> version,
                    begun |-> now]
  BY <1>1 DEF TypeOK
<1>4. \A q \in Reader : q # r => reader'[q] = reader[q]
  BY <1>1 DEF TypeOK
<1>5. TypeOK'
  BY <1>1, <1>2 DEF TypeOK, Fill
<1>6. FillInTime'
  BY <1>2, <1>3, <1>4, FillAssumption DEF FillInTime, TypeOK
<1>7. EntryInTime' /\ NumbersPast' /\ StaleWithinWindow' /\ StaleOnlyByOverlap'
  BY <1>2 DEF EntryInTime, NumbersPast, StaleWithinWindow, StaleOnlyByOverlap, Ttl
<1>8. LateIsOver'
  <2>1. \A w \in Writer : ~(version < writer[w].number)
    BY Shapes DEF NumbersPast, TypeOK
  <2> QED BY <1>2, <1>3, <1>4, <2>1 DEF LateIsOver
<1> QED BY <1>5, <1>6, <1>7, <1>8

\* A put that lands.
LEMMA StoreInv ==
    ASSUME IInv, NEW r \in Reader, reader[r].st = "putting",
           reader' = [reader EXCEPT ![r] = Answered],
           entry' = [entry EXCEPT ![reader[r].colo][reader[r].key] =
                         [seen |-> reader[r].seen, at |-> now, by |-> {r}]],
           UNCHANGED <<now, version, when, size, memo, writer, over>>
    PROVE  IInv'
<1> USE DEF IInv
<1> DEFINE c == reader[r].colo
           k == reader[r].key
           e == [seen |-> reader[r].seen, at |-> now, by |-> {r}]
<1>1. /\ c \in Colo /\ k \in Key
      /\ reader[r].seen \in Nat /\ reader[r].begun \in Nat
  BY Shapes DEF Fill
<1>2. /\ reader[r].begun <= now /\ now <= reader[r].begun + MaxFill
      /\ reader[r].seen <= version
      /\ reader[r].seen < version => reader[r].begun <= when[reader[r].seen + 1]
  BY DEF FillInTime
<1>3. /\ entry'[c][k] = e
      /\ \A d \in Colo, j \in Key : <<d, j>> # <<c, k>> => entry'[d][j] = entry[d][j]
  BY <1>1 DEF TypeOK
<1>4. reader'[r].st = "done" /\ \A q \in Reader : q # r => reader'[q] = reader[q]
  BY DEF Answered, TypeOK
<1>5. TypeOK'
  <2>1. e \in Entries
    BY <1>1 DEF Entries, TypeOK
  <2>2. entry' \in [Colo -> [Key -> Entries]]
    BY <2>1, <1>1 DEF TypeOK
  <2>3. reader' \in [Reader -> {Unasked, Answered} \cup Fill]
    BY DEF TypeOK
  <2> QED BY <2>2, <2>3 DEF TypeOK
<1>6. FillInTime' /\ NumbersPast'
  BY <1>4 DEF FillInTime, NumbersPast
<1>7. EntryInTime'
  <2>1. reader[r].seen < version => when[reader[r].seen + 1] \in Nat
    BY <1>1 DEF TypeOK
  <2>2. /\ e.at <= now /\ now < e.at + Ttl(k) /\ e.seen <= version
        /\ e.seen < version => e.at <= when[e.seen + 1] + MaxFill
    BY <1>1, <1>2, <2>1, TtlIsTime, FillAssumption DEF TypeOK
  <2> SUFFICES ASSUME NEW d \in Colo, NEW j \in Key, entry'[d][j].by # {}
               PROVE  /\ entry'[d][j].at <= now /\ now < entry'[d][j].at + Ttl(j)
                      /\ entry'[d][j].seen <= version
                      /\ entry'[d][j].seen < version =>
                            entry'[d][j].at <= when[entry'[d][j].seen + 1] + MaxFill
    BY DEF EntryInTime, Ttl
  <2>3. CASE d = c /\ j = k
    BY <2>2, <2>3, <1>3
  <2>4. CASE ~(d = c /\ j = k)
    <3>1. entry'[d][j] = entry[d][j]
      BY <2>4, <1>3
    <3> QED BY <3>1 DEF EntryInTime
  <2> QED BY <2>3, <2>4
<1>8. LateIsOver'
  BY <1>4 DEF LateIsOver
<1>9. StaleOnlyByOverlap'
  <2> SUFFICES ASSUME NEW w \in Writer, NEW j \in Key,
                      writer[w].st = "busted", j \notin writer[w].lost,
                      j.kind = "feed" \/ (j.kind = "first" /\ j.size = writer[w].size),
                      entry'[writer[w].colo][j].by # {},
                      entry'[writer[w].colo][j].seen < writer[w].number
               PROVE  entry'[writer[w].colo][j].by \subseteq over[w]
    BY DEF StaleOnlyByOverlap
  <2>1. writer[w].colo \in Colo
    BY Shapes DEF AtWork
  <2>2. CASE writer[w].colo = c /\ j = k
    <3>1. r \in over[w]
      BY <2>2, <1>3 DEF LateIsOver
    <3> QED BY <3>1, <2>2, <1>3
  <2>3. CASE ~(writer[w].colo = c /\ j = k)
    <3>1. entry'[writer[w].colo][j] = entry[writer[w].colo][j]
      BY <2>1, <2>3, <1>3
    <3> QED BY <3>1 DEF StaleOnlyByOverlap
  <2> QED BY <2>2, <2>3
<1>10. StaleWithinWindow'
  BY <1>5, <1>7, EntryIsFresh, PTL
<1> QED BY <1>5, <1>6, <1>7, <1>8, <1>9, <1>10

LEMMA PutInv ==
    ASSUME IInv, NEW r \in Reader, Put(r)
    PROVE  IInv'
<1>1. CASE UNCHANGED entry
  BY <1>1, AnswerInv DEF Put
<1>2. CASE entry' = [entry EXCEPT ![reader[r].colo][reader[r].key] =
                        [seen |-> reader[r].seen, at |-> now, by |-> {r}]]
  BY <1>2, StoreInv DEF Put
<1> QED BY <1>1, <1>2 DEF Put

-----------------------------------------------------------------------------
(* Mutations *)

LEMMA WriteInv ==
    ASSUME IInv, NEW w \in Writer, NEW c \in Colo, Write(w, c)
    PROVE  IInv'
<1> USE DEF IInv
<1>1. /\ version' = version + 1
      /\ when' = [n \in 1..version' |-> IF n = version' THEN now ELSE when[n]]
      /\ UNCHANGED <<now, size, memo, entry, reader, over>>
  BY DEF Write
<1>2. /\ writer'[w] = [st |-> "written", colo |-> c, number |-> version',
                       size |-> None, lost |-> {}]
      /\ \A v \in Writer : v # w => writer'[v] = writer[v]
  BY DEF Write, TypeOK
<1>3. now \in Nat /\ version \in Nat
  BY DEF TypeOK
<1>4. /\ when' \in [1..version' -> Nat]
      /\ when'[version + 1] = now
      /\ \A n \in 1..version : when'[n] = when[n]
  BY <1>1, <1>3 DEF TypeOK
<1>5. TypeOK'
  BY <1>1, <1>2, <1>3, <1>4 DEF TypeOK, AtWork, Write
<1>6. FillInTime'
  <2> SUFFICES ASSUME NEW r \in Reader, reader[r].st = "putting"
               PROVE  /\ reader[r].begun <= now /\ now <= reader[r].begun + MaxFill
                      /\ reader[r].seen <= version'
                      /\ reader[r].seen < version' =>
                            reader[r].begun <= when'[reader[r].seen + 1]
    BY <1>1 DEF FillInTime
  <2>1. reader[r].seen \in Nat /\ reader[r].begun \in Nat
    BY Shapes DEF Fill
  <2>2. /\ reader[r].begun <= now /\ now <= reader[r].begun + MaxFill
        /\ reader[r].seen <= version
        /\ reader[r].seen < version => reader[r].begun <= when[reader[r].seen + 1]
    BY DEF FillInTime
  <2>3. reader[r].seen < version => reader[r].seen + 1 \in 1..version
    BY <2>1, <1>3
  <2> QED BY <2>1, <2>2, <2>3, <1>1, <1>3, <1>4
<1>7. EntryInTime'
  <2> SUFFICES ASSUME NEW d \in Colo, NEW k \in Key, entry[d][k].by # {}
               PROVE  /\ entry[d][k].at <= now /\ now < entry[d][k].at + Ttl(k)
                      /\ entry[d][k].seen <= version'
                      /\ entry[d][k].seen < version' =>
                            entry[d][k].at <= when'[entry[d][k].seen + 1] + MaxFill
    BY <1>1 DEF EntryInTime, Ttl
  <2>1. entry[d][k].seen \in Nat /\ entry[d][k].at \in Nat
    BY DEF TypeOK, Entries
  <2>2. /\ entry[d][k].at <= now /\ now < entry[d][k].at + Ttl(k)
        /\ entry[d][k].seen <= version
        /\ entry[d][k].seen < version =>
              entry[d][k].at <= when[entry[d][k].seen + 1] + MaxFill
    BY DEF EntryInTime
  <2>3. entry[d][k].seen < version => entry[d][k].seen + 1 \in 1..version
    BY <2>1, <1>3
  <2>4. entry[d][k].seen = version => when'[entry[d][k].seen + 1] = now
    BY <1>4
  <2> QED BY <2>1, <2>2, <2>3, <2>4, <1>1, <1>3, <1>4, FillAssumption
<1>8. NumbersPast'
  <2> SUFFICES ASSUME NEW v \in Writer PROVE writer'[v].number <= version'
    BY DEF NumbersPast
  <2>1. CASE v = w
    BY <2>1, <1>1, <1>2, <1>3
  <2>2. CASE v # w
    BY <2>2, <1>1, <1>2, <1>3, Shapes DEF NumbersPast
  <2> QED BY <2>1, <2>2
<1>9. LateIsOver' /\ StaleOnlyByOverlap'
  BY <1>1, <1>2 DEF LateIsOver, StaleOnlyByOverlap
<1>10. StaleWithinWindow'
  BY <1>5, <1>7, EntryIsFresh, PTL
<1> QED BY <1>5, <1>6, <1>7, <1>8, <1>9, <1>10

LEMMA BustInv ==
    ASSUME IInv, NEW w \in Writer, NEW n \in Size \cup {None},
           NEW lost \in SUBSET Dropped(n), Bust(w, n, lost)
    PROVE  IInv'
<1> USE DEF IInv
<1> DEFINE c == writer[w].colo
<1>1. /\ writer[w].st = "written"
      /\ UNCHANGED <<now, version, when, size, memo, reader>>
      /\ entry' = [entry EXCEPT ![c] =
                      [k \in Key |-> IF k \in Dropped(n) \ lost THEN NoEntry ELSE @[k]]]
      /\ over' = [over EXCEPT ![w] = Filling(c)]
  BY DEF Bust
<1>2. writer[w] \in AtWork /\ c \in Colo
  BY <1>1, Shapes DEF AtWork
<1>3. /\ writer'[w].st = "busted" /\ writer'[w].colo = c
      /\ writer'[w].number = writer[w].number
      /\ writer'[w].size = n /\ writer'[w].lost = lost
      /\ writer'[w] \in AtWork
      /\ writer' \in [Writer -> {Unwritten} \cup AtWork]
      /\ \A v \in Writer : v # w => writer'[v] = writer[v]
  <2>1. lost \in SUBSET Key
    BY DEF Dropped, Key, PlainKey, FeedKey
  <2>2. writer' = [writer EXCEPT ![w].st = "busted", ![w].size = n, ![w].lost = lost]
    BY DEF Bust
  <2>3. writer'[w] = [writer[w] EXCEPT !.st = "busted", !.size = n, !.lost = lost]
        /\ \A v \in Writer : v # w => writer'[v] = writer[v]
    BY <2>2 DEF TypeOK
  <2>4. writer'[w] \in AtWork
    BY <2>1, <2>3, <1>2 DEF AtWork
  <2> QED BY <2>2, <2>3, <2>4, <1>2 DEF TypeOK, AtWork
<1>4. /\ \A d \in Colo, k \in Key : entry'[d][k] = entry[d][k] \/ entry'[d][k] = NoEntry
      /\ \A k \in Dropped(n) \ lost : k \in Key => entry'[c][k] = NoEntry
      /\ entry' \in [Colo -> [Key -> Entries]]
  <2>1. NoEntry \in Entries
    BY DEF NoEntry, Entries
  <2> HIDE DEF c
  <2> QED BY <1>1, <1>2, <2>1 DEF TypeOK
<1>5. TypeOK'
  <2>1. over' \in [Writer -> SUBSET Reader]
    BY <1>1 DEF TypeOK, Filling
  <2> QED BY <1>1, <1>3, <1>4, <2>1 DEF TypeOK
<1>6. FillInTime' /\ NumbersPast'
  BY <1>1, <1>3 DEF FillInTime, NumbersPast
<1>7. EntryInTime'
  BY <1>1, <1>4 DEF EntryInTime, NoEntry, Ttl
<1>8. LateIsOver'
  <2> SUFFICES ASSUME NEW v \in Writer, NEW r \in Reader,
                      writer'[v].st = "busted", reader[r].st = "putting",
                      reader[r].colo = writer'[v].colo,
                      reader[r].seen < writer'[v].number
               PROVE  r \in over'[v]
    BY <1>1 DEF LateIsOver
  <2>1. CASE v = w
    BY <2>1, <1>1, <1>3 DEF Filling, TypeOK
  <2>2. CASE v # w
    BY <2>2, <1>1, <1>3 DEF LateIsOver, TypeOK
  <2> QED BY <2>1, <2>2
<1>9. StaleOnlyByOverlap'
  <2> SUFFICES ASSUME NEW v \in Writer, NEW k \in Key,
                      writer'[v].st = "busted", k \notin writer'[v].lost,
                      k.kind = "feed" \/ (k.kind = "first" /\ k.size = writer'[v].size),
                      entry'[writer'[v].colo][k].by # {},
                      entry'[writer'[v].colo][k].seen < writer'[v].number
               PROVE  entry'[writer'[v].colo][k].by \subseteq over'[v]
    BY DEF StaleOnlyByOverlap
  <2>1. CASE v = w
    <3>1. k \in Dropped(n)
      BY <2>1, <1>3 DEF Dropped, Key, FirstKey, PlainKey, FeedKey
    <3>2. entry'[writer'[v].colo][k] = NoEntry
      BY <2>1, <3>1, <1>3, <1>4
    <3> QED BY <3>2 DEF NoEntry
  <2>2. CASE v # w
    <3>1. writer'[v] = writer[v] /\ over'[v] = over[v]
      BY <2>2, <1>1, <1>3 DEF TypeOK
    <3>2. writer[v].colo \in Colo
      BY <3>1, Shapes DEF AtWork
    <3>3. entry'[writer[v].colo][k] = entry[writer[v].colo][k]
      BY <3>1, <3>2, <1>4 DEF NoEntry
    <3> QED BY <3>1, <3>3 DEF StaleOnlyByOverlap
  <2> QED BY <2>1, <2>2
<1>10. StaleWithinWindow'
  BY <1>5, <1>7, EntryIsFresh, PTL
<1> QED BY <1>5, <1>6, <1>7, <1>8, <1>9, <1>10

LEMMA DieInv ==
    ASSUME IInv, NEW w \in Writer, Die(w)
    PROVE  IInv'
<1> USE DEF IInv
<1>1. /\ UNCHANGED <<now, version, when, size, memo, entry, reader, over>>
      /\ writer' = [writer EXCEPT ![w].st = "dead"]
      /\ writer[w] \in AtWork
  BY Shapes DEF Die
<1>2. /\ writer'[w] = [writer[w] EXCEPT !.st = "dead"]
      /\ \A v \in Writer : v # w => writer'[v] = writer[v]
  BY <1>1 DEF TypeOK
<1>3. /\ writer'[w] \in AtWork /\ writer'[w].st = "dead"
      /\ writer'[w].number = writer[w].number
  BY <1>1, <1>2 DEF AtWork
<1>4. TypeOK'
  BY <1>1, <1>3 DEF TypeOK
<1>5. FillInTime' /\ NumbersPast' /\ EntryInTime' /\ StaleWithinWindow'
  BY <1>1, <1>2, <1>3 DEF FillInTime, NumbersPast, EntryInTime, StaleWithinWindow, Ttl
<1>6. LateIsOver' /\ StaleOnlyByOverlap'
  BY <1>1, <1>2, <1>3 DEF LateIsOver, StaleOnlyByOverlap
<1> QED BY <1>4, <1>5, <1>6

-----------------------------------------------------------------------------
(* The page size and the clock *)

LEMMA SizeInv ==
    ASSUME IInv, size' \in Size, memo' \in Size,
           UNCHANGED <<now, version, when, entry, reader, writer, over>>
    PROVE  IInv'
BY DEF IInv, TypeOK, FillInTime, NumbersPast, EntryInTime, StaleWithinWindow, Ttl,
       LateIsOver, StaleOnlyByOverlap

LEMMA TickInv == IInv /\ Tick => IInv'
<1> SUFFICES ASSUME IInv, Tick PROVE IInv' OBVIOUS
<1> USE DEF IInv
<1>1. /\ now' = now + 1 /\ now \in Nat
      /\ UNCHANGED <<version, when, size, memo, reader, writer, over>>
      /\ \A r \in Reader : reader[r].st = "putting" => now - reader[r].begun < MaxFill
  BY DEF Tick, TypeOK
<1>2. \A c \in Colo, k \in Key :
         \/ entry'[c][k] = NoEntry
         \/ entry'[c][k] = entry[c][k] /\ Kept(entry[c][k], k, now')
  BY DEF Tick
<1>3. entry' \in [Colo -> [Key -> Entries]]
  BY DEF Tick, TypeOK, NoEntry, Entries
<1>4. TypeOK'
  BY <1>1, <1>3 DEF TypeOK
<1>5. FillInTime'
  BY <1>1, Shapes, FillAssumption DEF FillInTime, Fill
<1>6. EntryInTime'
  <2> SUFFICES ASSUME NEW c \in Colo, NEW k \in Key, entry'[c][k].by # {}
               PROVE  /\ entry'[c][k].at <= now' /\ now' < entry'[c][k].at + Ttl(k)
                      /\ entry'[c][k].seen <= version
                      /\ entry'[c][k].seen < version =>
                            entry'[c][k].at <= when[entry'[c][k].seen + 1] + MaxFill
    BY <1>1 DEF EntryInTime, Ttl
  <2>1. entry'[c][k] = entry[c][k] /\ Kept(entry[c][k], k, now')
    BY <1>2 DEF NoEntry
  <2>2. entry[c][k].at \in Nat
    BY DEF TypeOK, Entries
  <2>3. now' - entry[c][k].at < Ttl(k)
    BY <2>1 DEF Kept
  <2>4. /\ entry[c][k].at <= now
        /\ entry[c][k].seen <= version
        /\ entry[c][k].seen < version =>
              entry[c][k].at <= when[entry[c][k].seen + 1] + MaxFill
    BY <2>1 DEF EntryInTime
  <2>5. entry[c][k].at <= now' /\ now' < entry[c][k].at + Ttl(k)
    BY ONLY <2>2, <2>3, <2>4, <1>1, TtlIsTime
  <2> QED BY <2>1, <2>4, <2>5
<1>7. NumbersPast' /\ LateIsOver'
  BY <1>1 DEF NumbersPast, LateIsOver
<1>8. StaleOnlyByOverlap'
  <2>1. \A w \in Writer : writer[w].st = "busted" => writer[w].colo \in Colo
    BY Shapes DEF AtWork
  <2> QED BY <1>1, <1>2, <2>1 DEF StaleOnlyByOverlap, NoEntry
<1>9. StaleWithinWindow'
  BY <1>4, <1>6, EntryIsFresh, PTL
<1> QED BY <1>4, <1>5, <1>6, <1>7, <1>8, <1>9

-----------------------------------------------------------------------------
\* Every reachable state satisfies the inductive invariant.
THEOREM CacheInvariant == Spec => []IInv
<1>1. IInv /\ [Next]_vars => IInv'
  <2> SUFFICES ASSUME IInv, [Next]_vars PROVE IInv' OBVIOUS
  <2>1. CASE Next
    <3>1. ASSUME NEW n \in Size, Resize(n) PROVE IInv'
      BY <3>1, SizeInv DEF Resize, IInv, TypeOK
    <3>2. CASE MemoLapses
      BY <3>2, SizeInv DEF MemoLapses, IInv, TypeOK
    <3> QED BY <2>1, <3>1, <3>2, HitInv, BuildInv, BuildUnstoredInv, PutInv,
               WriteInv, BustInv, DieInv, TickInv DEF Next
  <2>2. CASE UNCHANGED vars
    BY <2>2, SizeInv DEF vars, IInv, TypeOK
  <2> QED BY <2>1, <2>2
<1> QED BY InitInv, <1>1, PTL DEF Spec

\* Entries, requests and times keep their shape.
THEOREM TypeCorrect == Spec => []TypeOK
BY CacheInvariant, PTL DEF IInv

\* tree-cache.ts: in any colo, after lost deletes and late puts, an entry misses
\* nothing older than its time to live plus the time a fill may take.
THEOREM StalenessBounded == Spec => []StaleWithinWindow
BY CacheInvariant, PTL DEF IInv

\* bustTreeCache: in the colo that served a mutation, only a fill under way at
\* the drops, or a delete that failed, leaves a page without it.
THEOREM OnlyOverlapsLinger == Spec => []StaleOnlyByOverlap
BY CacheInvariant, PTL DEF IInv

-----------------------------------------------------------------------------
(* The settings *)

\* Whose derivation runs, and who waits for it.
Busy == {"deriving", "read"}

\* Each row's log ends with what the row means.
LogIsRow == \A k \in Setting : Len(log[k]) >= 1
                /\ log[k][Len(log[k])].v = S!Resolve(k, table)

AckedInLog == \A i \in Isolate, k \in Setting : acked[i][k] <= Len(log[k])

\* V gives k the meaning it had at n, and what came after n came since t.
Gives(V, k, n, t) == /\ n \in DOMAIN log[k] /\ V[k] = log[k][n].v
                     /\ \A m \in DOMAIN log[k] : m > n => t <= log[k][m].t

\* A derivation that has read its rows is no older than what anyone who waits
\* for it must see, and no older than the last save its isolate was told of,
\* unless that save has detached it.
ReadOK(r) == \A k \in Setting : \E n \in DOMAIN log[k] :
    /\ Gives(asked[r].value, k, n, asked[r].since)
    /\ r \notin detached => acked[asked[r].in][k] <= n
    /\ \A q \in {r} \cup S!Joined(r) : \A m \in asked[q].floor[k] : m <= n

AnsweredOK(r) == \A k \in Setting : \E n \in DOMAIN log[k] :
    /\ asked[r].value[k] = log[k][n].v
    /\ \A m \in asked[r].floor[k] : m <= n

FloorOK(r) == \A k \in Setting : asked[r].floor[k] \subseteq DOMAIN log[k]

\* A memo misses nothing its isolate was told of, and nothing that was saved
\* more than a derivation before it was published.
MemoOK(i) == \A e \in memos[i] : \A k \in Setting : \E n \in DOMAIN log[k] :
    /\ e.value[k] = log[k][n].v /\ acked[i][k] <= n
    /\ \A m \in DOMAIN log[k] : m > n => e.at <= log[k][m].t + MaxDerive

AskerOK(r) ==
    /\ asked[r].at \in {"idle", "answered", "joined", "deriving", "read", "saving"}
    /\ asked[r].at \in Busy =>
          /\ asked[r].in \in Isolate /\ asked[r].since \in Nat
          /\ asked[r].since <= clock /\ clock <= asked[r].since + MaxDerive
    /\ asked[r].at \in {"deriving", "joined"} => FloorOK(r)
    /\ asked[r].at = "joined" => asked[r].on \in Asker /\ asked[asked[r].on].at \in Busy
    /\ asked[r].at = "read" => asked[r].value \in [Setting -> Nat] /\ ReadOK(r)
    /\ asked[r].at = "answered" => AnsweredOK(r)
    /\ asked[r].at = "saving" =>
          /\ asked[r].in \in Isolate
          /\ \A k \in DOMAIN asked[r].left : k \in Setting /\ asked[r].left[k] \in Nat

\* The derivation of an isolate that others join, and those detached from it.
FlightOK ==
    /\ \A r \in detached : asked[r].at \in Busy
    /\ \A i \in Isolate : inFlight[i] # S!None =>
          /\ inFlight[i] \in Asker /\ inFlight[i] \notin detached
          /\ asked[inFlight[i]].at \in Busy /\ asked[inFlight[i]].in = i
    /\ \A r \in Asker : asked[r].at \in Busy /\ r \notin detached =>
          inFlight[asked[r].in] = r

SettingsInv ==
    /\ S!TypeOK /\ LogIsRow /\ AckedInLog
    /\ \A r \in Asker : AskerOK(r)
    /\ \A i \in Isolate : MemoOK(i)
    /\ FlightOK

-----------------------------------------------------------------------------
\* The log only grows, and what it grows by is of now.
Grows == \A k \in Setting :
    /\ log'[k] \in Seq([v : Nat, t : 0..clock'])
    /\ DOMAIN log[k] \subseteq DOMAIN log'[k] /\ Len(log[k]) <= Len(log'[k])
    /\ \A n \in DOMAIN log[k] : log'[k][n] = log[k][n]
    /\ \A n \in DOMAIN log'[k] : n \notin DOMAIN log[k] =>
          n > Len(log[k]) /\ log'[k][n].t = clock

LEMMA LogTyped ==
    ASSUME S!TypeOK, NEW k \in Setting
    PROVE  /\ log[k] \in Seq([v : Nat, t : 0..clock])
           /\ Len(log[k]) \in Nat /\ DOMAIN log[k] = 1..Len(log[k])
           /\ \A n \in DOMAIN log[k] : log[k][n].v \in Nat /\ log[k][n].t \in Nat
                                       /\ log[k][n].t <= clock
<1>1. log[k] \in Seq([v : Nat, t : 0..clock])
  BY DEF S!TypeOK
<1>2. clock \in Nat
  BY SettingsAssumption DEF S!TypeOK
<1>3. Len(log[k]) \in Nat /\ DOMAIN log[k] = 1..Len(log[k])
  BY <1>1
<1>4. \A n \in DOMAIN log[k] : log[k][n] \in [v : Nat, t : 0..clock]
  BY <1>1, <1>3, ElementOfSeq
<1> QED BY <1>1, <1>2, <1>3, <1>4

LEMMA EntryTyped ==
    ASSUME S!TypeOK, NEW k \in Setting, NEW n \in DOMAIN log[k]
    PROVE  n \in Nat /\ log[k][n].t \in Nat
<1>1. Len(log[k]) \in Nat /\ DOMAIN log[k] = 1..Len(log[k])
  BY LogTyped
<1>2. n \in Nat
  BY <1>1
<1>3. log[k][n].t \in Nat
  BY LogTyped
<1> QED BY <1>2, <1>3

LEMMA SameLogGrows == S!TypeOK /\ log' = log /\ clock <= clock' /\ clock' \in Nat => Grows
<1> SUFFICES ASSUME S!TypeOK, log' = log, clock <= clock', clock' \in Nat,
                    NEW k \in Setting
             PROVE  /\ log'[k] \in Seq([v : Nat, t : 0..clock'])
                    /\ DOMAIN log[k] \subseteq DOMAIN log'[k]
                    /\ Len(log[k]) <= Len(log'[k])
                    /\ \A n \in DOMAIN log[k] : log'[k][n] = log[k][n]
                    /\ \A n \in DOMAIN log'[k] : n \notin DOMAIN log[k] =>
                          n > Len(log[k]) /\ log'[k][n].t = clock
  BY DEF Grows
<1>1. clock \in Nat
  BY SettingsAssumption DEF S!TypeOK
<1>2. 0..clock \subseteq 0..clock'
  BY <1>1
<1>3. [v : Nat, t : 0..clock] \subseteq [v : Nat, t : 0..clock']
  BY <1>2
<1>4. log[k] \in Seq([v : Nat, t : 0..clock])
  BY LogTyped
<1>5. log[k] \in Seq([v : Nat, t : 0..clock'])
  BY <1>3, <1>4, SeqMonotonic
<1> QED BY <1>5, LogTyped

LEMMA AnsweredStays ==
    ASSUME S!TypeOK, Grows, NEW r \in Asker, asked'[r] = asked[r], AnsweredOK(r)
    PROVE  AnsweredOK(r)'
  BY DEF AnsweredOK, Grows

LEMMA GivesStays ==
    ASSUME S!TypeOK, Grows, NEW V, NEW k \in Setting, NEW n, NEW t, Gives(V, k, n, t),
           t \in Nat, t <= clock
    PROVE  /\ n \in DOMAIN log'[k] /\ V[k] = log'[k][n].v
           /\ \A m \in DOMAIN log'[k] : m > n => t <= log'[k][m].t
  BY DEF Gives, Grows

LEMMA ReadStays ==
    ASSUME S!TypeOK, Grows, NEW r \in Asker, asked'[r] = asked[r], ReadOK(r),
           asked[r].since \in Nat, asked[r].since <= clock,
           r \notin detached' => /\ r \notin detached
                                 /\ acked'[asked[r].in] = acked[asked[r].in],
           \A q \in S!Joined(r)' : q \in S!Joined(r) /\ asked'[q] = asked[q]
    PROVE  ReadOK(r)'
<1> SUFFICES ASSUME NEW k \in Setting
             PROVE  \E n \in DOMAIN log'[k] :
                      /\ Gives(asked[r].value, k, n, asked[r].since)'
                      /\ r \notin detached' => acked'[asked[r].in][k] <= n
                      /\ \A q \in {r} \cup S!Joined(r)' :
                            \A m \in asked'[q].floor[k] : m <= n
  BY DEF ReadOK
<1>1. PICK n \in DOMAIN log[k] :
        /\ Gives(asked[r].value, k, n, asked[r].since)
        /\ r \notin detached => acked[asked[r].in][k] <= n
        /\ \A q \in {r} \cup S!Joined(r) : \A m \in asked[q].floor[k] : m <= n
  BY DEF ReadOK
<1>2. /\ n \in DOMAIN log'[k] /\ asked[r].value[k] = log'[k][n].v
      /\ \A m \in DOMAIN log'[k] : m > n => asked[r].since <= log'[k][m].t
  BY <1>1, GivesStays
<1>3. Gives(asked[r].value, k, n, asked[r].since)'
  BY <1>2 DEF Gives
<1> QED BY <1>1, <1>2, <1>3

LEMMA MemoStays ==
    ASSUME S!TypeOK, Grows, NEW i \in Isolate, MemoOK(i),
           \/ memos'[i] = {}
           \/ memos'[i] = memos[i] /\ acked'[i] = acked[i]
    PROVE  MemoOK(i)'
<1> SUFFICES ASSUME NEW e \in memos'[i], NEW k \in Setting
             PROVE  \E n \in DOMAIN log'[k] :
                      /\ e.value[k] = log'[k][n].v /\ acked'[i][k] <= n
                      /\ \A m \in DOMAIN log'[k] : m > n => e.at <= log'[k][m].t + MaxDerive
  BY DEF MemoOK
<1>1. e \in memos[i] /\ acked'[i] = acked[i]
  OBVIOUS
<1>2. PICK n \in DOMAIN log[k] :
        /\ e.value[k] = log[k][n].v /\ acked[i][k] <= n
        /\ \A m \in DOMAIN log[k] : m > n => e.at <= log[k][m].t + MaxDerive
  BY <1>1 DEF MemoOK
<1>3. e.at \in Nat /\ e.at <= clock /\ MaxDerive \in Nat /\ clock \in Nat
  BY <1>1, SettingsAssumption DEF S!TypeOK
<1>4. /\ n \in DOMAIN log'[k] /\ log'[k][n] = log[k][n]
      /\ \A m \in DOMAIN log'[k] : \/ log'[k][m] = log[k][m] /\ m \in DOMAIN log[k]
                                   \/ log'[k][m].t = clock
  BY DEF Grows
<1>5. \A m \in DOMAIN log'[k] : m > n => e.at <= log'[k][m].t + MaxDerive
  BY <1>2, <1>3, <1>4
<1> QED BY <1>1, <1>2, <1>4, <1>5

LEMMA AskerStays ==
    ASSUME SettingsInv, Grows, NEW r \in Asker, asked'[r] = asked[r],
           clock <= clock', clock' \in Nat,
           asked[r].at \in Busy =>
               /\ clock' <= asked[r].since + MaxDerive
               /\ r \notin detached' => /\ r \notin detached
                                        /\ acked'[asked[r].in] = acked[asked[r].in],
           asked[r].at = "joined" => asked'[asked[r].on].at \in Busy,
           asked[r].at = "read" =>
               \A q \in S!Joined(r)' : q \in S!Joined(r) /\ asked'[q] = asked[q]
    PROVE  AskerOK(r)'
<1> S!TypeOK /\ AskerOK(r)
  BY DEF SettingsInv
<1>1. clock \in Nat
  BY SettingsAssumption DEF S!TypeOK
<1>2. asked[r].at \in Busy => asked[r].since <= clock'
  BY <1>1 DEF AskerOK
<1>3. asked[r].at \in {"deriving", "joined"} => FloorOK(r)'
  BY <1>1 DEF AskerOK, FloorOK, Grows
<1>4. asked[r].at = "read" => ReadOK(r)'
  BY <1>1, ReadStays DEF AskerOK, Busy
<1>5. asked[r].at = "answered" => AnsweredOK(r)'
  BY <1>1, AnsweredStays DEF AskerOK
<1> QED BY <1>1, <1>2, <1>3, <1>4, <1>5 DEF AskerOK

LEMMA AskersTyped ==
    ASSUME SettingsInv
    PROVE  /\ S!TypeOK /\ clock \in Nat /\ Memo \in Nat /\ MaxDerive \in Nat
           /\ Memo >= 1 /\ S!None \notin Asker /\ DOMAIN asked = Asker
<1>1. S!TypeOK
  BY DEF SettingsInv
<1>2. clock \in Nat /\ DOMAIN asked = Asker
  BY <1>1, SettingsAssumption DEF S!TypeOK
<1> QED BY <1>1, <1>2, SettingsAssumption

LEMMA ResolveTyped ==
    ASSUME NEW k \in Setting, NEW rows \in S!Table
    PROVE  S!Resolve(k, rows) \in Nat
<1> DEFINE raw == IF rows[k] = S!Absent THEN Env[k] ELSE rows[k]
<1>1. raw \in Nat \cup {S!Absent, S!Junk}
  BY SettingsAssumption DEF S!Table
<1>2. S!Parse(k, raw) \in Nat
  <2> HIDE DEF raw
  <2> QED BY <1>1 DEF S!Parse, S!Default, S!Clamp, S!Absent, S!Junk, S!Low, S!High, S!Option
<1> QED BY <1>2 DEF S!Resolve

\* A step that leaves the log alone.
LEMMA LogStays ==
    ASSUME SettingsInv, UNCHANGED <<clock, table, log>>
    PROVE  Grows /\ LogIsRow'
<1>1. Grows
  BY AskersTyped, SameLogGrows
<1>2. LogIsRow'
  BY DEF SettingsInv, LogIsRow, S!Resolve
<1> QED BY <1>1, <1>2

\* Askers other than r, when r alone moves and does not begin to wait.
LEMMA OthersStay ==
    ASSUME SettingsInv, Grows, NEW r \in Asker, NEW v, asked' = [asked EXCEPT ![r] = v],
           clock' = clock, v.at # "joined",
           asked[r].at \notin Busy \/ v.at \in Busy,
           detached \subseteq detached',
           \A q \in Asker : asked[q].at \in Busy /\ q \notin detached' =>
                acked'[asked[q].in] = acked[asked[q].in],
           NEW q \in Asker \ {r}
    PROVE  AskerOK(q)'
<1> DOMAIN asked = Asker /\ clock \in Nat
  BY AskersTyped
<1>1. asked'[q] = asked[q] /\ asked'[r] = v /\ \A p \in Asker \ {r} : asked'[p] = asked[p]
  OBVIOUS
<1>2. AskerOK(q)
  BY DEF SettingsInv
<1>3. asked[q].at \in Busy => clock' <= asked[q].since + MaxDerive
  BY <1>2 DEF AskerOK
<1>4. asked[q].at = "joined" => asked'[asked[q].on].at \in Busy
  BY <1>1, <1>2 DEF AskerOK
<1>5. \A p \in S!Joined(q)' : p \in S!Joined(q) /\ asked'[p] = asked[p]
  BY <1>1 DEF S!Joined
<1>6. asked[q].at \in Busy /\ q \notin detached' =>
         q \notin detached /\ acked'[asked[q].in] = acked[asked[q].in]
  OBVIOUS
<1> QED BY <1>1, <1>3, <1>4, <1>5, <1>6, AskerStays

LEMMA FloorBelow ==
    ASSUME SettingsInv, NEW i \in Isolate, NEW k \in Setting
    PROVE  /\ S!Floor(i)[k] \subseteq DOMAIN log[k]
           /\ \A m \in S!Floor(i)[k] : \/ m <= acked[i][k]
                                       \/ log[k][m].t + Memo + MaxDerive <= clock
  BY DEF S!Floor

LEMMA FlightStays ==
    ASSUME SettingsInv, NEW r \in Asker, NEW v, asked' = [asked EXCEPT ![r] = v],
           UNCHANGED <<inFlight, detached>>,
           \/ asked[r].at \notin Busy /\ v.at \notin Busy
           \/ asked[r].at \in Busy /\ v.at \in Busy /\ v.in = asked[r].in
    PROVE  FlightOK'
<1> DOMAIN asked = Asker /\ detached \subseteq Asker
  BY AskersTyped DEF S!TypeOK
<1>1. asked'[r] = v /\ \A p \in Asker \ {r} : asked'[p] = asked[p]
  OBVIOUS
<1>2. FlightOK
  BY DEF SettingsInv
<1> QED BY <1>1, <1>2 DEF FlightOK

LEMMA MemosStay ==
    ASSUME SettingsInv, Grows, UNCHANGED <<memos, acked>>
    PROVE  \A i \in Isolate : MemoOK(i)'
<1> SUFFICES ASSUME NEW i \in Isolate PROVE MemoOK(i)'
  OBVIOUS
<1>1. MemoOK(i) /\ S!TypeOK
  BY DEF SettingsInv
<1> QED BY <1>1, MemoStays

\* A derivation that has read its rows shows whoever joins it now all that a
\* load beginning now must see.
LEMMA JoinerSees ==
    ASSUME SettingsInv, NEW i \in Isolate, NEW k \in Setting, NEW q \in Asker,
           asked[q].at = "read", asked[q].in = i, q \notin detached,
           NEW n \in DOMAIN log[k],
           Gives(asked[q].value, k, n, asked[q].since), acked[i][k] <= n
    PROVE  \A m \in S!Floor(i)[k] : m <= n
<1> SUFFICES ASSUME NEW m \in S!Floor(i)[k] PROVE m <= n
  OBVIOUS
<1> S!TypeOK /\ clock \in Nat /\ Memo \in Nat /\ MaxDerive \in Nat /\ Memo >= 1
  BY AskersTyped
<1>1. m \in DOMAIN log[k] /\ (m <= acked[i][k] \/ log[k][m].t + Memo + MaxDerive <= clock)
  BY FloorBelow
<1>2. acked[i][k] \in Nat
  BY DEF S!TypeOK
<1>3. m \in Nat /\ n \in Nat /\ log[k][m].t \in Nat
  BY <1>1, EntryTyped
<1>4. asked[q].since \in Nat /\ clock <= asked[q].since + MaxDerive
  BY DEF SettingsInv, AskerOK, Busy
<1>5. m > n => asked[q].since <= log[k][m].t
  BY <1>1 DEF Gives
<1> QED BY <1>1, <1>2, <1>3, <1>4, <1>5

\* The step of one asker, who was not and does not become one to be joined or
\* to wait, that touches nothing else.
LEMMA AskerAlone ==
    ASSUME SettingsInv, NEW r \in Asker, NEW v, asked' = [asked EXCEPT ![r] = v],
           UNCHANGED <<clock, table, memos, log, acked, inFlight, detached>>,
           saves' \in 0..MaxSaves, v.at # "joined",
           \/ asked[r].at \notin Busy /\ v.at \notin Busy
           \/ asked[r].at \in Busy /\ v.at \in Busy /\ v.in = asked[r].in,
           AskerOK(r)'
    PROVE  SettingsInv'
<1>1. Grows /\ LogIsRow'
  BY LogStays
<1>2. S!TypeOK' /\ AckedInLog'
  BY DEF SettingsInv, S!TypeOK, AckedInLog
<1>3. \A i \in Isolate : MemoOK(i)'
  BY <1>1, MemosStay
<1>4. FlightOK'
  BY FlightStays
<1>5. \A q \in Asker : AskerOK(q)'
  BY <1>1, OthersStay
<1> QED BY <1>1, <1>2, <1>3, <1>4, <1>5 DEF SettingsInv

LEMMA FromMemoStep ==
    ASSUME SettingsInv, NEW r \in Asker, NEW i \in Isolate, S!FromMemo(r, i)
    PROVE  SettingsInv'
<1> S!TypeOK /\ DOMAIN asked = Asker /\ clock \in Nat /\ Memo \in Nat /\ MaxDerive \in Nat
  BY AskersTyped
<1>1. PICK e \in S!Fresh(i) :
        asked' = [asked EXCEPT ![r] = [at |-> "answered", value |-> e.value,
                                       floor |-> S!Floor(i)]]
  BY DEF S!FromMemo, S!Answer
<1>2. UNCHANGED <<clock, table, memos, log, acked, inFlight, detached, saves>>
      /\ asked[r].at \in {"idle", "answered"}
  BY DEF S!FromMemo, S!Ready
<1>3. /\ e \in memos[i] /\ clock - e.at < Memo
      /\ e.at \in Nat
  BY DEF S!Fresh, S!TypeOK
<1>4. asked'[r] = [at |-> "answered", value |-> e.value, floor |-> S!Floor(i)]
  BY <1>1
<1>5. AnsweredOK(r)'
  <2> SUFFICES ASSUME NEW k \in Setting
               PROVE  \E n \in DOMAIN log'[k] :
                         /\ asked'[r].value[k] = log'[k][n].v
                         /\ \A m \in asked'[r].floor[k] : m <= n
    BY DEF AnsweredOK
  <2>1. PICK n \in DOMAIN log[k] :
          /\ e.value[k] = log[k][n].v /\ acked[i][k] <= n
          /\ \A m \in DOMAIN log[k] : m > n => e.at <= log[k][m].t + MaxDerive
    BY <1>3 DEF SettingsInv, MemoOK
  <2>2. \A m \in S!Floor(i)[k] : m <= n
    <3> SUFFICES ASSUME NEW m \in S!Floor(i)[k] PROVE m <= n
      OBVIOUS
    <3>1. m \in DOMAIN log[k] /\ (m <= acked[i][k] \/ log[k][m].t + Memo + MaxDerive <= clock)
      BY FloorBelow
    <3>2. m \in Nat /\ n \in Nat /\ log[k][m].t \in Nat /\ acked[i][k] \in Nat
      <4>1. acked[i][k] \in Nat
        BY DEF S!TypeOK
      <4> QED BY <2>1, <3>1, <4>1, EntryTyped
    <3> QED BY <1>3, <2>1, <3>1, <3>2
  <2> QED BY <1>2, <1>4, <2>1, <2>2
<1>6. AskerOK(r)'
  BY <1>4, <1>5 DEF AskerOK, Busy
<1> DEFINE v == [at |-> "answered", value |-> e.value, floor |-> S!Floor(i)]
<1>7. v.at \notin Busy /\ v.at # "joined" /\ asked[r].at \notin Busy
  BY <1>2 DEF Busy
<1>8. saves' \in 0..MaxSaves
  BY <1>2 DEF S!TypeOK
<1>9. asked' = [asked EXCEPT ![r] = v]
  BY <1>1
<1> HIDE DEF v
<1> QED BY <1>2, <1>6, <1>7, <1>8, <1>9, AskerAlone

LEMMA ReadRowsStep ==
    ASSUME SettingsInv, NEW r \in Asker, S!ReadRows(r)
    PROVE  SettingsInv'
<1> S!TypeOK /\ DOMAIN asked = Asker /\ clock \in Nat /\ MaxDerive \in Nat
  BY AskersTyped
<1> DEFINE v == [at |-> "read", in |-> asked[r].in,
                 since |-> asked[r].since, floor |-> asked[r].floor,
                 value |-> [k \in Setting |-> S!Resolve(k, table)]]
<1>1. /\ asked[r].at = "deriving" /\ asked' = [asked EXCEPT ![r] = v]
      /\ UNCHANGED <<clock, table, memos, log, acked, inFlight, detached, saves>>
  BY DEF S!ReadRows
<1>2. asked'[r] = v
  BY <1>1
<1>3. AskerOK(r) /\ FloorOK(r)
  BY <1>1 DEF SettingsInv, AskerOK
<1>4. \A q \in S!Joined(r) : FloorOK(q)
  BY DEF SettingsInv, AskerOK, S!Joined
<1>5. \A q \in S!Joined(r)' : q \in S!Joined(r) /\ asked'[q] = asked[q]
  BY <1>1, <1>2 DEF S!Joined
<1>6. ReadOK(r)'
  <2> SUFFICES ASSUME NEW k \in Setting
               PROVE  \E n \in DOMAIN log'[k] :
                        /\ Gives(asked[r].value, k, n, asked[r].since)'
                        /\ r \notin detached' => acked'[asked'[r].in][k] <= n
                        /\ \A q \in {r} \cup S!Joined(r)' :
                              \A m \in asked'[q].floor[k] : m <= n
    BY DEF ReadOK
  <2> DEFINE n == Len(log[k])
  <2>1. /\ n \in Nat /\ n >= 1 /\ DOMAIN log[k] = 1..n
        /\ log[k][n].v = S!Resolve(k, table)
    BY LogTyped DEF SettingsInv, LogIsRow
  <2>2. v.value[k] = S!Resolve(k, table)
    OBVIOUS
  <2>3. asked[r].in \in Isolate
    BY <1>1, <1>3 DEF AskerOK, Busy
  <2>4. acked[asked[r].in][k] <= n
    BY <2>3 DEF SettingsInv, AckedInLog
  <2>5. \A q \in {r} \cup S!Joined(r)' : asked'[q].floor[k] \subseteq 1..n
    BY <1>2, <1>3, <1>4, <1>5, <2>1 DEF FloorOK
  <2>6. Gives(asked[r].value, k, n, asked[r].since)'
    BY <1>1, <1>2, <2>1, <2>2 DEF Gives
  <2> QED BY <1>1, <1>2, <2>1, <2>4, <2>5, <2>6
<1>7. v.value \in [Setting -> Nat]
  BY ResolveTyped DEF S!TypeOK
<1>8. AskerOK(r)'
  BY <1>1, <1>2, <1>3, <1>6, <1>7 DEF AskerOK, Busy
<1>9. saves' \in 0..MaxSaves
  BY <1>1 DEF S!TypeOK
<1>10. asked[r].at \in Busy /\ v.at \in Busy /\ v.in = asked[r].in /\ v.at # "joined"
  BY <1>1 DEF Busy
<1> HIDE DEF v
<1> QED BY <1>1, <1>8, <1>9, <1>10, AskerAlone

LEMMA JoinStep ==
    ASSUME SettingsInv, NEW r \in Asker, NEW i \in Isolate, S!Join(r, i)
    PROVE  SettingsInv'
<1> S!TypeOK /\ DOMAIN asked = Asker /\ clock \in Nat /\ MaxDerive \in Nat
  BY AskersTyped
<1>0. PICK p : p = inFlight[i]
  OBVIOUS
<1> DEFINE v == [at |-> "joined", on |-> p, floor |-> S!Floor(i)]
<1>1. /\ asked' = [asked EXCEPT ![r] = v] /\ p # S!None
      /\ asked[r].at \in {"idle", "answered"}
      /\ UNCHANGED <<clock, table, memos, log, acked, inFlight, detached, saves>>
  BY <1>0 DEF S!Join, S!Ready
<1>2. asked'[r] = v /\ \A q \in Asker \ {r} : asked'[q] = asked[q]
  BY <1>1
<1>3. /\ p \in Asker \ {r} /\ p \notin detached
      /\ asked[p].at \in Busy /\ asked[p].in = i
  BY <1>0, <1>1 DEF SettingsInv, FlightOK, Busy
<1>4. Grows /\ LogIsRow'
  BY <1>1, LogStays
<1>5. S!TypeOK' /\ AckedInLog'
  BY <1>1 DEF SettingsInv, S!TypeOK, AckedInLog
<1>6. \A j \in Isolate : MemoOK(j)'
  BY <1>1, <1>4, MemosStay
<1>7. FlightOK'
  BY <1>1, <1>2 DEF SettingsInv, FlightOK, Busy, S!TypeOK
<1>8. v.floor = S!Floor(i) /\ v.at = "joined" /\ v.on = p
  OBVIOUS
<1> HIDE DEF v
<1>9. AskerOK(r)'
  <2>1. FloorOK(r)'
    BY <1>1, <1>2, <1>8, FloorBelow DEF FloorOK
  <2> QED BY <1>2, <1>3, <1>8, <2>1 DEF AskerOK, Busy
<1>10. ASSUME NEW q \in Asker \ {r, p} PROVE AskerOK(q)'
  <2>1. AskerOK(q) /\ asked'[q] = asked[q]
    BY <1>2 DEF SettingsInv
  <2>2. \A j \in S!Joined(q)' : j \in S!Joined(q) /\ asked'[j] = asked[j]
    BY <1>2, <1>8 DEF S!Joined
  <2>3. asked[q].at = "joined" => asked'[asked[q].on].at \in Busy
    BY <1>1, <1>2, <2>1 DEF AskerOK, Busy
  <2>4. asked[q].at \in Busy => clock' <= asked[q].since + MaxDerive
    BY <1>1, <2>1 DEF AskerOK
  <2> QED BY <1>1, <1>4, <2>1, <2>2, <2>3, <2>4, AskerStays
<1>11. AskerOK(p)'
  <2>1. AskerOK(p) /\ asked'[p] = asked[p]
    BY <1>2, <1>3 DEF SettingsInv
  <2>2. CASE asked[p].at = "deriving"
    BY <1>1, <2>1, <2>2 DEF AskerOK, FloorOK, Busy
  <2>3. CASE asked[p].at = "read"
    <3>1. ReadOK(p)'
      <4> SUFFICES ASSUME NEW k \in Setting
                   PROVE  \E n \in DOMAIN log'[k] :
                            /\ Gives(asked[p].value, k, n, asked[p].since)'
                            /\ p \notin detached' => acked'[asked'[p].in][k] <= n
                            /\ \A q \in {p} \cup S!Joined(p)' :
                                  \A m \in asked'[q].floor[k] : m <= n
        BY <1>1 DEF ReadOK
      <4>1. PICK n \in DOMAIN log[k] :
              /\ Gives(asked[p].value, k, n, asked[p].since)
              /\ p \notin detached => acked[asked[p].in][k] <= n
              /\ \A q \in {p} \cup S!Joined(p) : \A m \in asked[q].floor[k] : m <= n
        BY <2>1, <2>3 DEF AskerOK, ReadOK
      <4>2. \A m \in asked'[r].floor[k] : m <= n
        BY <1>2, <1>3, <1>8, <2>3, <4>1, JoinerSees
      <4>3. \A q \in S!Joined(p)' : q = r \/ (q \in S!Joined(p) /\ asked'[q] = asked[q])
        BY <1>2 DEF S!Joined
      <4>4. Gives(asked[p].value, k, n, asked[p].since)'
        BY <1>1, <2>1, <4>1 DEF Gives
      <4>5. \A q \in {p} \cup S!Joined(p)' : \A m \in asked'[q].floor[k] : m <= n
        BY <2>1, <4>1, <4>2, <4>3
      <4> QED BY <1>1, <2>1, <4>1, <4>4, <4>5
    <3> QED BY <1>1, <2>1, <2>3, <3>1 DEF AskerOK, Busy
  <2> QED BY <1>3, <2>2, <2>3 DEF Busy
<1>12. \A q \in Asker : AskerOK(q)'
  <2> SUFFICES ASSUME NEW q \in Asker PROVE AskerOK(q)'
    OBVIOUS
  <2>1. q = r \/ q = p \/ q \in Asker \ {r, p}
    OBVIOUS
  <2> QED BY <1>9, <1>10, <1>11, <2>1
<1> QED BY <1>4, <1>5, <1>6, <1>7, <1>12 DEF SettingsInv

LEMMA DeriveStep ==
    ASSUME SettingsInv, NEW r \in Asker, NEW i \in Isolate, S!Derive(r, i)
    PROVE  SettingsInv'
<1> S!TypeOK /\ DOMAIN asked = Asker /\ clock \in Nat /\ MaxDerive \in Nat
  BY AskersTyped
<1> DEFINE v == [at |-> "deriving", in |-> i, since |-> clock, floor |-> S!Floor(i)]
<1>1. /\ asked' = [asked EXCEPT ![r] = v] /\ inFlight[i] = S!None
      /\ inFlight' = [inFlight EXCEPT ![i] = r]
      /\ asked[r].at \in {"idle", "answered"}
      /\ UNCHANGED <<clock, table, memos, log, acked, detached, saves>>
  BY DEF S!Derive, S!Ready
<1>2. asked'[r] = v /\ \A q \in Asker \ {r} : asked'[q] = asked[q]
  BY <1>1
<1>3. v.at = "deriving" /\ v.in = i /\ v.since = clock /\ v.floor = S!Floor(i)
  OBVIOUS
<1> HIDE DEF v
<1>4. Grows /\ LogIsRow'
  BY <1>1, LogStays
<1>5. S!TypeOK' /\ AckedInLog'
  BY <1>1 DEF SettingsInv, S!TypeOK, AckedInLog
<1>6. \A j \in Isolate : MemoOK(j)'
  BY <1>1, <1>4, MemosStay
<1>7. FlightOK'
  <2>1. inFlight'[i] = r /\ \A j \in Isolate \ {i} : inFlight'[j] = inFlight[j]
    BY <1>1 DEF S!TypeOK
  <2>2. FlightOK /\ r \notin detached /\ detached \subseteq Asker
    BY <1>1 DEF SettingsInv, FlightOK, Busy, S!TypeOK
  <2>3. \A q \in detached' : asked'[q].at \in Busy
    BY <1>1, <1>2, <2>2 DEF FlightOK
  <2>4. \A j \in Isolate : inFlight'[j] # S!None =>
          /\ inFlight'[j] \in Asker /\ inFlight'[j] \notin detached'
          /\ asked'[inFlight'[j]].at \in Busy /\ asked'[inFlight'[j]].in = j
    BY <1>1, <1>2, <1>3, <2>1, <2>2 DEF FlightOK, Busy
  <2>5. \A q \in Asker : asked'[q].at \in Busy /\ q \notin detached' =>
          inFlight'[asked'[q].in] = q
    <3>1. \A q \in Asker \ {r} : asked[q].at \in Busy => asked[q].in \in Isolate
      BY DEF SettingsInv, AskerOK
    <3> QED BY <1>1, <1>2, <1>3, <2>1, <2>2, <3>1, AskersTyped DEF FlightOK
  <2> QED BY <2>3, <2>4, <2>5 DEF FlightOK
<1>8. AskerOK(r)'
  <2>1. FloorOK(r)'
    BY <1>1, <1>2, <1>3, FloorBelow DEF FloorOK
  <2> QED BY <1>1, <1>2, <1>3, <2>1 DEF AskerOK, Busy
<1>9. \A q \in Asker \ {r} : AskerOK(q)'
  <2>1. v.at # "joined" /\ v.at \in Busy
    BY <1>3 DEF Busy
  <2> QED BY <1>1, <1>4, <2>1, OthersStay
<1> QED BY <1>4, <1>5, <1>6, <1>7, <1>8, <1>9 DEF SettingsInv

\* A derivation ends, and with it the wait of all who joined it.
LEMMA OthersGoOn ==
    ASSUME SettingsInv, Grows, NEW r \in Asker, asked[r].at \in Busy,
           UNCHANGED <<clock, acked>>, detached' = detached \ {r},
           \A q \in {r} \cup S!Joined(r) : asked'[q].at \in {"idle", "answered"},
           \A q \in Asker \ ({r} \cup S!Joined(r)) : asked'[q] = asked[q],
           NEW q \in Asker \ ({r} \cup S!Joined(r))
    PROVE  AskerOK(q)'
<1> S!TypeOK /\ clock \in Nat /\ MaxDerive \in Nat
  BY AskersTyped
<1>1. AskerOK(q) /\ asked'[q] = asked[q] /\ q # r
  BY DEF SettingsInv
<1>2. asked[q].at \in Busy => clock' <= asked[q].since + MaxDerive
  BY <1>1 DEF AskerOK
<1>3. asked[q].at = "joined" => asked'[asked[q].on].at \in Busy
  BY <1>1 DEF AskerOK, S!Joined, Busy
<1>4. \A j \in S!Joined(q)' : j \in S!Joined(q) /\ asked'[j] = asked[j]
  <2> SUFFICES ASSUME NEW j \in Asker, asked'[j].at = "joined", asked'[j].on = q
               PROVE  j \in S!Joined(q) /\ asked'[j] = asked[j]
    BY DEF S!Joined
  <2>1. asked'[j] = asked[j]
    OBVIOUS
  <2> QED BY <2>1 DEF S!Joined
<1> QED BY <1>1, <1>2, <1>3, <1>4, AskerStays

LEMMA FlightAfter ==
    ASSUME SettingsInv, NEW r \in Asker, asked[r].at \in Busy,
           detached' = detached \ {r},
           inFlight' = IF r \in detached THEN inFlight
                       ELSE [inFlight EXCEPT ![asked[r].in] = S!None],
           \A q \in {r} \cup S!Joined(r) : asked'[q].at \in {"idle", "answered"},
           \A q \in Asker \ ({r} \cup S!Joined(r)) : asked'[q] = asked[q]
    PROVE  FlightOK'
<1> S!TypeOK /\ S!None \notin Asker
  BY AskersTyped
<1>1. FlightOK /\ detached \subseteq Asker /\ DOMAIN inFlight = Isolate
  BY DEF SettingsInv, S!TypeOK
<1>2. asked[r].in \in Isolate
  BY DEF SettingsInv, AskerOK
<1>3. \A q \in Asker : asked[q].at \in Busy /\ q # r => asked'[q] = asked[q]
  BY DEF S!Joined, Busy
<1>4. \A q \in Asker : asked'[q].at \in Busy => q # r /\ asked'[q] = asked[q]
  BY DEF Busy
<1>5. \A q \in detached' : asked'[q].at \in Busy
  BY <1>1, <1>3 DEF FlightOK
<1>6. \A i \in Isolate : inFlight'[i] # S!None => inFlight'[i] = inFlight[i] /\ inFlight[i] # r
  <2>1. CASE r \in detached
    BY <1>1, <2>1 DEF FlightOK
  <2>2. CASE r \notin detached
    <3>1. inFlight[asked[r].in] = r
      BY <1>1, <2>2 DEF FlightOK
    <3> QED BY <1>1, <1>2, <2>2, <3>1 DEF FlightOK
  <2> QED BY <2>1, <2>2
<1>7. \A i \in Isolate : inFlight'[i] # S!None =>
          /\ inFlight'[i] \in Asker /\ inFlight'[i] \notin detached'
          /\ asked'[inFlight'[i]].at \in Busy /\ asked'[inFlight'[i]].in = i
  BY <1>1, <1>3, <1>6 DEF FlightOK
<1>8. \A q \in Asker : asked'[q].at \in Busy /\ q \notin detached' =>
          inFlight'[asked'[q].in] = q
  <2> SUFFICES ASSUME NEW q \in Asker, asked'[q].at \in Busy, q \notin detached'
               PROVE  inFlight'[asked'[q].in] = q
    OBVIOUS
  <2>1. q # r /\ asked'[q] = asked[q] /\ q \notin detached /\ inFlight[asked[q].in] = q
    BY <1>1, <1>4 DEF FlightOK
  <2>2. asked[q].in \in Isolate
    BY <2>1 DEF SettingsInv, AskerOK
  <2>3. r \notin detached => asked[q].in # asked[r].in
    BY <1>1, <2>1 DEF FlightOK
  <2> QED BY <1>1, <1>2, <2>1, <2>2, <2>3
<1> QED BY <1>5, <1>7, <1>8 DEF FlightOK

LEMMA SettleStep ==
    ASSUME SettingsInv, NEW r \in Asker, S!Settle(r)
    PROVE  SettingsInv'
<1> S!TypeOK /\ DOMAIN asked = Asker /\ clock \in Nat /\ MaxDerive \in Nat
    /\ S!None \notin Asker
  BY AskersTyped
<1> DEFINE G == {r} \cup S!Joined(r)
<1>1. /\ asked[r].at = "read" /\ S!Publish(r)
      /\ asked' = [q \in Asker |->
                     IF q \in G
                     THEN [at |-> "answered", value |-> asked[r].value,
                           floor |-> asked[q].floor]
                     ELSE asked[q]]
      /\ detached' = detached \ {r}
      /\ UNCHANGED <<clock, table, saves, log, acked>>
  BY DEF S!Settle
<1>2. /\ \A q \in G : /\ asked'[q].at = "answered"
                      /\ asked'[q].value = asked[r].value
                      /\ asked'[q].floor = asked[q].floor
      /\ \A q \in Asker \ G : asked'[q] = asked[q]
      /\ DOMAIN asked' = Asker
  <2>1. ASSUME NEW q \in G
        PROVE  /\ asked'[q].at = "answered" /\ asked'[q].value = asked[r].value
               /\ asked'[q].floor = asked[q].floor
    <3>1. q \in Asker
      BY DEF S!Joined
    <3>2. asked'[q] = [at |-> "answered", value |-> asked[r].value,
                       floor |-> asked[q].floor]
      BY <1>1, <3>1
    <3> QED BY <3>2
  <2>2. /\ \A q \in Asker \ G : asked'[q] = asked[q]
        /\ DOMAIN asked' = Asker
    BY <1>1
  <2> QED BY <2>1, <2>2
<1>3. AskerOK(r) /\ ReadOK(r) /\ asked[r].value \in S!Whole /\ asked[r].in \in Isolate
      /\ asked[r].since \in Nat /\ clock <= asked[r].since + MaxDerive
  BY <1>1 DEF SettingsInv, AskerOK, Busy, S!Whole
<1> HIDE DEF G
<1>4. Grows /\ LogIsRow'
  BY <1>1, LogStays
<1>5. inFlight' = IF r \in detached THEN inFlight
                  ELSE [inFlight EXCEPT ![asked[r].in] = S!None]
  BY <1>1 DEF S!Publish
<1>6. S!TypeOK' /\ AckedInLog'
  <2>1. inFlight' \in [Isolate -> Asker \cup {S!None}]
    BY <1>5 DEF S!TypeOK
  <2>2. memos' \in [Isolate -> SUBSET [value : S!Whole, at : 0..clock]]
    <3>1. [value |-> asked[r].value, at |-> clock] \in [value : S!Whole, at : 0..clock]
      BY <1>3
    <3> DEFINE X == [value |-> asked[r].value, at |-> clock]
               T == [value : S!Whole, at : 0..clock]
    <3>2. X \in T /\ memos \in [Isolate -> SUBSET T]
      BY <3>1 DEF S!TypeOK
    <3>3. memos' = memos \/ memos' = [memos EXCEPT ![asked[r].in] = {X}]
      BY <1>1 DEF S!Publish
    <3> HIDE DEF X, T
    <3>4. memos' \in [Isolate -> SUBSET T]
      BY <3>2, <3>3
    <3> QED BY <3>4 DEF T
  <2> QED BY <1>1, <1>2, <2>1, <2>2 DEF SettingsInv, S!TypeOK, AckedInLog
<1>7. ASSUME NEW i \in Isolate PROVE MemoOK(i)'
  <2>1. CASE memos'[i] = memos[i]
    <3>1. MemoOK(i) /\ acked'[i] = acked[i]
      BY <1>1 DEF SettingsInv
    <3> QED BY <1>4, <2>1, <3>1, MemoStays
  <2>2. CASE memos'[i] # memos[i]
    <3>1. i = asked[r].in /\ r \notin detached
          /\ memos'[i] = {[value |-> asked[r].value, at |-> clock]}
      BY <1>1, <2>2 DEF S!Publish, S!TypeOK
    <3> SUFFICES ASSUME NEW e \in memos'[i], NEW k \in Setting
                 PROVE  \E n \in DOMAIN log'[k] :
                          /\ e.value[k] = log'[k][n].v /\ acked'[i][k] <= n
                          /\ \A m \in DOMAIN log'[k] : m > n =>
                                e.at <= log'[k][m].t + MaxDerive
      BY DEF MemoOK
    <3>2. e.value = asked[r].value /\ e.at = clock
      BY <3>1
    <3>3. PICK n \in DOMAIN log[k] :
            /\ Gives(asked[r].value, k, n, asked[r].since)
            /\ acked[asked[r].in][k] <= n
      BY <1>3, <3>1 DEF ReadOK
    <3>4. \A m \in DOMAIN log[k] : m > n => clock <= log[k][m].t + MaxDerive
      <4> SUFFICES ASSUME NEW m \in DOMAIN log[k], m > n
                   PROVE  clock <= log[k][m].t + MaxDerive
        OBVIOUS
      <4>1. asked[r].since <= log[k][m].t
        BY <3>3 DEF Gives
      <4>2. log[k][m].t \in Nat
        BY EntryTyped
      <4> QED BY <1>3, <4>1, <4>2
    <3> QED BY <1>1, <3>1, <3>2, <3>3, <3>4 DEF Gives
  <2> QED BY <2>1, <2>2
<1>8. \A q \in G : asked'[q].at \in {"idle", "answered"}
  BY <1>2
<1>9. asked[r].at \in Busy
  BY <1>1 DEF Busy
<1>10. FlightOK'
  BY <1>1, <1>2, <1>5, <1>8, <1>9, FlightAfter DEF G
<1>11. ASSUME NEW q \in Asker PROVE AskerOK(q)'
  <2>1. CASE q \in G
    <3>1. asked'[q].at = "answered" /\ asked'[q].value = asked[r].value
          /\ asked'[q].floor = asked[q].floor
      BY <1>2, <2>1
    <3>2. AnsweredOK(q)'
      BY <1>1, <1>3, <2>1, <3>1 DEF AnsweredOK, ReadOK, Gives, G
    <3> QED BY <3>1, <3>2 DEF AskerOK, Busy
  <2>2. CASE q \notin G
    BY <1>1, <1>2, <1>4, <1>8, <1>9, <2>2, OthersGoOn DEF G
  <2> QED BY <2>1, <2>2
<1>12. \A i \in Isolate : MemoOK(i)'
  BY <1>7
<1>13. \A q \in Asker : AskerOK(q)'
  BY <1>11
<1> QED BY <1>4, <1>6, <1>10, <1>12, <1>13 DEF SettingsInv

LEMMA DeriveFailsStep ==
    ASSUME SettingsInv, NEW r \in Asker, S!DeriveFails(r)
    PROVE  SettingsInv'
<1> S!TypeOK /\ DOMAIN asked = Asker /\ clock \in Nat /\ S!None \notin Asker
  BY AskersTyped
<1> DEFINE G == {r} \cup S!Joined(r)
<1>1. /\ asked[r].at = "deriving"
      /\ inFlight' = IF r \in detached THEN inFlight
                     ELSE [inFlight EXCEPT ![asked[r].in] = S!None]
      /\ asked' = [q \in Asker |-> IF q \in G THEN S!Idle ELSE asked[q]]
      /\ detached' = detached \ {r}
      /\ UNCHANGED <<clock, table, memos, saves, log, acked>>
  BY DEF S!DeriveFails
<1>2. /\ \A q \in G : asked'[q].at = "idle"
      /\ \A q \in Asker \ G : asked'[q] = asked[q]
      /\ DOMAIN asked' = Asker
  BY <1>1 DEF S!Joined, S!Idle
<1> HIDE DEF G
<1>3. Grows /\ LogIsRow'
  BY <1>1, LogStays
<1>4. S!TypeOK' /\ AckedInLog'
  <2>1. inFlight' \in [Isolate -> Asker \cup {S!None}]
    BY <1>1 DEF S!TypeOK
  <2> QED BY <1>1, <1>2, <2>1 DEF SettingsInv, S!TypeOK, AckedInLog
<1>5. \A i \in Isolate : MemoOK(i)'
  BY <1>1, <1>3, MemosStay
<1>6. asked[r].at \in Busy
  BY <1>1 DEF Busy
<1>7. FlightOK'
  BY <1>1, <1>2, <1>6, FlightAfter DEF G
<1>8. \A q \in Asker : AskerOK(q)'
  <2> SUFFICES ASSUME NEW q \in Asker PROVE AskerOK(q)'
    OBVIOUS
  <2>1. CASE q \in G
    BY <1>2, <2>1 DEF AskerOK, Busy
  <2>2. CASE q \notin G
    BY <1>1, <1>2, <1>3, <1>6, <2>2, OthersGoOn DEF G
  <2> QED BY <2>1, <2>2
<1> QED BY <1>3, <1>4, <1>5, <1>7, <1>8 DEF SettingsInv

\* A write adds to the log what the rows it names mean from now on.
LEMMA LogGrows ==
    ASSUME SettingsInv, NEW K \in SUBSET Setting, table' \in S!Table,
           log' = S!Logged(K, table'), clock' = clock,
           \A k \in Setting \ K : table'[k] = table[k]
    PROVE  /\ Grows /\ LogIsRow'
           /\ log' \in [Setting -> Seq([v : Nat, t : 0..clock])]
<1> S!TypeOK /\ clock \in Nat
  BY AskersTyped
<1> DEFINE T == [v : Nat, t : 0..clock]
           New(k) == [v |-> S!Resolve(k, table'), t |-> clock]
<1>1. ASSUME NEW k \in Setting
      PROVE  New(k) \in T /\ New(k).t = clock /\ New(k).v = S!Resolve(k, table')
  <2>1. S!Resolve(k, table') \in Nat
    BY ResolveTyped
  <2> QED BY <2>1
<1>2. log \in [Setting -> Seq(T)]
  BY DEF S!TypeOK
<1>3. log' = [k \in Setting |-> IF k \in K THEN Append(log[k], New(k)) ELSE log[k]]
  BY DEF S!Logged
<1> HIDE DEF T, New
<1>4. ASSUME NEW k \in Setting
      PROVE  /\ log'[k] \in Seq(T)
             /\ DOMAIN log[k] \subseteq DOMAIN log'[k] /\ Len(log[k]) <= Len(log'[k])
             /\ \A n \in DOMAIN log[k] : log'[k][n] = log[k][n]
             /\ \A n \in DOMAIN log'[k] : n \notin DOMAIN log[k] =>
                   n > Len(log[k]) /\ log'[k][n].t = clock
             /\ Len(log'[k]) >= 1
             /\ log'[k][Len(log'[k])].v = S!Resolve(k, table')
  <2>1. CASE k \in K
    <3>1. log'[k] = Append(log[k], New(k)) /\ log[k] \in Seq(T) /\ New(k) \in T
      BY <1>1, <1>2, <1>3, <2>1
    <3>2. /\ log'[k] \in Seq(T) /\ Len(log'[k]) = Len(log[k]) + 1
          /\ Len(log[k]) \in Nat
          /\ DOMAIN log[k] = 1..Len(log[k]) /\ DOMAIN log'[k] = 1..(Len(log[k]) + 1)
          /\ \A n \in DOMAIN log[k] : log'[k][n] = log[k][n]
          /\ log'[k][Len(log[k]) + 1] = New(k)
      BY <3>1
    <3> QED BY <1>1, <3>2
  <2>2. CASE k \notin K
    <3>1. log'[k] = log[k] /\ log[k] \in Seq(T)
      BY <1>2, <1>3, <2>2
    <3>2. S!Resolve(k, table') = S!Resolve(k, table)
      BY <2>2 DEF S!Resolve
    <3>3. Len(log[k]) \in Nat /\ Len(log[k]) >= 1
          /\ log[k][Len(log[k])].v = S!Resolve(k, table)
      BY LogTyped DEF SettingsInv, LogIsRow
    <3> QED BY <3>1, <3>2, <3>3
  <2> QED BY <2>1, <2>2
<1>5. T = [v : Nat, t : 0..clock] /\ [v : Nat, t : 0..clock'] = T
  BY DEF T
<1>6. Grows
  <2> SUFFICES ASSUME NEW k \in Setting
               PROVE  /\ log'[k] \in Seq([v : Nat, t : 0..clock'])
                      /\ DOMAIN log[k] \subseteq DOMAIN log'[k]
                      /\ Len(log[k]) <= Len(log'[k])
                      /\ \A n \in DOMAIN log[k] : log'[k][n] = log[k][n]
                      /\ \A n \in DOMAIN log'[k] : n \notin DOMAIN log[k] =>
                            n > Len(log[k]) /\ log'[k][n].t = clock
    BY DEF Grows
  <2> QED BY <1>4, <1>5
<1>7. LogIsRow'
  <2> SUFFICES ASSUME NEW k \in Setting
               PROVE  /\ Len(log'[k]) >= 1
                      /\ log'[k][Len(log'[k])].v = S!Resolve(k, table)'
    BY DEF LogIsRow
  <2>1. S!Resolve(k, table)' = S!Resolve(k, table')
    BY DEF S!Resolve
  <2> QED BY <1>4, <2>1
<1>8. log' \in [Setting -> Seq(T)]
  BY <1>3, <1>4
<1> QED BY <1>5, <1>6, <1>7, <1>8

\* A write of one saver, who is not joined and does not wait.
LEMMA SaverWrites ==
    ASSUME SettingsInv, NEW r \in Asker, NEW v, asked' = [asked EXCEPT ![r] = v],
           asked[r].at \notin Busy, v.at = "saving", AskerOK(r)',
           Grows, LogIsRow', log' \in [Setting -> Seq([v : Nat, t : 0..clock])],
           table' \in S!Table, saves' \in 0..MaxSaves,
           UNCHANGED <<clock, memos, inFlight, detached, acked>>
    PROVE  SettingsInv'
<1> S!TypeOK
  BY AskersTyped
<1>1. v.at \notin Busy /\ v.at # "joined"
  BY DEF Busy
<1>2. S!TypeOK'
  BY DEF S!TypeOK
<1>3. AckedInLog'
  <2> SUFFICES ASSUME NEW i \in Isolate, NEW k \in Setting
               PROVE  acked'[i][k] <= Len(log'[k])
    BY DEF AckedInLog
  <2>1. acked[i][k] \in Nat /\ acked[i][k] <= Len(log[k])
    BY DEF SettingsInv, AckedInLog, S!TypeOK
  <2>2. Len(log[k]) \in Nat /\ Len(log'[k]) \in Nat /\ Len(log[k]) <= Len(log'[k])
    BY LogTyped DEF Grows
  <2> QED BY <2>1, <2>2
<1>4. \A i \in Isolate : MemoOK(i)'
  BY MemosStay
<1>5. FlightOK'
  BY <1>1, FlightStays
<1>6. \A q \in Asker : AskerOK(q)'
  BY <1>1, OthersStay
<1> QED BY <1>2, <1>3, <1>4, <1>5, <1>6 DEF SettingsInv

LEMMA SaveStep ==
    ASSUME SettingsInv, NEW r \in Asker, NEW i \in Isolate, S!Save(r, i)
    PROVE  SettingsInv'
<1> S!TypeOK /\ DOMAIN asked = Asker
  BY AskersTyped
<1>1. PICK K \in SUBSET Setting \ {{}} : \E wish \in [K -> Wish] :
        asked' = [asked EXCEPT ![r] = [at |-> "saving", in |-> i, left |-> wish]]
  BY DEF S!Save
<1>2. PICK wish \in [K -> Wish] :
        asked' = [asked EXCEPT ![r] = [at |-> "saving", in |-> i, left |-> wish]]
  BY <1>1
<1>3. /\ asked[r].at \in {"idle", "answered"} /\ saves < MaxSaves /\ saves' = saves + 1
      /\ UNCHANGED <<clock, table, memos, log, acked, inFlight, detached>>
  BY DEF S!Save, S!Ready
<1>4. saves' \in 0..MaxSaves
  BY <1>3, SettingsAssumption DEF S!TypeOK
<1> DEFINE v == [at |-> "saving", in |-> i, left |-> wish]
<1>5. asked' = [asked EXCEPT ![r] = v] /\ v.at = "saving" /\ v.in = i /\ v.left = wish
  BY <1>2
<1> HIDE DEF v
<1>6. asked'[r] = v
  BY <1>5
<1>7. \A k \in DOMAIN wish : k \in Setting /\ wish[k] \in Nat
  BY SettingsAssumption
<1>8. AskerOK(r)'
  BY <1>5, <1>6, <1>7 DEF AskerOK, Busy
<1>9. asked[r].at \notin Busy /\ v.at \notin Busy /\ v.at # "joined"
  BY <1>3, <1>5 DEF Busy
<1> QED BY <1>3, <1>4, <1>5, <1>8, <1>9, AskerAlone

LEMMA SaveFailsStep ==
    ASSUME SettingsInv, NEW r \in Asker, S!SaveFails(r)
    PROVE  SettingsInv'
<1> S!TypeOK /\ DOMAIN asked = Asker
  BY AskersTyped
<1>1. /\ asked[r].at = "saving" /\ asked' = [asked EXCEPT ![r] = S!Idle]
      /\ UNCHANGED <<clock, table, memos, log, acked, inFlight, detached, saves>>
  BY DEF S!SaveFails
<1>2. saves' \in 0..MaxSaves
  BY <1>1 DEF S!TypeOK
<1>3. S!Idle.at = "idle" /\ asked'[r] = S!Idle
  BY <1>1 DEF S!Idle
<1>4. AskerOK(r)'
  BY <1>3 DEF AskerOK, Busy
<1>5. asked[r].at \notin Busy /\ S!Idle.at \notin Busy /\ S!Idle.at # "joined"
  BY <1>1, <1>3 DEF Busy
<1> QED BY <1>1, <1>2, <1>4, <1>5, AskerAlone

LEMMA WriteRowStep ==
    ASSUME SettingsInv, NEW r \in Asker, S!WriteRow(r)
    PROVE  SettingsInv'
<1> S!TypeOK /\ DOMAIN asked = Asker
  BY AskersTyped
<1>1. PICK k \in DOMAIN asked[r].left :
        /\ table' = [table EXCEPT ![k] = S!Stored(k, asked[r].left[k])]
        /\ log' = S!Logged({k}, table')
        /\ asked' = [asked EXCEPT ![r] = [at |-> "saving", in |-> asked[r].in,
                       left |-> [l \in DOMAIN asked[r].left \ {k} |-> asked[r].left[l]]]]
  BY DEF S!WriteRow
<1>2. asked[r].at = "saving"
      /\ UNCHANGED <<clock, memos, inFlight, detached, saves, acked>>
  BY DEF S!WriteRow
<1>3. /\ asked[r].in \in Isolate
      /\ \A l \in DOMAIN asked[r].left : l \in Setting /\ asked[r].left[l] \in Nat
  BY <1>2 DEF SettingsInv, AskerOK
<1>4. S!Stored(k, asked[r].left[k]) \in Nat
  <2>1. asked[r].left[k] \in Nat
    BY <1>3
  <2> QED BY <2>1 DEF S!Stored, S!Clamp, S!Low, S!High
<1>5. table' \in S!Table /\ \A l \in Setting \ {k} : table'[l] = table[l]
  BY <1>1, <1>3, <1>4 DEF S!TypeOK, S!Table
<1>6. Grows /\ LogIsRow' /\ log' \in [Setting -> Seq([v : Nat, t : 0..clock])]
  <2>1. {k} \in SUBSET Setting
    BY <1>3
  <2> QED BY <1>1, <1>2, <1>5, <2>1, LogGrows
<1> DEFINE left == [l \in DOMAIN asked[r].left \ {k} |-> asked[r].left[l]]
           v == [at |-> "saving", in |-> asked[r].in, left |-> left]
<1>7. \A l \in DOMAIN left : l \in Setting /\ left[l] \in Nat
  BY <1>3
<1>8. asked' = [asked EXCEPT ![r] = v] /\ v.at = "saving"
      /\ v.in = asked[r].in /\ v.left = left
  BY <1>1
<1> HIDE DEF v, left
<1>9. asked'[r] = v
  BY <1>8
<1>10. AskerOK(r)'
  BY <1>3, <1>7, <1>8, <1>9 DEF AskerOK, Busy
<1>11. saves' \in 0..MaxSaves /\ asked[r].at \notin Busy
  BY <1>2 DEF S!TypeOK, Busy
<1> QED BY <1>2, <1>5, <1>6, <1>8, <1>10, <1>11, SaverWrites

LEMMA ResetStep ==
    ASSUME SettingsInv, NEW r \in Asker, NEW i \in Isolate, S!Reset(r, i)
    PROVE  SettingsInv'
<1> S!TypeOK /\ DOMAIN asked = Asker
  BY AskersTyped
<1> DEFINE v == [at |-> "saving", in |-> i, left |-> <<>>]
<1>1. /\ asked[r].at \in {"idle", "answered"} /\ saves < MaxSaves /\ saves' = saves + 1
      /\ table' = [k \in Setting |-> S!Absent]
      /\ log' = S!Logged(Setting, table')
      /\ asked' = [asked EXCEPT ![r] = v]
      /\ UNCHANGED <<clock, memos, inFlight, detached, acked>>
  BY DEF S!Reset, S!Ready
<1>2. v.at = "saving" /\ v.in = i /\ v.left = <<>> /\ DOMAIN v.left = {}
  OBVIOUS
<1> HIDE DEF v
<1>3. table' \in S!Table
  BY <1>1 DEF S!Table
<1>4. Grows /\ LogIsRow' /\ log' \in [Setting -> Seq([v : Nat, t : 0..clock])]
  BY <1>1, <1>3, LogGrows
<1>5. saves' \in 0..MaxSaves /\ asked[r].at \notin Busy
  BY <1>1, SettingsAssumption DEF S!TypeOK, Busy
<1>6. asked'[r] = v
  BY <1>1
<1>7. AskerOK(r)'
  BY <1>2, <1>6 DEF AskerOK, Busy
<1> QED BY <1>1, <1>2, <1>3, <1>4, <1>5, <1>7, SaverWrites

LEMMA BustStep ==
    ASSUME SettingsInv, NEW r \in Asker, S!Bust(r)
    PROVE  SettingsInv'
<1> S!TypeOK /\ DOMAIN asked = Asker /\ clock \in Nat /\ S!None \notin Asker
  BY AskersTyped
<1>1. PICK i : i = asked[r].in
  OBVIOUS
<1>2. PICK p : p = inFlight[i]
  OBVIOUS
<1>3. /\ asked[r].at = "saving"
      /\ memos' = [memos EXCEPT ![i] = {}]
      /\ inFlight' = [inFlight EXCEPT ![i] = S!None]
      /\ detached' = detached \cup ({p} \ {S!None})
      /\ acked' = [acked EXCEPT ![i] = [k \in Setting |-> Len(log[k])]]
      /\ asked' = [asked EXCEPT ![r] = S!Idle]
      /\ UNCHANGED <<clock, table, saves, log>>
  BY <1>1, <1>2 DEF S!Bust
<1>4. i \in Isolate
  BY <1>1, <1>3 DEF SettingsInv, AskerOK
<1>5. S!Idle.at = "idle" /\ asked'[r] = S!Idle
      /\ \A q \in Asker \ {r} : asked'[q] = asked[q]
  BY <1>3 DEF S!Idle
<1>6. Grows /\ LogIsRow'
  BY <1>3, LogStays
<1>7. /\ p = S!None \/ (p \in Asker /\ asked[p].at \in Busy /\ asked[p].in = i)
      /\ p = inFlight[i]
  BY <1>2, <1>4 DEF SettingsInv, FlightOK
<1>8. /\ acked'[i] = [k \in Setting |-> Len(log[k])] /\ memos'[i] = {}
      /\ inFlight'[i] = S!None
      /\ \A j \in Isolate \ {i} : /\ acked'[j] = acked[j] /\ memos'[j] = memos[j]
                                  /\ inFlight'[j] = inFlight[j]
  BY <1>3, <1>4 DEF S!TypeOK
<1>9. S!TypeOK'
  <2>1. [k \in Setting |-> Len(log[k])] \in [Setting -> Nat]
    BY LogTyped
  <2>2. acked' \in [Isolate -> [Setting -> Nat]]
    BY <1>3, <2>1 DEF S!TypeOK
  <2>3. detached' \in SUBSET Asker /\ inFlight' \in [Isolate -> Asker \cup {S!None}]
    BY <1>3, <1>7 DEF S!TypeOK
  <2>4. memos' \in [Isolate -> SUBSET [value : S!Whole, at : 0..clock]]
    BY <1>3 DEF S!TypeOK
  <2> QED BY <1>3, <2>2, <2>3, <2>4 DEF S!TypeOK
<1>10. AckedInLog'
  <2> SUFFICES ASSUME NEW j \in Isolate, NEW k \in Setting
               PROVE  acked'[j][k] <= Len(log'[k])
    BY DEF AckedInLog
  <2>1. CASE j = i
    BY <1>3, <1>8, <2>1, LogTyped
  <2>2. CASE j # i
    BY <1>3, <1>8, <2>2 DEF SettingsInv, AckedInLog
  <2> QED BY <2>1, <2>2
<1>11. ASSUME NEW j \in Isolate PROVE MemoOK(j)'
  <2>1. MemoOK(j) /\ (memos'[j] = {} \/ (memos'[j] = memos[j] /\ acked'[j] = acked[j]))
    BY <1>8 DEF SettingsInv
  <2> QED BY <1>6, <2>1, MemoStays
<1>12. FlightOK
  BY DEF SettingsInv
<1>13. asked[r].at \notin Busy /\ S!Idle.at \notin Busy /\ S!Idle.at # "joined"
  BY <1>3, <1>5 DEF Busy
<1>14. FlightOK'
  <2>1. \A q \in detached' : asked'[q].at \in Busy
    BY <1>3, <1>5, <1>7, <1>12, <1>13 DEF FlightOK, S!TypeOK
  <2>2. \A j \in Isolate : inFlight'[j] # S!None =>
          /\ inFlight'[j] \in Asker /\ inFlight'[j] \notin detached'
          /\ asked'[inFlight'[j]].at \in Busy /\ asked'[inFlight'[j]].in = j
    <3> SUFFICES ASSUME NEW j \in Isolate, inFlight'[j] # S!None
                 PROVE  /\ inFlight'[j] \in Asker /\ inFlight'[j] \notin detached'
                        /\ asked'[inFlight'[j]].at \in Busy /\ asked'[inFlight'[j]].in = j
      OBVIOUS
    <3>1. j # i /\ inFlight'[j] = inFlight[j]
      BY <1>8
    <3>2. /\ inFlight[j] \in Asker /\ inFlight[j] \notin detached
          /\ asked[inFlight[j]].at \in Busy /\ asked[inFlight[j]].in = j
      BY <1>12, <3>1 DEF FlightOK
    <3>3. inFlight[j] # p /\ inFlight[j] # r
      BY <1>7, <1>13, <3>1, <3>2
    <3> QED BY <1>3, <1>5, <3>1, <3>2, <3>3
  <2>3. \A q \in Asker : asked'[q].at \in Busy /\ q \notin detached' =>
          inFlight'[asked'[q].in] = q
    <3> SUFFICES ASSUME NEW q \in Asker, asked'[q].at \in Busy, q \notin detached'
                 PROVE  inFlight'[asked'[q].in] = q
      OBVIOUS
    <3>1. q # r /\ asked'[q] = asked[q] /\ q \notin detached /\ q # p
      BY <1>3, <1>5, <1>13
    <3>2. inFlight[asked[q].in] = q /\ asked[q].in \in Isolate
      BY <1>12, <3>1 DEF FlightOK, SettingsInv, AskerOK
    <3>3. asked[q].in # i
      BY <1>7, <3>1, <3>2
    <3> QED BY <1>8, <3>1, <3>2, <3>3
  <2> QED BY <2>1, <2>2, <2>3 DEF FlightOK
<1>15. AskerOK(r)'
  BY <1>5 DEF AskerOK, Busy
<1>16. \A q \in Asker : asked[q].at \in Busy /\ q \notin detached' =>
          acked'[asked[q].in] = acked[asked[q].in]
  <2> SUFFICES ASSUME NEW q \in Asker, asked[q].at \in Busy, q \notin detached'
               PROVE  acked'[asked[q].in] = acked[asked[q].in]
    OBVIOUS
  <2>1. q \notin detached /\ q # p
    BY <1>3
  <2>2. inFlight[asked[q].in] = q /\ asked[q].in \in Isolate
    BY <1>12, <2>1 DEF FlightOK, SettingsInv, AskerOK
  <2> QED BY <1>7, <1>8, <2>1, <2>2
<1>17. detached \subseteq detached'
  BY <1>3
<1>18. \A q \in Asker \ {r} : AskerOK(q)'
  BY <1>3, <1>6, <1>13, <1>16, <1>17, OthersStay
<1>19. \A q \in Asker : AskerOK(q)'
  BY <1>15, <1>18
<1>20. \A j \in Isolate : MemoOK(j)'
  BY <1>11
<1> QED BY <1>6, <1>9, <1>10, <1>14, <1>19, <1>20 DEF SettingsInv

LEMMA TickStep ==
    ASSUME SettingsInv, S!Tick
    PROVE  SettingsInv'
<1> S!TypeOK /\ DOMAIN asked = Asker /\ clock \in Nat /\ MaxDerive \in Nat
  BY AskersTyped
<1>1. /\ clock < MaxClock /\ clock' = clock + 1
      /\ \A r \in Asker : asked[r].at \in Busy => clock - asked[r].since < MaxDerive
      /\ UNCHANGED <<table, memos, inFlight, detached, asked, saves, log, acked>>
  BY DEF S!Tick, Busy
<1>2. clock' \in Nat /\ clock <= clock' /\ clock' \in 0..MaxClock
  BY <1>1, SettingsAssumption
<1>3. Grows
  BY <1>1, <1>2, SameLogGrows
<1>4. LogIsRow' /\ AckedInLog' /\ FlightOK'
  BY <1>1 DEF SettingsInv, LogIsRow, AckedInLog, FlightOK, S!Resolve
<1>5. S!TypeOK'
  <2>1. 0..clock \subseteq 0..clock'
    BY <1>1
  <2>2. [value : S!Whole, at : 0..clock] \subseteq [value : S!Whole, at : 0..clock']
    BY <2>1
  <2>3. memos' \in [Isolate -> SUBSET [value : S!Whole, at : 0..clock']]
    <3>1. memos \in [Isolate -> SUBSET [value : S!Whole, at : 0..clock]]
      BY DEF S!TypeOK
    <3> DEFINE T == [value : S!Whole, at : 0..clock]
               U == [value : S!Whole, at : 0..clock']
    <3>2. T \subseteq U /\ memos \in [Isolate -> SUBSET T]
      BY <2>2, <3>1
    <3> HIDE DEF T, U
    <3>3. memos' \in [Isolate -> SUBSET U]
      BY <1>1, <3>2
    <3> QED BY <3>3 DEF U
  <2>4. log' \in [Setting -> Seq([v : Nat, t : 0..clock'])]
    <3>1. \A k \in Setting : log'[k] \in Seq([v : Nat, t : 0..clock'])
      BY <1>3 DEF Grows
    <3>2. log' = log /\ DOMAIN log = Setting
          /\ log = [k \in Setting |-> log[k]]
      BY <1>1 DEF S!TypeOK
    <3> QED BY <3>1, <3>2
  <2> QED BY <1>1, <1>2, <2>3, <2>4 DEF S!TypeOK
<1>6. \A i \in Isolate : MemoOK(i)'
  BY <1>1, <1>3, MemosStay
<1>7. ASSUME NEW q \in Asker PROVE AskerOK(q)'
  <2>1. AskerOK(q) /\ asked'[q] = asked[q]
    BY <1>1 DEF SettingsInv
  <2>2. asked[q].at \in Busy => clock' <= asked[q].since + MaxDerive
    BY <1>1, <2>1 DEF AskerOK
  <2>3. asked[q].at = "joined" => asked'[asked[q].on].at \in Busy
    BY <1>1, <2>1 DEF AskerOK
  <2>4. \A j \in S!Joined(q)' : j \in S!Joined(q) /\ asked'[j] = asked[j]
    BY <1>1 DEF S!Joined
  <2> QED BY <1>1, <1>2, <1>3, <2>1, <2>2, <2>3, <2>4, AskerStays
<1>8. \A q \in Asker : AskerOK(q)'
  BY <1>7
<1> QED BY <1>3, <1>4, <1>5, <1>6, <1>8 DEF SettingsInv

\* What an asker was answered is of the rows it read, which are no older than
\* its floor: the invariant holds at the start and every step keeps it.
THEOREM SettingsInvariant == S!Spec => []SettingsInv
<1>1. S!Init => SettingsInv
  <2> SUFFICES ASSUME S!Init PROVE SettingsInv
    OBVIOUS
  <2> DEFINE E(k) == [v |-> S!Resolve(k, table), t |-> 0]
  <2>1. /\ clock = 0 /\ saves = 0 /\ table \in [Setting -> {S!Absent, S!Junk}]
        /\ memos = [i \in Isolate |-> {}] /\ inFlight = [i \in Isolate |-> S!None]
        /\ detached = {} /\ asked = [r \in Asker |-> S!Idle]
        /\ log = [k \in Setting |-> <<E(k)>>]
        /\ acked = [i \in Isolate |-> [k \in Setting |-> 1]]
    BY DEF S!Init
  <2>2. table \in S!Table
    BY <2>1 DEF S!Table
  <2>3. \A k \in Setting : E(k) \in [v : Nat, t : 0..clock]
                           /\ E(k).v = S!Resolve(k, table)
    BY <2>1, <2>2, ResolveTyped
  <2> HIDE DEF E
  <2>4. \A k \in Setting : /\ log[k] = <<E(k)>> /\ Len(log[k]) = 1
                           /\ log[k] \in Seq([v : Nat, t : 0..clock])
    BY <2>1, <2>3
  <2>5. \A r \in Asker : asked[r].at = "idle"
    BY <2>1 DEF S!Idle
  <2>6. S!TypeOK
    BY <2>1, <2>2, <2>4, SettingsAssumption DEF S!TypeOK
  <2>7. LogIsRow
    <3> SUFFICES ASSUME NEW k \in Setting
                 PROVE  Len(log[k]) >= 1 /\ log[k][Len(log[k])].v = S!Resolve(k, table)
      BY DEF LogIsRow
    <3>1. log[k] = <<E(k)>> /\ Len(log[k]) = 1
      BY <2>4
    <3>2. log[k][1] = E(k)
      BY <3>1
    <3> QED BY <2>3, <3>1, <3>2
  <2>8. AckedInLog
    BY <2>1, <2>4 DEF AckedInLog
  <2>9. \A r \in Asker : AskerOK(r)
    BY <2>5 DEF AskerOK, Busy
  <2>10. \A i \in Isolate : MemoOK(i)
    BY <2>1 DEF MemoOK
  <2>11. FlightOK
    BY <2>1, <2>5 DEF FlightOK, Busy
  <2> QED BY <2>6, <2>7, <2>8, <2>9, <2>10, <2>11 DEF SettingsInv
<1>2. SettingsInv /\ [S!Next]_(S!vars) => SettingsInv'
  <2> SUFFICES ASSUME SettingsInv, [S!Next]_(S!vars) PROVE SettingsInv'
    OBVIOUS
  <2>1. CASE S!Tick
    BY <2>1, TickStep
  <2>2. ASSUME NEW r \in Asker, S!RequestStep(r) PROVE SettingsInv'
    <3>1. ASSUME NEW i \in Isolate, S!FromMemo(r, i) PROVE SettingsInv'
      BY <3>1, FromMemoStep
    <3>2. ASSUME NEW i \in Isolate, S!Join(r, i) PROVE SettingsInv'
      BY <3>2, JoinStep
    <3>3. ASSUME NEW i \in Isolate, S!Derive(r, i) PROVE SettingsInv'
      BY <3>3, DeriveStep
    <3>4. ASSUME NEW i \in Isolate, S!Save(r, i) PROVE SettingsInv'
      BY <3>4, SaveStep
    <3>5. ASSUME NEW i \in Isolate, S!Reset(r, i) PROVE SettingsInv'
      BY <3>5, ResetStep
    <3>6. CASE S!ReadRows(r)
      BY <3>6, ReadRowsStep
    <3>7. CASE S!Settle(r)
      BY <3>7, SettleStep
    <3>8. CASE S!DeriveFails(r)
      BY <3>8, DeriveFailsStep
    <3>9. CASE S!WriteRow(r)
      BY <3>9, WriteRowStep
    <3>10. CASE S!Bust(r)
      BY <3>10, BustStep
    <3>11. CASE S!SaveFails(r)
      BY <3>11, SaveFailsStep
    <3> QED BY <2>2, <3>1, <3>2, <3>3, <3>4, <3>5, <3>6, <3>7, <3>8, <3>9, <3>10,
               <3>11 DEF S!RequestStep
  <2>3. CASE UNCHANGED S!vars
    <3>1. UNCHANGED <<clock, table, memos, inFlight, detached, asked, saves, log, acked>>
      BY <2>3 DEF S!vars
    <3>2. Grows /\ LogIsRow'
      BY <3>1, LogStays
    <3>3. S!TypeOK' /\ AckedInLog' /\ FlightOK'
      BY <3>1 DEF SettingsInv, S!TypeOK, AckedInLog, FlightOK
    <3>4. \A i \in Isolate : MemoOK(i)'
      BY <3>1, <3>2, MemosStay
    <3>5. ASSUME NEW q \in Asker PROVE AskerOK(q)'
      <4>1. AskerOK(q) /\ asked'[q] = asked[q] /\ clock' = clock /\ clock \in Nat
        BY <3>1, AskersTyped DEF SettingsInv
      <4>2. asked[q].at \in Busy => clock' <= asked[q].since + MaxDerive
        BY <4>1 DEF AskerOK
      <4>3. asked[q].at = "joined" => asked'[asked[q].on].at \in Busy
        BY <3>1, <4>1 DEF AskerOK
      <4>4. \A j \in S!Joined(q)' : j \in S!Joined(q) /\ asked'[j] = asked[j]
        BY <3>1 DEF S!Joined
      <4> QED BY <3>1, <3>2, <4>1, <4>2, <4>3, <4>4, AskerStays
    <3>6. \A q \in Asker : AskerOK(q)'
      BY <3>5
    <3> QED BY <3>2, <3>3, <3>4, <3>6 DEF SettingsInv
  <2> QED BY <2>1, <2>2, <2>3 DEF S!Next
<1> QED BY <1>1, <1>2, PTL DEF S!Spec

\* A save its own isolate was told of is in every answer that begins there
\* afterwards, and every other isolate's within a memo's life and a derivation.
THEOREM SavedIsServed == S!Spec => []SavesAreSeen
<1>1. SettingsInv => SavesAreSeen
  BY DEF SettingsInv, AskerOK, AnsweredOK, SavesAreSeen, S!SavesAreSeen
<1> QED BY <1>1, SettingsInvariant, PTL
=============================================================================
