--------------------------- MODULE UniverseScanner --------------------------
(***************************************************************************)
(* data/universe_collector.py appends a snapshot of all markets a minute   *)
(* to the file of its day; scripts/run_market_scanner.py, a process of its *)
(* own, replays the last files, then follows the newest file by its offset *)
(* and feeds what it reads to the selection engine.                        *)
(***************************************************************************)
EXTENDS MarketActivity

CONSTANTS DayLength,      \* a day
          HistoryFiles,   \* --history-files
          Steps,          \* how far the collector's clock moves; < 0: it is set back
          VolumeAt,       \* the day's volume of a market at the times that occur
          MaxSnapshots    \* bound: snapshots the collector writes

ASSUME ScannerAssumption ==
    /\ DayLength \in Nat \ {0}
    /\ HistoryFiles \in Nat \ {0}
    /\ Steps \subseteq Int
    /\ DOMAIN VolumeAt \subseteq Nat \ {0}
    /\ \A t \in DOMAIN VolumeAt : VolumeAt[t] \in Int
    /\ MaxSnapshots \in Nat

VARIABLES clock,      \* time.time() of the last collect_once
          files,      \* [day -> the snapshots appended to its file]
          pc,         \* where the scanner's main is
          todo,       \* the files still to be replayed
          current,    \* the file it follows
          offset,     \* how far it has read that file
          engine,     \* the MarketSelectionEngine
          fed,        \* history: the snapshots fed to the engine, as <<day, position>>
          skipped     \* history: appended between the replay and the look at the size

collectorVars == <<clock, files>>
scannerVars   == <<pc, todo, current, offset, engine, fed, skipped>>
vars == <<collectorVars, scannerVars>>

Days == DOMAIN files
Newer(day) == {d \in Days : d > day}

Init ==
    /\ clock = 0
    /\ files = [d \in {} |-> <<>>]
    /\ pc = "start"
    /\ todo = {}
    /\ current = 0
    /\ offset = 0
    /\ engine = NewEngine
    /\ fed = <<>>
    /\ skipped = {}

-----------------------------------------------------------------------------

Written == Sum([d \in Days |-> Len(files[d])])

(* collect_once: the time is taken, the snapshot fetched and appended in   *)
(* one write; a market may not be listed at the time.  If the fetch raises *)
(* nothing is written, which is a larger step of the clock.                *)
Collect ==
    /\ Written < MaxSnapshots
    /\ \E step \in Steps, listed \in SUBSET Coins :
          LET ts == clock + step
              day == ts \div DayLength
              rows == [c \in listed |-> [ts |-> ts, volume |-> VolumeAt[ts]]]
          IN /\ ts \in DOMAIN VolumeAt
             /\ listed # {}
             /\ clock' = ts
             /\ files' = [d \in Days \union {day} |->
                            (IF d \in Days THEN files[d] ELSE <<>>)
                              \o (IF d = day THEN <<rows>> ELSE <<>>)]
    /\ UNCHANGED scannerVars

-----------------------------------------------------------------------------

(* Every snapshot of a file from a position on goes to engine.update.      *)
Feed(day, from) ==
    /\ engine' = FoldLeft(Update, engine, SubSeq(files[day], from, Len(files[day])))
    /\ fed' = fed \o [i \in 1 .. Len(files[day]) - from + 1 |-> <<day, from + i - 1>>]

Start ==
    /\ pc = "start"
    /\ Days # {}
    /\ todo' = {d \in Days : Cardinality(Newer(d)) < HistoryFiles}
    /\ pc' = "replay"
    /\ UNCHANGED <<collectorVars, current, offset, engine, fed, skipped>>

(* replay: file by file, each to its end as it is then.                    *)
ReplayFile ==
    /\ pc = "replay"
    /\ todo # {}
    /\ \E day \in todo :
          /\ \A d \in todo : day <= d
          /\ Feed(day, 1)
          /\ todo' = todo \ {day}
          /\ current' = day
          /\ pc' = IF todo' = {} THEN "size" ELSE "replay"
    /\ UNCHANGED <<collectorVars, offset, skipped>>

(* offset = current.stat().st_size, after the first selection was emitted. *)
TakeSize ==
    /\ pc = "size"
    /\ offset' = Len(files[current])
    /\ skipped' = {<<current, i>> : i \in 1 .. offset'} \ ToSet(fed)
    /\ pc' = "poll"
    /\ UNCHANGED <<collectorVars, todo, current, engine, fed>>

(* Faulty variant: the offset is kept for the file of the new day.         *)
PollKeepingOffset ==
    /\ pc = "poll"
    /\ current' = CHOOSE d \in Days : Newer(d) = {}
    /\ pc' \in {"poll", "read"}
    /\ UNCHANGED <<collectorVars, todo, offset, engine, fed, skipped>>

(* The newest file is followed from its beginning once it is there; it is  *)
(* not read in the second after a write.                                   *)
Poll ==
    /\ pc = "poll"
    /\ IF Newer(current) = {}
       THEN UNCHANGED <<current, offset>>
       ELSE /\ current' = CHOOSE d \in Days : Newer(d) = {}
            /\ offset' = 0
    /\ pc' \in {"poll", "read"}
    /\ UNCHANGED <<collectorVars, todo, engine, fed, skipped>>

Read ==
    /\ pc = "read"
    /\ Feed(current, offset + 1)
    /\ offset' = Len(files[current])
    /\ pc' = "poll"
    /\ UNCHANGED <<collectorVars, todo, current, skipped>>

Next == Collect \/ Start \/ ReplayFile \/ TakeSize \/ Poll \/ Read

Spec == Init /\ [][Next]_vars

-----------------------------------------------------------------------------

(* The scanner feeds no snapshot twice and none after a later one; of      *)
(* every file it feeds what there is from its beginning to some place, the *)
(* offset in the file it follows, but for what was appended between the    *)
(* replay and the look at the size.  What is appended to the file of a day *)
(* after the last look at it is not read.                                  *)
FeedsOnceInOrder ==
    /\ \A m, n \in DOMAIN fed :
          m < n => \/ fed[m][1] < fed[n][1]
                   \/ fed[m][1] = fed[n][1] /\ fed[m][2] < fed[n][2]
    /\ \A d \in Days :
          LET passed == {i \in 1 .. Len(files[d]) : <<d, i>> \in ToSet(fed) \union skipped}
          IN /\ passed = 1 .. Cardinality(passed)
             /\ pc \in {"poll", "read"} /\ d = current => Cardinality(passed) = offset

Snapshot(n) == files[fed[n][1]][fed[n][2]]

(* The rows of a market that were fed, but for those not later than a row  *)
(* fed before.                                                             *)
RowsOf(c) ==
    LET with == {n \in DOMAIN fed : c \in DOMAIN Snapshot(n)}
    IN {Snapshot(n)[c] : n \in {n \in with :
            \A m \in with : m < n => Snapshot(m)[c].ts < Snapshot(n)[c].ts}}

Latest(rows) == CHOOSE r \in rows : \A s \in rows : s.ts <= r.ts

(* A row and the next one.                                                 *)
Moves(rows) ==
    {m \in rows \X rows :
        m[1].ts < m[2].ts /\ \A r \in rows : r.ts <= m[1].ts \/ m[2].ts <= r.ts}

(* The moves since the last gap, with a time in (from, to].                *)
MovesIn(rows, from, to) ==
    {m \in Moves(rows) :
        /\ from < m[2].ts /\ m[2].ts <= to
        /\ \A n \in Moves(rows) : m[2].ts <= n[2].ts => n[2].ts - n[1].ts <= MaxGap}

Traded(moves)  == Sum([m \in moves |-> Positive(m[2].volume - m[1].volume)])
Elapsed(moves) == Sum([m \in moves |-> m[2].ts - m[1].ts])

(* What the selection is told of a market is what all the rows that were   *)
(* fed say: the volumes of the windows are those of its moves in them, and *)
(* it is warm only if moves without a gap make up the whole baseline; and  *)
(* no update ever raises, also when the collector's clock was set back or  *)
(* markets come and go.                                                    *)
ActivityMatchesHistory ==
    /\ ~engine.raised
    /\ \A market \in engine.rolling :
          LET rows == RowsOf(market.coin)
              now == Latest(rows).ts
              before == MovesIn(rows, now - Baseline, now - Recent)
          IN /\ rows # {}
             /\ market.ts = now
             /\ market.recent = Traded(MovesIn(rows, now - Recent, now))
             /\ market.baseline = Traded(before)
             /\ market.warm <=> Elapsed(before) >= Baseline - Recent
=============================================================================
