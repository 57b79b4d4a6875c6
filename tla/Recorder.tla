------------------------------ MODULE Recorder ------------------------------
(***************************************************************************)
(* hummingbot_ext/download_order_book_and_trades.py: every tick captures   *)
(* the order book if its snapshot_uid changed, trades arrive as events in  *)
(* between, and every DumpEvery seconds what is held is appended to the    *)
(* files, first the books, then the trades.  A dump may fail half way (a   *)
(* full disk) and the container may be killed and started again.           *)
(*                                                                         *)
(* data/market_data_loader.py then reads the files.                        *)
(*                                                                         *)
(* A row is a key (update_id or trade_id), which stands for its            *)
(* exchange_ts as well, and its local_ts.  The files of the days, read in  *)
(* the order of their names, are one sequence.                             *)
(***************************************************************************)
EXTENDS Integers, Sorting, SequencesExt

CONSTANTS DumpEvery,    \* time_between_csv_dumps, in ticks
          Late,         \* how many ticks old a new snapshot can be
          MaxTime,      \* bound: ticks
          MaxTrades,    \* bound: trades
          MaxMishaps    \* bound: failing dumps and kills

ASSUME RecorderAssumption ==
    /\ {DumpEvery, MaxTime, MaxTrades, MaxMishaps} \subseteq Nat
    /\ Late \subseteq Nat

(* The temporary storages, in the order they are dumped.                   *)
Streams == <<"books", "trades">>
Stream  == ToSet(Streams)

None == 0      \* no snapshot yet

VARIABLES clock,      \* current_timestamp
          uid,        \* order_book.snapshot_uid
          lastUid,    \* last_order_book_uid
          held,       \* ob_temp_storage and trades_temp_storage
          buffered,   \* written to a file object whose flush failed
          files,      \* the rows in the files
          torn,       \* a row in the files is cut off
          lastDump,   \* last_dump_timestamp
          failures,   \* history: dumps that failed
          kills,      \* history: when the container was killed
          captured    \* history: the rows ever put into a storage

recorderVars == <<clock, uid, lastUid, held, buffered, files, torn, lastDump,
                  failures, kills, captured>>

Empty == [s \in Stream |-> <<>>]

RecorderInit ==
    /\ clock = 0
    /\ uid = None
    /\ lastUid = None
    /\ held = Empty
    /\ buffered = Empty
    /\ files = Empty
    /\ torn = FALSE
    /\ lastDump = 0
    /\ failures = 0
    /\ kills = {}
    /\ captured = [s \in Stream |-> {}]

-----------------------------------------------------------------------------

Capture(s, row) ==
    /\ held' = [held EXCEPT ![s] = Append(@, row)]
    /\ captured' = [captured EXCEPT ![s] = @ \union {row}]

(* _process_public_trade                                                   *)
Trade ==
    /\ clock > 0
    /\ Cardinality(captured["trades"]) < MaxTrades
    /\ \A row \in captured["trades"] : row.key < clock
    /\ Capture("trades", [key |-> clock, local |-> clock])
    /\ UNCHANGED <<clock, uid, lastUid, buffered, files, torn, lastDump, failures, kills>>

(* What is held after the book of this tick was looked at.                 *)
HeldAfter(newUid, time) ==
    IF newUid \in {None, lastUid} THEN held["books"]
    ELSE Append(held["books"], [key |-> newUid, local |-> time])

(* dump_and_clean_temp_storage: what a file object still buffers from a    *)
(* failed flush reaches the disk with the rest.                            *)
DumpSucceeds(storage, time) ==
    /\ files' = [s \in Stream |-> files[s] \o buffered[s] \o storage[s]]
    /\ buffered' = Empty
    /\ held' = Empty
    /\ lastDump' = time + DumpEvery
    /\ UNCHANGED failures

(* Faulty variant: the storage is emptied before it is flushed.            *)
DumpFailsEmptied(storage, time) ==
    /\ Cardinality(kills) + failures < MaxMishaps
    /\ failures' = failures + 1
    /\ held' = Empty
    /\ UNCHANGED <<buffered, files, lastDump>>

(* The flush of one storage raises: those before it are done, its file     *)
(* object keeps what it could not write, and the storage keeps everything. *)
DumpFails(storage, time) ==
    /\ Cardinality(kills) + failures < MaxMishaps
    /\ failures' = failures + 1
    /\ UNCHANGED lastDump
    /\ \E n \in DOMAIN Streams :
          LET rows == buffered[Streams[n]] \o storage[Streams[n]]
              done == {Streams[i] : i \in 1 .. n - 1}
          IN /\ storage[Streams[n]] # <<>>
             /\ held' = [s \in Stream |-> IF s \in done THEN <<>> ELSE storage[s]]
             /\ \E written \in 0 .. Len(rows) - 1 :
                   /\ buffered' = [s \in Stream |->
                          CASE s \in done -> <<>>
                            [] s = Streams[n] -> SubSeq(rows, written + 1, Len(rows))
                            [] OTHER -> buffered[s]]
                   /\ files' = [s \in Stream |->
                          CASE s \in done -> files[s] \o buffered[s] \o storage[s]
                            [] s = Streams[n] -> files[s] \o SubSeq(rows, 1, written)
                            [] OTHER -> files[s]]

(* on_tick: a new snapshot may have come, possibly out of order.           *)
OnTick ==
    /\ clock < MaxTime
    /\ clock' = clock + 1
    /\ \E newUid \in {uid} \union {u \in {clock + 1 - d : d \in Late} : u > 0} :
          LET rows == HeldAfter(newUid, clock + 1)
              storage == [held EXCEPT !["books"] = rows]
          IN /\ uid' = newUid
             /\ lastUid' = newUid
             /\ captured' = [captured EXCEPT !["books"] = @ \union ToSet(rows)]
             /\ IF lastDump < clock + 1
                THEN DumpSucceeds(storage, clock + 1) \/ DumpFails(storage, clock + 1)
                ELSE /\ held' = storage
                     /\ UNCHANGED <<buffered, files, lastDump, failures>>
    /\ UNCHANGED <<torn, kills>>

(* The container is killed and comes back: memory is lost, and a row that  *)
(* a file object had written only half of stays cut off.                   *)
Kill ==
    /\ Cardinality(kills) + failures < MaxMishaps
    /\ clock \notin kills
    /\ kills' = kills \union {clock}
    /\ held' = Empty
    /\ buffered' = Empty
    /\ torn' \in {torn, torn \/ buffered # Empty}
    /\ lastUid' = None
    /\ lastDump' = 0
    /\ UNCHANGED <<clock, uid, files, failures, captured>>

-----------------------------------------------------------------------------
(* market_data_loader: a file with a row cut off raises; otherwise the     *)
(* last row of every key counts, in the order of exchange_ts, local_ts.    *)

LoadRaises == torn

LastOfKeys(rows) ==
    {rows[i] : i \in {j \in DOMAIN rows :
                        \A k \in j + 1 .. Len(rows) : rows[k].key # rows[j].key}}

Before(a, b) == a.key < b.key \/ (a.key = b.key /\ a.local < b.local)

Loaded(rows) ==
    LET last == LastOfKeys(rows)
    IN InOrder(last, {p \in last \X last : Before(p[1], p[2])})

-----------------------------------------------------------------------------

Keys(rows) == {row.key : row \in rows}

(* Unless a row was cut off, loading gives every recorded snapshot and     *)
(* trade exactly once and in time order, however often a failed dump or a  *)
(* restart wrote it; and what was captured and is neither loaded nor held  *)
(* was lost to a kill: to one within the time between two dumps, if no     *)
(* dump failed.                                                            *)
LoadedIsCaptured ==
    ~LoadRaises =>
      \A s \in Stream :
        LET loaded == Loaded(files[s]) IN
        /\ \A i, j \in DOMAIN loaded : i < j => loaded[i].key < loaded[j].key
        /\ Keys(ToSet(loaded)) \subseteq Keys(captured[s])
        /\ \A row \in captured[s] :
              \/ row.key \in Keys(ToSet(loaded) \union ToSet(held[s]))
              \/ \E k \in kills : /\ row.local <= k
                                  /\ failures = 0 => row.local > k - DumpEvery - 1
=============================================================================
