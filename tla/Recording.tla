----------------------------- MODULE Recording ------------------------------
(***************************************************************************)
(* From the recorder to the strategy's inputs: the files of the Hummingbot *)
(* recorder are loaded, a market state is built at the time of every       *)
(* snapshot that allows one, and the position context follows a position   *)
(* over these states.                                                      *)
(***************************************************************************)
EXTENDS Recorder, PositionContext

CONSTANT Entries    \* bound: positions entered

(* Every snapshot there can be has a mid price.                            *)
ASSUME RecordingAssumption == \A t \in 1 .. MaxTime : Mid[t] \in Int

VARIABLES phase,      \* recording, replaying or raised
          books,      \* the loaded snapshots
          trades,     \* the loaded trades
          next,       \* the next snapshot
          position,   \* the position of the replay
          seen        \* history: the states and the positions so far

replayVars == <<books, trades, next, position, seen>>
recordingVars == <<recorderVars, contextVars, phase, replayVars>>

RecordingInit ==
    /\ RecorderInit
    /\ ContextInit
    /\ phase = "recording"
    /\ books = <<>>
    /\ trades = <<>>
    /\ next = 1
    /\ position = NoPosition
    /\ seen = <<>>

Record ==
    /\ phase = "recording"
    /\ OnTick \/ Trade \/ Kill
    /\ UNCHANGED <<contextVars, phase, replayVars>>

(* load_market_data_directory, after the recorder has stopped; what it     *)
(* left behind is no longer of interest.                                   *)
Load ==
    /\ phase = "recording"
    /\ clock = MaxTime
    /\ phase' = IF LoadRaises THEN "raised" ELSE "replaying"
    /\ LET KeysOf(rows) == [i \in DOMAIN rows |-> rows[i].key]
       IN /\ books' = IF LoadRaises THEN <<>> ELSE KeysOf(Loaded(files["books"]))
          /\ trades' = IF LoadRaises THEN <<>> ELSE KeysOf(Loaded(files["trades"]))
    /\ clock' = 0 /\ uid' = None /\ lastUid' = None /\ held' = Empty
    /\ buffered' = Empty /\ files' = Empty /\ torn' = FALSE /\ lastDump' = 0
    /\ failures' = 0 /\ kills' = {} /\ captured' = [s \in Stream |-> {}]
    /\ UNCHANGED <<contextVars, next, position, seen>>

(* The positions an evaluation can meet: the same, with another average    *)
(* price after it was scaled in, none, or one entered at the time of this  *)
(* state.                                                                  *)
Positions(state) ==
    {position, NoPosition}
      \union (IF position = NoPosition THEN {} ELSE {[position EXCEPT !.price = state.mid]})
      \union (IF Cardinality({seen[i].position.entry : i \in DOMAIN seen} \ {0}) < Entries
              THEN {[entry |-> state.timestamp, direction |-> d, price |-> state.mid] :
                       d \in {1, -1}}
              ELSE {})

Evaluate ==
    /\ phase = "replaying"
    /\ next <= Len(books)
    /\ next' = next + 1
    /\ LET state == BuildState(books, trades, books[next]) IN
       IF state = NoState
       THEN UNCHANGED <<contextVars, position, seen>>
       ELSE \E p \in Positions(state) :
               /\ position' = p
               /\ BuildContext(state, p)
               /\ seen' = Append(seen, [state |-> state, position |-> p])
    /\ UNCHANGED <<recorderVars, phase, books, trades>>

RecordingNext == Record \/ Load \/ Evaluate

RecordingSpec == RecordingInit /\ [][RecordingNext]_recordingVars

-----------------------------------------------------------------------------

SeenTimes == [i \in DOMAIN seen |-> seen[i].state.timestamp]

(* The state some time ago, from all that was ever seen: the last one by   *)
(* then, if no gap lies between it and the present.                        *)
StateAgo(lag) ==
    LET t == Last(SeenTimes) - lag
        i == BisectRight(SeenTimes, t)
    IN IF /\ i > 0
          /\ t - SeenTimes[i] <= MaxGap
          /\ \A j \in i + 1 .. Len(seen) : SeenTimes[j] - SeenTimes[j - 1] <= MaxGap
       THEN seen[i].state
       ELSE NoState

(* The evaluations of the present position.                                *)
Since ==
    {i \in DOMAIN seen : \A j \in i .. Len(seen) :
                            seen[j].position.entry = Last(seen).position.entry}

Returns ==
    LET begin == CHOOSE i \in Since : \A j \in Since : i <= j
        from  == seen[begin].position.price
    IN {SignedReturn(seen[i].state.mid, from, Last(seen).position.direction) : i \in Since}

(* What the context says of the past is what was seen: each compared state *)
(* is the one of that time ago, across trimmed lists and cut segments, and *)
(* the best and worst return are those since the position was entered,     *)
(* measured from its first price, also when positions follow each other    *)
(* without an evaluation in between.                                       *)
ContextMatchesHistory ==
    context # NoContext =>
      /\ context.timestamp = Last(SeenTimes)
      /\ \A lag \in Lags : context.lagged[lag] = StateAgo(lag)
      /\ context.mfe = Max({0} \union Returns)
      /\ context.mae = Min({0} \union Returns)
=============================================================================
