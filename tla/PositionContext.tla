-------------------------- MODULE PositionContext ---------------------------
(***************************************************************************)
(* strategy/position_context.py: PositionContextBuilder keeps the states   *)
(* of the last minutes, cut into segments at every gap, to compare the     *)
(* present one with those of some time ago, and the best and the worst     *)
(* return of the position since its entry.                                 *)
(*                                                                         *)
(* A return is the distance of the prices in the direction of the          *)
(* position; a comparison with an earlier state is that state.             *)
(***************************************************************************)
EXTENDS MarketState

CONSTANTS Lags,        \* LOOKBACKS and the lags of the changes
          MaxGap,      \* max_gap_seconds
          Keep         \* 310 seconds

ASSUME ContextAssumption ==
    /\ Lags \subseteq Nat \ {0}
    /\ MaxGap \in Nat
    /\ Keep \in Nat
    /\ \A lag \in Lags : Keep >= lag + MaxGap

NoPosition == [entry |-> 0]
NoContext  == [timestamp |-> -1]

VARIABLES states,     \* self.states, self.times and self.segments
          segment,    \* self.segment
          entry,      \* self.entry_ts, 0 for None
          first,      \* self.initial_entry_price
          mfe, mae,   \* self.mfe_bps, self.mae_bps
          context     \* what build returned last

contextVars == <<states, segment, entry, first, mfe, mae, context>>

ContextInit ==
    /\ states = <<>>
    /\ segment = 0
    /\ entry = 0
    /\ first = 0
    /\ mfe = 0
    /\ mae = 0
    /\ context = NoContext

Greater(a, b) == IF a > b THEN a ELSE b
Lesser(a, b)  == IF a < b THEN a ELSE b

TimesOf(kept) == [i \in DOMAIN kept |-> kept[i].state.timestamp]

(* _append: a gap begins a segment; of the states older than Keep only the *)
(* youngest stays.                                                         *)
Gap(state) ==
    states # <<>> /\ state.timestamp - Last(states).state.timestamp > MaxGap

(* Faulty variant: a gap begins no segment.                                *)
AppendedUnsegmented(state) ==
    LET all  == Append(states, [state |-> state, segment |-> segment])
        last == BisectRight(TimesOf(all), state.timestamp - Keep)
    IN IF last > 1 THEN SubSeq(all, last, Len(all)) ELSE all

Appended(state) ==
    LET all  == Append(states, [state   |-> state,
                                segment |-> IF Gap(state) THEN segment + 1 ELSE segment])
        last == BisectRight(TimesOf(all), state.timestamp - Keep)
    IN IF last > 1 THEN SubSeq(all, last, Len(all)) ELSE all

(* _lag                                                                    *)
LagState(kept, t) ==
    LET i == BisectRight(TimesOf(kept), t) IN
    IF i > 0 /\ kept[i].segment = Last(kept).segment /\ t - kept[i].state.timestamp <= MaxGap
    THEN kept[i].state
    ELSE NoState

(* signed_return_bps                                                       *)
SignedReturn(price, from, direction) == direction * (price - from)

(* build                                                                   *)
BuildContext(state, position) ==
    LET kept == Appended(state)
        isNew == entry # position.entry
        initial == IF isNew THEN position.price ELSE first
        return == SignedReturn(state.mid, initial, position.direction)
    IN
    /\ states' = kept
    /\ segment' = Last(kept).segment
    /\ IF position = NoPosition
       THEN /\ entry' = 0
            /\ first' = 0
            /\ mfe' = 0
            /\ mae' = 0
            /\ context' = NoContext
       ELSE /\ entry' = position.entry
            /\ first' = initial
            /\ mfe' = Greater(IF isNew THEN 0 ELSE mfe, return)
            /\ mae' = Lesser(IF isNew THEN 0 ELSE mae, return)
            /\ context' = [timestamp |-> state.timestamp,
                           holding   |-> state.timestamp - position.entry,
                           average   |-> SignedReturn(state.mid, position.price, position.direction),
                           mfe       |-> mfe',
                           mae       |-> mae',
                           lagged    |-> [lag \in Lags |->
                                            LagState(kept, state.timestamp - lag)]]
=============================================================================
