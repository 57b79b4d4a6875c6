-------------------------------- MODULE Replay -------------------------------
(***************************************************************************)
(* ReplayBacktester.run: one step per order book snapshot, which is the    *)
(* body of its loop - advance the resting maker order through the trades   *)
(* since the last snapshot, execute the delayed order whose latency is     *)
(* over, then, if nothing was pending when the snapshot came, ask the      *)
(* strategy and act on its answer.                                         *)
(*                                                                         *)
(* The snapshots and trades are the input, chosen freely, with times that  *)
(* grow.  An exception ends the run: raised is then TRUE.  Instead of the  *)
(* list of fills the model keeps what they add up to (ledger).             *)
(***************************************************************************)
EXTENDS StrategyRules

CONSTANTS Books,          \* order books a snapshot may show
          TradePrices,    \* prices and sizes of trades
          TradeQuantities,
          MaxTrades,      \* bound: trades between two snapshots
          Steps,          \* bound: seconds between two snapshots
          MaxClock,       \* bound: time of the last snapshot
          Specs,          \* StrategySpec values
          Policies        \* [enter, scale_in, exit : mode and latency, ...]

Actions == {"enter", "scale_in", "exit"}

(* What the constructors of ExecutionPolicy, ExecutionLatency and          *)
(* FeeSchedule accept; a maker is paid by a negative fee.                  *)
ValidPolicy(p) ==
    /\ p.maxAge \in Nat \ {0}
    /\ IsRational(p.queueAheadFraction) /\ AtMost(Zero, p.queueAheadFraction)
    /\ p.maxReplacements \in Nat
    /\ \A a \in Actions : p.latency[a] \in Nat /\ p.mode[a] \in {"taker", "maker"}
    /\ \A mode \in {"taker", "maker"} : IsRational(p.feeBps[mode])
    /\ AtMost(Zero, p.feeBps["taker"])

ASSUME ReplayAssumption ==
    /\ \A s \in Specs : ValidSpec(s)
    /\ \A p \in Policies : ValidPolicy(p)
    /\ \A b \in Books : ValidBook(b)
    /\ \A x \in TradePrices \cup TradeQuantities : IsPositive(x)
    /\ Steps # {} /\ Steps \subseteq Nat \ {0} /\ IsFiniteSet(Steps)
    /\ MaxTrades \in Nat /\ MaxClock \in Nat

VARIABLES spec, policy,   \* the configuration, chosen once
          clock,          \* previous_snapshot_ts
          position, maker, execution,     \* the locals of run()
          trip,           \* entry_ts, entry_*, exit_*, scale_ins_used
          ledger,         \* what fills, closed_positions and trades add up to
          raised,
          lastFree        \* history: last snapshot that left nothing pending

locals == [position |-> position, maker |-> maker, execution |-> execution,
           trip |-> trip, ledger |-> ledger, raised |-> raised]

vars == <<spec, policy, clock, position, maker, execution, trip, ledger, raised, lastFree>>

NoMaker == [action |-> "none"]
NoExecution == [action |-> "none"]

NoTrip == [entryTs |-> 0, entryQuantity |-> Zero, entryNotional |-> Zero,
           exitQuantity |-> Zero, exitNotional |-> Zero, scaleIns |-> 0]

(* inventory, cash, fees: over ReplayResult.fills; closedPnl, closedFees:  *)
(* over closed_positions; tradesPnl, lastExit: over trades.                *)
EmptyLedger == [inventory |-> Zero, cash |-> Zero, fees |-> Zero,
                closedPnl |-> Zero, closedFees |-> Zero,
                tradesPnl |-> Zero, lastExit |-> 0]

Raise(r) == [r EXCEPT !.raised = TRUE]

-----------------------------------------------------------------------------
(* backtest/accounting.py and backtest/fees.py; fees in 1/10000.           *)

FeeFor(notional, mode) == Times(notional, policy.feeBps[mode])

AveragePrice(fill) == Over(fill.notional, fill.quantity)

(* What the constructor of BacktestPosition accepts of an open position.   *)
ValidPosition(p) ==
    /\ p.direction \in {Buy, Sell}
    /\ Below(Zero, p.quantity) /\ Below(Zero, p.average)

OpenPosition(direction, fill, mode) ==
    [direction |-> direction, quantity |-> fill.quantity,
     average |-> AveragePrice(fill), realized |-> Zero,
     fees |-> FeeFor(fill.notional, mode)]

ScalePosition(p, fill, mode) ==
    LET quantity == Plus(p.quantity, fill.quantity) IN
    [p EXCEPT !.quantity = quantity,
              !.average  = Over(Plus(Times(p.quantity, p.average), fill.notional),
                                quantity),
              !.fees     = Plus(@, FeeFor(fill.notional, mode))]

(* Faulty variant: the fee of the exit is forgotten.                       *)
ClosePositionNoFee(p, fill, mode) ==
    [p EXCEPT !.quantity = Minus(@, fill.quantity),
              !.realized = Plus(@, Times(Whole(p.direction),
                                  Times(Minus(AveragePrice(fill), p.average),
                                        fill.quantity)))]

ClosePosition(p, fill, mode) ==
    [p EXCEPT !.quantity = Minus(@, fill.quantity),
              !.realized = Plus(@, Times(Whole(p.direction),
                                  Times(Minus(AveragePrice(fill), p.average),
                                        fill.quantity))),
              !.fees     = Plus(@, FeeFor(fill.notional, mode))]

PositionNotional(p, mid) == Times(p.quantity, mid)

-----------------------------------------------------------------------------
(* A fill [side, quantity, notional, ts] reaches position, trip and ledger.*)

(* fills.append                                                            *)
BookFill(r, fill, mode) ==
    LET signed == Whole(fill.side) IN
    [r EXCEPT !.ledger.inventory = Plus(@, Times(signed, fill.quantity)),
              !.ledger.cash      = Minus(@, Times(signed, fill.notional)),
              !.ledger.fees      = Plus(@, FeeFor(fill.notional, mode))]

AddEntry(r, fill) ==
    [r EXCEPT !.trip.entryQuantity = Plus(@, fill.quantity),
              !.trip.entryNotional = Plus(@, fill.notional)]

Opened(r, direction, fill, mode) ==
    AddEntry([r EXCEPT !.position = OpenPosition(direction, fill, mode),
                       !.trip.entryTs = fill.ts], fill)

Scaled(r, fill, mode) ==
    AddEntry([r EXCEPT !.position = ScalePosition(@, fill, mode)], fill)

ScaleRaises(r, fill) ==
    r.position = NoPosition \/ fill.side # EntrySide(r.position.direction)

ExitRaises(r, fill) ==
    \/ r.position = NoPosition
    \/ fill.side # ExitSide(r.position.direction)
    \/ Below(r.position.quantity, fill.quantity)

(* Faulty variant: the exits of the last trip stay in the sums.            *)
FinishKeepsExits(r, ts) ==
    [r EXCEPT !.ledger.closedPnl  = Plus(@, r.position.realized),
              !.ledger.closedFees = Plus(@, r.position.fees),
              !.ledger.tradesPnl  = Plus(@, Times(Whole(r.position.direction),
                                        Minus(r.trip.exitNotional, r.trip.entryNotional))),
              !.ledger.lastExit   = ts,
              !.position          = NoPosition,
              !.trip              = [NoTrip EXCEPT
                                       !.exitQuantity = r.trip.exitQuantity,
                                       !.exitNotional = r.trip.exitNotional]]

(* The position is flat: it becomes a closed position and a trade.         *)
Finish(r, ts) ==
    LET t == r.trip
        entryPrice == Over(t.entryNotional, t.entryQuantity)
        exitPrice == Over(t.exitNotional, t.exitQuantity)
        gross == Times(Whole(r.position.direction),
                       Times(Minus(exitPrice, entryPrice), t.exitQuantity))
    IN [r EXCEPT !.ledger.closedPnl  = Plus(@, r.position.realized),
                 !.ledger.closedFees = Plus(@, r.position.fees),
                 !.ledger.tradesPnl  = Plus(@, gross),
                 !.ledger.lastExit   = ts,
                 !.position          = NoPosition,
                 !.trip              = NoTrip]

Exited(r, fill, mode) ==
    LET s == [r EXCEPT !.position = ClosePosition(@, fill, mode),
                       !.trip.exitQuantity = Plus(@, fill.quantity),
                       !.trip.exitNotional = Plus(@, fill.notional)]
    IN IF s.position.quantity = Zero THEN Finish(s, fill.ts) ELSE s

(* An order that took liquidity, at once or after its latency.             *)
TakerFill(r, action, direction, fill) ==
    LET s == BookFill(r, fill, "taker") IN
    CASE fill.quantity = Zero -> r
      [] fill.quantity # Zero /\ action = "enter" ->
           IF r.position # NoPosition THEN Raise(r)
           ELSE [Opened(s, direction, fill, "taker") EXCEPT !.trip.scaleIns = 0]
      [] fill.quantity # Zero /\ action = "scale_in" ->
           IF ScaleRaises(r, fill) THEN Raise(r)
           ELSE [Scaled(s, fill, "taker") EXCEPT !.trip.scaleIns = @ + 1]
      [] fill.quantity # Zero /\ action = "exit" ->
           IF ExitRaises(r, fill) THEN Raise(r) ELSE Exited(s, fill, "taker")

(* What the resting order executed since the last snapshot.  A scale-in    *)
(* counts once, however many fills it takes.                               *)
MakerFill(r, fill) ==
    LET s == BookFill(r, fill, "maker")
        m == r.maker
        counted == [s EXCEPT !.trip.scaleIns = IF m.scaleCounted THEN @ ELSE @ + 1,
                             !.maker.scaleCounted = TRUE]
    IN CASE fill.quantity = Zero -> r
         [] fill.quantity # Zero /\ m.action = "enter" ->
              IF r.position = NoPosition THEN Opened(s, m.direction, fill, "maker")
              ELSE IF ScaleRaises(r, fill) THEN Raise(r)
              ELSE Scaled(s, fill, "maker")
         [] fill.quantity # Zero /\ m.action = "scale_in" ->
              IF ScaleRaises(r, fill) THEN Raise(r) ELSE Scaled(counted, fill, "maker")
         [] fill.quantity # Zero /\ m.action = "exit" ->
              IF ExitRaises(r, fill) THEN Raise(r) ELSE Exited(s, fill, "maker")

-----------------------------------------------------------------------------
(* The three parts of the loop body.                                       *)

(* The caller has checked that the position, for an exit, is open.         *)
PlaceMaker(action, direction, quantity, market, counted, replacements) ==
    LET side == IF action = "exit" THEN ExitSide(direction) ELSE EntrySide(direction)
        order == PlaceMakerOrder(market.book, side, quantity, market.ts,
                                 policy.queueAheadFraction)
    IN [action |-> action, direction |-> direction, order |-> order,
        pending |-> Pending(order), scaleCounted |-> counted,
        replacementsUsed |-> replacements]

(* Faulty variant: the replacement quotes the whole order again.           *)
ReplaceWholeMaker(m, market) ==
    PlaceMaker(m.action, m.direction, m.order.quantity, market,
               m.scaleCounted, m.replacementsUsed + 1)

(* Faulty variant: the replacement forgets that the scale-in was counted.  *)
ReplaceMakerUncounted(m, market) ==
    PlaceMaker(m.action, m.direction, m.pending.remaining, market,
               FALSE, m.replacementsUsed + 1)

ReplaceMaker(m, market) ==
    PlaceMaker(m.action, m.direction, m.pending.remaining, market,
               m.scaleCounted, m.replacementsUsed + 1)

(* Faulty variant: one replacement more than the policy allows.            *)
ExpireOneMore(r, market) ==
    IF r.maker.replacementsUsed <= policy.maxReplacements
      THEN [r EXCEPT !.maker = ReplaceMaker(@, market)]
      ELSE [r EXCEPT !.maker = NoMaker]

Expire(r, market) ==
    IF r.maker.replacementsUsed < policy.maxReplacements
      THEN [r EXCEPT !.maker = ReplaceMaker(@, market)]
      ELSE [r EXCEPT !.maker = NoMaker]

AdvanceMaker(r, market, trades) ==
    LET m == r.maker
        expiry == m.order.placed + policy.maxAge
        pending == AdvancePendingMaker(m.pending, m.order, trades, {expiry})
        delta == Minus(pending.filled, m.pending.filled)
        fill == [side |-> m.order.side, quantity |-> delta,
                 notional |-> Times(delta, m.order.price), ts |-> pending.lastFill]
        s == MakerFill([r EXCEPT !.maker.pending = pending], fill)
    IN CASE r.maker = NoMaker -> r
         [] r.maker # NoMaker /\ s.raised -> s
         [] r.maker # NoMaker /\ ~s.raised ->
              IF FullyFilled(pending) THEN [s EXCEPT !.maker = NoMaker]
              ELSE IF market.ts < expiry THEN s ELSE Expire(s, market)

(* ExecutionLatency.arrival_ts, in seconds.                                *)
ArrivalTs(ts, action) == ts + policy.latency[action]

Arrived(r, market) ==
    /\ r.execution # NoExecution
    /\ market.ts >= r.execution.arrival

(* simulate_market_order or simulate_exit_order                            *)
Taken(action, direction, notional, quantity, market) ==
    LET side == IF action = "exit" THEN ExitSide(direction) ELSE EntrySide(direction)
        levels == ExecutionLevels(market.book, side)
        result == IF action = "exit" THEN QuantityOrder(levels, quantity)
                                     ELSE NotionalOrder(levels, notional)
    IN [side |-> side, quantity |-> result.quantity,
        notional |-> result.notional, ts |-> market.ts]

(* Send an order to the simulated exchange, which is where an immediate    *)
(* decision and a delayed one meet.                                        *)
Send(r, action, direction, notional, quantity, market) ==
    LET entries == Over(notional, DefaultMakerPrice(market.book, EntrySide(direction)))
        size == IF action = "exit" THEN quantity ELSE entries
    IN IF policy.mode[action] = "maker"
         THEN [r EXCEPT !.maker =
                 PlaceMaker(action, direction, size, market, FALSE, 0)]
         ELSE TakerFill(r, action, direction,
                        Taken(action, direction, notional, quantity, market))

ExecuteDelayed(r, market) ==
    LET x == r.execution
        late == x.action = "exit" /\ policy.mode["exit"] = "taker"
                /\ r.position = NoPosition
    IN IF ~Arrived(r, market) THEN r
       ELSE IF late THEN Raise(r)
       ELSE [Send(r, x.action, x.direction, x.notional, x.quantity, market)
               EXCEPT !.execution = NoExecution]

(* The position as the strategy is shown it.                               *)
StrategyPosition(r, market) ==
    IF r.position = NoPosition THEN NoPosition
    ELSE [direction  |-> r.position.direction,
          entryPrice |-> r.position.average,
          entryTs    |-> r.trip.entryTs,
          notional   |-> PositionNotional(r.position, MidPrice(market.book)),
          scaleIns   |-> r.trip.scaleIns]

Decide(r, market, signal, policyExits) ==
    LET decision == Evaluate(spec, market, StrategyPosition(r, market),
                             signal, policyExits)
        action == decision.action
        direction == IF action = "exit" THEN r.position.direction
                                        ELSE decision.direction
        quantity == IF action = "exit" THEN r.position.quantity ELSE Zero
    IN IF action = "hold" THEN r
       ELSE IF action \in {"enter", "scale_in"} /\ ~ValidIntent(decision) THEN Raise(r)
       ELSE IF policy.latency[action] > 0
       THEN [r EXCEPT !.execution =
               [action |-> action, arrival |-> ArrivalTs(market.ts, action),
                direction |-> direction, notional |-> decision.notional,
                quantity |-> quantity]]
       ELSE Send(r, action, direction, decision.notional, quantity, market)

HadPending(r) == r.maker # NoMaker \/ r.execution # NoExecution

(* Faulty variant: a decision is taken although an order is on its way.    *)
LoopBodyAlwaysDecides(r, market, trades, hasState, signal, policyExits) ==
    LET advanced == AdvanceMaker(r, market, trades)
        executed == IF advanced.raised THEN advanced
                    ELSE ExecuteDelayed(advanced, market)
    IN IF executed.raised \/ ~hasState THEN executed
       ELSE Decide(executed, market, signal, policyExits)

(* hasState: MarketStateBuilder found its history; else the snapshot only  *)
(* serves the pending order.                                               *)
LoopBody(r, market, trades, hasState, signal, policyExits) ==
    LET advanced == AdvanceMaker(r, market, trades)
        executed == IF advanced.raised THEN advanced
                    ELSE ExecuteDelayed(advanced, market)
    IN IF executed.raised \/ ~hasState \/ HadPending(r) THEN executed
       ELSE Decide(executed, market, signal, policyExits)

-----------------------------------------------------------------------------

(* What the constructors accept; they raise ValueError otherwise.          *)
Constructed(r) ==
    /\ r.position # NoPosition => ValidPosition(r.position)
    /\ r.maker # NoMaker => ValidMakerOrder(r.maker.order) /\ ValidPending(r.maker.pending)

Trades(from, to) ==
    {<<>>} \cup UNION {
        {trades \in [1..n -> [ts : (from + 1)..to, side : {Buy, Sell},
                              price : TradePrices, quantity : TradeQuantities]] :
            \A i \in 1..(n - 1) : trades[i].ts <= trades[i + 1].ts} :
        n \in 1..MaxTrades}

Init ==
    /\ spec \in Specs
    /\ policy \in Policies
    /\ clock = 0
    /\ position = NoPosition
    /\ maker = NoMaker
    /\ execution = NoExecution
    /\ trip = NoTrip
    /\ ledger = EmptyLedger
    /\ raised = FALSE
    /\ lastFree = 0

(* Trades matter to a resting order only (what they say about the market   *)
(* is in the signal), so they are chosen only when there is one.           *)
Snapshot(dt, book, trades, hasState, signal, policyExits) ==
    LET market == [book |-> book, ts |-> clock + dt] IN
    \E r \in {LoopBody(locals, market, trades, hasState, signal, policyExits)} :
       /\ ~raised
       /\ clock' = clock + dt
       /\ position' = r.position
       /\ maker' = r.maker
       /\ execution' = r.execution
       /\ trip' = r.trip
       /\ ledger' = r.ledger
       /\ raised' = (r.raised \/ ~Constructed(r))
       /\ lastFree' = IF HadPending(r) THEN lastFree ELSE clock + dt
       /\ UNCHANGED <<spec, policy>>

(* What the strategy is shown: whether there is a market state, the signal *)
(* and the policy's answer.  While an order is pending it is not asked, so *)
(* that fewer of them need to be tried.                                    *)
Shown == IF HadPending(locals) THEN {TRUE} \X {Buy, 0, Sell} \X {FALSE}
         ELSE {<<FALSE, 0, FALSE>>} \cup {TRUE} \X {Buy, 0, Sell} \X BOOLEAN

Next ==
    \E dt \in Steps, book \in Books, shown \in Shown :
        /\ clock + dt <= MaxClock
        /\ \E trades \in IF maker = NoMaker THEN {<<>>} ELSE Trades(clock, clock + dt) :
              Snapshot(dt, book, trades, shown[1], shown[2], shown[3])

Spec == Init /\ [][Next]_vars

-----------------------------------------------------------------------------

(* None of the errors run() and the accounting can raise is ever raised:   *)
(* no exit without a position, no second entry, no fill on the wrong side, *)
(* no exit of more than there is, whatever was pending for how long.       *)
NeverRaises == ~raised

(* What is pending fits the position it was decided for: orders are decided*)
(* one at a time, so the position cannot move under a delayed order or a   *)
(* resting exit, except by that order's own fills.                         *)
PendingFitsPosition ==
    /\ maker = NoMaker \/ execution = NoExecution
    /\ execution # NoExecution =>
          CASE execution.action = "enter" -> position = NoPosition
            [] execution.action = "scale_in" ->
                 position # NoPosition /\ execution.direction = position.direction
            [] execution.action = "exit" ->
                 position # NoPosition /\ execution.quantity = position.quantity
    /\ maker # NoMaker =>
          CASE maker.action = "enter" ->
                 \/ position = NoPosition
                 \/ position.direction = maker.direction
            [] maker.action = "scale_in" ->
                 position # NoPosition /\ maker.direction = position.direction
            [] maker.action = "exit" ->
                 position # NoPosition /\ maker.pending.remaining = position.quantity

(* Profit and loss, reported from three different sums, is what the fills  *)
(* say: at every price, realized plus unrealized profit is the money that  *)
(* came in plus the worth of what is held, and no fee is lost or doubled.  *)
LedgerBalances ==
    LET p == IF position = NoPosition
               THEN [inventory |-> Zero, cost |-> Zero, realized |-> Zero, fees |-> Zero]
               ELSE LET signed == Times(Whole(position.direction), position.quantity) IN
                    [inventory |-> signed, cost |-> Times(signed, position.average),
                     realized |-> position.realized, fees |-> position.fees]
    IN /\ ledger.inventory = p.inventory
       /\ Plus(ledger.closedPnl, p.realized) = Plus(ledger.cash, p.cost)
       /\ ledger.fees = Plus(ledger.closedFees, p.fees)

(* The round trip kept beside the position tells the same story: it is     *)
(* empty exactly between positions, its entries minus its exits are the    *)
(* position, and the trades' profit, computed from average entry and exit  *)
(* prices, is the closed positions' profit, computed exit by exit.         *)
TripMatchesPosition ==
    /\ position = NoPosition => trip = NoTrip
    /\ position # NoPosition =>
          position.quantity = Minus(trip.entryQuantity, trip.exitQuantity)
    /\ ledger.tradesPnl = ledger.closedPnl

(* A scale-in that fills in parts, or that is re-quoted, counts once.      *)
ScaleInsBounded ==
    /\ trip.scaleIns <= spec.maxScaleIns
    /\ maker # NoMaker /\ maker.action = "scale_in" =>
          trip.scaleIns <= IF maker.scaleCounted THEN spec.maxScaleIns
                                                 ELSE spec.maxScaleIns - 1

(* The strategy is not asked while an order is pending, so neither stop    *)
(* loss nor any other exit rule is looked at.  How long that can last: one *)
(* step, the latency, and the life of a quote and of its replacements,     *)
(* each of them noticed at the first snapshot after it ended.              *)
StrategySoonFree ==
    LET step == Max(Steps)
        latency == Max({policy.latency[a] : a \in Actions})
        quotes == (policy.maxReplacements + 1) * (policy.maxAge + step - 1)
    IN HadPending(locals) =>
          clock - lastFree < step + (IF latency = 0 THEN 0 ELSE latency + step - 1)
                                  + quotes

(* No fill is dated before the decision it follows from: positions open    *)
(* after the previous one closed and close after they opened, never later  *)
(* than the snapshot that shows it.                                        *)
TimesInOrder ==
    /\ ledger.lastExit <= clock
    /\ position # NoPosition =>
          /\ trip.entryTs <= clock
          /\ ledger.lastExit <= trip.entryTs

(* The round trip that the report prints is that of the position: same     *)
(* sizes and money, as many scale-ins as there were, and its times in the  *)
(* order things happened.                                                  *)
(* Hazard: seven locals describe the trip, filled in parts, by trades older*)
(* than the snapshot that notices them, and reset at three places.         *)
TripIsConsistent == TripMatchesPosition /\ ScaleInsBounded /\ TimesInOrder
=============================================================================
