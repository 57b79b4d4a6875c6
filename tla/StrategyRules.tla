---------------------------- MODULE StrategyRules ----------------------------
(***************************************************************************)
(* StrategyEngine.evaluate with the rules it is made of: entry filters,    *)
(* exit rules, position policy, scale-ins, order sizes and the liquidity   *)
(* cap.  What the signal model and the position policy answer is their own *)
(* business and comes in as an input.                                      *)
(*                                                                         *)
(* spec is the StrategySpec; its optional limits are zero when they are    *)
(* not set.  A market is [book, ts]; a position, as the engine sees it, is *)
(* [direction, entryPrice, entryTs, notional, scaleIns].                   *)
(***************************************************************************)
EXTENDS SimulatedExecution

(* What the constructor of StrategySpec accepts.                           *)
ValidSpec(spec) ==
    /\ IsPositive(spec.baseOrderNotional) /\ IsPositive(spec.scaleOrderMultiplier)
    /\ IsRational(spec.maxPositionNotional)
    /\ AtMost(spec.baseOrderNotional, spec.maxPositionNotional)
    /\ {spec.maxScaleIns, spec.maxHoldingSeconds} \subseteq Nat
    /\ \A x \in {spec.maxSpreadBps, spec.stopLossPct, spec.takeProfitPct,
                  spec.maxVisibleLiquidityFraction} : IsRational(x) /\ AtMost(Zero, x)
    /\ AtMost(spec.maxVisibleLiquidityFraction, Whole(1))

NoPosition == [direction |-> 0]

SpreadBps(book) ==
    Times(Over(Minus(book.asks[1].price, book.bids[1].price), MidPrice(book)),
          Whole(10000))

(* apply_entry_filters: a direction, 0 for SignalDirection.NONE.           *)
ApplyEntryFilters(spec, book, signal) ==
    IF spec.maxSpreadBps # Zero /\ Below(spec.maxSpreadBps, SpreadBps(book))
      THEN 0 ELSE signal

Power(x, n) == FoldLeft(Times, Whole(1), [k \in 1..n |-> x])

RemainingPositionCapacity(spec, current) ==
    Greatest(Zero, Minus(spec.maxPositionNotional, current))

(* Faulty variant: one scale-in more than the specification allows.        *)
NextOrderNotionalOneMore(spec, current, index) ==
    IF index > spec.maxScaleIns + 1 THEN Zero
    ELSE Least(Times(spec.baseOrderNotional, Power(spec.scaleOrderMultiplier, index)),
               RemainingPositionCapacity(spec, current))

NextOrderNotional(spec, current, index) ==
    IF index > spec.maxScaleIns THEN Zero
    ELSE Least(Times(spec.baseOrderNotional, Power(spec.scaleOrderMultiplier, index)),
               RemainingPositionCapacity(spec, current))

(* build_order_intent; a notional of zero stands for None.                 *)
BuildOrderIntent(spec, signal, current, index) ==
    [direction |-> signal,
     notional  |-> IF signal = 0 THEN Zero
                                 ELSE NextOrderNotional(spec, current, index)]

(* build_scale_in_intent; the filters are applied a second time, to the    *)
(* same effect.                                                            *)
BuildScaleInIntent(spec, position, signal) ==
    BuildOrderIntent(spec,
                     IF signal = position.direction THEN signal ELSE 0,
                     position.notional, position.scaleIns + 1)

(* _apply_liquidity_cap with cap_notional                                  *)
ApplyLiquidityCap(spec, book, intent) ==
    IF spec.maxVisibleLiquidityFraction = Zero THEN intent
    ELSE [intent EXCEPT !.notional =
            Least(@, Times(spec.maxVisibleLiquidityFraction,
                           Least(BookDepthNotional(book.bids),
                                 BookDepthNotional(book.asks))))]

PositionReturnPct(position, price) ==
    Times(Whole(position.direction * 100),
          Minus(Over(price, position.entryPrice), Whole(1)))

(* evaluate_exit, then the position policy; "none" when neither exits.     *)
ExitReason(spec, position, market, policyExits) ==
    LET return == PositionReturnPct(position, MidPrice(market.book))
        stopped == /\ spec.stopLossPct # Zero
                   /\ AtMost(return, Minus(Zero, spec.stopLossPct))
        taken == /\ spec.takeProfitPct # Zero
                 /\ AtMost(spec.takeProfitPct, return)
        aged == /\ spec.maxHoldingSeconds # 0
                /\ market.ts - position.entryTs >= spec.maxHoldingSeconds
    IN CASE stopped                               -> "stop_loss"
         [] ~stopped /\ taken                     -> "take_profit"
         [] ~stopped /\ ~taken /\ aged            -> "max_holding_time"
         [] ~stopped /\ ~taken /\ ~aged           ->
                IF policyExits THEN "policy" ELSE "none"

(* What the constructor of OrderIntent accepts.                            *)
ValidIntent(intent) ==
    intent.direction \in {Buy, Sell} /\ Below(Zero, intent.notional)

Hold == [action |-> "hold", direction |-> 0, notional |-> Zero, reason |-> "none"]

Order(action, intent) ==
    IF intent.notional = Zero THEN Hold
    ELSE [action |-> action, direction |-> intent.direction,
          notional |-> intent.notional, reason |-> "none"]

(* StrategyEngine.evaluate                                                 *)
Evaluate(spec, market, position, rawSignal, policyExits) ==
    LET signal == ApplyEntryFilters(spec, market.book, rawSignal) IN
    IF position = NoPosition
      THEN Order("enter", ApplyLiquidityCap(spec, market.book,
                            BuildOrderIntent(spec, signal, Zero, 0)))
      ELSE LET reason == ExitReason(spec, position, market, policyExits) IN
           IF reason # "none"
             THEN [Hold EXCEPT !.action = "exit", !.reason = reason]
             ELSE Order("scale_in", ApplyLiquidityCap(spec, market.book,
                                      BuildScaleInIntent(spec, position, signal)))
=============================================================================
