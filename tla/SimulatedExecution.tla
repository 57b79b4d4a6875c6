------------------------- MODULE SimulatedExecution --------------------------
(***************************************************************************)
(* What the backtest takes for the exchange: taker orders that walk the    *)
(* visible book (backtest/execution.py) and maker orders that wait behind  *)
(* the queue they saw (backtest/maker.py, backtest/maker_lifecycle.py).    *)
(*                                                                         *)
(* A book is [bids, asks], each a sequence of levels [price, quantity],    *)
(* best first; a trade is [ts, side, price, quantity], the side being the  *)
(* aggressor's.  Directions and sides are 1 (long, buy) and -1.            *)
(***************************************************************************)
EXTENDS Rationals, Sequences, SequencesExt

Buy == 1
Sell == -1

EntrySide(direction) == direction
ExitSide(direction) == -direction

(* What the constructor of OrderBookSnapshot demands of prices and         *)
(* quantities, and of the order of the levels.                             *)
ValidBook(book) ==
    /\ \A side \in {book.bids, book.asks} :
          /\ Len(side) \in Nat \ {0}
          /\ DOMAIN side = 1 .. Len(side)
          /\ \A i \in DOMAIN side : IsPositive(side[i].price) /\ IsPositive(side[i].quantity)
    /\ Below(book.bids[1].price, book.asks[1].price)

BestFirst(book) ==
    /\ \A i, j \in DOMAIN book.bids : i < j => AtMost(book.bids[j].price, book.bids[i].price)
    /\ \A i, j \in DOMAIN book.asks : i < j => AtMost(book.asks[i].price, book.asks[j].price)

ExecutionLevels(book, side) == IF side = Buy THEN book.asks ELSE book.bids

MidPrice(book) == Over(Plus(book.bids[1].price, book.asks[1].price), Whole(2))

BookDepthNotional(levels) ==
    FoldLeft(LAMBDA total, l : Plus(total, Times(l.price, l.quantity)), Zero, levels)

-----------------------------------------------------------------------------
(* Taker orders.  A level takes part while something remains to be filled. *)

NothingFilled(requested) ==
    [remaining |-> requested, notional |-> Zero, quantity |-> Zero]

(* Faulty variant: every level fills the whole order again.                *)
NotionalOrderPerLevel(levels, requested) ==
    LET Take(acc, l) ==
            LET taken == Least(requested, Times(l.price, l.quantity)) IN
            [remaining |-> Minus(acc.remaining, taken),
             notional  |-> Plus(acc.notional, taken),
             quantity  |-> Plus(acc.quantity, Over(taken, l.price))]
    IN FoldLeft(Take, NothingFilled(requested), levels)

NotionalOrder(levels, requested) ==
    LET Take(acc, l) ==
            LET taken == Least(acc.remaining, Times(l.price, l.quantity)) IN
            [remaining |-> Minus(acc.remaining, taken),
             notional  |-> Plus(acc.notional, taken),
             quantity  |-> Plus(acc.quantity, Over(taken, l.price))]
    IN FoldLeft(Take, NothingFilled(requested), levels)

(* Faulty variant: the whole order at the best price.                      *)
QuantityOrderAtBest(levels, requested) ==
    [remaining |-> Zero,
     notional  |-> Times(requested, levels[1].price),
     quantity  |-> requested]

QuantityOrder(levels, requested) ==
    LET Take(acc, l) ==
            LET taken == Least(acc.remaining, l.quantity) IN
            [remaining |-> Minus(acc.remaining, taken),
             notional  |-> Plus(acc.notional, Times(taken, l.price)),
             quantity  |-> Plus(acc.quantity, taken)]
    IN FoldLeft(Take, NothingFilled(requested), levels)

-----------------------------------------------------------------------------
(* Maker orders.                                                           *)

DefaultMakerPrice(book, side) ==
    IF side = Buy THEN book.bids[1].price ELSE book.asks[1].price

VisibleQuantityAtPrice(book, side, price) ==
    LET levels == IF side = Buy THEN book.bids ELSE book.asks
        At == {i \in DOMAIN levels : levels[i].price = price}
    IN IF At = {} THEN Zero
       ELSE levels[CHOOSE i \in At : \A j \in At : i <= j].quantity

(* The callers quote the best price of their own side, which never crosses.*)
PlaceMakerOrder(book, side, quantity, ts, queueAheadFraction) ==
    LET price == DefaultMakerPrice(book, side) IN
    [side       |-> side,
     price      |-> price,
     quantity   |-> quantity,
     placed     |-> ts,
     queueAhead |-> Times(VisibleQuantityAtPrice(book, side, price),
                          queueAheadFraction)]

TradeCanFill(order, trade) ==
    /\ trade.ts >= order.placed
    /\ trade.side = -order.side
    /\ IF order.side = Buy THEN AtMost(trade.price, order.price)
                           ELSE AtMost(order.price, trade.price)

(* What the constructors of MakerOrder and PendingMakerOrder accept.       *)
ValidMakerOrder(order) ==
    /\ Below(Zero, order.price) /\ Below(Zero, order.quantity)
    /\ AtMost(Zero, order.queueAhead)

ValidPending(pending) ==
    \A x \in {pending.remaining, pending.queue, pending.filled} : AtMost(Zero, x)

(* PendingMakerOrder.from_order                                            *)
Pending(order) ==
    [remaining |-> order.quantity, queue |-> order.queueAhead,
     filled |-> Zero, lastFill |-> 0]

FullyFilled(pending) == pending.remaining = Zero

(* Faulty variant: the queue ahead does not shrink.                        *)
PassQueueWhole(pending, order, trade) ==
    LET available == Minus(trade.quantity, Least(pending.queue, trade.quantity))
        quantity == Least(pending.remaining, available)
    IN IF ~TradeCanFill(order, trade) \/ quantity = Zero THEN pending
       ELSE [pending EXCEPT !.remaining = Minus(@, quantity),
                            !.filled    = Plus(@, quantity),
                            !.lastFill  = trade.ts]

(* Faulty variant: last_fill_ts is not kept.                               *)
PassTradeUndated(pending, order, trade) ==
    LET consumed == Least(pending.queue, trade.quantity)
        quantity == Least(pending.remaining, Minus(trade.quantity, consumed))
    IN IF ~TradeCanFill(order, trade) THEN pending
       ELSE [pending EXCEPT !.queue     = Minus(@, consumed),
                            !.remaining = Minus(@, quantity),
                            !.filled    = Plus(@, quantity)]

(* One trade: it eats into the queue first, then into the order.           *)
PassTrade(pending, order, trade) ==
    LET consumed == Least(pending.queue, trade.quantity)
        quantity == Least(pending.remaining, Minus(trade.quantity, consumed))
        behind == [pending EXCEPT !.queue = Minus(@, consumed)]
    IN IF ~TradeCanFill(order, trade) THEN pending
       ELSE IF quantity = Zero THEN behind
       ELSE [behind EXCEPT !.remaining = Minus(@, quantity),
                           !.filled    = Plus(@, quantity),
                           !.lastFill  = trade.ts]

(* Faulty variant: every interval waits behind the whole queue again.      *)
AdvanceBehindWholeQueue(pending, order, trades, ends) ==
    FoldLeft(LAMBDA p, trade :
                 IF FullyFilled(p) \/ \E end \in ends : end < trade.ts
                 THEN p ELSE PassTrade(p, order, trade),
             [pending EXCEPT !.queue = order.queueAhead], trades)

(* Trades come in the order of their time.  ends is a set of at most one   *)
(* time: the trades after it come too late for the order.                  *)
AdvancePendingMaker(pending, order, trades, ends) ==
    FoldLeft(LAMBDA p, trade :
                 IF FullyFilled(p) \/ \E end \in ends : end < trade.ts
                 THEN p ELSE PassTrade(p, order, trade),
             pending, trades)

(* One trade in the loop of simulate_maker_fill.                           *)
FillTrade(fill, trade) ==
    LET queued == Least(fill.queue, trade.quantity)
        filled == Least(fill.remaining, Minus(trade.quantity, queued))
    IN [fill EXCEPT !.queue     = Minus(@, queued),
                    !.remaining = Minus(@, filled),
                    !.filled    = Plus(@, filled),
                    !.lastFill  = IF filled = Zero THEN @ ELSE trade.ts]

(* simulate_maker_fill, a loop of its own over all trades at once.         *)
SimulateMakerFill(order, trades, ends) ==
    FoldLeft(LAMBDA fill, trade :
                 IF \/ FullyFilled(fill)
                    \/ \E end \in ends : end < trade.ts
                    \/ ~TradeCanFill(order, trade)
                 THEN fill ELSE FillTrade(fill, trade),
             Pending(order), trades)

(* simulate_maker_lifecycle: expiry and cancel are sets of at most one     *)
(* time; the earlier one ends the order, the expiry when they coincide.    *)
SimulateMakerLifecycle(order, trades, expiry, cancel) ==
    LET cancelled == cancel # {} /\ \A c \in cancel, e \in expiry : c < e
        end == IF cancelled THEN cancel ELSE expiry
        fill == SimulateMakerFill(order, trades, end)
    IN [order |-> order, fill |-> fill,
        status |-> CASE FullyFilled(fill) -> "filled"
                     [] ~FullyFilled(fill) /\ cancelled -> "cancelled"
                     [] ~FullyFilled(fill) /\ ~cancelled /\ expiry # {} -> "expired"
                     [] ~FullyFilled(fill) /\ ~cancelled /\ expiry = {} ->
                          IF fill.filled = Zero THEN "open" ELSE "partially_filled",
        end |-> IF FullyFilled(fill) THEN {fill.lastFill} ELSE end]

(* replace_maker_order: what is left, at the best price of the new book;   *)
(* raises ValueError unless the order ended unfilled before this snapshot. *)
CanReplace(result, ts) ==
    /\ result.status \in {"cancelled", "expired"}
    /\ \A end \in result.end : end <= ts

ReplaceMakerOrder(result, book, ts, queueAheadFraction) ==
    PlaceMakerOrder(book, result.order.side, result.fill.remaining, ts,
                    queueAheadFraction)
=============================================================================
