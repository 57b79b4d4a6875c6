----------------------------- MODULE MakerQueue ------------------------------
(***************************************************************************)
(* One simulated order against one book: a maker order that the replay     *)
(* advances interval by interval, and a taker order of the same worth.     *)
(* The maker's fills are computed twice in the code, incrementally and at  *)
(* once; both are held against a closed form here.                         *)
(***************************************************************************)
EXTENDS SimulatedExecution

CONSTANTS Books, OrderQuantities, QueueFractions,
          TradePrices, TradeQuantities,
          MaxAge,      \* the order's life; later trades do not count
          MaxClock,    \* bound
          MaxTrades    \* bound: trades in one interval

ASSUME MakerQueueAssumption ==
    /\ \A b \in Books : ValidBook(b) /\ BestFirst(b)
    /\ \A x \in OrderQuantities \cup TradePrices \cup TradeQuantities : IsPositive(x)
    /\ \A f \in QueueFractions : IsRational(f) /\ AtMost(Zero, f)
    /\ MaxAge \in Nat /\ MaxClock \in Nat \ {0} /\ MaxTrades \in Nat

VARIABLES book, order, pending, passed, clock

queueVars == <<book, order, pending, passed, clock>>

QueueInit ==
    /\ book \in Books
    /\ \E side \in {Buy, Sell}, q \in OrderQuantities, f \in QueueFractions :
          order = PlaceMakerOrder(book, side, q, 1, f)
    /\ pending = Pending(order)
    /\ passed = <<>>
    /\ clock = 1

Intervals(to) ==
    UNION {{s \in [1..n -> [ts : (clock + 1)..to, side : {Buy, Sell},
                            price : TradePrices, quantity : TradeQuantities]] :
              \A i \in 1..(n - 1) : s[i].ts <= s[i + 1].ts} : n \in 1..MaxTrades}

(* The replay's step: only trades the order lived to see take part.        *)
Advance(to, trades) ==
    /\ clock' = to
    /\ passed' = passed \o trades
    /\ pending' = AdvancePendingMaker(pending, order, trades, {order.placed + MaxAge})
    /\ UNCHANGED <<book, order>>

QueueNext ==
    /\ ~FullyFilled(pending)
    /\ \E to \in (clock + 1)..MaxClock : \E trades \in Intervals(to) : Advance(to, trades)

QueueSpec == QueueInit /\ [][QueueNext]_queueVars

-----------------------------------------------------------------------------

(* Advancing interval by interval gives what simulate_maker_lifecycle gives*)
(* for the order's whole life at once.  Had it been cancelled, it would    *)
(* have filled no more, not after its end, and a replacement would ask for *)
(* exactly the rest.                                                       *)
IncrementalIsOneShot ==
    LET expiry == {order.placed + MaxAge}
        Life(cancel) == SimulateMakerLifecycle(order, passed, expiry, cancel)
    IN /\ Life({}).fill = pending
       /\ Life({}).status = IF FullyFilled(pending) THEN "filled" ELSE "expired"
       /\ \A c \in order.placed..MaxClock :
             LET life == Life({c}) IN
             /\ AtMost(life.fill.filled, pending.filled)
             /\ life.fill.lastFill <= c
             /\ CanReplace(life, MaxClock) =>
                   LET next == ReplaceMakerOrder(life, book, MaxClock, Zero) IN
                   /\ ValidMakerOrder(next)
                   /\ Plus(next.quantity, life.fill.filled) = order.quantity

(* The volume that traded through the order while it lived goes to the     *)
(* queue ahead first and to the order next; nothing is filled twice.       *)
FilledIsVolumeBehindQueue ==
    LET Hits(t) == TradeCanFill(order, t) /\ t.ts <= order.placed + MaxAge
        volume == FoldLeft(LAMBDA v, t : IF Hits(t) THEN Plus(v, t.quantity) ELSE v,
                           Zero, passed)
    IN /\ pending.filled = Greatest(Zero, Least(order.quantity,
                                                Minus(volume, order.queueAhead)))
       /\ pending.remaining = Minus(order.quantity, pending.filled)

(* A taker order takes what it asked for or all there is, and money and    *)
(* size agree: buying the size that was bought costs what was paid, and    *)
(* no one pays less than the best price for it.                            *)
TakerWalksTheBook ==
    LET levels == ExecutionLevels(book, order.side)
        asked == Times(order.quantity, order.price)
        byNotional == NotionalOrder(levels, asked)
        byQuantity == QuantityOrder(levels, byNotional.quantity)
        worse == Times(Whole(order.side),
                       Minus(byNotional.notional,
                             Times(byNotional.quantity, levels[1].price)))
    IN /\ byNotional.notional = Least(asked, BookDepthNotional(levels))
       /\ byQuantity.notional = byNotional.notional
       /\ AtMost(Zero, worse)

(* Both kinds of fill the replay books are what an arithmetic without      *)
(* loops says they are: the maker's, whatever intervals the trades came in,*)
(* and the taker's, wherever in the book its walk stops.                   *)
FillsAreClosedForms == FilledIsVolumeBehindQueue /\ TakerWalksTheBook
=============================================================================
