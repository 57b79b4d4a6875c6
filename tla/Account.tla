------------------------------- MODULE Account -------------------------------
(***************************************************************************)
(* AccountTracker: the live account rebuilt from fills and marks.  Fills   *)
(* of several orders and coins arrive in any order, may be delivered again *)
(* and may carry the date of an earlier day.  Cash never appears in the    *)
(* code; the properties compare what it computes with the money that the   *)
(* delivered fills moved.                                                  *)
(***************************************************************************)
EXTENDS Rationals, FiniteSets, FiniteSetsExt, Functions

CONSTANTS Coins, Days,
          Prices,      \* of fills and marks
          Quantities,  \* of fills
          Fees,
          Starting,    \* starting_equity
          MaxFills     \* bound: different fills

ASSUME AccountAssumption ==
    /\ Coins # {} /\ IsFiniteSet(Coins)
    /\ Days # {} /\ IsFiniteSet(Days)
    /\ \A x \in Prices \cup Quantities \cup {Starting} : IsPositive(x)
    /\ \A x \in Fees : IsRational(x) /\ AtMost(Zero, x)
    /\ MaxFills \in Nat

VARIABLES positions,  \* coin -> quantity (signed) and average_entry_price
          marks,      \* coin -> last price seen, NoPrice before the first
          fillIds, gross, fees,
          daily,      \* day -> realized profit net of fees
          peak,       \* _peak_equity
          delivered   \* history: the fills that reached apply_fill

vars == <<positions, marks, fillIds, gross, fees, daily, peak, delivered>>

NoPrice == Zero

Flat == [quantity |-> Zero, average |-> NoPrice]

Fill == [id : 1..MaxFills, coin : Coins, side : {-1, 1}, quantity : Quantities,
         price : Prices, fee : Fees, day : Days]

Sign(a) == IF a[1] > 0 THEN 1 ELSE IF a[1] < 0 THEN -1 ELSE 0

Size(a) == <<Abs(a[1]), a[2]>>

Signed(fill) == Times(Whole(fill.side), fill.quantity)

SumOver(S, f(_)) == FoldFunctionOnSet(Plus, Zero, [x \in S |-> f(x)], S)

Init ==
    /\ positions = [c \in Coins |-> Flat]
    /\ marks = [c \in Coins |-> NoPrice]
    /\ fillIds = {}
    /\ gross = Zero
    /\ fees = Zero
    /\ daily = [d \in Days |-> Zero]
    /\ peak = Starting
    /\ delivered = {}

-----------------------------------------------------------------------------

(* Faulty variant: a closed position keeps its average price.              *)
NewAverageAfterClose(old, fill) ==
    IF Sign(old.quantity) \in {0, fill.side}
    THEN Over(Plus(Times(Size(old.quantity), old.average),
                   Times(fill.quantity, fill.price)),
              Plus(Size(old.quantity), fill.quantity))
    ELSE old.average

(* The average of a position that a fill opened, grew, reduced or turned.  *)
NewAverage(old, fill) ==
    LET new == Plus(old.quantity, Signed(fill))
    IN IF Sign(old.quantity) \in {0, fill.side}
       THEN Over(Plus(Times(Size(old.quantity), old.average),
                      Times(fill.quantity, fill.price)),
                 Plus(Size(old.quantity), fill.quantity))
       ELSE IF new = Zero THEN NoPrice
       ELSE IF Sign(new) = Sign(old.quantity) THEN old.average
       ELSE fill.price

(* Faulty variant: the opening part of a flip earns as well.               *)
RealizedOnWholeFill(old, fill) ==
    IF Sign(old.quantity) \in {0, fill.side} THEN Zero
    ELSE Times(Times(Whole(Sign(old.quantity)), fill.quantity),
               Minus(fill.price, old.average))

(* What the closed part of the old position earned.                        *)
Realized(old, fill) ==
    IF Sign(old.quantity) \in {0, fill.side} THEN Zero
    ELSE Times(Times(Whole(Sign(old.quantity)),
                     Least(Size(old.quantity), fill.quantity)),
               Minus(fill.price, old.average))

(* unrealized_pnl: a coin without a mark is worth its average price.       *)
MarkOf(c, ps, ms) == IF ms[c] = NoPrice THEN ps[c].average ELSE ms[c]

Unrealized(ps, ms) ==
    SumOver(Coins, LAMBDA c : Times(ps[c].quantity,
                                    Minus(MarkOf(c, ps, ms), ps[c].average)))

EquityOf(ps, ms, g, f) == Plus(Plus(Starting, Minus(g, f)), Unrealized(ps, ms))

Equity == EquityOf(positions, marks, gross, fees)

(* _update_peak_equity, called last with everything else already changed.  *)
UpdatePeak(ps, ms, g, f) == peak' = Greatest(peak, EquityOf(ps, ms, g, f))

(* Faulty variant: the day's profit leaves out the fee.                    *)
BookFillGross(fill) ==
    LET old == positions[fill.coin]
        realized == Realized(old, fill)
    IN /\ positions' = [positions EXCEPT ![fill.coin] =
              [quantity |-> Plus(old.quantity, Signed(fill)),
               average |-> NewAverage(old, fill)]]
       /\ fillIds' = fillIds \cup {fill.id}
       /\ gross' = Plus(gross, realized)
       /\ fees' = Plus(fees, fill.fee)
       /\ daily' = [daily EXCEPT ![fill.day] = Plus(@, realized)]
       /\ UpdatePeak(positions', marks, gross', fees')
       /\ UNCHANGED marks

BookFill(fill) ==
    LET old == positions[fill.coin]
        realized == Realized(old, fill)
    IN /\ positions' = [positions EXCEPT ![fill.coin] =
              [quantity |-> Plus(old.quantity, Signed(fill)),
               average |-> NewAverage(old, fill)]]
       /\ fillIds' = fillIds \cup {fill.id}
       /\ gross' = Plus(gross, realized)
       /\ fees' = Plus(fees, fill.fee)
       /\ daily' = [daily EXCEPT ![fill.day] = Plus(@, Minus(realized, fill.fee))]
       /\ UpdatePeak(positions', marks, gross', fees')
       /\ UNCHANGED marks

(* A fill with a known id raises ValueError before anything changes.       *)
ApplyFill(fill) ==
    /\ delivered' = delivered \cup {fill}
    /\ \/ /\ fill.id \in fillIds
          /\ UNCHANGED <<positions, marks, fillIds, gross, fees, daily, peak>>
       \/ /\ fill.id \notin fillIds
          /\ BookFill(fill)

(* Faulty variant: a mark does not move the peak.                          *)
UpdateMarkOnly(c, price) ==
    /\ marks' = [marks EXCEPT ![c] = price]
    /\ UNCHANGED <<positions, fillIds, gross, fees, daily, delivered, peak>>

UpdateMark(c, price) ==
    /\ marks' = [marks EXCEPT ![c] = price]
    /\ UpdatePeak(positions, marks', gross, fees)
    /\ UNCHANGED <<positions, fillIds, gross, fees, daily, delivered>>

(* A fill that was not delivered yet, or one that is delivered again.      *)
Arriving ==
    delivered \cup {f \in Fill : f.id = Cardinality(delivered) + 1}

Next ==
    \/ \E fill \in Arriving : ApplyFill(fill)
    \/ \E c \in Coins, price \in Prices : UpdateMark(c, price)

Spec == Init /\ [][Next]_vars

-----------------------------------------------------------------------------

(* LivePosition.__post_init__ never raises: a position has an average      *)
(* price, and one between the prices of the coin's fills, exactly when it  *)
(* is open.                                                                *)
AverageIsFairPrice ==
    \A c \in Coins :
        LET paid == {f.price : f \in {g \in delivered : g.coin = c}}
        IN IF positions[c].quantity = Zero THEN positions[c].average = NoPrice
           ELSE /\ \E p \in paid : AtMost(p, positions[c].average)
                /\ \E p \in paid : AtMost(positions[c].average, p)

(* Whatever was opened, grown, closed or turned, and in whatever order and *)
(* how often the fills were delivered: equity is the starting money plus   *)
(* what each execution paid or received once, plus the holdings at their   *)
(* marks (a coin not marked yet counts at its average price).              *)
EquityIsMoneyPlusHoldings ==
    LET moved == SumOver(delivered, LAMBDA f :
                     Minus(Times(Whole(-1), Times(Signed(f), f.price)), f.fee))
        held == SumOver(Coins, LAMBDA c :
                    Times(positions[c].quantity, MarkOf(c, positions, marks)))
    IN Equity = Plus(Plus(Starting, moved), held)

(* The profits of the days, which the daily loss limit reads one at a time,*)
(* add up to the realized profit, and a day without fills has none, also   *)
(* when fills arrive after midnight.                                       *)
DailySumsToRealized ==
    /\ SumOver(Days, LAMBDA d : daily[d]) = Minus(gross, fees)
    /\ \A d \in Days : daily[d] # Zero => \E f \in delivered : f.day = d

(* Every figure the loss limits read is the money the executions moved,    *)
(* counted once: the equity as a whole and its realized part day by day.   *)
(* Hazard: redelivered, late and position-turning executions.              *)
MoneyIsAccountedFor == EquityIsMoneyPlusHoldings /\ DailySumsToRealized

(* The drawdown limit compares equity with its highest value so far: the   *)
(* peak never falls, equity is never above it, and it rises only to the    *)
(* equity of that moment.                                                  *)
PeakIsHighWater ==
    [][LET now == EquityOf(positions', marks', gross', fees')
       IN /\ AtMost(peak, peak')
          /\ AtMost(now, peak')
          /\ peak' # peak => peak' = now]_vars
=============================================================================
