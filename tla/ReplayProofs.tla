---------------------------- MODULE ReplayProofs ----------------------------
(***************************************************************************)
(* The backtest's replay, for all order books, trades, strategies,         *)
(* policies and signals, however many snapshots and trades there are: the  *)
(* run raises nothing, what is pending fits the position, the reported     *)
(* sums agree, and the strategy is soon free again.                        *)
(*                                                                         *)
(* ReplayInv says what holds between two snapshots: Accounts, the money    *)
(* and sizes of position, trip and ledger; MakerFits and ExecutionFits, an *)
(* order that rests or travels fits the position; Timing, since when.  A   *)
(* snapshot finds an order resting, or one on its way, or neither, and     *)
(* each of these has a lemma: RestingHolds, TravellingHolds, FreeHolds.    *)
(* Below them every operator of the loop body has one, down to the folds   *)
(* that walk the book and the trades.                                      *)
(***************************************************************************)
EXTENDS Replay, ArithmeticProofs

-----------------------------------------------------------------------------
(* Powers: the sizes of scaled-in orders.                                  *)

PowerFolds(g, x, n) ==
    g = [s \in SUBSET DOMAIN [k \in 1 .. n |-> x] |->
           IF s = {} THEN Whole(1)
           ELSE Times(g[s \ {Max(s)}], [k \in 1 .. n |-> x][Max(s)])]

LEMMA PowerIsChosen ==
    \A x, n : Power(x, n) = (CHOOSE g : PowerFolds(g, x, n))[DOMAIN [k \in 1 .. n |-> x]]
BY DEF Power, FoldLeft, MapThenFoldSet, PowerFolds

LEMMA OneIs == Whole(1) \in Fractions /\ Below(Zero, Whole(1))
BY WholeIs, SignOf DEF Whole

LEMMA PowerPositive ==
    ASSUME NEW x \in Fractions, Below(Zero, x), NEW n \in Nat
    PROVE  Power(x, n) \in Fractions /\ Below(Zero, Power(x, n))
<1> DEFINE base == Whole(1)
           X == {x}
           step == [p \in Fractions \X X |-> Times(p[1], p[2])]
           line == [i \in 1 .. n |-> [k \in 1 .. n |-> x][i]]
           Reach == {p \in (0 .. n) \X Fractions : Below(Zero, p[2])}
           g == CHOOSE f : PowerFolds(f, x, n)
<1>n. n \in Nat
  OBVIOUS
<1>1. base \in Fractions /\ Below(Zero, base)
  BY OneIs
<1>t. \A a \in Fractions, l \in X : Times(a, l) \in Fractions
  BY TimesType
<1>2. step \in [Fractions \X X -> Fractions]
  BY <1>t
<1>3. PowerFolds(g, x, n)
  <2>1. PICK f \in [SUBSET (1 .. n) -> Fractions] :
           \A s \in SUBSET (1 .. n) :
              f[s] = IF s = {} THEN base ELSE step[<<f[s \ {Max(s)}], line[Max(s)]>>]
    <3>1. line \in [1 .. n -> X]
      OBVIOUS
    <3> HIDE DEF base, X, step, line
    <3>2. HasFold(Fractions, step, base, line, n)
      BY <1>1, <1>2, <1>n, <3>1, FoldExists
    <3> QED BY <3>2 DEF HasFold
  <2>2. ASSUME NEW s \in SUBSET (1 .. n), s # {}
        PROVE  f[s] = Times(f[s \ {Max(s)}], [k \in 1 .. n |-> x][Max(s)])
    <3>1. Max(s) \in s
      BY <2>2, SomeLast
    <3>2. f[s \ {Max(s)}] \in Fractions /\ [k \in 1 .. n |-> x][Max(s)] \in X /\ line[Max(s)] = [k \in 1 .. n |-> x][Max(s)]
      BY <3>1
    <3>3. \A a \in Fractions, l \in X : step[<<a, l>>] = Times(a, l)
      OBVIOUS
    <3>4. f[s] = step[<<f[s \ {Max(s)}], line[Max(s)]>>]
      <4> HIDE DEF step, line
      <4> QED BY <2>1, <2>2
    <3> HIDE DEF step, line, X
    <3> QED BY <3>2, <3>3, <3>4
  <2>3. f = [s \in SUBSET DOMAIN [k \in 1 .. n |-> x] |->
               IF s = {} THEN base ELSE Times(f[s \ {Max(s)}], [k \in 1 .. n |-> x][Max(s)])]
    BY <2>1, <2>2
  <2>4. PowerFolds(f, x, n)
    BY <2>3 DEF PowerFolds
  <2> QED BY <2>4
<1> HIDE DEF g
<1>4. /\ g[{}] = base
      /\ \A s \in SUBSET (1 .. n) : s # {} =>
            g[s] = Times(g[s \ {Max(s)}], [k \in 1 .. n |-> x][Max(s)])
  BY <1>3 DEF PowerFolds
<1>p. \A i, acc : <<i, acc>> \in Reach <=>
         i \in 0 .. n /\ acc \in Fractions /\ Below(Zero, acc)
  OBVIOUS
<1> HIDE DEF Reach
<1>5. <<n, g[1 .. n]>> \in Reach
  <2>1. <<0, g[{}]>> \in Reach
    BY <1>1, <1>4, <1>p
  <2>2. ASSUME NEW i \in 1 .. n, <<i - 1, g[(1 .. i) \ {Max(1 .. i)}]>> \in Reach
        PROVE  <<i, g[1 .. i]>> \in Reach
    <3> DEFINE a == g[(1 .. i) \ {Max(1 .. i)}]
    <3>1. g[1 .. i] = Times(a, [k \in 1 .. n |-> x][i])
      BY <1>4, InitialSegments
    <3>2. a \in Fractions /\ Below(Zero, a)
      <4>1. <<i - 1, a>> \in Reach
        BY <2>2
      <4> HIDE DEF a
      <4> QED BY <4>1, <1>p
    <3>3. Times(a, [k \in 1 .. n |-> x][i]) \in Fractions /\ Below(Zero, Times(a, [k \in 1 .. n |-> x][i]))
      <4>1. [k \in 1 .. n |-> x][i] = x /\ AtMost(Zero, x)
        BY PositiveIs
      <4> HIDE DEF a
      <4> QED BY <3>2, <4>1, TimesType, ProductSigns, PositiveIs
    <3> QED BY <3>1, <3>3, <1>p
  <2> QED BY <2>1, <2>2, FoldReaches
<1>6. Power(x, n) = g[1 .. n]
  BY PowerIsChosen DEF g
<1>7. g[1 .. n] \in Fractions /\ Below(Zero, g[1 .. n])
  BY <1>5, <1>p
<1> QED BY <1>6, <1>7

-----------------------------------------------------------------------------
(* The accounting of one fill.                                             *)

LEMMA WorthOfAverage ==
    ASSUME NEW x \in Fractions, NEW q \in Fractions, q # Zero
    PROVE  Over(x, q) \in Fractions /\ Times(q, Over(x, q)) = x
BY OverUndoesTimes, TimesCommutes

(* A larger position: the money paid for it, its profit, its size.         *)
LEMMA ScaleMoney ==
    ASSUME NEW a \in Fractions, NEW b \in Fractions, NEW c \in Fractions,
           NEW e \in Fractions, NEW g \in Fractions,
           Plus(a, b) = Plus(c, e)
    PROVE  Plus(a, b) = Plus(Minus(c, g), Plus(e, g))
<1>1. PICK d \in Int, u \in Int, v \in Int, w \in Int, x \in Int, y \in Int, z \in Int :
         Over2(a, b, d, u, v) /\ Over2(c, e, d, w, x) /\ Over2(g, g, d, y, z)
  BY Common6
<1>2. d # 0 /\ Is(a, u, d) /\ Is(b, v, d) /\ Is(c, w, d) /\ Is(e, x, d) /\ Is(g, y, d)
  BY <1>1 DEF Over2
<1>3. Zero \in Fractions /\ Is(Zero, 0, d)
  BY ZeroIs
<1>4. /\ Plus(a, b) \in Fractions
      /\ Is(Plus(a, b), u + v, d) /\ u + v \in Int
  BY <1>2, PlusIs
<1>5. /\ Plus(c, e) \in Fractions
      /\ Is(Plus(c, e), w + x, d) /\ w + x \in Int
  BY <1>2, PlusIs
<1>6. u + v = w + x
  BY <1>2, <1>4, <1>5, SameIs
<1>7. /\ Minus(c, g) \in Fractions
      /\ Is(Minus(c, g), w - y, d) /\ w - y \in Int
  BY <1>2, MinusIs
<1>8. /\ Plus(e, g) \in Fractions
      /\ Is(Plus(e, g), x + y, d) /\ x + y \in Int
  BY <1>2, PlusIs
<1>9. /\ Plus(Minus(c, g), Plus(e, g)) \in Fractions
      /\ Is(Plus(Minus(c, g), Plus(e, g)), (w - y) + (x + y), d) /\ (w - y) + (x + y) \in Int
  BY <1>2, <1>7, <1>8, PlusIs
<1>10. u + v = (w - y) + (x + y)
  BY <1>6
<1>11. Plus(a, b) = Plus(Minus(c, g), Plus(e, g))
  BY <1>2, <1>4, <1>9, <1>10, SameIs
<1> QED BY <1>11

LEMMA ScaleProfit ==
    ASSUME NEW a \in Fractions, NEW b \in Fractions, NEW c \in Fractions,
           NEW e \in Fractions
    PROVE  Plus(Minus(a, Plus(b, c)), Plus(e, c)) = Plus(Minus(a, b), e)
<1>1. PICK d \in Int, u \in Int, v \in Int, w \in Int, x \in Int :
         Over2(a, b, d, u, v) /\ Over2(c, e, d, w, x)
  BY Common4
<1>2. d # 0 /\ Is(a, u, d) /\ Is(b, v, d) /\ Is(c, w, d) /\ Is(e, x, d)
  BY <1>1 DEF Over2
<1>3. Zero \in Fractions /\ Is(Zero, 0, d)
  BY ZeroIs
<1>4. /\ Plus(b, c) \in Fractions
      /\ Is(Plus(b, c), v + w, d) /\ v + w \in Int
  BY <1>2, PlusIs
<1>5. /\ Minus(a, Plus(b, c)) \in Fractions
      /\ Is(Minus(a, Plus(b, c)), u - (v + w), d) /\ u - (v + w) \in Int
  BY <1>2, <1>4, MinusIs
<1>6. /\ Plus(e, c) \in Fractions
      /\ Is(Plus(e, c), x + w, d) /\ x + w \in Int
  BY <1>2, PlusIs
<1>7. /\ Plus(Minus(a, Plus(b, c)), Plus(e, c)) \in Fractions
      /\ Is(Plus(Minus(a, Plus(b, c)), Plus(e, c)), (u - (v + w)) + (x + w), d) /\ (u - (v + w)) + (x + w) \in Int
  BY <1>2, <1>5, <1>6, PlusIs
<1>8. /\ Minus(a, b) \in Fractions
      /\ Is(Minus(a, b), u - v, d) /\ u - v \in Int
  BY <1>2, MinusIs
<1>9. /\ Plus(Minus(a, b), e) \in Fractions
      /\ Is(Plus(Minus(a, b), e), (u - v) + x, d) /\ (u - v) + x \in Int
  BY <1>2, <1>8, PlusIs
<1>10. (u - (v + w)) + (x + w) = (u - v) + x
  OBVIOUS
<1>11. Plus(Minus(a, Plus(b, c)), Plus(e, c)) = Plus(Minus(a, b), e)
  BY <1>2, <1>7, <1>9, <1>10, SameIs
<1> QED BY <1>11

LEMMA ScaleSize ==
    ASSUME NEW a \in Fractions, NEW b \in Fractions, NEW c \in Fractions
    PROVE  Plus(Minus(a, b), c) = Minus(Plus(a, c), b)
<1>1. PICK d \in Int, u \in Int, v \in Int, w \in Int, x \in Int :
         Over2(a, b, d, u, v) /\ Over2(c, c, d, w, x)
  BY Common4
<1>2. d # 0 /\ Is(a, u, d) /\ Is(b, v, d) /\ Is(c, w, d)
  BY <1>1 DEF Over2
<1>3. Zero \in Fractions /\ Is(Zero, 0, d)
  BY ZeroIs
<1>4. /\ Minus(a, b) \in Fractions
      /\ Is(Minus(a, b), u - v, d) /\ u - v \in Int
  BY <1>2, MinusIs
<1>5. /\ Plus(Minus(a, b), c) \in Fractions
      /\ Is(Plus(Minus(a, b), c), (u - v) + w, d) /\ (u - v) + w \in Int
  BY <1>2, <1>4, PlusIs
<1>6. /\ Plus(a, c) \in Fractions
      /\ Is(Plus(a, c), u + w, d) /\ u + w \in Int
  BY <1>2, PlusIs
<1>7. /\ Minus(Plus(a, c), b) \in Fractions
      /\ Is(Minus(Plus(a, c), b), (u + w) - v, d) /\ (u + w) - v \in Int
  BY <1>2, <1>6, MinusIs
<1>8. (u - v) + w = (u + w) - v
  OBVIOUS
<1>9. Plus(Minus(a, b), c) = Minus(Plus(a, c), b)
  BY <1>2, <1>5, <1>7, <1>8, SameIs
<1> QED BY <1>9

(* A smaller one.                                                          *)
LEMMA ExitMoney ==
    ASSUME NEW a \in Fractions, NEW b \in Fractions, NEW c \in Fractions,
           NEW e \in Fractions
    PROVE  Plus(Plus(a, b), Minus(c, e)) = Plus(Minus(a, Minus(Zero, c)), Minus(b, e))
<1>1. PICK d \in Int, u \in Int, v \in Int, w \in Int, x \in Int :
         Over2(a, b, d, u, v) /\ Over2(c, e, d, w, x)
  BY Common4
<1>2. d # 0 /\ Is(a, u, d) /\ Is(b, v, d) /\ Is(c, w, d) /\ Is(e, x, d)
  BY <1>1 DEF Over2
<1>3. Zero \in Fractions /\ Is(Zero, 0, d)
  BY ZeroIs
<1>4. /\ Plus(a, b) \in Fractions
      /\ Is(Plus(a, b), u + v, d) /\ u + v \in Int
  BY <1>2, PlusIs
<1>5. /\ Minus(c, e) \in Fractions
      /\ Is(Minus(c, e), w - x, d) /\ w - x \in Int
  BY <1>2, MinusIs
<1>6. /\ Plus(Plus(a, b), Minus(c, e)) \in Fractions
      /\ Is(Plus(Plus(a, b), Minus(c, e)), (u + v) + (w - x), d) /\ (u + v) + (w - x) \in Int
  BY <1>2, <1>4, <1>5, PlusIs
<1>7. /\ Minus(Zero, c) \in Fractions
      /\ Is(Minus(Zero, c), 0 - w, d) /\ 0 - w \in Int
  BY <1>2, <1>3, MinusIs
<1>8. /\ Minus(a, Minus(Zero, c)) \in Fractions
      /\ Is(Minus(a, Minus(Zero, c)), u - (0 - w), d) /\ u - (0 - w) \in Int
  BY <1>2, <1>7, MinusIs
<1>9. /\ Minus(b, e) \in Fractions
      /\ Is(Minus(b, e), v - x, d) /\ v - x \in Int
  BY <1>2, MinusIs
<1>10. /\ Plus(Minus(a, Minus(Zero, c)), Minus(b, e)) \in Fractions
      /\ Is(Plus(Minus(a, Minus(Zero, c)), Minus(b, e)), (u - (0 - w)) + (v - x), d) /\ (u - (0 - w)) + (v - x) \in Int
  BY <1>2, <1>8, <1>9, PlusIs
<1>11. (u + v) + (w - x) = (u - (0 - w)) + (v - x)
  OBVIOUS
<1>12. Plus(Plus(a, b), Minus(c, e)) = Plus(Minus(a, Minus(Zero, c)), Minus(b, e))
  BY <1>2, <1>6, <1>10, <1>11, SameIs
<1> QED BY <1>12

LEMMA ExitProfit ==
    ASSUME NEW a \in Fractions, NEW b \in Fractions, NEW c \in Fractions,
           NEW e \in Fractions, NEW g \in Fractions
    PROVE  Plus(Plus(Minus(a, b), c), Minus(e, g)) = Plus(Minus(Plus(a, e), b), Minus(c, g))
<1>1. PICK d \in Int, u \in Int, v \in Int, w \in Int, x \in Int, y \in Int, z \in Int :
         Over2(a, b, d, u, v) /\ Over2(c, e, d, w, x) /\ Over2(g, g, d, y, z)
  BY Common6
<1>2. d # 0 /\ Is(a, u, d) /\ Is(b, v, d) /\ Is(c, w, d) /\ Is(e, x, d) /\ Is(g, y, d)
  BY <1>1 DEF Over2
<1>3. Zero \in Fractions /\ Is(Zero, 0, d)
  BY ZeroIs
<1>4. /\ Minus(a, b) \in Fractions
      /\ Is(Minus(a, b), u - v, d) /\ u - v \in Int
  BY <1>2, MinusIs
<1>5. /\ Plus(Minus(a, b), c) \in Fractions
      /\ Is(Plus(Minus(a, b), c), (u - v) + w, d) /\ (u - v) + w \in Int
  BY <1>2, <1>4, PlusIs
<1>6. /\ Minus(e, g) \in Fractions
      /\ Is(Minus(e, g), x - y, d) /\ x - y \in Int
  BY <1>2, MinusIs
<1>7. /\ Plus(Plus(Minus(a, b), c), Minus(e, g)) \in Fractions
      /\ Is(Plus(Plus(Minus(a, b), c), Minus(e, g)), ((u - v) + w) + (x - y), d) /\ ((u - v) + w) + (x - y) \in Int
  BY <1>2, <1>5, <1>6, PlusIs
<1>8. /\ Plus(a, e) \in Fractions
      /\ Is(Plus(a, e), u + x, d) /\ u + x \in Int
  BY <1>2, PlusIs
<1>9. /\ Minus(Plus(a, e), b) \in Fractions
      /\ Is(Minus(Plus(a, e), b), (u + x) - v, d) /\ (u + x) - v \in Int
  BY <1>2, <1>8, MinusIs
<1>10. /\ Minus(c, g) \in Fractions
      /\ Is(Minus(c, g), w - y, d) /\ w - y \in Int
  BY <1>2, MinusIs
<1>11. /\ Plus(Minus(Plus(a, e), b), Minus(c, g)) \in Fractions
      /\ Is(Plus(Minus(Plus(a, e), b), Minus(c, g)), ((u + x) - v) + (w - y), d) /\ ((u + x) - v) + (w - y) \in Int
  BY <1>2, <1>9, <1>10, PlusIs
<1>12. ((u - v) + w) + (x - y) = ((u + x) - v) + (w - y)
  OBVIOUS
<1>13. Plus(Plus(Minus(a, b), c), Minus(e, g)) = Plus(Minus(Plus(a, e), b), Minus(c, g))
  BY <1>2, <1>7, <1>11, <1>12, SameIs
<1> QED BY <1>13

LEMMA ExitSize ==
    ASSUME NEW a \in Fractions, NEW b \in Fractions, NEW c \in Fractions
    PROVE  /\ Minus(Minus(a, b), c) = Minus(a, Plus(b, c))
           /\ Plus(a, Minus(Zero, b)) = Minus(a, b)
<1>1. PICK d \in Int, u \in Int, v \in Int, w \in Int, x \in Int :
         Over2(a, b, d, u, v) /\ Over2(c, c, d, w, x)
  BY Common4
<1>2. d # 0 /\ Is(a, u, d) /\ Is(b, v, d) /\ Is(c, w, d)
  BY <1>1 DEF Over2
<1>3. Zero \in Fractions /\ Is(Zero, 0, d)
  BY ZeroIs
<1>4. /\ Minus(a, b) \in Fractions
      /\ Is(Minus(a, b), u - v, d) /\ u - v \in Int
  BY <1>2, MinusIs
<1>5. /\ Minus(Minus(a, b), c) \in Fractions
      /\ Is(Minus(Minus(a, b), c), (u - v) - w, d) /\ (u - v) - w \in Int
  BY <1>2, <1>4, MinusIs
<1>6. /\ Plus(b, c) \in Fractions
      /\ Is(Plus(b, c), v + w, d) /\ v + w \in Int
  BY <1>2, PlusIs
<1>7. /\ Minus(a, Plus(b, c)) \in Fractions
      /\ Is(Minus(a, Plus(b, c)), u - (v + w), d) /\ u - (v + w) \in Int
  BY <1>2, <1>6, MinusIs
<1>8. (u - v) - w = u - (v + w)
  OBVIOUS
<1>9. Minus(Minus(a, b), c) = Minus(a, Plus(b, c))
  BY <1>2, <1>5, <1>7, <1>8, SameIs
<1>10. /\ Minus(Zero, b) \in Fractions
      /\ Is(Minus(Zero, b), 0 - v, d) /\ 0 - v \in Int
  BY <1>2, <1>3, MinusIs
<1>11. /\ Plus(a, Minus(Zero, b)) \in Fractions
      /\ Is(Plus(a, Minus(Zero, b)), u + (0 - v), d) /\ u + (0 - v) \in Int
  BY <1>2, <1>10, PlusIs
<1>12. u + (0 - v) = u - v
  OBVIOUS
<1>13. Plus(a, Minus(Zero, b)) = Minus(a, b)
  BY <1>2, <1>4, <1>11, <1>12, SameIs
<1> QED BY <1>9, <1>13


OpenPositions == [direction : Directions, quantity : Fractions, average : Fractions,
                  realized : Fractions, fees : Fractions]

Trips == [entryTs : Int, entryQuantity : Fractions, entryNotional : Fractions,
          exitQuantity : Fractions, exitNotional : Fractions, scaleIns : Nat]

Ledgers == [inventory : Fractions, cash : Fractions, fees : Fractions,
            closedPnl : Fractions, closedFees : Fractions,
            tradesPnl : Fractions, lastExit : Int]

IsFill(f) ==
    /\ f.side \in Directions /\ f.ts \in Int
    /\ f.quantity \in Fractions /\ Below(Zero, f.quantity)
    /\ f.notional \in Fractions /\ Below(Zero, f.notional)

Cost(p) == Times(p.quantity, p.average)

(* No position, and the ledger says so.                                    *)
Flat(tr, l, t) ==
    /\ tr = NoTrip
    /\ l \in Ledgers
    /\ l.inventory = Zero
    /\ l.closedPnl = l.cash
    /\ l.fees = l.closedFees
    /\ l.tradesPnl = l.closedPnl
    /\ l.lastExit <= t

(* What the ledger, the trip and an open position say of each other: the   *)
(* money paid and received, plus the position at its average price, is the *)
(* realized profit, whether summed exit by exit or from entries and exits. *)
Balanced(p, tr, l, t) ==
    /\ p \in OpenPositions /\ tr \in Trips /\ l \in Ledgers
    /\ l.inventory = Times(Whole(p.direction), p.quantity)
    /\ Plus(l.closedPnl, p.realized) = Plus(l.cash, Times(Whole(p.direction), Cost(p)))
    /\ l.fees = Plus(l.closedFees, p.fees)
    /\ l.tradesPnl = l.closedPnl
    /\ p.quantity = Minus(tr.entryQuantity, tr.exitQuantity)
    /\ Below(Zero, tr.entryQuantity) /\ AtMost(Zero, tr.exitQuantity)
    /\ p.realized = Times(Whole(p.direction),
                          Plus(Minus(tr.exitNotional, tr.entryNotional), Cost(p)))
    /\ l.lastExit <= tr.entryTs /\ tr.entryTs <= t

(* fills.append *)
FillBooked(l, l2, f, fee) ==
    /\ l2.inventory = Plus(l.inventory, Times(Whole(f.side), f.quantity))
    /\ l2.cash = Minus(l.cash, Times(Whole(f.side), f.notional))
    /\ l2.fees = Plus(l.fees, fee)
    /\ l2.closedPnl = l.closedPnl /\ l2.closedFees = l.closedFees
    /\ l2.tradesPnl = l.tradesPnl /\ l2.lastExit = l.lastExit

Enters(tr, tr2, f) ==
    /\ tr2.entryQuantity = Plus(tr.entryQuantity, f.quantity)
    /\ tr2.entryNotional = Plus(tr.entryNotional, f.notional)
    /\ tr2.exitQuantity = tr.exitQuantity /\ tr2.exitNotional = tr.exitNotional

Leaves(tr, tr2, f) ==
    /\ tr2.exitQuantity = Plus(tr.exitQuantity, f.quantity)
    /\ tr2.exitNotional = Plus(tr.exitNotional, f.notional)
    /\ tr2.entryQuantity = tr.entryQuantity /\ tr2.entryNotional = tr.entryNotional
    /\ tr2.entryTs = tr.entryTs

LEMMA NoTripIs ==
    /\ NoTrip \in Trips
    /\ NoTrip.entryQuantity = Zero /\ NoTrip.entryNotional = Zero
    /\ NoTrip.exitQuantity = Zero /\ NoTrip.exitNotional = Zero
    /\ NoTrip.entryTs = 0 /\ NoTrip.scaleIns = 0
BY ZeroIs DEF NoTrip, Trips

LEMMA SignedType ==
    ASSUME NEW d \in Directions, NEW x \in Fractions
    PROVE  Times(Whole(d), x) \in Fractions /\ Whole(d) \in Fractions
BY OppositeSide, WholeIs

LEMMA OpenBalances ==
    ASSUME NEW tr, NEW l, NEW t \in Int, Flat(tr, l, t),
           NEW f, IsFill(f), t <= f.ts, NEW fee \in Fractions,
           NEW p2 \in OpenPositions, NEW tr2 \in Trips, NEW l2 \in Ledgers,
           p2.direction = f.side, p2.quantity = f.quantity, p2.fees = fee,
           p2.average = Over(f.notional, f.quantity), p2.realized = Zero,
           FillBooked(l, l2, f, fee), Enters(tr, tr2, f), tr2.entryTs = f.ts
    PROVE  Balanced(p2, tr2, l2, f.ts) /\ Below(Zero, p2.average)
<1> DEFINE q == f.quantity
           n == f.notional
           D == Whole(f.side)
<1>1. /\ f.side \in Directions /\ f.ts \in Int /\ q \in Fractions /\ n \in Fractions
      /\ Below(Zero, q) /\ Below(Zero, n) /\ q # Zero /\ AtMost(Zero, n)
  BY PositiveIs DEF IsFill
<1>2. /\ l.inventory = Zero /\ l.closedPnl = l.cash /\ l.fees = l.closedFees
      /\ l.closedPnl \in Fractions /\ l.cash \in Fractions /\ l.fees \in Fractions
      /\ l.tradesPnl = l.closedPnl /\ l.lastExit <= t /\ l.lastExit \in Int
  BY DEF Flat, Ledgers
<1>3. /\ D \in Fractions /\ Times(D, q) \in Fractions /\ Times(D, n) \in Fractions
      /\ Plus(Zero, q) = q /\ Plus(Zero, n) = n /\ Minus(q, Zero) = q
      /\ Plus(Minus(Zero, n), n) = Zero /\ Times(D, Zero) = Zero
      /\ Plus(Minus(l.cash, Times(D, n)), Times(D, n)) = l.cash
      /\ Plus(l.closedPnl, Zero) = l.closedPnl /\ Plus(Zero, Times(D, q)) = Times(D, q)
  BY <1>1, <1>2, SignedType, PlusZero, MinusUndoesPlus, TimesUnits, ZeroIs
<1>4. Cost(p2) = n
  BY <1>1, WorthOfAverage DEF Cost
<1>5. Below(Zero, p2.average)
  BY <1>1, QuotientSigns
<1>6. /\ tr2.entryQuantity = q /\ tr2.entryNotional = n
      /\ tr2.exitQuantity = Zero /\ tr2.exitNotional = Zero
  BY <1>3, NoTripIs DEF Flat, Enters
<1>7. /\ l2.inventory = Times(D, q)
      /\ l2.cash = Minus(l.cash, Times(D, n)) /\ l2.closedPnl = l.closedPnl
      /\ l2.fees = Plus(l2.closedFees, fee) /\ l2.tradesPnl = l2.closedPnl
      /\ l2.lastExit = l.lastExit
  BY <1>2, <1>3 DEF FillBooked
<1>8. AtMost(Zero, Zero)
  BY PositiveIs, ZeroIs
<1> HIDE DEF q, n, D
<1>9. Plus(l2.closedPnl, p2.realized) = Plus(l2.cash, Times(D, Cost(p2)))
  BY <1>2, <1>3, <1>4, <1>7
<1>10. p2.realized = Times(D, Plus(Minus(tr2.exitNotional, tr2.entryNotional), Cost(p2)))
  BY <1>3, <1>4, <1>6
<1>11. l2.lastExit <= tr2.entryTs /\ tr2.entryTs <= f.ts
  BY <1>1, <1>2, <1>7
<1> QED BY <1>1, <1>3, <1>5, <1>6, <1>7, <1>8, <1>9, <1>10, <1>11 DEF Balanced, q, n, D

LEMMA ScaleBalances ==
    ASSUME NEW p, NEW tr, NEW l, NEW t \in Int, Balanced(p, tr, l, t),
           Below(Zero, p.quantity), Below(Zero, p.average),
           NEW f, IsFill(f), t <= f.ts, f.side = p.direction, NEW fee \in Fractions,
           NEW p2 \in OpenPositions, NEW tr2 \in Trips, NEW l2 \in Ledgers,
           p2.direction = p.direction, p2.quantity = Plus(p.quantity, f.quantity),
           p2.fees = Plus(p.fees, fee), p2.realized = p.realized,
           p2.average = Over(Plus(Times(p.quantity, p.average), f.notional),
                             Plus(p.quantity, f.quantity)),
           FillBooked(l, l2, f, fee), Enters(tr, tr2, f), tr2.entryTs = tr.entryTs
    PROVE  /\ Balanced(p2, tr2, l2, f.ts)
           /\ Below(Zero, p2.quantity) /\ Below(Zero, p2.average)
<1> DEFINE q == f.quantity
           n == f.notional
           D == Whole(p.direction)
           c == Cost(p)
<1>1. /\ p.direction \in Directions /\ q \in Fractions /\ n \in Fractions /\ f.ts \in Int
      /\ Below(Zero, q) /\ Below(Zero, n)
      /\ AtMost(Zero, q) /\ AtMost(Zero, n)
  BY PositiveIs DEF IsFill, Balanced, OpenPositions
<1>2. /\ p.quantity \in Fractions /\ p.average \in Fractions /\ p.realized \in Fractions
      /\ p.fees \in Fractions /\ AtMost(Zero, p.quantity) /\ AtMost(Zero, p.average)
  BY PositiveIs DEF Balanced, OpenPositions
<1>3. /\ l.closedPnl \in Fractions /\ l.cash \in Fractions /\ l.fees \in Fractions
      /\ l.closedFees \in Fractions
      /\ l.lastExit \in Int /\ tr.entryTs \in Int
      /\ tr.entryQuantity \in Fractions /\ tr.exitQuantity \in Fractions
      /\ tr.entryNotional \in Fractions /\ tr.exitNotional \in Fractions
  BY DEF Balanced, Ledgers, Trips
<1>4. /\ c \in Fractions /\ AtMost(Zero, c)
  BY <1>2, TimesType, ProductSigns DEF Cost
<1>5. /\ D \in Fractions /\ Times(D, q) \in Fractions /\ Times(D, n) \in Fractions
      /\ Times(D, c) \in Fractions
  BY <1>1, <1>4, SignedType
<1>6. /\ p2.quantity \in Fractions /\ Below(Zero, p2.quantity) /\ p2.quantity # Zero
  <2>1. Plus(p.quantity, q) \in Fractions /\ Below(Zero, Plus(p.quantity, q))
    BY <1>1, <1>2, PlusType, SumSigns
  <2> QED BY <2>1, PositiveIs
<1>7. Plus(c, n) \in Fractions /\ Below(Zero, Plus(c, n)) /\ AtMost(Zero, Plus(c, n))
  <2>1. Plus(c, n) \in Fractions /\ Below(Zero, Plus(c, n))
    <3> HIDE DEF c
    <3> QED BY <1>1, <1>4, PlusType, SumSigns
  <2> QED BY <2>1, PositiveIs
<1>8. p2.average = Over(Plus(c, n), p2.quantity)
  BY DEF Cost
<1> HIDE DEF c
<1>9. Below(Zero, p2.average)
  BY <1>6, <1>7, <1>8, QuotientSigns
<1>10. Cost(p2) = Plus(c, n)
  BY <1>6, <1>7, <1>8, WorthOfAverage DEF Cost
<1>11. l2.inventory = Times(D, p2.quantity)
  <2>1. l2.inventory = Plus(Times(D, p.quantity), Times(D, q))
    BY DEF FillBooked, Balanced
  <2> HIDE DEF D, q
  <2> QED BY <1>1, <1>2, <1>5, <2>1, TimesDistributes DEF q
<1>12. Plus(l2.closedPnl, p2.realized) = Plus(l2.cash, Times(D, Cost(p2)))
  <2>1. Plus(l.closedPnl, p.realized) = Plus(l.cash, Times(D, c))
    BY DEF Balanced, c
  <2>2. l2.closedPnl = l.closedPnl /\ l2.cash = Minus(l.cash, Times(D, n))
    BY DEF FillBooked
  <2>3. Times(D, Plus(c, n)) = Plus(Times(D, c), Times(D, n))
    <3> HIDE DEF D, n
    <3> QED BY <1>1, <1>4, <1>5, TimesDistributes
  <2> HIDE DEF D, n
  <2> QED BY <1>2, <1>3, <1>5, <1>10, <2>1, <2>2, <2>3, ScaleMoney
<1>13. l2.fees = Plus(l2.closedFees, p2.fees)
  <2>1. l2.fees = Plus(Plus(l.closedFees, p.fees), fee) /\ l2.closedFees = l.closedFees
    BY DEF FillBooked, Balanced
  <2> QED BY <1>2, <1>3, <2>1, PlusAssociates
<1>14. /\ p2.quantity = Minus(tr2.entryQuantity, tr2.exitQuantity)
       /\ Below(Zero, tr2.entryQuantity) /\ AtMost(Zero, tr2.exitQuantity)
  <2>1. /\ p2.quantity = Plus(Minus(tr.entryQuantity, tr.exitQuantity), q)
        /\ tr2.entryQuantity = Plus(tr.entryQuantity, q) /\ tr2.exitQuantity = tr.exitQuantity
        /\ Below(Zero, tr.entryQuantity) /\ AtMost(Zero, tr.exitQuantity)
    BY DEF Balanced, Enters
  <2>2. Below(Zero, Plus(tr.entryQuantity, q))
    <3> HIDE DEF q
    <3> QED BY <1>1, <1>3, <2>1, SumSigns, PositiveIs
  <2> HIDE DEF q
  <2> QED BY <1>1, <1>3, <2>1, <2>2, ScaleSize
<1>15. p2.realized = Times(D, Plus(Minus(tr2.exitNotional, tr2.entryNotional), Cost(p2)))
  <2>1. p.realized = Times(D, Plus(Minus(tr.exitNotional, tr.entryNotional), c))
    BY DEF Balanced, c
  <2>2. tr2.entryNotional = Plus(tr.entryNotional, n) /\ tr2.exitNotional = tr.exitNotional
    BY DEF Enters
  <2>3. Plus(Minus(tr.exitNotional, Plus(tr.entryNotional, n)), Plus(c, n))
          = Plus(Minus(tr.exitNotional, tr.entryNotional), c)
    <3> HIDE DEF n
    <3> QED BY <1>1, <1>3, <1>4, ScaleProfit
  <2> QED BY <1>10, <2>1, <2>2, <2>3
<1>16. l2.lastExit <= tr2.entryTs /\ tr2.entryTs <= f.ts /\ l2.tradesPnl = l2.closedPnl
  BY <1>1, <1>3 DEF Balanced, FillBooked
<1> QED BY <1>6, <1>9, <1>11, <1>12, <1>13, <1>14, <1>15, <1>16 DEF Balanced, D

LEMMA ExitBalances ==
    ASSUME NEW p, NEW tr, NEW l, NEW t \in Int, Balanced(p, tr, l, t),
           NEW f, IsFill(f), t <= f.ts, f.side = -p.direction, NEW fee \in Fractions,
           NEW p2 \in OpenPositions, NEW tr2 \in Trips, NEW l2 \in Ledgers,
           p2.direction = p.direction, p2.quantity = Minus(p.quantity, f.quantity),
           p2.fees = Plus(p.fees, fee), p2.average = p.average,
           p2.realized = Plus(p.realized,
               Times(Whole(p.direction),
                     Times(Minus(Over(f.notional, f.quantity), p.average), f.quantity))),
           FillBooked(l, l2, f, fee), Leaves(tr, tr2, f)
    PROVE  Balanced(p2, tr2, l2, f.ts) /\ Below(Zero, tr2.exitQuantity)
<1> DEFINE q == f.quantity
           n == f.notional
           D == Whole(p.direction)
           c == Cost(p)
           k == Times(q, p.average)
<1>1. /\ p.direction \in Directions /\ q \in Fractions /\ n \in Fractions /\ f.ts \in Int
      /\ Below(Zero, q) /\ q # Zero /\ AtMost(Zero, q)
  BY PositiveIs DEF IsFill, Balanced, OpenPositions
<1>2. /\ p.quantity \in Fractions /\ p.average \in Fractions /\ p.realized \in Fractions
      /\ p.fees \in Fractions
  BY DEF Balanced, OpenPositions
<1>3. /\ l.closedPnl \in Fractions /\ l.cash \in Fractions /\ l.fees \in Fractions
      /\ l.closedFees \in Fractions
      /\ l.lastExit \in Int /\ tr.entryTs \in Int
      /\ tr.entryQuantity \in Fractions /\ tr.exitQuantity \in Fractions
      /\ tr.entryNotional \in Fractions /\ tr.exitNotional \in Fractions
  BY DEF Balanced, Ledgers, Trips
<1>4. c \in Fractions /\ k \in Fractions
  BY <1>1, <1>2, TimesType DEF Cost
<1>5. /\ D \in Fractions /\ Times(D, q) \in Fractions /\ Times(D, n) \in Fractions
      /\ Times(D, c) \in Fractions /\ Times(D, k) \in Fractions
      /\ Times(Whole(-p.direction), q) = Minus(Zero, Times(D, q))
      /\ Times(Whole(-p.direction), n) = Minus(Zero, Times(D, n))
  <2> HIDE DEF c, k, q, n
  <2> QED BY <1>1, <1>4, SignedType, OppositeSide
(* The profit of the exit is what it brought minus what it had cost.       *)
<1>6. /\ Minus(n, k) \in Fractions
      /\ p2.realized = Plus(p.realized, Times(D, Minus(n, k)))
  <2>1. /\ Over(n, q) \in Fractions /\ Times(q, Over(n, q)) = n
    BY <1>1, WorthOfAverage
  <2>2. /\ Minus(Over(n, q), p.average) \in Fractions
        /\ Times(Minus(Over(n, q), p.average), q) = Times(q, Minus(Over(n, q), p.average))
        /\ Times(q, Minus(Over(n, q), p.average)) = Minus(n, k)
    <3> HIDE DEF q, n
    <3>1. /\ q \in Fractions /\ Over(n, q) \in Fractions /\ p.average \in Fractions
          /\ Times(q, Over(n, q)) = n
      BY <1>1, <1>2, <2>1
    <3>2. Minus(Over(n, q), p.average) \in Fractions
      BY <3>1, PlusType
    <3>3. Times(Minus(Over(n, q), p.average), q) = Times(q, Minus(Over(n, q), p.average))
      BY <3>1, <3>2, TimesCommutes
    <3>4. Times(q, Minus(Over(n, q), p.average)) = Minus(Times(q, Over(n, q)), Times(q, p.average))
      BY <3>1, TimesDistributes
    <3> QED BY <3>1, <3>2, <3>3, <3>4 DEF k
  <2>3. p2.realized = Plus(p.realized, Times(D, Times(Minus(Over(n, q), p.average), q)))
    OBVIOUS
  <2> HIDE DEF q, n, k, D
  <2> QED BY <1>1, <1>4, <2>2, <2>3, PlusType
<1>7. Cost(p2) = Minus(c, k)
  <2>1. Cost(p2) = Times(Minus(p.quantity, q), p.average)
    BY DEF Cost
  <2>2. /\ Minus(p.quantity, q) \in Fractions
        /\ Times(Minus(p.quantity, q), p.average) = Times(p.average, Minus(p.quantity, q))
        /\ c = Times(p.average, p.quantity) /\ k = Times(p.average, q)
    <3> HIDE DEF q
    <3> QED BY <1>1, <1>2, PlusType, TimesCommutes DEF Cost
  <2> HIDE DEF q, c, k
  <2> QED BY <1>1, <1>2, <2>1, <2>2, TimesDistributes
<1>8. /\ Times(D, Minus(n, k)) = Minus(Times(D, n), Times(D, k))
      /\ Times(D, Minus(c, k)) = Minus(Times(D, c), Times(D, k))
  <2> HIDE DEF D, n, k, c
  <2> QED BY <1>1, <1>4, <1>5, TimesDistributes
<1>9. l2.inventory = Times(D, p2.quantity)
  <2>1. l2.inventory = Plus(Times(D, p.quantity), Times(Whole(-p.direction), q))
    BY DEF FillBooked, Balanced
  <2>2. /\ Times(D, p.quantity) \in Fractions
        /\ Times(D, Minus(p.quantity, q)) = Minus(Times(D, p.quantity), Times(D, q))
    <3> HIDE DEF D, q
    <3>1. q \in Fractions /\ D \in Fractions /\ p.quantity \in Fractions
      BY <1>1, <1>2, <1>5
    <3>2. Times(D, p.quantity) \in Fractions
      BY <3>1, TimesType
    <3>3. Times(D, Minus(p.quantity, q)) = Minus(Times(D, p.quantity), Times(D, q))
      BY <3>1, TimesDistributes
    <3> QED BY <3>2, <3>3
  <2>3. p2.quantity = Minus(p.quantity, q)
    OBVIOUS
  <2> HIDE DEF D, q
  <2> QED BY <1>5, <2>1, <2>2, <2>3, ExitSize
<1>10. Plus(l2.closedPnl, p2.realized) = Plus(l2.cash, Times(D, Cost(p2)))
  <2>1. Plus(l.closedPnl, p.realized) = Plus(l.cash, Times(D, c))
    BY DEF Balanced
  <2>2. l2.closedPnl = l.closedPnl /\ l2.cash = Minus(l.cash, Minus(Zero, Times(D, n)))
    BY <1>5 DEF FillBooked
  <2> HIDE DEF D, n, c, k
  <2>3. /\ l.closedPnl \in Fractions /\ p.realized \in Fractions /\ l.cash \in Fractions
        /\ Times(D, c) \in Fractions /\ Times(D, n) \in Fractions /\ Times(D, k) \in Fractions
    BY <1>2, <1>3, <1>5
  <2>4. Plus(l.closedPnl, Plus(p.realized, Minus(Times(D, n), Times(D, k))))
          = Plus(Minus(l.cash, Minus(Zero, Times(D, n))), Minus(Times(D, c), Times(D, k)))
    <3>1. Minus(Times(D, n), Times(D, k)) \in Fractions
      BY <2>3, PlusType
    <3>2. Plus(l.closedPnl, Plus(p.realized, Minus(Times(D, n), Times(D, k))))
            = Plus(Plus(l.closedPnl, p.realized), Minus(Times(D, n), Times(D, k)))
      BY <2>3, <3>1, PlusAssociates
    <3>3. Plus(Plus(l.cash, Times(D, c)), Minus(Times(D, n), Times(D, k)))
            = Plus(Minus(l.cash, Minus(Zero, Times(D, n))), Minus(Times(D, c), Times(D, k)))
      BY <2>3, ExitMoney
    <3> QED BY <2>1, <3>2, <3>3
  <2> QED BY <1>6, <1>7, <1>8, <2>2, <2>4
<1>11. l2.fees = Plus(l2.closedFees, p2.fees)
  <2>1. l2.fees = Plus(Plus(l.closedFees, p.fees), fee) /\ l2.closedFees = l.closedFees
    BY DEF FillBooked, Balanced
  <2> QED BY <1>2, <1>3, <2>1, PlusAssociates
<1>12. /\ p2.quantity = Minus(tr2.entryQuantity, tr2.exitQuantity)
       /\ Below(Zero, tr2.entryQuantity) /\ Below(Zero, tr2.exitQuantity)
       /\ AtMost(Zero, tr2.exitQuantity)
  <2>1. /\ p2.quantity = Minus(Minus(tr.entryQuantity, tr.exitQuantity), q)
        /\ tr2.exitQuantity = Plus(tr.exitQuantity, q) /\ tr2.entryQuantity = tr.entryQuantity
        /\ Below(Zero, tr.entryQuantity) /\ AtMost(Zero, tr.exitQuantity)
    BY DEF Balanced, Leaves
  <2>2. Plus(tr.exitQuantity, q) \in Fractions /\ Below(Zero, Plus(tr.exitQuantity, q))
    <3> HIDE DEF q
    <3> QED BY <1>1, <1>3, <2>1, SumSigns, PlusType
  <2> HIDE DEF q
  <2> QED BY <1>1, <1>3, <2>1, <2>2, ExitSize, PositiveIs
<1>13. p2.realized = Times(D, Plus(Minus(tr2.exitNotional, tr2.entryNotional), Cost(p2)))
  <2>1. p.realized = Times(D, Plus(Minus(tr.exitNotional, tr.entryNotional), c))
    BY DEF Balanced
  <2>2. tr2.exitNotional = Plus(tr.exitNotional, n) /\ tr2.entryNotional = tr.entryNotional
    BY DEF Leaves
  <2>3. Plus(Plus(Minus(tr.exitNotional, tr.entryNotional), c), Minus(n, k))
          = Plus(Minus(Plus(tr.exitNotional, n), tr.entryNotional), Minus(c, k))
    <3> HIDE DEF n, c, k
    <3>1. /\ tr.exitNotional \in Fractions /\ tr.entryNotional \in Fractions
          /\ n \in Fractions /\ c \in Fractions /\ k \in Fractions
      BY <1>1, <1>3, <1>4
    <3> QED BY <3>1, ExitProfit
  <2>4. Plus(Minus(tr.exitNotional, tr.entryNotional), c) \in Fractions
    <3> HIDE DEF c
    <3> QED BY <1>3, <1>4, PlusType
  <2>5. Plus(Times(D, Plus(Minus(tr.exitNotional, tr.entryNotional), c)), Times(D, Minus(n, k)))
          = Times(D, Plus(Plus(Minus(tr.exitNotional, tr.entryNotional), c), Minus(n, k)))
    <3> HIDE DEF D, n, c, k
    <3> QED BY <1>5, <1>6, <2>4, TimesDistributes
  <2> HIDE DEF D, n, c, k
  <2> QED BY <1>6, <1>7, <2>1, <2>2, <2>3, <2>5
<1>14. l2.lastExit <= tr2.entryTs /\ tr2.entryTs <= f.ts /\ l2.tradesPnl = l2.closedPnl
  BY <1>1, <1>3 DEF Balanced, FillBooked, Leaves
<1> QED BY <1>9, <1>10, <1>11, <1>12, <1>13, <1>14 DEF Balanced, D

(* The flat position becomes a closed position and a trade.                *)
LEMMA FinishBalances ==
    ASSUME NEW p, NEW tr, NEW l, NEW t \in Int, Balanced(p, tr, l, t),
           p.quantity = Zero, Below(Zero, tr.exitQuantity),
           NEW l2 \in Ledgers,
           l2.inventory = l.inventory, l2.cash = l.cash, l2.fees = l.fees,
           l2.closedPnl = Plus(l.closedPnl, p.realized),
           l2.closedFees = Plus(l.closedFees, p.fees),
           l2.tradesPnl = Plus(l.tradesPnl,
               Times(Whole(p.direction),
                     Times(Minus(Over(tr.exitNotional, tr.exitQuantity),
                                 Over(tr.entryNotional, tr.entryQuantity)),
                           tr.exitQuantity))),
           l2.lastExit = t
    PROVE  Flat(NoTrip, l2, t)
<1> DEFINE D == Whole(p.direction)
<1>1. /\ p.direction \in Directions /\ p.average \in Fractions /\ D \in Fractions
  BY SignedType, ZeroIs DEF Balanced, OpenPositions
<1>2. /\ tr.entryQuantity \in Fractions /\ tr.exitQuantity \in Fractions
      /\ tr.entryNotional \in Fractions /\ tr.exitNotional \in Fractions
      /\ l.cash \in Fractions /\ l.closedPnl \in Fractions
  BY DEF Balanced, Trips, Ledgers
<1>3. Cost(p) = Zero /\ Times(D, Zero) = Zero
  BY <1>1, TimesUnits DEF Cost
<1>4. tr.entryQuantity = tr.exitQuantity /\ tr.exitQuantity # Zero
  <2>1. Minus(tr.entryQuantity, tr.exitQuantity) = Zero
    BY DEF Balanced
  <2>2. Plus(Zero, tr.exitQuantity) = tr.entryQuantity
    BY <1>2, <2>1, MinusUndoesPlus
  <2> QED BY <1>2, <2>2, PlusZero, PositiveIs
<1>5. Times(Minus(Over(tr.exitNotional, tr.exitQuantity), Over(tr.entryNotional, tr.entryQuantity)),
            tr.exitQuantity)
        = Minus(tr.exitNotional, tr.entryNotional)
  <2> DEFINE x == Over(tr.exitNotional, tr.exitQuantity)
             e == Over(tr.entryNotional, tr.exitQuantity)
  <2>1. /\ x \in Fractions /\ Times(tr.exitQuantity, x) = tr.exitNotional
        /\ e \in Fractions /\ Times(tr.exitQuantity, e) = tr.entryNotional
    BY <1>2, <1>4, WorthOfAverage
  <2> HIDE DEF x, e
  <2>2. /\ Minus(x, e) \in Fractions
        /\ Times(Minus(x, e), tr.exitQuantity) = Times(tr.exitQuantity, Minus(x, e))
        /\ Times(tr.exitQuantity, Minus(x, e)) = Minus(tr.exitNotional, tr.entryNotional)
    <3>1. tr.exitQuantity \in Fractions /\ x \in Fractions /\ e \in Fractions
      BY <1>2, <2>1
    <3>2. Minus(x, e) \in Fractions
      BY <3>1, PlusType
    <3>3. Times(Minus(x, e), tr.exitQuantity) = Times(tr.exitQuantity, Minus(x, e))
      BY <3>1, <3>2, TimesCommutes
    <3>4. Times(tr.exitQuantity, Minus(x, e))
            = Minus(Times(tr.exitQuantity, x), Times(tr.exitQuantity, e))
      BY <3>1, TimesDistributes
    <3> QED BY <2>1, <3>2, <3>3, <3>4
  <2> QED BY <1>4, <2>2 DEF x, e
<1>6. p.realized = Times(D, Minus(tr.exitNotional, tr.entryNotional))
  <2>1. p.realized = Times(D, Plus(Minus(tr.exitNotional, tr.entryNotional), Zero))
    BY <1>3 DEF Balanced
  <2> QED BY <1>2, <2>1, PlusType, PlusZero
<1>7. l2.tradesPnl = l2.closedPnl
  BY <1>5, <1>6 DEF Balanced
<1>8. l2.closedPnl = l2.cash
  <2>1. Plus(l.closedPnl, p.realized) = Plus(l.cash, Zero)
    BY <1>3 DEF Balanced
  <2> QED BY <1>2, <2>1, PlusZero
<1>9. l2.inventory = Zero /\ l2.fees = l2.closedFees
  BY <1>3 DEF Balanced
<1> QED BY <1>7, <1>8, <1>9 DEF Flat

-----------------------------------------------------------------------------
(* The locals of run().                                                    *)

Orders == [side : Directions, price : Fractions, quantity : Fractions,
           placed : Int, queueAhead : Fractions]

MakerRecords == [action : Actions, direction : Directions, order : Orders,
                 pending : Pendings, scaleCounted : BOOLEAN, replacementsUsed : Nat]

ExecutionRecords == [action : Actions, arrival : Int, direction : Directions,
                     notional : Fractions, quantity : Fractions]

Locals == [position : OpenPositions \cup {NoPosition},
           maker : MakerRecords \cup {NoMaker},
           execution : ExecutionRecords \cup {NoExecution},
           trip : Trips, ledger : Ledgers, raised : BOOLEAN]

LEMMA LocalsIs ==
    ASSUME NEW r \in Locals
    PROVE  /\ r.position \in OpenPositions \cup {NoPosition}
           /\ r.maker \in MakerRecords \cup {NoMaker}
           /\ r.execution \in ExecutionRecords \cup {NoExecution}
           /\ r.trip \in Trips /\ r.ledger \in Ledgers /\ r.raised \in BOOLEAN
BY DEF Locals

Accounts(r, t) ==
    /\ r.position = NoPosition => Flat(r.trip, r.ledger, t)
    /\ r.position # NoPosition =>
          /\ Balanced(r.position, r.trip, r.ledger, t)
          /\ Below(Zero, r.position.quantity) /\ Below(Zero, r.position.average)

(* What a fill leaves alone.                                               *)
Kept(r, s) ==
    /\ s.maker = r.maker /\ s.execution = r.execution /\ s.raised = r.raised

Modes == {"taker", "maker"}

LEMMA FeeType ==
    ASSUME ValidPolicy(policy), NEW mode \in Modes, NEW x \in Fractions
    PROVE  FeeFor(x, mode) \in Fractions
BY RationalIsFraction, TimesType DEF FeeFor, ValidPolicy, Modes

LEMMA BookFillIs ==
    ASSUME ValidPolicy(policy), NEW r \in Locals, NEW f, IsFill(f), NEW mode \in Modes
    PROVE  /\ BookFill(r, f, mode) \in Locals
           /\ Kept(r, BookFill(r, f, mode))
           /\ BookFill(r, f, mode).position = r.position
           /\ BookFill(r, f, mode).trip = r.trip
           /\ FillBooked(r.ledger, BookFill(r, f, mode).ledger, f, FeeFor(f.notional, mode))
<1> DEFINE x == Times(Whole(f.side), f.quantity)
           y == Times(Whole(f.side), f.notional)
           z == FeeFor(f.notional, mode)
           l2 == [r.ledger EXCEPT !.inventory = Plus(@, x), !.cash = Minus(@, y),
                                  !.fees = Plus(@, z)]
<1>1. /\ f.side \in Directions /\ f.quantity \in Fractions /\ f.notional \in Fractions
  BY DEF IsFill
<1>2. x \in Fractions /\ y \in Fractions /\ z \in Fractions
  BY <1>1, SignedType, FeeType
<1> HIDE DEF x, y, z
<1>3. r.ledger \in Ledgers
  BY LocalsIs
<1>4. /\ r.ledger.inventory \in Fractions /\ r.ledger.cash \in Fractions
      /\ r.ledger.fees \in Fractions
  BY <1>3 DEF Ledgers
<1>5. /\ Plus(r.ledger.inventory, x) \in Fractions /\ Minus(r.ledger.cash, y) \in Fractions
      /\ Plus(r.ledger.fees, z) \in Fractions
  BY <1>2, <1>4, PlusType
<1>6. /\ l2 \in Ledgers
      /\ l2.inventory = Plus(r.ledger.inventory, x)
      /\ l2.cash = Minus(r.ledger.cash, y) /\ l2.fees = Plus(r.ledger.fees, z)
      /\ l2.closedPnl = r.ledger.closedPnl /\ l2.closedFees = r.ledger.closedFees
      /\ l2.tradesPnl = r.ledger.tradesPnl /\ l2.lastExit = r.ledger.lastExit
  BY <1>3, <1>5 DEF Ledgers
<1>7. BookFill(r, f, mode) = [r EXCEPT !.ledger = l2]
  BY <1>3 DEF BookFill, Locals, Ledgers, x, y, z
<1> HIDE DEF l2
<1>8. /\ [r EXCEPT !.ledger = l2] \in Locals
      /\ [r EXCEPT !.ledger = l2].ledger = l2
      /\ [r EXCEPT !.ledger = l2].position = r.position
      /\ [r EXCEPT !.ledger = l2].trip = r.trip
      /\ Kept(r, [r EXCEPT !.ledger = l2])
  BY <1>6 DEF Locals, Kept
<1> QED BY <1>6, <1>7, <1>8 DEF FillBooked, x, y, z

LEMMA AddEntryIs ==
    ASSUME NEW r \in Locals, NEW f, IsFill(f)
    PROVE  /\ AddEntry(r, f) \in Locals
           /\ Kept(r, AddEntry(r, f))
           /\ AddEntry(r, f).position = r.position /\ AddEntry(r, f).ledger = r.ledger
           /\ Enters(r.trip, AddEntry(r, f).trip, f)
           /\ AddEntry(r, f).trip.entryTs = r.trip.entryTs
           /\ AddEntry(r, f).trip.scaleIns = r.trip.scaleIns
<1> DEFINE x == f.quantity
           y == f.notional
           tr2 == [r.trip EXCEPT !.entryQuantity = Plus(@, x), !.entryNotional = Plus(@, y)]
<1>1. x \in Fractions /\ y \in Fractions
  BY DEF IsFill
<1> HIDE DEF x, y
<1>2. r.trip \in Trips
  BY LocalsIs
<1>3. r.trip.entryQuantity \in Fractions /\ r.trip.entryNotional \in Fractions
  BY <1>2 DEF Trips
<1>4. Plus(r.trip.entryQuantity, x) \in Fractions /\ Plus(r.trip.entryNotional, y) \in Fractions
  BY <1>1, <1>3, PlusType
<1>5. /\ tr2 \in Trips
      /\ tr2.entryQuantity = Plus(r.trip.entryQuantity, x)
      /\ tr2.entryNotional = Plus(r.trip.entryNotional, y)
      /\ tr2.exitQuantity = r.trip.exitQuantity /\ tr2.exitNotional = r.trip.exitNotional
      /\ tr2.entryTs = r.trip.entryTs /\ tr2.scaleIns = r.trip.scaleIns
  BY <1>2, <1>4 DEF Trips
<1>6. AddEntry(r, f) = [r EXCEPT !.trip = tr2]
  BY <1>2 DEF AddEntry, Locals, Trips, x, y
<1> HIDE DEF tr2
<1>7. /\ [r EXCEPT !.trip = tr2] \in Locals
      /\ [r EXCEPT !.trip = tr2].trip = tr2
      /\ [r EXCEPT !.trip = tr2].position = r.position
      /\ [r EXCEPT !.trip = tr2].ledger = r.ledger
      /\ Kept(r, [r EXCEPT !.trip = tr2])
  BY <1>5 DEF Locals, Kept
<1> QED BY <1>5, <1>6, <1>7 DEF Enters, x, y

LEMMA OpenIsPosition ==
    ASSUME NEW p \in OpenPositions
    PROVE  p # NoPosition
<1>1. p.direction \in Directions /\ NoPosition.direction = 0
  BY DEF OpenPositions, NoPosition
<1> QED BY <1>1 DEF Directions, Buy, Sell

SameTrip(tr, tr2) ==
    /\ tr2.entryQuantity = tr.entryQuantity /\ tr2.entryNotional = tr.entryNotional
    /\ tr2.exitQuantity = tr.exitQuantity /\ tr2.exitNotional = tr.exitNotional
    /\ tr2.entryTs = tr.entryTs

LEMMA OpenedAccounts ==
    ASSUME ValidPolicy(policy), NEW r \in Locals, NEW t \in Int, Accounts(r, t),
           r.position = NoPosition,
           NEW f, IsFill(f), t <= f.ts, NEW mode \in Modes, NEW s \in Locals,
           s.trip = r.trip, FillBooked(r.ledger, s.ledger, f, FeeFor(f.notional, mode))
    PROVE  /\ Opened(s, f.side, f, mode) \in Locals
           /\ Kept(s, Opened(s, f.side, f, mode))
           /\ Accounts(Opened(s, f.side, f, mode), f.ts)
           /\ Opened(s, f.side, f, mode).position # NoPosition
           /\ Opened(s, f.side, f, mode).position.direction = f.side
           /\ Opened(s, f.side, f, mode).position.quantity = f.quantity
           /\ Opened(s, f.side, f, mode).trip.scaleIns = 0
<1> DEFINE p2 == OpenPosition(f.side, f, mode)
           u == [s EXCEPT !.position = p2, !.trip.entryTs = f.ts]
           v == AddEntry(u, f)
<1>1. /\ f.side \in Directions /\ f.quantity \in Fractions /\ f.notional \in Fractions
      /\ Below(Zero, f.quantity) /\ f.quantity # Zero /\ f.ts \in Int
  BY PositiveIs DEF IsFill
<1>2. FeeFor(f.notional, mode) \in Fractions /\ Over(f.notional, f.quantity) \in Fractions
  BY <1>1, FeeType, WorthOfAverage
<1>3. /\ p2 \in OpenPositions /\ p2.direction = f.side /\ p2.quantity = f.quantity
      /\ p2.average = Over(f.notional, f.quantity) /\ p2.realized = Zero
      /\ p2.fees = FeeFor(f.notional, mode)
  BY <1>1, <1>2, ZeroIs DEF OpenPosition, AveragePrice, OpenPositions
<1> HIDE DEF p2
<1>4. s.trip \in Trips
  BY LocalsIs
<1>5. /\ u \in Locals /\ Kept(s, u) /\ u.position = p2 /\ u.ledger = s.ledger
      /\ u.trip.entryTs = f.ts /\ u.trip.scaleIns = s.trip.scaleIns
      /\ u.trip.entryQuantity = s.trip.entryQuantity /\ u.trip.exitQuantity = s.trip.exitQuantity
      /\ u.trip.entryNotional = s.trip.entryNotional /\ u.trip.exitNotional = s.trip.exitNotional
  BY <1>1, <1>3, <1>4 DEF Locals, Trips, Kept
<1> HIDE DEF u
<1>6. /\ v \in Locals /\ Kept(u, v) /\ v.position = p2 /\ v.ledger = s.ledger
      /\ Enters(u.trip, v.trip, f)
      /\ v.trip.entryTs = f.ts /\ v.trip.scaleIns = s.trip.scaleIns
  BY <1>5, AddEntryIs
<1>7. Enters(r.trip, v.trip, f)
  BY <1>5, <1>6 DEF Enters
<1>8. Flat(r.trip, r.ledger, t)
  BY DEF Accounts
<1> HIDE DEF v
<1>9. v.trip \in Trips /\ v.ledger \in Ledgers
  BY <1>6, LocalsIs
<1>10. Balanced(p2, v.trip, v.ledger, f.ts) /\ Below(Zero, p2.average)
  BY <1>2, <1>3, <1>6, <1>7, <1>8, <1>9, OpenBalances
<1>11. p2 # NoPosition
  BY <1>3, OpenIsPosition
<1>12. Accounts(v, f.ts)
  BY <1>1, <1>3, <1>6, <1>10, <1>11 DEF Accounts
<1>13. Kept(s, v)
  BY <1>5, <1>6 DEF Kept
<1>14. v.trip.scaleIns = 0
  BY <1>6, <1>8, NoTripIs DEF Flat
<1>15. Opened(s, f.side, f, mode) = v
  BY DEF Opened, v, u, p2
<1> QED BY <1>3, <1>6, <1>11, <1>12, <1>13, <1>14, <1>15

LEMMA ScaledAccounts ==
    ASSUME ValidPolicy(policy), NEW r \in Locals, NEW t \in Int, Accounts(r, t),
           r.position # NoPosition,
           NEW f, IsFill(f), t <= f.ts, f.side = r.position.direction,
           NEW mode \in Modes, NEW s \in Locals, s.position = r.position,
           SameTrip(r.trip, s.trip), FillBooked(r.ledger, s.ledger, f, FeeFor(f.notional, mode))
    PROVE  /\ Scaled(s, f, mode) \in Locals
           /\ Kept(s, Scaled(s, f, mode))
           /\ Accounts(Scaled(s, f, mode), f.ts)
           /\ Scaled(s, f, mode).position # NoPosition
           /\ Scaled(s, f, mode).position.direction = r.position.direction
           /\ Scaled(s, f, mode).trip.scaleIns = s.trip.scaleIns
<1> DEFINE p == r.position
           p2 == ScalePosition(p, f, mode)
           u == [s EXCEPT !.position = p2]
           v == AddEntry(u, f)
<1>1. /\ f.quantity \in Fractions /\ f.notional \in Fractions
      /\ Below(Zero, f.quantity) /\ AtMost(Zero, f.quantity) /\ f.ts \in Int
  BY PositiveIs DEF IsFill
<1>2. FeeFor(f.notional, mode) \in Fractions
  BY <1>1, FeeType
<1>3. p \in OpenPositions /\ Below(Zero, p.quantity) /\ Below(Zero, p.average)
  BY DEF Accounts, Balanced
<1>4. /\ p.quantity \in Fractions /\ p.average \in Fractions /\ p.fees \in Fractions
      /\ AtMost(Zero, p.quantity)
  BY <1>3, PositiveIs DEF OpenPositions
<1>5. /\ Plus(p.quantity, f.quantity) \in Fractions /\ Plus(p.quantity, f.quantity) # Zero
      /\ Plus(p.fees, FeeFor(f.notional, mode)) \in Fractions
      /\ Plus(Times(p.quantity, p.average), f.notional) \in Fractions
  <2>1. Plus(p.quantity, f.quantity) \in Fractions /\ Below(Zero, Plus(p.quantity, f.quantity))
    <3> HIDE DEF p
    <3> QED BY <1>1, <1>3, <1>4, PlusType, SumSigns
  <2> HIDE DEF p
  <2> QED BY <1>1, <1>2, <1>4, <2>1, PlusType, TimesType, PositiveIs
<1>6. Over(Plus(Times(p.quantity, p.average), f.notional), Plus(p.quantity, f.quantity)) \in Fractions
  BY <1>5, WorthOfAverage
<1> HIDE DEF p
<1>7. /\ p2 \in OpenPositions /\ p2.direction = p.direction /\ p2.realized = p.realized
      /\ p2.quantity = Plus(p.quantity, f.quantity)
      /\ p2.fees = Plus(p.fees, FeeFor(f.notional, mode))
      /\ p2.average = Over(Plus(Times(p.quantity, p.average), f.notional),
                           Plus(p.quantity, f.quantity))
  BY <1>3, <1>5, <1>6 DEF ScalePosition, OpenPositions
<1> HIDE DEF p2
<1>8. /\ u \in Locals /\ Kept(s, u) /\ u.position = p2 /\ u.ledger = s.ledger
      /\ u.trip = s.trip
  BY <1>7 DEF Locals, Kept
<1> HIDE DEF u
<1>9. /\ v \in Locals /\ Kept(u, v) /\ v.position = p2 /\ v.ledger = s.ledger
      /\ Enters(s.trip, v.trip, f)
      /\ v.trip.entryTs = s.trip.entryTs /\ v.trip.scaleIns = s.trip.scaleIns
  BY <1>8, AddEntryIs
<1> HIDE DEF v
<1>10. Enters(r.trip, v.trip, f) /\ v.trip.entryTs = r.trip.entryTs
  BY <1>9 DEF Enters, SameTrip
<1>11. v.trip \in Trips /\ v.ledger \in Ledgers
  BY <1>9, LocalsIs
<1>12. Balanced(p, r.trip, r.ledger, t) /\ f.side = p.direction
  BY DEF Accounts, p
<1>13. FillBooked(r.ledger, v.ledger, f, FeeFor(f.notional, mode))
  BY <1>9
<1>14. /\ Balanced(p2, v.trip, v.ledger, f.ts)
       /\ Below(Zero, p2.quantity) /\ Below(Zero, p2.average)
  BY <1>2, <1>3, <1>7, <1>10, <1>11, <1>12, <1>13, ScaleBalances
<1>15. p2 # NoPosition
  BY <1>7, OpenIsPosition
<1>16. Accounts(v, f.ts)
  BY <1>9, <1>14, <1>15 DEF Accounts
<1>17. Kept(s, v)
  BY <1>8, <1>9 DEF Kept
<1>18. Scaled(s, f, mode) = v
  BY DEF Scaled, v, u, p2, p
<1> QED BY <1>7, <1>9, <1>15, <1>16, <1>17, <1>18 DEF p

LEMMA FinishIs ==
    ASSUME NEW e \in Locals, e.position # NoPosition, NEW ts \in Int,
           Balanced(e.position, e.trip, e.ledger, ts),
           e.position.quantity = Zero, Below(Zero, e.trip.exitQuantity)
    PROVE  /\ Finish(e, ts) \in Locals
           /\ Kept(e, Finish(e, ts))
           /\ Accounts(Finish(e, ts), ts)
           /\ Finish(e, ts).position = NoPosition
           /\ Finish(e, ts).trip = NoTrip
<1> DEFINE p == e.position
           tr == e.trip
           x == p.realized
           y == p.fees
           z == Times(Whole(p.direction),
                      Times(Minus(Over(tr.exitNotional, tr.exitQuantity),
                                  Over(tr.entryNotional, tr.entryQuantity)),
                            tr.exitQuantity))
           l2 == [e.ledger EXCEPT !.closedPnl = Plus(@, x), !.closedFees = Plus(@, y),
                                  !.tradesPnl = Plus(@, z), !.lastExit = ts]
           u == [e EXCEPT !.ledger = l2, !.position = NoPosition, !.trip = NoTrip]
<1>1. p \in OpenPositions /\ tr \in Trips /\ e.ledger \in Ledgers
  BY DEF Balanced
<1>2. /\ p.direction \in Directions /\ x \in Fractions /\ y \in Fractions
  BY <1>1 DEF OpenPositions
<1>3. /\ tr.exitNotional \in Fractions /\ tr.exitQuantity \in Fractions
      /\ tr.entryNotional \in Fractions /\ tr.entryQuantity \in Fractions
      /\ tr.exitQuantity # Zero /\ tr.entryQuantity # Zero
  <2>1. /\ tr.exitNotional \in Fractions /\ tr.exitQuantity \in Fractions
        /\ tr.entryNotional \in Fractions /\ tr.entryQuantity \in Fractions
    BY <1>1 DEF Trips
  <2>2. Below(Zero, tr.entryQuantity) /\ Below(Zero, tr.exitQuantity)
    BY DEF Balanced
  <2> QED BY <2>1, <2>2, PositiveIs
<1>4. z \in Fractions
  <2> HIDE DEF p, tr
  <2>1. /\ Over(tr.exitNotional, tr.exitQuantity) \in Fractions
        /\ Over(tr.entryNotional, tr.entryQuantity) \in Fractions
    BY <1>3, WorthOfAverage
  <2>2. Minus(Over(tr.exitNotional, tr.exitQuantity), Over(tr.entryNotional, tr.entryQuantity))
          \in Fractions
    BY <2>1, PlusType
  <2>3. Times(Minus(Over(tr.exitNotional, tr.exitQuantity),
                    Over(tr.entryNotional, tr.entryQuantity)), tr.exitQuantity) \in Fractions
    BY <1>3, <2>2, TimesType
  <2> QED BY <1>2, <2>3, SignedType
<1>5. /\ e.ledger.closedPnl \in Fractions /\ e.ledger.closedFees \in Fractions
      /\ e.ledger.tradesPnl \in Fractions
  BY <1>1 DEF Ledgers
<1> HIDE DEF x, y, z
<1>6. /\ Plus(e.ledger.closedPnl, x) \in Fractions /\ Plus(e.ledger.closedFees, y) \in Fractions
      /\ Plus(e.ledger.tradesPnl, z) \in Fractions
  BY <1>2, <1>4, <1>5, PlusType
<1>7. /\ l2 \in Ledgers /\ l2.inventory = e.ledger.inventory /\ l2.cash = e.ledger.cash
      /\ l2.fees = e.ledger.fees /\ l2.closedPnl = Plus(e.ledger.closedPnl, x)
      /\ l2.closedFees = Plus(e.ledger.closedFees, y)
      /\ l2.tradesPnl = Plus(e.ledger.tradesPnl, z) /\ l2.lastExit = ts
  BY <1>1, <1>6 DEF Ledgers
<1>8. Finish(e, ts) = u
  BY <1>1 DEF Finish, Locals, Ledgers, x, y, z
<1> HIDE DEF l2
<1>9. /\ u \in Locals /\ Kept(e, u) /\ u.position = NoPosition /\ u.trip = NoTrip
      /\ u.ledger = l2
  BY <1>7, NoTripIs DEF Locals, Kept
<1> HIDE DEF u
<1>10. Flat(NoTrip, l2, ts)
  BY <1>7, FinishBalances DEF x, y, z
<1> QED BY <1>8, <1>9, <1>10 DEF Accounts

LEMMA ExitedAccounts ==
    ASSUME ValidPolicy(policy), NEW r \in Locals, NEW t \in Int, Accounts(r, t),
           r.position # NoPosition,
           NEW f, IsFill(f), t <= f.ts, f.side = -r.position.direction,
           AtMost(f.quantity, r.position.quantity),
           NEW mode \in Modes, NEW s \in Locals, s.position = r.position,
           s.trip = r.trip, FillBooked(r.ledger, s.ledger, f, FeeFor(f.notional, mode))
    PROVE  /\ Exited(s, f, mode) \in Locals
           /\ Kept(s, Exited(s, f, mode))
           /\ Accounts(Exited(s, f, mode), f.ts)
           /\ f.quantity = r.position.quantity =>
                 /\ Exited(s, f, mode).position = NoPosition
                 /\ Exited(s, f, mode).trip = NoTrip
           /\ f.quantity # r.position.quantity =>
                 /\ Exited(s, f, mode).position # NoPosition
                 /\ Exited(s, f, mode).position.direction = r.position.direction
                 /\ Exited(s, f, mode).position.quantity
                      = Minus(r.position.quantity, f.quantity)
                 /\ Exited(s, f, mode).trip.scaleIns = r.trip.scaleIns
<1> DEFINE p == r.position
           q == f.quantity
           n == f.notional
           p2 == ClosePosition(p, f, mode)
           tr2 == [s.trip EXCEPT !.exitQuantity = Plus(@, q), !.exitNotional = Plus(@, n)]
           e == [s EXCEPT !.position = p2, !.trip = tr2]
           gain == Times(Whole(p.direction), Times(Minus(Over(n, q), p.average), q))
           fee == FeeFor(n, mode)
<1>1. q \in Fractions /\ n \in Fractions /\ Below(Zero, q) /\ q # Zero /\ f.ts \in Int
  BY PositiveIs DEF IsFill
<1>2. fee \in Fractions
  BY <1>1, FeeType
<1>3. p \in OpenPositions /\ Below(Zero, p.average)
  BY DEF Accounts, Balanced
<1>4. /\ p.direction \in Directions /\ p.quantity \in Fractions /\ p.average \in Fractions
      /\ p.fees \in Fractions /\ p.realized \in Fractions
  BY <1>3 DEF OpenPositions
<1>5. gain \in Fractions
  <2> HIDE DEF p, q, n
  <2>1. Over(n, q) \in Fractions
    BY <1>1, WorthOfAverage
  <2>2. Minus(Over(n, q), p.average) \in Fractions
    BY <1>4, <2>1, PlusType
  <2>3. Times(Minus(Over(n, q), p.average), q) \in Fractions
    BY <1>1, <2>2, TimesType
  <2> QED BY <1>4, <2>3, SignedType
<1> HIDE DEF gain, fee
<1>6. /\ Minus(p.quantity, q) \in Fractions /\ Plus(p.realized, gain) \in Fractions
      /\ Plus(p.fees, fee) \in Fractions
  <2> HIDE DEF p, q
  <2> QED BY <1>1, <1>2, <1>4, <1>5, PlusType
<1>7. /\ p2 \in OpenPositions /\ p2.direction = p.direction /\ p2.average = p.average
      /\ p2.quantity = Minus(p.quantity, q)
      /\ p2.realized = Plus(p.realized, gain)
      /\ p2.fees = Plus(p.fees, fee)
  <2> HIDE DEF p
  <2> QED BY <1>3, <1>6 DEF ClosePosition, AveragePrice, OpenPositions, gain, fee
<1> HIDE DEF p2
<1>8. s.trip \in Trips /\ r.trip \in Trips
  BY LocalsIs
<1>9. s.trip.exitQuantity \in Fractions /\ s.trip.exitNotional \in Fractions
  BY <1>8 DEF Trips
<1>10. Plus(s.trip.exitQuantity, q) \in Fractions /\ Plus(s.trip.exitNotional, n) \in Fractions
  <2> HIDE DEF q, n
  <2> QED BY <1>1, <1>9, PlusType
<1>11. /\ tr2 \in Trips
       /\ tr2.exitQuantity = Plus(s.trip.exitQuantity, q)
       /\ tr2.exitNotional = Plus(s.trip.exitNotional, n)
       /\ tr2.entryQuantity = s.trip.entryQuantity /\ tr2.entryNotional = s.trip.entryNotional
       /\ tr2.entryTs = s.trip.entryTs /\ tr2.scaleIns = s.trip.scaleIns
  <2> HIDE DEF q, n
  <2> QED BY <1>8, <1>10 DEF Trips
<1>12. Leaves(r.trip, tr2, f)
  BY <1>11 DEF Leaves
<1>13. Exited(s, f, mode) = IF e.position.quantity = Zero THEN Finish(e, f.ts) ELSE e
  BY <1>8 DEF Exited, Locals, Trips, p2
<1> HIDE DEF tr2
<1>14. /\ e \in Locals /\ Kept(s, e) /\ e.position = p2 /\ e.trip = tr2
       /\ e.ledger = s.ledger
  BY <1>7, <1>11 DEF Locals, Kept
<1> HIDE DEF e
<1>15. Balanced(p, r.trip, r.ledger, t) /\ s.ledger \in Ledgers
  BY LocalsIs DEF Accounts
<1>16. Balanced(p2, tr2, s.ledger, f.ts) /\ Below(Zero, tr2.exitQuantity)
  BY <1>2, <1>7, <1>11, <1>12, <1>15, ExitBalances DEF gain, fee
<1>17. p2 # NoPosition
  BY <1>7, OpenIsPosition
<1>18. /\ p2.quantity \in Fractions /\ AtMost(Zero, p2.quantity)
       /\ p2.quantity = Zero <=> q = p.quantity
  <2>1. Minus(p.quantity, q) \in Fractions /\ AtMost(Zero, Minus(p.quantity, q))
    <3> HIDE DEF p, q
    <3> QED BY <1>1, <1>4, <1>6, OrderByDifference DEF p, q
  <2>2. q = p.quantity => Minus(p.quantity, q) = Zero
    BY <1>1, PlusZero
  <2>3. Minus(p.quantity, q) = Zero => q = p.quantity
    <3>1. Plus(Minus(p.quantity, q), q) = p.quantity /\ Plus(Zero, q) = q
      <4> HIDE DEF p, q
      <4> QED BY <1>1, <1>4, MinusUndoesPlus, PlusZero
    <3> HIDE DEF p, q
    <3> QED BY <3>1
  <2> HIDE DEF p, q
  <2> QED BY <1>7, <2>1, <2>2, <2>3
<1>19. CASE q = p.quantity
  <2>1. /\ Finish(e, f.ts) \in Locals /\ Kept(e, Finish(e, f.ts))
        /\ Accounts(Finish(e, f.ts), f.ts)
        /\ Finish(e, f.ts).position = NoPosition /\ Finish(e, f.ts).trip = NoTrip
    BY <1>1, <1>14, <1>16, <1>17, <1>18, <1>19, FinishIs
  <2>2. Exited(s, f, mode) = Finish(e, f.ts)
    BY <1>13, <1>14, <1>18, <1>19
  <2>3. Kept(s, Finish(e, f.ts))
    BY <1>14, <2>1 DEF Kept
  <2> QED BY <1>19, <2>1, <2>2, <2>3
<1>20. CASE q # p.quantity
  <2>1. Exited(s, f, mode) = e
    BY <1>13, <1>14, <1>18, <1>20
  <2>2. Below(Zero, p2.quantity)
    BY <1>18, <1>20, PositiveIs
  <2>3. Accounts(e, f.ts)
    BY <1>3, <1>7, <1>14, <1>16, <1>17, <2>2 DEF Accounts
  <2>4. e.trip.scaleIns = r.trip.scaleIns
    BY <1>11, <1>14
  <2> QED BY <1>7, <1>14, <1>17, <1>20, <2>1, <2>3, <2>4
<1> QED BY <1>19, <1>20

(* What an order that rests in the book is, whatever it was placed for.    *)
ValidMaker(m) ==
    /\ m \in MakerRecords
    /\ Below(Zero, m.order.price) /\ Below(Zero, m.order.quantity)
    /\ AtMost(Zero, m.order.queueAhead)
    /\ AtMost(Zero, m.pending.remaining) /\ AtMost(Zero, m.pending.queue)
    /\ AtMost(Zero, m.pending.filled)
    /\ m.order.side = IF m.action = "exit" THEN -m.direction ELSE m.direction

LEMMA MakerIs ==
    ASSUME NEW m \in MakerRecords
    PROVE  /\ m # NoMaker
           /\ m.action \in Actions /\ m.direction \in Directions /\ m.order \in Orders
           /\ m.pending \in Pendings /\ m.scaleCounted \in BOOLEAN
           /\ m.replacementsUsed \in Nat
<1>1. m.action \in Actions /\ NoMaker.action = "none"
  BY DEF MakerRecords, NoMaker
<1>2. m # NoMaker
  BY <1>1 DEF Actions
<1> QED BY <1>2 DEF MakerRecords

LEMMA DirectionIs ==
    ASSUME NEW d \in Directions
    PROVE  -d \in Directions /\ -d # d /\ d # 0
<1>1. d = 1 \/ d + 1 = 0
  BY DEF Directions, Buy, Sell
<1>2. d \in Int
  BY DEF Directions, Buy, Sell
<1> QED BY <1>1, <1>2, OppositeSide, ZeroIs

LEMMA PlacedIs ==
    ASSUME ValidPolicy(policy), NEW market, ValidBook(market.book), market.ts \in Int,
           NEW action \in Actions, NEW direction \in Directions,
           NEW quantity \in Fractions, Below(Zero, quantity),
           NEW counted \in BOOLEAN, NEW used \in Nat
    PROVE  LET m == PlaceMaker(action, direction, quantity, market, counted, used) IN
           /\ ValidMaker(m)
           /\ m.action = action /\ m.direction = direction
           /\ m.pending.remaining = quantity
           /\ m.order.placed = market.ts
           /\ m.scaleCounted = counted /\ m.replacementsUsed = used
<1> DEFINE side == IF action = "exit" THEN ExitSide(direction) ELSE EntrySide(direction)
           price == DefaultMakerPrice(market.book, side)
           visible == VisibleQuantityAtPrice(market.book, side, price)
           ahead == Times(visible, policy.queueAheadFraction)
           order == PlaceMakerOrder(market.book, side, quantity, market.ts,
                                    policy.queueAheadFraction)
           m == PlaceMaker(action, direction, quantity, market, counted, used)
<1>1. side \in Directions /\ side = IF action = "exit" THEN -direction ELSE direction
  BY DirectionIs DEF ExitSide, EntrySide
<1> HIDE DEF side
<1>2. /\ price \in Fractions /\ Below(Zero, price)
      /\ visible \in Fractions /\ AtMost(Zero, visible)
  BY <1>1, QuoteIs
<1>3. policy.queueAheadFraction \in Fractions /\ AtMost(Zero, policy.queueAheadFraction)
  BY RationalIsFraction DEF ValidPolicy
<1>4. ahead \in Fractions /\ AtMost(Zero, ahead)
  <2> HIDE DEF visible
  <2> QED BY <1>2, <1>3, TimesType, ProductSigns
<1>5. order = [side |-> side, price |-> price, quantity |-> quantity,
               placed |-> market.ts, queueAhead |-> ahead]
  BY DEF PlaceMakerOrder
<1> HIDE DEF price, ahead, order
<1>6. /\ order \in Orders /\ order.side = side /\ order.price = price
      /\ order.quantity = quantity /\ order.placed = market.ts /\ order.queueAhead = ahead
  BY <1>1, <1>2, <1>4, <1>5 DEF Orders
<1>7. /\ Pending(order) \in Pendings /\ Pending(order).remaining = quantity
      /\ Pending(order).queue = ahead /\ Pending(order).filled = Zero
  BY <1>4, <1>6, ZeroIs DEF Pending, Pendings
<1>8. m = [action |-> action, direction |-> direction, order |-> order,
           pending |-> Pending(order), scaleCounted |-> counted, replacementsUsed |-> used]
  BY DEF PlaceMaker, order, side
<1> HIDE DEF m
<1>9. /\ m \in MakerRecords /\ m.action = action /\ m.direction = direction
      /\ m.order = order /\ m.pending = Pending(order)
      /\ m.scaleCounted = counted /\ m.replacementsUsed = used
  BY <1>6, <1>7, <1>8 DEF MakerRecords
<1>10. AtMost(Zero, quantity) /\ AtMost(Zero, Zero)
  BY PositiveIs
<1>11. ValidMaker(m)
  BY <1>1, <1>2, <1>4, <1>6, <1>7, <1>9, <1>10 DEF ValidMaker
<1> QED BY <1>6, <1>7, <1>9, <1>11 DEF m

-----------------------------------------------------------------------------
(* What is pending fits the position.                                      *)

(* A decision that can be sent.                                            *)
CanSend(r, action, direction, notional, quantity) ==
    /\ action # "exit" => Below(Zero, notional)
    /\ action = "enter" => r.position = NoPosition
    /\ action = "scale_in" =>
          /\ r.position # NoPosition /\ r.position.direction = direction
          /\ r.trip.scaleIns + 1 <= spec.maxScaleIns
    /\ action = "exit" =>
          /\ r.position # NoPosition /\ r.position.direction = direction
          /\ quantity = r.position.quantity

(* An order that rests; what is said of an exit, only while some of it     *)
(* remains.                                                                *)
RestFits(r) ==
    /\ r.maker.action = "enter" =>
          r.position = NoPosition \/ r.position.direction = r.maker.direction
    /\ r.maker.action = "scale_in" =>
          /\ r.position # NoPosition /\ r.position.direction = r.maker.direction
          /\ ~r.maker.scaleCounted => r.trip.scaleIns + 1 <= spec.maxScaleIns
    /\ r.maker.action = "exit" /\ r.maker.pending.remaining # Zero =>
          /\ r.position # NoPosition /\ r.position.direction = r.maker.direction
          /\ r.maker.pending.remaining = r.position.quantity

MakerFits(r) ==
    r.maker # NoMaker =>
        /\ ValidMaker(r.maker) /\ RestFits(r)
        /\ Below(Zero, r.maker.pending.remaining)

LEMMA AccountsLater ==
    ASSUME NEW r, NEW t \in Int, NEW u \in Int, t <= u, Accounts(r, t)
    PROVE  Accounts(r, u)
<1>1. CASE r.position = NoPosition
  <2>1. r.ledger.lastExit \in Int
    BY <1>1 DEF Accounts, Flat, Ledgers
  <2> QED BY <1>1, <2>1 DEF Accounts, Flat
<1>2. CASE r.position # NoPosition
  <2>1. r.trip.entryTs \in Int
    BY <1>2 DEF Accounts, Balanced, Trips
  <2> QED BY <1>2, <2>1 DEF Accounts, Balanced
<1> QED BY <1>1, <1>2

LEMMA TakenIs ==
    ASSUME NEW market, ValidBook(market.book), market.ts \in Int,
           NEW action \in Actions, NEW direction \in Directions,
           NEW notional \in Fractions, NEW quantity \in Fractions,
           action = "exit" => Below(Zero, quantity),
           action # "exit" => Below(Zero, notional)
    PROVE  LET f == Taken(action, direction, notional, quantity, market) IN
           /\ IsFill(f) /\ f.ts = market.ts
           /\ f.side = IF action = "exit" THEN -direction ELSE direction
           /\ action = "exit" => AtMost(f.quantity, quantity)
<1> DEFINE side == IF action = "exit" THEN ExitSide(direction) ELSE EntrySide(direction)
           levels == ExecutionLevels(market.book, side)
           result == IF action = "exit" THEN QuantityOrder(levels, quantity)
                                        ELSE NotionalOrder(levels, notional)
           f == Taken(action, direction, notional, quantity, market)
<1>1. side \in Directions /\ side = IF action = "exit" THEN -direction ELSE direction
  BY DirectionIs DEF ExitSide, EntrySide
<1>2. IsSide(levels)
  BY BookIs DEF ExecutionLevels
<1>3. f = [side |-> side, quantity |-> result.quantity, notional |-> result.notional,
           ts |-> market.ts]
  BY DEF Taken
<1> HIDE DEF levels, side, f
<1>4. /\ result.quantity \in Fractions /\ Below(Zero, result.quantity)
      /\ result.notional \in Fractions /\ Below(Zero, result.notional)
      /\ action = "exit" => AtMost(result.quantity, quantity)
  <2>1. PICK n \in Nat \ {0} : DOMAIN levels = 1 .. n /\ \A i \in 1 .. n : IsLevel(levels[i])
    BY <1>2 DEF IsSide
  <2>2. CASE action = "exit"
    <3>1. /\ QuantityOrder(levels, quantity) \in Sums
          /\ Below(Zero, QuantityOrder(levels, quantity).quantity)
          /\ Below(Zero, QuantityOrder(levels, quantity).notional)
          /\ AtMost(QuantityOrder(levels, quantity).quantity, quantity)
      BY <2>1, <2>2, QuantityTakes
    <3> QED BY <2>2, <3>1 DEF Sums
  <2>3. CASE action # "exit"
    <3>1. /\ NotionalOrder(levels, notional) \in Sums
          /\ Below(Zero, NotionalOrder(levels, notional).quantity)
          /\ Below(Zero, NotionalOrder(levels, notional).notional)
      BY <2>1, <2>3, NotionalTakes
    <3> QED BY <2>3, <3>1 DEF Sums
  <2> QED BY <2>2, <2>3
<1> HIDE DEF result
<1> QED BY <1>1, <1>3, <1>4 DEF IsFill, f

LEMMA TakerFillIs ==
    ASSUME ValidPolicy(policy), spec.maxScaleIns \in Nat,
           NEW r \in Locals, NEW t \in Int, Accounts(r, t),
           r.trip.scaleIns <= spec.maxScaleIns,
           NEW action \in Actions, NEW direction \in Directions,
           NEW notional, NEW quantity, CanSend(r, action, direction, notional, quantity),
           NEW f, IsFill(f), t <= f.ts,
           f.side = IF action = "exit" THEN -direction ELSE direction,
           action = "exit" => AtMost(f.quantity, quantity)
    PROVE  LET u == TakerFill(r, action, direction, f) IN
           /\ u \in Locals /\ Kept(r, u) /\ Accounts(u, f.ts)
           /\ u.trip.scaleIns <= spec.maxScaleIns
<1> DEFINE s == BookFill(r, f, "taker")
<1>0. "taker" \in Modes
  BY DEF Modes
<1>1. /\ s \in Locals /\ Kept(r, s) /\ s.position = r.position /\ s.trip = r.trip
      /\ FillBooked(r.ledger, s.ledger, f, FeeFor(f.notional, "taker"))
  BY <1>0, BookFillIs
<1>2. f.quantity # Zero
  BY PositiveIs DEF IsFill
<1>3. r.trip.scaleIns \in Nat
  BY LocalsIs DEF Trips
<1>5. CASE action = "enter"
  <2> DEFINE v == Opened(s, f.side, f, "taker")
  <2>1. /\ r.position = NoPosition /\ f.side = direction
    BY <1>5 DEF CanSend
  <2>2. /\ v \in Locals /\ Kept(s, v) /\ Accounts(v, f.ts) /\ v.position # NoPosition
        /\ v.trip.scaleIns = 0
    BY <1>0, <1>1, <2>1, OpenedAccounts
  <2>3. TakerFill(r, action, direction, f) = [v EXCEPT !.trip.scaleIns = 0]
    BY <1>2, <1>5, <2>1 DEF TakerFill
  <2> HIDE DEF v, s
  <2>4. v.trip \in Trips
    BY <2>2, LocalsIs
  <2>5. [v EXCEPT !.trip.scaleIns = 0] = v
    BY <2>2, <2>4 DEF Locals, Trips
  <2>6. Kept(r, v)
    BY <1>1, <2>2 DEF Kept
  <2>7. v.trip.scaleIns <= spec.maxScaleIns
    BY <2>2
  <2> QED BY <2>2, <2>3, <2>5, <2>6, <2>7
<1>6. CASE action = "scale_in"
  <2> DEFINE v == Scaled(s, f, "taker")
             u == [v EXCEPT !.trip.scaleIns = @ + 1]
  <2>1. /\ r.position # NoPosition /\ r.position.direction = direction /\ f.side = direction
        /\ r.trip.scaleIns + 1 <= spec.maxScaleIns
    BY <1>6 DEF CanSend
  <2>2. SameTrip(r.trip, s.trip)
    BY <1>1 DEF SameTrip
  <2>3. /\ v \in Locals /\ Kept(s, v) /\ Accounts(v, f.ts) /\ v.position # NoPosition
        /\ v.trip.scaleIns = s.trip.scaleIns
    BY <1>0, <1>1, <2>1, <2>2, ScaledAccounts
  <2>4. ~ScaleRaises(r, f)
    BY <2>1 DEF ScaleRaises, EntrySide
  <2>5. TakerFill(r, action, direction, f) = u
    BY <1>2, <1>6, <2>4 DEF TakerFill
  <2> HIDE DEF v, s
  <2>6. v.trip \in Trips /\ v.trip.scaleIns \in Nat
    BY <2>3, LocalsIs DEF Trips
  <2>7. /\ u \in Locals /\ Kept(v, u) /\ u.position = v.position /\ u.ledger = v.ledger
        /\ u.trip \in Trips /\ SameTrip(v.trip, u.trip)
        /\ u.trip.scaleIns = v.trip.scaleIns + 1
    BY <2>3, <2>6 DEF Locals, Trips, Kept, SameTrip
  <2> HIDE DEF u
  <2>8. Accounts(u, f.ts)
    BY <2>3, <2>7 DEF Accounts, Balanced, SameTrip
  <2>9. u.trip.scaleIns <= spec.maxScaleIns
    BY <1>1, <2>1, <2>3, <2>7
  <2>10. Kept(r, u)
    BY <1>1, <2>3, <2>7 DEF Kept
  <2> QED BY <2>5, <2>7, <2>8, <2>9, <2>10
<1>7. CASE action = "exit"
  <2> DEFINE u == Exited(s, f, "taker")
  <2>1. /\ r.position # NoPosition /\ r.position.direction = direction /\ f.side = -direction
        /\ AtMost(f.quantity, r.position.quantity)
    BY <1>7 DEF CanSend
  <2>2. /\ u \in Locals /\ Kept(s, u) /\ Accounts(u, f.ts)
        /\ f.quantity = r.position.quantity => u.trip = NoTrip
        /\ f.quantity # r.position.quantity => u.trip.scaleIns = r.trip.scaleIns
    BY <1>0, <1>1, <2>1, ExitedAccounts
  <2>3. r.position \in OpenPositions
    BY <2>1, LocalsIs
  <2>4. ~Below(r.position.quantity, f.quantity)
    BY <2>1, <2>3, OrderByDifference DEF OpenPositions, IsFill
  <2>5. ~ExitRaises(r, f)
    BY <2>1, <2>4 DEF ExitRaises, ExitSide
  <2>6. TakerFill(r, action, direction, f) = u
    BY <1>2, <1>7, <2>5 DEF TakerFill
  <2> HIDE DEF u, s
  <2>7. u.trip.scaleIns <= spec.maxScaleIns
    BY <2>2, NoTripIs
  <2>8. Kept(r, u)
    BY <1>1, <2>2 DEF Kept
  <2> QED BY <2>2, <2>6, <2>7, <2>8
<1> QED BY <1>5, <1>6, <1>7 DEF Actions

(* What an order leaves behind, sent at once or after its latency: money   *)
(* and position agree, and an order that rests fits the position.          *)
LEMMA SendIs ==
    ASSUME ValidPolicy(policy), spec.maxScaleIns \in Nat,
           NEW r \in Locals, NEW t \in Int, Accounts(r, t),
           r.trip.scaleIns <= spec.maxScaleIns, r.maker = NoMaker,
           NEW market, ValidBook(market.book), market.ts \in Int, t <= market.ts,
           NEW action \in Actions, NEW direction \in Directions,
           NEW notional \in Fractions, NEW quantity \in Fractions,
           CanSend(r, action, direction, notional, quantity)
    PROVE  LET u == Send(r, action, direction, notional, quantity, market) IN
           /\ u \in Locals /\ u.execution = r.execution /\ u.raised = r.raised
           /\ Accounts(u, market.ts) /\ u.trip.scaleIns <= spec.maxScaleIns
           /\ MakerFits(u)
           /\ u.maker # NoMaker =>
                 u.maker.order.placed = market.ts /\ u.maker.replacementsUsed = 0
<1> DEFINE entries == Over(notional, DefaultMakerPrice(market.book, EntrySide(direction)))
           size == IF action = "exit" THEN quantity ELSE entries
           m == PlaceMaker(action, direction, size, market, FALSE, 0)
           f == Taken(action, direction, notional, quantity, market)
           v == TakerFill(r, action, direction, f)
           u == Send(r, action, direction, notional, quantity, market)
<1>1. u = IF policy.mode[action] = "maker" THEN [r EXCEPT !.maker = m] ELSE v
  BY DEF Send
<1>2. action = "exit" => Below(Zero, quantity)
  BY DEF CanSend, Accounts
<1>3. action # "exit" => Below(Zero, notional)
  BY DEF CanSend
<1>4. size \in Fractions /\ Below(Zero, size)
  <2>1. CASE action = "exit"
    BY <1>2, <2>1
  <2>2. CASE action # "exit"
    <3>1. /\ DefaultMakerPrice(market.book, EntrySide(direction)) \in Fractions
          /\ Below(Zero, DefaultMakerPrice(market.book, EntrySide(direction)))
      BY QuoteIs DEF EntrySide
    <3>2. AtMost(Zero, notional)
      BY <1>3, <2>2, PositiveIs
    <3>3. entries \in Fractions /\ Below(Zero, entries)
      BY <1>3, <2>2, <3>1, <3>2, QuotientSigns
    <3> QED BY <2>2, <3>3
  <2> QED BY <2>1, <2>2
<1> HIDE DEF size, entries
<1>5. CASE policy.mode[action] = "maker"
  <2>1. /\ ValidMaker(m) /\ m.action = action /\ m.direction = direction
        /\ m.pending.remaining = size /\ m.order.placed = market.ts
        /\ m.replacementsUsed = 0
    <3> DEFINE counted == FALSE
               used == 0
    <3>1. counted \in BOOLEAN /\ used \in Nat
      OBVIOUS
    <3> HIDE DEF counted
    <3>2. LET n == PlaceMaker(action, direction, size, market, counted, used) IN
            /\ ValidMaker(n) /\ n.action = action /\ n.direction = direction
            /\ n.pending.remaining = size /\ n.order.placed = market.ts
            /\ n.replacementsUsed = used
      BY <1>4, <3>1, PlacedIs
    <3> QED BY <3>2 DEF counted
  <2> HIDE DEF m
  <2>2. m \in MakerRecords
    BY <2>1 DEF ValidMaker
  <2>3. /\ u \in Locals /\ u.maker = m /\ u.position = r.position /\ u.trip = r.trip
        /\ u.ledger = r.ledger /\ u.execution = r.execution /\ u.raised = r.raised
    BY <1>1, <1>5, <2>2 DEF Locals
  <2> HIDE DEF u
  <2>4. Accounts(u, market.ts)
    <3>1. Accounts(r, market.ts)
      BY AccountsLater
    <3> QED BY <2>3, <3>1 DEF Accounts
  <2>5. RestFits(u)
    <3>1. action = "exit" => size = quantity
      BY DEF size
    <3> QED BY <2>1, <2>3, <3>1 DEF RestFits, CanSend
  <2>6. MakerFits(u)
    BY <1>4, <2>1, <2>3, <2>5 DEF MakerFits
  <2> QED BY <2>1, <2>3, <2>4, <2>6 DEF u
<1>6. CASE policy.mode[action] # "maker"
  <2>1. /\ IsFill(f) /\ f.ts = market.ts
        /\ f.side = IF action = "exit" THEN -direction ELSE direction
        /\ action = "exit" => AtMost(f.quantity, quantity)
    BY <1>2, <1>3, TakenIs
  <2> HIDE DEF f
  <2>2. /\ v \in Locals /\ Kept(r, v) /\ Accounts(v, f.ts)
        /\ v.trip.scaleIns <= spec.maxScaleIns
    BY <2>1, TakerFillIs
  <2>3. v.maker = NoMaker /\ v.execution = r.execution /\ v.raised = r.raised
    BY <2>2 DEF Kept
  <2>4. MakerFits(v)
    BY <2>3 DEF MakerFits
  <2> HIDE DEF v
  <2> QED BY <1>1, <1>6, <2>1, <2>2, <2>3, <2>4
<1> QED BY <1>5, <1>6

-----------------------------------------------------------------------------
(* The order that rests.                                                   *)

(* Only whether the scale-in was counted changes.                          *)
Rested(m, m2) ==
    /\ m2 \in MakerRecords
    /\ m2.action = m.action /\ m2.direction = m.direction /\ m2.order = m.order
    /\ m2.pending = m.pending /\ m2.replacementsUsed = m.replacementsUsed

(* A fill of the resting order that can be booked.                         *)
CanFill(r, f) ==
    /\ f.side = IF r.maker.action = "exit" THEN -r.maker.direction ELSE r.maker.direction
    /\ r.maker.action = "enter" =>
          r.position = NoPosition \/ r.position.direction = r.maker.direction
    /\ r.maker.action = "scale_in" =>
          /\ r.position # NoPosition /\ r.position.direction = r.maker.direction
          /\ ~r.maker.scaleCounted => r.trip.scaleIns + 1 <= spec.maxScaleIns
    /\ r.maker.action = "exit" =>
          /\ r.position # NoPosition /\ r.position.direction = r.maker.direction
          /\ AtMost(f.quantity, r.position.quantity)
          /\ r.maker.pending.remaining = Minus(r.position.quantity, f.quantity)

(* A scale-in is counted with its first fill.                              *)
LEMMA CountedIs ==
    ASSUME NEW s \in Locals, s.maker \in MakerRecords
    PROVE  LET c == [s EXCEPT !.trip.scaleIns = IF s.maker.scaleCounted THEN @ ELSE @ + 1,
                              !.maker.scaleCounted = TRUE] IN
           /\ c \in Locals /\ Rested(s.maker, c.maker) /\ c.maker.scaleCounted
           /\ c.position = s.position /\ c.ledger = s.ledger
           /\ c.execution = s.execution /\ c.raised = s.raised
           /\ SameTrip(s.trip, c.trip)
           /\ c.trip.scaleIns = IF s.maker.scaleCounted THEN s.trip.scaleIns
                                                        ELSE s.trip.scaleIns + 1
<1> DEFINE n == IF s.maker.scaleCounted THEN s.trip.scaleIns ELSE s.trip.scaleIns + 1
           tr == [s.trip EXCEPT !.scaleIns = n]
           m == [s.maker EXCEPT !.scaleCounted = TRUE]
           c == [s EXCEPT !.trip.scaleIns = IF s.maker.scaleCounted THEN @ ELSE @ + 1,
                          !.maker.scaleCounted = TRUE]
<1>1. s.trip \in Trips /\ s.trip.scaleIns \in Nat
  BY LocalsIs DEF Trips
<1>2. n \in Nat
  BY <1>1
<1>3. c = [s EXCEPT !.trip = tr, !.maker = m]
  BY DEF Locals
<1> HIDE DEF n, c
<1>4. tr \in Trips /\ SameTrip(s.trip, tr) /\ tr.scaleIns = n
  BY <1>1, <1>2 DEF Trips, SameTrip
<1>5. Rested(s.maker, m) /\ m.scaleCounted
  BY DEF MakerRecords, Rested
<1> HIDE DEF tr, m
<1>6. m \in MakerRecords
  BY <1>5 DEF Rested
<1>7. /\ c \in Locals /\ c.trip = tr /\ c.maker = m /\ c.position = s.position
      /\ c.ledger = s.ledger /\ c.execution = s.execution /\ c.raised = s.raised
  BY <1>3, <1>4, <1>6 DEF Locals
<1> QED BY <1>4, <1>5, <1>7 DEF c, n

LEMMA MakerFillIs ==
    ASSUME ValidPolicy(policy), spec.maxScaleIns \in Nat,
           NEW r \in Locals, NEW t \in Int, Accounts(r, t),
           r.trip.scaleIns <= spec.maxScaleIns, r.maker # NoMaker,
           NEW f, IsFill(f), t <= f.ts, CanFill(r, f)
    PROVE  LET u == MakerFill(r, f) IN
           /\ u \in Locals /\ u.execution = r.execution /\ u.raised = r.raised
           /\ Accounts(u, f.ts) /\ u.trip.scaleIns <= spec.maxScaleIns
           /\ Rested(r.maker, u.maker) /\ RestFits(u)
<1> DEFINE s == BookFill(r, f, "maker")
           u == MakerFill(r, f)
<1>0. "maker" \in Modes
  BY DEF Modes
<1>1. /\ s \in Locals /\ Kept(r, s) /\ s.position = r.position /\ s.trip = r.trip
      /\ FillBooked(r.ledger, s.ledger, f, FeeFor(f.notional, "maker"))
  BY <1>0, BookFillIs
<1>2. f.quantity # Zero
  BY PositiveIs DEF IsFill
<1>3. r.trip.scaleIns \in Nat /\ r.maker \in MakerRecords /\ s.maker \in MakerRecords
  BY <1>1, LocalsIs DEF Trips, Kept
<1>4. /\ r.maker.action \in Actions /\ r.maker.direction \in Directions
      /\ r.maker.pending.remaining \in Fractions
  BY <1>3, MakerIs DEF Pendings
<1>5. CASE r.maker.action = "enter" /\ r.position = NoPosition
  <2> DEFINE v == Opened(s, f.side, f, "maker")
  <2>1. f.side = r.maker.direction
    BY <1>5 DEF CanFill
  <2>2. /\ v \in Locals /\ Kept(s, v) /\ Accounts(v, f.ts)
        /\ v.position.direction = f.side /\ v.trip.scaleIns = 0
    BY <1>0, <1>1, <1>5, OpenedAccounts
  <2>3. u = v
    BY <1>2, <1>5, <2>1 DEF MakerFill
  <2> HIDE DEF v, s, u
  <2>4. v.maker = r.maker /\ v.execution = r.execution /\ v.raised = r.raised
    BY <1>1, <2>2 DEF Kept
  <2>5. RestFits(v)
    BY <1>5, <2>1, <2>2, <2>4 DEF RestFits
  <2>6. Rested(r.maker, v.maker)
    BY <1>3, <2>4 DEF Rested
  <2>7. v.trip.scaleIns <= spec.maxScaleIns
    BY <2>2
  <2> QED BY <2>2, <2>3, <2>4, <2>5, <2>6, <2>7 DEF u
<1>6. CASE r.maker.action = "enter" /\ r.position # NoPosition
  <2> DEFINE v == Scaled(s, f, "maker")
  <2>1. f.side = r.maker.direction /\ r.position.direction = r.maker.direction
    BY <1>6 DEF CanFill
  <2>2. SameTrip(r.trip, s.trip)
    BY <1>1 DEF SameTrip
  <2>3. /\ v \in Locals /\ Kept(s, v) /\ Accounts(v, f.ts)
        /\ v.position.direction = r.position.direction
        /\ v.trip.scaleIns = s.trip.scaleIns
    BY <1>0, <1>1, <1>6, <2>1, <2>2, ScaledAccounts
  <2>4. ~ScaleRaises(r, f)
    BY <1>6, <2>1 DEF ScaleRaises, EntrySide
  <2>5. u = v
    BY <1>2, <1>6, <2>4 DEF MakerFill
  <2> HIDE DEF v, s, u
  <2>6. v.maker = r.maker /\ v.execution = r.execution /\ v.raised = r.raised
    BY <1>1, <2>3 DEF Kept
  <2>7. RestFits(v)
    BY <1>6, <2>1, <2>3, <2>6 DEF RestFits
  <2>8. Rested(r.maker, v.maker)
    BY <1>3, <2>6 DEF Rested
  <2>9. v.trip.scaleIns <= spec.maxScaleIns
    BY <1>1, <2>3
  <2> QED BY <2>3, <2>5, <2>6, <2>7, <2>8, <2>9 DEF u
<1>7. CASE r.maker.action = "scale_in"
  <2> DEFINE c == [s EXCEPT !.trip.scaleIns = IF s.maker.scaleCounted THEN @ ELSE @ + 1,
                            !.maker.scaleCounted = TRUE]
             v == Scaled(c, f, "maker")
  <2>1. /\ r.position # NoPosition /\ r.position.direction = r.maker.direction
        /\ f.side = r.maker.direction
        /\ ~r.maker.scaleCounted => r.trip.scaleIns + 1 <= spec.maxScaleIns
    BY <1>7 DEF CanFill
  <2>2. s.maker = r.maker
    BY <1>1 DEF Kept
  <2>3. ~ScaleRaises(r, f)
    BY <2>1 DEF ScaleRaises, EntrySide
  <2>4. u = v
    BY <1>2, <1>7, <2>2, <2>3 DEF MakerFill
  <2> HIDE DEF s
  <2>5. /\ c \in Locals /\ Rested(s.maker, c.maker) /\ c.maker.scaleCounted
        /\ c.position = s.position /\ c.ledger = s.ledger
        /\ c.execution = s.execution /\ c.raised = s.raised
        /\ SameTrip(s.trip, c.trip)
        /\ c.trip.scaleIns = IF s.maker.scaleCounted THEN s.trip.scaleIns
                                                     ELSE s.trip.scaleIns + 1
    BY <1>1, <1>3, CountedIs
  <2> HIDE DEF c
  <2>6. /\ c.position = r.position /\ SameTrip(r.trip, c.trip)
        /\ FillBooked(r.ledger, c.ledger, f, FeeFor(f.notional, "maker"))
    BY <1>1, <2>5
  <2>7. /\ v \in Locals /\ Kept(c, v) /\ Accounts(v, f.ts) /\ v.position # NoPosition
        /\ v.position.direction = r.position.direction
        /\ v.trip.scaleIns = c.trip.scaleIns
    BY <1>0, <2>1, <2>5, <2>6, ScaledAccounts
  <2> HIDE DEF v, u
  <2>8. /\ v.maker = c.maker /\ v.execution = r.execution /\ v.raised = r.raised
        /\ Rested(r.maker, v.maker)
    BY <1>1, <2>2, <2>5, <2>7 DEF Kept
  <2>9. v.maker.action = "scale_in" /\ v.maker.direction = r.maker.direction
    BY <1>7, <2>8 DEF Rested
  <2>10. RestFits(v)
    BY <2>1, <2>5, <2>7, <2>8, <2>9 DEF RestFits
  <2>11. v.trip.scaleIns <= spec.maxScaleIns
    BY <1>1, <1>3, <2>1, <2>2, <2>5, <2>7
  <2> QED BY <2>4, <2>7, <2>8, <2>10, <2>11 DEF u
<1>8. CASE r.maker.action = "exit"
  <2> DEFINE v == Exited(s, f, "maker")
  <2>1. /\ r.position # NoPosition /\ r.position.direction = r.maker.direction
        /\ f.side = -r.position.direction
        /\ AtMost(f.quantity, r.position.quantity)
        /\ r.maker.pending.remaining = Minus(r.position.quantity, f.quantity)
    BY <1>8 DEF CanFill
  <2>2. /\ v \in Locals /\ Kept(s, v) /\ Accounts(v, f.ts)
        /\ f.quantity = r.position.quantity => v.trip = NoTrip
        /\ f.quantity # r.position.quantity =>
              /\ v.position # NoPosition
              /\ v.position.direction = r.position.direction
              /\ v.position.quantity = Minus(r.position.quantity, f.quantity)
              /\ v.trip.scaleIns = r.trip.scaleIns
    BY <1>0, <1>1, <2>1, ExitedAccounts
  <2>3. r.position.quantity \in Fractions
    BY <2>1, LocalsIs DEF OpenPositions
  <2>4. ~Below(r.position.quantity, f.quantity)
    BY <2>1, <2>3, OrderByDifference DEF IsFill
  <2>5. ~ExitRaises(r, f)
    BY <2>1, <2>4 DEF ExitRaises, ExitSide
  <2>6. u = v
    BY <1>2, <1>8, <2>5 DEF MakerFill
  <2> HIDE DEF v, s, u
  <2>7. v.maker = r.maker /\ v.execution = r.execution /\ v.raised = r.raised
    BY <1>1, <2>2 DEF Kept
  <2>8. RestFits(v)
    <3>1. CASE f.quantity = r.position.quantity
      <4>1. r.maker.pending.remaining = Zero
        BY <2>1, <2>3, <3>1, PlusZero
      <4> QED BY <1>8, <2>7, <4>1 DEF RestFits
    <3>2. CASE f.quantity # r.position.quantity
      BY <1>8, <2>1, <2>2, <2>7, <3>2 DEF RestFits
    <3> QED BY <3>1, <3>2
  <2>9. Rested(r.maker, v.maker)
    BY <1>3, <2>7 DEF Rested
  <2>10. v.trip.scaleIns <= spec.maxScaleIns
    BY <2>2, NoTripIs
  <2> QED BY <2>2, <2>6, <2>7, <2>8, <2>9, <2>10 DEF u
<1> QED BY <1>4, <1>5, <1>6, <1>7, <1>8 DEF Actions

(* What was filled is missing from what remains.                           *)
LEMMA RestShrinks ==
    ASSUME NEW a \in Fractions, NEW b \in Fractions, NEW c \in Fractions,
           NEW e \in Fractions,
           Plus(a, b) = Plus(c, e)
    PROVE  a = Minus(c, Minus(b, e))
<1>1. PICK d \in Int, u \in Int, v \in Int, w \in Int, x \in Int :
         Over2(a, b, d, u, v) /\ Over2(c, e, d, w, x)
  BY Common4
<1>2. d # 0 /\ Is(a, u, d) /\ Is(b, v, d) /\ Is(c, w, d) /\ Is(e, x, d)
  BY <1>1 DEF Over2
<1>3. Zero \in Fractions /\ Is(Zero, 0, d)
  BY ZeroIs
<1>4. /\ Plus(a, b) \in Fractions
      /\ Is(Plus(a, b), u + v, d) /\ u + v \in Int
  BY <1>2, PlusIs
<1>5. /\ Plus(c, e) \in Fractions
      /\ Is(Plus(c, e), w + x, d) /\ w + x \in Int
  BY <1>2, PlusIs
<1>6. u + v = w + x
  BY <1>2, <1>4, <1>5, SameIs
<1>7. /\ Minus(b, e) \in Fractions
      /\ Is(Minus(b, e), v - x, d) /\ v - x \in Int
  BY <1>2, MinusIs
<1>8. /\ Minus(c, Minus(b, e)) \in Fractions
      /\ Is(Minus(c, Minus(b, e)), w - (v - x), d) /\ w - (v - x) \in Int
  BY <1>2, <1>7, MinusIs
<1>9. u = w - (v - x)
  BY <1>6
<1>10. a = Minus(c, Minus(b, e))
  BY <1>2, <1>8, <1>9, SameIs
<1> QED BY <1>10



(* How the order stands after a snapshot: it rests, it was replaced once   *)
(* more when its time was over, or it is gone.                             *)
LEMMA AdvanceMakerIs ==
    ASSUME ValidPolicy(policy), spec.maxScaleIns \in Nat,
           NEW r \in Locals, NEW t \in Int, Accounts(r, t),
           r.trip.scaleIns <= spec.maxScaleIns, r.maker # NoMaker, MakerFits(r), ~r.raised,
           NEW market, ValidBook(market.book), market.ts \in Int, t <= market.ts,
           NEW trades, NEW n \in Nat, DOMAIN trades = 1 .. n,
           \A i \in 1 .. n : IsTrade(trades[i], t, market.ts)
    PROVE  LET u == AdvanceMaker(r, market, trades) IN
           /\ u \in Locals /\ u.execution = r.execution /\ ~u.raised
           /\ Accounts(u, market.ts) /\ u.trip.scaleIns <= spec.maxScaleIns
           /\ MakerFits(u)
           /\ u.maker # NoMaker =>
                 \/ /\ u.maker.order = r.maker.order
                    /\ u.maker.replacementsUsed = r.maker.replacementsUsed
                    /\ market.ts < r.maker.order.placed + policy.maxAge
                 \/ /\ u.maker.order.placed = market.ts
                    /\ u.maker.replacementsUsed = r.maker.replacementsUsed + 1
                    /\ r.maker.replacementsUsed < policy.maxReplacements
<1> DEFINE m == r.maker
           expiry == m.order.placed + policy.maxAge
           P == AdvancePendingMaker(m.pending, m.order, trades, {expiry})
           delta == Minus(P.filled, m.pending.filled)
           f == [side |-> m.order.side, quantity |-> delta,
                 notional |-> Times(delta, m.order.price), ts |-> P.lastFill]
           q == [r EXCEPT !.maker.pending = P]
           s == MakerFill(q, f)
           u == AdvanceMaker(r, market, trades)
<1>1. /\ ValidMaker(m) /\ RestFits(r) /\ m \in MakerRecords
      /\ Below(Zero, m.pending.remaining)
  BY DEF MakerFits, ValidMaker
<1>2. /\ m.action \in Actions /\ m.direction \in Directions /\ m.order \in Orders
      /\ m.pending \in Pendings /\ m.scaleCounted \in BOOLEAN /\ m.replacementsUsed \in Nat
  BY <1>1, MakerIs
<1>3. /\ m.order.placed \in Int /\ m.order.price \in Fractions /\ m.order.side \in Directions
      /\ policy.maxAge \in Nat
      /\ m.pending.remaining \in Fractions /\ m.pending.filled \in Fractions
  BY <1>2 DEF Orders, Pendings, ValidPolicy
<1>4. /\ AtMost(Zero, m.pending.remaining) /\ AtMost(Zero, m.pending.queue)
      /\ AtMost(Zero, m.pending.filled) /\ Below(Zero, m.order.price)
      /\ m.order.side = IF m.action = "exit" THEN -m.direction ELSE m.direction
  BY <1>1 DEF ValidMaker
<1>5. P \in Pendings /\ Advances(P, m.pending, t, market.ts, {expiry})
  <2>1. {expiry} \in SUBSET Int
    BY <1>3
  <2> HIDE DEF expiry
  <2> QED BY <1>2, <1>4, <2>1, MakerAdvances
<1> HIDE DEF P
<1>6. P.remaining \in Fractions /\ P.filled \in Fractions /\ P.lastFill \in Int
  BY <1>5 DEF Pendings
<1>7. /\ delta \in Fractions
      /\ P.remaining = Minus(m.pending.remaining, delta)
      /\ AtMost(Zero, P.remaining) /\ AtMost(Zero, P.filled) /\ AtMost(Zero, P.queue)
  <2>1. /\ AtMost(Zero, P.remaining) /\ AtMost(Zero, P.queue)
        /\ Plus(P.remaining, P.filled) = Plus(m.pending.remaining, m.pending.filled)
        /\ P.filled = m.pending.filled \/ Below(m.pending.filled, P.filled)
    BY <1>5 DEF Advances
  <2>2. P.remaining = Minus(m.pending.remaining, Minus(P.filled, m.pending.filled))
    BY <1>3, <1>6, <2>1, RestShrinks
  <2>3. delta \in Fractions
    BY <1>3, <1>6, PlusType
  <2>4. AtMost(m.pending.filled, P.filled)
    BY <1>3, <1>4, <1>6, <2>1, OrderByDifference
  <2>5. AtMost(Zero, P.filled)
    BY <1>3, <1>4, <1>6, <2>4, ZeroIs, AtMostChains
  <2> QED BY <2>1, <2>2, <2>3, <2>5
<1>8. /\ q \in Locals /\ q.maker = [m EXCEPT !.pending = P] /\ q.maker \in MakerRecords
      /\ q.position = r.position /\ q.trip = r.trip /\ q.ledger = r.ledger
      /\ q.execution = r.execution /\ q.raised = r.raised
  <2>1. [m EXCEPT !.pending = P] \in MakerRecords
    BY <1>1, <1>5 DEF MakerRecords
  <2>2. q = [r EXCEPT !.maker = [m EXCEPT !.pending = P]]
    BY DEF Locals
  <2> HIDE DEF q
  <2> QED BY <2>1, <2>2 DEF Locals
<1>9. /\ q.maker # NoMaker
      /\ q.maker.action = m.action /\ q.maker.direction = m.direction
      /\ q.maker.order = m.order /\ q.maker.pending = P
      /\ q.maker.scaleCounted = m.scaleCounted
      /\ q.maker.replacementsUsed = m.replacementsUsed
  <2>1. q.maker = [m EXCEPT !.pending = P] /\ q.maker # NoMaker
    BY <1>8, MakerIs
  <2> QED BY <1>1, <2>1 DEF MakerRecords
<1> HIDE DEF q
<1>10. Accounts(q, t)
  BY <1>8 DEF Accounts
<1>11. /\ s \in Locals /\ s.execution = r.execution /\ s.raised = r.raised
       /\ Accounts(s, market.ts) /\ s.trip.scaleIns <= spec.maxScaleIns
       /\ Rested(q.maker, s.maker) /\ RestFits(s)
  <2>1. CASE P.filled = m.pending.filled
    <3>1. delta = Zero /\ P.remaining = m.pending.remaining
      BY <1>3, <1>6, <1>7, <2>1, PlusZero
    <3>2. s = q
      BY <3>1 DEF MakerFill
    <3>3. RestFits(q)
      BY <1>1, <1>8, <1>9, <3>1 DEF RestFits
    <3>4. Accounts(q, market.ts)
      BY <1>10, AccountsLater
    <3>5. Rested(q.maker, q.maker)
      BY <1>8 DEF Rested
    <3> QED BY <1>8, <3>2, <3>3, <3>4, <3>5
  <2>2. CASE P.filled # m.pending.filled
    <3>1. /\ Below(m.pending.filled, P.filled)
          /\ t < P.lastFill /\ P.lastFill <= market.ts
      BY <1>5, <2>2 DEF Advances
    <3>2. Below(Zero, delta)
      BY <1>3, <1>6, <3>1, OrderByDifference
    <3>3. AtMost(Zero, delta) /\ AtMost(Zero, m.order.price)
      BY <1>3, <1>4, <1>7, <3>2, PositiveIs
    <3>4. Times(delta, m.order.price) \in Fractions /\ Below(Zero, Times(delta, m.order.price))
      BY <1>3, <1>4, <1>7, <3>2, <3>3, ProductSigns, TimesType
    <3>5. IsFill(f) /\ f.ts = P.lastFill /\ f.quantity = delta /\ f.side = m.order.side
      BY <1>3, <1>6, <1>7, <3>2, <3>4 DEF IsFill
    <3>6. AtMost(delta, m.pending.remaining)
      BY <1>3, <1>7, OrderByDifference
    <3> HIDE DEF f, delta
    <3>7. CanFill(q, f)
      <4>1. m.action = "exit" =>
              /\ r.position # NoPosition /\ r.position.direction = m.direction
              /\ m.pending.remaining = r.position.quantity
        <5>1. m.pending.remaining # Zero
          BY <1>1, <1>3, PositiveIs
        <5> QED BY <1>1, <5>1 DEF RestFits
      <4>2. m.action = "enter" =>
              r.position = NoPosition \/ r.position.direction = m.direction
        BY <1>1 DEF RestFits
      <4>3. m.action = "scale_in" =>
              /\ r.position # NoPosition /\ r.position.direction = m.direction
              /\ ~m.scaleCounted => r.trip.scaleIns + 1 <= spec.maxScaleIns
        BY <1>1 DEF RestFits
      <4> HIDE DEF m
      <4> QED BY <1>4, <1>7, <1>8, <1>9, <3>5, <3>6, <4>1, <4>2, <4>3 DEF CanFill
    <3>8. /\ s \in Locals /\ s.execution = q.execution /\ s.raised = q.raised
          /\ Accounts(s, f.ts) /\ s.trip.scaleIns <= spec.maxScaleIns
          /\ Rested(q.maker, s.maker) /\ RestFits(s)
      BY <1>6, <1>8, <1>9, <1>10, <3>1, <3>5, <3>7, MakerFillIs
    <3>9. Accounts(s, market.ts)
      BY <1>6, <3>1, <3>5, <3>8, AccountsLater
    <3> QED BY <1>8, <3>8, <3>9
  <2> QED BY <2>1, <2>2
<1>12. u = IF FullyFilled(P) THEN [s EXCEPT !.maker = NoMaker]
           ELSE IF market.ts < expiry THEN s ELSE Expire(s, market)
  BY <1>11 DEF AdvanceMaker, P, q
<1> HIDE DEF s, u
<1>13. /\ s.maker \in MakerRecords /\ s.maker # NoMaker
       /\ s.maker.action = m.action /\ s.maker.direction = m.direction
       /\ s.maker.order = m.order /\ s.maker.pending = P
       /\ s.maker.replacementsUsed = m.replacementsUsed
       /\ s.maker.scaleCounted \in BOOLEAN
  BY <1>9, <1>11, MakerIs DEF Rested
<1>14. [s EXCEPT !.maker = NoMaker] \in Locals /\ MakerFits([s EXCEPT !.maker = NoMaker])
  BY <1>11 DEF Locals, MakerFits
<1>15. Accounts([s EXCEPT !.maker = NoMaker], market.ts)
  BY <1>11 DEF Accounts, Locals
<1>16. CASE FullyFilled(P)
  <2> DEFINE v == [s EXCEPT !.maker = NoMaker]
  <2>1. v.maker = NoMaker /\ v.execution = s.execution /\ v.raised = s.raised /\ v.trip = s.trip
    BY <1>11 DEF Locals
  <2> HIDE DEF v
  <2> QED BY <1>11, <1>12, <1>14, <1>15, <1>16, <2>1 DEF u, v
<1>17. ~FullyFilled(P) => Below(Zero, P.remaining)
  BY <1>6, <1>7, PositiveIs, OrderByDifference, ZeroIs DEF FullyFilled
<1>18. CASE ~FullyFilled(P) /\ market.ts < expiry
  <2>1. ValidMaker(s.maker)
    BY <1>1, <1>7, <1>13 DEF ValidMaker
  <2>2. MakerFits(s)
    BY <1>11, <1>13, <1>17, <1>18, <2>1 DEF MakerFits
  <2> QED BY <1>11, <1>12, <1>13, <1>18, <2>2 DEF u
<1>19. CASE ~FullyFilled(P) /\ ~(market.ts < expiry)
  <2>1. CASE m.replacementsUsed < policy.maxReplacements
    <3> DEFINE o == ReplaceMaker(s.maker, market)
               v == [s EXCEPT !.maker = o]
    <3>1. u = v
      BY <1>12, <1>13, <1>19, <2>1 DEF Expire
    <3>2. /\ ValidMaker(o) /\ o.action = s.maker.action /\ o.direction = s.maker.direction
          /\ o.pending.remaining = s.maker.pending.remaining
          /\ o.order.placed = market.ts
          /\ o.scaleCounted = s.maker.scaleCounted
          /\ o.replacementsUsed = s.maker.replacementsUsed + 1
      <4>1. s.maker.replacementsUsed + 1 \in Nat
        BY <1>2, <1>13
      <4>2. s.maker.action \in Actions /\ s.maker.direction \in Directions
        BY <1>2, <1>13
      <4>3. s.maker.pending.remaining \in Fractions /\ Below(Zero, s.maker.pending.remaining)
        BY <1>6, <1>13, <1>17, <1>19
      <4> QED BY <1>13, <4>1, <4>2, <4>3, PlacedIs DEF ReplaceMaker
    <3> HIDE DEF o
    <3>3. o \in MakerRecords
      BY <3>2 DEF ValidMaker
    <3>4. /\ v \in Locals /\ v.maker = o /\ v.position = s.position /\ v.trip = s.trip
          /\ v.ledger = s.ledger /\ v.execution = s.execution /\ v.raised = s.raised
      BY <1>11, <3>3 DEF Locals
    <3> HIDE DEF v
    <3>5. Accounts(v, market.ts)
      BY <1>11, <3>4 DEF Accounts
    <3>6. RestFits(v)
      BY <1>11, <3>2, <3>4 DEF RestFits
    <3>7. MakerFits(v)
      BY <1>13, <1>17, <1>19, <3>2, <3>4, <3>6 DEF MakerFits
    <3> QED BY <1>11, <1>13, <2>1, <3>1, <3>2, <3>4, <3>5, <3>7 DEF u
  <2>2. CASE ~(m.replacementsUsed < policy.maxReplacements)
    <3> DEFINE v == [s EXCEPT !.maker = NoMaker]
    <3>1. v.maker = NoMaker /\ v.execution = s.execution /\ v.raised = s.raised /\ v.trip = s.trip
      BY <1>11 DEF Locals
    <3>2. u = v
      BY <1>12, <1>13, <1>19, <2>2 DEF Expire
    <3> HIDE DEF v
    <3> QED BY <1>11, <1>14, <1>15, <3>1, <3>2 DEF u, v
  <2> QED BY <2>1, <2>2
<1> QED BY <1>16, <1>18, <1>19

-----------------------------------------------------------------------------
(* The order on its way.                                                   *)

ExecutionFits(r) ==
    r.execution # NoExecution =>
        /\ r.execution \in ExecutionRecords
        /\ CanSend(r, r.execution.action, r.execution.direction,
                   r.execution.notional, r.execution.quantity)

LEMMA ExecutionIs ==
    ASSUME NEW x \in ExecutionRecords
    PROVE  /\ x # NoExecution
           /\ x.action \in Actions /\ x.arrival \in Int /\ x.direction \in Directions
           /\ x.notional \in Fractions /\ x.quantity \in Fractions
<1>1. x.action \in Actions /\ NoExecution.action = "none"
  BY DEF ExecutionRecords, NoExecution
<1>2. x # NoExecution
  BY <1>1 DEF Actions
<1> QED BY <1>2 DEF ExecutionRecords

(* It waits, or it is sent and gone.                                       *)
LEMMA ExecuteIs ==
    ASSUME ValidPolicy(policy), spec.maxScaleIns \in Nat,
           NEW r \in Locals, NEW t \in Int, Accounts(r, t),
           r.trip.scaleIns <= spec.maxScaleIns, r.maker = NoMaker, ~r.raised,
           r.execution # NoExecution, ExecutionFits(r),
           NEW market, ValidBook(market.book), market.ts \in Int, t <= market.ts
    PROVE  LET u == ExecuteDelayed(r, market) IN
           /\ u \in Locals /\ ~u.raised
           /\ Accounts(u, market.ts) /\ u.trip.scaleIns <= spec.maxScaleIns
           /\ MakerFits(u) /\ ExecutionFits(u)
           /\ \/ /\ u.maker = NoMaker /\ u.execution = r.execution
                 /\ market.ts < r.execution.arrival
              \/ /\ u.execution = NoExecution /\ r.execution.arrival <= market.ts
                 /\ u.maker # NoMaker =>
                       u.maker.order.placed = market.ts /\ u.maker.replacementsUsed = 0
<1> DEFINE x == r.execution
           s == Send(r, x.action, x.direction, x.notional, x.quantity, market)
           u == ExecuteDelayed(r, market)
<1>1. /\ x \in ExecutionRecords
      /\ CanSend(r, x.action, x.direction, x.notional, x.quantity)
  BY DEF ExecutionFits
<1>2. /\ x.action \in Actions /\ x.arrival \in Int /\ x.direction \in Directions
      /\ x.notional \in Fractions /\ x.quantity \in Fractions
  BY <1>1, ExecutionIs
<1>3. x.action = "exit" => r.position # NoPosition
  BY <1>1 DEF CanSend
<1>4. CASE ~(market.ts >= x.arrival)
  <2>1. u = r
    BY <1>4 DEF ExecuteDelayed, Arrived
  <2>2. Accounts(r, market.ts) /\ MakerFits(r)
    BY AccountsLater DEF MakerFits
  <2> HIDE DEF u
  <2> QED BY <1>2, <1>4, <2>1, <2>2 DEF u
<1>5. CASE market.ts >= x.arrival
  <2> DEFINE v == [s EXCEPT !.execution = NoExecution]
  <2>1. u = v
    BY <1>3, <1>5 DEF ExecuteDelayed, Arrived
  <2>2. /\ s \in Locals /\ s.execution = r.execution /\ s.raised = r.raised
        /\ Accounts(s, market.ts) /\ s.trip.scaleIns <= spec.maxScaleIns
        /\ MakerFits(s)
        /\ s.maker # NoMaker =>
              s.maker.order.placed = market.ts /\ s.maker.replacementsUsed = 0
    BY <1>1, <1>2, SendIs
  <2> HIDE DEF s, u
  <2>3. /\ v \in Locals /\ v.execution = NoExecution /\ v.maker = s.maker
        /\ v.position = s.position /\ v.trip = s.trip /\ v.ledger = s.ledger
        /\ v.raised = s.raised
    BY <2>2 DEF Locals
  <2> HIDE DEF v
  <2>4. Accounts(v, market.ts) /\ MakerFits(v) /\ ExecutionFits(v)
    BY <2>2, <2>3 DEF Accounts, MakerFits, RestFits, ExecutionFits
  <2> QED BY <1>2, <1>5, <2>1, <2>2, <2>3, <2>4 DEF u
<1> QED BY <1>4, <1>5

-----------------------------------------------------------------------------
(* What the strategy answers.                                              *)

LEMMA MidIs ==
    ASSUME NEW book, ValidBook(book)
    PROVE  MidPrice(book) \in Fractions
<1>1. IsLevel(book.bids[1]) /\ IsLevel(book.asks[1])
  BY BookIs, BestOf
<1>2. Plus(book.bids[1].price, book.asks[1].price) \in Fractions
  BY <1>1, PlusType DEF IsLevel
<1>3. Whole(2) \in Fractions
  BY WholeIs
<1>4. Whole(2) # Zero
  BY DEF Whole, Zero
<1> QED BY <1>2, <1>3, <1>4, OverUndoesTimes DEF MidPrice

LEMMA DepthIs ==
    ASSUME NEW book, ValidBook(book)
    PROVE  /\ BookDepthNotional(book.bids) \in Fractions
           /\ AtMost(Zero, BookDepthNotional(book.bids))
           /\ BookDepthNotional(book.asks) \in Fractions
           /\ AtMost(Zero, BookDepthNotional(book.asks))
<1> SUFFICES ASSUME NEW side, IsSide(side)
             PROVE  /\ BookDepthNotional(side) \in Fractions
                    /\ AtMost(Zero, BookDepthNotional(side))
  BY BookIs
<1>1. PICK n \in Nat \ {0} : DOMAIN side = 1 .. n /\ \A i \in 1 .. n : IsLevel(side[i])
  BY DEF IsSide
<1> QED BY <1>1, DepthPositive

LEMMA SpecIs ==
    ASSUME ValidSpec(spec)
    PROVE  /\ spec.baseOrderNotional \in Fractions /\ Below(Zero, spec.baseOrderNotional)
           /\ spec.scaleOrderMultiplier \in Fractions /\ Below(Zero, spec.scaleOrderMultiplier)
           /\ spec.maxPositionNotional \in Fractions
           /\ spec.maxScaleIns \in Nat
           /\ spec.maxVisibleLiquidityFraction \in Fractions
           /\ AtMost(Zero, spec.maxVisibleLiquidityFraction)
BY RationalIsFraction DEF ValidSpec, IsPositive

(* An order is asked for only while the specification allows another one.  *)
LEMMA NotionalIs ==
    ASSUME ValidSpec(spec), NEW current \in Fractions, NEW index \in Nat
    PROVE  LET x == NextOrderNotional(spec, current, index) IN
           /\ x \in Fractions /\ AtMost(Zero, x)
           /\ x # Zero => index <= spec.maxScaleIns
<1> DEFINE power == Power(spec.scaleOrderMultiplier, index)
           size == Times(spec.baseOrderNotional, power)
           rest == RemainingPositionCapacity(spec, current)
<1>1. power \in Fractions /\ Below(Zero, power)
  BY SpecIs, PowerPositive
<1> HIDE DEF power
<1>2. size \in Fractions /\ AtMost(Zero, size)
  <2>1. AtMost(Zero, power) /\ AtMost(Zero, spec.baseOrderNotional)
    BY <1>1, SpecIs, PositiveIs
  <2> QED BY <1>1, <2>1, SpecIs, TimesType, ProductSigns
<1>3. rest \in Fractions /\ AtMost(Zero, rest)
  <2>1. Minus(spec.maxPositionNotional, current) \in Fractions
    BY SpecIs, PlusType
  <2>2. Zero \in Fractions /\ AtMost(Zero, Zero)
    BY ZeroIs, PositiveIs
  <2> QED BY <2>1, <2>2 DEF RemainingPositionCapacity, Greatest
<1>4. Least(size, rest) \in Fractions /\ AtMost(Zero, Least(size, rest))
  BY <1>2, <1>3, LeastOf
<1>5. spec.maxScaleIns \in Nat
  BY SpecIs
<1>6. NextOrderNotional(spec, current, index)
        = IF index > spec.maxScaleIns THEN Zero ELSE Least(size, rest)
  BY DEF NextOrderNotional, power
<1> HIDE DEF size, rest
<1>7. Zero \in Fractions /\ AtMost(Zero, Zero)
  BY ZeroIs, PositiveIs
<1> QED BY <1>4, <1>5, <1>6, <1>7

LEMMA CapIs ==
    ASSUME ValidSpec(spec), NEW book, ValidBook(book),
           NEW direction \in Int, NEW notional \in Fractions, AtMost(Zero, notional)
    PROVE  LET i == ApplyLiquidityCap(spec, book,
                        [direction |-> direction, notional |-> notional]) IN
           /\ i.direction = direction
           /\ i.notional \in Fractions /\ AtMost(Zero, i.notional)
           /\ i.notional # Zero => notional # Zero
<1> DEFINE depth == Least(BookDepthNotional(book.bids), BookDepthNotional(book.asks))
           cap == Times(spec.maxVisibleLiquidityFraction, depth)
           i == ApplyLiquidityCap(spec, book, [direction |-> direction, notional |-> notional])
<1>1. depth \in Fractions /\ AtMost(Zero, depth)
  BY DepthIs, LeastOf
<1> HIDE DEF depth
<1>2. cap \in Fractions /\ AtMost(Zero, cap)
  BY <1>1, SpecIs, TimesType, ProductSigns
<1>3. Least(notional, cap) \in Fractions /\ AtMost(Zero, Least(notional, cap))
  BY <1>2, LeastOf
<1>4. notional = Zero => Least(notional, cap) = Zero
  BY <1>2 DEF Least
<1>5. \/ i = [direction |-> direction, notional |-> notional]
      \/ i = [direction |-> direction, notional |-> Least(notional, cap)]
  BY DEF ApplyLiquidityCap, depth
<1> HIDE DEF i, cap
<1> QED BY <1>3, <1>4, <1>5 DEF i

Signals == Directions \cup {0}

(* An intent to trade in some direction, for something.                    *)
LEMMA IntentIs ==
    ASSUME ValidSpec(spec), NEW book, ValidBook(book), NEW signal \in Signals,
           NEW current \in Fractions, NEW index \in Nat
    PROVE  LET i == ApplyLiquidityCap(spec, book,
                                      BuildOrderIntent(spec, signal, current, index)) IN
           /\ i.direction = signal
           /\ i.notional \in Fractions /\ AtMost(Zero, i.notional)
           /\ i.notional # Zero => signal \in Directions /\ index <= spec.maxScaleIns
<1> DEFINE n == NextOrderNotional(spec, current, index)
           x == IF signal = 0 THEN Zero ELSE n
           i == ApplyLiquidityCap(spec, book, [direction |-> signal, notional |-> x])
<1>1. /\ n \in Fractions /\ AtMost(Zero, n)
      /\ n # Zero => index <= spec.maxScaleIns
  BY NotionalIs
<1> HIDE DEF n
<1>2. /\ x \in Fractions /\ AtMost(Zero, x)
      /\ x # Zero => signal # 0 /\ index <= spec.maxScaleIns
  BY <1>1, ZeroIs, PositiveIs
<1>3. BuildOrderIntent(spec, signal, current, index) = [direction |-> signal, notional |-> x]
  BY DEF BuildOrderIntent, n
<1> HIDE DEF x
<1>4. signal \in Int
  BY DEF Signals, Directions, Buy, Sell
<1>5. /\ i.direction = signal
      /\ i.notional \in Fractions /\ AtMost(Zero, i.notional)
      /\ i.notional # Zero => x # Zero
  BY <1>2, <1>4, CapIs
<1> HIDE DEF i
<1> QED BY <1>2, <1>3, <1>5 DEF i, Signals

LEMMA AskedIs ==
    ASSUME NEW action \in {"enter", "scale_in"}, NEW i,
           i.notional \in Fractions, AtMost(Zero, i.notional)
    PROVE  LET d == Order(action, i) IN
           /\ d.notional \in Fractions
           /\ \/ d.action = "hold"
              \/ /\ d.action = action /\ d.direction = i.direction
                 /\ Below(Zero, d.notional) /\ i.notional # Zero
<1>1. i.notional # Zero => Below(Zero, i.notional)
  BY PositiveIs
<1>2. Zero \in Fractions
  BY ZeroIs
<1> QED BY <1>1, <1>2 DEF Order, Hold

LEMMA FilteredIs ==
    ASSUME NEW book, NEW signal \in Signals
    PROVE  ApplyEntryFilters(spec, book, signal) \in Signals
BY DEF ApplyEntryFilters, Signals

LEMMA EntryIs ==
    ASSUME ValidSpec(spec), NEW market, ValidBook(market.book), NEW signal \in Signals,
           NEW exits
    PROVE  LET d == Evaluate(spec, market, NoPosition, signal, exits) IN
           /\ d.notional \in Fractions
           /\ \/ d.action = "hold"
              \/ /\ d.action = "enter" /\ d.direction \in Directions
                 /\ Below(Zero, d.notional)
<1> DEFINE filtered == ApplyEntryFilters(spec, market.book, signal)
           i == ApplyLiquidityCap(spec, market.book, BuildOrderIntent(spec, filtered, Zero, 0))
<1>1. filtered \in Signals
  BY FilteredIs
<1>2. Evaluate(spec, market, NoPosition, signal, exits) = Order("enter", i)
  BY DEF Evaluate
<1> HIDE DEF filtered
<1>3. /\ i.direction = filtered
      /\ i.notional \in Fractions /\ AtMost(Zero, i.notional)
      /\ i.notional # Zero => filtered \in Directions
  BY <1>1, ZeroIs, IntentIs
<1> HIDE DEF i
<1>4. LET d == Order("enter", i) IN
           /\ d.notional \in Fractions
           /\ \/ d.action = "hold"
              \/ /\ d.action = "enter" /\ d.direction = i.direction
                 /\ Below(Zero, d.notional) /\ i.notional # Zero
  BY <1>3, AskedIs
<1> QED BY <1>2, <1>3, <1>4

LEMMA ScaleOrExitIs ==
    ASSUME ValidSpec(spec), NEW market, ValidBook(market.book), NEW signal \in Signals,
           NEW exits, NEW p, p # NoPosition, p.direction \in Directions,
           p.notional \in Fractions, p.scaleIns \in Nat
    PROVE  LET d == Evaluate(spec, market, p, signal, exits) IN
           /\ d.notional \in Fractions
           /\ \/ d.action \in {"hold", "exit"}
              \/ /\ d.action = "scale_in" /\ d.direction = p.direction
                 /\ Below(Zero, d.notional) /\ p.scaleIns + 1 <= spec.maxScaleIns
<1> DEFINE filtered == ApplyEntryFilters(spec, market.book, signal)
           kept == IF filtered = p.direction THEN filtered ELSE 0
           i == ApplyLiquidityCap(spec, market.book,
                   BuildOrderIntent(spec, kept, p.notional, p.scaleIns + 1))
           reason == ExitReason(spec, p, market, exits)
           d == Evaluate(spec, market, p, signal, exits)
<1>1. kept \in Signals /\ (kept \in Directions => kept = p.direction)
  BY FilteredIs, DirectionIs DEF Signals
<1>2. d = IF reason # "none" THEN [Hold EXCEPT !.action = "exit", !.reason = reason]
          ELSE Order("scale_in", i)
  BY DEF Evaluate, BuildScaleInIntent
<1>3. reason # "none" => d.action = "exit" /\ d.notional = Zero
  BY <1>2 DEF Hold
<1> HIDE DEF kept, reason, d
<1>4. p.scaleIns + 1 \in Nat
  OBVIOUS
<1>5. /\ i.direction = kept
      /\ i.notional \in Fractions /\ AtMost(Zero, i.notional)
      /\ i.notional # Zero => kept \in Directions /\ p.scaleIns + 1 <= spec.maxScaleIns
  BY <1>1, <1>4, IntentIs
<1> HIDE DEF i
<1>6. LET o == Order("scale_in", i) IN
           /\ o.notional \in Fractions
           /\ \/ o.action = "hold"
              \/ /\ o.action = "scale_in" /\ o.direction = i.direction
                 /\ Below(Zero, o.notional) /\ i.notional # Zero
  BY <1>5, AskedIs
<1> QED BY <1>1, <1>2, <1>3, <1>5, <1>6, ZeroIs DEF d

(* The decision is sent, or on its way, or there is none.                  *)
LEMMA DecideIs ==
    ASSUME ValidSpec(spec), ValidPolicy(policy),
           NEW r \in Locals, NEW t \in Int, Accounts(r, t),
           r.trip.scaleIns <= spec.maxScaleIns, ~r.raised,
           r.maker = NoMaker, r.execution = NoExecution,
           NEW market, ValidBook(market.book), market.ts \in Int, t <= market.ts,
           NEW signal \in Signals, NEW exits
    PROVE  LET u == Decide(r, market, signal, exits) IN
           /\ u \in Locals /\ ~u.raised
           /\ Accounts(u, market.ts) /\ u.trip.scaleIns <= spec.maxScaleIns
           /\ MakerFits(u) /\ ExecutionFits(u)
           /\ \/ /\ u.execution = NoExecution
                 /\ u.maker # NoMaker =>
                       u.maker.order.placed = market.ts /\ u.maker.replacementsUsed = 0
              \/ /\ u.maker = NoMaker /\ u.execution # NoExecution
                 /\ u.execution.arrival = market.ts + policy.latency[u.execution.action]
                 /\ policy.latency[u.execution.action] > 0
<1> DEFINE p == StrategyPosition(r, market)
           d == Evaluate(spec, market, p, signal, exits)
           direction == IF d.action = "exit" THEN r.position.direction ELSE d.direction
           quantity == IF d.action = "exit" THEN r.position.quantity ELSE Zero
           x == [action |-> d.action, arrival |-> ArrivalTs(market.ts, d.action),
                 direction |-> direction, notional |-> d.notional, quantity |-> quantity]
           u == Decide(r, market, signal, exits)
<1>1. spec.maxScaleIns \in Nat
  BY SpecIs
<1>2. r.position # NoPosition =>
        /\ r.position \in OpenPositions
        /\ r.position.direction \in Directions /\ r.position.quantity \in Fractions
  BY LocalsIs DEF OpenPositions
<1>3. /\ d.notional \in Fractions
      /\ \/ d.action = "hold"
         \/ /\ d.action = "enter" /\ r.position = NoPosition
            /\ d.direction \in Directions /\ Below(Zero, d.notional)
         \/ d.action = "exit" /\ r.position # NoPosition
         \/ /\ d.action = "scale_in" /\ r.position # NoPosition
            /\ d.direction = r.position.direction /\ Below(Zero, d.notional)
            /\ r.trip.scaleIns + 1 <= spec.maxScaleIns
  <2>1. CASE r.position = NoPosition
    <3>1. p = NoPosition
      BY <2>1 DEF StrategyPosition
    <3>2. LET o == Evaluate(spec, market, NoPosition, signal, exits) IN
           /\ o.notional \in Fractions
           /\ \/ o.action = "hold"
              \/ /\ o.action = "enter" /\ o.direction \in Directions
                 /\ Below(Zero, o.notional)
      BY EntryIs
    <3> QED BY <2>1, <3>1, <3>2
  <2>2. CASE r.position # NoPosition
    <3>1. p = [direction  |-> r.position.direction,
               entryPrice |-> r.position.average,
               entryTs    |-> r.trip.entryTs,
               notional   |-> PositionNotional(r.position, MidPrice(market.book)),
               scaleIns   |-> r.trip.scaleIns]
      BY <2>2 DEF StrategyPosition
    <3>2. PositionNotional(r.position, MidPrice(market.book)) \in Fractions
      BY <1>2, <2>2, MidIs, TimesType DEF PositionNotional
    <3>3. r.trip.scaleIns \in Nat
      BY LocalsIs DEF Trips
    <3>4. /\ p.direction = r.position.direction /\ p.direction \in Directions
          /\ p.notional \in Fractions /\ p.scaleIns = r.trip.scaleIns
      BY <1>2, <2>2, <3>1, <3>2
    <3>5. p # NoPosition
      BY <3>4, DirectionIs DEF NoPosition
    <3> HIDE DEF p
    <3>6. /\ d.notional \in Fractions
          /\ \/ d.action \in {"hold", "exit"}
             \/ /\ d.action = "scale_in" /\ d.direction = p.direction
                /\ Below(Zero, d.notional) /\ p.scaleIns + 1 <= spec.maxScaleIns
      BY <3>3, <3>4, <3>5, ScaleOrExitIs
    <3> QED BY <2>2, <3>4, <3>6
  <2> QED BY <2>1, <2>2
<1>4. u = IF d.action = "hold" THEN r
          ELSE IF d.action \in {"enter", "scale_in"} /\ ~ValidIntent(d) THEN Raise(r)
          ELSE IF policy.latency[d.action] > 0 THEN [r EXCEPT !.execution = x]
          ELSE Send(r, d.action, direction, d.notional, quantity, market)
  BY DEF Decide
<1> HIDE DEF d, u
<1>5. d.action # "hold" =>
        /\ d.action \in Actions /\ direction \in Directions /\ quantity \in Fractions
        /\ CanSend(r, d.action, direction, d.notional, quantity)
  BY <1>2, <1>3, ZeroIs DEF CanSend, Actions
<1>6. d.action \in {"enter", "scale_in"} => ValidIntent(d)
  BY <1>2, <1>3 DEF ValidIntent, Directions
<1> HIDE DEF direction, quantity
<1>7. CASE d.action = "hold"
  <2>1. u = r
    BY <1>4, <1>7
  <2>2. Accounts(r, market.ts) /\ MakerFits(r) /\ ExecutionFits(r)
    BY AccountsLater DEF MakerFits, ExecutionFits
  <2> QED BY <2>1, <2>2 DEF u
<1>8. CASE d.action # "hold" /\ policy.latency[d.action] > 0
  <2>1. u = [r EXCEPT !.execution = x]
    BY <1>4, <1>6, <1>8
  <2>2. policy.latency[d.action] \in Nat
    BY <1>5, <1>8 DEF ValidPolicy
  <2>3. /\ x \in ExecutionRecords
        /\ x.action = d.action /\ x.direction = direction /\ x.notional = d.notional
        /\ x.quantity = quantity /\ x.arrival = market.ts + policy.latency[d.action]
    BY <1>3, <1>5, <1>8, <2>2 DEF ExecutionRecords, ArrivalTs
  <2> HIDE DEF x
  <2>4. /\ u \in Locals /\ u.execution = x /\ u.maker = NoMaker
        /\ u.position = r.position /\ u.trip = r.trip /\ u.ledger = r.ledger
        /\ u.raised = r.raised
    BY <2>1, <2>3 DEF Locals
  <2>5. Accounts(r, market.ts) /\ x # NoExecution
    BY <2>3, AccountsLater, ExecutionIs
  <2>6. Accounts(u, market.ts) /\ MakerFits(u)
    BY <2>4, <2>5 DEF Accounts, MakerFits
  <2>7. ExecutionFits(u)
    BY <1>5, <1>8, <2>3, <2>4 DEF ExecutionFits, CanSend
  <2> QED BY <1>8, <2>3, <2>4, <2>5, <2>6, <2>7 DEF u
<1>9. CASE d.action # "hold" /\ ~(policy.latency[d.action] > 0)
  <2> DEFINE s == Send(r, d.action, direction, d.notional, quantity, market)
  <2>1. u = s
    BY <1>4, <1>6, <1>9
  <2>2. /\ s \in Locals /\ s.execution = r.execution /\ s.raised = r.raised
        /\ Accounts(s, market.ts) /\ s.trip.scaleIns <= spec.maxScaleIns
        /\ MakerFits(s)
        /\ s.maker # NoMaker =>
              s.maker.order.placed = market.ts /\ s.maker.replacementsUsed = 0
    BY <1>1, <1>3, <1>5, <1>9, SendIs
  <2> HIDE DEF s
  <2>3. ExecutionFits(s)
    BY <2>2 DEF ExecutionFits
  <2> QED BY <2>1, <2>2, <2>3 DEF u
<1> QED BY <1>7, <1>8, <1>9

-----------------------------------------------------------------------------
(* Time.                                                                   *)

LEMMA GreatestOf ==
    ASSUME NEW S \in SUBSET Int, IsFiniteSet(S), S # {}
    PROVE  Max(S) \in S /\ \A y \in S : y <= Max(S)
<1> DEFINE Good == {T \in SUBSET S : T # {} => \E k \in T : \A j \in T : j <= k}
<1>1. ASSUME NEW T \in SUBSET S, \A U \in SUBSET T : U # T => U \in Good
      PROVE  T \in Good
  <2>1. ASSUME T # {} PROVE \E k \in T : \A j \in T : j <= k
    <3>1. PICK x \in T : TRUE
      BY <2>1
    <3>2. CASE T \ {x} = {}
      BY <3>1, <3>2
    <3>3. CASE T \ {x} # {}
      <4>0. T \ {x} \in SUBSET T /\ T \ {x} # T
        BY <3>1
      <4>1. PICK k \in T \ {x} : \A j \in T \ {x} : j <= k
        <5>1. T \ {x} \in Good
          BY <1>1, <4>0
        <5> QED BY <3>3, <5>1
      <4>2. k \in Int /\ x \in Int
        BY <3>1
      <4>3. CASE x <= k
        BY <4>1, <4>3
      <4>4. CASE k <= x
        BY <3>1, <4>1, <4>2, <4>4
      <4> QED BY <4>2, <4>3, <4>4
    <3> QED BY <3>2, <3>3
  <2> QED BY <2>1
<1> HIDE DEF Good
<1>2. S \in Good
  BY <1>1, FiniteInduction
<1>3. \E k \in S : \A j \in S : j <= k
  BY <1>2 DEF Good
<1>4. \E k \in S : \A j \in S : k >= j
  BY <1>3
<1>5. Max(S) \in S /\ \A y \in S : Max(S) >= y
  BY <1>4 DEF Max
<1> QED BY <1>5

LongestStep == Max(Steps)
LongestLatency == Max({policy.latency[a] : a \in Actions})
(* An order that had to travel is sent at the first snapshot after it.     *)
Travel == IF LongestLatency = 0 THEN 0 ELSE LongestLatency + LongestStep - 1
(* A quote lives maxAge, and ends at the first snapshot after that.        *)
QuoteLife == policy.maxAge + LongestStep - 1

LEMMA LimitsAre ==
    ASSUME ValidPolicy(policy)
    PROVE  /\ LongestStep \in Nat \ {0} /\ \A dt \in Steps : dt <= LongestStep
           /\ LongestLatency \in Nat
           /\ \A a \in Actions : policy.latency[a] \in Nat /\ policy.latency[a] <= LongestLatency
           /\ Travel \in Nat /\ QuoteLife \in Nat
           /\ policy.maxAge \in Nat \ {0} /\ policy.maxReplacements \in Nat
<1>1. LongestStep \in Steps /\ \A dt \in Steps : dt <= LongestStep
  BY ReplayAssumption, GreatestOf DEF LongestStep
<1>2. Steps \subseteq Nat \ {0}
  BY ReplayAssumption
<1>3. \A a \in Actions : policy.latency[a] \in Nat
  BY DEF ValidPolicy
<1> DEFINE latencies == {policy.latency[a] : a \in Actions}
<1>4. IsFiniteSet(latencies)
  <2> DEFINE l(a) == policy.latency[a]
  <2>1. latencies = ({l("enter")} \cup {l("scale_in")}) \cup {l("exit")}
    BY DEF Actions
  <2> HIDE DEF l, latencies
  <2>2. IsFiniteSet({l("enter")})
    BY FS_Singleton
  <2>3. IsFiniteSet({l("enter")} \cup {l("scale_in")})
    BY <2>2, FS_AddElement
  <2>4. IsFiniteSet(({l("enter")} \cup {l("scale_in")}) \cup {l("exit")})
    BY <2>3, FS_AddElement
  <2> QED BY <2>1, <2>4
<1>5. latencies # {} /\ latencies \subseteq Nat
  BY <1>3 DEF Actions
<1>6. LongestLatency \in latencies /\ \A y \in latencies : y <= LongestLatency
  <2>1. latencies \in SUBSET Int
    BY <1>5
  <2> QED BY <1>4, <1>5, <2>1, GreatestOf DEF LongestLatency
<1>7. LongestLatency \in Nat /\ \A a \in Actions : policy.latency[a] <= LongestLatency
  BY <1>5, <1>6
<1> HIDE DEF latencies
<1>8. LongestStep \in Nat \ {0}
  BY <1>1, <1>2
<1>9. policy.maxAge \in Nat \ {0} /\ policy.maxReplacements \in Nat
  BY DEF ValidPolicy
<1>10. Travel \in Nat /\ QuoteLife \in Nat
  BY <1>7, <1>8, <1>9 DEF Travel, QuoteLife
<1> QED BY <1>1, <1>3, <1>7, <1>8, <1>9, <1>10

(* How long ago the strategy was last free to decide, at most.             *)
Timing(r, t, free) ==
    /\ ~HadPending(r) => free = t
    /\ r.execution # NoExecution =>
          /\ t < r.execution.arrival
          /\ r.execution.arrival <= free + LongestStep + LongestLatency
          /\ LongestLatency > 0
    /\ r.maker # NoMaker =>
          /\ t < r.maker.order.placed + policy.maxAge
          /\ r.maker.order.placed
               <= free + LongestStep + Travel + r.maker.replacementsUsed * QuoteLife
          /\ r.maker.replacementsUsed <= policy.maxReplacements

(* Everything that holds between two snapshots.                            *)
Holds(r, t, free) ==
    /\ r \in Locals /\ ~r.raised
    /\ Accounts(r, t) /\ r.trip.scaleIns <= spec.maxScaleIns
    /\ MakerFits(r) /\ ExecutionFits(r)
    /\ r.maker = NoMaker \/ r.execution = NoExecution
    /\ Timing(r, t, free)

LEMMA MakerTimes ==
    ASSUME NEW r \in Locals, r.maker # NoMaker
    PROVE  r.maker.order.placed \in Int /\ r.maker.replacementsUsed \in Nat
BY LocalsIs, MakerIs DEF Orders

LEMMA QuoteOutlived ==
    ASSUME NEW t \in Int, NEW dt \in Nat, NEW step \in Nat, dt <= step,
           NEW age \in Nat, NEW placed \in Int, t < placed + age,
           NEW life \in Nat, life = age + step - 1
    PROVE  t + dt <= placed + life
OBVIOUS

(* A snapshot while an order rests.                                        *)
LEMMA RestingHolds ==
    ASSUME ValidPolicy(policy), spec.maxScaleIns \in Nat,
           NEW r, NEW t \in Int, NEW free \in Int, Holds(r, t, free), r.maker # NoMaker,
           NEW dt \in Steps, NEW market, ValidBook(market.book), market.ts = t + dt,
           NEW trades, NEW n \in Nat, DOMAIN trades = 1 .. n,
           \A i \in 1 .. n : IsTrade(trades[i], t, market.ts),
           NEW signal, NEW hasState, NEW exits
    PROVE  LET u == LoopBody(r, market, trades, hasState, signal, exits) IN
           Holds(u, t + dt, IF HadPending(u) THEN free ELSE t + dt)
<1> DEFINE u == AdvanceMaker(r, market, trades)
<1>1. /\ LongestStep \in Nat \ {0} /\ dt \in Nat /\ dt <= LongestStep
      /\ Travel \in Nat /\ QuoteLife \in Nat /\ policy.maxAge \in Nat \ {0}
      /\ policy.maxReplacements \in Nat
  BY LimitsAre, ReplayAssumption
<1>2. /\ r \in Locals /\ ~r.raised /\ Accounts(r, t) /\ r.trip.scaleIns <= spec.maxScaleIns
      /\ MakerFits(r) /\ r.execution = NoExecution /\ Timing(r, t, free)
  BY DEF Holds
<1>3. /\ u \in Locals /\ u.execution = r.execution /\ ~u.raised
      /\ Accounts(u, market.ts) /\ u.trip.scaleIns <= spec.maxScaleIns
      /\ MakerFits(u)
      /\ u.maker # NoMaker =>
            \/ /\ u.maker.order = r.maker.order
               /\ u.maker.replacementsUsed = r.maker.replacementsUsed
               /\ market.ts < r.maker.order.placed + policy.maxAge
            \/ /\ u.maker.order.placed = market.ts
               /\ u.maker.replacementsUsed = r.maker.replacementsUsed + 1
               /\ r.maker.replacementsUsed < policy.maxReplacements
  BY <1>1, <1>2, AdvanceMakerIs
<1> HIDE DEF u
<1>4. LoopBody(r, market, trades, hasState, signal, exits) = u
  BY <1>2, <1>3 DEF LoopBody, ExecuteDelayed, Arrived, HadPending, u
<1>5. r.maker.order.placed \in Int /\ r.maker.replacementsUsed \in Nat
  BY <1>2, MakerTimes
<1>6. /\ t < r.maker.order.placed + policy.maxAge
      /\ r.maker.order.placed
           <= free + LongestStep + Travel + r.maker.replacementsUsed * QuoteLife
      /\ r.maker.replacementsUsed <= policy.maxReplacements
  BY <1>2 DEF Timing
<1>7. CASE u.maker = NoMaker
  <2>1. ~HadPending(u)
    BY <1>2, <1>3, <1>7 DEF HadPending
  <2>2. Timing(u, t + dt, t + dt)
    BY <1>2, <1>3, <1>7 DEF Timing
  <2>3. ExecutionFits(u)
    BY <1>2, <1>3 DEF ExecutionFits
  <2> QED BY <1>3, <1>4, <1>7, <2>1, <2>2, <2>3 DEF Holds
<1>8. CASE u.maker # NoMaker
  <2>1. HadPending(u)
    BY <1>8 DEF HadPending
  <2>2. /\ t + dt < u.maker.order.placed + policy.maxAge
        /\ u.maker.order.placed
             <= free + LongestStep + Travel + u.maker.replacementsUsed * QuoteLife
        /\ u.maker.replacementsUsed <= policy.maxReplacements
    <3>1. CASE /\ u.maker.order = r.maker.order
               /\ u.maker.replacementsUsed = r.maker.replacementsUsed
               /\ market.ts < r.maker.order.placed + policy.maxAge
      BY <1>6, <3>1
    <3>2. CASE /\ u.maker.order.placed = market.ts
               /\ u.maker.replacementsUsed = r.maker.replacementsUsed + 1
               /\ r.maker.replacementsUsed < policy.maxReplacements
      <4> DEFINE used == r.maker.replacementsUsed
                 spent == used * QuoteLife
      <4>1. (used + 1) * QuoteLife = spent + QuoteLife /\ spent \in Int
        <5>1. \A a, b \in Int : (a + 1) * b = a * b + b /\ a * b \in Int
          OBVIOUS
        <5>2. used \in Int /\ QuoteLife \in Int
          BY <1>1, <1>5
        <5> HIDE DEF used
        <5> QED BY <5>1, <5>2
      <4>2. QuoteLife = policy.maxAge + LongestStep - 1
        BY DEF QuoteLife
      <4>3. r.maker.order.placed <= free + LongestStep + Travel + spent
        BY <1>6
      <4> HIDE DEF spent
      <4>4. t + dt <= free + LongestStep + Travel + (spent + QuoteLife)
        <5>1. t < r.maker.order.placed + policy.maxAge
          BY <1>6
        <5>2. t + dt <= r.maker.order.placed + QuoteLife
          BY <1>1, <1>5, <4>2, <5>1, QuoteOutlived
        <5> QED BY <1>1, <1>5, <4>1, <4>3, <5>2
      <4>5. t + dt <= free + LongestStep + Travel + u.maker.replacementsUsed * QuoteLife
        BY <3>2, <4>1, <4>4
      <4>6. t + dt < u.maker.order.placed + policy.maxAge
        BY <1>1, <3>2
      <4>7. u.maker.replacementsUsed <= policy.maxReplacements
        BY <1>1, <1>5, <3>2
      <4> QED BY <3>2, <4>5, <4>6, <4>7
    <3> QED BY <1>3, <1>8, <3>1, <3>2
  <2>3. Timing(u, t + dt, free)
    BY <1>2, <1>3, <2>1, <2>2 DEF Timing
  <2>4. ExecutionFits(u)
    BY <1>2, <1>3 DEF ExecutionFits
  <2> QED BY <1>2, <1>3, <1>4, <2>1, <2>3, <2>4 DEF Holds
<1> QED BY <1>7, <1>8

(* A snapshot while an order is on its way.                                *)
LEMMA TravellingHolds ==
    ASSUME ValidPolicy(policy), spec.maxScaleIns \in Nat,
           NEW r, NEW t \in Int, NEW free \in Int, Holds(r, t, free),
           r.execution # NoExecution,
           NEW dt \in Steps, NEW market, ValidBook(market.book), market.ts = t + dt,
           NEW trades, NEW signal, NEW hasState, NEW exits
    PROVE  LET u == LoopBody(r, market, trades, hasState, signal, exits) IN
           Holds(u, t + dt, IF HadPending(u) THEN free ELSE t + dt)
<1> DEFINE u == ExecuteDelayed(r, market)
           later == IF HadPending(u) THEN free ELSE t + dt
<1>1. /\ LongestStep \in Nat \ {0} /\ dt \in Nat /\ dt <= LongestStep
      /\ Travel \in Nat /\ QuoteLife \in Nat /\ policy.maxAge \in Nat \ {0}
      /\ policy.maxReplacements \in Nat /\ LongestLatency \in Nat
  BY LimitsAre, ReplayAssumption
<1>2. /\ r \in Locals /\ ~r.raised /\ Accounts(r, t) /\ r.trip.scaleIns <= spec.maxScaleIns
      /\ ExecutionFits(r) /\ r.maker = NoMaker /\ Timing(r, t, free)
  BY DEF Holds
<1>3. /\ u \in Locals /\ ~u.raised
      /\ Accounts(u, market.ts) /\ u.trip.scaleIns <= spec.maxScaleIns
      /\ MakerFits(u) /\ ExecutionFits(u)
      /\ \/ /\ u.maker = NoMaker /\ u.execution = r.execution
            /\ market.ts < r.execution.arrival
         \/ /\ u.execution = NoExecution /\ r.execution.arrival <= market.ts
            /\ u.maker # NoMaker =>
                  u.maker.order.placed = market.ts /\ u.maker.replacementsUsed = 0
  BY <1>1, <1>2, ExecuteIs
<1> HIDE DEF u
<1>4. LoopBody(r, market, trades, hasState, signal, exits) = u
  BY <1>2, <1>3 DEF LoopBody, AdvanceMaker, HadPending, u
<1>5. r.execution.arrival \in Int
  BY <1>2, LocalsIs, ExecutionIs
<1>6. /\ t < r.execution.arrival
      /\ r.execution.arrival <= free + LongestStep + LongestLatency
      /\ LongestLatency > 0
  BY <1>2 DEF Timing
<1>7. ~HadPending(u) => later = t + dt
  OBVIOUS
<1>8. HadPending(u) => later = free
  OBVIOUS
<1> HIDE DEF later
<1>9. u.execution # NoExecution =>
          /\ t + dt < u.execution.arrival
          /\ u.execution.arrival <= later + LongestStep + LongestLatency
          /\ LongestLatency > 0
  BY <1>3, <1>6, <1>8 DEF HadPending
<1>10. u.maker # NoMaker =>
          /\ t + dt < u.maker.order.placed + policy.maxAge
          /\ u.maker.order.placed
               <= later + LongestStep + Travel + u.maker.replacementsUsed * QuoteLife
          /\ u.maker.replacementsUsed <= policy.maxReplacements
  <2> SUFFICES ASSUME u.maker # NoMaker
               PROVE  /\ t + dt < u.maker.order.placed + policy.maxAge
                      /\ u.maker.order.placed
                           <= later + LongestStep + Travel + u.maker.replacementsUsed * QuoteLife
                      /\ u.maker.replacementsUsed <= policy.maxReplacements
    OBVIOUS
  <2>1. u.maker.order.placed = t + dt /\ u.maker.replacementsUsed = 0
    BY <1>3
  <2>2. later = free
    BY <1>8 DEF HadPending
  <2>3. Travel = LongestLatency + LongestStep - 1
    BY <1>6 DEF Travel
  <2>4. 0 * QuoteLife = 0
    BY <1>1
  <2>5. t + dt <= free + LongestStep + Travel
    BY <1>1, <1>5, <1>6, <2>3
  <2> QED BY <1>1, <2>1, <2>2, <2>4, <2>5
<1>11. Timing(u, t + dt, later)
  BY <1>7, <1>9, <1>10 DEF Timing
<1>12. u.maker = NoMaker \/ u.execution = NoExecution
  BY <1>3
<1>13. Holds(u, t + dt, later)
  BY <1>3, <1>11, <1>12 DEF Holds
<1> QED BY <1>4, <1>13 DEF later

(* A snapshot that finds nothing pending.                                  *)
LEMMA FreeHolds ==
    ASSUME ValidSpec(spec), ValidPolicy(policy),
           NEW r, NEW t \in Int, NEW free \in Int, Holds(r, t, free), ~HadPending(r),
           NEW dt \in Steps, NEW market, ValidBook(market.book), market.ts = t + dt,
           NEW trades, NEW signal \in Signals, NEW hasState, NEW exits
    PROVE  LET u == LoopBody(r, market, trades, hasState, signal, exits) IN
           Holds(u, t + dt, IF HadPending(u) THEN free ELSE t + dt)
<1> DEFINE u == Decide(r, market, signal, exits)
<1>1. /\ LongestStep \in Nat \ {0} /\ dt \in Nat /\ dt <= LongestStep
      /\ Travel \in Nat /\ QuoteLife \in Nat /\ policy.maxAge \in Nat \ {0}
      /\ policy.maxReplacements \in Nat /\ LongestLatency \in Nat
  BY LimitsAre, ReplayAssumption
<1>2. /\ r \in Locals /\ ~r.raised /\ Accounts(r, t) /\ r.trip.scaleIns <= spec.maxScaleIns
      /\ MakerFits(r) /\ ExecutionFits(r) /\ Timing(r, t, free)
      /\ r.maker = NoMaker /\ r.execution = NoExecution
  BY DEF Holds, HadPending
<1>3. free = t
  BY <1>2 DEF Timing
<1>4. LoopBody(r, market, trades, hasState, signal, exits) = IF ~hasState THEN r ELSE u
  BY <1>2 DEF LoopBody, AdvanceMaker, ExecuteDelayed, Arrived
<1>5. /\ u \in Locals /\ ~u.raised
      /\ Accounts(u, market.ts) /\ u.trip.scaleIns <= spec.maxScaleIns
      /\ MakerFits(u) /\ ExecutionFits(u)
      /\ \/ /\ u.execution = NoExecution
            /\ u.maker # NoMaker =>
                  u.maker.order.placed = market.ts /\ u.maker.replacementsUsed = 0
         \/ /\ u.maker = NoMaker /\ u.execution # NoExecution
            /\ u.execution.arrival = market.ts + policy.latency[u.execution.action]
            /\ policy.latency[u.execution.action] > 0
  BY <1>1, <1>2, DecideIs
<1> HIDE DEF u
<1>6. Holds(r, t + dt, t + dt)
  <2>1. Accounts(r, t + dt)
    BY <1>1, <1>2, AccountsLater
  <2>2. Timing(r, t + dt, t + dt)
    BY <1>2 DEF Timing
  <2> QED BY <1>2, <2>1, <2>2 DEF Holds
<1>7. Holds(u, t + dt, IF HadPending(u) THEN free ELSE t + dt)
  <2>1. CASE u.execution # NoExecution
    <3>1. HadPending(u) /\ u.maker = NoMaker
      BY <1>5, <2>1 DEF HadPending
    <3>2. u.execution.action \in Actions
      BY <1>5, <2>1, LocalsIs, ExecutionIs
    <3>3. /\ policy.latency[u.execution.action] \in Nat
          /\ policy.latency[u.execution.action] <= LongestLatency
      BY <3>2, LimitsAre
    <3>4. /\ t + dt < u.execution.arrival
          /\ u.execution.arrival <= free + LongestStep + LongestLatency
          /\ LongestLatency > 0
      BY <1>1, <1>3, <1>5, <2>1, <3>3
    <3>5. Timing(u, t + dt, free)
      BY <3>1, <3>4 DEF Timing
    <3> QED BY <1>5, <3>1, <3>5 DEF Holds
  <2>2. CASE u.execution = NoExecution /\ u.maker # NoMaker
    <3>1. HadPending(u)
      BY <2>2 DEF HadPending
    <3>2. u.maker.order.placed = t + dt /\ u.maker.replacementsUsed = 0
      BY <1>5, <2>2
    <3>3. 0 * QuoteLife = 0
      BY <1>1
    <3>4. t + dt <= free + LongestStep + Travel
      BY <1>1, <1>3
    <3>5. /\ t + dt < u.maker.order.placed + policy.maxAge
          /\ u.maker.order.placed
               <= free + LongestStep + Travel + u.maker.replacementsUsed * QuoteLife
          /\ u.maker.replacementsUsed <= policy.maxReplacements
      BY <1>1, <3>2, <3>3, <3>4
    <3>6. Timing(u, t + dt, free)
      BY <2>2, <3>1, <3>5 DEF Timing
    <3> QED BY <1>5, <2>2, <3>1, <3>6 DEF Holds
  <2>3. CASE u.execution = NoExecution /\ u.maker = NoMaker
    <3>1. ~HadPending(u)
      BY <2>3 DEF HadPending
    <3>2. Timing(u, t + dt, t + dt)
      BY <2>3 DEF Timing
    <3> QED BY <1>5, <2>3, <3>1, <3>2 DEF Holds
  <2> QED BY <2>1, <2>2, <2>3
<1>8. ~HadPending(r)
  OBVIOUS
<1>9. CASE hasState
  BY <1>4, <1>7, <1>9
<1>10. CASE ~hasState
  BY <1>4, <1>6, <1>8, <1>10
<1> QED BY <1>9, <1>10

-----------------------------------------------------------------------------
(* The invariant.                                                          *)

ReplayInv ==
    /\ spec \in Specs /\ policy \in Policies
    /\ clock \in Int /\ lastFree \in Int
    /\ Holds(locals, clock, lastFree)

LEMMA TradesAre ==
    ASSUME NEW from \in Int, NEW to \in Int, NEW trades \in Trades(from, to)
    PROVE  \E n \in Nat : /\ DOMAIN trades = 1 .. n
                          /\ \A i \in 1 .. n : IsTrade(trades[i], from, to)
<1>1. CASE trades = <<>>
  <2>1. DOMAIN trades = 1 .. 0
    BY <1>1
  <2>2. \A i \in 1 .. 0 : IsTrade(trades[i], from, to)
    OBVIOUS
  <2> QED BY <2>1, <2>2
<1>2. CASE trades # <<>>
  <2>1. PICK n \in 1 .. MaxTrades :
          trades \in [1 .. n -> [ts : (from + 1) .. to, side : {Buy, Sell},
                                 price : TradePrices, quantity : TradeQuantities]]
    BY <1>2 DEF Trades
  <2>2. ASSUME NEW i \in 1 .. n PROVE IsTrade(trades[i], from, to)
    <3>1. trades[i] \in [ts : (from + 1) .. to, side : {Buy, Sell},
                         price : TradePrices, quantity : TradeQuantities]
      BY <2>1
    <3>2. trades[i].ts \in (from + 1) .. to /\ trades[i].quantity \in TradeQuantities
      BY <3>1
    <3>3. IsPositive(trades[i].quantity)
      BY <3>2, ReplayAssumption
    <3>4. trades[i].quantity \in Fractions /\ Below(Zero, trades[i].quantity)
      BY <3>3, RationalIsFraction DEF IsPositive
    <3> QED BY <3>2, <3>4 DEF IsTrade
  <2>3. n \in Nat /\ DOMAIN trades = 1 .. n
    BY <2>1, ReplayAssumption
  <2> QED BY <2>2, <2>3
<1> QED BY <1>1, <1>2

LEMMA HoldsConstructed ==
    ASSUME NEW r, NEW t, NEW free, Holds(r, t, free)
    PROVE  Constructed(r)
<1>1. r.position # NoPosition => ValidPosition(r.position)
  BY DEF Holds, Accounts, Balanced, OpenPositions, ValidPosition, Directions
<1>2. r.maker # NoMaker => ValidMakerOrder(r.maker.order) /\ ValidPending(r.maker.pending)
  BY DEF Holds, MakerFits, ValidMaker, ValidMakerOrder, ValidPending
<1> QED BY <1>1, <1>2 DEF Constructed

LEMMA InitHolds == Init => ReplayInv
<1> SUFFICES ASSUME Init PROVE ReplayInv
  OBVIOUS
<1>1. /\ locals.position = NoPosition /\ locals.maker = NoMaker
      /\ locals.execution = NoExecution /\ locals.trip = NoTrip
      /\ locals.ledger = EmptyLedger /\ locals.raised = FALSE
      /\ clock = 0 /\ lastFree = 0 /\ spec \in Specs /\ policy \in Policies
  BY DEF Init, locals
<1>2. EmptyLedger \in Ledgers
  BY ZeroIs DEF EmptyLedger, Ledgers
<1>3. Flat(NoTrip, EmptyLedger, 0)
  BY <1>2 DEF Flat, EmptyLedger
<1>4. locals \in Locals
  BY <1>1, <1>2, NoTripIs DEF Locals, locals
<1>5. ValidSpec(spec)
  BY <1>1, ReplayAssumption
<1>6. locals.trip.scaleIns <= spec.maxScaleIns
  BY <1>1, <1>5, SpecIs, NoTripIs
<1> HIDE DEF locals
<1>7. Accounts(locals, clock) /\ MakerFits(locals) /\ ExecutionFits(locals)
  BY <1>1, <1>3 DEF Accounts, MakerFits, ExecutionFits
<1>8. Timing(locals, clock, lastFree)
  BY <1>1 DEF Timing
<1> QED BY <1>1, <1>4, <1>6, <1>7, <1>8 DEF ReplayInv, Holds

(* The loop body, whatever was pending when the snapshot came.             *)
LEMMA BodyHolds ==
    ASSUME ReplayInv, NEW dt \in Steps, NEW market, ValidBook(market.book),
           market.ts = clock + dt,
           NEW trades, maker # NoMaker => trades \in Trades(clock, clock + dt),
           NEW signal \in Signals, NEW hasState, NEW exits
    PROVE  LET u == LoopBody(locals, market, trades, hasState, signal, exits) IN
           Holds(u, clock + dt, IF HadPending(u) THEN lastFree ELSE clock + dt)
<1>1. /\ ValidSpec(spec) /\ ValidPolicy(policy)
      /\ clock \in Int /\ lastFree \in Int /\ Holds(locals, clock, lastFree)
  BY ReplayAssumption DEF ReplayInv
<1>2. spec.maxScaleIns \in Nat /\ locals.maker = maker
  BY <1>1, SpecIs DEF locals
<1> HIDE DEF locals
<1>3. CASE locals.maker # NoMaker
  <2>1. clock + dt \in Int
    BY <1>1, ReplayAssumption
  <2>2. PICK n \in Nat : /\ DOMAIN trades = 1 .. n
                         /\ \A i \in 1 .. n : IsTrade(trades[i], clock, clock + dt)
    BY <1>1, <1>2, <1>3, <2>1, TradesAre
  <2> QED BY <1>1, <1>2, <1>3, <2>2, RestingHolds
<1>4. CASE locals.execution # NoExecution
  BY <1>1, <1>2, <1>4, TravellingHolds
<1>5. CASE locals.maker = NoMaker /\ locals.execution = NoExecution
  <2>1. ~HadPending(locals)
    BY <1>5 DEF HadPending
  <2> QED BY <1>1, <2>1, FreeHolds
<1> QED BY <1>3, <1>4, <1>5

(* Only the configuration is looked at besides the arguments.              *)
LEMMA HoldsStays ==
    ASSUME NEW r, NEW t, NEW free, Holds(r, t, free), spec' = spec, policy' = policy
    PROVE  Holds(r, t, free)'
<1>1. MakerFits(r)' <=> MakerFits(r)
  BY DEF MakerFits, RestFits
<1>2. ExecutionFits(r)' <=> ExecutionFits(r)
  BY DEF ExecutionFits, CanSend
<1>3. Timing(r, t, free)' <=> Timing(r, t, free)
  BY DEF Timing, Travel, QuoteLife, LongestStep, LongestLatency
<1> QED BY <1>1, <1>2, <1>3 DEF Holds

LEMMA SnapshotHolds ==
    ASSUME ReplayInv, NEW dt \in Steps, NEW book \in Books,
           NEW trades, maker # NoMaker => trades \in Trades(clock, clock + dt),
           NEW signal \in Signals, NEW hasState, NEW exits,
           Snapshot(dt, book, trades, hasState, signal, exits)
    PROVE  ReplayInv'
<1> DEFINE market == [book |-> book, ts |-> clock + dt]
           u == LoopBody(locals, market, trades, hasState, signal, exits)
           free == IF HadPending(u) THEN lastFree ELSE clock + dt
<1>1. ValidBook(market.book) /\ market.ts = clock + dt
  BY ReplayAssumption
<1>2. clock \in Int /\ lastFree \in Int /\ clock + dt \in Int
  BY ReplayAssumption DEF ReplayInv
<1>3. /\ clock' = clock + dt
      /\ position' = u.position /\ maker' = u.maker /\ execution' = u.execution
      /\ trip' = u.trip /\ ledger' = u.ledger
      /\ raised' = (u.raised \/ ~Constructed(u))
      /\ lastFree' = free /\ spec' = spec /\ policy' = policy
  BY DEF Snapshot
<1> HIDE DEF market
<1>4. Holds(u, clock + dt, free)
  BY <1>1, BodyHolds
<1> HIDE DEF u
<1>5. free \in Int
  BY <1>2
<1> HIDE DEF free
<1>6. Constructed(u) /\ u \in Locals /\ ~u.raised
  BY <1>4, HoldsConstructed DEF Holds
<1>7. raised' = FALSE /\ u.raised = FALSE
  BY <1>3, <1>6 DEF Locals
<1>8. locals' = u
  BY <1>3, <1>6, <1>7 DEF Locals, locals
<1>9. Holds(locals, clock, lastFree)'
  <2>1. PICK v, t, f : v = u /\ t = clock + dt /\ f = free
    OBVIOUS
  <2>2. Holds(v, t, f)'
    BY <1>3, <1>4, <2>1, HoldsStays
  <2>3. locals' = v /\ clock' = t /\ lastFree' = f
    BY <1>3, <1>8, <2>1
  <2> QED BY <2>2, <2>3
<1> QED BY <1>2, <1>3, <1>5, <1>9 DEF ReplayInv

LEMMA NextHolds == ReplayInv /\ [Next]_vars => ReplayInv'
<1> SUFFICES ASSUME ReplayInv, [Next]_vars PROVE ReplayInv'
  OBVIOUS
<1>1. CASE Next
  <2>1. PICK dt \in Steps, book \in Books, shown \in Shown :
          \E trades \in IF maker = NoMaker THEN {<<>>} ELSE Trades(clock, clock + dt) :
             Snapshot(dt, book, trades, shown[1], shown[2], shown[3])
    BY <1>1 DEF Next
  <2>2. PICK trades \in IF maker = NoMaker THEN {<<>>} ELSE Trades(clock, clock + dt) :
             Snapshot(dt, book, trades, shown[1], shown[2], shown[3])
    BY <2>1
  <2>3. shown[2] \in Signals
    <3>1. Signals = {Buy, 0, Sell}
      BY DEF Signals, Directions
    <3>2. \/ shown \in {TRUE} \X {Buy, 0, Sell} \X {FALSE}
          \/ shown \in {<<FALSE, 0, FALSE>>}
          \/ shown \in {TRUE} \X {Buy, 0, Sell} \X BOOLEAN
      BY DEF Shown
    <3> DEFINE S == {Buy, 0, Sell}
    <3>3. 0 \in S
      OBVIOUS
    <3> HIDE DEF S
    <3>4. shown[2] \in S
      <4>1. CASE shown \in {TRUE} \X S \X {FALSE}
        BY <4>1
      <4>2. CASE shown \in {<<FALSE, 0, FALSE>>}
        BY <3>3, <4>2
      <4>3. CASE shown \in {TRUE} \X S \X BOOLEAN
        BY <4>3
      <4> QED BY <3>2, <4>1, <4>2, <4>3 DEF S
    <3> QED BY <3>1, <3>4 DEF S
  <2>4. maker # NoMaker => trades \in Trades(clock, clock + dt)
    BY <2>2
  <2> QED BY <2>2, <2>3, <2>4, SnapshotHolds
<1>2. CASE UNCHANGED vars
  <2>1. PICK v, t, f : v = locals /\ t = clock /\ f = lastFree
    OBVIOUS
  <2>2. spec' = spec /\ policy' = policy /\ locals' = v /\ clock' = t /\ lastFree' = f
    BY <1>2, <2>1 DEF vars, locals
  <2>3. Holds(v, t, f)
    BY <2>1 DEF ReplayInv
  <2>4. Holds(v, t, f)'
    BY <2>2, <2>3, HoldsStays
  <2> QED BY <2>1, <2>2, <2>4 DEF ReplayInv
<1> QED BY <1>1, <1>2

(* Between two snapshots the accounts balance, what is pending fits the    *)
(* position it was decided for, and it has not been pending for too long.  *)
THEOREM ReplayInvariant == Spec => []ReplayInv
<1>1. Init => ReplayInv
  BY InitHolds
<1>2. ReplayInv /\ [Next]_vars => ReplayInv'
  BY NextHolds
<1> QED BY <1>1, <1>2, PTL DEF Spec

(* Whatever the books, the trades, the strategy and the policy, run() and  *)
(* the accounting under it raise none of their errors.                     *)
THEOREM RunNeverRaises == Spec => []NeverRaises
<1>1. ReplayInv => NeverRaises
  BY DEF ReplayInv, Holds, locals, NeverRaises
<1> QED BY <1>1, ReplayInvariant, PTL

(* What is pending fits the position when it is executed.                  *)
THEOREM PendingAlwaysFits == Spec => []PendingFitsPosition
<1>1. ReplayInv => PendingFitsPosition
  <2> SUFFICES ASSUME ReplayInv PROVE PendingFitsPosition
    OBVIOUS
  <2>1. Holds(locals, clock, lastFree)
    BY DEF ReplayInv
  <2>2. /\ locals.position = position /\ locals.maker = maker
        /\ locals.execution = execution
    BY DEF locals
  <2> HIDE DEF locals
  <2>3. maker = NoMaker \/ execution = NoExecution
    BY <2>1, <2>2 DEF Holds
  <2>4. execution # NoExecution =>
          CASE execution.action = "enter" -> position = NoPosition
            [] execution.action = "scale_in" ->
                 position # NoPosition /\ execution.direction = position.direction
            [] execution.action = "exit" ->
                 position # NoPosition /\ execution.quantity = position.quantity
    <3> SUFFICES ASSUME execution # NoExecution
                 PROVE  CASE execution.action = "enter" -> position = NoPosition
                          [] execution.action = "scale_in" ->
                               /\ position # NoPosition
                               /\ execution.direction = position.direction
                          [] execution.action = "exit" ->
                               /\ position # NoPosition
                               /\ execution.quantity = position.quantity
      OBVIOUS
    <3>1. /\ execution \in ExecutionRecords
          /\ CanSend(locals, execution.action, execution.direction,
                     execution.notional, execution.quantity)
      BY <2>1, <2>2 DEF Holds, ExecutionFits
    <3>2. execution.action \in Actions
      BY <3>1, ExecutionIs
    <3> QED BY <2>2, <3>1, <3>2 DEF CanSend, Actions
  <2>5. maker # NoMaker =>
          CASE maker.action = "enter" ->
                 \/ position = NoPosition
                 \/ position.direction = maker.direction
            [] maker.action = "scale_in" ->
                 position # NoPosition /\ maker.direction = position.direction
            [] maker.action = "exit" ->
                 position # NoPosition /\ maker.pending.remaining = position.quantity
    <3> SUFFICES ASSUME maker # NoMaker
                 PROVE  CASE maker.action = "enter" ->
                               \/ position = NoPosition
                               \/ position.direction = maker.direction
                          [] maker.action = "scale_in" ->
                               /\ position # NoPosition
                               /\ maker.direction = position.direction
                          [] maker.action = "exit" ->
                               /\ position # NoPosition
                               /\ maker.pending.remaining = position.quantity
      OBVIOUS
    <3>1. /\ ValidMaker(maker) /\ RestFits(locals)
          /\ Below(Zero, maker.pending.remaining)
      BY <2>1, <2>2 DEF Holds, MakerFits
    <3>2. maker.action \in Actions /\ maker.pending.remaining \in Fractions
      BY <3>1, MakerIs DEF ValidMaker, Pendings
    <3>3. maker.pending.remaining # Zero
      BY <3>1, <3>2, PositiveIs
    <3> QED BY <2>2, <3>1, <3>2, <3>3 DEF RestFits, Actions
  <2> QED BY <2>3, <2>4, <2>5 DEF PendingFitsPosition
<1> QED BY <1>1, ReplayInvariant, PTL

(* The three sums behind the reported profit agree with the fills.         *)
THEOREM ProfitsAddUp == Spec => []LedgerBalances
<1>1. ReplayInv => LedgerBalances
  <2> SUFFICES ASSUME ReplayInv PROVE LedgerBalances
    OBVIOUS
  <2>1. Accounts(locals, clock) /\ locals.position = position /\ locals.ledger = ledger
    BY DEF ReplayInv, Holds, locals
  <2>2. ledger \in Ledgers
    BY <2>1 DEF Accounts, Flat, Balanced
  <2>3. CASE position = NoPosition
    <3>1. /\ ledger.inventory = Zero /\ ledger.closedPnl = ledger.cash
          /\ ledger.fees = ledger.closedFees
      BY <2>1, <2>3 DEF Accounts, Flat
    <3>2. ledger.fees = Plus(ledger.closedFees, Zero)
      BY <2>2, <3>1, PlusZero DEF Ledgers
    <3> QED BY <2>3, <3>1, <3>2 DEF LedgerBalances
  <2>4. CASE position # NoPosition
    <3>1. Balanced(position, locals.trip, ledger, clock)
      BY <2>1, <2>4 DEF Accounts
    <3>2. /\ position.direction \in Directions /\ position.quantity \in Fractions
          /\ position.average \in Fractions
      BY <3>1 DEF Balanced, OpenPositions
    <3>3. Whole(position.direction) \in Fractions
      BY <3>2, SignedType
    <3>4. Times(Times(Whole(position.direction), position.quantity), position.average)
            = Times(Whole(position.direction), Cost(position))
      BY <3>2, <3>3, TimesAssociates DEF Cost
    <3> QED BY <2>4, <3>1, <3>4 DEF LedgerBalances, Balanced
  <2> QED BY <2>3, <2>4
<1> QED BY <1>1, ReplayInvariant, PTL

(* The trip that is reported is the position's: its sizes, its profit, its *)
(* scale-ins and its times.                                                *)
THEOREM TripsAreReported == Spec => []TripIsConsistent
<1>1. ReplayInv => TripIsConsistent
  <2> SUFFICES ASSUME ReplayInv PROVE TripIsConsistent
    OBVIOUS
  <2>1. /\ Holds(locals, clock, lastFree) /\ clock \in Int
        /\ locals.position = position /\ locals.ledger = ledger
        /\ locals.trip = trip /\ locals.maker = maker
    BY DEF ReplayInv, locals
  <2> HIDE DEF locals
  <2>2. Accounts(locals, clock) /\ trip \in Trips
    BY <2>1, LocalsIs DEF Holds
  <2>3. TripMatchesPosition
    BY <2>1, <2>2 DEF Accounts, Flat, Balanced, TripMatchesPosition
  <2>4. ScaleInsBounded
    <3>1. trip.scaleIns <= spec.maxScaleIns
      BY <2>1 DEF Holds
    <3>2. maker # NoMaker => RestFits(locals)
      BY <2>1 DEF Holds, MakerFits
    <3>3. spec.maxScaleIns \in Nat /\ trip.scaleIns \in Nat
      BY <2>2, ReplayAssumption, SpecIs DEF ReplayInv, Trips
    <3> QED BY <2>1, <3>1, <3>2, <3>3 DEF ScaleInsBounded, RestFits
  <2>5. TimesInOrder
    <3>1. CASE position = NoPosition
      BY <2>1, <2>2, <3>1 DEF Accounts, Flat, TimesInOrder
    <3>2. CASE position # NoPosition
      <4>1. /\ ledger.lastExit <= trip.entryTs /\ trip.entryTs <= clock
            /\ ledger.lastExit \in Int /\ trip.entryTs \in Int
        BY <2>1, <2>2, <3>2 DEF Accounts, Balanced, Ledgers, Trips
      <4> QED BY <2>1, <4>1 DEF TimesInOrder
    <3> QED BY <3>1, <3>2
  <2> QED BY <2>3, <2>4, <2>5 DEF TripIsConsistent
<1> QED BY <1>1, ReplayInvariant, PTL

LEMMA LivesAddUp ==
    ASSUME NEW used \in Nat, NEW most \in Nat, used <= most, NEW life \in Nat
    PROVE  used * life + life <= (most + 1) * life /\ used * life \in Nat
<1>1. used * life + (most - used) * life = most * life /\ (most - used) * life >= 0
  BY used \in Int, most \in Int, most - used \in Nat
<1> QED BY <1>1

(* The strategy is never kept from deciding longer than the limits of the  *)
(* policy and the time between snapshots explain.                          *)
THEOREM StrategyIsSoonFree == Spec => []StrategySoonFree
<1>1. ReplayInv => StrategySoonFree
  <2> SUFFICES ASSUME ReplayInv, HadPending(locals)
               PROVE  clock - lastFree < LongestStep + Travel
                                         + (policy.maxReplacements + 1) * QuoteLife
    BY DEF StrategySoonFree, LongestStep, LongestLatency, Travel, QuoteLife
  <2>1. /\ Holds(locals, clock, lastFree) /\ clock \in Int /\ lastFree \in Int
        /\ ValidPolicy(policy)
    BY ReplayAssumption DEF ReplayInv
  <2>2. /\ LongestStep \in Nat \ {0} /\ LongestLatency \in Nat
        /\ Travel \in Nat /\ QuoteLife \in Nat
        /\ policy.maxAge \in Nat \ {0} /\ policy.maxReplacements \in Nat
    BY <2>1, LimitsAre
  <2> HIDE DEF locals
  <2> DEFINE most == policy.maxReplacements
             quotes == (most + 1) * QuoteLife
  <2>3. CASE locals.execution # NoExecution
    <3>1. /\ clock < locals.execution.arrival
          /\ locals.execution.arrival <= lastFree + LongestStep + LongestLatency
          /\ LongestLatency > 0
      BY <2>1, <2>3 DEF Holds, Timing
    <3>2. locals.execution.arrival \in Int
      BY <2>1, <2>3, LocalsIs, ExecutionIs DEF Holds
    <3>3. quotes \in Nat
      BY <2>2
    <3>4. Travel = LongestLatency + LongestStep - 1
      BY <3>1 DEF Travel
    <3> HIDE DEF quotes
    <3>5. clock - lastFree < LongestStep + Travel + quotes
      BY <2>1, <2>2, <3>1, <3>2, <3>3, <3>4
    <3> QED BY <3>5 DEF quotes
  <2>4. CASE locals.maker # NoMaker
    <3> DEFINE placed == locals.maker.order.placed
               used == locals.maker.replacementsUsed
               spent == used * QuoteLife
    <3>1. placed \in Int /\ used \in Nat
      BY <2>1, <2>4, MakerTimes DEF Holds
    <3>2. /\ clock < placed + policy.maxAge
          /\ placed <= lastFree + LongestStep + Travel + spent
          /\ used <= most
      BY <2>1, <2>4 DEF Holds, Timing
    <3>3. spent + QuoteLife <= quotes /\ spent \in Nat /\ quotes \in Nat
      BY <2>2, <3>1, <3>2, LivesAddUp
    <3>4. policy.maxAge <= QuoteLife
      BY <2>2 DEF QuoteLife
    <3> HIDE DEF quotes, spent, placed, used
    <3>5. clock - lastFree < LongestStep + Travel + quotes
      BY <2>1, <2>2, <3>1, <3>2, <3>3, <3>4
    <3> QED BY <3>5 DEF quotes
  <2> QED BY <2>3, <2>4 DEF HadPending
<1> QED BY <1>1, ReplayInvariant, PTL
=============================================================================
