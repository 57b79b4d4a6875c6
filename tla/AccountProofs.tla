---------------------------- MODULE AccountProofs ---------------------------
(***************************************************************************)
(* The money of the live account, for all coins, days, prices, quantities  *)
(* and fees: whatever fills are delivered, in whatever order and however   *)
(* often, the figures that the loss limits read are the money the          *)
(* executions moved.                                                       *)
(*                                                                         *)
(* What every fill keeps true: the realized profit is the money paid and   *)
(* received so far plus what the open positions cost at their average      *)
(* prices.                                                                 *)
(*                                                                         *)
(* The history of any wallet, for all page sizes, dates, times and sizes   *)
(* of fills: whatever the wallet trades between two pages, the saved       *)
(* batches lose nothing but ties, merge in the exchange's order in         *)
(* whichever order they are read, and are cut into all the complete trips. *)
(***************************************************************************)
EXTENDS Account, WalletHistory, ArithmeticProofs, SequenceTheorems

-----------------------------------------------------------------------------
(* One fill.                                                               *)

LEMMA FillFacts ==
    ASSUME NEW f \in Fill
    PROVE  /\ f.id \in Nat /\ f.coin \in Coins /\ f.day \in Days /\ f.side \in {-1, 1}
           /\ f.quantity \in Fractions /\ Below(Zero, f.quantity)
           /\ f.price \in Fractions /\ Below(Zero, f.price)
           /\ f.fee \in Fractions
<1>1. /\ f.id \in Nat /\ f.coin \in Coins /\ f.day \in Days /\ f.side \in {-1, 1}
      /\ f.quantity \in Quantities /\ f.price \in Prices /\ f.fee \in Fees
  BY DEF Fill
<1>2. IsRational(f.quantity) /\ IsRational(f.price) /\ IsRational(f.fee)
  BY <1>1, AccountAssumption DEF IsPositive
<1>3. Below(Zero, f.quantity) /\ Below(Zero, f.price)
  BY <1>1, AccountAssumption DEF IsPositive
<1> QED BY <1>1, <1>2, <1>3, RationalIsFraction

LEMMA SizeIs ==
    ASSUME NEW a \in Fractions, NEW n \in Int, NEW d \in Int, d > 0, Is(a, n, d)
    PROVE  Size(a) \in Fractions /\ Is(Size(a), Abs(n), d)
<1>1. a[1] \in Int /\ a[2] \in Int /\ a[2] \in Nat \ {0} /\ a[2] > 0 /\ a = <<a[1], a[2]>>
  BY FractionType
<1>2. (a[1] > 0 <=> n > 0) /\ (a[1] < 0 <=> n < 0) /\ (a = Zero <=> n = 0)
  BY SignIs
<1>3. PICK u \in Int, v \in Int : u * a[1] + v * a[2] = 1
  BY DEF Fractions
<1>4. a[1] * d = n * a[2]
  BY DEF Is
<1>5. CASE a[1] >= 0
  <2>1. Abs(a[1]) = a[1] /\ Abs(n) = n
    BY <1>1, <1>2, <1>5 DEF Abs
  <2> QED BY <2>1, <1>1 DEF Size
<1>6. CASE a[1] < 0
  <2>1. Abs(a[1]) = -a[1] /\ Abs(n) = -n
    BY <1>2, <1>6 DEF Abs
  <2>2. (-u) * (-a[1]) + v * a[2] = 1
    BY <1>1, <1>3
  <2>3. (-a[1]) * d = (-n) * a[2]
    BY <1>1, <1>4
  <2>4. <<-a[1], a[2]>> \in Fractions
    BY <1>1, <1>3, <2>2, -u \in Int, -a[1] \in Int DEF Fractions
  <2> QED BY <2>1, <2>3, <2>4, <1>1 DEF Size, Is
<1> QED BY <1>1, <1>5, <1>6

(* The money a fill moved, what the position cost before and after it, and *)
(* the profit it realized, over one denominator.                           *)
LEMMA ProfitIs ==
    ASSUME NEW R \in Fractions, NEW new \in Fractions, NEW old \in Fractions, NEW SP \in Fractions,
           NEW r \in Int, NEW u \in Int, NEW v \in Int, NEW w \in Int, NEW D \in Int, D # 0,
           Is(R, r, D), Is(new, u, D), Is(old, v, D), Is(SP, w, D),
           r = (0 - w) + (u - v)
    PROVE  R = Plus(Times(Whole(-1), SP), Minus(new, old))
<1>1. Times(Whole(-1), SP) = Minus(Zero, SP)
  BY TimesUnits
<1>2. Zero \in Fractions /\ Is(Zero, 0, D)
  BY ZeroIs
<1>3. Minus(Zero, SP) \in Fractions /\ Is(Minus(Zero, SP), 0 - w, D)
  BY <1>2, MinusIs
<1>4. Minus(new, old) \in Fractions /\ Is(Minus(new, old), u - v, D)
  BY MinusIs
<1>5. 0 - w \in Int /\ u - v \in Int
  OBVIOUS
<1>6. /\ Plus(Minus(Zero, SP), Minus(new, old)) \in Fractions
      /\ Is(Plus(Minus(Zero, SP), Minus(new, old)), (0 - w) + (u - v), D)
  BY <1>3, <1>4, <1>5, PlusIs
<1>7. (0 - w) + (u - v) \in Int
  OBVIOUS
<1>8. R = Plus(Minus(Zero, SP), Minus(new, old))
  BY <1>6, <1>7, SameIs
<1> QED BY <1>1, <1>8

(* A fill over a common denominator d of the quantities, e of the prices.  *)
Measures(old, f, d, n, m, e, x, y) ==
    /\ d \in Int /\ d > 0 /\ n \in Int /\ m \in Int /\ m > 0
    /\ e \in Int /\ e > 0 /\ x \in Int /\ y \in Int
    /\ Is(old.quantity, n, d) /\ Is(f.quantity, m, d)
    /\ Is(old.average, x, e) /\ Is(f.price, y, e)

LEMMA HasMeasures ==
    ASSUME NEW f \in Fill, NEW old,
           old.quantity \in Fractions, old.average \in Fractions
    PROVE  \E d, n, m, e, x, y \in Int : Measures(old, f, d, n, m, e, x, y)
<1>1. PICK d \in Int, n \in Int, m \in Int : Over2(old.quantity, f.quantity, d, n, m)
  BY FillFacts, Common2
<1>2. PICK e \in Int, x \in Int, y \in Int : Over2(old.average, f.price, e, x, y)
  BY FillFacts, Common2
<1>3. m > 0
  <2>1. Zero \in Fractions /\ Is(Zero, 0, d)
    BY ZeroIs
  <2>2. Below(Zero, f.quantity) <=> 0 < m
    BY <1>1, <2>1, FillFacts, OrderIs DEF Over2
  <2> QED BY <2>2, FillFacts
<1> QED BY <1>1, <1>2, <1>3 DEF Over2, Measures

LEMMA SignedIs ==
    ASSUME NEW f \in Fill, NEW m \in Int, NEW d \in Int, d > 0, Is(f.quantity, m, d)
    PROVE  Signed(f) \in Fractions /\ Is(Signed(f), f.side * m, d)
<1>1. f.side \in Int /\ Whole(f.side) \in Fractions /\ Is(Whole(f.side), f.side, 1)
  <2>1. f.side \in Int /\ f.side * 1 = f.side /\ 1 \in Int
    BY FillFacts
  <2>2. Whole(f.side) \in Fractions /\ Is(Whole(f.side), f.side * 1, 1)
    BY <2>1, WholeIs
  <2> QED BY <2>1, <2>2
<1>2. Times(Whole(f.side), f.quantity) \in Fractions
  BY <1>1, FillFacts, TimesType
<1>3. Is(Times(Whole(f.side), f.quantity), f.side * m, 1 * d)
  BY <1>1, FillFacts, TimesIs
<1>4. 1 * d = d
  OBVIOUS
<1> QED BY <1>2, <1>3, <1>4 DEF Signed

LEMMA SignValue ==
    ASSUME NEW a \in Fractions, NEW n \in Int, NEW d \in Int, d > 0, Is(a, n, d)
    PROVE  Sign(a) = IF n > 0 THEN 1 ELSE IF n < 0 THEN -1 ELSE 0
BY SignIs DEF Sign

(* A position that grows: its new average times its new size is what the   *)
(* old part cost and the fill.                                             *)
Grown(old, f) == Plus(Size(old.quantity), f.quantity)
Spent(old, f) == Plus(Times(Size(old.quantity), old.average), Times(f.quantity, f.price))

LEMMA GrownIs ==
    ASSUME NEW f \in Fill, NEW old, old.quantity \in Fractions, old.average \in Fractions,
           NEW d, NEW n, NEW m, NEW e, NEW x, NEW y, Measures(old, f, d, n, m, e, x, y)
    PROVE  /\ Grown(old, f) \in Fractions /\ Is(Grown(old, f), Abs(n) + m, d)
           /\ Spent(old, f) \in Fractions /\ Is(Spent(old, f), Abs(n) * x + m * y, d * e)
           /\ Over(Spent(old, f), Grown(old, f)) \in Fractions
           /\ Times(Over(Spent(old, f), Grown(old, f)), Grown(old, f)) = Spent(old, f)
<1>1. /\ d \in Int /\ d > 0 /\ n \in Int /\ m \in Int /\ m > 0
      /\ e \in Int /\ e > 0 /\ x \in Int /\ y \in Int
      /\ Is(old.quantity, n, d) /\ Is(f.quantity, m, d)
      /\ Is(old.average, x, e) /\ Is(f.price, y, e)
  BY DEF Measures
<1>2. f.quantity \in Fractions /\ f.price \in Fractions
  BY FillFacts
<1>3. Abs(n) \in Int /\ Abs(n) >= 0
  BY <1>1 DEF Abs
<1>4. Size(old.quantity) \in Fractions /\ Is(Size(old.quantity), Abs(n), d)
  BY <1>1, SizeIs
<1>5. Grown(old, f) \in Fractions /\ Is(Grown(old, f), Abs(n) + m, d)
  BY <1>1, <1>2, <1>3, <1>4, PlusIs DEF Grown
<1>6. /\ Times(Size(old.quantity), old.average) \in Fractions
      /\ Is(Times(Size(old.quantity), old.average), Abs(n) * x, d * e)
      /\ Times(f.quantity, f.price) \in Fractions
      /\ Is(Times(f.quantity, f.price), m * y, d * e)
  BY <1>1, <1>2, <1>3, <1>4, TimesIs
<1>7. Abs(n) * x \in Int /\ m * y \in Int /\ d * e \in Int /\ d * e # 0
  BY <1>1, <1>3, NonZeroProduct
<1>8. Spent(old, f) \in Fractions /\ Is(Spent(old, f), Abs(n) * x + m * y, d * e)
  BY <1>6, <1>7, PlusIs DEF Spent
<1>9. Grown(old, f) # Zero
  <2>1. Abs(n) + m \in Int /\ Abs(n) + m # 0
    BY <1>1, <1>3
  <2> QED BY <1>1, <1>5, <2>1, SignIs
<1> QED BY <1>5, <1>8, <1>9, OverUndoesTimes

Grows(old, f) == Sign(old.quantity) \in {0, f.side}

LEMMA GrowthMoney ==
    ASSUME NEW f \in Fill, NEW old, old.quantity \in Fractions, old.average \in Fractions,
           Grows(old, f)
    PROVE  /\ NewAverage(old, f) = Over(Spent(old, f), Grown(old, f))
           /\ NewAverage(old, f) \in Fractions
           /\ Realized(old, f) = Zero
           /\ Plus(old.quantity, Signed(f)) \in Fractions
           /\ Plus(old.quantity, Signed(f)) # Zero
           /\ Realized(old, f) =
                Plus(Times(Whole(-1), Times(Signed(f), f.price)),
                     Minus(Times(Plus(old.quantity, Signed(f)), NewAverage(old, f)),
                           Times(old.quantity, old.average)))
<1>1. PICK d \in Int, n \in Int, m \in Int, e \in Int, x \in Int, y \in Int :
         Measures(old, f, d, n, m, e, x, y)
  BY HasMeasures
<1>2. /\ d > 0 /\ m > 0 /\ e > 0
      /\ Is(old.quantity, n, d) /\ Is(f.quantity, m, d)
      /\ Is(old.average, x, e) /\ Is(f.price, y, e)
  BY <1>1 DEF Measures
<1> DEFINE s == f.side
           q == old.quantity
           a == NewAverage(old, f)
           W == Grown(old, f)
           N == Spent(old, f)
           new == Plus(q, Signed(f))
           D == d * e
<1>3. s \in {-1, 1} /\ s \in Int
  BY FillFacts
<1>4. s * Abs(n) = n /\ Abs(n) \in Int /\ Abs(n) >= 0
  <2>1. (IF n > 0 THEN 1 ELSE IF n < 0 THEN -1 ELSE 0) \in {0, s}
    BY <1>2, SignValue DEF Grows
  <2> QED BY <2>1, <1>3 DEF Abs
<1>5. /\ W \in Fractions /\ Is(W, Abs(n) + m, d)
      /\ N \in Fractions /\ Is(N, Abs(n) * x + m * y, D)
      /\ Over(N, W) \in Fractions /\ Times(Over(N, W), W) = N
  BY <1>1, GrownIs
<1>6. a = Over(N, W) /\ Realized(old, f) = Zero
  <2>1. a = Over(N, W)
    BY DEF NewAverage, Grows, Grown, Spent
  <2>2. Realized(old, f) = Zero
    BY DEF Realized, Grows
  <2> QED BY <2>1, <2>2
<1>7. Signed(f) \in Fractions /\ Is(Signed(f), s * m, d) /\ s * m \in Int
  BY <1>2, <1>3, SignedIs
<1>8. new \in Fractions /\ Is(new, n + s * m, d)
  BY <1>2, <1>7, PlusIs
<1>9. new = Times(Whole(s), W)
  <2>1. Whole(s) \in Fractions /\ Is(Whole(s), s, 1)
    <3>1. s * 1 = s
      BY <1>3
    <3> QED BY <3>1, <1>3, WholeIs
  <2>2. Abs(n) + m \in Int /\ 1 * d = d /\ s * (Abs(n) + m) = n + s * m
    BY <1>3, <1>4, <1>7
  <2>3. Times(Whole(s), W) \in Fractions /\ Is(Times(Whole(s), W), s * (Abs(n) + m), 1 * d)
    <3> HIDE DEF W
    <3> QED BY <1>3, <1>5, <2>1, <2>2, TimesIs
  <2>4. d # 0 /\ n + s * m \in Int
    BY <1>2, <1>7
  <2> HIDE DEF new, W
  <2> QED BY <1>8, <2>2, <2>3, <2>4, SameIs
<1>10. new # Zero
  <2>1. n + s * m \in Int /\ n + s * m # 0
    BY <1>2, <1>3, <1>4
  <2> QED BY <1>2, <1>8, <2>1, SignIs
<1>11. Times(new, a) = Times(Whole(s), N)
  <2>1. Whole(s) \in Fractions
    BY <1>3, WholeIs
  <2> HIDE DEF W, N, a, new
  <2>2. Times(Times(Whole(s), W), a) = Times(Whole(s), Times(W, a))
    BY <1>5, <1>6, <2>1, TimesAssociates
  <2>3. Times(W, a) = Times(a, W)
    BY <1>5, <1>6, TimesCommutes
  <2> QED BY <1>5, <1>6, <1>9, <2>2, <2>3
<1>12. D \in Int /\ D # 0
  BY <1>2, NonZeroProduct
<1>13. Times(new, a) \in Fractions /\ Is(Times(new, a), s * (Abs(n) * x + m * y), D)
  <2>1. Whole(s) \in Fractions /\ Is(Whole(s), s, 1)
    <3>1. s * 1 = s
      BY <1>3
    <3> QED BY <3>1, <1>3, WholeIs
  <2>2. Abs(n) * x + m * y \in Int /\ 1 * D = D
    BY <1>4, <1>12
  <2>3. /\ Times(Whole(s), N) \in Fractions
        /\ Is(Times(Whole(s), N), s * (Abs(n) * x + m * y), 1 * D)
    <3> HIDE DEF N, D
    <3> QED BY <1>3, <1>5, <1>12, <2>1, <2>2, TimesIs
  <2> QED BY <1>11, <2>2, <2>3
<1>14. Times(q, old.average) \in Fractions /\ Is(Times(q, old.average), n * x, D)
  BY <1>2, TimesIs
<1>15. Times(Signed(f), f.price) \in Fractions /\ Is(Times(Signed(f), f.price), (s * m) * y, D)
  BY <1>2, <1>7, FillFacts, TimesIs
<1>16. Zero \in Fractions /\ Is(Zero, 0, D)
  BY <1>12, ZeroIs
<1>17. /\ s * (Abs(n) * x + m * y) \in Int /\ n * x \in Int /\ (s * m) * y \in Int
       /\ 0 = (0 - (s * m) * y) + (s * (Abs(n) * x + m * y) - n * x)
  <2>1. s * (Abs(n) * x + m * y) = (s * Abs(n)) * x + (s * m) * y
    BY <1>3, <1>4
  <2>2. (s * Abs(n)) * x = n * x
    BY <1>4
  <2> DEFINE A == s * (Abs(n) * x + m * y)
             B == (s * m) * y
             C == n * x
  <2>3. A \in Int /\ B \in Int /\ C \in Int /\ A = C + B
    BY <2>1, <2>2, <1>3, <1>4
  <2> HIDE DEF A, B, C
  <2>4. 0 = (0 - B) + (A - C)
    BY <2>3
  <2> QED BY <2>3, <2>4 DEF A, B, C
<1>18. Zero = Plus(Times(Whole(-1), Times(Signed(f), f.price)),
                   Minus(Times(new, a), Times(q, old.average)))
  <2> HIDE DEF D, a, new
  <2> QED BY <1>12, <1>13, <1>14, <1>15, <1>16, <1>17, ProfitIs
<1> QED BY <1>5, <1>6, <1>8, <1>10, <1>18

(* A position that a fill reduces, closes or turns: it earns on the part   *)
(* it closes, min(|n|, m) of it.                                           *)
LEMMA ClosedIs ==
    ASSUME NEW f \in Fill, NEW old, old.quantity \in Fractions, old.average \in Fractions,
           NEW d, NEW n, NEW m, NEW e, NEW x, NEW y, Measures(old, f, d, n, m, e, x, y),
           ~Grows(old, f)
    PROVE  \E k \in Int :
              /\ Realized(old, f) \in Fractions
              /\ Is(Realized(old, f), k * (y - x), d * e)
              /\ IF n + f.side * m = 0 \/ f.side * (n + f.side * m) < 0
                 THEN k = 0 - f.side * m ELSE k = n
<1>1. /\ d \in Int /\ d > 0 /\ n \in Int /\ m \in Int /\ m > 0
      /\ e \in Int /\ e > 0 /\ x \in Int /\ y \in Int
      /\ Is(old.quantity, n, d) /\ Is(f.quantity, m, d)
      /\ Is(old.average, x, e) /\ Is(f.price, y, e)
  BY DEF Measures
<1>2. f.quantity \in Fractions /\ f.price \in Fractions /\ f.side \in {-1, 1} /\ f.side \in Int
  BY FillFacts
<1> DEFINE z == Sign(old.quantity)
           l == IF Abs(n) <= m THEN Abs(n) ELSE m
           least == Least(Size(old.quantity), f.quantity)
           gain == Minus(f.price, old.average)
<1>3. z = 0 - f.side /\ z * Abs(n) = n /\ n # 0 /\ Abs(n) \in Int /\ Abs(n) > 0 /\ z \in Int
  <2>1. z = IF n > 0 THEN 1 ELSE IF n < 0 THEN -1 ELSE 0
    BY <1>1, SignValue
  <2>2. z \notin {0, f.side}
    BY DEF Grows
  <2> HIDE DEF z
  <2> QED BY <1>1, <1>2, <2>1, <2>2 DEF Abs
<1>4. Size(old.quantity) \in Fractions /\ Is(Size(old.quantity), Abs(n), d)
  BY <1>1, SizeIs
<1>5. least \in Fractions /\ Is(least, l, d) /\ l \in Int
  <2>1. AtMost(Size(old.quantity), f.quantity) <=> Abs(n) <= m
    BY <1>1, <1>2, <1>3, <1>4, OrderIs
  <2> QED BY <1>1, <1>2, <1>3, <1>4, <2>1 DEF Least
<1>6. gain \in Fractions /\ Is(gain, y - x, e) /\ y - x \in Int
  BY <1>1, <1>2, MinusIs
<1>7. Whole(z) \in Fractions /\ Is(Whole(z), z, 1)
  <2>1. z * 1 = z /\ 1 \in Int
    BY <1>3
  <2>2. Whole(z) \in Fractions /\ Is(Whole(z), z * 1, 1)
    BY <1>3, <2>1, WholeIs
  <2> QED BY <2>1, <2>2
<1>8. Times(Whole(z), least) \in Fractions /\ Is(Times(Whole(z), least), z * l, d) /\ z * l \in Int
  <2>1. 1 \in Int /\ 1 * d = d /\ z * l \in Int
    BY <1>1, <1>3, <1>5
  <2>2. Times(Whole(z), least) \in Fractions /\ Is(Times(Whole(z), least), z * l, 1 * d)
    <3> HIDE DEF z, l, least
    <3> QED BY <1>1, <1>3, <1>5, <1>7, <2>1, TimesIs
  <2> QED BY <2>1, <2>2
<1>9. /\ Realized(old, f) \in Fractions
      /\ Is(Realized(old, f), (z * l) * (y - x), d * e)
  <2>1. Realized(old, f) = Times(Times(Whole(z), least), gain)
    BY DEF Realized, Grows
  <2>2. /\ Times(Times(Whole(z), least), gain) \in Fractions
        /\ Is(Times(Times(Whole(z), least), gain), (z * l) * (y - x), d * e)
    <3> DEFINE T == Times(Whole(z), least)
               zl == z * l
               yx == y - x
    <3> HIDE DEF T, zl, yx, gain
    <3> QED BY <1>1, <1>6, <1>8, TimesIs DEF T, zl, yx
  <2> QED BY <2>1, <2>2
<1>10. IF n + f.side * m = 0 \/ f.side * (n + f.side * m) < 0
       THEN z * l = 0 - f.side * m ELSE z * l = n
  <2> HIDE DEF z
  <2>1. CASE f.side = 1
    BY <1>1, <1>3, <2>1 DEF Abs
  <2>2. CASE f.side = -1
    BY <1>1, <1>3, <2>2 DEF Abs
  <2> QED BY <1>2, <2>1, <2>2
<1> QED BY <1>8, <1>9, <1>10

LEMMA ReductionMoney ==
    ASSUME NEW f \in Fill, NEW old, old.quantity \in Fractions, old.average \in Fractions,
           ~Grows(old, f)
    PROVE  /\ NewAverage(old, f) \in Fractions
           /\ Realized(old, f) \in Fractions
           /\ Plus(old.quantity, Signed(f)) \in Fractions
           /\ IF Plus(old.quantity, Signed(f)) = Zero THEN NewAverage(old, f) = NoPrice
              ELSE NewAverage(old, f) \in {old.average, f.price}
           /\ Realized(old, f) =
                Plus(Times(Whole(-1), Times(Signed(f), f.price)),
                     Minus(Times(Plus(old.quantity, Signed(f)), NewAverage(old, f)),
                           Times(old.quantity, old.average)))
<1>1. PICK d \in Int, n \in Int, m \in Int, e \in Int, x \in Int, y \in Int :
         Measures(old, f, d, n, m, e, x, y)
  BY HasMeasures
<1>2. /\ d > 0 /\ m > 0 /\ e > 0
      /\ Is(old.quantity, n, d) /\ Is(f.quantity, m, d)
      /\ Is(old.average, x, e) /\ Is(f.price, y, e)
  BY <1>1 DEF Measures
<1> DEFINE s == f.side
           q == old.quantity
           a == NewAverage(old, f)
           new == Plus(q, Signed(f))
           t == s * m
           D == d * e
<1>3. s \in {-1, 1} /\ s \in Int /\ f.price \in Fractions /\ t \in Int /\ n + t \in Int
  BY FillFacts
<1>4. PICK k \in Int :
         /\ Realized(old, f) \in Fractions
         /\ Is(Realized(old, f), k * (y - x), D)
         /\ IF n + t = 0 \/ s * (n + t) < 0 THEN k = 0 - t ELSE k = n
  BY <1>1, ClosedIs
<1>5. Signed(f) \in Fractions /\ Is(Signed(f), t, d)
  BY <1>2, SignedIs
<1>6. new \in Fractions /\ Is(new, n + t, d)
  BY <1>2, <1>3, <1>5, PlusIs
<1>7. (new = Zero <=> n + t = 0) /\ (Sign(new) = Sign(q) <=> s * (n + t) < 0)
  <2>1. Sign(new) = IF n + t > 0 THEN 1 ELSE IF n + t < 0 THEN -1 ELSE 0
    BY <1>2, <1>3, <1>6, SignValue
  <2>2. new = Zero <=> n + t = 0
    BY <1>2, <1>3, <1>6, SignIs
  <2>3. Sign(q) = 0 - s
    <3>1. Sign(q) \in {-1, 0, 1} /\ Sign(q) \notin {0, s}
      BY DEF Sign, Grows
    <3> QED BY <1>3, <3>1
  <2> HIDE DEF new, t, q
  <2>4. CASE s = 1
    BY <1>3, <2>1, <2>2, <2>3, <2>4
  <2>5. CASE s = -1
    BY <1>3, <2>1, <2>2, <2>3, <2>5
  <2> QED BY <1>3, <2>4, <2>5
<1>8. a = IF new = Zero THEN NoPrice ELSE IF Sign(new) = Sign(q) THEN old.average ELSE f.price
  BY DEF NewAverage, Grows
<1>9. PICK z \in Int :
         /\ a \in Fractions /\ Is(a, z, e)
         /\ k * (y - x) = (0 - t * y) + ((n + t) * z - n * x)
  <2> HIDE DEF t, new, a, q, D
  <2>1. CASE n + t = 0
    <3>1. a \in Fractions /\ Is(a, 0, e)
      BY <1>7, <1>8, <2>1, ZeroIs DEF NoPrice
    <3>2. k = n /\ n = 0 - t
      BY <1>3, <1>4, <2>1
    <3>3. k * (y - x) = (0 - t * y) + ((n + t) * 0 - n * x)
      BY <1>3, <3>2
    <3> QED BY <3>1, <3>3
  <2>2. CASE s * (n + t) < 0
    <3>1. n + t # 0
      BY <1>3, <2>2
    <3>2. a \in Fractions /\ Is(a, x, e)
      BY <1>2, <1>7, <1>8, <2>2, <3>1
    <3>3. k = 0 - t
      BY <1>4, <2>2
    <3>4. k * (y - x) = (0 - t * y) + ((n + t) * x - n * x)
      BY <1>3, <3>3
    <3> QED BY <3>2, <3>4
  <2>3. CASE ~(n + t = 0 \/ s * (n + t) < 0)
    <3>1. a \in Fractions /\ Is(a, y, e)
      BY <1>2, <1>3, <1>7, <1>8, <2>3
    <3>2. k = n
      BY <1>4, <2>3
    <3>3. k * (y - x) = (0 - t * y) + ((n + t) * y - n * x)
      BY <1>3, <3>2
    <3> QED BY <3>1, <3>3
  <2> QED BY <2>1, <2>2, <2>3
<1>10. D \in Int /\ D # 0
  BY <1>2, NonZeroProduct
<1> HIDE DEF t, new, a, q
<1>11. Times(new, a) \in Fractions /\ Is(Times(new, a), (n + t) * z, D) /\ (n + t) * z \in Int
  BY <1>3, <1>6, <1>9, TimesIs
<1>12. Times(q, old.average) \in Fractions /\ Is(Times(q, old.average), n * x, D) /\ n * x \in Int
  BY <1>2, TimesIs DEF q
<1>13. /\ Times(Signed(f), f.price) \in Fractions
       /\ Is(Times(Signed(f), f.price), t * y, D) /\ t * y \in Int
  BY <1>2, <1>3, <1>5, TimesIs
<1>14. k * (y - x) \in Int
  OBVIOUS
<1>15. Realized(old, f) = Plus(Times(Whole(-1), Times(Signed(f), f.price)),
                               Minus(Times(new, a), Times(q, old.average)))
  <2> DEFINE r == k * (y - x)
             u == (n + t) * z
             v == n * x
             w == t * y
  <2> HIDE DEF r, u, v, w, D
  <2> QED BY <1>4, <1>9, <1>10, <1>11, <1>12, <1>13, <1>14, ProfitIs DEF r, u, v, w
<1> QED BY <1>4, <1>6, <1>8, <1>9, <1>15 DEF new, a, q

-----------------------------------------------------------------------------
(* Every fill, over all the state.                                         *)

Paid(f) == Times(Whole(-1), Times(Signed(f), f.price))

PaidBy == [f \in Fill |-> Paid(f)]

FeeOf == [f \in Fill |-> f.fee]

Cost(ps) == [c \in Coins |-> Times(ps[c].quantity, ps[c].average)]

LEMMA FillMoney ==
    ASSUME NEW f \in Fill, NEW old, old.quantity \in Fractions, old.average \in Fractions
    PROVE  /\ Plus(old.quantity, Signed(f)) \in Fractions
           /\ NewAverage(old, f) \in Fractions
           /\ Realized(old, f) \in Fractions
           /\ Paid(f) \in Fractions
           /\ Realized(old, f) =
                Plus(Paid(f), Minus(Times(Plus(old.quantity, Signed(f)), NewAverage(old, f)),
                                    Times(old.quantity, old.average)))
<1>1. Paid(f) \in Fractions
  <2>1. f.quantity \in Fractions /\ f.price \in Fractions /\ f.side \in Int /\ -1 \in Int
    BY FillFacts
  <2>2. Whole(f.side) \in Fractions /\ Whole(-1) \in Fractions
    BY <2>1, WholeIs
  <2>3. Times(Signed(f), f.price) \in Fractions
    BY <2>1, <2>2, TimesType DEF Signed
  <2> QED BY <2>2, <2>3, TimesType DEF Paid
<1>2. CASE Grows(old, f)
  BY <1>1, <1>2, GrowthMoney, ZeroIs DEF Paid
<1>3. CASE ~Grows(old, f)
  BY <1>1, <1>3, ReductionMoney DEF Paid
<1> QED BY <1>2, <1>3

AccountType ==
    /\ positions \in [Coins -> [quantity : Fractions, average : Fractions]]
    /\ marks \in [Coins -> Fractions]
    /\ gross \in Fractions
    /\ fees \in Fractions
    /\ daily \in [Days -> Fractions]
    /\ peak \in Fractions
    /\ delivered \subseteq Fill
    /\ IsFiniteSet(delivered)

(* A fill that was not delivered yet has an id of its own.                 *)
OwnIds ==
    /\ fillIds = {f.id : f \in delivered}
    /\ \A f \in delivered : f.id <= Cardinality(delivered)

(* The inductive invariant.                                                *)
AccountInv ==
    /\ AccountType
    /\ OwnIds
    /\ gross = Plus(Added(PaidBy, delivered), Added(Cost(positions), Coins))
    /\ fees = Added(FeeOf, delivered)
    /\ Added(daily, Days) = Minus(gross, fees)
    /\ \A d \in Days : daily[d] # Zero => \E f \in delivered : f.day = d

LEMMA ConstantFacts ==
    /\ IsFiniteSet(Coins) /\ IsFiniteSet(Days)
    /\ Starting \in Fractions
    /\ \A p \in Prices : p \in Fractions
<1>1. \A x \in Prices \cup {Starting} : x \in Fractions
  BY AccountAssumption, RationalIsFraction DEF IsPositive
<1> QED BY <1>1, AccountAssumption

LEMMA CostType ==
    ASSUME AccountType
    PROVE  /\ \A c \in Coins : Cost(positions)[c] \in Fractions
           /\ Added(Cost(positions), Coins) \in Fractions
<1>1. \A c \in Coins : Cost(positions)[c] \in Fractions
  BY TimesType DEF AccountType, Cost
<1> QED BY <1>1, ConstantFacts, AddedType

LEMMA PaidType ==
    ASSUME NEW S, S \subseteq Fill, IsFiniteSet(S)
    PROVE  /\ \A f \in S : PaidBy[f] \in Fractions /\ FeeOf[f] \in Fractions
           /\ Added(PaidBy, S) \in Fractions
           /\ Added(FeeOf, S) \in Fractions
<1>1. \A f \in Fill : Paid(f) \in Fractions /\ f.fee \in Fractions
  <2> TAKE f \in Fill
  <2> DEFINE flat == [quantity |-> Zero, average |-> Zero]
  <2>1. flat.quantity \in Fractions /\ flat.average \in Fractions
    BY ZeroIs
  <2> HIDE DEF flat
  <2> QED BY <2>1, FillMoney, FillFacts
<1>2. \A f \in S : PaidBy[f] \in Fractions /\ FeeOf[f] \in Fractions
  BY <1>1 DEF PaidBy, FeeOf
<1> QED BY <1>2, AddedType

LEMMA EquityType ==
    ASSUME NEW ps \in [Coins -> [quantity : Fractions, average : Fractions]],
           NEW ms \in [Coins -> Fractions], NEW g \in Fractions, NEW f \in Fractions
    PROVE  EquityOf(ps, ms, g, f) \in Fractions
<1> DEFINE u == [c \in Coins |-> Times(ps[c].quantity, Minus(MarkOf(c, ps, ms), ps[c].average))]
<1>1. \A c \in Coins : u[c] \in Fractions
  BY PlusType, TimesType DEF MarkOf
<1>2. Added(u, Coins) \in Fractions
  BY <1>1, ConstantFacts, AddedType
<1>3. Unrealized(ps, ms) = Added(u, Coins)
  BY DEF Unrealized, SumOver, Added
<1>4. Minus(g, f) \in Fractions
  BY PlusType
<1>5. Plus(Starting, Minus(g, f)) \in Fractions
  BY <1>4, ConstantFacts, PlusType
<1> HIDE DEF u
<1> QED BY <1>2, <1>3, <1>5, PlusType DEF EquityOf

LEMMA InitAccount == Init => AccountInv
<1> SUFFICES ASSUME Init PROVE AccountInv
  OBVIOUS
<1>1. Zero \in Fractions /\ Starting \in Fractions
  BY ZeroIs, ConstantFacts
<1>2. AccountType
  BY <1>1, FS_EmptySet DEF Init, AccountType, Flat, NoPrice
<1>3. OwnIds
  BY DEF Init, OwnIds
<1>4. Added(PaidBy, delivered) = Zero /\ Added(FeeOf, delivered) = Zero
  BY AddedEmpty DEF Init
<1>5. Added(Cost(positions), Coins) = Zero
  <2>1. \A c \in Coins : Cost(positions)[c] = Zero
    BY <1>1, TimesUnits DEF Init, Cost, Flat, NoPrice
  <2> QED BY <2>1, ConstantFacts, AddedZero
<1>6. Added(daily, Days) = Zero
  <2>1. \A d \in Days : daily[d] = Zero
    BY DEF Init
  <2> QED BY <2>1, ConstantFacts, AddedZero
<1>7. Plus(Zero, Zero) = Zero /\ Minus(Zero, Zero) = Zero
  BY <1>1, PlusZero
<1> QED BY <1>2, <1>3, <1>4, <1>5, <1>6, <1>7 DEF AccountInv, Init

(* A delivery either repeats a known execution, which changes nothing, or  *)
(* books a new one.                                                        *)
LEMMA Delivery ==
    ASSUME AccountInv, NEW fill \in Arriving, ApplyFill(fill)
    PROVE  \/ UNCHANGED vars
           \/ /\ fill \in Fill /\ fill \notin delivered
              /\ delivered' = delivered \cup {fill}
              /\ fill.id = Cardinality(delivered) + 1
              /\ BookFill(fill)
<1>1. Cardinality(delivered) \in Nat
  BY FS_CardinalityType DEF AccountInv, AccountType
<1>2. CASE fill \in delivered
  <2>1. fill.id \in fillIds
    BY <1>2 DEF AccountInv, OwnIds
  <2> QED BY <1>2, <2>1 DEF ApplyFill, vars
<1>3. CASE fill \notin delivered
  <2>1. fill \in Fill /\ fill.id = Cardinality(delivered) + 1
    BY <1>3 DEF Arriving
  <2>2. \A f \in delivered : f.id \in Nat
    BY FillFacts DEF AccountInv, AccountType
  <2>3. fill.id \notin fillIds
    <3> SUFFICES ASSUME NEW f \in delivered, f.id = fill.id PROVE FALSE
      BY DEF AccountInv, OwnIds
    <3>1. f.id <= Cardinality(delivered)
      BY DEF AccountInv, OwnIds
    <3> QED BY <1>1, <2>1, <2>2, <3>1
  <2> QED BY <1>3, <2>1, <2>3 DEF ApplyFill
<1> QED BY <1>2, <1>3

LEMMA BookingKeepsType ==
    ASSUME AccountInv, NEW fill \in Fill, delivered' = delivered \cup {fill}, BookFill(fill)
    PROVE  AccountType'
<1> DEFINE old == positions[fill.coin]
<1>1. AccountType
  BY DEF AccountInv
<1>2. fill.coin \in Coins /\ fill.day \in Days /\ fill.fee \in Fractions
  BY FillFacts
<1>3. old.quantity \in Fractions /\ old.average \in Fractions
  BY <1>1, <1>2 DEF AccountType
<1>4. /\ Plus(old.quantity, Signed(fill)) \in Fractions
      /\ NewAverage(old, fill) \in Fractions
      /\ Realized(old, fill) \in Fractions
  BY <1>3, FillMoney
<1>5. positions' \in [Coins -> [quantity : Fractions, average : Fractions]]
  BY <1>1, <1>4 DEF AccountType, BookFill
<1>6. gross' \in Fractions /\ fees' \in Fractions
  BY <1>1, <1>2, <1>4, PlusType DEF AccountType, BookFill
<1>7. daily' \in [Days -> Fractions]
  <2>1. Plus(daily[fill.day], Minus(Realized(old, fill), fill.fee)) \in Fractions
    BY <1>1, <1>2, <1>4, PlusType DEF AccountType
  <2> QED BY <1>1, <2>1 DEF AccountType, BookFill
<1>8. peak' \in Fractions
  <2>1. EquityOf(positions', marks, gross', fees') \in Fractions
    BY <1>1, <1>5, <1>6, EquityType DEF AccountType
  <2> QED BY <1>1, <2>1 DEF AccountType, BookFill, UpdatePeak, Greatest
<1>9. IsFiniteSet(delivered')
  BY <1>1, FS_AddElement DEF AccountType
<1> QED BY <1>1, <1>5, <1>6, <1>7, <1>8, <1>9 DEF AccountType, BookFill

LEMMA BookingKeepsMoney ==
    ASSUME AccountInv, NEW fill \in Fill, fill \notin delivered,
           fill.id = Cardinality(delivered) + 1,
           delivered' = delivered \cup {fill}, BookFill(fill)
    PROVE  AccountInv'
<1> DEFINE old == positions[fill.coin]
           R == Realized(old, fill)
           P == Added(PaidBy, delivered)
           C == Added(Cost(positions), Coins)
           cost == Times(old.quantity, old.average)
           after == Times(Plus(old.quantity, Signed(fill)), NewAverage(old, fill))
<1>1. AccountType /\ AccountType'
  BY BookingKeepsType DEF AccountInv
<1>2. fill.coin \in Coins /\ fill.day \in Days /\ fill.fee \in Fractions
  BY FillFacts
<1>3. old.quantity \in Fractions /\ old.average \in Fractions
  BY <1>1, <1>2 DEF AccountType
<1>4. /\ R \in Fractions /\ Paid(fill) \in Fractions
      /\ R = Plus(Paid(fill), Minus(after, cost))
  BY <1>3, FillMoney
<1>5. cost \in Fractions /\ after \in Fractions
  BY <1>3, FillMoney, TimesType
<1>6. /\ P \in Fractions /\ Added(FeeOf, delivered) \in Fractions
      /\ \A f \in delivered : PaidBy[f] \in Fractions /\ FeeOf[f] \in Fractions
  BY <1>1, PaidType DEF AccountType
<1>7. C \in Fractions /\ \A c \in Coins : Cost(positions)[c] \in Fractions
  BY <1>1, CostType
<1>8. Added(PaidBy, delivered') = Plus(P, Paid(fill))
  <2>1. PaidBy[fill] = Paid(fill)
    BY DEF PaidBy
  <2>2. Added(PaidBy, delivered \cup {fill}) = Plus(Added(PaidBy, delivered), PaidBy[fill])
    BY <1>1, <1>4, <1>6, <2>1, AddedGrows DEF AccountType
  <2> QED BY <2>1, <2>2
<1>9. fees' = Added(FeeOf, delivered')
  <2>1. FeeOf[fill] = fill.fee
    BY DEF FeeOf
  <2>2. Added(FeeOf, delivered \cup {fill}) = Plus(Added(FeeOf, delivered), FeeOf[fill])
    BY <1>1, <1>2, <1>6, <2>1, AddedGrows DEF AccountType
  <2> QED BY <2>1, <2>2 DEF AccountInv, BookFill
<1>10. Added(Cost(positions'), Coins) = Plus(C, Minus(after, cost))
  <2>1. Cost(positions)[fill.coin] = cost
    BY <1>2 DEF Cost
  <2>2. positions' = [positions EXCEPT ![fill.coin] =
            [quantity |-> Plus(old.quantity, Signed(fill)), average |-> NewAverage(old, fill)]]
    BY DEF BookFill
  <2>3. Cost(positions')[fill.coin] = after
    BY <1>1, <1>2, <2>2 DEF Cost, AccountType
  <2>4. \A c \in Coins \ {fill.coin} : Cost(positions')[c] = Cost(positions)[c]
    BY <1>1, <2>2 DEF Cost, AccountType
  <2> DEFINE f == Cost(positions)
             g == Cost(positions')
  <2> HIDE DEF f, g, after, cost
  <2>5. Added(g, Coins) = Plus(Added(f, Coins), Minus(g[fill.coin], f[fill.coin]))
    <3>1. g[fill.coin] \in Fractions /\ \A c \in Coins : f[c] \in Fractions
      BY <1>5, <1>7, <2>3 DEF f, g
    <3>2. \A c \in Coins \ {fill.coin} : g[c] = f[c]
      BY <2>4 DEF f, g
    <3> QED BY <1>2, <3>1, <3>2, ConstantFacts, AddedChanges
  <2> QED BY <2>1, <2>3, <2>5 DEF f, g
<1>11. gross' = Plus(Added(PaidBy, delivered'), Added(Cost(positions'), Coins))
  <2>1. gross' = Plus(gross, R) /\ gross = Plus(P, C)
    BY DEF AccountInv, BookFill
  <2>2. Minus(after, cost) \in Fractions
    BY <1>5, PlusType
  <2> HIDE DEF P, C, R, after, cost, old
  <2>3. Plus(Plus(P, C), Plus(Paid(fill), Minus(after, cost)))
          = Plus(Plus(P, Paid(fill)), Plus(C, Minus(after, cost)))
    BY <1>4, <1>6, <1>7, <2>2, PlusPairs
  <2> QED BY <1>4, <1>8, <1>10, <2>1, <2>3
<1>12. Added(daily', Days) = Minus(gross', fees')
  <2> DEFINE change == Minus(R, fill.fee)
             before == daily[fill.day]
  <2>1. change \in Fractions /\ before \in Fractions /\ gross \in Fractions /\ fees \in Fractions
    BY <1>1, <1>2, <1>4, PlusType DEF AccountType
  <2>2. daily' = [daily EXCEPT ![fill.day] = Plus(before, change)]
    BY DEF BookFill
  <2>3. daily'[fill.day] = Plus(before, change)
    BY <1>1, <1>2, <2>2 DEF AccountType
  <2>4. \A d \in Days \ {fill.day} : daily'[d] = daily[d]
    BY <1>1, <2>2 DEF AccountType
  <2>5. Added(daily', Days) = Plus(Added(daily, Days), Minus(daily'[fill.day], daily[fill.day]))
    <3>1. daily'[fill.day] \in Fractions /\ \A d \in Days : daily[d] \in Fractions
      BY <1>1, <1>2 DEF AccountType
    <3> QED BY <1>2, <2>4, <3>1, ConstantFacts, AddedChanges
  <2>6. gross' = Plus(gross, R) /\ fees' = Plus(fees, fill.fee)
    BY DEF BookFill
  <2>7. Added(daily, Days) = Minus(gross, fees)
    BY DEF AccountInv
  <2> HIDE DEF R
  <2>8. Minus(Plus(before, change), before) = change
    <3> HIDE DEF before, change
    <3>1. Plus(before, change) = Plus(change, before)
      BY <2>1, PlusCommutes
    <3> QED BY <2>1, <3>1, MinusUndoesPlus
  <2>9. Plus(Minus(gross, fees), Minus(R, fill.fee)) = Minus(Plus(gross, R), Plus(fees, fill.fee))
    BY <1>2, <1>4, <2>1, MinusPairs
  <2>10. Added(daily', Days) = Plus(Minus(gross, fees), change)
    <3> HIDE DEF before, change
    <3> QED BY <2>3, <2>5, <2>7, <2>8 DEF before
  <2> QED BY <2>6, <2>9, <2>10
<1>13. \A d \in Days : daily'[d] # Zero => \E f \in delivered' : f.day = d
  <2> SUFFICES ASSUME NEW d \in Days, daily'[d] # Zero PROVE \E f \in delivered' : f.day = d
    OBVIOUS
  <2>1. CASE d = fill.day
    BY <2>1
  <2>2. CASE d # fill.day
    <3>1. daily'[d] = daily[d]
      BY <1>1, <2>2 DEF BookFill, AccountType
    <3> QED BY <3>1 DEF AccountInv
  <2> QED BY <2>1, <2>2
<1>14. OwnIds'
  <2>1. fillIds' = fillIds \cup {fill.id}
    BY DEF BookFill
  <2>2. Cardinality(delivered') = Cardinality(delivered) + 1 /\ Cardinality(delivered) \in Nat
    BY <1>1, FS_AddElement, FS_CardinalityType DEF AccountType
  <2>3. \A f \in delivered : f.id \in Nat /\ f.id <= Cardinality(delivered)
    BY <1>1, FillFacts DEF AccountInv, AccountType, OwnIds
  <2>4. fillIds = {f.id : f \in delivered}
    BY DEF AccountInv, OwnIds
  <2> QED BY <2>1, <2>2, <2>3, <2>4 DEF OwnIds
<1> QED BY <1>1, <1>9, <1>11, <1>12, <1>13, <1>14 DEF AccountInv

LEMMA MarkKeepsMoney ==
    ASSUME AccountInv, NEW c \in Coins, NEW price \in Prices, UpdateMark(c, price)
    PROVE  AccountInv'
<1>1. UNCHANGED <<positions, fillIds, gross, fees, daily, delivered>>
  BY DEF UpdateMark
<1>2. marks' \in [Coins -> Fractions]
  BY ConstantFacts DEF AccountInv, AccountType, UpdateMark
<1>3. peak' \in Fractions
  <2>1. EquityOf(positions, marks', gross, fees) \in Fractions
    BY <1>2, EquityType DEF AccountInv, AccountType
  <2> QED BY <2>1 DEF AccountInv, AccountType, UpdateMark, UpdatePeak, Greatest
<1> QED BY <1>1, <1>2, <1>3 DEF AccountInv, AccountType, OwnIds

THEOREM AccountInvHolds == Spec => []AccountInv
<1>1. Init => AccountInv
  BY InitAccount
<1>2. AccountInv /\ [Next]_vars => AccountInv'
  <2> SUFFICES ASSUME AccountInv, [Next]_vars PROVE AccountInv'
    OBVIOUS
  <2>1. CASE UNCHANGED vars
    BY <2>1 DEF vars, AccountInv, AccountType, OwnIds
  <2>2. ASSUME NEW fill \in Arriving, ApplyFill(fill) PROVE AccountInv'
    BY <2>1, <2>2, Delivery, BookingKeepsMoney
  <2>3. ASSUME NEW c \in Coins, NEW price \in Prices, UpdateMark(c, price) PROVE AccountInv'
    BY <2>3, MarkKeepsMoney
  <2> QED BY <2>1, <2>2, <2>3 DEF Next
<1> QED BY <1>1, <1>2, PTL DEF Spec

-----------------------------------------------------------------------------
(* Equity, the days and the peak.                                          *)

(* The sum behind the equity: money, costs and fees, holdings.             *)
LEMMA Balance ==
    ASSUME NEW S \in Fractions, NEW P \in Fractions, NEW C \in Fractions,
           NEW F \in Fractions, NEW H \in Fractions
    PROVE  Plus(Plus(S, Minus(Plus(P, C), F)), Minus(H, C)) = Plus(Plus(S, Minus(P, F)), H)
<1>1. PICK d \in Int, s \in Int, p \in Int, c \in Int, f \in Int, h \in Int, i \in Int :
         Over2(S, P, d, s, p) /\ Over2(C, F, d, c, f) /\ Over2(H, H, d, h, i)
  BY Common6
<1>2. /\ d # 0 /\ Is(S, s, d) /\ Is(P, p, d) /\ Is(C, c, d) /\ Is(F, f, d) /\ Is(H, h, d)
  BY <1>1 DEF Over2
<1>3. Plus(P, C) \in Fractions /\ Is(Plus(P, C), p + c, d) /\ p + c \in Int
  BY <1>2, PlusIs
<1>4. /\ Minus(Plus(P, C), F) \in Fractions /\ Is(Minus(Plus(P, C), F), (p + c) - f, d)
      /\ (p + c) - f \in Int
  BY <1>2, <1>3, MinusIs
<1>5. /\ Plus(S, Minus(Plus(P, C), F)) \in Fractions
      /\ Is(Plus(S, Minus(Plus(P, C), F)), s + ((p + c) - f), d)
      /\ s + ((p + c) - f) \in Int
  BY <1>2, <1>4, PlusIs
<1>6. Minus(H, C) \in Fractions /\ Is(Minus(H, C), h - c, d) /\ h - c \in Int
  BY <1>2, MinusIs
<1>7. /\ Plus(Plus(S, Minus(Plus(P, C), F)), Minus(H, C)) \in Fractions
      /\ Is(Plus(Plus(S, Minus(Plus(P, C), F)), Minus(H, C)), (s + ((p + c) - f)) + (h - c), d)
  BY <1>2, <1>5, <1>6, PlusIs
<1>8. Minus(P, F) \in Fractions /\ Is(Minus(P, F), p - f, d) /\ p - f \in Int
  BY <1>2, MinusIs
<1>9. /\ Plus(S, Minus(P, F)) \in Fractions /\ Is(Plus(S, Minus(P, F)), s + (p - f), d)
      /\ s + (p - f) \in Int
  BY <1>2, <1>8, PlusIs
<1>10. /\ Plus(Plus(S, Minus(P, F)), H) \in Fractions
       /\ Is(Plus(Plus(S, Minus(P, F)), H), (s + (p - f)) + h, d)
  BY <1>2, <1>9, PlusIs
<1>11. (s + ((p + c) - f)) + (h - c) = (s + (p - f)) + h /\ (s + (p - f)) + h \in Int
  OBVIOUS
<1> QED BY <1>2, <1>7, <1>10, <1>11, SameIs

LEMMA EquityBalances == AccountInv => EquityIsMoneyPlusHoldings
<1> SUFFICES ASSUME AccountInv PROVE EquityIsMoneyPlusHoldings
  OBVIOUS
<1>1. AccountType
  BY DEF AccountInv
<1> DEFINE mark == [c \in Coins |-> MarkOf(c, positions, marks)]
           held == [c \in Coins |-> Times(positions[c].quantity, MarkOf(c, positions, marks))]
           open == [c \in Coins |-> Times(positions[c].quantity,
                                          Minus(MarkOf(c, positions, marks), positions[c].average))]
           moved == [f \in delivered |-> Minus(Times(Whole(-1), Times(Signed(f), f.price)), f.fee)]
           P == Added(PaidBy, delivered)
           C == Added(Cost(positions), Coins)
           F == Added(FeeOf, delivered)
           H == Added(held, Coins)
<1>2. Added(open, Coins) = Minus(H, C) /\ H \in Fractions
  <2>1. \A c \in Coins : /\ held[c] \in Fractions /\ Cost(positions)[c] \in Fractions
                         /\ open[c] = Minus(held[c], Cost(positions)[c])
    <3> SUFFICES ASSUME NEW c \in Coins
                 PROVE  /\ held[c] \in Fractions /\ Cost(positions)[c] \in Fractions
                        /\ open[c] = Minus(held[c], Cost(positions)[c])
      OBVIOUS
    <3>1. /\ positions[c].quantity \in Fractions /\ positions[c].average \in Fractions
          /\ MarkOf(c, positions, marks) \in Fractions
      BY <1>1 DEF AccountType, MarkOf
    <3>2. Times(positions[c].quantity, Minus(MarkOf(c, positions, marks), positions[c].average))
            = Minus(Times(positions[c].quantity, MarkOf(c, positions, marks)),
                    Times(positions[c].quantity, positions[c].average))
      BY <3>1, TimesDistributes
    <3> QED BY <3>1, <3>2, TimesType DEF Cost
  <2> HIDE DEF held, open
  <2>2. Added(open, Coins) = Minus(Added(held, Coins), Added(Cost(positions), Coins))
    BY <2>1, ConstantFacts, AddedMinus
  <2>3. Added(held, Coins) \in Fractions
    BY <2>1, ConstantFacts, AddedType
  <2> QED BY <2>2, <2>3
<1>3. /\ P \in Fractions /\ F \in Fractions
      /\ \A f \in delivered : PaidBy[f] \in Fractions /\ FeeOf[f] \in Fractions
  BY <1>1, PaidType DEF AccountType
<1>4. Added(moved, delivered) = Minus(P, F)
  <2>1. \A f \in delivered : moved[f] = Minus(PaidBy[f], FeeOf[f])
    BY <1>1 DEF AccountType, PaidBy, Paid, FeeOf
  <2> HIDE DEF moved
  <2> QED BY <1>1, <1>3, <2>1, AddedMinus DEF AccountType
<1>5. C \in Fractions
  BY <1>1, CostType
<1>6. gross = Plus(P, C) /\ fees = F
  BY DEF AccountInv
<1>7. Equity = Plus(Plus(Starting, Minus(gross, fees)), Added(open, Coins))
  BY DEF Equity, EquityOf, Unrealized, SumOver, Added
<1>8. EquityIsMoneyPlusHoldings <=>
        Equity = Plus(Plus(Starting, Added(moved, delivered)), H)
  BY DEF EquityIsMoneyPlusHoldings, SumOver, Added
<1> HIDE DEF held, open, moved, P, C, F, H
<1>9. Plus(Plus(Starting, Minus(Plus(P, C), F)), Minus(H, C)) = Plus(Plus(Starting, Minus(P, F)), H)
  BY <1>2, <1>3, <1>5, ConstantFacts, Balance
<1> QED BY <1>2, <1>4, <1>6, <1>7, <1>8, <1>9

LEMMA DaysBalance == AccountInv => DailySumsToRealized
<1> SUFFICES ASSUME AccountInv PROVE DailySumsToRealized
  OBVIOUS
<1> DEFINE same == [d \in Days |-> daily[d]]
<1>1. Added(same, Days) = Added(daily, Days)
  <2>1. \A d \in Days : same[d] = daily[d]
    OBVIOUS
  <2> HIDE DEF same
  <2> QED BY <2>1, ConstantFacts, AddedSame
<1>2. SumOver(Days, LAMBDA d : daily[d]) = Added(same, Days)
  BY DEF SumOver, Added
<1> QED BY <1>1, <1>2 DEF DailySumsToRealized, AccountInv

(* AccountTracker: whatever executions of whatever coins are delivered, in *)
(* whatever order, late or again, equity is the money they moved plus the  *)
(* holdings at their marks, and the profits of the days add up to the      *)
(* realized profit.                                                        *)
THEOREM MoneyAddsUp == Spec => []MoneyIsAccountedFor
<1>1. AccountInv => MoneyIsAccountedFor
  BY EquityBalances, DaysBalance DEF MoneyIsAccountedFor
<1> QED BY <1>1, AccountInvHolds, PTL

(* AccountTracker._update_peak_equity: with every step the peak is the     *)
(* larger of the old peak and the equity the step leaves.                  *)
THEOREM PeakIsHighest == Spec => PeakIsHighWater
<1> DEFINE now == EquityOf(positions', marks', gross', fees')
           Step == /\ AtMost(peak, peak')
                   /\ AtMost(now, peak')
                   /\ peak' # peak => peak' = now
<1>1. AccountInv /\ AccountInv' /\ [Next]_vars => [Step]_vars
  <2> SUFFICES ASSUME AccountInv, AccountInv', Next PROVE Step \/ UNCHANGED vars
    OBVIOUS
  <2>1. peak' = Greatest(peak, now) => Step
    <3>1. peak \in Fractions /\ now \in Fractions
      BY EquityType DEF AccountInv, AccountType
    <3> HIDE DEF now
    <3>2. /\ AtMost(peak, now) \/ AtMost(now, peak)
          /\ AtMost(peak, peak) /\ AtMost(now, now)
      BY <3>1, OrderByDifference
    <3> QED BY <3>2 DEF Greatest
  <2>2. ASSUME NEW fill \in Arriving, ApplyFill(fill) PROVE Step \/ UNCHANGED vars
    <3>1. UNCHANGED vars \/ BookFill(fill)
      BY <2>2, Delivery
    <3>2. BookFill(fill) => peak' = Greatest(peak, now)
      BY DEF BookFill, UpdatePeak
    <3> QED BY <2>1, <3>1, <3>2
  <2>3. ASSUME NEW c \in Coins, NEW price \in Prices, UpdateMark(c, price) PROVE Step
    BY <2>1, <2>3 DEF UpdateMark, UpdatePeak
  <2> QED BY <2>2, <2>3 DEF Next
<1> QED BY <1>1, AccountInvHolds, PTL DEF Spec, PeakIsHighWater

-----------------------------------------------------------------------------
(* Average prices.                                                         *)

(* A weighted mean is on no side of a number that both of its parts are not.*)
LEMMA WeightedMean ==
    ASSUME NEW k \in Int, NEW m \in Int, k >= 0, m > 0,
           NEW x \in Int, NEW y \in Int, NEW z \in Int, NEW c \in Int,
           z * (k + m) = k * x + m * y
    PROVE  /\ (k = 0 \/ c <= x) /\ c <= y => c <= z
           /\ (k = 0 \/ x <= c) /\ y <= c => z <= c
<1>1. \A i, j \in Int : i >= 0 /\ j >= 0 => i * j >= 0
  OBVIOUS
<1>2. \A i, j \in Int : i > 0 /\ j > 0 => i * j > 0
  OBVIOUS
<1>3. ASSUME k = 0 \/ c <= x, c <= y, ~(c <= z) PROVE FALSE
  <2>1. (c - z) * (k + m) > 0
    BY <1>2, <1>3, c - z \in Int, k + m \in Int
  <2>2. k * (x - c) >= 0
    <3>1. CASE k = 0
      BY <3>1
    <3>2. CASE c <= x
      BY <1>1, <3>2, x - c \in Int
    <3> QED BY <1>3, <3>1, <3>2
  <2>3. m * (y - c) >= 0
    BY <1>1, <1>3, y - c \in Int
  <2>4. k * (x - c) + m * (y - c) = z * (k + m) - c * (k + m)
    <3>1. k * (x - c) = k * x - k * c /\ m * (y - c) = m * y - m * c
      OBVIOUS
    <3>2. c * (k + m) = k * c + m * c
      OBVIOUS
    <3> QED BY <3>1, <3>2
  <2>5. (c - z) * (k + m) = c * (k + m) - z * (k + m)
    OBVIOUS
  <2> QED BY <2>1, <2>2, <2>3, <2>4, <2>5
<1>4. ASSUME k = 0 \/ x <= c, y <= c, ~(z <= c) PROVE FALSE
  <2>1. (z - c) * (k + m) > 0
    BY <1>2, <1>4, z - c \in Int, k + m \in Int
  <2>2. k * (c - x) >= 0
    <3>1. CASE k = 0
      BY <3>1
    <3>2. CASE x <= c
      BY <1>1, <3>2, c - x \in Int
    <3> QED BY <1>4, <3>1, <3>2
  <2>3. m * (c - y) >= 0
    BY <1>1, <1>4, c - y \in Int
  <2>4. k * (c - x) + m * (c - y) = c * (k + m) - z * (k + m)
    <3>1. k * (c - x) = k * c - k * x /\ m * (c - y) = m * c - m * y
      OBVIOUS
    <3>2. c * (k + m) = k * c + m * c
      OBVIOUS
    <3> QED BY <3>1, <3>2
  <2>5. (z - c) * (k + m) = z * (k + m) - c * (k + m)
    OBVIOUS
  <2> QED BY <2>1, <2>2, <2>3, <2>4, <2>5
<1> QED BY <1>3, <1>4

(* A growing position's new average is between its old one and the price.  *)
LEMMA AverageBetween ==
    ASSUME NEW f \in Fill, NEW old, old.quantity \in Fractions, old.average \in Fractions,
           Grows(old, f), NEW p \in Fractions
    PROVE  /\ (old.quantity = Zero \/ AtMost(p, old.average)) /\ AtMost(p, f.price)
                => AtMost(p, NewAverage(old, f))
           /\ (old.quantity = Zero \/ AtMost(old.average, p)) /\ AtMost(f.price, p)
                => AtMost(NewAverage(old, f), p)
<1> DEFINE a == NewAverage(old, f)
           q == old.quantity
           W == Grown(old, f)
           N == Spent(old, f)
<1>1. f.quantity \in Fractions /\ f.price \in Fractions /\ Below(Zero, f.quantity)
  BY FillFacts
<1>2. a = Over(N, W) /\ a \in Fractions
  BY GrowthMoney
<1>3. PICK g \in Int, x \in Int, y \in Int, z \in Int, c \in Int :
         Over2(old.average, f.price, g, x, y) /\ Over2(a, p, g, z, c)
  BY <1>1, <1>2, Common4
<1>4. PICK d \in Int, n \in Int, m \in Int : Over2(q, f.quantity, d, n, m)
  BY <1>1, Common2
<1>5. /\ g > 0 /\ Is(old.average, x, g) /\ Is(f.price, y, g) /\ Is(a, z, g) /\ Is(p, c, g)
      /\ d > 0 /\ Is(q, n, d) /\ Is(f.quantity, m, d)
  BY <1>3, <1>4 DEF Over2
<1>6. m > 0
  <2>1. Zero \in Fractions /\ Is(Zero, 0, d)
    BY ZeroIs
  <2>2. Below(Zero, f.quantity) <=> 0 < m
    BY <1>1, <1>5, <2>1, OrderIs
  <2> QED BY <1>1, <2>2
<1>7. Measures(old, f, d, n, m, g, x, y)
  BY <1>5, <1>6 DEF Measures
<1>8. /\ W \in Fractions /\ Is(W, Abs(n) + m, d)
      /\ N \in Fractions /\ Is(N, Abs(n) * x + m * y, d * g)
      /\ Times(a, W) = N
  BY <1>2, <1>7, GrownIs
<1>9. Abs(n) \in Int /\ Abs(n) >= 0 /\ (Abs(n) = 0 <=> n = 0) /\ Abs(n) + m \in Int
  BY DEF Abs
<1>10. q = Zero <=> Abs(n) = 0
  BY <1>5, <1>9, SignIs
<1>11. d * g \in Int /\ d * g # 0 /\ g * d = d * g
  BY <1>5, NonZeroProduct
<1>12. z * (Abs(n) + m) = Abs(n) * x + m * y
  <2> DEFINE w == Abs(n) + m
             v == Abs(n) * x + m * y
  <2>1. w \in Int /\ v \in Int /\ z * w \in Int
    BY <1>9
  <2> HIDE DEF w, v, W, N, a
  <2>2. Is(Times(a, W), z * w, g * d)
    BY <1>2, <1>5, <1>8, <2>1, TimesIs DEF w
  <2>3. Is(N, z * w, d * g)
    BY <1>8, <1>11, <2>2
  <2>4. z * w = v
    BY <1>8, <1>11, <2>1, <2>3, SameIs DEF v
  <2> QED BY <2>4 DEF w, v
<1>13. /\ (Abs(n) = 0 \/ c <= x) /\ c <= y => c <= z
       /\ (Abs(n) = 0 \/ x <= c) /\ y <= c => z <= c
  <2> DEFINE k == Abs(n)
  <2>1. k \in Int /\ k >= 0 /\ z * (k + m) = k * x + m * y
    BY <1>9, <1>12
  <2> HIDE DEF k
  <2>2. /\ (k = 0 \/ c <= x) /\ c <= y => c <= z
        /\ (k = 0 \/ x <= c) /\ y <= c => z <= c
    BY <1>6, <2>1, WeightedMean
  <2> QED BY <2>2 DEF k
<1>14. /\ AtMost(p, old.average) <=> c <= x
       /\ AtMost(old.average, p) <=> x <= c
       /\ AtMost(p, f.price) <=> c <= y
       /\ AtMost(f.price, p) <=> y <= c
       /\ AtMost(p, a) <=> c <= z
       /\ AtMost(a, p) <=> z <= c
  <2> HIDE DEF a
  <2> QED BY <1>1, <1>2, <1>5, OrderIs
<1> HIDE DEF a, q
<1> QED BY <1>10, <1>13, <1>14 DEF a, q

(* One coin's average, in the light of the prices paid.                    *)
Fair(position, paid) ==
    IF position.quantity = Zero THEN position.average = NoPrice
    ELSE /\ \E p \in paid : AtMost(p, position.average)
         /\ \E p \in paid : AtMost(position.average, p)

LEMMA FillKeepsFair ==
    ASSUME NEW f \in Fill, NEW old, old.quantity \in Fractions, old.average \in Fractions,
           NEW paid \in SUBSET Fractions, NEW more \in SUBSET Fractions,
           more = paid \cup {f.price}, Fair(old, paid)
    PROVE  Fair([quantity |-> Plus(old.quantity, Signed(f)), average |-> NewAverage(old, f)], more)
<1> DEFINE new == Plus(old.quantity, Signed(f))
           a == NewAverage(old, f)
<1>1. new \in Fractions /\ a \in Fractions /\ f.price \in Fractions
  BY FillMoney, FillFacts
<1>2. \A x \in Fractions : AtMost(x, x)
  BY OrderByDifference
<1>3. \A x, y \in Fractions : AtMost(x, y) \/ AtMost(y, x)
  BY OrderByDifference
<1>4. \A x, y, z \in Fractions : AtMost(x, y) /\ AtMost(y, z) => AtMost(x, z)
  BY AtMostChains
<1>5. CASE Grows(old, f)
  <2>1. new # Zero
    BY <1>5, GrowthMoney
  <2>2. /\ \E p \in more : AtMost(p, a)
        /\ \E p \in more : AtMost(a, p)
    <3> HIDE DEF a
    <3>0. \A p \in Fractions :
            /\ (old.quantity = Zero \/ AtMost(p, old.average)) /\ AtMost(p, f.price) => AtMost(p, a)
            /\ (old.quantity = Zero \/ AtMost(old.average, p)) /\ AtMost(f.price, p) => AtMost(a, p)
      BY <1>5, AverageBetween DEF a
    <3>1. CASE old.quantity = Zero
      BY <1>1, <1>2, <3>0, <3>1
    <3>2. CASE old.quantity # Zero
      <4>1. PICK l \in paid : AtMost(l, old.average)
        BY <3>2 DEF Fair
      <4>2. PICK h \in paid : AtMost(old.average, h)
        BY <3>2 DEF Fair
      <4>3. AtMost(l, f.price) => AtMost(l, a)
        BY <3>0, <4>1
      <4>4. AtMost(f.price, l) => AtMost(f.price, a)
        BY <1>1, <1>2, <1>4, <3>0, <4>1
      <4>5. AtMost(f.price, h) => AtMost(a, h)
        BY <3>0, <4>2
      <4>6. AtMost(h, f.price) => AtMost(a, f.price)
        BY <1>1, <1>2, <1>4, <3>0, <4>2
      <4>7. l \in more /\ h \in more /\ f.price \in more /\ l \in Fractions /\ h \in Fractions
        OBVIOUS
      <4> QED BY <1>1, <1>3, <4>3, <4>4, <4>5, <4>6, <4>7
    <3> QED BY <3>1, <3>2
  <2> QED BY <2>1, <2>2 DEF Fair
<1>6. CASE ~Grows(old, f)
  <2>1. IF new = Zero THEN a = NoPrice ELSE a \in {old.average, f.price}
    BY <1>6, ReductionMoney
  <2>2. old.quantity # Zero
    BY <1>6, ZeroIs DEF Grows, Sign, Zero, Whole
  <2>3. /\ \E p \in paid : AtMost(p, old.average)
        /\ \E p \in paid : AtMost(old.average, p)
    BY <2>2 DEF Fair
  <2> HIDE DEF new, a
  <2>4. Fair([quantity |-> new, average |-> a], more)
    BY <1>1, <1>2, <2>1, <2>3 DEF Fair
  <2> QED BY <2>4 DEF new, a
<1> QED BY <1>5, <1>6

(* LivePosition.__post_init__ accepts every position apply_fill builds: it *)
(* has an average price exactly when it is open, and then one between the  *)
(* prices of its coin's executions.                                        *)
THEOREM AveragesAreFair == Spec => []AverageIsFairPrice
<1> DEFINE PaidFor(c, S) == {f.price : f \in {g \in S : g.coin = c}}
<1>1. Init => AverageIsFairPrice
  BY DEF Init, AverageIsFairPrice, Flat, NoPrice
<1>2. AccountInv /\ AverageIsFairPrice /\ [Next]_vars => AverageIsFairPrice'
  <2> SUFFICES ASSUME AccountInv, AverageIsFairPrice, [Next]_vars PROVE AverageIsFairPrice'
    OBVIOUS
  <2>0. AccountType /\ \A c \in Coins : Fair(positions[c], PaidFor(c, delivered))
    BY DEF AccountInv, AverageIsFairPrice, Fair
  <2>1. UNCHANGED <<positions, delivered>> => AverageIsFairPrice'
    BY DEF AverageIsFairPrice
  <2>2. ASSUME NEW fill \in Fill, delivered' = delivered \cup {fill}, BookFill(fill)
        PROVE  AverageIsFairPrice'
    <3> DEFINE old == positions[fill.coin]
               new == [quantity |-> Plus(old.quantity, Signed(fill)),
                       average |-> NewAverage(old, fill)]
    <3>1. positions' = [positions EXCEPT ![fill.coin] = new]
      BY <2>2 DEF BookFill
    <3>2. \A c \in Coins : Fair(positions'[c], PaidFor(c, delivered'))
      <4> SUFFICES ASSUME NEW c \in Coins PROVE Fair(positions'[c], PaidFor(c, delivered'))
        OBVIOUS
      <4>1. CASE c = fill.coin
        <5>1. PaidFor(c, delivered') = PaidFor(c, delivered) \cup {fill.price}
          BY <2>2, <4>1
        <5>2. /\ PaidFor(c, delivered) \in SUBSET Fractions
              /\ PaidFor(c, delivered') \in SUBSET Fractions
          BY <2>0, <2>2, FillFacts DEF AccountType
        <5>3. old.quantity \in Fractions /\ old.average \in Fractions /\ old = positions[c]
          BY <2>0, <4>1 DEF AccountType
        <5>4. positions'[c] = new
          BY <2>0, <3>1, <4>1 DEF AccountType
        <5>5. Fair(old, PaidFor(c, delivered))
          BY <2>0, <5>3
        <5> HIDE DEF PaidFor, old
        <5>6. Fair(new, PaidFor(c, delivered'))
          BY <5>1, <5>2, <5>3, <5>5, FillKeepsFair
        <5> QED BY <5>4, <5>6
      <4>2. CASE c # fill.coin
        <5>1. PaidFor(c, delivered') = PaidFor(c, delivered)
          BY <2>2, <4>2
        <5>2. positions'[c] = positions[c]
          BY <2>0, <3>1, <4>2 DEF AccountType
        <5> QED BY <2>0, <5>1, <5>2
      <4> QED BY <4>1, <4>2
    <3> QED BY <3>2 DEF AverageIsFairPrice, Fair
  <2>3. CASE UNCHANGED vars
    BY <2>1, <2>3 DEF vars
  <2>4. ASSUME NEW fill \in Arriving, ApplyFill(fill) PROVE AverageIsFairPrice'
    BY <2>2, <2>3, <2>4, Delivery
  <2>5. ASSUME NEW c \in Coins, NEW price \in Prices, UpdateMark(c, price)
        PROVE  AverageIsFairPrice'
    BY <2>1, <2>5 DEF UpdateMark
  <2> QED BY <2>3, <2>4, <2>5 DEF Next
<1> QED BY <1>1, <1>2, AccountInvHolds, PTL DEF Spec

-----------------------------------------------------------------------------
(* A wallet's trading episodes.                                            *)

WalletFill == [id : Nat, time : Int, start : Int, size : Int, pnl : Int]

(* Fills of the exchange, perhaps not all of them.                         *)
Traded(s) ==
    /\ s \in Seq(WalletFill)
    /\ \A i \in 1 .. Len(s) : s[i].size # 0 /\ (s[i].start = 0 => s[i].pnl = 0)

LEMMA TradedIs ==
    ASSUME NEW s, Traded(s)
    PROVE  /\ s \in Seq(WalletFill) /\ Len(s) \in Nat /\ DOMAIN s = 1 .. Len(s)
           /\ \A i \in 1 .. Len(s) :
                 /\ s[i] \in WalletFill /\ s[i].start \in Int /\ s[i].size \in Int
                 /\ s[i].pnl \in Int /\ End(s[i]) \in Int
                 /\ s[i].start = 0 => s[i].pnl = 0 /\ End(s[i]) # 0
           /\ Connected(s) => \A i \in 1 .. Len(s) : i > 1 => s[i].start = End(s[i - 1])
<1>1. /\ s \in Seq(WalletFill) /\ Len(s) \in Nat /\ DOMAIN s = 1 .. Len(s)
  BY DEF Traded
<1>2. ASSUME NEW i \in 1 .. Len(s)
      PROVE  /\ s[i] \in WalletFill /\ s[i].start \in Int /\ s[i].size \in Int
             /\ s[i].pnl \in Int /\ End(s[i]) \in Int
             /\ s[i].start = 0 => s[i].pnl = 0 /\ End(s[i]) # 0
  <2>1. s[i] \in WalletFill
    BY <1>1
  <2>2. s[i].start \in Int /\ s[i].size \in Int /\ s[i].pnl \in Int
    BY <2>1 DEF WalletFill
  <2>3. s[i].size # 0 /\ (s[i].start = 0 => s[i].pnl = 0)
    BY DEF Traded
  <2> QED BY <2>1, <2>2, <2>3 DEF End
<1>3. ASSUME Connected(s), NEW i \in 1 .. Len(s), i > 1 PROVE s[i].start = End(s[i - 1])
  <2>1. i \in 2 .. Len(s)
    BY <1>1, <1>3
  <2> QED BY <1>3, <2>1 DEF Connected
<1> QED BY <1>1, <1>2, <1>3

LEMMA FlippedIs ==
    ASSUME NEW f, f.start \in Int, End(f) \in Int, Flipped(f)
    PROVE  End(f) # 0 /\ f.start # 0
<1>1. f.start * End(f) < 0
  BY DEF Flipped
<1>2. f.start # 0
  <2> SUFFICES ASSUME f.start = 0 PROVE FALSE
    OBVIOUS
  <2>1. 0 * End(f) < 0
    BY <1>1
  <2> QED BY <2>1
<1>3. End(f) # 0
  <2> SUFFICES ASSUME End(f) = 0 PROVE FALSE
    OBVIOUS
  <2>1. f.start * 0 < 0
    BY <1>1
  <2> QED BY <2>1
<1> QED BY <1>2, <1>3

(* A fill at which a trip begins, and at which one ends.                   *)
Begins(f) == f.start = 0 \/ Flipped(f)
Finishes(f) == End(f) = 0 \/ Flipped(f)

(* A trip that began with i goes on after m.                               *)
Running(s, i, m) ==
    /\ i \in 1 .. m
    /\ Begins(s[i]) /\ End(s[i]) # 0
    /\ \A k \in i + 1 .. m : ~Finishes(s[k])

LEMMA OneRuns ==
    ASSUME NEW s, Traded(s), Connected(s), NEW m \in 0 .. Len(s), NEW i, NEW j,
           Running(s, i, m), Running(s, j, m)
    PROVE  i = j
<1>1. /\ i \in 1 .. m /\ j \in 1 .. m /\ m \in Nat /\ m <= Len(s) /\ Len(s) \in Nat
  BY TradedIs DEF Running
<1>2. ASSUME NEW a \in 1 .. m, NEW b \in 1 .. m, Running(s, a, m), Running(s, b, m), a < b
      PROVE  FALSE
  <2>1. b \in a + 1 .. m /\ b \in 1 .. Len(s) /\ b > 1
    BY <1>1, <1>2
  <2>2. ~Finishes(s[b]) /\ Begins(s[b])
    BY <1>2, <2>1 DEF Running
  <2>3. s[b].start = 0
    BY <2>2 DEF Begins, Finishes
  <2>4. End(s[b - 1]) = 0
    <3>1. s[b].start = End(s[b - 1])
      BY <2>1, TradedIs
    <3> QED BY <2>3, <3>1
  <2>5. CASE b - 1 = a
    BY <1>2, <2>4, <2>5 DEF Running
  <2>6. CASE b - 1 # a
    <3>1. b - 1 \in a + 1 .. m
      BY <1>1, <1>2, <2>6
    <3> QED BY <1>2, <2>4, <3>1 DEF Running, Finishes
  <2> QED BY <2>5, <2>6
<1> QED BY <1>1, <1>2

(* One more fill.                                                          *)
LEMMA RunsOn ==
    ASSUME NEW s, Traded(s), NEW m \in 1 .. Len(s), NEW i
    PROVE  Running(s, i, m) <=> \/ Running(s, i, m - 1) /\ ~Finishes(s[m])
                                \/ i = m /\ Begins(s[m]) /\ End(s[m]) # 0
<1>1. m \in Nat /\ m >= 1
  BY TradedIs
<1>2. ASSUME Running(s, i, m), i # m PROVE Running(s, i, m - 1) /\ ~Finishes(s[m])
  <2>1. i \in 1 .. m - 1 /\ m \in i + 1 .. m
    BY <1>1, <1>2 DEF Running
  <2>2. \A k \in i + 1 .. m - 1 : k \in i + 1 .. m
    BY <1>1, <2>1
  <2> QED BY <1>2, <2>1, <2>2 DEF Running
<1>3. ASSUME Running(s, i, m), i = m PROVE Begins(s[m]) /\ End(s[m]) # 0
  BY <1>3 DEF Running
<1>4. ASSUME Running(s, i, m - 1), ~Finishes(s[m]) PROVE Running(s, i, m)
  <2>1. i \in 1 .. m - 1 /\ i \in 1 .. m
    BY <1>1, <1>4 DEF Running
  <2>2. \A k \in i + 1 .. m : k = m \/ k \in i + 1 .. m - 1
    BY <1>1, <2>1
  <2> QED BY <1>4, <2>1, <2>2 DEF Running
<1>5. ASSUME i = m, Begins(s[m]), End(s[m]) # 0 PROVE Running(s, i, m)
  <2>1. i \in 1 .. m /\ \A k \in i + 1 .. m : FALSE
    BY <1>1, <1>5
  <2> QED BY <1>5, <2>1 DEF Running
<1> QED BY <1>2, <1>3, <1>4, <1>5

(* A trip is one that ran until the fill that ends it.                     *)
LEMMA TripIs ==
    ASSUME NEW s, Traded(s), NEW i \in 1 .. Len(s), NEW j \in 1 .. Len(s)
    PROVE  (i < j /\ IsTrip(s, i, j)) <=> (Running(s, i, j - 1) /\ Finishes(s[j]))
<1>1. Len(s) \in Nat /\ i \in Nat /\ j \in Nat
  BY TradedIs
<1>2. ASSUME i < j, IsTrip(s, i, j) PROVE Running(s, i, j - 1) /\ Finishes(s[j])
  <2>1. i \in 1 .. j - 1 /\ i \in i .. (j - 1)
    BY <1>1, <1>2
  <2>2. \A k \in i + 1 .. j - 1 : k \in i .. (j - 1) /\ k \in (i + 1) .. (j - 1)
    BY <1>1
  <2> QED BY <1>2, <2>1, <2>2 DEF IsTrip, Running, Begins, Finishes
<1>3. ASSUME Running(s, i, j - 1), Finishes(s[j]) PROVE i < j /\ IsTrip(s, i, j)
  <2>1. i \in 1 .. j - 1 /\ i < j
    BY <1>1, <1>3 DEF Running
  <2>2. \A k \in i .. (j - 1) : k = i \/ k \in i + 1 .. j - 1
    BY <1>1, <2>1
  <2>3. \A k \in i .. (j - 1) : End(s[k]) # 0
    BY <1>3, <2>2 DEF Running, Finishes
  <2>4. \A k \in (i + 1) .. (j - 1) : ~Flipped(s[k])
    BY <1>3 DEF Running, Finishes
  <2> QED BY <1>3, <2>1, <2>3, <2>4 DEF IsTrip, Running, Begins, Finishes
<1> QED BY <1>2, <1>3

Gains(s, i, j) == Total([k \in DOMAIN s |-> s[k].pnl], i .. j)

Episode(s, i, j) == [fills |-> SubSeq(s, i, j), pnl |-> Gains(s, i + 1, j)]

TripsUntil(s, m) ==
    {t \in (1 .. Len(s)) \X (1 .. Len(s)) :
        t[2] <= m /\ Running(s, t[1], t[2] - 1) /\ Finishes(s[t[2]])}

EpisodesUntil(s, m) == {Episode(s, t[1], t[2]) : t \in TripsUntil(s, m)}

LEMMA GainsAre ==
    ASSUME NEW s, Traded(s), NEW i \in 1 .. Len(s)
    PROVE  /\ Gains(s, i + 1, i) = 0
           /\ \A j \in 1 .. Len(s) : i <= j => Gains(s, i + 1, j) \in Int
           /\ \A j \in 1 .. Len(s) : i < j => Gains(s, i + 1, j) = Gains(s, i + 1, j - 1) + s[j].pnl
<1> DEFINE p == [k \in DOMAIN s |-> s[k].pnl]
<1>1. /\ Len(s) \in Nat /\ \A k \in 1 .. Len(s) : p[k] = s[k].pnl /\ p[k] \in Int
  BY TradedIs
<1>2. \A a, b : Gains(s, a, b) = Total(p, a .. b)
  BY DEF Gains
<1> HIDE DEF p
<1>f. ASSUME NEW j \in Int, j <= Len(s)
      PROVE  IsFiniteSet(i + 1 .. j) /\ \A k \in i + 1 .. j : p[k] \in Int
  <2>1. i + 1 \in Int
    BY <1>1
  <2>2. IsFiniteSet(i + 1 .. j)
    BY <2>1, <1>f, FS_Interval
  <2>3. \A k \in i + 1 .. j : k \in 1 .. Len(s)
    BY <1>1, <1>f
  <2> QED BY <1>1, <2>2, <2>3
<1>3. Gains(s, i + 1, i) = 0
  <2>1. i + 1 .. i = {}
    BY <1>1
  <2> QED BY <1>2, <2>1, TotalEmpty
<1>4. ASSUME NEW j \in 1 .. Len(s), i <= j PROVE Gains(s, i + 1, j) \in Int
  <2>1. IsFiniteSet(i + 1 .. j) /\ \A k \in i + 1 .. j : p[k] \in Int
    BY <1>f, <1>4
  <2> QED BY <1>2, <2>1, TotalType
<1>5. ASSUME NEW j \in 1 .. Len(s), i < j
      PROVE  Gains(s, i + 1, j) = Gains(s, i + 1, j - 1) + s[j].pnl
  <2>1. IsFiniteSet(i + 1 .. j) /\ (\A k \in i + 1 .. j : p[k] \in Int) /\ j \in i + 1 .. j
    BY <1>1, <1>5, <1>f
  <2>2. (i + 1 .. j) \ {j} = i + 1 .. j - 1
    BY <1>1, <1>5
  <2>3. Total(p, i + 1 .. j) = p[j] + Total(p, (i + 1 .. j) \ {j})
    BY <2>1, TotalPick
  <2>4. Total(p, i + 1 .. j - 1) \in Int
    <3>1. IsFiniteSet(i + 1 .. j - 1) /\ \A k \in i + 1 .. j - 1 : p[k] \in Int
      <4>1. j - 1 \in Int /\ j - 1 <= Len(s)
        BY <1>1
      <4> QED BY <4>1, <1>f
    <3> QED BY <3>1, TotalType
  <2>5. p[j] = s[j].pnl /\ p[j] \in Int
    BY <1>1
  <2>6. Total(p, i + 1 .. j) = Total(p, i + 1 .. j - 1) + p[j]
    <3>1. Total(p, i + 1 .. j) = p[j] + Total(p, i + 1 .. j - 1)
      BY <2>2, <2>3
    <3> QED BY <2>4, <2>5, <3>1
  <2> QED BY <1>2, <2>5, <2>6
<1> QED BY <1>3, <1>4, <1>5

LEMMA SliceIs ==
    ASSUME NEW s, Traded(s), NEW i \in 1 .. Len(s), NEW j \in 1 .. Len(s), i <= j
    PROVE  /\ SubSeq(s, i, j) \in Seq(WalletFill) /\ SubSeq(s, i, j) # <<>>
           /\ SubSeq(s, i, i) = <<s[i]>>
           /\ i < j => SubSeq(s, i, j) = Append(SubSeq(s, i, j - 1), s[j])
<1>1. s \in Seq(WalletFill) /\ Len(s) \in Nat
  BY TradedIs
<1>2. ASSUME NEW m \in 1 .. Len(s), i <= m
      PROVE  /\ SubSeq(s, i, m) \in Seq(WalletFill) /\ Len(SubSeq(s, i, m)) = m - i + 1
             /\ \A k \in 1 .. m - i + 1 : SubSeq(s, i, m)[k] = s[i + k - 1]
  BY <1>1, <1>2, SubSeqProperties
<1>3. SubSeq(s, i, j) # <<>>
  <2>1. Len(SubSeq(s, i, j)) # 0
    BY <1>1, <1>2
  <2> QED BY <2>1
<1>4. SubSeq(s, i, i) = <<s[i]>>
  <2>1. /\ SubSeq(s, i, i) \in Seq(WalletFill) /\ Len(SubSeq(s, i, i)) = 1
        /\ SubSeq(s, i, i)[1] = s[i]
    BY <1>1, <1>2
  <2>2. s[i] \in WalletFill /\ <<s[i]>> \in Seq(WalletFill) /\ Len(<<s[i]>>) = 1 /\ <<s[i]>>[1] = s[i]
    BY TradedIs
  <2> HIDE DEF WalletFill
  <2>3. \A k \in 1 .. Len(SubSeq(s, i, i)) : SubSeq(s, i, i)[k] = <<s[i]>>[k]
    BY <2>1, <2>2
  <2> QED BY <2>1, <2>2, <2>3, SeqEqual
<1>5. ASSUME i < j PROVE SubSeq(s, i, j) = Append(SubSeq(s, i, j - 1), s[j])
  <2>1. j - 1 \in 1 .. Len(s) /\ i <= j - 1 /\ s[j] \in WalletFill
    BY <1>1, <1>5, TradedIs
  <2> DEFINE a == SubSeq(s, i, j)
             b == SubSeq(s, i, j - 1)
             c == Append(b, s[j])
  <2>2. /\ a \in Seq(WalletFill) /\ Len(a) = j - i + 1
        /\ \A k \in 1 .. j - i + 1 : a[k] = s[i + k - 1]
    BY <1>2
  <2>3. /\ b \in Seq(WalletFill) /\ Len(b) = j - i
        /\ \A k \in 1 .. j - i : b[k] = s[i + k - 1]
    <3>1. j - 1 - i + 1 = j - i
      BY <1>1
    <3> QED BY <1>2, <2>1, <3>1
  <2> HIDE DEF a, b
  <2>4. /\ c \in Seq(WalletFill) /\ Len(c) = j - i + 1
        /\ \A k \in 1 .. j - i : c[k] = b[k]
        /\ c[j - i + 1] = s[j]
    BY <1>1, <2>1, <2>3
  <2> HIDE DEF c
  <2>5. \A k \in 1 .. Len(a) : a[k] = c[k]
    <3> TAKE k \in 1 .. Len(a)
    <3>1. CASE k = j - i + 1
      <4>1. i + k - 1 = j
        BY <1>1, <3>1
      <4> QED BY <1>1, <1>5, <2>2, <2>4, <3>1, <4>1
    <3>2. CASE k # j - i + 1
      <4>1. k \in 1 .. j - i
        BY <1>1, <2>2, <3>2
      <4> QED BY <2>2, <2>3, <2>4, <4>1
    <3> QED BY <3>1, <3>2
  <2>6. a = c
    BY <2>2, <2>4, <2>5, SeqEqual
  <2> QED BY <2>6 DEF a, b, c
<1> QED BY <1>2, <1>3, <1>4, <1>5

LEMMA TripsGrow ==
    ASSUME NEW s, Traded(s), NEW m \in 1 .. Len(s)
    PROVE  /\ (\A i : ~Running(s, i, m - 1)) \/ ~Finishes(s[m]) =>
                 EpisodesUntil(s, m) = EpisodesUntil(s, m - 1)
           /\ EpisodesUntil(s, m - 1) \subseteq EpisodesUntil(s, m)
           /\ \A i : Running(s, i, m - 1) /\ Finishes(s[m]) =>
                 /\ Episode(s, i, m) \in EpisodesUntil(s, m)
                 /\ Connected(s) =>
                       EpisodesUntil(s, m) = EpisodesUntil(s, m - 1) \cup {Episode(s, i, m)}
<1>1. m \in Nat /\ Len(s) \in Nat
  BY TradedIs
<1>2. \A t \in TripsUntil(s, m) : t \in TripsUntil(s, m - 1)
         \/ (t[2] = m /\ Running(s, t[1], m - 1) /\ Finishes(s[m]))
  <2> TAKE t \in TripsUntil(s, m)
  <2>1. /\ t \in (1 .. Len(s)) \X (1 .. Len(s)) /\ t[2] \in Nat /\ t[2] <= m
        /\ Running(s, t[1], t[2] - 1) /\ Finishes(s[t[2]])
    BY DEF TripsUntil
  <2>2. CASE t[2] = m
    BY <2>1, <2>2
  <2>3. CASE t[2] # m
    <3>1. t[2] <= m - 1
      BY <1>1, <2>1, <2>3
    <3> QED BY <2>1, <3>1 DEF TripsUntil
  <2> QED BY <2>2, <2>3
<1>3. TripsUntil(s, m - 1) \subseteq TripsUntil(s, m)
  BY <1>1 DEF TripsUntil
<1>4. ASSUME (\A i : ~Running(s, i, m - 1)) \/ ~Finishes(s[m])
      PROVE  EpisodesUntil(s, m) = EpisodesUntil(s, m - 1)
  <2>1. TripsUntil(s, m) = TripsUntil(s, m - 1)
    BY <1>2, <1>3, <1>4
  <2> QED BY <2>1 DEF EpisodesUntil
<1>6. EpisodesUntil(s, m - 1) \subseteq EpisodesUntil(s, m)
  BY <1>3 DEF EpisodesUntil
<1>5. ASSUME NEW i, Running(s, i, m - 1), Finishes(s[m])
      PROVE  /\ Episode(s, i, m) \in EpisodesUntil(s, m)
             /\ Connected(s) =>
                   EpisodesUntil(s, m) = EpisodesUntil(s, m - 1) \cup {Episode(s, i, m)}
  <2>1. i \in 1 .. Len(s) /\ m - 1 \in 0 .. Len(s)
    BY <1>1, <1>5 DEF Running
  <2>2. <<i, m>> \in TripsUntil(s, m)
    BY <1>1, <1>5, <2>1 DEF TripsUntil
  <2>5. ASSUME Connected(s)
        PROVE  EpisodesUntil(s, m) \subseteq EpisodesUntil(s, m - 1) \cup {Episode(s, i, m)}
    <3>1. \A t \in TripsUntil(s, m) : t \in TripsUntil(s, m - 1) \/ (t[1] = i /\ t[2] = m)
      BY <1>2, <1>5, <2>1, <2>5, OneRuns
    <3>2. ASSUME NEW t \in TripsUntil(s, m)
          PROVE  Episode(s, t[1], t[2]) \in EpisodesUntil(s, m - 1) \cup {Episode(s, i, m)}
      BY <3>1 DEF EpisodesUntil
    <3> QED BY <3>2 DEF EpisodesUntil
  <2>7. Episode(s, i, m) \in EpisodesUntil(s, m)
    <3>1. <<i, m>>[1] = i /\ <<i, m>>[2] = m
      OBVIOUS
    <3> QED BY <2>2, <3>1 DEF EpisodesUntil
  <2> QED BY <1>6, <2>5, <2>7
<1> QED BY <1>4, <1>5, <1>6

EpisodeRecords == [fills : Seq(WalletFill), pnl : Int]
Builders == [episodes : Seq(EpisodeRecords), current : Seq(WalletFill), pnl : Int,
             synchronized : BOOLEAN]

(* The episodes so far are trips, and all of them if the fills are         *)
(* connected.                                                              *)
Kept(s, m, b) ==
    /\ ToSet(b.episodes) \subseteq EpisodesUntil(s, m)
    /\ Connected(s) => ToSet(b.episodes) = EpisodesUntil(s, m)

(* What the builder knows after m fills.                                   *)
Follows(s, m, b) ==
    /\ b \in Builders
    /\ Kept(s, m, b)
    /\ Connected(s) /\ b.current = <<>> =>
          /\ \A i : ~Running(s, i, m)
          /\ b.synchronized => m >= 1 /\ End(s[m]) = 0
    /\ b.current # <<>> =>
          /\ b.synchronized
          /\ \E i : /\ Running(s, i, m) /\ b.current = SubSeq(s, i, m)
                    /\ b.pnl = Gains(s, i + 1, m)

Builder(e, t, p, y) == [episodes |-> e, current |-> t, pnl |-> p, synchronized |-> y]

LEMMA BuilderIs ==
    ASSUME NEW e \in Seq(EpisodeRecords), NEW t \in Seq(WalletFill), NEW p \in Int,
           NEW y \in BOOLEAN, NEW c, c = Builder(e, t, p, y)
    PROVE  /\ c \in Builders /\ c.episodes = e /\ c.current = t /\ c.pnl = p
           /\ c.synchronized = y
<1> DEFINE F == Seq(WalletFill)
           E == Seq(EpisodeRecords)
<1>1. e \in E /\ t \in F
  OBVIOUS
<1> HIDE DEF E, F
<1>2. /\ c \in [episodes : E, current : F, pnl : Int, synchronized : BOOLEAN]
      /\ c.episodes = e /\ c.current = t /\ c.pnl = p /\ c.synchronized = y
  BY <1>1 DEF Builder
<1> QED BY <1>2 DEF Builders, E, F

LEMMA BuilderHas ==
    ASSUME NEW b \in Builders
    PROVE  /\ b.episodes \in Seq(EpisodeRecords) /\ b.current \in Seq(WalletFill)
           /\ b.pnl \in Int /\ b.synchronized \in BOOLEAN
           /\ b = Builder(b.episodes, b.current, b.pnl, b.synchronized)
BY DEF Builders, Builder

LEMMA BuilderAltered ==
    ASSUME NEW b \in Builders, NEW q, NEW n, NEW c, c = [b EXCEPT !.current = q, !.pnl = n]
    PROVE  c = Builder(b.episodes, q, n, b.synchronized)
<1> DEFINE F == Seq(WalletFill)
           E == Seq(EpisodeRecords)
<1>1. b \in [episodes : E, current : F, pnl : Int, synchronized : BOOLEAN]
  BY DEF Builders
<1> HIDE DEF E, F
<1> QED BY <1>1 DEF Builder

(* A trip begins.                                                          *)
Began(b, f) == [b EXCEPT !.synchronized = TRUE, !.current = <<f>>, !.pnl = 0]

LEMMA BeganIs ==
    ASSUME NEW b \in Builders, NEW f \in WalletFill, NEW c, c = Began(b, f)
    PROVE  /\ c \in Builders /\ c.episodes = b.episodes /\ c.current = <<f>>
           /\ c.pnl = 0 /\ c.synchronized
<1>1. b.episodes \in Seq(EpisodeRecords) /\ <<f>> \in Seq(WalletFill)
  BY BuilderHas
<1> DEFINE t == <<f>>
<1>2. c = Builder(b.episodes, t, 0, TRUE)
  <2> HIDE DEF t
  <2>1. c = [b EXCEPT !.synchronized = TRUE, !.current = t, !.pnl = 0]
    BY DEF Began, t
  <2> QED BY <2>1, BuilderHas DEF Builder
<1>3. t \in Seq(WalletFill)
  BY <1>1
<1> HIDE DEF t
<1>4. /\ c \in Builders /\ c.episodes = b.episodes /\ c.current = t
      /\ c.pnl = 0 /\ c.synchronized = TRUE
  <2> DEFINE y == TRUE
             p == 0
  <2>1. y \in BOOLEAN /\ p \in Int /\ c = Builder(b.episodes, t, p, y)
    BY <1>2
  <2> HIDE DEF y, p
  <2>2. /\ c \in Builders /\ c.episodes = b.episodes /\ c.current = t
        /\ c.pnl = p /\ c.synchronized = y
    BY <1>1, <1>3, <2>1, BuilderIs
  <2> QED BY <2>2 DEF y, p
<1> QED BY <1>4 DEF t

(* An episode is made, and another one may begin with the same fill.       *)
Made(b, t, f, p) ==
    [MakeEpisode([b EXCEPT !.current = Append(@, f), !.pnl = @ + p])
       EXCEPT !.current = t, !.pnl = 0]

LEMMA MadeBuilder ==
    ASSUME NEW b \in Builders, NEW f \in WalletFill, NEW t \in Seq(WalletFill), NEW p \in Int,
           NEW c, c = Made(b, t, f, p)
    PROVE  /\ c \in Builders /\ c.current = t /\ c.pnl = 0 /\ c.synchronized = b.synchronized
           /\ c.episodes = Append(b.episodes, [fills |-> Append(b.current, f), pnl |-> b.pnl + p])
<1> DEFINE q == Append(b.current, f)
           n == b.pnl + p
           e == [fills |-> q, pnl |-> n]
           l == Append(b.episodes, e)
           grown == [b EXCEPT !.current = Append(@, f), !.pnl = @ + p]
           made == [grown EXCEPT !.episodes = Append(@, [fills |-> grown.current, pnl |-> grown.pnl])]
<1>1. /\ b.episodes \in Seq(EpisodeRecords) /\ b.current \in Seq(WalletFill) /\ b.pnl \in Int
      /\ b.synchronized \in BOOLEAN
  BY BuilderHas
<1>2. q \in Seq(WalletFill) /\ n \in Int
  <2> HIDE DEF WalletFill
  <2> QED BY <1>1
<1>3. e \in EpisodeRecords
  <2> HIDE DEF q, n
  <2> QED BY <1>2 DEF EpisodeRecords
<1>4. l \in Seq(EpisodeRecords)
  <2> HIDE DEF EpisodeRecords, e
  <2> QED BY <1>1, <1>3
<1>5. grown = Builder(b.episodes, q, n, b.synchronized)
  <2>1. grown = [b EXCEPT !.current = q, !.pnl = n]
    OBVIOUS
  <2> HIDE DEF grown, q, n
  <2> QED BY <2>1, BuilderAltered
<1>6. c = [made EXCEPT !.current = t, !.pnl = 0]
  BY DEF Made, MakeEpisode
<1> HIDE DEF grown, q, n
<1>7. made = Builder(l, q, n, b.synchronized)
  <2>1. [fills |-> grown.current, pnl |-> grown.pnl] = e /\ grown.episodes = b.episodes
    BY <1>5 DEF Builder
  <2> HIDE DEF e
  <2>2. made = [grown EXCEPT !.episodes = l]
    BY <2>1
  <2> HIDE DEF made, l
  <2> QED BY <1>5, <2>2 DEF Builder
<1> HIDE DEF made, l
<1>8. c = Builder(l, t, 0, b.synchronized)
  BY <1>6, <1>7 DEF Builder
<1>9. /\ c \in Builders /\ c.current = t /\ c.pnl = 0 /\ c.synchronized = b.synchronized
      /\ c.episodes = l
  BY <1>1, <1>4, <1>8, BuilderIs
<1> QED BY <1>9 DEF l, q, n

LEMMA FirstFollows == \A s : Follows(s, 0, NoEpisodes)
<1> TAKE s
<1>1. NoEpisodes \in Builders /\ NoEpisodes.current = <<>> /\ ~NoEpisodes.synchronized
  BY DEF NoEpisodes, Builders
<1>2. \A i : ~Running(s, i, 0)
  BY DEF Running
<1>3. TripsUntil(s, 0) = {}
  BY DEF TripsUntil
<1>4. ToSet(NoEpisodes.episodes) = {} /\ EpisodesUntil(s, 0) = {}
  BY <1>3 DEF EpisodesUntil, NoEpisodes, ToSet
<1> QED BY <1>1, <1>2, <1>4 DEF Follows, Kept

LEMMA MadeIs ==
    ASSUME NEW e \in Seq(EpisodeRecords), NEW x \in EpisodeRecords
    PROVE  Append(e, x) \in Seq(EpisodeRecords) /\ ToSet(Append(e, x)) = ToSet(e) \cup {x}
<1> HIDE DEF EpisodeRecords
<1>1. /\ Append(e, x) \in Seq(EpisodeRecords) /\ Len(e) \in Nat /\ Len(Append(e, x)) = Len(e) + 1
      /\ \A i \in 1 .. Len(e) : Append(e, x)[i] = e[i]
      /\ Append(e, x)[Len(e) + 1] = x
  OBVIOUS
<1>2. DOMAIN e = 1 .. Len(e) /\ DOMAIN Append(e, x) = 1 .. Len(e) + 1
  BY <1>1
<1> DEFINE t == Append(e, x)
<1> HIDE DEF t
<1>3. /\ DOMAIN t = 1 .. Len(e) + 1 /\ (\A i \in 1 .. Len(e) : t[i] = e[i]) /\ t[Len(e) + 1] = x
  BY <1>1, <1>2 DEF t
<1>4. ASSUME NEW i \in 1 .. Len(e) + 1 PROVE t[i] \in ToSet(e) \cup {x}
  <2>1. CASE i = Len(e) + 1
    BY <1>3, <2>1
  <2>2. CASE i # Len(e) + 1
    <3>1. i \in 1 .. Len(e)
      BY <1>1, <2>2
    <3> QED BY <1>2, <1>3, <3>1 DEF ToSet
  <2> QED BY <2>1, <2>2
<1>5. ToSet(t) \subseteq ToSet(e) \cup {x}
  BY <1>3, <1>4 DEF ToSet
<1>6. \A i \in 1 .. Len(e) : e[i] \in ToSet(t)
  <2>1. \A i \in 1 .. Len(e) : i \in 1 .. Len(e) + 1
    BY <1>1
  <2> QED BY <1>3, <2>1 DEF ToSet
<1>7. x \in ToSet(t)
  <2>1. Len(e) + 1 \in 1 .. Len(e) + 1
    BY <1>1
  <2> QED BY <1>3, <2>1 DEF ToSet
<1>8. ToSet(e) \subseteq ToSet(t)
  BY <1>2, <1>6 DEF ToSet
<1> QED BY <1>1, <1>5, <1>7, <1>8 DEF t

(* The three ways in which a builder goes on.                              *)
LEMMA StaysIdle ==
    ASSUME NEW s, Traded(s), NEW m \in 1 .. Len(s), NEW b, NEW c,
           Follows(s, m - 1, b), b.current = <<>>,
           \/ (c = [b EXCEPT !.synchronized = TRUE] /\ End(s[m]) = 0)
           \/ (c = b /\ ~b.synchronized /\ ~Begins(s[m]))
           \/ (c = [b EXCEPT !.synchronized = FALSE] /\ ~Connected(s))
    PROVE  Follows(s, m, c)
<1>1. m \in Nat /\ m >= 1 /\ b \in Builders /\ Kept(s, m - 1, b)
  BY TradedIs DEF Follows
<1>2. /\ c \in Builders /\ c.episodes = b.episodes /\ c.current = <<>>
      /\ Connected(s) /\ c.synchronized => End(s[m]) = 0
  BY <1>1 DEF Builders
<1>3. EpisodesUntil(s, m - 1) \subseteq EpisodesUntil(s, m)
  BY TripsGrow
<1>4. ASSUME Connected(s)
      PROVE  EpisodesUntil(s, m) = EpisodesUntil(s, m - 1) /\ \A i : ~Running(s, i, m)
  <2>1. \A i : ~Running(s, i, m - 1)
    BY <1>4 DEF Follows
  <2>2. EpisodesUntil(s, m) = EpisodesUntil(s, m - 1)
    BY <2>1, TripsGrow
  <2>3. \A i : ~Running(s, i, m)
    BY <1>4, <2>1, RunsOn
  <2> QED BY <2>2, <2>3
<1>5. Kept(s, m, c)
  BY <1>1, <1>2, <1>3, <1>4 DEF Kept
<1> QED BY <1>1, <1>2, <1>4, <1>5 DEF Follows

LEMMA StartsTrip ==
    ASSUME NEW s, Traded(s), NEW m \in 1 .. Len(s), NEW b, NEW c,
           c \in Builders, Kept(s, m, c),
           c.current = <<s[m]>>, c.pnl = 0, c.synchronized,
           Begins(s[m]), End(s[m]) # 0
    PROVE  Follows(s, m, c)
<1>1. Running(s, m, m)
  BY RunsOn
<1>2. c.current = SubSeq(s, m, m) /\ c.current # <<>>
  BY TradedIs, SliceIs
<1>3. c.pnl = Gains(s, m + 1, m)
  BY GainsAre
<1> QED BY <1>1, <1>2, <1>3 DEF Follows

LEMMA GoesOnTrip ==
    ASSUME NEW s, Traded(s), NEW m \in 1 .. Len(s), NEW b, NEW c,
           Follows(s, m - 1, b), b.current # <<>>, ~Finishes(s[m]),
           c = [b EXCEPT !.current = Append(@, s[m]), !.pnl = @ + s[m].pnl]
    PROVE  Follows(s, m, c)
<1>1. m \in Nat /\ b \in Builders /\ s[m] \in WalletFill /\ s[m].pnl \in Int /\ b.synchronized
  BY TradedIs DEF Follows
<1>2. PICK i : /\ Running(s, i, m - 1) /\ b.current = SubSeq(s, i, m - 1)
               /\ b.pnl = Gains(s, i + 1, m - 1)
  BY DEF Follows
<1>3. i \in 1 .. m - 1 /\ i \in 1 .. Len(s) /\ i < m /\ i <= m
  BY <1>1, <1>2, TradedIs DEF Running
<1>4. /\ c \in Builders /\ c.episodes = b.episodes /\ c.synchronized
      /\ c.current = Append(b.current, s[m]) /\ c.pnl = b.pnl + s[m].pnl
  <2> HIDE DEF WalletFill
  <2>1. b.current \in Seq(WalletFill) /\ b.pnl \in Int
    BY <1>1 DEF Builders
  <2>2. Append(b.current, s[m]) \in Seq(WalletFill) /\ b.pnl + s[m].pnl \in Int
    BY <1>1, <2>1
  <2> QED BY <1>1, <2>2 DEF Builders
<1>5. c.current = SubSeq(s, i, m) /\ c.current # <<>>
  <2>1. SubSeq(s, i, m) # <<>> /\ SubSeq(s, i, m) = Append(SubSeq(s, i, m - 1), s[m])
    BY <1>3, SliceIs
  <2> QED BY <1>2, <1>4, <2>1
<1>6. c.pnl = Gains(s, i + 1, m)
  <2>1. Gains(s, i + 1, m) = Gains(s, i + 1, m - 1) + s[m].pnl
    BY <1>3, GainsAre
  <2> QED BY <1>2, <1>4, <2>1
<1>7. Running(s, i, m)
  BY <1>2, RunsOn
<1>8. EpisodesUntil(s, m) = EpisodesUntil(s, m - 1)
  BY TripsGrow
<1>9. Kept(s, m - 1, b)
  BY DEF Follows
<1>10. Kept(s, m, c)
  BY <1>4, <1>8, <1>9 DEF Kept
<1> QED BY <1>4, <1>5, <1>6, <1>7, <1>10 DEF Follows

(* The trip ends: its episode is made.                                     *)
LEMMA EndsTrip ==
    ASSUME NEW s, Traded(s), NEW m \in 1 .. Len(s), NEW b, NEW c,
           Follows(s, m - 1, b), b.current # <<>>, Finishes(s[m]),
           c.episodes = Append(b.episodes, [fills |-> Append(b.current, s[m]),
                                            pnl   |-> b.pnl + s[m].pnl])
    PROVE  c.episodes \in Seq(EpisodeRecords) /\ Kept(s, m, c)
<1>1. m \in Nat /\ b \in Builders /\ s[m] \in WalletFill /\ s[m].pnl \in Int
  BY TradedIs DEF Follows
<1>2. PICK i : /\ Running(s, i, m - 1) /\ b.current = SubSeq(s, i, m - 1)
               /\ b.pnl = Gains(s, i + 1, m - 1)
  BY DEF Follows
<1>3. i \in 1 .. m - 1 /\ i \in 1 .. Len(s) /\ i < m /\ i <= m
  <2>1. i \in 1 .. m - 1 /\ Len(s) \in Nat
    BY <1>2, TradedIs DEF Running
  <2> QED BY <1>1, <2>1
<1> DEFINE x == [fills |-> Append(b.current, s[m]), pnl |-> b.pnl + s[m].pnl]
<1>4. Append(b.current, s[m]) = SubSeq(s, i, m) /\ b.pnl + s[m].pnl = Gains(s, i + 1, m)
  BY <1>2, <1>3, SliceIs, GainsAre
<1>5. x = Episode(s, i, m)
  BY <1>4 DEF Episode
<1>6. x \in EpisodeRecords /\ b.episodes \in Seq(EpisodeRecords)
  <2>1. SubSeq(s, i, m) \in Seq(WalletFill) /\ Gains(s, i + 1, m) \in Int
    BY <1>3, SliceIs, GainsAre
  <2>2. b.episodes \in Seq(EpisodeRecords)
    BY <1>1 DEF Builders
  <2> QED BY <1>4, <2>1, <2>2 DEF EpisodeRecords
<1>7. c.episodes = Append(b.episodes, x)
  OBVIOUS
<1> HIDE DEF x
<1>8. c.episodes \in Seq(EpisodeRecords) /\ ToSet(c.episodes) = ToSet(b.episodes) \cup {x}
  BY <1>6, <1>7, MadeIs
<1>9. /\ EpisodesUntil(s, m - 1) \subseteq EpisodesUntil(s, m) /\ x \in EpisodesUntil(s, m)
      /\ Connected(s) => EpisodesUntil(s, m) = EpisodesUntil(s, m - 1) \cup {x}
  BY <1>2, <1>5, TripsGrow
<1>10. Kept(s, m - 1, b)
  BY DEF Follows
<1>11. Kept(s, m, c)
  BY <1>8, <1>9, <1>10 DEF Kept
<1> QED BY <1>8, <1>11

LEMMA TakeFillFollows ==
    ASSUME NEW s, Traded(s), NEW m \in 1 .. Len(s), NEW b, Follows(s, m - 1, b)
    PROVE  Follows(s, m, TakeFill(b, s[m]))
<1> DEFINE f == s[m]
           c == TakeFill(b, f)
<1>1. /\ f \in WalletFill /\ f.start \in Int /\ f.pnl \in Int /\ End(f) \in Int
      /\ f.start = 0 => f.pnl = 0 /\ End(f) # 0
      /\ Connected(s) /\ m > 1 => f.start = End(s[m - 1])
      /\ m \in Nat
  BY TradedIs
<1>2. Flipped(f) => End(f) # 0 /\ f.start # 0
  BY <1>1, FlippedIs
<1>3. b \in Builders /\ Kept(s, m - 1, b)
  BY DEF Follows
<1>4. b.current = <<>> \/ b.synchronized
  BY DEF Follows
<1>5. <<f>> \in Seq(WalletFill)
  BY <1>1
<1>6. ASSUME b.current = <<>>, NEW d, d.episodes = b.episodes PROVE Kept(s, m, d)
  <2>1. EpisodesUntil(s, m - 1) \subseteq EpisodesUntil(s, m)
    BY TripsGrow
  <2>2. Connected(s) => EpisodesUntil(s, m) = EpisodesUntil(s, m - 1)
    BY <1>6, TripsGrow DEF Follows
  <2> QED BY <1>3, <1>6, <2>1, <2>2 DEF Kept
<1> HIDE DEF f
<1>7. CASE ~b.synchronized /\ f.start # 0
  <2>1. c = Synchronize(b, f) /\ b.current = <<>>
    BY <1>4, <1>7 DEF TakeFill
  <2> HIDE DEF c
  <2>2. CASE End(f) = 0
    <3>1. c = [b EXCEPT !.synchronized = TRUE]
      BY <2>1, <2>2 DEF Synchronize
    <3>2. Follows(s, m, c)
      BY <2>1, <2>2, <3>1, StaysIdle DEF f
    <3> QED BY <3>2 DEF c, f
  <2>3. CASE Flipped(f)
    <3>1. c = Began(b, f)
      BY <1>2, <2>1, <2>3 DEF Synchronize, Began
    <3>2. /\ c \in Builders /\ c.episodes = b.episodes /\ c.current = <<f>> /\ c.pnl = 0
          /\ c.synchronized
      BY <1>1, <1>3, <3>1, BeganIs
    <3>3. Kept(s, m, c)
      BY <1>6, <2>1, <3>2
    <3>4. Follows(s, m, c)
      BY <1>2, <2>3, <3>2, <3>3, StartsTrip DEF Begins, f
    <3> QED BY <3>4 DEF c, f
  <2>4. CASE End(f) # 0 /\ ~Flipped(f)
    <3>1. c = b /\ ~b.synchronized /\ ~Begins(f)
      BY <1>7, <2>1, <2>4 DEF Synchronize, Begins
    <3> QED BY <2>1, <3>1, StaysIdle DEF c, f
  <2> QED BY <2>2, <2>3, <2>4 DEF c, f
<1>8. CASE (b.synchronized \/ f.start = 0) /\ b.current = <<>>
  <2>1. c = Open(b, f)
    BY <1>8 DEF TakeFill
  <2> HIDE DEF c
  <2>2. CASE f.start # 0
    <3>1. c = [b EXCEPT !.synchronized = FALSE]
      BY <2>1, <2>2 DEF Open
    <3>2. ~Connected(s)
      <4> SUFFICES ASSUME Connected(s) PROVE FALSE
        OBVIOUS
      <4>1. m - 1 >= 1 /\ End(s[m - 1]) = 0
        BY <1>8, <2>2 DEF Follows
      <4>2. m > 1
        BY <1>1, <4>1
      <4> QED BY <1>1, <2>2, <4>1, <4>2
    <3>3. Follows(s, m, c)
      BY <1>8, <3>1, <3>2, StaysIdle
    <3> QED BY <3>3 DEF c, f
  <2>3. CASE f.start = 0
    <3>1. End(f) # 0 /\ f.pnl = 0
      BY <1>1, <2>3
    <3>2. c = Began(b, f)
      BY <2>1, <2>3, <3>1 DEF Open, Began
    <3>3. /\ c \in Builders /\ c.episodes = b.episodes /\ c.current = <<f>> /\ c.pnl = 0
          /\ c.synchronized
      BY <1>1, <1>3, <3>2, BeganIs
    <3>4. Kept(s, m, c)
      BY <1>6, <1>8, <3>3
    <3>5. Follows(s, m, c)
      BY <2>3, <3>1, <3>3, <3>4, StartsTrip DEF Begins, f
    <3> QED BY <3>5 DEF c, f
  <2> QED BY <2>2, <2>3
<1>9. CASE b.current # <<>>
  <2> DEFINE grown == [b EXCEPT !.current = Append(@, f), !.pnl = @ + f.pnl]
  <2>1. c = Continue(b, f)
    BY <1>4, <1>9 DEF TakeFill
  <2>s. b.synchronized
    BY <1>4, <1>9
  <2> HIDE DEF c
  <2>3. CASE ~Finishes(f)
    <3>1. c = grown
      BY <2>1, <2>3 DEF Continue, Finishes
    <3> QED BY <1>9, <2>3, <3>1, GoesOnTrip DEF c, f
  <2>4. CASE Finishes(f)
    <3>1. CASE End(f) = 0
      <4>1. c = Made(b, <<>>, f, f.pnl) /\ <<>> \in Seq(WalletFill)
        BY <2>1, <3>1 DEF Continue, Made
      <4>2. /\ c \in Builders /\ c.current = <<>>
            /\ c.episodes = Append(b.episodes, [fills |-> Append(b.current, f), pnl |-> b.pnl + f.pnl])
        <5> DEFINE t == <<>>
        <5>1. t \in Seq(WalletFill) /\ c = Made(b, t, f, f.pnl)
          BY <4>1
        <5> HIDE DEF t
        <5>2. /\ c \in Builders /\ c.current = t
              /\ c.episodes = Append(b.episodes, [fills |-> Append(b.current, f), pnl |-> b.pnl + f.pnl])
          BY <1>1, <1>3, <5>1, MadeBuilder
        <5> QED BY <5>2 DEF t
      <4>3. Kept(s, m, c)
        BY <1>9, <2>4, <4>2, EndsTrip DEF f
      <4>4. \A i : ~Running(s, i, m)
        BY <2>4, <3>1, RunsOn DEF f
      <4>5. Follows(s, m, c)
        BY <1>1, <3>1, <4>2, <4>3, <4>4 DEF Follows, f
      <4> QED BY <4>5 DEF c, f
    <3>2. CASE Flipped(f)
      <4>1. c = Made(b, <<f>>, f, f.pnl)
        BY <1>2, <2>1, <3>2 DEF Continue, Made
      <4>2. /\ c \in Builders /\ c.current = <<f>> /\ c.pnl = 0 /\ c.synchronized = b.synchronized
            /\ c.episodes = Append(b.episodes, [fills |-> Append(b.current, f), pnl |-> b.pnl + f.pnl])
        <5> DEFINE t == <<f>>
        <5>1. t \in Seq(WalletFill) /\ c = Made(b, t, f, f.pnl)
          BY <1>5, <4>1
        <5> HIDE DEF t
        <5>2. /\ c \in Builders /\ c.current = t /\ c.pnl = 0 /\ c.synchronized = b.synchronized
              /\ c.episodes = Append(b.episodes, [fills |-> Append(b.current, f), pnl |-> b.pnl + f.pnl])
          BY <1>1, <1>3, <5>1, MadeBuilder
        <5> QED BY <5>2 DEF t
      <4>3. Kept(s, m, c)
        BY <1>9, <2>4, <4>2, EndsTrip DEF f
      <4>4. Follows(s, m, c)
        BY <1>2, <2>s, <3>2, <4>2, <4>3, StartsTrip DEF Begins, f
      <4> QED BY <4>4 DEF c, f
    <3> QED BY <2>4, <3>1, <3>2 DEF Finishes
  <2> QED BY <2>3, <2>4
<1> QED BY <1>7, <1>8, <1>9 DEF f, c

(* The fold over the fills as a path of builders.                          *)
BuildFolds(g, s) ==
    g = [t \in SUBSET DOMAIN s |->
           IF t = {} THEN NoEpisodes ELSE TakeFill(g[t \ {Max(t)}], s[Max(t)])]

LEMMA BuildIsChosen ==
    \A s : FoldLeft(TakeFill, NoEpisodes, s) = (CHOOSE g : BuildFolds(g, s))[DOMAIN s]
BY DEF FoldLeft, MapThenFoldSet, BuildFolds

(* Whatever the fills, a builder stays a builder.                          *)
LEMMA TakeFillType ==
    ASSUME NEW b \in Builders, NEW f \in WalletFill
    PROVE  TakeFill(b, f) \in Builders
<1> DEFINE c == TakeFill(b, f)
<1>1. /\ f.start \in Int /\ f.pnl \in Int /\ <<f>> \in Seq(WalletFill) /\ <<>> \in Seq(WalletFill)
      /\ b.episodes \in Seq(EpisodeRecords) /\ b.current \in Seq(WalletFill) /\ b.pnl \in Int
  BY BuilderHas DEF WalletFill
<1>2. [b EXCEPT !.synchronized = TRUE] \in Builders /\ [b EXCEPT !.synchronized = FALSE] \in Builders
  BY DEF Builders
<1>3. Began(b, f) \in Builders
  BY BeganIs
<1>4. Made(b, <<>>, f, f.pnl) \in Builders /\ Made(b, <<f>>, f, f.pnl) \in Builders
  <2>1. \A t \in Seq(WalletFill) : Made(b, t, f, f.pnl) \in Builders
    BY <1>1, MadeBuilder
  <2> QED BY <1>1, <2>1
<1>5. ASSUME NEW p \in Int, NEW a \in Builders, a = [b EXCEPT !.synchronized = TRUE]
      PROVE  [b EXCEPT !.synchronized = TRUE, !.current = <<f>>, !.pnl = p] \in Builders
  <2> DEFINE t == <<f>>
             d == [a EXCEPT !.current = t, !.pnl = p]
  <2>1. [b EXCEPT !.synchronized = TRUE, !.current = <<f>>, !.pnl = p] = d
    BY <1>5
  <2>2. t \in Seq(WalletFill) /\ a.episodes \in Seq(EpisodeRecords) /\ a.synchronized \in BOOLEAN
    BY <1>1, <1>5, BuilderHas
  <2> HIDE DEF t
  <2>3. d = Builder(a.episodes, t, p, a.synchronized)
    BY BuilderAltered
  <2> HIDE DEF d
  <2>4. d \in Builders
    BY <2>2, <2>3, BuilderIs
  <2> QED BY <2>1, <2>4
<1>6. Open(b, f) \in Builders
  BY <1>1, <1>2, <1>5 DEF Open
<1>7. Synchronize(b, f) \in Builders
  BY <1>2, <1>3 DEF Synchronize, Began
<1>8. Continue(b, f) \in Builders
  <2> DEFINE grown == [b EXCEPT !.current = Append(@, f), !.pnl = @ + f.pnl]
             q == Append(b.current, f)
             n == b.pnl + f.pnl
  <2>1. q \in Seq(WalletFill) /\ n \in Int /\ b.synchronized \in BOOLEAN
    <3> HIDE DEF WalletFill
    <3> QED BY <1>1, BuilderHas
  <2>2. grown = [b EXCEPT !.current = q, !.pnl = n]
    OBVIOUS
  <2> HIDE DEF q, n, grown
  <2>3. grown = Builder(b.episodes, q, n, b.synchronized)
    BY <2>2, BuilderAltered
  <2>4. grown \in Builders
    BY <1>1, <2>1, <2>3, BuilderIs
  <2>5. Continue(b, f) \in {grown, Made(b, <<>>, f, f.pnl), Made(b, <<f>>, f, f.pnl)}
    BY DEF Continue, Made, grown
  <2> QED BY <1>4, <2>4, <2>5
<1> QED BY <1>6, <1>7, <1>8 DEF TakeFill

BuildsBy(s, n) ==
    \E v \in [0 .. n -> Builders] :
       /\ v[0] = NoEpisodes /\ FoldLeft(TakeFill, NoEpisodes, s) = v[n]
       /\ \A i \in 1 .. n : v[i] = TakeFill(v[i - 1], s[i])

LEMMA BuildPath ==
    ASSUME NEW s \in Seq(WalletFill), NEW n \in Nat, n = Len(s)
    PROVE  BuildsBy(s, n)
<1> DEFINE base == NoEpisodes
           X == {s[i] : i \in 1 .. n}
           step == [p \in Builders \X X |-> TakeFill(p[1], p[2])]
           line == [i \in 1 .. n |-> s[i]]
           g == CHOOSE f : BuildFolds(f, s)
<1>0. DOMAIN s = 1 .. n /\ \A i \in 1 .. n : s[i] \in WalletFill
  OBVIOUS
<1>1. n \in Nat /\ base \in Builders /\ line \in [1 .. n -> X]
  BY DEF NoEpisodes, Builders
<1>2. \A a \in Builders, l \in X : TakeFill(a, l) \in Builders
  BY <1>0, TakeFillType
<1>3. step \in [Builders \X X -> Builders] /\ \A a \in Builders, l \in X : step[<<a, l>>] = TakeFill(a, l)
  BY <1>2
<1>4. BuildFolds(g, s)
  <2>1. PICK f \in [SUBSET (1 .. n) -> Builders] :
           \A t \in SUBSET (1 .. n) :
              f[t] = IF t = {} THEN base ELSE step[<<f[t \ {Max(t)}], line[Max(t)]>>]
    <3> HIDE DEF base, X, step, line
    <3>1. HasFold(Builders, step, base, line, n)
      BY <1>1, <1>3, FoldExists
    <3> QED BY <3>1 DEF HasFold
  <2>2. ASSUME NEW t \in SUBSET (1 .. n), t # {}
        PROVE  f[t] = TakeFill(f[t \ {Max(t)}], s[Max(t)])
    <3>1. Max(t) \in t
      BY <2>2, SomeLast, <1>1
    <3>2. f[t \ {Max(t)}] \in Builders /\ s[Max(t)] \in X /\ line[Max(t)] = s[Max(t)]
      BY <3>1
    <3>3. f[t] = step[<<f[t \ {Max(t)}], line[Max(t)]>>]
      <4> HIDE DEF step, line
      <4> QED BY <2>1, <2>2
    <3> HIDE DEF step, line, X
    <3> QED BY <3>2, <1>3, <3>3
  <2>3. f = [t \in SUBSET DOMAIN s |->
               IF t = {} THEN NoEpisodes
               ELSE TakeFill(f[t \ {Max(t)}], s[Max(t)])]
    BY <1>0, <2>1, <2>2
  <2>4. BuildFolds(f, s)
    BY <2>3 DEF BuildFolds
  <2> HIDE DEF g
  <2> QED BY <2>4 DEF g
<1> HIDE DEF g
<1>5. /\ g[{}] = base
      /\ \A t \in SUBSET (1 .. n) : t # {} =>
            g[t] = TakeFill(g[t \ {Max(t)}], s[Max(t)])
  BY <1>0, <1>4 DEF BuildFolds
<1>6. ASSUME NEW i \in 1 .. n, g[1 .. (i - 1)] \in Builders
      PROVE  g[1 .. i] = step[<<g[1 .. (i - 1)], line[i]>>]
  <2>1. g[1 .. i] = TakeFill(g[1 .. (i - 1)], s[i])
    <3>1. /\ 1 .. i \in SUBSET (1 .. n) /\ 1 .. i # {}
          /\ Max(1 .. i) = i /\ (1 .. i) \ {i} = 1 .. (i - 1)
      BY <1>1, InitialSegments
    <3>2. g[1 .. i] = TakeFill(g[(1 .. i) \ {Max(1 .. i)}], s[Max(1 .. i)])
      BY <1>5, <3>1
    <3> QED BY <3>1, <3>2
  <2>2. line[i] = s[i] /\ s[i] \in X
    OBVIOUS
  <2> HIDE DEF step, line, X
  <2> QED BY <1>3, <1>6, <2>1, <2>2
<1>7. PICK v \in [0 .. n -> Builders] :
         /\ v[0] = base /\ v[n] = g[1 .. n]
         /\ \A i \in 1 .. n : v[i] = step[<<v[i - 1], line[i]>>]
  <2> HIDE DEF base, X, step, line
  <2>1. g[{}] = base
    BY <1>5
  <2>2. \A i \in 1 .. n : g[1 .. (i - 1)] \in Builders =>
           g[1 .. i] = step[<<g[1 .. (i - 1)], line[i]>>]
    BY <1>6
  <2>3. Unrolls(g, Builders, step, base, line, n)
    BY <2>1, <2>2 DEF Unrolls
  <2>4. HasPath(Builders, step, base, line, n, g[1 .. n])
    BY <1>1, <1>3, <2>3, FoldPath
  <2> QED BY <2>4 DEF HasPath
<1>8. ASSUME NEW i \in 1 .. n PROVE v[i] = TakeFill(v[i - 1], s[i])
  <2>1. line[i] = s[i] /\ s[i] \in X /\ i - 1 \in 0 .. n
    OBVIOUS
  <2>3. v[i - 1] \in Builders
    BY <2>1
  <2>2. v[i] = step[<<v[i - 1], line[i]>>]
    BY <1>7
  <2> HIDE DEF step, line, X
  <2> QED BY <1>3, <2>1, <2>2, <2>3
<1>9. FoldLeft(TakeFill, NoEpisodes, s) = g[1 .. n]
  BY <1>0, BuildIsChosen DEF g
<1> QED BY <1>7, <1>8, <1>9 DEF BuildsBy

(* The episodes that are built are trips; all of them, if the fills are    *)
(* connected.                                                              *)
LEMMA BuiltIsAll ==
    ASSUME NEW s, Traded(s)
    PROVE  /\ ToSet(BuildCoin(s)) \subseteq EpisodesUntil(s, Len(s))
           /\ Connected(s) => ToSet(BuildCoin(s)) = EpisodesUntil(s, Len(s))
<1> DEFINE n == Len(s)
<1>1. n \in Nat /\ s \in Seq(WalletFill)
  BY TradedIs
<1>2. PICK v \in [0 .. n -> Builders] :
         /\ v[0] = NoEpisodes /\ FoldLeft(TakeFill, NoEpisodes, s) = v[n]
         /\ \A i \in 1 .. n : v[i] = TakeFill(v[i - 1], s[i])
  <2>1. BuildsBy(s, n)
    BY <1>1, BuildPath
  <2> QED BY <2>1 DEF BuildsBy
<1> DEFINE Good == {i \in 0 .. n : Follows(s, i, v[i])}
<1>3. 0 \in Good
  BY <1>1, <1>2, FirstFollows
<1>4. ASSUME NEW i \in 1 .. n, i - 1 \in Good PROVE i \in Good
  <2>1. v[i] = TakeFill(v[i - 1], s[i]) /\ Follows(s, i - 1, v[i - 1])
    BY <1>2, <1>4
  <2>2. Follows(s, i, TakeFill(v[i - 1], s[i]))
    BY <2>1, TakeFillFollows
  <2> QED BY <2>1, <2>2
<1> HIDE DEF Good
<1>5. \A i \in 0 .. n : i \in Good
  BY <1>1, <1>3, <1>4, StepInduction
<1>6. Follows(s, n, v[n])
  BY <1>1, <1>5 DEF Good
<1> QED BY <1>2, <1>6 DEF Follows, Kept, BuildCoin

-----------------------------------------------------------------------------
(* The exchange's list of fills.                                           *)

LedgerOk(l) ==
    /\ l \in Seq(WalletFill)
    /\ \A i \in 1 .. Len(l) :
          /\ l[i].id = i /\ l[i].size # 0 /\ l[i].time >= 1
          /\ l[i].start = 0 => l[i].pnl = 0
          /\ i < Len(l) => l[i + 1].start = End(l[i])
    /\ Len(l) > 0 => l[1].start = 0
    /\ \A i, j \in 1 .. Len(l) : i < j => l[i].time <= l[j].time

LEMMA LedgerIs ==
    ASSUME NEW l, LedgerOk(l)
    PROVE  /\ l \in Seq(WalletFill) /\ Len(l) \in Nat /\ DOMAIN l = 1 .. Len(l)
           /\ \A i \in 1 .. Len(l) :
                 /\ l[i] \in WalletFill /\ l[i].id = i /\ l[i].time \in Int /\ l[i].time >= 1
                 /\ End(l[i]) \in Int
           /\ \A i, j \in 1 .. Len(l) : i <= j => l[i].time <= l[j].time
<1>1. l \in Seq(WalletFill) /\ Len(l) \in Nat /\ DOMAIN l = 1 .. Len(l)
  BY DEF LedgerOk
<1>2. ASSUME NEW i \in 1 .. Len(l)
      PROVE  /\ l[i] \in WalletFill /\ l[i].id = i /\ l[i].time \in Int /\ l[i].time >= 1
             /\ End(l[i]) \in Int
  <2>1. l[i] \in WalletFill
    BY <1>1
  <2>2. l[i].start \in Int /\ l[i].size \in Int /\ l[i].time \in Int
    BY <2>1 DEF WalletFill
  <2> QED BY <2>1, <2>2 DEF LedgerOk, End
<1>3. ASSUME NEW i \in 1 .. Len(l), NEW j \in 1 .. Len(l), i <= j PROVE l[i].time <= l[j].time
  <2>1. CASE i = j
    BY <1>2, <2>1
  <2>2. CASE i # j
    <3>1. i < j
      BY <1>1, <1>3, <2>2
    <3> QED BY <3>1 DEF LedgerOk
  <2> QED BY <2>1, <2>2
<1> QED BY <1>1, <1>2, <1>3

LEMMA SuffixTraded ==
    ASSUME NEW l, LedgerOk(l), NEW m \in 1 .. Len(l)
    PROVE  Traded(SubSeq(l, m, Len(l)))
<1> DEFINE n == Len(l) - m + 1
           s == SubSeq(l, m, Len(l))
<1>1. l \in Seq(WalletFill) /\ Len(l) \in Nat
  BY LedgerIs
<1>2. s \in Seq(WalletFill) /\ Len(s) = n /\ \A i \in 1 .. n : s[i] = l[m + i - 1]
  <2>1. m \in 1 .. Len(l) + 1 /\ Len(l) \in m - 1 .. Len(l)
    BY <1>1
  <2> QED BY <1>1, <2>1, SubSeqProperties
<1> HIDE DEF s
<1>3. ASSUME NEW i \in 1 .. n
      PROVE  s[i].size # 0 /\ (s[i].start = 0 => s[i].pnl = 0)
  <2>1. m + i - 1 \in 1 .. Len(l) /\ s[i] = l[m + i - 1]
    BY <1>1, <1>2
  <2> DEFINE k == m + i - 1
  <2>2. l[k].size # 0 /\ (l[k].start = 0 => l[k].pnl = 0)
    <3>1. k \in 1 .. Len(l)
      BY <2>1
    <3> HIDE DEF k
    <3> QED BY <3>1 DEF LedgerOk
  <2> QED BY <2>1, <2>2
<1> QED BY <1>2, <1>3 DEF Traded, s

(* Dropping some of the fills, and the sort, leave fills.                  *)
LEMMA KeptTraded ==
    ASSUME NEW s, Traded(s), NEW K \in SUBSET (DOMAIN s)
    PROVE  Traded(SortedByTime(s, K))
<1> DEFINE n == Cardinality(K)
           d == SortedByTime(s, K)
           less == {p \in K \X K : \/ s[p[1]].time < s[p[2]].time
                                   \/ s[p[1]].time = s[p[2]].time /\ p[1] < p[2]}
           at == InOrder(K, less)
<1>1. /\ Len(s) \in Nat /\ DOMAIN s = 1 .. Len(s)
      /\ \A k \in 1 .. Len(s) : s[k] \in WalletFill /\ s[k].time \in Int
  <2>1. /\ Len(s) \in Nat /\ DOMAIN s = 1 .. Len(s)
        /\ \A k \in 1 .. Len(s) : s[k] \in WalletFill
    BY TradedIs
  <2> QED BY <2>1 DEF WalletFill
<1>2. K \subseteq 1 .. Len(s) /\ IsFiniteSet(K)
  <2>1. IsFiniteSet(1 .. Len(s))
    BY <1>1, FS_Interval
  <2> QED BY <1>1, <2>1, FS_Subset
<1>3. d = [m \in DOMAIN at |-> s[at[m]]]
  BY DEF SortedByTime
<1>4. \A i, j \in K : <<i, j>> \in less <=>
                         (s[i].time < s[j].time \/ (s[i].time = s[j].time /\ i < j))
  OBVIOUS
<1> HIDE DEF less, d
<1>5. StrictlyOrders(less, K)
  <2>1. \A i \in K : i \in Int /\ s[i].time \in Int
    BY <1>1, <1>2
  <2>2. \A i \in K : <<i, i>> \notin less
    BY <1>4, <2>1
  <2>3. \A i, j \in K : i # j => <<i, j>> \in less \/ <<j, i>> \in less
    BY <1>4, <2>1
  <2>4. \A i, j, k \in K : <<i, j>> \in less /\ <<j, k>> \in less => <<i, k>> \in less
    BY <1>4, <2>1
  <2> QED BY <2>2, <2>3, <2>4 DEF StrictlyOrders
<1>6. n \in Nat /\ at \in [1 .. n -> K]
  BY <1>2, <1>5, OrderSorts
<1> HIDE DEF at, n
<1>7. d = [m \in 1 .. n |-> s[at[m]]] /\ \A m \in 1 .. n : at[m] \in 1 .. Len(s)
  BY <1>2, <1>3, <1>6
<1>8. d \in Seq(WalletFill) /\ Len(d) = n
  <2>1. \A m \in 1 .. n : s[at[m]] \in WalletFill
    BY <1>1, <1>7
  <2> HIDE DEF WalletFill
  <2>2. d \in [1 .. n -> WalletFill]
    BY <1>7, <2>1
  <2> QED BY <1>6, <2>2
<1>9. \A m \in 1 .. n : d[m].size # 0 /\ (d[m].start = 0 => d[m].pnl = 0)
  BY <1>7 DEF Traded
<1> QED BY <1>8, <1>9 DEF Traded, d

LEMMA EpisodesFromLedger == LedgerOk(ledger) => EpisodesAreTrips
<1> SUFFICES ASSUME LedgerOk(ledger), NEW m \in DOMAIN ledger,
                    NEW perpetual \in SUBSET DOMAIN SubSeq(ledger, m, Len(ledger))
             PROVE  LET kept == SortedByTime(SubSeq(ledger, m, Len(ledger)), perpetual)
                        episodes == ToSet(Build(SubSeq(ledger, m, Len(ledger)), perpetual))
                        all == {TripEpisode(kept, t) : t \in Trips(kept)}
                    IN episodes \subseteq all /\ (Connected(kept) => episodes = all)
  BY DEF EpisodesAreTrips
<1> DEFINE s == SubSeq(ledger, m, Len(ledger))
           kept == SortedByTime(s, perpetual)
           episodes == ToSet(Build(s, perpetual))
           all == {TripEpisode(kept, t) : t \in Trips(kept)}
<1>1. Traded(kept)
  <2>1. Traded(s)
    BY LedgerIs, SuffixTraded
  <2> HIDE DEF s
  <2> QED BY <2>1, KeptTraded DEF s
<1>2. episodes = ToSet(BuildCoin(kept))
  BY DEF Build
<1> HIDE DEF kept, episodes
<1>3. DOMAIN kept = 1 .. Len(kept) /\ Len(kept) \in Nat
  BY <1>1, TradedIs
<1>4. Trips(kept) = TripsUntil(kept, Len(kept))
  <2>1. ASSUME NEW t \in (1 .. Len(kept)) \X (1 .. Len(kept))
        PROVE  (t[1] < t[2] /\ IsTrip(kept, t[1], t[2]))
                  <=> (t[2] <= Len(kept) /\ Running(kept, t[1], t[2] - 1) /\ Finishes(kept[t[2]]))
    <3>1. t[1] \in 1 .. Len(kept) /\ t[2] \in 1 .. Len(kept) /\ t[2] <= Len(kept)
      BY <1>3
    <3> QED BY <1>1, <3>1, TripIs
  <2> QED BY <1>3, <2>1 DEF TripsUntil, Trips
<1>5. \A t : TripEpisode(kept, t) = Episode(kept, t[1], t[2])
  BY DEF TripEpisode, Episode, Gains, Total
<1>6. all = EpisodesUntil(kept, Len(kept))
  BY <1>4, <1>5 DEF EpisodesUntil
<1>7. episodes \subseteq all /\ (Connected(kept) => episodes = all)
  BY <1>1, <1>2, <1>6, BuiltIsAll
<1> QED BY <1>7 DEF s, kept, episodes

-----------------------------------------------------------------------------
(* The merged history.                                                     *)

(* Fills of the ledger, each with all earlier ones of its millisecond      *)
(* before it.                                                              *)
Closed(l, s) ==
    /\ s \in Seq(WalletFill)
    /\ \A k \in 1 .. Len(s) :
          /\ s[k].id \in 1 .. Len(l) /\ s[k] = l[s[k].id]
          /\ \A i \in 1 .. Len(l) :
                i < s[k].id /\ l[i].time = s[k].time => \E j \in 1 .. k - 1 : s[j].id = i

Ascending(s) == \A i, j \in DOMAIN s : i < j => s[i].id < s[j].id

Firsts(s) == {i \in DOMAIN s : \A j \in DOMAIN s : j < i => s[j].id # s[i].id}

LEMMA ClosedHas ==
    ASSUME NEW l, LedgerOk(l), NEW s, Closed(l, s)
    PROVE  /\ s \in Seq(WalletFill) /\ Len(s) \in Nat /\ DOMAIN s = 1 .. Len(s)
           /\ \A k \in 1 .. Len(s) : /\ s[k].id \in 1 .. Len(l) /\ s[k].id \in Int
                                     /\ s[k] = l[s[k].id] /\ s[k].time \in Int
           /\ \A i, k \in 1 .. Len(s) : s[i].id <= s[k].id => s[i].time <= s[k].time
<1>1. /\ s \in Seq(WalletFill) /\ Len(s) \in Nat /\ DOMAIN s = 1 .. Len(s)
  BY DEF Closed
<1>2. Len(l) \in Nat /\ l \in Seq(WalletFill)
  BY LedgerIs
<1>3. ASSUME NEW k \in 1 .. Len(s)
      PROVE  s[k].id \in 1 .. Len(l) /\ s[k].id \in Int /\ s[k] = l[s[k].id] /\ s[k].time \in Int
  <2>1. s[k].id \in 1 .. Len(l) /\ s[k] = l[s[k].id]
    BY DEF Closed
  <2> QED BY <1>2, <2>1, LedgerIs
<1>4. ASSUME NEW i \in 1 .. Len(s), NEW k \in 1 .. Len(s), s[i].id <= s[k].id
      PROVE  s[i].time <= s[k].time
  <2>1. l[s[i].id].time <= l[s[k].id].time
    BY <1>3, <1>4, LedgerIs
  <2> QED BY <1>3, <2>1
<1> QED BY <1>1, <1>3, <1>4

(* Of two that are kept, the one the sort puts first is the earlier one in *)
(* the ledger.                                                             *)
LEMMA FirstsOrder ==
    ASSUME NEW l, LedgerOk(l), NEW s, Closed(l, s), NEW i \in Firsts(s), NEW j \in Firsts(s)
    PROVE  /\ s[i].id = s[j].id => i = j
           /\ (s[j].time < s[i].time \/ (s[j].time = s[i].time /\ j < i)) <=> s[j].id < s[i].id
<1>1. /\ Len(s) \in Nat /\ DOMAIN s = 1 .. Len(s) /\ i \in 1 .. Len(s) /\ j \in 1 .. Len(s)
      /\ s[i].id \in Int /\ s[j].id \in Int /\ s[i].time \in Int /\ s[j].time \in Int
  BY ClosedHas DEF Firsts
<1>2. s[i].id = s[j].id => i = j
  BY <1>1 DEF Firsts
<1>3. ASSUME NEW a \in Firsts(s), NEW b \in Firsts(s), s[a].time = s[b].time, s[a].id < s[b].id
      PROVE  a < b
  <2>1. a \in 1 .. Len(s) /\ b \in 1 .. Len(s)
    BY <1>1, <1>3 DEF Firsts
  <2>2. s[a].id \in 1 .. Len(l) /\ s[a] = l[s[a].id]
    BY <2>1, ClosedHas
  <2>e. s[a].id < s[b].id /\ l[s[a].id].time = s[b].time
    BY <1>3, <2>2
  <2>c. \A h \in 1 .. Len(l) :
           h < s[b].id /\ l[h].time = s[b].time => \E k \in 1 .. b - 1 : s[k].id = h
    BY <2>1 DEF Closed
  <2>3. PICK k \in 1 .. b - 1 : s[k].id = s[a].id
    BY <2>c, <2>e, <2>2
  <2>4. k \in DOMAIN s /\ ~(k < a)
    BY <1>1, <2>1, <2>3 DEF Firsts
  <2> QED BY <1>1, <2>1, <2>3, <2>4
<1>4. s[j].time < s[i].time => s[j].id < s[i].id
  BY <1>1, ClosedHas
<1>5. s[j].id < s[i].id => s[j].time <= s[i].time
  BY <1>1, ClosedHas
<1>6. s[j].time = s[i].time /\ j < i => s[j].id < s[i].id
  <2> SUFFICES ASSUME s[j].time = s[i].time, j < i, ~(s[j].id < s[i].id) PROVE FALSE
    OBVIOUS
  <2>1. s[i].id # s[j].id
    BY <1>1, <1>2
  <2>2. s[i].id < s[j].id
    BY <1>1, <2>1
  <2>3. i < j
    BY <1>3, <2>2
  <2> QED BY <1>1, <2>3
<1>7. s[j].id < s[i].id /\ s[j].time = s[i].time => j < i
  BY <1>3
<1> QED BY <1>1, <1>2, <1>4, <1>5, <1>6, <1>7

LEMMA DeduplicateIs ==
    ASSUME NEW l, LedgerOk(l), NEW s, Closed(l, s)
    PROVE  /\ Deduplicate(s) \in Seq(WalletFill) /\ ToSet(Deduplicate(s)) = ToSet(s)
           /\ Ascending(Deduplicate(s)) /\ Closed(l, Deduplicate(s))
<1> DEFINE K == Firsts(s)
           n == Cardinality(K)
           d == Deduplicate(s)
           less == {p \in K \X K : \/ s[p[1]].time < s[p[2]].time
                                   \/ s[p[1]].time = s[p[2]].time /\ p[1] < p[2]}
           at == InOrder(K, less)
<1>1. /\ s \in Seq(WalletFill) /\ Len(s) \in Nat /\ DOMAIN s = 1 .. Len(s)
      /\ \A k \in 1 .. Len(s) : /\ s[k].id \in 1 .. Len(l) /\ s[k].id \in Int /\ s[k] \in WalletFill
                                /\ s[k] = l[s[k].id] /\ s[k].time \in Int
  <2>1. \A k \in 1 .. Len(s) : s[k] \in WalletFill
    BY DEF Closed
  <2> QED BY <2>1, ClosedHas
<1>2. K \subseteq 1 .. Len(s) /\ IsFiniteSet(K)
  <2>1. K \subseteq 1 .. Len(s)
    BY <1>1 DEF Firsts
  <2>2. IsFiniteSet(1 .. Len(s))
    <3>1. 1 \in Int /\ Len(s) \in Int
      BY ONLY <1>1
    <3> QED BY ONLY <3>1, FS_Interval
  <2> QED BY ONLY <2>1, <2>2, FS_Subset
<1>3. d = [m \in DOMAIN at |-> s[at[m]]]
  BY DEF Deduplicate, SortedByTime, Firsts
<1>4. \A i, j \in K : <<j, i>> \in less <=> s[j].id < s[i].id
  <2>1. \A i, j \in K :
           <<j, i>> \in less <=> (s[j].time < s[i].time \/ (s[j].time = s[i].time /\ j < i))
    OBVIOUS
  <2> HIDE DEF less
  <2> QED BY <2>1, FirstsOrder DEF K
<1>5. StrictlyOrders(less, K)
  <2>1. \A i, j \in K : s[i].id = s[j].id => i = j
    BY FirstsOrder DEF K
  <2>2. \A i \in K : s[i].id \in Int
    BY <1>1, <1>2
  <2> HIDE DEF K, less
  <2> QED BY <1>4, <2>1, <2>2 DEF StrictlyOrders
<1> HIDE DEF K, d, less
<1>6. /\ n \in Nat /\ at \in [1 .. n -> K]
      /\ \A i \in K : \E m \in 1 .. n : at[m] = i
      /\ \A m, k \in 1 .. n : m < k => <<at[m], at[k]>> \in less
  BY <1>2, <1>5, OrderSorts
<1> HIDE DEF at, n
<1>7. d = [m \in 1 .. n |-> s[at[m]]] /\ \A m \in 1 .. n : at[m] \in K
  BY <1>3, <1>6
<1>8. \A m, k \in 1 .. n : m < k => s[at[m]].id < s[at[k]].id
  BY <1>4, <1>6, <1>7
<1>9. d \in Seq(WalletFill) /\ Len(d) = n /\ DOMAIN d = 1 .. n
  <2>1. \A m \in 1 .. n : s[at[m]] \in WalletFill
    BY <1>1, <1>2, <1>7
  <2> HIDE DEF WalletFill
  <2>2. d \in [1 .. n -> WalletFill]
    BY <1>7, <2>1
  <2> QED BY <1>6, <2>2
<1>10. \A m, k \in 1 .. n : m < k => d[m].id < d[k].id
  BY <1>7, <1>8
<1>11. Ascending(d)
  BY <1>9, <1>10 DEF Ascending
<1>12. ASSUME NEW k \in 1 .. Len(s) PROVE \E m \in 1 .. n : d[m] = s[k] /\ d[m].id = s[k].id
  <2> DEFINE Same == {i \in 1 .. Len(s) : s[i].id = s[k].id}
  <2>1. PICK i \in Same : \A j \in Same : i <= j
    <3>1. Same \in SUBSET Nat /\ Same # {}
      BY <1>1
    <3> HIDE DEF Same
    <3> QED BY <3>1, SomeSmallest
  <2>2. i \in K
    <3>1. i \in 1 .. Len(s) /\ s[i].id = s[k].id
      BY <2>1
    <3>2. \A j \in 1 .. Len(s) : j < i => s[j].id # s[i].id
      BY <1>1, <2>1
    <3> QED BY <1>1, <3>1, <3>2 DEF K, Firsts
  <2>3. s[i] = s[k]
    BY <1>1, <2>1
  <2>4. PICK m \in 1 .. n : at[m] = i
    BY <1>6, <2>2
  <2> QED BY <1>7, <2>3, <2>4
<1>13. ASSUME NEW m \in 1 .. n PROVE \E k \in 1 .. Len(s) : d[m] = s[k]
  BY <1>2, <1>7
<1>14. ToSet(d) = ToSet(s)
  <2>1. ToSet(d) = {d[m] : m \in 1 .. n} /\ ToSet(s) = {s[k] : k \in 1 .. Len(s)}
    BY <1>1, <1>9 DEF ToSet
  <2> QED BY <1>12, <1>13, <2>1
<1>15. ASSUME NEW m \in 1 .. n
       PROVE  /\ d[m].id \in 1 .. Len(l) /\ d[m] = l[d[m].id]
              /\ \A i \in 1 .. Len(l) :
                    i < d[m].id /\ l[i].time = d[m].time => \E j \in 1 .. m - 1 : d[j].id = i
  <2>1. PICK k \in 1 .. Len(s) : d[m] = s[k]
    BY <1>13
  <2>2. d[m].id \in 1 .. Len(l) /\ d[m] = l[d[m].id]
    BY <1>1, <2>1
  <2>3. ASSUME NEW i \in 1 .. Len(l), i < d[m].id, l[i].time = d[m].time
        PROVE  \E j \in 1 .. m - 1 : d[j].id = i
    <3>1. PICK h \in 1 .. k - 1 : s[h].id = i
      BY <2>1, <2>3 DEF Closed
    <3>2. h \in 1 .. Len(s)
      BY <1>1, <3>1
    <3>3. PICK j \in 1 .. n : d[j].id = i
      BY <1>12, <3>1, <3>2
    <3>4. j < m
      <4>1. ~(m < j) /\ m # j
        BY <1>6, <1>10, <2>2, <2>3, <3>3
      <4> QED BY <1>6, <4>1
    <3>5. j \in 1 .. m - 1
      BY <1>6, <3>4
    <3> QED BY <3>3, <3>5
  <2> QED BY <2>2, <2>3
<1>16. Closed(l, d)
  BY <1>9, <1>15 DEF Closed
<1> QED BY <1>9, <1>11, <1>14, <1>16 DEF d

LEMMA ClosedEmpty == \A l : Closed(l, <<>>)
<1>1. <<>> \in Seq(WalletFill) /\ Len(<<>>) = 0
  OBVIOUS
<1>2. \A k \in 1 .. 0 : FALSE
  OBVIOUS
<1> HIDE DEF WalletFill
<1> QED BY <1>1, <1>2 DEF Closed

LEMMA ClosedJoin ==
    ASSUME NEW l, LedgerOk(l), NEW s, Closed(l, s), NEW t, Closed(l, t)
    PROVE  Closed(l, s \o t) /\ ToSet(s \o t) = ToSet(s) \cup ToSet(t)
<1> DEFINE u == s \o t
           m == Len(s)
           n == Len(t)
<1>1. s \in Seq(WalletFill) /\ t \in Seq(WalletFill) /\ m \in Nat /\ n \in Nat
  BY ClosedHas
<1>2. /\ u \in Seq(WalletFill) /\ Len(u) = m + n
      /\ \A k \in 1 .. m + n : u[k] = IF k <= m THEN s[k] ELSE t[k - m]
  BY <1>1, ConcatProperties
<1>d. DOMAIN s = 1 .. m /\ DOMAIN t = 1 .. n /\ DOMAIN u = 1 .. m + n
  BY <1>1, <1>2
<1>c. /\ \A k \in 1 .. m :
            /\ s[k].id \in 1 .. Len(l) /\ s[k] = l[s[k].id]
            /\ \A i \in 1 .. Len(l) :
                  i < s[k].id /\ l[i].time = s[k].time => \E j \in 1 .. k - 1 : s[j].id = i
      /\ \A k \in 1 .. n :
            /\ t[k].id \in 1 .. Len(l) /\ t[k] = l[t[k].id]
            /\ \A i \in 1 .. Len(l) :
                  i < t[k].id /\ l[i].time = t[k].time => \E j \in 1 .. k - 1 : t[j].id = i
  BY DEF Closed
<1> HIDE DEF u, m, n
<1>3. \A k \in 1 .. m : k \in 1 .. m + n /\ u[k] = s[k]
  BY <1>1, <1>2
<1>4. \A k \in 1 .. n : m + k \in 1 .. m + n /\ u[m + k] = t[k]
  <2> TAKE k \in 1 .. n
  <2>1. m + k \in 1 .. m + n /\ ~(m + k <= m) /\ (m + k) - m = k
    BY <1>1
  <2>2. u[m + k] = t[(m + k) - m]
    BY <1>2, <2>1
  <2> QED BY <2>1, <2>2
<1>5. \A k \in 1 .. m + n : k \in 1 .. m \/ \E h \in 1 .. n : k = m + h
  <2> TAKE k \in 1 .. m + n
  <2>1. CASE k <= m
    BY <1>1, <2>1
  <2>2. CASE ~(k <= m)
    <3>1. k - m \in 1 .. n /\ k = m + (k - m)
      BY <1>1, <2>2
    <3> QED BY <3>1
  <2> QED BY <2>1, <2>2
<1>6. ASSUME NEW k \in 1 .. m
      PROVE  /\ u[k].id \in 1 .. Len(l) /\ u[k] = l[u[k].id]
             /\ \A i \in 1 .. Len(l) :
                   i < u[k].id /\ l[i].time = u[k].time => \E j \in 1 .. k - 1 : u[j].id = i
  <2>1. u[k] = s[k]
    BY <1>3
  <2>2. \A j \in 1 .. k - 1 : j \in 1 .. m /\ u[j] = s[j]
    <3>1. \A j \in 1 .. k - 1 : j \in 1 .. m
      BY <1>1
    <3> QED BY <3>1, <1>3
  <2> QED BY <1>c, <2>1, <2>2
<1>7. ASSUME NEW h \in 1 .. n
      PROVE  /\ u[m + h].id \in 1 .. Len(l) /\ u[m + h] = l[u[m + h].id]
             /\ \A i \in 1 .. Len(l) :
                   i < u[m + h].id /\ l[i].time = u[m + h].time =>
                      \E j \in 1 .. (m + h) - 1 : u[j].id = i
  <2>1. u[m + h] = t[h]
    BY <1>4
  <2>2. \A j \in 1 .. h - 1 : m + j \in 1 .. (m + h) - 1 /\ u[m + j] = t[j]
    <3>1. \A j \in 1 .. h - 1 : j \in 1 .. n /\ m + j \in 1 .. (m + h) - 1
      BY <1>1
    <3> QED BY <3>1, <1>4
  <2>3. ASSUME NEW i \in 1 .. Len(l), i < t[h].id, l[i].time = t[h].time
        PROVE  \E j \in 1 .. (m + h) - 1 : u[j].id = i
    <3>1. PICK j \in 1 .. h - 1 : t[j].id = i
      BY <1>c, <2>3
    <3> QED BY <2>2, <3>1
  <2> QED BY <1>c, <2>1, <2>3
<1>8. Closed(l, u)
  <2> DEFINE Fine(k) == /\ u[k].id \in 1 .. Len(l) /\ u[k] = l[u[k].id]
                        /\ \A i \in 1 .. Len(l) :
                              i < u[k].id /\ l[i].time = u[k].time =>
                                 \E j \in 1 .. k - 1 : u[j].id = i
  <2>1. (\A k \in 1 .. m : Fine(k)) /\ (\A h \in 1 .. n : Fine(m + h))
    BY <1>6, <1>7
  <2> HIDE DEF Fine
  <2>2. \A k \in 1 .. m + n : Fine(k)
    BY <1>5, <2>1
  <2> QED BY <1>2, <2>2 DEF Closed, Fine
<1>9. ToSet(u) = ToSet(s) \cup ToSet(t)
  <2>1. /\ ToSet(u) = {u[k] : k \in 1 .. m + n} /\ ToSet(s) = {s[k] : k \in 1 .. m}
        /\ ToSet(t) = {t[k] : k \in 1 .. n}
    BY <1>d DEF ToSet
  <2>2. ToSet(s) \subseteq ToSet(u) /\ ToSet(t) \subseteq ToSet(u)
    BY <2>1, <1>3, <1>4
  <2>3. ASSUME NEW k \in 1 .. m + n PROVE u[k] \in ToSet(s) \cup ToSet(t)
    BY <2>1, <1>3, <1>4, <1>5
  <2> QED BY <2>1, <2>2, <2>3
<1> QED BY <1>8, <1>9 DEF u

LEMMA ClosedPrefix ==
    ASSUME NEW l, LedgerOk(l), NEW s, Closed(l, s), NEW m \in 0 .. Len(s)
    PROVE  /\ Closed(l, SubSeq(s, 1, m)) /\ Len(SubSeq(s, 1, m)) = m
           /\ m = Len(s) => SubSeq(s, 1, m) = s
<1> DEFINE u == SubSeq(s, 1, m)
<1>1. s \in Seq(WalletFill) /\ Len(s) \in Nat /\ m \in Nat /\ m <= Len(s)
  BY ClosedHas
<1>2. u \in Seq(WalletFill) /\ Len(u) = m /\ \A k \in 1 .. m : u[k] = s[k]
  <2>1. \A k \in 1 .. m : s[k] \in WalletFill
    BY <1>1
  <2> HIDE DEF WalletFill
  <2>2. /\ u \in Seq(WalletFill) /\ Len(u) = IF 1 <= m THEN m - 1 + 1 ELSE 0
        /\ \A k \in 1 .. m - 1 + 1 : u[k] = s[1 + k - 1]
    BY <1>1, <2>1, SubSeqProperties
  <2>3. m - 1 + 1 = m /\ \A k \in 1 .. m : 1 + k - 1 = k
    BY <1>1
  <2>4. Len(u) = m
    BY <1>1, <2>2, <2>3
  <2> HIDE DEF u
  <2> QED BY <2>2, <2>3, <2>4
<1>3. m = Len(s) => u = s
  <2> HIDE DEF u, WalletFill
  <2> QED BY <1>1, <1>2, SeqEqual
<1> HIDE DEF u
<1>4. ASSUME NEW k \in 1 .. m
      PROVE  /\ u[k].id \in 1 .. Len(l) /\ u[k] = l[u[k].id]
             /\ \A i \in 1 .. Len(l) :
                   i < u[k].id /\ l[i].time = u[k].time => \E j \in 1 .. k - 1 : u[j].id = i
  <2>1. k \in 1 .. Len(s) /\ u[k] = s[k] /\ \A j \in 1 .. k - 1 : j \in 1 .. m
    BY <1>1, <1>2
  <2>2. \A j \in 1 .. k - 1 : u[j] = s[j]
    BY <1>2, <2>1
  <2>3. /\ s[k].id \in 1 .. Len(l) /\ s[k] = l[s[k].id]
        /\ \A i \in 1 .. Len(l) :
              i < s[k].id /\ l[i].time = s[k].time => \E j \in 1 .. k - 1 : s[j].id = i
    BY <2>1 DEF Closed
  <2> QED BY <2>1, <2>2, <2>3
<1> QED BY <1>2, <1>3, <1>4 DEF Closed, u

(* The exchange only adds fills.                                           *)
Extends(l, more) ==
    /\ LedgerOk(l) /\ LedgerOk(more) /\ Len(l) <= Len(more)
    /\ \A i \in 1 .. Len(l) : more[i] = l[i]

LEMMA ClosedGrows ==
    ASSUME NEW l, NEW more, Extends(l, more), NEW s, Closed(l, s)
    PROVE  Closed(more, s)
<1>1. /\ LedgerOk(l) /\ LedgerOk(more) /\ Len(l) \in Nat /\ Len(more) \in Nat /\ Len(l) <= Len(more)
      /\ \A i \in 1 .. Len(l) : more[i] = l[i]
  BY LedgerIs DEF Extends
<1>2. s \in Seq(WalletFill)
  BY DEF Closed
<1>3. ASSUME NEW k \in 1 .. Len(s)
      PROVE  /\ s[k].id \in 1 .. Len(more) /\ s[k] = more[s[k].id]
             /\ \A i \in 1 .. Len(more) :
                   i < s[k].id /\ more[i].time = s[k].time => \E j \in 1 .. k - 1 : s[j].id = i
  <2>1. /\ s[k].id \in 1 .. Len(l) /\ s[k] = l[s[k].id]
        /\ \A i \in 1 .. Len(l) :
              i < s[k].id /\ l[i].time = s[k].time => \E j \in 1 .. k - 1 : s[j].id = i
    BY DEF Closed
  <2>2. \A i \in 1 .. Len(more) : i < s[k].id => i \in 1 .. Len(l) /\ more[i] = l[i]
    BY <1>1, <2>1
  <2> QED BY <1>1, <2>1, <2>2
<1> QED BY <1>2, <1>3 DEF Closed

(* The fills that stay are where they were.                                *)
LEMMA PositionsGrow ==
    ASSUME NEW l, NEW more, Extends(l, more), NEW n \in 0 .. Len(l)
    PROVE  n \in 0 .. Len(more) /\ \A i \in 1 .. n : i \in 1 .. Len(l) /\ more[i] = l[i]
<1>1. /\ Len(l) \in Nat /\ Len(more) \in Nat /\ Len(l) <= Len(more)
      /\ \A i \in 1 .. Len(l) : more[i] = l[i]
  BY LedgerIs DEF Extends
<1> QED BY <1>1

-----------------------------------------------------------------------------
(* Reading the batches back.                                               *)

Merges(g, order) ==
    g = [t \in SUBSET DOMAIN order |->
           IF t = {} THEN <<>> ELSE g[t \ {Max(t)}] \o batches[order[Max(t)]].fills]

LEMMA MergeIsChosen ==
    \A order : LoadSaved(order) = Deduplicate((CHOOSE g : Merges(g, order))[DOMAIN order])
BY DEF LoadSaved, FoldLeft, MapThenFoldSet, Merges

LEMMA LoadedAscends ==
    ASSUME LedgerOk(ledger), NEW n \in Nat, NEW order, DOMAIN order = 1 .. n,
           \A i \in 1 .. n : Closed(ledger, batches[order[i]].fills)
    PROVE  LoadSaved(order) \in Seq(WalletFill) /\ Ascending(LoadSaved(order))
<1> DEFINE C == {s \in Seq(WalletFill) : Closed(ledger, s)}
           base == <<>>
           part(i) == batches[order[i]].fills
           X == {part(i) : i \in 1 .. n}
           step == [p \in C \X X |-> p[1] \o p[2]]
           line == [i \in 1 .. n |-> part(i)]
           g == CHOOSE f : Merges(f, order)
<1>1. base \in C /\ line \in [1 .. n -> X] /\ X \subseteq C
  <2>1. base \in C
    BY ClosedEmpty DEF Closed
  <2>2. X \subseteq C
    <3>1. \A i \in 1 .. n : Closed(ledger, part(i)) /\ part(i) \in Seq(WalletFill)
      BY DEF Closed
    <3> HIDE DEF part
    <3> QED BY <3>1
  <2> QED BY <2>1, <2>2
<1>2. \A a \in C, l \in X : a \o l \in C
  <2> SUFFICES ASSUME NEW a \in C, NEW l \in X PROVE a \o l \in C
    OBVIOUS
  <2>1. Closed(ledger, a) /\ Closed(ledger, l)
    BY <1>1
  <2>2. Closed(ledger, a \o l)
    BY <2>1, ClosedJoin
  <2> QED BY <2>2 DEF Closed
<1>3. step \in [C \X X -> C] /\ \A a \in C, l \in X : step[<<a, l>>] = a \o l
  <2> HIDE DEF C, X
  <2> QED BY <1>2
<1>4. Merges(g, order)
  <2>1. PICK f \in [SUBSET (1 .. n) -> C] :
           \A t \in SUBSET (1 .. n) :
              f[t] = IF t = {} THEN base ELSE step[<<f[t \ {Max(t)}], line[Max(t)]>>]
    <3> HIDE DEF base, C, X, step, line
    <3>1. HasFold(C, step, base, line, n)
      BY <1>1, <1>3, FoldExists
    <3> QED BY <3>1 DEF HasFold
  <2>2. ASSUME NEW t \in SUBSET (1 .. n), t # {}
        PROVE  f[t] = f[t \ {Max(t)}] \o part(Max(t))
    <3>1. Max(t) \in t
      BY <2>2, SomeLast
    <3>2. f[t \ {Max(t)}] \in C /\ part(Max(t)) \in X /\ line[Max(t)] = part(Max(t))
      <4> HIDE DEF C, part
      <4> QED BY <3>1
    <3>3. f[t] = step[<<f[t \ {Max(t)}], line[Max(t)]>>]
      <4> HIDE DEF step, line, C, part
      <4> QED BY <2>1, <2>2
    <3> HIDE DEF step, line, X, C, part
    <3> QED BY <3>2, <1>3, <3>3
  <2>3. f = [t \in SUBSET DOMAIN order |->
               IF t = {} THEN <<>> ELSE f[t \ {Max(t)}] \o batches[order[Max(t)]].fills]
    <3>1. \A t \in SUBSET (1 .. n) :
             f[t] = IF t = {} THEN <<>> ELSE f[t \ {Max(t)}] \o batches[order[Max(t)]].fills
      <4> HIDE DEF step, line, C
      <4> QED BY <2>1, <2>2
    <3>2. f \in [SUBSET (1 .. n) -> C]
      OBVIOUS
    <3> HIDE DEF C
    <3> QED BY <3>1, <3>2
  <2>4. Merges(f, order)
    BY <2>3 DEF Merges
  <2> HIDE DEF g
  <2> QED BY <2>4 DEF g
<1> HIDE DEF g
<1>5. /\ g[{}] = base
      /\ \A t \in SUBSET (1 .. n) : t # {} => g[t] = g[t \ {Max(t)}] \o part(Max(t))
  BY <1>4 DEF Merges
<1> DEFINE Good == {i \in 0 .. n : g[1 .. i] \in C}
<1>6. 0 \in Good
  <2>1. 1 .. 0 = {} /\ 0 \in 0 .. n
    OBVIOUS
  <2> HIDE DEF C, base
  <2> QED BY <1>1, <1>5, <2>1
<1>7. ASSUME NEW i \in 1 .. n, i - 1 \in Good PROVE i \in Good
  <2>1. /\ 1 .. i \in SUBSET (1 .. n) /\ 1 .. i # {}
        /\ Max(1 .. i) = i /\ (1 .. i) \ {i} = 1 .. (i - 1)
    BY InitialSegments
  <2>2. g[1 .. i] = g[(1 .. i) \ {Max(1 .. i)}] \o part(Max(1 .. i))
    <3> HIDE DEF part, base
    <3> QED BY <1>5, <2>1
  <2>3. g[1 .. i] = g[1 .. (i - 1)] \o part(i)
    <3> HIDE DEF part
    <3> QED BY <2>1, <2>2
  <2>4. g[1 .. (i - 1)] \in C /\ part(i) \in X
    <3> HIDE DEF C, part
    <3> QED BY <1>7
  <2>5. g[1 .. i] \in C
    <3> HIDE DEF C, X, part
    <3> QED BY <1>2, <2>3, <2>4
  <2>6. i \in 0 .. n
    OBVIOUS
  <2> HIDE DEF C
  <2> QED BY <2>5, <2>6
<1> HIDE DEF Good
<1>8. \A i \in 0 .. n : i \in Good
  BY <1>6, <1>7, StepInduction
<1>9. g[1 .. n] \in C
  <2>1. n \in Good
    BY <1>8
  <2> HIDE DEF C
  <2> QED BY <2>1 DEF Good
<1>10. LoadSaved(order) = Deduplicate(g[1 .. n])
  BY MergeIsChosen DEF g
<1>11. Closed(ledger, g[1 .. n])
  BY <1>9
<1> QED BY <1>10, <1>11, DeduplicateIs

-----------------------------------------------------------------------------
(* The pages.                                                              *)

LEMMA FillsUntilIs ==
    ASSUME LedgerOk(ledger), NEW time \in Int
    PROVE  /\ FillsUntil(time) \in 0 .. Len(ledger)
           /\ \A i \in 1 .. Len(ledger) : ledger[i].time <= time <=> i <= FillsUntil(time)
<1> DEFINE n == Len(ledger)
           s == {i \in 1 .. n : ledger[i].time <= time}
           m == FillsUntil(time)
<1>1. /\ n \in Nat /\ DOMAIN ledger = 1 .. n
      /\ \A i \in 1 .. n : ledger[i].time \in Int
      /\ \A i, j \in 1 .. n : i <= j => ledger[i].time <= ledger[j].time
  BY LedgerIs
<1>2. m = Max({0} \cup s)
  BY <1>1 DEF FillsUntil
<1>3. \E k \in {0} \cup s : \A j \in {0} \cup s : j <= k
  <2>1. CASE s = {}
    <3> HIDE DEF s
    <3>1. 0 \in {0} \cup s /\ \A j \in {0} \cup s : j <= 0
      BY <2>1
    <3> QED BY <3>1
  <2>2. CASE s # {}
    <3>1. s \in SUBSET (1 .. n)
      OBVIOUS
    <3> HIDE DEF s, n
    <3>2. Max(s) \in s /\ \A j \in s : j <= Max(s)
      BY <1>1, <2>2, <3>1, SomeLast
    <3>3. \A j \in s : j \in Int /\ 0 <= j
      BY <1>1, <3>1
    <3> QED BY <3>2, <3>3
  <2> QED BY <2>1, <2>2
<1>4. m \in {0} \cup s /\ \A j \in {0} \cup s : j <= m
  <2>1. \A j \in {0} \cup s : j \in Int
    BY <1>1
  <2> DEFINE z == {0} \cup s
  <2> HIDE DEF s, m
  <2>2. m = CHOOSE x \in z : \A y \in z : x >= y
    BY <1>2 DEF Max
  <2>3. \E x \in z : \A y \in z : x >= y
    BY <1>3, <2>1
  <2>4. m \in z /\ \A y \in z : m >= y
    <3> HIDE DEF z
    <3> QED BY <2>2, <2>3
  <2> QED BY <2>1, <2>4
<1>5. m \in 0 .. n
  <2>1. {0} \cup s \subseteq 0 .. n
    BY <1>1
  <2> HIDE DEF m
  <2> QED BY <1>4, <2>1
<1> HIDE DEF m
<1>6. ASSUME NEW i \in 1 .. n, ledger[i].time <= time PROVE i <= m
  BY <1>4, <1>6
<1>7. ASSUME NEW i \in 1 .. n, i <= m PROVE ledger[i].time <= time
  <2>1. m \in s
    BY <1>4, <1>7
  <2>2. m \in 1 .. n /\ ledger[m].time <= time
    BY <2>1
  <2>3. ledger[i].time <= ledger[m].time
    BY <1>1, <1>7, <2>2
  <2> QED BY <1>1, <2>2, <2>3
<1> QED BY <1>5, <1>6, <1>7 DEF m

LEMMA MinOfTwo ==
    ASSUME NEW a \in Int, NEW b \in Int
    PROVE  Min({a, b}) = IF a <= b THEN a ELSE b
<1> DEFINE k == IF a <= b THEN a ELSE b
<1>1. \A x \in {a, b} : (\A y \in {a, b} : x <= y) <=> x = k
  OBVIOUS
<1>2. k \in {a, b}
  OBVIOUS
<1> HIDE DEF k
<1>3. Min({a, b}) = k
  BY <1>1, <1>2 DEF Min
<1> QED BY <1>3 DEF k

(* A page that is not full has all that is asked for; a full one all but   *)
(* what is no older than its last fill.                                    *)
PageFits(page, start, end) ==
    /\ Closed(ledger, page) /\ Len(page) \in Nat /\ Len(page) <= MaxFillsPerRequest
    /\ \A i \in 1 .. Len(ledger) :
          start <= ledger[i].time /\ ledger[i].time <= end =>
             \/ ledger[i] \in ToSet(page)
             \/ Len(page) = MaxFillsPerRequest /\ Last(page).time <= ledger[i].time
    /\ Len(page) = MaxFillsPerRequest =>
          \E i \in 1 .. Len(ledger) : Last(page).time = ledger[i].time

LEMMA PageIs ==
    ASSUME LedgerOk(ledger), MaxFillsPerRequest \in Nat \ {0}, NEW start \in Int, NEW end \in Int,
           NEW page, page = UserFillsByTime(start, end)
    PROVE  PageFits(page, start, end)
<1> DEFINE n == Len(ledger)
           P == MaxFillsPerRequest
           b == FillsUntil(start - 1)
           u == FillsUntil(end)
           e == Min({u, b + P})
<1>1. /\ n \in Nat /\ DOMAIN ledger = 1 .. n /\ P \in Nat /\ P >= 1
      /\ \A i \in 1 .. n : ledger[i].time \in Int /\ ledger[i] \in WalletFill /\ ledger[i].id = i
      /\ \A i, j \in 1 .. n : i <= j => ledger[i].time <= ledger[j].time
  <2>1. P \in Nat /\ P >= 1
    OBVIOUS
  <2>2. /\ n \in Nat /\ DOMAIN ledger = 1 .. n
        /\ \A i \in 1 .. n : ledger[i].time \in Int /\ ledger[i] \in WalletFill /\ ledger[i].id = i
    BY LedgerIs
  <2>3. \A i, j \in 1 .. n : i <= j => ledger[i].time <= ledger[j].time
    BY LedgerIs
  <2> HIDE DEF P, n, WalletFill
  <2> QED BY <2>1, <2>2, <2>3
<1>2. /\ b \in 0 .. n /\ u \in 0 .. n
      /\ \A i \in 1 .. n : /\ ledger[i].time <= start - 1 <=> i <= b
                           /\ ledger[i].time <= end <=> i <= u
  <2>1. start - 1 \in Int
    OBVIOUS
  <2> QED BY <2>1, FillsUntilIs
<1>3. page = SubSeq(ledger, b + 1, e)
  BY DEF UserFillsByTime
<1>4. /\ e \in 0 .. n /\ e <= b + P /\ e <= u /\ (e = u \/ e = b + P)
  <2>1. e = IF u <= b + P THEN u ELSE b + P
    <3>1. u \in Int /\ b + P \in Int
      BY <1>1, <1>2
    <3> HIDE DEF b, u, P
    <3> QED BY <3>1, MinOfTwo
  <2> HIDE DEF e, b, u, P
  <2> QED BY <1>1, <1>2, <2>1
<1> HIDE DEF b, u, e, P, n
<1> DEFINE k == Len(page)
<1>5. /\ page \in Seq(WalletFill) /\ k = IF b + 1 <= e THEN e - b ELSE 0
      /\ \A i \in 1 .. e - b : page[i] = ledger[b + i]
  <2>1. \A i \in b + 1 .. e : ledger[i] \in WalletFill
    BY <1>1, <1>2, <1>4
  <2> HIDE DEF WalletFill
  <2>2. /\ page \in Seq(WalletFill) /\ k = IF b + 1 <= e THEN e - (b + 1) + 1 ELSE 0
        /\ \A i \in 1 .. e - (b + 1) + 1 : page[i] = ledger[b + 1 + i - 1]
    BY <1>2, <1>3, <1>4, <2>1, SubSeqProperties
  <2>3. e - (b + 1) + 1 = e - b /\ \A i \in 1 .. e - b : b + 1 + i - 1 = b + i
    BY <1>2, <1>4
  <2> HIDE DEF k
  <2> QED BY <2>2, <2>3
<1>6. k \in Nat /\ k <= P /\ DOMAIN page = 1 .. k
  <2>1. k \in Nat /\ DOMAIN page = 1 .. k
    BY <1>5
  <2> HIDE DEF k
  <2> QED BY <1>1, <1>2, <1>4, <1>5, <2>1
<1> HIDE DEF k
<1>7. ASSUME NEW i \in 1 .. k
      PROVE  b + i \in 1 .. n /\ page[i] = ledger[b + i] /\ page[i].id = b + i
  <2>0. b \in Int /\ e \in Int /\ e <= n /\ b >= 0 /\ n \in Int
    BY <1>1, <1>2, <1>4
  <2>k. b + 1 <= e /\ k = e - b
    BY <1>5, <1>6, <2>0
  <2>1. b + i \in 1 .. n /\ i \in 1 .. e - b
    BY <2>0, <2>k
  <2> QED BY <1>1, <1>5, <2>1
<1>8. ASSUME NEW i \in 1 .. n, b < i, i <= e PROVE i - b \in 1 .. k /\ page[i - b] = ledger[i]
  <2>1. i - b \in 1 .. k /\ b + (i - b) = i
    BY <1>2, <1>4, <1>5, <1>6, <1>8
  <2>2. page[i - b] = ledger[b + (i - b)]
    BY <1>7, <2>1
  <2> QED BY <2>1, <2>2
<1>9. ASSUME NEW h \in 1 .. k
      PROVE  /\ page[h].id \in 1 .. n /\ page[h] = ledger[page[h].id]
             /\ \A i \in 1 .. n :
                   i < page[h].id /\ ledger[i].time = page[h].time => \E j \in 1 .. h - 1 : page[j].id = i
  <2>1. page[h].id \in 1 .. n /\ page[h] = ledger[page[h].id] /\ page[h].id = b + h
    BY <1>7
  <2>2. ASSUME NEW i \in 1 .. n, i < page[h].id, ledger[i].time = page[h].time
        PROVE  \E j \in 1 .. h - 1 : page[j].id = i
    <3>1. ~(b + h <= b) /\ b + h \in 1 .. n
      BY <1>2, <2>1
    <3>2. ledger[b + h].time = ledger[i].time
      BY <2>1, <2>2
    <3>3. ~(ledger[i].time <= start - 1)
      BY <1>2, <3>1, <3>2
    <3>4. b < i
      BY <1>2, <3>3
    <3>5. i - b \in 1 .. h - 1 /\ i <= e
      BY <1>2, <1>4, <1>5, <1>6, <2>1, <2>2, <3>4
    <3>6. page[i - b] = ledger[i]
      BY <1>8, <3>4, <3>5
    <3> QED BY <1>1, <3>5, <3>6
  <2> QED BY <2>1, <2>2
<1>10. Closed(ledger, page)
  BY <1>5, <1>9 DEF Closed, k, n
<1>11. ASSUME k = P
       PROVE  Last(page).time = ledger[e].time /\ e \in 1 .. n /\ e = b + P
  <2>1. e = b + P /\ e \in 1 .. n /\ k \in 1 .. k
    BY <1>1, <1>2, <1>4, <1>5, <1>6, <1>11
  <2>2. page[k] = ledger[e]
    BY <1>7, <1>11, <2>1
  <2>3. Last(page) = page[k]
    BY DEF Last, k
  <2> QED BY <2>1, <2>2, <2>3
<1>12. ASSUME NEW i \in 1 .. n, start <= ledger[i].time, ledger[i].time <= end
       PROVE  ledger[i] \in ToSet(page) \/ (k = P /\ Last(page).time <= ledger[i].time)
  <2>1. b < i /\ i <= u
    BY <1>1, <1>2, <1>12
  <2>2. CASE i <= e
    <3>1. i - b \in DOMAIN page /\ page[i - b] = ledger[i]
      BY <1>6, <1>8, <2>1, <2>2
    <3>2. page[i - b] \in ToSet(page)
      BY <3>1 DEF ToSet
    <3> QED BY <3>1, <3>2
  <2>3. CASE ~(i <= e)
    <3>1. e = b + P /\ k = P
      BY <1>1, <1>2, <1>4, <1>5, <2>1, <2>3
    <3>2. Last(page).time = ledger[e].time /\ e \in 1 .. n /\ e <= i
      BY <1>4, <1>11, <2>3, <3>1
    <3>3. ledger[e].time <= ledger[i].time
      BY <1>1, <3>2
    <3> QED BY <3>1, <3>2, <3>3
  <2> QED BY <2>2, <2>3
<1> QED BY <1>6, <1>10, <1>11, <1>12 DEF k, n, P, PageFits

-----------------------------------------------------------------------------
(* The invariant.                                                          *)

Requests == [start : Int, end : Int, current : Int]

Saved == [name : Int \X Int \X Nat, start : Int, end : Int, fills : Seq(WalletFill),
          incomplete : BOOLEAN, known : Nat, cuts : SUBSET Int]

(* Pages have the i-th fill, or may have lost it to a tie.                 *)
Read(l, i, s, lost) == l[i] \in ToSet(s) \/ l[i].time \in lost

(* They have what was asked for of the first n fills.                      *)
ReadAll(l, n, start, end, s, lost) ==
    \A i \in 1 .. n : start <= l[i].time /\ l[i].time <= end => Read(l, i, s, lost)

(* They have what comes before the next page.                              *)
ReadBefore(l, r, s, lost) ==
    \A i \in 1 .. Len(l) :
       r.start <= l[i].time /\ l[i].time <= r.end /\ l[i].time < r.current => Read(l, i, s, lost)

(* The next page starts where the download does, or just after the time at *)
(* which a page was cut; the wallet had traded by then.                    *)
NextPage(l, r, lost) ==
    \/ r.current = r.start
    \/ r.current - 1 \in lost /\ \E i \in 1 .. Len(l) : r.current - 1 <= l[i].time

SavedOk(l, b) ==
    /\ Closed(l, b.fills) /\ b.known \in 0 .. Len(l)
    /\ b.incomplete \/ ReadAll(l, b.known, b.start, b.end, b.fills, b.cuts)

WalletInv ==
    /\ LedgerOk(ledger)
    /\ request \in Requests /\ known \in 0 .. Len(ledger) /\ cuts \in SUBSET Int
    /\ Closed(ledger, fills)
    /\ NextPage(ledger, request, cuts)
    /\ phase = "paging" => ReadBefore(ledger, request, fills, cuts)
    /\ phase = "saving" => \/ Len(fills) >= MaxAvailableFills
                           \/ ReadAll(ledger, known, request.start, request.end, fills, cuts)
    /\ batches \in Seq(Saved)
    /\ \A k \in 1 .. Len(batches) : SavedOk(ledger, batches[k])

LEMMA LedgerStarts == LedgerOk(<<>>)
<1>1. <<>> \in Seq(WalletFill) /\ Len(<<>>) = 0
  OBVIOUS
<1>2. \A i \in 1 .. 0 : FALSE
  OBVIOUS
<1> HIDE DEF WalletFill
<1> QED BY <1>1, <1>2 DEF LedgerOk

LEMMA WalletInvInit ==
    ASSUME WalletInit, WalletAssumption
    PROVE  WalletInv
<1>1. LedgerOk(ledger) /\ Len(ledger) = 0
  BY LedgerStarts DEF WalletInit
<1>2. request \in Requests /\ request.current = request.start
  <2>1. MaxTime + 1 \in Int
    BY DEF WalletAssumption
  <2> QED BY <2>1 DEF WalletInit, NoRequest, NoEnd, Requests
<1>3. known \in 0 .. Len(ledger) /\ cuts \in SUBSET Int
  BY <1>1 DEF WalletInit
<1>4. Closed(ledger, fills)
  BY ClosedEmpty DEF WalletInit
<1>5. NextPage(ledger, request, cuts)
  BY <1>2 DEF NextPage
<1>6. phase = "idle"
  BY DEF WalletInit
<1>7. batches \in Seq(Saved) /\ \A k \in 1 .. Len(batches) : FALSE
  <2>1. batches = <<>>
    BY DEF WalletInit
  <2> HIDE DEF Saved
  <2> QED BY <2>1
<1> HIDE DEF Saved, Requests
<1> QED BY <1>1, <1>2, <1>3, <1>4, <1>5, <1>6, <1>7 DEF WalletInv

LEMMA ReadAllGrows ==
    ASSUME NEW l, NEW more, Extends(l, more), NEW n \in 0 .. Len(l), NEW start, NEW end, NEW s, NEW lost,
           ReadAll(l, n, start, end, s, lost)
    PROVE  ReadAll(more, n, start, end, s, lost)
<1>1. \A i \in 1 .. n : more[i] = l[i]
  BY PositionsGrow
<1> QED BY <1>1 DEF ReadAll, Read

LEMMA SavedGrows ==
    ASSUME NEW l, NEW more, Extends(l, more), NEW b, SavedOk(l, b)
    PROVE  SavedOk(more, b)
<1>1. Closed(more, b.fills)
  BY ClosedGrows DEF SavedOk
<1>2. b.known \in 0 .. Len(l) /\ b.known \in 0 .. Len(more)
  BY PositionsGrow DEF SavedOk
<1>3. b.incomplete \/ ReadAll(more, b.known, b.start, b.end, b.fills, b.cuts)
  BY <1>2, ReadAllGrows DEF SavedOk
<1> QED BY <1>1, <1>2, <1>3 DEF SavedOk

(* The fill a trade adds.                                                  *)
NewFill(size, time) ==
    [id |-> Len(ledger) + 1, time |-> time, start |-> Position(Len(ledger)), size |-> size,
     pnl |-> IF Position(Len(ledger)) * size < 0 THEN Profit[Len(ledger) + 1] ELSE 0]

LEMMA TradeAdds ==
    ASSUME LedgerOk(ledger), WalletAssumption,
           NEW size \in Sizes, NEW time \in Milliseconds, Trade(size, time)
    PROVE  /\ Extends(ledger, ledger') /\ Len(ledger') = Len(ledger) + 1
           /\ \A i \in 1 .. Len(ledger) : ledger[i].time <= ledger'[Len(ledger) + 1].time
<1> DEFINE n == Len(ledger)
           f == NewFill(size, time)
           more == Append(ledger, f)
<1>1. /\ n \in Nat /\ ledger \in Seq(WalletFill)
      /\ \A i \in 1 .. n : ledger[i].time \in Int /\ ledger[i].time >= 1 /\ End(ledger[i]) \in Int
      /\ \A i, j \in 1 .. n : i <= j => ledger[i].time <= ledger[j].time
  <2>1. \A i, j \in 1 .. n : i <= j => ledger[i].time <= ledger[j].time
    BY LedgerIs
  <2>2. /\ n \in Nat /\ ledger \in Seq(WalletFill)
        /\ \A i \in 1 .. n : ledger[i].time \in Int /\ ledger[i].time >= 1 /\ End(ledger[i]) \in Int
    BY LedgerIs
  <2> QED BY <2>1, <2>2
<1>2. n < MaxLedger /\ time >= Now /\ ledger' = more
  BY DEF Trade, NewFill
<1>3. size \in Int /\ size # 0 /\ time \in Int /\ time >= 1 /\ Profit[n + 1] \in Int
  <2>1. n + 1 \in 1 .. MaxLedger /\ MaxLedger \in Nat /\ MaxTime \in Nat
    BY <1>1, <1>2 DEF WalletAssumption
  <2> QED BY <2>1 DEF WalletAssumption, Milliseconds
<1>4. /\ Position(n) \in Int
      /\ n = 0 => Position(n) = 0
      /\ n # 0 => Position(n) = End(ledger[n])
  <2>1. n # 0 => n \in 1 .. n
    BY <1>1
  <2> QED BY <1>1, <2>1 DEF Position, End
<1>5. /\ f.id = n + 1 /\ f.time = time /\ f.start = Position(n) /\ f.size = size
      /\ f.pnl \in Int /\ (f.start = 0 => f.pnl = 0) /\ f \in WalletFill
  <2> DEFINE p == Position(n) * size
             q == IF p < 0 THEN Profit[n + 1] ELSE 0
  <2>1. q \in Int /\ (Position(n) = 0 => q = 0)
    <3>1. Position(n) = 0 => p = 0 * size
      BY <1>3
    <3>2. 0 * size = 0
      BY <1>3
    <3> HIDE DEF p
    <3> QED BY <1>3, <3>1, <3>2
  <2>2. f = [id |-> n + 1, time |-> time, start |-> Position(n), size |-> size, pnl |-> q]
    BY DEF NewFill
  <2>3. n + 1 \in Nat
    BY <1>1
  <2> HIDE DEF q, f
  <2>4. /\ f.id = n + 1 /\ f.time = time /\ f.start = Position(n) /\ f.size = size /\ f.pnl = q
    BY <2>2
  <2>5. f \in WalletFill
    BY <1>3, <1>4, <2>1, <2>2, <2>3 DEF WalletFill
  <2> QED BY <2>1, <2>4, <2>5
<1> HIDE DEF f
<1>6. /\ more \in Seq(WalletFill) /\ Len(more) = n + 1 /\ more[n + 1] = f
      /\ \A i \in 1 .. n : more[i] = ledger[i]
  <2> HIDE DEF WalletFill
  <2> QED BY <1>1, <1>5, AppendProperties
<1>7. \A i \in 1 .. n : ledger[i].time <= f.time
  <2> TAKE i \in 1 .. n
  <2>1. Len(ledger) # 0 /\ n \in 1 .. n /\ i <= n
    BY <1>1
  <2>2. ledger # <<>>
    BY <2>1
  <2>3. Now = ledger[n].time
    BY <2>2 DEF Now, Last
  <2>4. /\ ledger[i].time <= ledger[n].time
        /\ ledger[i].time \in Int /\ ledger[n].time \in Int
    BY <1>1, <2>1
  <2>5. time \in Int /\ time >= ledger[n].time /\ f.time = time
    BY <1>2, <1>3, <1>5, <2>3
  <2> HIDE DEF n, f
  <2> QED BY <2>4, <2>5
<1> HIDE DEF more
<1>8. LedgerOk(more)
  <2>1. ASSUME NEW i \in 1 .. n + 1
        PROVE  /\ more[i].id = i /\ more[i].size # 0 /\ more[i].time >= 1
               /\ more[i].start = 0 => more[i].pnl = 0
               /\ i < n + 1 => more[i + 1].start = End(more[i])
    <3>1. CASE i = n + 1
      BY <1>1, <1>3, <1>5, <1>6, <3>1
    <3>2. CASE i # n + 1
      <4>1. i \in 1 .. n /\ more[i] = ledger[i] /\ i < n + 1
        BY <1>1, <1>6, <3>2
      <4>2. /\ ledger[i].id = i /\ ledger[i].size # 0 /\ ledger[i].time >= 1
            /\ ledger[i].start = 0 => ledger[i].pnl = 0
            /\ i < n => ledger[i + 1].start = End(ledger[i])
        BY <4>1 DEF LedgerOk
      <4>3. more[i + 1].start = End(ledger[i])
        <5>1. CASE i = n
          <6>1. n # 0
            BY <1>1, <4>1, <5>1
          <6> QED BY <1>4, <1>5, <1>6, <5>1, <6>1
        <5>2. CASE i # n
          <6>1. i < n /\ i + 1 \in 1 .. n
            BY <1>1, <4>1, <5>2
          <6>2. more[i + 1] = ledger[i + 1]
            BY <1>6, <6>1
          <6> QED BY <4>2, <6>1, <6>2
        <5> QED BY <5>1, <5>2
      <4> QED BY <4>1, <4>2, <4>3
    <3> QED BY <3>1, <3>2
  <2>2. more[1].start = 0
    <3>1. CASE n = 0
      <4>1. more[1] = f
        BY <1>6, <3>1
      <4> QED BY <1>4, <1>5, <3>1, <4>1
    <3>2. CASE n # 0
      <4>1. 1 \in 1 .. n /\ n > 0
        BY <1>1, <3>2
      <4>2. ledger[1].start = 0
        BY <4>1 DEF LedgerOk
      <4>3. more[1] = ledger[1]
        BY <1>6, <4>1
      <4> QED BY <4>2, <4>3
    <3> QED BY <3>1, <3>2
  <2>3. ASSUME NEW i \in 1 .. n + 1, NEW j \in 1 .. n + 1, i < j PROVE more[i].time <= more[j].time
    <3>1. i \in 1 .. n /\ more[i] = ledger[i]
      BY <1>1, <1>6, <2>3
    <3>2. CASE j = n + 1
      <4>1. more[j] = f
        BY <1>6, <3>2
      <4>2. ledger[i].time <= f.time
        BY <1>7, <3>1
      <4> QED BY <3>1, <4>1, <4>2
    <3>3. CASE j # n + 1
      <4>0. n \in Int /\ i \in Int /\ j \in Int
        BY <1>1, <3>1
      <4> HIDE DEF n
      <4>1. j \in 1 .. n /\ i <= j
        BY <2>3, <3>3, <4>0
      <4>2. more[j] = ledger[j] /\ ledger[i].time <= ledger[j].time
        BY <1>1, <1>6, <3>1, <4>1
      <4> QED BY <3>1, <4>2
    <3> QED BY <3>2, <3>3
  <2> HIDE DEF WalletFill, n
  <2> QED BY <1>6, <2>1, <2>2, <2>3 DEF LedgerOk
<1>9. Extends(ledger, more)
  <2>1. n <= n + 1
    BY <1>1
  <2> QED BY <1>6, <1>8, <2>1 DEF Extends
<1> QED BY <1>2, <1>6, <1>7, <1>9

LEMMA TradeWallet ==
    ASSUME WalletInv, WalletAssumption,
           NEW size \in Sizes, NEW time \in Milliseconds, Trade(size, time)
    PROVE  WalletInv'
<1>1. /\ LedgerOk(ledger)
      /\ request \in Requests /\ known \in 0 .. Len(ledger) /\ cuts \in SUBSET Int
      /\ Closed(ledger, fills) /\ NextPage(ledger, request, cuts)
      /\ phase = "paging" => ReadBefore(ledger, request, fills, cuts)
      /\ phase = "saving" => \/ Len(fills) >= MaxAvailableFills
                             \/ ReadAll(ledger, known, request.start, request.end, fills, cuts)
      /\ batches \in Seq(Saved) /\ \A k \in 1 .. Len(batches) : SavedOk(ledger, batches[k])
  BY DEF WalletInv
<1>2. UNCHANGED <<phase, request, fills, known, cuts, batches>>
  BY DEF Trade
<1>3. /\ Extends(ledger, ledger') /\ Len(ledger') = Len(ledger) + 1
      /\ \A i \in 1 .. Len(ledger) : ledger[i].time <= ledger'[Len(ledger) + 1].time
  BY <1>1, TradeAdds
<1> DEFINE n == Len(ledger)
           l == ledger'
<1>4. /\ n \in Nat /\ LedgerOk(l) /\ \A i \in 1 .. n : l[i] = ledger[i]
      /\ \A i \in 1 .. n : ledger[i].time \in Int
      /\ l[n + 1].time \in Int
  <2>1. LedgerOk(l) /\ \A i \in 1 .. n : l[i] = ledger[i]
    BY <1>3 DEF Extends
  <2>2. n \in Nat /\ \A i \in 1 .. n : ledger[i].time \in Int
    BY <1>1, LedgerIs
  <2>3. n + 1 \in 1 .. Len(l)
    BY <1>3, <2>2
  <2> HIDE DEF l, n
  <2>4. l[n + 1].time \in Int
    BY <2>1, <2>3, LedgerIs
  <2> QED BY <2>1, <2>2, <2>4
<1>5. request.start \in Int /\ request.current \in Int
  BY <1>1 DEF Requests
<1>6. Closed(l, fills) /\ known \in 0 .. Len(l)
  BY <1>1, <1>3, ClosedGrows, PositionsGrow
<1>7. NextPage(l, request, cuts)
  <2>1. \A i \in 1 .. n : i \in 1 .. Len(l) /\ l[i] = ledger[i]
    BY <1>3, <1>4
  <2> QED BY <1>1, <2>1 DEF NextPage
<1>8. ASSUME phase = "paging" PROVE ReadBefore(l, request, fills, cuts)
  <2> SUFFICES ASSUME NEW i \in 1 .. Len(l), request.start <= l[i].time,
                      l[i].time <= request.end, l[i].time < request.current
               PROVE  Read(l, i, fills, cuts)
    BY DEF ReadBefore
  <2>1. CASE i \in 1 .. n
    <3>1. l[i] = ledger[i] /\ ReadBefore(ledger, request, fills, cuts)
      BY <1>1, <1>4, <1>8, <2>1
    <3>2. Read(ledger, i, fills, cuts)
      BY <2>1, <3>1 DEF ReadBefore
    <3> QED BY <3>1, <3>2 DEF Read
  <2>2. CASE i \notin 1 .. n
    <3>1. i = n + 1
      BY <1>3, <1>4, <2>2
    <3>2. l[i].time \in Int
      BY <1>4, <3>1
    <3>3. request.current # request.start
      BY <1>5, <3>2
    <3>4. PICK h \in 1 .. n : request.current - 1 <= ledger[h].time
      BY <1>1, <3>3 DEF NextPage
    <3>5. ledger[h].time <= l[i].time
      BY <1>3, <3>1, <3>4
    <3>t. ledger[h].time \in Int
      BY <1>4, <3>4
    <3>6. l[i].time = request.current - 1
      <4>1. l[i].time < request.current
        OBVIOUS
      <4>2. \A a, b, c \in Int : a - 1 <= b /\ b <= c /\ c < a => c = a - 1
        OBVIOUS
      <4>3. request.current - 1 <= ledger[h].time
        BY <3>4
      <4> HIDE DEF l, n
      <4> QED BY <1>5, <3>2, <3>5, <3>t, <4>1, <4>2, <4>3
    <3>7. request.current - 1 \in cuts
      BY <1>1, <3>3 DEF NextPage
    <3> QED BY <3>6, <3>7 DEF Read
  <2> QED BY <2>1, <2>2
<1>9. ReadAll(ledger, known, request.start, request.end, fills, cuts) =>
         ReadAll(l, known, request.start, request.end, fills, cuts)
  BY <1>1, <1>3, ReadAllGrows
<1>10. \A k \in 1 .. Len(batches) : SavedOk(l, batches[k])
  BY <1>1, <1>3, SavedGrows
<1> HIDE DEF Saved, Requests
<1>11. /\ LedgerOk(l)
       /\ request \in Requests /\ known \in 0 .. Len(l) /\ cuts \in SUBSET Int
       /\ Closed(l, fills) /\ NextPage(l, request, cuts)
       /\ phase = "paging" => ReadBefore(l, request, fills, cuts)
       /\ phase = "saving" => \/ Len(fills) >= MaxAvailableFills
                              \/ ReadAll(l, known, request.start, request.end, fills, cuts)
       /\ batches \in Seq(Saved) /\ \A k \in 1 .. Len(batches) : SavedOk(l, batches[k])
  BY <1>1, <1>4, <1>6, <1>7, <1>8, <1>9, <1>10
<1> QED BY <1>2, <1>11 DEF WalletInv

LEMMA DownloadWallet ==
    ASSUME WalletInv, WalletAssumption,
           NEW start \in Starts, NEW end \in Ends \cup {NoEnd}, Download(start, end)
    PROVE  WalletInv'
<1>1. /\ phase' = "paging"
      /\ request' = [start |-> start, end |-> end, current |-> start]
      /\ UNCHANGED <<ledger, fills, known, cuts, batches>>
  BY DEF Download
<1>2. start \in Int /\ end \in Int
  BY DEF WalletAssumption, NoEnd
<1>3. request' \in Requests /\ request'.current = request'.start
  BY <1>1, <1>2 DEF Requests
<1>4. NextPage(ledger, request', cuts)
  BY <1>3 DEF NextPage
<1>5. ReadBefore(ledger, request', fills, cuts)
  <2> SUFFICES ASSUME NEW i \in 1 .. Len(ledger), request'.start <= ledger[i].time,
                      ledger[i].time < request'.current
               PROVE  FALSE
    BY DEF ReadBefore
  <2>1. ledger[i].time \in Int
    BY LedgerIs DEF WalletInv
  <2>2. request'.start = start /\ request'.current = start
    BY <1>1
  <2> QED BY <1>2, <2>1, <2>2
<1>6. phase' # "saving"
  BY <1>1
<1> HIDE DEF Saved, Requests
<1> QED BY <1>1, <1>3, <1>4, <1>5, <1>6 DEF WalletInv

LEMMA ReturnWallet ==
    ASSUME WalletInv, WalletAssumption, Return, UNCHANGED ledger, batches' \in Seq(Saved),
           \A k \in 1 .. Len(batches') : SavedOk(ledger, batches'[k])
    PROVE  WalletInv'
<1>1. phase' = "idle" /\ request' = NoRequest /\ fills' = <<>> /\ known' = 0 /\ cuts' = {}
  BY DEF Return
<1>2. request' \in Requests /\ request'.current = request'.start
  <2>1. MaxTime + 1 \in Int
    BY DEF WalletAssumption
  <2> QED BY <1>1, <2>1 DEF NoRequest, NoEnd, Requests
<1>3. NextPage(ledger, request', cuts')
  BY <1>2 DEF NextPage
<1>4. Closed(ledger, fills')
  BY <1>1, ClosedEmpty
<1>5. known' \in 0 .. Len(ledger) /\ cuts' \in SUBSET Int /\ LedgerOk(ledger)
  BY <1>1, LedgerIs DEF WalletInv
<1>6. phase' # "paging" /\ phase' # "saving"
  BY <1>1
<1> HIDE DEF Saved, Requests
<1> QED BY <1>2, <1>3, <1>4, <1>5, <1>6 DEF WalletInv

LEMMA FailsWallet ==
    ASSUME WalletInv, WalletAssumption, RequestFails
    PROVE  WalletInv'
<1>1. Return /\ UNCHANGED ledger /\ batches' = batches
  BY DEF RequestFails
<1>2. batches \in Seq(Saved) /\ \A k \in 1 .. Len(batches) : SavedOk(ledger, batches[k])
  BY DEF WalletInv
<1> QED BY <1>1, <1>2, ReturnWallet

LEMMA RequestWallet ==
    ASSUME WalletInv, WalletAssumption, RequestPage
    PROVE  WalletInv'
<1> DEFINE page == UserFillsByTime(request.current, request.end)
           n == Len(ledger)
           P == MaxFillsPerRequest
           last == Last(page).time
<1>1. /\ phase = "paging" /\ LedgerOk(ledger) /\ request \in Requests /\ cuts \in SUBSET Int
      /\ Closed(ledger, fills) /\ NextPage(ledger, request, cuts)
      /\ ReadBefore(ledger, request, fills, cuts)
      /\ batches \in Seq(Saved) /\ \A k \in 1 .. Len(batches) : SavedOk(ledger, batches[k])
  BY DEF RequestPage, WalletInv
<1>2. /\ known' = n /\ fills' = fills \o page /\ UNCHANGED <<ledger, batches>>
      /\ \/ /\ Len(page) < P
            /\ phase' = "saving"
            /\ UNCHANGED <<request, cuts>>
         \/ /\ Len(page) = P
            /\ request' = [request EXCEPT !.current = last + 1]
            /\ cuts' = cuts \cup {last}
            /\ phase' = IF last + 1 <= request.end /\ Len(fills) + Len(page) < MaxAvailableFills
                        THEN "paging" ELSE "saving"
  BY DEF RequestPage, NextStart
<1>3. /\ request.start \in Int /\ request.end \in Int /\ request.current \in Int
      /\ P \in Nat \ {0} /\ MaxAvailableFills \in Nat
  BY <1>1 DEF Requests, WalletAssumption
<1>p. page = UserFillsByTime(request.current, request.end)
  OBVIOUS
<1> HIDE DEF page
<1>4. /\ Closed(ledger, page) /\ Len(page) \in Nat /\ Len(page) <= P
      /\ \A i \in 1 .. n :
            request.current <= ledger[i].time /\ ledger[i].time <= request.end =>
               \/ ledger[i] \in ToSet(page)
               \/ Len(page) = P /\ last <= ledger[i].time
      /\ Len(page) = P => \E i \in 1 .. n : last = ledger[i].time
  <2>1. PageFits(page, request.current, request.end)
    BY <1>1, <1>3, <1>p, PageIs
  <2> QED BY <2>1 DEF PageFits
<1> HIDE DEF last
<1>5. /\ n \in Nat /\ \A i \in 1 .. n : ledger[i].time \in Int
      /\ fills \in Seq(WalletFill) /\ page \in Seq(WalletFill) /\ Len(fills) \in Nat
  <2>1. n \in Nat /\ \A i \in 1 .. n : ledger[i].time \in Int
    BY <1>1, LedgerIs
  <2>2. fills \in Seq(WalletFill) /\ page \in Seq(WalletFill) /\ Len(fills) \in Nat
    BY <1>1, <1>4, ClosedHas
  <2> QED BY <2>1, <2>2
<1>6. Closed(ledger, fills') /\ ToSet(fills') = ToSet(fills) \cup ToSet(page)
  BY <1>1, <1>2, <1>4, ClosedJoin
<1>7. Len(fills') = Len(fills) + Len(page)
  <2> HIDE DEF WalletFill
  <2> QED BY <1>2, <1>5, ConcatProperties
<1>8. known' \in 0 .. n
  BY <1>2, <1>5
<1>9. ASSUME NEW i \in 1 .. n, request.start <= ledger[i].time, ledger[i].time <= request.end
      PROVE  \/ Read(ledger, i, fills', cuts)
             \/ Len(page) = P /\ last <= ledger[i].time
  <2>1. CASE ledger[i].time < request.current
    <3>1. Read(ledger, i, fills, cuts)
      BY <1>1, <1>9, <2>1 DEF ReadBefore
    <3> QED BY <1>6, <3>1 DEF Read
  <2>2. CASE ~(ledger[i].time < request.current)
    <3>1. request.current <= ledger[i].time
      BY <1>3, <1>5, <2>2
    <3> QED BY <1>4, <1>6, <1>9, <3>1 DEF Read
  <2> QED BY <2>1, <2>2
<1> HIDE DEF Saved, Requests
<1>10. CASE Len(page) < P
  <2>1. phase' = "saving" /\ request' = request /\ cuts' = cuts
    BY <1>2, <1>3, <1>4, <1>10
  <2>2. ReadAll(ledger, known', request.start, request.end, fills', cuts)
    <3>1. ~(Len(page) = P)
      BY <1>3, <1>4, <1>10
    <3> QED BY <1>2, <1>9, <3>1 DEF ReadAll
  <2> QED BY <1>1, <1>2, <1>6, <1>8, <2>1, <2>2 DEF WalletInv
<1>11. CASE Len(page) = P
  <2>1. /\ request' = [request EXCEPT !.current = last + 1] /\ cuts' = cuts \cup {last}
        /\ phase' = IF last + 1 <= request.end /\ Len(fills) + Len(page) < MaxAvailableFills
                    THEN "paging" ELSE "saving"
    BY <1>2, <1>3, <1>4, <1>11
  <2>2. PICK h \in 1 .. n : last = ledger[h].time
    BY <1>4, <1>11
  <2>3. last \in Int
    BY <1>5, <2>2
  <2>4. /\ request' \in Requests /\ request'.start = request.start /\ request'.end = request.end
        /\ request'.current = last + 1
    BY <1>1, <2>1, <2>3 DEF Requests
  <2>5. cuts' \in SUBSET Int /\ last \in cuts' /\ cuts \subseteq cuts'
    BY <1>1, <2>1, <2>3
  <2>6. NextPage(ledger, request', cuts')
    <3>1. request'.current - 1 = last /\ last <= ledger[h].time
      BY <2>2, <2>3, <2>4
    <3> QED BY <2>5, <3>1 DEF NextPage
  <2>7. ASSUME NEW i \in 1 .. n, request.start <= ledger[i].time, ledger[i].time <= request.end,
               ledger[i].time < last + 1
        PROVE  Read(ledger, i, fills', cuts')
    <3>1. CASE Read(ledger, i, fills', cuts)
      BY <2>5, <3>1 DEF Read
    <3>2. CASE last <= ledger[i].time
      <4>1. ledger[i].time = last
        BY <1>5, <2>3, <2>7, <3>2
      <4> QED BY <2>5, <4>1 DEF Read
    <3> QED BY <1>9, <2>7, <3>1, <3>2
  <2>8. ReadBefore(ledger, request', fills', cuts')
    BY <2>4, <2>7 DEF ReadBefore
  <2>9. phase' = "saving" => \/ Len(fills') >= MaxAvailableFills
                             \/ ReadAll(ledger, known', request'.start, request'.end, fills', cuts')
    <3> SUFFICES ASSUME phase' = "saving", ~(Len(fills') >= MaxAvailableFills)
                 PROVE  ReadAll(ledger, known', request'.start, request'.end, fills', cuts')
      OBVIOUS
    <3>1. Len(fills) + Len(page) < MaxAvailableFills
      BY <1>3, <1>4, <1>5, <1>7
    <3>2. ~(last + 1 <= request.end)
      BY <2>1, <3>1
    <3>3. \A i \in 1 .. n : ledger[i].time <= request.end => ledger[i].time < last + 1
      BY <1>3, <1>5, <2>3, <3>2
    <3> QED BY <1>2, <2>4, <2>7, <3>3 DEF ReadAll
  <2> QED BY <1>1, <1>2, <1>6, <1>8, <2>4, <2>5, <2>6, <2>8, <2>9 DEF WalletInv
<1> QED BY <1>2, <1>10, <1>11

LEMMA SaveWallet ==
    ASSUME WalletInv, WalletAssumption, Save
    PROVE  WalletInv'
<1> DEFINE m == Min({Len(fills), MaxAvailableFills})
           raw == SubSeq(fills, 1, m)
           kept == Deduplicate(raw)
           b == [name |-> BatchName, start |-> request.start, end |-> request.end,
                 fills |-> kept, incomplete |-> MayBeIncomplete(raw), known |-> known, cuts |-> cuts]
<1>1. /\ phase = "saving" /\ batches' = Append(batches, b) /\ Return /\ UNCHANGED ledger
  BY DEF Save
<1>2. /\ LedgerOk(ledger) /\ request \in Requests /\ cuts \in SUBSET Int
      /\ known \in 0 .. Len(ledger) /\ Closed(ledger, fills)
      /\ \/ Len(fills) >= MaxAvailableFills
         \/ ReadAll(ledger, known, request.start, request.end, fills, cuts)
      /\ batches \in Seq(Saved) /\ \A k \in 1 .. Len(batches) : SavedOk(ledger, batches[k])
  BY <1>1 DEF WalletInv
<1>3. /\ Len(fills) \in Nat /\ MaxAvailableFills \in Nat /\ Len(ledger) \in Nat
      /\ request.start \in Int /\ request.end \in Int
  BY <1>2, ClosedHas, LedgerIs DEF WalletAssumption, Requests
<1>4. m = IF Len(fills) <= MaxAvailableFills THEN Len(fills) ELSE MaxAvailableFills
  BY <1>3, MinOfTwo
<1> HIDE DEF m
<1>5. m \in 0 .. Len(fills)
  BY <1>3, <1>4
<1>6. Closed(ledger, raw) /\ Len(raw) = m /\ (m = Len(fills) => raw = fills)
  BY <1>2, <1>5, ClosedPrefix
<1>7. MayBeIncomplete(raw) \in BOOLEAN /\ (Len(fills) >= MaxAvailableFills => MayBeIncomplete(raw))
  <2> HIDE DEF raw
  <2> QED BY <1>3, <1>4, <1>6 DEF MayBeIncomplete
<1> HIDE DEF raw
<1>8. Closed(ledger, kept) /\ ToSet(kept) = ToSet(raw) /\ kept \in Seq(WalletFill)
  BY <1>2, <1>6, DeduplicateIs
<1> HIDE DEF kept
<1>9. \/ MayBeIncomplete(raw)
      \/ ReadAll(ledger, known, request.start, request.end, kept, cuts)
  <2> SUFFICES ASSUME ~MayBeIncomplete(raw)
               PROVE  ReadAll(ledger, known, request.start, request.end, kept, cuts)
    OBVIOUS
  <2>1. ~(Len(fills) >= MaxAvailableFills)
    BY <1>7
  <2>2. raw = fills
    BY <1>3, <1>4, <1>6, <2>1
  <2>3. ToSet(kept) = ToSet(fills)
    BY <1>8, <2>2
  <2> QED BY <1>2, <2>1, <2>3 DEF ReadAll, Read
<1>10. b.known = known /\ b.start = request.start /\ b.end = request.end /\ b.fills = kept
       /\ b.cuts = cuts /\ b.incomplete = MayBeIncomplete(raw)
  OBVIOUS
<1>11. b \in Saved
  <2>1. Len(batches) + 1 \in Nat
    BY <1>2
  <2>2. BatchName \in Int \X Int \X Nat
    BY <1>3, <2>1 DEF BatchName
  <2>3. known \in Nat
    BY <1>2, <1>3
  <2> DEFINE F == Seq(WalletFill)
             N == Int \X Int \X Nat
  <2>4. kept \in F /\ BatchName \in N
    BY <1>8, <2>2
  <2> HIDE DEF F, N
  <2>5. b \in [name : N, start : Int, end : Int, fills : F,
               incomplete : BOOLEAN, known : Nat, cuts : SUBSET Int]
    BY <1>2, <1>3, <1>7, <2>3, <2>4
  <2> QED BY <2>5 DEF Saved, F, N
<1> HIDE DEF b
<1>12. SavedOk(ledger, b)
  BY <1>2, <1>8, <1>9, <1>10 DEF SavedOk
<1> HIDE DEF Saved
<1>13. /\ batches' \in Seq(Saved) /\ Len(batches') = Len(batches) + 1
       /\ \A k \in 1 .. Len(batches) : batches'[k] = batches[k]
       /\ batches'[Len(batches) + 1] = b
  BY <1>1, <1>2, <1>11, AppendProperties
<1>14. \A k \in 1 .. Len(batches') : SavedOk(ledger, batches'[k])
  <2>1. \A k \in 1 .. Len(batches') : k \in 1 .. Len(batches) \/ k = Len(batches) + 1
    BY <1>2, <1>13
  <2> QED BY <1>2, <1>12, <1>13, <2>1
<1> QED BY <1>1, <1>13, <1>14, ReturnWallet

LEMMA WalletNextInv ==
    ASSUME WalletInv, WalletAssumption, [WalletNext]_walletVars
    PROVE  WalletInv'
<1>1. ASSUME NEW size \in Sizes, NEW time \in Milliseconds, Trade(size, time) PROVE WalletInv'
  BY <1>1, TradeWallet
<1>2. ASSUME NEW start \in Starts, NEW end \in Ends \cup {NoEnd}, Download(start, end) PROVE WalletInv'
  BY <1>2, DownloadWallet
<1>3. CASE RequestPage
  BY <1>3, RequestWallet
<1>4. CASE RequestFails
  BY <1>4, FailsWallet
<1>5. CASE Save
  BY <1>5, SaveWallet
<1>6. CASE UNCHANGED walletVars
  BY <1>6 DEF WalletInv, walletVars
<1> QED BY <1>1, <1>2, <1>3, <1>4, <1>5, <1>6 DEF WalletNext

LEMMA WalletInvMerges ==
    ASSUME WalletInv
    PROVE  MergedHistory
<1>1. /\ LedgerOk(ledger) /\ batches \in Seq(Saved)
      /\ \A k \in 1 .. Len(batches) : SavedOk(ledger, batches[k])
  BY DEF WalletInv
<1> HIDE DEF Saved
<1>2. Len(batches) \in Nat /\ DOMAIN batches = 1 .. Len(batches)
  BY <1>1
<1>3. OnlyTiesAreLost
  <2> SUFFICES ASSUME NEW b \in ToSet(batches), ~b.incomplete, NEW i \in 1 .. b.known,
                      b.start <= ledger[i].time, ledger[i].time <= b.end
               PROVE  ledger[i] \in ToSet(b.fills) \/ ledger[i].time \in b.cuts
    BY DEF OnlyTiesAreLost
  <2>1. PICK k \in 1 .. Len(batches) : b = batches[k]
    BY <1>2 DEF ToSet
  <2>2. SavedOk(ledger, b)
    BY <1>1, <2>1
  <2>3. ReadAll(ledger, b.known, b.start, b.end, b.fills, b.cuts)
    BY <2>2 DEF SavedOk
  <2> QED BY <2>3 DEF ReadAll, Read
<1>4. MergedInOrder
  <2> SUFFICES ASSUME NEW order \in SetToSeqs(DOMAIN batches)
               PROVE  Ascending(LoadSaved(order))
    BY DEF MergedInOrder, Ascending
  <2>1. Cardinality(DOMAIN batches) = Len(batches)
    <3> DEFINE n == Len(batches)
    <3>1. n \in Nat /\ DOMAIN batches = 1 .. n
      BY <1>2
    <3> HIDE DEF n
    <3>2. Cardinality(1 .. n) = n
      BY <3>1, FS_Interval
    <3> QED BY <3>1, <3>2 DEF n
  <2>2. order \in [1 .. Len(batches) -> 1 .. Len(batches)]
    BY <1>2, <2>1 DEF SetToSeqs
  <2>3. \A i \in 1 .. Len(batches) : Closed(ledger, batches[order[i]].fills)
    <3> TAKE i \in 1 .. Len(batches)
    <3>1. order[i] \in 1 .. Len(batches)
      BY <2>2
    <3> QED BY <1>1, <3>1 DEF SavedOk
  <2> QED BY <1>1, <1>2, <2>2, <2>3, LoadedAscends
<1> QED BY <1>3, <1>4 DEF MergedHistory

(* The inductive invariant: the exchange's list, the pages so far and the  *)
(* batches.                                                                *)
THEOREM WalletInvariant == WalletSpec => []WalletInv
<1>1. WalletInit => WalletInv
  BY WalletAssumption, WalletInvInit
<1>2. WalletInv /\ [WalletNext]_walletVars => WalletInv'
  BY WalletAssumption, WalletNextInv
<1> QED BY <1>1, <1>2, PTL DEF WalletSpec

(* MergedHistory.                                                          *)
THEOREM HistoryIsMerged == WalletSpec => []MergedHistory
<1>1. WalletInv => MergedHistory
  BY WalletInvMerges
<1> QED BY <1>1, WalletInvariant, PTL

(* EpisodesAreTrips, whichever fills the direction filter keeps.           *)
THEOREM EpisodesStayTrips == WalletSpec => []EpisodesAreTrips
<1>1. WalletInv => EpisodesAreTrips
  BY EpisodesFromLedger DEF WalletInv
<1> QED BY <1>1, WalletInvariant, PTL
=============================================================================
