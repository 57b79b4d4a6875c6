-------------------------- MODULE MakerQueueProofs --------------------------
(***************************************************************************)
(* One simulated order against one book, for any book, order, queue and    *)
(* trades: the maker's fills do not depend on the intervals in which the   *)
(* trades came and are the volume behind its queue; the taker's are what   *)
(* was asked for or all there is, the same by size and by money.           *)
(*                                                                         *)
(* QueueInv says that the pending order is what all trades so far, passed  *)
(* at once, make of the order: folds over a sequence and over its parts    *)
(* agree (AdvanceJoins).  The closed forms then follow the folds' paths    *)
(* trade by trade (ClosedStep) and level by level (SpendsMore, WalksAlong, *)
(* ExcessGrows), in numerators over a common denominator where a minimum   *)
(* has to be compared.                                                     *)
(***************************************************************************)
EXTENDS MakerQueue, ArithmeticProofs, SequenceTheorems

-----------------------------------------------------------------------------
(* The closed forms, in numerators over one denominator.                   *)

Lower(m, n) == IF m <= n THEN m ELSE n
Higher(m, n) == IF m <= n THEN n ELSE m

LEMMA LeastIs ==
    ASSUME NEW r \in Fractions, NEW s \in Fractions,
           NEW m \in Int, NEW n \in Int, NEW d \in Int, d > 0, Is(r, m, d), Is(s, n, d)
    PROVE  /\ Least(r, s) \in Fractions /\ Is(Least(r, s), Lower(m, n), d) /\ Lower(m, n) \in Int
           /\ Greatest(r, s) \in Fractions /\ Is(Greatest(r, s), Higher(m, n), d)
           /\ Higher(m, n) \in Int
<1>1. AtMost(r, s) <=> m <= n
  BY OrderIs
<1> QED BY <1>1 DEF Least, Greatest, Lower, Higher

LEMMA SameAs ==
    ASSUME NEW r \in Fractions, NEW s \in Fractions, NEW m \in Int, NEW d \in Int, d # 0,
           Is(s, m, d)
    PROVE  r = s <=> Is(r, m, d)
BY SameIs

(* What an order has become after the volume v traded through it.          *)
Closed(p, order_, v) ==
    /\ p.filled = Greatest(Zero, Least(order_.quantity, Minus(v, order_.queueAhead)))
    /\ p.remaining = Minus(order_.quantity, p.filled)
    /\ p.queue = Greatest(Zero, Minus(order_.queueAhead, v))

IsOrder(o) ==
    /\ o.quantity \in Fractions /\ Below(Zero, o.quantity)
    /\ o.queueAhead \in Fractions /\ AtMost(Zero, o.queueAhead)
    /\ o.price \in Fractions /\ Below(Zero, o.price)
    /\ o.placed \in Int

LEMMA ClosedIs ==
    ASSUME NEW o, IsOrder(o), NEW v \in Fractions, NEW p,
           NEW Q \in Int, NEW A \in Int, NEW V \in Int, NEW d \in Int, d > 0,
           Is(o.quantity, Q, d), Is(o.queueAhead, A, d), Is(v, V, d),
           p.filled \in Fractions, p.remaining \in Fractions, p.queue \in Fractions
    PROVE  Closed(p, o, v) <=>
              LET F == Higher(0, Lower(Q, V - A)) IN
              /\ Is(p.filled, F, d)
              /\ Is(p.remaining, Q - F, d)
              /\ Is(p.queue, Higher(0, A - V), d)
<1> DEFINE F == Higher(0, Lower(Q, V - A))
           filled == Greatest(Zero, Least(o.quantity, Minus(v, o.queueAhead)))
           queue == Greatest(Zero, Minus(o.queueAhead, v))
<1>1. o.quantity \in Fractions /\ o.queueAhead \in Fractions /\ d # 0
  BY DEF IsOrder
<1>2. /\ Minus(v, o.queueAhead) \in Fractions /\ Is(Minus(v, o.queueAhead), V - A, d)
      /\ Minus(o.queueAhead, v) \in Fractions /\ Is(Minus(o.queueAhead, v), A - V, d)
      /\ V - A \in Int /\ A - V \in Int
  BY <1>1, MinusIs
<1>3. Zero \in Fractions /\ Is(Zero, 0, d)
  BY ZeroIs
<1>4. /\ Least(o.quantity, Minus(v, o.queueAhead)) \in Fractions
      /\ Is(Least(o.quantity, Minus(v, o.queueAhead)), Lower(Q, V - A), d)
      /\ Lower(Q, V - A) \in Int
  BY <1>1, <1>2, LeastIs
<1>5. filled \in Fractions /\ Is(filled, F, d) /\ F \in Int
  <2> DEFINE x == Least(o.quantity, Minus(v, o.queueAhead))
             m == Lower(Q, V - A)
  <2>1. x \in Fractions /\ Is(x, m, d) /\ m \in Int /\ 0 \in Int
    BY <1>4
  <2> HIDE DEF x, m
  <2>2. Greatest(Zero, x) \in Fractions /\ Is(Greatest(Zero, x), Higher(0, m), d) /\ Higher(0, m) \in Int
    BY <1>3, <2>1, LeastIs
  <2> QED BY <2>2 DEF x, m
<1>6. queue \in Fractions /\ Is(queue, Higher(0, A - V), d) /\ Higher(0, A - V) \in Int
  <2> DEFINE x == Minus(o.queueAhead, v)
             m == A - V
  <2>1. x \in Fractions /\ Is(x, m, d) /\ m \in Int /\ 0 \in Int
    BY <1>2
  <2> HIDE DEF x, m
  <2>2. Greatest(Zero, x) \in Fractions /\ Is(Greatest(Zero, x), Higher(0, m), d) /\ Higher(0, m) \in Int
    BY <1>3, <2>1, LeastIs
  <2> QED BY <2>2 DEF x, m
<1> HIDE DEF F, filled, queue
<1>7. p.filled = filled <=> Is(p.filled, F, d)
  BY <1>1, <1>5, SameAs
<1>8. p.queue = queue <=> Is(p.queue, Higher(0, A - V), d)
  BY <1>1, <1>6, SameAs
<1>9. ASSUME Is(p.filled, F, d)
      PROVE  p.remaining = Minus(o.quantity, p.filled) <=> Is(p.remaining, Q - F, d)
  <2>1. /\ Minus(o.quantity, p.filled) \in Fractions /\ Is(Minus(o.quantity, p.filled), Q - F, d)
        /\ Q - F \in Int
    BY <1>1, <1>5, <1>9, MinusIs
  <2> QED BY <1>1, <2>1, SameAs
<1>10. Closed(p, o, v) <=> /\ p.filled = filled /\ p.queue = queue
                          /\ p.remaining = Minus(o.quantity, p.filled)
  BY DEF Closed, filled, queue
<1> QED BY <1>7, <1>8, <1>9, <1>10 DEF F

LEMMA QueueStep ==
    ASSUME NEW Q \in Int, Q > 0, NEW A \in Int, A >= 0, NEW V \in Int, V >= 0, NEW T \in Int, T > 0
    PROVE  LET F == Higher(0, Lower(Q, V - A))
               G == Higher(0, Lower(Q, (V + T) - A))
               consumed == Lower(Higher(0, A - V), T)
               taken == Lower(Q - F, T - consumed)
           IN /\ G = F + taken
              /\ Q - G = (Q - F) - taken
              /\ Higher(0, A - (V + T)) = Higher(0, A - V) - consumed
              /\ Q - F = 0 => G = F /\ Higher(0, A - (V + T)) = Higher(0, A - V)
              /\ F \in Int /\ taken \in Int /\ consumed \in Int /\ Q - F \in Int
              /\ Higher(0, A - V) \in Int /\ T - consumed \in Int
BY SMTT(30) DEF Higher, Lower

(* One more trade.                                                         *)
Hit(o, t, end) == TradeCanFill(o, t) /\ t.ts <= end

VolumeStep(v, t, o, end) == IF Hit(o, t, end) THEN Plus(v, t.quantity) ELSE v

LEMMA ClosedStep ==
    ASSUME NEW o, IsOrder(o), NEW v \in Fractions, AtMost(Zero, v),
           NEW p \in Pendings, Closed(p, o, v),
           NEW t, NEW from \in Int, NEW to \in Int, IsTrade(t, from, to), NEW end \in Int
    PROVE  /\ Closed(AdvanceOne(p, o, t, {end}), o, VolumeStep(v, t, o, end))
           /\ VolumeStep(v, t, o, end) \in Fractions /\ AtMost(Zero, VolumeStep(v, t, o, end))
<1>1. CASE ~Hit(o, t, end)
  <2>1. VolumeStep(v, t, o, end) = v
    BY <1>1 DEF VolumeStep
  <2>2. AdvanceOne(p, o, t, {end}) = p
    <3>1. t.ts \in Int
      BY DEF IsTrade
    <3> QED BY <1>1, <3>1 DEF Hit, AdvanceOne, PassTrade
  <2> QED BY <2>1, <2>2
<1>2. CASE Hit(o, t, end)
  <2> DEFINE w == Plus(v, t.quantity)
             consumed == Least(p.queue, t.quantity)
             quantity == Least(p.remaining, Minus(t.quantity, consumed))
             behind == [p EXCEPT !.queue = Minus(@, consumed)]
             further == [behind EXCEPT !.remaining = Minus(@, quantity),
                                       !.filled = Plus(@, quantity), !.lastFill = t.ts]
             n == AdvanceOne(p, o, t, {end})
  <2>1. VolumeStep(v, t, o, end) = w
    BY <1>2 DEF VolumeStep
  <2>2. /\ t.quantity \in Fractions /\ Below(Zero, t.quantity) /\ AtMost(Zero, t.quantity)
        /\ t.ts \in Int
        /\ p.remaining \in Fractions /\ p.queue \in Fractions /\ p.filled \in Fractions
        /\ o.quantity \in Fractions /\ o.queueAhead \in Fractions
    BY PositiveIs DEF IsTrade, Pendings, IsOrder
  <2>3. w \in Fractions /\ AtMost(Zero, w)
    BY <2>2, PlusType, SumSigns
  <2>4. PICK d \in Int, Q \in Int, A \in Int, V \in Int, T \in Int :
           Over2(o.quantity, o.queueAhead, d, Q, A) /\ Over2(v, t.quantity, d, V, T)
    BY <2>2, Common4
  <2>5. /\ d > 0 /\ d # 0 /\ Is(o.quantity, Q, d) /\ Is(o.queueAhead, A, d) /\ Is(v, V, d)
        /\ Is(t.quantity, T, d)
    BY <2>4 DEF Over2
  <2>6. Q > 0 /\ A >= 0 /\ V >= 0 /\ T > 0
    <3>1. Zero \in Fractions /\ Is(Zero, 0, d)
      BY ZeroIs
    <3>2. (Below(Zero, o.quantity) <=> 0 < Q) /\ (AtMost(Zero, o.queueAhead) <=> 0 <= A)
      BY <2>2, <2>5, <3>1, OrderIs
    <3>3. (AtMost(Zero, v) <=> 0 <= V) /\ (Below(Zero, t.quantity) <=> 0 < T)
      BY <2>2, <2>5, <3>1, OrderIs
    <3> QED BY <2>2, <3>2, <3>3 DEF IsOrder
  <2> DEFINE F == Higher(0, Lower(Q, V - A))
             G == Higher(0, Lower(Q, (V + T) - A))
             B == Higher(0, A - V)
             C == Lower(B, T)
             S == Lower(Q - F, T - C)
  <2>7. /\ G = F + S /\ Q - G = (Q - F) - S /\ Higher(0, A - (V + T)) = B - C
        /\ Q - F = 0 => G = F /\ Higher(0, A - (V + T)) = B
        /\ F \in Int /\ S \in Int /\ C \in Int /\ Q - F \in Int /\ B \in Int /\ T - C \in Int
    BY <2>6, QueueStep
  <2>8. Is(p.filled, F, d) /\ Is(p.remaining, Q - F, d) /\ Is(p.queue, B, d)
    BY <2>2, <2>5, ClosedIs
  <2> HIDE DEF F, B
  <2>9. consumed \in Fractions /\ Is(consumed, C, d)
    BY <2>2, <2>5, <2>7, <2>8, LeastIs
  <2> HIDE DEF C, consumed
  <2>10. Minus(t.quantity, consumed) \in Fractions /\ Is(Minus(t.quantity, consumed), T - C, d)
    BY <2>2, <2>5, <2>7, <2>9, MinusIs
  <2>11. quantity \in Fractions /\ Is(quantity, S, d)
    BY <2>2, <2>5, <2>7, <2>8, <2>10, LeastIs
  <2> HIDE DEF quantity, S
  <2>12. /\ Minus(p.queue, consumed) \in Fractions /\ Is(Minus(p.queue, consumed), B - C, d)
         /\ Minus(p.remaining, quantity) \in Fractions
         /\ Is(Minus(p.remaining, quantity), (Q - F) - S, d)
         /\ Plus(p.filled, quantity) \in Fractions /\ Is(Plus(p.filled, quantity), F + S, d)
    BY <2>2, <2>5, <2>7, <2>8, <2>9, <2>11, MinusIs, PlusIs
  <2>13. Is(w, V + T, d) /\ V + T \in Int
    BY <2>2, <2>5, PlusIs
  <2>14. /\ n.filled \in Fractions /\ n.remaining \in Fractions /\ n.queue \in Fractions
         /\ Is(n.filled, G, d) /\ Is(n.remaining, Q - G, d) /\ Is(n.queue, Higher(0, A - (V + T)), d)
    <3> HIDE DEF G
    <3>1. ~ \E e \in {end} : e < t.ts
      BY <1>2, <2>2 DEF Hit
    <3>2. CASE FullyFilled(p)
      <4>1. n = p
        BY <3>2 DEF AdvanceOne
      <4>2. p.remaining = Zero
        BY <3>2 DEF FullyFilled
      <4>3. Q - F = 0
        <5>1. Zero \in Fractions /\ Is(Zero, 0, d)
          BY ZeroIs
        <5> QED BY <2>5, <2>7, <2>8, <4>2, <5>1, SameIs
      <4> HIDE DEF n
      <4> QED BY <2>2, <2>7, <2>8, <4>1, <4>3
    <3>3. CASE ~FullyFilled(p)
      <4>1. n = IF quantity = Zero THEN behind ELSE further
        BY <1>2, <3>1, <3>3 DEF AdvanceOne, PassTrade, Hit, quantity, consumed
      <4>2. /\ behind.queue = Minus(p.queue, consumed) /\ behind.remaining = p.remaining
            /\ behind.filled = p.filled
        BY DEF Pendings
      <4>3. /\ further.queue = Minus(p.queue, consumed)
            /\ further.remaining = Minus(p.remaining, quantity)
            /\ further.filled = Plus(p.filled, quantity)
        BY DEF Pendings
      <4> HIDE DEF n, behind, further
      <4>4. CASE quantity = Zero
        <5>1. Minus(p.remaining, quantity) = p.remaining /\ Plus(p.filled, quantity) = p.filled
          BY <2>2, <4>4, PlusZero
        <5> QED BY <2>7, <2>12, <4>1, <4>2, <4>4, <5>1
      <4>5. CASE quantity # Zero
        BY <2>7, <2>12, <4>1, <4>3, <4>5
      <4> QED BY <4>4, <4>5
    <3> QED BY <3>2, <3>3
  <2> HIDE DEF n, w
  <2>15. Closed(n, o, w)
    BY <2>3, <2>5, <2>13, <2>14, ClosedIs DEF G
  <2> QED BY <2>1, <2>3, <2>15 DEF n
<1> QED BY <1>1, <1>2

Volume(o, trades, end) ==
    FoldLeft(LAMBDA v, t : IF TradeCanFill(o, t) /\ t.ts <= end THEN Plus(v, t.quantity) ELSE v,
             Zero, trades)

VolumeFolds(g, o, trades, end) ==
    g = [s \in SUBSET DOMAIN trades |->
           IF s = {} THEN Zero ELSE VolumeStep(g[s \ {Max(s)}], trades[Max(s)], o, end)]

LEMMA VolumeIsChosen ==
    \A o, trades, end :
        Volume(o, trades, end) = (CHOOSE g : VolumeFolds(g, o, trades, end))[DOMAIN trades]
BY DEF Volume, FoldLeft, MapThenFoldSet, VolumeFolds, VolumeStep, Hit

VolumesBy(o, trades, n, end) ==
    \E v \in [0 .. n -> Fractions] :
       /\ v[0] = Zero /\ Volume(o, trades, end) = v[n]
       /\ \A i \in 1 .. n : v[i] = VolumeStep(v[i - 1], trades[i], o, end)

LEMMA VolumePath ==
    ASSUME NEW o, NEW end, NEW trades, NEW n \in Nat, DOMAIN trades = 1 .. n,
           NEW from \in Int, NEW to \in Int, \A i \in 1 .. n : IsTrade(trades[i], from, to)
    PROVE  VolumesBy(o, trades, n, end)
<1> DEFINE base == Zero
           X == {trades[i] : i \in 1 .. n}
           step == [p \in Fractions \X X |-> VolumeStep(p[1], p[2], o, end)]
           line == [i \in 1 .. n |-> trades[i]]
           g == CHOOSE f : VolumeFolds(f, o, trades, end)
<1>1. n \in Nat /\ base \in Fractions /\ line \in [1 .. n -> X]
  BY ZeroIs
<1>2. \A a \in Fractions, l \in X : VolumeStep(a, l, o, end) \in Fractions
  BY PlusType DEF VolumeStep, IsTrade
<1>3. step \in [Fractions \X X -> Fractions] /\ \A a \in Fractions, l \in X : step[<<a, l>>] = VolumeStep(a, l, o, end)
  BY <1>2
<1>4. VolumeFolds(g, o, trades, end)
  <2>1. PICK f \in [SUBSET (1 .. n) -> Fractions] :
           \A s \in SUBSET (1 .. n) :
              f[s] = IF s = {} THEN base ELSE step[<<f[s \ {Max(s)}], line[Max(s)]>>]
    <3> HIDE DEF base, X, step, line
    <3>1. HasFold(Fractions, step, base, line, n)
      BY <1>1, <1>3, FoldExists
    <3> QED BY <3>1 DEF HasFold
  <2>2. ASSUME NEW s \in SUBSET (1 .. n), s # {}
        PROVE  f[s] = VolumeStep(f[s \ {Max(s)}], trades[Max(s)], o, end)
    <3>1. Max(s) \in s
      BY <2>2, SomeLast, <1>1
    <3>2. f[s \ {Max(s)}] \in Fractions /\ trades[Max(s)] \in X /\ line[Max(s)] = trades[Max(s)]
      BY <3>1
    <3>3. f[s] = step[<<f[s \ {Max(s)}], line[Max(s)]>>]
      <4> HIDE DEF step, line
      <4> QED BY <2>1, <2>2
    <3> HIDE DEF step, line, X
    <3> QED BY <3>2, <1>3, <3>3
  <2>3. f = [s \in SUBSET DOMAIN trades |->
               IF s = {} THEN Zero
               ELSE VolumeStep(f[s \ {Max(s)}], trades[Max(s)], o, end)]
    BY <2>1, <2>2
  <2>4. VolumeFolds(f, o, trades, end)
    BY <2>3 DEF VolumeFolds
  <2> HIDE DEF g
  <2> QED BY <2>4 DEF g
<1> HIDE DEF g
<1>5. /\ g[{}] = base
      /\ \A s \in SUBSET (1 .. n) : s # {} =>
            g[s] = VolumeStep(g[s \ {Max(s)}], trades[Max(s)], o, end)
  BY <1>4 DEF VolumeFolds
<1>6. ASSUME NEW i \in 1 .. n, g[1 .. (i - 1)] \in Fractions
      PROVE  g[1 .. i] = step[<<g[1 .. (i - 1)], line[i]>>]
  <2>1. g[1 .. i] = VolumeStep(g[1 .. (i - 1)], trades[i], o, end)
    <3>1. /\ 1 .. i \in SUBSET (1 .. n) /\ 1 .. i # {}
          /\ Max(1 .. i) = i /\ (1 .. i) \ {i} = 1 .. (i - 1)
      BY <1>1, InitialSegments
    <3>2. g[1 .. i] = VolumeStep(g[(1 .. i) \ {Max(1 .. i)}], trades[Max(1 .. i)], o, end)
      BY <1>5, <3>1
    <3> QED BY <3>1, <3>2
  <2>2. line[i] = trades[i] /\ trades[i] \in X
    OBVIOUS
  <2> HIDE DEF step, line, X
  <2> QED BY <1>3, <1>6, <2>1, <2>2
<1>7. PICK v \in [0 .. n -> Fractions] :
         /\ v[0] = base /\ v[n] = g[1 .. n]
         /\ \A i \in 1 .. n : v[i] = step[<<v[i - 1], line[i]>>]
  <2> HIDE DEF base, X, step, line
  <2>1. g[{}] = base
    BY <1>5
  <2>2. \A i \in 1 .. n : g[1 .. (i - 1)] \in Fractions =>
           g[1 .. i] = step[<<g[1 .. (i - 1)], line[i]>>]
    BY <1>6
  <2>u. Unrolls(g, Fractions, step, base, line, n)
    BY <2>1, <2>2 DEF Unrolls
  <2>3. step \in [Fractions \X X -> Fractions]
    BY <1>3
  <2>4. HasPath(Fractions, step, base, line, n, g[1 .. n])
    BY <1>1, <2>u, <2>3, FoldPath
  <2> QED BY <2>4 DEF HasPath
<1>8. ASSUME NEW i \in 1 .. n PROVE v[i] = VolumeStep(v[i - 1], trades[i], o, end)
  <2>1. line[i] = trades[i] /\ trades[i] \in X /\ i - 1 \in 0 .. n
    OBVIOUS
  <2>3. v[i - 1] \in Fractions
    BY <2>1
  <2>2. v[i] = step[<<v[i - 1], line[i]>>]
    BY <1>7
  <2> HIDE DEF step, line, X
  <2> QED BY <1>3, <2>1, <2>2, <2>3
<1>9. Volume(o, trades, end) = g[1 .. n]
  BY VolumeIsChosen DEF g
<1> QED BY <1>7, <1>8, <1>9 DEF VolumesBy

(* Once all trades are there, in whatever intervals they came.             *)
LEMMA ClosedForm ==
    ASSUME NEW o, IsOrder(o), NEW trades, NEW n \in Nat, DOMAIN trades = 1 .. n,
           NEW from \in Int, NEW to \in Int, \A i \in 1 .. n : IsTrade(trades[i], from, to),
           NEW end \in Int
    PROVE  Closed(AdvancePendingMaker(Pending(o), o, trades, {end}), o, Volume(o, trades, end))
<1> DEFINE p == Pending(o)
<1>1. /\ p \in Pendings /\ o.quantity \in Fractions /\ o.queueAhead \in Fractions
      /\ p.filled = Zero /\ p.remaining = o.quantity /\ p.queue = o.queueAhead
  BY ZeroIs DEF IsOrder, Pending, Pendings
<1>2. Closed(p, o, Zero)
  <2>1. PICK d \in Int, Q \in Int, A \in Int : Over2(o.quantity, o.queueAhead, d, Q, A)
    BY <1>1, Common2
  <2>2. /\ d > 0 /\ d # 0 /\ Is(o.quantity, Q, d) /\ Is(o.queueAhead, A, d)
        /\ Zero \in Fractions /\ Is(Zero, 0, d)
    BY <2>1, ZeroIs DEF Over2
  <2>3. Q > 0 /\ A >= 0
    <3>1. Q \in Int /\ A \in Int /\ 0 \in Int
      OBVIOUS
    <3>2. Below(Zero, o.quantity) <=> 0 < Q
      BY <1>1, <2>2, <3>1, OrderIs
    <3>3. AtMost(Zero, o.queueAhead) <=> 0 <= A
      BY <1>1, <2>2, <3>1, OrderIs
    <3> QED BY <3>2, <3>3 DEF IsOrder
  <2>4. Higher(0, Lower(Q, 0 - A)) = 0 /\ Q - 0 = Q /\ Higher(0, A - 0) = A /\ 0 \in Int
    BY <2>3 DEF Higher, Lower
  <2> HIDE DEF p
  <2> QED BY <1>1, <2>2, <2>4, ClosedIs
<1> HIDE DEF p
<1>3. PICK u \in [0 .. n -> Pendings] :
         /\ u[0] = p /\ AdvancePendingMaker(p, o, trades, {end}) = u[n]
         /\ \A i \in 1 .. n : u[i] = AdvanceOne(u[i - 1], o, trades[i], {end})
  <2>1. AdvancesBy(p, o, trades, n, {end})
    BY <1>1, AdvancePath
  <2> QED BY <2>1 DEF AdvancesBy
<1>4. PICK v \in [0 .. n -> Fractions] :
         /\ v[0] = Zero /\ Volume(o, trades, end) = v[n]
         /\ \A i \in 1 .. n : v[i] = VolumeStep(v[i - 1], trades[i], o, end)
  <2>1. VolumesBy(o, trades, n, end)
    BY VolumePath
  <2> QED BY <2>1 DEF VolumesBy
<1> DEFINE Good == {i \in 0 .. n : Closed(u[i], o, v[i]) /\ AtMost(Zero, v[i])}
<1>5. 0 \in Good
  BY <1>2, <1>3, <1>4, PositiveIs
<1>6. ASSUME NEW i \in 1 .. n, i - 1 \in Good PROVE i \in Good
  <2>1. /\ u[i - 1] \in Pendings /\ v[i - 1] \in Fractions /\ IsTrade(trades[i], from, to)
        /\ Closed(u[i - 1], o, v[i - 1]) /\ AtMost(Zero, v[i - 1])
        /\ u[i] = AdvanceOne(u[i - 1], o, trades[i], {end})
        /\ v[i] = VolumeStep(v[i - 1], trades[i], o, end)
    BY <1>3, <1>4, <1>6
  <2>2. Closed(u[i], o, v[i]) /\ AtMost(Zero, v[i])
    BY <2>1, ClosedStep
  <2> QED BY <2>2
<1> HIDE DEF Good
<1>7. \A i \in 0 .. n : i \in Good
  BY <1>5, <1>6, StepInduction
<1> QED BY <1>3, <1>4, <1>7 DEF Good, p

-----------------------------------------------------------------------------
(* Advancing by one part after the other is advancing by the whole.        *)
LEMMA AdvanceJoins ==
    ASSUME NEW p \in Pendings, NEW o, NEW ends,
           NEW X, NEW a \in Seq(X), NEW b \in Seq(X), NEW from \in Int, NEW to \in Int,
           \A i \in 1 .. Len(a) : IsTrade(a[i], from, to),
           \A i \in 1 .. Len(b) : IsTrade(b[i], from, to)
    PROVE  AdvancePendingMaker(AdvancePendingMaker(p, o, a, ends), o, b, ends)
             = AdvancePendingMaker(p, o, a \o b, ends)
<1> DEFINE c == a \o b
           n == Len(a)
           m == Len(b)
           q == AdvancePendingMaker(p, o, a, ends)
<1>1. /\ n \in Nat /\ m \in Nat /\ DOMAIN a = 1 .. n /\ DOMAIN b = 1 .. m
      /\ n + m \in Nat /\ DOMAIN c = 1 .. (n + m)
      /\ \A i \in 1 .. n : c[i] = a[i]
      /\ \A i \in 1 .. m : c[n + i] = b[i]
  OBVIOUS
<1>2. \A i \in 1 .. (n + m) : IsTrade(c[i], from, to)
  <2> TAKE i \in 1 .. (n + m)
  <2>1. CASE i <= n
    BY <1>1, <2>1
  <2>2. CASE i > n
    <3>1. i - n \in 1 .. m /\ n + (i - n) = i
      BY <1>1, <2>2
    <3>2. c[n + (i - n)] = b[i - n]
      BY <1>1, <3>1
    <3> HIDE DEF c
    <3> QED BY <3>1, <3>2
  <2> QED BY <1>1, <2>1, <2>2
<1> HIDE DEF c, n, m
<1>3. PICK u \in [0 .. n -> Pendings] :
         /\ u[0] = p /\ q = u[n]
         /\ \A i \in 1 .. n : u[i] = AdvanceOne(u[i - 1], o, a[i], ends)
  <2>1. AdvancesBy(p, o, a, n, ends)
    BY <1>1, AdvancePath DEF n
  <2> QED BY <2>1 DEF AdvancesBy
<1>4. q \in Pendings
  BY <1>1, <1>3
<1> HIDE DEF q
<1>5. PICK v \in [0 .. m -> Pendings] :
         /\ v[0] = q /\ AdvancePendingMaker(q, o, b, ends) = v[m]
         /\ \A i \in 1 .. m : v[i] = AdvanceOne(v[i - 1], o, b[i], ends)
  <2>1. AdvancesBy(q, o, b, m, ends)
    BY <1>1, <1>4, AdvancePath DEF m
  <2> QED BY <2>1 DEF AdvancesBy
<1>6. PICK w \in [0 .. (n + m) -> Pendings] :
         /\ w[0] = p /\ AdvancePendingMaker(p, o, c, ends) = w[n + m]
         /\ \A i \in 1 .. (n + m) : w[i] = AdvanceOne(w[i - 1], o, c[i], ends)
  <2>1. AdvancesBy(p, o, c, n + m, ends)
    BY <1>1, <1>2, AdvancePath
  <2> QED BY <2>1 DEF AdvancesBy
<1>7. w[n] = u[n]
  <2> DEFINE Good == {i \in 0 .. n : w[i] = u[i]}
  <2>1. 0 \in Good
    BY <1>1, <1>3, <1>6
  <2>2. ASSUME NEW i \in 1 .. n, i - 1 \in Good PROVE i \in Good
    <3>1. i \in 1 .. (n + m)
      BY <1>1
    <3> QED BY <1>1, <1>3, <1>6, <2>2, <3>1
  <2> HIDE DEF Good
  <2>3. n \in Good
    <3>1. \A i \in 0 .. n : i \in Good
      BY <1>1, <2>1, <2>2, StepInduction
    <3> QED BY <1>1, <3>1
  <2> QED BY <2>3 DEF Good
<1>8. w[n + m] = v[m]
  <2> DEFINE Good == {i \in 0 .. m : w[n + i] = v[i]}
  <2>1. 0 \in Good
    BY <1>1, <1>3, <1>5, <1>7
  <2>2. ASSUME NEW i \in 1 .. m, i - 1 \in Good PROVE i \in Good
    <3>1. n + i \in 1 .. (n + m) /\ (n + i) - 1 = n + (i - 1)
      BY <1>1
    <3>2. w[n + i] = AdvanceOne(w[n + (i - 1)], o, b[i], ends)
      BY <1>1, <1>6, <3>1
    <3>3. w[n + (i - 1)] = v[i - 1]
      BY <2>2
    <3> QED BY <1>5, <3>2, <3>3
  <2> HIDE DEF Good
  <2>3. m \in Good
    <3>1. \A i \in 0 .. m : i \in Good
      BY <1>1, <2>1, <2>2, StepInduction
    <3> QED BY <1>1, <3>1
  <2> QED BY <2>3 DEF Good
<1> QED BY <1>3, <1>5, <1>6, <1>7, <1>8 DEF q, c

(* One trade for an order x that ends early, and for y that ends late.     *)
OneTrade(x, y, o, t, early, late) ==
    /\ t.ts \in Int
    /\ AdvanceOne(y, o, t, {late}) \in Pendings
    /\ AtMost(Zero, AdvanceOne(y, o, t, {late}).remaining)
    /\ AtMost(Zero, AdvanceOne(y, o, t, {late}).queue)
    /\ AtMost(y.filled, AdvanceOne(y, o, t, {late}).filled)
    /\ t.ts > early => AdvanceOne(x, o, t, {early}) = x
    /\ t.ts <= early => AdvanceOne(y, o, t, {early}) = AdvanceOne(y, o, t, {late})
    /\ AdvanceOne(x, o, t, {early}).lastFill \in {x.lastFill, t.ts}
    /\ t.ts > early => AdvanceOne(x, o, t, {early}).lastFill = x.lastFill

LEMMA OneTradeIs ==
    ASSUME NEW x \in Pendings, NEW y \in Pendings, AtMost(Zero, y.remaining), AtMost(Zero, y.queue),
           NEW o, NEW t, NEW from \in Int, NEW to \in Int, IsTrade(t, from, to),
           NEW early \in Int, NEW late \in Int, early <= late
    PROVE  OneTrade(x, y, o, t, early, late)
<1>1. t.ts \in Int
  BY DEF IsTrade
<1>2. y.filled \in Fractions /\ Advances(y, y, from, to, {late}) /\ {late} \in SUBSET Int
  BY DEF Advances, Pendings
<1>3. /\ AdvanceOne(y, o, t, {late}) \in Pendings
      /\ Advances(AdvanceOne(y, o, t, {late}), y, from, to, {late})
  BY <1>2, PassType, PassAdvances
<1>4. AdvanceOne(y, o, t, {late}).filled \in Fractions
  BY <1>3 DEF Pendings
<1>5. AtMost(y.filled, AdvanceOne(y, o, t, {late}).filled)
  BY <1>2, <1>3, <1>4, OrderByDifference DEF Advances
<1>6. t.ts > early => AdvanceOne(x, o, t, {early}) = x
  BY <1>1 DEF AdvanceOne
<1>7. t.ts <= early => AdvanceOne(y, o, t, {early}) = AdvanceOne(y, o, t, {late})
  BY <1>1 DEF AdvanceOne
<1>8. AdvanceOne(x, o, t, {early}).lastFill \in {x.lastFill, t.ts}
  BY DEF AdvanceOne, PassTrade, Pendings
<1> QED BY <1>1, <1>3, <1>5, <1>6, <1>7, <1>8 DEF Advances, OneTrade

(* An order that ends earlier has filled no more, nothing after its end.   *)
LEMMA EarlierFillsLess ==
    ASSUME NEW p \in Pendings, AtMost(Zero, p.remaining), AtMost(Zero, p.queue), p.lastFill = 0,
           NEW o, NEW trades, NEW n \in Nat, DOMAIN trades = 1 .. n,
           NEW from \in Int, NEW to \in Int, \A i \in 1 .. n : IsTrade(trades[i], from, to),
           \A i \in 1 .. (n - 1) : trades[i].ts <= trades[i + 1].ts,
           NEW early \in Int, NEW late \in Int, early <= late
    PROVE  LET less == AdvancePendingMaker(p, o, trades, {early})
               more == AdvancePendingMaker(p, o, trades, {late})
           IN /\ AtMost(less.filled, more.filled)
              /\ less.lastFill = 0 \/ less.lastFill <= early
<1>1. PICK u \in [0 .. n -> Pendings] :
         /\ u[0] = p /\ AdvancePendingMaker(p, o, trades, {early}) = u[n]
         /\ \A i \in 1 .. n : u[i] = AdvanceOne(u[i - 1], o, trades[i], {early})
  <2>1. AdvancesBy(p, o, trades, n, {early})
    BY AdvancePath
  <2> QED BY <2>1 DEF AdvancesBy
<1>2. PICK v \in [0 .. n -> Pendings] :
         /\ v[0] = p /\ AdvancePendingMaker(p, o, trades, {late}) = v[n]
         /\ \A i \in 1 .. n : v[i] = AdvanceOne(v[i - 1], o, trades[i], {late})
  <2>1. AdvancesBy(p, o, trades, n, {late})
    BY AdvancePath
  <2> QED BY <2>1 DEF AdvancesBy
<1> DEFINE Good == {i \in 0 .. n :
              /\ AtMost(Zero, v[i].remaining) /\ AtMost(Zero, v[i].queue)
              /\ \/ u[i] = v[i]
                 \/ i # 0 /\ trades[i].ts > early /\ AtMost(u[i].filled, v[i].filled)
              /\ u[i].lastFill = 0 \/ u[i].lastFill <= early}
<1>4. 0 \in Good
  BY <1>1, <1>2
<1>5. ASSUME NEW i \in 1 .. n, i - 1 \in Good PROVE i \in Good
  <2> DEFINE x == u[i - 1]
             y == v[i - 1]
             t == trades[i]
  <2>1. /\ x \in Pendings /\ y \in Pendings /\ IsTrade(t, from, to)
        /\ u[i] = AdvanceOne(x, o, t, {early}) /\ v[i] = AdvanceOne(y, o, t, {late})
        /\ AtMost(Zero, y.remaining) /\ AtMost(Zero, y.queue)
        /\ x.lastFill = 0 \/ x.lastFill <= early
        /\ x = y \/ (i - 1 # 0 /\ trades[i - 1].ts > early /\ AtMost(x.filled, y.filled))
    BY <1>1, <1>2, <1>5
  <2>2. i - 1 # 0 => trades[i - 1].ts <= t.ts /\ trades[i - 1].ts \in Int
    <3>1. i - 1 # 0 => i - 1 \in 1 .. (n - 1) /\ (i - 1) + 1 = i /\ i - 1 \in 1 .. n
      OBVIOUS
    <3> QED BY <3>1 DEF IsTrade
  <2> HIDE DEF x, y, t
  <2>3. /\ t.ts \in Int
        /\ AdvanceOne(y, o, t, {late}) \in Pendings
        /\ AtMost(Zero, AdvanceOne(y, o, t, {late}).remaining)
        /\ AtMost(Zero, AdvanceOne(y, o, t, {late}).queue)
        /\ AtMost(y.filled, AdvanceOne(y, o, t, {late}).filled)
        /\ t.ts > early => AdvanceOne(x, o, t, {early}) = x
        /\ t.ts <= early => AdvanceOne(y, o, t, {early}) = AdvanceOne(y, o, t, {late})
        /\ AdvanceOne(x, o, t, {early}).lastFill \in {x.lastFill, t.ts}
        /\ t.ts > early => AdvanceOne(x, o, t, {early}).lastFill = x.lastFill
    <3>1. OneTrade(x, y, o, t, early, late)
      BY <2>1, OneTradeIs
    <3> QED BY <3>1 DEF OneTrade
  <2>4. /\ x.filled \in Fractions /\ y.filled \in Fractions
        /\ AdvanceOne(y, o, t, {late}).filled \in Fractions
    BY <2>1, <2>3 DEF Pendings
  <2>5. u[i].lastFill = 0 \/ u[i].lastFill <= early
    BY <2>1, <2>3
  <2>6. CASE t.ts <= early
    <3>1. x = y
      BY <2>1, <2>2, <2>3, <2>6
    <3> QED BY <2>1, <2>3, <2>5, <2>6, <3>1
  <2>7. CASE t.ts > early
    <3>1. AtMost(x.filled, y.filled)
      BY <2>1, <2>4, OrderByDifference
    <3>2. AtMost(x.filled, AdvanceOne(y, o, t, {late}).filled)
      BY <2>3, <2>4, <3>1, AtMostChains
    <3>3. u[i] = x /\ trades[i].ts > early
      BY <2>1, <2>3, <2>7 DEF t
    <3> QED BY <2>1, <2>3, <2>5, <3>2, <3>3
  <2> QED BY <2>3, <2>6, <2>7
<1> HIDE DEF Good
<1>6. n \in Good
  <2>1. \A i \in 0 .. n : i \in Good
    BY <1>4, <1>5, StepInduction
  <2> QED BY <2>1
<1>7. AtMost(u[n].filled, v[n].filled) /\ (u[n].lastFill = 0 \/ u[n].lastFill <= early)
  <2>1. u[n].filled \in Fractions /\ AtMost(u[n].filled, u[n].filled)
    BY OrderByDifference DEF Pendings
  <2> QED BY <1>6, <2>1 DEF Good
<1> QED BY <1>1, <1>2, <1>7

-----------------------------------------------------------------------------
(* What an order is when it is placed.                                     *)

LEMMA PlacedOrder ==
    ASSUME NEW b, ValidBook(b), NEW side \in Directions, NEW q \in Fractions, Below(Zero, q),
           NEW ts \in Int, NEW f \in Fractions, AtMost(Zero, f)
    PROVE  LET o == PlaceMakerOrder(b, side, q, ts, f) IN
           /\ IsOrder(o) /\ ValidMakerOrder(o)
           /\ o.side = side /\ o.quantity = q /\ o.placed = ts
           /\ o.price = DefaultMakerPrice(b, side)
<1> DEFINE price == DefaultMakerPrice(b, side)
           visible == VisibleQuantityAtPrice(b, side, price)
           ahead == Times(visible, f)
           o == PlaceMakerOrder(b, side, q, ts, f)
<1>1. /\ price \in Fractions /\ Below(Zero, price)
      /\ visible \in Fractions /\ AtMost(Zero, visible)
  BY QuoteIs
<1>2. ahead \in Fractions /\ AtMost(Zero, ahead)
  <2> HIDE DEF visible
  <2> QED BY <1>1, TimesType, ProductSigns
<1>3. /\ o.side = side /\ o.price = price /\ o.quantity = q /\ o.placed = ts
      /\ o.queueAhead = ahead
  BY DEF PlaceMakerOrder
<1> HIDE DEF price, ahead, o
<1>4. IsOrder(o) /\ ValidMakerOrder(o)
  BY <1>1, <1>2, <1>3 DEF IsOrder, ValidMakerOrder
<1> QED BY <1>3, <1>4 DEF o, price

(* An order just placed waits for all of it.                               *)
LEMMA PendingIs ==
    ASSUME NEW o, IsOrder(o)
    PROVE  /\ Pending(o) \in Pendings
           /\ Pending(o).remaining = o.quantity /\ Pending(o).queue = o.queueAhead
           /\ Pending(o).filled = Zero /\ Pending(o).lastFill = 0
           /\ AtMost(Zero, Pending(o).remaining) /\ AtMost(Zero, Pending(o).queue)
BY ZeroIs, PositiveIs DEF IsOrder, Pending, Pendings

-----------------------------------------------------------------------------
(* The invariant: what has passed are trades of the order's life in the    *)
(* order of their time, and the pending order is what all of them, passed  *)
(* at once, make of the order.                                             *)

QueueTrades == [ts : Int, side : {Buy, Sell}, price : TradePrices, quantity : TradeQuantities]

Queues(o) ==
    \E side \in {Buy, Sell}, q \in OrderQuantities, f \in QueueFractions :
       o = PlaceMakerOrder(book, side, q, 1, f)

PassedTrades ==
    /\ passed \in Seq(QueueTrades)
    /\ \A i \in 1 .. Len(passed) : 1 < passed[i].ts /\ passed[i].ts <= clock
    /\ \A i \in 1 .. (Len(passed) - 1) : passed[i].ts <= passed[i + 1].ts

QueueInv ==
    /\ book \in Books /\ Queues(order)
    /\ clock \in 1 .. MaxClock
    /\ PassedTrades
    /\ pending = AdvancePendingMaker(Pending(order), order, passed, {order.placed + MaxAge})

LEMMA TradeQuantityIs ==
    ASSUME NEW q \in OrderQuantities \cup TradePrices \cup TradeQuantities
    PROVE  q \in Fractions /\ Below(Zero, q)
BY MakerQueueAssumption, RationalIsFraction DEF IsPositive

LEMMA QueueTradeIs ==
    ASSUME NEW t \in QueueTrades, NEW from \in Int, NEW to \in Int, from < t.ts, t.ts <= to
    PROVE  IsTrade(t, from, to)
<1>1. t.ts \in Int /\ t.quantity \in TradeQuantities
  BY DEF QueueTrades
<1> QED BY <1>1, TradeQuantityIs DEF IsTrade

LEMMA QueuedOrder ==
    ASSUME book \in Books, Queues(order)
    PROVE  /\ IsOrder(order) /\ order.side \in Directions /\ order.placed = 1
           /\ order.price = DefaultMakerPrice(book, order.side)
           /\ ValidBook(book) /\ BestFirst(book)
<1>1. PICK side \in {Buy, Sell}, q \in OrderQuantities, f \in QueueFractions :
         order = PlaceMakerOrder(book, side, q, 1, f)
  BY DEF Queues
<1>2. /\ side \in Directions /\ q \in Fractions /\ Below(Zero, q) /\ 1 \in Int
      /\ f \in Fractions /\ AtMost(Zero, f) /\ ValidBook(book) /\ BestFirst(book)
  BY TradeQuantityIs, MakerQueueAssumption, RationalIsFraction DEF Directions
<1> QED BY <1>1, <1>2, PlacedOrder

(* What the assumption says of the bounds.                                 *)
LEMMA QueueBounds == MaxAge \in Nat /\ MaxClock \in Nat \ {0} /\ MaxTrades \in Nat
BY MakerQueueAssumption

LEMMA NoTrades ==
    ASSUME NEW p \in Pendings, NEW o, NEW ends
    PROVE  AdvancePendingMaker(p, o, <<>>, ends) = p
<1>1. DOMAIN <<>> = 1 .. 0 /\ 0 \in Nat /\ 1 \in Int
  OBVIOUS
<1>2. \A i \in 1 .. 0 : IsTrade(<<>>[i], 1, 1)
  OBVIOUS
<1>3. AdvancesBy(p, o, <<>>, 0, ends)
  BY <1>1, <1>2, AdvancePath
<1> QED BY <1>3 DEF AdvancesBy

LEMMA QueueInitHolds == QueueInit => QueueInv
<1> SUFFICES ASSUME QueueInit PROVE QueueInv
  OBVIOUS
<1>1. book \in Books /\ Queues(order)
  BY DEF QueueInit, Queues
<1>2. clock \in 1 .. MaxClock
  BY QueueBounds DEF QueueInit
<1>3. PassedTrades
  BY DEF QueueInit, PassedTrades
<1>4. pending = AdvancePendingMaker(Pending(order), order, passed, {order.placed + MaxAge})
  BY <1>1, QueuedOrder, PendingIs, NoTrades DEF QueueInit
<1> QED BY <1>1, <1>2, <1>3, <1>4 DEF QueueInv

(* The trades of an interval.                                              *)
LEMMA IntervalIs ==
    ASSUME clock \in Nat, NEW to \in Nat, NEW trades \in Intervals(to)
    PROVE  /\ trades \in Seq(QueueTrades)
           /\ \A i \in 1 .. Len(trades) : clock < trades[i].ts /\ trades[i].ts <= to
           /\ \A i \in 1 .. (Len(trades) - 1) : trades[i].ts <= trades[i + 1].ts
<1> DEFINE T == [ts : (clock + 1) .. to, side : {Buy, Sell}, price : TradePrices,
                 quantity : TradeQuantities]
<1>1. PICK n \in 1 .. MaxTrades :
         /\ trades \in [1 .. n -> T]
         /\ \A i \in 1 .. (n - 1) : trades[i].ts <= trades[i + 1].ts
  BY DEF Intervals
<1>2. n \in Nat
  BY QueueBounds
<1>3. \A t \in T : t \in QueueTrades /\ clock < t.ts /\ t.ts <= to
  BY DEF QueueTrades
<1> HIDE DEF T
<1>4. trades \in Seq(QueueTrades) /\ Len(trades) = n
  BY <1>1, <1>2, <1>3
<1> QED BY <1>1, <1>3, <1>4

LEMMA JoinedTrades ==
    ASSUME PassedTrades, clock \in Nat \ {0}, NEW to \in Nat, clock < to, NEW trades \in Intervals(to),
           passed' = passed \o trades, clock' = to
    PROVE  PassedTrades'
<1> DEFINE n == Len(passed)
           m == Len(trades)
<1>1. /\ trades \in Seq(QueueTrades)
      /\ \A i \in 1 .. m : clock < trades[i].ts /\ trades[i].ts <= to
      /\ \A i \in 1 .. (m - 1) : trades[i].ts <= trades[i + 1].ts
  BY IntervalIs
<1>2. /\ passed \in Seq(QueueTrades)
      /\ \A i \in 1 .. n : 1 < passed[i].ts /\ passed[i].ts <= clock
      /\ \A i \in 1 .. (n - 1) : passed[i].ts <= passed[i + 1].ts
  BY DEF PassedTrades
<1>3. /\ passed' \in Seq(QueueTrades) /\ Len(passed') = n + m /\ n \in Nat /\ m \in Nat
      /\ \A i \in 1 .. n : passed'[i] = passed[i]
      /\ \A i \in 1 .. m : passed'[n + i] = trades[i]
  BY <1>1, <1>2
<1>4. /\ \A i \in 1 .. n : passed[i] \in QueueTrades /\ passed[i].ts \in Int
      /\ \A i \in 1 .. m : trades[i] \in QueueTrades /\ trades[i].ts \in Int
  <2>1. \A s \in Seq(QueueTrades) : \A i \in 1 .. Len(s) : s[i] \in QueueTrades
    OBVIOUS
  <2>2. \A t \in QueueTrades : t.ts \in Int
    BY DEF QueueTrades
  <2> QED BY <1>1, <1>2, <2>1, <2>2
<1> HIDE DEF n, m
<1>5. ASSUME NEW i \in 1 .. (n + m)
      PROVE  1 < passed'[i].ts /\ passed'[i].ts <= to
  <2>1. CASE i <= n
    <3>1. i \in 1 .. n
      BY <2>1, <1>3
    <3> QED BY <3>1, <1>2, <1>3, <1>4
  <2>2. CASE i > n
    <3> DEFINE j == i - n
    <3>1. j \in 1 .. m /\ i = n + j
      BY <2>2, <1>3
    <3> HIDE DEF j
    <3>2. passed'[i] = trades[j]
      BY <3>1, <1>3
    <3>4. clock < trades[j].ts /\ trades[j].ts <= to /\ trades[j].ts \in Int
      BY <3>1, <1>1, <1>4 DEF m
    <3>5. 1 <= clock
      OBVIOUS
    <3> QED BY <3>2, <3>4, <3>5
  <2> QED BY <2>1, <2>2, <1>3
<1>6. ASSUME NEW i \in 1 .. (n + m - 1)
      PROVE  passed'[i].ts <= passed'[i + 1].ts
  <2>1. CASE i < n
    <3>1. i \in 1 .. (n - 1) /\ i \in 1 .. n /\ i + 1 \in 1 .. n
      BY <2>1, <1>3
    <3>2. passed'[i] = passed[i] /\ passed'[i + 1] = passed[i + 1]
      BY <3>1, <1>3
    <3> QED BY <3>1, <3>2, <1>2 DEF n
  <2>2. CASE i = n
    <3>1. i \in 1 .. n /\ 1 \in 1 .. m
      BY <2>2, <1>3
    <3>2. passed'[i] = passed[i] /\ passed'[i + 1] = trades[1]
      BY <3>1, <2>2, <1>3
    <3>3. passed[i].ts <= clock /\ clock < trades[1].ts /\ passed[i].ts \in Int /\ trades[1].ts \in Int
      BY <3>1, <1>1, <1>2, <1>4 DEF n, m
    <3> QED BY <3>2, <3>3
  <2>3. CASE i > n
    <3> DEFINE j == i - n
    <3>1. j \in 1 .. (m - 1) /\ j \in 1 .. m /\ j + 1 \in 1 .. m /\ i = n + j /\ i + 1 = n + (j + 1)
      BY <2>3, <1>3
    <3> HIDE DEF j
    <3>2. passed'[i] = trades[j] /\ passed'[i + 1] = trades[j + 1]
      BY <3>1, <1>3
    <3> QED BY <3>1, <3>2, <1>1 DEF m
  <2>4. i < n \/ i = n \/ i > n
    BY <1>3
  <2> QED BY ONLY <2>1, <2>2, <2>3, <2>4
<1> QED BY <1>3, <1>5, <1>6 DEF PassedTrades

LEMMA QueueStepHolds ==
    ASSUME QueueInv, [QueueNext]_queueVars
    PROVE  QueueInv'
<1>1. CASE UNCHANGED queueVars
  BY <1>1 DEF queueVars, QueueInv, Queues, PassedTrades
<1>2. ASSUME NEW to \in (clock + 1) .. MaxClock, NEW trades \in Intervals(to), Advance(to, trades)
      PROVE  QueueInv'
  <2>1. /\ clock \in Nat \ {0} /\ to \in Nat /\ clock < to /\ clock \in Int /\ to \in Int
        /\ to \in 1 .. MaxClock
    BY QueueBounds DEF QueueInv
  <2>2. /\ book' = book /\ order' = order /\ clock' = to /\ passed' = passed \o trades
        /\ pending' = AdvancePendingMaker(pending, order, trades, {order.placed + MaxAge})
    BY <1>2 DEF Advance
  <2>3. PassedTrades'
    BY <2>1, <2>2, JoinedTrades DEF QueueInv
  <2>4. /\ passed \in Seq(QueueTrades) /\ trades \in Seq(QueueTrades)
        /\ \A i \in 1 .. Len(passed) : 1 < passed[i].ts /\ passed[i].ts <= clock
        /\ \A i \in 1 .. Len(trades) : clock < trades[i].ts /\ trades[i].ts <= to
    BY <2>1, IntervalIs DEF QueueInv, PassedTrades
  <2>5. \A s \in Seq(QueueTrades) : \A i \in 1 .. Len(s) : s[i] \in QueueTrades /\ s[i].ts \in Int
    <3>1. \A s \in Seq(QueueTrades) : \A i \in 1 .. Len(s) : s[i] \in QueueTrades
      OBVIOUS
    <3>2. \A t \in QueueTrades : t.ts \in Int
      BY DEF QueueTrades
    <3> QED BY <3>1, <3>2
  <2>6. \A i \in 1 .. Len(passed) : IsTrade(passed[i], 1, to)
    <3> TAKE i \in 1 .. Len(passed)
    <3>1. passed[i] \in QueueTrades /\ 1 < passed[i].ts /\ passed[i].ts <= to /\ 1 \in Int
      BY <2>1, <2>4, <2>5
    <3> QED BY <2>1, <3>1, QueueTradeIs
  <2>7. \A i \in 1 .. Len(trades) : IsTrade(trades[i], 1, to)
    <3> TAKE i \in 1 .. Len(trades)
    <3>1. trades[i] \in QueueTrades /\ 1 < trades[i].ts /\ trades[i].ts <= to /\ 1 \in Int
      BY <2>1, <2>4, <2>5
    <3> QED BY <2>1, <3>1, QueueTradeIs
  <2>8. Pending(order) \in Pendings /\ 1 \in Int
    BY QueuedOrder, PendingIs DEF QueueInv
  <2>9. pending = AdvancePendingMaker(Pending(order), order, passed, {order.placed + MaxAge})
    BY DEF QueueInv
  <2>10. pending' = AdvancePendingMaker(Pending(order), order, passed \o trades, {order.placed + MaxAge})
    <3> DEFINE p == Pending(order)
               ends == {order.placed + MaxAge}
    <3>1. p \in Pendings /\ passed \in Seq(QueueTrades) /\ trades \in Seq(QueueTrades) /\ to \in Int
      BY <2>1, <2>4, <2>8
    <3> HIDE DEF p, ends
    <3>2. AdvancePendingMaker(AdvancePendingMaker(p, order, passed, ends), order, trades, ends)
            = AdvancePendingMaker(p, order, passed \o trades, ends)
      BY <2>6, <2>7, <2>8, <3>1, AdvanceJoins
    <3> QED BY <2>2, <2>9, <3>2 DEF p, ends
  <2>11. (book \in Books)' /\ Queues(order)'
    BY <2>2 DEF QueueInv, Queues
  <2> QED BY <2>1, <2>2, <2>3, <2>10, <2>11 DEF QueueInv
<1> QED BY <1>1, <1>2 DEF QueueNext

(* QueueInv holds of every order that rests: advancing a pending order     *)
(* interval by interval never parts from passing all its trades at once.   *)
THEOREM QueueIsInvariant == QueueSpec => []QueueInv
<1>1. QueueInv /\ [QueueNext]_queueVars => QueueInv'
  BY QueueStepHolds
<1> QED BY QueueInitHolds, <1>1, PTL DEF QueueSpec

-----------------------------------------------------------------------------
(* In one step and in many.                                                *)

(* What the invariant says of the trades that passed.                      *)
LEMMA PassedIs ==
    ASSUME QueueInv
    PROVE  /\ DOMAIN passed = 1 .. Len(passed) /\ Len(passed) \in Nat
           /\ \A i \in 1 .. Len(passed) : IsTrade(passed[i], 1, clock)
           /\ \A i \in 1 .. (Len(passed) - 1) : passed[i].ts <= passed[i + 1].ts
           /\ clock \in Int /\ order.placed = 1 /\ order.placed + MaxAge \in Int
<1>1. /\ passed \in Seq(QueueTrades)
      /\ \A i \in 1 .. Len(passed) : 1 < passed[i].ts /\ passed[i].ts <= clock
      /\ \A i \in 1 .. (Len(passed) - 1) : passed[i].ts <= passed[i + 1].ts
  BY DEF QueueInv, PassedTrades
<1>2. clock \in Int /\ 1 \in Int
  BY DEF QueueInv
<1>3. \A i \in 1 .. Len(passed) : IsTrade(passed[i], 1, clock)
  <2> TAKE i \in 1 .. Len(passed)
  <2>1. passed[i] \in QueueTrades
    BY <1>1
  <2> QED BY <1>1, <1>2, <2>1, QueueTradeIs
<1>4. order.placed = 1
  BY QueuedOrder DEF QueueInv
<1> QED BY <1>1, <1>2, <1>3, <1>4, QueueBounds

(* simulate_maker_fill has a loop of its own.                              *)
FillOne(p, o, trade, ends) ==
    IF FullyFilled(p) \/ (\E end \in ends : end < trade.ts) \/ ~TradeCanFill(o, trade)
    THEN p ELSE FillTrade(p, trade)

FillFolds(g, o, trades, ends) ==
    g = [s \in SUBSET DOMAIN trades |->
           IF s = {} THEN Pending(o) ELSE FillOne(g[s \ {Max(s)}], o, trades[Max(s)], ends)]

LEMMA FillIsChosen ==
    \A o, trades, ends :
        SimulateMakerFill(o, trades, ends)
          = (CHOOSE g : FillFolds(g, o, trades, ends))[DOMAIN trades]
BY DEF SimulateMakerFill, FoldLeft, MapThenFoldSet, FillFolds, FillOne

LEMMA FillsAsAdvances ==
    ASSUME NEW p \in Pendings, NEW o, NEW trade, NEW from \in Int, NEW to \in Int,
           IsTrade(trade, from, to), NEW ends
    PROVE  FillOne(p, o, trade, ends) = AdvanceOne(p, o, trade, ends)
<1> DEFINE c == Least(p.queue, trade.quantity)
           q == Least(p.remaining, Minus(trade.quantity, c))
           behind == [p EXCEPT !.queue = Minus(@, c)]
           further == [behind EXCEPT !.remaining = Minus(@, q), !.filled = Plus(@, q),
                                     !.lastFill = trade.ts]
           fill == [p EXCEPT !.queue = Minus(@, c), !.remaining = Minus(@, q),
                             !.filled = Plus(@, q),
                             !.lastFill = IF q = Zero THEN @ ELSE trade.ts]
<1>1. /\ p.remaining \in Fractions /\ p.filled \in Fractions
      /\ p = [remaining |-> p.remaining, queue |-> p.queue, filled |-> p.filled,
              lastFill |-> p.lastFill]
  BY DEF Pendings
<1>2. /\ FillTrade(p, trade) = fill
      /\ TradeCanFill(o, trade) =>
            PassTrade(p, o, trade) = IF q = Zero THEN behind ELSE further
      /\ ~TradeCanFill(o, trade) => PassTrade(p, o, trade) = p
  BY DEF FillTrade, PassTrade
<1> HIDE DEF c, q
<1>3. fill = IF q = Zero THEN behind ELSE further
  <2>1. CASE q = Zero
    <3>1. Minus(p.remaining, q) = p.remaining /\ Plus(p.filled, q) = p.filled
      BY <1>1, <2>1, PlusZero
    <3> QED BY <1>1, <2>1, <3>1
  <2>2. CASE q # Zero
    BY <1>1, <2>2
  <2> QED BY <2>1, <2>2
<1> HIDE DEF fill, behind, further
<1> QED BY <1>2, <1>3 DEF FillOne, AdvanceOne

LEMMA OneLoop ==
    ASSUME NEW o, Pending(o) \in Pendings, NEW trades, NEW n \in Nat, DOMAIN trades = 1 .. n,
           NEW from \in Int, NEW to \in Int, \A i \in 1 .. n : IsTrade(trades[i], from, to),
           NEW ends
    PROVE  SimulateMakerFill(o, trades, ends) = AdvancePendingMaker(Pending(o), o, trades, ends)
<1> DEFINE base == Pending(o)
           X == {trades[i] : i \in 1 .. n}
           step == [p \in Pendings \X X |-> FillOne(p[1], o, p[2], ends)]
           line == [i \in 1 .. n |-> trades[i]]
           g == CHOOSE f : FillFolds(f, o, trades, ends)
<1>1. base \in Pendings /\ line \in [1 .. n -> X]
  OBVIOUS
<1>2. \A a \in Pendings, l \in X :
         FillOne(a, o, l, ends) = AdvanceOne(a, o, l, ends) /\ FillOne(a, o, l, ends) \in Pendings
  BY PassType, FillsAsAdvances
<1>3. /\ step \in [Pendings \X X -> Pendings]
      /\ \A a \in Pendings, l \in X : step[<<a, l>>] = FillOne(a, o, l, ends)
  BY <1>2
<1>4. FillFolds(g, o, trades, ends)
  <2>1. PICK f \in [SUBSET (1 .. n) -> Pendings] :
           \A s \in SUBSET (1 .. n) :
              f[s] = IF s = {} THEN base ELSE step[<<f[s \ {Max(s)}], line[Max(s)]>>]
    <3> HIDE DEF base, X, step, line
    <3>1. HasFold(Pendings, step, base, line, n)
      BY <1>1, <1>3, FoldExists
    <3> QED BY <3>1 DEF HasFold
  <2>2. ASSUME NEW s \in SUBSET (1 .. n), s # {}
        PROVE  f[s] = FillOne(f[s \ {Max(s)}], o, trades[Max(s)], ends)
    <3>1. Max(s) \in s
      BY <2>2, SomeLast, <1>1
    <3>2. f[s \ {Max(s)}] \in Pendings /\ trades[Max(s)] \in X /\ line[Max(s)] = trades[Max(s)]
      BY <3>1
    <3>3. f[s] = step[<<f[s \ {Max(s)}], line[Max(s)]>>]
      <4> HIDE DEF step, line
      <4> QED BY <2>1, <2>2
    <3> HIDE DEF step, line, X
    <3> QED BY <3>2, <1>3, <3>3
  <2>3. f = [s \in SUBSET DOMAIN trades |->
               IF s = {} THEN Pending(o)
               ELSE FillOne(f[s \ {Max(s)}], o, trades[Max(s)], ends)]
    BY <2>1, <2>2
  <2>4. FillFolds(f, o, trades, ends)
    BY <2>3 DEF FillFolds
  <2> HIDE DEF g
  <2> QED BY <2>4 DEF g
<1> HIDE DEF g
<1>5. PICK v \in [0 .. n -> Pendings] :
         /\ v[0] = base /\ AdvancePendingMaker(base, o, trades, ends) = v[n]
         /\ \A i \in 1 .. n : v[i] = AdvanceOne(v[i - 1], o, trades[i], ends)
  <2>1. AdvancesBy(base, o, trades, n, ends)
    BY <1>1, AdvancePath
  <2> QED BY <2>1 DEF AdvancesBy
<1> DEFINE Good == {i \in 0 .. n : g[1 .. i] = v[i]}
<1>6. 0 \in Good
  <2>1. g[{}] = base /\ 1 .. 0 = {}
    BY <1>4 DEF FillFolds
  <2> QED BY <1>5, <2>1
<1>7. ASSUME NEW i \in 1 .. n, i - 1 \in Good PROVE i \in Good
  <2>1. /\ 1 .. i \in SUBSET (1 .. n) /\ 1 .. i # {}
        /\ Max(1 .. i) = i /\ (1 .. i) \ {i} = 1 .. (i - 1)
    BY InitialSegments
  <2>2. g[1 .. i] = FillOne(g[(1 .. i) \ {Max(1 .. i)}], o, trades[Max(1 .. i)], ends)
    BY <1>4, <2>1 DEF FillFolds
  <2>3. g[1 .. i] = FillOne(v[i - 1], o, trades[i], ends)
    BY <1>7, <2>1, <2>2
  <2>4. v[i - 1] \in Pendings /\ trades[i] \in X
    OBVIOUS
  <2>5. FillOne(v[i - 1], o, trades[i], ends) = AdvanceOne(v[i - 1], o, trades[i], ends)
    BY <1>2, <2>4
  <2> QED BY <1>5, <2>3, <2>5
<1> HIDE DEF Good
<1>8. \A i \in 0 .. n : i \in Good
  BY <1>6, <1>7, StepInduction
<1>9. g[1 .. n] = v[n]
  BY <1>8 DEF Good
<1>10. SimulateMakerFill(o, trades, ends) = g[1 .. n]
  BY FillIsChosen DEF g
<1> QED BY <1>5, <1>9, <1>10

(* Had the order ended at a time no later than its expiry.                 *)
LEMMA EndedEarly ==
    ASSUME QueueInv, NEW end \in Int, end >= 0, end <= order.placed + MaxAge
    PROVE  LET fill == SimulateMakerFill(order, passed, {end}) IN
           /\ fill \in Pendings
           /\ AtMost(fill.filled, pending.filled)
           /\ fill.lastFill <= end
           /\ AtMost(Zero, fill.remaining)
           /\ Plus(fill.remaining, fill.filled) = order.quantity
<1> DEFINE fill == AdvancePendingMaker(Pending(order), order, passed, {end})
           late == order.placed + MaxAge
           n == Len(passed)
<1>1. /\ DOMAIN passed = 1 .. n /\ n \in Nat /\ clock \in Int /\ 1 \in Int /\ late \in Int
      /\ \A i \in 1 .. n : IsTrade(passed[i], 1, clock)
      /\ \A i \in 1 .. (n - 1) : passed[i].ts <= passed[i + 1].ts
  BY PassedIs
<1>2. /\ Pending(order) \in Pendings /\ Pending(order).lastFill = 0
      /\ AtMost(Zero, Pending(order).remaining) /\ AtMost(Zero, Pending(order).queue)
      /\ Pending(order).remaining = order.quantity /\ Pending(order).filled = Zero
      /\ order.quantity \in Fractions
  BY QueuedOrder, PendingIs DEF QueueInv, IsOrder
<1>3. pending = AdvancePendingMaker(Pending(order), order, passed, {late})
  BY DEF QueueInv
<1> HIDE DEF late, n
<1>4. end <= late
  BY DEF late
<1>5. AtMost(fill.filled, pending.filled) /\ (fill.lastFill = 0 \/ fill.lastFill <= end)
  BY <1>1, <1>2, <1>3, <1>4, EarlierFillsLess
<1>6. fill \in Pendings /\ Advances(fill, Pending(order), 1, clock, {end})
  BY <1>1, <1>2, MakerAdvances
<1>7. /\ AtMost(Zero, fill.remaining)
      /\ Plus(fill.remaining, fill.filled) = Plus(order.quantity, Zero)
  BY <1>2, <1>6 DEF Advances
<1>8. Plus(order.quantity, Zero) = order.quantity
  BY <1>2, PlusZero
<1>9. fill = SimulateMakerFill(order, passed, {end})
  BY <1>1, <1>2, OneLoop
<1> QED BY <1>5, <1>6, <1>7, <1>8, <1>9

LEMMA OneShot == QueueInv => IncrementalIsOneShot
<1> SUFFICES ASSUME QueueInv PROVE IncrementalIsOneShot
  OBVIOUS
<1> DEFINE late == order.placed + MaxAge
           Life(cancel) == SimulateMakerLifecycle(order, passed, {late}, cancel)
<1>1. /\ order.placed = 1 /\ late \in Int /\ late >= 0
  BY PassedIs, QueueBounds
<1>2. pending = SimulateMakerFill(order, passed, {late})
  <2>1. Pending(order) \in Pendings
    BY QueuedOrder, PendingIs DEF QueueInv, IsOrder
  <2>2. /\ DOMAIN passed = 1 .. Len(passed) /\ Len(passed) \in Nat /\ clock \in Int /\ 1 \in Int
        /\ \A i \in 1 .. Len(passed) : IsTrade(passed[i], 1, clock)
    BY PassedIs
  <2>3. SimulateMakerFill(order, passed, {late})
           = AdvancePendingMaker(Pending(order), order, passed, {late})
    BY <2>1, <2>2, OneLoop
  <2> QED BY <2>3 DEF QueueInv
<1>3. /\ Life({}).fill = pending
      /\ Life({}).status = IF FullyFilled(pending) THEN "filled" ELSE "expired"
  BY <1>2 DEF SimulateMakerLifecycle
<1>4. ASSUME NEW c \in order.placed .. MaxClock
      PROVE  LET life == Life({c}) IN
             /\ AtMost(life.fill.filled, pending.filled)
             /\ life.fill.lastFill <= c
             /\ CanReplace(life, MaxClock) =>
                   LET next == ReplaceMakerOrder(life, book, MaxClock, Zero) IN
                   /\ ValidMakerOrder(next)
                   /\ Plus(next.quantity, life.fill.filled) = order.quantity
  <2> DEFINE end == IF c < late THEN c ELSE late
             fill == SimulateMakerFill(order, passed, {end})
             life == Life({c})
  <2>1. c \in Int /\ c >= 0 /\ end \in Int /\ end >= 0 /\ end <= late /\ end <= c
    BY <1>1, QueueBounds
  <2>2. /\ life.fill = fill /\ life.order = order
        /\ life.status \in {"cancelled", "expired"} => ~FullyFilled(fill)
    BY DEF SimulateMakerLifecycle
  <2> HIDE DEF end, life
  <2>3. /\ fill \in Pendings /\ AtMost(fill.filled, pending.filled) /\ fill.lastFill <= end
        /\ AtMost(Zero, fill.remaining) /\ Plus(fill.remaining, fill.filled) = order.quantity
    BY <2>1, EndedEarly
  <2> HIDE DEF fill
  <2>4. fill.lastFill <= c
    BY <2>1, <2>3 DEF Pendings
  <2>5. ASSUME CanReplace(life, MaxClock)
        PROVE  LET next == ReplaceMakerOrder(life, book, MaxClock, Zero) IN
               /\ ValidMakerOrder(next)
               /\ Plus(next.quantity, fill.filled) = order.quantity
    <3>1. fill.remaining \in Fractions /\ Below(Zero, fill.remaining)
      <4>1. fill.remaining \in Fractions
        BY <2>3 DEF Pendings
      <4>2. fill.remaining # Zero
        BY <2>2, <2>5 DEF CanReplace, FullyFilled
      <4> QED BY <2>3, <4>1, <4>2, PositiveIs
    <3>2. ValidBook(book) /\ order.side \in Directions
      BY QueuedOrder DEF QueueInv
    <3>3. MaxClock \in Int /\ Zero \in Fractions /\ AtMost(Zero, Zero)
      BY QueueBounds, ZeroIs, PositiveIs
    <3>4. LET next == PlaceMakerOrder(book, order.side, fill.remaining, MaxClock, Zero) IN
          ValidMakerOrder(next) /\ next.quantity = fill.remaining
      BY <3>1, <3>2, <3>3, PlacedOrder
    <3> QED BY <2>2, <2>3, <3>4 DEF ReplaceMakerOrder
  <2> QED BY <2>2, <2>3, <2>4, <2>5 DEF life
<1> QED BY <1>3, <1>4 DEF IncrementalIsOneShot

(* The replay's incremental maker fills are those of                       *)
(* simulate_maker_lifecycle; one cancelled earlier fills no more, not after*)
(* its end, and is replaced by an order for exactly the rest.              *)
THEOREM MakerInOneStep == QueueSpec => []IncrementalIsOneShot
BY QueueIsInvariant, OneShot, PTL

-----------------------------------------------------------------------------
(* Taker orders.                                                           *)

LEMMA TimesKeepsOrder ==
    ASSUME NEW a \in Fractions, NEW b \in Fractions, NEW s \in Fractions, Below(Zero, s)
    PROVE  /\ AtMost(Times(a, s), Times(b, s)) <=> AtMost(a, b)
           /\ Times(a, s) = Times(b, s) => a = b
<1>1. PICK d \in Int, w \in Int, x \in Int : Over2(a, b, d, w, x)
  BY Common2
<1>2. /\ d > 0 /\ Is(a, w, d) /\ Is(b, x, d)
      /\ s[1] \in Int /\ s[2] \in Int /\ s[2] > 0 /\ s[1] > 0 /\ Is(s, s[1], s[2])
  BY <1>1, SignOf, IsItself DEF Over2
<1> DEFINE k == s[1]
           e == d * s[2]
<1>3. /\ Times(a, s) \in Fractions /\ Is(Times(a, s), w * k, e)
      /\ Times(b, s) \in Fractions /\ Is(Times(b, s), x * k, e)
  BY <1>2, TimesIs
<1>4. e \in Int /\ e > 0 /\ w * k \in Int /\ x * k \in Int /\ k \in Int /\ k > 0
  <2>1. \A m, n \in Int : m > 0 /\ n > 0 => m * n > 0 /\ m * n \in Int
    OBVIOUS
  <2> QED BY <1>2, <2>1
<1> HIDE DEF k, e
<1>5. AtMost(Times(a, s), Times(b, s)) <=> w * k <= x * k
  BY <1>3, <1>4, OrderIs
<1>6. AtMost(Times(b, s), Times(a, s)) <=> x * k <= w * k
  BY <1>3, <1>4, OrderIs
<1>7. (w * k <= x * k <=> w <= x) /\ (x * k <= w * k <=> x <= w)
  <2>1. w * k = k * w /\ x * k = k * x
    BY <1>4
  <2> QED BY <1>4, <2>1, ScaledOrder
<1>8. (AtMost(a, b) <=> w <= x) /\ (AtMost(b, a) <=> x <= w)
  BY <1>2, OrderIs
<1>9. Times(a, s) = Times(b, s) => a = b
  <2> SUFFICES ASSUME Times(a, s) = Times(b, s) PROVE a = b
    OBVIOUS
  <2>1. AtMost(Times(a, s), Times(b, s)) /\ AtMost(Times(b, s), Times(a, s))
    BY <1>3, OrderByDifference
  <2> QED BY <1>5, <1>6, <1>7, <1>8, <2>1, OrderByDifference
<1> QED BY <1>5, <1>7, <1>8, <1>9

(* What one level gives an order by notional: the money, and the size.     *)
Money(a, l) == Least(a.remaining, Times(l.price, l.quantity))
Size(a, l) == Over(Money(a, l), l.price)

LevelGives(a, l) ==
    LET t == Money(a, l)
        x == Size(a, l)
        b == TakeNotional(a, l)
    IN /\ t \in Fractions /\ x \in Fractions /\ AtMost(Zero, t) /\ AtMost(Zero, x)
       /\ t = Times(x, l.price)
       /\ b \in Sums /\ AtMost(Zero, b.remaining)
       /\ b.remaining = Minus(a.remaining, t)
       /\ b.notional = Plus(a.notional, t)
       /\ b.quantity = Plus(a.quantity, x)
       /\ a.remaining = Zero => t = Zero /\ x = Zero
       /\ \/ x = l.quantity
          \/ AtMost(x, l.quantity) /\ b.remaining = Zero

LEMMA LevelGivesIs ==
    ASSUME NEW a \in Sums, AtMost(Zero, a.remaining), NEW l, IsLevel(l)
    PROVE  LevelGives(a, l)
<1> DEFINE w == Times(l.price, l.quantity)
           t == Money(a, l)
           x == Size(a, l)
           b == TakeNotional(a, l)
<1>1. /\ a.remaining \in Fractions /\ a.notional \in Fractions /\ a.quantity \in Fractions
      /\ l.price \in Fractions /\ l.quantity \in Fractions
      /\ Below(Zero, l.price) /\ AtMost(Zero, l.price) /\ l.price # Zero
      /\ Below(Zero, l.quantity) /\ AtMost(Zero, l.quantity)
  BY PositiveIs DEF Sums, IsLevel
<1>2. w \in Fractions /\ AtMost(Zero, w) /\ w = Times(l.quantity, l.price) /\ Below(Zero, w)
  BY <1>1, TimesType, ProductSigns, TimesCommutes
<1> HIDE DEF w
<1>3. t \in Fractions /\ AtMost(Zero, t) /\ AtMost(t, a.remaining) /\ AtMost(t, w)
  BY <1>1, <1>2, LeastOf DEF w, Money
<1>4. t = w \/ t = a.remaining
  BY DEF Money, Least, w
<1>5. b \in Sums
  BY TakeType
<1>6. /\ b.remaining = Minus(a.remaining, t) /\ b.notional = Plus(a.notional, t)
      /\ b.quantity = Plus(a.quantity, x)
  BY DEF TakeNotional, Money, Size
<1> HIDE DEF t, b
<1>7. x \in Fractions /\ Times(x, l.price) = t /\ AtMost(Zero, x)
  BY <1>1, <1>3, OverUndoesTimes, QuotientSigns DEF Size, t
<1> HIDE DEF x
<1>8. AtMost(Zero, b.remaining)
  BY <1>1, <1>3, <1>6, OrderByDifference
<1>9. ASSUME a.remaining = Zero PROVE t = Zero /\ x = Zero
  <2>1. t = Zero
    BY <1>3, <1>9, OrderByDifference, ZeroIs
  <2>2. Times(Zero, l.price) = Zero
    BY <1>1, TimesUnits
  <2> QED BY <1>1, <1>7, <2>1, <2>2, ZeroIs, TimesKeepsOrder
<1>10. t = w => x = l.quantity
  BY <1>1, <1>2, <1>7, TimesKeepsOrder
<1>11. AtMost(x, l.quantity)
  BY <1>1, <1>2, <1>3, <1>7, TimesKeepsOrder
<1>12. t = a.remaining => b.remaining = Zero
  BY <1>1, <1>6, PlusZero
<1> QED
  <2>1. x = l.quantity \/ (AtMost(x, l.quantity) /\ b.remaining = Zero)
    BY <1>4, <1>10, <1>11, <1>12
  <2> QED BY <1>3, <1>5, <1>6, <1>7, <1>8, <1>9, <2>1 DEF LevelGives, t, x, b

(* The walk of an order by notional over n levels.                         *)
Walks(v, levels, n, asked) ==
    /\ v \in [0 .. n -> Sums]
    /\ v[0] = NothingFilled(asked) /\ NotionalOrder(levels, asked) = v[n]
    /\ \A i \in 1 .. n : /\ v[i] = TakeNotional(v[i - 1], levels[i])
                         /\ LevelGives(v[i - 1], levels[i])

LEMMA WalkExists ==
    ASSUME NEW levels, NEW n \in Nat, DOMAIN levels = 1 .. n, \A i \in 1 .. n : IsLevel(levels[i]),
           NEW asked \in Fractions, Below(Zero, asked)
    PROVE  \E v : Walks(v, levels, n, asked)
<1>1. PICK v \in [0 .. n -> Sums] :
         /\ v[0] = NothingFilled(asked) /\ NotionalOrder(levels, asked) = v[n]
         /\ \A i \in 1 .. n : v[i] = TakeNotional(v[i - 1], levels[i])
  BY NotionalPath
<1> DEFINE Good == {i \in 0 .. n : AtMost(Zero, v[i].remaining)}
<1>2. 0 \in Good
  BY <1>1, PositiveIs DEF NothingFilled
<1>3. ASSUME NEW i \in 1 .. n, i - 1 \in Good
      PROVE  LevelGives(v[i - 1], levels[i]) /\ i \in Good
  <2>1. v[i - 1] \in Sums /\ AtMost(Zero, v[i - 1].remaining) /\ IsLevel(levels[i])
    BY <1>3
  <2>2. LevelGives(v[i - 1], levels[i])
    BY <2>1, LevelGivesIs
  <2> QED BY <1>1, <2>2 DEF LevelGives
<1> HIDE DEF Good
<1>4. \A i \in 0 .. n : i \in Good
  BY <1>2, <1>3, StepInduction
<1>5. Walks(v, levels, n, asked)
  <2>1. \A i \in 1 .. n : i - 1 \in 0 .. n
    OBVIOUS
  <2> QED BY <1>1, <1>3, <1>4, <2>1 DEF Walks
<1> QED BY <1>5

(* It takes what was asked for or all there is.                            *)
LEMMA NotionalStep ==
    ASSUME NEW A \in Int, A > 0, NEW D \in Int, D >= 0, NEW W \in Int, W > 0
    PROVE  /\ Lower(A, D) + Lower(A - Lower(A, D), W) = Lower(A, D + W)
           /\ Lower(A, D) \in Int /\ A - Lower(A, D) \in Int
           /\ Lower(A - Lower(A, D), W) \in Int
           /\ (A - Lower(A, D)) - Lower(A - Lower(A, D), W) = A - Lower(A, D + W)
BY DEF Lower

Spends(a, asked, depth) ==
    /\ a.notional = Least(asked, depth)
    /\ a.remaining = Minus(asked, a.notional)

LEMMA SpendsMore ==
    ASSUME NEW asked \in Fractions, Below(Zero, asked), NEW depth \in Fractions, AtMost(Zero, depth),
           NEW a \in Sums, Spends(a, asked, depth), NEW l, IsLevel(l)
    PROVE  Spends(TakeNotional(a, l), asked, Plus(depth, Times(l.price, l.quantity)))
<1> DEFINE w == Times(l.price, l.quantity)
           t == Least(a.remaining, w)
           b == TakeNotional(a, l)
<1>1. /\ a.remaining \in Fractions /\ a.notional \in Fractions
      /\ l.price \in Fractions /\ Below(Zero, l.price) /\ AtMost(Zero, l.price)
      /\ l.quantity \in Fractions /\ Below(Zero, l.quantity) /\ AtMost(Zero, l.quantity)
  BY PositiveIs DEF Sums, IsLevel
<1>2. w \in Fractions /\ Below(Zero, w)
  BY <1>1, TimesType, ProductSigns
<1>3. b.remaining = Minus(a.remaining, t) /\ b.notional = Plus(a.notional, t)
  BY DEF TakeNotional
<1>4. b.remaining \in Fractions /\ b.notional \in Fractions
  BY TakeType DEF Sums
<1> HIDE DEF w, b
<1>5. PICK d \in Int, A \in Int, D \in Int, W \in Int, V \in Int :
         Over2(asked, depth, d, A, D) /\ Over2(w, w, d, W, V)
  BY <1>2, Common4
<1>6. d > 0 /\ d # 0 /\ Is(asked, A, d) /\ Is(depth, D, d) /\ Is(w, W, d)
  BY <1>5 DEF Over2
<1>7. A > 0 /\ D >= 0 /\ W > 0
  <2>1. Zero \in Fractions /\ Is(Zero, 0, d) /\ 0 \in Int
    BY ZeroIs
  <2>2. Below(Zero, asked) <=> 0 < A
    BY <1>6, <2>1, OrderIs
  <2>3. AtMost(Zero, depth) <=> 0 <= D
    BY <1>6, <2>1, OrderIs
  <2>4. Below(Zero, w) <=> 0 < W
    BY <1>2, <1>6, <2>1, OrderIs
  <2> QED BY <1>2, <2>2, <2>3, <2>4
<1> DEFINE L == Lower(A, D)
           T == Lower(A - L, W)
<1>8. /\ L + T = Lower(A, D + W) /\ L \in Int /\ A - L \in Int /\ T \in Int
      /\ (A - L) - T = A - Lower(A, D + W)
  BY <1>7, NotionalStep
<1>9. Least(asked, depth) \in Fractions /\ Is(Least(asked, depth), L, d)
  BY <1>6, LeastIs
<1> HIDE DEF L
<1>10. Is(a.notional, L, d)
  BY <1>9 DEF Spends
<1>11. Is(a.remaining, A - L, d)
  BY <1>1, <1>6, <1>8, <1>10, MinusIs DEF Spends
<1>12. t \in Fractions /\ Is(t, T, d)
  BY <1>1, <1>2, <1>6, <1>8, <1>11, LeastIs
<1> HIDE DEF t, T
<1>13. Is(b.notional, L + T, d) /\ Is(b.remaining, (A - L) - T, d)
  BY <1>1, <1>3, <1>6, <1>8, <1>10, <1>11, <1>12, PlusIs, MinusIs
<1>14. Plus(depth, w) \in Fractions /\ Is(Plus(depth, w), D + W, d) /\ D + W \in Int
  BY <1>2, <1>6, PlusIs
<1>15. /\ Least(asked, Plus(depth, w)) \in Fractions
       /\ Is(Least(asked, Plus(depth, w)), Lower(A, D + W), d) /\ Lower(A, D + W) \in Int
  BY <1>6, <1>14, LeastIs
<1>16. b.notional = Least(asked, Plus(depth, w))
  BY <1>4, <1>6, <1>8, <1>13, <1>15, SameIs
<1>17. /\ Minus(asked, b.notional) \in Fractions
       /\ Is(Minus(asked, b.notional), A - Lower(A, D + W), d) /\ A - Lower(A, D + W) \in Int
  BY <1>4, <1>6, <1>8, <1>13, <1>15, MinusIs
<1>18. b.remaining = Minus(asked, b.notional)
  BY <1>4, <1>6, <1>8, <1>13, <1>17, SameIs
<1> QED BY <1>16, <1>18 DEF Spends, b, w

LEMMA SpendsAll ==
    ASSUME NEW levels, NEW n \in Nat, DOMAIN levels = 1 .. n, \A i \in 1 .. n : IsLevel(levels[i]),
           NEW asked \in Fractions, Below(Zero, asked), NEW v, Walks(v, levels, n, asked)
    PROVE  v[n].notional = Least(asked, BookDepthNotional(levels))
<1>1. PICK d \in [0 .. n -> Fractions] :
         /\ d[0] = Zero /\ BookDepthNotional(levels) = d[n]
         /\ \A i \in 1 .. n : d[i] = Plus(d[i - 1], Times(levels[i].price, levels[i].quantity))
  BY DepthPath
<1> DEFINE Good == {i \in 0 .. n : AtMost(Zero, d[i]) /\ Spends(v[i], asked, d[i])}
<1>2. 0 \in Good
  <2>1. ~AtMost(asked, Zero) /\ Zero \in Fractions
    BY OrderByDifference, ZeroIs
  <2>2. v[0].notional = Zero /\ v[0].remaining = asked
    BY DEF Walks, NothingFilled
  <2>3. Spends(v[0], asked, Zero)
    BY <2>1, <2>2, PlusZero DEF Spends, Least
  <2> QED BY <1>1, <2>3, PositiveIs, ZeroIs
<1>3. ASSUME NEW i \in 1 .. n, i - 1 \in Good PROVE i \in Good
  <2>1. /\ v[i - 1] \in Sums /\ v[i] = TakeNotional(v[i - 1], levels[i])
        /\ d[i - 1] \in Fractions /\ AtMost(Zero, d[i - 1]) /\ Spends(v[i - 1], asked, d[i - 1])
        /\ d[i] = Plus(d[i - 1], Times(levels[i].price, levels[i].quantity))
        /\ IsLevel(levels[i])
    BY <1>1, <1>3 DEF Walks
  <2>2. Spends(v[i], asked, d[i])
    BY <2>1, SpendsMore
  <2>3. AtMost(Zero, d[i])
    <3>1. /\ levels[i].price \in Fractions /\ AtMost(Zero, levels[i].price)
          /\ levels[i].quantity \in Fractions /\ AtMost(Zero, levels[i].quantity)
      BY <2>1, PositiveIs DEF IsLevel
    <3>2. /\ Times(levels[i].price, levels[i].quantity) \in Fractions
          /\ AtMost(Zero, Times(levels[i].price, levels[i].quantity))
      BY <3>1, TimesType, ProductSigns
    <3> QED BY <2>1, <3>2, SumSigns
  <2> QED BY <2>2, <2>3
<1> HIDE DEF Good
<1>4. n \in Good
  <2>1. \A i \in 0 .. n : i \in Good
    BY <1>2, <1>3, StepInduction
  <2> QED BY <2>1
<1> QED BY <1>1, <1>4 DEF Good, Spends

(* What is left after two parts, and a difference the other way round.     *)
LEMMA Leaves ==
    ASSUME NEW a \in Fractions, NEW x \in Fractions, NEW c \in Fractions
    PROVE  /\ Minus(Minus(c, a), x) = Minus(c, Plus(a, x))
           /\ AtMost(Plus(a, x), c) <=> AtMost(x, Minus(c, a))
           /\ Minus(Zero, Minus(a, x)) = Minus(x, a)
<1>1. PICK d \in Int, m \in Int, n \in Int, k \in Int, j \in Int :
         Over2(a, x, d, m, n) /\ Over2(c, c, d, k, j)
  BY Common4
<1>2. d > 0 /\ d # 0 /\ Is(a, m, d) /\ Is(x, n, d) /\ Is(c, k, d)
  BY <1>1 DEF Over2
<1>3. /\ Minus(c, a) \in Fractions /\ Is(Minus(c, a), k - m, d) /\ k - m \in Int
      /\ Plus(a, x) \in Fractions /\ Is(Plus(a, x), m + n, d) /\ m + n \in Int
  BY <1>2, MinusIs, PlusIs
<1>4. /\ Minus(Minus(c, a), x) \in Fractions /\ Is(Minus(Minus(c, a), x), (k - m) - n, d)
      /\ Minus(c, Plus(a, x)) \in Fractions /\ Is(Minus(c, Plus(a, x)), k - (m + n), d)
  BY <1>2, <1>3, MinusIs
<1>5. (k - m) - n = k - (m + n) /\ k - (m + n) \in Int /\ (m + n <= k <=> n <= k - m)
  OBVIOUS
<1>6. Minus(Minus(c, a), x) = Minus(c, Plus(a, x))
  BY <1>2, <1>4, <1>5, SameIs
<1>7. AtMost(Plus(a, x), c) <=> m + n <= k
  BY <1>2, <1>3, OrderIs
<1>8. AtMost(x, Minus(c, a)) <=> n <= k - m
  BY <1>2, <1>3, OrderIs
<1>9. Minus(Zero, Minus(a, x)) = Minus(x, a)
  <2>1. /\ Minus(a, x) \in Fractions /\ Is(Minus(a, x), m - n, d) /\ m - n \in Int
        /\ Minus(x, a) \in Fractions /\ Is(Minus(x, a), n - m, d) /\ n - m \in Int
    BY <1>2, MinusIs
  <2>2. Zero \in Fractions /\ Is(Zero, 0, d) /\ 0 \in Int
    BY ZeroIs
  <2>3. Minus(Zero, Minus(a, x)) \in Fractions /\ Is(Minus(Zero, Minus(a, x)), 0 - (m - n), d)
    BY <1>2, <2>1, <2>2, MinusIs
  <2>4. 0 - (m - n) = n - m
    OBVIOUS
  <2> QED BY <1>2, <2>1, <2>3, <2>4, SameIs
<1> QED BY <1>5, <1>6, <1>7, <1>8, <1>9

(* Later levels only add, and nothing once nothing remains.                *)
LEMMA LaterTakes ==
    ASSUME NEW n \in Nat, NEW levels, NEW asked, NEW v, Walks(v, levels, n, asked), NEW i \in 0 .. n
    PROVE  /\ AtMost(v[i].quantity, v[n].quantity)
           /\ v[i].remaining = Zero => v[n].quantity = v[i].quantity
<1> DEFINE After(j) == /\ AtMost(v[i].quantity, v[j].quantity)
                       /\ v[i].remaining = Zero => /\ v[j].remaining = Zero
                                                   /\ v[j].quantity = v[i].quantity
           Good == {j \in 0 .. n : j >= i => After(j)}
<1>1. \A j \in 0 .. n : v[j].quantity \in Fractions /\ v[j].remaining \in Fractions
  BY DEF Walks, Sums
<1>2. After(i)
  BY <1>1, OrderByDifference
<1>3. 0 \in Good
  BY <1>2
<1>4. ASSUME NEW j \in 1 .. n, j - 1 \in Good PROVE j \in Good
  <2>1. CASE j <= i
    BY <1>2, <2>1
  <2>2. CASE j > i
    <3> DEFINE a == v[j - 1]
               l == levels[j]
               t == Money(a, l)
               x == Size(a, l)
    <3>1. /\ After(j - 1) /\ j - 1 \in 0 .. n
      BY <1>4, <2>2
    <3>2. /\ t \in Fractions /\ x \in Fractions /\ AtMost(Zero, x)
          /\ v[j].remaining = Minus(a.remaining, t)
          /\ v[j].quantity = Plus(a.quantity, x)
          /\ a.remaining = Zero => t = Zero /\ x = Zero
      BY DEF Walks, LevelGives
    <3>3. /\ a.quantity \in Fractions /\ a.remaining \in Fractions
          /\ v[j].quantity \in Fractions /\ v[i].quantity \in Fractions
      BY <1>1, <3>1
    <3> HIDE DEF t, x
    <3>4. AtMost(a.quantity, v[j].quantity)
      BY <3>2, <3>3, PartAtMost
    <3>5. AtMost(v[i].quantity, v[j].quantity)
      BY <3>1, <3>3, <3>4, AtMostChains
    <3>6. ASSUME v[i].remaining = Zero
          PROVE  v[j].remaining = Zero /\ v[j].quantity = v[i].quantity
      <4>1. a.remaining = Zero /\ a.quantity = v[i].quantity
        BY <3>1, <3>6
      <4>2. Minus(Zero, Zero) = Zero /\ Plus(a.quantity, Zero) = a.quantity
        BY <3>3, PlusZero, ZeroIs
      <4> QED BY <3>2, <4>1, <4>2
    <3> QED BY <3>5, <3>6
  <2> QED BY <2>1, <2>2
<1> HIDE DEF After, Good
<1>5. n \in Good
  <2>1. \A j \in 0 .. n : j \in Good
    BY <1>3, <1>4, StepInduction
  <2> QED BY <2>1
<1> QED BY <1>5 DEF Good, After

(* An order by quantity, for what one by notional has bought, walks along. *)
SameTaken(a, b, whole) ==
    /\ b.quantity = a.quantity /\ b.notional = a.notional
    /\ b.remaining = Minus(whole, a.quantity)

LEMMA WalksAlong ==
    ASSUME NEW whole \in Fractions, NEW a \in Sums, NEW b \in Sums, SameTaken(a, b, whole),
           NEW l, IsLevel(l), LevelGives(a, l),
           AtMost(TakeNotional(a, l).quantity, whole),
           TakeNotional(a, l).remaining = Zero => whole = TakeNotional(a, l).quantity
    PROVE  SameTaken(TakeNotional(a, l), TakeQuantity(b, l), whole)
<1> DEFINE t == Money(a, l)
           x == Size(a, l)
           r == Minus(whole, a.quantity)
           c == TakeNotional(a, l)
<1>1. /\ t = Times(x, l.price) /\ x \in Fractions
      /\ c.notional = Plus(a.notional, t) /\ c.quantity = Plus(a.quantity, x)
      /\ x = l.quantity \/ (AtMost(x, l.quantity) /\ c.remaining = Zero)
  BY DEF LevelGives
<1>2. /\ a.quantity \in Fractions /\ a.notional \in Fractions /\ l.quantity \in Fractions
      /\ b.quantity = a.quantity /\ b.notional = a.notional /\ b.remaining = r
  BY DEF Sums, IsLevel, SameTaken
<1>3. AtMost(c.quantity, whole) /\ (c.remaining = Zero => whole = c.quantity)
  OBVIOUS
<1>4. r \in Fractions
  BY <1>2, PlusType
<1> HIDE DEF t, x, c, r
<1>5. AtMost(x, r)
  BY <1>1, <1>2, <1>3, Leaves DEF r
<1>6. Least(r, l.quantity) = x
  <2>1. CASE x = l.quantity
    BY <1>1, <1>2, <1>4, <1>5, <2>1, OrderByDifference DEF Least
  <2>2. CASE AtMost(x, l.quantity) /\ c.remaining = Zero
    <3>1. r = x
      <4>1. r = Minus(Plus(x, a.quantity), a.quantity)
        BY <1>1, <1>2, <1>3, <2>2, PlusCommutes DEF r
      <4> QED BY <1>1, <1>2, <4>1, MinusUndoesPlus
    <3> QED BY <2>2, <3>1 DEF Least
  <2> QED BY <1>1, <2>1, <2>2
<1>7. Minus(r, x) = Minus(whole, c.quantity)
  BY <1>1, <1>2, Leaves DEF r
<1>8. /\ TakeQuantity(b, l).quantity = Plus(b.quantity, x)
      /\ TakeQuantity(b, l).notional = Plus(b.notional, Times(x, l.price))
      /\ TakeQuantity(b, l).remaining = Minus(b.remaining, x)
  BY <1>2, <1>6 DEF TakeQuantity
<1> QED BY <1>1, <1>2, <1>7, <1>8 DEF SameTaken, c

LEMMA SameMoney ==
    ASSUME NEW levels, NEW n \in Nat, DOMAIN levels = 1 .. n, \A i \in 1 .. n : IsLevel(levels[i]),
           NEW asked \in Fractions, Below(Zero, asked), NEW v, Walks(v, levels, n, asked)
    PROVE  QuantityOrder(levels, v[n].quantity).notional = v[n].notional
<1> DEFINE whole == v[n].quantity
<1>1. whole \in Fractions
  <2>1. v[n] \in Sums
    BY DEF Walks
  <2> QED BY <2>1 DEF Sums
<1> HIDE DEF whole
<1>2. PICK w \in [0 .. n -> Sums] :
         /\ w[0] = NothingFilled(whole) /\ QuantityOrder(levels, whole) = w[n]
         /\ \A i \in 1 .. n : w[i] = TakeQuantity(w[i - 1], levels[i])
  BY <1>1, QuantityPath
<1> DEFINE Good == {i \in 0 .. n : SameTaken(v[i], w[i], whole)}
<1>3. 0 \in Good
  <2>1. v[0] = NothingFilled(asked)
    BY DEF Walks
  <2> QED BY <1>1, <1>2, <2>1, PlusZero DEF NothingFilled, SameTaken
<1>4. ASSUME NEW i \in 1 .. n, i - 1 \in Good PROVE i \in Good
  <2>1. /\ v[i - 1] \in Sums /\ w[i - 1] \in Sums /\ SameTaken(v[i - 1], w[i - 1], whole)
        /\ IsLevel(levels[i]) /\ LevelGives(v[i - 1], levels[i])
        /\ v[i] = TakeNotional(v[i - 1], levels[i]) /\ w[i] = TakeQuantity(w[i - 1], levels[i])
    BY <1>2, <1>4 DEF Walks
  <2>2. i \in 0 .. n
    OBVIOUS
  <2>3. AtMost(v[i].quantity, whole) /\ (v[i].remaining = Zero => whole = v[i].quantity)
    BY <2>2, LaterTakes DEF whole
  <2>4. SameTaken(v[i], w[i], whole)
    BY <1>1, <2>1, <2>3, WalksAlong
  <2> QED BY <2>2, <2>4
<1> HIDE DEF Good
<1>5. n \in Good
  <2>1. \A i \in 0 .. n : i \in Good
    BY <1>3, <1>4, StepInduction
  <2> QED BY <2>1
<1> QED BY <1>2, <1>5 DEF Good, SameTaken, whole

(* And no one pays less than the best price.                               *)
Excess(a, side, price) ==
    Times(Whole(side), Minus(a.notional, Times(a.quantity, price)))

LEMMA ExcessGrows ==
    ASSUME NEW side \in Directions, NEW best \in Fractions, NEW a \in Sums, NEW l, IsLevel(l),
           LevelGives(a, l), AtMost(Zero, Times(Whole(side), Minus(l.price, best))),
           AtMost(Zero, Excess(a, side, best))
    PROVE  AtMost(Zero, Excess(TakeNotional(a, l), side, best))
<1> DEFINE s == Whole(side)
           x == Size(a, l)
           t == Money(a, l)
           e == Minus(a.notional, Times(a.quantity, best))
           f == Minus(l.price, best)
           c == TakeNotional(a, l)
<1>1. /\ t = Times(x, l.price) /\ x \in Fractions /\ AtMost(Zero, x)
      /\ c.notional = Plus(a.notional, t) /\ c.quantity = Plus(a.quantity, x)
  BY DEF LevelGives
<1>2. /\ a.quantity \in Fractions /\ a.notional \in Fractions /\ l.price \in Fractions
      /\ s \in Fractions
  BY WholeIs DEF Sums, IsLevel, Directions, Buy, Sell
<1> HIDE DEF s, x, t, c
<1>3. /\ Times(a.quantity, best) \in Fractions /\ Times(x, best) \in Fractions
      /\ Times(x, l.price) \in Fractions /\ f \in Fractions
  BY <1>1, <1>2, TimesType, PlusType
<1>4. e \in Fractions
  BY <1>2, <1>3, PlusType
<1>5. Times(c.quantity, best) = Plus(Times(a.quantity, best), Times(x, best))
  <2>1. Plus(a.quantity, x) \in Fractions
    BY <1>1, <1>2, PlusType
  <2>2. Times(best, Plus(a.quantity, x)) = Plus(Times(best, a.quantity), Times(best, x))
    BY <1>1, <1>2, TimesDistributes
  <2> QED BY <1>1, <1>2, <2>1, <2>2, TimesCommutes
<1>6. Minus(Times(x, l.price), Times(x, best)) = Times(x, f)
  BY <1>1, <1>2, TimesDistributes
<1>7. Minus(c.notional, Times(c.quantity, best)) = Plus(e, Times(x, f))
  BY <1>1, <1>2, <1>3, <1>5, <1>6, MinusPairs
<1> HIDE DEF e, f
<1>8. Times(x, f) \in Fractions /\ Times(s, f) \in Fractions
  BY <1>1, <1>2, <1>3, TimesType
<1>9. Times(s, Times(x, f)) = Times(x, Times(s, f))
  <2>1. Times(Times(s, x), f) = Times(s, Times(x, f)) /\ Times(Times(x, s), f) = Times(x, Times(s, f))
    BY <1>1, <1>2, <1>3, TimesAssociates
  <2> QED BY <1>1, <1>2, <2>1, TimesCommutes
<1>10. Times(s, Plus(e, Times(x, f))) = Plus(Times(s, e), Times(x, Times(s, f)))
  BY <1>2, <1>4, <1>8, <1>9, TimesDistributes
<1>11. AtMost(Zero, Times(x, Times(s, f))) /\ Times(x, Times(s, f)) \in Fractions
  BY <1>1, <1>8, ProductSigns, TimesType DEF s, f
<1>12. AtMost(Zero, Times(s, e)) /\ Times(s, e) \in Fractions
  BY <1>2, <1>4, TimesType DEF Excess, s, e
<1>13. AtMost(Zero, Plus(Times(s, e), Times(x, Times(s, f))))
  BY <1>11, <1>12, SumSigns
<1> QED BY <1>7, <1>10, <1>13 DEF Excess, s, c

LEMMA NoOnePaysLess ==
    ASSUME NEW levels, NEW n \in Nat, NEW asked, NEW v, Walks(v, levels, n, asked),
           \A i \in 1 .. n : IsLevel(levels[i]),
           NEW side \in Directions, NEW best \in Fractions,
           \A i \in 1 .. n : AtMost(Zero, Times(Whole(side), Minus(levels[i].price, best)))
    PROVE  AtMost(Zero, Excess(v[n], side, best))
<1> DEFINE Good == {i \in 0 .. n : AtMost(Zero, Excess(v[i], side, best))}
<1>1. 0 \in Good
  <2>1. v[0].notional = Zero /\ v[0].quantity = Zero
    BY DEF Walks, NothingFilled
  <2>2. Whole(side) \in Fractions /\ Zero \in Fractions
    BY WholeIs, ZeroIs DEF Directions, Buy, Sell
  <2>3. Times(Zero, best) = Zero /\ Minus(Zero, Zero) = Zero /\ Times(Whole(side), Zero) = Zero
    BY <2>2, TimesUnits, PlusZero
  <2> QED BY <2>1, <2>2, <2>3, PositiveIs DEF Excess
<1>2. ASSUME NEW i \in 1 .. n, i - 1 \in Good PROVE i \in Good
  <2>1. /\ v[i - 1] \in Sums /\ IsLevel(levels[i]) /\ LevelGives(v[i - 1], levels[i])
        /\ v[i] = TakeNotional(v[i - 1], levels[i])
        /\ AtMost(Zero, Excess(v[i - 1], side, best))
        /\ AtMost(Zero, Times(Whole(side), Minus(levels[i].price, best)))
    BY <1>2 DEF Walks
  <2>2. AtMost(Zero, Excess(v[i], side, best))
    BY <2>1, ExcessGrows
  <2> QED BY <2>2
<1> HIDE DEF Good
<1>3. n \in Good
  <2>1. \A i \in 0 .. n : i \in Good
    BY <1>1, <1>2, StepInduction
  <2> QED BY <2>1
<1> QED BY <1>3 DEF Good

LEMMA WorseIs ==
    ASSUME NEW b, ValidBook(b), BestFirst(b), NEW side \in Directions,
           NEW i \in DOMAIN ExecutionLevels(b, side)
    PROVE  AtMost(Zero, Times(Whole(side), Minus(ExecutionLevels(b, side)[i].price,
                                                 ExecutionLevels(b, side)[1].price)))
<1> DEFINE levels == ExecutionLevels(b, side)
           p == levels[i].price
           best == levels[1].price
<1>1. IsSide(levels)
  BY BookIs DEF ExecutionLevels
<1>2. 1 \in DOMAIN levels /\ i \in Nat /\ i >= 1
  BY <1>1, BestOf DEF IsSide
<1>3. p \in Fractions /\ best \in Fractions /\ Minus(p, best) \in Fractions
  BY <1>1, <1>2, BestOf, PlusType DEF IsLevel
<1>4. side = 1 => AtMost(best, p)
  <2>1. i = 1 => AtMost(best, p)
    BY <1>3, OrderByDifference
  <2>2. i > 1 /\ side = 1 => AtMost(best, p)
    BY <1>2 DEF BestFirst, ExecutionLevels, Buy
  <2> QED BY <1>2, <2>1, <2>2
<1>5. side = -1 => AtMost(p, best)
  <2>1. i = 1 => AtMost(p, best)
    BY <1>3, OrderByDifference
  <2>2. -1 # 1
    OBVIOUS
  <2>3. i > 1 /\ side = -1 => AtMost(p, best)
    BY <1>2, <2>2 DEF BestFirst, ExecutionLevels, Buy
  <2> QED BY <1>2, <2>1, <2>3
<1> HIDE DEF p, best
<1>6. CASE side = 1
  BY <1>3, <1>4, <1>6, TimesUnits, OrderByDifference DEF p, best
<1>7. CASE side = -1
  <2>1. Times(Whole(-1), Minus(p, best)) = Minus(best, p)
    BY <1>3, TimesUnits, Leaves
  <2> QED BY <1>3, <1>5, <1>7, <2>1, OrderByDifference DEF p, best
<1> QED BY <1>6, <1>7 DEF Directions, Buy, Sell

LEMMA TakerIs == QueueInv => TakerWalksTheBook
<1> SUFFICES ASSUME QueueInv PROVE TakerWalksTheBook
  OBVIOUS
<1> DEFINE levels == ExecutionLevels(book, order.side)
           asked == Times(order.quantity, order.price)
           best == levels[1].price
<1>1. /\ ValidBook(book) /\ BestFirst(book) /\ order.side \in Directions /\ IsOrder(order)
  BY QueuedOrder DEF QueueInv
<1>2. asked \in Fractions /\ Below(Zero, asked)
  BY <1>1, PositiveIs, TimesType, ProductSigns DEF IsOrder
<1>3. IsSide(levels)
  BY <1>1, BookIs DEF ExecutionLevels
<1>4. PICK n \in Nat \ {0} : DOMAIN levels = 1 .. n /\ \A i \in 1 .. n : IsLevel(levels[i])
  BY <1>3 DEF IsSide
<1>5. best \in Fractions /\ n \in Nat
  BY <1>4 DEF IsLevel
<1>6. \A i \in 1 .. n : AtMost(Zero, Times(Whole(order.side), Minus(levels[i].price, best)))
  BY <1>1, <1>4, WorseIs
<1> HIDE DEF levels, asked, best
<1>7. PICK v : Walks(v, levels, n, asked)
  BY <1>2, <1>4, <1>5, WalkExists
<1>8. NotionalOrder(levels, asked) = v[n]
  BY <1>7 DEF Walks
<1>9. v[n].notional = Least(asked, BookDepthNotional(levels))
  BY <1>2, <1>4, <1>5, <1>7, SpendsAll
<1>10. QuantityOrder(levels, v[n].quantity).notional = v[n].notional
  BY <1>2, <1>4, <1>5, <1>7, SameMoney
<1>11. AtMost(Zero, Excess(v[n], order.side, best))
  BY <1>1, <1>4, <1>5, <1>6, <1>7, NoOnePaysLess
<1> QED BY <1>8, <1>9, <1>10, <1>11 DEF TakerWalksTheBook, Excess, levels, asked, best

-----------------------------------------------------------------------------
(* Both closed forms.                                                      *)

LEMMA FilledIs == QueueInv => FilledIsVolumeBehindQueue
<1> SUFFICES ASSUME QueueInv PROVE FilledIsVolumeBehindQueue
  OBVIOUS
<1> DEFINE end == order.placed + MaxAge
<1>1. IsOrder(order)
  BY QueuedOrder DEF QueueInv
<1>2. /\ DOMAIN passed = 1 .. Len(passed) /\ Len(passed) \in Nat /\ clock \in Int /\ 1 \in Int
      /\ end \in Int /\ \A i \in 1 .. Len(passed) : IsTrade(passed[i], 1, clock)
  BY PassedIs
<1>3. pending = AdvancePendingMaker(Pending(order), order, passed, {end})
  BY DEF QueueInv
<1> HIDE DEF end
<1>4. Closed(pending, order, Volume(order, passed, end))
  BY <1>1, <1>2, <1>3, ClosedForm
<1> QED BY <1>4 DEF Closed, Volume, FilledIsVolumeBehindQueue, end

(* Whatever traded through the order went to its queue first and to the    *)
(* order next; a taker gets what it asked for or all there is, at no better*)
(* than the best price, and money and size agree.                          *)
THEOREM FillsClosed == QueueSpec => []FillsAreClosedForms
<1>1. QueueInv => FillsAreClosedForms
  BY TakerIs, FilledIs DEF FillsAreClosedForms
<1> QED BY QueueIsInvariant, <1>1, PTL
=============================================================================
