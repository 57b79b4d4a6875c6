--------------------------- MODULE PipelineProofs ---------------------------
(***************************************************************************)
(* The selection pipeline and its collector for any number of epochs, any  *)
(* windows, ranks and weights, and any number of script starts: builds that*)
(* are killed and repeated, scripts that overlap, connections that break.  *)
(*                                                                         *)
(* All rests on one fact: a build that is repeated within its epoch writes *)
(* the plan it wrote before, also when the state it starts from is already *)
(* that of its own plan.  And a ranking ranks each market once, because it *)
(* is sorted by an order in which no two rows are equal.                   *)
(***************************************************************************)
EXTENDS Subscriptions, ArithmeticProofs

(* Rankings.                                                               *)

(* A median is taken of numbers, and is one.                               *)
LEMMA MedianType ==
    ASSUME NEW values, IsFiniteSet(DOMAIN values), DOMAIN values # {},
           \A k \in DOMAIN values : k \in Int /\ values[k] \in Int
    PROVE  Median(values) \in Fractions
<1> DEFINE places == DOMAIN values
           less == {p \in places \X places :
                       \/ values[p[1]] < values[p[2]]
                       \/ values[p[1]] = values[p[2]] /\ p[1] < p[2]}
           order == InOrder(places, less)
           n == Cardinality(places)
<1>1. StrictlyOrders(less, places)
  <2>1. \A j, k \in places : 
         <<j, k>> \in less <=> (values[j] < values[k] \/ (values[j] = values[k] /\ j < k))
    OBVIOUS
  <2>2. \A k \in places : k \in Int /\ values[k] \in Int
    OBVIOUS
  <2> HIDE DEF less, places
  <2> QED BY <2>1, <2>2 DEF StrictlyOrders
<1>2. n \in Nat /\ order \in [1 .. n -> places]
  <2> HIDE DEF less
  <2> QED BY <1>1, OrderSorts
<1>3. n # 0
  BY FS_EmptySet
<1>4. Median(values) = IF Len(order) % 2 = 1 THEN Whole(values[order[(Len(order) + 1) \div 2]])
                       ELSE Ratio(values[order[Len(order) \div 2]]
                                  + values[order[Len(order) \div 2 + 1]], 2)
  BY DEF Median
<1> HIDE DEF less, order, n
<1>5. Len(order) = n
  BY <1>2
<1>6. \A i \in 1 .. n : values[order[i]] \in Int
  BY <1>2
<1>7. CASE n % 2 = 1
  <2>1. (n + 1) \div 2 \in 1 .. n
    BY <1>2, <1>3, <1>7
  <2>2. values[order[(n + 1) \div 2]] \in Int
    BY <1>6, <2>1
  <2> QED BY <1>4, <1>5, <1>7, <2>2, WholeIs
<1>8. CASE n % 2 # 1
  <2>1. n \div 2 \in 1 .. n /\ n \div 2 + 1 \in 1 .. n
    BY <1>2, <1>3, <1>8
  <2> DEFINE m == values[order[n \div 2]] + values[order[n \div 2 + 1]]
  <2>2. m \in Int
    BY <1>6, <2>1
  <2>3. Median(values) = Ratio(m, 2)
    BY <1>4, <1>5, <1>8
  <2> HIDE DEF m
  <2> QED BY <2>2, <2>3, RatioIs
<1> QED BY <1>7, <1>8

(* A candidate of a window appears in it, with a rank and a score.         *)
LEMMA CandidateIs ==
    ASSUME NEW w \in Windows, NEW c \in Candidates(w)
    PROVE  /\ Len(w) \in Nat \ {0}
           /\ Appearances(w, c) # {} /\ IsFiniteSet(Appearances(w, c))
           /\ \A k \in Appearances(w, c) :
                 /\ k \in Int /\ RankIn(w[k], c) \in Int
                 /\ w[k][RankIn(w[k], c)].score \in Int
<1> DEFINE Snapshots == Seq([coin : Coins, score : Int])
<1>1. w \in Seq(Snapshots)
  BY PipelineAssumption
<1>2. Len(w) \in Nat /\ DOMAIN w = 1 .. Len(w) /\ \A k \in 1 .. Len(w) : w[k] \in Snapshots
  <2> HIDE DEF Snapshots
  <2> QED BY <1>1
<1>3. PICK k \in DOMAIN w : c \in RankedIn(w[k])
  BY DEF Candidates, ToSet
<1>4. Appearances(w, c) # {} /\ Len(w) # 0
  BY <1>2, <1>3 DEF Appearances
<1>5. IsFiniteSet(Appearances(w, c))
  <2>1. IsFiniteSet(1 .. Len(w))
    BY <1>2, FS_Interval
  <2>2. Appearances(w, c) \in SUBSET (1 .. Len(w))
    BY <1>2 DEF Appearances
  <2> QED BY <2>1, <2>2, FS_Subset
<1>6. ASSUME NEW j \in Appearances(w, c)
      PROVE  /\ j \in Int /\ RankIn(w[j], c) \in Int
             /\ w[j][RankIn(w[j], c)].score \in Int
  <2>1. j \in 1 .. Len(w) /\ w[j] \in Snapshots /\ c \in RankedIn(w[j])
    BY <1>2 DEF Appearances
  <2>2. \E i \in DOMAIN w[j] : w[j][i].coin = c
    BY <2>1 DEF RankedIn, ToSet
  <2>3. RankIn(w[j], c) \in DOMAIN w[j]
    BY <2>2 DEF RankIn
  <2> DEFINE snapshot == w[j]
             C == [coin : Coins, score : Int]
  <2>4. DOMAIN snapshot \subseteq Int /\ \A i \in DOMAIN snapshot : snapshot[i] \in C
    <3>1. snapshot \in Seq(C)
      BY <2>1
    <3> HIDE DEF snapshot, C
    <3> QED BY <3>1
  <2>5. w[j][RankIn(w[j], c)] \in [coin : Coins, score : Int]
    BY <2>3, <2>4
  <2> QED BY <1>2, <2>1, <2>3, <2>4, <2>5
<1> QED BY <1>2, <1>4, <1>5, <1>6

LEMMA ScoreType ==
    ASSUME NEW w \in Windows, NEW c \in Candidates(w)
    PROVE  AggregateScore(w, c) \in Fractions /\ MedianRank(w, c) \in Fractions
<1> DEFINE A == Appearances(w, c)
           scores == [k \in A |-> w[k][RankIn(w[k], c)].score]
           ranks == [k \in A |-> RankIn(w[k], c)]
<1>1. /\ Len(w) \in Nat \ {0} /\ A # {} /\ IsFiniteSet(A)
      /\ \A k \in A : k \in Int /\ RankIn(w[k], c) \in Int /\ w[k][RankIn(w[k], c)].score \in Int
  BY CandidateIs
<1> HIDE DEF A
<1>2. Median(scores) \in Fractions
  <2>1. DOMAIN scores = A /\ \A k \in A : k \in Int /\ scores[k] \in Int
    BY <1>1
  <2> HIDE DEF scores
  <2> QED BY <1>1, <2>1, MedianType
<1>3. Median(ranks) \in Fractions
  <2>1. DOMAIN ranks = A /\ \A k \in A : k \in Int /\ ranks[k] \in Int
    BY <1>1
  <2> HIDE DEF ranks
  <2> QED BY <1>1, <2>1, MedianType
<1>4. Persistence(w, c) \in Fractions
  <2>1. Cardinality(A) \in Int
    BY <1>1, FS_CardinalityType
  <2> QED BY <1>1, <2>1, RatioIs DEF Persistence, A
<1>5. /\ Whole(ScoreWeight) \in Fractions /\ Whole(PersistenceWeight) \in Fractions
      /\ ScoreWeight + PersistenceWeight \in Int /\ ScoreWeight + PersistenceWeight # 0
  BY SelectionAssumption, WholeIs
<1> DEFINE sum == Plus(Times(Whole(ScoreWeight), Median(scores)),
                       Times(Whole(PersistenceWeight), Persistence(w, c)))
           total == ScoreWeight + PersistenceWeight
<1>6. sum \in Fractions
  <2> HIDE DEF scores
  <2>1. Times(Whole(ScoreWeight), Median(scores)) \in Fractions
    BY <1>2, <1>5, TimesType
  <2>2. Times(Whole(PersistenceWeight), Persistence(w, c)) \in Fractions
    BY <1>4, <1>5, TimesType
  <2> QED BY <2>1, <2>2, PlusType
<1>7. AggregateScore(w, c) = Over(sum, Whole(total)) /\ MedianRank(w, c) = Median(ranks)
  BY DEF AggregateScore, Scores, MedianRank, A
<1> HIDE DEF sum, total, ranks
<1>8. Over(sum, Whole(total)) \in Fractions
  <2>1. sum[1] \in Int /\ sum[2] \in Int /\ sum[2] # 0
    BY <1>6, FractionType
  <2>2. Whole(total)[1] = total /\ Whole(total)[2] = 1 /\ total \in Int /\ total # 0
    BY <1>5 DEF Whole, total
  <2>3. sum[1] * 1 \in Int /\ sum[2] * total \in Int /\ sum[2] * total # 0
    BY <2>1, <2>2, NonZeroProduct
  <2>4. Over(sum, Whole(total)) = Ratio(sum[1] * 1, sum[2] * total)
    BY <2>2 DEF Over
  <2> QED BY <2>3, <2>4, RatioIs
<1> QED BY <1>3, <1>7, <1>8

LEMMA CandidatesAreFinite ==
    ASSUME NEW w \in Windows
    PROVE  IsFiniteSet(Candidates(w))
<1> DEFINE Snapshots == Seq([coin : Coins, score : Int])
<1>1. w \in Seq(Snapshots)
  BY PipelineAssumption
<1>2. Len(w) \in Nat /\ DOMAIN w = 1 .. Len(w) /\ \A k \in 1 .. Len(w) : w[k] \in Snapshots
  <2> HIDE DEF Snapshots
  <2> QED BY <1>1
<1>3. ASSUME NEW k \in 1 .. Len(w) PROVE IsFiniteSet(RankedIn(w[k]))
  <2> DEFINE s == w[k]
             coinOf == [i \in 1 .. Len(s) |-> s[i].coin]
  <2>1. s \in Seq([coin : Coins, score : Int])
    BY <1>2
  <2> HIDE DEF s
  <2>2. Len(s) \in Nat /\ DOMAIN s = 1 .. Len(s)
    BY <2>1
  <2>3. IsFiniteSet(1 .. Len(s))
    BY <2>2, FS_Interval
  <2>4. RankedIn(s) = {coinOf[i] : i \in 1 .. Len(s)}
    BY <2>2 DEF RankedIn, ToSet
  <2> HIDE DEF coinOf
  <2> QED BY <2>3, <2>4, ImageIsFinite DEF s
<1> DEFINE ranked == [k \in 1 .. Len(w) |-> RankedIn(w[k])]
           sets == {ranked[k] : k \in 1 .. Len(w)}
<1>4. IsFiniteSet(sets)
  <2>1. IsFiniteSet(1 .. Len(w))
    BY <1>2, FS_Interval
  <2> HIDE DEF ranked
  <2> QED BY <2>1, ImageIsFinite
<1>5. \A S \in sets : IsFiniteSet(S)
  BY <1>3
<1>6. Candidates(w) = UNION sets
  BY <1>2 DEF Candidates, ToSet
<1> HIDE DEF sets
<1> QED BY <1>4, <1>5, <1>6, FS_UNION

(* Every candidate has a name of its own.                                  *)
LEMMA NamesDiffer ==
    ASSUME NEW coins, IsFiniteSet(coins)
    PROVE  /\ DOMAIN SetToSeq(coins) \subseteq Int
           /\ \A c \in coins : \E i \in DOMAIN SetToSeq(coins) : SetToSeq(coins)[i] = c
<1> DEFINE n == Cardinality(coins)
           names == SetToSeq(coins)
<1>1. n \in Nat /\ ExistsBijection(1 .. n, coins)
  BY FS_CardinalityType
<1>2. \E f \in [1 .. n -> coins] : IsInjective(f)
  BY <1>1 DEF ExistsBijection, Bijection, Injection
<1>3. names \in [1 .. n -> coins] /\ IsInjective(names)
  BY <1>2 DEF SetToSeq
<1> HIDE DEF n, names
<1>4. names \in Injection(1 .. n, coins)
  BY <1>3 DEF Injection
<1>5. IsFiniteSet(1 .. n) /\ Cardinality(1 .. n) = n /\ n = Cardinality(coins)
  BY <1>1, FS_Interval DEF n
<1>6. names \in Surjection(1 .. n, coins)
  BY <1>4, <1>5, FS_Injection
<1>7. DOMAIN names = 1 .. n /\ \A c \in coins : \E i \in 1 .. n : names[i] = c
  BY <1>3, <1>6 DEF Surjection
<1> QED BY <1>1, <1>7 DEF names

LEMMA RowsAre ==
    ASSUME NEW w \in Windows
    PROVE  /\ IsFiniteSet(Rows(w))
           /\ \A r \in Rows(w) : /\ r.coin \in Candidates(w)
                                 /\ r.score \in Fractions /\ r.rank \in Fractions
                                 /\ r.name \in Int
           /\ \A r, s \in Rows(w) : (r.name = s.name => r = s) /\ (r.coin = s.coin => r = s)
           /\ \A c \in Candidates(w) : \E r \in Rows(w) : r.coin = c
<1> DEFINE coins == Candidates(w)
           names == SetToSeq(coins)
           Name(c) == CHOOSE i \in DOMAIN names : names[i] = c
           Row(c) == [coin |-> c, score |-> AggregateScore(w, c), rank |-> MedianRank(w, c),
                      name |-> Name(c)]
           row == [c \in coins |-> Row(c)]
<1>1. Rows(w) = {Row(c) : c \in coins}
  BY DEF Rows
<1>2. IsFiniteSet(coins)
  BY CandidatesAreFinite
<1>3. \A c \in coins : AggregateScore(w, c) \in Fractions /\ MedianRank(w, c) \in Fractions
  BY ScoreType
<1> HIDE DEF coins
<1>4. /\ DOMAIN names \subseteq Int
      /\ \A c \in coins : \E i \in DOMAIN names : names[i] = c
  BY <1>2, NamesDiffer
<1> HIDE DEF names
<1>5. \A c \in coins : Name(c) \in Int /\ names[Name(c)] = c
  BY <1>4
<1> HIDE DEF Name
<1>6. \A c \in coins : /\ Row(c).coin = c /\ Row(c).name = Name(c)
                       /\ Row(c).score = AggregateScore(w, c) /\ Row(c).rank = MedianRank(w, c)
  OBVIOUS
<1>7. IsFiniteSet(Rows(w))
  <2>1. Rows(w) = {row[c] : c \in coins}
    <3> HIDE DEF Row
    <3> QED BY <1>1
  <2> HIDE DEF row
  <2> QED BY <1>2, <2>1, ImageIsFinite
<1> HIDE DEF Row
<1>8. \A r \in Rows(w) : /\ r.coin \in coins
                         /\ r.score \in Fractions /\ r.rank \in Fractions
                         /\ r.name \in Int
  BY <1>1, <1>3, <1>5, <1>6
<1>9. \A r, s \in Rows(w) : (r.name = s.name => r = s) /\ (r.coin = s.coin => r = s)
  BY <1>1, <1>5, <1>6
<1>10. \A c \in coins : \E r \in Rows(w) : r.coin = c
  BY <1>1, <1>6
<1> QED BY <1>7, <1>8, <1>9, <1>10 DEF coins

(* Of two fractions, either one is below the other or they are equal.      *)
LEMMA FractionsOrder ==
    /\ \A a, b \in Fractions : Below(a, b) \/ Below(b, a) \/ a = b
    /\ \A a \in Fractions : ~Below(a, a)
    /\ \A a, b \in Fractions : ~(Below(a, b) /\ Below(b, a))
    /\ \A a, b, c \in Fractions : Below(a, b) /\ Below(b, c) => Below(a, c)
<1>1. \A a, b \in Fractions : /\ AtMost(a, b) <=> ~Below(b, a)
                              /\ AtMost(a, b) <=> (Below(a, b) \/ a = b)
  BY OrderByDifference
<1>2. \A a, b, c \in Fractions : Below(a, b) /\ Below(b, c) => Below(a, c)
  <2> SUFFICES ASSUME NEW a \in Fractions, NEW b \in Fractions, NEW c \in Fractions,
                      Below(a, b), Below(b, c)
               PROVE  Below(a, c)
    OBVIOUS
  <2>1. AtMost(a, b) /\ AtMost(b, c)
    BY <1>1
  <2> QED BY <2>1, BelowChains
<1>3. \A a \in Fractions : ~Below(a, a)
  BY <1>1
<1>4. \A a, b \in Fractions : ~(Below(a, b) /\ Below(b, a))
  BY <1>2, <1>3
<1> QED BY <1>1, <1>2, <1>3, <1>4

LEMMA RowsOrder ==
    ASSUME NEW w \in Windows
    PROVE  StrictlyOrders({p \in Rows(w) \X Rows(w) : Ahead(p[1], p[2])}, Rows(w))
<1> DEFINE rows == Rows(w)
           less == {p \in rows \X rows : Ahead(p[1], p[2])}
<1>1. \A r, s \in rows : <<r, s>> \in less <=> Ahead(r, s)
  OBVIOUS
<1>2. /\ \A r \in rows : r.score \in Fractions /\ r.rank \in Fractions /\ r.name \in Int
      /\ \A r, s \in rows : r.name = s.name => r = s
  BY RowsAre
<1> HIDE DEF rows
<1>3. \A r \in rows : ~Ahead(r, r)
  BY <1>2, FractionsOrder DEF Ahead
<1>4. ASSUME NEW r \in rows, NEW s \in rows, r # s PROVE Ahead(r, s) \/ Ahead(s, r)
  <2>1. r.name < s.name \/ s.name < r.name
    BY <1>2, <1>4
  <2> QED BY <1>2, <2>1, FractionsOrder DEF Ahead
<1>5. ASSUME NEW r \in rows, NEW s \in rows, NEW t \in rows, Ahead(r, s), Ahead(s, t)
      PROVE  Ahead(r, t)
  <2>1. /\ r.score \in Fractions /\ s.score \in Fractions /\ t.score \in Fractions
        /\ r.rank \in Fractions /\ s.rank \in Fractions /\ t.rank \in Fractions
        /\ r.name \in Int /\ s.name \in Int /\ t.name \in Int
    BY <1>2
  <2>2. CASE r.score # s.score \/ s.score # t.score
    <3>1. Below(t.score, r.score)
      BY <1>5, <2>1, <2>2, FractionsOrder DEF Ahead
    <3> QED BY <3>1 DEF Ahead
  <2>3. CASE r.score = s.score /\ s.score = t.score
    <3>1. /\ Below(r.rank, s.rank) \/ (r.rank = s.rank /\ r.name < s.name)
          /\ Below(s.rank, t.rank) \/ (s.rank = t.rank /\ s.name < t.name)
      BY <1>5, <2>1, <2>3, FractionsOrder DEF Ahead
    <3>2. Below(r.rank, t.rank) \/ (r.rank = t.rank /\ r.name < t.name)
      <4>1. r.name < s.name /\ s.name < t.name => r.name < t.name
        BY <2>1
      <4> QED BY <2>1, <3>1, <4>1, FractionsOrder
    <3> QED BY <2>3, <3>2 DEF Ahead
  <2> QED BY <2>2, <2>3
<1> HIDE DEF less
<1> QED BY <1>1, <1>3, <1>4, <1>5 DEF StrictlyOrders, rows, less

(* AggregateMarketSelection: a ranking has each market that a snapshot of  *)
(* the window has, each of them once, and one that is ahead of another by  *)
(* score, median rank and name comes before it.                            *)
THEOREM RankedOnce ==
    ASSUME NEW w \in Windows
    PROVE  LET ranking == AggregateMarketSelection(w)
           IN /\ DOMAIN ranking \subseteq Nat
              /\ IsInjective(ranking)
              /\ ToSet(ranking) = Candidates(w)
              /\ \A r, s \in Rows(w) : \A i, j \in DOMAIN ranking :
                    ranking[i] = r.coin /\ ranking[j] = s.coin /\ i < j => Ahead(r, s)
<1> DEFINE rows == Rows(w)
           less == {p \in rows \X rows : Ahead(p[1], p[2])}
           sorted == InOrder(rows, less)
           ranking == AggregateMarketSelection(w)
           n == Cardinality(rows)
<1>1. /\ IsFiniteSet(rows) /\ StrictlyOrders(less, rows)
      /\ \A r \in rows : r.coin \in Candidates(w)
      /\ \A r, s \in rows : r.coin = s.coin => r = s
      /\ \A c \in Candidates(w) : \E r \in rows : r.coin = c
  BY RowsAre, RowsOrder
<1>2. \A r, s \in rows : <<r, s>> \in less <=> Ahead(r, s)
  OBVIOUS
<1>3. ranking = [m \in DOMAIN sorted |-> sorted[m].coin]
  BY DEF AggregateMarketSelection
<1> HIDE DEF rows, less, ranking
<1>4. /\ n \in Nat /\ sorted \in [1 .. n -> rows]
      /\ \A r \in rows : \E i \in 1 .. n : sorted[i] = r
      /\ \A i, j \in 1 .. n : i < j => <<sorted[i], sorted[j]>> \in less
      /\ \A i, j \in 1 .. n : sorted[i] = sorted[j] => i = j
  BY <1>1, OrderSorts
<1> HIDE DEF sorted, n
<1>5. DOMAIN ranking = 1 .. n /\ \A i \in 1 .. n : ranking[i] = sorted[i].coin /\ sorted[i] \in rows
  BY <1>3, <1>4
<1>6. IsInjective(ranking)
  BY <1>1, <1>4, <1>5 DEF IsInjective
<1>7. ToSet(ranking) = Candidates(w)
  <2>1. \A i \in 1 .. n : ranking[i] \in Candidates(w)
    BY <1>1, <1>5
  <2>2. ASSUME NEW c \in Candidates(w) PROVE \E i \in 1 .. n : ranking[i] = c
    BY <1>1, <1>4, <1>5
  <2> QED BY <1>5, <2>1, <2>2 DEF ToSet
<1>8. ASSUME NEW r \in rows, NEW s \in rows, NEW i \in 1 .. n, NEW j \in 1 .. n,
             ranking[i] = r.coin, ranking[j] = s.coin, i < j
      PROVE  Ahead(r, s)
  <2>1. sorted[i] = r /\ sorted[j] = s
    BY <1>1, <1>5, <1>8
  <2> QED BY <1>2, <1>4, <1>8, <2>1
<1>9. DOMAIN ranking \subseteq Nat
  BY <1>4, <1>5
<1> QED BY <1>5, <1>6, <1>7, <1>8, <1>9 DEF rows, ranking

-----------------------------------------------------------------------------
(* Plans and files.                                                        *)

Epochs == 1..MaxEpoch

Published(file) == file # None /\ \E e \in Epochs : file = plans[e]

(* A plan names its epoch and is never one of the future.                  *)
PlansInv ==
    /\ epoch \in Epochs /\ window \in Windows
    /\ plans = [e \in Epochs |-> plans[e]]
    /\ \A e \in Epochs : plans[e] # None =>
          /\ e <= epoch
          /\ plans[e] = [epoch |-> e, members |-> plans[e].members]
          /\ \A c \in DOMAIN plans[e].members : plans[e].members[c].since \in Nat

(* The collection is the newest plan; the state is that of it or of an     *)
(* older one.                                                              *)
FilesInv ==
    /\ collection # None => Published(collection)
    /\ \A e \in Epochs : plans[e] # None => e <= collection.epoch
    /\ selectionState # None =>
          \E e \in Epochs :
             /\ plans[e] # None
             /\ selectionState = [epoch |-> e, since |-> CollectionSinceMap(plans[e].members)]

(* What a running build is about to write.                                 *)
BuilderInv ==
    builder # NotRunning =>
       /\ builder.at \in {"collection", "trading", "state"}
       /\ builder = [at |-> builder.at, epoch |-> builder.epoch,
                     ranking |-> builder.ranking, plan |-> builder.plan]
       /\ builder.epoch \in 1..epoch
       /\ collection.epoch <= builder.epoch
       /\ \E w \in Windows : builder.ranking = AggregateMarketSelection(w)
       /\ builder.epoch = epoch => builder.ranking = AggregateMarketSelection(window)
       /\ builder.plan = BuildStableSelectionPlan(builder.ranking, builder.epoch, Previous)
       /\ plans[builder.epoch] # None => plans[builder.epoch].members = builder.plan
       /\ builder.at # "collection" => plans[builder.epoch] # None

(* A build that starts now would write the plan of this epoch again.       *)
RepeatInv ==
    plans[epoch] # None =>
       plans[epoch].members =
          BuildStableSelectionPlan(AggregateMarketSelection(window), epoch, Previous)

PlanningInv == PlansInv /\ FilesInv /\ BuilderInv /\ RepeatInv

(* The state that a build starts from is that of the collection, unless    *)
(* something was lost or the build is a repetition.                        *)
SinceInv ==
    /\ DOMAIN since = IF collection = None THEN {} ELSE DOMAIN collection.members
    /\ \A c \in DOMAIN since : since[c] \in Nat
    /\ CollectedSinceStated
    /\ builder # NotRunning /\ builder.at = "collection" /\ ~lost =>
          collection.epoch \in {selectionState.epoch, builder.epoch}

Passed(e, coins) == \A c \in coins : <<e, c>> \in checkedReady

ValidProfile(p) ==
    /\ \E e \in Epochs : plans[e] # None /\ p.epoch = e /\ p.members = plans[e].members
    /\ p.ready \subseteq DOMAIN p.members
    /\ Passed(p.epoch, p.ready)

(* What the validating scripts hold in memory, or left in their files, is  *)
(* of one epoch.                                                           *)
CheckerInv   == checker # NotRunning => Published(checker.selection)
ReadinessInv == readiness # None => Passed(readiness.epoch, readiness.ready)
ProfilerInv  ==
    /\ profiler # NotRunning => Published(profiler.selection)
    /\ profiler.at = "analysing" => Passed(profiler.selection.epoch, profiler.ready)
ProfileInv == profile # None => ValidProfile(profile)
GateInv    == gate.at = "gating" => ValidProfile(gate.profile)
TradedInv  ==
    /\ trading # None /\ trading.validated =>
          trading.epoch \in Epochs /\ plans[trading.epoch] # None
    /\ TradedWasValidated

ScriptsInv ==
    CheckerInv /\ ReadinessInv /\ ProfilerInv /\ ProfileInv /\ GateInv /\ TradedInv

PipelineInv == PlanningInv /\ SinceInv /\ ScriptsInv

Universes == {CoinsOf(plans[e]) : e \in Epochs} \cup {FallbackCoins}

(* In the middle of a refresh the subscriptions are those of the old       *)
(* universe, with the messages that were sent applied to them.             *)
StreamInv ==
    /\ connection \in {"open", "lost"} /\ syncing \in BOOLEAN
    /\ connection = "lost" => ~syncing
    /\ ~syncing => removed = {} /\ added = {} /\ unsent = {}
    /\ connection = "open" =>
         /\ active \in Universes
         /\ (active \ removed) \cup added \in Universes
         /\ removed \subseteq active
         /\ added \cap active = {}
         /\ unsent \subseteq removed \cup added
         /\ subscribed = (active \ (removed \ unsent)) \cup (added \ unsent)

-----------------------------------------------------------------------------

(* A plan made from the state of itself is the same plan.                  *)
LEMMA PlanRepeats ==
    ASSUME NEW r, NEW e, NEW previous, NEW plan,
           plan = BuildStableSelectionPlan(r, e, previous)
    PROVE  BuildStableSelectionPlan(r, e, CollectionSinceMap(plan)) = plan
<1> DEFINE next == CollectionSinceMap(plan)
           rank(c) == CHOOSE i \in DOMAIN r : r[i] = c
           first(c) == IF c \in DOMAIN previous THEN previous[c] ELSE e
<1>1. DOMAIN plan = Selected(r, previous)
  BY DEF BuildStableSelectionPlan
<1>2. \A c \in DOMAIN plan :
         plan[c] = [rank  |-> rank(c), since |-> first(c),
                    ready |-> rank(c) <= TradingRank /\ e >= first(c) + MinCollectionAge]
  BY DEF BuildStableSelectionPlan
<1>3. DOMAIN next = DOMAIN plan /\ \A c \in DOMAIN plan : next[c] = first(c)
  BY <1>2 DEF CollectionSinceMap
<1>4. Selected(r, next) = Selected(r, previous)
  <2>1. \A c : c \in Selected(r, previous) <=>
                 c \in ToSet(r) /\ (rank(c) <= EntryRank \/ (c \in DOMAIN previous /\ rank(c) <= RetentionRank))
    BY DEF Selected
  <2>2. \A c : c \in Selected(r, next) <=>
                 c \in ToSet(r) /\ (rank(c) <= EntryRank \/ (c \in DOMAIN next /\ rank(c) <= RetentionRank))
    BY DEF Selected
  <2>3. \A c : c \in DOMAIN next <=> c \in Selected(r, previous)
    BY <1>1, <1>3
  <2> HIDE DEF rank, next
  <2>4. \A c \in Selected(r, previous) : c \in ToSet(r) /\ (rank(c) <= EntryRank \/ rank(c) <= RetentionRank)
    BY <2>1
  <2>5. \A c : c \in Selected(r, next) <=> c \in Selected(r, previous)
    BY <2>1, <2>2, <2>3, <2>4
  <2> QED BY <2>5
<1>5. BuildStableSelectionPlan(r, e, next) =
         [c \in Selected(r, next) |->
            [rank  |-> rank(c),
             since |-> IF c \in DOMAIN next THEN next[c] ELSE e,
             ready |-> rank(c) <= TradingRank
                         /\ e >= (IF c \in DOMAIN next THEN next[c] ELSE e) + MinCollectionAge]]
  BY DEF BuildStableSelectionPlan
<1>6. plan = [c \in Selected(r, previous) |->
                [rank  |-> rank(c), since |-> first(c),
                 ready |-> rank(c) <= TradingRank /\ e >= first(c) + MinCollectionAge]]
  BY DEF BuildStableSelectionPlan
<1>7. \A c \in Selected(r, next) : c \in DOMAIN next /\ next[c] = first(c)
  BY <1>1, <1>3, <1>4
<1>8. BuildStableSelectionPlan(r, e, next) = plan
  <2> HIDE DEF next, rank, first
  <2> QED BY <1>4, <1>5, <1>6, <1>7
<1> QED BY <1>8

(* A market is in a plan since its epoch, or since the previous state says.*)
LEMMA PlanSince ==
    ASSUME NEW r, NEW e, NEW previous, NEW plan,
           plan = BuildStableSelectionPlan(r, e, previous)
    PROVE  \A c \in DOMAIN plan :
              plan[c].since = IF c \in DOMAIN previous THEN previous[c] ELSE e
BY DEF BuildStableSelectionPlan

-----------------------------------------------------------------------------

planVars == <<epoch, window, builder, collection, selectionState, plans, since, lost>>

LEMMA ScriptsLeavePlans == Scripts => UNCHANGED planVars
BY DEF Scripts, StartCheck, FinishCheck, StartProfile, ReadReadiness, FinishProfile,
       StartGate, ReadProfile, FinishGate, Started, planVars, worldVars, files,
       historyVars

(* A plan that was written is never changed.                               *)
Kept == \A e \in Epochs : plans[e] # None => plans'[e] = plans[e]

LEMMA PlanningNewEpoch ==
    ASSUME PlanningInv, NEW w \in Windows, NewEpoch(w)
    PROVE  PlanningInv'
<1> USE DEF PlanningInv, PlansInv, FilesInv, BuilderInv, RepeatInv, Epochs
<1>1. /\ epoch \in 1..MaxEpoch /\ epoch' = epoch + 1 /\ epoch' \in 1..MaxEpoch
      /\ window' = w /\ MaxEpoch \in Nat
      /\ UNCHANGED <<builder, collection, selectionState, plans>>
  BY PipelineAssumption DEF NewEpoch, files, historyVars
<1>2. PlansInv'
  BY <1>1
<1>3. FilesInv'
  BY <1>1 DEF Published
<1>4. BuilderInv'
  BY <1>1 DEF Previous
<1>5. RepeatInv'
  BY <1>1
<1> QED BY <1>2, <1>3, <1>4, <1>5

LEMMA PlanningStartBuild ==
    ASSUME PlanningInv, StartBuild
    PROVE  PlanningInv'
<1> USE DEF PlanningInv, PlansInv, FilesInv, RepeatInv, Epochs
<1>1. /\ UNCHANGED <<epoch, window, collection, selectionState, plans>>
      /\ epoch \in 1..MaxEpoch /\ MaxEpoch \in Nat /\ window \in Windows
  BY PipelineAssumption DEF StartBuild, files, worldVars
<1>2. PlansInv' /\ FilesInv' /\ RepeatInv'
  BY <1>1 DEF Published, Previous
<1>3. BuilderInv'
  <2> DEFINE r == AggregateMarketSelection(window)
             p == BuildStableSelectionPlan(r, epoch, Previous)
  <2>1. builder' = [at |-> "collection", epoch |-> epoch, ranking |-> r, plan |-> p]
    BY DEF StartBuild
  <2>2. Previous' = Previous
    BY <1>1 DEF Previous
  <2>3. collection.epoch <= epoch
    BY <1>1 DEF Published, None
  <2>4. plans[epoch] # None => plans[epoch].members = p
    OBVIOUS
  <2> HIDE DEF r, p
  <2>5. /\ builder'.at = "collection" /\ builder'.epoch = epoch
        /\ builder'.ranking = r /\ builder'.plan = p
    BY <2>1
  <2>6. p = BuildStableSelectionPlan(builder'.ranking, builder'.epoch, Previous')
    BY <2>2, <2>5 DEF p
  <2>7. \E w \in Windows : builder'.ranking = AggregateMarketSelection(w)
    BY <1>1, <2>5 DEF r
  <2>8. builder'.ranking = AggregateMarketSelection(window')
    BY <1>1, <2>5 DEF r
  <2> QED BY <1>1, <2>1, <2>3, <2>4, <2>5, <2>6, <2>7, <2>8 DEF BuilderInv
<1> QED BY <1>2, <1>3

(* A collection that is written again is the one that was there.           *)
LEMMA PlanningWriteCollection ==
    ASSUME PlanningInv, WriteCollection
    PROVE  PlanningInv' /\ Kept
<1> USE DEF PlanningInv, Epochs
<1> DEFINE b == builder.epoch
           new == [epoch |-> b, members |-> builder.plan]
<1>0. /\ builder # NotRunning /\ builder.at = "collection"
      /\ builder = [at |-> builder.at, epoch |-> b,
                    ranking |-> builder.ranking, plan |-> builder.plan]
      /\ builder' = [at |-> "trading", epoch |-> b,
                     ranking |-> builder.ranking, plan |-> builder.plan]
      /\ collection' = new /\ plans' = [plans EXCEPT ![b] = new]
      /\ UNCHANGED <<epoch, window, selectionState>>
  BY DEF WriteCollection, worldVars, NotRunning, BuilderInv
<1>1. /\ epoch \in 1..MaxEpoch /\ MaxEpoch \in Nat /\ b \in 1..epoch /\ b \in 1..MaxEpoch
      /\ collection.epoch <= b
  BY <1>0, PipelineAssumption DEF PlansInv, BuilderInv
<1>2. new # None /\ new.epoch = b /\ new.members = builder.plan
  BY <1>1 DEF None
<1>3. plans[b] # None => plans[b] = new
  BY <1>0, <1>1 DEF PlansInv, BuilderInv
<1>4. /\ plans'[b] = new
      /\ \A e \in 1..MaxEpoch \ {b} : plans'[e] = plans[e]
      /\ plans' = [e \in 1..MaxEpoch |-> plans'[e]]
  BY <1>0, <1>1 DEF PlansInv
<1>5. Kept
  BY <1>3, <1>4 DEF Kept
<1>6. builder.plan = BuildStableSelectionPlan(builder.ranking, b, Previous)
  BY <1>0 DEF BuilderInv
<1>7. Previous' = Previous
  BY <1>0 DEF Previous
<1>8. selectionState # None => \A c \in DOMAIN Previous : Previous[c] \in Nat
  BY DEF FilesInv, PlansInv, CollectionSinceMap, Previous
<1>9. \A c \in DOMAIN builder.plan : builder.plan[c].since \in Nat
  <2>1. \A c \in DOMAIN Previous : Previous[c] \in Nat
    BY <1>8 DEF Previous, NoMembers
  <2> QED BY <1>1, <1>6, <2>1, PlanSince
<1> HIDE DEF new, b
<1>10. PlansInv'
  <2> SUFFICES ASSUME NEW e \in 1..MaxEpoch, plans'[e] # None
               PROVE  /\ e <= epoch
                      /\ plans'[e] = [epoch |-> e, members |-> plans'[e].members]
                      /\ \A c \in DOMAIN plans'[e].members : plans'[e].members[c].since \in Nat
    BY <1>0, <1>1, <1>4 DEF PlansInv
  <2>1. CASE e = b
    BY <1>1, <1>2, <1>4, <1>9, <2>1 DEF new
  <2>2. CASE e # b
    BY <1>4, <2>2 DEF PlansInv
  <2> QED BY <2>1, <2>2
<1>11. FilesInv'
  <2>1. Published(collection)'
    BY <1>0, <1>1, <1>2, <1>4 DEF Published
  <2>2. \A e \in 1..MaxEpoch : plans'[e] # None => e <= collection'.epoch
    <3> SUFFICES ASSUME NEW e \in 1..MaxEpoch, plans'[e] # None PROVE e <= b
      BY <1>0, <1>2
    <3>1. CASE e = b
      BY <1>1, <3>1
    <3>2. CASE e # b
      <4>1. e <= collection.epoch
        BY <1>4, <3>2 DEF FilesInv
      <4>2. collection.epoch \in Int
        BY DEF FilesInv, Published, PlansInv, None
      <4> QED BY <1>1, <4>1, <4>2
    <3> QED BY <3>1, <3>2
  <2>3. selectionState # None =>
          \E e \in 1..MaxEpoch :
             /\ plans'[e] # None
             /\ selectionState = [epoch |-> e, since |-> CollectionSinceMap(plans'[e].members)]
    BY <1>5 DEF FilesInv, Kept
  <2> QED BY <1>0, <2>1, <2>2, <2>3 DEF FilesInv
<1>12. BuilderInv'
  <2>1. /\ builder'.at = "trading" /\ builder'.epoch = b
        /\ builder'.ranking = builder.ranking /\ builder'.plan = builder.plan
    BY <1>0
  <2>2. /\ \E w \in Windows : builder.ranking = AggregateMarketSelection(w)
        /\ b = epoch => builder.ranking = AggregateMarketSelection(window)
    BY <1>0 DEF BuilderInv, b
  <2>3. builder' = [at |-> builder'.at, epoch |-> builder'.epoch,
                    ranking |-> builder'.ranking, plan |-> builder'.plan]
    BY <1>0, <2>1
  <2>4. collection'.epoch = b
    BY <1>0, <1>2
  <2> QED BY <1>0, <1>1, <1>2, <1>4, <1>6, <1>7, <2>1, <2>2, <2>3, <2>4 DEF BuilderInv
<1>13. RepeatInv'
  <2>1. CASE b = epoch
    <3>1. builder.ranking = AggregateMarketSelection(window)
      BY <1>0, <2>1 DEF BuilderInv, b
    <3> QED BY <1>0, <1>2, <1>4, <1>6, <1>7, <2>1, <3>1 DEF RepeatInv
  <2>2. CASE b # epoch
    BY <1>0, <1>1, <1>4, <1>7, <2>2 DEF RepeatInv
  <2> QED BY <2>1, <2>2
<1> QED BY <1>5, <1>10, <1>11, <1>12, <1>13

(* The state of this epoch's plan, from which the next build of the epoch  *)
(* starts, makes the same plan.                                            *)
LEMMA PlanningWriteState ==
    ASSUME PlanningInv, WriteState
    PROVE  PlanningInv'
<1> USE DEF PlanningInv, Epochs
<1> DEFINE b == builder.epoch
           map == CollectionSinceMap(builder.plan)
<1>0. /\ builder # NotRunning /\ builder.at = "state"
      /\ builder' = NotRunning
      /\ selectionState' = [epoch |-> b, since |-> map]
      /\ UNCHANGED <<epoch, window, collection, plans>>
  BY DEF WriteState, worldVars, NotRunning, historyVars
<1>1. /\ epoch \in 1..MaxEpoch /\ b \in 1..epoch /\ b \in 1..MaxEpoch
      /\ plans[b] # None /\ plans[b].members = builder.plan
  BY <1>0, PipelineAssumption DEF PlansInv, BuilderInv
<1>2. Previous' = map
  BY <1>0, <1>1 DEF Previous, None
<1>3. PlansInv' /\ BuilderInv'
  BY <1>0 DEF PlansInv, BuilderInv
<1>4. FilesInv'
  <2>1. /\ \E e \in 1..MaxEpoch :
              /\ plans[e] # None
              /\ selectionState' = [epoch |-> e, since |-> CollectionSinceMap(plans[e].members)]
    BY <1>0, <1>1
  <2> QED BY <1>0, <2>1 DEF FilesInv, Published
<1>5. RepeatInv'
  <2>1. CASE b = epoch
    <3> DEFINE r == AggregateMarketSelection(window)
    <3>1. builder.plan = BuildStableSelectionPlan(r, epoch, Previous)
      BY <1>0, <2>1 DEF BuilderInv
    <3> HIDE DEF r
    <3>2. BuildStableSelectionPlan(r, epoch, map) = builder.plan
      BY <3>1, PlanRepeats
    <3> QED BY <1>0, <1>1, <1>2, <2>1, <3>2 DEF RepeatInv, r
  <2>2. CASE b # epoch
    <3>1. plans[epoch] = None
      <4>1. collection.epoch \in Int /\ collection.epoch <= b
        BY <1>0 DEF BuilderInv, FilesInv, Published, PlansInv, None
      <4>2. plans[epoch] # None => epoch <= collection.epoch
        BY <1>1 DEF FilesInv
      <4> QED BY <1>1, <2>2, <4>1, <4>2
    <3> QED BY <1>0, <3>1 DEF RepeatInv
  <2> QED BY <2>1, <2>2
<1> QED BY <1>3, <1>4, <1>5

LEMMA PlanningWriteCandidates ==
    ASSUME PlanningInv, WriteCandidates
    PROVE  PlanningInv'
<1> USE DEF PlanningInv
<1>1. /\ builder # NotRunning /\ builder.at = "trading"
      /\ UNCHANGED <<epoch, window, collection, selectionState, plans>>
      /\ Previous' = Previous
  BY DEF WriteCandidates, worldVars, historyVars, NotRunning, Previous
<1>2. builder = [at |-> builder.at, epoch |-> builder.epoch,
                 ranking |-> builder.ranking, plan |-> builder.plan]
  BY <1>1 DEF BuilderInv
<1>3. builder' = [at |-> "state", epoch |-> builder.epoch,
                  ranking |-> builder.ranking, plan |-> builder.plan]
  BY <1>2 DEF WriteCandidates
<1>4. /\ builder'.at = "state" /\ builder'.epoch = builder.epoch
      /\ builder'.ranking = builder.ranking /\ builder'.plan = builder.plan
  BY <1>3
<1>5. BuilderInv'
  BY <1>1, <1>3, <1>4 DEF BuilderInv
<1> QED BY <1>1, <1>5 DEF PlansInv, FilesInv, Published, RepeatInv

LEMMA PlanningUnchanged ==
    ASSUME PlanningInv, UNCHANGED planVars
    PROVE  PlanningInv' /\ Kept
BY DEF PlanningInv, PlansInv, FilesInv, Published, BuilderInv, RepeatInv, Previous,
       planVars, Kept

LEMMA PlanningStep ==
    ASSUME PlanningInv, PipelineNext \/ UNCHANGED planVars
    PROVE  PlanningInv' /\ Kept
<1>1. ASSUME NEW w \in Windows, NewEpoch(w) PROVE PlanningInv' /\ Kept
  BY <1>1, PlanningNewEpoch DEF NewEpoch, historyVars, Kept
<1>2. CASE StartBuild
  BY <1>2, PlanningStartBuild DEF StartBuild, Kept
<1>3. CASE WriteCollection
  BY <1>3, PlanningWriteCollection
<1>4. CASE WriteCandidates
  BY <1>4, PlanningWriteCandidates DEF WriteCandidates, historyVars, Kept
<1>5. CASE WriteState
  BY <1>5, PlanningWriteState DEF WriteState, historyVars, Kept
<1>6. CASE KillBuild
  BY <1>6 DEF KillBuild, PlanningInv, PlansInv, FilesInv, Published, BuilderInv,
              RepeatInv, Previous, worldVars, files, historyVars, Kept
<1>7. CASE Scripts \/ UNCHANGED planVars
  BY <1>7, ScriptsLeavePlans, PlanningUnchanged
<1> QED BY <1>1, <1>2, <1>3, <1>4, <1>5, <1>6, <1>7 DEF PipelineNext, Build

-----------------------------------------------------------------------------

(* The figures of the plans, for the lemmas about what is read from them.  *)
LEMMA PlanTypes ==
    ASSUME PlanningInv
    PROVE  /\ epoch \in Nat
           /\ \A e \in Epochs : plans[e] # None => plans[e].epoch = e
           /\ collection.epoch \in Nat /\ selectionState.epoch \in Nat
           /\ collection = None <=> collection.epoch = 0
           /\ selectionState = None <=> selectionState.epoch = 0
           /\ selectionState.epoch <= collection.epoch
           /\ collection # None =>
                 /\ collection.epoch \in Epochs
                 /\ collection = plans[collection.epoch]
                 /\ \A c \in DOMAIN collection.members : collection.members[c].since \in Nat
           /\ selectionState # None =>
                 /\ selectionState.epoch \in Epochs
                 /\ plans[selectionState.epoch] # None
                 /\ selectionState.since =
                      CollectionSinceMap(plans[selectionState.epoch].members)
<1> USE DEF PlanningInv, Epochs
<1>1. /\ epoch \in 1..MaxEpoch /\ MaxEpoch \in Nat
      /\ \A e \in 1..MaxEpoch : plans[e] # None => plans[e].epoch = e
  BY PipelineAssumption DEF PlansInv
<1>2. None.epoch = 0
  BY DEF None
<1>3. ASSUME collection # None
      PROVE  /\ collection.epoch \in 1..MaxEpoch
             /\ collection = plans[collection.epoch]
             /\ \A c \in DOMAIN collection.members : collection.members[c].since \in Nat
  <2>1. PICK e \in 1..MaxEpoch : collection = plans[e]
    BY <1>3 DEF FilesInv, Published
  <2>2. plans[e].epoch = e
    BY <1>1, <1>3, <2>1
  <2> QED BY <1>3, <2>1, <2>2 DEF PlansInv
<1>4. ASSUME selectionState # None
      PROVE  /\ selectionState.epoch \in 1..MaxEpoch
             /\ plans[selectionState.epoch] # None
             /\ selectionState.since = CollectionSinceMap(plans[selectionState.epoch].members)
             /\ selectionState.epoch <= collection.epoch
  <2>1. PICK e \in 1..MaxEpoch :
           /\ plans[e] # None
           /\ selectionState = [epoch |-> e, since |-> CollectionSinceMap(plans[e].members)]
    BY <1>4 DEF FilesInv
  <2>2. selectionState.epoch = e
              /\ selectionState.since = CollectionSinceMap(plans[e].members)
    BY <2>1
  <2> QED BY <2>1, <2>2 DEF FilesInv
<1> QED BY <1>1, <1>2, <1>3, <1>4

(* The history of a market begins no later than the new plan says: it is   *)
(* in the collection that the state was made from, or in that very plan.   *)
LEMMA SinceWriteCollection ==
    ASSUME PlanningInv, SinceInv, WriteCollection
    PROVE  SinceInv'
<1> DEFINE b == builder.epoch
           p == builder.plan
<1>1. /\ builder # NotRunning /\ builder.at = "collection"
      /\ collection' = [epoch |-> b, members |-> p]
      /\ since' = [c \in DOMAIN p |-> IF c \in DOMAIN since THEN since[c] ELSE b]
      /\ lost' = lost /\ builder'.at = "trading" /\ builder' # NotRunning
  BY DEF WriteCollection, NotRunning, PlanningInv, BuilderInv
<1>2. /\ b \in Nat /\ b # 0
      /\ plans[b] # None => plans[b].members = p
      /\ p = BuildStableSelectionPlan(builder.ranking, b, Previous)
  BY <1>1, PlanTypes DEF PlanningInv, BuilderInv
<1> HIDE DEF b, p
<1>3. \A c \in DOMAIN p : p[c].since = IF c \in DOMAIN Previous THEN Previous[c] ELSE b
  BY <1>2, PlanSince
<1>4. collection' # None
  BY <1>1, <1>2 DEF None
<1>5. DOMAIN since' = DOMAIN collection'.members /\ \A c \in DOMAIN since' : since'[c] \in Nat
  BY <1>1, <1>2 DEF SinceInv
<1>6. ASSUME ~lost, NEW c \in DOMAIN p
      PROVE  since'[c] <= p[c].since
  <2>1. CASE collection.epoch = b
    <3>1. collection # None /\ collection = plans[b]
      BY <1>2, <2>1, PlanTypes
    <3>2. DOMAIN since = DOMAIN p /\ collection.members = p
      BY <1>2, <3>1 DEF SinceInv
    <3> QED BY <1>1, <1>6, <3>1, <3>2 DEF SinceInv, CollectedSinceStated
  <2>2. CASE collection.epoch = selectionState.epoch
    <3>1. CASE collection = None
      <4>1. selectionState = None
        BY <2>2, <3>1, PlanTypes
      <4>2. c \notin DOMAIN Previous /\ c \notin DOMAIN since
        BY <3>1, <4>1 DEF Previous, NoMembers, SinceInv
      <4> QED BY <1>1, <1>2, <1>3, <1>6, <4>2
    <3>2. CASE collection # None
      <4>1. /\ selectionState # None
            /\ Previous = CollectionSinceMap(collection.members)
        BY <2>2, <3>2, PlanTypes DEF Previous
      <4>2. /\ DOMAIN Previous = DOMAIN since
            /\ \A d \in DOMAIN since : Previous[d] = collection.members[d].since
        BY <3>2, <4>1 DEF CollectionSinceMap, SinceInv
      <4>3. \A d \in DOMAIN since : since[d] <= collection.members[d].since
        BY <1>6, <3>2 DEF SinceInv, CollectedSinceStated
      <4> QED BY <1>1, <1>2, <1>3, <4>2, <4>3
    <3> QED BY <3>1, <3>2
  <2>3. collection.epoch \in {selectionState.epoch, b}
    BY <1>1, <1>6 DEF SinceInv, b
  <2> QED BY <2>1, <2>2, <2>3
<1>7. CollectedSinceStated'
  BY <1>1, <1>6 DEF CollectedSinceStated
<1> QED BY <1>1, <1>4, <1>5, <1>7 DEF SinceInv

LEMMA SinceStep ==
    ASSUME PlanningInv, SinceInv, PipelineNext \/ UNCHANGED planVars
    PROVE  SinceInv'
<1>1. CASE StartBuild
  <2>1. /\ UNCHANGED <<collection, selectionState, since>>
        /\ builder'.epoch = epoch
        /\ lost' = (lost \/ (selectionState.epoch < collection.epoch /\ collection.epoch < epoch))
    BY <1>1 DEF StartBuild, files
  <2>2. collection.epoch <= epoch
    BY PlanTypes DEF PlanningInv, PlansInv
  <2>3. ~lost' => /\ ~lost
                  /\ ~(selectionState.epoch < collection.epoch /\ collection.epoch < epoch)
    BY <2>1, Zenon
  <2>4. \/ selectionState.epoch < collection.epoch /\ collection.epoch < epoch
        \/ collection.epoch \in {selectionState.epoch, epoch}
    BY <2>2, PlanTypes
  <2> QED BY <2>1, <2>3, <2>4 DEF SinceInv, CollectedSinceStated
<1>2. CASE WriteCollection
  BY <1>2, SinceWriteCollection
<1>3. CASE WriteCandidates
  <2>1. builder'.at = "state"
    BY <1>3 DEF WriteCandidates, PlanningInv, BuilderInv, NotRunning
  <2> QED BY <1>3, <2>1 DEF WriteCandidates, historyVars, SinceInv, CollectedSinceStated
<1>4. CASE WriteState \/ KillBuild
  BY <1>4 DEF WriteState, KillBuild, files, historyVars, SinceInv, CollectedSinceStated
<1>5. ASSUME NEW w \in Windows, NewEpoch(w) PROVE SinceInv'
  BY <1>5 DEF NewEpoch, files, historyVars, SinceInv, CollectedSinceStated
<1>6. CASE Scripts \/ UNCHANGED planVars
  BY <1>6, ScriptsLeavePlans DEF planVars, SinceInv, CollectedSinceStated
<1> QED BY <1>1, <1>2, <1>3, <1>4, <1>5, <1>6 DEF PipelineNext, Build

-----------------------------------------------------------------------------

(* Nothing that was published, or found ready, is ever withdrawn.          *)
LEMMA StaysPublished ==
    ASSUME Kept, NEW file, Published(file)
    PROVE  file # None /\ \E e \in Epochs : file = plans'[e]
BY DEF Kept, Published

LEMMA StaysValid ==
    ASSUME Kept, checkedReady \subseteq checkedReady', NEW p, ValidProfile(p)
    PROVE  /\ \E e \in Epochs : plans'[e] # None /\ p.epoch = e /\ p.members = plans'[e].members
           /\ p.ready \subseteq DOMAIN p.members
           /\ \A c \in p.ready : <<p.epoch, c>> \in checkedReady'
BY DEF Kept, ValidProfile, Passed

(* What is left alone stays as sound as it was.                            *)
LEMMA ScriptsKept ==
    ASSUME Kept, checkedReady \subseteq checkedReady', ScriptsInv
    PROVE  /\ UNCHANGED checker   => CheckerInv'
           /\ UNCHANGED readiness => ReadinessInv'
           /\ UNCHANGED profiler  => ProfilerInv'
           /\ UNCHANGED profile   => ProfileInv'
           /\ UNCHANGED gate      => GateInv'
           /\ UNCHANGED trading   => TradedInv'
<1> USE DEF ScriptsInv
<1>1. UNCHANGED checker => CheckerInv'
  BY StaysPublished DEF CheckerInv, Published
<1>2. UNCHANGED readiness => ReadinessInv'
  BY DEF ReadinessInv, Passed
<1>3. UNCHANGED profiler => ProfilerInv'
  BY StaysPublished DEF ProfilerInv, Published, Passed
<1>4. UNCHANGED profile => ProfileInv'
  BY StaysValid DEF ProfileInv, ValidProfile, Passed
<1>5. UNCHANGED gate => GateInv'
  BY StaysValid DEF GateInv, ValidProfile, Passed
<1>6. UNCHANGED trading => TradedInv'
  BY DEF TradedInv, TradedWasValidated, Kept
<1> QED BY <1>1, <1>2, <1>3, <1>4, <1>5, <1>6

(* Every script carries on what was sound when it read it.                 *)
LEMMA ScriptsStep ==
    ASSUME PlanningInv, ScriptsInv, Kept, Scripts
    PROVE  ScriptsInv'
<1>0. checkedReady \subseteq checkedReady'
  BY DEF Scripts, StartCheck, FinishCheck, StartProfile, ReadReadiness, FinishProfile,
         StartGate, ReadProfile, FinishGate, historyVars
<1> USE ScriptsKept, <1>0 DEF ScriptsInv, files
<1>1. CASE StartCheck
  <2>1. CheckerInv'
    BY <1>1 DEF StartCheck, PlanningInv, FilesInv, Published, CheckerInv, historyVars
  <2> QED BY <1>1, <2>1 DEF StartCheck
<1>2. ASSUME NEW ready \in SUBSET Coins, FinishCheck(ready) PROVE ScriptsInv'
  <2>1. ReadinessInv'
    BY <1>2 DEF FinishCheck, ReadinessInv, Passed
  <2>2. CheckerInv'
    BY <1>2 DEF FinishCheck, CheckerInv
  <2> QED BY <1>2, <2>1, <2>2 DEF FinishCheck
<1>3. CASE StartProfile
  <2>1. profiler' = [at |-> "selection", selection |-> collection]
    BY <1>3 DEF StartProfile
  <2>2. ProfilerInv'
    BY <1>3, <2>1 DEF StartProfile, PlanningInv, FilesInv, Published, ProfilerInv, historyVars
  <2> QED BY <1>3, <2>2 DEF StartProfile
<1>4. CASE ReadReadiness
  <2>1. ProfilerInv'
    <3>1. profiler # NotRunning /\ NotRunning.at = "idle"
      BY <1>4 DEF ReadReadiness, NotRunning
    <3>2. CASE readiness.epoch = profiler.selection.epoch
      <4>1. profiler' = [at |-> "analysing", selection |-> profiler.selection,
                         ready |-> readiness.ready]
        BY <1>4, <3>2 DEF ReadReadiness
      <4>2. Passed(profiler.selection.epoch, readiness.ready) /\ Published(profiler.selection)
        BY <1>4, <3>1, <3>2 DEF ReadReadiness, ReadinessInv, ProfilerInv
      <4> QED BY <1>4, <4>1, <4>2 DEF ReadReadiness, ProfilerInv, Published, Passed, historyVars
    <3>3. CASE readiness.epoch # profiler.selection.epoch
      BY <1>4, <3>1, <3>3 DEF ReadReadiness, ProfilerInv
    <3> QED BY <3>2, <3>3
  <2> QED BY <1>4, <2>1 DEF ReadReadiness
<1>5. CASE FinishProfile
  <2> DEFINE p == BuildExecutionProfile(profiler.selection, profiler.ready)
  <2>1. profiler # NotRunning /\ NotRunning.at = "idle"
    BY <1>5 DEF FinishProfile, NotRunning
  <2>2. /\ Published(profiler.selection)
        /\ Passed(profiler.selection.epoch, profiler.ready)
    BY <1>5, <2>1 DEF FinishProfile, ProfilerInv
  <2>3. /\ p.epoch = profiler.selection.epoch /\ p.members = profiler.selection.members
        /\ p.ready \subseteq profiler.ready /\ p.ready \subseteq DOMAIN p.members
    BY DEF BuildExecutionProfile
  <2> HIDE DEF p
  <2>4. ValidProfile(p)
    BY <2>2, <2>3, PlanTypes DEF ValidProfile, Published, Passed
  <2>5. ProfileInv' /\ ProfilerInv'
    BY <1>5, <2>1, <2>4, StaysValid DEF FinishProfile, ProfileInv, ProfilerInv,
       ValidProfile, Passed, p
  <2> QED BY <1>5, <2>5 DEF FinishProfile
<1>6. CASE StartGate
  <2>1. GateInv'
    BY <1>6 DEF StartGate, GateInv
  <2> QED BY <1>6, <2>1 DEF StartGate
<1>7. ASSUME NEW stale \in BOOLEAN, ReadProfile(stale) PROVE ScriptsInv'
  <2>1. GateInv'
    <3>1. gate' = [at |-> "gating", profile |-> profile] \/ gate' = NotRunning
      BY <1>7 DEF ReadProfile
    <3>2. ValidProfile(profile)
      BY <1>7 DEF ReadProfile, ProfileInv
    <3>3. CASE gate' = NotRunning
      BY <3>3 DEF GateInv, NotRunning
    <3>4. CASE gate' = [at |-> "gating", profile |-> profile]
      BY <3>2, <3>4, StaysValid DEF GateInv, ValidProfile, Passed
    <3> QED BY <3>1, <3>3, <3>4
  <2> QED BY <1>7, <2>1 DEF ReadProfile
<1>8. ASSUME NEW coins \in SUBSET Coins, FinishGate(coins) PROVE ScriptsInv'
  <2> DEFINE p == gate.profile
  <2>1. ValidProfile(p)
    BY <1>8 DEF FinishGate, GateInv
  <2>2. PICK e \in Epochs : plans[e] # None /\ p.epoch = e /\ p.members = plans[e].members
    BY <2>1 DEF ValidProfile
  <2>3. /\ trading' = [epoch |-> p.epoch, validated |-> TRUE, coins |-> coins]
        /\ coins \subseteq Tradeable(p)
        /\ UNCHANGED <<plans, checkedReady>>
    BY <1>8 DEF FinishGate, historyVars
  <2> HIDE DEF p
  <2>4. ASSUME NEW c \in coins
        PROVE  /\ c \in DOMAIN plans[e].members
               /\ plans[e].members[c].rank <= TradingRank
               /\ <<e, c>> \in checkedReady
    BY <2>1, <2>2, <2>3, <2>4 DEF Tradeable, ValidProfile, Passed
  <2>5. TradedInv'
    BY <2>2, <2>3, <2>4 DEF TradedInv, TradedWasValidated
  <2>6. GateInv'
    BY <1>8 DEF FinishGate, GateInv, NotRunning
  <2> QED BY <1>8, <2>5, <2>6 DEF FinishGate
<1> QED BY <1>1, <1>2, <1>3, <1>4, <1>5, <1>6, <1>7, <1>8 DEF Scripts

(* A build touches nothing of this but the candidates, which it marks as   *)
(* not validated.                                                          *)
LEMMA ScriptsInvStep ==
    ASSUME PlanningInv, ScriptsInv, Kept,
           \/ PipelineNext
           \/ UNCHANGED <<checker, profiler, gate, readiness, profile, trading, checkedReady>>
    PROVE  ScriptsInv'
<1> USE DEF files, scriptVars, historyVars
<1>1. CASE WriteCandidates
  <2>1. TradedInv'
    BY <1>1 DEF WriteCandidates, TradedInv, TradedWasValidated
  <2> QED BY <1>1, <2>1, ScriptsKept DEF WriteCandidates, ScriptsInv
<1>2. CASE UNCHANGED <<checker, profiler, gate, readiness, profile, trading, checkedReady>>
  BY <1>2, ScriptsKept DEF ScriptsInv
<1>3. ASSUME \/ \E w \in Windows : NewEpoch(w)
             \/ StartBuild \/ WriteCollection \/ WriteState \/ KillBuild
      PROVE  UNCHANGED <<checker, profiler, gate, readiness, profile, trading, checkedReady>>
  BY <1>3 DEF NewEpoch, StartBuild, WriteCollection, WriteState, KillBuild
<1>4. CASE Scripts
  BY <1>4, ScriptsStep
<1> QED BY <1>1, <1>2, <1>3, <1>4 DEF PipelineNext, Build

-----------------------------------------------------------------------------

LEMMA PipelineInvInit == Init => PipelineInv
<1> SUFFICES ASSUME Init PROVE PipelineInv
  OBVIOUS
<1> USE PipelineAssumption DEF Init, PipelineInit
<1>1. /\ 1 \in Epochs
      /\ \A e \in Epochs : plans[e] = None
      /\ NotRunning.at = "idle"
  BY DEF Epochs, NotRunning
<1>2. PlanningInv
  BY <1>1 DEF PlanningInv, PlansInv, FilesInv, BuilderInv, RepeatInv, Epochs
<1>3. SinceInv
  BY DEF SinceInv, CollectedSinceStated, NoMembers
<1>4. ScriptsInv
  BY <1>1 DEF ScriptsInv, CheckerInv, ReadinessInv, ProfilerInv, ProfileInv, GateInv,
              TradedInv, TradedWasValidated
<1> QED BY <1>2, <1>3, <1>4 DEF PipelineInv

(* To the pipeline a step of the collector is one that starts something.   *)
LEMMA CollectorLeavesPipeline ==
    ASSUME [Next]_vars, ~PipelineNext
    PROVE  /\ UNCHANGED planVars
           /\ UNCHANGED <<checker, profiler, gate, readiness, profile, trading, checkedReady>>
BY DEF Next, Collect, Connect, Disconnect, Refresh, Synced, Unsubscribe, Subscribe,
       PipelineUnchangedBut, planVars, vars, pipelineVars, worldVars, files, scriptVars,
       historyVars

LEMMA PipelineInvStep ==
    ASSUME PipelineInv, [Next]_vars
    PROVE  PipelineInv' /\ Kept
<1> USE DEF PipelineInv
<1>1. PlanningInv' /\ Kept
  BY CollectorLeavesPipeline, PlanningStep
<1>2. SinceInv'
  BY CollectorLeavesPipeline, SinceStep
<1>3. ScriptsInv'
  BY <1>1, CollectorLeavesPipeline, ScriptsInvStep
<1> QED BY <1>1, <1>2, <1>3

LEMMA PipelineInvHolds == Spec => []PipelineInv
BY PipelineInvInit, PipelineInvStep, PTL DEF Spec

(* CollectedSinceStated: unless a killed build was not repeated, a market  *)
(* has been in every collection since the time that its warm-up counts     *)
(* from.                                                                   *)
THEOREM CollectedSinceHolds == Spec => []CollectedSinceStated
<1>1. PipelineInv => CollectedSinceStated
  BY DEF PipelineInv, SinceInv
<1> QED BY <1>1, PipelineInvHolds, PTL

(* TradedWasValidated: for whatever interleaving of the scripts, a         *)
(* validated universe names markets of its own epoch's plan that passed a  *)
(* readiness check of that epoch.                                          *)
THEOREM TradedAreValidated == Spec => []TradedWasValidated
<1>1. PipelineInv => TradedWasValidated
  BY DEF PipelineInv, ScriptsInv, TradedInv
<1> QED BY <1>1, PipelineInvHolds, PTL

(* OnePlanPerEpoch: builds may be killed and repeated within an epoch as   *)
(* often as they like, its plan stays the same.                            *)
THEOREM OnePlanHolds == Spec => OnePlanPerEpoch
<1>1. PipelineInv /\ [Next]_vars =>
        [\A e \in 1..MaxEpoch : plans[e] # None => plans'[e] = plans[e]]_pipelineVars
  BY PipelineInvStep DEF Kept, Epochs
<1> QED BY <1>1, PipelineInvHolds, PTL DEF Spec, OnePlanPerEpoch

(* A new collection lets go of a market of the old one only if it is not   *)
(* ranked high enough to be retained.                                      *)
LEMMA LetGo ==
    ASSUME PipelineInv, WriteCollection, collection # None, ~lost,
           collection' # collection,
           NEW c \in DOMAIN collection.members \ DOMAIN collection'.members,
           NEW i \in DOMAIN builder.ranking, builder.ranking[i] = c
    PROVE  i > RetentionRank
<1> USE DEF PipelineInv, PlanningInv
<1> DEFINE b == builder.epoch
           r == builder.ranking
<1>1. /\ builder # NotRunning /\ builder.at = "collection"
      /\ collection' = [epoch |-> b, members |-> builder.plan]
  BY DEF WriteCollection, NotRunning
<1>2. /\ plans[b] # None => plans[b].members = builder.plan
      /\ builder.plan = BuildStableSelectionPlan(r, b, Previous)
      /\ collection.epoch \in {selectionState.epoch, b}
      /\ \E w \in Windows : r = AggregateMarketSelection(w)
  BY <1>1 DEF BuilderInv, SinceInv
<1>3. collection.epoch # b
  <2> SUFFICES ASSUME collection.epoch = b PROVE FALSE
    OBVIOUS
  <2>1. b \in Epochs /\ collection = plans[b] /\ plans[b] # None
    BY PlanTypes
  <2>2. plans[b] = [epoch |-> b, members |-> builder.plan]
    BY <1>2, <2>1 DEF PlansInv
  <2> QED BY <1>1, <2>1, <2>2
<1>4. c \in DOMAIN Previous
  <2>1. selectionState # None /\ Previous = CollectionSinceMap(collection.members)
    BY <1>2, <1>3, PlanTypes DEF Previous
  <2> QED BY <2>1 DEF CollectionSinceMap
<1> HIDE DEF r, b
<1>5. /\ DOMAIN r \subseteq Nat
      /\ \A j \in DOMAIN r : r[j] = r[i] => j = i
      /\ i \in DOMAIN r /\ r[i] = c
  <2>1. PICK w \in Windows : r = AggregateMarketSelection(w)
    BY <1>2
  <2>2. DOMAIN r \subseteq Nat /\ IsInjective(r)
    BY <2>1, RankedOnce
  <2> QED BY <2>2 DEF IsInjective, r
<1>6. (CHOOSE j \in DOMAIN r : r[j] = c) = i
  BY <1>5
<1>7. c \notin Selected(r, Previous)
  BY <1>1, <1>2 DEF BuildStableSelectionPlan
<1>8. c \in ToSet(r)
  BY <1>5 DEF ToSet
<1>9. ~(i <= RetentionRank)
  BY <1>4, <1>6, <1>7, <1>8 DEF Selected
<1> QED BY <1>5, <1>9, SelectionAssumption

(* PlansAreStable: a market leaves the collection only when it fell beyond *)
(* the retention rank, and the plan of an epoch stays the same.            *)
THEOREM PlansStayStable == Spec => PlansAreStable
<1> DEFINE Leaves ==
      collection' # collection /\ collection # None /\ ~lost =>
         \A c \in DOMAIN collection.members \ DOMAIN collection'.members :
            \A i \in DOMAIN builder.ranking :
               builder.ranking[i] = c => i > RetentionRank
<1>1. PipelineInv /\ [Next]_vars => [Leaves]_pipelineVars
  <2> SUFFICES ASSUME PipelineInv, [Next]_vars, collection' # collection,
                      collection # None, ~lost
               PROVE  Leaves
    OBVIOUS
  <2>1. PipelineNext
    BY CollectorLeavesPipeline DEF planVars
  <2>2. WriteCollection
    BY <2>1 DEF PipelineNext, Build, NewEpoch, StartBuild, WriteCandidates, WriteState,
       KillBuild, Scripts, StartCheck, FinishCheck, StartProfile, ReadReadiness,
       FinishProfile, StartGate, ReadProfile, FinishGate, files
  <2> QED BY <2>2, LetGo
<1>2. Spec => LeavesOnlyBelowRetention
  BY <1>1, PipelineInvHolds, PTL DEF Spec, LeavesOnlyBelowRetention
<1> QED BY <1>2, OnePlanHolds DEF PlansAreStable

-----------------------------------------------------------------------------

LEMMA LoadedIsUniverse == ASSUME PlanningInv PROVE LoadUniverseCoins \in Universes
BY DEF PlanningInv, FilesInv, Published, LoadUniverseCoins, CoinsOf, Universes

LEMMA UniversesStay == ASSUME Kept PROVE Universes \subseteq Universes'
<1>1. ASSUME NEW e \in Epochs PROVE CoinsOf(plans[e]) \in Universes'
  <2>1. CASE plans[e] = None
    BY <2>1 DEF Universes, CoinsOf
  <2>2. CASE plans[e] # None
    BY <2>2 DEF Universes, Kept, CoinsOf
  <2> QED BY <2>1, <2>2
<1> QED BY <1>1 DEF Universes

LEMMA StreamStep ==
    ASSUME PlanningInv, StreamInv, Kept, [Next]_vars
    PROVE  StreamInv'
<1> USE DEF StreamInv, Asleep
<1>0. Universes \subseteq Universes' /\ LoadUniverseCoins \in Universes
  BY UniversesStay, LoadedIsUniverse
<1>1. CASE UNCHANGED collectorVars
  BY <1>0, <1>1 DEF collectorVars, syncVars
<1>2. CASE Connect
  <2>1. /\ connection' = "open" /\ syncing = FALSE /\ UNCHANGED <<syncing, removed, added, unsent>>
        /\ active' = LoadUniverseCoins /\ subscribed' = LoadUniverseCoins
        /\ removed = {} /\ added = {} /\ unsent = {}
    BY <1>2 DEF Connect, syncVars
  <2> QED BY <1>0, <2>1
<1>3. CASE Disconnect
  BY <1>3 DEF Disconnect
<1>4. CASE Refresh
  <2> DEFINE L == LoadUniverseCoins
  <2>1. /\ connection = "open" /\ connection' = "open" /\ syncing' = TRUE
        /\ removed' = active \ L /\ added' = L \ active /\ unsent' = removed' \cup added'
        /\ active' = active /\ subscribed' = subscribed
        /\ removed = {} /\ added = {} /\ unsent = {} /\ subscribed = active
    BY <1>4 DEF Refresh
  <2> HIDE DEF L
  <2>2. (active' \ removed') \cup added' = L
    BY <2>1
  <2>3. subscribed' = (active' \ (removed' \ unsent')) \cup (added' \ unsent')
    BY <2>1
  <2> QED BY <1>0, <2>1, <2>2, <2>3 DEF L
<1>5. ASSUME NEW c \in Coins, Unsubscribe(c) PROVE StreamInv'
  <2>1. /\ connection = "open" /\ syncing /\ c \in unsent /\ c \in removed
        /\ unsent' = unsent \ {c} /\ subscribed' = subscribed \ {c}
        /\ UNCHANGED <<connection, active, syncing, removed, added>>
    BY <1>5 DEF Unsubscribe
  <2>2. c \notin added
    BY <2>1
  <2>3. subscribed' = (active \ (removed \ unsent')) \cup (added \ unsent')
    BY <2>1, <2>2
  <2> QED BY <1>0, <2>1, <2>3
<1>6. ASSUME NEW c \in Coins, Subscribe(c) PROVE StreamInv'
  <2>1. /\ connection = "open" /\ syncing /\ c \in unsent /\ unsent \cap removed = {}
        /\ unsent' = unsent \ {c} /\ subscribed' = subscribed \cup {c}
        /\ UNCHANGED <<connection, active, syncing, removed, added>>
    BY <1>6 DEF Subscribe
  <2>2. c \in added /\ c \notin removed
    BY <2>1
  <2>3. subscribed' = (active \ (removed \ unsent')) \cup (added \ unsent')
    BY <2>1, <2>2
  <2> QED BY <1>0, <2>1, <2>3
<1>7. CASE Synced
  BY <1>0, <1>7 DEF Synced
<1> QED BY <1>1, <1>2, <1>3, <1>4, <1>5, <1>6, <1>7 DEF Next, Collect, vars

(* StreamsTheCollection: between refreshes the subscriptions are those of  *)
(* a collection that was published, during one they are on the way from    *)
(* one such collection to another, whenever connections are lost and files *)
(* replaced.                                                               *)
THEOREM StreamsHold == Spec => []StreamsTheCollection
<1>1. Init => StreamInv
  BY DEF Init, StreamInv
<1>2. PipelineInv /\ StreamInv /\ [Next]_vars => StreamInv'
  BY PipelineInvStep, StreamStep DEF PipelineInv
<1>3. StreamInv => StreamsTheCollection
  BY DEF StreamInv, StreamsTheCollection, Universes, Epochs
<1> QED BY <1>1, <1>2, <1>3, PipelineInvHolds, PTL DEF Spec
=============================================================================
