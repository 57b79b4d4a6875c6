---------------------------- MODULE ScannerProofs ---------------------------
(***************************************************************************)
(* The scanner feeds the engine every snapshot at most once and in order,  *)
(* and what the engine tells of a market is what all the rows it was fed   *)
(* say, for any markets, windows and volumes, any length of a day, any     *)
(* number of replayed files and any jumps of the collector's clock.        *)
(*                                                                         *)
(* What was fed or skipped are the marked snapshots.  In every file they   *)
(* are the first ones; they lie before the files still to be replayed, and *)
(* not after the file the scanner follows, where they end at its offset.   *)
(*                                                                         *)
(* The window of a market holds the moves since its last gap: Fits says    *)
(* how the row the tracker keeps and the history the window keeps hang     *)
(* together with the rows of the market.  It holds after every snapshot,   *)
(* hence after a file, and the sums of the window are those of the moves.  *)
(***************************************************************************)
EXTENDS UniverseScanner, ArithmeticProofs, SequenceTheorems, TLAPS

Listed(s) == s \in Seq({s[i] : i \in DOMAIN s})

Marked == ToSet(fed) \cup skipped

ScanType ==
    /\ clock \in Int
    /\ IsFiniteSet(Days) /\ Days \subseteq Int
    /\ files = [d \in Days |-> files[d]]
    /\ \A d \in Days : Listed(files[d])
    /\ pc \in {"start", "replay", "size", "poll", "read"}
    /\ todo \in SUBSET Days
    /\ current \in Int
    /\ offset \in Nat
    /\ fed \in Seq(Int \X Nat)
    /\ skipped \in SUBSET (Int \X Nat)

Before(p, q) == p[1] < q[1] \/ (p[1] = q[1] /\ p[2] < q[2])

FedInOrder == \A m, n \in DOMAIN fed : m < n => Before(fed[m], fed[n])

MarksArePrefixes ==
    \A p \in Marked : /\ p[1] \in Days
                      /\ p[2] \in 1 .. Len(files[p[1]])
                      /\ \A i \in 1 .. p[2] : <<p[1], i>> \in Marked

ScanPlace ==
    /\ pc = "start" => fed = <<>>
    /\ pc \in {"start", "replay", "size"} => skipped = {}
    /\ \A d \in todo, p \in Marked : p[1] < d
    /\ pc \in {"size", "poll", "read"} =>
          /\ todo = {} /\ current \in Days
          /\ \A p \in Marked : p[1] <= current
    /\ pc \in {"poll", "read"} =>
          /\ offset <= Len(files[current])
          /\ \A p \in Marked : p[1] = current => p[2] <= offset
          /\ \A i \in 1 .. offset : <<current, i>> \in Marked

ScanInv == ScanType /\ FedInOrder /\ MarksArePrefixes /\ ScanPlace

-----------------------------------------------------------------------------
(* Sequences and finite sets of days.                                      *)

LEMMA ListedLen ==
    ASSUME NEW s, Listed(s)
    PROVE  Len(s) \in Nat /\ DOMAIN s = 1 .. Len(s)
BY DEF Listed

LEMMA ListedConcat ==
    ASSUME NEW s, NEW t, Listed(s), Listed(t)
    PROVE  Listed(s \o t) /\ Len(s \o t) = Len(s) + Len(t)
<1> DEFINE S == {s[i] : i \in DOMAIN s}
           T == {t[i] : i \in DOMAIN t}
           U == {(s \o t)[i] : i \in DOMAIN (s \o t)}
<1>1. s \in Seq(S \cup T) /\ t \in Seq(S \cup T)
  BY DEF Listed
<1>2. s \o t \in Seq(S \cup T) /\ Len(s \o t) = Len(s) + Len(t)
  BY <1>1
<1>3. s \o t \in Seq(U)
  <2> DEFINE u == s \o t
  <2> HIDE DEF u, S, T
  <2>1. u \in Seq(S \cup T)
    BY <1>2 DEF u
  <2>2. Len(u) \in Nat /\ DOMAIN u = 1 .. Len(u)
    BY <2>1, LenProperties
  <2>3. \A i \in 1 .. Len(u) : u[i] \in {u[j] : j \in DOMAIN u}
    BY <2>2
  <2>4. u = [i \in 1 .. Len(u) |-> u[i]]
    BY <2>1, SeqDef
  <2>5. u \in Seq({u[i] : i \in DOMAIN u})
    BY <2>2, <2>3, <2>4, IsASeq
  <2> QED BY <2>5 DEF u
<1> QED BY <1>2, <1>3 DEF Listed

(* A finite set of days has a last one.                                    *)
LEMMA LastDay ==
    ASSUME NEW D, IsFiniteSet(D), D \subseteq Int, D # {}
    PROVE  \E d \in D : \A e \in D : e <= d
<1> DEFINE Good == {T \in SUBSET D : T # {} => \E d \in T : \A e \in T : e <= d}
<1>1. ASSUME NEW T \in SUBSET D, \A U \in SUBSET T : U # T => U \in Good
      PROVE  T \in Good
  <2>1. CASE T = {}
    BY <2>1
  <2>2. CASE T # {}
    <3>1. PICK x \in T : TRUE
      BY <2>2
    <3>2. T \ {x} \in Good
      BY <1>1, <3>1
    <3>3. CASE T \ {x} = {}
      BY <3>1, <3>3
    <3>4. CASE T \ {x} # {}
      <4>1. PICK d \in T \ {x} : \A e \in T \ {x} : e <= d
        BY <3>2, <3>4
      <4>2. CASE x <= d
        BY <4>1, <4>2
      <4>3. CASE ~(x <= d)
        <5>1. \A e \in T : e <= x
          BY <4>1, <4>3, <3>1
        <5> QED BY <5>1, <3>1
      <4> QED BY <4>2, <4>3
    <3> QED BY <3>3, <3>4
  <2> QED BY <2>1, <2>2
<1>2. D \in Good
  <2> HIDE DEF Good
  <2> QED BY <1>1, FiniteInduction
<1> QED BY <1>2

(* A set of the first positions is given by how many they are.             *)
LEMMA FirstOnes ==
    ASSUME NEW n \in Nat, NEW S \in SUBSET (1 .. n),
           \A j \in S : \A i \in 1 .. j : i \in S
    PROVE  \E k \in 0 .. n : S = 1 .. k
<1>1. CASE S = {}
  BY <1>1
<1>2. CASE S # {}
  <2>i. IsFiniteSet(1 .. n)
    BY FS_Interval
  <2>f. IsFiniteSet(S)
    BY <2>i, FS_Subset
  <2>s. S \subseteq Int
    OBVIOUS
  <2>1. IsFiniteSet(S) /\ S \subseteq Int
    BY <2>f, <2>s
  <2>2. PICK k \in S : \A e \in S : e <= k
    BY <2>1, <1>2, LastDay
  <2>3. k \in 1 .. n
    OBVIOUS
  <2>4. \A e \in S : e \in 1 .. k
    BY <2>2, <2>s
  <2>5. \A i \in 1 .. k : i \in S
    OBVIOUS
  <2>6. S = 1 .. k
    BY <2>4, <2>5
  <2> QED BY <2>3, <2>6
<1> QED BY <1>1, <1>2

LEMMA CountsFirst ==
    ASSUME NEW k \in Nat
    PROVE  Cardinality(1 .. k) = k
BY FS_Interval, 1 \in Int, k \in Int

-----------------------------------------------------------------------------
(* The newest file, which the scanner looks for on every poll.             *)

LEMMA NewestFile ==
    ASSUME ScanType, NEW day \in Days, Newer(day) # {}
    PROVE  LET next == CHOOSE d \in Days : Newer(d) = {}
           IN next \in Days /\ next > day
<1> DEFINE next == CHOOSE d \in Days : Newer(d) = {}
<1>1. PICK d \in Days : \A e \in Days : e <= d
  BY LastDay DEF ScanType
<1>2. Newer(d) = {}
  BY <1>1 DEF Newer, ScanType
<1>3. next \in Days /\ Newer(next) = {}
  BY <1>1, <1>2
<1>4. PICK e \in Days : e > day
  BY DEF Newer
<1>5. e <= next
  BY <1>3, <1>4 DEF Newer, ScanType
<1> QED BY <1>3, <1>4, <1>5 DEF ScanType

(* What a part of a file adds to the marks.                                *)
Part(day, from) == {<<day, i>> : i \in from .. Len(files[day])}

LEMMA FeedMarks ==
    ASSUME ScanType, NEW day \in Days, NEW from \in 1 .. Len(files[day]) + 1,
           Feed(day, from)
    PROVE  /\ fed' \in Seq(Int \X Nat)
           /\ Len(fed') = Len(fed) + Len(files[day]) - from + 1
           /\ \A n \in 1 .. Len(fed) : fed'[n] = fed[n]
           /\ \A n \in Len(fed) + 1 .. Len(fed') :
                 fed'[n] = <<day, from + (n - Len(fed)) - 1>>
           /\ ToSet(fed') = ToSet(fed) \cup Part(day, from)
<1> DEFINE k == Len(files[day]) - from + 1
           t == [i \in 1 .. k |-> <<day, from + i - 1>>]
<1>0. Len(files[day]) \in Nat /\ day \in Int
  BY ListedLen DEF ScanType
<1>1. k \in Nat
  BY <1>0
<1>2. t \in Seq(Int \X Nat) /\ Len(t) = k
  <2>1. \A i \in 1 .. k : <<day, from + i - 1>> \in Int \X Nat
    BY <1>0, <1>1
  <2> QED BY <1>1, <2>1
<1>3. fed' = fed \o t
  BY DEF Feed
<1>c. \A i \in 1 .. Len(fed) + Len(t) :
         (fed \o t)[i] = IF i <= Len(fed) THEN fed[i] ELSE t[i - Len(fed)]
  <2> HIDE DEF t
  <2> QED BY <1>2, ConcatProperties DEF ScanType
<1>f. fed \in Seq(Int \X Nat) /\ Len(fed) \in Nat /\ DOMAIN fed = 1 .. Len(fed)
  BY DEF ScanType
<1>h. \A i \in 1 .. k : t[i] = <<day, from + i - 1>>
  OBVIOUS
<1> HIDE DEF t
<1>4. /\ fed' \in Seq(Int \X Nat)
      /\ Len(fed') = Len(fed) + k
      /\ DOMAIN fed' = 1 .. Len(fed')
  <2>1. fed \o t \in Seq(Int \X Nat) /\ Len(fed \o t) = Len(fed) + Len(t)
    BY <1>2, <1>f, ConcatProperties
  <2> QED BY <2>1, <1>2, <1>3, LenProperties
<1>g. \A i \in 1 .. Len(fed) + k : fed'[i] = IF i <= Len(fed) THEN fed[i] ELSE t[i - Len(fed)]
  BY <1>2, <1>3, <1>c
<1>5. \A n \in 1 .. Len(fed) : fed'[n] = fed[n]
  <2> TAKE n \in 1 .. Len(fed)
  <2>1. n \in 1 .. Len(fed) + k /\ n <= Len(fed)
    <3> HIDE DEF k
    <3> QED BY <1>1, <1>f
  <2> QED BY <2>1, <1>g
<1>6. \A n \in Len(fed) + 1 .. Len(fed') : fed'[n] = <<day, from + (n - Len(fed)) - 1>>
  <2> TAKE n \in Len(fed) + 1 .. Len(fed')
  <2>1. n - Len(fed) \in 1 .. k
    BY <1>1, <1>4, <1>f
  <2>2. fed'[n] = t[n - Len(fed)]
    <3>1. n \in 1 .. Len(fed) + k /\ ~(n <= Len(fed))
      <4> HIDE DEF k
      <4> QED BY <1>1, <1>4, <1>f
    <3> QED BY <3>1, <1>g
  <2> QED BY <2>1, <2>2, <1>h
<1>7. ToSet(fed') = ToSet(fed) \cup Part(day, from)
  <2>1. ASSUME NEW p \in ToSet(fed') PROVE p \in ToSet(fed) \cup Part(day, from)
    <3>1. PICK n \in 1 .. Len(fed') : p = fed'[n]
      BY <1>4 DEF ToSet
    <3>2. CASE n <= Len(fed)
      <4>1. n \in 1 .. Len(fed) /\ p = fed[n]
        BY <3>1, <3>2, <1>5, <1>f
      <4> QED BY <4>1, <1>f DEF ToSet
    <3>3. CASE n > Len(fed)
      <4>1. p = <<day, from + (n - Len(fed)) - 1>>
        BY <3>1, <3>3, <1>6, <1>f
      <4>2. from + (n - Len(fed)) - 1 \in from .. Len(files[day])
        BY <3>1, <3>3, <1>0, <1>1, <1>4, <1>f
      <4> QED BY <4>1, <4>2 DEF Part
    <3> QED BY <3>2, <3>3, <1>f
  <2>2. ASSUME NEW p \in ToSet(fed) PROVE p \in ToSet(fed')
    <3>1. PICK n \in 1 .. Len(fed) : p = fed[n]
      BY <2>2, <1>f DEF ToSet
    <3>2. n \in DOMAIN fed' /\ fed'[n] = p
      <4>1. fed'[n] = p
        BY <3>1, <1>5
      <4>2. n \in 1 .. Len(fed) + k
        <5> HIDE DEF k
        <5> QED BY <1>1, <1>f
      <4> QED BY <4>1, <4>2, <1>4
    <3> QED BY <3>2 DEF ToSet
  <2>3. ASSUME NEW i \in from .. Len(files[day]) PROVE <<day, i>> \in ToSet(fed')
    <3> DEFINE n == Len(fed) + (i - from + 1)
    <3>1. n \in Len(fed) + 1 .. Len(fed') /\ from + (n - Len(fed)) - 1 = i
      <4>1. /\ i \in Int /\ from <= i /\ i <= Len(files[day])
            /\ Len(fed') = Len(fed) + Len(files[day]) - from + 1
        BY <2>3, <1>0, <1>1, <1>4, <1>f
      <4> QED BY <4>1, <1>0, <1>1, <1>f
    <3>2. n \in DOMAIN fed'
      BY <3>1, <1>4, <1>f
    <3>3. fed'[n] = <<day, i>>
      BY <3>1, <1>6
    <3> QED BY <3>2, <3>3 DEF ToSet
  <2> QED BY <2>1, <2>2, <2>3 DEF Part
<1> QED BY <1>1, <1>4, <1>5, <1>6, <1>7, <1>0, <1>f

(* A part that follows everything fed before keeps the order.              *)
LEMMA FeedKeepsOrder ==
    ASSUME ScanType, FedInOrder, NEW day \in Days,
           NEW from \in 1 .. Len(files[day]) + 1, Feed(day, from),
           \A p \in ToSet(fed) : p[1] < day \/ (p[1] = day /\ p[2] < from)
    PROVE  FedInOrder'
<1>0. Len(files[day]) \in Nat /\ day \in Int
  BY ListedLen DEF ScanType
<1>f. fed \in Seq(Int \X Nat) /\ Len(fed) \in Nat /\ DOMAIN fed = 1 .. Len(fed)
  BY DEF ScanType
<1>1. /\ fed' \in Seq(Int \X Nat)
      /\ Len(fed') = Len(fed) + Len(files[day]) - from + 1
      /\ \A n \in 1 .. Len(fed) : fed'[n] = fed[n]
      /\ \A n \in Len(fed) + 1 .. Len(fed') :
            fed'[n] = <<day, from + (n - Len(fed)) - 1>>
  BY FeedMarks
<1>2. DOMAIN fed' = 1 .. Len(fed') /\ Len(fed') \in Nat
  BY <1>1
<1> SUFFICES ASSUME NEW m \in DOMAIN fed', NEW n \in DOMAIN fed', m < n
             PROVE  Before(fed'[m], fed'[n])
  BY DEF FedInOrder
<1>3. CASE n <= Len(fed)
  <2>1. m \in DOMAIN fed /\ n \in DOMAIN fed
    BY <1>2, <1>3, <1>f
  <2>2. fed'[m] = fed[m] /\ fed'[n] = fed[n]
    BY <2>1, <1>1, <1>f
  <2> QED BY <2>1, <2>2 DEF FedInOrder
<1>4. CASE n > Len(fed)
  <2>1. fed'[n] = <<day, from + (n - Len(fed)) - 1>>
    <3>1. n \in Len(fed) + 1 .. Len(fed')
      BY <1>2, <1>4, <1>f
    <3> QED BY <3>1, <1>1
  <2>2. CASE m <= Len(fed)
    <3>1. m \in DOMAIN fed /\ fed'[m] = fed[m] /\ fed[m] \in ToSet(fed) /\ fed[m] \in Int \X Nat
      <4>1. m \in DOMAIN fed
        BY <1>2, <2>2, <1>f
      <4>2. fed[m] \in Int \X Nat
        BY <4>1, <1>f
      <4>3. fed[m] \in ToSet(fed)
        BY <4>1 DEF ToSet
      <4> QED BY <1>1, <1>f, <4>1, <4>2, <4>3
    <3>2. fed[m][1] < day \/ (fed[m][1] = day /\ fed[m][2] < from)
      BY <3>1
    <3>3. from <= from + (n - Len(fed)) - 1
      BY <1>0, <1>2, <1>4, <1>f
    <3>4. fed[m][2] < from => fed[m][2] < from + (n - Len(fed)) - 1
      BY <3>3, <3>1, <1>0, <1>2, <1>f
    <3> QED BY <2>1, <3>1, <3>2, <3>4 DEF Before
  <2>3. CASE m > Len(fed)
    <3>1. fed'[m] = <<day, from + (m - Len(fed)) - 1>>
      <4>1. m \in Len(fed) + 1 .. Len(fed')
        BY <1>2, <2>3, <1>f
      <4> QED BY <4>1, <1>1
    <3>2. from + (m - Len(fed)) - 1 < from + (n - Len(fed)) - 1
      BY <1>0, <1>2, <1>f
    <3> QED BY <2>1, <3>1, <3>2 DEF Before
  <2> QED BY <2>2, <2>3, <1>2, <1>f
<1> QED BY <1>3, <1>4, <1>2, <1>f

-----------------------------------------------------------------------------
(* The steps.                                                              *)

LEMMA ScanInit == Init => ScanInv
<1> SUFFICES ASSUME Init PROVE ScanInv
  OBVIOUS
<1>1. Days = {}
  BY DEF Init, Days
<1>2. IsFiniteSet({})
  BY FS_EmptySet
<1>3. fed = <<>> /\ skipped = {} /\ Marked = {}
  BY DEF Init, Marked, ToSet
<1>4. files = [d \in Days |-> files[d]]
  BY <1>1 DEF Init
<1>5. ScanType
  BY <1>1, <1>2, <1>3, <1>4 DEF Init, ScanType
<1>6. FedInOrder
  BY <1>3 DEF FedInOrder
<1>7. MarksArePrefixes /\ ScanPlace
  BY <1>3 DEF Init, MarksArePrefixes, ScanPlace
<1> QED BY <1>5, <1>6, <1>7 DEF ScanInv

(* The collector only adds files and lengthens them.                       *)
LEMMA CollectGrows ==
    ASSUME ScanType, Collect
    PROVE  /\ clock' \in Int
           /\ IsFiniteSet(Days') /\ Days' \subseteq Int
           /\ Days \subseteq Days'
           /\ files' = [d \in Days' |-> files'[d]]
           /\ \A d \in Days' : Listed(files'[d])
           /\ \A d \in Days : Len(files[d]) <= Len(files'[d])
<1>1. PICK step \in Steps, listed \in SUBSET Coins :
          LET ts == clock + step
              day == ts \div DayLength
              rows == [c \in listed |-> [ts |-> ts, volume |-> VolumeAt[ts]]]
          IN /\ ts \in DOMAIN VolumeAt
             /\ clock' = ts
             /\ files' = [d \in Days \union {day} |->
                            (IF d \in Days THEN files[d] ELSE <<>>)
                              \o (IF d = day THEN <<rows>> ELSE <<>>)]
  BY DEF Collect
<1> DEFINE ts == clock + step
           day == ts \div DayLength
           rows == [c \in listed |-> [ts |-> ts, volume |-> VolumeAt[ts]]]
           old(d) == IF d \in Days THEN files[d] ELSE <<>>
           new(d) == IF d = day THEN <<rows>> ELSE <<>>
<1>2. ts \in Int /\ day \in Int
  <2>1. clock \in Int /\ step \in Int /\ DayLength \in Nat \ {0}
    BY ScannerAssumption DEF ScanType
  <2> HIDE DEF rows
  <2> QED BY <2>1
<1> HIDE DEF rows, ts
<1>3. files' = [d \in Days \union {day} |-> old(d) \o new(d)]
  BY <1>1 DEF rows, ts
<1> HIDE DEF day
<1>4. Days' = Days \union {day}
  BY <1>3 DEF Days
<1>5. IsFiniteSet(Days') /\ Days' \subseteq Int /\ Days \subseteq Days'
  BY <1>2, <1>4, FS_AddElement DEF ScanType
<1>6. Listed(<<>>) /\ Listed(<<rows>>) /\ Len(<<>>) = 0
  BY DEF Listed
<1>7. ASSUME NEW d \in Days'
      PROVE  Listed(files'[d]) /\ (d \in Days => Len(files[d]) <= Len(files'[d]))
  <2>1. Listed(old(d)) /\ Listed(new(d))
    BY <1>6 DEF ScanType
  <2>2. files'[d] = old(d) \o new(d)
    BY <1>3, <1>4
  <2> HIDE DEF old, new
  <2>3. Listed(files'[d]) /\ Len(files'[d]) = Len(old(d)) + Len(new(d))
    BY <2>1, <2>2, ListedConcat
  <2>4. Len(old(d)) \in Nat /\ Len(new(d)) \in Nat
    BY <2>1, ListedLen
  <2>5. d \in Days => old(d) = files[d]
    BY DEF old
  <2> QED BY <2>3, <2>4, <2>5
<1>8. files' = [d \in Days' |-> files'[d]]
  BY <1>3, <1>4
<1>9. clock' \in Int
  BY <1>1, <1>2 DEF ts
<1> QED BY <1>5, <1>7, <1>8, <1>9

LEMMA CollectKeeps == ASSUME ScanInv, Collect PROVE ScanInv'
<1>0. ScanType
  BY DEF ScanInv
<1>1. /\ clock' \in Int
      /\ IsFiniteSet(Days') /\ Days' \subseteq Int
      /\ Days \subseteq Days'
      /\ files' = [d \in Days' |-> files'[d]]
      /\ \A d \in Days' : Listed(files'[d])
      /\ \A d \in Days : Len(files[d]) <= Len(files'[d])
  BY <1>0, CollectGrows
<1>2. UNCHANGED scannerVars
  BY DEF Collect
<1>3. Marked' = Marked
  BY <1>2 DEF scannerVars, Marked, ToSet
<1>4. ScanType'
  BY <1>0, <1>1, <1>2 DEF ScanType, scannerVars
<1>5. FedInOrder'
  BY <1>2 DEF ScanInv, FedInOrder, scannerVars
<1>6. \A d \in Days : Len(files[d]) \in Nat /\ Len(files'[d]) \in Nat
  BY <1>0, <1>1, ListedLen DEF ScanType
<1>7. MarksArePrefixes'
  BY <1>1, <1>3, <1>6 DEF ScanInv, MarksArePrefixes
<1>8. ScanPlace'
  BY <1>1, <1>2, <1>3, <1>6, <1>0 DEF ScanInv, ScanPlace, ScanType, scannerVars
<1> QED BY <1>4, <1>5, <1>7, <1>8 DEF ScanInv

LEMMA StartKeeps == ASSUME ScanInv, Start PROVE ScanInv'
<1>1. Days' = Days /\ files' = files /\ Marked' = Marked /\ fed' = fed
  BY DEF Start, Marked, Days, ToSet, collectorVars
<1>2. Marked = {}
  BY DEF ScanInv, ScanPlace, Start, Marked, ToSet
<1>3. ScanType'
  BY <1>1 DEF ScanInv, ScanType, Start, collectorVars
<1>4. FedInOrder' /\ MarksArePrefixes'
  BY <1>1 DEF ScanInv, FedInOrder, MarksArePrefixes
<1>5. ScanPlace'
  BY <1>1, <1>2 DEF ScanInv, ScanPlace, Start
<1> QED BY <1>3, <1>4, <1>5 DEF ScanInv

LEMMA ReplayFileKeeps == ASSUME ScanInv, ReplayFile PROVE ScanInv'
<1>0. ScanType /\ skipped = {} /\ skipped' = {}
  BY DEF ScanInv, ScanPlace, ReplayFile
<1>1. PICK day \in todo : /\ \A d \in todo : day <= d
                          /\ Feed(day, 1)
                          /\ todo' = todo \ {day}
                          /\ current' = day
                          /\ pc' = IF todo' = {} THEN "size" ELSE "replay"
  BY DEF ReplayFile
<1>2. day \in Days /\ day \in Int /\ Len(files[day]) \in Nat
  BY <1>0, ListedLen DEF ScanType
<1>3. Days' = Days /\ files' = files /\ clock' = clock /\ offset' = offset
  BY DEF ReplayFile, Days, collectorVars
<1>4. /\ fed' \in Seq(Int \X Nat)
      /\ ToSet(fed') = ToSet(fed) \cup Part(day, 1)
  BY <1>0, <1>1, <1>2, FeedMarks
<1>5. Marked = ToSet(fed) /\ Marked' = Marked \cup Part(day, 1)
  BY <1>0, <1>4 DEF Marked
<1>6. ScanType'
  BY <1>0, <1>1, <1>2, <1>3, <1>4 DEF ScanType
<1>7. \A p \in Marked : p[1] < day
  BY <1>1 DEF ScanInv, ScanPlace
<1>8. FedInOrder'
  BY <1>0, <1>1, <1>2, <1>5, <1>7, FeedKeepsOrder DEF ScanInv
<1>9. MarksArePrefixes'
  <2> SUFFICES ASSUME NEW p \in Marked'
               PROVE  /\ p[1] \in Days
                      /\ p[2] \in 1 .. Len(files[p[1]])
                      /\ \A i \in 1 .. p[2] : <<p[1], i>> \in Marked'
    BY <1>3 DEF MarksArePrefixes
  <2>1. CASE p \in Marked
    BY <2>1, <1>5 DEF ScanInv, MarksArePrefixes
  <2>2. CASE p \in Part(day, 1)
    <3>1. PICK i \in 1 .. Len(files[day]) : p = <<day, i>>
      BY <2>2 DEF Part
    <3>2. \A j \in 1 .. i : <<day, j>> \in Part(day, 1)
      BY <3>1, <1>2 DEF Part
    <3> QED BY <3>1, <3>2, <1>2, <1>5
  <2> QED BY <2>1, <2>2, <1>5
<1>10. \A p \in Marked' : p[1] <= day
  <2>1. \A p \in Part(day, 1) : p[1] = day
    BY DEF Part
  <2>2. \A p \in Marked : p[1] \in Int
    BY <1>0 DEF ScanInv, MarksArePrefixes, ScanType
  <2> QED BY <2>1, <2>2, <1>2, <1>5, <1>7
<1>11. \A d \in todo', p \in Marked' : p[1] < d
  <2>1. \A d \in todo' : d \in Int /\ day < d
    BY <1>0, <1>1, <1>2 DEF ScanType
  <2>2. \A p \in Marked' : p[1] \in Int
    BY <1>9, <1>6 DEF MarksArePrefixes, ScanType
  <2> QED BY <2>1, <2>2, <1>10, <1>2
<1>12. ScanPlace'
  BY <1>0, <1>1, <1>2, <1>3, <1>10, <1>11 DEF ScanPlace
<1> QED BY <1>6, <1>8, <1>9, <1>12 DEF ScanInv

LEMMA TakeSizeKeeps == ASSUME ScanInv, TakeSize PROVE ScanInv'
<1> DEFINE n == Len(files[current])
           new == {<<current, i>> : i \in 1 .. n}
<1>0. /\ ScanType /\ skipped = {} /\ todo = {} /\ current \in Days
      /\ \A p \in Marked : p[1] <= current
  BY DEF ScanInv, ScanPlace, TakeSize
<1>1. n \in Nat /\ current \in Int
  BY <1>0, ListedLen DEF ScanType
<1>2. /\ Days' = Days /\ files' = files /\ clock' = clock /\ fed' = fed
      /\ todo' = todo /\ current' = current /\ offset' = n /\ pc' = "poll"
      /\ skipped' = new \ ToSet(fed)
  BY DEF TakeSize, Days, collectorVars
<1>3. Marked = ToSet(fed) /\ Marked' = Marked \cup new
  BY <1>0, <1>2 DEF Marked, ToSet
<1>4. new \in SUBSET (Int \X Nat)
  BY <1>1
<1>5. \A p \in new : p[1] = current /\ p[2] \in 1 .. n
  BY <1>1
<1>6. \A i \in 1 .. n : <<current, i>> \in new
  OBVIOUS
<1> HIDE DEF new
<1>7. ScanType'
  BY <1>0, <1>1, <1>2, <1>4 DEF ScanType
<1>8. FedInOrder'
  BY <1>2 DEF ScanInv, FedInOrder
<1>9. MarksArePrefixes'
  <2> SUFFICES ASSUME NEW p \in Marked'
               PROVE  /\ p[1] \in Days
                      /\ p[2] \in 1 .. Len(files[p[1]])
                      /\ \A i \in 1 .. p[2] : <<p[1], i>> \in Marked'
    BY <1>2 DEF MarksArePrefixes
  <2>1. CASE p \in Marked
    BY <2>1, <1>3 DEF ScanInv, MarksArePrefixes
  <2>2. CASE p \in new
    <3>1. p[1] = current /\ p[2] \in 1 .. n
      BY <2>2, <1>5
    <3>2. \A i \in 1 .. p[2] : <<p[1], i>> \in new
      BY <3>1, <1>6, <1>1
    <3> QED BY <3>1, <3>2, <1>0, <1>3
  <2> QED BY <2>1, <2>2, <1>3
<1>10. \A p \in Marked : p[1] = current => p[2] <= n
  BY <1>1 DEF ScanInv, MarksArePrefixes
<1>11. ScanPlace'
  <2>1. \A p \in Marked' : p[1] <= current /\ (p[1] = current => p[2] <= n)
    BY <1>0, <1>1, <1>3, <1>5, <1>10
  <2>2. \A i \in 1 .. n : <<current, i>> \in Marked'
    BY <1>3, <1>6
  <2> QED BY <2>1, <2>2, <1>0, <1>1, <1>2 DEF ScanPlace
<1> QED BY <1>7, <1>8, <1>9, <1>11 DEF ScanInv

LEMMA PollKeeps == ASSUME ScanInv, Poll PROVE ScanInv'
<1>0. /\ ScanType /\ todo = {} /\ current \in Days
      /\ \A p \in Marked : p[1] <= current
  BY DEF ScanInv, ScanPlace, Poll
<1>1. /\ Days' = Days /\ files' = files /\ clock' = clock /\ fed' = fed
      /\ todo' = todo /\ skipped' = skipped /\ Marked' = Marked
      /\ pc' \in {"poll", "read"}
  BY DEF Poll, Days, collectorVars, Marked, ToSet
<1>2. FedInOrder' /\ MarksArePrefixes'
  BY <1>1 DEF ScanInv, FedInOrder, MarksArePrefixes
<1>3. CASE Newer(current) = {}
  <2>1. current' = current /\ offset' = offset
    BY <1>3 DEF Poll
  <2>2. ScanType'
    BY <1>0, <1>1, <2>1 DEF ScanType
  <2>3. ScanPlace'
    BY <1>0, <1>1, <2>1 DEF ScanInv, ScanPlace, Poll
  <2> QED BY <1>2, <2>2, <2>3 DEF ScanInv
<1>4. CASE Newer(current) # {}
  <2>1. current' = (CHOOSE d \in Days : Newer(d) = {}) /\ offset' = 0
    BY <1>4 DEF Poll
  <2>2. current' \in Days /\ current' > current
    BY <1>0, <1>4, <2>1, NewestFile
  <2>3. ScanType'
    BY <1>0, <1>1, <2>1, <2>2 DEF ScanType
  <2>4. \A p \in Marked : p[1] \in Int /\ p[1] < current'
    BY <1>0, <2>2 DEF ScanInv, MarksArePrefixes, ScanType
  <2>5. Len(files[current']) \in Nat
    BY <1>0, <2>2, ListedLen DEF ScanType
  <2>6. current' \in Int
    BY <2>3 DEF ScanType
  <2>7. ScanPlace'
    <3>1. pc' \notin {"start", "replay", "size"} /\ todo' = {} /\ current' \in Days'
      BY <1>0, <1>1, <2>2
    <3>2. \A p \in Marked' : p[1] <= current' /\ p[1] # current'
      BY <1>0, <1>1, <2>4, <2>6 DEF ScanType
    <3>3. offset' <= Len(files'[current'])
      BY <1>1, <2>1, <2>5
    <3>4. 1 .. offset' = {}
      BY <2>1
    <3> QED BY <3>1, <3>2, <3>3, <3>4 DEF ScanPlace
  <2> QED BY <1>2, <2>3, <2>7 DEF ScanInv
<1> QED BY <1>3, <1>4

LEMMA ReadKeeps == ASSUME ScanInv, Read PROVE ScanInv'
<1> DEFINE n == Len(files[current])
           new == Part(current, offset + 1)
<1>0. /\ ScanType /\ todo = {} /\ current \in Days
      /\ \A p \in Marked : p[1] <= current
      /\ offset <= n
      /\ \A p \in Marked : p[1] = current => p[2] <= offset
      /\ \A i \in 1 .. offset : <<current, i>> \in Marked
  BY DEF ScanInv, ScanPlace, Read
<1>1. n \in Nat /\ current \in Int /\ offset \in Nat /\ offset + 1 \in 1 .. n + 1
  BY <1>0, ListedLen DEF ScanType
<1>2. /\ Days' = Days /\ files' = files /\ clock' = clock /\ offset' = n
      /\ todo' = todo /\ current' = current /\ skipped' = skipped
      /\ pc' = "poll" /\ Feed(current, offset + 1)
  BY DEF Read, Days, collectorVars
<1>3. /\ fed' \in Seq(Int \X Nat)
      /\ ToSet(fed') = ToSet(fed) \cup new
  BY <1>0, <1>1, <1>2, FeedMarks
<1>4. Marked' = Marked \cup new
  BY <1>2, <1>3 DEF Marked
<1>5. /\ \A p \in new : p[1] = current /\ p[2] \in offset + 1 .. n
      /\ \A i \in offset + 1 .. n : <<current, i>> \in new
  BY <1>1 DEF Part
<1> HIDE DEF new
<1>6. ScanType'
  BY <1>0, <1>1, <1>2, <1>3 DEF ScanType
<1>7. FedInOrder'
  <2>1. ToSet(fed) \subseteq Marked
    BY DEF Marked
  <2>2. \A p \in Marked : p[1] \in Int /\ p[2] \in Nat
    <3>1. \A p \in Marked : p[1] \in Days /\ p[2] \in 1 .. Len(files[p[1]])
      BY DEF ScanInv, MarksArePrefixes
    <3>2. \A d \in Days : d \in Int /\ Len(files[d]) \in Nat
      BY <1>0, ListedLen DEF ScanType
    <3> QED BY <3>1, <3>2
  <2>3. \A p \in ToSet(fed) : p[1] < current \/ (p[1] = current /\ p[2] < offset + 1)
    BY <1>0, <1>1, <2>1, <2>2
  <2> QED BY <1>0, <1>1, <1>2, <2>3, FeedKeepsOrder DEF ScanInv
<1>8. \A i \in 1 .. n : <<current, i>> \in Marked'
  <2> TAKE i \in 1 .. n
  <2>1. i \in 1 .. offset \/ i \in offset + 1 .. n
    BY <1>1
  <2> QED BY <2>1, <1>0, <1>4, <1>5
<1>9. MarksArePrefixes'
  <2> SUFFICES ASSUME NEW p \in Marked'
               PROVE  /\ p[1] \in Days
                      /\ p[2] \in 1 .. Len(files[p[1]])
                      /\ \A i \in 1 .. p[2] : <<p[1], i>> \in Marked'
    BY <1>2 DEF MarksArePrefixes
  <2>1. CASE p \in Marked
    BY <2>1, <1>4 DEF ScanInv, MarksArePrefixes
  <2>2. CASE p \in new
    <3>1. p[1] = current /\ p[2] \in 1 .. n
      BY <2>2, <1>5, <1>1
    <3> QED BY <3>1, <1>8, <1>0, <1>1
  <2> QED BY <2>1, <2>2, <1>4
<1>10. ScanPlace'
  <2>1. \A p \in Marked' : p[1] <= current /\ (p[1] = current => p[2] <= n)
    <3>1. \A p \in Marked : p[1] = current => p[2] \in 1 .. n
      BY DEF ScanInv, MarksArePrefixes
    <3> QED BY <1>0, <1>1, <1>4, <1>5, <3>1
  <2> QED BY <2>1, <1>8, <1>0, <1>1, <1>2 DEF ScanPlace
<1> QED BY <1>6, <1>7, <1>9, <1>10 DEF ScanInv

LEMMA ScanStutter == ASSUME ScanInv, UNCHANGED vars PROVE ScanInv'
<1>1. UNCHANGED <<clock, files, pc, todo, current, offset, fed, skipped>>
  BY DEF vars, collectorVars, scannerVars
<1>2. Days' = Days /\ Marked' = Marked
  BY <1>1 DEF Days, Marked, ToSet
<1>3. ScanType'
  BY <1>1, <1>2 DEF ScanInv, ScanType
<1>4. FedInOrder' /\ MarksArePrefixes' /\ ScanPlace'
  BY <1>1, <1>2 DEF ScanInv, FedInOrder, MarksArePrefixes, ScanPlace
<1> QED BY <1>3, <1>4 DEF ScanInv

(* What was fed are the first snapshots of each file, up to the offset in  *)
(* the one that is followed; and no file is left to replay that does not   *)
(* lie after everything fed.                                               *)
THEOREM ScanInvHolds == Spec => []ScanInv
<1>1. Init => ScanInv
  BY ScanInit
<1>2. ScanInv /\ [Next]_vars => ScanInv'
  <2> SUFFICES ASSUME ScanInv, [Next]_vars PROVE ScanInv'
    OBVIOUS
  <2>1. CASE Collect     BY <2>1, CollectKeeps
  <2>2. CASE Start       BY <2>2, StartKeeps
  <2>3. CASE ReplayFile  BY <2>3, ReplayFileKeeps
  <2>4. CASE TakeSize    BY <2>4, TakeSizeKeeps
  <2>5. CASE Poll        BY <2>5, PollKeeps
  <2>6. CASE Read        BY <2>6, ReadKeeps
  <2>7. CASE UNCHANGED vars  BY <2>7, ScanStutter
  <2> QED BY <2>1, <2>2, <2>3, <2>4, <2>5, <2>6, <2>7 DEF Next
<1> QED BY <1>1, <1>2, PTL DEF Spec

-----------------------------------------------------------------------------

LEMMA ScanInvSays == ASSUME ScanInv PROVE FeedsOnceInOrder
<1>0. ScanType
  BY DEF ScanInv
<1>1. \A m, n \in DOMAIN fed :
          m < n => \/ fed[m][1] < fed[n][1]
                   \/ fed[m][1] = fed[n][1] /\ fed[m][2] < fed[n][2]
  BY DEF ScanInv, FedInOrder, Before
<1>2. ASSUME NEW d \in Days
      PROVE  LET passed == {i \in 1 .. Len(files[d]) : <<d, i>> \in ToSet(fed) \union skipped}
             IN /\ passed = 1 .. Cardinality(passed)
                /\ pc \in {"poll", "read"} /\ d = current => Cardinality(passed) = offset
  <2> DEFINE n == Len(files[d])
             passed == {i \in 1 .. n : <<d, i>> \in ToSet(fed) \union skipped}
  <2>1. n \in Nat
    BY <1>0, ListedLen DEF ScanType
  <2>2. passed = {i \in 1 .. n : <<d, i>> \in Marked}
    BY DEF Marked
  <2>3. \A j \in passed : \A i \in 1 .. j : i \in passed
    <3> SUFFICES ASSUME NEW j \in passed, NEW i \in 1 .. j PROVE i \in passed
      OBVIOUS
    <3>1. j \in 1 .. n /\ <<d, j>> \in Marked
      BY <2>2
    <3>2. <<d, i>> \in Marked
      BY <3>1 DEF ScanInv, MarksArePrefixes
    <3>3. i \in 1 .. n
      BY <3>1, <2>1
    <3> QED BY <3>2, <3>3, <2>2
  <2>4. passed \in SUBSET (1 .. n)
    OBVIOUS
  <2> HIDE DEF passed, n
  <2>5. PICK k \in 0 .. n : passed = 1 .. k
    BY <2>1, <2>3, <2>4, FirstOnes
  <2>6. k \in Nat /\ Cardinality(passed) = k
    BY <2>1, <2>5, CountsFirst
  <2>7. ASSUME pc \in {"poll", "read"}, d = current PROVE k = offset
    <3>1. /\ offset <= n /\ offset \in Nat
          /\ \A p \in Marked : p[1] = current => p[2] <= offset
          /\ \A i \in 1 .. offset : <<current, i>> \in Marked
      BY <2>7, <1>0 DEF ScanInv, ScanPlace, ScanType, n
    <3>2. \A i \in 1 .. offset : i \in passed
      BY <3>1, <2>1, <2>2, <2>7
    <3>3. \A i \in passed : i <= offset
      <4> TAKE i \in passed
      <4>1. <<d, i>> \in Marked
        BY <2>2
      <4> QED BY <4>1, <3>1, <2>7
    <3>4. k <= offset
      BY <3>3, <2>5, <2>6, <3>1
    <3>5. offset <= k
      BY <3>2, <2>5, <2>6, <3>1
    <3> QED BY <3>4, <3>5, <3>1, <2>6
  <2> QED BY <2>5, <2>6, <2>7 DEF passed, n
<1> QED BY <1>1, <1>2 DEF FeedsOnceInOrder

(* The scanner feeds no snapshot twice and none after a later one, and of  *)
(* every file what there is from its beginning to some place: whatever the *)
(* collector writes between the replay, the look at the size and the polls,*)
(* also into a file of an earlier day after its clock was set back.        *)
THEOREM FedOnceInOrder == Spec => []FeedsOnceInOrder
<1>1. ScanInv => FeedsOnceInOrder
  BY ScanInvSays
<1> QED BY <1>1, ScanInvHolds, PTL

-----------------------------------------------------------------------------
(* The rows of one market, and the moves from row to row.                  *)

MarketRows == {[ts |-> t, volume |-> VolumeAt[t]] : t \in DOMAIN VolumeAt}

LEMMA RowIs ==
    ASSUME NEW r \in MarketRows
    PROVE  /\ r.ts \in Int /\ 0 < r.ts /\ r.volume \in Int /\ r # NoRow
           /\ \A s \in MarketRows : s.ts = r.ts => s = r
<1>1. PICK t \in DOMAIN VolumeAt : r = [ts |-> t, volume |-> VolumeAt[t]]
  BY DEF MarketRows
<1>2. t \in Int /\ 0 < t /\ VolumeAt[t] \in Int
  BY ScannerAssumption
<1>3. r.ts = t /\ r.volume \in Int
  BY <1>1, <1>2
<1>4. r # NoRow
  <2>1. NoRow.ts = -1
    BY DEF NoRow
  <2> QED BY <1>2, <1>3, <2>1
<1>5. ASSUME NEW s \in MarketRows, s.ts = r.ts PROVE s = r
  <2>1. PICK u \in DOMAIN VolumeAt : s = [ts |-> u, volume |-> VolumeAt[u]]
    BY DEF MarketRows
  <2>2. u = t
    BY <1>3, <1>5, <2>1
  <2> QED BY <1>1, <2>1, <2>2
<1> QED BY <1>2, <1>3, <1>4, <1>5

(* No row is later than r.                                                 *)
IsLatest(r, rows) == r \in rows /\ \A s \in rows : s.ts <= r.ts

LEMMA LatestIs ==
    ASSUME NEW rows \in SUBSET MarketRows, NEW r, IsLatest(r, rows)
    PROVE  Latest(rows) = r
<1>1. \A s \in rows : (\A q \in rows : q.ts <= s.ts) => s = r
  <2> SUFFICES ASSUME NEW s \in rows, \A q \in rows : q.ts <= s.ts PROVE s = r
    OBVIOUS
  <2>1. r.ts \in Int /\ s.ts \in Int /\ r \in MarketRows /\ s \in MarketRows
    BY RowIs DEF IsLatest
  <2>2. r.ts = s.ts
    BY <2>1 DEF IsLatest
  <2> QED BY <2>1, <2>2, RowIs
<1> QED BY <1>1 DEF Latest, IsLatest

LEMMA MoveIs ==
    ASSUME NEW rows \in SUBSET MarketRows, NEW m \in Moves(rows)
    PROVE  /\ m \in MarketRows \X MarketRows /\ m = <<m[1], m[2]>>
           /\ m[1] \in rows /\ m[2] \in rows /\ m[1].ts < m[2].ts
           /\ \A r \in rows : r.ts <= m[1].ts \/ m[2].ts <= r.ts
           /\ \A n \in Moves(rows) : n[2].ts = m[2].ts => n = m
<1>1. ASSUME NEW n \in Moves(rows)
      PROVE  /\ n \in MarketRows \X MarketRows /\ n = <<n[1], n[2]>>
             /\ n[1] \in rows /\ n[2] \in rows /\ n[1].ts < n[2].ts
             /\ \A r \in rows : r.ts <= n[1].ts \/ n[2].ts <= r.ts
  BY DEF Moves
<1>2. ASSUME NEW n \in Moves(rows), n[2].ts = m[2].ts PROVE n = m
  <2>1. n[2] = m[2]
    BY <1>1, <1>2, RowIs
  <2>2. /\ n[1].ts \in Int /\ m[1].ts \in Int /\ m[2].ts \in Int
        /\ n[1] \in MarketRows /\ m[1] \in MarketRows
    BY <1>1, RowIs
  <2>3. n[1].ts <= m[1].ts /\ m[1].ts <= n[1].ts
    BY <1>1, <1>2, <2>2
  <2>4. n[1] = m[1]
    BY <2>2, <2>3, RowIs
  <2> QED BY <1>1, <2>1, <2>4
<1> QED BY <1>1, <1>2

(* A later row adds one move.                                              *)
LEMMA NewMove ==
    ASSUME NEW rows \in SUBSET MarketRows, NEW p, IsLatest(p, rows),
           NEW r \in MarketRows, p.ts < r.ts
    PROVE  /\ Moves(rows \cup {r}) = Moves(rows) \cup {<<p, r>>}
           /\ IsLatest(r, rows \cup {r})
<1> DEFINE all == rows \cup {r}
<1>1. /\ p \in MarketRows /\ p.ts \in Int /\ r.ts \in Int
      /\ \A s \in rows : s \in MarketRows /\ s.ts \in Int /\ s.ts <= p.ts /\ s.ts < r.ts
  <2>1. p \in MarketRows /\ p.ts \in Int /\ r.ts \in Int
    BY RowIs DEF IsLatest
  <2>2. \A s \in rows : s \in MarketRows /\ s.ts \in Int /\ s.ts <= p.ts
    BY RowIs DEF IsLatest
  <2> QED BY <2>1, <2>2
<1>2. IsLatest(r, all)
  BY <1>1 DEF IsLatest
<1>3. ASSUME NEW m \in Moves(all) PROVE m \in Moves(rows) \cup {<<p, r>>}
  <2>1. /\ m = <<m[1], m[2]>> /\ m[1] \in all /\ m[2] \in all /\ m[1].ts < m[2].ts
        /\ \A q \in all : q.ts <= m[1].ts \/ m[2].ts <= q.ts
    BY DEF Moves
  <2>2. CASE m[2] = r
    <3>1. m[1] \in rows
      BY <1>1, <2>1, <2>2
    <3>2. m[1].ts = p.ts
      BY <1>1, <2>1, <2>2, <3>1 DEF IsLatest
    <3>3. m[1] = p
      BY <1>1, <3>1, <3>2, RowIs
    <3> QED BY <2>1, <2>2, <3>3
  <2>3. CASE m[2] # r
    <3>1. m[2] \in rows /\ m[1] \in rows
      BY <1>1, <2>1, <2>3
    <3> QED BY <2>1, <3>1 DEF Moves
  <2> QED BY <2>2, <2>3
<1>4. ASSUME NEW m \in Moves(rows) PROVE m \in Moves(all)
  <2>1. /\ m \in rows \X rows /\ m[1].ts < m[2].ts /\ m[2] \in rows
        /\ \A q \in rows : q.ts <= m[1].ts \/ m[2].ts <= q.ts
    BY DEF Moves
  <2>2. m[2].ts <= r.ts
    BY <1>1, <2>1
  <2> QED BY <2>1, <2>2 DEF Moves
<1>5. <<p, r>> \in Moves(all)
  BY <1>1 DEF Moves, IsLatest
<1> QED BY <1>2, <1>3, <1>4, <1>5

-----------------------------------------------------------------------------
(* The history the window keeps of a market.                               *)

Activities == [ts : Int, elapsed : Int, change : Int]

Increasing(h) ==
    h \in Seq(Activities) /\ \A i, j \in DOMAIN h : i < j => h[i].ts < h[j].ts

LEMMA AppendedActivity ==
    ASSUME NEW h, Increasing(h), NEW a \in Activities,
           h = <<>> \/ Last(h).ts < a.ts
    PROVE  LET s == Append(h, a)
           IN /\ Increasing(s) /\ s # <<>> /\ Last(s) = a
              /\ ToSet(s) = ToSet(h) \cup {a}
<1> DEFINE n == Len(h)
           s == Append(h, a)
<1>1. h \in Seq(Activities) /\ n \in Nat /\ DOMAIN h = 1 .. n
  BY DEF Increasing
<1>2. /\ s \in Seq(Activities) /\ Len(s) = n + 1 /\ DOMAIN s = 1 .. n + 1
      /\ \A i \in 1 .. n : s[i] = h[i]
      /\ s[n + 1] = a
  BY <1>1, AppendProperties
<1>3. Last(s) = a /\ s # <<>>
  BY <1>1, <1>2 DEF Last
<1>4. ASSUME NEW i \in 1 .. n PROVE h[i].ts < a.ts
  <2>1. h # <<>> /\ n > 0
    <3>1. n > 0
      BY <1>1
    <3> QED BY <3>1
  <2>2. h[n].ts < a.ts
    BY <2>1 DEF Last
  <2>3. h[i] \in Activities /\ h[n] \in Activities
    BY <1>1, <2>1
  <2>4. i < n => h[i].ts < h[n].ts
    BY <1>1, <2>1 DEF Increasing
  <2>5. h[i].ts \in Int /\ h[n].ts \in Int /\ a.ts \in Int
    BY <2>3 DEF Activities
  <2>6. i < n \/ i = n
    <3> HIDE DEF n
    <3> QED BY <1>1
  <2> QED BY <2>2, <2>4, <2>5, <2>6
<1>5. \A i, j \in DOMAIN s : i < j => s[i].ts < s[j].ts
  <2> SUFFICES ASSUME NEW i \in 1 .. n + 1, NEW j \in 1 .. n + 1, i < j
               PROVE  s[i].ts < s[j].ts
    BY <1>2
  <2>1. i \in 1 .. n
    BY <1>1
  <2>2. CASE j = n + 1
    BY <1>2, <1>4, <2>1, <2>2
  <2>3. CASE j # n + 1
    <3>1. j \in 1 .. n
      BY <1>1, <2>3
    <3>2. h[i].ts < h[j].ts
      BY <1>1, <2>1, <3>1 DEF Increasing
    <3> QED BY <1>2, <2>1, <3>1, <3>2
  <2> QED BY <2>2, <2>3
<1>6. ToSet(s) = ToSet(h) \cup {a}
  <2>1. ASSUME NEW x \in ToSet(s) PROVE x \in ToSet(h) \cup {a}
    <3>1. PICK i \in 1 .. n + 1 : x = s[i]
      BY <1>2 DEF ToSet
    <3>2. i \in 1 .. n \/ i = n + 1
      BY <1>1
    <3> QED BY <1>1, <1>2, <3>1, <3>2 DEF ToSet
  <2>2. ASSUME NEW x \in ToSet(h) PROVE x \in ToSet(s)
    <3>1. PICK i \in 1 .. n : x = h[i]
      BY <1>1 DEF ToSet
    <3>2. i \in 1 .. n + 1
      BY <1>1
    <3> QED BY <1>2, <3>1, <3>2 DEF ToSet
  <2>3. a \in ToSet(s)
    <3>1. n + 1 \in 1 .. n + 1
      BY <1>1
    <3> QED BY <1>2, <3>1 DEF ToSet
  <2> QED BY <2>1, <2>2, <2>3
<1> QED BY <1>2, <1>3, <1>5, <1>6 DEF Increasing

(* Where the young ones begin.                                             *)
LEMMA SinceIs ==
    ASSUME NEW h \in Seq(Activities), h # <<>>, NEW cutoff \in Int, cutoff < Last(h).ts
    PROVE  \E k \in 1 .. Len(h) :
              /\ Since(h, cutoff) = SubSeq(h, k, Len(h))
              /\ h[k].ts > cutoff
              /\ \A i \in 1 .. Len(h) : h[i].ts > cutoff => k <= i
<1> DEFINE n == Len(h)
           young == {i \in DOMAIN h : h[i].ts > cutoff}
<1>1. n \in Nat /\ n > 0 /\ DOMAIN h = 1 .. n
  OBVIOUS
<1>3. young \in SUBSET Nat /\ n \in young
  BY <1>1 DEF Last
<1>4. PICK k \in young : \A m \in young : k <= m
  BY <1>3, SomeSmallest
<1>5. k \in 1 .. n
  BY <1>1
<1>6. Min(young) = k
  <2>1. \A i \in young : (\A j \in young : i <= j) => i = k
    <3> SUFFICES ASSUME NEW i \in young, \A j \in young : i <= j PROVE i = k
      OBVIOUS
    <3>1. i <= k /\ k <= i /\ i \in Int /\ k \in Int
      BY <1>3, <1>4
    <3> QED BY <3>1
  <2> QED BY <1>4, <2>1 DEF Min
<1>7. Since(h, cutoff) = SubSeq(h, k, n)
  BY <1>6 DEF Since
<1>8. h[k].ts > cutoff /\ \A i \in 1 .. n : h[i].ts > cutoff => k <= i
  BY <1>1, <1>4
<1> QED BY <1>5, <1>7, <1>8

(* Dropping what is old leaves the young ones, with their order.           *)
LEMMA SinceKeepsYoung ==
    ASSUME NEW h, Increasing(h), h # <<>>, NEW cutoff \in Int, cutoff < Last(h).ts
    PROVE  LET s == Since(h, cutoff)
           IN /\ Increasing(s) /\ s # <<>> /\ Last(s) = Last(h)
              /\ ToSet(s) = {x \in ToSet(h) : x.ts > cutoff}
<1> DEFINE n == Len(h)
           s == Since(h, cutoff)
<1>1. h \in Seq(Activities) /\ n \in Nat /\ n > 0 /\ DOMAIN h = 1 .. n
  BY DEF Increasing
<1>2. \A i \in 1 .. n : h[i] \in Activities /\ h[i].ts \in Int
  <2> SUFFICES ASSUME NEW i \in 1 .. n PROVE h[i] \in Activities /\ h[i].ts \in Int
    OBVIOUS
  <2>1. h[i] \in Activities
    BY <1>1
  <2> QED BY <2>1 DEF Activities
<1>5. PICK k \in 1 .. n : /\ s = SubSeq(h, k, n)
                          /\ h[k].ts > cutoff
                          /\ \A i \in 1 .. n : h[i].ts > cutoff => k <= i
  BY <1>1, SinceIs
<1>7. s = SubSeq(h, k, n)
  BY <1>5
<1>8. /\ s \in Seq(Activities) /\ Len(s) = n - k + 1 /\ DOMAIN s = 1 .. n - k + 1
      /\ \A i \in 1 .. n - k + 1 : s[i] = h[k + i - 1]
  <2>1. k \in Int /\ n \in Int /\ k <= n
    BY <1>1, <1>5
  <2> HIDE DEF n, s
  <2> QED BY <1>1, <1>5, <1>7, <2>1, SubSeqProperties
<1>9. \A i \in 1 .. n : k <= i <=> h[i].ts > cutoff
  <2> SUFFICES ASSUME NEW i \in 1 .. n PROVE k <= i <=> h[i].ts > cutoff
    OBVIOUS
  <2>1. h[i].ts > cutoff => k <= i
    BY <1>5
  <2>2. k < i => h[k].ts < h[i].ts
    BY <1>1, <1>5 DEF Increasing
  <2>3. h[k].ts > cutoff /\ h[k].ts \in Int /\ h[i].ts \in Int
    BY <1>2, <1>5
  <2> QED BY <1>5, <2>1, <2>2, <2>3
<1>10. s # <<>> /\ Last(s) = Last(h)
  <2>1. n - k + 1 \in 1 .. n - k + 1
    BY <1>1, <1>5
  <2>2. s[n - k + 1] = h[k + (n - k + 1) - 1]
    BY <1>8, <2>1
  <2>3. k + (n - k + 1) - 1 = n
    BY <1>1, <1>5
  <2>4. s # <<>>
    BY <1>8, <2>1
  <2> QED BY <1>8, <2>2, <2>3, <2>4 DEF Last
<1>11. \A i, j \in DOMAIN s : i < j => s[i].ts < s[j].ts
  <2> SUFFICES ASSUME NEW i \in 1 .. n - k + 1, NEW j \in 1 .. n - k + 1, i < j
               PROVE  s[i].ts < s[j].ts
    BY <1>8
  <2>1. k + i - 1 \in 1 .. n /\ k + j - 1 \in 1 .. n /\ k + i - 1 < k + j - 1
    BY <1>1, <1>5
  <2>2. h[k + i - 1].ts < h[k + j - 1].ts
    BY <1>1, <2>1 DEF Increasing
  <2> QED BY <1>8, <2>2
<1>12. ToSet(s) = {x \in ToSet(h) : x.ts > cutoff}
  <2>1. ASSUME NEW x \in ToSet(s) PROVE x \in ToSet(h) /\ x.ts > cutoff
    <3>1. PICK i \in 1 .. n - k + 1 : x = s[i]
      BY <1>8 DEF ToSet
    <3>2. k + i - 1 \in 1 .. n /\ k <= k + i - 1
      BY <1>1, <1>5
    <3>3. x = h[k + i - 1]
      BY <1>8, <3>1
    <3> QED BY <1>1, <1>9, <3>2, <3>3 DEF ToSet
  <2>2. ASSUME NEW x \in ToSet(h), x.ts > cutoff PROVE x \in ToSet(s)
    <3>1. PICK i \in 1 .. n : x = h[i]
      BY <1>1 DEF ToSet
    <3>2. k <= i
      BY <1>9, <2>2, <3>1
    <3>3. i - k + 1 \in 1 .. n - k + 1 /\ k + (i - k + 1) - 1 = i
      BY <1>1, <1>5, <3>2
    <3>4. x = s[i - k + 1]
      BY <1>8, <3>1, <3>3
    <3> QED BY <1>8, <3>3, <3>4 DEF ToSet
  <2> QED BY <2>1, <2>2
<1> QED BY <1>8, <1>10, <1>11, <1>12 DEF Increasing

LEMMA ExtendedHistory ==
    ASSUME NEW h, Increasing(h), NEW a \in Activities,
           h = <<>> \/ Last(h).ts < a.ts
    PROVE  LET s == Extended(h, a)
           IN /\ Increasing(s) /\ s # <<>> /\ Last(s) = a
              /\ ToSet(s) = IF h # <<>> /\ a.ts - Last(h).ts > MaxGap THEN {a}
                            ELSE {x \in ToSet(h) : x.ts > a.ts - History} \cup {a}
<1> DEFINE gap == h # <<>> /\ a.ts - Last(h).ts > MaxGap
           kept == IF gap THEN <<>> ELSE h
           t == Append(kept, a)
<1>1. a.ts \in Int /\ a.ts - History \in Int /\ a.ts - History < a.ts
  <2>1. a.ts \in Int
    BY DEF Activities
  <2>2. History \in Int /\ 0 < History
    BY ActivityAssumption
  <2> QED BY <2>1, <2>2
<1>2. Increasing(<<>>) /\ ToSet(<<>>) = {}
  BY DEF Increasing, ToSet
<1>3. Increasing(kept) /\ (kept = <<>> \/ Last(kept).ts < a.ts)
  BY <1>2
<1>4. /\ Increasing(t) /\ t # <<>> /\ Last(t) = a
      /\ ToSet(t) = ToSet(kept) \cup {a}
  <2> HIDE DEF kept
  <2> QED BY <1>3, AppendedActivity
<1>5. LET s == Since(t, a.ts - History)
      IN /\ Increasing(s) /\ s # <<>> /\ Last(s) = a
         /\ ToSet(s) = {x \in ToSet(t) : x.ts > a.ts - History}
  <2> HIDE DEF t
  <2> QED BY <1>1, <1>4, SinceKeepsYoung
<1>6. {x \in ToSet(t) : x.ts > a.ts - History}
        = {x \in ToSet(kept) : x.ts > a.ts - History} \cup {a}
  <2> HIDE DEF t, kept
  <2> QED BY <1>1, <1>4
<1>7. Extended(h, a) = Since(t, a.ts - History)
  BY DEF Extended
<1>8. CASE gap
  <2>1. {x \in ToSet(kept) : x.ts > a.ts - History} \cup {a} = {a}
    BY <1>2, <1>8
  <2> HIDE DEF t, kept
  <2> QED BY <1>5, <1>6, <1>7, <1>8, <2>1
<1>9. CASE ~gap
  <2>1. kept = h
    BY <1>9
  <2> HIDE DEF t, kept
  <2> QED BY <1>5, <1>6, <1>7, <1>9, <2>1
<1> QED BY <1>8, <1>9

-----------------------------------------------------------------------------
(* What the engine keeps of a market, next to the rows it was fed.         *)

Images(moves) == {Activity(m[1], m[2]) : m \in moves}

(* A gap is after every move.                                              *)
Fresh(rows) ==
    \A m \in Moves(rows) : \E n \in Moves(rows) :
       m[2].ts <= n[2].ts /\ MaxGap < n[2].ts - n[1].ts

(* The history is that of the moves up to the last row.                    *)
Tells(previous, history, rows) ==
    /\ history # <<>>
    /\ Last(history).ts = previous.ts
    /\ ToSet(history) = Images(MovesIn(rows, previous.ts - History, previous.ts))

Fits(previous, history, rows) ==
    /\ rows \in SUBSET MarketRows
    /\ Increasing(history)
    /\ rows = {} => previous = NoRow /\ history = <<>>
    /\ rows # {} =>
          /\ IsLatest(previous, rows)
          /\ \/ Tells(previous, history, rows)
             \/ /\ Fresh(rows)
                /\ history # <<>> => MaxGap < previous.ts - Last(history).ts

LEMMA FreshHasNoMoves ==
    ASSUME NEW rows \in SUBSET MarketRows, Fresh(rows), NEW from, NEW to
    PROVE  MovesIn(rows, from, to) = {}
<1> SUFFICES ASSUME NEW m \in MovesIn(rows, from, to) PROVE FALSE
  OBVIOUS
<1>1. PICK n \in Moves(rows) : m[2].ts <= n[2].ts /\ MaxGap < n[2].ts - n[1].ts
  BY DEF MovesIn, Fresh
<1>2. n[2].ts - n[1].ts <= MaxGap
  BY <1>1 DEF MovesIn
<1>3. MaxGap \in Int /\ n[1].ts \in Int /\ n[2].ts \in Int
  <2>1. n[1] \in MarketRows /\ n[2] \in MarketRows
    BY MoveIs
  <2> QED BY <2>1, RowIs, ActivityAssumption
<1> QED BY <1>1, <1>2, <1>3

(* A row soon after the last one adds a move and takes none.               *)
LEMMA SoonAddsMove ==
    ASSUME NEW rows \in SUBSET MarketRows, NEW p, IsLatest(p, rows),
           NEW r \in MarketRows, p.ts < r.ts, r.ts - p.ts <= MaxGap,
           NEW from \in Int, from < r.ts
    PROVE  MovesIn(rows \cup {r}, from, r.ts)
             = MovesIn(rows, from, p.ts) \cup {<<p, r>>}
<1> DEFINE all == rows \cup {r}
<1>1. Moves(all) = Moves(rows) \cup {<<p, r>>}
  BY NewMove
<1>2. p.ts \in Int /\ r.ts \in Int /\ MaxGap \in Int
  BY RowIs, ActivityAssumption DEF IsLatest
<1>3. ASSUME NEW m \in Moves(rows)
      PROVE  m[2].ts \in Int /\ m[1].ts \in Int /\ m[2].ts <= p.ts
  <2>1. m[1] \in MarketRows /\ m[2] \in MarketRows /\ m[2] \in rows
    BY MoveIs
  <2> QED BY <2>1, RowIs DEF IsLatest
<1>4. <<p, r>>[1] = p /\ <<p, r>>[2] = r
  OBVIOUS
<1>5. ASSUME NEW m \in MovesIn(all, from, r.ts)
      PROVE  m \in MovesIn(rows, from, p.ts) \cup {<<p, r>>}
  <2>1. /\ m \in Moves(all) /\ from < m[2].ts
        /\ \A n \in Moves(all) : m[2].ts <= n[2].ts => n[2].ts - n[1].ts <= MaxGap
    BY DEF MovesIn
  <2>2. CASE m \in Moves(rows)
    BY <1>1, <1>3, <2>1, <2>2 DEF MovesIn
  <2> QED BY <1>1, <2>1, <2>2
<1>6. ASSUME NEW m \in MovesIn(rows, from, p.ts)
      PROVE  m \in MovesIn(all, from, r.ts)
  <2>1. /\ m \in Moves(rows) /\ from < m[2].ts
        /\ \A n \in Moves(rows) : m[2].ts <= n[2].ts => n[2].ts - n[1].ts <= MaxGap
    BY DEF MovesIn
  <2>2. m \in Moves(all) /\ m[2].ts <= r.ts
    BY <1>1, <1>2, <1>3, <2>1
  <2>3. ASSUME NEW n \in Moves(all), m[2].ts <= n[2].ts PROVE n[2].ts - n[1].ts <= MaxGap
    <3>1. CASE n \in Moves(rows)
      BY <2>1, <2>3, <3>1
    <3>2. CASE n = <<p, r>>
      <4>1. n[1] = p /\ n[2] = r
        BY <3>2
      <4> QED BY <4>1
    <3> QED BY <1>1, <3>1, <3>2
  <2> QED BY <2>1, <2>2, <2>3 DEF MovesIn
<1>7. <<p, r>> \in MovesIn(all, from, r.ts)
  <2>1. <<p, r>> \in Moves(all) /\ from < <<p, r>>[2].ts /\ <<p, r>>[2].ts <= r.ts
    <3>1. <<p, r>> \in Moves(all)
      BY <1>1
    <3>2. from < r.ts /\ r.ts <= r.ts
      BY <1>2
    <3> QED BY <1>4, <3>1, <3>2
  <2>2. ASSUME NEW n \in Moves(all), <<p, r>>[2].ts <= n[2].ts
        PROVE  n[2].ts - n[1].ts <= MaxGap
    <3>1. CASE n \in Moves(rows)
      BY <1>2, <1>3, <1>4, <2>2, <3>1
    <3>2. CASE n = <<p, r>>
      BY <1>4, <3>2
    <3> QED BY <1>1, <3>1, <3>2
  <2> QED BY <2>1, <2>2 DEF MovesIn
<1> QED BY <1>5, <1>6, <1>7

(* After a gap every move is before one.                                   *)
LEMMA GapIsFresh ==
    ASSUME NEW rows \in SUBSET MarketRows, NEW p, IsLatest(p, rows),
           NEW r \in MarketRows, p.ts < r.ts, MaxGap < r.ts - p.ts
    PROVE  Fresh(rows \cup {r})
<1>1. Moves(rows \cup {r}) = Moves(rows) \cup {<<p, r>>}
  BY NewMove
<1>2. <<p, r>>[1] = p /\ <<p, r>>[2] = r
  OBVIOUS
<1>3. p.ts \in Int /\ r.ts \in Int
  BY RowIs DEF IsLatest
<1>4. ASSUME NEW m \in Moves(rows \cup {r}) PROVE m[2].ts <= <<p, r>>[2].ts
  <2>1. CASE m \in Moves(rows)
    <3>1. m[2] \in MarketRows /\ m[2] \in rows
      BY <2>1, MoveIs
    <3>2. m[2].ts \in Int /\ m[2].ts <= p.ts
      BY <3>1, RowIs DEF IsLatest
    <3> QED BY <1>2, <1>3, <3>2
  <2>2. CASE m = <<p, r>>
    BY <1>2, <1>3, <2>2
  <2> QED BY <1>1, <2>1, <2>2
<1> QED BY <1>1, <1>2, <1>4 DEF Fresh

LEMMA ActivityIs ==
    ASSUME NEW p \in MarketRows, NEW r \in MarketRows
    PROVE  /\ Activity(p, r) \in Activities
           /\ Activity(p, r).ts = r.ts
           /\ Activity(p, r).elapsed = r.ts - p.ts
           /\ Activity(p, r).change = r.volume - p.volume
<1>1. p.ts \in Int /\ r.ts \in Int /\ p.volume \in Int /\ r.volume \in Int
  BY RowIs
<1> QED BY <1>1 DEF Activity, Activities

LEMMA LastActivity ==
    ASSUME NEW h, Increasing(h), h # <<>>
    PROVE  Last(h) \in Activities /\ Last(h).ts \in Int
<1>1. h \in Seq(Activities) /\ Len(h) \in 1 .. Len(h)
  BY DEF Increasing
<1>2. Last(h) \in Activities
  BY <1>1 DEF Last
<1> QED BY <1>2 DEF Activities

(* A later cutoff leaves the moves after it.                               *)
LEMMA YoungerMoves ==
    ASSUME NEW rows \in SUBSET MarketRows, NEW to,
           NEW early \in Int, NEW late \in Int, early <= late
    PROVE  {x \in Images(MovesIn(rows, early, to)) : x.ts > late}
             = Images(MovesIn(rows, late, to))
<1>1. ASSUME NEW m \in Moves(rows)
      PROVE  m[2].ts \in Int /\ Activity(m[1], m[2]).ts = m[2].ts
  <2>1. m[1] \in MarketRows /\ m[2] \in MarketRows
    BY MoveIs
  <2> QED BY <2>1, RowIs, ActivityIs
<1>2. ASSUME NEW m \in MovesIn(rows, early, to), m[2].ts > late
      PROVE  m \in MovesIn(rows, late, to)
  BY <1>2 DEF MovesIn
<1>3. ASSUME NEW m \in MovesIn(rows, late, to)
      PROVE  m \in MovesIn(rows, early, to) /\ m[2].ts > late
  <2>1. m \in Moves(rows) /\ late < m[2].ts
    BY DEF MovesIn
  <2>2. early < m[2].ts
    BY <1>1, <2>1
  <2> QED BY <2>1, <2>2 DEF MovesIn
<1>4. \A m \in MovesIn(rows, early, to) : Activity(m[1], m[2]).ts = m[2].ts
  BY <1>1 DEF MovesIn
<1>5. \A m \in MovesIn(rows, late, to) : Activity(m[1], m[2]).ts = m[2].ts
  BY <1>1 DEF MovesIn
<1> QED BY <1>2, <1>3, <1>4, <1>5 DEF Images

LEMMA OneRow ==
    ASSUME NEW r \in MarketRows
    PROVE  Fresh({r}) /\ IsLatest(r, {r})
<1>1. r.ts \in Int
  BY RowIs
<1>2. \A m \in Moves({r}) : FALSE
  <2> SUFFICES ASSUME NEW m \in Moves({r}) PROVE FALSE
    OBVIOUS
  <2>1. m[1] = r /\ m[2] = r /\ m[1].ts < m[2].ts
    BY MoveIs
  <2> QED BY <1>1, <2>1
<1>3. Fresh({r})
  BY <1>2 DEF Fresh
<1>4. IsLatest(r, {r})
  BY <1>1 DEF IsLatest
<1> QED BY <1>3, <1>4

(* What one row does.                                                      *)
LEMMA RowFits ==
    ASSUME NEW p, NEW h, NEW rows, Fits(p, h, rows), NEW r \in MarketRows
    PROVE  LET a == Activity(p, r)
               h2 == IF Comparable(p, r) THEN Extended(h, a) ELSE h
               p2 == Newest(p, r)
               rows2 == IF \A s \in rows : s.ts < r.ts THEN rows \cup {r} ELSE rows
           IN /\ Fits(p2, h2, rows2)
              /\ rows2 # {} /\ r.ts <= p2.ts
              /\ Comparable(p, r) => ~OutOfOrder(h, a) /\ Tells(p2, h2, rows2)
<1> DEFINE a == Activity(p, r)
           h2 == IF Comparable(p, r) THEN Extended(h, a) ELSE h
           p2 == Newest(p, r)
           rows2 == IF \A s \in rows : s.ts < r.ts THEN rows \cup {r} ELSE rows
           all == rows \cup {r}
<1> SUFFICES /\ Fits(p2, h2, rows2)
             /\ rows2 # {} /\ r.ts <= p2.ts
             /\ Comparable(p, r) => ~OutOfOrder(h, a) /\ Tells(p2, h2, rows2)
  OBVIOUS
<1>1. r.ts \in Int /\ MaxGap \in Int /\ 0 < MaxGap /\ History \in Int /\ 0 < History
  <2>1. r.ts \in Int
    BY RowIs
  <2> QED BY <2>1, ActivityAssumption
<1>2. rows \in SUBSET MarketRows /\ Increasing(h) /\ all \in SUBSET MarketRows
  BY DEF Fits
<1>3. CASE rows = {}
  <2>1. p = NoRow /\ h = <<>>
    BY <1>3 DEF Fits
  <2>2. ~Comparable(p, r) /\ p2 = r /\ h2 = h /\ rows2 = {r}
    BY <1>3, <2>1 DEF Comparable, Newest
  <2>3. Fits(r, h, {r})
    BY <1>2, <2>1, OneRow DEF Fits
  <2> HIDE DEF p2, h2, rows2
  <2> QED BY <1>1, <2>2, <2>3
<1>4. CASE rows # {}
  <2>1. /\ p \in MarketRows /\ IsLatest(p, rows) /\ p \in rows
        /\ p.ts \in Int /\ p # NoRow
    <3>1. IsLatest(p, rows)
      BY <1>4 DEF Fits
    <3>2. p \in MarketRows /\ p \in rows
      BY <1>2, <3>1 DEF IsLatest
    <3> QED BY <3>1, <3>2, RowIs
  <2>2. CASE r.ts <= p.ts
    <3>1. ~Comparable(p, r)
      BY <1>1, <2>1, <2>2 DEF Comparable
    <3>2. rows2 = rows
      BY <1>1, <2>1, <2>2
    <3>3. p2 = p
      <4>1. r.ts >= p.ts => r = p
        <5>1. r.ts >= p.ts => r.ts = p.ts
          BY <1>1, <2>1, <2>2
        <5> QED BY <2>1, <5>1, RowIs
      <4> QED BY <2>1, <4>1 DEF Newest
    <3> HIDE DEF rows2, p2
    <3> QED BY <1>4, <2>2, <3>1, <3>2, <3>3
  <2>3. CASE p.ts < r.ts
    <3>1. p2 = r
      BY <1>1, <2>1, <2>3 DEF Newest
    <3>2. rows2 = all
      <4>1. ASSUME NEW s \in rows PROVE s.ts < r.ts
        <5>1. s.ts \in Int /\ s.ts <= p.ts
          BY <1>2, <2>1, RowIs DEF IsLatest
        <5> QED BY <1>1, <2>1, <2>3, <5>1
      <4> QED BY <4>1
    <3>3. IsLatest(r, all) /\ all # {} /\ r.ts <= p2.ts
      BY <1>1, <1>2, <2>1, <2>3, <3>1, NewMove
    <3>4. CASE MaxGap < r.ts - p.ts
      <4>1. ~Comparable(p, r) /\ h2 = h
        BY <1>1, <2>1, <3>4 DEF Comparable
      <4>2. Fresh(all)
        BY <1>2, <2>1, <2>3, <3>4, GapIsFresh
      <4>3. h # <<>> => MaxGap < r.ts - Last(h).ts
        <5> SUFFICES ASSUME h # <<>> PROVE MaxGap < r.ts - Last(h).ts
          OBVIOUS
        <5>1. Last(h).ts \in Int
          BY <1>2, LastActivity
        <5>2. Last(h).ts = p.ts \/ MaxGap < p.ts - Last(h).ts
          BY <1>4 DEF Fits, Tells
        <5> QED BY <1>1, <2>1, <2>3, <3>4, <5>1, <5>2
      <4>4. Fits(r, h, all)
        BY <1>2, <3>3, <4>2, <4>3 DEF Fits
      <4> HIDE DEF rows2, p2, h2, all
      <4> QED BY <3>1, <3>2, <3>3, <4>1, <4>4
    <3>5. CASE r.ts - p.ts <= MaxGap
      <4>1. Comparable(p, r) /\ h2 = Extended(h, a)
        BY <1>1, <2>1, <2>3, <3>5 DEF Comparable
      <4>2. a \in Activities /\ a.ts = r.ts
        BY <2>1, ActivityIs
      <4>3. h # <<>> => Last(h).ts \in Int /\ Last(h).ts < r.ts
        <5> SUFFICES ASSUME h # <<>> PROVE Last(h).ts \in Int /\ Last(h).ts < r.ts
          OBVIOUS
        <5>1. Last(h).ts \in Int
          BY <1>2, LastActivity
        <5>2. Last(h).ts = p.ts \/ MaxGap < p.ts - Last(h).ts
          BY <1>4 DEF Fits, Tells
        <5> QED BY <1>1, <2>1, <2>3, <5>1, <5>2
      <4>4. ~OutOfOrder(h, a)
        BY <1>1, <4>2, <4>3 DEF OutOfOrder
      <4>5. /\ Increasing(h2) /\ h2 # <<>> /\ Last(h2) = a
            /\ ToSet(h2) = IF h # <<>> /\ a.ts - Last(h).ts > MaxGap THEN {a}
                           ELSE {x \in ToSet(h) : x.ts > a.ts - History} \cup {a}
        <5> HIDE DEF a, h2
        <5> QED BY <1>2, <4>1, <4>2, <4>3, ExtendedHistory
      <4>6. MovesIn(all, r.ts - History, r.ts)
              = MovesIn(rows, r.ts - History, p.ts) \cup {<<p, r>>}
        <5>1. r.ts - History \in Int /\ r.ts - History < r.ts
          BY <1>1
        <5>2. \A from \in Int : from < r.ts =>
                 MovesIn(all, from, r.ts) = MovesIn(rows, from, p.ts) \cup {<<p, r>>}
          <6>1. /\ rows \in SUBSET MarketRows /\ IsLatest(p, rows)
                /\ p.ts < r.ts /\ r.ts - p.ts <= MaxGap
            BY <1>2, <2>1, <2>3, <3>5
          <6> HIDE DEF a, h2, p2, rows2
          <6> QED BY <6>1, SoonAddsMove
        <5> QED BY <5>1, <5>2
      <4>7. ToSet(h2) = Images(MovesIn(rows, r.ts - History, p.ts)) \cup {a}
        <5>1. CASE Tells(p, h, rows)
          <6>1. ~(h # <<>> /\ a.ts - Last(h).ts > MaxGap)
            BY <1>1, <2>1, <3>5, <4>2, <5>1 DEF Tells
          <6>2. ToSet(h2) = {x \in ToSet(h) : x.ts > r.ts - History} \cup {a}
            <7> HIDE DEF a, h2
            <7> QED BY <4>2, <4>5, <6>1
          <6>3. ToSet(h) = Images(MovesIn(rows, p.ts - History, p.ts))
            BY <5>1 DEF Tells
          <6>4. {x \in Images(MovesIn(rows, p.ts - History, p.ts)) : x.ts > r.ts - History}
                  = Images(MovesIn(rows, r.ts - History, p.ts))
            BY <1>1, <1>2, <2>1, <2>3, YoungerMoves
          <6> HIDE DEF a, h2
          <6> QED BY <6>2, <6>3, <6>4
        <5>2. CASE /\ ~Tells(p, h, rows) /\ Fresh(rows)
                   /\ h # <<>> => MaxGap < p.ts - Last(h).ts
          <6>1. MovesIn(rows, r.ts - History, p.ts) = {}
            BY <1>2, <5>2, FreshHasNoMoves
          <6>2. Images({}) = {}
            BY DEF Images
          <6>3. ToSet(h2) = {a}
            <7>1. CASE h = <<>>
              <8>1. ToSet(h) = {}
                BY <7>1 DEF ToSet
              <8> HIDE DEF a, h2
              <8> QED BY <4>5, <7>1, <8>1
            <7>2. CASE h # <<>>
              <8>1. a.ts - Last(h).ts > MaxGap
                BY <1>1, <2>1, <2>3, <4>2, <4>3, <5>2, <7>2
              <8> HIDE DEF a, h2
              <8> QED BY <4>5, <7>2, <8>1
            <7> QED BY <7>1, <7>2
          <6> HIDE DEF a, h2
          <6> QED BY <6>1, <6>2, <6>3
        <5> QED BY <1>4, <5>1, <5>2 DEF Fits
      <4>8. Images(MovesIn(rows, r.ts - History, p.ts) \cup {<<p, r>>})
              = Images(MovesIn(rows, r.ts - History, p.ts)) \cup {a}
        <5>1. <<p, r>>[1] = p /\ <<p, r>>[2] = r
          OBVIOUS
        <5>2. \A M : Images(M \cup {<<p, r>>}) = Images(M) \cup {Activity(<<p, r>>[1], <<p, r>>[2])}
          BY DEF Images
        <5> QED BY <5>1, <5>2
      <4>9. Tells(r, h2, all)
        <5> HIDE DEF h2, a, all
        <5> QED BY <4>2, <4>5, <4>6, <4>7, <4>8 DEF Tells
      <4>10. Fits(r, h2, all)
        <5> HIDE DEF h2, a
        <5> QED BY <1>2, <3>3, <4>5, <4>9 DEF Fits
      <4> HIDE DEF rows2, p2, h2, all, a
      <4> QED BY <3>1, <3>2, <3>3, <4>1, <4>4, <4>9, <4>10
    <3> QED BY <1>1, <2>1, <3>4, <3>5
  <2> QED BY <1>1, <2>1, <2>2, <2>3
<1> QED BY <1>3, <1>4

-----------------------------------------------------------------------------
(* The sums of the window are those over the moves.                        *)

LEMMA SumIsTotal == \A f : Sum(f) = Total(f, DOMAIN f)
BY DEF Sum, Total, FoldFunction, FoldFunctionOnSet

LEMMA SumsAgree ==
    ASSUME NEW p, NEW h, NEW rows, rows # {}, Fits(p, h, rows), Tells(p, h, rows),
           NEW from \in Int, NEW to \in Int, p.ts - History <= from, to <= p.ts
    PROVE  LET places == Between(h, from, to)
               moves  == MovesIn(rows, from, to)
           IN /\ Volume(h, places) = Traded(moves)
              /\ Seconds(h, places) = Elapsed(moves)
<1> DEFINE places == Between(h, from, to)
           moves  == MovesIn(rows, from, to)
           kept   == MovesIn(rows, p.ts - History, p.ts)
           IsOf(i, m) == h[i] = Activity(m[1], m[2])
<1>1. /\ rows \in SUBSET MarketRows /\ Increasing(h)
      /\ h \in Seq(Activities) /\ Len(h) \in Nat /\ DOMAIN h = 1 .. Len(h)
      /\ ToSet(h) = Images(kept)
  BY DEF Fits, Increasing, Tells
<1>2. p.ts \in Int /\ p.ts - History \in Int
  <2>1. p \in MarketRows
    BY <1>1 DEF Fits, IsLatest
  <2> QED BY <2>1, RowIs, ActivityAssumption
<1>3. \A i \in DOMAIN h : h[i] \in Activities /\ h[i].ts \in Int
  <2> SUFFICES ASSUME NEW i \in DOMAIN h PROVE h[i] \in Activities /\ h[i].ts \in Int
    OBVIOUS
  <2>1. h[i] \in Activities
    BY <1>1
  <2> QED BY <2>1 DEF Activities
<1>4. places \in SUBSET DOMAIN h /\ IsFiniteSet(places)
  <2>1. places \in SUBSET (1 .. Len(h))
    BY <1>1 DEF Between
  <2>2. IsFiniteSet(1 .. Len(h))
    BY <1>1, FS_Interval, 1 \in Int
  <2> QED BY <1>1, <2>1, <2>2, FS_Subset
<1>5. ASSUME NEW m \in Moves(rows)
      PROVE  /\ m[1] \in MarketRows /\ m[2] \in MarketRows
             /\ m[1].ts \in Int /\ m[2].ts \in Int
             /\ m[1].volume \in Int /\ m[2].volume \in Int
             /\ Activity(m[1], m[2]).ts = m[2].ts
             /\ Activity(m[1], m[2]).elapsed = m[2].ts - m[1].ts
             /\ Activity(m[1], m[2]).change = m[2].volume - m[1].volume
  <2>1. m[1] \in MarketRows /\ m[2] \in MarketRows
    BY <1>1, MoveIs
  <2> QED BY <2>1, RowIs, ActivityIs
<1>6. moves \in SUBSET Moves(rows) /\ kept \in SUBSET Moves(rows)
  BY DEF MovesIn
<1>7. ASSUME NEW i \in places PROVE \E m \in moves : IsOf(i, m)
  <2>1. h[i] \in Images(kept)
    BY <1>1, <1>4 DEF ToSet
  <2>2. PICK m \in kept : IsOf(i, m)
    BY <2>1 DEF Images
  <2>3. from < m[2].ts /\ m[2].ts <= to
    <3>1. from < h[i].ts /\ h[i].ts <= to
      BY DEF Between
    <3> QED BY <1>5, <1>6, <2>2, <3>1
  <2>4. m \in moves
    BY <2>3 DEF MovesIn
  <2> QED BY <2>2, <2>4
<1>8. ASSUME NEW m \in moves PROVE \E i \in places : IsOf(i, m)
  <2>1. from < m[2].ts /\ m[2].ts <= to /\ m[2].ts \in Int
    BY <1>5, <1>6 DEF MovesIn
  <2>2. p.ts - History < m[2].ts /\ m[2].ts <= p.ts
    BY <1>2, <2>1
  <2>3. m \in kept
    BY <2>2 DEF MovesIn
  <2>4. Activity(m[1], m[2]) \in ToSet(h)
    BY <1>1, <2>3 DEF Images
  <2>5. PICK i \in DOMAIN h : IsOf(i, m)
    BY <2>4 DEF ToSet
  <2>6. h[i].ts = m[2].ts
    BY <1>5, <1>6, <2>5
  <2>7. i \in places
    BY <2>1, <2>6 DEF Between
  <2> QED BY <2>5, <2>7
<1> DEFINE b == [i \in places |-> CHOOSE m \in moves : IsOf(i, m)]
<1>9. \A i \in places : b[i] \in moves /\ IsOf(i, b[i])
  <2> SUFFICES ASSUME NEW i \in places PROVE b[i] \in moves /\ IsOf(i, b[i])
    OBVIOUS
  <2>1. b[i] = CHOOSE m \in moves : IsOf(i, m)
    OBVIOUS
  <2> HIDE DEF b, IsOf, moves, places
  <2> QED BY <1>7, <2>1
<1>10. b \in [places -> moves]
  <2> HIDE DEF places, moves, IsOf
  <2> QED BY <1>9
<1>11. \A i \in places : /\ h[i].ts = b[i][2].ts
                         /\ h[i].elapsed = b[i][2].ts - b[i][1].ts
                         /\ h[i].change = b[i][2].volume - b[i][1].volume
  <2> SUFFICES ASSUME NEW i \in places
               PROVE  /\ h[i].ts = b[i][2].ts
                      /\ h[i].elapsed = b[i][2].ts - b[i][1].ts
                      /\ h[i].change = b[i][2].volume - b[i][1].volume
    OBVIOUS
  <2>1. b[i] \in Moves(rows) /\ h[i] = Activity(b[i][1], b[i][2])
    BY <1>6, <1>9
  <2> HIDE DEF b, places
  <2> QED BY <1>5, <2>1
<1>12. \A i, j \in places : b[i] = b[j] => i = j
  <2> SUFFICES ASSUME NEW i \in places, NEW j \in places, b[i] = b[j] PROVE i = j
    OBVIOUS
  <2>1. h[i].ts = h[j].ts /\ h[i].ts \in Int
    <3> HIDE DEF b, places
    <3> QED BY <1>3, <1>4, <1>11
  <2>2. i \in DOMAIN h /\ j \in DOMAIN h
    <3> HIDE DEF places
    <3> QED BY <1>4
  <2>3. ~(i < j) /\ ~(j < i)
    <3> HIDE DEF b, places
    <3> QED BY <1>1, <2>1, <2>2 DEF Increasing
  <2> HIDE DEF b, places
  <2> QED BY <1>1, <2>2, <2>3
<1>13. \A m \in moves : \E i \in places : b[i] = m
  <2> SUFFICES ASSUME NEW m \in moves PROVE \E i \in places : b[i] = m
    OBVIOUS
  <2>1. PICK i \in places : IsOf(i, m)
    BY <1>8
  <2>2. b[i] \in Moves(rows) /\ m \in Moves(rows) /\ b[i][2].ts = h[i].ts
    <3> HIDE DEF b, places, moves, IsOf
    <3> QED BY <1>6, <1>9, <1>11
  <2>3. h[i].ts = m[2].ts
    <3> HIDE DEF b, places, moves
    <3> QED BY <1>5, <2>1, <2>2
  <2>4. b[i] = m
    <3> HIDE DEF b, places, moves
    <3> QED BY <1>1, <2>2, <2>3, MoveIs
  <2> QED BY <2>4
<1> HIDE DEF b, places, moves
<1>14. Volume(h, places) = Traded(moves)
  <2> DEFINE f == [i \in places |-> Positive(h[i].change)]
             g == [m \in moves |-> Positive(m[2].volume - m[1].volume)]
  <2>1. \A i \in places : f[i] \in Int /\ g[b[i]] = f[i]
    <3> SUFFICES ASSUME NEW i \in places PROVE f[i] \in Int /\ g[b[i]] = f[i]
      OBVIOUS
    <3>1. f[i] = Positive(h[i].change) /\ g[b[i]] = Positive(b[i][2].volume - b[i][1].volume)
      BY <1>9
    <3>2. h[i].change \in Int
      BY <1>3, <1>4 DEF Activities
    <3>3. h[i].change = b[i][2].volume - b[i][1].volume
      BY <1>11
    <3> HIDE DEF f, g
    <3> QED BY <3>1, <3>2, <3>3 DEF Positive
  <2>p. Pairing(b, places, moves, f, g)
    <3> HIDE DEF f, g
    <3> QED BY <1>10, <1>12, <1>13, <2>1 DEF Pairing
  <2>2. Total(g, moves) = Total(f, places)
    <3> HIDE DEF f, g
    <3> QED BY <1>4, <2>p, TotalPaired
  <2>3. DOMAIN f = places /\ DOMAIN g = moves
    OBVIOUS
  <2>4. Volume(h, places) = Sum(f) /\ Traded(moves) = Sum(g)
    BY DEF Volume, Traded
  <2> HIDE DEF f, g
  <2> QED BY <2>2, <2>3, <2>4, SumIsTotal
<1>15. Seconds(h, places) = Elapsed(moves)
  <2> DEFINE f == [i \in places |-> h[i].elapsed]
             g == [m \in moves |-> m[2].ts - m[1].ts]
  <2>1. \A i \in places : f[i] \in Int /\ g[b[i]] = f[i]
    <3> SUFFICES ASSUME NEW i \in places PROVE f[i] \in Int /\ g[b[i]] = f[i]
      OBVIOUS
    <3>1. f[i] = h[i].elapsed /\ g[b[i]] = b[i][2].ts - b[i][1].ts
      BY <1>9
    <3>2. h[i].elapsed \in Int
      BY <1>3, <1>4 DEF Activities
    <3>3. h[i].elapsed = b[i][2].ts - b[i][1].ts
      BY <1>11
    <3> HIDE DEF f, g
    <3> QED BY <3>1, <3>2, <3>3
  <2>p. Pairing(b, places, moves, f, g)
    <3> HIDE DEF f, g
    <3> QED BY <1>10, <1>12, <1>13, <2>1 DEF Pairing
  <2>2. Total(g, moves) = Total(f, places)
    <3> HIDE DEF f, g
    <3> QED BY <1>4, <2>p, TotalPaired
  <2>3. DOMAIN f = places /\ DOMAIN g = moves
    OBVIOUS
  <2>4. Seconds(h, places) = Sum(f) /\ Elapsed(moves) = Sum(g)
    BY DEF Seconds, Elapsed
  <2> HIDE DEF f, g
  <2> QED BY <2>2, <2>3, <2>4, SumIsTotal
<1> QED BY <1>14, <1>15 DEF places, moves

-----------------------------------------------------------------------------
(* The engine, next to the first n of the snapshots in line.               *)

Listings == UNION {[listed -> MarketRows] : listed \in SUBSET Coins}

LEMMA ListingIs ==
    ASSUME NEW rows \in Listings
    PROVE  DOMAIN rows \in SUBSET Coins /\ \A c \in DOMAIN rows : rows[c] \in MarketRows
BY DEF Listings

RowsIn(line, n, c) ==
    LET with == {k \in 1 .. n : c \in DOMAIN line[k]}
    IN {line[k][c] : k \in {k \in with :
            \A m \in with : m < k => line[m][c].ts < line[k][c].ts}}

MarketFits(e, line, n, c) ==
    LET rows == RowsIn(line, n, c)
    IN /\ Fits(e.previous[c], e.history[c], rows)
       /\ \A k \in 1 .. n : c \in DOMAIN line[k] =>
             rows # {} /\ line[k][c].ts <= e.previous[c].ts

EngineFits(e, line, n) ==
    /\ ~e.raised
    /\ \A c \in Coins : MarketFits(e, line, n, c)
    /\ \A market \in e.rolling : \E c \in Coins :
          /\ market = Rolling(c, e.history[c])
          /\ RowsIn(line, n, c) # {}
          /\ Tells(e.previous[c], e.history[c], RowsIn(line, n, c))

LEMMA RowsGrow ==
    ASSUME NEW e, NEW line, NEW n \in Nat, NEW c \in Coins,
           \A k \in 1 .. n + 1 : line[k] \in Listings,
           MarketFits(e, line, n, c)
    PROVE  RowsIn(line, n + 1, c)
             = LET rows == RowsIn(line, n, c)
                   r == line[n + 1][c]
               IN IF c \in DOMAIN line[n + 1] /\ \A s \in rows : s.ts < r.ts
                  THEN rows \cup {r} ELSE rows
<1> DEFINE With(i) == {k \in 1 .. i : c \in DOMAIN line[k]}
           New(k) == \A m \in With(n + 1) : m < k => line[m][c].ts < line[k][c].ts
           rows == RowsIn(line, n, c)
           r == line[n + 1][c]
<1>1. \A i : RowsIn(line, i, c)
               = {line[k][c] : k \in {k \in With(i) :
                    \A m \in With(i) : m < k => line[m][c].ts < line[k][c].ts}}
  BY DEF RowsIn
<1>2. /\ \A k \in With(n + 1) : k \in With(n) \/ k = n + 1
      /\ \A k \in With(n) : k \in With(n + 1) /\ k \in 1 .. n /\ k < n + 1
      /\ n + 1 \in With(n + 1) <=> c \in DOMAIN line[n + 1]
  <2>1. \A k \in 1 .. n + 1 : k \in 1 .. n \/ k = n + 1
    OBVIOUS
  <2>2. \A k \in 1 .. n : k \in 1 .. n + 1 /\ k < n + 1
    OBVIOUS
  <2>3. n + 1 \in 1 .. n + 1
    OBVIOUS
  <2> QED BY <2>1, <2>2, <2>3
<1>3. \A k \in With(n) : New(k) <=>
         \A m \in With(n) : m < k => line[m][c].ts < line[k][c].ts
  <2>1. \A k \in With(n) : ~(n + 1 < k)
    BY <1>2
  <2> HIDE DEF With
  <2> QED BY <1>2, <2>1
<1>4. rows = {line[k][c] : k \in {k \in With(n) : New(k)}}
  <2> HIDE DEF With, New
  <2> QED BY <1>1, <1>3
<1>5. RowsIn(line, n + 1, c) = {line[k][c] : k \in {k \in With(n + 1) : New(k)}}
  BY <1>1
<1>6. ASSUME c \in DOMAIN line[n + 1]
      PROVE  New(n + 1) <=> \A s \in rows : s.ts < r.ts
  <2>1. New(n + 1) <=> \A m \in With(n) : line[m][c].ts < r.ts
    <3> HIDE DEF With
    <3> QED BY <1>2
  <2>2. ASSUME \A m \in With(n) : line[m][c].ts < r.ts
        PROVE  \A s \in rows : s.ts < r.ts
    <3> HIDE DEF With, New, r, rows
    <3> QED BY <1>4, <2>2
  <2>3. ASSUME \A s \in rows : s.ts < r.ts, NEW m \in With(n)
        PROVE  line[m][c].ts < r.ts
    <3>1. m \in 1 .. n /\ c \in DOMAIN line[m] /\ m \in 1 .. n + 1
      BY <1>2
    <3>2. rows # {} /\ line[m][c].ts <= e.previous[c].ts
      BY <3>1 DEF MarketFits
    <3>3. e.previous[c] \in rows /\ rows \in SUBSET MarketRows
      BY <3>2 DEF MarketFits, Fits, IsLatest
    <3>4. line[m][c] \in MarketRows
      BY <3>1, ListingIs
    <3>5. r \in MarketRows
      <4>1. n + 1 \in 1 .. n + 1
        OBVIOUS
      <4> QED BY <1>6, <4>1, ListingIs
    <3>6. e.previous[c].ts < r.ts
      BY <2>3, <3>3
    <3>7. line[m][c].ts \in Int /\ e.previous[c].ts \in Int /\ r.ts \in Int
      BY <3>3, <3>4, <3>5, RowIs
    <3> QED BY <3>2, <3>6, <3>7
  <2> QED BY <2>1, <2>2, <2>3
<1>7. RowsIn(line, n + 1, c)
        = IF c \in DOMAIN line[n + 1] /\ \A s \in rows : s.ts < r.ts
          THEN rows \cup {r} ELSE rows
  <2>1. CASE c \notin DOMAIN line[n + 1]
    <3>1. With(n + 1) = With(n)
      <4> HIDE DEF With
      <4> QED BY <1>2, <2>1
    <3> HIDE DEF With, New, rows
    <3> QED BY <1>4, <1>5, <2>1, <3>1
  <2>2. CASE c \in DOMAIN line[n + 1]
    <3>1. With(n + 1) = With(n) \cup {n + 1}
      <4> HIDE DEF With
      <4> QED BY <1>2, <2>2
    <3>2. {k \in With(n + 1) : New(k)}
            = {k \in With(n) : New(k)} \cup (IF New(n + 1) THEN {n + 1} ELSE {})
      <4> HIDE DEF With, New
      <4> QED BY <3>1
    <3>3. New(n + 1) <=> \A s \in rows : s.ts < r.ts
      BY <1>6, <2>2
    <3>4. CASE New(n + 1)
      <4>1. RowsIn(line, n + 1, c) = rows \cup {r}
        <5> HIDE DEF With, New, rows
        <5> QED BY <1>4, <1>5, <3>2, <3>4
      <4> HIDE DEF With, New, rows, r
      <4> QED BY <2>2, <3>3, <3>4, <4>1
    <3>5. CASE ~New(n + 1)
      <4>1. RowsIn(line, n + 1, c) = rows
        <5> HIDE DEF With, New, rows
        <5> QED BY <1>4, <1>5, <3>2, <3>5
      <4> HIDE DEF With, New, rows, r
      <4> QED BY <2>2, <3>3, <3>5, <4>1
    <3> QED BY <3>4, <3>5
  <2> QED BY <2>1, <2>2
<1> QED BY <1>7

(* One update.                                                             *)
LEMMA MarketFitsNext ==
    ASSUME NEW e, NEW line, NEW n \in Nat, NEW c \in Coins,
           \A k \in 1 .. n + 1 : line[k] \in Listings,
           MarketFits(e, line, n, c)
    PROVE  LET rows == line[n + 1]
               u == Update(e, rows)
               active == c \in DOMAIN rows /\ Comparable(e.previous[c], rows[c])
           IN /\ MarketFits(u, line, n + 1, c)
              /\ active => /\ ~OutOfOrder(e.history[c], Activity(e.previous[c], rows[c]))
                           /\ RowsIn(line, n + 1, c) # {}
                           /\ Tells(u.previous[c], u.history[c], RowsIn(line, n + 1, c))
<1> DEFINE rows == line[n + 1]
           u == Update(e, rows)
           active == c \in DOMAIN rows /\ Comparable(e.previous[c], rows[c])
           was == RowsIn(line, n, c)
           is == RowsIn(line, n + 1, c)
           p == e.previous[c]
           h == e.history[c]
           r == rows[c]
           p2 == u.previous[c]
           h2 == u.history[c]
<1> SUFFICES /\ MarketFits(u, line, n + 1, c)
             /\ active => /\ ~OutOfOrder(h, Activity(p, r))
                          /\ is # {} /\ Tells(p2, h2, is)
  OBVIOUS
<1>1. /\ p2 = IF c \in DOMAIN rows THEN Newest(p, r) ELSE p
      /\ h2 = IF active THEN Extended(h, Activity(p, r)) ELSE h
  BY DEF Update
<1>2. /\ Fits(p, h, was)
      /\ \A k \in 1 .. n : c \in DOMAIN line[k] => was # {} /\ line[k][c].ts <= p.ts
  BY DEF MarketFits
<1>3. is = IF c \in DOMAIN rows /\ \A s \in was : s.ts < r.ts THEN was \cup {r} ELSE was
  BY RowsGrow
<1>4. \A k \in 1 .. n + 1 : k \in 1 .. n \/ k = n + 1
  OBVIOUS
<1>5. CASE c \notin DOMAIN rows
  <2>1. p2 = p /\ h2 = h /\ is = was /\ ~active
    <3> HIDE DEF p2, h2, is, was
    <3> QED BY <1>1, <1>3, <1>5
  <2>2. /\ Fits(p2, h2, is)
        /\ \A k \in 1 .. n + 1 : c \in DOMAIN line[k] => is # {} /\ line[k][c].ts <= p2.ts
    <3> HIDE DEF p2, h2, is, was, p, h
    <3> QED BY <1>2, <1>4, <1>5, <2>1
  <2>3. MarketFits(u, line, n + 1, c)
    BY <2>2 DEF MarketFits
  <2> QED BY <2>1, <2>3
<1>6. CASE c \in DOMAIN rows
  <2>1. r \in MarketRows /\ r.ts \in Int
    <3>1. n + 1 \in 1 .. n + 1
      OBVIOUS
    <3>2. r \in MarketRows
      BY <1>6, <3>1, ListingIs
    <3> QED BY <3>2, RowIs
  <2>2. /\ Fits(p2, h2, is)
        /\ is # {} /\ r.ts <= p2.ts
        /\ active => ~OutOfOrder(h, Activity(p, r)) /\ Tells(p2, h2, is)
    <3>1. /\ p2 = Newest(p, r)
          /\ h2 = IF Comparable(p, r) THEN Extended(h, Activity(p, r)) ELSE h
          /\ active <=> Comparable(p, r)
          /\ is = IF \A s \in was : s.ts < r.ts THEN was \cup {r} ELSE was
      <4> HIDE DEF p2, h2, is, was
      <4> QED BY <1>1, <1>3, <1>6
    <3> HIDE DEF p2, h2, is, was, p, h, r, active
    <3> QED BY <1>2, <2>1, <3>1, RowFits
  <2>3. was # {} => p.ts <= p2.ts /\ p.ts \in Int
    <3> SUFFICES ASSUME was # {} PROVE p.ts <= p2.ts /\ p.ts \in Int
      OBVIOUS
    <3>1. p \in was /\ was \in SUBSET MarketRows
      <4> HIDE DEF was, p, h
      <4> QED BY <1>2 DEF Fits, IsLatest
    <3>2. p \in is
      <4> HIDE DEF is, was, p, r, rows
      <4> QED BY <1>3, <3>1
    <3>3. p.ts \in Int
      <4> HIDE DEF was, p
      <4> QED BY <3>1, RowIs
    <3> HIDE DEF is, was, p, p2, h2
    <3> QED BY <2>2, <3>2, <3>3 DEF Fits, IsLatest
  <2>4. p2.ts \in Int
    <3> HIDE DEF p2, h2, is
    <3>1. p2 \in MarketRows
      BY <2>2 DEF Fits, IsLatest
    <3> QED BY <3>1, RowIs
  <2>5. ASSUME NEW k \in 1 .. n + 1, c \in DOMAIN line[k]
        PROVE  is # {} /\ line[k][c].ts <= p2.ts
    <3>1. CASE k = n + 1
      BY <2>2, <3>1
    <3>2. CASE k \in 1 .. n
      <4>1. was # {} /\ line[k][c].ts <= p.ts
        BY <1>2, <2>5, <3>2
      <4>2. line[k][c].ts \in Int
        <5>1. line[k][c] \in MarketRows
          BY <2>5, ListingIs
        <5> QED BY <5>1, RowIs
      <4> HIDE DEF is, was, p, p2
      <4> QED BY <2>2, <2>3, <2>4, <4>1, <4>2
    <3> QED BY <1>4, <3>1, <3>2
  <2>6. MarketFits(u, line, n + 1, c)
    BY <2>2, <2>5 DEF MarketFits
  <2> QED BY <2>2, <2>6
<1> QED BY <1>5, <1>6

LEMMA EngineFitsNext ==
    ASSUME NEW e, NEW line, NEW n \in Nat,
           \A k \in 1 .. n + 1 : line[k] \in Listings,
           EngineFits(e, line, n)
    PROVE  EngineFits(Update(e, line[n + 1]), line, n + 1)
<1> DEFINE rows == line[n + 1]
           u == Update(e, rows)
           active == {c \in DOMAIN rows : Comparable(e.previous[c], rows[c])}
<1>1. rows \in Listings /\ active \in SUBSET Coins
  <2>1. n + 1 \in 1 .. n + 1
    OBVIOUS
  <2>2. rows \in Listings
    BY <2>1
  <2> QED BY <2>2, ListingIs
<1>2. ~e.raised /\ \A c \in Coins : MarketFits(e, line, n, c)
  BY DEF EngineFits
<1>3. \A c \in Coins : MarketFits(u, line, n + 1, c)
  BY <1>2, MarketFitsNext
<1>4. \A c \in active :
         /\ ~OutOfOrder(e.history[c], Activity(e.previous[c], rows[c]))
         /\ RowsIn(line, n + 1, c) # {}
         /\ Tells(u.previous[c], u.history[c], RowsIn(line, n + 1, c))
  BY <1>1, <1>2, MarketFitsNext
<1>5. /\ u.rolling = {Rolling(c, u.history[c]) : c \in active}
      /\ u.raised <=> e.raised \/ \E c \in active :
            OutOfOrder(e.history[c], Activity(e.previous[c], rows[c]))
  BY <1>1 DEF Update
<1>6. ~u.raised
  <2> HIDE DEF u, active, rows
  <2> QED BY <1>2, <1>4, <1>5
<1>7. ASSUME NEW market \in u.rolling
      PROVE  \E c \in Coins :
                /\ market = Rolling(c, u.history[c])
                /\ RowsIn(line, n + 1, c) # {}
                /\ Tells(u.previous[c], u.history[c], RowsIn(line, n + 1, c))
  <2> HIDE DEF u, active, rows
  <2>1. PICK c \in active : market = Rolling(c, u.history[c])
    BY <1>5
  <2> QED BY <1>1, <1>4, <2>1
<1> HIDE DEF u
<1>8. EngineFits(u, line, n + 1)
  BY <1>3, <1>6, <1>7 DEF EngineFits
<1> QED BY <1>8 DEF u

-----------------------------------------------------------------------------
(* The snapshots of a file, one after the other.                           *)

Rollings == {Rolling(c, h) : c \in Coins, h \in Seq(Activities)}

Engines ==
    [previous : [Coins -> MarketRows \cup {NoRow}],
     history  : [Coins -> Seq(Activities)],
     rolling  : SUBSET Rollings,
     raised   : BOOLEAN]

LEMMA ExtendedType ==
    ASSUME NEW h \in Seq(Activities), NEW a \in Activities
    PROVE  Extended(h, a) \in Seq(Activities)
<1> DEFINE gap == h # <<>> /\ a.ts - Last(h).ts > MaxGap
           kept == IF gap THEN <<>> ELSE h
           t == Append(kept, a)
           cutoff == a.ts - History
<1>1. cutoff \in Int /\ cutoff < a.ts
  <2>1. a.ts \in Int
    BY DEF Activities
  <2>2. History \in Int /\ 0 < History
    BY ActivityAssumption
  <2> QED BY <2>1, <2>2
<1>2. kept \in Seq(Activities)
  OBVIOUS
<1>3. t \in Seq(Activities) /\ t # <<>> /\ Last(t) = a
  <2> HIDE DEF kept
  <2>1. /\ t \in Seq(Activities) /\ Len(t) = Len(kept) + 1 /\ Len(kept) \in Nat
        /\ t[Len(t)] = a
    BY <1>2, AppendProperties
  <2> HIDE DEF t
  <2> QED BY <2>1 DEF Last
<1>4. PICK k \in 1 .. Len(t) : Since(t, cutoff) = SubSeq(t, k, Len(t))
  <2> HIDE DEF t, cutoff
  <2> QED BY <1>1, <1>3, SinceIs
<1>5. Since(t, cutoff) \in Seq(Activities)
  <2> HIDE DEF t
  <2>1. t \in Seq(Activities) /\ Len(t) \in Nat /\ k \in Int /\ 1 <= k /\ k <= Len(t)
    BY <1>3
  <2>2. SubSeq(t, k, Len(t)) \in Seq(Activities)
    BY <2>1, SubSeqProperties
  <2> QED BY <1>4, <2>2
<1> QED BY <1>5 DEF Extended

LEMMA UpdateType ==
    ASSUME NEW e \in Engines, NEW rows \in Listings
    PROVE  Update(e, rows) \in Engines
<1> DEFINE active == {c \in DOMAIN rows : Comparable(e.previous[c], rows[c])}
           New(c) == Activity(e.previous[c], rows[c])
           history == [c \in Coins |-> IF c \in active
                                       THEN Extended(e.history[c], New(c))
                                       ELSE e.history[c]]
           previous == [c \in Coins |-> IF c \in DOMAIN rows
                                        THEN Newest(e.previous[c], rows[c])
                                        ELSE e.previous[c]]
           rolling == {Rolling(c, history[c]) : c \in active}
           raised == e.raised \/ \E c \in active : OutOfOrder(e.history[c], New(c))
<1>1. /\ \A c \in Coins : e.previous[c] \in MarketRows \cup {NoRow}
      /\ \A c \in Coins : e.history[c] \in Seq(Activities)
      /\ e.raised \in BOOLEAN
  BY DEF Engines
<1>2. DOMAIN rows \in SUBSET Coins /\ \A c \in DOMAIN rows : rows[c] \in MarketRows
  BY ListingIs
<1>3. \A c \in active : c \in Coins /\ New(c) \in Activities
  <2> SUFFICES ASSUME NEW c \in active PROVE c \in Coins /\ New(c) \in Activities
    OBVIOUS
  <2>1. c \in Coins /\ rows[c] \in MarketRows /\ e.previous[c] # NoRow
    BY <1>2 DEF Comparable
  <2>2. e.previous[c] \in MarketRows
    BY <1>1, <2>1
  <2> QED BY <2>1, <2>2, ActivityIs
<1>4. history \in [Coins -> Seq(Activities)]
  <2>1. \A c \in active : Extended(e.history[c], New(c)) \in Seq(Activities)
    <3> HIDE DEF active, New
    <3> QED BY <1>1, <1>3, ExtendedType
  <2> HIDE DEF active, New
  <2> QED BY <1>1, <2>1
<1>5. previous \in [Coins -> MarketRows \cup {NoRow}]
  <2>1. \A c \in DOMAIN rows : Newest(e.previous[c], rows[c]) \in MarketRows \cup {NoRow}
    BY <1>1, <1>2 DEF Newest
  <2> QED BY <1>1, <2>1
<1>6. rolling \in SUBSET Rollings
  <2> HIDE DEF history, active
  <2> QED BY <1>3, <1>4 DEF Rollings
<1>7. raised \in BOOLEAN
  BY <1>1
<1>8. Update(e, rows) = [previous |-> previous, history |-> history,
                         rolling |-> rolling, raised |-> raised]
  BY DEF Update
<1> HIDE DEF previous, history, rolling, raised
<1> QED BY <1>4, <1>5, <1>6, <1>7, <1>8 DEF Engines

UpdateFolds(g, e, seq) ==
    g = [s \in SUBSET DOMAIN seq |->
           IF s = {} THEN e ELSE Update(g[s \ {Max(s)}], seq[Max(s)])]

LEMMA UpdateIsChosen ==
    \A e, seq : FoldLeft(Update, e, seq)
                  = (CHOOSE g : UpdateFolds(g, e, seq))[DOMAIN seq]
BY DEF FoldLeft, MapThenFoldSet, UpdateFolds

LEMMA FeedFits ==
    ASSUME NEW e \in Engines, NEW line, NEW m \in Nat, NEW seq \in Seq(Listings),
           \A k \in 1 .. m + Len(seq) : line[k] \in Listings,
           \A i \in 1 .. Len(seq) : seq[i] = line[m + i],
           EngineFits(e, line, m)
    PROVE  LET u == FoldLeft(Update, e, seq)
           IN u \in Engines /\ EngineFits(u, line, m + Len(seq))
<1> DEFINE n == Len(seq)
           step == [p \in Engines \X Listings |-> Update(p[1], p[2])]
           Reach == {p \in (0 .. n) \X Engines : EngineFits(p[2], line, m + p[1])}
           g == CHOOSE f : UpdateFolds(f, e, seq)
<1>1. n \in Nat /\ DOMAIN seq = 1 .. n /\ seq \in [1 .. n -> Listings]
  OBVIOUS
<1>2. step \in [Engines \X Listings -> Engines]
  BY UpdateType
<1>3. UpdateFolds(g, e, seq)
  <2>1. PICK f \in [SUBSET (1 .. n) -> Engines] :
           \A s \in SUBSET (1 .. n) :
              f[s] = IF s = {} THEN e ELSE step[<<f[s \ {Max(s)}], seq[Max(s)]>>]
    <3> HIDE DEF n, step
    <3>1. HasFold(Engines, step, e, seq, n)
      BY <1>1, <1>2, FoldExists
    <3> QED BY <3>1 DEF HasFold
  <2>2. ASSUME NEW s \in SUBSET (1 .. n), s # {}
        PROVE  f[s] = Update(f[s \ {Max(s)}], seq[Max(s)])
    <3>1. Max(s) \in s
      <4> HIDE DEF n
      <4> QED BY <1>1, <2>2, SomeLast
    <3>2. f[s \ {Max(s)}] \in Engines /\ seq[Max(s)] \in Listings
      <4> HIDE DEF n
      <4> QED BY <1>1, <3>1
    <3>3. \A a \in Engines, l \in Listings : step[<<a, l>>] = Update(a, l)
      OBVIOUS
    <3>4. f[s] = step[<<f[s \ {Max(s)}], seq[Max(s)]>>]
      <4> HIDE DEF step, n
      <4> QED BY <2>1, <2>2
    <3> HIDE DEF step, n
    <3> QED BY <3>2, <3>3, <3>4
  <2>3. f = [s \in SUBSET DOMAIN seq |->
               IF s = {} THEN e ELSE Update(f[s \ {Max(s)}], seq[Max(s)])]
    <3> HIDE DEF n, step
    <3> QED BY <1>1, <2>1, <2>2
  <2>4. UpdateFolds(f, e, seq)
    BY <2>3 DEF UpdateFolds
  <2> QED BY <2>4
<1> HIDE DEF g
<1>4. /\ g[{}] = e
      /\ \A s \in SUBSET (1 .. n) : s # {} => g[s] = Update(g[s \ {Max(s)}], seq[Max(s)])
  BY <1>1, <1>3 DEF UpdateFolds
<1>5. \A i, acc : <<i, acc>> \in Reach <=>
         i \in 0 .. n /\ acc \in Engines /\ EngineFits(acc, line, m + i)
  OBVIOUS
<1> HIDE DEF Reach, n
<1>6. <<n, g[1 .. n]>> \in Reach
  <2>1. <<0, g[{}]>> \in Reach
    <3>1. m + 0 = m /\ 0 \in 0 .. n
      BY <1>1
    <3> QED BY <1>4, <1>5, <3>1
  <2>2. ASSUME NEW i \in 1 .. n, <<i - 1, g[(1 .. i) \ {Max(1 .. i)}]>> \in Reach
        PROVE  <<i, g[1 .. i]>> \in Reach
    <3> DEFINE a == g[(1 .. i) \ {Max(1 .. i)}]
    <3>1. g[1 .. i] = Update(a, seq[i])
      BY <1>1, <1>4, InitialSegments
    <3>2. a \in Engines /\ EngineFits(a, line, m + (i - 1))
      <4>1. <<i - 1, a>> \in Reach
        BY <2>2
      <4> HIDE DEF a
      <4> QED BY <4>1, <1>5
    <3>3. seq[i] \in Listings /\ seq[i] = line[m + i]
      BY <1>1 DEF n
    <3>4. EngineFits(Update(a, seq[i]), line, m + i)
      <4>1. PICK q \in Nat : q = m + (i - 1) /\ q + 1 = m + i
        BY <1>1
      <4>2. \A k \in 1 .. q + 1 : line[k] \in Listings
        <5>1. \A k \in 1 .. q + 1 : k \in 1 .. m + n
          BY <1>1, <4>1
        <5> QED BY <5>1 DEF n
      <4> HIDE DEF a
      <4>3. EngineFits(Update(a, line[q + 1]), line, q + 1)
        BY <3>2, <4>1, <4>2, EngineFitsNext
      <4> QED BY <3>3, <4>1, <4>3
    <3>5. Update(a, seq[i]) \in Engines
      <4> HIDE DEF a
      <4> QED BY <3>2, <3>3, UpdateType
    <3>6. i \in 0 .. n
      BY <1>1
    <3> HIDE DEF a
    <3> QED BY <3>1, <3>4, <3>5, <3>6, <1>5
  <2> QED BY <1>1, <2>1, <2>2, FoldReaches
<1>7. FoldLeft(Update, e, seq) = g[1 .. n]
  BY <1>1, UpdateIsChosen DEF g
<1>8. g[1 .. n] \in Engines /\ EngineFits(g[1 .. n], line, m + n)
  BY <1>5, <1>6
<1> QED BY <1>7, <1>8 DEF n

-----------------------------------------------------------------------------
(* The engine of the scanner, next to what was fed to it.                  *)

FilesHoldRows == \A d \in Days : files[d] \in Seq(Listings)

FedLine == [k \in 1 .. Len(fed) |-> Snapshot(k)]

EngineInv ==
    /\ FilesHoldRows
    /\ engine \in Engines
    /\ EngineFits(engine, FedLine, Len(fed))

LEMMA SameLine ==
    ASSUME NEW e, NEW line, NEW other, NEW n \in Nat,
           \A k \in 1 .. n : line[k] = other[k],
           EngineFits(e, line, n)
    PROVE  EngineFits(e, other, n)
<1>1. ASSUME NEW c PROVE RowsIn(line, n, c) = RowsIn(other, n, c)
  <2> DEFINE With(l) == {k \in 1 .. n : c \in DOMAIN l[k]}
             New(l) == {k \in With(l) : \A m \in With(l) : m < k => l[m][c].ts < l[k][c].ts}
  <2>1. With(line) = With(other) /\ \A k \in With(line) : line[k] = other[k]
    OBVIOUS
  <2>2. New(line) = New(other) /\ \A k \in New(line) : line[k] = other[k]
    <3> HIDE DEF With
    <3> QED BY <2>1
  <2>3. /\ RowsIn(line, n, c) = {line[k][c] : k \in New(line)}
        /\ RowsIn(other, n, c) = {other[k][c] : k \in New(other)}
    BY DEF RowsIn
  <2> HIDE DEF New
  <2> QED BY <2>2, <2>3
<1>2. \A c \in Coins : MarketFits(e, other, n, c)
  <2> SUFFICES ASSUME NEW c \in Coins PROVE MarketFits(e, other, n, c)
    OBVIOUS
  <2>1. MarketFits(e, line, n, c)
    BY DEF EngineFits
  <2> QED BY <1>1, <2>1 DEF MarketFits
<1> QED BY <1>1, <1>2 DEF EngineFits

LEMMA EngineInit == ASSUME Init PROVE EngineInv
<1>1. FilesHoldRows /\ fed = <<>> /\ engine = NewEngine /\ Len(fed) = 0
  BY DEF Init, FilesHoldRows, Days
<1>2. engine \in Engines
  <2>1. NewEngine.previous \in [Coins -> MarketRows \cup {NoRow}]
    BY DEF NewEngine
  <2>2. NewEngine.history \in [Coins -> Seq(Activities)]
    BY DEF NewEngine
  <2> QED BY <1>1, <2>1, <2>2 DEF NewEngine, Engines
<1>3. \A line, c : RowsIn(line, 0, c) = {}
  <2> SUFFICES ASSUME NEW line, NEW c PROVE RowsIn(line, 0, c) = {}
    OBVIOUS
  <2>1. {k \in 1 .. 0 : c \in DOMAIN line[k]} = {}
    OBVIOUS
  <2> QED BY <2>1 DEF RowsIn
<1>4. ASSUME NEW c \in Coins PROVE MarketFits(engine, FedLine, 0, c)
  <2>1. engine.previous[c] = NoRow /\ engine.history[c] = <<>>
    BY <1>1 DEF NewEngine
  <2>2. Increasing(<<>>)
    BY DEF Increasing
  <2>3. Fits(NoRow, <<>>, {})
    BY <2>2 DEF Fits
  <2>4. RowsIn(FedLine, 0, c) = {}
    BY <1>3
  <2>5. \A k \in 1 .. 0 : FALSE
    OBVIOUS
  <2> QED BY <2>1, <2>3, <2>4, <2>5 DEF MarketFits
<1>5. ~engine.raised /\ engine.rolling = {}
  BY <1>1 DEF NewEngine
<1> QED BY <1>1, <1>2, <1>4, <1>5 DEF EngineInv, EngineFits

(* A step that feeds nothing.                                              *)
LEMMA EngineRests ==
    ASSUME ScanInv, EngineInv, FilesHoldRows', engine' = engine, fed' = fed,
           \A d \in Days, i \in Nat : i \in 1 .. Len(files[d]) => files'[d][i] = files[d][i]
    PROVE  EngineInv'
<1>1. Len(fed) \in Nat /\ DOMAIN fed = 1 .. Len(fed)
  BY DEF ScanInv, ScanType
<1>2. ASSUME NEW k \in 1 .. Len(fed)
      PROVE  files'[fed[k][1]][fed[k][2]] = files[fed[k][1]][fed[k][2]]
  <2>1. fed[k] \in Marked
    BY <1>1 DEF Marked, ToSet
  <2>2. fed[k][1] \in Days /\ fed[k][2] \in 1 .. Len(files[fed[k][1]])
    BY <2>1 DEF ScanInv, MarksArePrefixes
  <2>3. fed[k][2] \in Nat
    <3>1. fed[k] \in Int \X Nat
      BY <1>1 DEF ScanInv, ScanType
    <3> QED BY <3>1
  <2> QED BY <2>2, <2>3
<1>3. FedLine' = FedLine
  BY <1>2 DEF FedLine, Snapshot
<1> QED BY <1>3 DEF EngineInv

LEMMA CollectHoldsRows ==
    ASSUME ScanType, FilesHoldRows, Collect
    PROVE  /\ FilesHoldRows'
           /\ \A d \in Days, i \in Nat : i \in 1 .. Len(files[d]) => files'[d][i] = files[d][i]
<1>1. PICK step \in Steps, listed \in SUBSET Coins :
          LET ts == clock + step
              day == ts \div DayLength
              rows == [c \in listed |-> [ts |-> ts, volume |-> VolumeAt[ts]]]
          IN /\ ts \in DOMAIN VolumeAt
             /\ files' = [d \in Days \union {day} |->
                            (IF d \in Days THEN files[d] ELSE <<>>)
                              \o (IF d = day THEN <<rows>> ELSE <<>>)]
  BY DEF Collect
<1> DEFINE ts == clock + step
           day == ts \div DayLength
           rows == [c \in listed |-> [ts |-> ts, volume |-> VolumeAt[ts]]]
           old(d) == IF d \in Days THEN files[d] ELSE <<>>
           new(d) == IF d = day THEN <<rows>> ELSE <<>>
<1> HIDE DEF ts
<1>2. rows \in Listings
  <2>1. [ts |-> ts, volume |-> VolumeAt[ts]] \in MarketRows
    BY <1>1 DEF MarketRows, ts
  <2>2. rows \in [listed -> MarketRows]
    BY <2>1
  <2> HIDE DEF rows
  <2> QED BY <2>2 DEF Listings
<1>3. files' = [d \in Days \union {day} |-> old(d) \o new(d)]
  BY <1>1 DEF ts
<1> HIDE DEF day, rows
<1>4. Days' = Days \union {day}
  BY <1>3 DEF Days
<1>5. ASSUME NEW d \in Days'
      PROVE  /\ files'[d] \in Seq(Listings)
             /\ d \in Days => \A i \in Nat : i \in 1 .. Len(files[d]) => files'[d][i] = files[d][i]
  <2>1. old(d) \in Seq(Listings) /\ new(d) \in Seq(Listings)
    BY <1>2 DEF FilesHoldRows
  <2>2. files'[d] = old(d) \o new(d)
    BY <1>3, <1>4
  <2>3. d \in Days => old(d) = files[d]
    OBVIOUS
  <2> HIDE DEF old, new
  <2>4. /\ old(d) \o new(d) \in Seq(Listings)
        /\ \A i \in 1 .. Len(old(d)) : (old(d) \o new(d))[i] = old(d)[i]
    <3>1. PICK a, b : a = old(d) /\ b = new(d)
      OBVIOUS
    <3>2. a \in Seq(Listings) /\ b \in Seq(Listings)
      BY <2>1, <3>1
    <3>3. a \o b \in Seq(Listings) /\ \A i \in 1 .. Len(a) : (a \o b)[i] = a[i]
      BY <3>2, ConcatProperties
    <3> QED BY <3>1, <3>3
  <2> QED BY <2>2, <2>3, <2>4
<1>6. Days \subseteq Days'
  BY <1>4
<1> QED BY <1>5, <1>6 DEF FilesHoldRows

LEMMA FeedKeepsEngine ==
    ASSUME ScanInv, EngineInv, NEW day \in Days, NEW from \in 1 .. Len(files[day]) + 1,
           Feed(day, from), files' = files
    PROVE  EngineInv'
<1> DEFINE m == Len(fed)
           k == Len(files[day]) - from + 1
           rest == SubSeq(files[day], from, Len(files[day]))
<1>1. /\ m \in Nat /\ Len(files[day]) \in Nat /\ from \in Int /\ k \in Nat
      /\ files[day] \in Seq(Listings)
  BY DEF ScanInv, ScanType, EngineInv, FilesHoldRows
<1>2. /\ rest \in Seq(Listings) /\ Len(rest) = k
      /\ \A i \in 1 .. k : rest[i] = files[day][from + i - 1]
  <2>1. PICK s, last : s = files[day] /\ last = Len(files[day])
    OBVIOUS
  <2>2. s \in Seq(Listings) /\ last = Len(s) /\ last \in Int /\ from \in Int
        /\ \A i \in from .. last : s[i] \in Listings
    BY <1>1, <2>1
  <2>3. /\ SubSeq(s, from, last) \in Seq(Listings)
        /\ Len(SubSeq(s, from, last)) = IF from <= last THEN last - from + 1 ELSE 0
        /\ \A i \in 1 .. last - from + 1 : SubSeq(s, from, last)[i] = s[from + i - 1]
    BY <2>2, SubSeqProperties
  <2>4. k = IF from <= last THEN last - from + 1 ELSE 0
    BY <1>1, <2>1
  <2> HIDE DEF k
  <2> QED BY <2>1, <2>3, <2>4 DEF k
<1>3. /\ Len(fed') = m + k
      /\ \A n \in 1 .. m : fed'[n] = fed[n]
      /\ \A n \in m + 1 .. m + k : fed'[n] = <<day, from + (n - m) - 1>>
  <2>1. /\ Len(fed') = m + Len(files[day]) - from + 1
        /\ \A n \in 1 .. m : fed'[n] = fed[n]
        /\ \A n \in m + 1 .. Len(fed') : fed'[n] = <<day, from + (n - m) - 1>>
    BY FeedMarks DEF ScanInv
  <2>2. Len(fed') = m + k
    BY <1>1, <2>1
  <2> HIDE DEF k, m
  <2> QED BY <2>1, <2>2
<1> HIDE DEF k
<1>4. PICK line : line = FedLine'
  OBVIOUS
<1>5. \A n \in 1 .. m + k : line[n] = files[fed'[n][1]][fed'[n][2]]
  BY <1>3, <1>4 DEF FedLine, Snapshot
<1>6. \A n \in 1 .. m : line[n] = FedLine[n] /\ line[n] \in Listings
  <2> SUFFICES ASSUME NEW n \in 1 .. m PROVE line[n] = FedLine[n] /\ line[n] \in Listings
    OBVIOUS
  <2>1. n \in 1 .. m + k
    BY <1>1
  <2>2. line[n] = files[fed[n][1]][fed[n][2]]
    BY <1>3, <1>5, <2>1
  <2>3. fed[n] \in Marked
    BY DEF Marked, ToSet, ScanInv, ScanType
  <2>4. fed[n][1] \in Days /\ fed[n][2] \in 1 .. Len(files[fed[n][1]])
    BY <2>3 DEF ScanInv, MarksArePrefixes
  <2>5. files[fed[n][1]] \in Seq(Listings)
    BY <2>4 DEF EngineInv, FilesHoldRows
  <2>6. files[fed[n][1]][fed[n][2]] \in Listings
    BY <2>4, <2>5
  <2> QED BY <2>2, <2>6 DEF FedLine, Snapshot
<1>7. \A i \in 1 .. k : rest[i] = line[m + i] /\ line[m + i] \in Listings
  <2> SUFFICES ASSUME NEW i \in 1 .. k
               PROVE  rest[i] = line[m + i] /\ line[m + i] \in Listings
    OBVIOUS
  <2>1. m + i \in 1 .. m + k /\ m + i \in m + 1 .. m + k /\ from + ((m + i) - m) - 1 = from + i - 1
    BY <1>1
  <2>2. fed'[m + i] = <<day, from + i - 1>>
    BY <1>3, <2>1
  <2>3. line[m + i] = files[day][from + i - 1]
    BY <1>5, <2>1, <2>2
  <2>4. rest[i] \in Listings
    <3> HIDE DEF rest
    <3> QED BY <1>2
  <2> QED BY <1>2, <2>3, <2>4
<1>8. \A n \in 1 .. m + k : line[n] \in Listings
  <2> SUFFICES ASSUME NEW n \in 1 .. m + k PROVE line[n] \in Listings
    OBVIOUS
  <2>1. CASE n <= m
    <3>1. n \in 1 .. m
      BY <1>1, <2>1
    <3> QED BY <1>6, <3>1
  <2>2. CASE n > m
    <3>1. n - m \in 1 .. k /\ m + (n - m) = n
      BY <1>1, <2>2
    <3> QED BY <1>7, <3>1
  <2> QED BY <1>1, <2>1, <2>2
<1>9. EngineFits(engine, line, m)
  <2>1. EngineFits(engine, FedLine, m)
    BY DEF EngineInv
  <2> HIDE DEF m
  <2> QED BY <1>1, <1>6, <2>1, SameLine
<1>10. engine' = FoldLeft(Update, engine, rest)
  BY DEF Feed
<1>11. engine' \in Engines /\ EngineFits(engine', line, m + k)
  <2>1. PICK e, s : e = engine /\ s = rest
    OBVIOUS
  <2>2. e \in Engines /\ s \in Seq(Listings) /\ Len(s) = k
    BY <1>2, <2>1 DEF EngineInv
  <2> HIDE DEF m, rest
  <2>3. \A n \in 1 .. m + Len(s) : line[n] \in Listings
    BY <1>8, <2>2
  <2>4. \A i \in 1 .. Len(s) : s[i] = line[m + i]
    BY <1>7, <2>1, <2>2
  <2>5. EngineFits(e, line, m)
    BY <1>9, <2>1
  <2>6. LET u == FoldLeft(Update, e, s)
        IN u \in Engines /\ EngineFits(u, line, m + Len(s))
    BY <1>1, <2>2, <2>3, <2>4, <2>5, FeedFits
  <2> QED BY <1>10, <2>1, <2>2, <2>6
<1>12. FilesHoldRows'
  BY DEF EngineInv, FilesHoldRows, Days
<1> QED BY <1>3, <1>4, <1>11, <1>12 DEF EngineInv

LEMMA EngineNext == ASSUME ScanInv, EngineInv, [Next]_vars PROVE EngineInv'
<1>1. CASE Collect
  <2>1. engine' = engine /\ fed' = fed
    BY <1>1 DEF Collect, scannerVars
  <2> QED BY <1>1, <2>1, CollectHoldsRows, EngineRests DEF ScanInv, EngineInv
<1>2. CASE Start \/ TakeSize \/ Poll \/ UNCHANGED vars
  <2>1. engine' = engine /\ fed' = fed /\ files' = files
    BY <1>2 DEF Start, TakeSize, Poll, vars, collectorVars, scannerVars
  <2>2. FilesHoldRows'
    BY <2>1 DEF EngineInv, FilesHoldRows, Days
  <2> QED BY <2>1, <2>2, EngineRests
<1>3. CASE ReplayFile
  <2>1. PICK day \in todo : Feed(day, 1)
    BY <1>3 DEF ReplayFile
  <2>2. day \in Days /\ files' = files
    BY <1>3 DEF ReplayFile, collectorVars, ScanInv, ScanType
  <2>3. 1 \in 1 .. Len(files[day]) + 1
    BY <2>2 DEF EngineInv, FilesHoldRows
  <2> QED BY <2>1, <2>2, <2>3, FeedKeepsEngine
<1>4. CASE Read
  <2>1. Feed(current, offset + 1) /\ files' = files /\ pc = "read"
    BY <1>4 DEF Read, collectorVars
  <2>2. current \in Days /\ offset \in Nat /\ offset <= Len(files[current])
    BY <2>1 DEF ScanInv, ScanType, ScanPlace
  <2>3. offset + 1 \in 1 .. Len(files[current]) + 1
    BY <2>2 DEF EngineInv, FilesHoldRows
  <2> QED BY <2>1, <2>2, <2>3, FeedKeepsEngine
<1> QED BY <1>1, <1>2, <1>3, <1>4 DEF Next

(* Next to every market it keeps what its rows say, whatever the files, the  *)
(* days and the jumps of the clock.                                        *)
THEOREM EngineInvHolds == Spec => []EngineInv
<1>1. Init => EngineInv
  BY EngineInit
<1>2. ScanInv /\ EngineInv /\ [Next]_vars => EngineInv'
  BY EngineNext
<1> QED BY <1>1, <1>2, ScanInvHolds, PTL DEF Spec

LEMMA EngineInvSays == ASSUME ScanInv, EngineInv PROVE ActivityMatchesHistory
<1>1. ~engine.raised
  BY DEF EngineInv, EngineFits
<1>2. ASSUME NEW market \in engine.rolling
      PROVE  LET rows == RowsOf(market.coin)
                 now == Latest(rows).ts
                 before == MovesIn(rows, now - Baseline, now - Recent)
             IN /\ rows # {}
                /\ market.ts = now
                /\ market.recent = Traded(MovesIn(rows, now - Recent, now))
                /\ market.baseline = Traded(before)
                /\ market.warm <=> Elapsed(before) >= Baseline - Recent
  <2>1. PICK c \in Coins :
           /\ market = Rolling(c, engine.history[c])
           /\ RowsIn(FedLine, Len(fed), c) # {}
           /\ Tells(engine.previous[c], engine.history[c], RowsIn(FedLine, Len(fed), c))
    BY DEF EngineInv, EngineFits
  <2>2. PICK h, p, rows : /\ h = engine.history[c]
                          /\ p = engine.previous[c]
                          /\ rows = RowsIn(FedLine, Len(fed), c)
    OBVIOUS
  <2>3. rows # {} /\ Tells(p, h, rows) /\ Fits(p, h, rows) /\ market = Rolling(c, h)
    BY <2>1, <2>2 DEF EngineInv, EngineFits, MarketFits
  <2>4. RowsOf(c) = rows
    <3>1. DOMAIN fed = 1 .. Len(fed)
      BY DEF ScanInv, ScanType
    <3>2. \A k \in 1 .. Len(fed) : FedLine[k] = Snapshot(k)
      BY DEF FedLine
    <3> DEFINE With == {k \in 1 .. Len(fed) : c \in DOMAIN Snapshot(k)}
               New == {k \in With : \A m \in With : m < k => Snapshot(m)[c].ts < Snapshot(k)[c].ts}
    <3>3. RowsOf(c) = {Snapshot(k)[c] : k \in New}
      BY <3>1 DEF RowsOf
    <3>4. With = {k \in 1 .. Len(fed) : c \in DOMAIN FedLine[k]}
      BY <3>2
    <3>5. \A k \in With : FedLine[k] = Snapshot(k)
      BY <3>2
    <3>6. New = {k \in With : \A m \in With : m < k => FedLine[m][c].ts < FedLine[k][c].ts}
      <4> HIDE DEF With
      <4> QED BY <3>5
    <3>7. rows = {FedLine[k][c] : k \in New}
      <4> HIDE DEF With, New
      <4> QED BY <2>2, <3>4, <3>6 DEF RowsIn
    <3>8. \A k \in New : FedLine[k] = Snapshot(k)
      BY <3>5
    <3> HIDE DEF New
    <3> QED BY <3>3, <3>7, <3>8
  <2>5. Latest(rows) = p /\ p.ts \in Int /\ Last(h).ts = p.ts
    <3>1. rows \in SUBSET MarketRows /\ IsLatest(p, rows) /\ p \in MarketRows
      BY <2>3 DEF Fits, IsLatest
    <3> QED BY <2>3, <3>1, LatestIs, RowIs DEF Tells
  <2>6. /\ Recent \in Nat /\ Baseline \in Nat /\ History \in Nat
        /\ Recent < Baseline /\ Baseline <= History
    BY ActivityAssumption
  <2> DEFINE now == p.ts
             recent == Between(h, now - Recent, now)
             base == Between(h, now - Baseline, now - Recent)
  <2>7. /\ now - Recent \in Int /\ now - Baseline \in Int
        /\ now - History <= now - Recent /\ now - History <= now - Baseline
        /\ now <= now /\ now - Recent <= now
    BY <2>5, <2>6
  <2>8. Volume(h, recent) = Traded(MovesIn(rows, now - Recent, now))
    BY <2>3, <2>5, <2>7, SumsAgree
  <2>9. /\ Volume(h, base) = Traded(MovesIn(rows, now - Baseline, now - Recent))
        /\ Seconds(h, base) = Elapsed(MovesIn(rows, now - Baseline, now - Recent))
    BY <2>3, <2>5, <2>7, SumsAgree
  <2>10. /\ market.coin = c /\ market.ts = now
         /\ market.recent = Volume(h, recent) /\ market.baseline = Volume(h, base)
         /\ market.warm <=> Seconds(h, base) >= Baseline - Recent
    BY <2>3, <2>5 DEF Rolling
  <2> HIDE DEF now, recent, base
  <2>11. RowsOf(market.coin) = rows /\ Latest(rows).ts = now
    BY <2>4, <2>5, <2>10 DEF now
  <2> QED BY <2>3, <2>8, <2>9, <2>10, <2>11
<1> QED BY <1>1, <1>2 DEF ActivityMatchesHistory

(* What the selection is told of a market is what all the rows that were   *)
(* fed say, and no update raises: for any markets, windows, volumes, days  *)
(* and jumps of the clock.                                                 *)
THEOREM ActivityIsHistory == Spec => []ActivityMatchesHistory
<1>1. ScanInv /\ EngineInv => ActivityMatchesHistory
  BY EngineInvSays
<1> QED BY <1>1, ScanInvHolds, EngineInvHolds, PTL
=============================================================================
